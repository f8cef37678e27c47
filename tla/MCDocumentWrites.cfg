SPECIFICATION Spec
CONSTANTS
  c1 = c1
  c2 = c2
  x = x
  y = y
  o1 = o1
  o2 = o2
  o3 = o3
  o4 = o4
  o5 = o5
  alice = alice
  bob = bob
  Calls <- MCCalls
  Records <- MCRecords
  Ops <- MCOps
  Chain <- MCChain
  Kind <- MCKind
  Owner <- MCOwner
  Returns <- MCReturns
  Malformed = {}
  Legacy = {x}
  MaxMergeAttempts = 2
  MaxDeletes = 1
  Faults = {"lua", "lost", "error"}
INVARIANT ResultsTrue
PROPERTIES ImplementsAtomic PublishedFinal
