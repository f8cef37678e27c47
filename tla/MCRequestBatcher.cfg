SPECIFICATION Spec
CONSTANTS
  callA = callA
  callB = callB
  callC = callC
  k1 = k1
  k2 = k2
  partP = partP
  partQ = partQ
  Isolated = Isolated
  Cancellable <- MCCancellable
  Calls <- MCCalls
  Keys <- MCKeys
  Records <- MCRecords
  Operations <- MCOperations
  Size <- MCSize
  Partition <- MCPartition
  MaxConcurrent = 2
  MaxOperations = 3
  MaxBytes = 4
  MaxQueuedOperations = 3
  MaxQueuedBytes = 4
INVARIANTS AccountsExact DrainComplete
PROPERTY ImplementsQueue
