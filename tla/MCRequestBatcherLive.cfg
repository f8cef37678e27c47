SPECIFICATION FairSpec
CONSTANTS
  callA = callA
  callB = callB
  callC = callC
  k1 = k1
  k2 = k2
  partP = partP
  partQ = partQ
  Isolated = Isolated
  Cancellable <- MCTwoCalls
  Calls <- MCTwoCalls
  Keys <- MCKeys
  Records <- MCTwoRecords
  Operations <- MCTwoOperations
  Size <- MCTwoSize
  Partition <- MCTwoPartition
  MaxConcurrent = 1
  MaxOperations = 3
  MaxBytes = 4
  MaxQueuedOperations = 4
  MaxQueuedBytes = 4
PROPERTY Answered
