-------------------------- MODULE MCRequestBatcher --------------------------
\* Small instances of RequestBatcher: a chain of calls over two records in which
\* callA and callC are linked only through callB, and queue limits that reject one
\* call while the other two wait.
EXTENDS RequestBatcherProofs, TLC

CONSTANTS callA, callB, callC, k1, k2, partP, partQ

MCCalls == {callA, callB, callC}
MCKeys == {k1, k2}
MCRecords == callA :> {k1} @@ callB :> {k1, k2} @@ callC :> {k2}
MCOperations == callA :> 1 @@ callB :> 2 @@ callC :> 1
MCSize == callA :> 1 @@ callB :> 1 @@ callC :> 2
MCPartition == callA :> partP @@ callB :> partP @@ callC :> partQ
MCCancellable == {callB}

\* Two calls, one of them isolated, for the liveness properties.
MCTwoCalls == {callB, callC}
MCTwoRecords == callB :> {k1, k2} @@ callC :> {k2}
MCTwoOperations == callB :> 2 @@ callC :> 1
MCTwoSize == callB :> 1 @@ callC :> 2
MCTwoPartition == callB :> partP @@ callC :> Isolated

=============================================================================
