--------------------------- MODULE RequestBatcher ---------------------------
(***************************************************************************)
(* The synchronous request batcher of internal/service/batcher.go, with    *)
(* the execution of write batches of batching_server.go as far as the      *)
(* batcher sees it: chunks of calls, final results per record, errors.     *)
(*                                                                         *)
(* A call (one RPC) touches a set of records, counts operations and bytes  *)
(* against the queue, and belongs to a partition (dataset and completion   *)
(* mode) or is isolated.  The goroutines are the submitting callers, the   *)
(* dispatcher run(), and one goroutine per launched batch; they share the  *)
(* input channel, the channels recordsDone and completed, and the queue    *)
(* counters under queueMu.                                                 *)
(*                                                                         *)
(* Definitions named like the one that follows them with a suffix are      *)
(* mutations used to show that the properties can fail.                    *)
(***************************************************************************)
EXTENDS Integers, Sequences, FiniteSets, Functions

CONSTANTS
  Calls, Keys,
  Records,              \* [Calls -> SUBSET Keys], distinct records of the call
  Operations, Size,     \* [Calls -> Nat \ {0}], [Calls -> Nat]
  Partition,            \* [Calls -> partitions]; Isolated runs alone
  Isolated,
  MaxConcurrent,        \* 0 means unlimited
  MaxOperations, MaxBytes, MaxQueuedOperations, MaxQueuedBytes,
  Cancellable           \* bound: the calls whose context may end early

ASSUME BatcherAssumption ==
  /\ Records \in [Calls -> (SUBSET Keys) \ {{}}]
  /\ Operations \in [Calls -> Nat \ {0}]
  /\ Size \in [Calls -> Nat]
  /\ MaxConcurrent \in Nat
  /\ {MaxOperations, MaxBytes, MaxQueuedOperations, MaxQueuedBytes} \subseteq Nat \ {0}
  /\ Cancellable \subseteq Calls

VARIABLES
  stage,        \* [Calls -> where the call is]
  cancelled,    \* calls whose context is done
  retained,     \* calls whose input memory is retained
  queuedCalls, queuedOperations, queuedBytes,   \* under queueMu
  input,        \* the input channel
  wake,         \* a token is in the wake channel
  pc,           \* where run() is
  pending, active, running,   \* locals of run()
  batches,      \* launched batches whose goroutine has not finished
  failing,      \* batches of which the core has returned an error
  todo,         \* [Calls -> records the execution may still mutate]
  pendingRecords,   \* [Calls -> call.pendingRecords]
  recordsDone, completed,     \* channels read by run()
  stopped,      \* b.ctx is cancelled
  arrivals,     \* history: calls in the order they entered input
  settled       \* history: [Keys -> arrival number of the last call that took effect]

submitVars == <<cancelled, stopped, arrivals>>
queueVars == <<queuedCalls, queuedOperations, queuedBytes>>
runVars == <<pc, pending, active, running>>
execVars == <<batches, failing, todo, pendingRecords, settled>>
chanVars == <<input, wake, recordsDone, completed>>
vars == <<stage, retained, submitVars, queueVars, runVars, execVars, chanVars>>

ChannelCap == IF MaxConcurrent > 1024 THEN 1024 ELSE IF MaxConcurrent < 1 THEN 1 ELSE MaxConcurrent
Sum(f, S) == SumFunctionOnSet(f, S)
\* The position at which call c entered input, 0 if it did not.
Arrival(c) == IF c \in Range(arrivals) THEN CHOOSE i \in DOMAIN arrivals : arrivals[i] = c ELSE 0

Init ==
  /\ stage = [c \in Calls |-> "new"]
  /\ cancelled = {} /\ retained = {} /\ stopped = FALSE
  /\ queuedCalls = 0 /\ queuedOperations = 0 /\ queuedBytes = 0
  /\ input = <<>> /\ wake = FALSE /\ recordsDone = <<>> /\ completed = 0
  /\ pc = "top" /\ pending = <<>> /\ running = 0
  /\ active = [k \in Keys |-> 0]
  /\ batches = {} /\ failing = {}
  /\ todo = [c \in Calls |-> {}]
  /\ pendingRecords = [c \in Calls |-> {}]
  /\ arrivals = <<>>
  /\ settled = [k \in Keys |-> 0]

-----------------------------------------------------------------------------
\* Helpers shared by the goroutines.

\* The elements of s at the positions in I, in their order.
Place(I, n) == CHOOSE i \in I : Cardinality({j \in I : j <= i}) = n
Keep(s, I) == [n \in 1..Cardinality(I) |-> s[Place(I, n)]]

\* release() of every call in S: the queue counters give back what they took.
Release(S) ==
  /\ queuedCalls' = queuedCalls - Cardinality(S)
  /\ queuedOperations' = queuedOperations - Sum(Operations, S)
  /\ queuedBytes' = queuedBytes - Sum(Size, S)

\* completeCall() of queued calls: answer once and drop the input memory.
CompleteQueued(S) ==
  /\ stage' = [c \in Calls |-> IF c \in S THEN "done" ELSE stage[c]]
  /\ retained' = retained \ S

\* onRecordsDone(): the send blocks while the channel is full, and is given up
\* once the batcher stops.
SignalRecords(keys) ==
  \/ keys = {} /\ UNCHANGED recordsDone
  \/ /\ keys # {} /\ Len(recordsDone) < ChannelCap
     /\ recordsDone' = Append(recordsDone, keys)
  \/ keys # {} /\ stopped /\ UNCHANGED recordsDone

-----------------------------------------------------------------------------
\* Submit.

\* reserve(): rejected when stopped or when a queue limit would be crossed.
QueueFull(c) ==
  \/ Operations[c] > MaxQueuedOperations
  \/ queuedOperations > MaxQueuedOperations - Operations[c]
  \/ Size[c] > MaxQueuedBytes
  \/ queuedBytes > MaxQueuedBytes - Size[c]

Reject(c) ==
  /\ stage[c] = "new"
  /\ stopped \/ c \in cancelled \/ QueueFull(c)
  /\ stage' = [stage EXCEPT ![c] = "done"]
  /\ UNCHANGED <<retained, submitVars, queueVars, runVars, execVars, chanVars>>

Reserve(c) ==
  /\ stage[c] = "new"
  /\ c \notin cancelled /\ ~stopped /\ ~QueueFull(c)
  /\ queuedCalls' = queuedCalls + 1
  /\ queuedOperations' = queuedOperations + Operations[c]
  /\ queuedBytes' = queuedBytes + Size[c]
  /\ retained' = retained \cup {c}
  /\ stage' = [stage EXCEPT ![c] = "reserved"]
  /\ UNCHANGED <<submitVars, runVars, execVars, chanVars>>

\* The send on input may win although the batcher stopped after the check.
Enqueue(c) ==
  /\ stage[c] = "reserved"
  /\ Len(input) < MaxQueuedOperations
  /\ input' = Append(input, c)
  /\ arrivals' = Append(arrivals, c)
  /\ stage' = [stage EXCEPT ![c] = "queued"]
  /\ UNCHANGED <<retained, cancelled, stopped, queueVars, runVars, execVars,
                 wake, recordsDone, completed>>

Withdraw(c) ==
  /\ stage[c] = "reserved"
  /\ stopped \/ c \in cancelled
  /\ Release({c})
  /\ retained' = retained \ {c}
  /\ stage' = [stage EXCEPT ![c] = "done"]
  /\ UNCHANGED <<submitVars, runVars, execVars, chanVars>>

\* The caller's context ends; AfterFunc leaves a token in wake until release().
Cancel(c) ==
  /\ stage[c] # "done" /\ c \in Cancellable \ cancelled
  /\ cancelled' = cancelled \cup {c}
  /\ wake' = (wake \/ stage[c] \in {"reserved", "queued", "pending"})
  /\ UNCHANGED <<stage, retained, stopped, arrivals, queueVars, runVars, execVars,
                 input, recordsDone, completed>>

Stop ==
  /\ ~stopped
  /\ stopped' = TRUE
  /\ UNCHANGED <<stage, retained, cancelled, arrivals, queueVars, runVars,
                 execVars, chanVars>>

-----------------------------------------------------------------------------
\* selectReady(): one pass over pending takes the calls at the positions of a
\* set I, which is the only set that decides about every position by what it
\* holds of the positions before.

Taken(I, i) == {pending[j] : j \in {j \in I : j < i}}
Left(I, i) == {pending[j] : j \in 1..(i - 1) \ I}
Chosen(I) == {pending[i] : i \in I}

\* A record of the call is occupied, or reserved for a call left behind.
DependentOnActive(I, i) == \E k \in Records[pending[i]] : active[k] > 0
Dependent(I, i) ==
  \E k \in Records[pending[i]] : active[k] > 0 \/ \E d \in Left(I, i) : k \in Records[d]

Fits(I, i) ==
  \/ Taken(I, i) = {}
  \/ /\ Operations[pending[i]] <= MaxOperations - Sum(Operations, Taken(I, i))
     /\ Size[pending[i]] <= MaxBytes - Sum(Size, Taken(I, i))

Compatible(I, i) ==
  \A d \in Taken(I, i) : Partition[d] = Partition[pending[i]] /\ Partition[d] # Isolated

SelectReady(I) ==
  \A i \in DOMAIN pending : i \in I <=> ~Dependent(I, i) /\ Fits(I, i) /\ Compatible(I, i)

\* The reason is not max_wait: the batch need not collect any longer.
BatchFull(I) ==
  \/ \E i \in DOMAIN pending \ I : ~Fits(I, i) /\ ~Dependent(I, i)
  \/ Sum(Operations, Chosen(I)) >= MaxOperations \/ Sum(Size, Chosen(I)) >= MaxBytes

-----------------------------------------------------------------------------
\* run(): one iteration is RunTop, then RunLaunch or RunBlock, then (if it
\* blocked) one of the events of its select.

\* Drain input, then answer the calls whose context is done.
RunTop ==
  /\ pc = "top" /\ ~stopped
  /\ LET all == pending \o input
         dead == Range(all) \cap cancelled
     IN /\ pending' = Keep(all, {i \in DOMAIN all : all[i] \notin cancelled})
        /\ Release(dead)
        /\ retained' = retained \ dead
        /\ stage' = [c \in Calls |-> CASE c \in dead -> "done"
                                       [] c \in Range(input) \ dead -> "pending"
                                       [] OTHER -> stage[c]]
  /\ input' = <<>>
  /\ pc' = "select"
  /\ UNCHANGED <<submitVars, active, running, execVars, wake, recordsDone, completed>>

MayRun == MaxConcurrent = 0 \/ running < MaxConcurrent

\* Launch the selected calls: also when the collection window has elapsed.
RunLaunch ==
  /\ pc = "select" /\ MayRun
  /\ \E I \in (SUBSET DOMAIN pending) \ {{}} :
       /\ SelectReady(I)
       /\ LET S == Chosen(I) IN
          /\ Release(S)
          /\ stage' = [c \in Calls |-> IF c \in S THEN "launched" ELSE stage[c]]
          /\ pendingRecords' = [c \in Calls |-> IF c \in S THEN Records[c] ELSE pendingRecords[c]]
          /\ todo' = [c \in Calls |-> IF c \in S THEN Records[c] ELSE todo[c]]
          /\ active' = [k \in Keys |-> active[k] + Cardinality({c \in S : k \in Records[c]})]
       /\ pending' = Keep(pending, DOMAIN pending \ I)
       /\ batches' = batches \cup {Keep(pending, I)}
  /\ running' = running + 1
  /\ pc' = "top"
  /\ UNCHANGED <<retained, submitVars, failing, settled, chanVars>>

\* A batch is ready but its collection window is still open: a timer is armed.
TimerArmed == MayRun /\ \E I \in (SUBSET DOMAIN pending) \ {{}} : SelectReady(I)

\* Nothing is launched now.
RunBlock ==
  /\ pc = "select"
  /\ MayRun => \A I \in (SUBSET DOMAIN pending) \ {{}} : SelectReady(I) => ~BatchFull(I)
  /\ pc' = "blocked"
  /\ UNCHANGED <<stage, retained, submitVars, queueVars, pending, active, running,
                 execVars, chanVars>>

RecvInput ==
  /\ pc = "blocked" /\ input # <<>>
  /\ pending' = Append(pending, Head(input))
  /\ input' = Tail(input)
  /\ stage' = [stage EXCEPT ![Head(input)] = "pending"]
  /\ pc' = "top"
  /\ UNCHANGED <<retained, submitVars, queueVars, active, running, execVars,
                 wake, recordsDone, completed>>

RecvCompleted ==
  /\ pc = "blocked" /\ completed > 0
  /\ completed' = completed - 1
  /\ running' = running - 1
  /\ pc' = "top"
  /\ UNCHANGED <<stage, retained, submitVars, queueVars, pending, active,
                 execVars, input, wake, recordsDone>>

RecvRecordsDoneOnlyLast ==
  /\ pc = "blocked" /\ recordsDone # <<>>
  /\ active' = [k \in Keys |-> IF k \in Head(recordsDone) /\ active[k] > 1
                              THEN active[k] - 1 ELSE active[k]]
  /\ recordsDone' = Tail(recordsDone)
  /\ pc' = "top"
  /\ UNCHANGED <<stage, retained, submitVars, queueVars, pending, running,
                 execVars, input, wake, completed>>
RecvRecordsDone ==
  /\ pc = "blocked" /\ recordsDone # <<>>
  /\ active' = [k \in Keys |-> IF k \in Head(recordsDone) THEN active[k] - 1 ELSE active[k]]
  /\ recordsDone' = Tail(recordsDone)
  /\ pc' = "top"
  /\ UNCHANGED <<stage, retained, submitVars, queueVars, pending, running,
                 execVars, input, wake, completed>>

\* wake, deadline or b.ctx.Done(): nothing but another iteration.
RecvSignal ==
  /\ pc = "blocked"
  /\ \/ wake /\ wake' = FALSE
     \/ (TimerArmed \/ stopped) /\ UNCHANGED wake
  /\ pc' = "top"
  /\ UNCHANGED <<stage, retained, submitVars, queueVars, pending, active, running,
                 execVars, input, recordsDone, completed>>

\* The batcher has stopped: fail what is pending, then drain.
RunStop ==
  /\ pc = "top" /\ stopped
  /\ Release(Range(pending))
  /\ CompleteQueued(Range(pending))
  /\ pending' = <<>>
  /\ pc' = "draining"
  /\ UNCHANGED <<submitVars, active, running, execVars, chanVars>>

DrainOne ==
  /\ pc = "draining" /\ queuedCalls > 0 /\ input # <<>>
  /\ Release({Head(input)})
  /\ CompleteQueued({Head(input)})
  /\ input' = Tail(input)
  /\ UNCHANGED <<submitVars, runVars, execVars, wake, recordsDone, completed>>

\* drain() ends when nobody holds a reservation, not when input is empty.
DrainEndWhenEmpty ==
  /\ pc = "draining" /\ input = <<>>
  /\ pc' = "awaiting"
  /\ UNCHANGED <<stage, retained, submitVars, queueVars, pending, active, running,
                 execVars, chanVars>>
DrainEnd ==
  /\ pc = "draining" /\ queuedCalls = 0
  /\ pc' = "awaiting"
  /\ UNCHANGED <<stage, retained, submitVars, queueVars, pending, active, running,
                 execVars, chanVars>>

AwaitOne ==
  /\ pc = "awaiting" /\ running > 0 /\ completed > 0
  /\ completed' = completed - 1
  /\ running' = running - 1
  /\ UNCHANGED <<stage, retained, submitVars, queueVars, pc, pending, active,
                 execVars, input, wake, recordsDone>>

RunExit ==
  /\ pc = "awaiting" /\ running = 0
  /\ pc' = "exited"
  /\ UNCHANGED <<stage, retained, submitVars, queueVars, pending, active, running,
                 execVars, chanVars>>

-----------------------------------------------------------------------------
\* The goroutine of a batch.  A chunk is the next run of calls that fit the
\* execution memory; its live calls go through the core together.

Begun(b) == {c \in Range(b) : stage[c] = "executing"}
Unbegun(b) == {i \in DOMAIN b : stage[b[i]] = "launched"}

\* liveMutationCalls, before a chunk: completeCall() answers a cancelled call
\* without executing it and releases its records.
SkipCancelled(b, c) ==
  /\ Begun(b) = {} /\ stage[c] = "launched" /\ c \in cancelled
  /\ SignalRecords(pendingRecords[c])
  /\ pendingRecords' = [pendingRecords EXCEPT ![c] = {}]
  /\ todo' = [todo EXCEPT ![c] = {}]
  /\ stage' = [stage EXCEPT ![c] = "answered"]
  /\ UNCHANGED <<retained, submitVars, queueVars, runVars, batches, failing, settled,
                 input, wake, completed>>

\* The next calls that fit the execution memory enter the core together.
BeginChunk(b) ==
  /\ Begun(b) = {} /\ Unbegun(b) # {}
  /\ \E chunk \in {{b[j] : j \in {j \in Unbegun(b) : j <= i}} : i \in Unbegun(b)} :
       /\ chunk \cap cancelled = {}
       /\ stage' = [c \in Calls |-> IF c \in chunk THEN "executing" ELSE stage[c]]
  /\ UNCHANGED <<retained, submitVars, queueVars, runVars, execVars, chanVars>>

\* The outcome of call c on record k becomes final; a record's operations are
\* evaluated in call order.
Settle(b, i, k) ==
  /\ b \notin failing /\ stage[b[i]] = "executing" /\ k \in todo[b[i]]
  /\ \A j \in 1..(i - 1) : k \notin todo[b[j]]
  /\ todo' = [todo EXCEPT ![b[i]] = @ \ {k}]
  /\ settled' = [settled EXCEPT ![k] = Arrival(b[i])]
  /\ UNCHANGED <<stage, retained, submitVars, queueVars, runVars, batches, failing,
                 pendingRecords, chanVars>>

\* writeCompletion.operation: release the record, and answer after the last one.
Publish(b, c, k) ==
  /\ b \notin failing /\ stage[c] = "executing" /\ k \in pendingRecords[c] \ todo[c]
  /\ SignalRecords({k})
  /\ pendingRecords' = [pendingRecords EXCEPT ![c] = @ \ {k}]
  /\ IF pendingRecords'[c] = {}
     THEN stage' = [stage EXCEPT ![c] = "answered"]
     ELSE UNCHANGED stage
  /\ UNCHANGED <<retained, submitVars, queueVars, runVars, batches, failing, todo, settled,
                 input, wake, completed>>

\* The core returns an error: it mutates nothing of this chunk any more.
ChunkError(b) ==
  /\ b \notin failing /\ Begun(b) # {}
  /\ failing' = failing \cup {b}
  /\ todo' = [c \in Calls |-> IF c \in Begun(b) THEN {} ELSE todo[c]]
  /\ UNCHANGED <<stage, retained, submitVars, queueVars, runVars, batches,
                 pendingRecords, settled, chanVars>>

\* writeCompletion.finish with an error: completeCall() answers, then releases
\* every record the call still holds.
CompleteErrorAllRecords(b, c) ==
  /\ stage[c] = "executing" /\ b \in failing
  /\ SignalRecords(Records[c])
  /\ pendingRecords' = [pendingRecords EXCEPT ![c] = {}]
  /\ stage' = [stage EXCEPT ![c] = "answered"]
  /\ failing' = IF Begun(b) \subseteq {c} THEN failing \ {b} ELSE failing
  /\ UNCHANGED <<retained, submitVars, queueVars, runVars, batches, todo, settled,
                 input, wake, completed>>
CompleteError(b, c) ==
  /\ stage[c] = "executing" /\ b \in failing
  /\ SignalRecords(pendingRecords[c])
  /\ pendingRecords' = [pendingRecords EXCEPT ![c] = {}]
  /\ stage' = [stage EXCEPT ![c] = "answered"]
  /\ failing' = IF Begun(b) \subseteq {c} THEN failing \ {b} ELSE failing
  /\ UNCHANGED <<retained, submitVars, queueVars, runVars, batches, todo, settled,
                 input, wake, completed>>

\* executeBatch() returns: the input memory of its calls is released and the
\* batch is reported on completed.  The count of completed includes a goroutine
\* that is still blocked in its send: run() takes from both alike.
BatchDone(b) ==
  /\ \A c \in Range(b) : stage[c] = "answered"
  /\ batches' = batches \ {b}
  /\ retained' = retained \ Range(b)
  /\ stage' = [c \in Calls |-> IF c \in Range(b) THEN "done" ELSE stage[c]]
  /\ completed' = completed + 1
  /\ UNCHANGED <<submitVars, queueVars, runVars, failing, todo, pendingRecords,
                 settled, input, wake, recordsDone>>

-----------------------------------------------------------------------------
Run ==
  \/ RunTop \/ RunLaunch \/ RunBlock
  \/ RecvInput \/ RecvCompleted \/ RecvRecordsDone \/ RecvSignal
  \/ RunStop \/ DrainOne \/ DrainEnd \/ AwaitOne \/ RunExit

Execute(b) ==
  \/ \E c \in Range(b) : SkipCancelled(b, c)
  \/ BeginChunk(b)
  \/ \E i \in DOMAIN b, k \in Keys : Settle(b, i, k)
  \/ \E c \in Range(b), k \in Keys : Publish(b, c, k)
  \/ ChunkError(b)
  \/ \E c \in Range(b) : CompleteError(b, c)
  \/ BatchDone(b)

Submit(c) == Reject(c) \/ Reserve(c) \/ Enqueue(c) \/ Withdraw(c)

Finished == pc = "exited" /\ \A c \in Calls : stage[c] = "done"

Next ==
  \/ \E c \in Calls : Submit(c) \/ Cancel(c)
  \/ Stop
  \/ Run
  \/ \E b \in batches : Execute(b)
  \/ Finished /\ UNCHANGED vars

Spec == Init /\ [][Next]_vars

\* Goroutines run; the core returns within its request timeout; Go's select
\* chooses uniformly among ready channels; the collection window elapses.
ExecuteFor(c) ==
  \E b \in batches : /\ c \in Range(b)
                     /\ \/ SkipCancelled(b, c) \/ BeginChunk(b)
                        \/ \E i \in DOMAIN b, k \in Keys : Settle(b, i, k)
                        \/ \E k \in Keys : Publish(b, c, k)
                        \/ CompleteError(b, c) \/ BatchDone(b)

Fairness ==
  /\ WF_vars(Run)
  /\ SF_vars(RunLaunch) /\ SF_vars(RecvCompleted) /\ SF_vars(RecvRecordsDone)
  /\ \A c \in Calls : WF_vars(Enqueue(c) \/ Withdraw(c)) /\ WF_vars(ExecuteFor(c))

FairSpec == Spec /\ Fairness

-----------------------------------------------------------------------------
Stages == {"new", "reserved", "queued", "pending", "launched", "executing", "answered", "done"}
InQueue == {c \in Calls : stage[c] \in {"reserved", "queued", "pending"}}
InBatch == {c \in Calls : stage[c] \in {"launched", "executing", "answered"}}

\* Types of the state; queue counters and occupancy counts never go negative.
TypeOK ==
  /\ stage \in [Calls -> Stages]
  /\ cancelled \subseteq Calls /\ retained \subseteq Calls
  /\ queuedCalls \in Nat /\ queuedOperations \in Nat /\ queuedBytes \in Nat
  /\ running \in Nat /\ completed \in Nat
  /\ wake \in BOOLEAN /\ stopped \in BOOLEAN
  /\ pc \in {"top", "select", "blocked", "draining", "awaiting", "exited"}
  /\ pending \in Seq(Calls) /\ input \in Seq(Calls) /\ arrivals \in Seq(Calls)
  /\ batches \subseteq Seq(Calls) /\ failing \subseteq batches
  /\ recordsDone \in Seq(SUBSET Keys)
  /\ active \in [Keys -> Nat] /\ settled \in [Keys -> Nat]
  /\ todo \in [Calls -> SUBSET Keys] /\ pendingRecords \in [Calls -> SUBSET Keys]
  /\ \A c \in Calls : todo[c] \subseteq pendingRecords[c]

\* The queue counters of reserve() and release() are exactly the sum over the
\* calls between the two, so no interleaving of cancellation, dispatch and
\* shutdown releases a reservation twice or keeps one, and the limits hold.
QueueAccounting ==
  /\ queuedCalls = Cardinality(InQueue)
  /\ queuedOperations = Sum(Operations, InQueue)
  /\ queuedBytes = Sum(Size, InQueue)
  /\ queuedOperations <= MaxQueuedOperations /\ queuedBytes <= MaxQueuedBytes

\* Two batches executing at the same time never both have a mutation of the same
\* record ahead of them, also after a caller of one of them was cancelled.
RecordExclusive ==
  \A b1, b2 \in batches : b1 # b2 =>
    \A c1 \in Range(b1), c2 \in Range(b2) : todo[c1] \cap todo[c2] = {}

\* run()'s occupancy count of a record is exactly the callers that still hold it
\* plus the releases on their way through recordsDone.
OccupancyExact ==
  ~stopped => \A k \in Keys :
    active[k] = Cardinality({c \in Calls : k \in pendingRecords[c]})
                + Cardinality({i \in DOMAIN recordsDone : k \in recordsDone[i]})

\* A call's input memory stays retained from its reservation until it is answered
\* from the queue or its whole batch has finished, and not longer.
MemoryHeld == retained = InQueue \cup InBatch

\* A batch of several calls respects the operation and byte limits and joins one
\* partition only; an isolated call runs alone; concurrency is bounded.
BatchLimits ==
  /\ \A b \in batches : Len(b) > 1 =>
       /\ Sum(Operations, Range(b)) <= MaxOperations
       /\ Sum(Size, Range(b)) <= MaxBytes
       /\ \A c \in Range(b) : Partition[c] = Partition[b[1]] /\ Partition[c] # Isolated
  /\ MaxConcurrent # 0 => Cardinality(batches) <= MaxConcurrent

\* What run() and the batches keep of the calls is exact at every moment: the
\* occupancy of records, the queue's counters, the retained input memory and
\* the limits of batches (reserve, release, selectReady, finishRecords).
AccountsExact ==
  /\ TypeOK /\ QueueAccounting /\ RecordExclusive /\ OccupancyExact /\ MemoryHeld /\ BatchLimits

\* Once drain() has returned no call is queued and none can enter the queue any
\* more, so no caller is left behind when run() exits.
DrainComplete ==
  /\ pc \in {"awaiting", "exited"} => InQueue = {} /\ input = <<>>
  /\ pc = "exited" => InBatch = {} /\ retained = {}

\* Every call that obtained a reservation is answered and leaves the batcher,
\* whatever is cancelled and even if the batcher stops.
Answered == \A c \in Calls : stage[c] = "reserved" ~> stage[c] = "done"

=============================================================================
