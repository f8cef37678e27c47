--------------------------- MODULE DocumentWrites ---------------------------
(***************************************************************************)
(* The execution of synchronous writes, internal/service (server.go,       *)
(* write.go, write_group.go), on a storage adapter with the contract of    *)
(* internal/storage/memory.  A call is one execution of Server.write: the  *)
(* operations of one RPC, or of the RPCs (owners) a batch combined.  Calls *)
(* of several processes and deletes interleave on the shared store.        *)
(*                                                                         *)
(* A document is the sequence of the operations it was made from.  Byte    *)
(* budgets and memory are choices: a reservation may be refused wherever   *)
(* the code asks for one.                                                  *)
(*                                                                         *)
(* Definitions named like the one that follows them with a suffix are      *)
(* mutations used to show that the properties can fail.                    *)
(***************************************************************************)
EXTENDS Integers, Sequences, FiniteSets, SequencesExt, FiniteSetsExt, TLC

CONSTANTS
  Calls, Records, Ops,
  Chain,             \* [Calls -> [Records -> Seq(Ops)]], in request order
  Kind,              \* [Ops -> {"put", "create", "replace", "merge"}]
  Owner,             \* [Ops -> the RPC the operation came with]
  Returns,           \* operations with return_document
  Malformed,         \* operations parseWrite rejects
  Legacy,            \* records stored before Sink kept revisions
  MaxMergeAttempts,
  MaxDeletes,        \* bound: deletes by other callers
  Faults             \* bound: the kinds of fault that may happen

OpsOf(c) == UNION {ToSet(Chain[c][k]) : k \in Records}

ASSUME WriteAssumption ==
  /\ \A c, d \in Calls, k, m \in Records : <<c, k>> # <<d, m>> =>
       ToSet(Chain[c][k]) \cap ToSet(Chain[d][m]) = {}
  /\ \A c \in Calls, k \in Records : IsInjective(Chain[c][k])
  /\ MaxMergeAttempts \in Nat \ {0}
  /\ Faults \subseteq {"lua", "budget", "memory", "item", "lost", "error", "defer"}

VARIABLES
  store,       \* [Records -> [exists, doc, rev]], rev 0 when there is no revision
  nextRevision,
  deletes,
  exec,        \* [Calls -> the execution's locals]
  result,      \* [Ops -> [status, doc]], the response being built
  completed,   \* operations whose result opts.complete has published
  effect       \* history: [Ops -> what the operation did to its record]

vars == <<store, nextRevision, deletes, exec, result, completed, effect>>

Absent == [exists |-> FALSE, doc |-> <<>>, rev |-> 0]
NoResult == [status |-> "none", doc |-> <<>>]
NoGroups == [k \in Records |-> <<>>]
Nothing == [k \in {} |-> {}]

Idle == [pc |-> "start", groups |-> NoGroups, wave |-> NoGroups, mode |-> "put",
         pending |-> {}, limit |-> 0, batch |-> {}, deferred |-> {},
         plan |-> Nothing, cand |-> Nothing, written |-> Nothing,
         next |-> {}, tries |-> 0]

Init ==
  /\ store = [k \in Records |-> IF k \in Legacy THEN [Absent EXCEPT !.exists = TRUE] ELSE Absent]
  /\ nextRevision = 0
  /\ deletes = 0
  /\ exec = [c \in Calls |-> Idle]
  /\ result = [o \in Ops |-> NoResult]
  /\ completed = {}
  /\ effect = [o \in Ops |-> "none"]

At(c, pc) == exec[c].pc = pc

Members(c, S) == UNION {ToSet(exec[c].wave[k]) : k \in S}

Report(S, status) == [o \in Ops |-> IF o \in S THEN [NoResult EXCEPT !.status = status] ELSE result[o]]

-----------------------------------------------------------------------------
\* Parsing and grouping.

\* buildWriteGroups: the operations of a record, in request order.
Begin(c) ==
  /\ At(c, "start")
  /\ LET bad == OpsOf(c) \cap Malformed
     IN /\ result' = Report(bad, "invalid")
        /\ completed' = completed \cup bad
        /\ exec' = [exec EXCEPT ![c].pc = "wave", ![c].groups =
             [k \in Records |-> SelectSeq(Chain[c][k], LAMBDA o : o \notin bad)]]
  /\ UNCHANGED <<store, nextRevision, deletes, effect>>

DirectPut(s) ==
  IF Len(s) = 1 THEN Kind[s[1]] # "merge" ELSE \A i \in DOMAIN s : Kind[s[i]] = "put"

\* A group in which some operation returns its document executes one
\* operation at a time; any other group executes as a whole.
Split(s) == Len(s) > 1 /\ ToSet(s) \cap Returns # {}

Rest(s) == IF Split(s) THEN Tail(s) ELSE <<>>

\* executeWriteGroups and executeWriteWave: the direct puts of a wave go
\* first, in one storage request.
Wave(c) ==
  /\ At(c, "wave")
  /\ LET groups == exec[c].groups
         live == {k \in Records : groups[k] # <<>>}
         wave == [k \in Records |-> IF Split(groups[k]) THEN <<groups[k][1]>> ELSE groups[k]]
     IN IF live = {}
        THEN exec' = [exec EXCEPT ![c] = [Idle EXCEPT !.pc = "done"]]
        ELSE exec' = [exec EXCEPT ![c].pc = "puts", ![c].wave = wave, ![c].mode = "put",
               ![c].groups = [k \in Records |-> Rest(groups[k])],
               ![c].pending = {k \in live : DirectPut(wave[k])},
               ![c].next = {k \in live : ~DirectPut(wave[k])}]
  /\ UNCHANGED <<store, nextRevision, deletes, result, completed, effect>>

-----------------------------------------------------------------------------
\* Preparing what is written.

\* storage.Precondition; revision 0 stands for PreconditionRevisionAbsent.
Condition(kind, rev) == [kind |-> kind, rev |-> rev]

Matches(condition, stored) ==
  CASE condition.kind = "none" -> TRUE
    [] condition.kind = "exists" -> stored.exists
    [] condition.kind = "absent" -> ~stored.exists
    [] condition.kind = "revision" -> stored.exists /\ stored.rev = condition.rev

PutCondition(o) ==
  Condition(CASE Kind[o] = "create" -> "absent" [] Kind[o] = "replace" -> "exists" [] OTHER -> "none", 0)

SnapshotCondition(stored) ==
  IF stored.exists THEN Condition("revision", stored.rev) ELSE Condition("absent", 0)

PutPlan(s) ==
  [include |-> TRUE, exists |-> TRUE, doc |-> <<Last(s)>>,
   condition |-> PutCondition(Last(s)), applied |-> ToSet(s), refused |-> {}, void |-> {}]

NoPlan == [include |-> FALSE, exists |-> FALSE, doc |-> <<>>, condition |-> Condition("absent", 0),
           applied |-> {}, refused |-> {}, void |-> {}]

\* prepareFoldedPut and prepareMergeOperation on the working state.
PrepareOperation(p, o, void) ==
  CASE o \in void -> [p EXCEPT !.void = @ \cup {o}]
    [] o \notin void /\ \/ Kind[o] = "create" /\ p.exists
                        \/ Kind[o] = "replace" /\ ~p.exists -> [p EXCEPT !.refused = @ \cup {o}]
    [] OTHER -> [p EXCEPT !.include = TRUE, !.exists = TRUE, !.applied = @ \cup {o},
                   !.doc = IF Kind[o] = "merge" THEN Append(@, o) ELSE <<o>>]

\* prepareBatchedWriteGroup: the chain is evaluated in order against the
\* snapshot and carries the condition taken from the snapshot.
PrepareGroup(s, stored, void) ==
  LET base == [NoPlan EXCEPT !.exists = stored.exists, !.doc = stored.doc,
                             !.condition = SnapshotCondition(stored)]
  IN FoldLeft(LAMBDA p, o : PrepareOperation(p, o, void), base, s)

\* What may go wrong in an evaluation: Lua programs fail, and owners have
\* no input or output budget left for their part of the chain.
Voids(s) ==
  {L \cup {o \in ToSet(s) : Owner[o] \in E} :
     L \in IF "lua" \in Faults THEN SUBSET {o \in ToSet(s) : Kind[o] = "merge"} ELSE {{}},
     E \in IF "budget" \in Faults THEN SUBSET {Owner[o] : o \in ToSet(s)} ELSE {{}}}

\* Every retry evaluates all operations again and replaces their results.
SpeculateSticky(p) ==
  [o \in Ops |-> CASE result[o].status \in {"precondition", "void"} -> result[o]
                   [] o \in p.applied -> NoResult
                   [] o \in p.refused -> [NoResult EXCEPT !.status = "precondition"]
                   [] o \in p.void -> [NoResult EXCEPT !.status = "void"]
                   [] OTHER -> result[o]]
Speculate(p) ==
  [o \in Ops |-> CASE o \in p.applied -> NoResult
                   [] o \in p.refused -> [NoResult EXCEPT !.status = "precondition"]
                   [] o \in p.void -> [NoResult EXCEPT !.status = "void"]
                   [] OTHER -> result[o]]

\* What the operations of a plan have done once it took effect.
Effected(p) ==
  [o \in Ops |-> CASE o \in p.applied -> "applied"
                   [] o \in p.refused -> "refused"
                   [] o \in p.void -> "void"
                   [] OTHER -> effect[o]]

\* executePuts up to the storage request: a put whose returned document
\* does not fit is not written.
Puts(c) ==
  /\ At(c, "puts")
  /\ \E full \in SUBSET {k \in exec[c].pending :
                           "budget" \in Faults /\ ToSet(exec[c].wave[k]) \cap Returns # {}} :
       /\ result' = Report(Members(c, full), "exhausted")
       /\ completed' = completed \cup Members(c, full)
       /\ exec' = [exec EXCEPT ![c].pc = "store",
            ![c].cand = [k \in exec[c].pending \ full |-> PutPlan(exec[c].wave[k])],
            ![c].pending = {}]
  /\ UNCHANGED <<store, nextRevision, deletes, effect>>

-----------------------------------------------------------------------------
\* Conditional writes: an attempt reads and commits its groups in chunks.

Spent(c) == exec[c].next # {} /\ exec[c].tries = MaxMergeAttempts

\* executeConditionalWrites: the groups that conflicted are tried again.
Attempt(c) ==
  /\ At(c, "attempt")
  /\ LET left == exec[c].next
     IN /\ result' = IF Spent(c) THEN Report(Members(c, left), "conflict") ELSE result
        /\ completed' = IF Spent(c) THEN completed \cup Members(c, left) ELSE completed
        /\ exec' = IF left = {} \/ Spent(c)
             THEN [exec EXCEPT ![c].pc = "wave", ![c].next = {}, ![c].tries = 0]
             ELSE [exec EXCEPT ![c].pc = "chunk", ![c].pending = left, ![c].next = {},
                     ![c].limit = Cardinality(left), ![c].tries = @ + 1]
  /\ UNCHANGED <<store, nextRevision, deletes, effect>>

\* executeWriteAttempt: the next chunk, or the end of the attempt.  The
\* order among the records of different chunks is left open.
Chunk(c) ==
  /\ At(c, "chunk")
  /\ IF exec[c].pending = {}
     THEN exec' = [exec EXCEPT ![c].pc = "attempt"]
     ELSE \E batch \in kSubset(Min({exec[c].limit, Cardinality(exec[c].pending)}), exec[c].pending) :
            exec' = [exec EXCEPT ![c].pc = "read", ![c].batch = batch, ![c].pending = @ \ batch]
  /\ UNCHANGED <<store, nextRevision, deletes, result, completed, effect>>

\* The memory for another chunk is refused: what is left fails.
ChunkRefused(c) ==
  /\ At(c, "chunk") /\ "memory" \in Faults
  /\ exec[c].pending # {}
  /\ result' = Report(Members(c, exec[c].pending), "exhausted")
  /\ completed' = completed \cup Members(c, exec[c].pending)
  /\ exec' = [exec EXCEPT ![c].pc = "attempt", ![c].pending = {}]
  /\ UNCHANGED <<store, nextRevision, deletes, effect>>

\* A snapshot and its evaluation, which is local to the execution.  A group
\* in which no operation succeeds has nothing to commit: the state it
\* depends on is the one read here.
Read(c, k) ==
  /\ At(c, "read") /\ k \in exec[c].batch
  /\ \E void \in Voids(exec[c].wave[k]) :
       LET p == PrepareGroup(exec[c].wave[k], store[k], void)
       IN /\ result' = Speculate(p)
          /\ effect' = IF p.include THEN effect ELSE Effected(p)
          /\ exec' = [exec EXCEPT ![c].batch = @ \ {k}, ![c].plan = (k :> p) @@ @]
  /\ UNCHANGED <<store, nextRevision, deletes, completed>>

\* The read of one record fails, or exceeds the budget of every owner.
ReadFailed(c, k) ==
  /\ At(c, "read") /\ "item" \in Faults
  /\ k \in exec[c].batch
  /\ result' = Report(Members(c, {k}), "failed")
  /\ exec' = [exec EXCEPT ![c].batch = @ \ {k}, ![c].plan = (k :> NoPlan) @@ @]
  /\ UNCHANGED <<store, nextRevision, deletes, completed, effect>>

\* ErrReadWorkingSetFull: the snapshots of this chunk leave no room for one
\* more.  The first document always finds room.
RoomTakenAlways(c) == TRUE
RoomTaken(c) == \E k \in DOMAIN exec[c].plan : exec[c].plan[k].condition.kind = "revision"

Combined(c) == Cardinality({Owner[o] : o \in OpsOf(c)}) > 1

Defer(c, k) ==
  /\ At(c, "read") /\ "defer" \in Faults
  /\ k \in exec[c].batch /\ store[k].exists
  /\ Combined(c) /\ RoomTaken(c)
  /\ exec' = [exec EXCEPT ![c].batch = @ \ {k}, ![c].deferred = @ \cup {k}]
  /\ UNCHANGED <<store, nextRevision, deletes, result, completed, effect>>

RequeuePending(c) == exec[c].pending
Requeue(c) == exec[c].pending \cup exec[c].deferred

\* The chunk is read; what it deferred comes next, in chunks of its size.
ReadReturn(c) ==
  /\ At(c, "read") /\ exec[c].batch = {}
  /\ LET count == Cardinality(DOMAIN exec[c].plan)
     IN exec' = [exec EXCEPT ![c].pc = "prepared",
          ![c].pending = Requeue(c),
          ![c].limit = IF exec[c].deferred = {} THEN @ ELSE Max({1, count}),
          ![c].deferred = {}]
  /\ UNCHANGED <<store, nextRevision, deletes, result, completed, effect>>

\* applyWriteSnapshots: candidates collect until their documents fill the
\* output allowance of a combined batch, and at the end of the chunk.  A
\* group whose memory or returned document is refused is not written.
Collect(c) ==
  /\ At(c, "prepared") /\ DOMAIN exec[c].plan # {}
  /\ \E S \in SUBSET DOMAIN exec[c].plan :
       LET included == {k \in S : exec[c].plan[k].include}
       IN /\ S # {} /\ (Combined(c) \/ S = DOMAIN exec[c].plan)
          /\ \E full \in IF "memory" \in Faults THEN SUBSET included ELSE {{}} :
               LET over == (S \ included) \cup full
               IN /\ result' = Report(Members(c, full), "exhausted")
                  /\ completed' = completed \cup Members(c, over)
                  /\ exec' = [exec EXCEPT ![c].pc = "store", ![c].mode = "cas",
                       ![c].cand = [k \in included \ full |-> exec[c].plan[k]],
                       ![c].plan = [k \in DOMAIN @ \ S |-> @[k]]]
  /\ UNCHANGED <<store, nextRevision, deletes, effect>>

ChunkDone(c) ==
  /\ At(c, "prepared") /\ DOMAIN exec[c].plan = {}
  /\ exec' = [exec EXCEPT ![c].pc = "chunk"]
  /\ UNCHANGED <<store, nextRevision, deletes, result, completed, effect>>

-----------------------------------------------------------------------------
\* The storage write.

Unwritten(c) == DOMAIN exec[c].cand \ DOMAIN exec[c].written

NewRevisionPerRecord(k) == store[k].rev + 1
NewRevision(k) == nextRevision + 1

\* One record is written under its condition.  The item may fail before it
\* took effect, or be reported failed although it did.
Store(c, k) ==
  /\ At(c, "store") /\ k \in Unwritten(c)
  /\ LET p == exec[c].cand[k]
         Respond(status) == exec' = [exec EXCEPT ![c].written = (k :> status) @@ @]
     IN \/ /\ Matches(p.condition, store[k])
           /\ store' = [store EXCEPT ![k] = [exists |-> TRUE, doc |-> p.doc, rev |-> NewRevision(k)]]
           /\ nextRevision' = nextRevision + 1
           /\ effect' = Effected(p)
           /\ \/ Respond("applied")
              \/ "lost" \in Faults /\ Respond("failed")
        \/ /\ ~Matches(p.condition, store[k])
           /\ effect' = IF exec[c].mode = "put"
                        THEN Effected([p EXCEPT !.applied = {}, !.refused = p.applied]) ELSE effect
           /\ Respond("precondition")
           /\ UNCHANGED <<store, nextRevision>>
        \/ /\ "item" \in Faults
           /\ Respond("failed")
           /\ UNCHANGED <<store, nextRevision, effect>>
  /\ UNCHANGED <<deletes, result, completed>>

\* applyWriteGroupResult and attachWriteDocument: speculative failures
\* become final when the chain commits.
Answer(o, doc, status) ==
  IF status = "applied"
  THEN IF result[o].status # "none" THEN result[o]
       ELSE [status |-> "applied", doc |-> IF o \in Returns THEN doc ELSE <<>>]
  ELSE [NoResult EXCEPT !.status = status]

\* The written groups whose result is final.
FinalAll(c) == DOMAIN exec[c].cand
Final(c) == {k \in DOMAIN exec[c].cand : exec[c].mode = "put" \/ exec[c].written[k] # "precondition"}

\* The results of a storage request.  A conflict of a conditional write
\* leaves its group for the next attempt.
StoreReturn(c) ==
  /\ At(c, "store") /\ Unwritten(c) = {}
  /\ LET cand == exec[c].cand
         written == exec[c].written
         conflicts == {k \in DOMAIN cand : exec[c].mode = "cas" /\ written[k] = "precondition"}
     IN /\ result' = [o \in Ops |->
             IF \E k \in Final(c) : o \in ToSet(exec[c].wave[k])
             THEN LET k == CHOOSE k \in Final(c) : o \in ToSet(exec[c].wave[k])
                  IN Answer(o, cand[k].doc, written[k])
             ELSE result[o]]
        /\ completed' = completed \cup Members(c, Final(c))
        /\ exec' = [exec EXCEPT
             ![c].pc = IF exec[c].mode = "put" THEN "attempt" ELSE "prepared",
             ![c].next = @ \cup conflicts,
             ![c].cand = Nothing, ![c].written = Nothing]
  /\ UNCHANGED <<store, nextRevision, deletes, effect>>

\* The points at which the code checks the context or calls the storage.
Interruptible(c) ==
  \/ At(c, "attempt") /\ exec[c].next # {} /\ exec[c].tries < MaxMergeAttempts
  \/ At(c, "chunk") /\ exec[c].pending # {}
  \/ At(c, "read")
  \/ At(c, "prepared") /\ \E k \in DOMAIN exec[c].plan : exec[c].plan[k].include
  \/ At(c, "store") /\ DOMAIN exec[c].cand # {}

\* The execution returns an error: the context is done, or a whole storage
\* request failed, at any point of its progress.
Fail(c) ==
  /\ "error" \in Faults /\ Interruptible(c)
  /\ exec' = [exec EXCEPT ![c] = [Idle EXCEPT !.pc = "error"]]
  /\ UNCHANGED <<store, nextRevision, deletes, result, completed, effect>>

\* A delete by another caller.
Delete(k) ==
  /\ deletes < MaxDeletes /\ store[k].exists
  /\ store' = [store EXCEPT ![k] = Absent]
  /\ deletes' = deletes + 1
  /\ UNCHANGED <<nextRevision, exec, result, completed, effect>>

Over(c) == exec[c].pc \in {"done", "error"}

Finished == (\A c \in Calls : Over(c)) /\ UNCHANGED vars

Execution(c) ==
  \/ Begin(c) \/ Wave(c) \/ Puts(c) \/ Attempt(c) \/ Chunk(c) \/ ChunkRefused(c)
  \/ \E k \in Records : Read(c, k) \/ ReadFailed(c, k) \/ Defer(c, k) \/ Store(c, k)
  \/ ReadReturn(c) \/ Collect(c) \/ ChunkDone(c) \/ StoreReturn(c)

Next ==
  \/ \E c \in Calls : Execution(c) \/ Fail(c)
  \/ \E k \in Records : Delete(k)
  \/ Finished

Spec == Init /\ [][Next]_vars

\* Nothing in an execution waits for another one.
FairSpec == Spec /\ \A c \in Calls : WF_vars(Execution(c))

-----------------------------------------------------------------------------
\* Properties.

Statuses == {"none", "invalid", "applied", "precondition", "void", "conflict", "exhausted", "failed"}

\* Type invariant of the store, the executions and the results.
TypeOK ==
  /\ store \in [Records -> [exists : BOOLEAN, doc : Seq(Ops), rev : 0 .. nextRevision]]
  /\ result \in [Ops -> [status : Statuses, doc : Seq(Ops)]]
  /\ completed \subseteq Ops
  /\ effect \in [Ops -> {"none", "applied", "refused", "void"}]
  /\ \A c \in Calls :
       /\ exec[c].pc \in {"start", "wave", "puts", "attempt", "chunk", "read", "prepared",
                          "store", "done", "error"}
       /\ exec[c].tries \in 0 .. MaxMergeAttempts
       /\ exec[c].pending \cup exec[c].batch \cup exec[c].next \cup exec[c].deferred \subseteq Records

Atomic == INSTANCE AtomicRecords WITH
  record <- [k \in Records |-> [exists |-> store[k].exists, doc |-> store[k].doc]]

\* The operations of one call on one record take effect atomically and in
\* request order, however snapshots, conflicting writers, deletes, retries
\* and lost replies interleave: no committed update is lost or half visible
\* (write.go, executeConditionalWrites; architecture.md, "Atomicity is per
\* record").
ImplementsAtomic == Atomic!Spec

\* The document returned with an applied operation is that operation's own
\* output, not the output of a later one folded into the same commit
\* (executeWriteGroups splits chains with returned documents).
OwnDocument ==
  \A o \in completed \cap Returns :
    result[o].status = "applied" => Last(result[o].doc) = o

\* An execution that returned without an error has published a result for
\* every one of its operations: no group is dropped between waves, chunks,
\* deferrals and attempts.
AllAnswered == \A c \in Calls : exec[c].pc = "done" => OpsOf(c) \subseteq completed

\* A published result says what the operation did: APPLIED took effect,
\* a failed condition or a Lua failure was judged on the state its chain
\* committed on, and a reported CONFLICT had no effect at all, so that the
\* caller may retry it, as a refusal by the service's budgets and checks
\* had.  A failure of the storage, whatever its code, promises nothing.  A
\* document is the operation's own, and none is left without a result.
ResultsTrue ==
  /\ TypeOK /\ OwnDocument /\ AllAnswered
  /\ \A o \in completed :
       /\ result[o].status = "applied" => effect[o] = "applied"
       /\ result[o].status = "precondition" => effect[o] = "refused"
       /\ result[o].status = "void" => effect[o] = "void"
       /\ result[o].status \in {"conflict", "exhausted", "invalid"} => effect[o] = "none"
       /\ result[o].status # "none"

\* A published result never changes: retries of other groups, later waves
\* and a late execution error leave it alone (writeCompletion hands it to
\* the waiting RPC at once).
PublishedFinal == [][\A o \in completed : o \in completed' /\ result'[o] = result[o]]_vars

\* Every execution ends, although other writers may conflict with each of
\* its attempts and its reads may be deferred.
Terminates == \A c \in Calls : <>Over(c)

=============================================================================
