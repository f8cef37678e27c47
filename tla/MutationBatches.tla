-------------------------- MODULE MutationBatches --------------------------
(***************************************************************************)
(* How a batch of delete RPCs is executed: the waves of                    *)
(* planMutationWaves (mutation_batches.go), the two completion modes of a  *)
(* wave side by side or one after the other, chunks by bytes,              *)
(* Server.delete (server.go) and the splitting of its response             *)
(* (batching_server.go).  executeWrites has the same plan and chunks.      *)
(*                                                                         *)
(* A batch may mix completion modes, as the planner provides for; two RPCs *)
(* that share a record and differ in mode then fall into different waves.  *)
(* The storage deletes the records of a chunk one by one: each succeeds,   *)
(* was missing, or fails with or without having been deleted.              *)
(***************************************************************************)
EXTENDS Integers, Sequences, FiniteSets, SequencesExt

CONSTANTS
  Batch,            \* the RPCs in queue order
  Keys, Invalid,    \* records, and those BatchKey rejects
  Requests,         \* the operations an RPC may have: sequences of keys
  Modes,            \* completion modes in use, of {"applied", "visible"}
  ChunkBytes,       \* byte limit of one chunk; an operation counts one byte
  ParallelBytes,    \* two modes run side by side if both fit this limit
  MaxCancelled      \* bound: callers that give up

Calls == ToSet(Batch)
N == Len(Batch)

MutationAssumption ==
  /\ Requests \subseteq Seq(Keys) \ {<<>>} /\ Invalid \subseteq Keys
  /\ Modes \subseteq {"applied", "visible"}
  /\ {ChunkBytes, ParallelBytes, MaxCancelled} \subseteq Nat

VARIABLES
  ops, mode,        \* the RPCs' operations and completion modes
  stored,           \* records that exist
  plan,             \* the wave of each position of the batch
  wave,             \* the wave being executed
  lane,             \* [modes -> RPCs of the wave that have not started]
  parallel,         \* the lanes of this wave run side by side
  running,          \* [modes -> the chunk in Server.delete]
  cancelled,
  answer,           \* [Calls -> <<>>, <<"error">> or one result per operation]
  effects           \* history: [Keys -> RPCs that reached the storage, in order]

vars == <<ops, mode, plan, stored, wave, lane, parallel, running, cancelled, answer, effects>>
Lanes == {"applied", "visible"}

Valid(c) == ToSet(ops[c]) \ Invalid
Bytes(s) == FoldLeft(LAMBDA sum, c : sum + Len(ops[c]), 0, s)

-----------------------------------------------------------------------------
\* planMutationWaves: an RPC joins the wave of the last RPC before it on each of
\* its records, or the next one if that RPC has another mode.
Previous(i, k) == Max({0} \cup {j \in 1..(i - 1) : k \in Valid(Batch[j])})
Conflict(i, j) == IF mode[Batch[j]] # mode[Batch[i]] THEN 1 ELSE 0
PlanByFirstRecord ==
  LET W[i \in 1..N] ==
        Max({0} \cup {W[j] + Conflict(i, j) : j \in {Previous(i, k) : k \in {Head(ops[Batch[i]])} \ Invalid} \ {0}})
  IN W
Plan ==
  LET W[i \in 1..N] ==
        Max({0} \cup {W[j] + Conflict(i, j) : j \in {Previous(i, k) : k \in Valid(Batch[i])} \ {0}})
  IN W

LastWave == Max({plan[i] : i \in 1..N})
InWave(w, m) ==
  LET at == {i \in 1..N : plan[i] = w /\ mode[Batch[i]] = m} IN
  [n \in 1..Cardinality(at) |-> Batch[SetToSortSeq(at, <)[n]]]

Init ==
  /\ ops \in [Calls -> Requests] /\ mode \in [Calls -> Modes]
  /\ stored = Keys \ Invalid
  /\ plan = Plan /\ wave = -1
  /\ lane = [m \in Lanes |-> <<>>] /\ running = [m \in Lanes |-> <<>>]
  /\ parallel = FALSE /\ cancelled = {}
  /\ answer = [c \in Calls |-> <<>>]
  /\ effects = [k \in Keys |-> <<>>]

Idle == \A m \in Lanes : lane[m] = <<>> /\ running[m] = <<>>

StartWave ==
  /\ Idle /\ wave < LastWave
  /\ wave' = wave + 1
  /\ \E a \in {InWave(wave + 1, "applied")}, v \in {InWave(wave + 1, "visible")} :
       /\ lane' = [m \in Lanes |-> IF m = "applied" THEN a ELSE v]
       /\ parallel' = (a # <<>> /\ v # <<>> /\ Bytes(a) + Bytes(v) <= ParallelBytes)
  /\ UNCHANGED <<ops, mode, plan, stored, running, cancelled, answer, effects>>

\* executeDeleteBatch: the next chunk of a lane; callers that are gone get an
\* error instead.  In sequence, the visible lane waits for the applied one.
ChunkSize(s) == Max({n \in 1..Len(s) : n = 1 \/ Bytes(SubSeq(s, 1, n)) <= ChunkBytes})
MayBegin(m) ==
  /\ lane[m] # <<>> /\ running[m] = <<>>
  /\ parallel \/ m = "applied" \/ (lane["applied"] = <<>> /\ running["applied"] = <<>>)
BeginChunk(m) ==
  /\ MayBegin(m)
  /\ \E taken \in {SubSeq(lane[m], 1, ChunkSize(lane[m]))} :
       /\ lane' = [lane EXCEPT ![m] = SubSeq(@, Len(taken) + 1, Len(@))]
       /\ running' = [running EXCEPT ![m] = SelectSeq(taken, LAMBDA c : c \notin cancelled)]
       /\ answer' = [c \in Calls |-> IF c \in ToSet(taken) \cap cancelled THEN <<"error">> ELSE answer[c]]
  /\ UNCHANGED <<ops, mode, plan, stored, wave, parallel, cancelled, effects>>

\* Server.delete: one storage operation per record, whose outcome every operation
\* on it reports.
ChunkKeys(g) == UNION {Valid(c) : c \in ToSet(g)}
Outcomes(g) ==
  {o \in [ChunkKeys(g) -> {"deleted", "missing", "failed"}] :
     \A k \in ChunkKeys(g) : o[k] # "failed" => o[k] = IF k \in stored THEN "deleted" ELSE "missing"}
Result(o, k) == IF k \in Invalid THEN "invalid" ELSE o[k]
FlatResults(g, o) ==
  LET flat == FlattenSeq([i \in DOMAIN g |-> ops[g[i]]]) IN [n \in DOMAIN flat |-> Result(o, flat[n])]

\* splitDeleteResponse.
Offset(g, i) == Bytes(SubSeq(g, 1, i - 1))
Split(g, results, i) == SubSeq(results, Offset(g, i) + 1, Offset(g, i) + Len(ops[g[i]]))

\* The records of the chunk are gone, except that a failed delete may have
\* happened or not; the RPCs of the chunk have reached them in its order.
Touch(g, o) ==
  /\ \E lost \in SUBSET {k \in ChunkKeys(g) : o[k] = "failed"} :
       stored' = stored \ (lost \cup {k \in ChunkKeys(g) : o[k] = "deleted"})
  /\ effects' = [k \in Keys |-> effects[k] \o SelectSeq(g, LAMBDA c : k \in Valid(c))]
EndChunk(m) ==
  /\ running[m] # <<>>
  /\ \E g \in {running[m]} : \E o \in Outcomes(g) : \E results \in {FlatResults(g, o)} :
       /\ Touch(g, o)
       /\ \/ answer' = [c \in Calls |-> IF c \notin ToSet(g) THEN answer[c]
                                        ELSE Split(g, results, SelectInSeq(g, LAMBDA d : d = c))]
          \/ answer' = [c \in Calls |-> IF c \in ToSet(g) THEN <<"error">> ELSE answer[c]]
  /\ running' = [running EXCEPT ![m] = <<>>]
  /\ UNCHANGED <<ops, mode, plan, wave, lane, parallel, cancelled>>

Cancel(c) ==
  /\ c \notin cancelled /\ answer[c] = <<>>
  /\ Cardinality(cancelled) < MaxCancelled
  /\ cancelled' = cancelled \cup {c}
  /\ UNCHANGED <<ops, mode, plan, stored, wave, lane, parallel, running, answer, effects>>

Next ==
  \/ StartWave
  \/ \E m \in Lanes : BeginChunk(m) \/ EndChunk(m)
  \/ \E c \in Calls : Cancel(c)

Spec == Init /\ [][Next]_vars

-----------------------------------------------------------------------------
\* RPCs reach every record in queue order, although waves run both completion
\* modes at once and chunks drop cancelled callers.
QueueOrder ==
  \A k \in Keys : \A i, j \in DOMAIN effects[k] : i < j =>
    SelectInSeq(Batch, LAMBDA c : c = effects[k][i]) < SelectInSeq(Batch, LAMBDA c : c = effects[k][j])

\* The two lanes of a wave never work on one record at the same time.
LanesDisjoint == ChunkKeys(running["applied"]) \cap ChunkKeys(running["visible"]) = {}

\* Every operation of an RPC reports the fate of its own record: "deleted" and
\* "missing" mean that the record is gone (nothing recreates it here).
OwnResults ==
  \A c \in Calls : answer[c] \notin {<<>>, <<"error">>} =>
    /\ Len(answer[c]) = Len(ops[c])
    /\ \A n \in DOMAIN ops[c] :
         /\ (answer[c][n] = "invalid") = (ops[c][n] \in Invalid)
         /\ answer[c][n] \in {"deleted", "missing"} => ops[c][n] \notin stored

\* Every RPC of the batch is answered.
AllAnswered == \A c \in Calls : answer[c] # <<>>

=============================================================================
