---------------------------- MODULE LuaPrograms ----------------------------
(***************************************************************************)
(* Which Lua program a merge runs.  A write request may declare programs   *)
(* once and refer to them by digest.  The reference has to survive every   *)
(* rearrangement on the way: the Gateway splits a request by Store         *)
(* (gateway/batch.go), the batching server joins the requests of several   *)
(* callers (batching_server.go), an accepted write becomes a mutation of   *)
(* its own in Kafka (publish.go) and the worker joins mutations into a new *)
(* request (worker/processor.go).  The programs are parsed and resolved in *)
(* server.go, write.go and protocol/routing.go.                            *)
(*                                                                         *)
(* SHA-256 is taken as injective: a digest is written as the source it is  *)
(* the digest of.                                                          *)
(***************************************************************************)
EXTENDS Integers, Sequences, FiniteSets, SequencesExt

CONSTANTS
  Callers,
  Stores,           \* the Stores that have an engine
  RequestsOf,       \* [Callers -> the requests [mode, programs, ops] of the caller]
  Broken,           \* sources that LuaEngine.Compile rejects
  Empty,            \* a field that is not set
  Short,            \* a digest of the wrong length
  Nothing           \* a message that is not set

VARIABLES
  request,          \* [Callers -> the request]
  sent,             \* callers whose request was handed to the Gateway or an engine
  rpcs,             \* requests on their way to BatchingServer.Write
  batcher,          \* requests in the write batcher
  log,              \* [Stores -> mutations published and not delivered]
  results           \* [Callers -> for each operation the results it was given]

vars == <<request, sent, rpcs, batcher, log, results>>

\* An operation carries the caller and the position its result belongs to.
OpsOf(c) == [i \in DOMAIN request[c].ops |-> [owner |-> c, index |-> i, op |-> request[c].ops[i]]]

Init ==
  /\ request \in {r \in [Callers -> UNION {RequestsOf[c] : c \in Callers}] :
                    \A c \in Callers : r[c] \in RequestsOf[c]}
  /\ sent = {} /\ rpcs = {} /\ batcher = {} /\ log = [s \in Stores |-> <<>>]
  /\ results = [c \in Callers |-> [i \in DOMAIN request[c].ops |-> {}]]

-----------------------------------------------------------------------------
\* ValidateLuaDeclarations: a declaration has a source and no other digest.  Two
\* sources with one digest do not occur.
ValidateLuaDeclarations(programs) ==
  \A n \in DOMAIN programs :
    /\ programs[n] # Nothing /\ programs[n].source # Empty
    /\ programs[n].sha \in {Empty, programs[n].source}

\* parseLuaPrograms: the declared programs by digest.
ParseLuaPrograms(programs) == {programs[n].source : n \in DOMAIN programs}

\* The references that normalizeSynchronousWriteOperation resolves.
IsReference(op) ==
  op.kind = "merge" /\ op.program # Nothing /\ op.program.source = Empty /\ op.program.sha \notin {Empty, Short}
Carry(op, source) == [op EXCEPT !.program = [source |-> source, sha |-> source]]
NormalizeOperation(op, programs) ==
  IF IsReference(op) /\ op.program.sha \in programs THEN Carry(op, op.program.sha) ELSE op
NormalizeNothing(r) == [r EXCEPT !.programs = <<>>]
NormalizeSynchronousWriteRequest(r) ==
  [r EXCEPT !.programs = <<>>,
            !.ops = [n \in DOMAIN @ |->
              [@[n] EXCEPT !.op = NormalizeOperation(@, ParseLuaPrograms(r.programs))]]]

\* resolveLuaProgram, then Compile.
Resolve(program, programs) ==
  IF program.source # Empty
  THEN IF program.sha \in {Empty, program.source} THEN program.source ELSE "invalid"
  ELSE IF program.sha \notin {Empty, Short} /\ program.sha \in programs THEN program.sha ELSE "invalid"
\* parseMerge
ParseMerge(op, programs) ==
  IF op.program = Nothing \/ Resolve(op.program, programs) \in Broken
  THEN "invalid" ELSE Resolve(op.program, programs)
\* parseWrite
ParseWrite(op, programs) == IF op.kind = "put" THEN "put" ELSE ParseMerge(op, programs)

Record(ops, result) ==
  results' = [c \in Callers |-> [i \in DOMAIN results[c] |->
    results[c][i] \cup {result[n] : n \in {n \in DOMAIN ops : ops[n].owner = c /\ ops[n].index = i}}]]
\* Server.write of a request without declarations.
Parsed(ops) == [n \in DOMAIN ops |-> ParseWrite(ops[n].op, {})]

\* The RPC fails: every operation of it has the same error.
FailAll(ops, error) == Record(ops, [n \in DOMAIN ops |-> error])

-----------------------------------------------------------------------------
\* The Gateway checks the declarations and splits the operations by Store; every
\* part gets all the declarations.
Part(c, store) ==
  [store |-> store, mode |-> request[c].mode, programs |-> request[c].programs,
   ops |-> SelectSeq(OpsOf(c), LAMBDA o : o.op.store = store)]
SplitRequest(c) == {Part(c, request[c].ops[i].store) : i \in DOMAIN request[c].ops}
Gateway(c) ==
  /\ c \notin sent /\ sent' = sent \cup {c}
  /\ \/ /\ ~ValidateLuaDeclarations(request[c].programs) /\ FailAll(OpsOf(c), "rejected")
        /\ UNCHANGED rpcs
     \/ /\ ValidateLuaDeclarations(request[c].programs) /\ rpcs' = rpcs \cup SplitRequest(c)
        /\ UNCHANGED results
  /\ UNCHANGED <<request, batcher, log>>

\* A caller sends the whole request to the engine of a Store.
Call(c, store) ==
  /\ c \notin sent /\ sent' = sent \cup {c}
  /\ rpcs' = rpcs \cup {[store |-> store, mode |-> request[c].mode, programs |-> request[c].programs, ops |-> OpsOf(c)]}
  /\ UNCHANGED <<request, batcher, log, results>>

\* Server.write in the mode that returns after acceptance: the operations whose
\* program is found and compiles are published with that program.
PublishWrite(o, programs) ==
  IF o.op.kind = "put" THEN o ELSE [o EXCEPT !.op = Carry(@, ParseWrite(@, programs))]
PublishWrites(ops, programs) ==
  LET parsed == SelectSeq(ops, LAMBDA o : ParseWrite(o.op, programs) # "invalid")
  IN  [n \in DOMAIN parsed |-> PublishWrite(parsed[n], programs)]
Accept(r) ==
  /\ Record(r.ops, [n \in DOMAIN r.ops |->
       IF ParseWrite(r.ops[n].op, ParseLuaPrograms(r.programs)) = "invalid" THEN "invalid" ELSE "accepted"])
  /\ log' = [log EXCEPT ![r.store] = @ \o PublishWrites(r.ops, ParseLuaPrograms(r.programs))]
  /\ UNCHANGED batcher

\* BatchingServer.Write; CheckStore refuses operations of another Store.
CheckStore(r) == \A n \in DOMAIN r.ops : r.ops[n].op.store = r.store
Admissible(r) == CheckStore(r) /\ ValidateLuaDeclarations(r.programs)
Write(r) ==
  /\ rpcs' = rpcs \ {r}
  /\ \/ /\ ~Admissible(r) /\ FailAll(r.ops, IF CheckStore(r) THEN "rejected" ELSE "misrouted")
        /\ UNCHANGED <<batcher, log>>
     \/ Admissible(r) /\ r.mode = "accepted" /\ Accept(r)
     \/ /\ Admissible(r) /\ r.mode # "accepted"
        /\ batcher' = batcher \cup {NormalizeSynchronousWriteRequest(r)}
        /\ UNCHANGED <<log, results>>
  /\ UNCHANGED <<request, sent>>

\* executeWriteBatch: requests of one Store and one mode run as one request without
\* declarations; Server.write resolves each operation again.
CombinedWriteRequest(calls) ==
  FoldLeft(LAMBDA ops, r : ops \o r.ops, <<>>, SetToSeq(calls))
Execute(calls) ==
  /\ Cardinality({<<r.store, r.mode>> : r \in calls}) = 1
  /\ Record(CombinedWriteRequest(calls), Parsed(CombinedWriteRequest(calls)))
  /\ batcher' = batcher \ calls
  /\ UNCHANGED <<request, sent, rpcs, log>>

\* applyWrites: the worker of a Store hands its next mutations to Server.Write as one
\* request without declarations.
ApplyWrites(store, n) ==
  /\ Record(SubSeq(log[store], 1, n), Parsed(SubSeq(log[store], 1, n)))
  /\ log' = [log EXCEPT ![store] = SubSeq(@, n + 1, Len(@))]
  /\ UNCHANGED <<request, sent, rpcs, batcher>>

Quiet == sent = Callers /\ rpcs = {} /\ batcher = {} /\ \A s \in Stores : log[s] = <<>>

Step ==
  \/ \E r \in rpcs : Write(r)
  \/ \E calls \in SUBSET batcher : Execute(calls)
  \/ \E store \in Stores : \E n \in 1..Len(log[store]) : ApplyWrites(store, n)

Next ==
  \/ \E c \in Callers : Gateway(c)
  \/ \E c \in Callers, store \in Stores : Call(c, store)
  \/ Step
  \/ Quiet /\ UNCHANGED vars

Spec == Init /\ [][Next]_vars

-----------------------------------------------------------------------------
\* The programs an operation names in the request of its caller alone.
Named(c, i) ==
  LET op == request[c].ops[i]
      declared == {request[c].programs[n].source : n \in DOMAIN request[c].programs}
  IN  {s \in (declared \cup {op.program.source}) \ (Broken \cup {Empty}) :
         \/ op.program.source = s /\ op.program.sha \in {Empty, s}
         \/ op.program.source = Empty /\ op.program.sha = s}
Declares(c) == ValidateLuaDeclarations(request[c].programs)
Expected(c, i) ==
  IF ~Declares(c) THEN {"rejected"}
  ELSE IF request[c].ops[i].kind = "put" THEN {"put"}
  ELSE IF request[c].ops[i].program = Nothing \/ Named(c, i) = {} THEN {"invalid"}
  ELSE Named(c, i)

\* However a request was split, joined with those of other callers or sent through
\* Kafka, each of its merges runs the program that its own request names, and is
\* refused exactly when that request names none: a declaration of another caller
\* never makes a reference valid (normalizeSynchronousWriteRequest), and a split
\* never loses one (splitRequest).
OwnProgram ==
  \A c \in Callers : \A i \in DOMAIN results[c] : results[c][i] \ {"accepted", "misrouted"} \subseteq Expected(c, i)

\* A write is accepted for Kafka only if it can run, and the worker, which sees no
\* declarations, then finds a program in the mutation (publishWrites).
AcceptedRuns ==
  \A c \in Callers : \A i \in DOMAIN results[c] :
    "accepted" \in results[c][i] => results[c][i] \cap {"invalid", "rejected"} = {}

\* Once nothing is under way, every operation has its result, an accepted one also
\* the result of the worker: no split, batch or publication loses an operation.
Answered ==
  Quiet => \A c \in Callers : \A i \in DOMAIN results[c] : \E result \in results[c][i] : result # "accepted"
=============================================================================
