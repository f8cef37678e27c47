--------------------------- MODULE GatewayRouting ---------------------------
(***************************************************************************)
(* Record RPCs through the gateway: records() splits a request over the    *)
(* engines that own its records, forwards the parts and merges the results *)
(* (gateway/batch.go, server.go, discovery.go); an engine checks that the  *)
(* part is its own and serves it (engine/server.go).                       *)
(*                                                                         *)
(* Endpoints come from DNS, which may lag: an address can belong to an     *)
(* engine of another store by now.  A reply may be lost, and an engine may *)
(* serve a part after the gateway has given it up.  A document is one byte *)
(* of the read budget, and the limits are the fixed ones (begin without a  *)
(* memory pool; ForwardStream models the pool).                            *)
(***************************************************************************)
EXTENDS Integers, Sequences, FiniteSets, SequencesExt

CONSTANTS
  Rpcs,
  Kinds,            \* kinds of request in use, of AllKinds
  Requests,         \* operations: sequences of record addresses
  Bad,              \* the address that does not parse
  StoreOf,          \* [records -> stores]
  Endpoints,        \* engine addresses, numbered
  Score,            \* [<<record, endpoint>> -> Nat], rendezvous hashing
  Bound,            \* [Endpoints -> the store the engine there serves]
  Views,            \* [stores -> what DNS may answer for it]
  MaxReadBytes, MaxFanout, MaxRequestsPerStore, MaxOperations,
  MaxRequests, MaxBytes,      \* of the gateway
  OperationBytes,   \* reserved for an operation: input, envelope, diagnostic
  MaxLost           \* bound: requests and replies lost or spoiled

Records == DOMAIN StoreOf
Stores == {StoreOf[k] : k \in Records}
Routes == Stores \X Endpoints    \* a Route with its endpoint

\* "return" and "acceptedReturn" are writes that ask for their documents,
\* "accepted" and "acceptedReturn" those that do not wait to be applied.
AllKinds == {"read", "merge", "return", "upsert", "accepted", "acceptedReturn", "delete"}

RoutingAssumption ==
  /\ Bad \notin Records /\ Requests \subseteq Seq(Records \cup {Bad})
  /\ Kinds \subseteq AllKinds /\ Endpoints \subseteq Nat
  /\ {MaxReadBytes, MaxFanout, MaxRequestsPerStore, MaxOperations, MaxRequests, MaxBytes} \subseteq Nat \ {0}
  /\ {OperationBytes, MaxLost} \subseteq Nat

VARIABLES
  kind, ops,        \* the RPCs
  phase,            \* [Rpcs -> "new", "refused", "begun", "planned" or "ended"]
  inFlight, bytes,  \* reserved by the RPCs that have begun
  views,            \* [Rpcs -> [stores resolved so far -> set of endpoints]]
  part,             \* [Rpcs -> [route -> state of the part sent there]]
  remaining,        \* [Rpcs -> read budget left]
  reply,            \* [Rpcs -> [route -> results the engine produced]]
  result,           \* [Rpcs -> results by operation]
  active,           \* [Stores -> forwarded parts in progress]
  lost,
  applied,          \* history: <<rpc, operation, endpoint>> the engines executed
  spent             \* history: [Rpcs -> documents engines read for it]

request == <<kind, ops>>
admission == <<phase, inFlight, bytes>>
vars == <<request, admission, views, part, remaining, reply, result, active, lost, applied, spent>>

None == [state |-> "none"]
Init ==
  /\ kind \in [Rpcs -> Kinds] /\ ops \in [Rpcs -> Requests]
  /\ phase = [c \in Rpcs |-> "new"] /\ inFlight = 0 /\ bytes = 0
  /\ views = [c \in Rpcs |-> <<>>]
  /\ part = [c \in Rpcs |-> <<>>] /\ reply = [c \in Rpcs |-> <<>>]
  /\ remaining = [c \in Rpcs |-> MaxReadBytes]
  /\ result = [c \in Rpcs |-> [i \in DOMAIN ops[c] |-> None]]
  /\ active = [s \in Stores |-> 0] /\ lost = 0
  /\ applied = {} /\ spent = [c \in Rpcs |-> 0]

-----------------------------------------------------------------------------
\* validateBatch: nothing is returned from a write that is not waited for.
ValidateBatch(c) == Len(ops[c]) \in 1..MaxOperations /\ kind[c] # "acceptedReturn"
\* reservation: documents are held twice, as received and as sent.
Reservation(c) ==
  Len(ops[c]) * OperationBytes + IF kind[c] \in {"read", "return"} THEN 2 * MaxReadBytes ELSE 0
\* begin and the release it returns.
Room(c) == inFlight < MaxRequests /\ Reservation(c) <= MaxBytes - bytes
Begin(c) ==
  /\ phase[c] = "new"
  /\ IF ValidateBatch(c) /\ Room(c)
     THEN /\ phase' = [phase EXCEPT ![c] = "begun"]
          /\ inFlight' = inFlight + 1 /\ bytes' = bytes + Reservation(c)
     ELSE phase' = [phase EXCEPT ![c] = "refused"] /\ UNCHANGED <<inFlight, bytes>>
  /\ UNCHANGED <<request, views, part, remaining, reply, result, active, lost, applied, spent>>
Release(c) == inFlight' = inFlight - 1 /\ bytes' = bytes - Reservation(c)

\* One DNS view per store and request: Stores(c) are resolved one after the other;
\* a resolution that fails has no endpoints.
StoresOf(c) == {StoreOf[ops[c][i]] : i \in {j \in DOMAIN ops[c] : ops[c][j] # Bad}}
Resolve(c) ==
  /\ phase[c] = "begun"
  /\ \E s \in StoresOf(c) \ DOMAIN views[c] : \E v \in Views[s] \cup {{}} :
       views' = [views EXCEPT ![c] = [t \in DOMAIN @ \cup {s} |-> IF t = s THEN v ELSE @[t]]]
  /\ UNCHANGED <<request, admission, part, remaining, reply, result, active, lost, applied, spent>>

\* affinityRoute: the highest score, the lowest address among equals.
Owner(k, v) ==
  CHOOSE e \in v : \A f \in v \ {e} :
    Score[<<k, f>>] < Score[<<k, e>>] \/ (Score[<<k, f>>] = Score[<<k, e>>] /\ e < f)

\* Failures: retryable only if the operation certainly did not run, or is a read.
Failure(c, code, notStarted) ==
  [state |-> "failed", code |-> code, retryable |-> (notStarted \/ kind[c] = "read") /\ code \in {"unavailable", "exhausted"}]

\* records(): operations that cannot be routed fail, the others form one part
\* for each owner.
View(c, k) == views[c][StoreOf[k]]
Routable(c, i) == ops[c][i] # Bad /\ View(c, ops[c][i]) # {}
Routed(c) == [i \in {j \in DOMAIN ops[c] : Routable(c, j)} |-> <<StoreOf[ops[c][i]], Owner(ops[c][i], View(c, ops[c][i]))>>]
Parts(c, routed) ==
  [e \in {routed[i] : i \in DOMAIN routed} |->
     [state |-> "waiting", grant |-> 0, indices |-> SetToSortSeq({i \in DOMAIN routed : routed[i] = e}, <)]]
Planned(c) == DOMAIN views[c] = StoresOf(c)
Plan(c) ==
  /\ phase[c] = "begun" /\ Planned(c) /\ phase' = [phase EXCEPT ![c] = "planned"]
  /\ \E routed \in {Routed(c)} :
       /\ part' = [part EXCEPT ![c] = Parts(c, routed)]
       /\ result' = [result EXCEPT ![c] = [i \in DOMAIN @ |->
            IF i \in DOMAIN routed THEN None
            ELSE Failure(c, IF ops[c][i] = Bad THEN "invalid" ELSE "unavailable", TRUE)]]
  /\ UNCHANGED <<request, inFlight, bytes, views, remaining, reply, active, lost, applied, spent>>

\* Deletes and plain upserts fan out; the other parts run one by one, in the order
\* of their first operation, each with the budget that is left.
Parallel(c) == kind[c] \in {"delete", "accepted", "upsert"}
In(c, state) == {e \in DOMAIN part[c] : part[c][e].state = state}
First(c, e) == part[c][e].indices[1]
InTurn(c, e) ==
  IF Parallel(c)
  THEN Cardinality(In(c, "sent")) < MaxFanout
  ELSE \A f \in DOMAIN part[c] \ {e} : First(c, f) < First(c, e) => part[c][f].state \in {"ended", "abandoned"}
Fail(c, e, code, notStarted) ==
  result' = [result EXCEPT ![c] = [i \in DOMAIN @ |->
    IF i \in ToSet(part[c][e].indices) THEN Failure(c, code, notStarted) ELSE @[i]]]

\* forward(): refused locally, or sent.
RejectLocally(c, e) ==
  /\ e \in In(c, "waiting") /\ InTurn(c, e)
  /\ \/ active[e[1]] >= MaxRequestsPerStore /\ Fail(c, e, "exhausted", TRUE)
     \/ lost < MaxLost /\ Fail(c, e, "unavailable", TRUE)    \* no connection
  /\ part' = [part EXCEPT ![c][e].state = "ended"]
  /\ UNCHANGED <<request, admission, views, remaining, reply, active, lost, applied, spent>>
Send(c, e) ==
  /\ e \in In(c, "waiting") /\ InTurn(c, e)
  /\ active[e[1]] < MaxRequestsPerStore
  /\ active' = [active EXCEPT ![e[1]] = @ + 1]
  /\ part' = [part EXCEPT ![c][e] = [@ EXCEPT !.state = "sent", !.grant = remaining[c]]]
  /\ UNCHANGED <<request, admission, views, remaining, reply, result, lost, applied, spent>>

\* splitRequest.
SplitRequest(c, e) == [n \in DOMAIN part[c][e].indices |-> ops[c][part[c][e].indices[n]]]
\* Engine.Forward: the part and its records must be of the engine's store.  Reads
\* return documents while the grant lasts; others fail for want of budget.
CheckStore(records, store) == \A k \in records : StoreOf[k] = store
Accepts(c, e) == Bound[e[2]] = e[1] /\ CheckStore(ToSet(SplitRequest(c, e)), Bound[e[2]])
Execute(c, e) ==
  LET p == part[c][e]
      fits(n) == kind[c] # "read" \/ n <= p.grant
      answers == [n \in DOMAIN p.indices |->
                    [index |-> n, value |-> IF fits(n) THEN [state |-> "ok", by |-> e, op |-> p.indices[n]]
                                                       ELSE Failure(c, "exhausted", TRUE)]]
      used == IF kind[c] = "read" THEN Cardinality({n \in DOMAIN p.indices : fits(n)}) ELSE 0
  IN [started |-> TRUE, used |-> used, answers |-> answers]
Refusal == [started |-> FALSE, used |-> 0, answers |-> <<>>]
Serve(c, e) ==
  /\ e \in In(c, "sent") \cup In(c, "abandoned")
  /\ e \notin DOMAIN reply[c]
  /\ \E r \in {IF Accepts(c, e) THEN Execute(c, e) ELSE Refusal} :
       /\ reply' = [reply EXCEPT ![c] = [f \in DOMAIN @ \cup {e} |-> IF f = e THEN r ELSE @[f]]]
       /\ applied' = applied \cup {<<c, part[c][e].indices[n], e>> : n \in DOMAIN r.answers}
       /\ spent' = [spent EXCEPT ![c] = @ + r.used]
  /\ UNCHANGED <<request, admission, views, part, remaining, result, active, lost>>

\* The reply is settled: mergeResults by operation index, in any order of results.
EndPart(c, e, state, used) ==
  /\ part' = [part EXCEPT ![c][e].state = state]
  /\ active' = [active EXCEPT ![e[1]] = @ - 1]
  /\ remaining' = [remaining EXCEPT ![c] = IF Parallel(c) THEN @ ELSE @ - used]
MergeByPosition(c, e, answers) ==
  result' = [result EXCEPT ![c] = [i \in DOMAIN @ |->
    IF \E n \in DOMAIN answers : part[c][e].indices[n] = i
    THEN answers[CHOOSE n \in DOMAIN answers : part[c][e].indices[n] = i].value ELSE @[i]]]
Merge(c, e, answers) ==
  result' = [result EXCEPT ![c] = [i \in DOMAIN @ |->
    IF \E n \in DOMAIN answers : part[c][e].indices[answers[n].index] = i
    THEN answers[CHOOSE n \in DOMAIN answers : part[c][e].indices[answers[n].index] = i].value
    ELSE @[i]]]
\* mergeResults takes all results of a reply or none: one for each operation, each
\* with a known status and with a failure exactly if it failed (validResult).
ValidResult(v) == v.state = "ok" \/ (v.state = "failed" /\ v.code \in {"invalid", "exhausted", "unavailable", "internal"})
ValidAnswers(c, e, answers) ==
  /\ Len(answers) = Len(part[c][e].indices)
  /\ \A n \in DOMAIN answers :
       /\ answers[n].index \in DOMAIN part[c][e].indices
       /\ \A m \in DOMAIN answers \ {n} : answers[m].index # answers[n].index
       /\ ValidResult(answers[n].value)
\* The network or an engine of another version may spoil a reply.
Spoiled(answers) ==
  {Front(answers), [answers EXCEPT ![1].index = Len(answers) + 1],
   [answers EXCEPT ![Len(answers)].index = answers[1].index], [answers EXCEPT ![1].value = [state |-> "failed", code |-> "none"]]}
   \ {answers}
Spoil(c, e) ==
  /\ e \in In(c, "sent") /\ e \in DOMAIN reply[c] /\ reply[c][e].started /\ lost < MaxLost /\ lost' = lost + 1
  /\ \E answers \in Spoiled(reply[c][e].answers) :
       IF ValidAnswers(c, e, answers) THEN Merge(c, e, answers) ELSE Fail(c, e, "internal", FALSE)
  /\ EndPart(c, e, "ended", reply[c][e].used)
  /\ UNCHANGED <<request, admission, views, reply, applied, spent>>
Return(c, e) ==
  /\ e \in In(c, "sent") /\ e \in DOMAIN reply[c]
  /\ EndPart(c, e, "ended", reply[c][e].used)
  /\ IF reply[c][e].started
     THEN \E answers \in {reply[c][e].answers, Reverse(reply[c][e].answers)} : Merge(c, e, answers)
     ELSE Fail(c, e, "invalid", TRUE)
  /\ UNCHANGED <<request, admission, views, reply, lost, applied, spent>>

\* The call fails before or after the engine served it: the whole grant counts as
\* used, and the outcome of a mutation is unknown ("unavailable" stands for a
\* missed deadline, too).
LoseRetryable(c, e) ==
  /\ e \in In(c, "sent") /\ lost < MaxLost /\ lost' = lost + 1
  /\ EndPart(c, e, "abandoned", part[c][e].grant)
  /\ Fail(c, e, "unavailable", e \notin DOMAIN reply[c])
  /\ UNCHANGED <<request, admission, views, reply, applied, spent>>
Lose(c, e) ==
  /\ e \in In(c, "sent") /\ lost < MaxLost /\ lost' = lost + 1
  /\ EndPart(c, e, "abandoned", part[c][e].grant)
  /\ Fail(c, e, "unavailable", FALSE)
  /\ UNCHANGED <<request, admission, views, reply, applied, spent>>

Finish(c) ==
  /\ phase[c] = "planned" /\ \A e \in DOMAIN part[c] : part[c][e].state \in {"ended", "abandoned"}
  /\ phase' = [phase EXCEPT ![c] = "ended"] /\ Release(c)
  /\ UNCHANGED <<request, views, part, remaining, reply, result, active, lost, applied, spent>>

PartStep(c, e) == RejectLocally(c, e) \/ Send(c, e) \/ Return(c, e) \/ Spoil(c, e) \/ Lose(c, e) \/ Serve(c, e)
Next == \E c \in Rpcs : Begin(c) \/ Resolve(c) \/ Plan(c) \/ Finish(c) \/ \E e \in Routes : PartStep(c, e)

\* Gateway and engines go on, or the request times out (Lose).
Spec == Init /\ [][Next]_vars /\ WF_vars(Next)

-----------------------------------------------------------------------------
Failed(c, i) == result[c][i].state = "failed"

\* A mutation that is reported failed and retryable was executed by no engine and
\* will be by none, even if a reply or a request was lost.
RetrySafe ==
  \A c \in Rpcs : kind[c] # "read" => \A i \in DOMAIN result[c] :
    Failed(c, i) /\ result[c][i].retryable => \A e \in Routes : <<c, i, e>> \notin applied

\* The result of an operation is the one its own engine gave for it.
OwnResults ==
  \A c \in Rpcs : \A i \in DOMAIN result[c] : result[c][i].state = "ok" =>
    result[c][i].op = i /\ <<c, i, result[c][i].by>> \in applied

\* No engine executes an operation on a record of another store.
OwnStore == \A x \in applied : Bound[x[3][2]] = StoreOf[ops[x[1]][x[2]]]

\* Engines never read more documents for an RPC than its budget, lost replies
\* included.
BudgetKept == \A c \in Rpcs : spent[c] <= MaxReadBytes

\* Two requests that both see both owners of a record send it to the same engine,
\* whatever else their DNS views contain.
Affinity ==
  \A x, y \in applied : ops[x[1]][x[2]] = ops[y[1]][y[2]] =>
    LET k == ops[x[1]][x[2]] IN
    x[3][2] \in View(y[1], k) /\ y[3][2] \in View(x[1], k) => x[3] = y[3]

\* The reservations are exactly those of the RPCs that have begun and not ended:
\* refused ones hold nothing, and no sequence of releases underflows.
Holding == {c \in Rpcs : phase[c] \in {"begun", "planned"}}
ReservationsExact ==
  /\ inFlight = Cardinality(Holding) /\ inFlight <= MaxRequests
  /\ bytes = MapThenSumSet(Reservation, Holding) /\ bytes <= MaxBytes

\* Every operation of an RPC that is not refused is answered, whatever is lost or
\* spoiled, and every forwarding slot of a store is returned.
Answered ==
  /\ \A c \in Rpcs : phase[c] \in {"refused", "ended"}
  /\ \A c \in Rpcs : phase[c] = "ended" => \A i \in DOMAIN result[c] : result[c][i] # None
  /\ \A s \in Stores : active[s] = 0

=============================================================================
