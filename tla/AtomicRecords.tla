--------------------------- MODULE AtomicRecords ----------------------------
(***************************************************************************)
(* What a document write promises: an abstract store in which the          *)
(* operations that one call makes on one record take effect in a single    *)
(* step, evaluated one after the other in request order.  Nothing is said  *)
(* about snapshots, revisions, retries, waves or chunks.                   *)
(*                                                                         *)
(* A document is the sequence of the operations it was made from: a put    *)
(* starts a new one and a merge adds to the current one.                   *)
(***************************************************************************)
EXTENDS Naturals, Sequences

CONSTANTS
  Calls, Records, Ops,
  Chain,    \* [Calls -> [Records -> Seq(Ops)]], in request order
  Kind      \* [Ops -> Kinds]

Kinds == {"put", "create", "replace", "merge"}

VARIABLES
  record,   \* [Records -> [exists, doc]]
  effect    \* [Ops -> what became of the operation]

avars == <<record, effect>>

\* The working state after an operation.  A void one (a Lua failure, a spent
\* budget) leaves it alone, and so does one whose condition does not hold.
Holds(o, r) ==
  /\ Kind[o] = "create" => ~r.exists
  /\ Kind[o] = "replace" => r.exists

Outcome(o, r, void) ==
  IF o \in void THEN "void" ELSE IF Holds(o, r) THEN "applied" ELSE "refused"

Step(o, r, void) ==
  IF Outcome(o, r, void) # "applied" THEN r
  ELSE [exists |-> TRUE,
        doc |-> IF Kind[o] = "merge" THEN Append(r.doc, o) ELSE <<o>>]

Run(s, r, void) ==
  LET state[i \in 0 .. Len(s)] ==
        IF i = 0 THEN r ELSE Step(s[i], state[i - 1], void)
  IN state

Init ==
  /\ record \in [Records -> [exists : BOOLEAN, doc : {<<>>}]]
  /\ effect = [o \in Ops |-> "none"]

\* A contiguous part of the call's chain takes effect at once.  Neither it
\* nor anything after it in the chain has had an effect before.
Execute(c, k, i, j, void) ==
  LET s == SubSeq(Chain[c][k], i, j)
      state == Run(s, record[k], void)
  IN /\ \A n \in i .. Len(Chain[c][k]) : effect[Chain[c][k][n]] = "none"
     /\ record' = [record EXCEPT ![k] = state[Len(s)]]
     /\ effect' = [o \in Ops |->
          IF \E n \in DOMAIN s : s[n] = o
          THEN LET n == CHOOSE m \in DOMAIN s : s[m] = o IN Outcome(o, state[n - 1], void)
          ELSE effect[o]]

Delete(k) ==
  /\ record' = [record EXCEPT ![k] = [exists |-> FALSE, doc |-> <<>>]]
  /\ UNCHANGED effect

Next ==
  \/ \E k \in Records : Delete(k)
  \/ \E c \in Calls, k \in Records : \E i \in DOMAIN Chain[c][k] :
       \E j \in i .. Len(Chain[c][k]) :
         \E void \in SUBSET {Chain[c][k][n] : n \in i .. j} : Execute(c, k, i, j, void)

Spec == Init /\ [][Next]_avars

=============================================================================
