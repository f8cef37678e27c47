---------------------------- MODULE RecordQueue -----------------------------
(***************************************************************************)
(* What the request batcher promises about records: an abstract queue of   *)
(* calls, each touching a set of records.  Calls may overtake each other,  *)
(* leave the queue, run together and fail, but the operations on any one   *)
(* record take effect in the order in which the calls arrived.             *)
(*                                                                         *)
(* RequestBatcher implements this specification.  It knows nothing about   *)
(* batches, limits, channels or contexts.  That it keeps the order of      *)
(* arrival, for any number of calls and records, is proved at the end.     *)
(***************************************************************************)
EXTENDS Naturals, TLAPS

CONSTANTS Calls, Keys, Records

QueueAssumption == Records \in [Calls -> SUBSET Keys]

VARIABLES
  clock,     \* number of calls that have arrived
  ticket,    \* [Calls -> arrival number], 0 before the arrival
  waiting,   \* calls that have arrived and not started
  open,      \* [Calls -> records a started call may still mutate]
  last       \* [Keys -> ticket of the call that last took effect on the record]

qvars == <<clock, ticket, waiting, open, last>>

Init ==
  /\ clock = 0
  /\ ticket = [c \in Calls |-> 0]
  /\ waiting = {}
  /\ open = [c \in Calls |-> {}]
  /\ last = [k \in Keys |-> 0]

Arrive(c) ==
  /\ ticket[c] = 0
  /\ clock' = clock + 1
  /\ ticket' = [ticket EXCEPT ![c] = clock + 1]
  /\ waiting' = waiting \cup {c}
  /\ UNCHANGED <<open, last>>

\* Cancelled before dispatch, or failed at shutdown.
Leave(S) ==
  /\ waiting' = waiting \ S
  /\ UNCHANGED <<clock, ticket, open, last>>

\* A started call touches no record that an earlier started call may still
\* mutate or that an earlier call left behind in the queue is waiting for.
MayStart(c, S) ==
  \A k \in Records[c], d \in Calls :
    /\ k \notin open[d]
    /\ d \in waiting \ S /\ k \in Records[d] => ticket[d] > ticket[c]

Start(S) ==
  /\ \A c \in S : MayStart(c, S)
  /\ waiting' = waiting \ S
  /\ open' = [c \in Calls |-> IF c \in S THEN Records[c] ELSE open[c]]
  /\ UNCHANGED <<clock, ticket, last>>

\* Among calls that run together, the earliest one takes effect first.
Settle(c, k) ==
  /\ k \in open[c]
  /\ \A d \in Calls : k \in open[d] => ticket[c] <= ticket[d]
  /\ open' = [open EXCEPT ![c] = @ \ {k}]
  /\ last' = [last EXCEPT ![k] = ticket[c]]
  /\ UNCHANGED <<clock, ticket, waiting>>

\* The execution ended: nothing more happens on behalf of these calls.
Abandon(S) ==
  /\ open' = [c \in Calls |-> IF c \in S THEN {} ELSE open[c]]
  /\ UNCHANGED <<clock, ticket, waiting, last>>

Next ==
  \/ \E c \in Calls : Arrive(c)
  \/ \E S \in SUBSET waiting : Leave(S) \/ Start(S)
  \/ \E c \in Calls, k \in Keys : Settle(c, k)
  \/ \E S \in SUBSET Calls : Abandon(S)

Spec == Init /\ [][Next]_qvars

-----------------------------------------------------------------------------
\* Types; a call waits only after it has arrived.
TypeOK ==
  /\ clock \in Nat
  /\ ticket \in [Calls -> Nat]
  /\ waiting \subseteq Calls
  /\ open \in [Calls -> SUBSET Keys]
  /\ last \in [Keys -> Nat]

\* Tickets are unique, and every call that waits or runs has one.
Tickets ==
  /\ \A c \in Calls : ticket[c] <= clock
  /\ \A c, d \in Calls : c # d /\ ticket[c] = ticket[d] => ticket[c] = 0
  /\ \A c \in waiting : ticket[c] # 0 /\ open[c] = {}
  /\ \A c \in Calls : open[c] # {} => ticket[c] # 0

\* Whoever may still touch a record arrived after everyone who has touched it,
\* and a waiting call arrived after every running call it shares a record with.
Ahead ==
  /\ \A k \in Keys : last[k] <= clock
  /\ \A c \in Calls, k \in Keys : k \in open[c] => last[k] < ticket[c]
  /\ \A c \in waiting : \A k \in Records[c] :
       /\ last[k] < ticket[c]
       /\ \A d \in Calls : k \in open[d] => ticket[d] < ticket[c]

QueueInv == TypeOK /\ Tickets /\ Ahead

\* The calls that take effect on a record do so in arrival order: selectReady()
\* lets independent calls pass a blocked one, never a dependent call.
TakesEffectInOrder == \A k \in Keys : last'[k] # last[k] => last'[k] > last[k]
InOrder == [][TakesEffectInOrder]_qvars

-----------------------------------------------------------------------------
\* Initially nobody waits and nothing has taken effect.
LEMMA InitInv == ASSUME QueueAssumption PROVE Init => QueueInv
BY DEF QueueAssumption, Init, QueueInv, TypeOK, Tickets, Ahead

\* A new arrival gets a ticket above every ticket and every effect so far.
LEMMA ArriveInv == ASSUME QueueAssumption, QueueInv, NEW c \in Calls, Arrive(c) PROVE QueueInv'
<1>. USE DEF QueueAssumption, QueueInv
<1>1. TypeOK'
  BY DEF Arrive, TypeOK
<1>2. Tickets'
  BY DEF Arrive, TypeOK, Tickets
<1>3. \A d \in Calls : d # c => ticket'[d] = ticket[d]
  BY DEF Arrive, TypeOK
<1>4. ticket'[c] = clock + 1 /\ open[c] = {}
  BY DEF Arrive, TypeOK, Tickets
<1>5. \A k \in Keys : last'[k] <= clock'
  BY DEF Arrive, TypeOK, Ahead
<1>6. ASSUME NEW d \in Calls, NEW k \in Keys, k \in open'[d]
      PROVE  last'[k] < ticket'[d]
  BY <1>3, <1>4, <1>6 DEF Arrive, TypeOK, Ahead
<1>7. ASSUME NEW d \in waiting', NEW k \in Records[d]
      PROVE  last'[k] < ticket'[d] /\ \A e \in Calls : k \in open'[e] => ticket'[e] < ticket'[d]
  <2>0. d \in Calls /\ k \in Keys
    BY DEF Arrive, TypeOK
  <2>1. CASE d = c
    <3>1. last[k] <= clock /\ last' = last /\ last[k] \in Nat /\ clock \in Nat
      BY <2>0 DEF Arrive, TypeOK, Ahead
    <3>2. \A e \in Calls : k \in open'[e] => e # c
      BY <1>4 DEF Arrive
    <3>3. \A e \in Calls : e # c => ticket'[e] <= clock /\ ticket'[e] \in Nat
      BY <1>3 DEF TypeOK, Tickets
    <3>. QED BY <1>4, <2>1, <3>1, <3>2, <3>3
  <2>2. CASE d # c
    BY <1>3, <1>4, <2>0, <2>2 DEF Arrive, TypeOK, Ahead
  <2>. QED BY <2>1, <2>2
<1>8. Ahead'
  BY <1>5, <1>6, <1>7 DEF Ahead
<1>. QED BY <1>1, <1>2, <1>8

\* A call that leaves the queue takes no constraint on others with it.
LEMMA LeaveInv == ASSUME QueueAssumption, QueueInv, NEW S \in SUBSET waiting, Leave(S) PROVE QueueInv'
BY DEF QueueAssumption, QueueInv, Leave, TypeOK, Tickets, Ahead

\* Calls that start leave behind only later arrivals on their records.
LEMMA StartInv == ASSUME QueueAssumption, QueueInv, NEW S \in SUBSET waiting, Start(S) PROVE QueueInv'
<1>. USE DEF QueueAssumption, QueueInv
<1>1. TypeOK'
  BY DEF Start, TypeOK
<1>2. Tickets'
  BY DEF Start, TypeOK, Tickets
<1>3. ASSUME NEW c \in Calls, NEW k \in Keys, k \in open'[c]
      PROVE  last'[k] < ticket'[c]
  BY <1>3 DEF Start, TypeOK, Ahead
<1>4. ASSUME NEW c \in waiting', NEW k \in Records[c]
      PROVE  last'[k] < ticket'[c] /\ \A d \in Calls : k \in open'[d] => ticket'[d] < ticket'[c]
  <2>1. c \in waiting /\ c \notin S
    BY DEF Start
  <2>2. last[k] < ticket[c]
    BY <2>1 DEF Ahead
  <2>3. ASSUME NEW d \in S, k \in Records[d] PROVE ticket[d] < ticket[c]
    BY <2>1, <2>3 DEF Start, MayStart, TypeOK
  <2>4. ASSUME NEW d \in Calls \ S, k \in open[d] PROVE ticket[d] < ticket[c]
    BY <2>1, <2>4 DEF Ahead
  <2>. QED BY <2>2, <2>3, <2>4 DEF Start, TypeOK
<1>5. \A k \in Keys : last'[k] <= clock'
  BY DEF Start, Ahead
<1>6. Ahead'
  BY <1>3, <1>4, <1>5 DEF Ahead
<1>. QED BY <1>1, <1>2, <1>6

\* A call that takes effect is the earliest of those that may still do so.
LEMMA SettleInv ==
  ASSUME QueueAssumption, QueueInv, NEW c \in Calls, NEW k \in Keys, Settle(c, k)
  PROVE  QueueInv'
<1>. USE DEF QueueAssumption, QueueInv
<1>1. TypeOK'
  BY DEF Settle, TypeOK
<1>2. Tickets'
  BY DEF Settle, TypeOK, Tickets
<1>3. ASSUME NEW d \in Calls, NEW m \in Keys, m \in open'[d]
      PROVE  last'[m] < ticket'[d]
  <2>1. m \in open[d] /\ ~(d = c /\ m = k)
    BY <1>3 DEF Settle, TypeOK
  <2>2. CASE m = k
    BY <2>1, <2>2 DEF Settle, TypeOK, Tickets
  <2>3. CASE m # k
    BY <2>1, <2>3 DEF Settle, TypeOK, Ahead
  <2>. QED BY <2>2, <2>3
<1>4. ASSUME NEW d \in waiting', NEW m \in Records[d]
      PROVE  last'[m] < ticket'[d] /\ \A e \in Calls : m \in open'[e] => ticket'[e] < ticket'[d]
  BY DEF Settle, TypeOK, Ahead
<1>5. \A m \in Keys : last'[m] <= clock'
  BY DEF Settle, TypeOK, Tickets, Ahead
<1>6. Ahead'
  BY <1>3, <1>4, <1>5 DEF Ahead
<1>. QED BY <1>1, <1>2, <1>6

\* An abandoned call is out of the way.
LEMMA AbandonInv == ASSUME QueueAssumption, QueueInv, NEW S \in SUBSET Calls, Abandon(S) PROVE QueueInv'
BY DEF QueueAssumption, QueueInv, Abandon, TypeOK, Tickets, Ahead

\* The invariant behind per-record ordering is inductive.
LEMMA NextInv == ASSUME QueueAssumption PROVE QueueInv /\ [Next]_qvars => QueueInv'
<1>. SUFFICES ASSUME QueueInv, [Next]_qvars PROVE QueueInv'
  OBVIOUS
<1>1. CASE UNCHANGED qvars
  BY <1>1 DEF qvars, QueueInv, TypeOK, Tickets, Ahead
<1>. QED
  BY <1>1, ArriveInv, LeaveInv, StartInv, SettleInv, AbandonInv DEF Next

\* Whoever may still touch a record arrived after everyone who has touched it.
THEOREM QueueInvariant == ASSUME QueueAssumption PROVE Spec => []QueueInv
BY InitInv, NextInv, PTL DEF Spec

\* On every record, calls take effect in arrival order.
THEOREM EffectsInOrder == ASSUME QueueAssumption PROVE Spec => InOrder
<1>1. QueueInv /\ [Next]_qvars => [TakesEffectInOrder]_qvars
  <2>. SUFFICES ASSUME QueueInv, Next, NEW k \in Keys, last'[k] # last[k]
                PROVE  last'[k] > last[k]
    BY DEF qvars, TakesEffectInOrder
  <2>1. PICK c \in Calls : Settle(c, k)
    BY DEF Next, Arrive, Leave, Start, Settle, Abandon, QueueInv, TypeOK
  <2>. QED BY <2>1 DEF Settle, QueueInv, TypeOK, Ahead
<1>. QED BY <1>1, QueueInvariant, PTL DEF Spec, InOrder

=============================================================================
