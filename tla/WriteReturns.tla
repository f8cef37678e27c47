---------------------------- MODULE WriteReturns ----------------------------
(***************************************************************************)
(* The response bytes of writes that ask for their document: the account   *)
(* writeReturns of one execution, which may serve several combined RPCs.   *)
(*                                                                         *)
(* Every candidate document is reserved for its RPC before it is committed *)
(* (reserve), a compare-and-set that loses keeps its reservation into the  *)
(* next attempt and pays only for growth, and the final result of an       *)
(* operation gives back what its document does not use (settle).           *)
(*                                                                         *)
(* executeWriteGroups runs an operation that returns a document alone, and *)
(* reserve and settle skip the others: an operation here is a group.       *)
(***************************************************************************)
EXTENDS Integers, FiniteSets, Functions, SumTheorems

CONSTANTS
  Ops,        \* the operations that return a document
  Callers,    \* the RPCs of the execution
  Owner,      \* [Ops -> Callers]
  Wave,       \* [Ops -> Nat]: the round of executeWriteGroups an operation runs in
  Puts,       \* the operations written without a snapshot
  Limit,      \* [Callers -> Nat]: the granted response bytes
  Sizes,      \* payload sizes of candidate documents
  Overhead,   \* bytes charged per document beside its payload (128)
  MaxMergeAttempts

ReturnsAssumption ==
  /\ IsFiniteSet(Ops)
  /\ Owner \in [Ops -> Callers]
  /\ Wave \in [Ops -> Nat]
  /\ Puts \subseteq Ops
  /\ Limit \in [Callers -> Nat]
  /\ Sizes \subseteq Nat
  /\ Overhead \in Nat
  /\ MaxMergeAttempts \in Nat \ {0}

VARIABLES
  at,        \* where an operation is
  tries,     \* its compare-and-set attempts that lost
  cand,      \* the charge of the document last prepared for it
  size,      \* sizes[o]: the bytes reserved for it
  retained,  \* the bytes of the document its result carries
  remaining, \* remaining[c]
  output,    \* the bytes the memory scope of an RPC holds for returned documents
  observed   \* the tracker's highest use of the grant

vars == <<at, tries, cand, size, retained, remaining, output, observed>>

Larger(a, b) == IF a >= b THEN a ELSE b

OpsOf(c) == {o \in Ops : Owner[o] = c}

Init ==
  /\ at = [o \in Ops |-> "pending"]
  /\ tries = [o \in Ops |-> 0]
  /\ cand = [o \in Ops |-> 0]
  /\ size = [o \in Ops |-> 0]
  /\ retained = [o \in Ops |-> 0]
  /\ remaining = Limit
  /\ output = [c \in Callers |-> 0]
  /\ observed = [c \in Callers |-> 0]

-----------------------------------------------------------------------------
(* The account.                                                            *)

ChargeOf(n) == n + Overhead

Difference(o, n) == Larger(0, ChargeOf(n) - size[o])

\* The tracker keeps the highest use.
Observe(c, used) == [observed EXCEPT ![c] = Larger(@, used)]

Reserve(o, n) ==
  /\ output' = [output EXCEPT ![Owner[o]] = @ + Difference(o, n)]
  /\ remaining' = [remaining EXCEPT ![Owner[o]] = @ - Difference(o, n)]
  /\ observed' = Observe(Owner[o], Limit[Owner[o]] - remaining'[Owner[o]])
  /\ size' = [size EXCEPT ![o] = Larger(ChargeOf(n), @)]

Unused(o, kept) == Larger(0, size[o] - kept)

\* The result of o is final and its document takes kept bytes.
Settle(o, kept) ==
  /\ output' = [output EXCEPT ![Owner[o]] = @ - Unused(o, kept)]
  /\ remaining' = [remaining EXCEPT ![Owner[o]] = @ + Unused(o, kept)]
  /\ size' = [size EXCEPT ![o] = 0]
  /\ retained' = [retained EXCEPT ![o] = kept]
  /\ at' = [at EXCEPT ![o] = "done"]
  /\ UNCHANGED <<tries, cand, observed>>

-----------------------------------------------------------------------------
(* The execution.                                                          *)

Running == \A o \in Ops : at[o] # "error"

\* Rounds run one after the other, and in a round the puts before the rest.
Turn(o) ==
  /\ Running
  /\ \A p \in Ops : Wave[p] < Wave[o] \/ (Wave[p] = Wave[o] /\ p \in Puts /\ o \notin Puts)
                      => at[p] = "done"

\* The attempts of the operations of a round go together.
SameAttempt(o) ==
  \A p \in Ops \ Puts : Wave[p] = Wave[o] => at[p] \in {"done", "spent"} \/ tries[p] >= tries[o]

\* A candidate is prepared and its response bytes are reserved.
Prepare(o, n) ==
  /\ at[o] = "pending"
  /\ Turn(o)
  /\ SameAttempt(o)
  /\ Difference(o, n) <= remaining[Owner[o]]
  /\ Reserve(o, n)
  /\ cand' = [cand EXCEPT ![o] = ChargeOf(n)]
  /\ at' = [at EXCEPT ![o] = "candidate"]
  /\ UNCHANGED <<tries, retained>>

\* The RPC has no response bytes left for the candidate.
OverBudget(o, n) ==
  /\ at[o] = "pending"
  /\ Turn(o)
  /\ SameAttempt(o)
  /\ Difference(o, n) > remaining[Owner[o]]
  /\ Settle(o, 0)

\* The operation ends without a candidate that can be committed: memory for the
\* snapshot, the candidate or its response is refused, or the merge fails or
\* leaves the record alone.
Refuse(o) ==
  /\ at[o] = "pending"
  /\ Turn(o)
  /\ SameAttempt(o)
  /\ Settle(o, 0)

\* An operation that is not combined with others may exceed the bytes one
\* attempt may prepare; its response bytes are reserved already.
RefuseCandidate(o) ==
  /\ at[o] = "candidate" /\ o \notin Puts
  /\ Turn(o)
  /\ Settle(o, 0)

\* The write of the round's puts waits until all of them are prepared.
Sent(o) == o \in Puts => \A p \in Puts : Wave[p] = Wave[o] => at[p] # "pending"

\* The store has written the candidate: attachWriteDocument, then settle.
Applied(o) ==
  /\ at[o] = "candidate"
  /\ Turn(o) /\ Sent(o)
  /\ Settle(o, cand[o])

\* The store refuses the write for good; a put's precondition is final too.
Failed(o) ==
  /\ at[o] = "candidate"
  /\ Turn(o) /\ Sent(o)
  /\ Settle(o, 0)

\* A compare-and-set that lost is tried again; what it reserved stays.
Conflict(o) ==
  /\ at[o] = "candidate" /\ o \notin Puts
  /\ Turn(o)
  /\ tries' = [tries EXCEPT ![o] = @ + 1]
  /\ at' = [at EXCEPT ![o] = IF tries'[o] = MaxMergeAttempts THEN "spent" ELSE "pending"]
  /\ UNCHANGED <<cand, size, retained, remaining, output, observed>>

\* The attempts are used up.

Exhaust(o) ==
  /\ at[o] = "spent"
  /\ Turn(o)
  /\ \A p \in Ops : Wave[p] = Wave[o] => at[p] \in {"done", "spent"}
  /\ Settle(o, 0)

\* The storage call or the RPC's context fails: the execution returns an error,
\* no result is sent and the scopes are closed with the RPCs.
Fail ==
  /\ Running
  /\ \E o \in Ops : at[o] # "done"
  /\ at' = [o \in Ops |-> IF at[o] = "done" THEN "done" ELSE "error"]
  /\ UNCHANGED <<tries, cand, size, retained, remaining, output, observed>>

Finished == (\A o \in Ops : at[o] \in {"done", "error"}) /\ UNCHANGED vars

Next ==
  \/ \E o \in Ops :
       \/ \E n \in Sizes : Prepare(o, n) \/ OverBudget(o, n)
       \/ Refuse(o) \/ RefuseCandidate(o)
       \/ Applied(o) \/ Failed(o) \/ Conflict(o) \/ Exhaust(o)
  \/ Fail
  \/ Finished

Spec == Init /\ [][Next]_vars

-----------------------------------------------------------------------------
Places == {"pending", "candidate", "spent", "done", "error"}

\* The state has the types of writeReturns; no budget is overdrawn.
TypeOK ==
  /\ at \in [Ops -> Places]
  /\ tries \in [Ops -> Nat]
  /\ cand \in [Ops -> Nat]
  /\ size \in [Ops -> Nat]
  /\ retained \in [Ops -> Nat]
  /\ remaining \in [Callers -> Nat]
  /\ output \in [Callers -> Nat]
  /\ observed \in [Callers -> Nat]

\* What an operation holds of its RPC's grant.
Held == [o \in Ops |-> size[o] + retained[o]]

HeldBy(c) == SumFunctionOnSet(Held, OpsOf(c))

\* Response bytes are neither lost nor counted twice across compare-and-set
\* attempts: what an RPC may still reserve, and what its memory scope holds, is
\* its grant without the reservations of its unfinished operations and the
\* documents in its results (reserve, settle).
Conserved ==
  \A c \in Callers : /\ remaining[c] + HeldBy(c) = Limit[c]
                     /\ output[c] = HeldBy(c)

\* An operation whose result is final holds its document and nothing else: no
\* path to a final result (refusal, failure, exhausted attempts) forgets settle.
SettledExact ==
  \A o \in Ops : at[o] = "done" => size[o] = 0 /\ retained[o] \in {0, cand[o]}

\* A document is refused for the response budget only if it does not fit beside
\* what the other operations of its RPC hold: the bytes an earlier attempt
\* reserved for the operation itself do not count against it, and another RPC of
\* the combined execution never does.
RefusedForCause ==
  [][\A o \in Ops : \A n \in Sizes :
       OverBudget(o, n) => ChargeOf(n) + (HeldBy(Owner[o]) - size[o]) > Limit[Owner[o]]]_vars

\* What the tracker reports of the grant covers every moment's use, so that the
\* gateway can hand the rest to another engine (Tracker.Observe in reserve).
PeakReported ==
  \A c \in Callers : Limit[c] - remaining[c] <= observed[c] /\ observed[c] <= Limit[c]

-----------------------------------------------------------------------------
(* Conservation, for any number of RPCs and operations and documents of    *)
(* any size.  Conserved alone is not inductive: settle returns max(0,      *)
(* reserved - retained), which balances only if the document it keeps was  *)
(* reserved in full, and only if nothing was retained before.  Covered     *)
(* says so.                                                                *)

\* A candidate is reserved in full until it is settled, and only a final
\* result retains a document.
Covered ==
  \A o \in Ops : /\ at[o] = "candidate" => cand[o] <= size[o]
                 /\ at[o] \in {"pending", "candidate", "spent"} => retained[o] = 0

Inv == TypeOK /\ Covered /\ Conserved

\* The operations of an RPC are finite in number.
LEMMA OpsOfFinite ==
  ASSUME ReturnsAssumption, NEW c
  PROVE  IsFiniteSet(OpsOf(c)) /\ OpsOf(c) \subseteq Ops
BY FS_Subset DEF ReturnsAssumption, OpsOf

\* What the operations of an RPC hold is a number.
LEMMA HeldByNat ==
  ASSUME ReturnsAssumption, TypeOK, NEW c
  PROVE  HeldBy(c) \in Nat
<1>1. \A o \in OpsOf(c) : Held[o] \in Nat
  BY OpsOfFinite DEF Held, TypeOK
<1> QED BY <1>1, OpsOfFinite, SumNat, Zenon DEF HeldBy

\* Changing what one operation holds changes its owner's sum by as much ...
LEMMA OwnerChange ==
  ASSUME ReturnsAssumption, NEW f, NEW g, NEW o \in Ops,
         \A p \in Ops : f[p] \in Int /\ g[p] \in Int,
         \A p \in Ops : p # o => g[p] = f[p]
  PROVE  SumFunctionOnSet(g, OpsOf(Owner[o])) = SumFunctionOnSet(f, OpsOf(Owner[o])) + (g[o] - f[o])
<1>1. IsFiniteSet(OpsOf(Owner[o])) /\ OpsOf(Owner[o]) \subseteq Ops /\ o \in OpsOf(Owner[o])
  BY OpsOfFinite DEF OpsOf
<1>2. /\ \A p \in OpsOf(Owner[o]) : f[p] \in Int /\ g[p] \in Int
      /\ \A p \in OpsOf(Owner[o]) : p # o => g[p] = f[p]
  BY <1>1
<1> QED BY <1>1, <1>2, SumChange, Zenon

\* ... and no other RPC's.
LEMMA OtherSame ==
  ASSUME ReturnsAssumption, NEW f, NEW g, NEW o \in Ops, NEW c, c # Owner[o],
         \A p \in Ops : p # o => g[p] = f[p]
  PROVE  SumFunctionOnSet(g, OpsOf(c)) = SumFunctionOnSet(f, OpsOf(c))
<1>1. IsFiniteSet(OpsOf(c)) /\ \A p \in OpsOf(c) : g[p] = f[p]
  BY OpsOfFinite DEF OpsOf
<1> QED BY <1>1, SumSame, Zenon

\* The same for what the operations of an RPC hold before and after a step.
LEMMA HeldMoves ==
  ASSUME ReturnsAssumption, NEW o \in Ops, NEW c,
         \A p \in Ops : Held[p] \in Int /\ Held'[p] \in Int,
         \A p \in Ops : p # o => Held'[p] = Held[p]
  PROVE  /\ c = Owner[o] => HeldBy(c)' = HeldBy(c) + (Held'[o] - Held[o])
         /\ c # Owner[o] => HeldBy(c)' = HeldBy(c)
<1> DEFINE f == Held
           g == Held'
<1>1. (\A p \in Ops : f[p] \in Int /\ g[p] \in Int) /\ (\A p \in Ops : p # o => g[p] = f[p])
  OBVIOUS
<1>2. HeldBy(c) = SumFunctionOnSet(f, OpsOf(c)) /\ HeldBy(c)' = SumFunctionOnSet(g, OpsOf(c))
  BY DEF HeldBy, OpsOf
<1> HIDE DEF f, g
<1>3. c = Owner[o] => SumFunctionOnSet(g, OpsOf(c)) = SumFunctionOnSet(f, OpsOf(c)) + (g[o] - f[o])
  BY <1>1, OwnerChange, Zenon
<1>4. c # Owner[o] => SumFunctionOnSet(g, OpsOf(c)) = SumFunctionOnSet(f, OpsOf(c))
  BY <1>1, OtherSame, Zenon
<1> QED BY <1>2, <1>3, <1>4 DEF f, g

\* An operation takes d bytes more of its RPC's grant (d may be negative).
LEMMA MovePreserves ==
  ASSUME ReturnsAssumption, Conserved, TypeOK, NEW o \in Ops, NEW d \in Int,
         \A p \in Ops : Held'[p] \in Int,
         \A p \in Ops : p # o => Held'[p] = Held[p],
         Held'[o] = Held[o] + d,
         remaining' = [remaining EXCEPT ![Owner[o]] = @ - d],
         output' = [output EXCEPT ![Owner[o]] = @ + d]
  PROVE  Conserved'
<1> SUFFICES ASSUME NEW c \in Callers
             PROVE  /\ remaining'[c] + HeldBy(c)' = Limit[c]
                    /\ output'[c] = HeldBy(c)'
  BY DEF Conserved
<1>1. \A p \in Ops : Held[p] \in Int /\ Held'[p] \in Int
  BY DEF Held, TypeOK
<1>2. /\ c = Owner[o] => HeldBy(c)' = HeldBy(c) + (Held'[o] - Held[o])
      /\ c # Owner[o] => HeldBy(c)' = HeldBy(c)
  BY <1>1, HeldMoves, Zenon
<1>3. HeldBy(c) \in Nat /\ Held[o] \in Int /\ Limit[c] \in Nat
  BY HeldByNat, <1>1 DEF ReturnsAssumption
<1>4. Held'[o] - Held[o] = d
  BY <1>3
<1>5. /\ remaining'[c] = IF c = Owner[o] THEN remaining[c] - d ELSE remaining[c]
      /\ output'[c] = IF c = Owner[o] THEN output[c] + d ELSE output[c]
      /\ remaining[c] \in Nat /\ output[c] \in Nat
  BY DEF TypeOK
<1>6. remaining[c] + HeldBy(c) = Limit[c] /\ output[c] = HeldBy(c)
  BY DEF Conserved
<1> QED BY <1>2, <1>3, <1>4, <1>5, <1>6

-----------------------------------------------------------------------------
\* The account starts with the whole grant.
LEMMA InitInv == ASSUME ReturnsAssumption PROVE Init => Inv
<1> SUFFICES ASSUME Init PROVE Inv
  OBVIOUS
<1>1. TypeOK
  BY DEF ReturnsAssumption, Init, TypeOK, Places
<1>2. Covered
  BY DEF Init, Covered
<1>3. ASSUME NEW c \in Callers PROVE HeldBy(c) = 0
  <2>1. \A o \in OpsOf(c) : Held[o] = 0
    BY OpsOfFinite DEF Held, Init
  <2>2. SumFunctionOnSet(Held, OpsOf(c)) = 0
    BY <2>1, OpsOfFinite, SumZero, Zenon
  <2> QED BY <2>2 DEF HeldBy
<1>4. Conserved
  BY <1>3 DEF ReturnsAssumption, Conserved, Init
<1> QED BY <1>1, <1>2, <1>4 DEF Inv

\* reserve: the growth of the reservation moves from the grant to the operation.
LEMMA PrepareInv ==
  ASSUME ReturnsAssumption, Inv, NEW o \in Ops, NEW n \in Sizes, Prepare(o, n)
  PROVE  Inv'
<1> DEFINE d == Difference(o, n)
           charge == ChargeOf(n)
<1>1. TypeOK /\ Covered /\ Conserved
  BY DEF Inv
<1>2. /\ charge \in Nat /\ size[o] \in Nat /\ Owner[o] \in Callers /\ retained[o] = 0
      /\ at[o] = "pending" /\ remaining[Owner[o]] \in Nat /\ Limit[Owner[o]] \in Nat
  BY <1>1 DEF ReturnsAssumption, ChargeOf, TypeOK, Covered, Prepare
<1>3. d \in Nat /\ d \in Int /\ size[o] + d = Larger(charge, size[o]) /\ d <= remaining[Owner[o]]
  BY <1>2 DEF Difference, Larger, Prepare
<1>4. /\ output' = [output EXCEPT ![Owner[o]] = @ + d]
      /\ remaining' = [remaining EXCEPT ![Owner[o]] = @ - d]
      /\ size' = [size EXCEPT ![o] = Larger(charge, @)]
      /\ observed' = [observed EXCEPT ![Owner[o]] = Larger(@, Limit[Owner[o]] - remaining'[Owner[o]])]
      /\ cand' = [cand EXCEPT ![o] = charge]
      /\ at' = [at EXCEPT ![o] = "candidate"]
      /\ tries' = tries /\ retained' = retained
  BY DEF Prepare, Reserve, Observe
<1>5. Larger(charge, size[o]) \in Nat /\ charge <= Larger(charge, size[o])
  BY <1>2 DEF Larger
<1> HIDE DEF d, charge
<1>6. TypeOK'
  <2>1. remaining' \in [Callers -> Nat] /\ output' \in [Callers -> Nat]
    BY <1>1, <1>2, <1>3, <1>4 DEF TypeOK
  <2>2. observed' \in [Callers -> Nat]
    <3>1. remaining'[Owner[o]] \in Nat /\ observed[Owner[o]] \in Nat
      BY <1>1, <1>2, <2>1 DEF TypeOK
    <3>2. Larger(observed[Owner[o]], Limit[Owner[o]] - remaining'[Owner[o]]) \in Nat
      BY <3>1, <1>2 DEF Larger
    <3> QED BY <3>2, <1>1, <1>4 DEF TypeOK
  <2>3. size' \in [Ops -> Nat] /\ cand' \in [Ops -> Nat]
    BY <1>1, <1>2, <1>4, <1>5 DEF TypeOK
  <2>4. at' \in [Ops -> Places]
    BY <1>1, <1>4 DEF TypeOK, Places
  <2> QED BY <1>1, <1>4, <2>1, <2>2, <2>3, <2>4 DEF TypeOK
<1>7. Covered'
  BY <1>1, <1>2, <1>4, <1>5 DEF Covered, TypeOK
<1>8. Conserved'
  <2>1. /\ \A p \in Ops : Held'[p] = size'[p] + retained'[p]
        /\ \A p \in Ops : Held[p] = size[p] + retained[p]
    BY DEF Held
  <2>2. \A p \in Ops : Held'[p] \in Int
    BY <1>6, <2>1 DEF TypeOK
  <2>3. \A p \in Ops : p # o => Held'[p] = Held[p]
    BY <1>1, <1>4, <2>1 DEF TypeOK
  <2>4. Held'[o] = Held[o] + d
    <3>1. size'[o] = size[o] + d /\ retained'[o] = 0
      BY <1>1, <1>2, <1>3, <1>4 DEF TypeOK
    <3> QED BY <3>1, <1>2, <1>3, <2>1
  <2> QED BY <1>1, <1>3, <1>4, <2>2, <2>3, <2>4, MovePreserves, Zenon
<1> QED BY <1>6, <1>7, <1>8 DEF Inv

\* settle: the difference between the reservation and the document moves back.
LEMMA SettleInv ==
  ASSUME ReturnsAssumption, Inv, NEW o \in Ops, NEW kept \in Nat, kept <= size[o],
         at[o] \in {"pending", "candidate", "spent"}, Settle(o, kept)
  PROVE  Inv'
<1> DEFINE d == kept - size[o]
<1>1. TypeOK /\ Covered /\ Conserved
  BY DEF Inv
<1>2. size[o] \in Nat /\ Owner[o] \in Callers /\ retained[o] = 0
  BY <1>1 DEF ReturnsAssumption, TypeOK, Covered
<1>3. d \in Int /\ Unused(o, kept) = -d /\ -d \in Nat /\ size[o] + d = kept
  BY <1>2 DEF Unused, Larger
<1> HIDE DEF d
<1>4. /\ size' = [size EXCEPT ![o] = 0]
      /\ retained' = [retained EXCEPT ![o] = kept]
      /\ at' = [at EXCEPT ![o] = "done"]
      /\ tries' = tries /\ cand' = cand /\ observed' = observed
  BY DEF Settle
<1>5. /\ remaining' = [remaining EXCEPT ![Owner[o]] = @ - d]
      /\ output' = [output EXCEPT ![Owner[o]] = @ + d]
  <2>1. remaining[Owner[o]] \in Nat /\ output[Owner[o]] \in Nat
    BY <1>1, <1>2 DEF TypeOK
  <2>2. /\ remaining[Owner[o]] + Unused(o, kept) = remaining[Owner[o]] - d
        /\ output[Owner[o]] - Unused(o, kept) = output[Owner[o]] + d
    BY <1>3, <2>1
  <2> QED BY <2>2 DEF Settle
<1>6. Conserved'
  <2>1. /\ \A p \in Ops : Held'[p] = size'[p] + retained'[p]
        /\ \A p \in Ops : Held[p] = size[p] + retained[p]
    BY DEF Held
  <2>2. \A p \in Ops : Held'[p] \in Int
    BY <1>1, <1>4, <2>1 DEF TypeOK
  <2>3. \A p \in Ops : p # o => Held'[p] = Held[p]
    BY <1>1, <1>4, <2>1 DEF TypeOK
  <2>4. Held'[o] = Held[o] + d
    <3>1. size'[o] = 0 /\ retained'[o] = kept
      BY <1>1, <1>4 DEF TypeOK
    <3> QED BY <3>1, <1>2, <1>3, <2>1
  <2> QED BY <1>1, <1>3, <1>5, <2>2, <2>3, <2>4, MovePreserves, Zenon
<1>7. TypeOK'
  <2>1. /\ size' \in [Ops -> Nat] /\ retained' \in [Ops -> Nat]
        /\ at' \in [Ops -> Places]
    BY <1>1, <1>4 DEF TypeOK, Places
  <2>2. remaining' \in [Callers -> Nat]
    BY <1>1, <1>2, <1>3, <1>5 DEF TypeOK
  <2>3. output' \in [Callers -> Nat]
    <3>1. \A c : HeldBy(c)' \in Nat
      <4> SUFFICES ASSUME NEW c PROVE HeldBy(c)' \in Nat
        OBVIOUS
      <4>1. \A p \in OpsOf(c) : Held'[p] \in Nat
        BY <2>1, OpsOfFinite DEF Held
      <4>2. SumFunctionOnSet(Held', OpsOf(c)) \in Nat
        BY <4>1, OpsOfFinite, SumNat, Zenon
      <4> QED BY <4>2 DEF HeldBy, OpsOf
    <3>2. \A c \in Callers : output'[c] \in Nat
      BY <1>6, <3>1 DEF Conserved
    <3>3. output' = [c \in Callers |-> output'[c]]
      BY <1>1, <1>5 DEF TypeOK
    <3> QED BY <3>2, <3>3
  <2> QED BY <1>1, <1>4, <2>1, <2>2, <2>3 DEF TypeOK
<1>8. Covered'
  BY <1>1, <1>4 DEF Covered, TypeOK
<1> QED BY <1>6, <1>7, <1>8 DEF Inv

\* Steps that leave the account alone.
LEMMA AccountKept ==
  ASSUME ReturnsAssumption, Inv, UNCHANGED <<cand, size, retained, remaining, output, observed>>,
         TypeOK', Covered'
  PROVE  Inv'
<1>1. Held' = Held
  BY DEF Held
<1>2. \A c : HeldBy(c)' = HeldBy(c)
  BY <1>1 DEF HeldBy, OpsOf
<1> QED BY <1>2 DEF Inv, Conserved

\* Every step keeps the account.
LEMMA NextInv == ASSUME ReturnsAssumption PROVE Inv /\ [Next]_vars => Inv'
<1> SUFFICES ASSUME Inv, [Next]_vars PROVE Inv'
  OBVIOUS
<1>0. TypeOK /\ Covered
  BY DEF Inv
<1>1. ASSUME NEW o \in Ops, NEW n \in Sizes, Prepare(o, n) PROVE Inv'
  BY <1>1, PrepareInv
<1>2. ASSUME NEW o \in Ops, at[o] \in {"pending", "candidate", "spent"}, Settle(o, 0) PROVE Inv'
  <2>1. 0 <= size[o] /\ 0 \in Nat
    BY <1>0 DEF TypeOK
  <2> QED BY <1>2, <2>1, SettleInv, Zenon
<1>3. ASSUME NEW o \in Ops, NEW n \in Sizes, OverBudget(o, n) PROVE Inv'
  BY <1>3, <1>2 DEF OverBudget
<1>4. ASSUME NEW o \in Ops, Refuse(o) PROVE Inv'
  BY <1>4, <1>2 DEF Refuse
<1>5. ASSUME NEW o \in Ops, RefuseCandidate(o) PROVE Inv'
  BY <1>5, <1>2 DEF RefuseCandidate
<1>6. ASSUME NEW o \in Ops, Applied(o) PROVE Inv'
  <2>1. at[o] = "candidate" /\ Settle(o, cand[o])
    BY <1>6 DEF Applied
  <2>2. cand[o] \in Nat /\ cand[o] <= size[o] /\ at[o] \in {"pending", "candidate", "spent"}
    BY <1>0, <2>1 DEF TypeOK, Covered
  <2> QED BY <2>1, <2>2, SettleInv, Zenon
<1>7. ASSUME NEW o \in Ops, Failed(o) PROVE Inv'
  BY <1>7, <1>2 DEF Failed
<1>8. ASSUME NEW o \in Ops, Conflict(o) PROVE Inv'
  <2>1. tries' \in [Ops -> Nat]
    BY <1>0, <1>8 DEF TypeOK, Conflict
  <2>2. at' = [at EXCEPT ![o] = IF tries'[o] = MaxMergeAttempts THEN "spent" ELSE "pending"]
    BY <1>8 DEF Conflict
  <2>3. TypeOK'
    BY <1>0, <1>8, <2>1, <2>2 DEF TypeOK, Places, Conflict
  <2>4. Covered'
    BY <1>0, <1>8, <2>2 DEF Covered, TypeOK, Conflict
  <2> QED BY <1>8, <2>3, <2>4, AccountKept DEF Conflict
<1>9. ASSUME NEW o \in Ops, Exhaust(o) PROVE Inv'
  BY <1>9, <1>2 DEF Exhaust
<1>10. CASE Fail
  <2>1. TypeOK'
    BY <1>0, <1>10 DEF TypeOK, Places, Fail
  <2>2. Covered'
    BY <1>0, <1>10 DEF Covered, TypeOK, Fail
  <2> QED BY <1>10, <2>1, <2>2, AccountKept DEF Fail
<1>11. CASE UNCHANGED vars
  <2>1. TypeOK' /\ Covered'
    BY <1>0, <1>11 DEF TypeOK, Covered, vars
  <2> QED BY <1>11, <2>1, AccountKept DEF vars
<1>12. CASE Finished
  BY <1>11, <1>12 DEF Finished
<1> QED BY <1>1, <1>3, <1>4, <1>5, <1>6, <1>7, <1>8, <1>9, <1>10, <1>11, <1>12 DEF Next

\* For any RPCs, operations and document sizes: however often compare-and-sets
\* lose and documents grow or shrink between attempts, what an RPC may still
\* reserve and what its operations hold add up to its grant, and its memory
\* scope holds exactly the latter (writeReturns.reserve and settle).
THEOREM ReturnsConserved == ASSUME ReturnsAssumption PROVE Spec => []Conserved
<1>1. Inv => Conserved
  BY DEF Inv
<1> QED BY InitInv, NextInv, <1>1, PTL DEF Spec

=============================================================================
