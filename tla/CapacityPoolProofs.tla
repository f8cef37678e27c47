------------------------- MODULE CapacityPoolProofs -------------------------
(***************************************************************************)
(* Proofs about CapacityPool (internal/capacity) for any number of owners  *)
(* and leases and any sizes.  PoolInv, the bytes: every step keeps the     *)
(* type invariant, the ledger and the exclusiveness of the reserve, which  *)
(* need each other, since an owner is never in debt only because           *)
(* Owner.bytes is the sum over its leases.  CallInv, the calls: nothing is *)
(* left behind by a grow that returned.  WakeInv, the queue: no waiter     *)
(* that fits is forgotten, and responses are served first.                 *)
(***************************************************************************)
EXTENDS CapacityPool, SumTheorems

PoolInv == TypeOK /\ Ledger /\ ReserveExclusive

\* The reserve is a part of the pool.
LEMMA NormalLimit == normal \in Nat /\ total \in Nat /\ normal <= total
<1> DEFINE q == Bytes \div 100
<1>1. q \in Nat /\ q * 100 <= Bytes /\ Bytes \in Nat
  BY PoolAssumption
<1> HIDE DEF q
<1>2. BurstPercent \in Nat /\ BurstPercent <= 100
  BY PoolAssumption
<1>3. q * BurstPercent \in Nat
  BY <1>1, <1>2
<1>4. q * BurstPercent <= q * 100
  BY <1>1, <1>2
<1> QED BY <1>1, <1>3, <1>4 DEF normal, total, q

\* Removing an element of a queue of leases leaves a queue of leases.
LEMMA RemoveAtType ==
  ASSUME NEW s \in Seq(Leases), NEW i \in DOMAIN s
  PROVE  RemoveAt(s, i) \in Seq(Leases)
<1>1. i \in Nat /\ 1 <= i /\ i <= Len(s) /\ Len(s) \in Nat
  OBVIOUS
<1>2. SubSeq(s, 1, i - 1) \in Seq(Leases) /\ SubSeq(s, i + 1, Len(s)) \in Seq(Leases)
  BY <1>1
<1> QED BY <1>2 DEF RemoveAt

\* remove() leaves a queue of leases.
LEMMA RemoveWaiterType ==
  ASSUME waiters \in Seq(Leases), NEW l
  PROVE  RemoveWaiter(l) \in Seq(Leases)
<1>1. CASE l \in Range(waiters)
  <2>1. (CHOOSE i \in DOMAIN waiters : waiters[i] = l) \in DOMAIN waiters
    BY <1>1 DEF Range
  <2> QED BY <1>1, <2>1, RemoveAtType DEF RemoveWaiter
<1>2. CASE l \notin Range(waiters)
  BY <1>2 DEF RemoveWaiter
<1> QED BY <1>1, <1>2

\* No owner is in debt.
LEMMA OwnedNat ==
  ASSUME TypeOK, Ledger, NEW o \in Owners
  PROVE  owned[o] \in Nat
<1>1. IsFiniteSet(LeasesOf(o)) /\ LeasesOf(o) \subseteq Leases
  BY PoolAssumption, FS_Subset DEF LeasesOf
<1>2. \A l \in LeasesOf(o) : held[l] \in Nat
  BY <1>1 DEF TypeOK
<1>3. SumFunctionOnSet(held, LeasesOf(o)) \in Nat
  BY <1>1, <1>2, SumNat
<1> QED BY <1>3 DEF Ledger

\* Changing one lease changes the sums over the sets that contain it.
LEMMA SumsMove ==
  ASSUME NEW h \in [Leases -> Nat], NEW l \in Leases, NEW v \in Nat,
         NEW S \in SUBSET Leases,
         NEW g \in [Leases -> Nat], g[l] = v, \A x \in Leases : x # l => g[x] = h[x]
  PROVE  /\ SumFunctionOnSet(h, S) \in Int
         /\ SumFunctionOnSet(g, S) =
              IF l \in S THEN SumFunctionOnSet(h, S) + (v - h[l]) ELSE SumFunctionOnSet(h, S)
<1>1. IsFiniteSet(S) /\ \A x \in S : h[x] \in Int
  BY PoolAssumption, FS_Subset
<1>2. SumFunctionOnSet(h, S) \in Int
  BY <1>1, SumRemove
<1>6. \A x \in S : h[x] \in Int /\ g[x] \in Int
  OBVIOUS
<1>7. \A x \in S : x # l => g[x] = h[x]
  OBVIOUS
<1>4. ASSUME l \in S
      PROVE  SumFunctionOnSet(g, S) = SumFunctionOnSet(h, S) + (g[l] - h[l])
  BY <1>1, <1>6, <1>7, <1>4, SumChange, Zenon
<1>5. ASSUME l \notin S
      PROVE  SumFunctionOnSet(g, S) = SumFunctionOnSet(h, S)
  <2>1. \A x \in S : g[x] = h[x]
    BY <1>7, <1>5
  <2> QED BY <1>1, <2>1, SumSame, Zenon
<1> QED BY <1>2, <1>4, <1>5

\* A change of one lease that is passed on to its owner, to the pool and,
\* for an opaque lease, to the opaque counter keeps the ledger.
LEMMA LedgerChange ==
  ASSUME TypeOK, Ledger, NEW l \in Leases, NEW v \in Nat,
         held' = [held EXCEPT ![l] = v],
         owned' = [owned EXCEPT ![OwnerOf[l]] = @ + (v - held[l])],
         used' = used + (v - held[l]),
         opaque' = opaque + (IF isOpaque[l] THEN v - held[l] ELSE 0),
         isOpaque' = isOpaque
  PROVE  Ledger'
<1>1. held \in [Leases -> Nat] /\ held[l] \in Int /\ v \in Int
  BY DEF TypeOK
<1>2. \A S \in SUBSET Leases :
        /\ SumFunctionOnSet(held, S) \in Int
        /\ SumFunctionOnSet(held', S) =
             IF l \in S THEN SumFunctionOnSet(held, S) + (v - held[l])
             ELSE SumFunctionOnSet(held, S)
  <2> SUFFICES ASSUME NEW S \in SUBSET Leases
      PROVE  /\ SumFunctionOnSet(held, S) \in Int
             /\ SumFunctionOnSet(held', S) =
                  IF l \in S THEN SumFunctionOnSet(held, S) + (v - held[l])
                  ELSE SumFunctionOnSet(held, S)
    BY Zenon
  <2> DEFINE g == held'
  <2>1. g \in [Leases -> Nat]
    BY <1>1
  <2>2. g[l] = v
    BY <1>1
  <2>3. \A x \in Leases : x # l => g[x] = held[x]
    BY <1>1
  <2>4. held \in [Leases -> Nat]
    BY <1>1
  <2>5. /\ SumFunctionOnSet(held, S) \in Int
        /\ SumFunctionOnSet(g, S) =
             IF l \in S THEN SumFunctionOnSet(held, S) + (v - held[l])
             ELSE SumFunctionOnSet(held, S)
    <3> HIDE DEF g
    <3> QED BY <2>1, <2>2, <2>3, <2>4, SumsMove
  <2> QED BY <2>5
<1>3. used' = SumFunction(held')
  <2>1. DOMAIN held = Leases /\ DOMAIN held' = Leases
    BY <1>1
  <2>2. used = SumFunctionOnSet(held, Leases)
    BY <2>1 DEF Ledger, SumFunction
  <2>3. used' = SumFunctionOnSet(held', Leases)
    BY <1>2, <2>2, Zenon
  <2> QED BY <2>1, <2>3 DEF SumFunction
<1>4. ASSUME NEW o \in Owners
      PROVE  owned'[o] = SumFunctionOnSet(held', LeasesOf(o))
  <2>1. LeasesOf(o) \in SUBSET Leases /\ (l \in LeasesOf(o) <=> OwnerOf[l] = o)
    BY DEF LeasesOf
  <2>2. owned[o] = SumFunctionOnSet(held, LeasesOf(o))
    BY DEF Ledger
  <2>3. owned'[o] = IF OwnerOf[l] = o THEN owned[o] + (v - held[l]) ELSE owned[o]
    BY PoolAssumption, SMTT(20) DEF TypeOK
  <2> QED BY <1>2, <2>1, <2>2, <2>3, Zenon
<1>5. opaque' = SumFunctionOnSet(held', {x \in Leases : isOpaque'[x]})
  <2> DEFINE S == {x \in Leases : isOpaque[x]}
  <2>1. S \in SUBSET Leases /\ (l \in S <=> isOpaque[l])
    OBVIOUS
  <2>2. opaque = SumFunctionOnSet(held, S)
    BY DEF Ledger
  <2>3. opaque' = SumFunctionOnSet(held', S)
    <3>1. CASE isOpaque[l]
      BY <1>2, <2>1, <2>2, <3>1, Zenon
    <3>2. CASE ~isOpaque[l]
      <4>1. SumFunctionOnSet(held, S) \in Int /\ SumFunctionOnSet(held', S) = SumFunctionOnSet(held, S)
        BY <1>2, <2>1, <3>2, Zenon
      <4>2. opaque' = opaque + 0
        BY <3>2
      <4> HIDE DEF S
      <4> QED BY <2>2, <4>1, <4>2
    <3> QED BY <3>1, <3>2
  <2> QED BY <2>3
<1>6. \A o \in Owners : owned'[o] = SumFunctionOnSet(held', LeasesOf(o)')
  BY <1>4, Zenon DEF LeasesOf
<1> QED BY <1>3, <1>5, <1>6, Zenon DEF Ledger

\* The ledger depends on nothing but the counters and the leases.
LEMMA LedgerSame ==
  ASSUME Ledger, UNCHANGED <<used, opaque, owned, held, isOpaque>>
  PROVE  Ledger'
  BY DEF Ledger, LeasesOf

\* releaseLocked keeps the types, the ledger and the reserve.
LEMMA ReleaseInv ==
  ASSUME PoolInv, NEW l \in Leases, NEW b \in Nat, b <= held[l],
         ReleaseLocked(l, b), isOpaque' = isOpaque
  PROVE  /\ Ledger' /\ ReserveExclusive'
         /\ used' \in Int /\ opaque' \in Int /\ burstOwner' \in Owners \cup {None}
         /\ owned' \in [Owners -> Int] /\ held' \in [Leases -> Nat]
<1> DEFINE o == OwnerOf[l]
           v == held[l] - b
<1>1. /\ TypeOK /\ Ledger /\ ReserveExclusive
      /\ o \in Owners /\ None \notin Owners
      /\ held[l] \in Nat /\ used \in Int /\ opaque \in Int
      /\ held \in [Leases -> Nat] /\ owned \in [Owners -> Int] /\ owned[o] \in Int
  BY PoolAssumption DEF PoolInv, TypeOK
<1>v. v \in Nat /\ v - held[l] = -b
  BY <1>1
<1>2. /\ held' = [held EXCEPT ![l] = v]
      /\ owned' = [owned EXCEPT ![o] = owned[o] - b]
      /\ used' = used - b
  BY DEF ReleaseLocked
<1>3. Ledger'
  <2>1. owned' = [owned EXCEPT ![OwnerOf[l]] = @ + (v - held[l])]
    <3>1. owned[o] - b = owned[o] + (v - held[l])
      BY <1>1, <1>v
    <3> HIDE DEF v
    <3> QED BY <1>2, <3>1, Zenon
  <2>2. used' = used + (v - held[l])
    BY <1>1, <1>2
  <2>3. opaque' = opaque + (IF isOpaque[l] THEN v - held[l] ELSE 0)
    BY <1>1 DEF ReleaseLocked, OpaqueShare
  <2> HIDE DEF v
  <2> QED BY <1>1, <1>v, <1>2, <2>1, <2>2, <2>3, LedgerChange, Zenon
<1>4. /\ used' \in Int /\ opaque' \in Int
      /\ owned' \in [Owners -> Int] /\ held' \in [Leases -> Nat]
  BY <1>1, <1>2 DEF ReleaseLocked, OpaqueShare
<1>5. burstOwner \in Owners \cup {None}
  BY <1>1 DEF TypeOK
<1>6. burstOwner' = IF used' <= normal \/ (burstOwner = o /\ owned'[o] = 0) THEN None ELSE burstOwner
  BY DEF ReleaseLocked
<1>7. ReserveExclusive'
  <2>1. normal \in Nat /\ total \in Nat
    BY NormalLimit
  <2>2. used' <= total
    BY <1>1, <1>2, <2>1 DEF ReserveExclusive
  <2>3. ASSUME used' > normal
        PROVE  /\ burstOwner # None /\ burstOwner' = burstOwner
               /\ used' - owned'[burstOwner] <= normal
    <3>1. burstOwner # None /\ burstOwner \in Owners /\ used - owned[burstOwner] <= normal
      BY <1>1, <1>2, <1>5, <2>1, <2>3 DEF ReserveExclusive
    <3>2. used' - owned'[burstOwner] <= normal
      <4>1. CASE burstOwner = o
        <5>1. owned'[o] = owned[o] - b
          BY <1>1, <1>2
        <5> QED BY <1>1, <1>2, <2>1, <3>1, <4>1, <5>1
      <4>2. CASE burstOwner # o
        <5>1. owned'[burstOwner] = owned[burstOwner] /\ owned[burstOwner] \in Int
          BY <1>1, <1>2, <3>1, <4>2
        <5> QED BY <1>1, <1>2, <2>1, <3>1, <5>1
      <4> QED BY <4>1, <4>2
    <3>3. ~(burstOwner = o /\ owned'[o] = 0)
      BY <1>4, <2>1, <2>3, <3>2
    <3> QED BY <1>4, <1>6, <2>1, <2>3, <3>1, <3>2, <3>3
  <2>4. used' <= normal => burstOwner' = None
    BY <1>6
  <2>5. normal' = normal /\ total' = total
    BY DEF normal, total
  <2> QED BY <1>1, <1>4, <2>1, <2>2, <2>3, <2>4, <2>5 DEF ReserveExclusive
<1>8. burstOwner' \in Owners \cup {None}
  BY <1>5, <1>6
<1> QED BY <1>3, <1>4, <1>7, <1>8

-----------------------------------------------------------------------------
\* The conjuncts of the type invariant that steps change.
LEMMA MuType ==
  /\ Free.phase \notin Phases
  /\ \A g \in Leases \cup {None} :
       [phase |-> Response, index |-> 1, pending |-> FALSE, grower |-> g] \in
         [phase : Phases, index : Nat \ {0}, pending : BOOLEAN, grower : Leases \cup {None}]
  BY DEF Free, Phases, Request, Response

\* The invariant holds of a new pool.
LEMMA InitInv == ASSUME Init PROVE PoolInv
<1>1. TypeOK
  BY PoolAssumption DEF Init, TypeOK, Idle, Phases, Request
<1>2. held = [l \in Leases |-> 0]
  BY DEF Init
<1>3. ASSUME NEW S \in SUBSET Leases PROVE SumFunctionOnSet(held, S) = 0
  <2>1. IsFiniteSet(S)
    BY PoolAssumption, FS_Subset
  <2> DEFINE P == {T \in SUBSET S : SumFunctionOnSet(held, T) = 0}
  <2>2. ASSUME NEW T \in SUBSET S, \A U \in SUBSET T : U # T => U \in P
        PROVE  T \in P
    <3>1. IsFiniteSet(T)
      BY <2>1, FS_Subset
    <3>2. CASE T = {}
      <4>1. SumFunctionOnSet(held, T) = 0
        BY <3>1, <3>2, SumEquation, Zenon
      <4> QED BY <4>1
    <3>3. CASE T # {}
      <4>1. Pick(T) \in T /\ SumFunctionOnSet(held, T) =
              held[Pick(T)] + SumFunctionOnSet(held, T \ {Pick(T)})
        BY <3>1, <3>3, SumEquation
      <4>2. T \ {Pick(T)} \in P
        BY <2>2, <4>1
      <4>3. held[Pick(T)] = 0
        BY <1>2, <4>1
      <4> QED BY <4>1, <4>2, <4>3
    <3> QED BY <3>2, <3>3
  <2>3. \A T \in SUBSET S : T \in P
    <3> HIDE DEF P
    <3> QED BY <2>1, <2>2, SubsetInduction
  <2> QED BY <2>3
<1>4. Ledger
  <2>1. DOMAIN held = Leases
    BY <1>2
  <2>2. used = 0 /\ opaque = 0 /\ \A o \in Owners : owned[o] = 0
    BY DEF Init
  <2>3. SumFunction(held) = 0
    BY <1>3, <2>1 DEF SumFunction
  <2>4. \A o \in Owners : SumFunctionOnSet(held, LeasesOf(o)) = 0
    BY <1>3 DEF LeasesOf
  <2>5. SumFunctionOnSet(held, {l \in Leases : isOpaque[l]}) = 0
    BY <1>3
  <2> QED BY <2>2, <2>3, <2>4, <2>5 DEF Ledger
<1>5. ReserveExclusive
  BY NormalLimit DEF Init, ReserveExclusive
<1> QED BY <1>1, <1>4, <1>5 DEF PoolInv

\* A grant stays within the limit of its phase and, past the normal limit,
\* goes to the one owner that borrows the reserve.
LEMMA GrantInv == ASSUME PoolInv, DispatchGrant PROVE PoolInv'
<1> DEFINE w == waiters[mu.index]
           o == OwnerOf[w]
           n == call[w].bytes
           v == held[w] + n
<1>1. TypeOK /\ Ledger /\ ReserveExclusive
  BY DEF PoolInv
<1>2. mu # Free /\ mu.index \in DOMAIN waiters /\ waiters \in Seq(Leases)
  BY <1>1, MuType DEF DispatchGrant, TypeOK
<1>3. w \in Leases
  BY <1>2
<1>4. /\ o \in Owners /\ None \notin Owners
      /\ n \in Nat /\ held[w] \in Nat /\ used \in Int /\ opaque \in Int
      /\ held \in [Leases -> Nat] /\ owned \in [Owners -> Int]
      /\ burstOwner \in Owners \cup {None} /\ call[w].phase \in Phases
  BY <1>1, <1>3, PoolAssumption, Zenon DEF TypeOK
<1>5. /\ n <= LimitFor(call[w].phase, o) - used
      /\ burstOwner' = IF used + n > normal THEN o ELSE burstOwner
      /\ used' = used + n
      /\ opaque' = opaque + (IF isOpaque[w] THEN n ELSE 0)
      /\ held' = [held EXCEPT ![w] = v]
      /\ owned' = [owned EXCEPT ![o] = owned[o] + n]
      /\ call' = [call EXCEPT ![w].granted = TRUE]
      /\ waiters' = RemoveAt(waiters, mu.index)
      /\ UNCHANGED <<closed, isOpaque, mu, entitled>>
  BY DEF DispatchGrant, Fits, OpaqueShare
<1>v. v \in Nat /\ v - held[w] = n
  BY <1>4
<1> HIDE DEF w, o, n, v
<1>6. TypeOK'
  <2>1. waiters' \in Seq(Leases)
    BY <1>2, <1>5, RemoveAtType
  <2>2. used' \in Int /\ opaque' \in Int /\ burstOwner' \in Owners \cup {None}
    BY <1>4, <1>5
  <2>3. held' \in [Leases -> Nat] /\ owned' \in [Owners -> Int]
    BY <1>3, <1>4, <1>5, <1>v
  <2>4. call' \in [Leases -> [pc : {"idle", "entering", "waiting"}, bytes : Nat,
                              phase : Phases, granted : BOOLEAN]]
    BY <1>1, <1>3, <1>5, Zenon DEF TypeOK
  <2>5. /\ closed' \in [Leases -> BOOLEAN] /\ isOpaque' \in [Leases -> BOOLEAN]
        /\ entitled' \in [Leases -> Nat] /\ mu' = mu
    BY <1>1, <1>5 DEF TypeOK
  <2> QED BY <1>1, <2>1, <2>2, <2>3, <2>4, <2>5, SMTT(20) DEF TypeOK
<1>7. Ledger'
  <2>1. owned' = [owned EXCEPT ![OwnerOf[w]] = @ + (v - held[w])]
    BY <1>5, <1>v, Zenon DEF o
  <2>2. used' = used + (v - held[w])
    BY <1>5, <1>v
  <2>3. opaque' = opaque + (IF isOpaque[w] THEN v - held[w] ELSE 0)
    BY <1>5, <1>v
  <2> QED BY <1>1, <1>3, <1>5, <1>v, <2>1, <2>2, <2>3, LedgerChange, Zenon
<1>8. ReserveExclusive'
  <2>1. normal \in Nat /\ total \in Nat /\ normal <= total
    BY NormalLimit
  <2>2. normal' = normal /\ total' = total
    BY DEF normal, total
  <2>3. owned[o] \in Nat
    BY <1>1, <1>4, OwnedNat
  <2>4. owned'[o] = owned[o] + n /\ \A p \in Owners : p # o => owned'[p] = owned[p]
    BY <1>4, <1>5
  <2>5. /\ used <= total
        /\ burstOwner = None <=> used <= normal
        /\ burstOwner # None => used - owned[burstOwner] <= normal
    BY <1>1 DEF ReserveExclusive
  <2>6. CASE LimitFor(call[w].phase, o) = normal
    <3>1. used + n <= normal /\ used <= normal
      BY <1>4, <1>5, <2>1, <2>6
    <3>2. burstOwner = None /\ burstOwner' = None /\ used' <= normal
      BY <1>4, <1>5, <2>1, <2>5, <3>1
    <3> QED BY <1>4, <1>5, <2>1, <2>2, <3>2, SMTT(20) DEF ReserveExclusive
  <2>7. CASE LimitFor(call[w].phase, o) = total /\ burstOwner \in {None, o}
    <3>1. used' <= total
      BY <1>4, <1>5, <2>1, <2>7
    <3>2. CASE used' > normal
      <4>1. burstOwner' = o
        BY <1>5, <3>2
      <4>2. used' - owned'[o] = used - owned[o]
        BY <1>4, <1>5, <2>3, <2>4
      <4>3. used - owned[o] <= normal
        BY <1>4, <2>1, <2>3, <2>5, <2>7
      <4> QED BY <1>4, <1>5, <2>1, <2>2, <3>1, <3>2, <4>1, <4>2, <4>3 DEF ReserveExclusive
    <3>3. CASE ~(used' > normal)
      <4>1. used' <= normal /\ used <= normal
        BY <1>4, <1>5, <2>1, <3>3
      <4>2. burstOwner' = None
        BY <1>5, <2>5, <3>3, <4>1
      <4> QED BY <2>2, <3>1, <4>1, <4>2 DEF ReserveExclusive
    <3> QED BY <3>2, <3>3
  <2> QED BY <2>6, <2>7 DEF LimitFor
<1> QED BY <1>6, <1>7, <1>8 DEF PoolInv

-----------------------------------------------------------------------------
CallType == [pc : {"idle", "entering", "waiting"}, bytes : Nat,
             phase : Phases, granted : BOOLEAN]
MutexType == [phase : Phases, index : Nat \ {0}, pending : BOOLEAN,
              grower : Leases \cup {None}] \cup {Free}

\* Steps that move no bytes keep the invariant if they keep the types of the
\* queue, the calls and the mutex.
LEMMA NoBytesInv ==
  ASSUME PoolInv, UNCHANGED <<used, opaque, burstOwner, owned, held, isOpaque>>,
         waiters' \in Seq(Leases), closed' \in [Leases -> BOOLEAN],
         call' \in [Leases -> CallType], mu' \in MutexType, entitled' \in [Leases -> Nat]
  PROVE  PoolInv'
<1>1. Ledger'
  BY LedgerSame DEF PoolInv
<1>2. ReserveExclusive'
  BY DEF PoolInv, ReserveExclusive, normal, total
<1>3. TypeOK'
  BY DEF PoolInv, TypeOK, CallType, MutexType
<1> QED BY <1>1, <1>2, <1>3 DEF PoolInv

\* The types the steps start from, and the mutex values they assign.
LEMMA Types ==
  ASSUME PoolInv
  PROVE  /\ waiters \in Seq(Leases) /\ closed \in [Leases -> BOOLEAN]
         /\ call \in [Leases -> CallType] /\ mu \in MutexType
         /\ entitled \in [Leases -> Nat] /\ held \in [Leases -> Nat]
         /\ isOpaque \in [Leases -> BOOLEAN] /\ opaque \in Int
         /\ Idle \in CallType /\ Free \in MutexType
         /\ \A g \in Leases \cup {None} : StartDispatch(g) => mu' \in MutexType
  BY MuType, Zenon DEF PoolInv, TypeOK, CallType, MutexType, Idle, StartDispatch, Phases, Request

\* dispatch() passes a waiter.
LEMMA PassInv == ASSUME PoolInv, DispatchPass PROVE PoolInv'
<1>1. mu # Free /\ mu \in MutexType
  BY Types, MuType DEF DispatchPass
<1>2. mu' \in MutexType
  <2>1. mu \in [phase : Phases, index : Nat \ {0}, pending : BOOLEAN, grower : Leases \cup {None}]
    BY <1>1 DEF MutexType
  <2> DEFINE response == mu.phase = Response
             next == mu.index + 1
  <2>2. \/ mu' = [mu EXCEPT !.index = next]
        \/ mu' = [mu EXCEPT !.index = next, !.pending = response]
    BY DEF DispatchPass
  <2>3. response \in BOOLEAN /\ next \in Nat \ {0}
    BY <2>1
  <2> HIDE DEF response, next
  <2>4. CASE mu' = [mu EXCEPT !.index = next]
    BY <2>1, <2>3, <2>4 DEF MutexType
  <2>5. CASE mu' = [mu EXCEPT !.index = next, !.pending = response]
    BY <2>1, <2>3, <2>5, Zenon DEF MutexType
  <2> QED BY <2>2, <2>4, <2>5
<1> QED BY <1>2, Types, NoBytesInv DEF DispatchPass, poolVars, leaseVars

\* dispatch() turns to the request phase.
LEMMA RequestsInv == ASSUME PoolInv, DispatchRequests PROVE PoolInv'
<1>1. mu # Free /\ mu \in MutexType
  BY Types, MuType DEF DispatchRequests, Phases
<1>2. mu' \in MutexType
  <2>1. mu \in [phase : Phases, index : Nat \ {0}, pending : BOOLEAN, grower : Leases \cup {None}]
    BY <1>1 DEF MutexType
  <2>2. mu' = [mu EXCEPT !.phase = Request, !.index = 1] /\ Request \in Phases
    BY DEF DispatchRequests, Phases
  <2> HIDE DEF MutexType
  <2>3. 1 \in Nat \ {0}
    OBVIOUS
  <2>4. mu' \in [phase : Phases, index : Nat \ {0}, pending : BOOLEAN, grower : Leases \cup {None}]
    BY <2>1, <2>2, <2>3, Zenon
  <2> QED BY <2>4 DEF MutexType
<1> QED BY <1>2, Types, NoBytesInv DEF DispatchRequests, poolVars, leaseVars

\* dispatch() is over and the mutex is released.
LEMMA ReturnInv == ASSUME PoolInv, DispatchReturn PROVE PoolInv'
  BY Types, NoBytesInv DEF DispatchReturn, poolVars, leaseVars

\* Grow returns or starts to wait.
LEMMA DecideInv == ASSUME PoolInv, GrowDecide PROVE PoolInv'
<1> DEFINE l == mu.grower
<1>1. mu # Free /\ l \in Leases
  BY Types, MuType DEF GrowDecide, DispatchOver, MutexType
<1>2. RemoveWaiter(l) \in Seq(Leases)
  BY Types, RemoveWaiterType
<1>3. /\ [call EXCEPT ![l] = Idle] \in [Leases -> CallType]
      /\ [call EXCEPT ![l].pc = "waiting"] \in [Leases -> CallType]
      /\ [entitled EXCEPT ![l] = held[l]] \in [Leases -> Nat]
  BY <1>1, Types, Zenon DEF CallType
<1>4. /\ waiters' \in Seq(Leases) /\ call' \in [Leases -> CallType]
      /\ entitled' \in [Leases -> Nat]
  BY <1>2, <1>3, Types, Zenon DEF GrowDecide
<1> QED BY <1>4, Types, NoBytesInv DEF GrowDecide, leaseVars

\* A Grow call enters the queue.
LEMMA GrowInv ==
  ASSUME PoolInv, NEW l \in Leases, NEW n \in Sizes, NEW phase \in Phases, Grow(l, n, phase)
  PROVE  PoolInv'
<1>1. [pc |-> "entering", bytes |-> n, phase |-> phase, granted |-> FALSE] \in CallType
  BY PoolAssumption DEF CallType
<1>2. call' \in [Leases -> CallType]
  BY <1>1, Types DEF Grow
<1>3. waiters' \in Seq(Leases)
  BY Types DEF Grow
<1>4. mu' \in MutexType
  BY Types DEF Grow
<1> QED BY <1>2, <1>3, <1>4, Types, NoBytesInv, SMTT(20) DEF Grow, leaseVars

\* A waiting call returns with its grant.
LEMMA ResumeInv == ASSUME PoolInv, NEW l \in Leases, GrowResume(l) PROVE PoolInv'
<1>1. call' \in [Leases -> CallType] /\ entitled' \in [Leases -> Nat]
  BY Types DEF GrowResume
<1> QED BY <1>1, Types, NoBytesInv DEF GrowResume, poolVars, leaseVars

\* A waiting call finds its lease closed.
LEMMA ClosedInv == ASSUME PoolInv, NEW l \in Leases, GrowClosed(l) PROVE PoolInv'
<1>1. call' \in [Leases -> CallType]
  BY Types DEF GrowClosed
<1> QED BY <1>1, Types, NoBytesInv DEF GrowClosed, poolVars, leaseVars

\* What a step that releases bytes leaves to be shown.
LEMMA ReleaseStepInv ==
  ASSUME PoolInv, NEW l \in Leases, NEW b \in Nat, b <= held[l],
         ReleaseLocked(l, b), isOpaque' = isOpaque,
         waiters' \in Seq(Leases), closed' \in [Leases -> BOOLEAN],
         call' \in [Leases -> CallType], StartDispatch(None), entitled' \in [Leases -> Nat]
  PROVE  PoolInv'
<1>1. /\ Ledger' /\ ReserveExclusive'
      /\ used' \in Int /\ opaque' \in Int /\ burstOwner' \in Owners \cup {None}
      /\ owned' \in [Owners -> Int] /\ held' \in [Leases -> Nat]
  BY ReleaseInv
<1>2. mu' \in MutexType /\ isOpaque' \in [Leases -> BOOLEAN]
  BY Types
<1>3. TypeOK'
  BY <1>1, <1>2 DEF TypeOK, CallType, MutexType
<1> QED BY <1>1, <1>3 DEF PoolInv

\* The clamp of a release: never more than the lease holds.
LEMMA ReleasableBound ==
  ASSUME PoolInv, NEW l \in Leases, NEW n \in Nat
  PROVE  Releasable(l, n) \in Nat /\ Releasable(l, n) <= held[l]
  BY Types DEF Releasable

\* A waiting call gives up, before or after its grant.
LEMMA ExpireInv == ASSUME PoolInv, NEW l \in Leases, GrowExpire(l) PROVE PoolInv'
<1>1. call' \in [Leases -> CallType] /\ UNCHANGED <<closed, isOpaque, entitled>>
  BY Types DEF GrowExpire
<1>2. call[l].bytes \in Nat
  BY Types DEF CallType
<1>3. StartDispatch(None)
  BY DEF GrowExpire
<1>4. CASE ReleaseLocked(l, Releasable(l, call[l].bytes)) /\ UNCHANGED waiters
  <2>1. Releasable(l, call[l].bytes) \in Nat /\ Releasable(l, call[l].bytes) <= held[l]
    BY <1>2, ReleasableBound
  <2> QED BY <1>1, <1>3, <1>4, <2>1, Types, ReleaseStepInv, Zenon
<1>5. CASE waiters' = RemoveWaiter(l) /\ UNCHANGED <<held, owned, used, opaque, burstOwner>>
  <2>1. waiters' \in Seq(Leases)
    BY <1>5, Types, RemoveWaiterType
  <2>2. mu' \in MutexType
    BY <1>3, Types
  <2> QED BY <1>1, <1>5, <2>1, <2>2, Types, NoBytesInv
<1> QED BY <1>4, <1>5 DEF GrowExpire

\* Shrink releases at most what the lease holds.
LEMMA ShrinkInv ==
  ASSUME PoolInv, NEW l \in Leases, NEW n \in Sizes, Shrink(l, n)
  PROVE  PoolInv'
<1>1. n \in Nat
  BY PoolAssumption
<1>2. Releasable(l, n) \in Nat /\ Releasable(l, n) <= held[l]
  BY <1>1, ReleasableBound
<1>3. entitled' \in [Leases -> Nat]
  <2>1. entitled[l] \in Nat /\ Greater(0, entitled[l] - n) \in Nat
    BY <1>1, Types DEF Greater
  <2> QED BY <2>1, Types DEF Shrink
<1> QED BY <1>2, <1>3, Types, ReleaseStepInv, Zenon DEF Shrink

\* Close releases all the lease holds.
LEMMA CloseInv == ASSUME PoolInv, NEW l \in Leases, Close(l) PROVE PoolInv'
<1>1. held[l] \in Nat /\ held[l] <= held[l]
  BY Types
<1>2. waiters' \in Seq(Leases)
  BY Types, RemoveWaiterType DEF Close
<1>3. closed' \in [Leases -> BOOLEAN] /\ entitled' \in [Leases -> Nat]
  BY Types DEF Close
<1> QED BY <1>1, <1>2, <1>3, Types, ReleaseStepInv, Zenon DEF Close

\* Marking a lease opaque adds what it holds to the opaque counter.
LEMMA MarkInv == ASSUME PoolInv, NEW l \in Leases, MarkOpaque(l) PROVE PoolInv'
<1> DEFINE S == {x \in Leases : isOpaque[x]}
           T == {x \in Leases : isOpaque'[x]}
<1>1. /\ UNCHANGED <<used, burstOwner, waiters, owned, held, closed, call, mu, entitled>>
      /\ isOpaque' = [isOpaque EXCEPT ![l] = TRUE] /\ ~isOpaque[l]
      /\ opaque' = opaque + held[l]
  BY DEF MarkOpaque
<1>2. T = S \cup {l} /\ l \notin S /\ T \ {l} = S
  BY <1>1, Types
<1>3. IsFiniteSet(T) /\ \A x \in T : held[x] \in Int
  BY PoolAssumption, FS_Subset, Types
<1>4. SumFunctionOnSet(held, T) = held[l] + SumFunctionOnSet(held, T \ {l})
  <2>1. l \in T
    BY <1>2
  <2> HIDE DEF T
  <2> QED BY <1>3, <2>1, SumRemove
<1>5. SumFunctionOnSet(held, S) = opaque /\ opaque \in Int /\ held[l] \in Int
  BY Types DEF PoolInv, Ledger
<1>6. opaque' = SumFunctionOnSet(held', T)
  <2>1. SumFunctionOnSet(held', T) = held[l] + opaque
    BY <1>1, <1>2, <1>4, <1>5, Zenon
  <2> HIDE DEF T
  <2> QED BY <1>1, <1>5, <2>1
<1>7. Ledger'
  BY <1>1, <1>6 DEF PoolInv, Ledger, LeasesOf
<1>8. ReserveExclusive'
  BY <1>1 DEF PoolInv, ReserveExclusive, normal, total
<1>9. TypeOK'
  BY <1>1, <1>5, Types, SMTT(30) DEF PoolInv, TypeOK
<1> QED BY <1>7, <1>8, <1>9 DEF PoolInv

-----------------------------------------------------------------------------
(***************************************************************************)
(* What a Grow call leaves behind.  A new lease starts with a clear opaque *)
(* mark, so the opaque counter stays right only if the closed lease it     *)
(* stands for holds nothing.  That is NoLeak, which in turn needs the      *)
(* waiter queue to be free of repetitions and to name open leases with an  *)
(* ungranted call: otherwise a waiter left behind by a timeout or by Close *)
(* could be granted bytes that nobody returns.                             *)
(***************************************************************************)

\* The waiter queue names each lease at most once, and only leases that are
\* open and whose Grow call is running and not granted yet.
QueueOpen ==
  /\ IsInjective(waiters)
  /\ \A i \in DOMAIN waiters :
       LET w == waiters[i]
       IN  call[w].pc # "idle" /\ ~call[w].granted /\ ~closed[w]

\* A Grow call that returned has no grant outstanding.
IdleUngranted == \A l \in Leases : call[l].pc = "idle" => ~call[l].granted

CallInv == QueueOpen /\ IdleUngranted /\ NoLeak

\* The elements of two queues joined.
LEMMA JoinedQueues ==
  ASSUME NEW a \in Seq(Leases), NEW b \in Seq(Leases)
  PROVE  /\ a \o b \in Seq(Leases) /\ Len(a \o b) = Len(a) + Len(b)
         /\ \A j \in 1..(Len(a) + Len(b)) :
              (a \o b)[j] = IF j <= Len(a) THEN a[j] ELSE b[j - Len(a)]
  OBVIOUS

\* The elements of a contiguous part of a queue.
LEMMA PartOfQueue ==
  ASSUME NEW s \in Seq(Leases), NEW m \in 1..(Len(s) + 1), NEW n \in (m - 1)..Len(s)
  PROVE  /\ SubSeq(s, m, n) \in Seq(Leases) /\ Len(SubSeq(s, m, n)) = n - m + 1
         /\ \A j \in 1..(n - m + 1) : SubSeq(s, m, n)[j] = s[m + j - 1]
<1>1. Len(SubSeq(s, m, n)) = n - m + 1
  OBVIOUS
<1>2. ASSUME NEW j \in 1..(n - m + 1) PROVE SubSeq(s, m, n)[j] = s[m + j - 1]
  OBVIOUS
<1>3. SubSeq(s, m, n) \in Seq(Leases)
  OBVIOUS
<1> QED BY <1>1, <1>2, <1>3

\* Dropping an element of a queue without repetitions drops it altogether,
\* leaves the ones before it in place and loses no other.
LEMMA DroppedWaiter ==
  ASSUME NEW s \in Seq(Leases), IsInjective(s), NEW i \in DOMAIN s
  PROVE  /\ IsInjective(RemoveAt(s, i))
         /\ \A j \in DOMAIN RemoveAt(s, i) :
              /\ RemoveAt(s, i)[j] # s[i]
              /\ \E k \in DOMAIN s : RemoveAt(s, i)[j] = s[k]
         /\ Len(RemoveAt(s, i)) = Len(s) - 1
         /\ \A j \in DOMAIN RemoveAt(s, i) : j < i => RemoveAt(s, i)[j] = s[j]
         /\ \A k \in DOMAIN s : k # i => \E j \in DOMAIN RemoveAt(s, i) : RemoveAt(s, i)[j] = s[k]
<1> DEFINE a == SubSeq(s, 1, i - 1)
           b == SubSeq(s, i + 1, Len(s))
           r == RemoveAt(s, i)
           old(j) == IF j < i THEN j ELSE j + 1
<1>1. i \in Nat /\ 1 <= i /\ i <= Len(s) /\ Len(s) \in Nat /\ DOMAIN s = 1..Len(s)
  OBVIOUS
<1>2. /\ a \in Seq(Leases) /\ Len(a) = i - 1 /\ \A j \in 1..(i - 1) : a[j] = s[j]
      /\ b \in Seq(Leases) /\ Len(b) = Len(s) - i /\ \A j \in 1..(Len(s) - i) : b[j] = s[i + j]
  <2>1. 1 \in 1..(Len(s) + 1) /\ i - 1 \in (1 - 1)..Len(s)
    BY <1>1
  <2>2. i + 1 \in 1..(Len(s) + 1) /\ Len(s) \in ((i + 1) - 1)..Len(s)
    BY <1>1
  <2>3. /\ a \in Seq(Leases) /\ Len(a) = (i - 1) - 1 + 1
        /\ \A j \in 1..((i - 1) - 1 + 1) : a[j] = s[1 + j - 1]
    BY <2>1, PartOfQueue, Zenon
  <2>4. /\ b \in Seq(Leases) /\ Len(b) = Len(s) - (i + 1) + 1
        /\ \A j \in 1..(Len(s) - (i + 1) + 1) : b[j] = s[(i + 1) + j - 1]
    BY <2>2, PartOfQueue, Zenon
  <2> HIDE DEF a, b
  <2>5. (i - 1) - 1 + 1 = i - 1 /\ Len(s) - (i + 1) + 1 = Len(s) - i
    BY <1>1
  <2>6. \A j \in 1..(i - 1) : a[j] = s[j]
    BY <1>1, <2>3, <2>5
  <2>7. \A j \in 1..(Len(s) - i) : b[j] = s[i + j]
    <3> TAKE j \in 1..(Len(s) - i)
    <3>1. (i + 1) + j - 1 = i + j
      BY <1>1
    <3>2. b[j] = s[(i + 1) + j - 1]
      BY <2>4, <2>5, Zenon
    <3> QED BY <3>1, <3>2, Zenon
  <2> QED BY <2>3, <2>4, <2>5, <2>6, <2>7, Zenon
<1>3. r = a \o b
  BY DEF RemoveAt
<1> HIDE DEF a, b
<1>4. /\ DOMAIN r = 1..(Len(s) - 1) /\ Len(r) = Len(s) - 1
      /\ \A j \in 1..(Len(s) - 1) : r[j] = IF j <= i - 1 THEN a[j] ELSE b[j - (i - 1)]
  <2>1. /\ a \o b \in Seq(Leases) /\ Len(a \o b) = Len(a) + Len(b)
        /\ \A j \in 1..(Len(a) + Len(b)) :
             (a \o b)[j] = IF j <= Len(a) THEN a[j] ELSE b[j - Len(a)]
    BY <1>2, JoinedQueues, Zenon
  <2>2. Len(a) + Len(b) = Len(s) - 1
    BY <1>1, <1>2
  <2>3. DOMAIN (a \o b) = 1..Len(a \o b)
    BY <2>1
  <2>4. DOMAIN r = 1..(Len(s) - 1) /\ Len(r) = Len(s) - 1
    BY <1>3, <2>1, <2>2, <2>3, Zenon
  <2>5. \A j \in 1..(Len(s) - 1) : r[j] = IF j <= i - 1 THEN a[j] ELSE b[j - (i - 1)]
    BY <1>2, <1>3, <2>1, <2>2, Zenon
  <2> QED BY <2>4, <2>5
<1> HIDE DEF r
<1>5. ASSUME NEW j \in 1..(Len(s) - 1) PROVE old(j) \in 1..Len(s) /\ old(j) # i /\ r[j] = s[old(j)]
  <2>1. CASE j < i
    BY <1>1, <1>2, <1>4, <2>1
  <2>2. CASE ~(j < i)
    <3>1. j - (i - 1) \in 1..(Len(s) - i) /\ i + (j - (i - 1)) = j + 1
      BY <1>1, <2>2
    <3>2. b[j - (i - 1)] = s[j + 1]
      BY <1>2, <3>1
    <3>3. r[j] = b[j - (i - 1)]
      BY <1>1, <1>4, <2>2
    <3> QED BY <1>1, <2>2, <3>2, <3>3
  <2> QED BY <2>1, <2>2
<1>6. \A x, y \in 1..Len(s) : s[x] = s[y] => x = y
  BY <1>1 DEF IsInjective
<1>7. \A x, y \in 1..(Len(s) - 1) : old(x) = old(y) => x = y
  BY <1>1
<1>10. \A j \in DOMAIN r : j < i => r[j] = s[j]
  BY <1>1, <1>4, <1>5
<1>11. ASSUME NEW k \in DOMAIN s, k # i PROVE \E j \in DOMAIN r : r[j] = s[k]
  <2> DEFINE j == IF k < i THEN k ELSE k - 1
  <2>1. j \in 1..(Len(s) - 1) /\ old(j) = k
    BY <1>1, <1>11
  <2> QED BY <1>4, <1>5, <2>1
<1> HIDE DEF old
<1>8. IsInjective(r)
  <2>1. ASSUME NEW x \in 1..(Len(s) - 1), NEW y \in 1..(Len(s) - 1), r[x] = r[y] PROVE x = y
    <3>1. old(x) \in 1..Len(s) /\ old(y) \in 1..Len(s) /\ s[old(x)] = s[old(y)]
      BY <1>5, <2>1, Zenon
    <3> QED BY <1>6, <1>7, <3>1, Zenon
  <2> QED BY <1>4, <2>1, Zenon DEF IsInjective
<1>9. \A j \in DOMAIN r : r[j] # s[i] /\ \E k \in DOMAIN s : r[j] = s[k]
  BY <1>1, <1>4, <1>5, <1>6
<1> QED BY <1>4, <1>8, <1>9, <1>10, <1>11 DEF r

\* remove() takes the lease's waiter out of the queue for good, and no other.
LEMMA WaiterGone ==
  ASSUME waiters \in Seq(Leases), QueueOpen, NEW l
  PROVE  /\ IsInjective(RemoveWaiter(l))
         /\ \A j \in DOMAIN RemoveWaiter(l) :
              /\ RemoveWaiter(l)[j] # l
              /\ \E k \in DOMAIN waiters : RemoveWaiter(l)[j] = waiters[k]
         /\ Len(RemoveWaiter(l)) = IF l \in Range(waiters) THEN Len(waiters) - 1 ELSE Len(waiters)
         /\ \A x \in Range(waiters) : x # l => x \in Range(RemoveWaiter(l))
<1>1. CASE l \in Range(waiters)
  <2> DEFINE i == CHOOSE i \in DOMAIN waiters : waiters[i] = l
  <2>1. i \in DOMAIN waiters /\ waiters[i] = l
    BY <1>1 DEF Range
  <2>2. RemoveWaiter(l) = RemoveAt(waiters, i)
    BY <1>1 DEF RemoveWaiter
  <2> HIDE DEF i
  <2>3. \A x \in Range(waiters) : x # l => x \in Range(RemoveWaiter(l))
    BY <2>1, <2>2, DroppedWaiter DEF QueueOpen, Range
  <2> QED BY <1>1, <2>1, <2>2, <2>3, DroppedWaiter DEF QueueOpen
<1>2. CASE l \notin Range(waiters)
  BY <1>2 DEF RemoveWaiter, Range, QueueOpen
<1> QED BY <1>1, <1>2

\* A step concerns one lease; what remains to be shown is about that lease.
LEMMA OneLease ==
  ASSUME PoolInv, CallInv, PoolInv', NEW l \in Leases,
         \A x \in Leases \ {l} : /\ call'[x] = call[x] /\ closed'[x] = closed[x]
                                 /\ held'[x] = held[x] /\ entitled'[x] = entitled[x],
         IsInjective(waiters'),
         \A j \in DOMAIN waiters' :
           \/ waiters'[j] # l /\ \E k \in DOMAIN waiters : waiters'[j] = waiters[k]
           \/ /\ waiters'[j] = l
              /\ call'[l].pc # "idle" /\ ~call'[l].granted /\ ~closed'[l],
         call'[l].pc = "idle" => ~call'[l].granted,
         held'[l] <= entitled'[l] + (IF call'[l].granted THEN call'[l].bytes ELSE 0),
         closed'[l] => held'[l] = 0
  PROVE  CallInv'
<1>1. QueueOpen'
  <2>1. ASSUME NEW j \in DOMAIN waiters'
        PROVE  /\ call'[waiters'[j]].pc # "idle" /\ ~call'[waiters'[j]].granted
               /\ ~closed'[waiters'[j]]
    <3>1. CASE waiters'[j] # l /\ \E k \in DOMAIN waiters : waiters'[j] = waiters[k]
      <4>1. PICK k \in DOMAIN waiters : waiters'[j] = waiters[k]
        BY <3>1
      <4>2. waiters[k] \in Leases \ {l}
        BY <3>1, <4>1, Types, SMTT(30)
      <4> QED BY <4>1, <4>2 DEF CallInv, QueueOpen
    <3>2. CASE waiters'[j] = l /\ call'[l].pc # "idle" /\ ~call'[l].granted /\ ~closed'[l]
      BY <3>2
    <3> QED BY <3>1, <3>2
  <2> QED BY <2>1 DEF QueueOpen
<1>2. IdleUngranted'
  BY DEF CallInv, IdleUngranted
<1>3. NoLeak'
  <2>1. ASSUME NEW x \in Leases
        PROVE  /\ held'[x] <= entitled'[x] + PendingGrant(x)'
               /\ closed'[x] => held'[x] = 0
    <3>1. CASE x = l
      BY <3>1 DEF PendingGrant
    <3>2. CASE x # l
      BY <3>2 DEF CallInv, NoLeak, PendingGrant
    <3> QED BY <3>1, <3>2
  <2> QED BY <2>1 DEF NoLeak
<1> QED BY <1>1, <1>2, <1>3 DEF CallInv

\* Steps of dispatch() that grant nothing, and MarkOpaque.
LEMMA SameCalls ==
  ASSUME CallInv, UNCHANGED <<waiters, call, closed, held, entitled>>
  PROVE  CallInv'
  BY DEF CallInv, QueueOpen, IdleUngranted, NoLeak, PendingGrant

-----------------------------------------------------------------------------
\* The granted waiter leaves the queue and owes its caller the bytes.
LEMMA GrantCalls == ASSUME PoolInv, CallInv, DispatchGrant PROVE CallInv'
<1> DEFINE w == waiters[mu.index]
<1>1. mu # Free /\ mu.index \in DOMAIN waiters /\ waiters \in Seq(Leases)
  BY MuType DEF DispatchGrant, PoolInv, TypeOK
<1>2. w \in Leases /\ PoolInv'
  BY <1>1, GrantInv
<1>3. /\ held' = [held EXCEPT ![w] = @ + call[w].bytes]
      /\ call' = [call EXCEPT ![w].granted = TRUE]
      /\ waiters' = RemoveAt(waiters, mu.index)
      /\ UNCHANGED <<closed, entitled>>
  BY DEF DispatchGrant
<1>4. call[w].pc # "idle" /\ ~call[w].granted /\ ~closed[w]
  BY <1>1 DEF CallInv, QueueOpen
<1>5. /\ IsInjective(waiters')
      /\ \A j \in DOMAIN waiters' :
           waiters'[j] # w /\ \E k \in DOMAIN waiters : waiters'[j] = waiters[k]
  BY <1>1, <1>3, DroppedWaiter DEF CallInv, QueueOpen
<1> HIDE DEF w
<1>6. held[w] <= entitled[w] /\ held[w] \in Nat /\ entitled[w] \in Nat /\ call[w].bytes \in Nat
  BY <1>2, <1>4, Types DEF CallInv, NoLeak, PendingGrant, CallType
<1>7. /\ call'[w].granted /\ call'[w].bytes = call[w].bytes /\ call'[w].pc = call[w].pc
      /\ held'[w] = held[w] + call[w].bytes
      /\ \A x \in Leases \ {w} : call'[x] = call[x] /\ held'[x] = held[x]
  BY <1>2, <1>3, Types DEF CallType
<1>8. held'[w] <= entitled'[w] + (IF call'[w].granted THEN call'[w].bytes ELSE 0)
  BY <1>3, <1>6, <1>7
<1> QED BY <1>2, <1>3, <1>4, <1>5, <1>7, <1>8, OneLease, SMTT(20)

\* A call that returns without a grant, or with one that it reports.
LEMMA DecideCalls == ASSUME PoolInv, CallInv, GrowDecide PROVE CallInv'
<1> DEFINE l == mu.grower
<1>1. mu # Free /\ l \in Leases /\ PoolInv'
  BY Types, MuType, DecideInv DEF GrowDecide, DispatchOver, MutexType
<1>2. UNCHANGED <<closed, held>>
  BY DEF GrowDecide, leaseVars
<1>3. /\ waiters \in Seq(Leases) /\ call \in [Leases -> CallType]
      /\ held[l] \in Nat /\ entitled[l] \in Nat /\ call[l].bytes \in Nat
  BY <1>1, Types DEF CallType
<1>4. /\ QueueOpen /\ held[l] <= entitled[l] + (IF call[l].granted THEN call[l].bytes ELSE 0)
      /\ closed[l] => held[l] = 0
  BY <1>1 DEF CallInv, NoLeak, PendingGrant
<1>5. Idle.pc = "idle" /\ ~Idle.granted
  BY DEF Idle
<1>6. CASE /\ call[l].granted /\ entitled' = [entitled EXCEPT ![l] = held[l]]
           /\ call' = [call EXCEPT ![l] = Idle] /\ UNCHANGED waiters
  <2>1. \A j \in DOMAIN waiters : waiters[j] # l
    BY <1>4, <1>6 DEF QueueOpen
  <2> HIDE DEF l
  <2>2. /\ call'[l] = Idle /\ entitled'[l] = held[l]
        /\ \A x \in Leases \ {l} : call'[x] = call[x] /\ entitled'[x] = entitled[x]
    BY <1>1, <1>3, <1>6, Types, SMTT(20)
  <2>3. held'[l] <= entitled'[l] + (IF call'[l].granted THEN call'[l].bytes ELSE 0)
    BY <1>2, <1>3, <1>5, <2>2, SMTT(20)
  <2> QED BY <1>1, <1>2, <1>4, <1>5, <1>6, <2>1, <2>2, <2>3, OneLease, SMTT(30) DEF QueueOpen
<1>7. CASE /\ ~call[l].granted /\ waiters' = RemoveWaiter(l)
           /\ call' = [call EXCEPT ![l] = Idle] /\ UNCHANGED entitled
  <2>1. /\ IsInjective(waiters')
        /\ \A j \in DOMAIN waiters' :
             waiters'[j] # l /\ \E k \in DOMAIN waiters : waiters'[j] = waiters[k]
    BY <1>3, <1>4, <1>7, WaiterGone, SMTT(30)
  <2> HIDE DEF l
  <2>2. call'[l] = Idle /\ \A x \in Leases \ {l} : call'[x] = call[x]
    BY <1>1, <1>3, <1>7
  <2>3. held'[l] <= entitled'[l] + (IF call'[l].granted THEN call'[l].bytes ELSE 0)
    BY <1>2, <1>3, <1>4, <1>5, <1>7, <2>2
  <2> QED BY <1>1, <1>2, <1>4, <1>5, <1>7, <2>1, <2>2, <2>3, OneLease, Zenon
<1>8. CASE /\ ~call[l].granted /\ call' = [call EXCEPT ![l].pc = "waiting"]
           /\ UNCHANGED <<waiters, entitled>>
  <2>1. \A j \in DOMAIN waiters : waiters[j] = l => ~closed[l]
    BY <1>4 DEF QueueOpen
  <2> HIDE DEF l
  <2>2. /\ call'[l].pc = "waiting" /\ call'[l].granted = call[l].granted
        /\ \A x \in Leases \ {l} : call'[x] = call[x]
    BY <1>1, <1>3, <1>8 DEF CallType
  <2>3. held'[l] <= entitled'[l] + (IF call'[l].granted THEN call'[l].bytes ELSE 0)
    BY <1>2, <1>3, <1>4, <1>8, <2>2, SMTT(20)
  <2> QED BY <1>1, <1>2, <1>4, <1>8, <2>1, <2>2, <2>3, OneLease, Zenon DEF QueueOpen
<1> QED BY <1>6, <1>7, <1>8 DEF GrowDecide

\* The lease of a new Grow call is open, idle and therefore not queued.
LEMMA GrowCalls ==
  ASSUME PoolInv, CallInv, NEW l \in Leases, NEW n \in Sizes, NEW phase \in Phases,
         Grow(l, n, phase)
  PROVE  CallInv'
<1>1. PoolInv' /\ waiters \in Seq(Leases) /\ QueueOpen
  BY GrowInv, Types DEF CallInv
<1>2. /\ call[l].pc = "idle" /\ ~closed[l] /\ waiters' = Append(waiters, l)
      /\ UNCHANGED <<closed, held, entitled>>
  BY DEF Grow, leaseVars
<1>3. /\ call'[l].pc = "entering" /\ ~call'[l].granted
      /\ \A x \in Leases \ {l} : call'[x] = call[x]
  BY Types DEF Grow
<1>4. \A i \in DOMAIN waiters : waiters[i] # l
  BY <1>1, <1>2 DEF QueueOpen
<1>5. /\ DOMAIN waiters' = 1..(Len(waiters) + 1) /\ DOMAIN waiters = 1..Len(waiters)
      /\ waiters'[Len(waiters) + 1] = l /\ Len(waiters) \in Nat
      /\ \A i \in 1..Len(waiters) : waiters'[i] = waiters[i]
  BY <1>1, <1>2
<1>6. \A i \in DOMAIN waiters' : i = Len(waiters) + 1 \/ i \in DOMAIN waiters
  BY <1>5
<1>7. IsInjective(waiters')
  BY <1>1, <1>4, <1>5, <1>6, SMTT(20) DEF QueueOpen, IsInjective
<1>8. \A j \in DOMAIN waiters' :
        \/ waiters'[j] # l /\ \E k \in DOMAIN waiters : waiters'[j] = waiters[k]
        \/ waiters'[j] = l /\ call'[l].pc # "idle" /\ ~call'[l].granted /\ ~closed'[l]
  BY <1>2, <1>3, <1>4, <1>5, <1>6, SMTT(20)
<1>9. /\ held'[l] <= entitled'[l] + (IF call'[l].granted THEN call'[l].bytes ELSE 0)
      /\ closed'[l] => held'[l] = 0
  <2>1. ~call[l].granted
    BY <1>2, Zenon DEF CallInv, IdleUngranted
  <2> QED BY <1>2, <1>3, <2>1, Types DEF CallInv, NoLeak, PendingGrant
<1> QED BY <1>1, <1>2, <1>3, <1>7, <1>8, <1>9, OneLease

\* A call that wakes granted, or on a closed lease, has left the queue.
LEMMA ResumeCalls ==
  ASSUME PoolInv, CallInv, NEW l \in Leases, GrowResume(l) \/ GrowClosed(l)
  PROVE  CallInv'
<1>1. PoolInv' /\ QueueOpen
  BY ResumeInv, ClosedInv, Zenon DEF CallInv
<1>2. /\ call' = [call EXCEPT ![l] = Idle] /\ UNCHANGED <<waiters, closed, held>>
      /\ \/ call[l].granted /\ entitled' = [entitled EXCEPT ![l] = held[l]]
         \/ closed[l] /\ entitled' = entitled
  BY Zenon DEF GrowResume, GrowClosed, poolVars, leaseVars
<1>3. \A j \in DOMAIN waiters : waiters[j] # l
  BY <1>1, <1>2 DEF QueueOpen
<1>4. Idle.pc = "idle" /\ ~Idle.granted
  BY DEF Idle
<1>5. /\ call'[l] = Idle
      /\ \A x \in Leases \ {l} : call'[x] = call[x] /\ entitled'[x] = entitled[x]
  BY <1>2, Types
<1>6. closed[l] => held[l] = 0
  BY DEF CallInv, NoLeak
<1>7. held'[l] <= entitled'[l] + (IF call'[l].granted THEN call'[l].bytes ELSE 0)
  BY <1>2, <1>4, <1>5, <1>6, Types
<1> QED BY <1>1, <1>2, <1>3, <1>4, <1>5, <1>6, <1>7, OneLease DEF QueueOpen

\* A call that gives up after its grant returns the bytes; one that gives up
\* before it leaves the queue.
LEMMA ExpireCalls == ASSUME PoolInv, CallInv, NEW l \in Leases, GrowExpire(l) PROVE CallInv'
<1>1. PoolInv' /\ QueueOpen /\ waiters \in Seq(Leases)
  BY ExpireInv, Types DEF CallInv
<1>2. call' = [call EXCEPT ![l] = Idle] /\ UNCHANGED <<closed, entitled>> /\ ~closed[l]
  BY DEF GrowExpire
<1>3. Idle.pc = "idle" /\ ~Idle.granted
  BY DEF Idle
<1>4. call'[l] = Idle /\ \A x \in Leases \ {l} : call'[x] = call[x]
  BY <1>2, Types
<1>5. /\ held[l] \in Nat /\ entitled[l] \in Nat /\ call[l].bytes \in Nat
      /\ held[l] <= entitled[l] + (IF call[l].granted THEN call[l].bytes ELSE 0)
  BY Types, Zenon DEF CallType, CallInv, NoLeak, PendingGrant
<1>6. CASE /\ call[l].granted /\ ReleaseLocked(l, Releasable(l, call[l].bytes))
           /\ UNCHANGED waiters
  <2>1. /\ held'[l] = held[l] - Releasable(l, call[l].bytes)
        /\ \A x \in Leases \ {l} : held'[x] = held[x]
    BY <1>6, Types DEF ReleaseLocked
  <2>2. held'[l] <= entitled[l]
    BY <1>5, <1>6, <2>1 DEF Releasable
  <2>3. \A j \in DOMAIN waiters : waiters[j] # l
    BY <1>1, <1>6 DEF QueueOpen
  <2>4. held'[l] <= entitled'[l] + (IF call'[l].granted THEN call'[l].bytes ELSE 0)
    BY <1>2, <1>3, <1>4, <1>5, <2>2, SMTT(20)
  <2> QED BY <1>1, <1>2, <1>3, <1>4, <1>6, <2>1, <2>3, <2>4, OneLease, Zenon DEF QueueOpen
<1>7. CASE ~call[l].granted /\ waiters' = RemoveWaiter(l) /\ UNCHANGED held
  <2>1. /\ IsInjective(waiters')
        /\ \A j \in DOMAIN waiters' :
             waiters'[j] # l /\ \E k \in DOMAIN waiters : waiters'[j] = waiters[k]
    BY <1>1, <1>7, WaiterGone
  <2>2. held'[l] <= entitled'[l] + (IF call'[l].granted THEN call'[l].bytes ELSE 0)
    BY <1>2, <1>3, <1>4, <1>5, <1>7, Zenon
  <2> QED BY <1>1, <1>2, <1>3, <1>4, <1>7, <2>1, <2>2, OneLease
<1> QED BY <1>6, <1>7 DEF GrowExpire

\* Shrink takes as much from the lease as from what its callers count on.
LEMMA ShrinkCalls ==
  ASSUME PoolInv, CallInv, NEW l \in Leases, NEW n \in Sizes, Shrink(l, n)
  PROVE  CallInv'
<1>1. PoolInv' /\ QueueOpen /\ n \in Nat
  BY ShrinkInv, PoolAssumption DEF CallInv
<1>2. UNCHANGED <<waiters, closed, call>> /\ ~closed[l]
  BY DEF Shrink
<1>3. /\ held'[l] = held[l] - Releasable(l, n) /\ entitled'[l] = Greater(0, entitled[l] - n)
      /\ \A x \in Leases \ {l} : held'[x] = held[x] /\ entitled'[x] = entitled[x]
  BY Types DEF Shrink, ReleaseLocked
<1>4. /\ held[l] \in Nat /\ entitled[l] \in Nat /\ call[l].bytes \in Nat
      /\ held[l] <= entitled[l] + (IF call[l].granted THEN call[l].bytes ELSE 0)
      /\ call[l].pc = "idle" => ~call[l].granted
  BY Types, Zenon DEF CallType, CallInv, NoLeak, PendingGrant, IdleUngranted
<1>5. held'[l] <= entitled'[l] + (IF call'[l].granted THEN call'[l].bytes ELSE 0)
  BY <1>1, <1>2, <1>3, <1>4, SMTT(20) DEF Releasable, Greater
<1>6. \A j \in DOMAIN waiters : waiters[j] = l => call[l].pc # "idle" /\ ~call[l].granted
  BY <1>1 DEF QueueOpen
<1> QED BY <1>1, <1>2, <1>3, <1>4, <1>5, <1>6, OneLease DEF QueueOpen

\* Close empties the lease and takes its waiter out of the queue.
LEMMA CloseCalls == ASSUME PoolInv, CallInv, NEW l \in Leases, Close(l) PROVE CallInv'
<1>1. PoolInv' /\ QueueOpen /\ waiters \in Seq(Leases)
  BY CloseInv, Types DEF CallInv
<1>2. call' = call /\ waiters' = RemoveWaiter(l)
  BY DEF Close
<1>3. /\ held'[l] = held[l] - held[l] /\ entitled'[l] = 0
      /\ \A x \in Leases \ {l} : /\ held'[x] = held[x] /\ entitled'[x] = entitled[x]
                              /\ closed'[x] = closed[x]
  BY Types DEF Close, ReleaseLocked
<1>4. held'[l] = 0 /\ call[l].bytes \in Nat /\ (call[l].pc = "idle" => ~call[l].granted)
  BY <1>3, Types DEF CallType, CallInv, IdleUngranted
<1>5. /\ IsInjective(waiters')
      /\ \A j \in DOMAIN waiters' :
           waiters'[j] # l /\ \E k \in DOMAIN waiters : waiters'[j] = waiters[k]
  BY <1>1, <1>2, WaiterGone, SMTT(20)
<1>6. held'[l] <= entitled'[l] + (IF call'[l].granted THEN call'[l].bytes ELSE 0)
  BY <1>2, <1>3, <1>4
<1> QED BY <1>1, <1>2, <1>3, <1>4, <1>5, <1>6, OneLease

\* A new lease starts from a closed one, which holds nothing: forgetting that
\* it was opaque leaves the opaque counter right.
LEMMA NewLeaseInv ==
  ASSUME PoolInv, CallInv, NEW l \in Leases, NewLease(l)
  PROVE  PoolInv' /\ CallInv'
<1> DEFINE S == {x \in Leases : isOpaque[x]}
           T == {x \in Leases : isOpaque'[x]}
<1>1. /\ UNCHANGED <<used, opaque, burstOwner, waiters, owned, held, call, mu, entitled>>
      /\ isOpaque' = [isOpaque EXCEPT ![l] = FALSE] /\ closed[l] /\ call[l].pc = "idle"
      /\ closed' = [closed EXCEPT ![l] = FALSE]
  BY DEF NewLease, poolVars
<1>2. held[l] = 0 /\ held[l] <= entitled[l] + PendingGrant(l)
  BY <1>1 DEF CallInv, NoLeak
<1>3. opaque = SumFunctionOnSet(held, T)
  <2>1. opaque = SumFunctionOnSet(held, S) /\ opaque \in Int
    BY Types DEF PoolInv, Ledger
  <2>2. CASE isOpaque[l]
    <3>1. l \in S /\ S \ {l} = T
      BY <1>1, <2>2, Types
    <3>2. /\ IsFiniteSet(S) /\ \A x \in S : held[x] \in Int
          /\ IsFiniteSet(T) /\ \A x \in T : held[x] \in Int
      BY PoolAssumption, FS_Subset, Types
    <3> HIDE DEF S, T
    <3>3. SumFunctionOnSet(held, S) = held[l] + SumFunctionOnSet(held, S \ {l})
      BY <3>1, <3>2, SumRemove
    <3>4. SumFunctionOnSet(held, T) \in Int
      BY <3>2, SumRemove
    <3> QED BY <1>2, <2>1, <3>1, <3>3, <3>4
  <2>3. CASE ~isOpaque[l]
    <3>1. S = T
      BY <1>1, <2>3, Types
    <3> QED BY <2>1, <3>1
  <2> QED BY <2>2, <2>3
<1>4. Ledger'
  BY <1>1, <1>3 DEF PoolInv, Ledger, LeasesOf
<1>5. ReserveExclusive'
  BY <1>1 DEF PoolInv, ReserveExclusive, normal, total
<1>6. TypeOK'
  BY <1>1, Types, Zenon DEF PoolInv, TypeOK
<1>7. PoolInv'
  BY <1>4, <1>5, <1>6, SMTT(20) DEF PoolInv
<1>8. \A j \in DOMAIN waiters : waiters[j] # l
  BY <1>1 DEF CallInv, QueueOpen
<1>9. ~closed'[l] /\ \A x \in Leases \ {l} : closed'[x] = closed[x]
  BY <1>1, Types
<1>10. /\ call[l].pc = "idle" => ~call[l].granted
       /\ held'[l] <= entitled'[l] + (IF call'[l].granted THEN call'[l].bytes ELSE 0)
  BY <1>1, <1>2, Zenon DEF CallInv, IdleUngranted, PendingGrant
<1>11. IsInjective(waiters')
  BY <1>1 DEF CallInv, QueueOpen
<1> HIDE DEF S, T
<1>12. CallInv'
  BY <1>1, <1>7, <1>8, <1>9, <1>10, <1>11, OneLease, Zenon
<1> QED BY <1>7, <1>12

-----------------------------------------------------------------------------
\* Every step of the pool preserves the inductive invariant.
LEMMA StepInv == ASSUME PoolInv, CallInv, [Next]_vars PROVE PoolInv' /\ CallInv'
<1>1. CASE DispatchPass
  BY <1>1, PassInv, SameCalls DEF DispatchPass, poolVars, leaseVars
<1>2. CASE DispatchGrant
  BY <1>2, GrantInv, GrantCalls
<1>3. CASE DispatchRequests
  BY <1>3, RequestsInv, SameCalls DEF DispatchRequests, poolVars, leaseVars
<1>4. CASE DispatchReturn
  BY <1>4, ReturnInv, SameCalls, SMTT(20) DEF DispatchReturn, poolVars, leaseVars
<1>5. CASE GrowDecide
  BY <1>5, DecideInv, DecideCalls
<1>6. ASSUME NEW l \in Leases, NEW n \in Sizes, NEW phase \in Phases, Grow(l, n, phase)
      PROVE  PoolInv' /\ CallInv'
  BY <1>6, GrowInv, GrowCalls
<1>7. ASSUME NEW l \in Leases, NEW n \in Sizes, Shrink(l, n)
      PROVE  PoolInv' /\ CallInv'
  BY <1>7, ShrinkInv, ShrinkCalls
<1>8. ASSUME NEW l \in Leases, GrowResume(l) \/ GrowClosed(l)
      PROVE  PoolInv' /\ CallInv'
  BY <1>8, ResumeInv, ClosedInv, ResumeCalls
<1>9. ASSUME NEW l \in Leases, GrowExpire(l) PROVE PoolInv' /\ CallInv'
  BY <1>9, ExpireInv, ExpireCalls
<1>10. ASSUME NEW l \in Leases, Close(l) PROVE PoolInv' /\ CallInv'
  BY <1>10, CloseInv, CloseCalls
<1>11. ASSUME NEW l \in Leases, MarkOpaque(l) PROVE PoolInv' /\ CallInv'
  BY <1>11, MarkInv, SameCalls, Zenon DEF MarkOpaque
<1>12. ASSUME NEW l \in Leases, NewLease(l) PROVE PoolInv' /\ CallInv'
  BY <1>12, NewLeaseInv
<1>13. CASE UNCHANGED vars
  <2>1. UNCHANGED <<used, opaque, burstOwner, waiters, owned, held, closed, isOpaque,
                    call, mu, entitled>>
    BY <1>13 DEF vars, poolVars, leaseVars
  <2> QED BY <2>1, Types, NoBytesInv, SameCalls
<1> QED
  BY <1>1, <1>2, <1>3, <1>4, <1>5, <1>6, <1>7, <1>8, <1>9, <1>10, <1>11, <1>12, <1>13, Zenon DEF Next, Dispatch

\* The invariants hold of a new pool.
LEMMA InitCalls == ASSUME Init PROVE PoolInv /\ CallInv
<1>1. PoolInv
  BY InitInv
<1>2. QueueOpen /\ IdleUngranted
  BY DEF Init, QueueOpen, IdleUngranted, Idle, IsInjective
<1>3. NoLeak
  BY DEF Init, NoLeak, PendingGrant, Idle
<1> QED BY <1>1, <1>2, <1>3 DEF CallInv

\* In every reachable state of the pool, the invariants hold together.
LEMMA Invariant == Spec => [](PoolInv /\ CallInv)
<1>1. Init => PoolInv /\ CallInv
  BY InitCalls
<1>2. (PoolInv /\ CallInv) /\ [Next]_vars => (PoolInv /\ CallInv)'
  BY StepInv
<1> QED BY <1>1, <1>2, PTL DEF Spec

\* Whatever the sizes, owners and leases, the pool's types are right, and no
\* lease ever holds a negative number of bytes.
THEOREM PoolTypes == Spec => []TypeOK
<1>1. PoolInv /\ CallInv => TypeOK
  BY DEF PoolInv
<1> QED BY <1>1, Invariant, PTL

\* Whatever races between grants, releases, closes and MarkOpaque, the
\* counters of Pool and Owner are the sums over the leases.
THEOREM LedgerExact == Spec => []Ledger
<1>1. PoolInv /\ CallInv => Ledger
  BY DEF PoolInv
<1> QED BY <1>1, Invariant, PTL

\* The pool is never overdrawn, and the completion reserve has one borrower.
THEOREM OneBorrower == Spec => []ReserveExclusive
<1>1. PoolInv /\ CallInv => ReserveExclusive
  BY DEF PoolInv
<1> QED BY <1>1, Invariant, PTL

\* A failed Grow or a closed lease leaves no bytes behind, also when the
\* failure or the close races the grant.
THEOREM NothingLeaks == Spec => []NoLeak
<1>1. PoolInv /\ CallInv => NoLeak
  BY DEF CallInv
<1> QED BY <1>1, Invariant, PTL

-----------------------------------------------------------------------------
(***************************************************************************)
(* No wake-up is lost.  While dispatch() scans the queue, the waiters it   *)
(* has passed in the response phase are requests, or responses that do not *)
(* fit; a grant only makes the pool fuller and never lends the reserve to  *)
(* somebody else, so they still do not fit when it unlocks.  The request   *)
(* phase starts only when no response is left in the queue.                *)
(***************************************************************************)

\* Only the call that holds the mutex is past its enqueue and not yet
\* decided; only responses wait; every ungranted call of an open lease is in
\* the queue, which exceeds MaxWaiters by that undecided call at most.
Callers ==
  /\ \A l \in Leases :
       /\ call[l].pc = "entering" <=> mu.grower = l
       /\ call[l].pc = "waiting" => call[l].phase = Response
       /\ call[l].pc # "idle" /\ ~call[l].granted /\ ~closed[l] => l \in Range(waiters)
  /\ Len(waiters) <= MaxWaiters + (IF mu.grower \in Range(waiters) THEN 1 ELSE 0)

\* What the scan of dispatch() has established of the waiters it passed.
Scanned ==
  /\ mu = Free => \A i \in DOMAIN waiters : ~Fits(waiters[i])
  /\ mu.phase = Response =>
       \A i \in DOMAIN waiters :
         i < mu.index /\ call[waiters[i]].phase = Response => mu.pending /\ ~Fits(waiters[i])
  /\ mu.phase = Request => \A i \in DOMAIN waiters : call[waiters[i]].phase = Request

WakeInv == Callers /\ Scanned

\* A dispatch() that starts has established nothing yet.
LEMMA StartScanned ==
  ASSUME PoolInv, PoolInv', NEW g \in Leases \cup {None}, StartDispatch(g)
  PROVE  Scanned' /\ mu'.grower = g
<1>1. mu'.phase = Response /\ mu'.index = 1 /\ mu'.grower = g
  BY DEF StartDispatch
<1>2. mu' # Free /\ Response # Request
  BY <1>1, MuType DEF Phases, Response, Request
<1>3. \A i \in DOMAIN waiters' : ~(i < 1)
  BY DEF PoolInv, TypeOK
<1> QED BY <1>1, <1>2, <1>3 DEF Scanned

\* A step of one lease's call leaves the other calls where they were.
LEMMA OneCaller ==
  ASSUME PoolInv, Callers, NEW l \in Leases,
         \A x \in Leases \ {l} : /\ call'[x] = call[x] /\ closed'[x] = closed[x]
                                 /\ mu'.grower = x <=> mu.grower = x,
         call'[l].pc = "entering" <=> mu'.grower = l,
         call'[l].pc = "waiting" => call'[l].phase = Response,
         call'[l].pc # "idle" /\ ~call'[l].granted /\ ~closed'[l] => l \in Range(waiters'),
         \A x \in Range(waiters) : x # l => x \in Range(waiters'),
         Len(waiters') <= MaxWaiters + (IF mu'.grower \in Range(waiters') THEN 1 ELSE 0)
  PROVE  Callers'
<1>1. ASSUME NEW x \in Leases
      PROVE  /\ call'[x].pc = "entering" <=> mu'.grower = x
             /\ call'[x].pc = "waiting" => call'[x].phase = Response
             /\ call'[x].pc # "idle" /\ ~call'[x].granted /\ ~closed'[x] => x \in Range(waiters')
  <2>1. CASE x = l
    BY <2>1
  <2>2. CASE x # l
    BY <2>2, Zenon DEF Callers
  <2> QED BY <2>1, <2>2
<1> QED BY <1>1, Zenon DEF Callers

\* A grant never makes room: a waiter that did not fit still does not.
LEMMA GrantKeepsUnfit ==
  ASSUME PoolInv, DispatchGrant, NEW x \in Leases, call'[x].bytes = call[x].bytes,
         call'[x].phase = call[x].phase, ~Fits(x)
  PROVE  ~Fits(x)'
<1> DEFINE w == waiters[mu.index]
           n == call[w].bytes
           o == OwnerOf[w]
           b == call[x].bytes
<1>1. mu # Free /\ mu.index \in DOMAIN waiters /\ waiters \in Seq(Leases)
  BY MuType DEF DispatchGrant, PoolInv, TypeOK
<1>2. w \in Leases
  BY <1>1
<1>3. n \in Nat /\ b \in Nat
  BY <1>2, Types DEF CallType
<1>4. /\ used \in Int /\ normal \in Nat /\ total \in Nat /\ normal <= total
  BY NormalLimit DEF PoolInv, TypeOK
<1>5. /\ n <= LimitFor(call[w].phase, o) - used
      /\ used' = used + n /\ burstOwner' = IF used + n > normal THEN o ELSE burstOwner
  BY DEF DispatchGrant, Fits
<1>6. ~(b <= LimitFor(call[x].phase, OwnerOf[x]) - used)
  BY DEF Fits
<1>7. LimitFor(call[x].phase, OwnerOf[x])' \in {normal, total}
      /\ LimitFor(call[x].phase, OwnerOf[x]) \in {normal, total}
      /\ LimitFor(call[w].phase, o) \in {normal, total}
  BY DEF LimitFor, normal, total
<1>8. ASSUME LimitFor(call[x].phase, OwnerOf[x]) = normal, normal # total
      PROVE  LimitFor(call[x].phase, OwnerOf[x])' = normal
  <2>1. normal' = normal /\ total' = total
    BY DEF normal, total
  <2>2. CASE call[x].phase # Response
    BY <2>1, <2>2 DEF LimitFor
  <2>3. CASE call[x].phase = Response
    <3>1. burstOwner # None /\ burstOwner # OwnerOf[x]
      BY <1>8, <2>3 DEF LimitFor
    <3>2. CASE burstOwner' = burstOwner
      BY <2>1, <3>1, <3>2 DEF LimitFor
    <3>3. CASE burstOwner' # burstOwner
      <4>1. burstOwner' = o /\ used + n > normal /\ burstOwner # o
        BY <1>5, <3>3
      <4>2. o # OwnerOf[x]
        <5>1. CASE LimitFor(call[w].phase, o) = total
          BY <1>4, <1>8, <3>1, <4>1, <5>1 DEF LimitFor
        <5>2. CASE LimitFor(call[w].phase, o) = normal
          BY <1>3, <1>4, <1>5, <4>1, <5>2
        <5>3. LimitFor(call[w].phase, o) \in {normal, total}
          BY Zenon, <1>7
        <5> QED BY Zenon, <5>1, <5>2, <5>3
      <4>3. o # None
        BY <1>2, PoolAssumption
      <4> QED BY <2>1, <4>1, <4>2, <4>3 DEF LimitFor
    <3> QED BY <3>2, <3>3
  <2> QED BY <2>2, <2>3
<1>9. LimitFor(call[x].phase, OwnerOf[x])' <= LimitFor(call[x].phase, OwnerOf[x])
  BY <1>4, <1>7, <1>8
<1>10. Fits(x)' <=> call'[x].bytes <= LimitFor(call[x].phase, OwnerOf[x])' - used'
  BY DEF Fits
<1> HIDE DEF n, b, o, w
<1> QED BY <1>3, <1>4, <1>5, <1>6, <1>7, <1>9, <1>10 DEF b

-----------------------------------------------------------------------------
\* Facts about a mutex that is held by dispatch().
LEMMA HeldMutex ==
  ASSUME PoolInv, mu.phase \in Phases
  PROVE  /\ mu # Free /\ mu.index \in Nat \ {0} /\ mu.pending \in BOOLEAN
         /\ mu.grower \in Leases \cup {None}
         /\ mu.phase = Response \/ mu.phase = Request
         /\ Response # Request
<1>1. mu \in [phase : Phases, index : Nat \ {0}, pending : BOOLEAN, grower : Leases \cup {None}]
  BY MuType DEF PoolInv, TypeOK
<1> QED BY <1>1, MuType DEF Phases, Response, Request

\* dispatch() passes a waiter, which is of the other phase or does not fit.
LEMMA PassWake == ASSUME PoolInv, WakeInv, DispatchPass PROVE WakeInv'
<1>1. mu.phase \in Phases /\ UNCHANGED <<waiters, call, closed, used, burstOwner>>
  BY DEF DispatchPass, poolVars, leaseVars
<1>2. /\ mu # Free /\ mu.index \in Nat \ {0} /\ (mu.phase = Response \/ mu.phase = Request)
      /\ Response # Request
      /\ mu \in [phase : Phases, index : Nat \ {0}, pending : BOOLEAN, grower : Leases \cup {None}]
  BY <1>1, HeldMutex, MuType DEF PoolInv, TypeOK
<1>3. /\ mu'.phase = mu.phase /\ mu'.grower = mu.grower /\ mu'.index = mu.index + 1
      /\ \/ call[waiters[mu.index]].phase # mu.phase /\ mu'.pending = mu.pending
         \/ ~Fits(waiters[mu.index]) /\ mu'.pending = (mu.phase = Response)
  BY Zenon, <1>2 DEF DispatchPass
<1>4. Callers'
  BY <1>1, <1>3 DEF WakeInv, Callers
<1>5. \A x : Fits(x)' <=> Fits(x)
  BY <1>1 DEF Fits, LimitFor, normal, total
<1>6. mu' # Free
  BY <1>1, <1>3, MuType
<1>7. ASSUME mu.phase = Response, NEW i \in DOMAIN waiters, i < mu.index + 1,
             call[waiters[i]].phase = Response
      PROVE  mu'.pending /\ ~Fits(waiters[i])
  <2>1. i \in Nat
    BY DEF PoolInv, TypeOK
  <2>2. CASE i = mu.index
    BY Zenon, <1>3, <1>7, <2>2
  <2>3. CASE i < mu.index
    BY Zenon, <1>3, <1>7, <2>3 DEF WakeInv, Scanned
  <2> QED BY <1>2, <1>7, <2>1, <2>2, <2>3
<1>8. Scanned'
  BY <1>1, <1>3, <1>5, <1>6, <1>7 DEF WakeInv, Scanned
<1> QED BY <1>4, <1>8 DEF WakeInv

\* dispatch() grants a waiter: the ones passed before still do not fit.
LEMMA GrantWake ==
  ASSUME PoolInv, CallInv, WakeInv, PoolInv', DispatchGrant
  PROVE  WakeInv'
<1> DEFINE w == waiters[mu.index]
<1>1. mu.phase \in Phases /\ mu.index \in DOMAIN waiters /\ waiters \in Seq(Leases)
  <2>1. mu.phase \in Phases /\ mu.index <= Len(waiters)
    BY DEF DispatchGrant
  <2> QED BY <2>1, HeldMutex DEF PoolInv, TypeOK
<1>2. w \in Leases /\ mu # Free /\ mu.index \in Nat /\ MaxWaiters \in Nat
  BY <1>1, HeldMutex, PoolAssumption
<1>3. /\ call' = [call EXCEPT ![w].granted = TRUE]
      /\ waiters' = RemoveAt(waiters, mu.index)
      /\ UNCHANGED <<closed, mu>>
  BY DEF DispatchGrant
<1>4. /\ Len(waiters') = Len(waiters) - 1
      /\ \A j \in DOMAIN waiters' :
           waiters'[j] # w /\ \E k \in DOMAIN waiters : waiters'[j] = waiters[k]
      /\ \A j \in DOMAIN waiters' : j < mu.index => waiters'[j] = waiters[j]
      /\ \A k \in DOMAIN waiters : k # mu.index => \E j \in DOMAIN waiters' : waiters'[j] = waiters[k]
  BY <1>1, <1>3, DroppedWaiter DEF CallInv, QueueOpen
<1>5. \A x \in Range(waiters) : x # w => x \in Range(waiters')
  BY <1>4 DEF Range
<1>12. waiters' \in Seq(Leases)
  BY DEF PoolInv, TypeOK
<1> HIDE DEF w
<1>6. /\ call'[w].granted /\ call'[w].pc = call[w].pc
      /\ \A x \in Leases : call'[x].bytes = call[x].bytes /\ call'[x].phase = call[x].phase
      /\ \A x \in Leases \ {w} : call'[x] = call[x]
  BY <1>2, <1>3, Types DEF CallType
<1>7. Len(waiters') <= MaxWaiters + (IF mu'.grower \in Range(waiters') THEN 1 ELSE 0)
  <2>1. Len(waiters) <= MaxWaiters + (IF mu.grower \in Range(waiters) THEN 1 ELSE 0)
    BY DEF WakeInv, Callers
  <2>2. Len(waiters) \in Nat /\ mu'.grower = mu.grower
    BY <1>1, <1>3
  <2> QED BY <1>2, <1>4, <2>1, <2>2
<1>8. Callers'
  <2>1. \A x \in Leases : /\ call[x].pc = "entering" <=> mu.grower = x
                          /\ call[x].pc = "waiting" => call[x].phase = Response
    BY DEF WakeInv, Callers
  <2>2. /\ call'[w].pc = "entering" <=> mu'.grower = w
        /\ call'[w].pc = "waiting" => call'[w].phase = Response
    BY <1>2, <1>3, <1>6, <2>1
  <2>3. \A x \in Leases \ {w} : /\ call'[x] = call[x] /\ closed'[x] = closed[x]
                                /\ mu'.grower = x <=> mu.grower = x
    BY <1>3, <1>6
  <2> QED BY <1>2, <1>5, <1>6, <1>7, <2>2, <2>3, OneCaller, Zenon DEF WakeInv
<1>9. ASSUME mu.phase = Response, NEW i \in DOMAIN waiters', i < mu.index,
             call'[waiters'[i]].phase = Response
      PROVE  mu.pending /\ ~Fits(waiters[i])'
  <2>1. i \in DOMAIN waiters
    <3>1. DOMAIN waiters' = 1..Len(waiters') /\ DOMAIN waiters = 1..Len(waiters) /\ Len(waiters) \in Nat
      BY <1>1, <1>12
    <3> QED BY <1>4, <3>1
  <2>2. waiters'[i] = waiters[i] /\ waiters[i] \in Leases
    BY <1>1, <1>4, <1>9, <2>1
  <2> DEFINE x == waiters[i]
  <2>3. mu.pending /\ ~Fits(x)
    BY <1>6, <1>9, <2>1, <2>2 DEF WakeInv, Scanned
  <2>4. ~(call'[x].bytes <= LimitFor(call[x].phase, OwnerOf[x])' - used')
    <3> HIDE DEF x
    <3>1. ~Fits(x)'
      BY <1>6, <2>2, <2>3, GrantKeepsUnfit DEF x
    <3> QED BY <1>6, <2>2, <3>1 DEF Fits, x
  <2> QED BY <1>6, <2>2, <2>3, <2>4 DEF Fits
<1>10. ASSUME mu.phase = Request, NEW i \in DOMAIN waiters' PROVE call'[waiters'[i]].phase = Request
  <2>1. PICK k \in DOMAIN waiters : waiters'[i] = waiters[k]
    BY <1>4, Zenon
  <2>2. waiters[k] \in Leases /\ call[waiters[k]].phase = Request
    BY <1>1, <1>10 DEF WakeInv, Scanned
  <2> QED BY <1>6, <2>1, <2>2
<1>11. Scanned'
  BY <1>2, <1>3, <1>9, <1>10 DEF Scanned
<1> QED BY <1>8, <1>11 DEF WakeInv

\* dispatch() turns to the requests: every waiter is one.
LEMMA RequestsWake == ASSUME PoolInv, WakeInv, DispatchRequests PROVE WakeInv'
<1>1. mu.phase = Response /\ mu.phase \in Phases /\ mu.index > Len(waiters) /\ ~mu.pending
      /\ UNCHANGED <<waiters, call, closed>> /\ mu' = [mu EXCEPT !.phase = Request, !.index = 1]
  BY DEF DispatchRequests, poolVars, leaseVars, Phases
<1>2. mu \in [phase : Phases, index : Nat \ {0}, pending : BOOLEAN, grower : Leases \cup {None}]
      /\ Response # Request /\ Request # "free"
  BY <1>1, HeldMutex DEF PoolInv, TypeOK, Request
<1>3. mu'.phase = Request /\ mu'.grower = mu.grower
  BY <1>1, <1>2
<1>4. mu' # Free
  BY <1>2, <1>3 DEF Free
<1>5. ASSUME NEW i \in DOMAIN waiters PROVE call[waiters[i]].phase = Request
  <2>1. waiters[i] \in Leases /\ i \in Nat /\ i <= Len(waiters) /\ Len(waiters) \in Nat
    BY DEF PoolInv, TypeOK
  <2>2. i < mu.index
    BY <1>1, <1>2, <2>1
  <2>3. call[waiters[i]].phase # Response
    BY <1>1, <2>2 DEF WakeInv, Scanned
  <2>4. call[waiters[i]].phase \in Phases
    BY <2>1, Types DEF CallType
  <2> QED BY <2>3, <2>4 DEF Phases
<1>6. Scanned'
  BY <1>1, <1>2, <1>3, <1>4, <1>5 DEF Scanned
<1>7. Callers'
  BY <1>1, <1>3 DEF WakeInv, Callers
<1> QED BY <1>6, <1>7 DEF WakeInv

\* When dispatch() is over, a response in the queue does not fit, and every
\* waiter but the caller's own is a response.
LEMMA OverUnfit ==
  ASSUME PoolInv, CallInv, WakeInv, DispatchOver, NEW i \in DOMAIN waiters,
         waiters[i] # mu.grower \/ call[waiters[i]].phase = Response
  PROVE  waiters[i] \in Leases /\ call[waiters[i]].phase = Response /\ ~Fits(waiters[i])
<1>1. mu.phase \in Phases /\ mu.index > Len(waiters)
  BY DEF DispatchOver
<1>2. waiters[i] \in Leases /\ i \in Nat /\ i <= Len(waiters) /\ Len(waiters) \in Nat
  BY DEF PoolInv, TypeOK
<1>3. i < mu.index /\ (mu.phase = Response \/ mu.phase = Request) /\ Response # Request
  BY <1>1, <1>2, HeldMutex
<1>4. call[waiters[i]].phase = Response
  <2>1. call[waiters[i]].pc \in {"entering", "waiting"}
    BY <1>2, Types DEF CallInv, QueueOpen, CallType
  <2> QED BY <1>2, <2>1 DEF WakeInv, Callers
<1> QED BY <1>2, <1>3, <1>4 DEF WakeInv, Scanned

\* A dispatch() that served no Grow unlocks.
LEMMA ReturnWake == ASSUME PoolInv, CallInv, WakeInv, DispatchReturn PROVE WakeInv'
<1>1. /\ DispatchOver /\ mu.grower = None /\ mu' = Free
      /\ UNCHANGED <<waiters, call, closed, used, burstOwner>>
  BY DEF DispatchReturn, poolVars, leaseVars
<1>2. mu'.grower = mu.grower /\ mu'.phase \notin Phases
  BY <1>1, MuType DEF Free
<1>3. Callers'
  BY <1>1, <1>2 DEF WakeInv, Callers
<1>4. \A i \in DOMAIN waiters : ~Fits(waiters[i])
  <2>1. None \notin Leases
    BY PoolAssumption
  <2>2. \A i \in DOMAIN waiters : waiters[i] \in Leases
    BY DEF PoolInv, TypeOK
  <2> QED BY <1>1, <2>1, <2>2, OverUnfit
<1>5. \A x : Fits(x)' <=> Fits(x)
  BY <1>1 DEF Fits, LimitFor, normal, total
<1>6. Scanned'
  BY <1>1, <1>2, <1>4, <1>5 DEF Scanned, Phases
<1> QED BY <1>3, <1>6 DEF WakeInv

\* Grow after dispatch(): its waiter is granted, withdrawn or kept, and no
\* waiter it leaves in the queue fits.
LEMMA DecideWake ==
  ASSUME PoolInv, CallInv, WakeInv, PoolInv', GrowDecide
  PROVE  WakeInv'
<1> DEFINE l == mu.grower
<1>1. /\ DispatchOver /\ mu.phase \in Phases /\ mu' = Free
      /\ UNCHANGED <<closed, used, burstOwner>>
  BY DEF GrowDecide, DispatchOver, leaseVars
<1>2. l \in Leases /\ mu'.grower = None /\ mu'.phase \notin Phases /\ None \notin Leases
  BY <1>1, HeldMutex, MuType, PoolAssumption DEF GrowDecide, Free
<1>3. /\ waiters \in Seq(Leases) /\ waiters' \in Seq(Leases) /\ MaxWaiters \in Nat
      /\ Len(waiters) \in Nat /\ QueueOpen
      /\ Len(waiters) <= MaxWaiters + (IF l \in Range(waiters) THEN 1 ELSE 0)
      /\ call[l].phase = Response \/ call[l].phase = Request
      /\ call \in [Leases -> CallType]
      /\ call[l].pc = "entering"
  <2>1. call[l].phase \in Phases /\ call \in [Leases -> CallType]
    BY <1>2, Types DEF CallType
  <2>2. waiters \in Seq(Leases) /\ waiters' \in Seq(Leases)
    BY DEF PoolInv, TypeOK
  <2>3. Len(waiters) <= MaxWaiters + (IF l \in Range(waiters) THEN 1 ELSE 0) /\ call[l].pc = "entering"
    BY <1>2 DEF WakeInv, Callers
  <2> QED BY <2>1, <2>2, <2>3, PoolAssumption DEF Phases, CallInv
<1>4. \/ call[l].granted /\ call' = [call EXCEPT ![l] = Idle] /\ waiters' = waiters
      \/ /\ ~call[l].granted /\ waiters' = RemoveWaiter(l)
         /\ call' = [call EXCEPT ![l] = Idle]
      \/ /\ ~call[l].granted /\ call[l].phase = Response /\ Len(waiters) <= MaxWaiters
         /\ call' = [call EXCEPT ![l].pc = "waiting"] /\ waiters' = waiters
  BY DEF GrowDecide
<1> HIDE DEF l
<1>5. /\ Len(waiters') <= MaxWaiters
      /\ \A x \in Range(waiters) : x # l => x \in Range(waiters')
      /\ \A j \in DOMAIN waiters' :
           /\ \E k \in DOMAIN waiters : waiters'[j] = waiters[k]
           /\ waiters'[j] # l \/ (call'[l].pc = "waiting" /\ call[l].phase = Response)
  <2>1. CASE call[l].granted /\ waiters' = waiters
    <3>1. \A k \in DOMAIN waiters : waiters[k] # l
      BY <1>3, <2>1 DEF QueueOpen
    <3>2. l \notin Range(waiters)
      BY <3>1 DEF Range
    <3>3. Len(waiters') <= MaxWaiters
      BY <1>3, <2>1, <3>2
    <3> QED BY <2>1, <3>1, <3>3, Zenon
  <2>2. CASE waiters' = RemoveWaiter(l)
    <3>1. /\ \A j \in DOMAIN waiters' :
               waiters'[j] # l /\ \E k \in DOMAIN waiters : waiters'[j] = waiters[k]
          /\ Len(waiters') = IF l \in Range(waiters) THEN Len(waiters) - 1 ELSE Len(waiters)
          /\ \A x \in Range(waiters) : x # l => x \in Range(waiters')
      <4>1. waiters \in Seq(Leases) /\ QueueOpen
        BY <1>3
      <4>2. /\ \A j \in DOMAIN RemoveWaiter(l) :
                 /\ RemoveWaiter(l)[j] # l
                 /\ \E k \in DOMAIN waiters : RemoveWaiter(l)[j] = waiters[k]
            /\ Len(RemoveWaiter(l)) = IF l \in Range(waiters) THEN Len(waiters) - 1 ELSE Len(waiters)
            /\ \A x \in Range(waiters) : x # l => x \in Range(RemoveWaiter(l))
        BY <4>1, WaiterGone
      <4> QED BY <2>2, <4>2, Zenon
    <3>2. Len(waiters') <= MaxWaiters
      BY <1>3, <3>1
    <3> QED BY <3>1, <3>2, Zenon
  <2>3. CASE /\ call[l].phase = Response /\ Len(waiters) <= MaxWaiters
             /\ call' = [call EXCEPT ![l].pc = "waiting"] /\ waiters' = waiters
    <3>1. call'[l].pc = "waiting"
      BY <1>2, <1>3, <2>3 DEF CallType
    <3> QED BY <2>3, <3>1
  <2> QED BY <1>4, <2>1, <2>2, <2>3, Zenon
<1>6. /\ \A x \in Leases \ {l} : call'[x] = call[x]
      /\ call'[l] = Idle \/ call'[l] = [call[l] EXCEPT !.pc = "waiting"]
      /\ call'[l].pc # "entering"
      /\ call'[l].pc = "waiting" => call[l].phase = Response /\ call'[l].phase = call[l].phase
                                    /\ call'[l].bytes = call[l].bytes /\ ~call[l].granted /\ waiters' = waiters
  <2>1. Idle.pc = "idle"
    BY DEF Idle
  <2>2. CASE call' = [call EXCEPT ![l] = Idle]
    BY <1>2, <1>3, <2>1, <2>2
  <2>3. CASE /\ ~call[l].granted /\ call[l].phase = Response
             /\ call' = [call EXCEPT ![l].pc = "waiting"] /\ waiters' = waiters
    BY <1>2, <1>3, <2>3 DEF CallType
  <2> QED BY <1>4, <2>2, <2>3, Zenon
<1>7. Callers'
  <2>1. \A x \in Leases \ {l} : /\ call'[x] = call[x] /\ closed'[x] = closed[x]
                                /\ mu'.grower = x <=> mu.grower = x
    BY <1>1, <1>2, <1>6 DEF l
  <2>2. call'[l].pc = "entering" <=> mu'.grower = l
    BY <1>2, <1>6
  <2>3. call'[l].pc = "waiting" => call'[l].phase = Response
    BY <1>6
  <2>4. call'[l].pc # "idle" /\ ~call'[l].granted /\ ~closed'[l] => l \in Range(waiters')
    <3>1. l \in Range(waiters) \/ call[l].granted \/ closed[l]
      BY <1>2, <1>3 DEF WakeInv, Callers
    <3>2. call'[l].pc # "idle" => call'[l].pc = "waiting"
      <4>1. Idle.pc = "idle" /\ call[l] \in CallType
        BY <1>2, <1>3 DEF Idle
      <4> QED BY <1>6, <4>1 DEF CallType
    <3> QED BY <1>1, <1>6, <3>1, <3>2
  <2>5. Len(waiters') <= MaxWaiters + (IF mu'.grower \in Range(waiters') THEN 1 ELSE 0)
    BY <1>3, <1>5
  <2> QED BY <1>2, <1>5, <2>1, <2>2, <2>3, <2>4, <2>5, OneCaller, Zenon DEF WakeInv
<1>8. ASSUME NEW j \in DOMAIN waiters' PROVE ~Fits(waiters[j])'
  <2>1. PICK k \in DOMAIN waiters : waiters'[j] = waiters[k]
    BY <1>5, Zenon
  <2> DEFINE x == waiters[k]
  <2>2. x # l \/ (call'[l].pc = "waiting" /\ call[l].phase = Response)
    BY <1>5, <2>1, Zenon
  <2>3. x \in Leases /\ call[x].phase = Response /\ ~Fits(x)
    BY <1>1, <2>2, OverUnfit DEF l
  <2>4. call'[x].bytes = call[x].bytes /\ call'[x].phase = call[x].phase
    BY <1>6, <2>2, <2>3
  <2> HIDE DEF x
  <2>5. ~(call'[x].bytes <= LimitFor(call'[x].phase, OwnerOf[x]) - used)
    BY <2>3, <2>4 DEF Fits
  <2>6. waiters'[j] = x
    BY <2>1 DEF x
  <2> QED BY <1>1, <2>5, <2>6 DEF Fits, LimitFor, normal, total
<1>9. Scanned'
  BY <1>1, <1>2, <1>8 DEF Scanned, Phases
<1> QED BY <1>7, <1>9 DEF WakeInv

\* Nobody enters the queue while the mutex is free.
LEMMA FreeGrower == Free.grower = None /\ None \notin Leases
BY PoolAssumption DEF Free

\* A lease that joins the queue is in it, behind all others.
LEMMA JoinedQueue ==
  ASSUME NEW s, s \in Seq(Leases), NEW l \in Leases
  PROVE  /\ l \in Range(Append(s, l)) /\ Len(Append(s, l)) = Len(s) + 1 /\ Len(s) \in Nat
         /\ Range(s) \subseteq Leases /\ \A x \in Range(s) : x \in Range(Append(s, l))
<1>1. /\ DOMAIN Append(s, l) = 1..(Len(s) + 1) /\ DOMAIN s = 1..Len(s)
      /\ Append(s, l)[Len(s) + 1] = l /\ Len(Append(s, l)) = Len(s) + 1 /\ Len(s) \in Nat
      /\ \A i \in 1..Len(s) : Append(s, l)[i] = s[i]
  OBVIOUS
<1>2. Len(s) + 1 \in DOMAIN Append(s, l) /\ \A i \in DOMAIN s : i \in DOMAIN Append(s, l)
  BY <1>1
<1>3. Range(s) \subseteq Leases
  BY DEF Range
<1> QED BY Zenon, <1>1, <1>2, <1>3 DEF Range

\* A Grow call enters the queue and dispatches.
LEMMA GrowWake ==
  ASSUME PoolInv, CallInv, WakeInv, PoolInv', NEW l \in Leases, NEW n \in Sizes,
         NEW phase \in Phases, Grow(l, n, phase)
  PROVE  WakeInv'
<1>1. /\ mu = Free /\ StartDispatch(l) /\ waiters' = Append(waiters, l) /\ UNCHANGED closed
      /\ call[l].pc = "idle"
  BY DEF Grow, leaseVars
<1>2. Scanned' /\ mu'.grower = l
  BY <1>1, StartScanned
<1>3. mu.grower = None /\ None \notin Leases
  BY Zenon, <1>1, FreeGrower
<1>4. waiters \in Seq(Leases)
  BY Zenon DEF PoolInv, TypeOK
<1>5. /\ l \in Range(waiters') /\ Len(waiters') = Len(waiters) + 1 /\ Len(waiters) \in Nat
      /\ Range(waiters) \subseteq Leases /\ \A x \in Range(waiters) : x \in Range(waiters')
  BY Zenon, <1>1, <1>4, JoinedQueue
<1>6. /\ call'[l].pc = "entering" /\ \A x \in Leases \ {l} : call'[x] = call[x]
  BY Zenon, Types DEF Grow
<1>7. Len(waiters') <= MaxWaiters + (IF mu'.grower \in Range(waiters') THEN 1 ELSE 0)
  <2>1. mu.grower \notin Range(waiters)
    BY Zenon, <1>3, <1>5
  <2>2. Len(waiters) <= MaxWaiters + (IF mu.grower \in Range(waiters) THEN 1 ELSE 0)
    BY Zenon DEF WakeInv, Callers
  <2>3. Len(waiters') <= MaxWaiters + 1
    <3>1. Len(waiters) <= MaxWaiters + 0
      BY Zenon, <2>1, <2>2
    <3>2. MaxWaiters \in Nat
      BY Zenon, PoolAssumption
    <3> QED BY <1>5, <3>1, <3>2
  <2>4. mu'.grower \in Range(waiters')
    BY Zenon, <1>2, <1>5
  <2> QED BY Zenon, <2>3, <2>4
<1>8. Callers'
  <2>1. \A x \in Leases \ {l} : /\ call'[x] = call[x] /\ closed'[x] = closed[x]
                                /\ mu'.grower = x <=> mu.grower = x
    BY Zenon, <1>1, <1>2, <1>3, <1>6
  <2>2. call'[l].pc # "waiting"
    BY <1>6
  <2> QED BY <1>2, <1>5, <1>6, <1>7, <2>1, <2>2, OneCaller, Zenon DEF WakeInv
<1> QED BY <1>2, <1>8 DEF WakeInv

\* A waiting call that returns granted or on a closed lease is not queued.
LEMMA ResumeWake ==
  ASSUME PoolInv, CallInv, WakeInv, PoolInv', NEW l \in Leases, GrowResume(l) \/ GrowClosed(l)
  PROVE  WakeInv'
<1>1. /\ mu = Free /\ call' = [call EXCEPT ![l] = Idle]
      /\ UNCHANGED <<waiters, closed, used, burstOwner, mu>>
      /\ call[l].granted \/ closed[l]
  BY Zenon DEF GrowResume, GrowClosed, poolVars, leaseVars
<1>2. Idle.pc = "idle" /\ mu.grower = None /\ mu.phase \notin Phases /\ None \notin Leases
  BY Zenon, <1>1, MuType, PoolAssumption DEF Idle, Free
<1>3. call'[l] = Idle /\ \A x \in Leases \ {l} : call'[x] = call[x]
  BY Zenon, <1>1, Types
<1>4. ASSUME NEW j \in DOMAIN waiters PROVE waiters[j] \in Leases \ {l}
  BY <1>1 DEF CallInv, QueueOpen, PoolInv, TypeOK
<1>5. Callers'
  <2>1. \A x \in Leases \ {l} : /\ call'[x] = call[x] /\ closed'[x] = closed[x]
                                /\ mu'.grower = x <=> mu.grower = x
    BY Zenon, <1>1, <1>3
  <2>2. call'[l].pc = "idle" /\ mu'.grower # l
    BY <1>1, <1>2, <1>3
  <2>3. Callers
    BY Zenon DEF WakeInv
  <2>4. Len(waiters') <= MaxWaiters + (IF mu'.grower \in Range(waiters') THEN 1 ELSE 0)
    BY Zenon, <1>1, <2>3 DEF Callers
  <2>5. call'[l].pc # "entering" /\ call'[l].pc # "waiting"
    BY <2>2
  <2>6. \A x \in Range(waiters) : x # l => x \in Range(waiters')
    BY Zenon, <1>1
  <2> QED BY Zenon, <2>1, <2>2, <2>3, <2>4, <2>5, <2>6, OneCaller
<1>6. ASSUME NEW j \in DOMAIN waiters PROVE ~Fits(waiters[j])'
  <2>1. call'[waiters[j]] = call[waiters[j]] /\ ~Fits(waiters[j])
    BY <1>1, <1>3, <1>4 DEF WakeInv, Scanned
  <2> QED BY Zenon, <1>1, <2>1 DEF Fits, LimitFor, normal, total
<1>7. Scanned'
  BY <1>1, <1>2, <1>6 DEF Scanned, Phases
<1> QED BY <1>5, <1>7 DEF WakeInv

\* A call that gives up takes its waiter along and dispatches.
LEMMA ExpireWake ==
  ASSUME PoolInv, CallInv, WakeInv, PoolInv', NEW l \in Leases, GrowExpire(l)
  PROVE  WakeInv'
<1>1. /\ mu = Free /\ StartDispatch(None) /\ call' = [call EXCEPT ![l] = Idle]
      /\ UNCHANGED closed /\ (waiters' = waiters \/ waiters' = RemoveWaiter(l))
  BY DEF GrowExpire
<1>2. Scanned' /\ mu'.grower = None
  BY <1>1, StartScanned
<1>3. Idle.pc = "idle" /\ mu.grower = None /\ None \notin Leases /\ MaxWaiters \in Nat
  BY <1>1, PoolAssumption DEF Idle, Free
<1>4. call'[l] = Idle /\ \A x \in Leases \ {l} : call'[x] = call[x]
  BY <1>1, Types
<1>5. waiters \in Seq(Leases) /\ QueueOpen /\ Len(waiters) \in Nat
  BY Types DEF CallInv
<1>6. Len(waiters) <= MaxWaiters
  <2>1. Range(waiters) \subseteq Leases
    BY <1>5 DEF Range
  <2> QED BY <1>3, <2>1 DEF WakeInv, Callers
<1>7. /\ Len(waiters') <= Len(waiters) /\ Len(waiters') \in Int
      /\ \A x \in Range(waiters) : x # l => x \in Range(waiters')
  <2>1. /\ Len(RemoveWaiter(l)) = IF l \in Range(waiters) THEN Len(waiters) - 1 ELSE Len(waiters)
        /\ \A x \in Range(waiters) : x # l => x \in Range(RemoveWaiter(l))
    BY <1>5, WaiterGone
  <2> QED BY <1>1, <1>5, <2>1
<1>8. Len(waiters') <= MaxWaiters + (IF mu'.grower \in Range(waiters') THEN 1 ELSE 0)
  BY <1>3, <1>5, <1>6, <1>7
<1>9. \A x \in Leases \ {l} : /\ call'[x] = call[x] /\ closed'[x] = closed[x]
                              /\ mu'.grower = x <=> mu.grower = x
  BY <1>1, <1>2, <1>3, <1>4
<1>10. /\ call'[l].pc # "entering" /\ call'[l].pc # "waiting" /\ call'[l].pc = "idle"
       /\ mu'.grower # l
  BY <1>2, <1>3, <1>4
<1>11. Callers'
  BY <1>7, <1>8, <1>9, <1>10, OneCaller DEF WakeInv
<1> QED BY <1>2, <1>11 DEF WakeInv

\* Shrink frees bytes and dispatches.
LEMMA ShrinkWake ==
  ASSUME PoolInv, WakeInv, PoolInv', NEW l \in Leases, NEW n \in Sizes, Shrink(l, n)
  PROVE  WakeInv'
<1>1. mu = Free /\ StartDispatch(None) /\ UNCHANGED <<waiters, closed, call>>
  BY DEF Shrink
<1>2. Scanned' /\ mu'.grower = mu.grower
  BY <1>1, StartScanned DEF Free
<1>3. Callers'
  BY <1>1, <1>2 DEF WakeInv, Callers
<1> QED BY <1>2, <1>3 DEF WakeInv

\* Close takes the lease's waiter out of the queue and dispatches.
LEMMA CloseWake ==
  ASSUME PoolInv, CallInv, WakeInv, PoolInv', NEW l \in Leases, Close(l)
  PROVE  WakeInv'
<1>1. /\ mu = Free /\ StartDispatch(None) /\ call' = call
      /\ closed' = [closed EXCEPT ![l] = TRUE] /\ waiters' = RemoveWaiter(l)
  BY DEF Close
<1>2. Scanned' /\ mu'.grower = None
  BY <1>1, StartScanned
<1>3. mu.grower = None /\ None \notin Leases /\ MaxWaiters \in Nat
  BY <1>1, PoolAssumption DEF Free
<1>4. closed'[l] /\ \A x \in Leases \ {l} : closed'[x] = closed[x]
  BY <1>1, Types
<1>5. waiters \in Seq(Leases) /\ QueueOpen /\ Len(waiters) \in Nat
  BY Types DEF CallInv
<1>6. Len(waiters) <= MaxWaiters
  <2>1. Range(waiters) \subseteq Leases
    BY <1>5 DEF Range
  <2> QED BY <1>3, <2>1 DEF WakeInv, Callers
<1>7. /\ Len(waiters') <= Len(waiters) /\ Len(waiters') \in Int
      /\ \A x \in Range(waiters) : x # l => x \in Range(waiters')
  <2>1. /\ Len(RemoveWaiter(l)) = IF l \in Range(waiters) THEN Len(waiters) - 1 ELSE Len(waiters)
        /\ \A x \in Range(waiters) : x # l => x \in Range(RemoveWaiter(l))
    BY <1>5, WaiterGone
  <2> QED BY <1>1, <1>5, <2>1
<1>8. Len(waiters') <= MaxWaiters + (IF mu'.grower \in Range(waiters') THEN 1 ELSE 0)
  BY <1>3, <1>5, <1>6, <1>7
<1>9. \A x \in Leases \ {l} : /\ call'[x] = call[x] /\ closed'[x] = closed[x]
                              /\ mu'.grower = x <=> mu.grower = x
  BY <1>1, <1>2, <1>3, <1>4
<1>10. /\ call'[l].pc = "entering" <=> mu'.grower = l
       /\ call'[l].pc = "waiting" => call'[l].phase = Response
  BY <1>1, <1>2, <1>3 DEF WakeInv, Callers
<1>11. Callers'
  BY <1>4, <1>7, <1>8, <1>9, <1>10, OneCaller DEF WakeInv
<1> QED BY <1>2, <1>11 DEF WakeInv

\* Steps that change neither the queue, the calls nor what is used; a lease
\* that is opened anew has no call.
LEMMA SameWake ==
  ASSUME PoolInv, WakeInv, UNCHANGED <<used, burstOwner, waiters, call, mu>>,
         \A l \in Leases : closed'[l] = closed[l] \/ call[l].pc = "idle"
  PROVE  WakeInv'
<1>1. Callers'
  BY Zenon DEF WakeInv, Callers
<1>2. \A x : Fits(x)' <=> Fits(x)
  BY DEF Fits, LimitFor, normal, total
<1>3. Scanned'
  BY Zenon, <1>2 DEF WakeInv, Scanned
<1> QED BY <1>1, <1>3 DEF WakeInv

\* Every step of the pool keeps the scan sound.
LEMMA StepWake == ASSUME PoolInv, CallInv, WakeInv, PoolInv', [Next]_vars PROVE WakeInv'
<1>1. CASE DispatchPass
  BY <1>1, PassWake
<1>2. CASE DispatchGrant
  BY <1>2, GrantWake
<1>3. CASE DispatchRequests
  BY <1>3, RequestsWake
<1>4. CASE DispatchReturn
  BY <1>4, ReturnWake
<1>5. CASE GrowDecide
  BY <1>5, DecideWake
<1>6. ASSUME NEW l \in Leases, NEW n \in Sizes, NEW phase \in Phases, Grow(l, n, phase)
      PROVE  WakeInv'
  BY <1>6, GrowWake
<1>7. ASSUME NEW l \in Leases, NEW n \in Sizes, Shrink(l, n) PROVE WakeInv'
  BY <1>7, ShrinkWake
<1>8. ASSUME NEW l \in Leases, GrowResume(l) \/ GrowClosed(l) PROVE WakeInv'
  BY <1>8, ResumeWake
<1>9. ASSUME NEW l \in Leases, GrowExpire(l) PROVE WakeInv'
  BY <1>9, ExpireWake
<1>10. ASSUME NEW l \in Leases, Close(l) PROVE WakeInv'
  BY <1>10, CloseWake
<1>11. ASSUME NEW l \in Leases, MarkOpaque(l) PROVE WakeInv'
  BY <1>11, SameWake DEF MarkOpaque
<1>12. ASSUME NEW l \in Leases, NewLease(l) PROVE WakeInv'
  <2>1. \A x \in Leases : closed'[x] = closed[x] \/ call[x].pc = "idle"
    BY Zenon, <1>12, Types DEF NewLease
  <2> QED BY Zenon, <1>12, <2>1, SameWake DEF NewLease, poolVars
<1>13. CASE UNCHANGED vars
  BY <1>13, SameWake DEF vars, poolVars, leaseVars
<1> QED
  BY <1>1, <1>2, <1>3, <1>4, <1>5, <1>6, <1>7, <1>8, <1>9, <1>10, <1>11, <1>12, <1>13, Zenon DEF Next, Dispatch

\* The scan is sound in every reachable state.
LEMMA WakeInvariant == Spec => [](PoolInv /\ CallInv /\ WakeInv)
<1>1. Init => PoolInv /\ CallInv /\ WakeInv
  <2> SUFFICES ASSUME Init PROVE PoolInv /\ CallInv /\ WakeInv
    OBVIOUS
  <2>1. PoolInv /\ CallInv
    BY InitInv, InitCalls
  <2>2. /\ mu = Free /\ Free.grower = None /\ Free.phase \notin Phases /\ None \notin Leases
        /\ waiters = <<>> /\ MaxWaiters \in Nat
    BY MuType, PoolAssumption DEF Init, Free
  <2>3. Callers
    BY <2>2 DEF Init, Callers, Idle, Range
  <2>4. Scanned
    BY <2>2 DEF Scanned, Phases
  <2> QED BY <2>1, <2>3, <2>4 DEF WakeInv
<1>2. (PoolInv /\ CallInv /\ WakeInv) /\ [Next]_vars => (PoolInv /\ CallInv /\ WakeInv)'
  BY StepInv, StepWake
<1> QED BY <1>1, <1>2, PTL DEF Spec

\* With the mutex free, a sound scan of every waiter leaves none that fits.
LEMMA NoneForgotten == ASSUME PoolInv, CallInv, WakeInv PROVE NoLostWakeup
<1> SUFFICES ASSUME mu = Free PROVE QueueExact /\ \A i \in DOMAIN waiters : ~Fits(waiters[i])
  BY DEF NoLostWakeup
<1>1. mu.grower = None /\ None \notin Leases /\ waiters \in Seq(Leases) /\ MaxWaiters \in Nat
  BY PoolAssumption, Types DEF Free
<1>2. Range(waiters) \subseteq Leases
  BY <1>1 DEF Range
<1>3. Len(waiters) <= MaxWaiters
  BY <1>1, <1>2 DEF WakeInv, Callers
<1>4. ASSUME NEW l \in Leases
      PROVE  l \in Range(waiters) <=> /\ call[l].pc = "waiting" /\ call[l].phase = Response
                                      /\ ~call[l].granted /\ ~closed[l]
  <2>1. call[l].pc \in {"idle", "waiting"}
    BY <1>1, Types DEF CallType, WakeInv, Callers
  <2>2. l \in Range(waiters) => call[l].pc # "idle" /\ ~call[l].granted /\ ~closed[l]
    BY DEF CallInv, QueueOpen, Range
  <2> QED BY <2>1, <2>2 DEF WakeInv, Callers
<1>5. QueueExact
  BY <1>2, <1>3, <1>4 DEF QueueExact, CallInv, QueueOpen
<1> QED BY <1>5 DEF WakeInv, Scanned

\* Whenever the pool is unlocked, the waiters are exactly the waiting calls,
\* and none of them fits: no release is lost on the single pass of dispatch().
THEOREM NoWakeupLost == Spec => []NoLostWakeup
<1>1. PoolInv /\ CallInv /\ WakeInv => NoLostWakeup
  BY NoneForgotten
<1> QED BY <1>1, WakeInvariant, PTL

\* A step that grants a request finds no response in the queue.
GrantsInOrder ==
  \A l \in Leases :
    (call[l].phase = Request /\ ~call[l].granted /\ call'[l].granted)
      => \A i \in DOMAIN waiters : call[waiters[i]].phase = Request

\* Only dispatch() grants, and in its request phase all waiters are requests.
LEMMA GrantOrder == ASSUME PoolInv, WakeInv, [Next]_vars PROVE GrantsInOrder
<1>1. CASE DispatchGrant
  <2>1. mu.phase \in Phases /\ mu.index <= Len(waiters)
    BY <1>1 DEF DispatchGrant
  <2> DEFINE w == waiters[mu.index]
  <2>2. call' = [call EXCEPT ![w].granted = TRUE] /\ call[w].phase = mu.phase
    BY <1>1 DEF DispatchGrant
  <2> SUFFICES ASSUME NEW l \in Leases, call[l].phase = Request, ~call[l].granted, call'[l].granted
      PROVE  \A i \in DOMAIN waiters : call[waiters[i]].phase = Request
    BY DEF GrantsInOrder
  <2>3. l = w
    BY <2>2, Types
  <2> QED BY <2>2, <2>3 DEF WakeInv, Scanned
<1>2. ASSUME ~DispatchGrant, NEW l \in Leases PROVE call'[l].granted => call[l].granted
  <2>1. Idle.granted = FALSE
    BY DEF Idle
  <2>2. \/ call' = call
        \/ \E x \in Leases : call' = [call EXCEPT ![x] = Idle]
        \/ \E x \in Leases : call' = [call EXCEPT ![x].pc = "waiting"]
        \/ \E x \in Leases, n \in Sizes, phase \in Phases :
             call' = [call EXCEPT ![x] = [pc |-> "entering", bytes |-> n,
                                          phase |-> phase, granted |-> FALSE]]
    <3>1. CASE GrowDecide
      <4>1. mu.grower \in Leases
        BY <3>1, HeldMutex DEF GrowDecide, DispatchOver
      <4> QED BY <3>1, <4>1, Zenon DEF GrowDecide
    <3>2. CASE DispatchPass \/ DispatchRequests \/ DispatchReturn \/ UNCHANGED vars
      BY <3>2, Zenon DEF DispatchPass, DispatchRequests, DispatchReturn, vars
    <3>3. ASSUME NEW x \in Leases,
                 \/ \E n \in Sizes, phase \in Phases : Grow(x, n, phase)
                 \/ \E n \in Sizes : Shrink(x, n)
                 \/ GrowResume(x) \/ GrowClosed(x) \/ GrowExpire(x)
                 \/ Close(x) \/ MarkOpaque(x) \/ NewLease(x)
          PROVE  \/ call' = call
                 \/ call' = [call EXCEPT ![x] = Idle]
                 \/ \E n \in Sizes, phase \in Phases :
                      call' = [call EXCEPT ![x] = [pc |-> "entering", bytes |-> n,
                                                   phase |-> phase, granted |-> FALSE]]
      BY <3>3, Zenon DEF Grow, Shrink, GrowResume, GrowClosed, GrowExpire, Close, MarkOpaque, NewLease
    <3> QED BY <1>2, <3>1, <3>2, <3>3, Zenon DEF Next, Dispatch
  <2>3. call \in [Leases -> CallType]
    BY Types
  <2>4. ASSUME NEW x \in Leases, call' = [call EXCEPT ![x] = Idle]
        PROVE  call'[l].granted => call[l].granted
    BY <2>1, <2>3, <2>4
  <2>5. ASSUME NEW x \in Leases, call' = [call EXCEPT ![x].pc = "waiting"]
        PROVE  call'[l].granted => call[l].granted
    BY <2>3, <2>5 DEF CallType
  <2>6. ASSUME NEW x \in Leases, NEW n \in Sizes, NEW phase \in Phases,
               call' = [call EXCEPT ![x] = [pc |-> "entering", bytes |-> n,
                                            phase |-> phase, granted |-> FALSE]]
        PROVE  call'[l].granted => call[l].granted
    BY <2>3, <2>6
  <2> QED BY <2>2, <2>4, <2>5, <2>6
<1> QED BY <1>1, <1>2 DEF GrantsInOrder

\* dispatch() grants a request only when no response is queued.
THEOREM ResponsesGoFirst == Spec => ResponsesFirst
<1>1. (PoolInv /\ CallInv /\ WakeInv) /\ [Next]_vars => [GrantsInOrder]_vars
  BY GrantOrder
<1>2. Spec => [][GrantsInOrder]_vars
  BY <1>1, WakeInvariant, PTL DEF Spec
<1> QED BY <1>2 DEF ResponsesFirst, GrantsInOrder
====
