------------------------- MODULE KafkaWorkerProofs --------------------------
(***************************************************************************)
(* The delivery guarantees of KafkaWorker for every log, every number of   *)
(* partitions, every poll size, retry limit and number of crashes:         *)
(* NothingLost, KeyBarrier and NoRollback.  They follow from one inductive *)
(* invariant, WorkerInv.                                                   *)
(***************************************************************************)
EXTENDS KafkaWorker, SumTheorems

\* The record took effect or is in the dead-letter topic.
Done(r) == r \in settled \cap resolved \/ r \in dlq

Rank(r) == Cardinality(Earlier(r))
Open == {Unknown, Retry}

\* The round: where its records lie, and how far HandleBatch has come with them.
\* A record without a result is one of a wave to come.  Of every key the records
\* that are through come before those that are tried, and among the latter the
\* first temporary failure before all that have no final result.
Round ==
  /\ pc = "idle" => fetched = {}
  /\ \A r \in fetched : Offset[r] <= position[PartitionOf[r]]
  /\ \A r \in fetched : results[r] = Unknown => pc = "handling" /\ r \in batch /\ wave <= Rank(r)
  /\ pc = "handling" =>
       /\ \A r \in fetched : results[r] = Retry => r \in batch
       /\ \A r \in batch : wave <= Rank(r) \/ Blocked(r) => results[r] \in Open
       /\ \A r \in fetched \ batch, s \in batch : Key[r] = Key[s] => Offset[r] < Offset[s]

\* A final result is true, and the value of a key is not older than it.
Truth ==
  /\ \A r \in fetched : results[r] \in {Applied, Failed} => r \in resolved
  /\ \A r \in fetched : results[r] = Applied => Offset[r] <= value[Key[r]]
  /\ dlq \subseteq resolved /\ settled \subseteq resolved

\* The records between the committed offset and the position are fetched, the
\* fetched ones of a partition have no gap, and what is committed is done.
Prefix ==
  /\ \A r \in Records : Offset[r] <= committed[PartitionOf[r]] => Done(r)
  /\ \A r \in Records :
       committed[PartitionOf[r]] < Offset[r] /\ Offset[r] <= position[PartitionOf[r]] => r \in fetched
  /\ \A r \in Records, s \in fetched :
       PartitionOf[r] = PartitionOf[s] /\ Offset[s] <= Offset[r]
         /\ Offset[r] <= position[PartitionOf[r]] => r \in fetched
  /\ pc = "commit" => \A r \in Ready : results[r] = Failed => r \in dlq
  /\ pc = "rewind" => \A r \in Ready : Offset[r] <= committed[PartitionOf[r]]

\* Unless a commit's reply was lost, no round repeats what is committed.
Forward ==
  /\ \A p \in Partitions : committed[p] <= position[p]
  /\ \A r \in settled : Offset[r] <= committed[PartitionOf[r]] /\ Offset[r] <= value[Key[r]]
  /\ \A r \in fetched : (pc = "rewind" /\ r \in Ready) \/ committed[PartitionOf[r]] < Offset[r]

WorkerInv == TypeOK /\ Round /\ Truth /\ Prefix /\ KeyBarrier /\ (~lostReply => Forward)

-----------------------------------------------------------------------------
\* A non-empty set of naturals with a bound has a greatest and a least element,
\* the ones that CommitRecords and rewind take.
LEMMA Extremes ==
  ASSUME NEW n \in Nat, NEW S \in SUBSET (0..n), S # {}
  PROVE  /\ Max(S) \in S /\ \A y \in S : y <= Max(S)
         /\ Min(S) \in S /\ \A y \in S : Min(S) <= y
<1> DEFINE P == {T \in SUBSET (0..n) : T # {} =>
                   /\ \E x \in T : \A y \in T : x >= y
                   /\ \E x \in T : \A y \in T : x <= y}
<1>1. ASSUME NEW T \in SUBSET (0..n), \A U \in SUBSET T : U # T => U \in P
      PROVE  T \in P
  <2>1. SUFFICES ASSUME NEW z \in T
                 PROVE  /\ \E x \in T : \A y \in T : x >= y
                        /\ \E x \in T : \A y \in T : x <= y
    BY Zenon
  <2>2. T \ {z} \in P
    BY <1>1, <2>1, Zenon
  <2>3. CASE T \ {z} = {}
    BY <2>3
  <2>4. CASE T \ {z} # {}
    <3>1. PICK a \in T \ {z} : \A y \in T \ {z} : a >= y
      BY <2>2, <2>4
    <3>2. PICK b \in T \ {z} : \A y \in T \ {z} : b <= y
      BY <2>2, <2>4
    <3>3. \E x \in T : \A y \in T : x >= y
      <4>1. CASE a >= z
        BY <3>1, <4>1
      <4>2. CASE z > a
        BY <3>1, <4>2
      <4> QED BY <4>1, <4>2
    <3>4. \E x \in T : \A y \in T : x <= y
      <4>1. CASE b <= z
        BY <3>2, <4>1
      <4>2. CASE z < b
        BY <3>2, <4>2
      <4> QED BY <4>1, <4>2
    <3> QED BY <3>3, <3>4, Zenon
  <2> QED BY <2>3, <2>4
<1>2. \A T \in SUBSET (0..n) : T \in P
  <2> HIDE DEF P
  <2>1. IsFiniteSet(0..n)
    BY FS_Interval
  <2> QED BY <1>1, <2>1, SubsetInduction, Zenon
<1>3. S \in P
  BY <1>2
<1>4. /\ \E x \in S : \A y \in S : x >= y
      /\ \E x \in S : \A y \in S : x <= y
  BY <1>3
<1>5. Max(S) \in S /\ \A y \in S : Max(S) >= y
  BY <1>4, Zenon DEF Max
<1>6. Min(S) \in S /\ \A y \in S : Min(S) <= y
  BY <1>4, Zenon DEF Min
<1> QED BY <1>5, <1>6

\* Every index of a log is the place of exactly one record.
LEMMA Occupied ==
  ASSUME NEW p \in Partitions, NEW i \in 1..Len(Log[p])
  PROVE  Log[p][i] \in Records /\ PartitionOf[Log[p][i]] = p /\ Offset[Log[p][i]] = i
<1> DEFINE r == Log[p][i]
<1>1. Log[p] \in Seq(Records) /\ DOMAIN Log[p] = 1..Len(Log[p])
  BY WorkerAssumption DEF WorkerAssumption
<1>2. r \in Range(Log[p]) /\ r \in Records
  BY <1>1 DEF Range, Records
<1>3. ASSUME NEW q \in Partitions, r \in Range(Log[q]) PROVE q = p
  <2>1. Key[r] \in {Key[s] : s \in Range(Log[p])} \cap {Key[s] : s \in Range(Log[q])}
    BY <1>2, <1>3
  <2> HIDE DEF r
  <2> QED BY <2>1, WorkerAssumption, Zenon DEF WorkerAssumption
<1>4. PartitionOf[r] = p
  BY <1>2, <1>3 DEF PartitionOf
<1>5. \A j \in DOMAIN Log[p] : Log[p][j] = r => j = i
  BY <1>1, WorkerAssumption DEF WorkerAssumption, IsInjective
<1>6. Offset[r] = i
  BY <1>1, <1>2, <1>4, <1>5 DEF Offset
<1> QED BY <1>2, <1>4, <1>6

\* Where records lie: a place holds one record, a key stays in its partition.
LEMMA Places ==
  /\ PartitionOf \in [Records -> Partitions]
  /\ Offset \in [Records -> Nat \ {0}]
  /\ \A r \in Records : Offset[r] <= Len(Log[PartitionOf[r]])
  /\ \A p \in Partitions : Len(Log[p]) \in Nat
  /\ \A r, s \in Records : PartitionOf[r] = PartitionOf[s] /\ Offset[r] = Offset[s] => r = s
  /\ \A r, s \in Records : Key[r] = Key[s] => PartitionOf[r] = PartitionOf[s]
<1>1. \A p \in Partitions : Log[p] \in Seq(Records) /\ Len(Log[p]) \in Nat
                              /\ DOMAIN Log[p] = 1..Len(Log[p])
  BY WorkerAssumption DEF WorkerAssumption
<1>2. ASSUME NEW r \in Records
      PROVE  \E p \in Partitions : \E i \in 1..Len(Log[p]) : r = Log[p][i]
  BY <1>1 DEF Records, Range
<1>3. ASSUME NEW r \in Records
      PROVE  /\ PartitionOf[r] \in Partitions /\ r \in Range(Log[PartitionOf[r]])
             /\ Offset[r] \in 1..Len(Log[PartitionOf[r]])
             /\ Log[PartitionOf[r]][Offset[r]] = r
  <2>1. PICK p \in Partitions : \E i \in 1..Len(Log[p]) : r = Log[p][i]
    BY <1>2
  <2>2. PICK i \in 1..Len(Log[p]) : r = Log[p][i]
    BY <2>1
  <2>3. PartitionOf[r] = p /\ Offset[r] = i
    BY <2>2, Occupied
  <2>4. r \in Range(Log[p])
    BY <1>1, <2>2 DEF Range
  <2> QED BY <2>2, <2>3, <2>4
<1>4. ASSUME NEW r \in Records, NEW s \in Records, Key[r] = Key[s],
             PartitionOf[r] # PartitionOf[s]
      PROVE  FALSE
  <2>1. Key[r] \in {Key[t] : t \in Range(Log[PartitionOf[r]])}
    BY <1>3
  <2>2. Key[r] \in {Key[t] : t \in Range(Log[PartitionOf[s]])}
    BY <1>3, <1>4
  <2> QED BY <1>3, <1>4, <2>1, <2>2, WorkerAssumption, Zenon DEF WorkerAssumption
<1>5. /\ PartitionOf = [r \in Records |-> PartitionOf[r]]
      /\ Offset = [r \in Records |-> Offset[r]]
  <2>1. PartitionOf = [r \in Records |-> PartitionOf[r]]
    BY DEF PartitionOf
  <2>2. Offset = [r \in Records |-> Offset[r]]
    BY DEF Offset
  <2> QED BY <2>1, <2>2
<1>6. PartitionOf \in [Records -> Partitions] /\ Offset \in [Records -> Nat \ {0}]
  BY <1>1, <1>3, <1>5
<1>7. \A r \in Records : Offset[r] <= Len(Log[PartitionOf[r]])
  BY <1>1, <1>3
<1>8. \A r, s \in Records : PartitionOf[r] = PartitionOf[s] /\ Offset[r] = Offset[s] => r = s
  BY <1>3
<1> QED BY <1>1, <1>4, <1>6, <1>7, <1>8

-----------------------------------------------------------------------------
\* buildMutationWaves.  The records of B that precede r under its key.
Before(B, r) == {s \in B : Key[s] = Key[r] /\ Offset[s] < Offset[r]}

\* Only finitely many records share a key.
LEMMA BeforeFinite ==
  ASSUME NEW B \in SUBSET Records, NEW r \in Records
  PROVE  IsFiniteSet(Before(B, r)) /\ Cardinality(Before(B, r)) \in Nat
<1> DEFINE p == PartitionOf[r]
           at == [s \in Before(B, r) |-> Offset[s]]
<1>1. Before(B, r) \subseteq Records
  BY DEF Before
<1>2. p \in Partitions /\ Len(Log[p]) \in Nat
  BY Places
<1>3. \A s \in Before(B, r) : PartitionOf[s] = p /\ Offset[s] \in 1..Len(Log[p])
  BY <1>2, Places DEF Before
<1>4. at \in Injection(Before(B, r), 1..Len(Log[p]))
  <2>1. at \in [Before(B, r) -> 1..Len(Log[p])]
    BY <1>3
  <2>2. \A s, t \in Before(B, r) : at[s] = at[t] => s = t
    BY <1>1, <1>3, Places
  <2> QED BY <2>1, <2>2 DEF Injection, IsInjective
<1>5. IsFiniteSet(1..Len(Log[p]))
  BY <1>2, FS_Interval
<1>6. IsFiniteSet(Before(B, r))
  <2> HIDE DEF at, p
  <2> QED BY <1>4, <1>5, FS_Injection, Zenon
<1> QED BY <1>6, FS_CardinalityType

\* The waves respect the order of a key: a later record is in a later wave.
LEMMA WavesOrdered ==
  ASSUME NEW B \in SUBSET Records, NEW r \in B, NEW s \in B,
         Key[r] = Key[s], Offset[s] < Offset[r]
  PROVE  Cardinality(Before(B, s)) < Cardinality(Before(B, r))
<1>1. Offset[r] \in Nat /\ Offset[s] \in Nat /\ \A t \in B : Offset[t] \in Nat
  BY Places
<1>2. Before(B, s) \subseteq Before(B, r)
  BY <1>1 DEF Before
<1>3. s \in Before(B, r) /\ s \notin Before(B, s)
  BY <1>1 DEF Before
<1>4. IsFiniteSet(Before(B, r)) /\ Cardinality(Before(B, r)) \in Nat
  BY BeforeFinite
<1>5. Cardinality(Before(B, s)) \in Nat
  BY BeforeFinite
<1>6. /\ Cardinality(Before(B, s)) <= Cardinality(Before(B, r))
      /\ Cardinality(Before(B, s)) = Cardinality(Before(B, r)) => Before(B, r) = Before(B, s)
  BY <1>2, <1>4, FS_Subset
<1> QED BY <1>3, <1>4, <1>5, <1>6

\* The waves have no gap: when one is empty, so are those after it.
LEMMA WavesContiguous ==
  ASSUME NEW B \in SUBSET Records, NEW n \in Nat,
         \A r \in B : Cardinality(Before(B, r)) # n
  PROVE  \A r \in B : Cardinality(Before(B, r)) < n
<1>1. SUFFICES ASSUME NEW r \in B, ~(Cardinality(Before(B, r)) < n) PROVE FALSE
  OBVIOUS
<1> DEFINE rank(s) == Cardinality(Before(B, s))
           rest == {s \in B : Key[s] = Key[r] /\ n <= rank(s)}
           bound == Len(Log[PartitionOf[r]])
<1>2. \A s \in B : rank(s) \in Nat /\ IsFiniteSet(Before(B, s))
  BY BeforeFinite
<1>3. r \in rest
  BY <1>1, <1>2
<1>4. bound \in Nat /\ \A s \in B : Key[s] = Key[r] => Offset[s] \in 0..bound
  BY Places
<1>5. PICK s \in rest : \A t \in rest : Offset[s] <= Offset[t]
  <2> DEFINE places == {Offset[t] : t \in rest}
  <2>1. places \in SUBSET (0..bound) /\ places # {}
    BY <1>3, <1>4
  <2>2. Min(places) \in places /\ \A y \in places : Min(places) <= y
    <3> HIDE DEF places
    <3> QED BY <1>4, <2>1, Extremes, Zenon
  <2> QED BY <2>2, Zenon
<1>6. s \in B /\ Key[s] = Key[r] /\ n < rank(s)
  BY <1>2, <1>5
<1>7. Before(B, s) # {}
  <2>1. CASE Before(B, s) = {}
    BY <1>6, <2>1, FS_EmptySet
  <2> QED BY <2>1
<1>8. PICK t \in Before(B, s) : \A u \in Before(B, s) : Offset[u] <= Offset[t]
  <2> DEFINE places == {Offset[u] : u \in Before(B, s)}
  <2>1. places \in SUBSET (0..bound) /\ places # {}
    BY <1>4, <1>6, <1>7 DEF Before
  <2>2. Max(places) \in places /\ \A y \in places : y <= Max(places)
    <3> HIDE DEF places
    <3> QED BY <1>4, <2>1, Extremes, Zenon
  <2> QED BY <2>2, Zenon
<1>9. t \in B /\ Key[t] = Key[r] /\ Offset[t] < Offset[s]
  BY <1>6, <1>8 DEF Before
<1>10. Before(B, s) = Before(B, t) \cup {t} /\ t \notin Before(B, t)
  <2>1. \A u \in B : Offset[u] \in Nat
    BY Places
  <2>2. \A u \in Before(B, s) : u # t => Offset[u] < Offset[t]
    <3>1. SUFFICES ASSUME NEW u \in Before(B, s), u # t, Offset[u] = Offset[t] PROVE FALSE
      BY <1>8, <1>9, <2>1 DEF Before
    <3>2. u \in B /\ Key[u] = Key[t]
      BY <1>6, <1>9, <3>1 DEF Before
    <3> QED BY <1>9, <3>1, <3>2, Places
  <2>3. Before(B, s) \subseteq Before(B, t) \cup {t}
    BY <1>6, <1>9, <2>2 DEF Before
  <2>4. Before(B, t) \cup {t} \subseteq Before(B, s)
    BY <1>6, <1>9, <2>1 DEF Before
  <2>5. t \notin Before(B, t)
    BY <1>9, <2>1 DEF Before
  <2> QED BY <2>3, <2>4, <2>5
<1>11. rank(s) = rank(t) + 1
  BY <1>2, <1>9, <1>10, FS_AddElement, Zenon
<1>12. t \in rest
  BY <1>2, <1>6, <1>9, <1>11
<1>13. Offset[s] \in Nat /\ Offset[t] \in Nat
  BY <1>6, <1>9, Places
<1> QED BY <1>5, <1>9, <1>12, <1>13

-----------------------------------------------------------------------------
LEMMA RankIsWave == \A r : Rank(r) = Cardinality(Before(batch, r)) /\ Earlier(r) = Before(batch, r)
  BY DEF Rank, Earlier, Before

LEMMA Numbers ==
  ASSUME TypeOK
  PROVE  /\ MaxPollRecords \in Nat /\ MaxRetryAttempts \in Nat \ {0}
         /\ committed \in [Partitions -> Nat] /\ position \in [Partitions -> Nat]
         /\ \A r \in Records : /\ PartitionOf[r] \in Partitions /\ Offset[r] \in Nat \ {0}
                               /\ committed[PartitionOf[r]] \in Nat
                               /\ position[PartitionOf[r]] \in Nat
<1>1. MaxPollRecords \in Nat /\ MaxRetryAttempts \in Nat \ {0}
  BY WorkerAssumption DEF WorkerAssumption
<1>2. committed \in [Partitions -> Nat] /\ position \in [Partitions -> Nat]
  BY Zenon DEF TypeOK
<1> QED BY <1>1, <1>2, Places

\* A step that leaves the round and the broker's view of it alone.
LEMMA Frame ==
  ASSUME WorkerInv, pc' = pc, value' = value, position' = position, dlq' = dlq,
         committed' = committed, fetched' = fetched, results' = results, batch' = batch,
         wave' = wave, attempt' = attempt, resolved' = resolved, settled' = settled,
         lostReply' = lostReply
  PROVE  WorkerInv'
<1>1. Ready' = Ready
  BY DEF Ready
<1>2. \A r : Rank(r)' = Rank(r) /\ Blocked(r)' = Blocked(r)
  BY DEF Rank, Blocked, Earlier
<1>3. \A r : Done(r)' = Done(r)
  BY DEF Done
<1>4. TypeOK' /\ KeyBarrier'
  BY Zenon DEF WorkerInv, TypeOK, KeyBarrier
<1>5. Round'
  BY <1>2 DEF WorkerInv, Round
<1>6. Truth'
  BY DEF WorkerInv, Truth
<1>7. Prefix'
  BY <1>1, <1>3 DEF WorkerInv, Prefix
<1>8. ~lostReply' => Forward'
  BY <1>1 DEF WorkerInv, Forward
<1> QED BY <1>4, <1>5, <1>6, <1>7, <1>8 DEF WorkerInv

LEMMA InitInv == Init => WorkerInv
<1> SUFFICES ASSUME Init PROVE WorkerInv
  OBVIOUS
<1>1. TypeOK
  BY Places, WorkerAssumption DEF Init, TypeOK, WorkerAssumption
<1>2. Round /\ Truth /\ KeyBarrier
  BY DEF Init, Round, Truth, KeyBarrier
<1>3. Prefix
  BY Places DEF Init, Prefix
<1>4. Forward
  BY DEF Init, Forward
<1> QED BY <1>1, <1>2, <1>3, <1>4 DEF WorkerInv

-----------------------------------------------------------------------------
\* Polling goes on at the position: nothing lies between the committed offset
\* and the first record of the new round.
LEMMA PollInv == WorkerInv /\ Poll => WorkerInv'
<1> SUFFICES ASSUME WorkerInv, Poll PROVE WorkerInv'
  OBVIOUS
<1>1. PICK last \in [Partitions -> 0..MaxPollRecords] :
        LET got == {r \in Records : LET p == PartitionOf[r] IN
                      position[p] < Offset[r] /\ Offset[r] <= position[p] + last[p]}
        IN /\ \A p \in Partitions : position[p] + last[p] <= Len(Log[p])
           /\ fetched' = got
           /\ batch' = got \ Poison
           /\ results' = [r \in Records |-> IF r \in got \cap Poison THEN Failed ELSE Unknown]
           /\ resolved' = resolved \cup (got \cap Poison)
           /\ position' = [p \in Partitions |-> position[p] + last[p]]
  BY Zenon DEF Poll
<1> DEFINE got == {r \in Records : /\ position[PartitionOf[r]] < Offset[r]
                                   /\ Offset[r] <= position[PartitionOf[r]] + last[PartitionOf[r]]}
<1>2. /\ \A p \in Partitions : position[p] + last[p] <= Len(Log[p])
      /\ fetched' = got /\ batch' = got \ Poison
      /\ results' = [r \in Records |-> IF r \in got \cap Poison THEN Failed ELSE Unknown]
      /\ resolved' = resolved \cup (got \cap Poison)
      /\ position' = [p \in Partitions |-> position[p] + last[p]]
  BY <1>1
<1>3. /\ pc = "idle" /\ pc' = "handling" /\ wave' = 0 /\ attempt' = 1
      /\ committed' = committed /\ dlq' = dlq /\ value' = value
      /\ settled' = settled /\ lostReply' = lostReply
  BY DEF Poll, brokerVars
<1>4. TypeOK /\ last \in [Partitions -> Nat]
  BY Numbers DEF WorkerInv
<1>5. got \subseteq Records /\ fetched = {}
  BY <1>3 DEF WorkerInv, Round
<1>6. \A r \in Records : r \in got <=> /\ position[PartitionOf[r]] < Offset[r]
                                      /\ Offset[r] <= position'[PartitionOf[r]]
  BY <1>2, Places
<1>7. \A p \in Partitions : position[p] <= position'[p] /\ position'[p] \in Nat
  BY <1>2, <1>4, Numbers
<1>8. \A r \in Records : Offset[r] <= position[PartitionOf[r]] => Offset[r] <= committed[PartitionOf[r]]
  BY <1>4, <1>5, Numbers DEF WorkerInv, Prefix
<1> HIDE DEF got
<1>9. TypeOK'
  <2>1. position' \in [Partitions -> Nat] /\ \A p \in Partitions : position'[p] <= Len(Log[p])
    BY <1>2, <1>4, Numbers
  <2>2. results' \in [Records -> {Unknown, Applied, Failed, Retry}]
    BY <1>2
  <2> QED BY <1>2, <1>3, <1>5, <2>1, <2>2, WorkerAssumption DEF WorkerInv, TypeOK, WorkerAssumption
<1>10. Round'
  <2>1. \A r \in got : Offset[r] <= position'[PartitionOf[r]]
    BY <1>5, <1>6
  <2>2. \A r \in got : Rank(r)' \in Nat
    BY <1>2, <1>5, BeforeFinite, Zenon DEF Rank, Earlier, Before
  <2>3. \A r \in got : results'[r] = Unknown => r \in batch' /\ wave' <= Rank(r)'
    BY <1>2, <1>3, <1>5, <2>2 DEF Failed, Unknown
  <2>4. \A r \in got : results'[r] # Retry
    BY <1>2, <1>5 DEF Failed, Unknown, Retry
  <2>5. \A r \in batch' : results'[r] \in Open'
    BY <1>2, <1>5 DEF Open
  <2>6. \A r \in got \ batch', s \in batch' : Key[r] # Key[s]
    BY <1>2, <1>5, WorkerAssumption DEF WorkerAssumption
  <2> QED BY <1>2, <1>3, <2>1, <2>3, <2>4, <2>5, <2>6, Zenon DEF Round
<1>11. Truth'
  BY <1>2, <1>3, <1>5 DEF WorkerInv, Truth, Unknown, Applied, Failed
<1>12. Prefix'
  <2>1. \A r : Done(r) => Done(r)'
    BY <1>2, <1>3 DEF Done
  <2>2. \A r \in Records : Offset[r] <= committed[PartitionOf[r]] => Done(r)
    BY DEF WorkerInv, Prefix
  <2>3. \A r \in Records : committed[PartitionOf[r]] < Offset[r]
                             /\ Offset[r] <= position'[PartitionOf[r]] => r \in got
    BY <1>4, <1>6, <1>8, Numbers
  <2>4. \A r \in Records, s \in got :
          PartitionOf[r] = PartitionOf[s] /\ Offset[s] <= Offset[r]
            /\ Offset[r] <= position'[PartitionOf[r]] => r \in got
    BY <1>4, <1>5, <1>6, Numbers
  <2> QED BY <1>2, <1>3, <2>1, <2>2, <2>3, <2>4 DEF Prefix
<1>13. KeyBarrier'
  <2> SUFFICES ASSUME NEW r \in Records, NEW s \in Records, Key[r] = Key[s],
                      Offset[s] < Offset[r], r \in got \cap Poison, s \notin got
               PROVE  s \in resolved
    BY <1>2, WorkerAssumption DEF KeyBarrier, WorkerInv, WorkerAssumption
  <2>1. PartitionOf[s] = PartitionOf[r] /\ PartitionOf[s] \in Partitions
    BY Places
  <2>2. Offset[s] <= position[PartitionOf[s]]
    BY <1>4, <1>6, <1>7, <2>1, Numbers
  <2>3. Done(s)
    BY <1>8, <2>2 DEF WorkerInv, Prefix
  <2> QED BY <2>3 DEF Done, WorkerInv, Truth
<1>14. ~lostReply' => Forward'
  <2> SUFFICES ASSUME Forward, ~lostReply PROVE Forward'
    BY <1>3 DEF WorkerInv
  <2>1. \A p \in Partitions : committed[p] <= position'[p]
    BY <1>4, <1>7, Numbers DEF Forward
  <2>2. \A r \in got : committed[PartitionOf[r]] < Offset[r]
    BY <1>4, <1>5, <1>6, Numbers DEF Forward
  <2> QED BY <1>2, <1>3, <2>1, <2>2 DEF Forward
<1> QED BY <1>9, <1>10, <1>11, <1>12, <1>13, <1>14 DEF WorkerInv

-----------------------------------------------------------------------------
\* HandleBatch.  Of a key a wave holds one record; the ones before it are
\* through, and when one of them failed temporarily this one is not tried.
LEMMA HandleWaveInv == WorkerInv /\ HandleWave => WorkerInv'
<1> SUFFICES ASSUME WorkerInv, HandleWave PROVE WorkerInv'
  OBVIOUS
<1>1. PICK out \in [{r \in Wave(wave) : ~Blocked(r)} -> Outcomes] :
        LET tried == DOMAIN out
            hit == {r \in tried : out[r][2]}
        IN /\ results' = [r \in Records |-> IF r \in tried THEN out[r][1]
                                            ELSE IF r \in Wave(wave) THEN Retry ELSE results[r]]
           /\ value' = [k \in Keys |-> IF \E r \in hit : Key[r] = k
                                       THEN Offset[CHOOSE r \in hit : Key[r] = k] ELSE value[k]]
           /\ resolved' = resolved \cup hit \cup {r \in tried : out[r][1] = Failed}
  BY Zenon DEF HandleWave
<1> DEFINE tried == {r \in Wave(wave) : ~Blocked(r)}
           hit == {r \in tried : out[r][2]}
           final == hit \cup {r \in tried : out[r][1] = Failed}
<1>2. DOMAIN out = tried
  OBVIOUS
<1>3. /\ results' = [r \in Records |-> IF r \in tried THEN out[r][1]
                                       ELSE IF r \in Wave(wave) THEN Retry ELSE results[r]]
      /\ value' = [k \in Keys |-> IF \E r \in hit : Key[r] = k
                                  THEN Offset[CHOOSE r \in hit : Key[r] = k] ELSE value[k]]
      /\ resolved' = resolved \cup final
  BY <1>1, <1>2, Zenon
<1>4. /\ pc = "handling" /\ pc' = pc /\ wave' = wave + 1
      /\ committed' = committed /\ dlq' = dlq /\ position' = position /\ fetched' = fetched
      /\ batch' = batch /\ attempt' = attempt /\ settled' = settled /\ lostReply' = lostReply
  BY DEF HandleWave, brokerVars
<1>5. TypeOK /\ Round /\ Truth /\ Prefix /\ KeyBarrier
  BY DEF WorkerInv
<1>6. /\ batch \subseteq fetched /\ fetched \subseteq Records /\ wave \in Nat
      /\ results \in [Records -> {Unknown, Applied, Failed, Retry}]
      /\ value \in [Keys -> Nat] /\ resolved \subseteq Records
  BY <1>5, Zenon DEF TypeOK
<1>7. \A r \in tried : /\ out[r][1] \in {Applied, Failed, Retry} /\ out[r][2] \in BOOLEAN
                       /\ out[r][1] = Applied => out[r][2]
  <2>1. Outcomes \subseteq {<<Applied, TRUE>>, <<Retry, TRUE>>, <<Retry, FALSE>>, <<Failed, FALSE>>}
    BY Zenon DEF Outcomes
  <2>2. \A r \in tried : out[r] \in Outcomes
    BY <1>2
  <2> HIDE DEF tried
  <2>3. SUFFICES ASSUME NEW r \in tried
                 PROVE  /\ out[r][1] \in {Applied, Failed, Retry} /\ out[r][2] \in BOOLEAN
                        /\ out[r][1] = Applied => out[r][2]
    OBVIOUS
  <2>4. out[r] \in {<<Applied, TRUE>>, <<Retry, TRUE>>, <<Retry, FALSE>>, <<Failed, FALSE>>}
    BY <2>1, <2>2, Zenon
  <2>5. \/ out[r][1] = Applied /\ out[r][2] = TRUE
        \/ out[r][1] = Retry /\ out[r][2] \in BOOLEAN
        \/ out[r][1] = Failed /\ out[r][2] = FALSE
    <3>1. CASE out[r] = <<Applied, TRUE>>
      BY <3>1
    <3>2. CASE out[r] = <<Retry, TRUE>>
      BY <3>2
    <3>3. CASE out[r] = <<Retry, FALSE>>
      BY <3>3
    <3>4. CASE out[r] = <<Failed, FALSE>>
      BY <3>4
    <3> QED BY <2>4, <3>1, <3>2, <3>3, <3>4, Zenon
  <2> QED BY <2>5, Zenon DEF Applied, Failed, Retry
<1>8. \A r \in Records : Rank(r) \in Nat /\ Rank(r)' = Rank(r) /\ Earlier(r)' = Earlier(r)
  BY <1>4, <1>6, BeforeFinite, Zenon DEF Rank, Earlier, Before
<1>9. \A r \in batch : \A s \in Earlier(r) :
        s \in batch /\ Key[s] = Key[r] /\ Offset[s] < Offset[r] /\ Rank(s) < Rank(r)
  BY <1>6, WavesOrdered DEF Rank, Earlier, Before
<1>10. /\ tried \subseteq Wave(wave) /\ hit \subseteq tried /\ final \subseteq tried
       /\ Wave(wave) \subseteq batch /\ \A r \in batch : r \in Wave(wave) <=> Rank(r) = wave
  BY DEF Wave, Rank
<1>11. \A r \in Wave(wave) : r \in tried <=> ~Blocked(r)
  OBVIOUS
<1>12. \A r \in tried : /\ out[r][1] = Applied => r \in hit
                        /\ out[r][1] \in {Applied, Failed} => r \in final
  BY <1>7
<1> HIDE DEF tried, hit, final
<1>13. \A r \in Records : /\ r \in tried => results'[r] = out[r][1]
                          /\ r \in Wave(wave) /\ r \notin tried => results'[r] = Retry
                          /\ r \notin Wave(wave) => results'[r] = results[r]
  BY <1>3, <1>10
<1>14. \A k \in Keys : \/ /\ \E r \in hit : Key[r] = k /\ value'[k] = Offset[r]
                       \/ /\ \A r \in hit : Key[r] # k
                          /\ value'[k] = value[k]
  BY <1>3, Zenon
<1>15. TypeOK'
  <2>1. results' \in [Records -> {Unknown, Applied, Failed, Retry}]
    BY <1>3, <1>6, <1>7, Zenon
  <2>2. value' \in [Keys -> Nat]
    <3>1. \A k \in Keys : value'[k] \in Nat
      BY <1>6, <1>10, <1>14, Places
    <3> QED BY <1>3, <3>1
  <2>3. resolved' \subseteq Records
    BY <1>3, <1>6, <1>10, Zenon
  <2> QED BY <1>4, <1>5, <2>1, <2>2, <2>3, SMTT(30) DEF TypeOK
<1>16. Round'
  <2>1. ASSUME NEW r \in fetched, results'[r] = Unknown
        PROVE  r \in batch /\ wave + 1 <= Rank(r)
    <3>1. r \notin Wave(wave) /\ results[r] = Unknown
      BY <1>6, <1>7, <1>10, <1>13, <2>1 DEF Unknown, Applied, Failed, Retry
    <3>2. r \in batch /\ wave <= Rank(r)
      BY <1>4, <1>5, <3>1 DEF Round
    <3> QED BY <1>6, <1>8, <1>10, <3>1, <3>2
  <2>2. \A r \in fetched : results'[r] = Retry => r \in batch
    BY <1>4, <1>5, <1>6, <1>10, <1>13, Zenon DEF Round
  <2>3. ASSUME NEW r \in batch, wave + 1 <= Rank(r)
        PROVE  results'[r] \in Open
    <3>1. r \notin Wave(wave) /\ wave <= Rank(r) /\ r \in Records
      BY <1>6, <1>8, <1>10, <2>3
    <3> QED BY <1>4, <1>5, <1>13, <3>1 DEF Round
  <2>4. ASSUME NEW r \in batch, NEW s \in Earlier(r), results'[s] = Retry
        PROVE  results'[r] \in Open
    <3>1. s \in batch /\ Rank(s) < Rank(r) /\ r \in Records /\ s \in Records
      BY <1>6, <1>9
    <3>2. CASE r \in Wave(wave)
      <4>1. s \notin Wave(wave)
        BY <1>6, <1>8, <1>10, <3>1, <3>2
      <4>2. Blocked(r)
        BY <1>13, <2>4, <3>1, <4>1, Zenon DEF Blocked
      <4> QED BY <1>11, <1>13, <3>1, <3>2, <4>2 DEF Open
    <3>3. CASE r \notin Wave(wave) /\ s \notin Wave(wave)
      <4>1. Blocked(r)
        BY <1>13, <2>4, <3>1, <3>3 DEF Blocked
      <4> QED BY <1>4, <1>5, <1>13, <3>1, <3>3, <4>1, Zenon DEF Round
    <3>4. CASE r \notin Wave(wave) /\ s \in Wave(wave)
      <4>1. wave <= Rank(r)
        BY <1>6, <1>8, <1>10, <3>1, <3>4
      <4> QED BY <1>4, <1>5, <1>13, <3>1, <3>4, <4>1 DEF Round
    <3> QED BY <3>2, <3>3, <3>4
  <2>5. \A r \in batch : Blocked(r)' => results'[r] \in Open
    BY <1>6, <1>8, <2>4 DEF Blocked
  <2>6. \A r \in batch : r \in Records
    BY <1>6
  <2>7. Open' = Open
    BY DEF Open
  <2> QED BY <1>4, <1>5, <1>6, <1>8, <2>1, <2>2, <2>3, <2>5, <2>6, <2>7 DEF Round
\* The one record of a key in the wave comes after all that are through.
<1>17. ASSUME NEW r \in fetched, results[r] = Applied, r \notin Wave(wave),
              NEW t \in Wave(wave), Key[t] = Key[r]
       PROVE  Offset[r] <= Offset[t]
  <2>1. Offset[r] \in Nat /\ Offset[t] \in Nat /\ t \in batch /\ r \in Records
    BY <1>6, <1>10, Places, Zenon
  <2>2. CASE r \notin batch
    BY <1>4, <1>5, <1>17, <2>1, <2>2, SMTT(30) DEF Round
  <2>3. CASE r \in batch /\ Offset[t] < Offset[r]
    <3>1. t \in Earlier(r)
      BY <1>17, <2>1, <2>3, Zenon DEF Earlier
    <3>2. wave <= Rank(r)
      BY <1>6, <1>8, <1>9, <1>10, <2>1, <2>3, <3>1
    <3> QED BY <1>4, <1>5, <1>17, <2>3, <3>2, Zenon DEF Round, Open, Applied, Unknown, Retry
  <2> QED BY <2>1, <2>2, <2>3
<1>18. ASSUME NEW r \in Wave(wave), NEW t \in Wave(wave), Key[t] = Key[r]
       PROVE  r = t
  <2>1. r \in batch /\ t \in batch /\ Rank(r) = wave /\ Rank(t) = wave
    BY <1>10
  <2>2. Offset[r] \in Nat /\ Offset[t] \in Nat
    BY <1>6, <2>1, Places, Zenon
  <2>3. ~(Offset[r] < Offset[t]) /\ ~(Offset[t] < Offset[r])
    BY <1>6, <1>9, <1>18, <2>1 DEF Earlier
  <2>4. Offset[r] = Offset[t]
    BY <2>2, <2>3, SMTT(30)
  <2> QED BY <1>6, <1>18, <2>1, <2>4, Places
<1>19. Truth'
  <2>1. \A r \in fetched : results'[r] \in {Applied, Failed} => r \in resolved'
    BY <1>3, <1>5, <1>6, <1>10, <1>12, <1>13 DEF Truth, Applied, Failed, Retry
  <2>2. ASSUME NEW r \in fetched, results'[r] = Applied
        PROVE  Offset[r] <= value'[Key[r]]
    <3>1. r \in Records /\ Key[r] \in Keys /\ Offset[r] \in Nat
      BY <1>6, Places DEF Keys
    <3>2. CASE r \in Wave(wave)
      <4>1. r \in hit
        BY <1>12, <1>13, <2>2, <3>1, <3>2 DEF Applied, Retry
      <4>2. PICK t \in hit : Key[t] = Key[r] /\ value'[Key[r]] = Offset[t]
        BY <1>14, <3>1, <4>1
      <4>3. t = r
        BY <1>10, <1>18, <3>2, <4>2
      <4> QED BY <3>1, <4>2, <4>3
    <3>3. CASE r \notin Wave(wave)
      <4>1. results[r] = Applied /\ Offset[r] <= value[Key[r]]
        BY <1>5, <1>13, <2>2, <3>1, <3>3, Zenon DEF Truth
      <4> QED BY <1>10, <1>14, <1>17, <3>1, <3>3, <4>1, SMTT(30)
    <3> QED BY <3>2, <3>3
  <2> QED BY <1>3, <1>4, <1>5, <2>1, <2>2, Zenon DEF Truth
<1>20. Prefix'
  <2>1. \A r : Done(r) => Done(r)'
    BY <1>3, <1>4 DEF Done
  <2> QED BY <1>4, <1>5, <2>1, Zenon DEF Prefix
<1>21. KeyBarrier'
  <2> SUFFICES ASSUME NEW r \in tried, NEW s \in Records, Key[r] = Key[s], Offset[s] < Offset[r]
               PROVE  s \in resolved
    BY <1>3, <1>5, <1>10 DEF KeyBarrier
  <2>1. r \in batch /\ r \in fetched /\ r \in Records /\ Rank(r) = wave /\ ~Blocked(r)
    BY <1>6, <1>10, <1>11, Zenon
  <2>2. CASE s \notin fetched
    <3>1. Offset[r] <= position[PartitionOf[r]] /\ PartitionOf[s] = PartitionOf[r]
      BY <1>5, <2>1, Places DEF Round
    <3>2. Offset[s] <= position[PartitionOf[s]]
      BY <1>5, <2>1, <3>1, Numbers, SMTT(30)
    <3>3. Offset[s] <= committed[PartitionOf[s]]
      BY <1>5, <2>2, <3>2, Numbers DEF Prefix
    <3>4. Done(s)
      BY <1>5, <3>3 DEF Prefix
    <3> QED BY <1>5, <3>4, Zenon DEF Done, Truth
  <2>3. CASE s \in fetched
    <3>1. results[s] # Retry
      <4>1. CASE s \in batch
        BY <2>1, <4>1 DEF Blocked, Earlier
      <4>2. CASE s \notin batch
        BY <1>4, <1>5, <2>3, <4>2 DEF Round
      <4> QED BY <4>1, <4>2
    <3>2. results[s] # Unknown
      <4>1. SUFFICES ASSUME s \in batch, wave <= Rank(s) PROVE FALSE
        BY <1>5, <2>3 DEF Round
      <4>2. s \in Earlier(r)
        BY <4>1, Zenon DEF Earlier
      <4> QED BY <1>6, <1>8, <1>9, <2>1, <4>1, <4>2, SMTT(30)
    <3> QED BY <1>5, <1>6, <2>3, <3>1, <3>2, Zenon DEF Truth
  <2> QED BY <2>2, <2>3, Zenon
<1>22. ~lostReply' => Forward'
  <2> SUFFICES ASSUME Forward PROVE Forward'
    BY <1>4, Zenon DEF WorkerInv
  <2>1. ASSUME NEW r \in settled PROVE Offset[r] <= value'[Key[r]]
    <3>1. r \in Records /\ Key[r] \in Keys
      BY <1>5, Zenon DEF TypeOK, Keys
    <3>2. CASE \A t \in hit : Key[t] # Key[r]
      BY <1>14, <3>1, <3>2 DEF Forward
    <3>3. ASSUME NEW t \in hit, Key[t] = Key[r], value'[Key[r]] = Offset[t]
          PROVE  Offset[r] <= value'[Key[r]]
      <4>1. t \in fetched /\ t \in Records
        BY <1>6, <1>10, Zenon
      <4>2. committed[PartitionOf[t]] < Offset[t] /\ Offset[r] <= committed[PartitionOf[r]]
        BY <1>4, <4>1, Zenon DEF Forward
      <4>3. PartitionOf[t] = PartitionOf[r]
        BY <3>1, <3>3, <4>1, Places
      <4> QED BY <1>5, <3>1, <3>3, <4>1, <4>2, <4>3, Numbers
    <3> QED BY <1>14, <3>1, <3>2, <3>3, Zenon
  <2> QED BY <1>4, <2>1, Zenon DEF Forward
<1> QED BY <1>15, <1>16, <1>19, <1>20, <1>21, <1>22 DEF WorkerInv

-----------------------------------------------------------------------------
\* After the last wave every record of the call has a result.
LEMMA AllAnswered ==
  ASSUME WorkerInv, pc = "handling", Wave(wave) = {}
  PROVE  \A r \in fetched : results[r] # Unknown
<1>1. batch \in SUBSET Records /\ wave \in Nat
  BY DEF WorkerInv, TypeOK
<1>2. \A r \in batch : Cardinality(Before(batch, r)) # wave
  BY DEF Wave, Earlier, Before
<1>3. \A r \in batch : Cardinality(Before(batch, r)) < wave
  BY <1>1, <1>2, WavesContiguous
<1>4. \A r \in batch : Rank(r) \in Nat /\ Rank(r) < wave
  BY <1>1, <1>3, BeforeFinite DEF Rank, Earlier, Before
<1> QED BY <1>1, <1>4 DEF WorkerInv, Round

LEMMA RetryBatchInv == WorkerInv /\ RetryBatch => WorkerInv'
<1> SUFFICES ASSUME WorkerInv, RetryBatch PROVE WorkerInv'
  OBVIOUS
<1>1. /\ pc = "handling" /\ pc' = pc /\ wave' = 0 /\ attempt < MaxRetryAttempts
      /\ attempt' = attempt + 1 /\ batch' = {r \in batch : results[r] = Retry}
      /\ committed' = committed /\ dlq' = dlq /\ position' = position /\ fetched' = fetched
      /\ results' = results /\ value' = value /\ resolved' = resolved /\ settled' = settled
      /\ lostReply' = lostReply
  BY DEF RetryBatch, brokerVars, historyVars
<1>2. \A r \in fetched : results[r] # Unknown
  BY AllAnswered DEF RetryBatch
<1>3. batch \subseteq fetched /\ fetched \subseteq Records
  BY Zenon DEF WorkerInv, TypeOK
<1>4. TypeOK'
  <2>1. attempt' \in 0..MaxRetryAttempts
    BY <1>1, Numbers, SMTT(30) DEF WorkerInv, TypeOK
  <2> QED BY <1>1, <2>1 DEF WorkerInv, TypeOK
<1>5. Round'
  <2>1. \A r \in fetched : results[r] = Retry => r \in batch'
    BY <1>1 DEF WorkerInv, Round
  <2>2. \A r \in batch' : results[r] \in Open
    BY <1>1 DEF Open
  <2>3. ASSUME NEW r \in fetched, r \notin batch', NEW s \in batch', Key[r] = Key[s]
        PROVE  Offset[r] < Offset[s]
    <3>1. s \in batch /\ results[s] = Retry /\ s \in Records /\ r \in Records
      BY <1>1, <1>3, <2>3
    <3>2. CASE r \notin batch
      BY <1>1, <2>3, <3>1, <3>2 DEF WorkerInv, Round
    <3>3. CASE r \in batch
      <4>1. results[r] # Retry /\ results[r] # Unknown
        BY <1>1, <1>2, <2>3, <3>3, Zenon
      <4>2. ~Blocked(r)
        BY <1>1, <3>3, <4>1 DEF WorkerInv, Round, Open
      <4>3. ~(Offset[s] < Offset[r])
        BY <2>3, <3>1, <4>2 DEF Blocked, Earlier
      <4>4. Offset[r] # Offset[s]
        BY <2>3, <3>1, <4>1, Places
      <4>5. Offset[r] \in Nat /\ Offset[s] \in Nat
        BY <3>1, Places
      <4> QED BY <4>3, <4>4, <4>5
    <3> QED BY <3>2, <3>3
  <2>4. Open' = Open
    BY DEF Open
  <2> QED BY <1>1, <1>2, <2>1, <2>2, <2>3, <2>4, Zenon DEF WorkerInv, Round
<1>6. Truth' /\ KeyBarrier'
  BY <1>1 DEF WorkerInv, Truth, KeyBarrier
<1>7. Prefix'
  <2>1. \A r : Done(r)' = Done(r)
    BY <1>1, Zenon DEF Done
  <2> QED BY <1>1, <2>1 DEF WorkerInv, Prefix
<1>8. ~lostReply' => Forward'
  BY <1>1 DEF WorkerInv, Forward
<1> QED BY <1>4, <1>5, <1>6, <1>7, <1>8 DEF WorkerInv

LEMMA EndHandlingInv == WorkerInv /\ EndHandling => WorkerInv'
<1> SUFFICES ASSUME WorkerInv, EndHandling PROVE WorkerInv'
  OBVIOUS
<1>1. /\ pc = "handling" /\ pc' = IF Ready = {} THEN "rewind" ELSE "dead letters"
      /\ committed' = committed /\ dlq' = dlq /\ position' = position /\ fetched' = fetched
      /\ results' = results /\ value' = value /\ resolved' = resolved /\ settled' = settled
      /\ lostReply' = lostReply /\ batch' = batch /\ wave' = wave /\ attempt' = attempt
  BY Zenon DEF EndHandling, brokerVars, roundVars, historyVars
<1>2. \A r \in fetched : results[r] # Unknown
  BY AllAnswered, Zenon DEF EndHandling
<1>3. Ready' = Ready /\ (pc' = "rewind" => Ready = {})
      /\ pc' \in {"rewind", "dead letters"}
  BY <1>1, Zenon DEF Ready
<1>4. TypeOK'
  BY <1>1, <1>2, <1>3, Zenon DEF WorkerInv, TypeOK
<1>5. Round'
  BY <1>1, <1>2, <1>3, Zenon DEF WorkerInv, Round
<1>6. Truth' /\ KeyBarrier'
  BY <1>1, Zenon DEF WorkerInv, Truth, KeyBarrier
<1>7. Prefix'
  <2>1. \A r : Done(r)' = Done(r)
    BY <1>1, Zenon DEF Done
  <2> QED BY <1>1, <1>3, <2>1, Zenon DEF WorkerInv, Prefix
<1>8. ~lostReply' => Forward'
  BY <1>1, <1>3, Zenon DEF WorkerInv, Forward
<1> QED BY <1>4, <1>5, <1>6, <1>7, <1>8 DEF WorkerInv

LEMMA PublishInv == WorkerInv /\ PublishDeadLetters => WorkerInv'
<1> SUFFICES ASSUME WorkerInv, PublishDeadLetters PROVE WorkerInv'
  OBVIOUS
<1> DEFINE failures == {r \in Ready : results[r] = Failed}
<1>1. /\ pc = "dead letters" /\ pc' \in {"commit", "rewind all"}
      /\ committed' = committed /\ position' = position /\ fetched' = fetched
      /\ results' = results /\ value' = value /\ resolved' = resolved /\ settled' = settled
      /\ lostReply' = lostReply /\ batch' = batch /\ wave' = wave /\ attempt' = attempt
  BY Zenon DEF PublishDeadLetters, roundVars, historyVars
<1>2. /\ dlq \subseteq dlq' /\ dlq' \subseteq dlq \cup failures
      /\ pc' = "commit" => failures \subseteq dlq'
  BY Zenon DEF PublishDeadLetters
<1>3. Ready' = Ready /\ Ready \subseteq fetched
  BY <1>1, Zenon DEF Ready
<1>4. failures \subseteq resolved /\ failures \subseteq Records
  BY <1>3, Zenon DEF WorkerInv, Truth, TypeOK
<1> HIDE DEF failures
<1>5. TypeOK'
  BY <1>1, <1>2, <1>4, Zenon DEF WorkerInv, TypeOK
<1>6. Round'
  BY <1>1, Zenon DEF WorkerInv, Round
<1>7. Truth' /\ KeyBarrier'
  BY <1>1, <1>2, <1>4, Zenon DEF WorkerInv, Truth, KeyBarrier
<1>8. Prefix'
  <2>1. \A r : Done(r) => Done(r)'
    BY <1>1, <1>2, Zenon DEF Done
  <2>2. pc' = "commit" => \A r \in Ready : results[r] = Failed => r \in dlq'
    BY <1>2, Zenon DEF failures
  <2> QED BY <1>1, <1>3, <2>1, <2>2, Zenon DEF WorkerInv, Prefix
<1>9. ~lostReply' => Forward'
  BY <1>1, Zenon DEF WorkerInv, Forward
<1> QED BY <1>5, <1>6, <1>7, <1>8, <1>9 DEF WorkerInv

-----------------------------------------------------------------------------
\* CommitRecords.  The prefix of a partition ends at its greatest offset; all
\* up to it that was fetched is ready, and the rest was done before.
LEMMA AdvanceMoves ==
  ASSUME WorkerInv, Advance
  PROVE  /\ \A r \in Ready : Offset[r] <= committed'[PartitionOf[r]]
         /\ \A p \in Partitions : \/ /\ committed'[p] = committed[p]
                                     /\ \A r \in Ready : PartitionOf[r] # p
                                  \/ \E s \in Ready : PartitionOf[s] = p /\ committed'[p] = Offset[s]
         /\ committed' \in [Partitions -> Nat]
<1> DEFINE mine(p) == {Offset[r] : r \in {s \in Ready : PartitionOf[s] = p}}
<1>1. Ready \subseteq Records
  BY Zenon DEF Ready, WorkerInv, TypeOK
<1>2. committed' = [p \in Partitions |-> IF mine(p) = {} THEN committed[p] ELSE Max(mine(p))]
  BY DEF Advance
<1>3. ASSUME NEW p \in Partitions, mine(p) # {}
      PROVE  Max(mine(p)) \in mine(p) /\ \A y \in mine(p) : y <= Max(mine(p))
  <2>1. mine(p) \in SUBSET (0..Len(Log[p])) /\ Len(Log[p]) \in Nat
    BY <1>1, Places
  <2> HIDE DEF mine
  <2> QED BY <1>3, <2>1, Extremes, Zenon
<1>4. \A p \in Partitions : /\ mine(p) = {} => committed'[p] = committed[p]
                            /\ mine(p) # {} => committed'[p] = Max(mine(p))
  BY <1>2, Zenon
<1>5. \A p \in Partitions, r \in Ready : PartitionOf[r] = p => Offset[r] \in mine(p)
  OBVIOUS
<1>6. \A p \in Partitions : \A y \in mine(p) : \E s \in Ready : PartitionOf[s] = p /\ y = Offset[s]
  OBVIOUS
<1> HIDE DEF mine
<1>7. \A r \in Ready : Offset[r] <= committed'[PartitionOf[r]]
  BY <1>1, <1>3, <1>4, <1>5, Places
<1>8. ASSUME NEW p \in Partitions
      PROVE  \/ /\ committed'[p] = committed[p]
                /\ \A r \in Ready : PartitionOf[r] # p
             \/ \E s \in Ready : PartitionOf[s] = p /\ committed'[p] = Offset[s]
  <2>1. CASE mine(p) = {}
    BY <1>4, <1>5, <2>1
  <2>2. CASE mine(p) # {}
    BY <1>3, <1>4, <1>6, <2>2
  <2> QED BY <2>1, <2>2
<1>9. ASSUME NEW p \in Partitions PROVE committed'[p] \in Nat
  <2>1. committed[p] \in Nat
    BY Zenon DEF WorkerInv, TypeOK
  <2>2. \A s \in Ready : Offset[s] \in Nat
    BY <1>1, Places
  <2> QED BY <1>8, <2>1, <2>2
<1> QED BY <1>2, <1>7, <1>8, <1>9, Zenon

LEMMA CommitInv == WorkerInv /\ Commit => WorkerInv'
<1> SUFFICES ASSUME WorkerInv, Commit PROVE WorkerInv'
  OBVIOUS
<1>1. /\ pc = "commit" /\ pc' \in {"rewind", "rewind all"}
      /\ dlq' = dlq /\ position' = position /\ fetched' = fetched /\ results' = results
      /\ value' = value /\ resolved' = resolved /\ batch' = batch /\ wave' = wave
      /\ attempt' = attempt
  BY Zenon DEF Commit, roundVars
<1>2. \/ Advance /\ pc' = "rewind" /\ lostReply' = lostReply
      \/ committed' = committed /\ settled' = settled /\ lostReply' = lostReply /\ pc' = "rewind all"
      \/ Advance /\ lostReply' = TRUE /\ pc' = "rewind all"
  BY Zenon DEF Commit
<1>3. Ready' = Ready /\ Ready \subseteq fetched
  BY <1>1, Zenon DEF Ready
<1>4. TypeOK /\ Round /\ Truth /\ Prefix /\ KeyBarrier
  BY DEF WorkerInv
<1>5. fetched \subseteq Records /\ settled \subseteq Records /\ resolved \subseteq Records
  BY <1>4, Zenon DEF TypeOK
<1>6. Round'
  BY <1>1, <1>4, Zenon DEF Round
<1>7. KeyBarrier'
  BY <1>1, <1>4, Zenon DEF KeyBarrier
<1>8. CASE /\ committed' = committed /\ settled' = settled /\ lostReply' = lostReply
           /\ pc' = "rewind all"
  <2>1. committed' = committed /\ settled' = settled /\ lostReply' = lostReply /\ pc' = "rewind all"
    BY <1>8, Zenon
  <2>2. \A r : Done(r)' = Done(r)
    BY <1>1, <2>1, Zenon DEF Done
  <2>3. TypeOK'
    BY <1>1, <1>4, <2>1, Zenon DEF TypeOK
  <2>4. Truth'
    BY <1>1, <1>4, <2>1, Zenon DEF Truth
  <2>5. Prefix'
    BY <1>1, <1>3, <1>4, <2>1, <2>2, Zenon DEF Prefix
  <2>6. ~lostReply' => Forward'
    BY <1>1, <2>1, Zenon DEF WorkerInv, Forward
  <2> QED BY <1>6, <1>7, <2>3, <2>4, <2>5, <2>6 DEF WorkerInv
<1>9. CASE Advance /\ ((pc' = "rewind" /\ lostReply' = lostReply) \/ lostReply' = TRUE)
  <2> DEFINE moves(p) == \E s \in Ready : PartitionOf[s] = p /\ committed'[p] = Offset[s]
  <2>1. /\ \A r \in Ready : Offset[r] <= committed'[PartitionOf[r]]
        /\ committed' \in [Partitions -> Nat]
        /\ \A p \in Partitions :
             moves(p) \/ (committed'[p] = committed[p] /\ \A r \in Ready : PartitionOf[r] # p)
    BY <1>9, AdvanceMoves
  <2>2. settled' = settled \cup {r \in Ready : results[r] = Applied}
    BY <1>9 DEF Advance
  <2>3. \A r \in Ready : r \in fetched /\ results[r] # Retry
    BY <1>4, <1>5, Numbers DEF Ready
  \* What is fetched up to a ready record is ready.
  <2>4. ASSUME NEW r \in fetched, NEW s \in Ready, PartitionOf[r] = PartitionOf[s],
               Offset[r] <= Offset[s]
        PROVE  r \in Ready
    <3>1. \A t \in fetched : PartitionOf[t] \in Partitions /\ Offset[t] \in Nat
      BY <1>5, Places, Zenon
    <3> QED BY <1>3, <2>4, <3>1 DEF Ready
  <2>5. \A r \in Ready : r \in settled' \cap resolved \/ r \in dlq
    <3>1. \A r \in Ready : results[r] \in {Applied, Failed}
      BY <1>1, <1>4, <1>5, <2>3, Zenon DEF TypeOK
    <3> QED BY <1>1, <1>4, <2>2, <2>3, <3>1, Zenon DEF Truth, Prefix
  <2>6. \A s \in Ready : Offset[s] <= position[PartitionOf[s]]
    BY <1>4, <2>3 DEF Round
  <2>7. TypeOK'
    <3>1. \A p \in Partitions : committed'[p] <= Len(Log[p])
      BY <1>3, <1>4, <1>5, <2>1, Places, Zenon DEF TypeOK
    <3>2. settled' \subseteq Records
      BY <1>3, <1>5, <2>2
    <3>3. committed' \in [Partitions -> Nat]
      BY <2>1
    <3> QED BY <1>1, <1>4, <3>1, <3>2, <3>3, Zenon DEF TypeOK
  <2>8. Truth'
    <3>1. settled' \subseteq resolved
      BY <1>4, <2>2, <2>3, Zenon DEF Truth
    <3> QED BY <1>1, <1>4, <3>1, Zenon DEF Truth
  <2>9. Prefix'
    <3>1. \A r : Done(r) => Done(r)'
      BY <1>1, <2>2, Zenon DEF Done
    <3>2. ASSUME NEW r \in Records, Offset[r] <= committed'[PartitionOf[r]]
          PROVE  Done(r)'
      <4>1. PartitionOf[r] \in Partitions /\ Offset[r] \in Nat
        BY Places, Zenon
      <4>2. CASE committed'[PartitionOf[r]] = committed[PartitionOf[r]]
        BY <1>4, <3>1, <3>2, <4>2 DEF Prefix
      <4>3. ASSUME NEW s \in Ready, PartitionOf[s] = PartitionOf[r],
                   committed'[PartitionOf[r]] = Offset[s]
            PROVE  Done(r)'
        <5>1. CASE r \in fetched
          <6>1. r \in Ready
            BY <2>4, <3>2, <4>3, <5>1, Zenon
          <6> QED BY <1>1, <2>5, <6>1, Zenon DEF Done
        <5>2. CASE r \notin fetched
          <6>1. s \in Records /\ Offset[s] <= position[PartitionOf[s]]
            BY <1>5, <2>3, <2>6
          <6>2. Offset[r] <= position[PartitionOf[r]]
            BY <1>4, <3>2, <4>3, <6>1, Numbers, SMTT(30)
          <6>3. Offset[r] <= committed[PartitionOf[r]]
            BY <1>4, <5>2, <6>2, Numbers, SMTT(30) DEF Prefix
          <6> QED BY <1>4, <3>1, <6>3 DEF Prefix
        <5> QED BY <5>1, <5>2
      <4> QED BY <2>1, <4>1, <4>2, <4>3
    <3>3. ASSUME NEW r \in Records, committed'[PartitionOf[r]] < Offset[r],
                 Offset[r] <= position[PartitionOf[r]]
          PROVE  r \in fetched
      <4>1. PartitionOf[r] \in Partitions
        BY Places, Zenon
      <4>2. CASE committed'[PartitionOf[r]] = committed[PartitionOf[r]]
        BY <1>4, <3>3, <4>2, Zenon DEF Prefix
      <4>3. ASSUME NEW s \in Ready, PartitionOf[s] = PartitionOf[r],
                   committed'[PartitionOf[r]] = Offset[s]
            PROVE  r \in fetched
        <5>1. s \in fetched /\ s \in Records /\ Offset[s] <= Offset[r]
          BY <1>4, <1>5, <2>3, <3>3, <4>3, Numbers, SMTT(30)
        <5> QED BY <1>4, <3>3, <4>3, <5>1, Zenon DEF Prefix
      <4> QED BY <2>1, <4>1, <4>2, <4>3
    <3> QED BY <1>1, <1>3, <1>4, <2>1, <3>2, <3>3, Zenon DEF Prefix
  <2>10. ~lostReply' => Forward'
    <3> SUFFICES ASSUME ~lostReply' PROVE Forward'
      OBVIOUS
    <3> pc' = "rewind" /\ lostReply' = lostReply
      BY <1>9, Zenon
    <3> Forward
      BY Zenon DEF WorkerInv
    <3>1. \A p \in Partitions : committed[p] <= committed'[p] /\ committed'[p] <= position[p]
      <4> SUFFICES ASSUME NEW p \in Partitions
                   PROVE  committed[p] <= committed'[p] /\ committed'[p] <= position[p]
        OBVIOUS
      <4>1. CASE committed'[p] = committed[p]
        BY <1>4, <4>1, Numbers DEF Forward
      <4>2. ASSUME NEW s \in Ready, PartitionOf[s] = p, committed'[p] = Offset[s]
            PROVE  committed[p] <= committed'[p] /\ committed'[p] <= position[p]
        <5>1. s \in Records /\ committed[p] < Offset[s] /\ Offset[s] <= position[p]
          BY <1>1, <1>5, <2>3, <2>6, <4>2, Zenon DEF Forward
        <5> QED BY <1>4, <4>2, <5>1, Numbers, SMTT(30)
      <4> QED BY <2>1, <4>1, <4>2, Zenon
    <3>2. \A r \in settled' : Offset[r] <= committed'[PartitionOf[r]] /\ Offset[r] <= value[Key[r]]
      <4> SUFFICES ASSUME NEW r \in settled'
                   PROVE  Offset[r] <= committed'[PartitionOf[r]] /\ Offset[r] <= value[Key[r]]
        OBVIOUS
      <4>1. CASE r \in settled
        BY <1>4, <1>5, <2>1, <3>1, <4>1, Numbers, SMTT(30) DEF Forward
      <4>2. CASE r \in Ready /\ results[r] = Applied
        BY <1>4, <2>1, <2>3, <4>2 DEF Truth
      <4> QED BY <2>2, <4>1, <4>2
    <3>3. ASSUME NEW r \in fetched, r \notin Ready
          PROVE  committed'[PartitionOf[r]] < Offset[r]
      <4>1. r \in Records /\ PartitionOf[r] \in Partitions /\ Offset[r] \in Nat
        BY <1>5, Places, Zenon
      <4>2. CASE committed'[PartitionOf[r]] = committed[PartitionOf[r]]
        BY <1>1, <3>3, <4>2, Zenon DEF Forward
      <4>3. ASSUME NEW s \in Ready, PartitionOf[s] = PartitionOf[r],
                   committed'[PartitionOf[r]] = Offset[s]
            PROVE  committed'[PartitionOf[r]] < Offset[r]
        <5>1. s \in Records /\ ~(Offset[r] <= Offset[s])
          BY <1>5, <2>3, <2>4, <3>3, <4>3, Zenon
        <5> QED BY <1>4, <4>1, <4>3, <5>1, Numbers, SMTT(30)
      <4> QED BY <2>1, <4>1, <4>2, <4>3
    <3> QED BY <1>1, <1>3, <3>1, <3>2, <3>3 DEF Forward
  <2> QED BY <1>6, <1>7, <2>7, <2>8, <2>9, <2>10, Zenon DEF WorkerInv
<1> QED BY <1>2, <1>8, <1>9, Zenon

-----------------------------------------------------------------------------
\* A new round begins: what the invariant says about no fetched records.
LEMMA RoundEnds ==
  ASSUME WorkerInv, NoRound, pc' = "idle",
         committed' = committed, dlq' = dlq, value' = value, resolved' = resolved,
         settled' = settled, lostReply' = lostReply,
         position' \in [Partitions -> Nat],
         \A p \in Partitions : position'[p] <= Len(Log[p]),
         \A r \in Records : Offset[r] <= position'[PartitionOf[r]]
                              => Offset[r] <= committed[PartitionOf[r]],
         ~lostReply /\ Forward => \A p \in Partitions : committed[p] <= position'[p]
  PROVE  WorkerInv'
<1>1. /\ fetched' = {} /\ batch' = {} /\ wave' = 0 /\ attempt' = 0
      /\ results' = [r \in Records |-> Unknown]
  BY Zenon DEF NoRound
<1>2. TypeOK'
  <2>1. results' \in [Records -> {Unknown, Applied, Failed, Retry}]
    BY <1>1
  <2>2. attempt' \in 0..MaxRetryAttempts
    BY <1>1, Numbers, SMTT(30) DEF WorkerInv
  <2> QED BY <1>1, <2>1, <2>2, Zenon DEF WorkerInv, TypeOK
<1>3. Round' /\ Truth' /\ KeyBarrier'
  BY <1>1, Zenon DEF WorkerInv, Round, Truth, KeyBarrier
<1>4. Prefix'
  <2>1. \A r : Done(r)' = Done(r)
    BY DEF Done
  <2>2. \A r \in Records : ~(/\ committed[PartitionOf[r]] < Offset[r]
                             /\ Offset[r] <= position'[PartitionOf[r]])
    BY Numbers, SMTT(30) DEF WorkerInv
  <2> QED BY <1>1, <2>1, <2>2, Zenon DEF WorkerInv, Prefix
<1>5. ~lostReply' => Forward'
  BY <1>1, Zenon DEF WorkerInv, Forward
<1> QED BY <1>2, <1>3, <1>4, <1>5, Zenon DEF WorkerInv

\* rewind: what is not retained is committed, and nothing retained lies before
\* the new position.
LEMMA RewindInv == WorkerInv /\ Rewind => WorkerInv'
<1> SUFFICES ASSUME WorkerInv, Rewind PROVE WorkerInv'
  BY Zenon
<1> DEFINE mine(p) == {Offset[r] : r \in {s \in Retained : PartitionOf[s] = p}}
<1>1. /\ pc \in {"rewind", "rewind all"} /\ pc' = "idle" /\ NoRound
      /\ committed' = committed /\ dlq' = dlq /\ value' = value /\ resolved' = resolved
      /\ settled' = settled /\ lostReply' = lostReply
  BY Zenon DEF Rewind, brokerVars, historyVars
<1>2. position' = [p \in Partitions |-> IF mine(p) = {} THEN position[p] ELSE Min(mine(p)) - 1]
  BY Zenon DEF Rewind
<1>3. TypeOK /\ Round /\ Prefix
  BY DEF WorkerInv
<1>4. fetched \subseteq Records /\ Retained \subseteq fetched /\ Ready \subseteq fetched
  BY <1>3, Zenon DEF TypeOK, Retained, Ready
<1>5. ASSUME NEW r \in fetched, r \notin Retained
      PROVE  pc = "rewind" /\ r \in Ready /\ Offset[r] <= committed[PartitionOf[r]]
  BY <1>1, <1>3, <1>5, Zenon DEF Retained, Prefix
<1>6. ASSUME NEW p \in Partitions, mine(p) # {}
      PROVE  Min(mine(p)) \in mine(p) /\ \A y \in mine(p) : Min(mine(p)) <= y
  <2>1. mine(p) \in SUBSET (0..Len(Log[p])) /\ Len(Log[p]) \in Nat
    BY <1>4, Places
  <2> HIDE DEF mine
  <2> QED BY <1>6, <2>1, Extremes, Zenon
<1>7. \A p \in Partitions, r \in Retained : PartitionOf[r] = p => Offset[r] \in mine(p)
  OBVIOUS
<1>8. \A p \in Partitions : \A y \in mine(p) : \E s \in Retained : PartitionOf[s] = p /\ y = Offset[s]
  OBVIOUS
<1> HIDE DEF mine
\* The position stays, or goes to just before the first retained record.
<1>9. ASSUME NEW p \in Partitions
      PROVE  \/ position'[p] = position[p] /\ \A r \in Retained : PartitionOf[r] # p
             \/ \E s \in Retained : /\ PartitionOf[s] = p /\ position'[p] = Offset[s] - 1
                                    /\ \A r \in Retained : PartitionOf[r] = p => Offset[s] <= Offset[r]
  <2>1. CASE mine(p) = {}
    BY <1>2, <1>7, <2>1, Zenon
  <2>2. CASE mine(p) # {}
    <3>1. PICK s \in Retained : PartitionOf[s] = p /\ Min(mine(p)) = Offset[s]
      BY <1>6, <1>8, <2>2
    <3>2. position'[p] = Offset[s] - 1
      BY <1>2, <2>2, <3>1
    <3>3. \A r \in Retained : PartitionOf[r] = p => Offset[s] <= Offset[r]
      BY <1>6, <1>7, <2>2, <3>1, Zenon
    <3> QED BY <3>1, <3>2, <3>3
  <2> QED BY <2>1, <2>2
<1>10. \A s \in Retained : /\ s \in Records /\ PartitionOf[s] \in Partitions
                           /\ Offset[s] \in Nat \ {0}
                           /\ Offset[s] <= position[PartitionOf[s]]
  BY <1>3, <1>4, Places, Zenon DEF Round
<1>11. ASSUME NEW p \in Partitions
       PROVE  position'[p] \in Nat /\ position'[p] <= position[p]
  BY <1>3, <1>9, <1>10, Numbers
<1>12. position' \in [Partitions -> Nat]
  BY <1>2, <1>11, Zenon
<1>13. \A p \in Partitions : position'[p] <= Len(Log[p])
  <2> SUFFICES ASSUME NEW p \in Partitions PROVE position'[p] <= Len(Log[p])
    OBVIOUS
  <2>1. position[p] <= Len(Log[p]) /\ position[p] \in Nat
    BY <1>3, Zenon DEF TypeOK
  <2> QED BY <1>11, <2>1, Places
<1>14. ASSUME NEW r \in Records, Offset[r] <= position'[PartitionOf[r]]
       PROVE  Offset[r] <= committed[PartitionOf[r]]
  <2>1. /\ PartitionOf[r] \in Partitions /\ Offset[r] \in Nat /\ position[PartitionOf[r]] \in Nat
        /\ committed[PartitionOf[r]] \in Nat
    BY <1>3, Numbers, Zenon
  <2>2. Offset[r] <= position[PartitionOf[r]]
    BY <1>11, <1>14, <2>1
  <2>3. SUFFICES ASSUME committed[PartitionOf[r]] < Offset[r] PROVE FALSE
    BY <2>1
  <2>4. r \in fetched
    BY <1>3, <2>2, <2>3 DEF Prefix
  <2>5. r \in Retained
    BY <1>5, <2>1, <2>3, <2>4
  <2> QED BY <1>9, <1>10, <1>14, <2>1, <2>5
<1>15. ASSUME Forward, NEW p \in Partitions PROVE committed[p] <= position'[p]
  <2>1. CASE position'[p] = position[p]
    BY <1>15, <2>1 DEF Forward
  <2>2. ASSUME NEW s \in Retained, PartitionOf[s] = p, position'[p] = Offset[s] - 1
        PROVE  committed[p] <= position'[p]
    <3>1. s \in fetched /\ s \in Records /\ ~(pc = "rewind" /\ s \in Ready)
      BY <1>1, <1>4, Zenon DEF Retained
    <3>2. committed[p] < Offset[s]
      BY <1>15, <2>2, <3>1 DEF Forward
    <3> QED BY <1>3, <2>2, <3>1, <3>2, Numbers
  <2> QED BY <1>9, <2>1, <2>2
<1> HIDE DEF NoRound
<1> QED BY <1>1, <1>12, <1>13, <1>14, <1>15, RoundEnds, Zenon

LEMMA HandoverInv == WorkerInv /\ Handover => WorkerInv'
<1> SUFFICES ASSUME WorkerInv, Handover PROVE WorkerInv'
  OBVIOUS
<1>1. /\ pc' = "idle" /\ NoRound /\ position' = committed
      /\ committed' = committed /\ dlq' = dlq /\ value' = value /\ resolved' = resolved
      /\ settled' = settled /\ lostReply' = lostReply
  BY DEF Handover, brokerVars, historyVars
<1>2. committed \in [Partitions -> Nat] /\ \A p \in Partitions : committed[p] <= Len(Log[p])
  BY Zenon DEF WorkerInv, TypeOK
<1>3. \A p \in Partitions : committed[p] <= committed[p]
  BY <1>2
<1> QED BY <1>1, <1>2, <1>3, RoundEnds

LEMMA NextInv == WorkerInv /\ [Next]_vars => WorkerInv'
<1> SUFFICES ASSUME WorkerInv, [Next]_vars PROVE WorkerInv'
  OBVIOUS
<1>1. ASSUME Expire \/ Heal \/ Drained \/ UNCHANGED vars PROVE WorkerInv'
  <2>1. /\ pc' = pc /\ value' = value /\ position' = position /\ dlq' = dlq
        /\ committed' = committed /\ fetched' = fetched /\ results' = results /\ batch' = batch
        /\ wave' = wave /\ attempt' = attempt /\ resolved' = resolved /\ settled' = settled
        /\ lostReply' = lostReply
    BY <1>1 DEF Expire, Heal, Drained, vars, brokerVars, roundVars, envVars, historyVars
  <2> QED BY <2>1, Frame, Zenon
<1> QED BY <1>1, PollInv, HandleWaveInv, RetryBatchInv, EndHandlingInv, PublishInv, CommitInv,
           RewindInv, HandoverInv DEF Next, Work

LEMMA WorkerInvariant == Spec => []WorkerInv
  BY InitInv, NextInv, PTL DEF Spec

-----------------------------------------------------------------------------
\* Every accepted mutation below a committed offset took effect or is in the
\* dead-letter topic, and none that is not committed is passed over: for every
\* log, poll size, retry limit and number of crashes.
THEOREM DeliveryNeverLoses == Spec => []NothingLost
<1>1. ASSUME WorkerInv PROVE NothingLost
  <2>1. \A r \in Records : Offset[r] <= committed[PartitionOf[r]] =>
          r \in settled \cap resolved \/ r \in dlq
    BY <1>1, Zenon DEF WorkerInv, Prefix, Done
  <2>2. ASSUME pc = "idle", NEW p \in Partitions, ~(position[p] <= committed[p]) PROVE FALSE
    <3>1. position[p] \in 1..Len(Log[p]) /\ committed[p] \in Nat
      BY <1>1, <2>2, Places DEF WorkerInv, TypeOK
    <3>2. PICK r \in Records : PartitionOf[r] = p /\ Offset[r] = position[p]
      BY <3>1, Occupied
    <3>3. committed[p] < Offset[r]
      BY <2>2, <3>1, <3>2
    <3>4. r \in fetched
      BY <1>1, <3>1, <3>2, <3>3 DEF WorkerInv, Prefix
    <3> QED BY <1>1, <2>2, <3>4, Zenon DEF WorkerInv, Round
  <2> QED BY <2>1, <2>2, Zenon DEF NothingLost, NothingSkipped
<1> QED BY <1>1, WorkerInvariant, PTL

\* A record takes effect or fails for good only after every earlier one of its
\* key did, whatever is retried, repeated or taken over by another consumer.
THEOREM KeysInOrder == Spec => []KeyBarrier
<1>1. WorkerInv => KeyBarrier
  BY DEF WorkerInv
<1> QED BY <1>1, WorkerInvariant, PTL

\* As long as no commit's reply was lost, repeated work never takes a document
\* back behind a committed record.
THEOREM ReplayNeverRollsBack == Spec => []NoRollback
<1>1. ASSUME WorkerInv PROVE NoRollback
  <2> SUFFICES ASSUME ~lostReply, NEW r \in settled PROVE value[Key[r]] >= Offset[r]
    BY DEF NoRollback
  <2>1. Offset[r] <= value[Key[r]]
    BY <1>1, Zenon DEF WorkerInv, Forward
  <2>2. Offset[r] \in Nat /\ value[Key[r]] \in Nat
    BY <1>1, Places, Zenon DEF WorkerInv, TypeOK, Keys
  <2> QED BY <2>1, <2>2
<1> QED BY <1>1, WorkerInvariant, PTL

=============================================================================
