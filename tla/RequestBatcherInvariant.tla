---------------------- MODULE RequestBatcherInvariant -----------------------
(***************************************************************************)
(* The inductive invariant of RequestBatcher (internal/service/batcher.go) *)
(* for every set of calls and records and every limit, the facts its proof *)
(* rests on, and the steps of callers and of run() that start no batch:    *)
(* waiting, receiving from its channels, stopping and draining.            *)
(* RequestBatcherProofs has the other steps and the theorems.              *)
(***************************************************************************)
EXTENDS RequestBatcher, SumTheorems

\* The calls of s in the order of their arrival.
Ascending(s) == \A i, j \in DOMAIN s : i < j => Arrival(s[i]) < Arrival(s[j])

\* The calls that have left the callers' hands arrived once each; the input
\* channel and pending hold those that wait, in the order of their arrival.
Lines ==
  /\ IsInjective(arrivals)
  /\ \A c \in Calls : stage[c] \in {"new", "reserved"} => c \notin Range(arrivals)
  /\ \A c \in Calls : stage[c] \notin {"new", "reserved", "done"} => c \in Range(arrivals)
  /\ Range(pending) = {c \in Calls : stage[c] = "pending"}
  /\ Range(input) = {c \in Calls : stage[c] = "queued"}
  /\ Ascending(pending) /\ Ascending(input)
  /\ \A c \in Range(pending), d \in Range(input) : Arrival(c) < Arrival(d)

\* Every launched call is in one batch, in the order of arrival.  Only calls that
\* are not answered hold records, and none of a failed chunk mutates any.
Batched ==
  /\ \A b \in batches : b # <<>> /\ Ascending(b) /\ Range(b) \subseteq InBatch
  /\ \A c \in InBatch : \E b \in batches : c \in Range(b)
  /\ \A b1, b2 \in batches : b1 # b2 => Range(b1) \cap Range(b2) = {}
  /\ \A c \in Calls : pendingRecords[c] # {} => stage[c] \in {"launched", "executing"}
  /\ \A b \in failing : Begun(b) # {} /\ \A c \in Begun(b) : todo[c] = {}

\* Only finitely many calls have been submitted.
Finite == IsFiniteSet({c \in Calls : stage[c] # "new"})

\* The calls that hold record k, and the entries of a channel that contain it.
Holders(k) == {c \in Calls : k \in pendingRecords[c]}
Times(s, k) == {i \in DOMAIN s : k \in s[i]}
Occupants(k) == Cardinality(Holders(k)) + Cardinality(Times(recordsDone, k))

\* An occupancy count is never below the calls that hold the record and the
\* releases under way; releases are lost only once the batcher has stopped.
Occupied ==
  \A k \in Keys : active[k] >= Occupants(k) /\ (~stopped => active[k] = Occupants(k))

\* run() counts the batches and the completions it has not received.
Counted ==
  /\ IsFiniteSet(batches) /\ running = Cardinality(batches) + completed
  /\ pc \in {"draining", "awaiting", "exited"} => stopped /\ pending = <<>>
  /\ pc \in {"awaiting", "exited"} => InQueue = {}
  /\ pc = "exited" => running = 0

\* The inductive invariant: its last four conjuncts are parts of AccountsExact.
BatcherInv ==
  /\ TypeOK /\ Finite /\ Lines /\ Batched /\ Occupied /\ Counted
  /\ RecordExclusive /\ QueueAccounting /\ MemoryHeld /\ BatchLimits

-----------------------------------------------------------------------------
\* A sequence of calls with one more at its end.
LEMMA AppendedCall ==
  ASSUME NEW c \in Calls, NEW s \in Seq(Calls)
  PROVE  /\ Append(s, c) \in Seq(Calls) /\ Len(s) \in Nat /\ DOMAIN s = 1..Len(s)
         /\ DOMAIN Append(s, c) = 1..(Len(s) + 1) /\ Len(Append(s, c)) = Len(s) + 1
         /\ \A i \in 1..Len(s) : Append(s, c)[i] = s[i]
         /\ Append(s, c)[Len(s) + 1] = c
         /\ Range(Append(s, c)) = Range(s) \cup {c}
BY Appended

\* Place enumerates a finite set of positions in ascending order.
LEMMA Places ==
  ASSUME NEW n \in Nat, NEW I \in SUBSET (1..n)
  PROVE  /\ IsFiniteSet(I) /\ Cardinality(I) \in Nat
         /\ \A m \in 1..Cardinality(I) : Place(I, m) \in I
         /\ \A m, q \in 1..Cardinality(I) : m < q => Place(I, m) < Place(I, q)
         /\ \A i \in I : \E m \in 1..Cardinality(I) : Place(I, m) = i
<1> DEFINE upto(i) == {j \in I : j <= i}
           rank == [i \in I |-> Cardinality(upto(i))]
           N == 1..Cardinality(I)
<1>0. \A i \in I : i \in Nat
  OBVIOUS
<1>1. IsFiniteSet(I) /\ Cardinality(I) \in Nat
  <2>1. IsFiniteSet(1..n)
    BY FS_Interval
  <2>2. IsFiniteSet(I)
    BY Zenon, <2>1, FS_Subset
  <2> QED BY <2>2, FS_CardinalityType
<1>2. ASSUME NEW i \in I
      PROVE  /\ IsFiniteSet(upto(i)) /\ Cardinality(upto(i)) \in Nat
             /\ Cardinality(upto(i)) \in N
  <2>1. upto(i) \in SUBSET I /\ i \in upto(i)
    BY <1>2
  <2>2. IsFiniteSet(upto(i)) /\ Cardinality(upto(i)) <= Cardinality(I)
    BY <1>1, <2>1, FS_Subset
  <2>3. Cardinality(upto(i)) \in Nat /\ Cardinality(upto(i)) # 0
    BY <2>1, <2>2, FS_CardinalityType, FS_EmptySet
  <2> QED BY <1>1, <2>2, <2>3
<1>3. ASSUME NEW i \in I, NEW j \in I, i < j
      PROVE  rank[i] < rank[j]
  <2>0. i \in Nat /\ j \in Nat /\ i < j
    BY <1>0, <1>3
  <2>1. upto(i) \in SUBSET upto(j) /\ j \in upto(j) /\ j \notin upto(i)
    <3>1. \A x \in I : x <= i => x <= j
      BY <1>0, <2>0
    <3>2. j <= j /\ ~(j <= i)
      BY <2>0
    <3> QED BY Zenon, <3>1, <3>2
  <2>2. IsFiniteSet(upto(j)) /\ Cardinality(upto(j)) \in Nat /\ Cardinality(upto(i)) \in Nat
    BY <1>2
  <2>3. Cardinality(upto(i)) <= Cardinality(upto(j)) /\ Cardinality(upto(i)) # Cardinality(upto(j))
    <3> HIDE DEF upto
    <3>1. /\ Cardinality(upto(i)) <= Cardinality(upto(j))
          /\ Cardinality(upto(j)) = Cardinality(upto(i)) => upto(j) = upto(i)
      BY <2>1, <2>2, FS_Subset
    <3> QED BY <2>1, <3>1
  <2> QED BY <2>2, <2>3
<1>4. rank \in [I -> N] /\ \A i \in I : rank[i] \in Nat
  BY <1>2
<1>5. \A i, j \in I : rank[i] = rank[j] => i = j
  <2>1. ASSUME NEW i \in I, NEW j \in I, i # j PROVE rank[i] # rank[j]
    <3>1. i < j \/ j < i
      BY <2>1
    <3>2. rank[i] \in Nat /\ rank[j] \in Nat
      BY <1>4
    <3> HIDE DEF rank
    <3> QED BY <1>3, <3>1, <3>2
  <2> QED BY <2>1
<1> HIDE DEF rank
<1>6. rank \in Surjection(I, N)
  <2>1. rank \in Injection(I, N)
    BY <1>4, <1>5 DEF Injection, IsInjective
  <2>2. IsFiniteSet(N) /\ Cardinality(N) = Cardinality(I)
    BY <1>1, FS_Interval
  <2> HIDE DEF N
  <2> QED BY <2>1, <2>2, FS_Injection
<1>7. ASSUME NEW m \in N PROVE Place(I, m) \in I /\ rank[Place(I, m)] = m
  <2>1. \E i \in I : Cardinality({j \in I : j <= i}) = m
    BY Zenon, <1>6 DEF Surjection, rank
  <2> QED BY <2>1 DEF Place, rank
<1>8. \A m, q \in N : m < q => Place(I, m) < Place(I, q)
  <2>1. ASSUME NEW m \in N, NEW q \in N, m < q PROVE Place(I, m) < Place(I, q)
    <3>1. /\ Place(I, m) \in I /\ Place(I, q) \in I
          /\ rank[Place(I, m)] = m /\ rank[Place(I, q)] = q
      BY <1>7
    <3>2. Place(I, m) = Place(I, q) \/ Place(I, q) < Place(I, m) \/ Place(I, m) < Place(I, q)
      <4>1. Place(I, m) \in Nat /\ Place(I, q) \in Nat
        BY Zenon, <1>0, <3>1
      <4> QED BY <4>1
    <3>3. m \in Nat /\ q \in Nat
      BY <1>1
    <3>4. CASE Place(I, m) = Place(I, q)
      BY <2>1, <3>1, <3>3, <3>4
    <3>5. CASE Place(I, q) < Place(I, m)
      <4>1. rank[Place(I, q)] < rank[Place(I, m)]
        BY Zenon, <1>3, <3>1, <3>5
      <4> QED BY <2>1, <3>1, <3>3, <4>1
    <3> QED BY <3>2, <3>4, <3>5
  <2> QED BY <2>1
<1>9. \A i \in I : \E m \in N : Place(I, m) = i
  BY Zenon, <1>4, <1>5, <1>7
<1> QED BY <1>1, <1>7, <1>8, <1>9

\* Keep is the subsequence at some positions.
LEMMA Kept ==
  ASSUME NEW R, NEW s \in Seq(R), NEW I \in SUBSET DOMAIN s
  PROVE  /\ Keep(s, I) \in Seq(R) /\ Len(Keep(s, I)) = Cardinality(I)
         /\ DOMAIN Keep(s, I) = 1..Cardinality(I)
         /\ Range(Keep(s, I)) = {s[i] : i \in I}
         /\ \A m \in DOMAIN Keep(s, I) : Place(I, m) \in I /\ Keep(s, I)[m] = s[Place(I, m)]
         /\ \A m, q \in DOMAIN Keep(s, I) : m < q => Place(I, m) < Place(I, q)
<1> DEFINE t == Keep(s, I)
<1>1. DOMAIN s = 1..Len(s) /\ Len(s) \in Nat
  OBVIOUS
<1>2. I \in SUBSET (1..Len(s))
  BY <1>1
<1>3. /\ Cardinality(I) \in Nat
      /\ \A m \in 1..Cardinality(I) : Place(I, m) \in I
      /\ \A m, q \in 1..Cardinality(I) : m < q => Place(I, m) < Place(I, q)
      /\ \A i \in I : \E m \in 1..Cardinality(I) : Place(I, m) = i
  BY <1>1, <1>2, Places, Zenon
<1>4. t = [m \in 1..Cardinality(I) |-> s[Place(I, m)]]
  BY DEF Keep
<1>5. \A i \in I : s[i] \in R
  BY <1>1, <1>2
<1>6. t \in [1..Cardinality(I) -> R]
  BY <1>3, <1>4, <1>5
<1>7. t \in Seq(R) /\ Len(t) = Cardinality(I)
  <2> HIDE DEF t
  <2> QED BY <1>3, <1>6
<1>8. Range(t) = {s[i] : i \in I}
  <2> HIDE DEF t
  <2> QED BY Zenon, <1>3, <1>4 DEF Range
<1> QED BY <1>3, <1>4, <1>6, <1>7, <1>8

-----------------------------------------------------------------------------
\* Arrival is the index of a call in arrivals.
LEMMA Arrivals ==
  ASSUME arrivals \in Seq(Calls), IsInjective(arrivals)
  PROVE  /\ Len(arrivals) \in Nat
         /\ \A c : c \in Range(arrivals) =>
              Arrival(c) \in 1..Len(arrivals) /\ arrivals[Arrival(c)] = c
         /\ \A c : c \notin Range(arrivals) => Arrival(c) = 0
         /\ \A i \in 1..Len(arrivals) : Arrival(arrivals[i]) = i
         /\ \A c : Arrival(c) \in Nat
<1>1. Len(arrivals) \in Nat /\ DOMAIN arrivals = 1..Len(arrivals)
  OBVIOUS
<1>2. ASSUME NEW c, c \in Range(arrivals)
      PROVE  Arrival(c) \in 1..Len(arrivals) /\ arrivals[Arrival(c)] = c
  <2>1. \E i \in DOMAIN arrivals : arrivals[i] = c
    BY <1>2 DEF Range
  <2>2. Arrival(c) \in DOMAIN arrivals /\ arrivals[Arrival(c)] = c
    BY <1>2, <2>1 DEF Arrival
  <2> QED BY <1>1, <2>2
<1>3. \A c : c \notin Range(arrivals) => Arrival(c) = 0
  BY DEF Arrival
<1>4. ASSUME NEW i \in 1..Len(arrivals) PROVE Arrival(arrivals[i]) = i
  <2>1. arrivals[i] \in Range(arrivals)
    BY <1>1 DEF Range
  <2>2. Arrival(arrivals[i]) \in 1..Len(arrivals) /\ arrivals[Arrival(arrivals[i])] = arrivals[i]
    BY <1>2, <2>1
  <2> QED BY <1>1, <2>2 DEF IsInjective
<1>5. \A c : Arrival(c) \in Nat
  BY <1>1, <1>2, <1>3
<1> QED BY <1>1, <1>2, <1>3, <1>4, <1>5

\* The order of arrivals does not change by itself.
LEMMA ArrivalsKept == ASSUME arrivals' = arrivals PROVE \A c : Arrival(c)' = Arrival(c)
BY DEF Arrival

\* Part of an ascending sequence is ascending.
LEMMA KeptAscending ==
  ASSUME NEW s \in Seq(Calls), NEW I \in SUBSET DOMAIN s, Ascending(s)
  PROVE  Ascending(Keep(s, I))
<1>1. /\ \A m \in DOMAIN Keep(s, I) : Place(I, m) \in I /\ Keep(s, I)[m] = s[Place(I, m)]
      /\ \A m, q \in DOMAIN Keep(s, I) : m < q => Place(I, m) < Place(I, q)
  BY Kept, Zenon
<1> QED BY <1>1 DEF Ascending

\* In an ascending sequence of arrived calls no call stands twice.
LEMMA AscendingInjective ==
  ASSUME arrivals \in Seq(Calls), IsInjective(arrivals), NEW s \in Seq(Calls), Ascending(s)
  PROVE  IsInjective(s)
<1>1. DOMAIN s = 1..Len(s) /\ Len(s) \in Nat
  OBVIOUS
<1>2. ASSUME NEW i \in DOMAIN s, NEW j \in DOMAIN s, s[i] = s[j] PROVE i = j
  <2>1. Arrival(s[i]) = Arrival(s[j]) /\ Arrival(s[i]) \in Nat
    BY <1>2, Arrivals
  <2>2. ~(i < j) /\ ~(j < i)
    BY <2>1 DEF Ascending
  <2> QED BY <1>1, <2>2
<1> QED BY <1>2 DEF IsInjective

-----------------------------------------------------------------------------
\* What steps that do not touch a part of the state leave as it is.

Waiting == {"queued", "pending"}
Running == {"launched", "executing", "answered"}

\* Lines depends on the stages and the two queues alone: a step that leaves them alone keeps it.
LEMMA LinesFrame ==
  ASSUME TypeOK, Lines, UNCHANGED <<arrivals, pending, input>>, stage' \in [Calls -> Stages],
         \A c \in Calls : stage'[c] # stage[c] =>
           /\ stage[c] \notin Waiting /\ stage'[c] \notin Waiting
           /\ stage'[c] \in {"new", "reserved"} => stage[c] \in {"new", "reserved"}
           /\ stage'[c] \in Running => stage[c] \in Running
  PROVE  Lines'
<1>2. \A c : Arrival(c)' = Arrival(c)
  BY ArrivalsKept
<1>3. /\ {c \in Calls : stage'[c] = "pending"} = {c \in Calls : stage[c] = "pending"}
      /\ {c \in Calls : stage'[c] = "queued"} = {c \in Calls : stage[c] = "queued"}
  BY DEF Waiting
<1>4. \A c \in Calls : stage'[c] \in {"new", "reserved"} => stage[c] \in {"new", "reserved"}
  OBVIOUS
<1>5. ASSUME NEW c \in Calls, stage'[c] \notin {"new", "reserved", "done"}
      PROVE  stage[c] \notin {"new", "reserved", "done"}
  <2>1. stage'[c] \in Waiting \cup Running
    BY <1>5 DEF Stages, Waiting, Running
  <2> QED BY <1>5, <2>1 DEF Waiting, Running
<1>6. Ascending(pending)' /\ Ascending(input)'
  <2>1. (Ascending(pending)' <=> Ascending(pending)) /\ (Ascending(input)' <=> Ascending(input))
    BY <1>2 DEF Ascending
  <2> QED BY <2>1 DEF Lines
<1> QED BY <1>2, <1>3, <1>4, <1>5, <1>6 DEF Lines

\* A step that submits no call keeps the submitted calls finitely many.
LEMMA FiniteFrame ==
  ASSUME Finite, \A c \in Calls : stage'[c] # "new" => stage[c] # "new"
  PROVE  Finite'
<1>1. {c \in Calls : stage'[c] # "new"} \in SUBSET {c \in Calls : stage[c] # "new"}
  OBVIOUS
<1> QED BY <1>1, FS_Subset DEF Finite

\* One more call is submitted.
LEMMA FiniteMore ==
  ASSUME Finite, NEW d \in Calls, \A c \in Calls \ {d} : stage'[c] = stage[c]
  PROVE  Finite'
<1> DEFINE S == {c \in Calls : stage[c] # "new"}
<1>1. {c \in Calls : stage'[c] # "new"} \in SUBSET (S \cup {d})
  OBVIOUS
<1>2. IsFiniteSet(S \cup {d})
  BY FS_AddElement DEF Finite
<1> QED BY <1>1, <1>2, FS_Subset DEF Finite

\* The queue and the records held are finite.
LEMMA FiniteParts ==
  ASSUME TypeOK, Finite, Batched
  PROVE  /\ \A S \in SUBSET InQueue : IsFiniteSet(S) /\ Cardinality(S) \in Nat
         /\ \A k \in Keys : IsFiniteSet(Holders(k)) /\ Cardinality(Holders(k)) \in Nat
<1>1. InQueue \in SUBSET {c \in Calls : stage[c] # "new"}
  BY DEF InQueue
<1>2. \A S \in SUBSET InQueue : IsFiniteSet(S)
  BY <1>1, FS_Subset DEF Finite
<1>3. \A k \in Keys : Holders(k) \in SUBSET {c \in Calls : stage[c] # "new"}
  BY DEF Holders, Batched
<1>4. \A k \in Keys : IsFiniteSet(Holders(k))
  BY <1>3, FS_Subset DEF Finite
<1> QED BY <1>2, <1>4, FS_CardinalityType

\* Batched depends on the stages, the batches and what the calls still hold and mutate.
LEMMA BatchedFrame ==
  ASSUME TypeOK, Lines, Batched, UNCHANGED <<batches, failing, pendingRecords, todo>>,
         \A c \in Calls : stage'[c] # stage[c] => stage[c] \notin Running /\ stage'[c] \notin Running,
         \A c \in Range(arrivals) : Arrival(c)' = Arrival(c)
  PROVE  Batched'
<1>1. InBatch' = InBatch
  BY DEF InBatch, Running
<1>2. \A b \in batches : Range(b) \subseteq Calls
  BY DEF TypeOK, Range
<1>3. \A b \in batches : Begun(b)' = Begun(b)
  BY <1>2 DEF Begun, Running
<1>4. ASSUME NEW b \in batches PROVE Ascending(b)'
  <2>1. Range(b) \subseteq Range(arrivals)
    BY DEF Batched, Lines, InBatch
  <2>2. \A i \in DOMAIN b : Arrival(b[i])' = Arrival(b[i])
    BY <2>1 DEF Range
  <2>3. Ascending(b)
    BY DEF Batched
  <2> QED BY <2>2, <2>3 DEF Ascending
<1>5. \A c \in Calls : pendingRecords'[c] # {} => stage'[c] \in {"launched", "executing"}
  BY DEF Batched, Running
<1>6. \A b \in failing : Begun(b)' # {} /\ \A c \in Begun(b)' : todo'[c] = {}
  BY <1>3 DEF Batched, TypeOK
<1> QED BY <1>1, <1>4, <1>5, <1>6 DEF Batched

\* Occupied depends on the held records, the releases under way, the counts and stopped.
LEMMA OccupiedFrame ==
  ASSUME Occupied, UNCHANGED <<active, pendingRecords, recordsDone>>, stopped => stopped'
  PROVE  Occupied'
BY DEF Occupied, Occupants, Holders

\* The accounts of the queue and of the memory depend on the stages alone.
LEMMA AccountsFrame ==
  ASSUME QueueAccounting, MemoryHeld, UNCHANGED <<queueVars, retained>>,
         InQueue' = InQueue, InBatch' = InBatch
  PROVE  QueueAccounting' /\ MemoryHeld'
BY DEF QueueAccounting, MemoryHeld, queueVars

\* RecordExclusive depends on the executing calls and the records they still mutate.
LEMMA ExclusiveFrame ==
  ASSUME TypeOK, RecordExclusive, batches' \subseteq batches, \A c \in Calls : todo'[c] \subseteq todo[c]
  PROVE  RecordExclusive'
<1>1. \A b \in batches : Range(b) \subseteq Calls
  BY DEF TypeOK, Range
<1> QED BY <1>1 DEF RecordExclusive

\* Nothing about batches changes in a step that keeps them and their open records.
LEMMA BatchesFrame ==
  ASSUME RecordExclusive, BatchLimits, UNCHANGED <<batches, todo>>
  PROVE  RecordExclusive' /\ BatchLimits'
<1>1. batches' = batches /\ todo' = todo
  OBVIOUS
<1> QED BY Zenon, <1>1 DEF RecordExclusive, BatchLimits

-----------------------------------------------------------------------------
\* What the counters of the queue add up.
LEMMA QueueSums ==
  ASSUME TypeOK, Finite, Batched, NEW S \in SUBSET InQueue
  PROVE  /\ \A c \in InQueue : Operations[c] \in Nat /\ Size[c] \in Nat
         /\ Sum(Operations, S) \in Nat /\ Sum(Size, S) \in Nat /\ Cardinality(S) \in Nat
<1>1. \A c \in InQueue : Operations[c] \in Nat /\ Size[c] \in Nat
  BY BatcherAssumption DEF BatcherAssumption, InQueue
<1>2. IsFiniteSet(S) /\ Cardinality(S) \in Nat
  BY FiniteParts
<1>3. SumFunctionOnSet(Operations, S) \in Nat
  BY <1>1, <1>2, SumNat
<1>4. SumFunctionOnSet(Size, S) \in Nat
  BY <1>1, <1>2, SumNat
<1> QED BY <1>1, <1>2, <1>3, <1>4 DEF Sum

\* release() of calls that leave the queue gives back what they had taken.
LEMMA Released ==
  ASSUME TypeOK, Finite, Batched, QueueAccounting,
         NEW S \in SUBSET InQueue, Release(S), InQueue' = InQueue \ S
  PROVE  /\ QueueAccounting'
         /\ queuedCalls' \in Nat /\ queuedOperations' \in Nat /\ queuedBytes' \in Nat
<1> DEFINE T == InQueue \ S
<1>1. T \in SUBSET InQueue /\ InQueue \in SUBSET InQueue /\ InQueue \cap S = S
  OBVIOUS
<1>2. IsFiniteSet(InQueue) /\ Cardinality(InQueue) \in Nat
  BY <1>1, FiniteParts
<1>3. Cardinality(T) = Cardinality(InQueue) - Cardinality(S)
  BY Zenon, <1>1, <1>2, FS_Difference
<1>4. \A c \in InQueue : Operations[c] \in Int /\ Size[c] \in Int
  BY <1>1, QueueSums
<1>5. SumFunctionOnSet(Operations, InQueue)
        = SumFunctionOnSet(Operations, S) + SumFunctionOnSet(Operations, InQueue \ S)
  BY <1>2, <1>4, SumParts
<1>6. SumFunctionOnSet(Size, InQueue)
        = SumFunctionOnSet(Size, S) + SumFunctionOnSet(Size, InQueue \ S)
  BY <1>2, <1>4, SumParts
<1>7. /\ Sum(Operations, InQueue) = Sum(Operations, S) + Sum(Operations, T)
      /\ Sum(Size, InQueue) = Sum(Size, S) + Sum(Size, T)
  BY <1>5, <1>6 DEF Sum
<1>8. /\ Sum(Operations, S) \in Nat /\ Sum(Size, S) \in Nat /\ Cardinality(S) \in Nat
      /\ Sum(Operations, T) \in Nat /\ Sum(Size, T) \in Nat /\ Cardinality(T) \in Nat
  BY <1>1, QueueSums
<1>9. InQueue' = T
  OBVIOUS
<1> HIDE DEF T
<1>10. /\ queuedCalls' = Cardinality(T)
       /\ queuedOperations' = Sum(Operations, T)
       /\ queuedBytes' = Sum(Size, T)
  BY <1>2, <1>3, <1>7, <1>8 DEF QueueAccounting, Release
<1>11. queuedOperations' <= MaxQueuedOperations /\ queuedBytes' <= MaxQueuedBytes
  <2>1. MaxQueuedOperations \in Nat /\ MaxQueuedBytes \in Nat
    BY BatcherAssumption DEF BatcherAssumption
  <2> QED BY <1>7, <1>8, <1>10, <2>1 DEF QueueAccounting
<1> QED BY <1>8, <1>9, <1>10, <1>11 DEF QueueAccounting

\* reserve() takes no more than the limits leave.
LEMMA Taking ==
  ASSUME TypeOK, Finite, Batched, QueueAccounting, NEW c \in Calls, Reserve(c)
  PROVE  /\ QueueAccounting' /\ InQueue' = InQueue \cup {c}
         /\ queuedCalls' \in Nat /\ queuedOperations' \in Nat /\ queuedBytes' \in Nat
<1> DEFINE T == InQueue \cup {c}
<1>1. InQueue' = T /\ c \notin InQueue /\ InQueue \in SUBSET InQueue
  BY DEF InQueue, Reserve, TypeOK
<1>2. IsFiniteSet(InQueue) /\ Cardinality(InQueue) \in Nat
  BY <1>1, FiniteParts
<1>3. IsFiniteSet(T) /\ Cardinality(T) = Cardinality(InQueue) + 1
  BY <1>1, <1>2, FS_AddElement
<1>4. \A d \in T : Operations[d] \in Nat /\ Size[d] \in Nat
  BY BatcherAssumption DEF BatcherAssumption, InQueue
<1>5. c \in T /\ T \ {c} = InQueue
  BY <1>1
<1>6. SumFunctionOnSet(Operations, T) = Operations[c] + SumFunctionOnSet(Operations, T \ {c})
  <2>1. \A d \in T : Operations[d] \in Int
    BY <1>4
  <2> HIDE DEF T
  <2> QED BY <1>3, <1>5, <2>1, SumRemove
<1>7. SumFunctionOnSet(Size, T) = Size[c] + SumFunctionOnSet(Size, T \ {c})
  <2>1. \A d \in T : Size[d] \in Int
    BY <1>4
  <2> HIDE DEF T
  <2> QED BY <1>3, <1>5, <2>1, SumRemove
<1>8. /\ Sum(Operations, T) = Operations[c] + Sum(Operations, InQueue)
      /\ Sum(Size, T) = Size[c] + Sum(Size, InQueue)
  BY <1>5, <1>6, <1>7 DEF Sum
<1>9. Sum(Operations, InQueue) \in Nat /\ Sum(Size, InQueue) \in Nat
  BY <1>1, QueueSums
<1>10. Operations[c] \in Nat /\ Size[c] \in Nat
  BY <1>4
<1>11. MaxQueuedOperations \in Nat /\ MaxQueuedBytes \in Nat
  BY BatcherAssumption DEF BatcherAssumption
<1> HIDE DEF T
<1>12. /\ queuedCalls' = Cardinality(T)
       /\ queuedOperations' = Sum(Operations, T)
       /\ queuedBytes' = Sum(Size, T)
  BY <1>3, <1>8, <1>9, <1>10 DEF QueueAccounting, Reserve
<1>13. queuedOperations' <= MaxQueuedOperations /\ queuedBytes' <= MaxQueuedBytes
  BY <1>9, <1>10, <1>11 DEF QueueAccounting, Reserve, QueueFull
<1>14. QueueAccounting'
  BY <1>1, <1>12, <1>13 DEF QueueAccounting
<1> QED BY <1>1, <1>2, <1>9, <1>10, <1>14 DEF QueueAccounting, Reserve, T

-----------------------------------------------------------------------------
\* A channel holds finitely many releases of a record.
LEMMA TimesFinite ==
  ASSUME NEW R, NEW s \in Seq(R), NEW k
  PROVE  IsFiniteSet(Times(s, k)) /\ Cardinality(Times(s, k)) \in Nat
<1>1. Len(s) \in Nat /\ Times(s, k) \in SUBSET (1..Len(s))
  BY DEF Times
<1>2. IsFiniteSet(1..Len(s))
  BY <1>1, FS_Interval
<1>3. IsFiniteSet(Times(s, k))
  BY <1>1, <1>2, FS_Subset
<1> QED BY <1>3, FS_CardinalityType

\* A send on recordsDone adds one release of each record it names.
LEMMA TimesAppended ==
  ASSUME NEW R, NEW s \in Seq(R), NEW x \in R, NEW k
  PROVE  Cardinality(Times(Append(s, x), k)) =
           Cardinality(Times(s, k)) + (IF k \in x THEN 1 ELSE 0)
<1>1. /\ Len(s) \in Nat /\ DOMAIN s = 1..Len(s)
      /\ DOMAIN Append(s, x) = 1..(Len(s) + 1)
      /\ \A i \in 1..Len(s) : Append(s, x)[i] = s[i]
      /\ Append(s, x)[Len(s) + 1] = x
  BY Appended
<1>2. IsFiniteSet(Times(s, k)) /\ Cardinality(Times(s, k)) \in Nat
  BY TimesFinite
<1>3. Len(s) + 1 \notin Times(s, k)
  BY <1>1 DEF Times
<1>4. CASE k \in x
  <2>1. Times(Append(s, x), k) = Times(s, k) \cup {Len(s) + 1}
    BY <1>1, <1>4 DEF Times
  <2> QED BY Zenon, <1>2, <1>3, <1>4, <2>1, FS_AddElement
<1>5. CASE k \notin x
  <2>1. Times(Append(s, x), k) = Times(s, k)
    BY <1>1, <1>5 DEF Times
  <2> QED BY <1>2, <1>5, <2>1
<1> QED BY <1>4, <1>5

\* A receive from recordsDone takes one release of each record it names.
LEMMA TimesPopped ==
  ASSUME NEW R, NEW s \in Seq(R), s # <<>>, NEW k
  PROVE  Cardinality(Times(Tail(s), k)) =
           Cardinality(Times(s, k)) - (IF k \in Head(s) THEN 1 ELSE 0)
<1> DEFINE A == Times(Tail(s), k)
           B == Times(s, k) \ {1}
           f == [i \in A |-> i + 1]
<1>1. /\ Head(s) = s[1] /\ Tail(s) \in Seq(R)
      /\ Len(s) \in Nat \ {0} /\ DOMAIN s = 1..Len(s)
      /\ DOMAIN Tail(s) = 1..(Len(s) - 1)
      /\ \A i \in DOMAIN Tail(s) : Tail(s)[i] = s[i + 1]
  BY Popped
<1>2. A = {i \in 1..(Len(s) - 1) : k \in s[i + 1]}
  BY <1>1 DEF Times
<1>3. B = {i \in 2..Len(s) : k \in s[i]}
  BY <1>1 DEF Times
<1> HIDE DEF A, B
<1>4. f \in [A -> B]
  <2>1. \A i \in A : i + 1 \in B
    BY <1>1, <1>2, <1>3
  <2> QED BY <2>1
<1>5. \A i, j \in A : f[i] = f[j] => i = j
  BY <1>2
<1>6. ASSUME NEW j \in B PROVE \E i \in A : f[i] = j
  <2>1. j - 1 \in A /\ (j - 1) + 1 = j
    BY <1>1, <1>2, <1>3
  <2>2. f[j - 1] = j
    BY <2>1
  <2> QED BY <2>1, <2>2
<1>7. ExistsBijection(A, B)
  <2> HIDE DEF f
  <2> QED BY <1>4, <1>5, <1>6 DEF ExistsBijection, Bijection, Injection, Surjection, IsInjective
<1>8. IsFiniteSet(A)
  BY Zenon, <1>1, TimesFinite DEF A
<1>9. Cardinality(A) = Cardinality(B)
  BY <1>7, <1>8, FS_Bijection
<1>10. IsFiniteSet(Times(s, k)) /\ Cardinality(Times(s, k)) \in Nat
  BY TimesFinite
<1>11. Cardinality(B) = IF 1 \in Times(s, k) THEN Cardinality(Times(s, k)) - 1
                        ELSE Cardinality(Times(s, k))
  BY Zenon, <1>10, FS_RemoveElement DEF B
<1>12. 1 \in Times(s, k) <=> k \in Head(s)
  BY <1>1 DEF Times
<1> QED BY <1>9, <1>10, <1>11, <1>12 DEF A

\* finishRecords(): a call lets go of records and signals them, in one step.
LEMMA Letting ==
  ASSUME TypeOK, Finite, Batched, Occupied, NEW c \in Calls, NEW K \in SUBSET pendingRecords[c],
         SignalRecords(K), pendingRecords' = [pendingRecords EXCEPT ![c] = @ \ K],
         UNCHANGED <<active, stopped>>
  PROVE  Occupied' /\ recordsDone' \in Seq(SUBSET Keys)
<1>1. K \in SUBSET Keys /\ recordsDone \in Seq(SUBSET Keys)
  BY DEF TypeOK
<1>2. \/ K = {} /\ recordsDone' = recordsDone
      \/ recordsDone' = Append(recordsDone, K)
      \/ stopped /\ recordsDone' = recordsDone
  BY DEF SignalRecords
<1>3. recordsDone' \in Seq(SUBSET Keys)
  BY <1>1, <1>2
<1>4. ASSUME NEW k \in Keys
      PROVE  active'[k] >= Occupants(k)' /\ (~stopped' => active'[k] = Occupants(k)')
  <2> DEFINE h == Cardinality(Holders(k))
             t == Cardinality(Times(recordsDone, k))
  <2>1. IsFiniteSet(Holders(k)) /\ h \in Nat
    BY FiniteParts
  <2>2. t \in Nat /\ active[k] \in Nat
    BY <1>1, TimesFinite DEF TypeOK
  <2>3. active[k] >= h + t /\ (~stopped => active[k] = h + t)
    BY DEF Occupied, Occupants
  <2>4. Cardinality(Holders(k)') = h - (IF k \in K THEN 1 ELSE 0)
    <3>1. CASE k \in K
      <4>1. Holders(k)' = Holders(k) \ {c} /\ c \in Holders(k)
        BY <3>1 DEF Holders, TypeOK
      <4> QED BY Zenon, <2>1, <3>1, <4>1, FS_RemoveElement
    <3>2. CASE k \notin K
      <4>1. Holders(k)' = Holders(k)
        BY <3>2 DEF Holders, TypeOK
      <4> QED BY <2>1, <3>2, <4>1
    <3> QED BY <3>1, <3>2
  <2>5. CASE recordsDone' = recordsDone
    <3>1. Occupants(k)' = (h - (IF k \in K THEN 1 ELSE 0)) + t
      BY <2>4, <2>5 DEF Occupants
    <3>2. K = {} \/ stopped
      <4>1. CASE recordsDone' = Append(recordsDone, K)
        <5>1. Len(Append(recordsDone, K)) = Len(recordsDone) + 1 /\ Len(recordsDone) \in Nat
          BY <1>1
        <5> QED BY <2>5, <4>1, <5>1
      <4> QED BY <1>2, <4>1
    <3> HIDE DEF h, t
    <3> QED BY <2>1, <2>2, <2>3, <3>1, <3>2
  <2>6. CASE recordsDone' = Append(recordsDone, K)
    <3>1. Cardinality(Times(recordsDone', k)) = t + (IF k \in K THEN 1 ELSE 0)
      BY <1>1, <2>6, TimesAppended
    <3>2. Occupants(k)' = (h - (IF k \in K THEN 1 ELSE 0)) + (t + (IF k \in K THEN 1 ELSE 0))
      BY <2>4, <3>1 DEF Occupants, Times
    <3> HIDE DEF h, t
    <3> QED BY <2>1, <2>2, <2>3, <3>2
  <2> QED BY <1>2, <2>5, <2>6
<1> QED BY <1>3, <1>4 DEF Occupied

\* run() counts down for a signal it has received.
LEMMA Receiving ==
  ASSUME TypeOK, Finite, Batched, Occupied, RecvRecordsDone
  PROVE  Occupied' /\ active' \in [Keys -> Nat] /\ recordsDone' \in Seq(SUBSET Keys)
<1>1. recordsDone \in Seq(SUBSET Keys) /\ recordsDone # <<>> /\ recordsDone' = Tail(recordsDone)
  BY DEF TypeOK, RecvRecordsDone
<1>2. recordsDone' \in Seq(SUBSET Keys)
  BY <1>1, Popped
<1>3. ASSUME NEW k \in Keys
      PROVE  active'[k] \in Nat /\ active'[k] >= Occupants(k)' /\ (~stopped' => active'[k] = Occupants(k)')
  <2> DEFINE h == Cardinality(Holders(k))
             t == Cardinality(Times(recordsDone, k))
             d == IF k \in Head(recordsDone) THEN 1 ELSE 0
  <2>1. h \in Nat
    BY FiniteParts
  <2>2. t \in Nat /\ active[k] \in Nat
    BY <1>1, TimesFinite DEF TypeOK
  <2>3. active[k] >= h + t /\ (~stopped => active[k] = h + t)
    BY DEF Occupied, Occupants
  <2>4. Cardinality(Times(recordsDone', k)) = t - d
    BY <1>1, TimesPopped
  <2>5. Cardinality(Times(recordsDone', k)) \in Nat
    BY <1>2, TimesFinite
  <2>6. Occupants(k)' = h + (t - d)
    BY Zenon, <2>4 DEF Occupants, Holders, Times, RecvRecordsDone, execVars
  <2>7. active'[k] = active[k] - d /\ stopped' = stopped
    BY <2>2 DEF RecvRecordsDone, submitVars
  <2>8. d \in {0, 1}
    OBVIOUS
  <2> HIDE DEF h, t, d
  <2> QED BY <2>1, <2>2, <2>3, <2>4, <2>5, <2>6, <2>7, <2>8
<1>4. active' \in [Keys -> Nat]
  <2>1. active' = [k \in Keys |-> active'[k]]
    BY DEF RecvRecordsDone
  <2> QED BY <1>3, <2>1
<1> QED BY <1>2, <1>3, <1>4 DEF Occupied

-----------------------------------------------------------------------------
\* selectReady().  What it takes is free, and leaves nothing behind that is
\* waiting longer for one of its records.
LEMMA Selection ==
  ASSUME TypeOK, Finite, Lines, Batched, Occupied,
         NEW I \in (SUBSET DOMAIN pending) \ {{}}, SelectReady(I)
  PROVE  /\ Chosen(I) # {} /\ Chosen(I) \subseteq Range(pending) /\ Chosen(I) \subseteq Calls
         /\ Keep(pending, I) \in Seq(Calls) /\ Keep(pending, I) # <<>>
         /\ Range(Keep(pending, I)) = Chosen(I) /\ Ascending(Keep(pending, I))
         /\ Keep(pending, DOMAIN pending \ I) \in Seq(Calls)
         /\ Range(Keep(pending, DOMAIN pending \ I)) = Range(pending) \ Chosen(I)
         /\ Ascending(Keep(pending, DOMAIN pending \ I))
         /\ \A c \in Chosen(I) : \A k \in Records[c] :
              active[k] = 0 /\ \A d \in Calls : k \notin pendingRecords[d]
         /\ \A c \in Chosen(I), d \in Range(pending) \ Chosen(I) :
              Records[c] \cap Records[d] # {} => Arrival(c) < Arrival(d)
<1> DEFINE J == DOMAIN pending \ I
<1>1. /\ pending \in Seq(Calls) /\ DOMAIN pending = 1..Len(pending) /\ Len(pending) \in Nat
      /\ I \in SUBSET DOMAIN pending /\ J \in SUBSET DOMAIN pending /\ I # {}
  BY DEF TypeOK
<1>2. Ascending(pending) /\ IsInjective(pending)
  BY <1>1, AscendingInjective DEF TypeOK, Lines
<1>3. Chosen(I) # {} /\ Chosen(I) \subseteq Range(pending) /\ Chosen(I) \subseteq Calls
  BY <1>1 DEF Chosen, Range
<1>4. /\ Keep(pending, I) \in Seq(Calls) /\ Range(Keep(pending, I)) = Chosen(I)
  <2>0. pending \in Seq(Calls) /\ I \in SUBSET DOMAIN pending
    BY <1>1
  <2>1. Keep(pending, I) \in Seq(Calls) /\ Range(Keep(pending, I)) = {pending[i] : i \in I}
    BY <2>0, Kept
  <2> QED BY Zenon, <2>1 DEF Chosen
<1>5. Keep(pending, I) # <<>>
  <2>1. CASE Keep(pending, I) = <<>>
    <3>1. Range(Keep(pending, I)) = {}
      BY <2>1 DEF Range
    <3> QED BY <1>3, <1>4, <3>1
  <2> QED BY <2>1
<1>6. Ascending(Keep(pending, I)) /\ Ascending(Keep(pending, J))
  BY <1>1, <1>2, KeptAscending
<1>7. Keep(pending, J) \in Seq(Calls) /\ Range(Keep(pending, J)) = {pending[i] : i \in J}
  BY <1>1, Kept
<1>8. {pending[i] : i \in J} = Range(pending) \ Chosen(I)
  BY <1>1, <1>2 DEF Chosen, Range, IsInjective
<1>9. ASSUME NEW i \in I, NEW k \in Records[pending[i]]
      PROVE  /\ active[k] = 0 /\ \A d \in Calls : k \notin pendingRecords[d]
             /\ \A j \in 1..(i - 1) \ I : k \notin Records[pending[j]]
  <2>1. ~Dependent(I, i)
    BY <1>1 DEF SelectReady
  <2>2. ~(active[k] > 0) /\ \A d \in Left(I, i) : k \notin Records[d]
    BY <2>1 DEF Dependent
  <2>3. k \in Keys
    BY <1>1, BatcherAssumption DEF BatcherAssumption
  <2>4. active[k] = 0
    BY <2>2, <2>3 DEF TypeOK
  <2>5. Cardinality(Holders(k)) = 0
    <3>1. Cardinality(Holders(k)) \in Nat
      BY <2>3, FiniteParts
    <3>2. Cardinality(Times(recordsDone, k)) \in Nat
      BY TimesFinite DEF TypeOK
    <3> QED BY <2>3, <2>4, <3>1, <3>2 DEF Occupied, Occupants
  <2>6. Holders(k) = {}
    BY <2>3, <2>5, FiniteParts, FS_EmptySet
  <2> QED BY <2>2, <2>4, <2>6 DEF Holders, Left
<1>10. ASSUME NEW c \in Chosen(I), NEW d \in Range(pending) \ Chosen(I), Records[c] \cap Records[d] # {}
       PROVE  Arrival(c) < Arrival(d)
  <2>1. PICK i \in I : c = pending[i]
    BY DEF Chosen
  <2>2. PICK j \in J : d = pending[j]
    BY <1>8
  <2>3. PICK k \in Records[c] : k \in Records[d]
    BY <1>10
  <2>4. j \notin 1..(i - 1)
    BY <1>9, <2>1, <2>2, <2>3
  <2>5. i \in Nat /\ j \in Nat /\ j >= 1 /\ i # j
    BY <1>1, <2>1, <2>2
  <2>6. i < j
    BY <2>4, <2>5
  <2> QED BY <1>1, <1>2, <2>1, <2>2, <2>6 DEF Ascending
<1>11. \A c \in Chosen(I) : \A k \in Records[c] :
         active[k] = 0 /\ \A d \in Calls : k \notin pendingRecords[d]
  BY <1>9 DEF Chosen
<1> QED BY Zenon, <1>3, <1>4, <1>5, <1>6, <1>7, <1>8, <1>10, <1>11

\* A batch of several calls keeps the limits and belongs to one partition.
LEMMA SelectionLimits ==
  ASSUME TypeOK, Lines, NEW I \in (SUBSET DOMAIN pending) \ {{}}, SelectReady(I),
         Len(Keep(pending, I)) > 1
  PROVE  /\ Sum(Operations, Chosen(I)) <= MaxOperations /\ Sum(Size, Chosen(I)) <= MaxBytes
         /\ \A c, d \in Chosen(I) : Partition[c] = Partition[d] /\ Partition[c] # Isolated
<1>1. /\ pending \in Seq(Calls) /\ DOMAIN pending = 1..Len(pending) /\ Len(pending) \in Nat
      /\ I \in SUBSET (1..Len(pending))
  BY DEF TypeOK
<1>2. IsInjective(pending)
  BY <1>1, AscendingInjective DEF TypeOK, Lines
<1> DEFINE n == Cardinality(I)
           last == Place(I, n)
           T == Taken(I, last)
           z == pending[last]
<1>3. /\ IsFiniteSet(I) /\ n \in Nat
      /\ \A m \in 1..n : Place(I, m) \in I
      /\ \A m, q \in 1..n : m < q => Place(I, m) < Place(I, q)
      /\ \A i \in I : \E m \in 1..n : Place(I, m) = i
  BY <1>1, Places, Zenon
<1>4. n > 1
  BY ZenonT(30), <1>1, Kept DEF TypeOK
<1>5. last \in I /\ \A i \in I : i # last => i < last
  <2>1. n \in 1..n
    BY <1>3, <1>4
  <2>2. ASSUME NEW i \in I, i # last PROVE i < last
    <3>1. PICK m \in 1..n : Place(I, m) = i
      BY <1>3
    <3>2. m < n
      BY <1>3, <2>2, <3>1
    <3> HIDE DEF n
    <3> QED BY <1>3, <2>1, <3>1, <3>2
  <2> QED BY <1>3, <2>1, <2>2
<1> HIDE DEF n, last
<1>6. T = {pending[i] : i \in I \ {last}}
  <2>1. {j \in I : j < last} = I \ {last}
    BY <1>1, <1>5
  <2> QED BY <2>1 DEF Taken
<1>7. Chosen(I) = T \cup {z} /\ z \notin T
  <2>1. Chosen(I) = T \cup {z}
    BY <1>5, <1>6 DEF Chosen
  <2>2. z \notin T
    BY <1>1, <1>2, <1>5, <1>6 DEF IsInjective
  <2> QED BY <2>1, <2>2
<1>8. T # {}
  <2>1. I \ {last} # {}
    <3>1. CASE I = {last}
      <4>1. n = 1
        BY Zenon, <3>1, FS_Singleton DEF n
      <4> QED BY <1>4, <4>1
    <3> QED BY <1>5, <3>1
  <2> QED BY Zenon, <1>6, <2>1
<1>9. Fits(I, last) /\ Compatible(I, last)
  BY <1>1, <1>5 DEF SelectReady
<1>10. /\ Operations[z] <= MaxOperations - Sum(Operations, T)
       /\ Size[z] <= MaxBytes - Sum(Size, T)
  BY <1>8, <1>9 DEF Fits
<1>11. Chosen(I) \subseteq Calls /\ IsFiniteSet(Chosen(I))
  <2>1. Chosen(I) \subseteq Calls
    BY <1>1 DEF Chosen
  <2>2. Chosen(I) = {pending[i] : i \in I}
    BY DEF Chosen
  <2> DEFINE f == [i \in I |-> pending[i]]
  <2>3. f \in Surjection(I, Chosen(I))
    BY <2>2 DEF Surjection
  <2> QED BY <1>3, <2>1, <2>3, FS_Surjection
<1>12. \A c \in Chosen(I) : Operations[c] \in Nat /\ Size[c] \in Nat
  BY <1>11, BatcherAssumption DEF BatcherAssumption
<1> HIDE DEF T, z
<1>13. z \in Chosen(I) /\ T = Chosen(I) \ {z} /\ T \in SUBSET Chosen(I)
  BY <1>7
<1>14. SumFunctionOnSet(Operations, Chosen(I)) = Operations[z] + SumFunctionOnSet(Operations, T)
  BY <1>11, <1>12, <1>13, SumRemove
<1>15. SumFunctionOnSet(Size, Chosen(I)) = Size[z] + SumFunctionOnSet(Size, T)
  BY <1>11, <1>12, <1>13, SumRemove
<1>16. IsFiniteSet(T) /\ \A c \in T : Operations[c] \in Nat /\ Size[c] \in Nat
  BY <1>11, <1>12, <1>13, FS_Subset
<1>17. SumFunctionOnSet(Operations, T) \in Nat
  BY <1>16, SumNat
<1>18. SumFunctionOnSet(Size, T) \in Nat
  BY <1>16, SumNat
<1>19. MaxOperations \in Nat /\ MaxBytes \in Nat /\ Operations[z] \in Nat /\ Size[z] \in Nat
  BY <1>12, <1>13, BatcherAssumption DEF BatcherAssumption
<1>20. Sum(Operations, Chosen(I)) <= MaxOperations /\ Sum(Size, Chosen(I)) <= MaxBytes
  BY <1>10, <1>14, <1>15, <1>17, <1>18, <1>19 DEF Sum
<1>21. \A d \in T : Partition[d] = Partition[z] /\ Partition[d] # Isolated
  BY <1>9 DEF Compatible, T, z
<1> QED BY <1>7, <1>8, <1>20, <1>21

-----------------------------------------------------------------------------
\* The initial state: nobody has called.
LEMMA InitInv == Init => BatcherInv
<1> SUFFICES ASSUME Init PROVE BatcherInv
  OBVIOUS
<1>1. {c \in Calls : stage[c] # "new"} = {} /\ InQueue = {} /\ InBatch = {}
  BY DEF Init, InQueue, InBatch
<1>2. IsFiniteSet({}) /\ Cardinality({}) = 0
  BY FS_EmptySet
<1>3. TypeOK
  <2>1. <<>> \in Seq(Calls) /\ <<>> \in Seq(SUBSET Keys) /\ {} \subseteq Seq(Calls)
    OBVIOUS
  <2>2. /\ stage \in [Calls -> Stages] /\ active \in [Keys -> Nat] /\ settled \in [Keys -> Nat]
        /\ todo \in [Calls -> SUBSET Keys] /\ pendingRecords \in [Calls -> SUBSET Keys]
        /\ \A c \in Calls : todo[c] \subseteq pendingRecords[c]
    BY DEF Init, Stages
  <2> QED BY Zenon, <2>1, <2>2 DEF Init, TypeOK
<1>4. Finite
  BY <1>1, <1>2 DEF Finite
<1>5. Range(<<>>) = {} /\ IsInjective(<<>>)
  BY DEF Range, IsInjective
<1>6. Lines
  BY <1>5 DEF Init, Lines, Ascending
<1>7. Batched
  BY <1>1 DEF Init, Batched
<1>8. Occupied
  <2>1. \A k \in Keys : Holders(k) = {} /\ Times(recordsDone, k) = {}
    BY DEF Init, Holders, Times
  <2>2. \A k \in Keys : Occupants(k) = 0
    BY <1>2, <2>1 DEF Occupants
  <2>3. \A k \in Keys : active[k] = 0
    BY DEF Init
  <2> QED BY <2>2, <2>3 DEF Occupied
<1>9. Counted
  BY <1>2 DEF Init, Counted
<1>10. QueueAccounting
  <2>1. SumFunctionOnSet(Operations, {}) = 0
    BY Zenon, <1>2, SumEquation
  <2>2. SumFunctionOnSet(Size, {}) = 0
    BY <1>2, SumEquation
  <2> QED BY <1>1, <1>2, <2>1, <2>2, BatcherAssumption DEF Init, QueueAccounting, Sum, BatcherAssumption
<1>11. MemoryHeld /\ RecordExclusive
  BY <1>1 DEF Init, MemoryHeld, RecordExclusive
<1>12. BatchLimits
  BY <1>2, BatcherAssumption DEF Init, BatchLimits, BatcherAssumption
<1> QED BY <1>3, <1>4, <1>6, <1>7, <1>8, <1>9, <1>10, <1>11, <1>12 DEF BatcherInv

\* Steps that leave the calls, their order and their records alone.
LEMMA QuietInv ==
  ASSUME BatcherInv, TypeOK', Counted', stopped => stopped',
         UNCHANGED <<stage, arrivals, pending, input, batches, failing, todo, pendingRecords,
                     active, recordsDone, queueVars, retained>>
  PROVE  BatcherInv'
<1>0. /\ TypeOK /\ Finite /\ Lines /\ Batched /\ Occupied /\ Counted
      /\ RecordExclusive /\ QueueAccounting /\ MemoryHeld /\ BatchLimits
  BY DEF BatcherInv
<1> USE <1>0
<1>1. InQueue' = InQueue /\ InBatch' = InBatch
  BY DEF InQueue, InBatch
<1>2. Finite'
  BY FiniteFrame
<1>3. Lines'
  BY LinesFrame DEF TypeOK
<1>4. Batched'
  BY ArrivalsKept, BatchedFrame
<1>5. Occupied'
  BY OccupiedFrame
<1>6. QueueAccounting' /\ MemoryHeld'
  BY <1>1, AccountsFrame
<1>7. RecordExclusive' /\ BatchLimits'
  BY BatchesFrame
<1> QED BY <1>2, <1>3, <1>4, <1>5, <1>6, <1>7 DEF BatcherInv

\* A caller's cancelled context (requestBatchCall.ctx) keeps the invariant.
LEMMA CancelInv == ASSUME BatcherInv, NEW c \in Calls, Cancel(c) PROVE BatcherInv'
<1>1. TypeOK'
  BY DEF BatcherInv, TypeOK, Cancel, queueVars, runVars, execVars
<1>2. Counted'
  BY DEF BatcherInv, Counted, Cancel, runVars, execVars, InQueue
<1> QED BY <1>1, <1>2, QuietInv DEF Cancel, queueVars, runVars, execVars

\* stop() keeps the invariant.
LEMMA StopInv == ASSUME BatcherInv, Stop PROVE BatcherInv'
<1>1. TypeOK'
  BY DEF BatcherInv, TypeOK, Stop, queueVars, runVars, execVars, chanVars
<1>2. Counted'
  BY DEF BatcherInv, Counted, Stop, runVars, execVars, chanVars, InQueue
<1> QED BY <1>1, <1>2, QuietInv DEF Stop, queueVars, runVars, execVars, chanVars

\* run() blocking in its select keeps the invariant.
LEMMA RunBlockInv == ASSUME BatcherInv, RunBlock PROVE BatcherInv'
<1>1. TypeOK'
  BY DEF BatcherInv, TypeOK, RunBlock, submitVars, queueVars, execVars, chanVars
<1>2. Counted'
  BY DEF BatcherInv, Counted, RunBlock, submitVars, execVars, chanVars, InQueue
<1> QED BY <1>1, <1>2, QuietInv DEF RunBlock, submitVars, queueVars, execVars, chanVars

\* Receiving a signal of the memory pool keeps the invariant.
LEMMA RecvSignalInv == ASSUME BatcherInv, RecvSignal PROVE BatcherInv'
<1>1. TypeOK'
  BY Zenon DEF BatcherInv, TypeOK, RecvSignal, submitVars, queueVars, execVars
<1>2. Counted'
  BY DEF BatcherInv, Counted, RecvSignal, submitVars, execVars, InQueue
<1> QED BY <1>1, <1>2, QuietInv DEF RecvSignal, submitVars, queueVars, execVars

\* drainStopped finding the input channel empty keeps the invariant.
LEMMA DrainEndInv == ASSUME BatcherInv, DrainEnd PROVE BatcherInv'
<1>1. TypeOK'
  BY DEF BatcherInv, TypeOK, DrainEnd, submitVars, queueVars, execVars, chanVars
<1>2. InQueue = {}
  <2>1. Cardinality(InQueue) = 0 /\ IsFiniteSet(InQueue)
    BY FiniteParts DEF BatcherInv, DrainEnd, QueueAccounting
  <2> QED BY <2>1, FS_EmptySet
<1>3. Counted'
  BY <1>2 DEF BatcherInv, Counted, DrainEnd, submitVars, execVars, chanVars, InQueue
<1> QED BY <1>1, <1>3, QuietInv DEF DrainEnd, submitVars, queueVars, execVars, chanVars

\* run() returning after the last completion keeps the invariant.
LEMMA RunExitInv == ASSUME BatcherInv, RunExit PROVE BatcherInv'
<1>1. TypeOK'
  BY DEF BatcherInv, TypeOK, RunExit, submitVars, queueVars, execVars, chanVars
<1>2. Counted'
  BY DEF BatcherInv, Counted, RunExit, submitVars, execVars, chanVars, InQueue
<1> QED BY <1>1, <1>2, QuietInv DEF RunExit, submitVars, queueVars, execVars, chanVars

\* run() takes one completion.
LEMMA RecvCompletedInv == ASSUME BatcherInv, RecvCompleted \/ AwaitOne PROVE BatcherInv'
<1>1. /\ completed > 0 /\ completed' = completed - 1 /\ running' = running - 1
      /\ UNCHANGED <<stage, arrivals, pending, input, batches, failing, todo, pendingRecords,
                     active, recordsDone, queueVars, retained, cancelled, stopped, wake, settled>>
      /\ (pc = "blocked" /\ pc' = "top") \/ (pc = "awaiting" /\ pc' = pc)
  BY DEF RecvCompleted, AwaitOne, submitVars, execVars
<1>2. Cardinality(batches) \in Nat
  BY FS_CardinalityType DEF BatcherInv, Counted
<1>3. running' = Cardinality(batches') + completed' /\ running' \in Nat /\ completed' \in Nat
  BY <1>1, <1>2 DEF BatcherInv, Counted, TypeOK
<1>4. TypeOK'
  BY <1>1, <1>3 DEF BatcherInv, TypeOK, queueVars
<1>5. Counted'
  BY <1>1, <1>3 DEF BatcherInv, Counted, InQueue
<1> QED BY <1>1, <1>4, <1>5, QuietInv

-----------------------------------------------------------------------------
\* Submit, before the call is in the input channel.
LEMMA OutsideInv ==
  ASSUME BatcherInv, TypeOK', QueueAccounting', MemoryHeld',
         NEW c \in Calls, NEW x \in {"reserved", "done"},
         stage[c] \in {"new", "reserved"}, stage' = [stage EXCEPT ![c] = x],
         stopped => InQueue' \subseteq InQueue,
         UNCHANGED <<submitVars, runVars, execVars, chanVars>>
  PROVE  BatcherInv'
<1>0. /\ TypeOK /\ Finite /\ Lines /\ Batched /\ Occupied /\ Counted
      /\ RecordExclusive /\ QueueAccounting /\ MemoryHeld /\ BatchLimits
  BY DEF BatcherInv
<1> USE <1>0
<1>1. stage'[c] = x /\ \A d \in Calls : d # c => stage'[d] = stage[d]
  BY DEF TypeOK
<1>2. Finite'
  BY <1>1, FiniteMore
<1>3. UNCHANGED <<arrivals, pending, input, batches, failing, pendingRecords, todo, active,
                  recordsDone, stopped, pc, running, completed>>
  BY DEF submitVars, runVars, execVars, chanVars
<1>4. Lines'
  <2>1. \A d \in Calls : stage'[d] # stage[d] =>
           /\ stage[d] \notin Waiting /\ stage'[d] \notin Waiting
           /\ stage'[d] \in {"new", "reserved"} => stage[d] \in {"new", "reserved"}
           /\ stage'[d] \in Running => stage[d] \in Running
    BY <1>1 DEF Waiting, Running
  <2> QED BY Zenon, <1>3, <2>1, LinesFrame DEF TypeOK
<1>5. \A d \in Calls : stage'[d] # stage[d] => stage[d] \notin Running /\ stage'[d] \notin Running
  BY <1>1 DEF Running
<1>6. Batched'
  BY <1>3, <1>5, ArrivalsKept, BatchedFrame
<1>7. Occupied'
  BY <1>3, OccupiedFrame
<1>8. Counted'
  BY <1>3 DEF Counted
<1>9. RecordExclusive' /\ BatchLimits'
  BY <1>3, BatchesFrame
<1> QED BY <1>2, <1>4, <1>6, <1>7, <1>8, <1>9 DEF BatcherInv

\* A submission refused by reserve keeps the invariant.
LEMMA RejectInv == ASSUME BatcherInv, NEW c \in Calls, Reject(c) PROVE BatcherInv'
<1>1. TypeOK'
  BY DEF BatcherInv, TypeOK, Reject, Stages, submitVars, queueVars, runVars, execVars, chanVars
<1>2. InQueue' = InQueue /\ InBatch' = InBatch
  BY DEF BatcherInv, TypeOK, Reject, InQueue, InBatch
<1>3. QueueAccounting' /\ MemoryHeld'
  BY <1>2, AccountsFrame DEF BatcherInv, Reject
<1> QED BY ZenonT(30), <1>1, <1>2, <1>3, OutsideInv DEF Reject

\* A submission reserving its queue room and its memory keeps the invariant.
LEMMA ReserveInv == ASSUME BatcherInv, NEW c \in Calls, Reserve(c) PROVE BatcherInv'
<1>1. /\ QueueAccounting' /\ InQueue' = InQueue \cup {c}
      /\ queuedCalls' \in Nat /\ queuedOperations' \in Nat /\ queuedBytes' \in Nat
  BY Taking DEF BatcherInv
<1>2. TypeOK'
  BY Zenon, <1>1 DEF BatcherInv, TypeOK, Reserve, Stages, submitVars, runVars, execVars, chanVars
<1>3. InBatch' = InBatch
  BY Zenon DEF BatcherInv, TypeOK, Reserve, InBatch
<1>4. MemoryHeld'
  BY <1>1, <1>3 DEF BatcherInv, MemoryHeld, Reserve
<1> QED BY Zenon, <1>1, <1>2, <1>4, OutsideInv DEF Reserve

\* A submission that gives its reservation back keeps the invariant.
LEMMA WithdrawInv == ASSUME BatcherInv, NEW c \in Calls, Withdraw(c) PROVE BatcherInv'
<1>1. InQueue' = InQueue \ {c} /\ {c} \in SUBSET InQueue /\ c \notin InBatch
  BY DEF BatcherInv, TypeOK, Withdraw, InQueue, InBatch
<1>2. /\ QueueAccounting'
      /\ queuedCalls' \in Nat /\ queuedOperations' \in Nat /\ queuedBytes' \in Nat
  BY <1>1, Released DEF BatcherInv, Withdraw
<1>3. TypeOK'
  BY <1>2 DEF BatcherInv, TypeOK, Withdraw, Stages, submitVars, runVars, execVars, chanVars
<1>4. InBatch' = InBatch
  BY DEF BatcherInv, TypeOK, Withdraw, InBatch
<1>5. MemoryHeld'
  BY <1>1, <1>4 DEF BatcherInv, MemoryHeld, Withdraw
<1> QED BY ZenonT(30), <1>1, <1>2, <1>3, <1>5, OutsideInv DEF Withdraw

\* A call enters the input channel behind all that have arrived.
LEMMA ArrivalNew ==
  ASSUME TypeOK, Lines, NEW c \in Calls, c \notin Range(arrivals), arrivals' = Append(arrivals, c)
  PROVE  /\ arrivals' \in Seq(Calls) /\ IsInjective(arrivals')
         /\ Range(arrivals') = Range(arrivals) \cup {c}
         /\ Arrival(c)' = Len(arrivals) + 1 /\ Len(arrivals') = Len(arrivals) + 1
         /\ \A d : d # c => Arrival(d)' = Arrival(d)
         /\ \A d \in Range(arrivals) : Arrival(d)' = Arrival(d) /\ Arrival(d) < Arrival(c)'
<1>1. arrivals \in Seq(Calls) /\ IsInjective(arrivals)
  BY DEF TypeOK, Lines
<1>2. /\ arrivals' \in Seq(Calls) /\ Len(arrivals) \in Nat /\ DOMAIN arrivals = 1..Len(arrivals)
      /\ DOMAIN arrivals' = 1..(Len(arrivals) + 1) /\ Len(arrivals') = Len(arrivals) + 1
      /\ \A i \in 1..Len(arrivals) : arrivals'[i] = arrivals[i]
      /\ arrivals'[Len(arrivals) + 1] = c
      /\ Range(arrivals') = Range(arrivals) \cup {c}
  <2>1. arrivals' = Append(arrivals, c)
    OBVIOUS
  <2> DEFINE more == Append(arrivals, c)
  <2>2. /\ more \in Seq(Calls) /\ Len(arrivals) \in Nat /\ DOMAIN arrivals = 1..Len(arrivals)
        /\ DOMAIN more = 1..(Len(arrivals) + 1) /\ Len(more) = Len(arrivals) + 1
        /\ \A i \in 1..Len(arrivals) : more[i] = arrivals[i]
        /\ more[Len(arrivals) + 1] = c
        /\ Range(more) = Range(arrivals) \cup {c}
    BY Zenon, <1>1, AppendedCall
  <2>3. arrivals' = more
    BY <2>1
  <2> HIDE DEF more
  <2> QED BY Zenon, <2>2, <2>3
<1>3. \A i \in 1..Len(arrivals) : arrivals[i] # c
  BY <1>2 DEF Range
<1>4. IsInjective(arrivals')
  <2>1. ASSUME NEW i \in 1..(Len(arrivals) + 1), NEW j \in 1..(Len(arrivals) + 1),
               arrivals'[i] = arrivals'[j]
        PROVE  i = j
    <3>1. CASE i \in 1..Len(arrivals) /\ j \in 1..Len(arrivals)
      BY <1>1, <1>2, <2>1, <3>1 DEF IsInjective
    <3>2. CASE i = Len(arrivals) + 1 \/ j = Len(arrivals) + 1
      BY <1>2, <1>3, <2>1, <3>2
    <3> QED BY <1>2, <3>1, <3>2
  <2> QED BY <1>2, <2>1 DEF IsInjective
<1>5. \A d : d \in Range(arrivals) => Arrival(d) \in 1..Len(arrivals) /\ arrivals[Arrival(d)] = d
  BY <1>1, Arrivals
<1>6. ASSUME NEW i \in DOMAIN arrivals', NEW d, arrivals'[i] = d PROVE Arrival(d)' = i
  <2>1. d \in Range(arrivals')
    BY <1>6 DEF Range
  <2>2. Arrival(d)' = CHOOSE j \in DOMAIN arrivals' : arrivals'[j] = d
    BY <2>1 DEF Arrival
  <2> DEFINE j == CHOOSE j \in DOMAIN arrivals' : arrivals'[j] = d
  <2>3. j \in DOMAIN arrivals' /\ arrivals'[j] = d
    BY <1>6
  <2> HIDE DEF j
  <2>4. j = i
    BY <1>4, <1>6, <2>3 DEF IsInjective
  <2> QED BY <2>2, <2>4 DEF j
<1>7. Arrival(c)' = Len(arrivals) + 1
  BY <1>2, <1>6
<1>8. ASSUME NEW d, d \in Range(arrivals) PROVE Arrival(d)' = Arrival(d)
  <2>1. Arrival(d) \in 1..Len(arrivals) /\ arrivals[Arrival(d)] = d
    BY <1>5, <1>8
  <2>2. Arrival(d) \in DOMAIN arrivals' /\ arrivals'[Arrival(d)] = d
    BY <1>2, <2>1
  <2> QED BY <1>6, <2>2
<1>9. ASSUME NEW d, d # c, d \notin Range(arrivals) PROVE Arrival(d)' = Arrival(d)
  BY <1>2, <1>9 DEF Arrival
<1>10. \A d \in Range(arrivals) : Arrival(d) < Len(arrivals) + 1
  BY <1>2, <1>5
<1> QED BY <1>2, <1>4, <1>7, <1>8, <1>9, <1>10


\* Sending the call on the input channel keeps the invariant.
LEMMA EnqueueInv == ASSUME BatcherInv, NEW c \in Calls, Enqueue(c) PROVE BatcherInv'
<1>0. /\ TypeOK /\ Finite /\ Lines /\ Batched /\ Occupied /\ Counted
      /\ RecordExclusive /\ QueueAccounting /\ MemoryHeld /\ BatchLimits
  BY DEF BatcherInv
<1> USE <1>0
<1>1. /\ stage[c] = "reserved" /\ stage'[c] = "queued" /\ stage' \in [Calls -> Stages]
      /\ \A d \in Calls : d # c => stage'[d] = stage[d]
      /\ c \notin Range(arrivals) /\ c \notin Range(input) /\ c \notin Range(pending)
  BY DEF TypeOK, Enqueue, Lines, Stages
<1>2. /\ arrivals' \in Seq(Calls) /\ IsInjective(arrivals')
      /\ Range(arrivals') = Range(arrivals) \cup {c}
      /\ \A d : d # c => Arrival(d)' = Arrival(d)
      /\ \A d \in Range(arrivals) : Arrival(d)' = Arrival(d) /\ Arrival(d) < Arrival(c)'
  BY <1>1, ArrivalNew DEF Enqueue
<1>3. /\ input' \in Seq(Calls) /\ Len(input) \in Nat /\ DOMAIN input = 1..Len(input)
      /\ DOMAIN input' = 1..(Len(input) + 1)
      /\ \A i \in 1..Len(input) : input'[i] = input[i]
      /\ input'[Len(input) + 1] = c
      /\ Range(input') = Range(input) \cup {c}
  <2>1. input \in Seq(Calls) /\ input' = Append(input, c)
    BY DEF TypeOK, Enqueue
  <2> QED BY Zenon, <2>1, AppendedCall
<1>4. UNCHANGED <<pending, batches, failing, pendingRecords, todo, active, settled,
                  recordsDone, stopped, pc, running, completed, wake, cancelled>>
  BY DEF Enqueue, runVars, execVars
<1>5. UNCHANGED <<retained, queuedCalls, queuedOperations, queuedBytes>>
  BY DEF Enqueue, queueVars
<1>6. TypeOK'
  BY Zenon, <1>1, <1>2, <1>3, <1>4, <1>5 DEF TypeOK
<1>7. Finite'
  BY <1>1, FiniteMore
<1>8. Range(pending) \subseteq Range(arrivals) /\ Range(input) \subseteq Range(arrivals)
  BY ZenonT(30) DEF Lines, TypeOK
<1>9. Ascending(pending)'
  <2>1. \A i \in DOMAIN pending : pending[i] # c
    BY <1>1 DEF Range
  <2>2. ASSUME NEW i \in DOMAIN pending, NEW j \in DOMAIN pending, i < j
        PROVE  Arrival(pending[i])' < Arrival(pending[j])'
    <3>1. Arrival(pending[i]) < Arrival(pending[j])
      BY Zenon, <2>2 DEF Lines, Ascending
    <3> QED BY <1>2, <1>4, <2>1, <3>1
  <2> QED BY Zenon, <1>4, <2>2 DEF Ascending
<1>10. Ascending(input)'
  <2>1. \A i \in 1..Len(input) : input[i] \in Range(arrivals)
    BY Zenon, <1>3, <1>8 DEF Range
  <2>2. ASSUME NEW i \in DOMAIN input', NEW j \in DOMAIN input', i < j
        PROVE  \A x, y : x = input'[i] /\ y = input'[j] => Arrival(x)' < Arrival(y)'
    <3>1. i \in 1..Len(input)
      BY <1>3, <2>2
    <3>2. CASE j = Len(input) + 1
      BY <1>2, <1>3, <2>1, <3>1, <3>2
    <3>3. CASE j \in 1..Len(input)
      <4>1. Arrival(input[i]) < Arrival(input[j])
        BY Zenon, <1>3, <2>2, <3>1, <3>3 DEF Lines, Ascending
      <4> QED BY <1>2, <1>3, <2>1, <3>1, <3>3, <4>1
    <3> QED BY <1>3, <3>2, <3>3
  <2> QED BY <2>2 DEF Ascending
<1>11. Lines'
  <2>1. Range(pending') = {d \in Calls : stage'[d] = "pending"}
    BY <1>1, <1>4 DEF Lines
  <2>2. Range(input') = {d \in Calls : stage'[d] = "queued"}
    BY ZenonT(30), <1>1, <1>3 DEF Lines
  <2>3. /\ \A d \in Calls : stage'[d] \in {"new", "reserved"} => d \notin Range(arrivals')
        /\ \A d \in Calls : stage'[d] \notin {"new", "reserved", "done"} => d \in Range(arrivals')
    BY <1>1, <1>2 DEF Lines
  <2>4. \A x \in Range(pending'), d \in Range(input') : Arrival(x)' < Arrival(d)'
    <3>1. \A x \in Range(pending), d \in Range(input) : Arrival(x) < Arrival(d)
      BY DEF Lines
    <3> QED BY <1>2, <1>3, <1>4, <1>8, <3>1
  <2> QED BY Zenon, <1>2, <1>9, <1>10, <2>1, <2>2, <2>3, <2>4 DEF Lines
<1>12. Batched'
  <2>1. \A d \in Calls : stage'[d] # stage[d] => stage[d] \notin Running /\ stage'[d] \notin Running
    BY <1>1 DEF Running
  <2> QED BY <1>2, <1>4, <2>1, BatchedFrame
<1>13. Occupied'
  BY <1>4, OccupiedFrame
<1>14. InQueue' = InQueue /\ InBatch' = InBatch
  BY <1>1 DEF InQueue, InBatch
<1>15. Counted'
  BY <1>4, <1>14 DEF Counted
<1>16. QueueAccounting' /\ MemoryHeld'
  BY <1>5, <1>14, AccountsFrame DEF queueVars
<1>17. RecordExclusive' /\ BatchLimits'
  BY <1>4, BatchesFrame
<1> QED BY <1>6, <1>7, <1>11, <1>12, <1>13, <1>15, <1>16, <1>17 DEF BatcherInv

\* run() receives a release of records.
LEMMA RecvRecordsDoneInv == ASSUME BatcherInv, RecvRecordsDone PROVE BatcherInv'
<1>0. /\ TypeOK /\ Finite /\ Lines /\ Batched /\ Occupied /\ Counted
      /\ RecordExclusive /\ QueueAccounting /\ MemoryHeld /\ BatchLimits
  BY DEF BatcherInv
<1> USE <1>0
<1>1. Occupied' /\ active' \in [Keys -> Nat] /\ recordsDone' \in Seq(SUBSET Keys)
  BY Receiving
<1>2. UNCHANGED <<stage, arrivals, pending, input, batches, failing, todo, pendingRecords, settled,
                  retained, cancelled, stopped, wake, running, completed>> /\ pc = "blocked" /\ pc' = "top"
  BY DEF RecvRecordsDone, submitVars, execVars
<1>3. UNCHANGED <<queuedCalls, queuedOperations, queuedBytes>>
  BY DEF RecvRecordsDone, queueVars
<1>4. TypeOK'
  BY <1>1, <1>2, <1>3 DEF TypeOK
<1>5. InQueue' = InQueue /\ InBatch' = InBatch
  BY <1>2 DEF InQueue, InBatch
<1>6. Finite'
  BY <1>2, FiniteFrame
<1>7. Lines'
  BY <1>2, LinesFrame DEF TypeOK
<1>8. Batched'
  BY <1>2, ArrivalsKept, BatchedFrame
<1>9. Counted'
  BY <1>2, <1>5 DEF Counted
<1>10. QueueAccounting' /\ MemoryHeld'
  BY <1>2, <1>3, <1>5, AccountsFrame DEF queueVars
<1>11. RecordExclusive' /\ BatchLimits'
  BY <1>2, BatchesFrame
<1> QED BY <1>1, <1>4, <1>6, <1>7, <1>8, <1>9, <1>10, <1>11 DEF BatcherInv

-----------------------------------------------------------------------------
\* run() moves calls from input to pending, and answers calls of either.
LEMMA LeavingInv ==
  ASSUME BatcherInv, NEW S \in SUBSET (Range(pending) \cup Range(input)), Release(S),
         retained' = retained \ S, stage' \in [Calls -> Stages],
         \A c \in S : stage'[c] = "done",
         \A c \in Calls \ S : stage'[c] = stage[c] \/ (stage[c] = "queued" /\ stage'[c] = "pending"),
         pending' \in Seq(Calls), input' \in Seq(Calls),
         Range(pending') = {c \in Calls : stage'[c] = "pending"},
         Range(input') = {c \in Calls : stage'[c] = "queued"},
         Ascending(pending)', Ascending(input)',
         \A c \in Range(pending'), d \in Range(input') : Arrival(c) < Arrival(d),
         pc' = "draining" => stopped /\ pending' = <<>>,
         pc' \in {"top", "select", "draining"},
         UNCHANGED <<submitVars, active, running, execVars, wake, recordsDone, completed>>
  PROVE  BatcherInv'
<1>0. /\ TypeOK /\ Finite /\ Lines /\ Batched /\ Occupied /\ Counted
      /\ RecordExclusive /\ QueueAccounting /\ MemoryHeld /\ BatchLimits
  BY ZenonT(30) DEF BatcherInv
<1> USE <1>0
<1>1. UNCHANGED <<arrivals, batches, failing, todo, pendingRecords, settled, active, recordsDone,
                  cancelled, stopped, wake, running, completed>>
  BY ZenonT(30) DEF submitVars, execVars
<1>2. S \subseteq InQueue /\ S \subseteq Calls /\ \A c \in S : stage[c] \in Waiting
  BY ZenonT(30) DEF Lines, InQueue, Waiting
<1>3. InQueue' = InQueue \ S /\ InBatch' = InBatch
  BY <1>2 DEF InQueue, InBatch, Waiting
<1>4. /\ QueueAccounting'
      /\ queuedCalls' \in Nat /\ queuedOperations' \in Nat /\ queuedBytes' \in Nat
  BY <1>2, <1>3, Released
<1>5. MemoryHeld'
  <2>1. InQueue \cap InBatch = {}
    BY DEF InQueue, InBatch
  <2> QED BY <1>2, <1>3, <2>1 DEF MemoryHeld
<1>6. TypeOK'
  <2>1. retained' \subseteq Calls /\ pc' \in {"top", "select", "blocked", "draining", "awaiting", "exited"}
    BY DEF TypeOK
  <2> QED BY ZenonT(30), <1>1, <1>4, <2>1 DEF TypeOK
<1>7. Finite'
  <2>1. \A c \in Calls : stage'[c] # "new" => stage[c] # "new"
    BY <1>2 DEF Waiting
  <2> QED BY ZenonT(30), <2>1, FiniteFrame
<1>8. \A c : Arrival(c)' = Arrival(c)
  BY ZenonT(30), <1>1, ArrivalsKept
<1>9. Lines'
  <2>1. /\ \A c \in Calls : stage'[c] \in {"new", "reserved"} => c \notin Range(arrivals')
        /\ \A c \in Calls : stage'[c] \notin {"new", "reserved", "done"} => c \in Range(arrivals')
    BY <1>1, <1>2 DEF Lines, Waiting
  <2>2. \A c \in Range(pending'), d \in Range(input') : Arrival(c)' < Arrival(d)'
    BY ZenonT(30), <1>8
  <2>3. IsInjective(arrivals')
    BY Zenon, <1>1 DEF Lines
  <2> QED BY ZenonT(30), <2>1, <2>2, <2>3 DEF Lines
<1>10. Batched'
  <2>1. \A c \in Calls : stage'[c] # stage[c] => stage[c] \notin Running /\ stage'[c] \notin Running
    BY <1>2 DEF Running, Waiting
  <2> QED BY ZenonT(30), <1>1, <1>8, <2>1, BatchedFrame
<1>11. Occupied'
  BY ZenonT(30), <1>1, OccupiedFrame
<1>12. Counted'
  BY ZenonT(30), <1>1 DEF Counted
<1>13. RecordExclusive' /\ BatchLimits'
  BY Zenon, <1>1, BatchesFrame
<1> QED BY Zenon, <1>4, <1>5, <1>6, <1>7, <1>9, <1>10, <1>11, <1>12, <1>13 DEF BatcherInv

\* What is left of a sequence without its head.
LEMMA TailAscending ==
  ASSUME NEW s \in Seq(Calls), s # <<>>, Ascending(s)
  PROVE  /\ Ascending(Tail(s))
         /\ \A c \in Range(Tail(s)) : Arrival(Head(s)) < Arrival(c)
<1>1. /\ Head(s) = s[1] /\ Len(s) \in Nat \ {0} /\ DOMAIN s = 1..Len(s)
      /\ DOMAIN Tail(s) = 1..(Len(s) - 1)
      /\ \A i \in DOMAIN Tail(s) : Tail(s)[i] = s[i + 1]
  BY Popped
<1>2. ASSUME NEW i \in DOMAIN Tail(s), NEW j \in DOMAIN Tail(s), i < j
      PROVE  Arrival(Tail(s)[i]) < Arrival(Tail(s)[j])
  <2>1. i + 1 \in DOMAIN s /\ j + 1 \in DOMAIN s /\ i + 1 < j + 1
    BY <1>1, <1>2
  <2>2. Arrival(s[i + 1]) < Arrival(s[j + 1])
    BY <2>1 DEF Ascending
  <2> QED BY <1>1, <2>2
<1>3. ASSUME NEW i \in DOMAIN Tail(s) PROVE Arrival(Head(s)) < Arrival(Tail(s)[i])
  <2>1. i + 1 \in DOMAIN s /\ 1 \in DOMAIN s /\ 1 < i + 1
    BY <1>1
  <2>2. Arrival(s[1]) < Arrival(s[i + 1])
    BY <2>1 DEF Ascending
  <2> QED BY <1>1, <2>2
<1> QED BY Zenon, <1>2, <1>3 DEF Ascending, Range

\* drainStopped failing one queued call keeps the invariant.
LEMMA DrainOneInv == ASSUME BatcherInv, DrainOne PROVE BatcherInv'
<1>0. /\ TypeOK /\ Finite /\ Lines /\ Batched /\ Occupied /\ Counted
      /\ RecordExclusive /\ QueueAccounting /\ MemoryHeld /\ BatchLimits
  BY DEF BatcherInv
<1> USE <1>0
<1> DEFINE h == Head(input)
<1>1. /\ h \in Calls /\ input' \in Seq(Calls) /\ Range(input) = {h} \cup Range(input')
      /\ Ascending(Tail(input)) /\ \A c \in Range(Tail(input)) : Arrival(h) < Arrival(c)
  BY Popped, TailAscending DEF DrainOne, TypeOK, Lines
<1>2. arrivals' = arrivals /\ pending' = pending /\ pc' = pc /\ pc = "draining" /\ input' = Tail(input)
  BY DEF DrainOne, submitVars, runVars
<1>3. h \notin Range(input')
  <2>1. Arrival(h) \in Nat
    BY Zenon, Arrivals DEF TypeOK, Lines
  <2> QED BY <1>1, <1>2, <2>1
<1>4. Ascending(input)' /\ Ascending(pending)'
  <2>1. \A c : Arrival(c)' = Arrival(c)
    BY <1>2, ArrivalsKept
  <2> QED BY Zenon, <1>1, <1>2, <2>1 DEF Ascending, Lines
<1>5. /\ stage' = [c \in Calls |-> IF c = h THEN "done" ELSE stage[c]]
      /\ retained' = retained \ {h} /\ Release({h})
  BY DEF DrainOne, CompleteQueued
<1>6. stage' \in [Calls -> Stages] /\ stage[h] = "queued"
  BY <1>1, <1>5 DEF TypeOK, Lines, Stages
<1>7. /\ Range(pending') = {c \in Calls : stage'[c] = "pending"}
      /\ Range(input') = {c \in Calls : stage'[c] = "queued"}
  BY <1>1, <1>2, <1>3, <1>5, <1>6 DEF Lines
<1>8. \A c \in Range(pending'), d \in Range(input') : Arrival(c) < Arrival(d)
  BY <1>1, <1>2 DEF Lines
<1>9. stopped /\ pending' = <<>>
  BY <1>2 DEF Counted
<1>10. UNCHANGED <<submitVars, active, running, execVars, wake, recordsDone, completed>>
  BY DEF DrainOne, runVars
<1>11. pending' \in Seq(Calls) /\ {h} \in SUBSET (Range(pending) \cup Range(input))
  BY <1>1, <1>2 DEF TypeOK
<1> HIDE DEF h
<1> QED BY Zenon, <1>1, <1>2, <1>4, <1>5, <1>6, <1>7, <1>8, <1>9, <1>10, <1>11, LeavingInv

\* run() failing all its pending calls on stop keeps the invariant.
LEMMA RunStopInv == ASSUME BatcherInv, RunStop PROVE BatcherInv'
<1>0. /\ TypeOK /\ Finite /\ Lines /\ Batched /\ Occupied /\ Counted
      /\ RecordExclusive /\ QueueAccounting /\ MemoryHeld /\ BatchLimits
  BY DEF BatcherInv
<1> USE <1>0
<1> DEFINE S == Range(pending)
<1>1. /\ stage' = [c \in Calls |-> IF c \in S THEN "done" ELSE stage[c]]
      /\ retained' = retained \ S /\ Release(S)
      /\ pending' = <<>> /\ pc' = "draining" /\ stopped
  BY DEF RunStop, CompleteQueued
<1>2. UNCHANGED <<submitVars, active, running, execVars, wake, recordsDone, completed, input, arrivals>>
  BY DEF RunStop, chanVars, submitVars
<1>3. Range(pending') = {} /\ pending' \in Seq(Calls)
  BY <1>1 DEF Range
<1>4. Ascending(input)' /\ Ascending(pending)'
  <2>1. \A c : Arrival(c)' = Arrival(c)
    BY <1>2, ArrivalsKept
  <2>2. Ascending(input)
    BY Zenon DEF Lines
  <2>3. Ascending(input)'
    BY Zenon, <1>2, <2>1, <2>2 DEF Ascending
  <2>4. Ascending(pending)'
    BY <1>1 DEF Ascending
  <2> QED BY <2>3, <2>4
<1>5. stage' \in [Calls -> Stages] /\ S = {c \in Calls : stage[c] = "pending"} /\ input' \in Seq(Calls)
  BY <1>1, <1>2 DEF TypeOK, Lines, Stages
<1>6. /\ Range(pending') = {c \in Calls : stage'[c] = "pending"}
      /\ Range(input') = {c \in Calls : stage'[c] = "queued"}
  BY <1>1, <1>2, <1>3, <1>5 DEF Lines
<1>7. S \in SUBSET (Range(pending) \cup Range(input))
  OBVIOUS
<1> HIDE DEF S
<1> QED BY <1>1, <1>2, <1>3, <1>4, <1>5, <1>6, <1>7, LeavingInv

\* Sequences put together in the order of arrival.
LEMMA AppendAscending ==
  ASSUME NEW s \in Seq(Calls), NEW x \in Calls, Ascending(s), \A c \in Range(s) : Arrival(c) < Arrival(x)
  PROVE  Ascending(Append(s, x))
<1>1. /\ Len(s) \in Nat /\ DOMAIN s = 1..Len(s)
      /\ DOMAIN Append(s, x) = 1..(Len(s) + 1)
      /\ \A i \in 1..Len(s) : Append(s, x)[i] = s[i]
      /\ Append(s, x)[Len(s) + 1] = x
  BY Appended
<1>2. ASSUME NEW i \in DOMAIN Append(s, x), NEW j \in DOMAIN Append(s, x), i < j
      PROVE  Arrival(Append(s, x)[i]) < Arrival(Append(s, x)[j])
  <2>1. i \in 1..Len(s) /\ (j \in 1..Len(s) \/ j = Len(s) + 1)
    BY <1>1, <1>2
  <2>2. CASE j \in 1..Len(s)
    BY <1>1, <1>2, <2>1, <2>2 DEF Ascending
  <2>3. CASE j = Len(s) + 1
    <3>1. s[i] \in Range(s)
      BY <1>1, <2>1 DEF Range
    <3> QED BY <1>1, <2>1, <2>3, <3>1
  <2> QED BY ZenonT(30), <2>1, <2>2, <2>3
<1> QED BY <1>2 DEF Ascending

\* Two queues in order of arrival, the second of later arrivals, join into one in that order.
LEMMA JoinedAscending ==
  ASSUME NEW s \in Seq(Calls), NEW t \in Seq(Calls), Ascending(s), Ascending(t),
         \A c \in Range(s), d \in Range(t) : Arrival(c) < Arrival(d)
  PROVE  Ascending(s \o t)
<1>1. /\ DOMAIN (s \o t) = 1..(Len(s) + Len(t))
      /\ Len(s) \in Nat /\ Len(t) \in Nat /\ DOMAIN s = 1..Len(s) /\ DOMAIN t = 1..Len(t)
      /\ \A i \in 1..Len(s) : (s \o t)[i] = s[i]
      /\ \A i \in 1..(Len(s) + Len(t)) : i > Len(s) =>
           i - Len(s) \in DOMAIN t /\ (s \o t)[i] = t[i - Len(s)]
  BY Joined
<1>2. ASSUME NEW i \in DOMAIN (s \o t), NEW j \in DOMAIN (s \o t), i < j
      PROVE  Arrival((s \o t)[i]) < Arrival((s \o t)[j])
  <2>0. i \in Nat /\ j \in Nat /\ i \in 1..(Len(s) + Len(t)) /\ j \in 1..(Len(s) + Len(t))
    BY <1>1
  <2>1. CASE j <= Len(s)
    <3>1. i \in DOMAIN s /\ j \in DOMAIN s
      BY <1>1, <1>2, <2>0, <2>1
    <3> QED BY <1>1, <1>2, <3>1 DEF Ascending
  <2>2. CASE i <= Len(s) /\ j > Len(s)
    <3>1. i \in 1..Len(s) /\ j - Len(s) \in DOMAIN t /\ (s \o t)[j] = t[j - Len(s)]
      BY <1>1, <2>0, <2>2
    <3>2. s[i] \in Range(s) /\ t[j - Len(s)] \in Range(t)
      BY <1>1, <3>1 DEF Range
    <3> QED BY <1>1, <3>1, <3>2
  <2>3. CASE i > Len(s)
    <3>1. /\ i - Len(s) \in DOMAIN t /\ (s \o t)[i] = t[i - Len(s)]
          /\ j - Len(s) \in DOMAIN t /\ (s \o t)[j] = t[j - Len(s)]
          /\ i - Len(s) < j - Len(s)
      BY <1>1, <1>2, <2>0, <2>3
    <3> QED BY <3>1 DEF Ascending
  <2> QED BY <1>1, <1>2, <2>0, <2>1, <2>2, <2>3
<1> QED BY <1>2 DEF Ascending

\* run() moving a call from the input channel to pending keeps the invariant.
LEMMA RecvInputInv == ASSUME BatcherInv, RecvInput PROVE BatcherInv'
<1>0. /\ TypeOK /\ Finite /\ Lines /\ Batched /\ Occupied /\ Counted
      /\ RecordExclusive /\ QueueAccounting /\ MemoryHeld /\ BatchLimits
  BY DEF BatcherInv
<1> USE <1>0
<1> DEFINE h == Head(input)
<1>1. /\ h \in Calls /\ input' \in Seq(Calls) /\ Range(input) = {h} \cup Range(input')
      /\ Ascending(Tail(input)) /\ \A c \in Range(Tail(input)) : Arrival(h) < Arrival(c)
  BY ZenonT(30), Popped, TailAscending DEF RecvInput, TypeOK, Lines
<1>2. /\ UNCHANGED <<arrivals, submitVars, active, running, execVars, wake, recordsDone, completed>>
      /\ UNCHANGED <<queuedCalls, queuedOperations, queuedBytes, retained>>
      /\ pc' = "top" /\ input' = Tail(input) /\ pending' = Append(pending, h)
      /\ stage' = [stage EXCEPT ![h] = "pending"]
  BY DEF RecvInput, submitVars, queueVars
<1>3. h \notin Range(input')
  <2>1. Arrival(h) \in Nat
    BY Zenon, Arrivals DEF TypeOK, Lines
  <2> QED BY <1>1, <1>2, <2>1
<1>4. Append(pending, h) \in Seq(Calls) /\ Range(Append(pending, h)) = Range(pending) \cup {h}
  <2>1. ASSUME NEW s \in Seq(Calls), NEW c \in Calls
        PROVE  Append(s, c) \in Seq(Calls) /\ Range(Append(s, c)) = Range(s) \cup {c}
    BY <2>1, Appended
  <2>2. pending \in Seq(Calls) /\ h \in Calls
    BY <1>1 DEF TypeOK
  <2> HIDE DEF h
  <2> QED BY Zenon, <2>1, <2>2
<1>5. Ascending(Append(pending, h))
  <2>1. \A c \in Range(pending) : Arrival(c) < Arrival(h)
    BY <1>1 DEF Lines
  <2> QED BY <1>1, <2>1, AppendAscending DEF TypeOK, Lines
<1>6. Ascending(input)' /\ Ascending(pending)'
  <2>1. \A c : Arrival(c)' = Arrival(c)
    BY <1>2, ArrivalsKept
  <2> QED BY Zenon, <1>1, <1>2, <1>5, <2>1 DEF Ascending
<1>7. stage' \in [Calls -> Stages] /\ stage[h] = "queued"
  BY <1>1, <1>2 DEF TypeOK, Lines, Stages
<1>8. /\ Range(pending') = {c \in Calls : stage'[c] = "pending"}
      /\ Range(input') = {c \in Calls : stage'[c] = "queued"}
  <2>1. stage'[h] = "pending" /\ \A c \in Calls : c # h => stage'[c] = stage[c]
    BY <1>1, <1>2 DEF TypeOK
  <2> QED BY <1>1, <1>2, <1>3, <1>4, <1>7, <2>1 DEF Lines
<1>9. \A c \in Range(pending'), d \in Range(input') : Arrival(c) < Arrival(d)
  BY Zenon, <1>1, <1>2, <1>4 DEF Lines
<1>10. Release({}) /\ retained' = retained \ {}
  <2>1. Cardinality({}) = 0 /\ IsFiniteSet({})
    BY FS_EmptySet
  <2>2. Sum(Operations, {}) = 0 /\ Sum(Size, {}) = 0
    BY Zenon, <2>1, SumEquation DEF Sum
  <2>3. queuedCalls \in Nat /\ queuedOperations \in Nat /\ queuedBytes \in Nat
    BY DEF TypeOK
  <2> QED BY <1>2, <2>1, <2>2, <2>3 DEF Release
<1>11. /\ {} \in SUBSET (Range(pending) \cup Range(input)) /\ \A c \in {} : stage'[c] = "done"
       /\ \A c \in Calls \ {} : stage'[c] = stage[c] \/ (stage[c] = "queued" /\ stage'[c] = "pending")
  BY <1>1, <1>2, <1>7 DEF TypeOK
<1>12. pending' \in Seq(Calls) /\ pc' # "draining" /\ pc' \in {"top", "select", "draining"}
  BY <1>2, <1>4
<1> HIDE DEF h
<1> QED BY Zenon, <1>1, <1>2, <1>6, <1>7, <1>8, <1>9, <1>10, <1>11, <1>12, LeavingInv

=============================================================================
