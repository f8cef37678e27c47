------------------------ MODULE RequestBatcherProofs ------------------------
(***************************************************************************)
(* Proofs about RequestBatcher (internal/service/batcher.go) for every set *)
(* of calls and records and every limit: collecting, launching and         *)
(* executing batches keeps the invariant BatcherInv of                     *)
(* RequestBatcherInvariant; from it follow AccountsExact and               *)
(* DrainComplete, and that the batcher implements RecordQueue and so keeps *)
(* the order of arrival on each record.                                    *)
(***************************************************************************)
EXTENDS RequestBatcherInvariant

-----------------------------------------------------------------------------
\* The top of the loop of run(), dropping cancelled pending calls, keeps the invariant.
LEMMA RunTopInv == ASSUME BatcherInv, RunTop PROVE BatcherInv'
<1>0. /\ TypeOK /\ Finite /\ Lines /\ Batched /\ Occupied /\ Counted
      /\ RecordExclusive /\ QueueAccounting /\ MemoryHeld /\ BatchLimits
  BY DEF BatcherInv
<1> USE <1>0
<1> DEFINE all == pending \o input
           dead == Range(all) \cap cancelled
           J == {i \in DOMAIN all : all[i] \notin cancelled}
<1>1. /\ pending' = Keep(all, J) /\ Release(dead) /\ retained' = retained \ dead
      /\ stage' = [c \in Calls |-> CASE c \in dead -> "done"
                                     [] c \in Range(input) \ dead -> "pending"
                                     [] OTHER -> stage[c]]
      /\ input' = <<>> /\ pc' = "select"
      /\ UNCHANGED <<submitVars, active, running, execVars, wake, recordsDone, completed>>
  BY DEF RunTop
<1>2. all \in Seq(Calls) /\ Range(all) = Range(pending) \cup Range(input) /\ Ascending(all)
  <2>1. pending \in Seq(Calls) /\ input \in Seq(Calls)
    BY Zenon DEF TypeOK
  <2>2. all \in Seq(Calls) /\ Range(all) = Range(pending) \cup Range(input)
    BY ZenonT(30), <2>1, Joined
  <2>3. /\ Ascending(pending) /\ Ascending(input)
        /\ \A c \in Range(pending), d \in Range(input) : Arrival(c) < Arrival(d)
    BY Zenon DEF Lines
  <2> QED BY Zenon, <2>1, <2>2, <2>3, JoinedAscending
<1>3. J \in SUBSET DOMAIN all /\ {all[i] : i \in J} = Range(all) \ cancelled
  BY DEF Range
<1> HIDE DEF all, J
<1>4. Keep(all, J) \in Seq(Calls) /\ Range(Keep(all, J)) = Range(all) \ cancelled
  <2>0. all \in Seq(Calls) /\ J \in SUBSET DOMAIN all
    BY <1>2, <1>3
  <2>1. Keep(all, J) \in Seq(Calls) /\ Range(Keep(all, J)) = {all[i] : i \in J}
    BY Zenon, <2>0, Kept
  <2> QED BY Zenon, <1>3, <2>1
<1>5. Ascending(Keep(all, J))
  BY <1>2, <1>3, KeptAscending
<1>6. arrivals' = arrivals /\ Range(input') = {} /\ input' \in Seq(Calls)
  BY <1>1 DEF submitVars, Range
<1>7. Ascending(input)' /\ Ascending(pending)'
  <2>1. \A c : Arrival(c)' = Arrival(c)
    BY <1>6, ArrivalsKept
  <2> QED BY <1>1, <1>5, <2>1 DEF Ascending
<1>8. /\ \A c \in dead : stage'[c] = "done"
      /\ \A c \in Range(input) \ dead : stage'[c] = "pending" /\ stage[c] = "queued"
      /\ \A c \in Calls : c \notin dead /\ c \notin Range(input) => stage'[c] = stage[c]
      /\ dead \subseteq Calls
  BY <1>1, <1>2 DEF Lines
<1>9. stage' \in [Calls -> Stages]
  <2>1. DOMAIN stage' = Calls /\ stage' = [c \in Calls |-> stage'[c]]
    BY <1>1
  <2>2. \A c \in Calls : stage'[c] \in Stages
    BY <1>8 DEF TypeOK, Stages
  <2> QED BY <2>1, <2>2
<1>10. Range(pending') = {c \in Calls : stage'[c] = "pending"}
  <2>1. \A c \in Calls : c \in Range(all) \ cancelled <=> stage'[c] = "pending"
    BY Zenon, <1>2, <1>8 DEF Lines
  <2>2. Range(all) \subseteq Calls
    BY <1>2 DEF Lines
  <2> QED BY <1>1, <1>4, <2>1, <2>2
<1>11. Range(input') = {c \in Calls : stage'[c] = "queued"}
  BY Zenon, <1>6, <1>8 DEF Lines
<1>12. dead \in SUBSET (Range(pending) \cup Range(input))
  BY <1>2
<1>13. \A c \in Calls \ dead : stage'[c] = stage[c] \/ (stage[c] = "queued" /\ stage'[c] = "pending")
  BY Zenon, <1>8
<1>14. /\ pending' \in Seq(Calls) /\ pc' # "draining" /\ pc' \in {"top", "select", "draining"}
       /\ \A c \in Range(pending'), d \in Range(input') : Arrival(c) < Arrival(d)
  BY <1>1, <1>4, <1>6
<1> HIDE DEF dead
<1> QED BY <1>1, <1>6, <1>7, <1>8, <1>9, <1>10, <1>11, <1>12, <1>13, <1>14, LeavingInv

-----------------------------------------------------------------------------
\* run() launches the calls that selectReady chose.
LEMMA Launched ==
  ASSUME BatcherInv, NEW I \in (SUBSET DOMAIN pending) \ {{}}, SelectReady(I),
         stage' = [c \in Calls |-> IF c \in Chosen(I) THEN "launched" ELSE stage[c]]
  PROVE  /\ \A c \in Chosen(I) : stage[c] = "pending" /\ stage'[c] = "launched" /\ pendingRecords[c] = {}
         /\ \A c \in Calls : c \notin Chosen(I) => stage'[c] = stage[c]
         /\ stage' \in [Calls -> Stages]
         /\ InQueue' = InQueue \ Chosen(I) /\ InBatch' = InBatch \cup Chosen(I)
         /\ Chosen(I) \subseteq InQueue /\ Chosen(I) \cap InBatch = {}
         /\ Keep(pending, I) \notin batches
<1>0. /\ TypeOK /\ Finite /\ Lines /\ Batched /\ Occupied /\ Counted
      /\ RecordExclusive /\ QueueAccounting /\ MemoryHeld /\ BatchLimits
  BY DEF BatcherInv
<1> USE <1>0
<1>1. /\ Chosen(I) # {} /\ Chosen(I) \subseteq Range(pending) /\ Chosen(I) \subseteq Calls
      /\ Range(Keep(pending, I)) = Chosen(I)
  BY Zenon, Selection
<1>2. \A c \in Chosen(I) : stage[c] = "pending" /\ stage'[c] = "launched"
  BY <1>1 DEF Lines
<1>3. \A c \in Chosen(I) : pendingRecords[c] = {}
  BY <1>1, <1>2 DEF Batched
<1>4. \A c \in Calls : c \notin Chosen(I) => stage'[c] = stage[c]
  OBVIOUS
<1>5. stage' \in [Calls -> Stages]
  BY DEF TypeOK, Stages
<1>6. /\ InQueue' = InQueue \ Chosen(I) /\ InBatch' = InBatch \cup Chosen(I)
      /\ Chosen(I) \subseteq InQueue /\ Chosen(I) \cap InBatch = {}
  BY <1>1, <1>2, <1>4 DEF InQueue, InBatch
<1>7. Keep(pending, I) \notin batches
  <2>1. \A b \in batches : Range(b) \subseteq InBatch
    BY DEF Batched
  <2> QED BY <1>1, <1>6, <2>1
<1> QED BY Zenon, <1>2, <1>3, <1>4, <1>5, <1>6, <1>7

\* The occupancy counts take in the records of the launched calls.
LEMMA Occupying ==
  ASSUME TypeOK, Finite, Batched, Occupied, NEW S \in SUBSET InQueue,
         \A c \in S : pendingRecords[c] = {},
         pendingRecords' = [c \in Calls |-> IF c \in S THEN Records[c] ELSE pendingRecords[c]],
         active' = [k \in Keys |-> active[k] + Cardinality({c \in S : k \in Records[c]})],
         UNCHANGED <<recordsDone, stopped>>
  PROVE  Occupied' /\ active' \in [Keys -> Nat]
<1>1. ASSUME NEW k \in Keys
      PROVE  /\ active'[k] \in Nat /\ active'[k] >= Occupants(k)'
             /\ ~stopped' => active'[k] = Occupants(k)'
  <2> DEFINE new == {c \in S : k \in Records[c]}
             holds == Holders(k)
  <2>1. new \in SUBSET InQueue
    OBVIOUS
  <2>2. IsFiniteSet(new) /\ Cardinality(new) \in Nat /\ IsFiniteSet(holds) /\ Cardinality(holds) \in Nat
    BY <2>1, FiniteParts
  <2>3. Holders(k)' = holds \cup new /\ holds \cap new = {}
    BY DEF Holders, InQueue
  <2>4. Times(recordsDone', k) = Times(recordsDone, k)
    OBVIOUS
  <2>5. Cardinality(Times(recordsDone, k)) \in Nat
    BY Zenon, TimesFinite DEF TypeOK
  <2>6. active'[k] = active[k] + Cardinality(new) /\ active[k] \in Nat
    BY Zenon DEF TypeOK
  <2>7. active[k] >= Occupants(k) /\ (~stopped => active[k] = Occupants(k))
    BY Zenon DEF Occupied
  <2> HIDE DEF new, holds
  <2>8. Cardinality(holds \cup new) = Cardinality(holds) + Cardinality(new)
    <3>1. Cardinality(holds \cup new) = Cardinality(holds) + Cardinality(new) - Cardinality(holds \cap new)
      BY <2>2, FS_Union
    <3>2. Cardinality(holds \cap new) = 0
      BY Zenon, <2>3, FS_EmptySet
    <3> QED BY <2>2, <3>1, <3>2
  <2>9. Occupants(k) = Cardinality(holds) + Cardinality(Times(recordsDone, k))
    BY DEF Occupants, holds
  <2>10. Occupants(k)' = Cardinality(holds) + Cardinality(new) + Cardinality(Times(recordsDone, k))
    BY Zenon, <2>3, <2>4, <2>8 DEF Occupants
  <2> DEFINE h == Cardinality(holds)
             n == Cardinality(new)
             m == Cardinality(Times(recordsDone, k))
             a == active[k]
  <2>11. h \in Nat /\ n \in Nat /\ m \in Nat /\ a \in Nat /\ active'[k] = a + n
    BY Zenon, <2>2, <2>5, <2>6
  <2>12. a >= h + m /\ (~stopped' => a = h + m) /\ Occupants(k)' = h + n + m
    BY Zenon, <2>7, <2>9, <2>10
  <2> HIDE DEF h, n, m, a
  <2> QED BY <2>11, <2>12
<1>2. active' \in [Keys -> Nat]
  BY <1>1
<1> QED BY <1>1, <1>2 DEF Occupied

\* Taking the selected calls out of pending keeps both queues in order.
LEMMA LaunchLines ==
  ASSUME BatcherInv, NEW I \in (SUBSET DOMAIN pending) \ {{}}, SelectReady(I),
         stage' = [c \in Calls |-> IF c \in Chosen(I) THEN "launched" ELSE stage[c]],
         pending' = Keep(pending, DOMAIN pending \ I), UNCHANGED <<arrivals, input>>
  PROVE  Lines'
<1>0. /\ TypeOK /\ Finite /\ Lines /\ Batched /\ Occupied /\ Counted
      /\ RecordExclusive /\ QueueAccounting /\ MemoryHeld /\ BatchLimits
  BY DEF BatcherInv
<1> USE <1>0
<1>1. /\ \A c \in Chosen(I) : stage[c] = "pending" /\ stage'[c] = "launched"
      /\ \A c \in Calls : c \notin Chosen(I) => stage'[c] = stage[c]
  BY Zenon, Launched
<1>2. /\ Chosen(I) \subseteq Range(pending) /\ Chosen(I) \subseteq Calls
      /\ Range(pending') = Range(pending) \ Chosen(I)
      /\ Ascending(Keep(pending, DOMAIN pending \ I))
  BY Zenon, Selection
<1>3. \A c : Arrival(c)' = Arrival(c)
  BY ArrivalsKept
<1>4. Ascending(pending)' /\ Ascending(input)'
  <2>1. Ascending(input)
    BY DEF Lines
  <2> QED BY Zenon, <1>2, <1>3, <2>1 DEF Ascending
<1>5. /\ Range(pending') = {c \in Calls : stage'[c] = "pending"}
      /\ Range(input') = {c \in Calls : stage'[c] = "queued"}
  BY <1>1, <1>2 DEF Lines
<1>6. /\ \A c \in Calls : stage'[c] \in {"new", "reserved"} => c \notin Range(arrivals')
      /\ \A c \in Calls : stage'[c] \notin {"new", "reserved", "done"} => c \in Range(arrivals')
  BY <1>1 DEF Lines
<1>7. \A c \in Range(pending'), d \in Range(input') : Arrival(c)' < Arrival(d)'
  BY <1>2, <1>3 DEF Lines
<1>8. IsInjective(arrivals')
  BY DEF Lines
<1> QED BY <1>4, <1>5, <1>6, <1>7, <1>8 DEF Lines

\* The selected calls form a batch disjoint from the others.
LEMMA LaunchBatched ==
  ASSUME BatcherInv, NEW I \in (SUBSET DOMAIN pending) \ {{}}, SelectReady(I),
         stage' = [c \in Calls |-> IF c \in Chosen(I) THEN "launched" ELSE stage[c]],
         pendingRecords' = [c \in Calls |-> IF c \in Chosen(I) THEN Records[c] ELSE pendingRecords[c]],
         todo' = [c \in Calls |-> IF c \in Chosen(I) THEN Records[c] ELSE todo[c]],
         batches' = batches \cup {Keep(pending, I)}, UNCHANGED <<arrivals, failing>>
  PROVE  Batched' /\ RecordExclusive'
<1>0. /\ TypeOK /\ Finite /\ Lines /\ Batched /\ Occupied /\ Counted
      /\ RecordExclusive /\ QueueAccounting /\ MemoryHeld /\ BatchLimits
  BY DEF BatcherInv
<1> USE <1>0
<1> DEFINE S == Chosen(I)
           nb == Keep(pending, I)
<1>1. /\ \A c \in S : stage[c] = "pending" /\ stage'[c] = "launched"
      /\ \A c \in Calls : c \notin S => stage'[c] = stage[c]
      /\ InBatch' = InBatch \cup S /\ S \cap InBatch = {} /\ nb \notin batches
  BY Zenon, Launched
<1>2. /\ S \subseteq Calls /\ nb # <<>> /\ Range(nb) = S /\ Ascending(nb)
      /\ \A c \in S : \A k \in Records[c] : \A d \in Calls : k \notin pendingRecords[d]
  BY Zenon, Selection
<1>3. /\ \A b \in batches : b # <<>> /\ Ascending(b) /\ Range(b) \subseteq InBatch
      /\ \A b \in batches : Range(b) \subseteq Calls /\ Range(b) \cap S = {}
      /\ failing \subseteq batches
  BY Zenon, <1>1 DEF Batched, InBatch, TypeOK
<1> HIDE DEF S, nb
<1>4. /\ stage' = [c \in Calls |-> IF c \in S THEN "launched" ELSE stage[c]]
      /\ pendingRecords' = [c \in Calls |-> IF c \in S THEN Records[c] ELSE pendingRecords[c]]
      /\ todo' = [c \in Calls |-> IF c \in S THEN Records[c] ELSE todo[c]]
      /\ batches' = batches \cup {nb}
  BY Zenon DEF S, nb
<1>5. \A c : Arrival(c)' = Arrival(c)
  BY Zenon, ArrivalsKept
<1>6. \A b \in batches' : b # <<>> /\ Ascending(b)' /\ Range(b) \subseteq InBatch'
  <2>1. \A b : Ascending(b)' <=> Ascending(b)
    BY Zenon, <1>5 DEF Ascending
  <2> QED BY Zenon, <1>1, <1>2, <1>3, <1>4, <2>1
<1>7. \A c \in InBatch' : \E b \in batches' : c \in Range(b)
  BY Zenon, <1>1, <1>2, <1>4 DEF Batched
<1>8. \A b1, b2 \in batches' : b1 # b2 => Range(b1) \cap Range(b2) = {}
  <2>1. \A b1, b2 \in batches : b1 # b2 => Range(b1) \cap Range(b2) = {}
    BY Zenon DEF Batched
  <2> QED BY Zenon, <1>2, <1>3, <1>4, <2>1
<1>9. \A c \in Calls : pendingRecords'[c] # {} => stage'[c] \in {"launched", "executing"}
  BY Zenon, <1>1, <1>4 DEF Batched
<1>10. \A b \in failing' : Begun(b)' # {} /\ \A c \in Begun(b)' : todo'[c] = {}
  <2>1. \A b \in failing : \A c \in Range(b) : stage'[c] = stage[c] /\ todo'[c] = todo[c]
    BY Zenon, <1>1, <1>3, <1>4
  <2>2. \A b \in failing : Begun(b)' = Begun(b)
    BY Zenon, <2>1 DEF Begun
  <2>3. \A b \in failing : Begun(b) \subseteq Range(b)
    BY Zenon DEF Begun
  <2>4. \A b \in failing : Begun(b) # {} /\ \A c \in Begun(b) : todo[c] = {}
    BY Zenon DEF Batched
  <2> QED BY Zenon, <2>1, <2>2, <2>3, <2>4
<1>11. Batched'
  BY Zenon, <1>6, <1>7, <1>8, <1>9, <1>10 DEF Batched
<1>12. RecordExclusive'
  <2>1. ASSUME NEW b \in batches, NEW c \in S, NEW d \in Range(b)
        PROVE  todo'[c] \cap todo'[d] = {}
    <3>1. d \in Calls /\ d \notin S /\ c \in Calls /\ todo[d] \subseteq pendingRecords[d]
      BY Zenon, <1>2, <1>3 DEF TypeOK
    <3>2. todo'[c] = Records[c] /\ todo'[d] = todo[d]
      BY Zenon, <1>4, <3>1
    <3> QED BY Zenon, <1>2, <3>1, <3>2
  <2>2. ASSUME NEW b1 \in batches, NEW b2 \in batches, b1 # b2,
               NEW c \in Range(b1), NEW d \in Range(b2)
        PROVE  todo'[c] \cap todo'[d] = {}
    <3>1. c \in Calls /\ c \notin S /\ d \in Calls /\ d \notin S
      BY Zenon, <1>3
    <3> QED BY Zenon, <1>4, <2>2, <3>1 DEF RecordExclusive
  <2> QED BY ZenonT(30), <1>2, <1>4, <2>1, <2>2 DEF RecordExclusive
<1> QED BY <1>11, <1>12

\* run() launching the batch selectReady chose keeps the invariant.
LEMMA RunLaunchInv == ASSUME BatcherInv, RunLaunch PROVE BatcherInv'
<1>0. /\ TypeOK /\ Finite /\ Lines /\ Batched /\ Occupied /\ Counted
      /\ RecordExclusive /\ QueueAccounting /\ MemoryHeld /\ BatchLimits
  BY DEF BatcherInv
<1> USE <1>0
<1>p. PICK I \in (SUBSET DOMAIN pending) \ {{}} :
       /\ SelectReady(I)
       /\ Release(Chosen(I))
       /\ stage' = [c \in Calls |-> IF c \in Chosen(I) THEN "launched" ELSE stage[c]]
       /\ pendingRecords' = [c \in Calls |-> IF c \in Chosen(I) THEN Records[c] ELSE pendingRecords[c]]
       /\ todo' = [c \in Calls |-> IF c \in Chosen(I) THEN Records[c] ELSE todo[c]]
       /\ active' = [k \in Keys |-> active[k] + Cardinality({c \in Chosen(I) : k \in Records[c]})]
       /\ pending' = Keep(pending, DOMAIN pending \ I)
       /\ batches' = batches \cup {Keep(pending, I)}
  BY Zenon DEF RunLaunch
<1> DEFINE S == Chosen(I)
           nb == Keep(pending, I)
<1>1. /\ UNCHANGED <<arrivals, input, failing, settled, recordsDone, retained, cancelled, stopped,
                     wake, completed>>
      /\ running' = running + 1 /\ pc' = "top" /\ MayRun /\ pc = "select"
  BY Zenon DEF RunLaunch, submitVars, chanVars
<1>2. /\ \A c \in S : pendingRecords[c] = {} /\ stage[c] = "pending"
      /\ \A c \in Calls : c \notin S => stage'[c] = stage[c]
      /\ stage' \in [Calls -> Stages]
      /\ InQueue' = InQueue \ S /\ InBatch' = InBatch \cup S
      /\ S \subseteq InQueue /\ nb \notin batches
  BY Zenon, <1>p, Launched
<1>3. /\ S \subseteq Calls /\ nb \in Seq(Calls) /\ Range(nb) = S
      /\ Keep(pending, DOMAIN pending \ I) \in Seq(Calls)
  BY Zenon, <1>p, Selection
<1>4. Lines'
  BY Zenon, <1>p, <1>1, LaunchLines
<1>5. Batched' /\ RecordExclusive'
  BY Zenon, <1>p, <1>1, LaunchBatched
<1>6. Len(nb) > 1 =>
        /\ Sum(Operations, S) <= MaxOperations /\ Sum(Size, S) <= MaxBytes
        /\ \A c, d \in S : Partition[c] = Partition[d] /\ Partition[c] # Isolated
  BY Zenon, <1>p, SelectionLimits
<1>7. /\ QueueAccounting'
      /\ queuedCalls' \in Nat /\ queuedOperations' \in Nat /\ queuedBytes' \in Nat
  BY Zenon, <1>p, <1>2, Released
<1>8. Occupied' /\ active' \in [Keys -> Nat]
  BY Zenon, <1>p, <1>1, <1>2, Occupying
<1> HIDE DEF S, nb
<1>9. /\ pendingRecords' = [c \in Calls |-> IF c \in S THEN Records[c] ELSE pendingRecords[c]]
      /\ todo' = [c \in Calls |-> IF c \in S THEN Records[c] ELSE todo[c]]
      /\ batches' = batches \cup {nb}
  BY Zenon, <1>p DEF S, nb
<1>10. TypeOK'
  <2>1. pendingRecords' \in [Calls -> SUBSET Keys] /\ todo' \in [Calls -> SUBSET Keys]
    BY Zenon, <1>9, BatcherAssumption DEF TypeOK
  <2>2. \A c \in Calls : todo'[c] \subseteq pendingRecords'[c]
    BY Zenon, <1>9 DEF TypeOK
  <2>3. batches' \subseteq Seq(Calls) /\ failing' \subseteq batches'
    BY Zenon, <1>1, <1>3, <1>9 DEF TypeOK
  <2>4. pending' \in Seq(Calls) /\ running' \in Nat
    <3>1. running \in Nat
      BY Zenon DEF TypeOK
    <3>2. pending' \in Seq(Calls)
      BY Zenon, <1>p, <1>3
    <3> QED BY <1>1, <3>1, <3>2
  <2> QED BY Zenon, <1>1, <1>2, <1>7, <1>8, <2>1, <2>2, <2>3, <2>4 DEF TypeOK
<1>11. Finite'
  <2>1. \A c \in Calls : stage'[c] # "new" => stage[c] # "new"
    BY Zenon, <1>2
  <2> QED BY Zenon, <2>1, FiniteFrame
<1>12. MemoryHeld'
  BY Zenon, <1>1, <1>2 DEF MemoryHeld
<1>13. /\ IsFiniteSet(batches') /\ Cardinality(batches') = Cardinality(batches) + 1
       /\ Cardinality(batches) \in Nat
  <2>1. IsFiniteSet(batches)
    BY Zenon DEF Counted
  <2> QED BY Zenon, <1>2, <1>9, <2>1, FS_AddElement, FS_CardinalityType
<1>14. Counted'
  <2>1. running = Cardinality(batches) + completed /\ completed \in Nat
    BY Zenon DEF Counted, TypeOK
  <2>2. running' = Cardinality(batches') + completed'
    BY <1>1, <1>13, <2>1
  <2> QED BY Zenon, <1>1, <1>13, <2>2 DEF Counted
<1>15. BatchLimits'
  <2>1. MaxConcurrent # 0 => Cardinality(batches') <= MaxConcurrent
    <3>1. running = Cardinality(batches) + completed /\ completed \in Nat /\ MaxConcurrent \in Nat
      BY Zenon, BatcherAssumption DEF Counted, TypeOK
    <3> QED BY <1>1, <1>13, <3>1 DEF MayRun
  <2>2. ASSUME Len(nb) > 1
        PROVE  /\ Sum(Operations, Range(nb)) <= MaxOperations
               /\ Sum(Size, Range(nb)) <= MaxBytes
               /\ \A c \in Range(nb) : Partition[c] = Partition[nb[1]] /\ Partition[c] # Isolated
    <3>1. nb[1] \in Range(nb)
      <4>1. 1 \in DOMAIN nb
        BY <1>3, <2>2
      <4> QED BY Zenon, <4>1 DEF Range
    <3> QED BY Zenon, <1>3, <1>6, <2>2, <3>1
  <2> QED BY Zenon, <1>9, <2>1, <2>2 DEF BatchLimits
<1> QED BY <1>4, <1>5, <1>7, <1>8, <1>10, <1>11, <1>12, <1>14, <1>15 DEF BatcherInv

-----------------------------------------------------------------------------
\* The goroutine of a batch.  A step within a batch leaves the queue, the
\* dispatcher and the set of batches alone and moves calls between the stages
\* of execution only.
Within ==
  /\ UNCHANGED <<arrivals, pending, input, batches, retained, pc, running, completed, stopped>>
  /\ UNCHANGED <<queuedCalls, queuedOperations, queuedBytes>>
  /\ \A c \in Calls : stage'[c] # stage[c] => stage[c] \in Running /\ stage'[c] \in Running
  /\ \A c \in Calls : todo'[c] \subseteq todo[c]

\* A call is in one batch only.
LEMMA OwnBatch ==
  ASSUME BatcherInv, NEW b \in batches
  PROVE  /\ b \in Seq(Calls) /\ Range(b) \subseteq Calls /\ Range(b) \subseteq InBatch
         /\ DOMAIN b = 1..Len(b) /\ Len(b) \in Nat /\ Ascending(b)
         /\ \A f \in batches : f # b => Range(f) \cap Range(b) = {}
         /\ \A f \in batches : Range(f) \subseteq Calls
<1>1. \A f \in batches : f \in Seq(Calls) /\ Range(f) \subseteq Calls
  BY DEF BatcherInv, TypeOK, Range
<1>2. Range(b) \subseteq InBatch /\ Ascending(b) /\ \A f \in batches : f # b => Range(f) \cap Range(b) = {}
  BY Zenon DEF BatcherInv, Batched
<1> QED BY <1>1, <1>2

\* A step within a batch preserves the invariant if it keeps the records.
LEMMA WithinInv ==
  ASSUME BatcherInv, Within, TypeOK', Occupied',
         \A c \in Calls : pendingRecords'[c] # {} => stage'[c] \in {"launched", "executing"},
         \A f \in failing' : Begun(f)' # {} /\ \A c \in Begun(f)' : todo'[c] = {}
  PROVE  BatcherInv'
<1>0. /\ TypeOK /\ Finite /\ Lines /\ Batched /\ Occupied /\ Counted
      /\ RecordExclusive /\ QueueAccounting /\ MemoryHeld /\ BatchLimits
  BY DEF BatcherInv
<1> USE <1>0
<1>1. /\ UNCHANGED <<arrivals, pending, input, batches, retained, pc, running, completed, stopped>>
      /\ UNCHANGED queueVars
      /\ \A c \in Calls : stage'[c] # stage[c] => stage[c] \in Running /\ stage'[c] \in Running
      /\ \A c \in Calls : todo'[c] \subseteq todo[c]
  BY Zenon DEF Within, queueVars
<1>2. InQueue' = InQueue /\ InBatch' = InBatch
  BY Zenon, <1>1 DEF InQueue, InBatch, Running
<1>3. Finite'
  <2>1. \A c \in Calls : stage'[c] # "new" => stage[c] # "new"
    BY <1>1 DEF Running
  <2> QED BY Zenon, <2>1, FiniteFrame
<1>4. Lines'
  <2>1. \A c \in Calls : stage'[c] # stage[c] =>
           /\ stage[c] \notin Waiting /\ stage'[c] \notin Waiting
           /\ stage'[c] \in {"new", "reserved"} => stage[c] \in {"new", "reserved"}
           /\ stage'[c] \in Running => stage[c] \in Running
    BY Zenon, <1>1 DEF Waiting, Running
  <2>2. stage' \in [Calls -> Stages]
    BY DEF TypeOK
  <2> QED BY <1>1, <2>1, <2>2, LinesFrame
<1>5. Batched'
  <2>1. \A c : Arrival(c)' = Arrival(c)
    BY Zenon, <1>1, ArrivalsKept
  <2>2. \A f : Ascending(f)' <=> Ascending(f)
    BY Zenon, <2>1 DEF Ascending
  <2> QED BY Zenon, <1>1, <1>2, <2>2 DEF Batched
<1>6. RecordExclusive'
  BY Zenon, <1>1, ExclusiveFrame
<1>7. QueueAccounting' /\ MemoryHeld'
  BY Zenon, <1>1, <1>2, AccountsFrame
<1>8. Counted' /\ BatchLimits'
  BY Zenon, <1>1, <1>2 DEF Counted, BatchLimits
<1> QED BY <1>3, <1>4, <1>5, <1>6, <1>7, <1>8 DEF BatcherInv

\* execute() leaving out a call that was cancelled after selection keeps the invariant.
LEMMA SkipCancelledInv ==
  ASSUME BatcherInv, NEW b \in batches, NEW c \in Range(b), SkipCancelled(b, c)
  PROVE  BatcherInv'
<1>0. /\ TypeOK /\ Finite /\ Lines /\ Batched /\ Occupied /\ Counted
      /\ RecordExclusive /\ QueueAccounting /\ MemoryHeld /\ BatchLimits
  BY DEF BatcherInv
<1> USE <1>0
<1>1. c \in Calls
  BY OwnBatch
<1>2. UNCHANGED <<retained, cancelled, stopped, arrivals, queuedCalls, queuedOperations, queuedBytes,
                  pc, pending, active, running, batches, failing, settled, input, wake, completed>>
  BY DEF SkipCancelled, submitVars, queueVars, runVars
<1>3. /\ stage[c] = "launched" /\ stage'[c] = "answered" /\ stage' \in [Calls -> Stages]
      /\ \A d \in Calls : d # c => stage'[d] = stage[d]
  BY <1>1 DEF SkipCancelled, TypeOK, Stages
<1>4. /\ pendingRecords' = [pendingRecords EXCEPT ![c] = @ \ pendingRecords[c]]
      /\ pendingRecords' \in [Calls -> SUBSET Keys] /\ todo' \in [Calls -> SUBSET Keys]
      /\ pendingRecords'[c] = {} /\ todo'[c] = {}
      /\ \A d \in Calls : d # c => pendingRecords'[d] = pendingRecords[d] /\ todo'[d] = todo[d]
  <2>1. /\ pendingRecords' = [pendingRecords EXCEPT ![c] = {}] /\ todo' = [todo EXCEPT ![c] = {}]
        /\ pendingRecords \in [Calls -> SUBSET Keys] /\ todo \in [Calls -> SUBSET Keys]
    BY DEF SkipCancelled, TypeOK
  <2> QED BY Zenon, <1>1, <2>1
<1>5. Occupied' /\ recordsDone' \in Seq(SUBSET Keys)
  <2>1. SignalRecords(pendingRecords[c]) /\ pendingRecords[c] \in SUBSET pendingRecords[c]
    BY DEF SkipCancelled
  <2> QED BY Zenon, <1>1, <1>2, <1>4, <2>1, Letting
<1>6. TypeOK'
  <2>1. \A d \in Calls : todo'[d] \subseteq pendingRecords'[d]
    BY <1>4 DEF TypeOK
  <2> QED BY Zenon, <1>2, <1>3, <1>4, <1>5, <2>1 DEF TypeOK
<1>7. Within
  BY Zenon, <1>2, <1>3, <1>4 DEF Within, Running
<1>8. \A d \in Calls : pendingRecords'[d] # {} => stage'[d] \in {"launched", "executing"}
  BY Zenon, <1>3, <1>4 DEF Batched
<1>9. \A f \in failing' : Begun(f)' # {} /\ \A d \in Begun(f)' : todo'[d] = {}
  <2>1. \A f \in batches : Range(f) \subseteq Calls
    BY OwnBatch
  <2>2. \A f \in failing : Begun(f)' = Begun(f) /\ Begun(f) \subseteq Calls /\ c \notin Begun(f)
    BY <1>3, <2>1 DEF Begun, TypeOK
  <2>3. \A f \in failing : Begun(f) # {} /\ \A d \in Begun(f) : todo[d] = {}
    BY DEF Batched
  <2> QED BY ZenonT(30), <1>2, <1>4, <2>2, <2>3
<1> QED BY Zenon, <1>5, <1>6, <1>7, <1>8, <1>9, WithinInv

\* Publishing the result of one mutated record keeps the invariant.
LEMMA PublishInv ==
  ASSUME BatcherInv, NEW b \in batches, NEW c \in Range(b), NEW k \in Keys, Publish(b, c, k)
  PROVE  BatcherInv'
<1>0. /\ TypeOK /\ Finite /\ Lines /\ Batched /\ Occupied /\ Counted
      /\ RecordExclusive /\ QueueAccounting /\ MemoryHeld /\ BatchLimits
  BY DEF BatcherInv
<1> USE <1>0
<1>1. c \in Calls
  BY OwnBatch
<1>2. UNCHANGED <<retained, cancelled, stopped, arrivals, queuedCalls, queuedOperations, queuedBytes,
                  pc, pending, active, running, batches, failing, todo, settled, input, wake, completed>>
  BY Zenon DEF Publish, submitVars, queueVars, runVars
<1>3. /\ pendingRecords' = [pendingRecords EXCEPT ![c] = @ \ {k}]
      /\ pendingRecords' \in [Calls -> SUBSET Keys]
      /\ pendingRecords'[c] = pendingRecords[c] \ {k} /\ k \notin todo[c] /\ {k} \in SUBSET pendingRecords[c]
      /\ \A d \in Calls : d # c => pendingRecords'[d] = pendingRecords[d]
  <2>1. pendingRecords' = [pendingRecords EXCEPT ![c] = @ \ {k}] /\ k \in pendingRecords[c] \ todo[c]
    BY Zenon DEF Publish
  <2>2. pendingRecords \in [Calls -> SUBSET Keys]
    BY DEF TypeOK
  <2> QED BY Zenon, <1>1, <2>1, <2>2
<1>4. /\ stage[c] = "executing" /\ stage'[c] \in {"executing", "answered"} /\ stage' \in [Calls -> Stages]
      /\ stage'[c] = "answered" => pendingRecords'[c] = {}
      /\ \A d \in Calls : d # c => stage'[d] = stage[d]
  <2>1. /\ stage[c] = "executing"
        /\ IF pendingRecords'[c] = {} THEN stage' = [stage EXCEPT ![c] = "answered"] ELSE stage' = stage
    BY Zenon DEF Publish
  <2>2. stage \in [Calls -> Stages] /\ "answered" \in Stages
    BY DEF TypeOK, Stages
  <2> QED BY Zenon, <1>1, <2>1, <2>2
<1>5. Occupied' /\ recordsDone' \in Seq(SUBSET Keys)
  <2>1. SignalRecords({k})
    BY Zenon DEF Publish
  <2> QED BY Zenon, <1>1, <1>2, <1>3, <2>1, Letting
<1>6. TypeOK'
  <2>1. \A d \in Calls : todo'[d] \subseteq pendingRecords'[d]
    BY <1>2, <1>3 DEF TypeOK
  <2> QED BY Zenon, <1>2, <1>3, <1>4, <1>5, <2>1 DEF TypeOK
<1>7. Within
  BY Zenon, <1>2, <1>4 DEF Within, Running
<1>8. \A d \in Calls : pendingRecords'[d] # {} => stage'[d] \in {"launched", "executing"}
  BY Zenon, <1>3, <1>4 DEF Batched
<1>9. \A f \in failing' : Begun(f)' # {} /\ \A d \in Begun(f)' : todo'[d] = {}
  <2>1. \A f \in failing : c \notin Range(f) /\ Range(f) \subseteq Calls
    BY Zenon, OwnBatch DEF Publish, TypeOK
  <2>2. \A f \in failing : Begun(f)' = Begun(f)
    BY Zenon, <1>4, <2>1 DEF Begun
  <2> QED BY <1>2, <2>2 DEF Batched
<1> QED BY <1>5, <1>6, <1>7, <1>8, <1>9, WithinInv

\* completeError answering the remaining calls of a batch keeps the invariant.
LEMMA CompleteErrorInv ==
  ASSUME BatcherInv, NEW b \in batches, NEW c \in Range(b), CompleteError(b, c)
  PROVE  BatcherInv'
<1>0. /\ TypeOK /\ Finite /\ Lines /\ Batched /\ Occupied /\ Counted
      /\ RecordExclusive /\ QueueAccounting /\ MemoryHeld /\ BatchLimits
  BY DEF BatcherInv
<1> USE <1>0
<1>1. c \in Calls
  BY OwnBatch
<1>2. UNCHANGED <<retained, cancelled, stopped, arrivals, queuedCalls, queuedOperations, queuedBytes,
                  pc, pending, active, running, batches, todo, settled, input, wake, completed>>
  BY DEF CompleteError, submitVars, queueVars, runVars
<1>3. /\ stage[c] = "executing" /\ stage'[c] = "answered" /\ stage' \in [Calls -> Stages]
      /\ \A d \in Calls : d # c => stage'[d] = stage[d]
  BY <1>1 DEF CompleteError, TypeOK, Stages
<1>4. /\ pendingRecords' = [pendingRecords EXCEPT ![c] = @ \ pendingRecords[c]]
      /\ pendingRecords' \in [Calls -> SUBSET Keys] /\ pendingRecords'[c] = {}
      /\ \A d \in Calls : d # c => pendingRecords'[d] = pendingRecords[d]
  <2>1. /\ pendingRecords' = [pendingRecords EXCEPT ![c] = {}]
        /\ pendingRecords \in [Calls -> SUBSET Keys]
    BY DEF CompleteError, TypeOK
  <2> QED BY Zenon, <1>1, <2>1
<1>5. Occupied' /\ recordsDone' \in Seq(SUBSET Keys)
  <2>1. SignalRecords(pendingRecords[c]) /\ pendingRecords[c] \in SUBSET pendingRecords[c]
    BY DEF CompleteError
  <2> QED BY Zenon, <1>1, <1>2, <1>4, <2>1, Letting
<1>6. /\ failing' \subseteq failing /\ b \in failing /\ failing \subseteq batches
      /\ b \in failing' => ~(Begun(b) \subseteq {c})
  BY DEF CompleteError, TypeOK
<1>7. c \in Begun(b) /\ todo[c] = {}
  BY Zenon, <1>3, <1>6 DEF Begun, Batched
<1>8. TypeOK'
  <2>1. \A d \in Calls : todo'[d] \subseteq pendingRecords'[d]
    BY <1>2, <1>4, <1>7 DEF TypeOK
  <2> QED BY Zenon, <1>2, <1>3, <1>4, <1>5, <1>6, <2>1 DEF TypeOK
<1>9. Within
  BY Zenon, <1>2, <1>3 DEF Within, Running
<1>10. \A d \in Calls : pendingRecords'[d] # {} => stage'[d] \in {"launched", "executing"}
  BY Zenon, <1>3, <1>4 DEF Batched
<1>11. \A f \in failing' : Begun(f)' # {} /\ \A d \in Begun(f)' : todo'[d] = {}
  <2>1. \A f \in failing : Range(f) \subseteq Calls
    BY <1>6, OwnBatch
  <2>2. \A f \in failing : Begun(f)' = Begun(f) \ {c}
    BY <1>3, <2>1 DEF Begun
  <2>3. \A f \in failing : f # b => c \notin Begun(f)
    BY <1>6, OwnBatch DEF Begun
  <2>4. \A f \in failing : Begun(f) # {} /\ \A d \in Begun(f) : todo[d] = {}
    BY DEF Batched
  <2>5. ASSUME NEW f \in failing'
        PROVE  Begun(f)' # {} /\ \A d \in Begun(f)' : todo'[d] = {}
    <3>1. f \in failing /\ Begun(f)' = Begun(f) \ {c}
      BY Zenon, <1>6, <2>2, <2>5
    <3>2. Begun(f) # {} /\ \A d \in Begun(f) : todo'[d] = {}
      BY Zenon, <1>2, <2>4, <3>1
    <3>3. ~(Begun(f) \subseteq {c})
      BY Zenon, <1>6, <2>3, <2>5, <3>1, <3>2
    <3> QED BY Zenon, <3>1, <3>2, <3>3
  <2> QED BY Zenon, <2>5
<1> QED BY Zenon, <1>5, <1>8, <1>9, <1>10, <1>11, WithinInv

\* Steps of a batch that release nothing.
LEMMA BeginChunkInv ==
  ASSUME BatcherInv, NEW b \in batches, BeginChunk(b)
  PROVE  BatcherInv'
<1>0. /\ TypeOK /\ Finite /\ Lines /\ Batched /\ Occupied /\ Counted
      /\ RecordExclusive /\ QueueAccounting /\ MemoryHeld /\ BatchLimits
  BY DEF BatcherInv
<1> USE <1>0
<1>1. PICK chunk \in {{b[j] : j \in {j \in Unbegun(b) : j <= i}} : i \in Unbegun(b)} :
         stage' = [c \in Calls |-> IF c \in chunk THEN "executing" ELSE stage[c]]
  BY Zenon DEF BeginChunk
<1>2. \A c \in chunk : c \in Range(b) /\ stage[c] = "launched"
  BY DEF Unbegun, Range
<1>3. UNCHANGED <<retained, cancelled, stopped, arrivals, queuedCalls, queuedOperations, queuedBytes,
                  pc, pending, active, running, batches, failing, todo, pendingRecords, settled,
                  input, wake, recordsDone, completed>>
  BY Zenon DEF BeginChunk, submitVars, queueVars, runVars, execVars, chanVars
<1>4. stage' \in [Calls -> Stages] /\ stage \in [Calls -> Stages]
  BY Zenon, <1>1 DEF TypeOK, Stages
<1>5. /\ \A c \in chunk : c \in Calls => stage'[c] = "executing"
      /\ \A c \in Calls : c \notin chunk => stage'[c] = stage[c]
  BY Zenon, <1>1
<1>6. TypeOK'
  BY Zenon, <1>3, <1>4 DEF TypeOK
<1>7. Within
  BY Zenon, <1>2, <1>3, <1>5 DEF Within, Running
<1>8. Occupied'
  BY <1>3, OccupiedFrame
<1>9. \A c \in Calls : pendingRecords'[c] # {} => stage'[c] \in {"launched", "executing"}
  BY Zenon, <1>3, <1>5 DEF Batched
<1>10. \A f \in failing' : Begun(f)' # {} /\ \A c \in Begun(f)' : todo'[c] = {}
  <2>1. b \notin failing
    BY Zenon DEF BeginChunk, Batched
  <2>2. \A f \in failing : Range(f) \cap Range(b) = {} /\ Range(f) \subseteq Calls
    BY Zenon, <2>1, OwnBatch DEF TypeOK
  <2>3. \A f \in failing : Begun(f)' = Begun(f)
    BY Zenon, <1>2, <1>5, <2>2 DEF Begun
  <2> QED BY Zenon, <1>3, <2>3 DEF Batched
<1> QED BY <1>6, <1>7, <1>8, <1>9, <1>10, WithinInv

\* A call answered with all its results keeps the invariant.
LEMMA SettleInv ==
  ASSUME BatcherInv, NEW b \in batches, NEW i \in DOMAIN b, NEW k \in Keys, Settle(b, i, k)
  PROVE  BatcherInv'
<1>0. /\ TypeOK /\ Finite /\ Lines /\ Batched /\ Occupied /\ Counted
      /\ RecordExclusive /\ QueueAccounting /\ MemoryHeld /\ BatchLimits
  BY DEF BatcherInv
<1> USE <1>0
<1>1. b[i] \in Calls
  BY Zenon, OwnBatch DEF Range
<1>2. UNCHANGED <<stage, retained, cancelled, stopped, arrivals, queuedCalls, queuedOperations, queuedBytes,
                  pc, pending, active, running, batches, failing, pendingRecords, input, wake,
                  recordsDone, completed>>
  BY Zenon DEF Settle, submitVars, queueVars, runVars, chanVars
<1>3. /\ todo' \in [Calls -> SUBSET Keys]
      /\ \A c \in Calls : todo'[c] \subseteq todo[c]
  <2>1. todo' = [todo EXCEPT ![b[i]] = @ \ {k}] /\ todo \in [Calls -> SUBSET Keys]
    BY DEF Settle, TypeOK
  <2> QED BY <1>1, <2>1
<1>4. settled' \in [Keys -> Nat]
  <2>1. settled' = [settled EXCEPT ![k] = Arrival(b[i])] /\ settled \in [Keys -> Nat]
    BY DEF Settle, TypeOK
  <2>2. Arrival(b[i]) \in Nat
    BY ZenonT(30), Arrivals DEF TypeOK, Lines
  <2> QED BY <2>1, <2>2
<1>5. TypeOK'
  <2>1. \A c \in Calls : todo'[c] \subseteq pendingRecords'[c]
    BY <1>2, <1>3 DEF TypeOK
  <2> QED BY <1>2, <1>3, <1>4, <2>1 DEF TypeOK
<1>6. Within
  BY Zenon, <1>2, <1>3 DEF Within
<1>7. Occupied'
  BY <1>2, OccupiedFrame
<1>8. \A c \in Calls : pendingRecords'[c] # {} => stage'[c] \in {"launched", "executing"}
  BY Zenon, <1>2 DEF Batched
<1>9. \A f \in failing' : Begun(f)' # {} /\ \A c \in Begun(f)' : todo'[c] = {}
  <2>1. \A f \in batches : Range(f) \subseteq Calls
    BY OwnBatch
  <2>2. \A f \in failing : Begun(f)' = Begun(f) /\ Begun(f) \subseteq Calls
    BY <1>2, <2>1 DEF Begun, TypeOK
  <2>3. \A f \in failing : Begun(f) # {} /\ \A c \in Begun(f) : todo[c] = {}
    BY DEF Batched
  <2>4. \A f \in failing : \A c \in Begun(f) : todo'[c] = {}
    BY Zenon, <1>3, <2>2, <2>3
  <2> QED BY Zenon, <1>2, <2>2, <2>3, <2>4
<1> QED BY Zenon, <1>5, <1>6, <1>7, <1>8, <1>9, WithinInv

\* A chunk of mutations failing as a whole keeps the invariant.
LEMMA ChunkErrorInv ==
  ASSUME BatcherInv, NEW b \in batches, ChunkError(b)
  PROVE  BatcherInv'
<1>0. /\ TypeOK /\ Finite /\ Lines /\ Batched /\ Occupied /\ Counted
      /\ RecordExclusive /\ QueueAccounting /\ MemoryHeld /\ BatchLimits
  BY DEF BatcherInv
<1> USE <1>0
<1>1. UNCHANGED <<stage, retained, cancelled, stopped, arrivals, queuedCalls, queuedOperations, queuedBytes,
                  pc, pending, active, running, batches, pendingRecords, settled, input, wake,
                  recordsDone, completed>>
  BY Zenon DEF ChunkError, submitVars, queueVars, runVars, chanVars
<1>2. /\ todo' \in [Calls -> SUBSET Keys]
      /\ \A c \in Calls : todo'[c] \subseteq todo[c]
      /\ \A c \in Begun(b) : c \in Calls => todo'[c] = {}
  <2>1. todo' = [c \in Calls |-> IF c \in Begun(b) THEN {} ELSE todo[c]] /\ todo \in [Calls -> SUBSET Keys]
    BY DEF ChunkError, TypeOK
  <2> HIDE <1>0
  <2> QED BY <2>1
<1>3. failing' = failing \cup {b} /\ Begun(b) # {}
  BY Zenon DEF ChunkError
<1>4. TypeOK'
  <2>1. \A c \in Calls : todo'[c] \subseteq pendingRecords'[c]
    BY <1>1, <1>2 DEF TypeOK
  <2>2. failing' \subseteq batches'
    BY <1>1, <1>3 DEF TypeOK
  <2> QED BY Zenon, <1>1, <1>2, <2>1, <2>2 DEF TypeOK
<1>5. Within
  BY Zenon, <1>1, <1>2 DEF Within
<1>6. Occupied'
  BY <1>1, OccupiedFrame
<1>7. \A c \in Calls : pendingRecords'[c] # {} => stage'[c] \in {"launched", "executing"}
  BY Zenon, <1>1 DEF Batched
<1>8. \A f \in failing' : Begun(f)' # {} /\ \A c \in Begun(f)' : todo'[c] = {}
  <2>1. \A f \in batches : Range(f) \subseteq Calls
    BY OwnBatch
  <2>2. \A f \in batches : Begun(f)' = Begun(f) /\ Begun(f) \subseteq Calls
    BY <1>1, <2>1 DEF Begun
  <2>3. \A f \in failing : Begun(f) # {} /\ \A c \in Begun(f) : todo[c] = {}
    BY DEF Batched
  <2>4. failing \subseteq batches
    BY DEF TypeOK
  <2>5. \A f \in failing : \A c \in Begun(f) : todo'[c] = {}
    BY Zenon, <1>2, <2>2, <2>3, <2>4
  <2> QED BY Zenon, <1>2, <1>3, <2>2, <2>3, <2>4, <2>5
<1> QED BY <1>4, <1>5, <1>6, <1>7, <1>8, WithinInv

\* A batch has answered all its calls and is reported on completed.
LEMMA BatchDoneInv ==
  ASSUME BatcherInv, NEW b \in batches, BatchDone(b)
  PROVE  BatcherInv'
<1>0. /\ TypeOK /\ Finite /\ Lines /\ Batched /\ Occupied /\ Counted
      /\ RecordExclusive /\ QueueAccounting /\ MemoryHeld /\ BatchLimits
  BY DEF BatcherInv
<1> USE <1>0
<1>1. UNCHANGED <<cancelled, stopped, arrivals, queuedCalls, queuedOperations, queuedBytes, pc, pending,
                  active, running, failing, todo, pendingRecords, settled, input, wake, recordsDone>>
  BY DEF BatchDone, submitVars, queueVars, runVars
<1>2. /\ Range(b) \subseteq Calls /\ Range(b) \subseteq InBatch
      /\ \A f \in batches : f # b => Range(f) \cap Range(b) = {}
      /\ \A f \in batches : Range(f) \subseteq Calls
  BY OwnBatch
<1>3. /\ \A c \in Range(b) : stage[c] = "answered" /\ stage'[c] = "done"
      /\ \A c \in Calls : c \notin Range(b) => stage'[c] = stage[c]
      /\ stage' \in [Calls -> Stages]
      /\ batches' = batches \ {b} /\ retained' = retained \ Range(b) /\ completed' = completed + 1
  <2>1. stage' = [c \in Calls |-> IF c \in Range(b) THEN "done" ELSE stage[c]]
    BY DEF BatchDone
  <2>2. stage' \in [Calls -> Stages]
    BY <2>1 DEF TypeOK, Stages
  <2> QED BY <1>2, <2>1, <2>2 DEF BatchDone
<1>4. InQueue' = InQueue /\ InBatch' = InBatch \ Range(b) /\ Range(b) \cap InQueue = {}
  BY <1>2, <1>3 DEF InQueue, InBatch
<1>5. b \notin failing
  <2>1. Begun(b) = {}
    BY <1>3 DEF Begun
  <2> QED BY <2>1 DEF Batched
<1>6. TypeOK'
  <2>1. batches' \subseteq Seq(Calls) /\ failing' \subseteq batches'
    BY <1>1, <1>3, <1>5 DEF TypeOK
  <2>2. retained' \subseteq Calls /\ completed' \in Nat
    BY <1>3 DEF TypeOK
  <2> QED BY Zenon, <1>1, <1>3, <2>1, <2>2 DEF TypeOK
<1>7. Finite'
  <2>1. \A c \in Calls : stage'[c] # "new" => stage[c] # "new"
    BY <1>3
  <2> QED BY Zenon, <2>1, FiniteFrame
<1>8. Lines'
  <2>1. \A c \in Calls : stage'[c] # stage[c] =>
           /\ stage[c] \notin Waiting /\ stage'[c] \notin Waiting
           /\ stage'[c] \in {"new", "reserved"} => stage[c] \in {"new", "reserved"}
           /\ stage'[c] \in Running => stage[c] \in Running
    BY <1>3 DEF Waiting, Running
  <2> QED BY <1>1, <1>3, <2>1, LinesFrame
<1>9. Batched'
  <2>1. \A c : Arrival(c)' = Arrival(c)
    BY <1>1, ArrivalsKept
  <2>2. \A f : Ascending(f)' <=> Ascending(f)
    BY <2>1 DEF Ascending
  <2>3. \A f \in batches : f # <<>> /\ Ascending(f) /\ Range(f) \subseteq InBatch
    BY DEF Batched
  <2>4. \A f \in batches' : f # <<>> /\ Ascending(f)' /\ Range(f) \subseteq InBatch'
    BY Zenon, <1>2, <1>3, <1>4, <2>2, <2>3
  <2>5. \A c \in InBatch' : \E f \in batches' : c \in Range(f)
    BY Zenon, <1>3, <1>4 DEF Batched
  <2>6. \A b1, b2 \in batches' : b1 # b2 => Range(b1) \cap Range(b2) = {}
    BY Zenon, <1>3 DEF Batched
  <2>7. \A c \in Calls : pendingRecords'[c] # {} => stage'[c] \in {"launched", "executing"}
    BY Zenon, <1>1, <1>3 DEF Batched
  <2>8. \A f \in failing' : Begun(f)' # {} /\ \A c \in Begun(f)' : todo'[c] = {}
    <3>1. \A f \in failing : f # b /\ f \in batches
      BY <1>5 DEF TypeOK
    <3>2. \A f \in failing : Begun(f)' = Begun(f)
      BY Zenon, <1>2, <1>3, <3>1 DEF Begun
    <3> QED BY Zenon, <1>1, <3>2 DEF Batched
  <2> QED BY Zenon, <2>4, <2>5, <2>6, <2>7, <2>8 DEF Batched
<1>10. Occupied'
  BY <1>1, OccupiedFrame
<1>11. RecordExclusive'
  BY Zenon, <1>1, <1>3, ExclusiveFrame
<1>12. QueueAccounting'
  BY <1>1, <1>4 DEF QueueAccounting
<1>13. MemoryHeld'
  BY <1>3, <1>4 DEF MemoryHeld
<1>14. /\ IsFiniteSet(batches') /\ Cardinality(batches') = Cardinality(batches) - 1
       /\ Cardinality(batches) \in Nat /\ Cardinality(batches') \in Nat
  <2>1. IsFiniteSet(batches)
    BY DEF Counted
  <2> QED BY <1>3, <2>1, FS_RemoveElement, FS_CardinalityType
<1>15. Counted'
  <2>1. running = Cardinality(batches) + completed /\ completed \in Nat
    BY DEF Counted, TypeOK
  <2>2. running' = Cardinality(batches') + completed'
    BY <1>1, <1>3, <1>14, <2>1
  <2> QED BY <1>1, <1>4, <1>14, <2>2 DEF Counted
<1>16. BatchLimits'
  <2>1. MaxConcurrent # 0 => Cardinality(batches') <= MaxConcurrent
    <3>1. MaxConcurrent \in Nat
      BY BatcherAssumption DEF BatcherAssumption
    <3>2. MaxConcurrent # 0 => Cardinality(batches) <= MaxConcurrent
      BY Zenon DEF BatchLimits
    <3> QED BY <1>14, <3>1, <3>2
  <2> QED BY Zenon, <1>3, <2>1 DEF BatchLimits
<1> QED BY <1>6, <1>7, <1>8, <1>9, <1>10, <1>11, <1>12, <1>13, <1>15, <1>16 DEF BatcherInv

-----------------------------------------------------------------------------
\* Every step of the batcher preserves the invariant.
LEMMA NextInv == BatcherInv /\ [Next]_vars => BatcherInv'
<1> SUFFICES ASSUME BatcherInv, [Next]_vars PROVE BatcherInv'
  OBVIOUS
<1>1. ASSUME NEW c \in Calls, Submit(c) \/ Cancel(c) PROVE BatcherInv'
  BY <1>1, RejectInv, ReserveInv, EnqueueInv, WithdrawInv, CancelInv DEF Submit
<1>2. CASE Run
  BY <1>2, RunTopInv, RunLaunchInv, RunBlockInv, RecvInputInv, RecvCompletedInv, RecvRecordsDoneInv,
     RecvSignalInv, RunStopInv, DrainOneInv, DrainEndInv, RunExitInv DEF Run
<1>3. ASSUME NEW b \in batches, Execute(b) PROVE BatcherInv'
  BY <1>3, SkipCancelledInv, BeginChunkInv, SettleInv, PublishInv, ChunkErrorInv, CompleteErrorInv,
     BatchDoneInv DEF Execute
<1>4. CASE UNCHANGED vars
  <2>1. /\ UNCHANGED <<stage, retained, cancelled, stopped, arrivals>>
        /\ UNCHANGED <<queuedCalls, queuedOperations, queuedBytes, pc, pending, active, running>>
        /\ UNCHANGED <<batches, failing, todo, pendingRecords, settled>>
        /\ UNCHANGED <<input, wake, recordsDone, completed>>
    BY <1>4 DEF vars, submitVars, queueVars, runVars, execVars, chanVars
  <2>2. TypeOK'
    BY <2>1 DEF BatcherInv, TypeOK
  <2>3. Counted'
    BY <2>1 DEF BatcherInv, Counted, InQueue
  <2> QED BY <2>1, <2>2, <2>3, QuietInv DEF queueVars
<1> QED BY <1>1, <1>2, <1>3, <1>4, StopInv DEF Next

\* The inductive invariant holds in every state of the batcher, for any calls,
\* records, limits and channel sizes.
THEOREM BatcherInvariant == Spec => []BatcherInv
BY InitInv, NextInv, PTL DEF Spec

\* The accounts of run() and of the batches are exact in every state: what
\* reserve() counts, what selectReady() holds occupied, what memory is retained.
THEOREM AccountsAlwaysExact == Spec => []AccountsExact
<1>1. BatcherInv => AccountsExact
  <2> SUFFICES ASSUME BatcherInv PROVE AccountsExact
    OBVIOUS
  <2>1. OccupancyExact
    <3>1. \A k \in Keys : Occupants(k) = Cardinality({c \in Calls : k \in pendingRecords[c]})
                + Cardinality({i \in DOMAIN recordsDone : k \in recordsDone[i]})
      BY DEF Occupants, Holders, Times
    <3> QED BY <3>1 DEF BatcherInv, Occupied, OccupancyExact
  <2> QED BY <2>1 DEF BatcherInv, AccountsExact
<1> QED BY <1>1, BatcherInvariant, PTL

\* When drain() has returned, no caller is left in the queue; when run() has
\* returned, none is left in a batch and no memory is retained.
THEOREM DrainAlwaysComplete == Spec => []DrainComplete
<1>1. BatcherInv => DrainComplete
  <2> SUFFICES ASSUME BatcherInv PROVE DrainComplete
    OBVIOUS
  <2>1. pc \in {"awaiting", "exited"} => InQueue = {} /\ input = <<>>
    <3>1. InQueue = {} => Range(input) = {}
      BY DEF BatcherInv, Lines, InQueue
    <3>2. input \in Seq(Calls) /\ (Range(input) = {} => input = <<>>)
      <4>1. input \in Seq(Calls)
        BY DEF BatcherInv, TypeOK
      <4>2. input # <<>> => Head(input) \in Range(input)
        BY <4>1, Popped
      <4> QED BY <4>1, <4>2
    <3> QED BY <3>1, <3>2 DEF BatcherInv, Counted
  <2>2. pc = "exited" => InBatch = {} /\ retained = {}
    <3> SUFFICES ASSUME pc = "exited" PROVE InBatch = {} /\ retained = {}
      OBVIOUS
    <3>1. running = 0 /\ running = Cardinality(batches) + completed /\ IsFiniteSet(batches) /\ completed \in Nat
      BY DEF BatcherInv, Counted, TypeOK
    <3>2. Cardinality(batches) \in Nat
      BY <3>1, FS_CardinalityType
    <3>3. Cardinality(batches) = 0
      BY <3>1, <3>2
    <3>4. batches = {}
      BY <3>1, <3>3, FS_EmptySet
    <3>5. InBatch = {}
      BY <3>4 DEF BatcherInv, Batched
    <3> QED BY <2>1, <3>5 DEF BatcherInv, MemoryHeld
  <2> QED BY <2>1, <2>2 DEF DrainComplete
<1> QED BY <1>1, BatcherInvariant, PTL

-----------------------------------------------------------------------------
\* The batcher implements RecordQueue: on each record, operations of different
\* RPCs take effect in the order in which the RPCs entered the queue, although
\* independent RPCs pass blocked ones and cancelled or failed ones drop out.
Queue == INSTANCE RecordQueue WITH
  clock <- Len(arrivals),
  ticket <- [c \in Calls |-> Arrival(c)],
  waiting <- {c \in Calls : stage[c] \in {"queued", "pending"}},
  open <- todo,
  last <- settled
ImplementsQueue == Queue!Spec

\* The refinement of RecordQueue.  A step that only takes calls out of the queue,
\* or touches nothing the abstract queue knows, is a Leave.
LEMMA LeaveStep ==
  ASSUME UNCHANGED <<arrivals, todo, settled>>,
         \A c \in Calls : stage'[c] \in Waiting => stage[c] \in Waiting
  PROVE  Queue!Next
<1> DEFINE now == {c \in Calls : stage[c] \in {"queued", "pending"}}
           then == {c \in Calls : stage'[c] \in {"queued", "pending"}}
<1>1. then \subseteq now
  BY DEF Waiting
<1>2. [c \in Calls |-> Arrival(c)]' = [c \in Calls |-> Arrival(c)]
  BY ArrivalsKept
<1>3. PICK S \in SUBSET now : S = now \ then
  BY Zenon
<1>4. then = now \ S
  BY <1>1, <1>3
<1>5. Queue!Leave(S)
  BY Zenon, <1>2, <1>4 DEF Queue!Leave
<1>6. S \in SUBSET {c \in Calls : stage[c] \in {"queued", "pending"}}
  OBVIOUS
<1> QED BY Zenon, <1>5, <1>6 DEF Queue!Next

\* A call that enters the input channel arrives.
LEMMA ArriveStep == ASSUME BatcherInv, NEW c \in Calls, Enqueue(c) PROVE Queue!Next
<1>1. stage[c] = "reserved" /\ c \notin Range(arrivals) /\ UNCHANGED <<todo, settled>>
  BY DEF BatcherInv, Lines, Enqueue, execVars
<1>2. /\ Arrival(c)' = Len(arrivals) + 1 /\ Len(arrivals') = Len(arrivals) + 1
      /\ \A d : d # c => Arrival(d)' = Arrival(d)
  BY <1>1, ArrivalNew DEF BatcherInv, Enqueue
<1>3. Arrival(c) = 0
  BY <1>1 DEF Arrival
<1>4. [d \in Calls |-> Arrival(d)]' = [[d \in Calls |-> Arrival(d)] EXCEPT ![c] = Len(arrivals) + 1]
  BY Zenon, <1>2
<1>5. {d \in Calls : stage'[d] \in {"queued", "pending"}}
        = {d \in Calls : stage[d] \in {"queued", "pending"}} \cup {c}
  BY DEF BatcherInv, TypeOK, Enqueue
<1>6. [d \in Calls |-> Arrival(d)][c] = 0
  BY <1>3
<1>7. Queue!Arrive(c)
  BY Zenon, <1>1, <1>2, <1>4, <1>5, <1>6 DEF Queue!Arrive
<1> QED BY <1>7 DEF Queue!Next

\* The calls that selectReady chose may start: nobody holds their records, and
\* those left behind that share one arrived later.
LEMMA StartStep == ASSUME BatcherInv, RunLaunch PROVE Queue!Next
<1>i. /\ TypeOK /\ Finite /\ Lines /\ Batched /\ Occupied /\ Counted
      /\ RecordExclusive /\ QueueAccounting /\ MemoryHeld /\ BatchLimits
  BY DEF BatcherInv
<1> USE <1>i
<1> PICK I \in (SUBSET DOMAIN pending) \ {{}} :
       /\ SelectReady(I)
       /\ stage' = [c \in Calls |-> IF c \in Chosen(I) THEN "launched" ELSE stage[c]]
       /\ todo' = [c \in Calls |-> IF c \in Chosen(I) THEN Records[c] ELSE todo[c]]
  BY Zenon DEF RunLaunch
<1>0. PICK S \in SUBSET Calls : S = Chosen(I)
  BY Zenon, Selection
<1> DEFINE now == {c \in Calls : stage[c] \in {"queued", "pending"}}
           tick == [c \in Calls |-> Arrival(c)]
<1>1. UNCHANGED <<arrivals, settled>>
  BY Zenon DEF RunLaunch, submitVars
<1>2. /\ S \subseteq Range(pending) /\ S \subseteq Calls
      /\ \A c \in S : \A k \in Records[c] : \A d \in Calls : k \notin pendingRecords[d]
      /\ \A c \in S, d \in Range(pending) \ S :
              Records[c] \cap Records[d] # {} => Arrival(c) < Arrival(d)
  BY Zenon, <1>0, Selection
<1>3. /\ \A c \in S : stage[c] = "pending" /\ stage'[c] = "launched"
      /\ \A c \in Calls : c \notin S => stage'[c] = stage[c]
  BY Zenon, <1>0, Launched
<1>4. S \in SUBSET now
  BY Zenon, <1>2, <1>3
<1>5. {c \in Calls : stage'[c] \in {"queued", "pending"}} = now \ S
  BY Zenon, <1>3
<1>6. ASSUME NEW c \in S, NEW k \in Records[c], NEW d \in Calls
      PROVE  /\ k \notin todo[d]
             /\ d \in now \ S /\ k \in Records[d] => Arrival(c) < Arrival(d)
  <2>1. k \notin todo[d]
    BY Zenon, <1>2, <1>6 DEF TypeOK
  <2>2. ASSUME d \in now \ S, k \in Records[d] PROVE Arrival(c) < Arrival(d)
    <3>1. CASE d \in Range(pending)
      BY Zenon, <1>2, <1>6, <2>2, <3>1
    <3>2. CASE d \in Range(input)
      BY Zenon, <1>2, <1>6, <3>2 DEF Lines
    <3>3. d \in Range(pending) \/ d \in Range(input)
      BY Zenon, <2>2 DEF Lines
    <3> QED BY Zenon, <3>1, <3>2, <3>3
  <2> QED BY Zenon, <2>1, <2>2
<1>7. ASSUME NEW c \in S PROVE Queue!MayStart(c, S)
  <2>1. \A d \in Calls : tick[d] = Arrival(d) /\ Arrival(d) \in Nat
    BY Zenon, Arrivals DEF TypeOK, Lines
  <2>2. c \in Calls
    BY Zenon, <1>2, <1>7
  <2> HIDE DEF tick
  <2>3. \A k \in Records[c], d \in Calls :
          /\ k \notin todo[d]
          /\ d \in now \ S /\ k \in Records[d] => tick[d] > tick[c]
    BY Zenon, <1>6, <1>7, <2>1, <2>2
  <2> QED BY Zenon, <2>3 DEF Queue!MayStart, tick
<1>8. tick' = tick
  BY Zenon, <1>1, ArrivalsKept
<1>9. todo' = [c \in Calls |-> IF c \in S THEN Records[c] ELSE todo[c]]
  BY <1>0
<1>10. Queue!Start(S)
  BY Zenon, <1>1, <1>5, <1>7, <1>8, <1>9 DEF Queue!Start
<1>11. S \in SUBSET {c \in Calls : stage[c] \in {"queued", "pending"}}
  BY Zenon, <1>4
<1> QED BY Zenon, <1>10, <1>11 DEF Queue!Next

\* A result becomes final for the earliest call that may still touch the record.
LEMMA SettleStep ==
  ASSUME BatcherInv, NEW b \in batches, NEW i \in DOMAIN b, NEW k \in Keys, Settle(b, i, k)
  PROVE  Queue!Next
<1>0. /\ TypeOK /\ Finite /\ Lines /\ Batched /\ Occupied /\ Counted
      /\ RecordExclusive /\ QueueAccounting /\ MemoryHeld /\ BatchLimits
  BY DEF BatcherInv
<1> USE <1>0
<1> DEFINE c == b[i]
           tick == [d \in Calls |-> Arrival(d)]
<1>1. /\ b \in Seq(Calls) /\ DOMAIN b = 1..Len(b) /\ Len(b) \in Nat /\ Ascending(b)
      /\ c \in Calls /\ c \in Range(b)
  BY Zenon, OwnBatch DEF Range
<1>2. /\ k \in todo[c] /\ \A j \in 1..(i - 1) : k \notin todo[b[j]]
      /\ todo' = [todo EXCEPT ![c] = @ \ {k}]
      /\ settled' = [settled EXCEPT ![k] = Arrival(c)]
      /\ UNCHANGED <<stage, arrivals>>
  BY Zenon DEF Settle, submitVars
<1>3. \A d \in Calls : tick[d] = Arrival(d) /\ Arrival(d) \in Nat
  BY Zenon, Arrivals DEF TypeOK, Lines
<1>4. ASSUME NEW d \in Calls, k \in todo[d] PROVE Arrival(c) <= Arrival(d)
  <2>1. d \in InBatch
    BY Zenon, <1>4 DEF TypeOK, Batched, InBatch
  <2>2. PICK f \in batches : d \in Range(f)
    BY Zenon, <2>1 DEF Batched
  <2>3. f = b
    BY <1>1, <1>2, <1>4, <2>2 DEF RecordExclusive
  <2>4. PICK j \in DOMAIN b : b[j] = d
    BY <2>2, <2>3 DEF Range
  <2>5. ~(j < i)
    BY <1>1, <1>2, <1>4, <2>4
  <2>6. j = i \/ i < j
    BY <1>1, <2>5
  <2>7. CASE j = i
    BY <1>3, <2>4, <2>7
  <2>8. CASE i < j
    <3>1. Arrival(b[i]) < Arrival(b[j])
      BY <1>1, <2>8 DEF Ascending
    <3> QED BY <1>1, <1>3, <2>4, <3>1
  <2> QED BY <2>6, <2>7, <2>8
<1> HIDE DEF c
<1>5. tick' = tick
  BY Zenon, <1>2, ArrivalsKept
<1>6. Queue!Settle(c, k)
  <2>1. \A d \in Calls : k \in todo[d] => tick[c] <= tick[d]
    BY Zenon, <1>1, <1>3, <1>4
  <2>2. settled' = [settled EXCEPT ![k] = tick[c]]
    BY Zenon, <1>1, <1>2, <1>3
  <2> QED BY Zenon, <1>2, <1>5, <2>1, <2>2 DEF Queue!Settle
<1> QED BY <1>1, <1>6 DEF Queue!Next

\* A cancelled call, or a chunk whose core failed, mutates nothing any more.
LEMMA AbandonStep ==
  ASSUME NEW S \in SUBSET Calls, todo' = [c \in Calls |-> IF c \in S THEN {} ELSE todo[c]],
         UNCHANGED <<arrivals, settled>>,
         \A c \in Calls : stage'[c] \in Waiting <=> stage[c] \in Waiting
  PROVE  Queue!Next
<1>1. {c \in Calls : stage'[c] \in {"queued", "pending"}} = {c \in Calls : stage[c] \in {"queued", "pending"}}
  BY DEF Waiting
<1>2. [c \in Calls |-> Arrival(c)]' = [c \in Calls |-> Arrival(c)]
  BY Zenon, ArrivalsKept
<1>3. Queue!Abandon(S)
  BY Zenon, <1>1, <1>2 DEF Queue!Abandon
<1> QED BY Zenon, <1>3 DEF Queue!Next

\* Every step of the dispatcher, of a caller and of a batch is a step of the queue.
LEMMA RunStep == ASSUME BatcherInv, Run PROVE Queue!Next
<1>0. /\ TypeOK /\ Finite /\ Lines /\ Batched /\ Occupied /\ Counted
      /\ RecordExclusive /\ QueueAccounting /\ MemoryHeld /\ BatchLimits
  BY DEF BatcherInv
<1> USE <1>0
<1>1. CASE RunTop
  <2>1. \A c \in Calls : stage'[c] \in Waiting => stage[c] \in Waiting
    BY <1>1 DEF RunTop, Waiting, Lines
  <2> QED BY <1>1, <2>1, LeaveStep DEF RunTop, submitVars, execVars
<1>2. CASE RunLaunch
  BY <1>2, StartStep
<1>3. CASE RunBlock \/ RecvCompleted \/ RecvRecordsDone \/ RecvSignal \/ DrainEnd \/ AwaitOne \/ RunExit
  <2>1. UNCHANGED <<stage, arrivals, todo, settled>>
    BY Zenon, <1>3 DEF RunBlock, RecvCompleted, RecvRecordsDone, RecvSignal, DrainEnd, AwaitOne, RunExit,
                submitVars, execVars
  <2> QED BY <2>1, LeaveStep
<1>4. CASE RecvInput
  <2>1. input # <<>> /\ stage' = [stage EXCEPT ![Head(input)] = "pending"]
    BY <1>4 DEF RecvInput
  <2>2. Head(input) \in Range(input)
    BY <2>1, Popped DEF TypeOK
  <2>3. \A c \in Calls : stage'[c] \in Waiting => stage[c] \in Waiting
    BY <2>1, <2>2 DEF Waiting, Lines, TypeOK
  <2> QED BY <1>4, <2>3, LeaveStep DEF RecvInput, submitVars, execVars
<1>5. CASE RunStop \/ DrainOne
  <2>1. PICK S : CompleteQueued(S)
    BY <1>5 DEF RunStop, DrainOne
  <2>2. \A c \in Calls : stage'[c] \in Waiting => stage[c] \in Waiting
    BY <2>1 DEF CompleteQueued, Waiting
  <2> QED BY Zenon, <1>5, <2>2, LeaveStep DEF RunStop, DrainOne, submitVars, execVars
<1> QED BY <1>1, <1>2, <1>3, <1>4, <1>5 DEF Run

\* Every step of execute() on a batch is a step of the abstract queue.
LEMMA ExecuteStep == ASSUME BatcherInv, NEW b \in batches, Execute(b) PROVE Queue!Next
<1>i. /\ TypeOK /\ Finite /\ Lines /\ Batched /\ Occupied /\ Counted
      /\ RecordExclusive /\ QueueAccounting /\ MemoryHeld /\ BatchLimits
  BY DEF BatcherInv
<1> USE <1>i
<1>0. Range(b) \subseteq Calls
  BY OwnBatch
<1>1. ASSUME NEW c \in Range(b), SkipCancelled(b, c) PROVE Queue!Next
  <2>1. c \in Calls /\ {c} \in SUBSET Calls
    BY <1>0, <1>1
  <2>2. todo' = [d \in Calls |-> IF d \in {c} THEN {} ELSE todo[d]]
    BY Zenon, <1>1, <2>1 DEF SkipCancelled, TypeOK
  <2>3. \A d \in Calls : stage'[d] \in Waiting <=> stage[d] \in Waiting
    BY <1>1, <2>1 DEF SkipCancelled, TypeOK, Waiting
  <2> QED BY Zenon, <1>1, <2>1, <2>2, <2>3, AbandonStep DEF SkipCancelled, submitVars
<1>2. CASE BeginChunk(b)
  <2>1. PICK chunk : stage' = [c \in Calls |-> IF c \in chunk THEN "executing" ELSE stage[c]]
    BY Zenon, <1>2 DEF BeginChunk
  <2>2. \A c \in Calls : stage'[c] \in Waiting => stage[c] \in Waiting
    BY <2>1 DEF Waiting
  <2> QED BY Zenon, <1>2, <2>2, LeaveStep DEF BeginChunk, submitVars, execVars
<1>3. ASSUME NEW c \in Range(b), NEW k \in Keys, Publish(b, c, k) PROVE Queue!Next
  <2>1. stage' = [stage EXCEPT ![c] = "answered"] \/ stage' = stage
    BY Zenon, <1>3 DEF Publish
  <2>2. \A d \in Calls : stage'[d] \in Waiting => stage[d] \in Waiting
    BY <1>0, <2>1 DEF Waiting, TypeOK
  <2> QED BY Zenon, <1>3, <2>2, LeaveStep DEF Publish, submitVars
<1>4. CASE ChunkError(b)
  <2>1. /\ UNCHANGED <<stage, arrivals, settled>> /\ Begun(b) \in SUBSET Calls
        /\ todo' = [c \in Calls |-> IF c \in Begun(b) THEN {} ELSE todo[c]]
    BY Zenon, <1>0, <1>4 DEF ChunkError, submitVars, Begun
  <2> QED BY Zenon, <2>1, AbandonStep
<1>5. ASSUME NEW c \in Range(b), CompleteError(b, c) PROVE Queue!Next
  <2>1. \A d \in Calls : stage'[d] \in Waiting => stage[d] \in Waiting
    BY <1>0, <1>5 DEF CompleteError, Waiting, TypeOK
  <2> QED BY <1>5, <2>1, LeaveStep DEF CompleteError, submitVars
<1>6. CASE BatchDone(b)
  <2>1. \A d \in Calls : stage'[d] \in Waiting => stage[d] \in Waiting
    BY <1>6 DEF BatchDone, Waiting
  <2> QED BY <1>6, <2>1, LeaveStep DEF BatchDone, submitVars
<1> QED BY <1>1, <1>2, <1>3, <1>4, <1>5, <1>6, SettleStep DEF Execute

\* Every step maps to a step of the abstract queue or leaves it unchanged.
LEMMA QueueStep == BatcherInv /\ [Next]_vars => [Queue!Next]_(Queue!qvars)
<1> SUFFICES ASSUME BatcherInv, [Next]_vars PROVE [Queue!Next]_(Queue!qvars)
  OBVIOUS
<1>0. /\ TypeOK /\ Finite /\ Lines /\ Batched /\ Occupied /\ Counted
      /\ RecordExclusive /\ QueueAccounting /\ MemoryHeld /\ BatchLimits
  BY DEF BatcherInv
<1> USE <1>0
<1>1. ASSUME NEW c \in Calls, Reject(c) \/ Reserve(c) \/ Withdraw(c) \/ Cancel(c) PROVE Queue!Next
  <2>1. UNCHANGED <<arrivals, todo, settled>>
    BY Zenon, <1>1 DEF Reject, Reserve, Withdraw, Cancel, submitVars, execVars
  <2>2. \A d \in Calls : stage'[d] \in Waiting => stage[d] \in Waiting
    BY Zenon, <1>1 DEF Reject, Reserve, Withdraw, Cancel, TypeOK, Waiting
  <2> QED BY Zenon, <2>1, <2>2, LeaveStep
<1>2. CASE Stop \/ UNCHANGED vars
  <2>1. UNCHANGED <<stage, arrivals, todo, settled>>
    BY <1>2 DEF Stop, vars, submitVars, execVars
  <2> QED BY <2>1, LeaveStep
<1> QED BY <1>1, <1>2, ArriveStep, RunStep, ExecuteStep DEF Next, Submit

\* The batcher implements the abstract queue of records: on each record, calls
\* take effect in the order in which they entered the queue.
THEOREM BatcherImplementsQueue == Spec => ImplementsQueue
<1>1. Init => Queue!Init
  <2> SUFFICES ASSUME Init PROVE Queue!Init
    OBVIOUS
  <2>1. Len(arrivals) = 0 /\ \A c \in Calls : Arrival(c) = 0
    BY DEF Init, Arrival, Range
  <2>2. {c \in Calls : stage[c] \in {"queued", "pending"}} = {}
    BY DEF Init
  <2>3. [c \in Calls |-> Arrival(c)] = [c \in Calls |-> 0]
    BY <2>1
  <2> QED BY <2>1, <2>2, <2>3 DEF Init, Queue!Init
<1> QED BY <1>1, BatcherInvariant, QueueStep, PTL DEF Spec, ImplementsQueue, Queue!Spec

\* On each record the calls of the batcher take effect in the order of their
\* arrival, whatever selectReady() lets pass, cancellation removes or a failed
\* chunk drops: the promise of the abstract queue, carried over by the refinement.
THEOREM EffectsKeepArrivalOrder == Spec => Queue!InOrder
<1>1. Queue!QueueAssumption
  BY BatcherAssumption DEF BatcherAssumption, Queue!QueueAssumption
<1>2. Queue!Spec => Queue!InOrder
  BY <1>1, Queue!EffectsInOrder
<1> QED BY <1>2, BatcherImplementsQueue, PTL DEF ImplementsQueue

=============================================================================
