-------------------------------- MODULE LuaSort --------------------------------
(***************************************************************************)
(* table.sort of merge scripts (merge/lua_sort.go): a quicksort whose only *)
(* suspension points are its comparisons.  A comparison runs the script's  *)
(* order function, which may be no order at all, may change the table that *)
(* is being sorted, may raise an error, and may be interrupted when the    *)
(* instruction budget or the deadline of the merge is exhausted.           *)
(***************************************************************************)
EXTENDS Integers, Sequences, FiniteSets, Functions, SequencesExt, TLAPS

CONSTANTS
  Values,           \* what a cell may hold
  Key(_),           \* the place of a value in the order of an honest script
  Starts            \* [order, table]: the order function, and a non-empty sequence of values

Orders == {"weak", "arbitrary", "meddling"}

SortAssumption == Starts \subseteq [order : Orders, table : Seq(Values)]

VARIABLES
  start, table,
  first, last,      \* the range that the current call sorts
  left, right, pivot, lower, upper,    \* its locals
  stack,            \* what the calls below it go on with: ranges
  pc                \* the comparison the call is at, or how the sort ended

vars == <<start, table, first, last, left, right, pivot, lower, upper, stack, pc>>
Ended == {"done", "failed", "stopped"}

Cells == DOMAIN start.table

Init ==
  /\ start \in Starts /\ start.table # <<>> /\ table = start.table
  /\ first = 1 /\ last = Len(table)
  /\ left = table[1] /\ right = table[1] /\ pivot = table[1] /\ lower = 0 /\ upper = 0
  /\ stack = <<>> /\ pc = "loop"

-----------------------------------------------------------------------------
\* What the order function answers and the table it leaves behind.
Less(a, b) ==
  CASE start.order = "weak" -> {[yes |-> Key(a) < Key(b), table |-> table]}
    [] start.order = "arbitrary" -> [yes : BOOLEAN, table : {table}]
    [] OTHER -> [yes : BOOLEAN, table : {table} \union {[table EXCEPT ![i] = v] : i \in Cells, v \in Values}]

\* Two writes, one after the other.
Put(t, i, a, j, b) == [[t EXCEPT ![i] = a] EXCEPT ![j] = b]
Middle == (first + last) \div 2

\* The call returns; the one below goes on with the rest of its range.
Return ==
  IF stack = <<>>
  THEN pc' = "done" /\ UNCHANGED <<first, last, stack>>
  ELSE /\ first' = Last(stack).first /\ last' = Last(stack).last
       /\ stack' = Front(stack) /\ pc' = "loop"

Loop ==
  /\ pc = "loop"
  /\ IF first >= last
     THEN Return /\ UNCHANGED <<left, right>>
     ELSE left' = table[first] /\ right' = table[last] /\ pc' = "ends" /\ UNCHANGED <<first, last, stack>>
  /\ UNCHANGED <<start, table, pivot, lower, upper>>

\* less(right, left): the ends of the range.
Ends ==
  /\ pc = "ends"
  /\ \E answer \in Less(right, left) :
       table' = IF answer.yes THEN Put(answer.table, first, right, last, left) ELSE answer.table
  /\ IF last - first = 1
     THEN Return /\ UNCHANGED <<left, pivot>>
     ELSE pivot' = table'[Middle] /\ left' = table'[first] /\ pc' = "low" /\ UNCHANGED <<first, last, stack>>
  /\ UNCHANGED <<start, right, lower, upper>>

\* Three cells are in order now; of more, the middle one divides the others
\* from its place beside the end.
Partition(t) ==
  IF last - first = 2
  THEN table' = t /\ Return /\ UNCHANGED <<pivot, lower, upper>>
  ELSE /\ pivot' = t[Middle]
       /\ table' = Put(t, Middle, t[last - 1], last - 1, t[Middle])
       /\ lower' = first + 1 /\ upper' = last - 1
       /\ pc' = "lower" /\ UNCHANGED <<first, last, stack>>

\* less(pivot, left)
Low ==
  /\ pc = "low"
  /\ \E answer \in Less(pivot, left) :
       IF answer.yes
       THEN Partition(Put(answer.table, first, pivot, Middle, left)) /\ UNCHANGED right
       ELSE /\ table' = answer.table /\ right' = answer.table[last] /\ pc' = "high"
            /\ UNCHANGED <<first, last, pivot, lower, upper, stack>>
  /\ UNCHANGED <<start, left>>

\* less(right, pivot)
High ==
  /\ pc = "high"
  /\ \E answer \in Less(right, pivot) :
       Partition(IF answer.yes THEN Put(answer.table, Middle, right, last, pivot) ELSE answer.table)
  /\ UNCHANGED <<start, left, right>>

ScanLowerUnchecked ==
  /\ pc = "lower"
  /\ \E answer \in Less(table[lower], pivot) :
       /\ table' = answer.table
       /\ IF ~answer.yes THEN upper' = upper - 1 /\ pc' = "upper" /\ UNCHANGED lower
          ELSE lower' = lower + 1 /\ UNCHANGED <<upper, pc>>
  /\ UNCHANGED <<start, first, last, left, right, pivot, stack>>
\* less(cell lower, pivot): up to a cell that is not below the pivot.
ScanLower ==
  /\ pc = "lower"
  /\ \E answer \in Less(table[lower], pivot) :
       /\ table' = answer.table
       /\ IF ~answer.yes THEN upper' = upper - 1 /\ pc' = "upper" /\ UNCHANGED lower
          ELSE IF lower = last - 1 THEN pc' = "failed" /\ UNCHANGED <<lower, upper>>
          ELSE lower' = lower + 1 /\ UNCHANGED <<upper, pc>>
  /\ UNCHANGED <<start, first, last, left, right, pivot, stack>>

\* The smaller side is sorted by a call, the other one by the loop after it.
Divide(at) ==
  IF at - first < last - at
  THEN stack' = Append(stack, [first |-> at + 1, last |-> last]) /\ last' = at - 1 /\ UNCHANGED first
  ELSE stack' = Append(stack, [first |-> first, last |-> at - 1]) /\ first' = at + 1 /\ UNCHANGED last

\* The pivot's own cell and the cell it belongs in change places.
Crossed(t) == Put(t, last - 1, t[lower], lower, pivot)

\* less(pivot, cell upper): down to a cell that is not above the pivot; the two
\* cells change places, unless the scans have crossed.
ScanUpper ==
  /\ pc = "upper"
  /\ \E answer \in Less(pivot, table[upper]) :
       LET t == answer.table
       IN \/ /\ answer.yes /\ upper < lower
             /\ table' = t /\ pc' = "failed" /\ UNCHANGED <<first, last, left, right, lower, upper, stack>>
          \/ /\ answer.yes /\ upper >= lower
             /\ table' = t /\ upper' = upper - 1 /\ UNCHANGED <<first, last, left, right, lower, stack, pc>>
          \/ /\ ~answer.yes /\ upper < lower
             /\ table' = Crossed(t) /\ Divide(lower) /\ pc' = "loop" /\ UNCHANGED <<left, right, lower, upper>>
          \/ /\ ~answer.yes /\ upper >= lower
             /\ left' = t[lower] /\ right' = t[upper] /\ table' = Put(t, lower, t[upper], upper, t[lower])
             /\ lower' = lower + 1 /\ pc' = "lower" /\ UNCHANGED <<first, last, upper, stack>>
  /\ UNCHANGED <<start, pivot>>

\* CheckInterrupt, an error of the order function, or of a comparison of values
\* that have no order.
Stop ==
  /\ pc \notin Ended \union {"loop"}
  /\ pc' = "stopped"
  /\ UNCHANGED <<start, table, first, last, left, right, pivot, lower, upper, stack>>

Step == Loop \/ Ends \/ Low \/ High \/ ScanLower \/ ScanUpper
Next == Step \/ Stop
Spec == Init /\ [][Next]_vars

-----------------------------------------------------------------------------
\* The cells that the next step reads or writes.
Touched ==
  IF (pc = "loop" /\ first < last) \/ pc = "ends" THEN {first, last}
  ELSE IF pc \in {"low", "high"} THEN {first, last, Middle, last - 1}
  ELSE IF pc = "lower" THEN {lower}
  ELSE IF pc = "upper" THEN {lower, upper, last - 1}
  ELSE {}

\* Whatever the order function answers and does, sort reads and writes only cells
\* of the range it was called with, and that range lies inside the table.
InRange ==
  /\ Touched \subseteq first .. last
  /\ Touched \subseteq Cells

\* A script that does not write the table itself finds its values rearranged,
\* none lost and none doubled, after a sort, an error or an interrupt.
Occurrences(t, v) == Cardinality({i \in DOMAIN t : t[i] = v})
Rearranged ==
  start.order # "meddling" => \A v \in Values : Occurrences(table, v) = Occurrences(start.table, v)

\* With an honest order the sort succeeds and its result is in that order.
Sorts ==
  start.order = "weak" =>
    /\ pc # "failed"
    /\ pc = "done" => \A i, j \in Cells : i < j => Key(table[i]) <= Key(table[j])

\* Calls nest to a depth below the logarithm of the table's length.
ShallowStack == stack # <<>> => 2 ^ (Len(stack) + 1) <= Len(start.table)

-----------------------------------------------------------------------------
(* InRange, for tables of every length and every order function.           *)

Size == Len(start.table)
Range1(f, l) == f \in Int /\ l \in Int /\ 1 <= f /\ l <= Size

\* InRange is not inductive: what keeps the scans inside is that the one goes no
\* further than the pivot's cell and the other no further than the first scan's
\* last cell, and what keeps the ranges inside is that the stack holds only parts.
Placed ==
  /\ start \in [order : Orders, table : Seq(Values)]
  /\ Range1(first, last)
  /\ lower \in Int /\ upper \in Int
  /\ stack \in Seq([first : Int, last : Int])
  /\ \A k \in 1 .. Len(stack) : Range1(stack[k].first, stack[k].last)
  /\ pc \in {"loop", "ends", "low", "high", "lower", "upper"} \union Ended
  /\ pc = "ends" => first < last
  /\ pc \in {"low", "high"} => first + 2 <= last
  /\ pc \in {"lower", "upper"} => first + 3 <= last /\ first < lower /\ lower < last
  /\ pc = "lower" => first < upper /\ upper < last
  /\ pc = "upper" => first <= upper /\ upper < last - 1

\* The middle of a range lies in it.
LEMMA MiddleInside ==
  ASSUME NEW f \in Int, NEW l \in Int, f <= l
  PROVE  (f + l) \div 2 \in Int /\ f <= (f + l) \div 2 /\ (f + l) \div 2 <= l
  BY SMT

\* The invariant holds of the call that boundedLuaSort makes.
LEMMA InitPlaced == ASSUME SortAssumption PROVE Init => Placed
  BY SMTT(20) DEF SortAssumption, Init, Placed, Range1, Size, Ended, Orders

\* The invariant gives the property.
LEMMA PlacedInRange == Placed => InRange
<1> SUFFICES ASSUME Placed PROVE InRange
  OBVIOUS
<1> DEFINE C == 1 .. Size
<1>1. Cells = C /\ Size \in Nat
  BY DEF Placed, Cells, Size
<1>2. first <= last => Middle \in first .. last
  BY MiddleInside DEF Placed, Range1, Middle
<1>3. first .. last \subseteq C
  BY <1>1 DEF Placed, Range1
<1>4. Touched \subseteq first .. last
  BY <1>2, SMTT(20) DEF Placed, Range1, Touched, Ended
<1> QED
  BY <1>1, <1>3, <1>4 DEF InRange

\* A return goes on with a range of the stack, or ends the sort.
LEMMA ReturnPlaced ==
  ASSUME Placed, Return, UNCHANGED <<start, lower, upper>>
  PROVE  Placed'
<1>1. CASE stack = <<>>
  BY <1>1, SMTT(20) DEF Placed, Range1, Size, Return, Ended
<1>2. CASE stack # <<>>
  <2>1. Len(stack) \in Nat \ {0}
    BY <1>2 DEF Placed
  <2>2. stack' \in Seq([first : Int, last : Int]) /\ Len(stack') = Len(stack) - 1
    BY <1>2, <2>1, SMTT(20) DEF Return, Front, Placed
  <2>3. \A k \in 1 .. Len(stack') : stack'[k] = stack[k]
    BY <1>2, <2>1, <2>2, SMTT(20) DEF Return, Front, Placed
  <2>4. \A k \in 1 .. Len(stack') : Range1(stack'[k].first, stack'[k].last)
    <3> TAKE k \in 1 .. Len(stack')
    <3>1. k \in 1 .. Len(stack)
      BY <2>1, <2>2
    <3>2. Range1(stack[k].first, stack[k].last)
      BY <3>1 DEF Placed
    <3> QED
      BY <2>3, <3>2
  <2>5. Range1(first', last')
    <3>1. Len(stack) \in 1 .. Len(stack)
      BY <2>1
    <3>2. Range1(stack[Len(stack)].first, stack[Len(stack)].last)
      BY <3>1 DEF Placed
    <3>3. first' = stack[Len(stack)].first /\ last' = stack[Len(stack)].last
      BY <1>2 DEF Return, Last
    <3> QED
      BY <3>2, <3>3
  <2> QED
    BY <1>2, <2>2, <2>4, <2>5, SMTT(20) DEF Placed, Range1, Size, Return
<1> QED
  BY <1>1, <1>2

\* Partition starts both scans inside the range.
LEMMA PartitionPlaced ==
  ASSUME Placed, pc \in {"low", "high"}, NEW t, Partition(t), UNCHANGED start
  PROVE  Placed'
<1>1. CASE last - first = 2
  BY <1>1, ReturnPlaced DEF Partition
<1>2. CASE last - first # 2
  BY <1>2, SMTT(20) DEF Partition, Placed, Range1, Size
<1> QED
  BY <1>1, <1>2

\* Both parts that Divide makes lie inside the range.
LEMMA DividePlaced ==
  ASSUME Placed, pc = "upper", Divide(lower), pc' = "loop", UNCHANGED <<start, lower, upper>>
  PROVE  Placed'
<1>1. PICK f \in Int, l \in Int : stack' = Append(stack, [first |-> f, last |-> l]) /\ 1 <= f /\ l <= Size
  <2>1. CASE lower - first < last - lower
    <3>1. lower + 1 \in Int /\ last \in Int /\ 1 <= lower + 1 /\ last <= Size
      BY DEF Placed, Range1
    <3>2. stack' = Append(stack, [first |-> lower + 1, last |-> last])
      BY <2>1 DEF Divide
    <3> QED
      BY <3>1, <3>2, Zenon
  <2>2. CASE ~(lower - first < last - lower)
    <3>1. first \in Int /\ lower - 1 \in Int /\ 1 <= first /\ lower - 1 <= Size
      <4> Size \in Int
        BY DEF Placed, Size
      <4> QED
        BY DEF Placed, Range1
    <3>2. stack' = Append(stack, [first |-> first, last |-> lower - 1])
      BY <2>2 DEF Divide
    <3> QED
      BY <3>1, <3>2, Zenon
  <2> QED
    BY <2>1, <2>2
<1> DEFINE frame == [first |-> f, last |-> l]
<1>2. frame \in [first : Int, last : Int] /\ frame.first = f /\ frame.last = l
  OBVIOUS
<1> HIDE DEF frame
<1>3. stack' \in Seq([first : Int, last : Int]) /\ Len(stack') = Len(stack) + 1
  BY <1>1, <1>2 DEF Placed, frame
<1>4. \A k \in 1 .. Len(stack') : stack'[k] = IF k <= Len(stack) THEN stack[k] ELSE frame
  BY <1>1, <1>2, <1>3 DEF Placed, frame
<1>5. \A k \in 1 .. Len(stack') : Range1(stack'[k].first, stack'[k].last)
  BY <1>1, <1>2, <1>3, <1>4 DEF Placed, Range1
<1>6. Range1(first', last')
  BY SMTT(20) DEF Divide, Placed, Range1, Size
<1> QED
  BY <1>3, <1>5, <1>6, SMTT(20) DEF Placed, Range1, Size

\* Every step keeps the invariant.
LEMMA NextPlaced == Placed /\ [Next]_vars => Placed'
<1> SUFFICES ASSUME Placed, [Next]_vars PROVE Placed'
  OBVIOUS
<1>1. CASE Loop
  <2>1. CASE first >= last
    BY <1>1, <2>1, ReturnPlaced DEF Loop
  <2>2. CASE ~(first >= last)
    BY <1>1, <2>2, SMTT(20) DEF Loop, Placed, Range1, Size
  <2> QED
    BY <2>1, <2>2
<1>2. CASE Ends
  <2>1. CASE last - first = 1
    BY <1>2, <2>1, ReturnPlaced DEF Ends
  <2>2. CASE last - first # 1
    BY <1>2, <2>2, SMTT(20) DEF Ends, Placed, Range1, Size
  <2> QED
    BY <2>1, <2>2
<1>3. CASE Low
  <2>1. PICK answer \in Less(pivot, left) :
          \/ Partition(Put(answer.table, first, pivot, Middle, left))
          \/ pc' = "high" /\ UNCHANGED <<first, last, pivot, lower, upper, stack>>
    BY <1>3 DEF Low
  <2>2. CASE Partition(Put(answer.table, first, pivot, Middle, left))
    BY <1>3, <2>2, PartitionPlaced DEF Low
  <2>3. CASE pc' = "high" /\ UNCHANGED <<first, last, pivot, lower, upper, stack>>
    BY <1>3, <2>3, SMTT(20) DEF Low, Placed, Range1, Size
  <2> QED
    BY <2>1, <2>2, <2>3
<1>4. CASE High
  BY <1>4, PartitionPlaced DEF High
<1>5. CASE ScanLower
  BY <1>5, SMTT(20) DEF ScanLower, Placed, Range1, Size, Ended
<1>6. CASE ScanUpper
  <2>1. UNCHANGED start /\ pc = "upper"
    BY <1>6 DEF ScanUpper
  <2>2. \/ pc' = "failed" /\ UNCHANGED <<first, last, lower, upper, stack>>
        \/ upper >= lower /\ upper' = upper - 1 /\ UNCHANGED <<first, last, lower, stack, pc>>
        \/ Divide(lower) /\ pc' = "loop" /\ UNCHANGED <<lower, upper>>
        \/ upper >= lower /\ lower' = lower + 1 /\ pc' = "lower" /\ UNCHANGED <<first, last, upper, stack>>
    BY <1>6 DEF ScanUpper
  <2>3. CASE Divide(lower) /\ pc' = "loop" /\ UNCHANGED <<lower, upper>>
    BY <2>1, <2>3, DividePlaced
  <2>4. CASE pc' = "failed" /\ UNCHANGED <<first, last, lower, upper, stack>>
    BY <2>1, <2>4, SMTT(20) DEF Placed, Range1, Size, Ended
  <2>5. CASE upper >= lower /\ upper' = upper - 1 /\ UNCHANGED <<first, last, lower, stack, pc>>
    BY <2>1, <2>5, SMTT(20) DEF Placed, Range1, Size
  <2>6. CASE upper >= lower /\ lower' = lower + 1 /\ pc' = "lower" /\ UNCHANGED <<first, last, upper, stack>>
    BY <2>1, <2>6, SMTT(20) DEF Placed, Range1, Size
  <2> QED
    BY <2>2, <2>3, <2>4, <2>5, <2>6
<1>7. CASE Stop
  BY <1>7, SMTT(20) DEF Stop, Placed, Range1, Size, Ended
<1>8. CASE UNCHANGED vars
  BY <1>8, SMTT(20) DEF vars, Placed, Range1, Size
<1> QED
  BY <1>1, <1>2, <1>3, <1>4, <1>5, <1>6, <1>7, <1>8 DEF Next, Step

\* Whatever the order function answers and writes, the sort of a table of any
\* length reads and writes only cells of the range it was called with.
THEOREM SortStaysInRange == ASSUME SortAssumption PROVE Spec => []InRange
<1>1. Spec => []Placed
  BY InitPlaced, NextPlaced, PTL DEF Spec
<1> QED
  BY <1>1, PlacedInRange, PTL
=============================================================================
