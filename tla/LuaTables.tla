------------------------------- MODULE LuaTables -------------------------------
(***************************************************************************)
(* The table library of merge scripts (merge/lua_table.go): move, concat,  *)
(* insert, remove, pack and unpack walk over a table one cell at a time,   *)
(* and the merge may be interrupted before each of them.  Indices are      *)
(* 64-bit integers; here they have a smaller range, with the same          *)
(* overflow.  Scripts cannot set metatables: cells have no metamethods.    *)
(***************************************************************************)
EXTENDS Integers, Sequences, SequencesExt

CONSTANTS
  MaxInt64,         \* the greatest index
  Tables,           \* contents of a table: [Int64 -> values and Nil]
  Calls,            \* the calls with their arguments
  Nil, Separator,
  Size(_),          \* bytes of a value, or of the separator, as text
  Maximum,          \* bytes that concat may build
  MaxResults,       \* 1000000: results of unpack
  MaxStackSlots     \* slots of the stack of a merge

MinInt64 == -MaxInt64 - 1
Int64 == MinInt64 .. MaxInt64
Wrap(n) == ((n - MinInt64) % (2 * MaxInt64 + 2)) + MinInt64
\* uint64(last) - uint64(first) + 1
Count(first, last) == (last - first + 1) % (2 * MaxInt64 + 2)

TablesAssumption ==
  /\ MaxInt64 \in Nat \ {0} /\ Maximum \in Nat /\ MaxResults \in 1 .. MaxInt64 /\ MaxStackSlots \in Nat
  /\ \A t \in Tables : DOMAIN t = Int64

VARIABLES
  call, before,     \* the call, and the tables it found
  tables,           \* [1 .. 2 -> contents]; a move may copy from the first to the second
  length,           \* what ObjLen answered
  index, result,    \* the loop's index; what the call returns
  pc                \* "start", "loop", "copy", or how the call ended

vars == <<call, before, tables, length, index, result, pc>>
Ended == {"done", "failed", "stopped"}

\* A table's length is a border of it; a table with holes has several.
Borders(t) ==
  {n \in 0 .. MaxInt64 - 1 : /\ n = 0 \/ t[n] # Nil
                             /\ t[n + 1] = Nil}

Init ==
  /\ call \in Calls /\ before \in [1 .. 2 -> Tables] /\ tables = before
  /\ length \in Borders(tables[1]) /\ index = 0 /\ result = <<>> /\ pc = "start"

-----------------------------------------------------------------------------
Fail == pc' = "failed" /\ UNCHANGED <<tables, index, result>>
Return(values) == pc' = "done" /\ result' = values
Enter(at) == pc' = "loop" /\ index' = at /\ UNCHANGED <<tables, result>>

Destination == IF call.same THEN 1 ELSE 2
\* The offset of a step: overlapping cells are copied from the far end.
Offset(at) ==
  IF call.same /\ call.target > call.first /\ call.target <= call.last
  THEN Count(call.first, call.last) - 1 - at ELSE at

LuaMove ==
  /\ call.op = "move"
  /\ \/ /\ pc = "start"
        /\ IF call.first > call.last THEN Return(<<>>) /\ UNCHANGED <<tables, index>>
           ELSE IF \/ Count(call.first, call.last) \in {0} \union MaxInt64 + 1 .. 2 * MaxInt64 + 1
                   \/ call.target > MaxInt64 - (Count(call.first, call.last) - 1)
           THEN Fail
           ELSE Enter(0)
     \/ /\ pc = "loop"
        /\ tables' = [tables EXCEPT ![Destination][call.target + Offset(index)] =
                        tables[1][call.first + Offset(index)]]
        /\ index' = index + 1
        /\ IF index' = Count(call.first, call.last) THEN Return(<<>>) ELSE UNCHANGED <<result, pc>>

First == IF call.first = Nil THEN 1 ELSE call.first
LastIndex == IF call.last = Nil THEN length ELSE call.last
Bytes(parts) == FoldLeft(LAMBDA n, part : n + Size(part), 0, parts)

Joined(part) == IF index = First THEN <<part>> ELSE result \o <<Separator, part>>

\* The loop ends at the last index before it is counted past.
Advance(parts) ==
  IF index = LastIndex THEN Return(parts) /\ UNCHANGED index
  ELSE index' = Wrap(index + 1) /\ result' = parts /\ UNCHANGED pc

LuaConcat ==
  /\ call.op = "concat"
  /\ \/ /\ pc = "start"
        /\ IF First > LastIndex THEN Return(<<>>) /\ UNCHANGED <<tables, index>> ELSE Enter(First)
     \/ /\ pc = "loop"
        /\ IF tables[1][index] = Nil \/ Bytes(Joined(tables[1][index])) > Maximum THEN Fail
           ELSE Advance(Joined(tables[1][index])) /\ UNCHANGED tables

Position(default) == IF call.position = Nil THEN default ELSE call.position

\* position may be one past the last cell.
InsertAllowed(position) == position >= 1 /\ position - 1 <= length
LuaInsert ==
  /\ call.op = "insert"
  /\ \/ pc = "start" /\ IF InsertAllowed(Position(length + 1)) THEN Enter(length + 1) ELSE Fail
     \/ /\ pc = "loop" /\ index > Position(length + 1)
        /\ tables' = [tables EXCEPT ![1][index] = tables[1][index - 1]]
        /\ index' = index - 1 /\ UNCHANGED <<result, pc>>
     \/ /\ pc = "loop" /\ index = Position(length + 1)
        /\ tables' = [tables EXCEPT ![1][index] = call.value]
        /\ Return(<<>>) /\ UNCHANGED index

\* position may be the length, which is 0 for an empty table, or one past it.
RemoveAllowed(position) == position = length \/ (position >= 1 /\ position - 1 <= length)
LuaRemove ==
  /\ call.op = "remove"
  /\ \/ /\ pc = "start"
        /\ IF ~RemoveAllowed(Position(length)) THEN Fail
           ELSE IF Position(length) > length THEN Return(<<Nil>>) /\ UNCHANGED <<tables, index>>
           ELSE /\ result' = <<tables[1][Position(length)]>>
                /\ index' = Position(length) /\ pc' = "loop" /\ UNCHANGED tables
     \/ /\ pc = "loop" /\ index < length
        /\ tables' = [tables EXCEPT ![1][index] = tables[1][index + 1]]
        /\ index' = index + 1 /\ UNCHANGED <<result, pc>>
     \/ /\ pc = "loop" /\ index >= length
        /\ tables' = [tables EXCEPT ![1][length] = Nil]
        /\ Return(result) /\ UNCHANGED index

\* CheckStack: the results fit on the stack above the frame of the call.
UnpackAllowed(count) == count # 0 /\ count <= MaxResults /\ call.frame + count <= MaxStackSlots
\* Every value is collected before the first one is returned.
LuaUnpack ==
  /\ call.op = "unpack"
  /\ \/ /\ pc = "start"
        /\ IF First > LastIndex THEN Return(<<>>) /\ UNCHANGED <<tables, index>>
           ELSE IF UnpackAllowed(Count(First, LastIndex)) THEN Enter(0) ELSE Fail
     \/ /\ pc = "loop"
        /\ index' = index + 1
        /\ result' = Append(result, tables[1][First + index])
        /\ pc' = IF index' = Count(First, LastIndex) THEN "copy" ELSE pc
        /\ UNCHANGED tables
     \/ pc = "copy" /\ Return(result) /\ UNCHANGED <<tables, index>>

\* A table of the arguments; trailing nils leave it shorter than its n.
LuaPack ==
  /\ call.op = "pack"
  /\ \/ pc = "start" /\ tables' = [tables EXCEPT ![1] = [i \in Int64 |-> Nil]]
        /\ IF call.arguments = <<>> THEN Return(<<0>>) /\ UNCHANGED index
           ELSE pc' = "loop" /\ index' = 1 /\ UNCHANGED result
     \/ /\ pc = "loop"
        /\ tables' = [tables EXCEPT ![1][index] = call.arguments[index]]
        /\ index' = index + 1
        /\ IF index = Len(call.arguments) THEN Return(<<Len(call.arguments)>>) ELSE UNCHANGED <<result, pc>>

\* CheckInterrupt fails inside a loop.
Interrupt == pc \in {"loop", "copy"} /\ pc' = "stopped" /\ UNCHANGED <<tables, index, result>>

Step == (LuaMove \/ LuaConcat \/ LuaInsert \/ LuaRemove \/ LuaUnpack \/ LuaPack) /\ UNCHANGED <<call, before, length>>
Next == Step \/ (Interrupt /\ UNCHANGED <<call, before, length>>)
Spec == Init /\ [][Next]_vars

-----------------------------------------------------------------------------
\* A move leaves exactly the values that the range held before it in the target
\* range, however the two overlap; it is refused exactly when the range or its
\* target has no indices, and then nothing has moved.
MoveExact ==
  call.op = "move" =>
    LET span == call.last - call.first
        target == call.target .. call.target + span
        unfit == span >= 0 /\ (span + 1 > MaxInt64 \/ call.target + span > MaxInt64)
    IN /\ pc = "done" =>
            tables[Destination] = [k \in Int64 |-> IF k \in target THEN before[1][call.first + (k - call.target)]
                                                   ELSE before[Destination][k]]
       /\ pc = "failed" => unfit /\ tables = before
       /\ pc = "loop" => ~unfit

\* insert and remove shift the cells between the position and the border by one
\* and no other cell; remove returns the value that was at the position.
ShiftExact ==
  LET at == Position(IF call.op = "insert" THEN length + 1 ELSE length)
      old == before[1]
  IN /\ call.op = "insert" /\ pc = "done" =>
          tables[1] = [k \in Int64 |-> IF k = at THEN call.value
                                       ELSE IF k \in at + 1 .. length + 1 THEN old[k - 1] ELSE old[k]]
     /\ call.op = "remove" /\ pc = "done" =>
          /\ result = <<IF at > length THEN Nil ELSE old[at]>>
          /\ tables[1] = [k \in Int64 |-> IF k \in at .. length - 1 THEN old[k + 1]
                                          ELSE IF k = length /\ at <= length THEN Nil ELSE old[k]]
     /\ call.op \in {"insert", "remove"} /\ pc = "failed" => at \notin 1 .. length + 1 /\ tables = before

\* concat returns the parts of its range in order with one separator between
\* neighbours, never more than the limit, and fails only over a cell without
\* text or a text beyond the limit.
Whole ==
  [i \in 1 .. 2 * (LastIndex - First) + 1 |->
     IF i % 2 = 1 THEN before[1][First + (i \div 2)] ELSE Separator]
ConcatExact ==
  call.op = "concat" =>
    /\ pc = "done" => result = (IF First > LastIndex THEN <<>> ELSE Whole) /\ Bytes(result) <= Maximum
    /\ pc = "failed" => \/ \E k \in First .. LastIndex : before[1][k] = Nil
                        \/ Bytes(Whole) > Maximum

\* unpack returns the cells of its range; it refuses a range that has too many
\* for it or for what is left of the stack, the range of all indices included,
\* whose count overflows to none.
UnpackExact ==
  call.op = "unpack" =>
    /\ pc = "done" => result = [i \in 1 .. LastIndex - First + 1 |-> before[1][First + i - 1]]
    /\ pc = "failed" <=> /\ pc # "start" /\ LastIndex >= First
                         /\ \/ LastIndex - First + 1 > MaxResults
                            \/ call.frame + LastIndex - First + 1 > MaxStackSlots

\* At every moment, also after an interrupt or an error, only the cells that the
\* call is meant to write differ from what it found.
Written ==
  CASE call.op = "move" -> {IF call.same THEN 1 ELSE 2} \X (call.target .. call.target + (call.last - call.first))
    [] call.op = "insert" -> {1} \X (Position(length + 1) .. length + 1)
    [] call.op = "remove" -> {1} \X (Position(length) .. length)
    [] call.op = "pack" -> {1} \X Int64
    [] OTHER -> {}
Confined == \A i \in 1 .. 2, k \in Int64 : tables[i][k] # before[i][k] => <<i, k>> \in Written
=============================================================================
