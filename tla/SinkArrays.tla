------------------------------ MODULE SinkArrays ------------------------------
(***************************************************************************)
(* The sink.v1 functions of merge scripts on JSON arrays and objects       *)
(* (merge/lua_sink_v1.go).  A call may be given the same array twice, an   *)
(* array with holes, or something else; the key function of deduplicate is *)
(* a script and may write the array that is being walked.  The merge may   *)
(* be interrupted before every item.                                       *)
(***************************************************************************)
EXTENDS Integers, Sequences, FiniteSets, SequencesExt

CONSTANTS
  Arrays,           \* the arrays of a script
  Contents,         \* what the cells 1 .. MaxCells of an array may hold at the start
  MaxCells,         \* bound: cells of an array
  Nil, Items,       \* Items: strings, numbers, tables
  Strings,          \* the items that are strings
  Empty,            \* the empty string
  Key(_),           \* the key of an item; Nil when the function returns no valid one
  Calls             \* the calls with their arguments

ArraysAssumption ==
  /\ Strings \subseteq Items /\ Empty \in Strings /\ Nil \notin Items /\ MaxCells \in Nat \ {0}
  /\ Contents \subseteq [1 .. MaxCells -> Items \union {Nil}]

VARIABLES
  call, before,
  arrays,           \* [Arrays -> cells]
  target,           \* the field of the target object
  lengths,          \* [Arrays -> Len()] as read when the call began
  index, part,      \* the loop's index, and which source of a union it walks
  seen, result,     \* the result is a new array
  pc                \* "start", "loop", or how the call ended

vars == <<call, before, arrays, target, lengths, index, part, seen, result, pc>>

\* A length is a border of the cells; with holes there are several.
Borders(cells) == {n \in 0 .. MaxCells : /\ n = 0 \/ cells[n] # Nil
                                         /\ n = MaxCells \/ cells[n + 1] = Nil}
Count(cells) == Cardinality({i \in 1 .. MaxCells : cells[i] # Nil})

Init ==
  /\ call \in Calls /\ arrays \in [Arrays -> Contents] /\ before = arrays
  /\ target = Nil /\ index = 1 /\ part = 1 /\ seen = {} /\ result = <<>> /\ pc = "start"
  /\ lengths \in {f \in [Arrays -> 0 .. MaxCells] : \A a \in Arrays : f[a] \in Borders(arrays[a])}

-----------------------------------------------------------------------------
Fail == pc' = "failed" /\ UNCHANGED <<arrays, target, index, part, seen, result>>
Done == pc' = "done" /\ UNCHANGED <<arrays, target, index, part, seen, result>>
Enter == pc' = "loop" /\ UNCHANGED <<arrays, target, index, part, seen, result>>

\* requireJSONArray: an array's length is the number of its items.
Require(value) == value \in Arrays /\ lengths[value] = Count(arrays[value])
RequireOrNil(value) == value = Nil \/ Require(value)

\* target.SetInt(targetLength+index, source.GetInt(index))
AppendItem(to, from, at) == {[arrays EXCEPT ![to][lengths[to] + at] = arrays[from][at]]}
AppendAll ==
  /\ call.op = "append"
  /\ \/ /\ pc = "start"
        /\ IF ~Require(call.left) \/ ~RequireOrNil(call.right) THEN Fail
           ELSE IF call.right = Nil \/ lengths[call.right] = 0 THEN Done
           ELSE Enter
     \/ /\ pc = "loop"
        /\ arrays' \in AppendItem(call.left, call.right, index)
        /\ index' = index + 1 /\ pc' = IF index = lengths[call.right] THEN "done" ELSE pc
        /\ UNCHANGED <<target, part, seen, result>>

\* What the key function leaves the walked array as.
Left(cells) ==
  IF call.meddles THEN {cells} \union {[cells EXCEPT ![i] = v] : i \in 1 .. MaxCells, v \in Items \union {Nil}} ELSE {cells}

\* result.SetInt(result.Len()+1, item); a nil adds nothing.
Added(item) == IF item = Nil THEN result ELSE Append(result, item)

\* The first item of a key is kept.
Keep(item) == IF Key(item) \in seen THEN result ELSE Added(item)

\* items.Len() is read again before every item.
Deduplicate ==
  /\ call.op = "deduplicate"
  /\ \/ pc = "start" /\ IF Require(call.left) THEN Enter ELSE Fail
     \/ /\ pc = "loop"
        /\ \E n \in Borders(arrays[call.left]) :
             IF index > n THEN Done
             ELSE LET item == arrays[call.left][index]
                  IN IF Key(item) = Nil THEN Fail
                     ELSE /\ \E cells \in Left(arrays[call.left]) : arrays' = [arrays EXCEPT ![call.left] = cells]
                          /\ result' = Keep(item) /\ seen' = seen \union {Key(item)}
                          /\ index' = index + 1 /\ UNCHANGED <<target, part, pc>>

\* The first item of the tail.
TailStart(length, limit) == IF limit < length THEN length - limit + 1 ELSE 1
KeepTail ==
  /\ call.op = "tail"
  /\ \/ /\ pc = "start"
        /\ IF ~Require(call.left) \/ call.limit < 0 THEN Fail
           ELSE IF call.limit = 0 \/ lengths[call.left] = 0 THEN Done
           ELSE /\ index' = TailStart(lengths[call.left], call.limit)
                /\ pc' = "loop" /\ UNCHANGED <<arrays, target, part, seen, result>>
     \/ /\ pc = "loop"
        /\ result' = Added(arrays[call.left][index])
        /\ index' = index + 1 /\ pc' = IF index = lengths[call.left] THEN "done" ELSE pc
        /\ UNCHANGED <<arrays, target, part, seen>>

Source == IF part = 1 THEN call.left ELSE call.right
\* appendUniqueStrings for the left array, then for the right one.
UnionStrings ==
  /\ call.op = "union"
  /\ \/ pc = "start" /\ IF RequireOrNil(call.left) /\ RequireOrNil(call.right) THEN Enter ELSE Fail
     \/ /\ pc = "loop"
        /\ IF Source = Nil \/ index > lengths[Source]
           THEN /\ part' = part + 1 /\ index' = 1 /\ pc' = IF part = 2 THEN "done" ELSE pc
                /\ UNCHANGED <<arrays, target, seen, result>>
           ELSE IF arrays[Source][index] \notin Strings THEN Fail
           ELSE /\ result' = IF arrays[Source][index] \in seen THEN result ELSE Append(result, arrays[Source][index])
                /\ seen' = seen \union {arrays[Source][index]}
                /\ index' = index + 1 /\ UNCHANGED <<arrays, target, part, pc>>

Assign(value) == target' = value /\ pc' = "done" /\ UNCHANGED <<arrays, index, part, seen, result>>

\* value is the source's field; any type but a string is refused.
ReplaceNonemptyString ==
  /\ call.op = "string" /\ pc = "start"
  /\ IF call.value \in {Nil, Empty} THEN Done
     ELSE IF call.value \notin Strings THEN Fail
     ELSE Assign(call.value)

ReplaceNonemptyArray ==
  /\ call.op = "array" /\ pc = "start"
  /\ IF call.value = Nil THEN Done
     ELSE IF ~Require(call.value) THEN Fail
     ELSE IF lengths[call.value] = 0 THEN Done
     ELSE Assign(call.value)

\* checkSinkV1Work fails, or the key function does.
Interrupt == pc = "loop" /\ pc' = "stopped" /\ UNCHANGED <<arrays, target, index, part, seen, result>>

Step == \/ AppendAll \/ Deduplicate \/ KeepTail \/ UnionStrings \/ ReplaceNonemptyString \/ ReplaceNonemptyArray
        \/ Interrupt
Next == Step /\ UNCHANGED <<call, before, lengths>>
Spec == Init /\ [][Next]_vars

-----------------------------------------------------------------------------
\* The gaps of an array: missing cells below an item.
Gaps(cells) == {i \in 0 .. MaxCells - 1 : /\ i = 0 \/ cells[i] # Nil
                                          /\ cells[i + 1] = Nil
                                          /\ \E j \in i + 1 .. MaxCells : cells[j] # Nil}
Given == {call.left, call.right} \intersect Arrays
Dense == call.op \in {"string", "array"} \/ \A value \in Given : Gaps(before[value]) = {}
Meddles == call.op = "deduplicate" /\ call.meddles
Sequence(value) == IF value = Nil THEN <<>> ELSE SubSeq(before[value], 1, Count(before[value]))
FirstOf(items, key(_)) ==
  LET first(i) == \A j \in 1 .. i - 1 : key(items[j]) # key(items[i])
  IN FoldLeft(LAMBDA kept, i : IF first(i) THEN Append(kept, items[i]) ELSE kept, <<>>, [i \in DOMAIN items |-> i])

\* A call on arrays without gaps that completes returns what the guide promises: deduplicate the first
\* item of every key, keep_tail the last limit items, union_strings the strings
\* of both arrays once in order, and the replacements a non-empty value only.
ResultExact ==
  pc = "done" /\ Dense /\ ~Meddles =>
    CASE call.op = "deduplicate" -> result = FirstOf(Sequence(call.left), Key)
      [] call.op = "tail" ->
           LET items == Sequence(call.left)
           IN /\ Len(result) = IF call.limit < Len(items) THEN call.limit ELSE Len(items)
              /\ IsSuffix(result, items)
      [] call.op = "union" -> result = FirstOf(Sequence(call.left) \o Sequence(call.right), LAMBDA s : s)
      [] call.op = "string" -> target = IF call.value \in Strings \ {Empty} THEN call.value ELSE Nil
      [] call.op = "array" -> target = IF call.value # Nil /\ Sequence(call.value) # <<>> THEN call.value ELSE Nil
      [] OTHER -> TRUE

\* append_all leaves its target's items followed by the source's, also when the
\* two are one array; until then the target is its items and a prefix of those.
Appended(cells) == SubSeq(cells, 1, Count(cells))
AppendExact ==
  call.op = "append" /\ Dense /\ pc \in {"loop", "done", "stopped"} =>
    LET now == Appended(arrays[call.left])
        all == Sequence(call.left) \o Sequence(call.right)
    IN /\ IsPrefix(Sequence(call.left), now) /\ IsPrefix(now, all)
       /\ pc = "done" => now = all

\* Nothing but append_all's target is ever written, and a refused call has
\* written nothing: only a key function changes an array that is walked.
ArgumentsKept ==
  /\ \A a \in Arrays : arrays[a] # before[a] => \/ call.op = "append" /\ a = call.left
                                                \/ Meddles /\ a = call.left
  /\ pc = "failed" => target = Nil /\ (Meddles \/ arrays = before)

\* What is not an array is refused, and so is every array with one gap, whatever
\* border its table reports as its length: the number of its items is none.  With
\* more gaps a border can be that number, as 2 is of the cells 2 and 4.
SparseRefused ==
  pc \in {"loop", "done"} /\ call.op \in {"append", "deduplicate", "tail", "union"} =>
    \A value \in {call.left, call.right} \ {Nil} :
      value \in Arrays /\ Cardinality(Gaps(before[value])) # 1
=============================================================================
