-------------------------- MODULE LuaSubstitutions --------------------------
(***************************************************************************)
(* string.gsub and string.gmatch of merge programs: both walk over a text  *)
(* from match to match, one by asking find for the next match and one by   *)
(* trying every position.                                                  *)
(*                                                                         *)
(* A pattern is what it matches: ends[p] is the end of its match at        *)
(* position p (LuaPatterns).                                               *)
(***************************************************************************)
EXTENDS Integers, Sequences, FiniteSets, FiniteSetsExt, SequencesExt

CONSTANTS
  Lengths,     \* lengths of texts
  Limits,      \* replacement limits given by programs
  Maximum,     \* bytes a native call may build
  PieceSizes   \* sizes of replacement texts

None == -1

VARIABLES
  op,          \* gsub or gmatch
  length,      \* of the text
  ends,        \* what the pattern matches
  anchored,    \* the pattern begins with ^ (gsub)
  limit,       \* maximum number of replacements; the first position for gmatch
  position, lastEnd, count,
  out,         \* output: <<"text", byte>> and <<"new", match>>, one per byte
  matched,     \* matches replaced or returned by the iterator
  changed,
  mode         \* running, done or error

vars == <<op, length, ends, anchored, limit, position, lastEnd, count, out, matched, changed, mode>>
input == <<op, length, ends, anchored, limit>>

Init ==
  /\ op \in {"gsub", "gmatch"} /\ anchored \in BOOLEAN
  /\ op = "gmatch" => ~anchored
  /\ length \in Lengths
  /\ ends \in {f \in [0..length -> None..length] : \A p \in 0..length : f[p] = None \/ f[p] >= p}
  /\ limit \in IF op = "gsub" THEN Limits \cup {length + 1} ELSE 0..(length + 1)
  /\ position = IF op = "gsub" THEN 0 ELSE limit
  /\ lastEnd = None /\ count = 0 /\ out = <<>> /\ matched = <<>>
  /\ changed = FALSE /\ mode = "running"

Copy(a, b) == [k \in 1..(b - a) |-> <<"text", a + k>>]

\* find, from a position on.
Starts(p) == {q \in (IF anchored THEN {p} ELSE p..length) : ends[q] # None}

-----------------------------------------------------------------------------
(* gsub.                                                                   *)

Searching == mode = "running" /\ op = "gsub" /\ position <= length /\ count < limit

\* The output so far, the new position and what a replaced match leaves.
Advance(start, end, piece, replaced) ==
  LET here == IF replaced THEN end ELSE start
      step == IF here = start THEN 1 ELSE 0
      text == out \o Copy(position, start) \o piece \o (IF step = 1 /\ here < length THEN Copy(here, here + 1) ELSE <<>>)
  IN IF Len(text) > Maximum THEN mode' = "error" /\ UNCHANGED <<out, position>>
     ELSE /\ out' = text /\ position' = here + step
          /\ mode' = IF anchored THEN "rest" ELSE "running"

\* A replacement: a text with its captures filled in, or the value of a table or
\* of a function, which may also be nil.
Replace(piece, differs) ==
  /\ Searching
  /\ \E starts \in {Starts(position)} :
       /\ starts # {} /\ ends[Min(starts)] # lastEnd
       /\ \E start \in {Min(starts)} :
            /\ piece.kept \/ ~(piece.size = 0 /\ ends[start] = start)
            /\ Advance(start, ends[start],
                       IF piece.kept THEN Copy(start, ends[start]) ELSE [k \in 1..piece.size |-> <<"new", start>>], TRUE)
            /\ matched' = Append(matched, <<start, ends[start]>>)
            /\ lastEnd' = ends[start]
  /\ count' = count + 1
  /\ changed' = (changed \/ differs)
  /\ UNCHANGED input

Pieces == {[kept |-> TRUE, size |-> 0]} \cup {[kept |-> FALSE, size |-> n] : n \in PieceSizes}
\* replace reports a text that equals the match as no change; a table or function
\* reports any value but nil and false.
Substitute == \E piece \in Pieces : \E differs \in BOOLEAN : (~piece.kept => differs) /\ Replace(piece, differs)

\* An empty match right behind another is passed over.
Suppress ==
  /\ Searching
  /\ \E starts \in {Starts(position)} :
       /\ starts # {} /\ ends[Min(starts)] = lastEnd
       /\ Advance(Min(starts), lastEnd, <<>>, FALSE)
  /\ UNCHANGED <<input, lastEnd, count, matched, changed>>

NoMore ==
  /\ mode = "running" /\ op = "gsub"
  /\ IF Searching THEN Starts(position) = {} ELSE TRUE
  /\ mode' = "rest"
  /\ UNCHANGED <<input, position, lastEnd, count, out, matched, changed>>

\* What is left of the text is copied.
Rest ==
  /\ mode = "rest"
  /\ \E text \in {IF position <= length THEN out \o Copy(position, length) ELSE out} :
       IF Len(text) > Maximum THEN mode' = "error" /\ UNCHANGED out
       ELSE mode' = "done" /\ out' = text
  /\ UNCHANGED <<input, position, lastEnd, count, matched, changed>>

\* The pattern or the replacement is faulty, the function fails, or the program
\* is interrupted.
Fail ==
  /\ mode = "running"
  /\ mode' = "error"
  /\ UNCHANGED <<input, position, lastEnd, count, out, matched, changed>>

-----------------------------------------------------------------------------
(* gmatch: one round of the iterator's loop.                               *)

Iterate ==
  /\ mode = "running" /\ op = "gmatch" /\ position <= length
  /\ IF ends[position] # None /\ ends[position] # lastEnd
     THEN /\ matched' = Append(matched, <<position, ends[position]>>)
          /\ lastEnd' = ends[position]
          /\ position' = IF ends[position] = position THEN position + 1 ELSE ends[position]
     ELSE position' = position + 1 /\ UNCHANGED <<matched, lastEnd>>
  /\ UNCHANGED <<input, count, out, changed, mode>>

EndIteration ==
  /\ mode = "running" /\ op = "gmatch" /\ position > length
  /\ mode' = "done"
  /\ UNCHANGED <<input, position, lastEnd, count, out, matched, changed>>

Ended == mode \in {"done", "error"} /\ UNCHANGED vars

Step == Substitute \/ Suppress \/ NoMore \/ Rest \/ Iterate \/ EndIteration
Next == Step \/ Fail \/ Ended

Spec == Init /\ [][Next]_vars /\ WF_vars(Step)

-----------------------------------------------------------------------------
\* The matches of the whole text from position a on: a match counts if it begins
\* in no earlier one and is not an empty one at the end of an earlier one.
Chosen(a) ==
  CHOOSE M \in SUBSET (a..length) :
    \A p \in a..length :
      p \in M <=> /\ ends[p] # None
                  /\ \A m \in M : m < p => ends[m] <= p /\ ~(ends[m] = p /\ ends[p] = p)

\* gsub and gmatch visit the same matches, in order: those of the text as a whole.
\* gsub stops at its limit and an anchored pattern counts once, at the beginning.
SameMatches ==
  mode = "done" =>
    LET all == SetToSortSeq(Chosen(IF op = "gsub" THEN 0 ELSE limit), <)
        allowed == IF op = "gmatch" THEN Len(all) ELSE Min({Len(all), limit})
    IN IF anchored THEN matched = IF ends[0] # None /\ limit > 0 THEN <<<<0, ends[0]>>>> ELSE <<>>
       ELSE matched = [n \in 1..allowed |-> <<all[n], ends[all[n]]>>]

\* Every byte outside the replaced matches is in the output once and in order,
\* and the text of each replacement stands where its match was.
OutputExact ==
  mode = "done" /\ op = "gsub" =>
    LET inside(k) == \E n \in DOMAIN matched : matched[n][1] < k /\ k <= matched[n][2]
        place(x) == IF x[1] = "text" THEN 2 * x[2] ELSE 2 * x[2] + 1
    IN /\ \A k \in 1..length : ~inside(k) => Cardinality({j \in DOMAIN out : out[j] = <<"text", k>>}) = 1
       /\ \A j \in 1..(Len(out) - 1) : place(out[j]) <= place(out[j + 1])
       /\ \A j \in DOMAIN out : out[j][1] = "new" => \E n \in DOMAIN matched : matched[n][1] = out[j][2]
       /\ count = Len(matched)

\* The original value is returned, which keeps what a bridge knows of it, only if
\* the output is the same text.
SameIsSame == mode = "done" /\ op = "gsub" /\ ~changed => out = Copy(0, length)

\* No call builds more than it may.
WithinMaximum == Len(out) <= Maximum

=============================================================================
