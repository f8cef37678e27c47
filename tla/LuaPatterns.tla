---------------------------- MODULE LuaPatterns -----------------------------
(***************************************************************************)
(* The Lua pattern matcher of merge programs: string.find and string.match *)
(* search a text for a pattern by backtracking over a stack of native      *)
(* calls, while captures are kept in one array that calls update in place  *)
(* and restore when they fail.                                             *)
(*                                                                         *)
(* A pattern is a sequence of tokens: a character, a class or set, or one  *)
(* of the operators.  Its meaning is given separately, without a search,   *)
(* as the preferred way to divide the text among the items of the pattern. *)
(***************************************************************************)
EXTENDS Integers, Sequences, FiniteSets, FiniteSetsExt, SequencesExt

CONSTANTS
  Texts,          \* texts: sequences of characters
  Patterns,       \* patterns: sequences of tokens
  Froms,          \* start arguments
  Class,          \* token -> the characters it stands for, for classes and sets
  Sets,           \* the tokens among them that are written in brackets
  Nul,            \* the byte 0, which surrounds a text for %f
  MaxMatchCalls,  \* maxMatchCalls
  MaxCaptures     \* luaMaxCaptures

VARIABLES
  text, pattern, from,   \* the arguments
  at,                    \* where luaMatchFrom tries the pattern, 0-based
  mode,                  \* start, match, return, found, none or error
  cause,                 \* of an error
  si, pp,                \* position in the text (0-based) and in the pattern
  res,                   \* what the last call returned: an end, or -1
  stack,                 \* the calls of match that have not returned
  cap                    \* captures up to level

vars == <<text, pattern, from, at, mode, cause, si, pp, res, stack, cap>>
input == <<text, pattern, from>>

Unfinished == -1
Position == -2
Repeats == {"*", "+", "-", "?"}

Init ==
  /\ text \in Texts /\ pattern \in Patterns /\ from \in Froms
  /\ at = 0 /\ mode = "start" /\ cause = "" /\ si = 0 /\ pp = 1 /\ res = 0
  /\ stack = <<>> /\ cap = <<>>

-----------------------------------------------------------------------------
(* Arguments.                                                              *)

\* Where a search begins: counted from the end if negative, clamped to the text.
Start(position, length) ==
  LET p == IF position < 0 THEN position + length + 1 ELSE position
  IN Min({Max({1, p}) - 1, length + 1})

Anchored == pattern # <<>> /\ pattern[1] = "^"
First == IF Anchored THEN 2 ELSE 1

IsPlain == \A k \in DOMAIN pattern : pattern[k] \notin {"^", "$", "(", "%", "%b", "%f", "%0", "%1"} \cup Repeats \cup DOMAIN Class

\* The first place at or after s where the pattern occurs literally, or -1.
Index(s) ==
  LET n == Len(pattern)
      hits == {i \in s..(Len(text) - n) : SubSeq(text, i + 1, i + n) = pattern}
  IN IF hits = {} THEN -1 ELSE Min(hits)

Fail(reason) ==
  /\ mode' = "error" /\ cause' = reason
  /\ at' = 0 /\ si' = 0 /\ pp' = 1 /\ res' = 0 /\ stack' = <<>> /\ cap' = <<>>
  /\ UNCHANGED input

\* A start beyond the text finds nothing.
Beyond ==
  /\ mode = "start" /\ Start(from, Len(text)) > Len(text)
  /\ mode' = "none"
  /\ UNCHANGED <<input, at, cause, si, pp, res, stack, cap>>

\* find looks for a pattern without operators as it is.
PlainFind ==
  /\ mode = "start" /\ IsPlain
  /\ \E s \in {Start(from, Len(text))} :
       /\ s <= Len(text)
       /\ at' = Index(s)
       /\ res' = Index(s) + Len(pattern)
       /\ mode' = IF Index(s) >= 0 THEN "found" ELSE "none"
  /\ UNCHANGED <<input, cause, si, pp, stack, cap>>

Search ==
  /\ mode = "start"
  /\ \E s \in {Start(from, Len(text))} :
       /\ s <= Len(text)
       /\ at' = s /\ si' = s
  /\ pp' = First /\ mode' = "match"
  /\ UNCHANGED <<input, cause, res, stack, cap>>

-----------------------------------------------------------------------------
(* One round of match.                                                     *)

Here(token) == mode = "match" /\ pp <= Len(pattern) /\ pattern[pp] = token

Fold(s, p) ==
  /\ si' = s /\ pp' = p
  /\ UNCHANGED <<input, at, mode, cause, res, stack, cap>>

Return(r) ==
  /\ mode' = "return" /\ res' = r
  /\ UNCHANGED <<input, at, cause, si, pp, stack, cap>>

\* A recursive call; captures are the caller's to change.
Call(frame, s, p, captures) ==
  IF Len(stack) + 2 > MaxMatchCalls THEN Fail("complex")
  ELSE /\ stack' = Append(stack, frame)
       /\ si' = s /\ pp' = p
       /\ cap' = captures
       /\ mode' = "match"
       /\ UNCHANGED <<input, at, cause, res>>

Frame(kind, s, p, n, low, set) == [kind |-> kind, si |-> s, pp |-> p, n |-> n, low |-> low, set |-> set]

Matched == mode = "match" /\ pp > Len(pattern) /\ Return(si)

OpenCapture(len, width) ==
  IF Len(cap) >= MaxCaptures THEN Fail("captures")
  ELSE Call(Frame("open", si, pp, Len(cap), 0, {}), si, pp + width, Append(cap, [init |-> si, len |-> len]))

Open ==
  /\ Here("(")
  /\ IF pp < Len(pattern) /\ pattern[pp + 1] = ")" THEN OpenCapture(Position, 2) ELSE OpenCapture(Unfinished, 1)

CloseFirst ==
  /\ Here(")")
  /\ LET open == {l \in DOMAIN cap : cap[l].len = Unfinished}
         l == Min(open)
     IN IF open = {} THEN Fail("capture")
        ELSE Call(Frame("close", si, pp, l, 0, {}), si, pp + 1, [cap EXCEPT ![l].len = si - cap[l].init])
CloseCapture ==
  /\ Here(")")
  /\ LET open == {l \in DOMAIN cap : cap[l].len = Unfinished}
         l == Max(open)
     IN IF open = {} THEN Fail("capture")
        ELSE Call(Frame("close", si, pp, l, 0, {}), si, pp + 1, [cap EXCEPT ![l].len = si - cap[l].init])

EndOfText == Here("$") /\ pp = Len(pattern) /\ Return(IF si = Len(text) THEN si ELSE -1)

\* The end of a balanced run from s, or -1: the scan counts open brackets.
BalanceEnd(s, x, y) ==
  LET Depth(j) == IF x = y THEN (IF \E k \in s + 2..j : text[k] = y THEN 0 ELSE 1)
                  ELSE Cardinality({k \in s + 1..j : text[k] = x}) - Cardinality({k \in s + 1..j : text[k] = y})
      ends == {j \in s + 2..Len(text) : Depth(j) = 0}
  IN IF s >= Len(text) \/ text[s + 1] # x \/ ends = {} THEN -1 ELSE Min(ends)

\* %b, %f and back references go on in the same call.
Balance ==
  /\ Here("%b")
  /\ IF pp + 2 > Len(pattern) THEN Fail("malformed")
     ELSE \E e \in {BalanceEnd(si, pattern[pp + 1], pattern[pp + 2])} :
            IF e = -1 THEN Return(-1) ELSE Fold(e, pp + 3)

Byte(k) == IF k \in DOMAIN text THEN text[k] ELSE Nul
Frontier ==
  /\ Here("%f")
  /\ IF pp = Len(pattern) \/ (pp < Len(pattern) /\ pattern[pp + 1] \notin Sets) THEN Fail("malformed")
     ELSE LET set == Class[pattern[pp + 1]]
          IN IF Byte(si + 1) \in set /\ Byte(si) \notin set THEN Fold(si, pp + 2) ELSE Return(-1)

BackRef ==
  \/ Here("%0") /\ Fail("capture")
  \/ /\ Here("%1")
     /\ IF cap = <<>> THEN Fail("capture")
        ELSE IF cap[1].len = Unfinished THEN Fail("capture")
        ELSE IF cap[1].len = Position THEN Return(-1)
        ELSE LET same == SubSeq(text, cap[1].init + 1, cap[1].init + cap[1].len)
             IN IF si + cap[1].len <= Len(text) /\ SubSeq(text, si + 1, si + cap[1].len) = same
                THEN Fold(si + cap[1].len, pp + 1) ELSE Return(-1)

-----------------------------------------------------------------------------
(* Single elements with their suffix.                                      *)

\* The characters of the element at p, and how many tokens it takes.
Element(p) ==
  IF pattern[p] = "%" THEN [set |-> {pattern[p + 1]}, len |-> 2]
  ELSE [set |-> IF pattern[p] \in DOMAIN Class THEN Class[pattern[p]] ELSE {pattern[p]}, len |-> 1]

Suffix(p) == IF p <= Len(pattern) /\ pattern[p] \in Repeats THEN pattern[p] ELSE ""

\* How many characters from s on are in the set.
Run(s, set) == Min({k \in 0..(Len(text) - s) : k = Len(text) - s \/ text[s + k + 1] \notin set})

IsElement ==
  /\ mode = "match" /\ pp <= Len(pattern)
  /\ pattern[pp] \notin {"(", ")", "%b", "%f", "%0", "%1"}
  /\ pattern[pp] = "$" => pp < Len(pattern)

Single ==
  /\ IsElement
  /\ IF pattern[pp] = "%" /\ pp = Len(pattern) THEN Fail("malformed")
     ELSE LET e == Element(pp)
              rest == pp + e.len
              suffix == Suffix(rest)
              here == si < Len(text) /\ text[si + 1] \in e.set
              n == Run(si, e.set)
          IN CASE ~here /\ suffix \in {"*", "-", "?"} -> Fold(si, rest + 1)
               [] ~here /\ suffix \in {"+", ""} -> Return(-1)
               [] here /\ suffix = "" -> Fold(si + 1, rest)
               [] here /\ suffix \in {"*", "+"} ->
                    Call(Frame("greedy", si, rest + 1, n, IF suffix = "+" THEN 1 ELSE 0, {}), si + n, rest + 1, cap)
               [] here /\ suffix = "-" -> Call(Frame("lazy", si, rest + 1, 0, 0, e.set), si, rest + 1, cap)
               [] here /\ suffix = "?" -> Call(Frame("maybe", si, rest + 1, 0, 0, {}), si + 1, rest + 1, cap)

-----------------------------------------------------------------------------
(* Returns.                                                                *)

Top == stack[Len(stack)]

Succeed ==
  /\ mode = "return" /\ stack # <<>> /\ res # -1
  /\ stack' = Front(stack)
  /\ UNCHANGED <<input, at, mode, cause, si, pp, res, cap>>

\* What a failed call gives back: the level, or the end of a capture.
Reopen ==
  cap' = IF Top.kind = "open" THEN SubSeq(cap, 1, Top.n)
         ELSE IF Top.kind = "close" THEN [cap EXCEPT ![Top.n].len = Unfinished] ELSE cap

GiveUp ==
  /\ mode = "return" /\ stack # <<>> /\ res = -1
  /\ \/ Top.kind \in {"open", "close"}
     \/ Top.kind = "greedy" /\ Top.n = Top.low
     \/ Top.kind = "lazy" /\ (Top.si < Len(text) => text[Top.si + 1] \notin Top.set)
  /\ Reopen
  /\ stack' = Front(stack)
  /\ UNCHANGED <<input, at, mode, cause, si, pp, res>>

Again(frame, s) ==
  /\ stack' = Append(Front(stack), frame)
  /\ si' = s /\ pp' = frame.pp /\ mode' = "match"
  /\ UNCHANGED <<input, at, cause, res, cap>>

\* One repetition less.
Greedy ==
  /\ mode = "return" /\ stack # <<>> /\ res = -1
  /\ Top.kind = "greedy" /\ Top.n > Top.low
  /\ Again([Top EXCEPT !.n = @ - 1], Top.si + Top.n - 1)

\* One repetition more.
Lazy ==
  /\ mode = "return" /\ stack # <<>> /\ res = -1
  /\ Top.kind = "lazy" /\ Top.si < Len(text) /\ text[Top.si + 1] \in Top.set
  /\ Again([Top EXCEPT !.si = @ + 1], Top.si + 1)

\* Without the optional element, in the call that tried it.
Maybe ==
  /\ mode = "return" /\ stack # <<>> /\ res = -1
  /\ Top.kind = "maybe"
  /\ si' = Top.si /\ pp' = Top.pp /\ mode' = "match"
  /\ stack' = Front(stack)
  /\ UNCHANGED <<input, at, cause, res, cap>>

\* luaMatchFrom: the match is complete, or the next position is tried.
Found ==
  /\ mode = "return" /\ stack = <<>> /\ res # -1
  /\ IF \E l \in DOMAIN cap : cap[l].len = Unfinished THEN Fail("unfinished")
     ELSE mode' = "found" /\ UNCHANGED <<input, at, cause, si, pp, res, stack, cap>>

NextPosition ==
  /\ mode = "return" /\ stack = <<>> /\ res = -1
  /\ IF Anchored \/ at = Len(text)
     THEN mode' = "none" /\ UNCHANGED <<at, si, pp, cap>>
     ELSE /\ at' = at + 1 /\ si' = at + 1 /\ pp' = First /\ mode' = "match" /\ cap' = <<>>
  /\ UNCHANGED <<input, cause, res, stack>>

\* CheckInterrupt ends the call at a checkpoint.
Interrupt == mode \in {"match", "return"} /\ Fail("interrupted")

Over == mode \in {"found", "none", "error"}
Ended == Over /\ UNCHANGED vars

Step ==
  \/ Beyond \/ PlainFind \/ Search
  \/ Matched \/ Open \/ CloseCapture \/ EndOfText \/ Balance \/ Frontier \/ BackRef \/ Single
  \/ Succeed \/ GiveUp \/ Greedy \/ Lazy \/ Maybe \/ Found \/ NextPosition

Next == Step \/ Interrupt \/ Ended

Spec == Init /\ [][Next]_vars /\ WF_vars(Step)

-----------------------------------------------------------------------------
(* What a pattern means: its items, and the ways to divide a text among    *)
(* them.                                                                   *)

Item(kind, set, low, high, lazy, len) ==
  [kind |-> kind, set |-> set, low |-> low, high |-> high, lazy |-> lazy, len |-> len]
Mark(kind, len) == Item(kind, {}, 0, 0, FALSE, len)

ItemAt(p) ==
  LET t == pattern[p]
      rest == Len(pattern) - p
  IN IF t = "(" /\ rest > 0 /\ pattern[p + 1] = ")" THEN Mark("here", 2)
     ELSE IF t \in {"(", ")", "%1"} THEN Mark(t, 1)
     ELSE IF t = "$" /\ rest = 0 THEN Mark("$", 1)
     ELSE IF t = "%b" /\ rest >= 2 THEN Item("%b", {<<pattern[p + 1], pattern[p + 2]>>}, 0, 0, FALSE, 3)
     ELSE IF t = "%f" /\ rest >= 1 /\ pattern[p + 1] \in Sets THEN Item("%f", Class[pattern[p + 1]], 0, 0, FALSE, 2)
     ELSE IF t \in {"%b", "%f", "%0"} \/ (t = "%" /\ rest = 0) THEN Mark("bad", 1)
     ELSE LET e == Element(p)
              suffix == Suffix(p + e.len)
          IN Item("chars", e.set, IF suffix \in {"", "+"} THEN 1 ELSE 0,
                  IF suffix \in {"", "?"} THEN 1 ELSE Len(text), suffix = "-",
                  e.len + (IF suffix = "" THEN 0 ELSE 1))

Items ==
  LET from_[p \in 1..(Len(pattern) + 1)] ==
        IF p > Len(pattern) THEN <<>>
        ELSE <<ItemAt(p)>> \o (IF ItemAt(p).kind = "bad" THEN <<>> ELSE from_[p + ItemAt(p).len])
  IN from_[First]

\* The items that open and close each capture among the first n; 0: not closed.
CapturesOf(items, n) ==
  LET add(list, i) ==
        LET open == {l \in DOMAIN list : list[l].to = 0}
        IN CASE items[i].kind = "(" -> Append(list, [from |-> i, to |-> 0])
             [] items[i].kind = "here" -> Append(list, [from |-> i, to |-> i])
             [] items[i].kind = ")" /\ open # {} -> [list EXCEPT ![Max(open)].to = i]
             [] OTHER -> list
  IN FoldLeft(add, <<>>, [i \in 1..n |-> i])

\* Every bracket has its partner and %1 refers to a capture that is closed.
WellFormed(items) ==
  /\ \A i \in DOMAIN items :
       LET before == CapturesOf(items, i - 1)
       IN /\ items[i].kind # "bad"
          /\ items[i].kind = ")" => \E l \in DOMAIN before : before[l].to = 0
          /\ items[i].kind = "%1" => before # <<>> /\ before[1].to # 0
  /\ \A l \in DOMAIN CapturesOf(items, Len(items)) : CapturesOf(items, Len(items))[l].to # 0

\* Item i may stand for the characters between two borders of a division b.
Fills(items, b, i) ==
  LET item == items[i]
      x == b[i - 1]
      y == b[i]
      first == CapturesOf(items, i - 1)[1]
      count(c) == Cardinality({k \in x + 1..y : text[k] = c})
  IN CASE item.kind = "chars" -> y - x \in item.low..item.high /\ \A k \in x + 1..y : text[k] \in item.set
       [] item.kind = "%b" -> \E pair \in item.set :
            /\ y >= x + 2 /\ text[x + 1] = pair[1] /\ text[y] = pair[2]
            /\ IF pair[1] = pair[2] THEN count(pair[1]) = 2
               ELSE /\ count(pair[1]) = count(pair[2])
                    /\ \A z \in x + 1..y - 1 : Cardinality({k \in x + 1..z : text[k] = pair[1]})
                                              > Cardinality({k \in x + 1..z : text[k] = pair[2]})
       [] item.kind = "%1" -> first.from # first.to
                              /\ SubSeq(text, x + 1, y) = SubSeq(text, b[first.from] + 1, b[first.to])
       [] item.kind = "%f" -> y = x /\ Byte(x + 1) \in item.set /\ Byte(x) \notin item.set
       [] item.kind = "$" -> y = x /\ x = Len(text)
       [] OTHER -> y = x

Divisions(items, s) ==
  {b \in [0..Len(items) -> s..Len(text)] :
     /\ b[0] = s
     /\ \A i \in DOMAIN items : b[i - 1] <= b[i]
     /\ \A i \in DOMAIN items : Fills(items, b, i)}

\* Left to right, items take as much as they can, or as little if they are lazy.
Preferred(items, b, c) ==
  \E i \in DOMAIN items :
    /\ \A j \in 0..(i - 1) : b[j] = c[j]
    /\ IF items[i].lazy THEN b[i] < c[i] ELSE b[i] > c[i]

\* The captures of a division as the matcher reports them.
Reported(items, b) ==
  LET list == CapturesOf(items, Len(items))
  IN [l \in DOMAIN list |->
        [init |-> b[list[l].from],
         len |-> IF list[l].from = list[l].to THEN Position ELSE b[list[l].to] - b[list[l].from]]]

-----------------------------------------------------------------------------
\* find and match return the leftmost match, divided among the items as Lua's
\* preferences say and with the captures of that division; they return nil only
\* if there is none.  What was tried before and given up leaves no trace.
MatchExact ==
  mode \in {"found", "none"} /\ WellFormed(Items) =>
    LET items == Items
        s == Start(from, Len(text))
        starts == {p \in (IF Anchored THEN {s} ELSE s..Len(text)) : p <= Len(text) /\ Divisions(items, p) # {}}
    IN /\ mode = "none" <=> starts = {}
       /\ mode = "found" =>
            /\ at = Min(starts)
            /\ \E b \in Divisions(items, at) :
                 /\ \A c \in Divisions(items, at) : c = b \/ Preferred(items, b, c)
                 /\ res = b[Len(items)] /\ cap = Reported(items, b)

\* A pattern is refused only for a fault it has, and one with a fault matches
\* nothing.
RefusedForCause ==
  /\ mode = "found" => WellFormed(Items)
  /\ mode = "error" /\ cause \in {"malformed", "capture", "unfinished"} => ~WellFormed(Items)
  /\ mode = "error" /\ cause = "captures" => Cardinality({k \in DOMAIN pattern : pattern[k] = "("}) > MaxCaptures
  /\ mode = "error" /\ cause = "complex" => Cardinality({k \in DOMAIN pattern : pattern[k] \in {"(", ")"} \cup Repeats}) >= MaxMatchCalls

\* Calls are nested for captures and repetitions only: single elements, %b, %f,
\* back references and repetitions of nothing go on in the same call, so that a
\* long plain pattern is never too complex.
ShallowCalls ==
  mode = "match" => Len(stack) <= Cardinality({k \in 1..(pp - 1) : pattern[k] \in {"(", ")"} \cup Repeats})

\* While the search goes back and forth, every finished capture lies within the
\* text before the position, and the open ones are those of the open brackets passed.
CapturesSound ==
  mode = "match" =>
    \A l \in DOMAIN cap :
      /\ cap[l].init \in at..si
      /\ cap[l].len >= 0 => cap[l].init + cap[l].len <= si

=============================================================================
