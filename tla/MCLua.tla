-------------------------------- MODULE MCLua --------------------------------
(***************************************************************************)
(* The Lua engine, its bridge to documents, its libraries and the command  *)
(* that tests scripts, each on an instance of its own: an initial state    *)
(* chooses one of them, and the variables of the others stay idle.         *)
(***************************************************************************)
EXTENDS Integers, Sequences, TLC

CONSTANTS LuaNil, Separator

VARIABLES
  component,        \* the component of this behaviour
  engineCall, entries, recent, globals, writes, engineResult, calls,
  input, heap, kind, dateTimes, integerKinds, integerFields, bsonScalars, edits, written,
  bridgeResult,
  text, pattern, from, at, patternsMode, cause, si, pp, res, patternsStack, cap,
  op, gsubLength, ends, anchored, limit, position, lastEnd, count, out, matched, changed,
  gsubMode,
  tablesCall, tablesBefore, tables, tablesLength, tablesIndex, tablesResult, tablesPc,
  arraysCall, arraysBefore, arrays, target, lengths, arraysIndex, part, seen, arraysResult,
  arraysPc,
  start, table, first, last, left, right, pivot, lower, upper, sortStack, sortPc,
  world, commandPc, cases, names, failures, commandOut, exit

Idle == "idle"

-----------------------------------------------------------------------------
\* Two callers, a cache of two programs, and a program of every kind.
EnginePrograms ==
  [a |-> "good", b |-> "good", d |-> "good", l |-> "large", s |-> "syntax", e |-> "endless"]
Engine == INSTANCE LuaEngine WITH
  Callers <- {"c1", "c2"}, Programs <- EnginePrograms, MaxCachedPrograms <- 2,
  MaxCalls <- 4, call <- engineCall, result <- engineResult
InEngine == component = "engine"
EngineVars == <<engineCall, entries, recent, globals, writes, engineResult, calls>>
EngineIdle ==
  /\ engineCall = Idle /\ entries = Idle /\ recent = Idle /\ globals = Idle /\ writes = Idle
  /\ engineResult = Idle /\ calls = Idle


\* Two documents with a table inside, integers of both widths that may be
\* equal, a datetime and a scalar; scripts of two assignments.
Absent == [type |-> "nil"]
Fields(a, b, one, two) == [k \in {"a", "b", "1", "2"} |-> (a :> one @@ b :> two @@ k :> Absent)[k]]
Document(one, two) == Fields("a", "b", one, two)
Array(one, two) == Fields("1", "2", one, two)
Number(type, value) == [type |-> type, value |-> value]
Text == [type |-> "string", text |-> "now"]
Date == [type |-> "date", text |-> "now"]
Script(value) == value @@ [origin |-> <<"script", "">>]
Merges(encoding, one, other, inners) ==
  {[encoding |-> encoding,
    tables |-> [current |-> Document(one, [type |-> inner[1], table |-> "inner"]),
                incoming |-> Document(other, Absent), inner |-> inner[2]]] : inner \in inners}
Inners ==
  {<<"array", Array(Number("int64", 9), Date)>>,
   <<"timestamp", Document(Number("number", 1), Absent)>>}
BsonInputs ==
  Merges("bson", Number("int32", 1), Number("int64", 1), Inners)
    \union Merges("bson", Date, Text, {inner \in Inners : inner[1] = "timestamp"})
JsonInputs ==
  Merges("json", Number("number", 1), Text,
         {<<"array", Array(Number("number", 9), [type |-> "null"])>>})
Bridge == INSTANCE LuaBridge WITH
  Inputs <- BsonInputs \union JsonInputs, Made <- [made |-> "none"],
  StringKeys <- {"a", "b"}, ArrayKeys <- <<"1", "2">>,
  Literals <- {Script(Number("int", 1)), Script(Text)},
  MaxInt32 <- 5, MaxEdits <- 2, result <- bridgeResult
InBridge == component = "bridge"
BridgeVars == <<input, heap, kind, dateTimes, integerKinds, integerFields, bsonScalars,
  edits, written, bridgeResult>>
BridgeIdle ==
  /\ input = Idle /\ heap = Idle /\ kind = Idle /\ dateTimes = Idle /\ integerKinds = Idle
  /\ integerFields = Idle /\ bsonScalars = Idle /\ edits = Idle /\ written = Idle
  /\ bridgeResult = Idle


\* All patterns of up to three tokens and chosen longer ones, on texts of up
\* to three characters.
PatternsClass == ("." :> {"a", "b", "nul"} @@ "[a]" :> {"a"} @@ "[^a]" :> {"b", "nul"})
PatternsTokens == {"a", ".", "(", ")", "*", "-", "$", "%b", "%f", "[a]", "%1", "%"}
PatternsLonger == {
  <<"(", "a", "*", ")", "%1">>, <<"(", ".", "-", ")", "b", "%1">>, <<".", "*", "(", "a", ")">>,
  <<"(", "a", "?", ")", "(", ".", "-", ")", "$">>, <<"%b", "a", "b", "(", ")">>, <<"%b", "a", "a">>,
  <<".", "?", "%f", "[^a]", ".", "+">>, <<"(", "(", ".", ")", ".", "*", ")", "%1">>,
  <<"(", "a", "+", "b">>, <<"^", "a", "?", "a", "?", "b">>, <<"(", ")", ".", "-", "%1">>,
  <<"a", "*", "a", "*", "a", "*">>, <<"%f", "[a]", "a", "-", "(", ")">>,
  <<"(", "a", ")", "(", "b", ")", "(", "a", ")">>, <<".", "a", "b">>,
  <<"^", "(", ".", "*", ")", "(", "a", "-", ")", "b", "?">>, <<"%0">>,
  <<"(", "(", "a", ")", ".", ")">>, <<"a", "b">>, <<"%", "a", "+">>}
PatternsTexts ==
  {<<>>, <<"a">>, <<"b">>, <<"a", "a">>, <<"a", "b">>, <<"b", "a">>, <<"a", "a", "b">>,
   <<"a", "b", "a">>, <<"b", "a", "b">>}
PatternsPatterns == UNION {[1..n -> PatternsTokens] : n \in 0..3} \cup PatternsLonger
Patterns == INSTANCE LuaPatterns WITH
  Texts <- PatternsTexts, Patterns <- PatternsPatterns,
  Froms <- {1, 3, -2}, Class <- PatternsClass, Sets <- {"[a]", "[^a]"}, Nul <- "nul",
  MaxMatchCalls <- 5, MaxCaptures <- 2, mode <- patternsMode, stack <- patternsStack
InPatterns == component = "patterns"
PatternsVars == <<text, pattern, from, at, patternsMode, cause, si, pp, res, patternsStack,
  cap>>
PatternsIdle ==
  /\ text = Idle /\ pattern = Idle /\ from = Idle /\ at = Idle /\ patternsMode = Idle
  /\ cause = Idle /\ si = Idle /\ pp = Idle /\ res = Idle /\ patternsStack = Idle
  /\ cap = Idle


\* Every way a pattern can match in texts of up to four bytes.
Gsub == INSTANCE LuaSubstitutions WITH
  Lengths <- {0, 1, 2, 3, 4}, Limits <- {0, 2}, Maximum <- 5, PieceSizes <- {0, 2},
  length <- gsubLength, mode <- gsubMode
InGsub == component = "substitutions"
GsubVars == <<op, gsubLength, ends, anchored, limit, position, lastEnd, count, out,
  matched, changed, gsubMode>>
GsubIdle ==
  /\ op = Idle /\ gsubLength = Idle /\ ends = Idle /\ anchored = Idle /\ limit = Idle
  /\ position = Idle /\ lastEnd = Idle /\ count = Idle /\ out = Idle /\ matched = Idle
  /\ changed = Idle /\ gsubMode = Idle


\* Indices of three bits: every range and target, on tables that are full,
\* short, empty or have holes.
Cells(cells) == [i \in -4..3 |-> IF i \in cells THEN i ELSE LuaNil]
TablesTables ==
  {Cells(cells) : cells \in {{}, {1, 2}, {0, 1, 3}, -4..2, {-4, -1, 1, 3}}}
TablesSize(value) == IF value = Separator THEN 1 ELSE IF value \in {0, 2} THEN 2 ELSE 1
TablesCalls ==
  [op : {"move"}, first : (-4..3), last : (-4..3), target : (-4..3), same : BOOLEAN]
    \union [op : {"concat", "unpack"}, first : (-4..3) \union {LuaNil}, last : (-4..3) \union {LuaNil},
            frame : {0, 2}]
    \union [op : {"insert"}, position : (-4..3) \union {LuaNil}, value : {7, LuaNil}]
    \union [op : {"remove"}, position : (-4..3) \union {LuaNil}]
    \union [op : {"pack"}, arguments : {<<>>, <<7>>, <<7, LuaNil, 8>>, <<LuaNil, 7, LuaNil>>}]
Tables == INSTANCE LuaTables WITH
  Nil <- LuaNil,
  MaxInt64 <- 3, Tables <- TablesTables, Calls <- TablesCalls, Size <- TablesSize,
  Maximum <- 6, MaxResults <- 3, MaxStackSlots <- 4, call <- tablesCall, before <- tablesBefore,
  length <- tablesLength, index <- tablesIndex, result <- tablesResult, pc <- tablesPc
InTables == component = "tables"
TablesVars == <<tablesCall, tablesBefore, tables, tablesLength, tablesIndex, tablesResult,
  tablesPc>>
TablesIdle ==
  /\ tablesCall = Idle /\ tablesBefore = Idle /\ tables = Idle /\ tablesLength = Idle
  /\ tablesIndex = Idle /\ tablesResult = Idle /\ tablesPc = Idle


\* Two arrays of up to two items in four cells, some with one gap or two, given in
\* every combination, with strings, an item without a key and a key that two
\* items share.
ArrayCells(items) == [i \in 1 .. 4 |-> IF i \in DOMAIN items THEN items[i] ELSE LuaNil]
ArraysContents ==
  {ArrayCells(items) : items \in {<<>>, <<"x", "y">>, <<"z", "x">>,
                                  <<"x", "table">>, <<"x", LuaNil, "y">>,
                                  <<LuaNil, "x">>, <<LuaNil, "x", LuaNil, "y">>}}
ArraysKey(item) ==
  IF item \in {"x", "z"} THEN "k" ELSE IF item = "table" THEN LuaNil
  ELSE IF item = LuaNil THEN "none" ELSE item
Given == {"a", "b", "table", LuaNil}
ArraysCalls ==
  [op : {"append", "union"}, left : Given, right : Given]
    \union [op : {"deduplicate"}, left : Given, right : {LuaNil}, meddles : {FALSE}]
    \union [op : {"deduplicate"}, left : {"a"}, right : {LuaNil}, meddles : {TRUE}]
    \union [op : {"tail"}, left : Given \ {LuaNil}, right : {LuaNil}, limit : -1 .. 3]
    \union [op : {"string", "array"}, value : {"a", "b", LuaNil, "x", "", "table"}]
Arrays == INSTANCE SinkArrays WITH
  Nil <- LuaNil,
  Arrays <- {"a", "b"}, Contents <- ArraysContents, MaxCells <- 4,
  Items <- {"x", "y", "z", "", "table"}, Strings <- {"x", "y", "z", ""}, Empty <- "",
  Key <- ArraysKey, Calls <- ArraysCalls, call <- arraysCall, before <- arraysBefore,
  index <- arraysIndex, result <- arraysResult, pc <- arraysPc
InArrays == component = "arrays"
ArraysVars == <<arraysCall, arraysBefore, arrays, target, lengths, arraysIndex, part, seen,
  arraysResult, arraysPc>>
ArraysIdle ==
  /\ arraysCall = Idle /\ arraysBefore = Idle /\ arrays = Idle /\ target = Idle
  /\ lengths = Idle /\ arraysIndex = Idle /\ part = Idle /\ seen = Idle
  /\ arraysResult = Idle /\ arraysPc = Idle


\* Every table of up to six cells and the two-valued ones of nine with an
\* honest order, six cells with an arbitrary one, and four with an order
\* function that writes the table it sorts.
SortKey(v) == v
SortTables(sizes, values) == UNION {[1 .. n -> values] : n \in sizes}
SortStarts ==
  [order : {"weak"}, table : SortTables(1 .. 6, {1, 2, 3}) \union SortTables({9}, {1, 3})]
    \union [order : {"arbitrary"}, table : {<<1, 2, 3, 1, 2, 3>>, <<1, 2, 3, 2>>}]
    \union [order : {"meddling"}, table : {<<1, 2, 3, 1>>}]
Sort == INSTANCE LuaSort WITH
  Values <- {1, 2, 3}, Key <- SortKey, Starts <- SortStarts, stack <- sortStack,
  pc <- sortPc
InSort == component = "sort"
SortVars == <<start, table, first, last, left, right, pivot, lower, upper, sortStack,
  sortPc>>
SortIdle ==
  /\ start = Idle /\ table = Idle /\ first = Idle /\ last = Idle /\ left = Idle
  /\ right = Idle /\ pivot = Idle /\ lower = Idle /\ upper = Idle /\ sortStack = Idle
  /\ sortPc = Idle


\* The command on one case, whose documents hold two numbers of equal or different
\* value and form, on a directory with two good cases and two more, and misused.
Numeral(negative, whole, fraction, exponent) ==
  [negative |-> negative, whole |-> whole, fraction |-> fraction, exponent |-> exponent]
Numerals ==
  {Numeral(negative, whole, fraction, exponent) :
     negative \in BOOLEAN, whole \in {<<0>>, <<1>>, <<1, 0>>}, fraction \in {<<>>, <<0>>, <<0, 5>>},
     exponent \in -1..1}
InMap(value) == [t |-> "map", of |-> [k |-> value]]
InList(value) == [t |-> "list", of |-> <<value, [t |-> "str", s |-> <<"x">>]>>]
DocumentFile(value) == [t |-> "document", yaml |-> FALSE, value |-> value]
OfNumber(n) == DocumentFile(InMap(InList([t |-> "num", n |-> n])))
ScriptFile(does) == [t |-> "script", yaml |-> FALSE, does |-> does]
CaseFile(name, current, expected) ==
  [t |-> "case", yaml |-> TRUE, decodes |-> TRUE, documents |-> 1, name |-> name,
   encoding |-> "json", current |-> current, incoming |-> <<-1, 10>>, expected |-> expected,
   observedAt |-> "time"]
Options ==
  [sub |-> "test", help |-> FALSE, parses |-> TRUE, extra |-> FALSE, script |-> <<0, 1>>,
   config |-> <<>>, cases |-> <<>>, encoding |-> "", current |-> <<>>, incoming |-> <<>>,
   expected |-> <<>>, observedAt |-> ""]
OneCase(encoding, incoming, expected) ==
  [Options EXCEPT !.encoding = encoding, !.incoming = incoming, !.expected = expected,
                  !.observedAt = "time"]
Directory(does) ==
  (<<0, 1>> :> ScriptFile(does)) @@ (<<0, 7>> :> [t |-> "directory", yaml |-> FALSE])
    @@ (<<7, 1>> :> CaseFile("a", <<>>, <<-1, 10>>))
    @@ (<<7, 2>> :> CaseFile("b", <<-1, 11>>, <<-1, 10>>))
    @@ (<<7, 10>> :> OfNumber(Numeral(FALSE, <<1>>, <<>>, 0)))
    @@ (<<7, 11>> :> OfNumber(Numeral(FALSE, <<1>>, <<0>>, 1)))
MoreCases ==
  {CaseFile("a", <<>>, <<-1, 10>>), CaseFile("b", <<-1, 9>>, <<-1, 10>>),
   CaseFile("c", <<>>, <<-1, 9>>), CaseFile("c", <<-1, 11>>, <<0, 8>>),
   CaseFile("d", <<>>, <<-1, 10>>), CaseFile("e", <<>>, <<-1, 10>>),
   [CaseFile("a", <<>>, <<-1, 10>>) EXCEPT !.documents = 2],
   [CaseFile("c", <<>>, <<>>) EXCEPT !.decodes = FALSE],
   [CaseFile("b", <<>>, <<-1, 10>>) EXCEPT !.name = ""],
   [CaseFile("d", <<>>, <<-1, 10>>) EXCEPT !.encoding = "xml"]}
SingleWorlds ==
  {[cmd |-> OneCase(encoding, <<0, 2>>, <<0, 3>>),
    files |-> (<<0, 1>> :> ScriptFile("incoming")) @@ (<<0, 2>> :> OfNumber(n))
                @@ (<<0, 3>> :> OfNumber(m))] :
     encoding \in {"json", "bson"}, n \in Numerals, m \in Numerals}
DirectoryWorlds ==
  {[cmd |-> [Options EXCEPT !.cases = <<0, 7>>],
    files |-> Directory(does) @@ (<<7, 0>> :> first_) @@ (<<7, 3>> :> last_)
                @@ (<<7, 4>> :> [last_ EXCEPT !.yaml = FALSE])] :
     does \in {"incoming", "current", "fail", "broken"}, first_ \in MoreCases, last_ \in MoreCases}
OtherWorlds ==
  {[cmd |-> options, files |-> Directory("incoming")] : options \in
     {Options, [Options EXCEPT !.sub = "run"], [Options EXCEPT !.help = TRUE],
      [Options EXCEPT !.script = <<>>, !.cases = <<0, 7>>],
      [Options EXCEPT !.cases = <<0, 9>>], [Options EXCEPT !.cases = <<0, 1>>],
      [Options EXCEPT !.cases = <<7, 2>>], [Options EXCEPT !.cases = <<0, 7>>, !.encoding = "json"],
      [Options EXCEPT !.cases = <<0, 7>>, !.config = <<0, 9>>],
      OneCase("json", <<7, 10>>, <<>>), OneCase("xml", <<7, 10>>, <<>>)}}
Command == INSTANCE LuaCommand WITH
  Worlds <- SingleWorlds \union DirectoryWorlds \union OtherWorlds, Scale <- 3,
  pc <- commandPc, out <- commandOut
InCommand == component = "command"
CommandVars == <<world, commandPc, cases, names, failures, commandOut, exit>>
CommandIdle ==
  /\ world = Idle /\ commandPc = Idle /\ cases = Idle /\ names = Idle /\ failures = Idle
  /\ commandOut = Idle /\ exit = Idle


ASSUME LuaAssumptions ==
  /\ Engine!LuaAssumption /\ Bridge!BridgeAssumption /\ Tables!TablesAssumption
  /\ Arrays!ArraysAssumption /\ Sort!SortAssumption

-----------------------------------------------------------------------------
vars == <<component, EngineVars, BridgeVars, PatternsVars, GsubVars, TablesVars,
  ArraysVars, SortVars, CommandVars>>

Init ==
  /\ component \in {"engine", "bridge", "patterns", "substitutions", "tables", "arrays",
                   "sort", "command"}
  /\ IF InEngine THEN Engine!Init ELSE EngineIdle
  /\ IF InBridge THEN Bridge!Init ELSE BridgeIdle
  /\ IF InPatterns THEN Patterns!Init ELSE PatternsIdle
  /\ IF InGsub THEN Gsub!Init ELSE GsubIdle
  /\ IF InTables THEN Tables!Init ELSE TablesIdle
  /\ IF InArrays THEN Arrays!Init ELSE ArraysIdle
  /\ IF InSort THEN Sort!Init ELSE SortIdle
  /\ IF InCommand THEN Command!Init ELSE CommandIdle
\* The only states in which a component may stop: its calls have ended.
Ended ==
  \/ InEngine /\ calls = 4
  \/ InBridge /\ bridgeResult.type # "none"
  \/ InTables /\ tablesPc \in Tables!Ended
  \/ InArrays /\ arraysPc \in {"done", "failed", "stopped"}
  \/ InSort /\ sortPc \in Sort!Ended
  \/ InCommand /\ Command!Done

Step ==
  /\ UNCHANGED component
  /\ IF InEngine THEN Engine!Next ELSE UNCHANGED EngineVars
  /\ IF InBridge THEN Bridge!Next ELSE UNCHANGED BridgeVars
  /\ IF InPatterns THEN Patterns!Next ELSE UNCHANGED PatternsVars
  /\ IF InGsub THEN Gsub!Next ELSE UNCHANGED GsubVars
  /\ IF InTables THEN Tables!Next ELSE UNCHANGED TablesVars
  /\ IF InArrays THEN Arrays!Next ELSE UNCHANGED ArraysVars
  /\ IF InSort THEN Sort!Next ELSE UNCHANGED SortVars
  /\ IF InCommand THEN Command!Next ELSE UNCHANGED CommandVars

Next == Step \/ (Ended /\ UNCHANGED vars)

Spec == Init /\ [][Next]_vars

-----------------------------------------------------------------------------
\* A program is cached only after its trial run, the cache's map and list agree
\* and stay within the limit, a merge runs its own program to its end in time and
\* sees nothing of another script (load, store, Merge of lua_engine.go).
EngineSound ==
  InEngine => /\ Engine!CacheConsistent /\ Engine!OnlyValidated
              /\ Engine!Isolated /\ Engine!OneStringLibrary /\ Engine!OnTime

\* A merged document keeps the BSON types: what the script left alone is as it was,
\* copies keep their type, the script's own strings are strings, and a result
\* is refused only for a cause (goToLua, luaToGo of json_bridge.go).
TypesKept ==
  InBridge => /\ Bridge!UntouchedKept /\ Bridge!CopiesKeepType
              /\ Bridge!OwnStringsPlain /\ Bridge!RefusedForCause

\* The libraries do what Lua's reference says: patterns match and substitute what
\* their definition gives, with calls as shallow as promised, functions on tables
\* and arrays give their results at the limits of the index range too and write
\* no other cell, and a call fails only for its own fault (lua_pattern_matcher.go,
\* lua_gsub.go, lua_table.go, lua_sink_v1.go).
LibraryExact ==
  /\ InPatterns => /\ Patterns!MatchExact /\ Patterns!RefusedForCause
                   /\ Patterns!ShallowCalls /\ Patterns!CapturesSound
  /\ InGsub => /\ Gsub!SameMatches /\ Gsub!OutputExact
               /\ Gsub!SameIsSame /\ Gsub!WithinMaximum
  /\ InTables => /\ Tables!MoveExact /\ Tables!ShiftExact /\ Tables!ConcatExact
                 /\ Tables!UnpackExact /\ Tables!Confined
  /\ InArrays => /\ Arrays!ResultExact /\ Arrays!AppendExact
                 /\ Arrays!ArgumentsKept /\ Arrays!SparseRefused

\* Whatever the order function answers and does, sort touches only cells of its
\* range and neither loses nor doubles a value; with an honest order it succeeds
\* and sorts, with calls nested to a logarithmic depth (lua_sort.go).
InRange == InSort => Sort!InRange /\ Sort!Rearranged /\ Sort!Sorts /\ Sort!ShallowStack

\* `sink lua test` reports every case and succeeds exactly when each of them passed,
\* also when cases share a name, when some cannot be loaded and when equal numbers
\* are written differently (runLuaTestCases, compareLuaTestDocuments).
ReportsTrue == InCommand => Command!ReportsTrue

=============================================================================
