----------------------------- MODULE LuaCommand -----------------------------
(***************************************************************************)
(* The command `sink lua test` (cmd/sink/lua_command.go, lua_compare.go):  *)
(* it compiles a merge script and runs it on one case given by options or  *)
(* on the YAML cases of a file or a directory, one after the other.        *)
(* The file system, the script and standard output are external: a write   *)
(* may fail.  A path is <<directory, name>>, both numbers in the order of  *)
(* their strings: 0 is the working directory and -1 the directory of a     *)
(* relative reference inside a case.                                       *)
(***************************************************************************)
EXTENDS Integers, Sequences, FiniteSets, SequencesExt

CONSTANTS Worlds,     \* the commands considered, each with the files it finds: [cmd, files]
          Scale       \* bound: 10^Scale makes every number of the files an integer

\* An option or field that is empty once it is trimmed: a path, or another string.
None == <<>>
Blank == ""
Failure == [t |-> "failure"]

VARIABLES
  world,
  pc,                 \* "parse", "prepare", "discover", "single", "cases" or "done"
  cases,              \* casePaths still to run
  names,              \* the names of the cases loaded so far
  failures,           \* the paths whose failure is reported at the end
  out,                \* the lines on standard output
  exit                \* "none", "ok", or the kind of error runLuaCommand returns

vars == <<world, pc, cases, names, failures, out, exit>>

cmd == world.cmd
Readable(p) == p \in DOMAIN world.files
File(p) == world.files[p]

Init ==
  /\ world \in Worlds
  /\ pc = "parse" /\ cases = <<>> /\ names = {} /\ failures = <<>> /\ out = <<>> /\ exit = "none"

Exit(code) == exit' = code /\ pc' = "done"
\* A line is written, or standard output fails and the command ends with that error.
Emit(line) == out' = Append(out, line)
WriteFails == Exit("write") /\ UNCHANGED out

-----------------------------------------------------------------------------
(* Documents.  A number is the text of a JSON number, taken apart.         *)

TrimLeft(digits) ==
  IF \A i \in DOMAIN digits : digits[i] = 0 THEN <<>>
  ELSE LET first == CHOOSE i \in DOMAIN digits : digits[i] # 0 /\ \A j \in 1..(i - 1) : digits[j] = 0
       IN SubSeq(digits, first, Len(digits))
TrimRight(digits) == Reverse(TrimLeft(Reverse(digits)))

\* normalizeLuaTestNumber: the coefficient without zeros at either end and the
\* exponent of its last digit.
NormalizeIgnoringPoint(n) ==
  LET mantissa == TrimLeft(n.whole \o n.fraction)
      coefficient == TrimRight(mantissa)
  IN IF mantissa = <<>> THEN [negative |-> FALSE, coefficient |-> <<0>>, exponent |-> 0]
     ELSE [negative |-> n.negative, coefficient |-> coefficient,
           exponent |-> n.exponent + Len(mantissa) - Len(coefficient)]
NormalizeNumber(n) ==
  LET mantissa == TrimLeft(n.whole \o n.fraction)
      coefficient == TrimRight(mantissa)
      shift == Len(mantissa) - Len(coefficient) - Len(n.fraction)
  IN IF mantissa = <<>> THEN [negative |-> FALSE, coefficient |-> <<0>>, exponent |-> 0]
     ELSE [negative |-> n.negative, coefficient |-> coefficient, exponent |-> n.exponent + shift]

\* The value of a number, times 10^Scale.
Digits(ds) == FoldLeft(LAMBDA a, d : 10 * a + d, 0, ds)
Exact(n) ==
  LET magnitude == Digits(n.whole \o n.fraction) * 10^(Scale + n.exponent - Len(n.fraction))
  IN IF n.negative THEN 0 - magnitude ELSE magnitude

\* Extended JSON: the type of a BSON number is part of its canonical text.
Number(n) == [t |-> "num", n |-> n]
Text(s) == [t |-> "str", s |-> s]
ExtendedNumber(n) ==
  IF n.fraction = <<>> /\ n.exponent = 0 THEN Text(<<"$numberInt", Exact(n)>>)
  ELSE Text(<<"$numberDouble", n.negative, Exact(n)>>)
RECURSIVE Extended(_)
Extended(v) ==
  CASE v.t = "num" -> ExtendedNumber(v.n)
    [] v.t = "str" -> v
    [] v.t \in {"list", "map"} -> [v EXCEPT !.of = [k \in DOMAIN @ |-> Extended(@[k])]]

\* canonicalLuaTestDocument, then normalizeLuaTestNumbers through maps and lists.
Canonical(encoding, v) == IF encoding = "bson" THEN Extended(v) ELSE v
RECURSIVE Normalized(_)
Normalized(v) ==
  CASE v.t = "num" -> NormalizeNumber(v.n)
    [] v.t = "str" -> v
    [] v.t \in {"list", "map"} -> [v EXCEPT !.of = [k \in DOMAIN @ |-> Normalized(@[k])]]
\* compareLuaTestDocuments.
Matches(encoding, expected, actual) ==
  Normalized(Canonical(encoding, expected)) = Normalized(Canonical(encoding, actual))

\* readLuaTestDocument: the file decodes and the document is valid.
ReadDocument(p) == IF Readable(p) /\ File(p).t = "document" THEN File(p).value ELSE Failure

\* Merger.Merge, by what the script does.
Merge(current, incoming) ==
  CASE File(cmd.script).does = "incoming" -> incoming
    [] File(cmd.script).does = "current" -> IF current = None THEN incoming ELSE current
    [] File(cmd.script).does = "fail" -> Failure

\* executeLuaTest: incoming, current, merge, expected, comparison.
Execute(x) ==
  LET incoming == ReadDocument(x.incoming)
      current == IF x.current = None THEN None ELSE ReadDocument(x.current)
      result == Merge(current, incoming)
      expected == ReadDocument(x.expected)
  IN IF incoming = Failure \/ current = Failure THEN Failure
     ELSE IF x.expected = None \/ result = Failure THEN result
     ELSE IF expected = Failure \/ ~Matches(x.encoding, expected, result) THEN Failure
     ELSE result

-----------------------------------------------------------------------------
(* The command.                                                            *)

\* parseLuaTestFlags.
SingleCase ==
  {cmd.encoding, cmd.observedAt} # {Blank} \/ {cmd.current, cmd.incoming, cmd.expected} # {None}
BadUsage ==
  \/ ~cmd.parses \/ cmd.extra \/ cmd.script = None
  \/ cmd.cases # None /\ SingleCase
  \/ cmd.cases = None /\ (Blank \in {cmd.encoding, cmd.observedAt} \/ cmd.incoming = None)

\* runLuaCommand; asking for help is no error.
Parse ==
  /\ pc = "parse"
  /\ \/ cmd.sub # "test" /\ Exit("usage")
     \/ cmd.sub = "test" /\ cmd.help /\ Exit("ok")
     \/ cmd.sub = "test" /\ ~cmd.help /\ BadUsage /\ Exit("usage")
     \/ cmd.sub = "test" /\ ~cmd.help /\ ~BadUsage /\ pc' = "prepare" /\ UNCHANGED exit
  /\ UNCHANGED <<world, cases, names, failures, out>>

\* runLuaTestCommand: read the script, take the limits of a configuration that
\* loads, create the engine, compile.
Prepared ==
  /\ Readable(cmd.script) /\ File(cmd.script).t = "script"
  /\ cmd.config # None => Readable(cmd.config) /\ File(cmd.config).t = "config"
  /\ File(cmd.script).does # "broken"
Prepare ==
  /\ pc = "prepare"
  /\ \/ ~Prepared /\ Exit("unprepared")
     \/ Prepared /\ pc' = (IF cmd.cases # None THEN "discover" ELSE "single") /\ UNCHANGED exit
  /\ UNCHANGED <<world, cases, names, failures, out>>

\* discoverLuaTestCases: a YAML file, or those of a directory in order.
IsYaml(p) == File(p).yaml
Entries(dir) == {p \in DOMAIN world.files : p[1] = dir[2] /\ File(p).t # "directory" /\ IsYaml(p)}
Found ==
  IF ~Readable(cmd.cases) THEN <<>>
  ELSE IF File(cmd.cases).t # "directory" THEN IF IsYaml(cmd.cases) THEN <<cmd.cases>> ELSE <<>>
  ELSE SetToSortSeq(Entries(cmd.cases), LAMBDA p, q : p[2] < q[2])
Discover ==
  /\ pc = "discover"
  /\ \/ Found = <<>> /\ Exit("undiscovered")
     \/ Found # <<>> /\ pc' = "cases" /\ UNCHANGED exit
  /\ cases' = Found
  /\ UNCHANGED <<world, names, failures, out>>

\* parseLuaDocumentEncoding and parseLuaObservedAt.
Encodings == {"json", "bson"}
Known(x) == x.encoding \in Encodings /\ x.observedAt = "time"

\* runSingleLuaTest: PASS, or the document when none was expected.
Single ==
  /\ pc = "single"
  /\ \E result \in {IF Known(cmd) THEN Execute(cmd) ELSE Failure} :
       \/ result = Failure /\ Exit("failed") /\ UNCHANGED out
       \/ /\ result # Failure /\ Exit("ok")
          /\ Emit(IF cmd.expected # None THEN <<"PASS", <<"single">>>> ELSE <<"document", result>>)
       \/ result # Failure /\ WriteFails
  /\ UNCHANGED <<world, cases, names, failures>>

\* loadLuaTestCase: one YAML document with known fields, the required ones given.
Loads(p) ==
  /\ File(p).t = "case" /\ File(p).decodes /\ File(p).documents = 1
  /\ Blank \notin {File(p).name, File(p).observedAt}
  /\ None \notin {File(p).incoming, File(p).expected}
  /\ Known(File(p))
\* resolveLuaTestPath: relative to the case.
Resolve(base, p) == IF p = None \/ p[1] # -1 THEN p ELSE <<base[1], p[2]>>
Loaded(p) == [File(p) EXCEPT
  !.current = Resolve(p, @), !.incoming = Resolve(p, @), !.expected = Resolve(p, @)]

\* How a line names a case: by its name, or by its file when it cannot be loaded.
Label(p) == IF Loads(p) THEN <<"case", File(p).name>> ELSE <<"file", p[2]>>

\* The body of the loop of runLuaTestCases.
Report(p, verdict) ==
  /\ failures' = IF verdict = "FAIL" THEN Append(failures, p) ELSE failures
  /\ cases' = Tail(cases)
  /\ Emit(<<verdict, Label(p)>>) /\ UNCHANGED <<pc, exit>>
RunCase ==
  /\ pc = "cases" /\ cases # <<>>
  /\ \E p \in {Head(cases)} :
       \/ ~Loads(p) /\ Report(p, "FAIL") /\ UNCHANGED names
       \/ Loads(p) /\ File(p).name \in names /\ Report(p, "FAIL") /\ UNCHANGED names
       \/ /\ Loads(p) /\ File(p).name \notin names
          /\ names' = names \cup {File(p).name}
          /\ Report(p, IF Execute(Loaded(p)) = Failure THEN "FAIL" ELSE "PASS")
  /\ UNCHANGED world
\* Any of its writes may fail instead.
RunCaseUnwritten ==
  /\ pc = "cases" /\ cases # <<>> /\ WriteFails
  /\ UNCHANGED <<world, cases, names, failures>>

\* After the loop: an error when any case failed, the summary otherwise.
Count == Len(Found)
Finish ==
  /\ pc = "cases" /\ cases = <<>>
  /\ \/ failures # <<>> /\ Exit("failed") /\ UNCHANGED out
     \/ failures = <<>> /\ Exit("ok") /\ Emit(<<"PASS", <<"count", Count>>>>)
     \/ failures = <<>> /\ WriteFails
  /\ UNCHANGED <<world, cases, names, failures>>

Done == pc = "done"
Next == Parse \/ Prepare \/ Discover \/ Single \/ RunCase \/ RunCaseUnwritten \/ Finish
Spec == Init /\ [][Next]_vars

-----------------------------------------------------------------------------
\* Two documents are the same: their numbers have the same value, in BSON also the
\* same type, and everything else is equal.
SameNumber(encoding, n, m) ==
  /\ Exact(n) = Exact(m)
  /\ encoding = "bson" => ExtendedNumber(n) = ExtendedNumber(m)
RECURSIVE Same(_, _, _)
Same(encoding, v, w) ==
  /\ v.t = w.t
  /\ v.t = "num" => SameNumber(encoding, v.n, w.n)
  /\ v.t = "str" => v = w
  /\ v.t \in {"list", "map"} =>
       DOMAIN v.of = DOMAIN w.of /\ \A k \in DOMAIN v.of : Same(encoding, v.of[k], w.of[k])

\* A case is good when every document it names can be read and the script returns
\* the expected one.
Good(x) ==
  /\ Failure \notin {ReadDocument(x.incoming), ReadDocument(x.expected)}
  /\ x.current # None => ReadDocument(x.current) # Failure
  /\ LET current == IF x.current = None THEN None ELSE ReadDocument(x.current)
         result == Merge(current, ReadDocument(x.incoming))
     IN result # Failure /\ Same(x.encoding, ReadDocument(x.expected), result)

\* The report a run owes its user: a line for every case in the order of the paths,
\* PASS exactly for the good cases whose name no earlier case has.
Unique(i) == \A j \in 1..(i - 1) : Loads(Found[j]) => File(Found[j]).name # File(Found[i]).name
Passes(i) == Loads(Found[i]) /\ Unique(i) /\ Good(Loaded(Found[i]))
Line(i) == <<IF Passes(i) THEN "PASS" ELSE "FAIL", Label(Found[i])>>
Owed == [i \in 1..Count |-> Line(i)]

\* The command reports every case, and succeeds exactly when each of them passed:
\* also when cases share a name, when some cannot be loaded and when numbers are
\* written differently.  What it wrote before standard output failed is a part of
\* that report (runLuaTestCases, compareLuaTestDocuments).
ReportsTrue ==
  /\ pc = "cases" => IsPrefix(out, Owed)
  /\ pc = "done" /\ cmd.cases # None =>
       /\ exit = "ok" => cmd.help \/ (out = Append(Owed, <<"PASS", <<"count", Count>>>>) /\ \A i \in 1..Count : Passes(i))
       /\ exit = "failed" => out = Owed /\ \E i \in 1..Count : ~Passes(i)
       /\ exit = "write" => IsPrefix(out, Owed)
  /\ pc = "done" /\ exit \in {"ok", "failed"} /\ ~cmd.help /\ cmd.cases = None /\ cmd.expected # None =>
       (exit = "ok" <=> Known(cmd) /\ Good(cmd))

=============================================================================
