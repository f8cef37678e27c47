------------------------------ MODULE LuaEngine ------------------------------
(***************************************************************************)
(* The Lua merge engine (merge/lua_engine.go, lua_environment.go): calls   *)
(* compile programs through a shared cache, and each merge runs in a VM of *)
(* its own whose libraries are cloned from one captured environment.       *)
(***************************************************************************)
EXTENDS Integers, Sequences, FiniteSets, SequencesExt, TLC

CONSTANTS
  Callers,
  Programs,           \* [sources -> "good", "large", "mismatch", "syntax", "value" or "endless"]
  MaxCachedPrograms,
  MaxCalls            \* bound: calls begun

LuaAssumption == MaxCachedPrograms \in Nat \ {0} /\ MaxCalls \in Nat

VARIABLES
  call,       \* [Callers -> [state, source, program, cancelled, expired]]
  entries,    \* the digests in the map
  recent,     \* the list of cached programs, the latest first: [digest, proto]
  globals,    \* [Callers -> the table each name reaches in the call's VM]
  writes,     \* {[table, by]}: tables that a running script has changed
  result,     \* [Callers -> [outcome, seen, late]]
  calls

vars == <<call, entries, recent, globals, writes, result, calls>>

Idle == [state |-> "idle", source |-> "", program |-> "", cancelled |-> FALSE, expired |-> FALSE]
NoResult == [outcome |-> "none", seen |-> {}, late |-> FALSE]
Init ==
  /\ call = [c \in Callers |-> Idle] /\ entries = {} /\ recent = <<>>
  /\ globals = [c \in Callers |-> <<>>] /\ writes = {}
  /\ result = [c \in Callers |-> NoResult] /\ calls = 0

Go(c, state) == call' = [call EXCEPT ![c].state = state]
End(c, outcome, seen) ==
  /\ Go(c, "ended")
  /\ result' = [result EXCEPT ![c] = [outcome |-> outcome, seen |-> seen, late |-> call[c].expired]]
  /\ globals' = [globals EXCEPT ![c] = <<>>] /\ writes' = {w \in writes : w.table[1] # c}
cache == <<entries, recent>>
machines == <<globals, writes>>

-----------------------------------------------------------------------------
(* Compile.                                                                *)
Begin(c, source) ==
  /\ call[c].state = "idle" /\ calls < MaxCalls /\ calls' = calls + 1
  /\ call' = [call EXCEPT ![c] = [Idle EXCEPT !.state = "compile", !.source = source]]
  /\ UNCHANGED <<cache, machines, result>>
\* The caller's context.
Cancel(c) ==
  /\ call[c].state \notin {"idle", "ended"} /\ ~call[c].cancelled
  /\ call' = [call EXCEPT ![c].cancelled = TRUE, ![c].expired = TRUE]
  /\ UNCHANGED <<cache, machines, result, calls>>

ToFront(digest) ==
  LET at == CHOOSE i \in DOMAIN recent : recent[i].digest = digest
  IN <<recent[at]>> \o RemoveAt(recent, at)
\* Compile up to its lookup: cached, under the lock.
Lookup(c) ==
  LET source == call[c].source
  IN /\ call[c].state = "compile" /\ UNCHANGED <<entries, calls>>
     /\ \/ /\ call[c].cancelled /\ End(c, "cancelled", {}) /\ UNCHANGED recent
        \/ /\ ~call[c].cancelled /\ Programs[source] \in {"large", "mismatch"}
           /\ End(c, "invalid", {}) /\ UNCHANGED recent
        \/ /\ ~call[c].cancelled /\ source \in entries
           /\ recent' = ToFront(source)
           /\ call' = [call EXCEPT ![c].state = "compiled", ![c].program = Head(recent').proto]
           /\ UNCHANGED <<machines, result>>
        \/ /\ ~call[c].cancelled /\ Programs[source] \notin {"large", "mismatch"} /\ source \notin entries
           /\ Go(c, "build") /\ UNCHANGED <<recent, machines, result>>

\* Parse, compile and a trial run under a deadline; none of it holds the lock.
Build(c) ==
  /\ call[c].state = "build" /\ UNCHANGED <<cache, calls>>
  /\ \/ call[c].cancelled /\ End(c, "cancelled", {})
     \/ ~call[c].cancelled /\ Programs[call[c].source] = "syntax" /\ End(c, "invalid", {})
     \/ ~call[c].cancelled /\ Programs[call[c].source] # "syntax" /\ Go(c, "validate") /\ UNCHANGED <<machines, result>>
Validate(c) ==
  /\ call[c].state = "validate" /\ UNCHANGED <<cache, calls>>
  /\ \/ call[c].cancelled /\ End(c, "cancelled", {})
     \/ ~call[c].cancelled /\ End(c, "invalid", {})
     \/ /\ ~call[c].cancelled /\ Programs[call[c].source] = "good"
        /\ Go(c, "store") /\ UNCHANGED <<machines, result>>

StoreAlways(c) ==
  /\ call[c].state = "store"
  /\ LET source == call[c].source
         longer == <<[digest |-> source, proto |-> source]>> \o recent
         kept == IF Len(longer) > MaxCachedPrograms THEN Front(longer) ELSE longer
     IN /\ recent' = kept
        /\ entries' = (entries \union {source}) \ {d \in {Last(longer).digest} : Len(longer) > MaxCachedPrograms}
        /\ call' = [call EXCEPT ![c].state = "compiled", ![c].program = source]
  /\ UNCHANGED <<machines, result, calls>>
\* store, under the lock: another call may have stored the program meanwhile.
Store(c) ==
  /\ call[c].state = "store"
  /\ LET source == call[c].source
         longer == IF source \in entries THEN ToFront(source)
                   ELSE <<[digest |-> source, proto |-> source]>> \o recent
     IN IF Len(longer) > MaxCachedPrograms
        THEN recent' = Front(longer) /\ entries' = (entries \union {source}) \ {Last(longer).digest}
        ELSE recent' = longer /\ entries' = entries \union {source}
  /\ call' = [call EXCEPT ![c].state = "compiled", ![c].program = Head(recent').proto]
  /\ UNCHANGED <<machines, result, calls>>

-----------------------------------------------------------------------------
(* Merge.                                                                  *)
\* The deadline of the execution.
Expire(c) ==
  /\ call[c].state \in {"decode", "run", "encode", "encoded"} /\ ~call[c].expired
  /\ call' = [call EXCEPT ![c].expired = TRUE]
  /\ UNCHANGED <<cache, machines, result, calls>>

Merge(c) == call[c].state = "compiled" /\ Go(c, "decode") /\ UNCHANGED <<cache, machines, result, calls>>

\* The captured environment, after restrictLuaEnvironment: which library table
\* a global and then the string metatable reach.  The string library has two ways in.
Environment ==
  <<[name |-> "string", table |-> "string"], [name |-> "math", table |-> "math"],
    [name |-> "stringMeta", table |-> "string"]>>
\* clone: a table that has no clone yet gets a new one of this VM.
Clone(c, cloned, table) ==
  IF table \in DOMAIN cloned THEN cloned ELSE (table :> <<c, Cardinality(DOMAIN cloned)>>) @@ cloned
InstallEntry(c, machine, entry) ==
  LET cloned == Clone(c, machine.cloned, entry.table)
  IN [cloned |-> cloned, globals |-> (entry.name :> cloned[entry.table]) @@ machine.globals]
Install(c) ==
  FoldLeft(LAMBDA machine, entry : InstallEntry(c, machine, entry),
           [cloned |-> <<>>, globals |-> <<>>], Environment).globals

\* Decoding may find a bad document; newVM builds the environment.
Decode(c) ==
  /\ call[c].state = "decode" /\ UNCHANGED <<cache, calls>>
  /\ \/ call[c].expired /\ End(c, "deadline", {})
     \/ End(c, "input", {})
     \/ /\ ~call[c].expired /\ Go(c, "run")
        /\ globals' = [globals EXCEPT ![c] = Install(c)] /\ UNCHANGED <<writes, result>>
\* The script: it may replace a library function, and use it as a method.
Write(c) ==
  /\ call[c].state = "run"
  /\ writes' = writes \union {[table |-> globals[c]["string"], by |-> c]}
  /\ UNCHANGED <<call, cache, globals, result, calls>>
Seen(c) == {w.by : w \in {v \in writes : v.table = globals[c]["stringMeta"]}}
Wrote(c) == \E w \in writes : w.by = c
Run(c) ==
  /\ call[c].state = "run" /\ UNCHANGED <<cache, calls>>
  /\ \/ call[c].expired /\ End(c, "deadline", {})
     \/ \E outcome \in {"exhausted", "failed", "result"} : ~call[c].expired /\ End(c, outcome, {})
     \/ /\ ~call[c].expired /\ Go(c, "encode") /\ UNCHANGED machines
        /\ result' = [result EXCEPT ![c].seen = IF Wrote(c) THEN Seen(c) \ {c} ELSE Seen(c),
                                    ![c].outcome = IF Wrote(c) /\ c \notin Seen(c) THEN "unmethodical" ELSE "none"]
\* The encoders do not look at the context.
Encode(c) ==
  /\ call[c].state = "encode" /\ UNCHANGED <<cache, calls>>
  /\ \/ call[c].expired /\ End(c, "deadline", {})
     \/ Go(c, "encoded") /\ UNCHANGED <<machines, result>>
Return(c) ==
  /\ call[c].state = "encoded" /\ UNCHANGED <<cache, calls>>
  /\ IF call[c].expired THEN End(c, "deadline", {})
     ELSE \E outcome \in {"document", "result", "exhausted"} : End(c, outcome, result[c].seen)

Reset(c) ==
  /\ call[c].state = "ended"
  /\ call' = [call EXCEPT ![c] = Idle] /\ result' = [result EXCEPT ![c] = NoResult]
  /\ UNCHANGED <<cache, machines, calls>>
Step(c) ==
  \/ \E source \in DOMAIN Programs : Begin(c, source)
  \/ Cancel(c) \/ Lookup(c) \/ Build(c) \/ Validate(c) \/ Store(c) \/ Merge(c) \/ Expire(c)
  \/ Decode(c) \/ Write(c) \/ Run(c) \/ Encode(c) \/ Return(c) \/ Reset(c)
Next == \E c \in Callers : Step(c)
Spec == Init /\ [][Next]_vars

-----------------------------------------------------------------------------
\* The map and the list of the cache hold the same programs, each once and no
\* more than the limit, although compilation runs outside the lock and two
\* calls may store the same program.
CacheConsistent ==
  /\ entries = {entry.digest : entry \in ToSet(recent)} /\ Cardinality(entries) = Len(recent)
  /\ Len(recent) <= MaxCachedPrograms

\* Only a program that passed its trial run is cached, whatever was cancelled
\* or ran out of time, and a merge runs the program of its own source.
OnlyValidated ==
  /\ \A entry \in ToSet(recent) : Programs[entry.digest] = "good" /\ entry.proto = entry.digest
  /\ \A c \in Callers : call[c].program # "" => call[c].program = call[c].source

\* No script sees what another one did to the libraries.
Isolated == \A c \in Callers : result[c].seen = {}

\* What a script puts into the string library is what its strings' methods use.
OneStringLibrary == \A c \in Callers : result[c].outcome # "unmethodical"

\* A document that was not finished before the deadline is never returned.
OnTime == \A c \in Callers : result[c].outcome = "document" => ~result[c].late
=============================================================================
