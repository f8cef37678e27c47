----------------------------- MODULE MongoWrites -----------------------------
(***************************************************************************)
(* Write and Delete of the MongoDB storage (write.go, conditional_bulk.go, *)
(* delete.go, errors.go).  A request splits its operations into waves of   *)
(* distinct records; a wave sends one unordered bulk per collection, then  *)
(* its conditional writes, together where the server supports client bulk  *)
(* writes and one by one where it does not.                                *)
(*                                                                         *)
(* MongoDB is external: it runs the items of a call one at a time in any   *)
(* order, may fail in the middle of a call, and may run what is left of a  *)
(* call after its client has given up.  Documents are their revisions.     *)
(***************************************************************************)
EXTENDS Integers, FiniteSets

CONSTANTS
  Operations,       \* [1..n -> [req, record, kind, rev, doc]], in request order
  CollectionOf,     \* [records -> collections]
  Initial,          \* possible initial contents of the records
  MaxGroups, MaxWrites, \* capacities of the two semaphores
  MaxFaults,        \* bound: replies lost and items refused
  MaxForeign,       \* bound: documents changed by others
  MaxSwitches       \* bound: changes of the primary's version

Ops == DOMAIN Operations
Requests == {Operations[o].req : o \in Ops}
Records == {Operations[o].record : o \in Ops}
Kind(o) == Operations[o].kind
Record(o) == Operations[o].record
OpsOf(r) == {o \in Ops : Operations[o].req = r}
Absent == -1
Plain == 0          \* a document without Sink's metadata

MongoWritesAssumption ==
  /\ MaxGroups \in Nat \ {0} /\ MaxWrites \in Nat \ {0}
  /\ \A r \in Requests : \/ \A o \in OpsOf(r) : Kind(o) \in {"delete", "invalid"}
                         \/ \A o \in OpsOf(r) : Kind(o) # "delete"

VARIABLES
  store,            \* [Records -> revision, Plain or Absent]
  newWire,          \* the primary supports client bulk writes
  capability,       \* clientBulkCapability: "unknown", "unavailable", "available"
  wave, stage,      \* [Requests -> Nat], [Requests -> step]
  seen,             \* [Requests -> answer of hello]
  tasks,            \* calls in progress: [req, kind, state, ops, left, errs, tries]
  groups, writes,   \* slots taken of the semaphores
  result,           \* [Ops -> outcome or "none"]
  cancelled,        \* requests whose context is done
  orphans,          \* items of abandoned calls that the server may still run
  effect, refused,  \* [Ops -> times applied], operations whose precondition failed
  faults, foreign, switches

requestVars == <<wave, stage, seen>>
serverVars == <<store, effect, refused, orphans>>
bounds == <<faults, foreign, switches>>
vars == <<store, newWire, capability, wave, stage, seen, tasks, groups, writes, result,
          cancelled, orphans, effect, refused, faults, foreign, switches>>

Init ==
  /\ store \in Initial /\ newWire \in BOOLEAN /\ capability = "unknown"
  /\ wave = [r \in Requests |-> 0] /\ stage = [r \in Requests |-> "launch"]
  /\ seen = [r \in Requests |-> "none"]
  /\ tasks = {} /\ groups = 0 /\ writes = 0
  /\ result = [o \in Ops |-> IF Kind(o) = "invalid" THEN "invalid" ELSE "none"]
  /\ cancelled = {} /\ orphans = {}
  /\ effect = [o \in Ops |-> 0] /\ refused = {}
  /\ faults = 0 /\ foreign = 0 /\ switches = 0

-----------------------------------------------------------------------------
\* buildWriteWaves: the n-th operation on a record is in wave n; prepared only.
Valid(o) == Kind(o) # "invalid"
OneWave == [o \in Ops |-> 0]
WaveOf == [o \in Ops |->
  Cardinality({p \in Ops : p < o /\ Valid(p) /\ Operations[p].req = Operations[o].req /\ Record(p) = Record(o)})]
Wave(r, w) == {o \in Ops : Valid(o) /\ Operations[o].req = r /\ WaveOf[o] = w}
Conditional(o) == Kind(o) \in {"exists", "revision", "unmarked"}
BulkOf(r, c) == {o \in Wave(r, wave[r]) : ~Conditional(o) /\ CollectionOf[Record(o)] = c}
ConditionalOf(r) == {o \in Wave(r, wave[r]) : Conditional(o)}

Deletes(r) == \A o \in OpsOf(r) : Kind(o) \in {"delete", "invalid"}
Task(r, kind, ops) ==
  [req |-> r, kind |-> kind, state |-> "queued", ops |-> ops, left |-> ops, errs |-> <<>>, tries |-> 0]
TasksOf(r) == {t \in tasks : t.req = r}
Goto(r, step) == stage' = [stage EXCEPT ![r] = step]
Answer(ops, outcome) == result' = [o \in Ops |-> IF o \in ops THEN outcome ELSE result[o]]
Become(t, new) == tasks' = (tasks \ {t}) \cup new

-----------------------------------------------------------------------------
\* A wave: its groups, then its conditional writes, then the next wave.
Launch(r) ==
  /\ stage[r] = "launch" /\ ~Deletes(r)
  /\ IF Wave(r, wave[r]) = {}
     THEN Goto(r, "done") /\ UNCHANGED tasks
     ELSE /\ Goto(r, "bulk")
          /\ tasks' = tasks \cup {Task(r, "bulk", BulkOf(r, c)) :
                                    c \in {CollectionOf[Record(o)] : o \in {p \in Wave(r, wave[r]) : ~Conditional(p)}}}
  /\ UNCHANGED <<serverVars, newWire, capability, wave, seen, groups, writes, result, cancelled, bounds>>

\* Delete: one bulk per collection, without waves.
LaunchDelete(r) ==
  /\ stage[r] = "launch" /\ Deletes(r)
  /\ Goto(r, "deleting")
  /\ tasks' = tasks \cup {Task(r, "delete", {o \in OpsOf(r) : Valid(o) /\ CollectionOf[Record(o)] = c}) :
                            c \in {CollectionOf[Record(o)] : o \in {p \in OpsOf(r) : Valid(p)}}}
  /\ UNCHANGED <<serverVars, newWire, capability, wave, seen, groups, writes, result, cancelled, bounds>>
DeleteDone(r) ==
  /\ stage[r] = "deleting" /\ TasksOf(r) = {}
  /\ Goto(r, "done")
  /\ UNCHANGED <<serverVars, newWire, capability, wave, seen, tasks, groups, writes, result, cancelled, bounds>>

\* writeConditional: more than one write, or one of a large document, may go
\* into a client bulk write; supportsClientBulk asks the server once.
\* Small documents, and large ones with unusual field names, are replaced.
UseReplacementPipeline(o) == Operations[o].doc = "large"
WantsBulk(r) == Cardinality(ConditionalOf(r)) > 1 \/ \E o \in ConditionalOf(r) : UseReplacementPipeline(o)
OneByOne(r) == {Task(r, "one", {o}) : o \in ConditionalOf(r)}
Submit(r, bulk) ==
  /\ Goto(r, "conditional")
  /\ tasks' = tasks \cup (IF bulk THEN {Task(r, "client", ConditionalOf(r))} ELSE OneByOne(r))
Conditionals(r) ==
  /\ stage[r] = "bulk" /\ TasksOf(r) = {}
  /\ IF ConditionalOf(r) # {} /\ WantsBulk(r) /\ capability = "unknown"
     THEN Goto(r, "ask") /\ UNCHANGED tasks
     ELSE Submit(r, WantsBulk(r) /\ capability = "available")
  /\ UNCHANGED <<serverVars, newWire, capability, wave, seen, groups, writes, result, cancelled, bounds>>

Hello(r) ==
  /\ stage[r] = "ask" /\ Goto(r, "asked")
  /\ \E answer \in {IF newWire THEN "available" ELSE "unavailable"}
                     \cup (IF faults < MaxFaults THEN {"error"} ELSE {}) :
       /\ seen' = [seen EXCEPT ![r] = answer]
       /\ faults' = IF answer = "error" THEN faults + 1 ELSE faults
  /\ UNCHANGED <<serverVars, newWire, capability, wave, tasks, groups, writes, result, cancelled, foreign, switches>>
\* An answer does not undo a rejection that arrived while hello was in flight.
Discovered(answer) == IF capability = "unknown" THEN answer ELSE capability
Discover(r) ==
  /\ stage[r] = "asked"
  /\ IF seen[r] = "error"
     THEN Submit(r, FALSE) /\ UNCHANGED capability
     ELSE /\ capability' = Discovered(seen[r])
          /\ Submit(r, capability' = "available")
  /\ UNCHANGED <<serverVars, newWire, wave, seen, groups, writes, result, cancelled, bounds>>

NextWave(r) ==
  /\ stage[r] = "conditional" /\ TasksOf(r) = {}
  /\ Goto(r, "launch") /\ wave' = [wave EXCEPT ![r] = @ + 1]
  /\ UNCHANGED <<serverVars, newWire, capability, seen, tasks, groups, writes, result, cancelled, bounds>>

-----------------------------------------------------------------------------
\* The semaphores: a group slot for a bulk, a group and then a write slot for a
\* client bulk, a write slot for a single write; or the context ends.
Acquire(t) ==
  /\ \/ /\ t.kind \in {"bulk", "delete", "client"} /\ t.state = "queued"
        /\ groups < MaxGroups /\ groups' = groups + 1 /\ UNCHANGED writes
        /\ Become(t, {[t EXCEPT !.state = IF t.kind = "client" THEN "grouped" ELSE "sent"]})
     \/ /\ t.state = IF t.kind = "one" THEN "queued" ELSE "grouped"
        /\ writes < MaxWrites /\ writes' = writes + 1 /\ UNCHANGED groups
        /\ Become(t, {[t EXCEPT !.state = "sent"]})
  /\ UNCHANGED <<serverVars, newWire, capability, requestVars, result, cancelled, bounds>>
Abort(t) ==
  /\ t.req \in cancelled /\ t.state \in {"queued", "grouped"}
  /\ Answer(t.ops, "backend") /\ Become(t, {})
  /\ groups' = IF t.state = "grouped" THEN groups - 1 ELSE groups
  /\ UNCHANGED <<serverVars, newWire, capability, requestVars, writes, cancelled, bounds>>
\* What a task gives back when its call is over.
Release(t) ==
  /\ groups' = IF t.kind \in {"bulk", "delete", "client", "upsert", "fallback"} THEN groups - 1 ELSE groups
  /\ writes' = IF t.kind \in {"client", "one"} THEN writes - 1 ELSE writes

-----------------------------------------------------------------------------
\* MongoDB: preconditionFilter and the write models.
Matches(o) ==
  CASE Kind(o) \in {"none", "delete"} -> TRUE
    [] Kind(o) = "insert" -> store[Record(o)] = Absent
    [] Kind(o) = "exists" -> store[Record(o)] # Absent
    [] Kind(o) = "revision" -> store[Record(o)] = Operations[o].rev
    [] Kind(o) = "unmarked" -> store[Record(o)] = Plain
Apply(o) ==
  /\ Matches(o)
  /\ store' = [store EXCEPT ![Record(o)] = IF Kind(o) = "delete" THEN Absent ELSE o]
  /\ effect' = [effect EXCEPT ![o] = @ + 1]
  /\ UNCHANGED refused
Refuse(o) ==
  /\ ~Matches(o)
  /\ refused' = refused \cup {o} /\ UNCHANGED <<store, effect>>
Served(t) == t.state = "sent" /\ t.kind # "fallback" /\ (t.kind = "client" => newWire)
Ran(t, o, err) ==
  Become(t, {[t EXCEPT !.left = @ \ {o},
                       !.errs = IF err = "none" THEN @
                                ELSE [p \in DOMAIN @ \cup {o} |-> IF p = o THEN err ELSE @[p]]]})
\* An upsert finds nothing and loses the race for the insertion.
Raced(o) == Kind(o) = "none" /\ store[Record(o)] # Absent
Item(t, o) ==
  /\ Served(t) /\ o \in t.left
  /\ \/ Apply(o) /\ Ran(t, o, "none") /\ UNCHANGED faults
     \/ Refuse(o) /\ Ran(t, o, IF Kind(o) = "insert" THEN "idDuplicate" ELSE "unmatched") /\ UNCHANGED faults
     \/ Raced(o) /\ Ran(t, o, "idDuplicate") /\ UNCHANGED <<store, effect, refused, faults>>
     \/ /\ faults < MaxFaults /\ faults' = faults + 1
        /\ \E err \in {"invalid", "unique", "backend"} : Ran(t, o, err)
        /\ UNCHANGED <<store, effect, refused>>
  /\ UNCHANGED <<orphans, newWire, capability, requestVars, groups, writes, result, cancelled, foreign, switches>>
Orphan(o) ==
  /\ o \in orphans /\ orphans' = orphans \ {o}
  /\ Apply(o) \/ Refuse(o)
  /\ UNCHANGED <<newWire, capability, requestVars, tasks, groups, writes, result, cancelled, bounds>>

-----------------------------------------------------------------------------
\* bulkWrite and applyConditionalBulkOutcome: trusted replies.  A duplicate in
\* another unique index is a failure that no retry resolves, not a precondition.
OutcomeOfDuplicate(o, errs) ==
  IF o \notin DOMAIN errs THEN "applied"
  ELSE IF errs[o] \in {"idDuplicate", "unmatched", "unique"} THEN "precondition" ELSE errs[o]
Outcome(o, errs) ==
  IF o \notin DOMAIN errs THEN "applied"
  ELSE IF errs[o] \in {"idDuplicate", "unmatched"} THEN "precondition" ELSE errs[o]
Retries(t) == {o \in DOMAIN t.errs : t.kind = "bulk" /\ Kind(o) = "none" /\ t.errs[o] = "idDuplicate"}
Reply(t) ==
  /\ t.state = "sent" /\ t.kind \in {"bulk", "client"} /\ t.left = {}
  /\ result' = [o \in Ops |-> IF o \in t.ops \ Retries(t) THEN Outcome(o, t.errs) ELSE result[o]]
  /\ IF Retries(t) = {}
     THEN Become(t, {}) /\ Release(t)
     ELSE /\ Become(t, {[Task(t.req, "upsert", Retries(t)) EXCEPT !.state = "sent", !.left = {}]})
          /\ UNCHANGED <<groups, writes>>
  /\ UNCHANGED <<serverVars, newWire, capability, requestVars, cancelled, bounds>>

\* writeOne: a reply to a single replacement.
ReplyOne(t) ==
  /\ t.state = "sent" /\ t.kind = "one" /\ t.left = {}
  /\ result' = [o \in Ops |-> IF o \in t.ops THEN Outcome(o, t.errs) ELSE result[o]]
  /\ Become(t, {}) /\ Release(t)
  /\ UNCHANGED <<serverVars, newWire, capability, requestVars, cancelled, bounds>>

\* deleteGroup: only its own item's error keeps a deletion from being applied.
DeleteReply(t) ==
  /\ t.state = "sent" /\ t.kind = "delete" /\ t.left = {}
  /\ result' = [o \in Ops |-> IF o \notin t.ops THEN result[o]
                              ELSE IF o \in DOMAIN t.errs THEN t.errs[o] ELSE "applied"]
  /\ Become(t, {}) /\ Release(t)
  /\ UNCHANGED <<serverVars, newWire, capability, requestVars, cancelled, bounds>>

\* No reply, a write concern error, no acknowledgement, or positions that do not
\* fit the request: nothing is known of any item of the call.
Lose(t) ==
  /\ t.state = "sent" /\ t.kind \in {"bulk", "delete", "client", "one"}
  /\ \/ faults < MaxFaults /\ faults' = faults + 1
     \/ t.req \in cancelled /\ UNCHANGED faults
     \/ t.kind = "client" /\ ~newWire /\ t.left \notin {{}, t.ops} /\ UNCHANGED faults
  /\ Answer(t.ops, "backend")
  /\ orphans' = orphans \cup t.left
  /\ Become(t, {}) /\ Release(t)
  /\ UNCHANGED <<store, effect, refused, newWire, capability, requestVars, cancelled, foreign, switches>>

\* unsupportedClientBulk: the command is unknown and nothing of it ran.
Unsupported(t) == t.left = t.ops
Fallback(t) ==
  /\ t.kind = "client" /\ t.state = "sent" /\ ~newWire /\ Unsupported(t)
  /\ capability' = "unavailable" /\ writes' = writes - 1
  /\ Become(t, {[t EXCEPT !.kind = "fallback"]} \cup {Task(t.req, "one", {o}) : o \in t.ops})
  /\ UNCHANGED <<serverVars, newWire, requestVars, groups, result, cancelled, bounds>>
FallbackDone(t) ==
  /\ t.kind = "fallback" /\ TasksOf(t.req) = {t}
  /\ Become(t, {}) /\ Release(t)
  /\ UNCHANGED <<serverVars, newWire, capability, requestVars, result, cancelled, bounds>>

\* writeUpsert: up to three replacements for each lost race, one after another.
First(s) == CHOOSE o \in s : \A p \in s : o <= p
Resolved(t, o, outcome) ==
  /\ result' = [result EXCEPT ![o] = outcome]
  /\ IF t.ops = {o} THEN Become(t, {}) /\ Release(t)
     ELSE Become(t, {[t EXCEPT !.ops = @ \ {o}, !.tries = 0]}) /\ UNCHANGED <<groups, writes>>
Upsert(t) ==
  /\ t.kind = "upsert"
  /\ \E o \in {First(t.ops)} :
       \/ Apply(o) /\ Resolved(t, o, "applied") /\ UNCHANGED faults
       \/ /\ Raced(o) /\ UNCHANGED <<store, effect, refused, faults>>
          /\ IF t.tries = 2 THEN Resolved(t, o, "conflict")
             ELSE Become(t, {[t EXCEPT !.tries = @ + 1]}) /\ UNCHANGED <<result, groups, writes>>
       \/ /\ faults < MaxFaults /\ faults' = faults + 1
          /\ \E err \in {"invalid", "unique", "backend"} : Resolved(t, o, err)
          /\ UNCHANGED <<store, effect, refused>>
       \/ /\ t.req \in cancelled
          /\ Resolved(t, o, "backend") /\ UNCHANGED <<store, effect, refused, faults>>
  /\ orphans' = orphans \cup {o \in t.ops : result'[o] = "backend"}
  /\ UNCHANGED <<newWire, capability, requestVars, cancelled, foreign, switches>>

-----------------------------------------------------------------------------
Cancel(r) ==
  /\ r \notin cancelled /\ stage[r] # "done" /\ faults < MaxFaults /\ faults' = faults + 1
  /\ cancelled' = cancelled \cup {r}
  /\ UNCHANGED <<serverVars, newWire, capability, requestVars, tasks, groups, writes, result, foreign, switches>>
Others ==
  /\ foreign < MaxForeign /\ foreign' = foreign + 1
  /\ \E k \in Records, v \in {Absent, Plain} : store' = [store EXCEPT ![k] = v]
  /\ UNCHANGED <<newWire, capability, requestVars, tasks, groups, writes, result, cancelled, orphans, effect, refused, faults, switches>>
Switch ==
  /\ switches < MaxSwitches /\ switches' = switches + 1 /\ newWire' = ~newWire
  /\ UNCHANGED <<serverVars, capability, requestVars, tasks, groups, writes, result, cancelled, faults, foreign>>

\* Every request has ended and every operation is answered.
Done ==
  /\ \A r \in Requests : stage[r] = "done"
  /\ \A o \in Ops : result[o] # "none"
  /\ UNCHANGED vars

Progress(r) == Launch(r) \/ LaunchDelete(r) \/ DeleteDone(r) \/ Conditionals(r) \/ Hello(r) \/ Discover(r) \/ NextWave(r)
Work(t) ==
  \/ Acquire(t) \/ Abort(t) \/ Reply(t) \/ ReplyOne(t) \/ DeleteReply(t) \/ Lose(t) \/ Fallback(t) \/ FallbackDone(t) \/ Upsert(t)
  \/ \E o \in t.left : Item(t, o)
Next ==
  \/ \E r \in Requests : Progress(r) \/ Cancel(r)
  \/ \E t \in tasks : Work(t)
  \/ \E o \in orphans : Orphan(o)
  \/ Others \/ Switch \/ Done

Spec == Init /\ [][Next]_vars

-----------------------------------------------------------------------------
\* Outcomes tell the truth: APPLIED was applied exactly once, PRECONDITION_FAILED
\* was refused and has no effect, INVALID_ARGUMENT, a duplicate of another unique
\* index and a retryable CONFLICT have no effect; nothing is ever applied twice.
OutcomesTrue == \A o \in Ops :
  /\ effect[o] <= 1
  /\ result[o] = "applied" => effect[o] = 1
  /\ result[o] = "precondition" => o \in refused /\ effect[o] = 0
  /\ result[o] \in {"invalid", "unique", "conflict"} => effect[o] = 0 /\ o \notin orphans

\* An operation takes effect only when those before it in its request on the same
\* record are answered (buildWriteWaves); one answered as lost may still run late.
RecordOrder == \A o \in Ops :
  effect'[o] > effect[o] /\ Kind(o) # "delete" => \A p \in OpsOf(Operations[o].req) :
    p < o /\ Record(p) = Record(o) => result[p] # "none"

\* Slots are held exactly by the calls in progress, within the configured limits,
\* whatever calls are cancelled, retried or handed over to single writes.
HoldsGroup(t) == t.kind \in {"bulk", "delete", "client", "upsert", "fallback"} /\ t.state # "queued"
HoldsWrite(t) == t.kind \in {"client", "one"} /\ t.state = "sent"
SlotsExact ==
  /\ groups = Cardinality({t \in tasks : HoldsGroup(t)}) /\ groups <= MaxGroups
  /\ writes = Cardinality({t \in tasks : HoldsWrite(t)}) /\ writes <= MaxWrites

\* A server that rejected the command is not asked for it again, even if an older
\* hello says that it would know it.
RejectionSticks == capability = "unavailable" => capability' = "unavailable"

=============================================================================
