---------------------------- MODULE NativeWrites ----------------------------
(***************************************************************************)
(* Native MongoDB commands (service Execute, storage/mongodb/native.go and *)
(* native_writes.go) beside Sink's own conditional writes.  A command is   *)
(* validated and every member of it is given a fresh revision before any   *)
(* of it is sent, so that a conditional write still notices the change.    *)
(***************************************************************************)
EXTENDS Integers, Sequences, FiniteSets, SequencesExt

CONSTANTS
  Records,          \* record ids of one collection
  Shapes,           \* a sequence of native requests that clients may send
  MaxRequests       \* how many they send

(* A shape: [store,   segments, http, bson, valid, budget, reply, name,    *)
(* target, fields, members]: whether its URI names the configured store,   *)
(* how many segments follow it, whether it has HTTP fields, has the BSON   *)
(* content type and holds valid BSON; the bytes left for its reply and     *)
(* those it takes; the command, the collection, the other top-level fields *)
(* and the members, each [ids, form, steps].  A path is a sequence of      *)
(* names; the metadata field is "meta".                                    *)
Ids == 1 .. MaxRequests

VARIABLES
  db,               \* [Records -> <<>> or <<its revision>>], 0 when it has none
  changes,          \* [Records -> Nat], how often the record has changed
  minted,           \* revisions generated so far
  request,          \* [Ids -> [shape, state, members, applied]]
  reader,           \* what the conditional writer has read: <<>> or <<[id, rev, changes, done]>>
  overwrote         \* changes that a conditional write replaced without having read them

vars == <<db, changes, minted, request, reader, overwrote>>

Shape(q) == Shapes[request[q].shape]

Init ==
  /\ db \in [Records -> {<<>>, <<0>>, <<1>>}]
  /\ changes = [r \in Records |-> 0] /\ minted = 1
  /\ \E shapes \in [Ids -> DOMAIN Shapes] :
       /\ \A q, o \in Ids : q < o => shapes[q] <= shapes[o]
       /\ request = [q \in Ids |->
            [shape |-> shapes[q], state |-> "new", members |-> <<>>, applied |-> 0]]
  /\ reader = <<>> /\ overwrote = 0

-----------------------------------------------------------------------------
(* validateNativeCommand, for Execute.                                     *)
CollectionCommands ==
  {"find", "aggregate", "listIndexes", "insert", "update", "delete", "findAndModify", "count",
   "distinct", "createIndexes", "dropIndexes", "collStats"}
Managed == {"$db", "lsid", "txnNumber", "startTransaction", "autocommit", "maxTimeMS"}
Executable ==
  {"insert", "update", "delete", "findAndModify", "count", "distinct", "explain", "createIndexes",
   "dropIndexes", "collStats", "dbStats", "ping", "hello", "buildInfo", "serverStatus"}
ValidateNativeCommand(q) ==
  LET c == Shape(q) IN
  /\ c.store /\ c.segments \in {1, 2} /\ ~c.http /\ c.bson /\ c.valid
  /\ c.segments = 2 => c.name \in CollectionCommands /\ c.target \in {"", "collection"}
  /\ IsInjective(<<c.name>> \o c.fields) /\ ToSet(c.fields) \cap Managed = {}
  /\ c.name \in Executable

-----------------------------------------------------------------------------
(* prepareNativeWrite: each member with the metadata Sink adds to it.      *)
\* The URI's collection replaces the command's target.
Target(c) == IF c.segments = 2 THEN "collection" ELSE c.target
WritePath(path) == path[1] # "meta"
Stamp(op, rev) == [op |-> op, path |-> <<"meta">>, to |-> <<"-">>, rev |-> rev]
\* validateNativeWriteFields, within one document.
UniqueFields(m) == \A i, j \in DOMAIN m.steps :
  i # j /\ m.form # "pipeline" =>
    <<m.steps[i].op, m.steps[i].path>> # <<m.steps[j].op, m.steps[j].path>>

Operators == {"$currentDate", "$inc", "$set", "$setOnInsert", "$unset", "$rename", "$push"}
Stages == {"$set", "$addFields", "$project", "$unset", "$replaceRoot"}

NativeReplacement(steps, rev) ==
  IF \A s \in ToSet(steps) : s.op = "field" /\ WritePath(s.path)
  THEN <<Append(steps, Stamp("field", rev))>> ELSE <<>>
NativeOperatorUpdate(steps, rev) ==
  IF \A s \in ToSet(steps) : /\ s.op \in Operators /\ WritePath(s.path)
                             /\ s.op = "$rename" => WritePath(s.to)
  THEN <<Append(steps, Stamp("$set", rev))>> ELSE <<>>
StampedFirst(steps, rev) ==
  IF \A s \in ToSet(steps) : s.op \in Stages /\ (s.op # "$replaceRoot" => WritePath(s.path))
  THEN <<<<Stamp("$set", rev)>> \o steps>> ELSE <<>>
NativePipelineUpdate(steps, rev) ==
  IF \A s \in ToSet(steps) : s.op \in Stages /\ (s.op # "$replaceRoot" => WritePath(s.path))
  THEN <<Append(steps, Stamp("$set", rev))>> ELSE <<>>

\* nativeUpdateMember and the cases of prepareNativeWrite: <<>> refuses it.
Prepared(name, m, rev) ==
  CASE name \notin {"insert", "update", "findAndModify"} \/ m.form = "remove" -> <<m.steps>>
    [] name # "insert" /\ m.form = "operators" -> NativeOperatorUpdate(m.steps, rev)
    [] name # "insert" /\ m.form = "pipeline" -> NativePipelineUpdate(m.steps, rev)
    [] OTHER -> NativeReplacement(m.steps, rev)
Writes == {"insert", "update", "delete", "findAndModify"}
Protected(q) ==
  LET c == Shape(q) IN
  c.name \in Writes =>
    /\ Target(c) = "collection"
    /\ \A m \in ToSet(c.members) : UniqueFields(m) /\ Prepared(c.name, m, 0) # <<>>
PreparedMembers(q) ==
  LET c == Shape(q)
      member(i) == [ids |-> c.members[i].ids, form |-> c.members[i].form,
                    steps |-> Prepared(c.name, c.members[i], minted + i)[1]]
  IN [i \in DOMAIN c.members |-> member(i)]

-----------------------------------------------------------------------------
(* Execute.                                                                *)
Answer(q, state) ==
  /\ request' = [request EXCEPT ![q].state = state]
  /\ UNCHANGED <<db, changes, minted, reader, overwrote>>

\* Without a budget, or refused by admission.
Exhaust(q) == request[q].state = "new" /\ Answer(q, "exhausted")

\* validateNativeCommand or prepareNativeWrite refuses it.
Invalid(q) ==
  /\ request[q].state = "new" /\ Shape(q).budget > 0
  /\ ~(ValidateNativeCommand(q) /\ Protected(q))
  /\ Answer(q, "invalid")

\* RunCommand.
Send(q) ==
  /\ request[q].state = "new" /\ Shape(q).budget > 0
  /\ ValidateNativeCommand(q) /\ Protected(q)
  /\ request' = [request EXCEPT ![q].state = "sent", ![q].members = PreparedMembers(q)]
  /\ minted' = minted + Len(Shape(q).members)
  /\ UNCHANGED <<db, changes, reader, overwrote>>

\* MongoDB applies the next member to its records: what the metadata becomes.
After(rev, s) ==
  CASE s.op \in {"field", "$set", "$addFields"} /\ s.path[1] = "meta" -> {s.rev}
    [] s.op = "$replaceRoot" -> 0 .. minted
    [] s.op = "$unset" /\ s.path[1] = "meta" -> {0}
    [] s.op = "$project" -> {0}
    [] OTHER -> {rev}
Outcomes(rev, form, steps) ==
  FoldLeft(LAMBDA revs, s : UNION {After(v, s) : v \in revs},
           {IF form = "replacement" THEN 0 ELSE rev}, steps)
\* Commands other than the protected ones would leave the metadata alone.
Unprotected(name) == name \in {"bulkWrite", "aggregate", "mapReduce"}
Changed(ids) == changes' = [r \in Records |-> IF r \in ids THEN changes[r] + 1 ELSE changes[r]]
Apply(q) ==
  LET left == request[q].members
      m == left[1]
      name == Shape(q).name
      hit == {r \in m.ids : IF name = "insert" THEN db[r] = <<>> ELSE db[r] # <<>>}
  IN
  /\ request[q].state \in {"sent", "failed"} /\ left # <<>>
  /\ \/ /\ name \in Writes /\ m.form # "remove"
        /\ \E revs \in [hit -> 0 .. minted] :
             /\ \A r \in hit : revs[r] \in Outcomes(IF db[r] = <<>> THEN 0 ELSE db[r][1], m.form, m.steps)
             /\ db' = [r \in Records |-> IF r \in hit THEN <<revs[r]>> ELSE db[r]]
        /\ Changed(hit)
     \/ /\ m.form = "remove"
        /\ db' = [r \in Records |-> IF r \in hit THEN <<>> ELSE db[r]]
        /\ Changed(hit)
     \/ /\ name \notin Writes /\ UNCHANGED db
        /\ IF Unprotected(name) THEN Changed(hit) ELSE UNCHANGED changes
  /\ request' = [request EXCEPT ![q].members = Tail(@), ![q].applied = @ + 1]
  /\ UNCHANGED <<minted, reader, overwrote>>

\* A reply is passed on if it fits; an error may hide what was applied.
Reply(q) ==
  /\ request[q].state = "sent" /\ request[q].members = <<>>
  /\ Answer(q, IF Shape(q).reply <= Shape(q).budget THEN "success" ELSE "exhausted")
\* An error response stops the command, a lost one leaves it running.
BackendFails(q) ==
  /\ request[q].state = "sent"
  /\ \E left \in {<<>>, request[q].members} :
       request' = [request EXCEPT ![q].state = "failed", ![q].members = left]
  /\ UNCHANGED <<db, changes, minted, reader, overwrote>>

-----------------------------------------------------------------------------
(* A conditional write through Sink: readGroup returns the revision, and   *)
(* writeOne replaces the record if preconditionFilter still matches it,    *)
(* that is if its metadata is absent (0) or holds this revision.  Whether  *)
(* the reply arrives makes no difference here (MongoWrites).               *)
Read(r) ==
  /\ reader = <<>> /\ db[r] # <<>>
  /\ reader' = <<[id |-> r, rev |-> db[r][1], changes |-> changes[r], done |-> FALSE]>>
  /\ UNCHANGED <<db, changes, minted, request, overwrote>>
CompareAndSet ==
  /\ reader # <<>> /\ ~reader[1].done
  /\ LET r == reader[1].id IN
     IF db[r] = <<reader[1].rev>>
     THEN /\ overwrote' = overwrote + changes[r] - reader[1].changes
          /\ minted' = minted + 1 /\ db' = [db EXCEPT ![r] = <<minted + 1>>]
          /\ changes' = [changes EXCEPT ![r] = @ + 1]
     ELSE UNCHANGED <<db, changes, minted, overwrote>>
  /\ reader' = <<[reader[1] EXCEPT !.done = TRUE]>>
  /\ UNCHANGED request

Next ==
  \/ \E q \in Ids : Exhaust(q) \/ Invalid(q) \/ Send(q) \/ Apply(q) \/ Reply(q) \/ BackendFails(q)
  \/ \E r \in Records : Read(r)
  \/ CompareAndSet
Spec == Init /\ [][Next]_vars

-----------------------------------------------------------------------------
\* A conditional write never replaces a change it has not read, whatever
\* native commands, deletions and insertions came between its read and its
\* write: every one of them left a revision that no earlier state had.
NoLostUpdate == overwrote = 0

\* A command refused as invalid has changed nothing, even when only a later
\* member of it was refused, and a successful one was applied completely.
AnswersTrue ==
  \A q \in Ids :
    /\ request[q].state = "invalid" => request[q].applied = 0
    /\ request[q].state = "success" => request[q].applied = Len(Shape(q).members)
=============================================================================
