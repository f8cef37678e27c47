------------------------------ MODULE MCEngine -------------------------------
(***************************************************************************)
(* What an engine or a worker does with an RPC or a record: the parts of   *)
(* the service and the operations of the storages, each on an instance of  *)
(* its own.  An initial state chooses one of the run's Components, and the *)
(* variables of the others stay idle.                                      *)
(***************************************************************************)
EXTENDS Integers, Sequences

CONSTANTS
  Nothing,
  Components        \* the components of the run

VARIABLES
  component,        \* the component of this behaviour
  mutationsOps, mode, stored, plan, wave, lane, parallel, running, mutationsCancelled,
  mutationsAnswer, effects,
  clock, deadline, ended, stopped, context, contextsCalls, group, contextsAnswer,
  readsOps, readsStore, readsCalls, limit, readsCancelled, readsAnswer, refused,
  request, sent, rpcs, batcher, log, results,
  admissionAt, pool, queued, waiters, tokens, reserved,
  memoryAt, job, batch, refs, lease, bytes, need, document, buffers,
  returnsAt, tries, cand, returnsSize, retained, remaining, output, observed,
  store, newWire, capability, mongoWave, mongoStage, seen, tasks, groups, writes,
  mongoResult, cancelled, mongoOrphans, mongoEffect, mongoRefused, mongoFaults, foreign,
  switches,
  searchDoc, seq, searchWave, attempt, searchStage, pending, checks, base, bulk, errs,
  searchResult, revision, searchEffect, searchRefused, searchOrphans, searchFaults,
  db, nativeChanges, minted, nativeRequest, reader, overwrote,
  sScanPresent, sScanState, sScanReason, sScanCursor, sScanGot, sScanThroughout,
  sScanChanges, sScanFaults, size, hints,
  mScanPresent, mScanState, mScanReason, mScanCursor, mScanGot, mScanThroughout,
  mScanChanges, mScanFaults, page, at,
  docs, pagesRequest, strained, reply

Idle == "idle"

-----------------------------------------------------------------------------
\* Three RPCs over two records and an invalid one, of both completion modes.
Callers == <<"c1", "c2", "c3">>
Mutations == INSTANCE MutationBatches WITH
  Batch <- Callers, Keys <- {"x", "y", "bad"}, Invalid <- {"bad"},
  Requests <- {<<"x">>, <<"bad", "y", "x">>}, Modes <- {"applied", "visible"},
  ChunkBytes <- 4, ParallelBytes <- 4, MaxCancelled <- 1, ops <- mutationsOps,
  cancelled <- mutationsCancelled, answer <- mutationsAnswer
InMutations == component = "mutations"
MutationsVars == <<mutationsOps, mode, stored, plan, wave, lane, parallel, running,
  mutationsCancelled, mutationsAnswer, effects>>
MutationsIdle ==
  /\ mutationsOps = Idle /\ mode = Idle /\ stored = Idle /\ plan = Idle /\ wave = Idle
  /\ lane = Idle /\ parallel = Idle /\ running = Idle /\ mutationsCancelled = Idle
  /\ mutationsAnswer = Idle /\ effects = Idle

\* Three callers whose deadlines are one or two ticks away.
ContextsDeadlines ==
  {[c1 |-> 1, c2 |-> 2, c3 |-> 1], [c1 |-> 2, c2 |-> 2, c3 |-> 2]}
Contexts == INSTANCE BatchContexts WITH
  Batch <- Callers, Timeout <- 2, Deadlines <- ContextsDeadlines, MaxTime <- 1,
  calls <- contextsCalls, answer <- contextsAnswer
InContexts == component = "contexts"
ContextsVars == <<clock, deadline, ended, stopped, context, contextsCalls, group,
  contextsAnswer>>
ContextsIdle ==
  /\ clock = Idle /\ deadline = Idle /\ ended = Idle /\ stopped = Idle /\ context = Idle
  /\ contextsCalls = Idle /\ group = Idle /\ contextsAnswer = Idle

\* Three RPCs over three keys and one invalid key, with documents that fill a
\* quota, half of it or none; one RPC has a smaller snapshot grant and one a
\* smaller output grant.
ReadsRequests == {<<"x", "y">>, <<"y", "z", "y">>, <<"bad", "z">>}
ReadsDocuments == [x : {1, 5}, y : {1}, z : {0, 5}, bad : {0}]
Reads == INSTANCE ReadBatches WITH
  Batch <- Callers, Keys <- {"x", "y", "z", "bad"}, Requests <- ReadsRequests,
  Documents <- ReadsDocuments, Invalid <- {"bad"}, SnapshotLimit <- [c1 |-> 6, c2 |-> 3, c3 |-> 6],
  OutputLimit <- [c1 |-> 4, c2 |-> 6, c3 |-> 6], MaxRead <- 6, Overhead <- 1, ByteLimit <- 6, MaxRefused <- 1, ops <- readsOps,
  store <- readsStore,
  calls <- readsCalls, cancelled <- readsCancelled, answer <- readsAnswer
InReads == component = "reads"
ReadsVars == <<readsOps, readsStore, readsCalls, limit, readsCancelled, readsAnswer, refused>>
ReadsIdle ==
  /\ readsOps = Idle /\ readsStore = Idle /\ readsCalls = Idle /\ limit = Idle
  /\ readsCancelled = Idle /\ readsAnswer = Idle /\ refused = Idle

\* Two callers: one with every reference and declaration, one whose two
\* operations lie in two Stores.
Ref(source, sha) == [source |-> source, sha |-> sha]
Merge(in, program) == [kind |-> "merge", store |-> in, program |-> program]
Put(in) == [kind |-> "put", store |-> in, program |-> Nothing]
References ==
  {Nothing, Ref("a", ""), Ref("a", "b"), Ref("a", "short"), Ref("", "a"), Ref("", "b"),
   Ref("", "short"), Ref("", ""), Ref("bad", ""), Ref("", "bad")}
Declarations == {<<>>, <<Ref("a", "")>>, <<Ref("b", "b")>>, <<Ref("bad", ""), Ref("a", "a")>>}
Refused == {<<Ref("a", "b")>>, <<Nothing>>, <<Ref("", "a")>>}
Declared == <<Ref("a", ""), Ref("b", "b")>>
ProgramsRequestsOf ==
  [c1 |-> {[mode |-> m, programs |-> d, ops |-> <<Merge("x", r)>>] :
             m \in {"applied", "accepted"}, d \in Declarations, r \in References}
          \union {[mode |-> "applied", programs |-> d, ops |-> <<Merge("x", Ref("", "a"))>>] :
                    d \in Refused},
   c2 |-> {[mode |-> m, programs |-> d, ops |-> <<Merge("x", r), Merge("y", Ref("", "b"))>>] :
             m \in {"applied", "accepted"}, d \in {<<>>, Declared},
             r \in {Ref("", "a"), Ref("b", "b")}}
          \union {[mode |-> "visible", programs |-> Declared,
                   ops |-> <<Merge("x", Ref("", "a")), Put("x")>>]}]
Programs == INSTANCE LuaPrograms WITH
  Callers <- {"c1", "c2"}, Stores <- {"x", "y"}, RequestsOf <- ProgramsRequestsOf,
  Broken <- {"bad"}, Empty <- "", Short <- "short"
InPrograms == component = "programs"
ProgramsVars == <<request, sent, rpcs, batcher, log, results>>
ProgramsIdle ==
  /\ request = Idle /\ sent = Idle /\ rpcs = Idle /\ batcher = Idle /\ log = Idle
  /\ results = Idle

\* Five RPCs on a pool of two slots and four bytes: a large batch, a direct write
\* that resizes, two scans that compete for the scan share, and a worker mutation.
AdmissionKind ==
  [large |-> "batch", small |-> "direct", scan1 |-> "scan", scan2 |-> "scan", plain |-> "plain"]
AdmissionBytes == [large |-> 4, small |-> 2, scan1 |-> 1, scan2 |-> 2, plain |-> 1]
AdmissionInput == [r \in DOMAIN AdmissionKind |-> 1]
Admission == INSTANCE Admission WITH
  Requests <- DOMAIN AdmissionKind, Kind <- AdmissionKind, Bytes <- AdmissionBytes,
  Input <- AdmissionInput, Resizable <- {"small"}, MaxRequests <- 2, MaxBytes <- 4,
  MaxScanRequests <- 1, MaxScanBytes <- 2, MaxQueuedRequests <- 1, MaxQueuedBytes <- 1,
  at <- admissionAt
InAdmission == component = "admission"
AdmissionVars == <<admissionAt, pool, queued, waiters, tokens, reserved>>
AdmissionIdle ==
  /\ admissionAt = Idle /\ pool = Idle /\ queued = Idle /\ waiters = Idle /\ tokens = Idle
  /\ reserved = Idle

\* Two RPCs, one with a document larger than the envelope and one smaller.
RpcScopes == INSTANCE RpcMemory WITH
  Rpcs <- {"r1", "r2"}, InputBytes <- 1, CompletionBytes <- 2,
  DocumentBytes <- [r1 |-> 4, r2 |-> 1], Overhead <- 1, Batch <- "batch", at <- memoryAt
InMemory == component = "memory"
MemoryVars == <<memoryAt, job, batch, refs, lease, bytes, need, document, buffers>>
MemoryIdle ==
  /\ memoryAt = Idle /\ job = Idle /\ batch = Idle /\ refs = Idle /\ lease = Idle
  /\ bytes = Idle /\ need = Idle /\ document = Idle /\ buffers = Idle

\* Two RPCs in one execution: the first writes one record twice and another
\* record by a put, the second merges a record of its own.  Documents of
\* three sizes, and grants in which some pairs of them fit.
Returns == INSTANCE WriteReturns WITH
  Ops <- 1..4, Callers <- {"c1", "c2"}, Owner <- <<"c1", "c1", "c1", "c2">>,
  Wave <- <<1, 2, 1, 1>>, Puts <- {3}, Limit <- [c1 |-> 6, c2 |-> 3], Sizes <- {0, 1, 3},
  Overhead <- 1, MaxMergeAttempts <- 2, at <- returnsAt,
  size <- returnsSize
InReturns == component = "returns"
ReturnsVars == <<returnsAt, tries, cand, returnsSize, retained, remaining, output, observed>>
ReturnsIdle ==
  /\ returnsAt = Idle /\ tries = Idle /\ cand = Idle /\ returnsSize = Idle /\ retained = Idle
  /\ remaining = Idle /\ output = Idle /\ observed = Idle

\* Two writers over two records of two collections, with conditional writes that
\* may go into a client bulk write.
MongoOp(r, k, kind, rev, doc) == [req |-> r, record |-> k, kind |-> kind, rev |-> rev, doc |-> doc]
MongoOperations == <<
  MongoOp("w1", "a", "exists", 0, "large"), MongoOp("w2", "a", "revision", 9, "small"),
  MongoOp("w2", "b", "unmarked", 0, "small"), MongoOp("w2", "b", "invalid", 0, "small") >>
Mongo == INSTANCE MongoWrites WITH
  Operations <- MongoOperations, CollectionOf <- [a |-> "a", b |-> "b"],
  Initial <- {[a |-> 9, b |-> 0], [a |-> -1, b |-> 0]}, MaxGroups <- 1, MaxWrites <- 1,
  MaxFaults <- 1, MaxForeign <- 0, MaxSwitches <- 1, wave <- mongoWave,
  stage <- mongoStage, result <- mongoResult, orphans <- mongoOrphans,
  effect <- mongoEffect, refused <- mongoRefused, faults <- mongoFaults
InMongo == component = "mongo"
MongoVars == <<store, newWire, capability, mongoWave, mongoStage, seen, tasks, groups,
  writes, mongoResult, cancelled, mongoOrphans, mongoEffect, mongoRefused, mongoFaults,
  foreign, switches>>
MongoIdle ==
  /\ store = Idle /\ newWire = Idle /\ capability = Idle /\ mongoWave = Idle
  /\ mongoStage = Idle /\ seen = Idle /\ tasks = Idle /\ groups = Idle /\ writes = Idle
  /\ mongoResult = Idle /\ cancelled = Idle /\ mongoOrphans = Idle /\ mongoEffect = Idle
  /\ mongoRefused = Idle /\ mongoFaults = Idle /\ foreign = Idle /\ switches = Idle

\* Unconditional writes, an insertion and a deletion of the same records meet; an
\* upsert may lose the race for its insertion to another writer.
BulkOperations == <<
  MongoOp("w1", "a", "none", 0, "unusual"), MongoOp("w1", "b", "none", 0, "unusual"),
  MongoOp("w1", "a", "insert", 0, "unusual"), MongoOp("w2", "a", "delete", 0, "unusual") >>
Bulk == INSTANCE MongoWrites WITH
  Operations <- BulkOperations, CollectionOf <- [a |-> "c", b |-> "c"],
  Initial <- {[a |-> -1, b |-> 0]}, MaxGroups <- 1, MaxWrites <- 1, MaxFaults <- 1,
  MaxForeign <- 1, MaxSwitches <- 0, wave <- mongoWave, stage <- mongoStage,
  result <- mongoResult, orphans <- mongoOrphans, effect <- mongoEffect,
  refused <- mongoRefused, faults <- mongoFaults
InBulk == component = "bulk"
\* Replacements of two records compete with a writer and a deletion;
\* metadata of one document fits into a response.
SearchOp(r, k, kind, rev) == [req |-> r, record |-> k, kind |-> kind, rev |-> rev]
SearchOperations == <<
  SearchOp("w1", "a", "exists", 0), SearchOp("w1", "b", "exists", 0),
  SearchOp("w1", "a", "create", 0), SearchOp("w2", "a", "revision", 9),
  SearchOp("w2", "b", "unmarked", 0), SearchOp("w2", "b", "invalid", 0),
  SearchOp("w3", "a", "delete", 0) >>
Searches == INSTANCE SearchWrites WITH
  Operations <- SearchOperations, Initial <- {[a |-> 9, b |-> 8]}, MaxAttempts <- 2,
  MaxDocs <- 1, MaxFaults <- 1, doc <- searchDoc, wave <- searchWave, stage <- searchStage,
  result <- searchResult, effect <- searchEffect, refused <- searchRefused,
  orphans <- searchOrphans, faults <- searchFaults
InSearch == component = "search"
SearchVars == <<searchDoc, seq, searchWave, attempt, searchStage, pending, checks, base,
  bulk, errs, searchResult, revision, searchEffect, searchRefused, searchOrphans,
  searchFaults>>
SearchIdle ==
  /\ searchDoc = Idle /\ seq = Idle /\ searchWave = Idle /\ attempt = Idle
  /\ searchStage = Idle /\ pending = Idle /\ checks = Idle /\ base = Idle /\ bulk = Idle
  /\ errs = Idle /\ searchResult = Idle /\ revision = Idle /\ searchEffect = Idle
  /\ searchRefused = Idle /\ searchOrphans = Idle /\ searchFaults = Idle

\* Two records and every form of write, including those that must be refused.
Stage(op, path) == [op |-> op, path |-> path, to |-> <<"b">>, rev |-> 0]
Member(ids, form, steps) == [ids |-> ids, form |-> form, steps |-> steps]
Command(name, members) ==
  [store |-> TRUE, segments |-> 2, http |-> FALSE, bson |-> TRUE, valid |-> TRUE, budget |-> 4,
   reply |-> 4, name |-> name, target |-> "", fields |-> <<"writeConcern">>, members |-> members]
SetA == Member({1}, "operators", <<Stage("$set", <<"a">>)>>)
SetMeta == Member({1}, "operators", <<Stage("$set", <<"meta", "revision">>)>>)
RenameToMeta == Member({1}, "operators", <<[Stage("$rename", <<"a">>) EXCEPT !.to = <<"meta">>]>>)
Replace == Member({1}, "replacement", <<Stage("field", <<"a">>)>>)
Remove == Member({1}, "remove", <<>>)
ReplaceRoots == Member({1, 2}, "pipeline", <<Stage("$replaceRoot", <<"a">>)>>)
Project == Member({1}, "pipeline", <<Stage("$project", <<"a">>), Stage("$unset", <<"b">>)>>)
NativeShapes == <<
  Command("update", <<SetA, ReplaceRoots>>), Command("update", <<SetA, SetMeta>>),
  Command("update", <<RenameToMeta>>), Command("insert", <<Replace>>),
  Command("findAndModify", <<Remove>>), Command("bulkWrite", <<SetA>>),
  [Command("update", <<Project>>) EXCEPT !.reply = 5],
  [Command("delete", <<Remove>>) EXCEPT !.fields = <<"lsid">>],
  [Command("count", <<Member({1}, "query", <<>>)>>) EXCEPT
     !.segments = 1, !.target = "collection"]>>
Native == INSTANCE NativeWrites WITH
  Records <- {1, 2}, Shapes <- NativeShapes, MaxRequests <- 2, changes <- nativeChanges,
  request <- nativeRequest
InNative == component = "native"
NativeVars == <<db, nativeChanges, minted, nativeRequest, reader, overwrote>>
NativeIdle ==
  /\ db = Idle /\ nativeChanges = Idle /\ minted = Idle /\ nativeRequest = Idle
  /\ reader = Idle /\ overwrote = Idle

\* Scans of three commands, one in descending order, one without a usable
\* sort, and one with a quota too small for any page.  Two documents share a sort
\* value, two fill a page each and one is too large for any page.
Scan(query, most, maximum) == [query |-> query, batch |-> most, maximum |-> maximum]
Doc(key, length) == [key |-> key, size |-> length]
Query(direction, matching) == [direction |-> direction, docs |-> matching]
SScanScans == <<Scan(1, 3, 9), Scan(2, 2, 9), Scan(3, 1, 9), Scan(3, 1, 1)>>
SScanDocs == <<Doc(1, 4), Doc(2, 5), Doc(2, 1), Doc(3, 10)>>
SScanQueries == <<Query(1, 1..3), Query(-1, {1, 2, 4}), Query(1, {1})>>
By(name, direction) == [name |-> name, direction |-> direction]
SScanSorts ==
  <<<<By("day", "asc"), By("number", "asc")>>, <<By("number", "desc")>>,
    <<By("day", "asc"), By("_id", "asc")>>>>
SScan == INSTANCE SearchScan WITH
  Scans <- SScanScans, Docs <- SScanDocs, Queries <- SScanQueries, PageFraming <- 1,
  CursorLimit <- 2, CursorBytes <- 2, Overhead <- 1, Framing <- 1, MaxChanges <- 1,
  MaxFaults <- 1, Sorts <- SScanSorts, MaxHints <- 1, present <- sScanPresent,
  state <- sScanState, reason <- sScanReason, cursor <- sScanCursor, got <- sScanGot,
  throughout <- sScanThroughout, changes <- sScanChanges, faults <- sScanFaults
InSScan == component = "searchscan"
SScanVars == <<sScanPresent, sScanState, sScanReason, sScanCursor, sScanGot,
  sScanThroughout, sScanChanges, sScanFaults, size, hints>>
SScanIdle ==
  /\ sScanPresent = Idle /\ sScanState = Idle /\ sScanReason = Idle /\ sScanCursor = Idle
  /\ sScanGot = Idle /\ sScanThroughout = Idle /\ sScanChanges = Idle /\ sScanFaults = Idle
  /\ size = Idle /\ hints = Idle

\* Scans in both directions, one hiding _id, one with a quota that may leave too
\* little for the cursor, one with an option that can not be resumed, and one with
\* a quota too small for any page.  One document fills a page once its _id is hidden.
MScanScans == <<Scan(1, 2, 9), Scan(2, 3, 6), Scan(3, 1, 9), Scan(3, 1, 1)>>
MScanDocs == <<Doc(1, 1), Doc(2, 6), Doc(3, 2), Doc(4, 3), Doc(5, 9)>>
MScanQueries == <<Query(1, 1..4), Query(-1, {1, 3, 4, 5}), Query(1, {1})>>
MScanCommands ==
  <<[filter |-> "some", projection |-> "without id"],
    [filter |-> "some", sort |-> "down", collation |-> "simple"],
    [filter |-> "some", skip |-> "two"]>>
MScan == INSTANCE MongoScan WITH
  Scans <- MScanScans, Docs <- MScanDocs, Queries <- MScanQueries, PageFraming <- 1,
  CursorLimit <- 2, CursorBytes <- 2, Overhead <- 1, Framing <- 1, MaxChanges <- 1,
  MaxFaults <- 1, Commands <- MScanCommands, IdBytes <- 1, present <- mScanPresent,
  state <- mScanState, reason <- mScanReason, cursor <- mScanCursor, got <- mScanGot,
  throughout <- mScanThroughout, changes <- mScanChanges, faults <- mScanFaults
InMScan == component = "mongoscan"
MScanVars == <<mScanPresent, mScanState, mScanReason, mScanCursor, mScanGot,
  mScanThroughout, mScanChanges, mScanFaults, page, at>>
MScanIdle ==
  /\ mScanPresent = Idle /\ mScanState = Idle /\ mScanReason = Idle /\ mScanCursor = Idle
  /\ mScanGot = Idle /\ mScanThroughout = Idle /\ mScanChanges = Idle /\ mScanFaults = Idle
  /\ page = Idle /\ at = Idle

\* Up to four documents of two sizes, the large one too large for a page with
\* another; pages up to three of at most three documents.  The widths of the
\* integers are scaled down so that the last pages reach them.  An aggregation
\* of a search fills half of the budget.
PagesContents == UNION {[1..n -> {1, 4}] : n \in 0..4}
Find(filter, options) == [kind |-> "find", filter |-> filter, options |-> options]
Aggregate(stages) == [kind |-> "aggregate", filter |-> stages, options |-> {}]
PagesEnvelope(body) == IF "aggs" \in body THEN 5 ELSE 1
PagesCommands ==
  [mongo |-> {Find({}, {}), Find({}, {"limit", "hint"}), Find({<<"age">>}, {"sort"}),
              Find({<<"$and", "$where">>, <<"age">>}, {}), Find({<<"$where">>}, {"skip"}),
              Find({<<"$expr", "$literal", "$where">>}, {"comment"}), Find({}, {"tailable"}),
              Find({}, {"allowPartialResults"}),
              Aggregate({<<"$match", "$out">>, <<"$lookup", "$match">>}),
              Aggregate({<<"$match">>, <<"$facet", "$unionWith", "$merge">>}),
              [kind |-> "listIndexes", filter |-> {}, options |-> {}]},
   search |-> {[route |-> "/index/_search", params |-> {}, body |-> {"query", "aggs"}],
               [route |-> "/_search", params |-> {}, body |-> {"collapse"}],
               [route |-> "/index/_doc/_search", params |-> {}, body |-> {}],
               [route |-> "/_search", params |-> {"scroll"}, body |-> {}],
               [route |-> "/_search", params |-> {}, body |-> {"pit"}]}]
Pages == INSTANCE QueryPages WITH
  Contents <- PagesContents, Commands <- PagesCommands, PageNumbers <- {0, 1, 2, 3},
  PageSizes <- {0, 1, 3, 4}, DefaultPage <- 2, MaxPage <- 3, MaxInt64 <- 8, MaxInt32 <- 4,
  Grants <- {0, 9}, Overhead <- 1, Framing <- 1, Envelope <- PagesEnvelope, CountBytes <- 2,
  request <- pagesRequest
InPages == component = "pages"
PagesVars == <<docs, pagesRequest, strained, reply>>
PagesIdle ==
  /\ docs = Idle /\ pagesRequest = Idle /\ strained = Idle /\ reply = Idle

ASSUME EngineAssumption ==
  /\ Mutations!MutationAssumption /\ Contexts!ContextAssumption /\ Reads!ReadAssumption
  /\ Admission!AdmissionAssumption /\ RpcScopes!MemoryAssumption /\ Returns!ReturnsAssumption
  /\ Mongo!MongoWritesAssumption /\ Bulk!MongoWritesAssumption
  /\ Searches!SearchWritesAssumption /\ SScan!ScanPagesAssumption
  /\ MScan!ScanPagesAssumption /\ Pages!QueryPagesAssumption

-----------------------------------------------------------------------------
\* The components of the runs service and storage.
Service == {"mutations", "contexts", "reads", "programs", "admission", "memory", "returns"}
Storage == {"mongo", "bulk", "search", "native", "searchscan", "mongoscan", "pages"}

vars == <<component, MutationsVars, ContextsVars, ReadsVars, ProgramsVars, AdmissionVars,
  MemoryVars, ReturnsVars, MongoVars, SearchVars, NativeVars, SScanVars, MScanVars,
  PagesVars>>

Init ==
  /\ component \in Components
  /\ IF InMutations THEN Mutations!Init ELSE MutationsIdle
  /\ IF InContexts THEN Contexts!Init ELSE ContextsIdle
  /\ IF InReads THEN Reads!Init ELSE ReadsIdle
  /\ IF InPrograms THEN Programs!Init ELSE ProgramsIdle
  /\ IF InAdmission THEN Admission!Init ELSE AdmissionIdle
  /\ IF InMemory THEN RpcScopes!Init ELSE MemoryIdle
  /\ IF InReturns THEN Returns!Init ELSE ReturnsIdle
  /\ IF InMongo THEN Mongo!Init ELSE IF InBulk THEN Bulk!Init ELSE MongoIdle
  /\ IF InSearch THEN Searches!Init ELSE SearchIdle
  /\ IF InNative THEN Native!Init ELSE NativeIdle
  /\ IF InSScan THEN SScan!Init ELSE SScanIdle
  /\ IF InMScan THEN MScan!Init ELSE MScanIdle
  /\ IF InPages THEN Pages!Init ELSE PagesIdle
\* The only other states in which a component may stop: every RPC has its answer,
\* or all memory has been returned.
Ended ==
  \/ InMutations /\ Mutations!AllAnswered
  \/ InReads /\ Reads!AllAnswered
  \/ InMemory /\ RpcScopes!AllReturned
  \/ InNative /\ \A q \in 1..2 : nativeRequest[q].state \notin {"new", "sent"}
  \/ InPages /\ reply # Pages!Pending

Step ==
  /\ UNCHANGED component
  /\ IF InMutations THEN Mutations!Next ELSE UNCHANGED MutationsVars
  /\ IF InContexts THEN Contexts!Next ELSE UNCHANGED ContextsVars
  /\ IF InReads THEN Reads!Next ELSE UNCHANGED ReadsVars
  /\ IF InPrograms THEN Programs!Next ELSE UNCHANGED ProgramsVars
  /\ IF InAdmission THEN Admission!Next ELSE UNCHANGED AdmissionVars
  /\ IF InMemory THEN RpcScopes!Next ELSE UNCHANGED MemoryVars
  /\ IF InReturns THEN Returns!Next ELSE UNCHANGED ReturnsVars
  /\ IF InMongo THEN Mongo!Next ELSE IF InBulk THEN Bulk!Next ELSE UNCHANGED MongoVars
  /\ IF InSearch THEN Searches!Next ELSE UNCHANGED SearchVars
  /\ IF InNative THEN Native!Next ELSE UNCHANGED NativeVars
  /\ IF InSScan THEN SScan!Next ELSE UNCHANGED SScanVars
  /\ IF InMScan THEN MScan!Next ELSE UNCHANGED MScanVars
  /\ IF InPages THEN Pages!Next ELSE UNCHANGED PagesVars

Next == Step \/ (Ended /\ UNCHANGED vars)

Spec == Init /\ [][Next]_vars

-----------------------------------------------------------------------------
\* Mutations joined in one batch reach each record in queue order although the
\* waves run both completion modes at once, no two lanes meet on a record, and
\* every RPC gets the results of its own records (executeDeletes, executeWrites).
QueueOrder ==
  InMutations => Mutations!QueueOrder /\ Mutations!LanesDisjoint /\ Mutations!OwnResults

\* Work that callers share lives as long as one of them waits within its
\* deadline, and no waiting caller is failed on account of the others
\* (batchExecutionContext).
SharedWorkLives == InContexts => Contexts!SharedWorkLives /\ Contexts!ErrorForCause

\* An RPC gets from its batch what it could have got alone, but for documents whose
\* snapshot others paid for, within the quota granted to it (Server.read).
Transparent == InReads => Reads!Transparent /\ Reads!OutputWithinQuota

\* Each merge runs the program that its own request names, and is refused exactly
\* when that request names none, however requests are split, joined or sent
\* through Kafka; no operation is lost (luaPrograms).
OwnProgram ==
  InPrograms => Programs!OwnProgram /\ Programs!AcceptedRuns /\ Programs!Answered

\* The counters of the admission are those of the requests that run and wait, all
\* limits are kept, and the oldest waiter that fits has been woken (admitRequest
\* with the legacy limits instead of the process pool).
Accounting ==
  InAdmission => /\ Admission!TypeOK /\ Admission!Accounting /\ Admission!WithinLimits
                 /\ Admission!NoLostWakeup

\* What an RPC, its batch or the transport can still read stays charged to the
\* RPC's scope, and a scope is referenced exactly by those who use it
\* (requestMemoryHandler, rpcmemory.Scope).  Response bytes are neither lost nor
\* counted twice across compare-and-set attempts, and what the tracker reports
\* covers every moment's use (writeReturns).
OutputCharged ==
  /\ InMemory => /\ RpcScopes!TypeOK /\ RpcScopes!InputCharged
                 /\ RpcScopes!OutputCharged /\ RpcScopes!References
  /\ InReturns => /\ Returns!TypeOK /\ Returns!Conserved
                  /\ Returns!SettledExact /\ Returns!PeakReported

\* Outcomes tell the truth and nothing is applied twice, whatever is retried,
\* split, cancelled or left by a lost reply, and slots are held exactly by the
\* calls in progress (Write and Delete of both storages).
OutcomesTrue ==
  /\ InMongo => Mongo!OutcomesTrue /\ Mongo!SlotsExact
  /\ InBulk => Bulk!OutcomesTrue /\ Bulk!SlotsExact
  /\ InSearch => Searches!OutcomesTrue

\* An operation takes effect only when those before it in its request on the same
\* record are answered, though one answered as lost may run late; a replacement
\* creates no record, and a command that the server rejected is not sent to it
\* again (buildWriteWaves, bulkUpsert, capability).
RecordOrder ==
  [][/\ InMongo => Mongo!RecordOrder /\ Mongo!RejectionSticks
     /\ InBulk => Bulk!RecordOrder /\ Bulk!RejectionSticks
     /\ InSearch => Searches!RecordOrder /\ Searches!ReplaceOnly]_vars

\* A conditional write never replaces a change that its client has not read,
\* whatever native commands came between, and a native command is applied once
\* or, if refused, not at all (Execute of the MongoDB storage).
NoLostUpdate == InNative => Native!NoLostUpdate /\ Native!AnswersTrue

\* A scan returns every document that matched all the time, once and in order,
\* over pages retried, resumed or split, and fails only over a document that is too
\* large by itself or a quota too small for a page (Scan of both storages).  A page
\* of a query is exactly the part of the result it names, counts are exact unless
\* they say otherwise, and only a true cause makes it fail (Query, Count).
ReadsExact ==
  /\ InSScan => /\ SScan!OnceInOrder /\ SScan!NoneMissed
                /\ SScan!TooLargeIsTrue /\ SScan!HintsBounded
  /\ InMScan => /\ MScan!OnceInOrder /\ MScan!NoneMissed
                /\ MScan!TooLargeIsTrue /\ MScan!HiddenIdIsFree
  /\ InPages => Pages!PageExact /\ Pages!ErrorsTrue /\ Pages!CountExact

=============================================================================
