----------------------------- MODULE QueryPages -----------------------------
(***************************************************************************)
(* Query and Count: the service (query.go) over the adapters of MongoDB    *)
(* (mongodb/query.go) and of the search engines (search/query.go).  Both   *)
(* turn a native command into one page, and tell whether more follows,     *)
(* by different means: MongoDB reads one document more than the page, the  *)
(* search adapter has the engine count just beyond the page.               *)
(***************************************************************************)
EXTENDS Integers, Sequences, FiniteSets, SequencesExt

CONSTANTS
  Contents,         \* possible sequences of the sizes of the matching documents
  Commands,         \* [driver -> possible native commands]; a command of MongoDB is
                    \* [kind, filter, options], its filter the paths of keys in its
                    \* filter or pipeline; a search is [route, params, body]
  PageNumbers, PageSizes, \* possible fields of a request
  DefaultPage, MaxPage,   \* the default and the largest page size (100, 1000)
  MaxInt64, MaxInt32,
  Grants,           \* possible bytes granted to a response, 0 if none are left
  Overhead,         \* bytes the budget adds to a document
  Framing,          \* bytes a document adds to an encoded response
  Envelope(_),      \* bytes of a search's reply besides its hits, by its body
  CountBytes        \* bytes of the constant countFind projects

QueryPagesAssumption ==
  /\ \A grant \in Grants \ {0} : CountBytes + Overhead <= grant /\ Envelope({}) <= grant
  /\ DefaultPage <= MaxPage /\ Framing <= Overhead

VARIABLES
  docs,             \* sizes of the documents that match, in the order of the sort
  request,          \* [op, driver, command, page, size, grant]
  strained,         \* whether the pool may refuse memory, or the cluster requests
  reply             \* [pending], [error], [from, count, more] or [total, estimated]

vars == <<docs, request, strained, reply>>

Pending == [pending |-> TRUE]

Init ==
  /\ docs \in Contents
  /\ \E driver \in DOMAIN Commands :
       request \in [op : {"query", "count"}, driver : {driver}, command : Commands[driver],
                    page : PageNumbers, size : PageSizes, grant : Grants]
  /\ strained \in BOOLEAN
  /\ reply = Pending

Least(a, b) == IF a <= b THEN a ELSE b
Most(a, b) == IF a >= b THEN a ELSE b
SumWith(extra, sizes) == FoldLeft(LAMBDA n, size : n + size + extra, 0, sizes)
Sum(sizes) == SumWith(Overhead, sizes)
Slice(offset, n) == SubSeq(docs, offset + 1, Least(offset + n, Len(docs)))

-----------------------------------------------------------------------------
(* The service.                                                            *)
PageSize == IF request.size = 0 THEN DefaultPage ELSE request.size
Offset == (Most(request.page, 1) - 1) * PageSize
MaxBytes == request.grant

Reject(code) == reply' = [error |-> code]
\* A page the adapter returned.
Answer(page, more) ==
  reply' = IF Len(page) > PageSize \/ (more /\ Len(page) # PageSize) THEN [error |-> "internal"]
           ELSE IF SumWith(Framing, page) > MaxBytes THEN [error |-> "exhausted"]
           ELSE [from |-> Offset, count |-> Len(page), more |-> more]
Arrived == reply = Pending /\ UNCHANGED <<docs, request, strained>>
Asked(driver, op) == Arrived /\ request.driver = driver /\ request.op = op /\ MaxBytes > 0
TooManyAsked == request.op = "query" /\ PageSize > MaxPage
\* No part of the budget is left for this request.
NoBudget == Arrived /\ MaxBytes = 0 /\ Reject("exhausted")
\* The backend fails.
Unavailable == Arrived /\ MaxBytes > 0 /\ Reject("backend")
\* Memory is refused: at admission, for the wire, for the reply or for the output;
\* or the cluster answers that it is too busy.
Strained == Arrived /\ MaxBytes > 0 /\ strained /\ Reject("exhausted")

-----------------------------------------------------------------------------
(* MongoDB.                                                                *)
Command == request.command
\* Query replaces the paging of a find; an aggregate is paged after its stages.
Paged == {"skip", "limit", "batchSize", "sort", "projection"}
FoundWithin(offset, limit) == IF "limit" \in Command.options THEN Slice(offset, 1) ELSE Slice(offset, limit)
Found(offset, limit) == Slice(offset, limit)
\* The document after the page only shows that there is one.
Charged(found) == Sum(SubSeq(found, 1, Least(PageSize, Len(found))))
\* forbiddenNativeQuery, forbiddenNativePipeline: stages that write or follow
\* changes, at the top or in the pipelines of other stages.
ForbiddenStage(path) ==
  \E i \in DOMAIN path : /\ path[i] \in {"$out", "$merge", "$changeStream"}
                         /\ \A j \in 1..(i - 1) : path[j] \in {"$facet", "$lookup", "$unionWith"}
Forbidden ==
  \/ Command.options \cap {"tailable", "awaitData", "noCursorTimeout", "singleBatch",
                           "allowPartialResults"} # {}
  \/ Command.kind = "aggregate" /\ \E path \in Command.filter : ForbiddenStage(path)
Readable == Command.kind \in {"find", "aggregate"} /\ ~Forbidden
MongoQuery ==
  /\ Asked("mongo", "query")
  /\ LET found == Found(Offset, PageSize + 1)
     IN \/ (TooManyAsked \/ ~Readable) /\ Reject("invalid")
        \/ /\ ~TooManyAsked /\ Readable
           /\ IF Charged(found) > MaxBytes THEN Reject("exhausted")
              ELSE Answer(SubSeq(found, 1, Least(PageSize, Len(found))), Len(found) > PageSize)

\* countPipeline: the options of a find that a count can honour or ignore.
Countable ==
  /\ Readable
  /\ Command.kind = "find" => Command.options \subseteq Paged \cup
       {"hint", "collation", "readConcern", "let", "comment", "allowDiskUse"}
\* canEstimateCount: the collection's metadata, if no option depends on more.
Estimates == /\ Command.kind = "find" /\ Command.filter = {}
             /\ Command.options \subseteq Paged \cup {"comment"}
\* containsFindOnlyPredicate: predicates $match rejects, outside of literals.
RequiresFind ==
  /\ Command.kind = "find"
  /\ \E path \in Command.filter : \E i \in DOMAIN path :
       /\ path[i] \in {"$where", "$near", "$nearSphere"}
       /\ \A j \in 1..(i - 1) : path[j] # "$literal"
\* The server rejects them in a pipeline.
MatchFails ==
  \E path \in Command.filter : \E i \in DOMAIN path :
    path[i] = "$where" /\ "$literal" \notin ToSet(SubSeq(path, 1, i))
\* scanDocuments with countFind's visitor: pages of at most MaxPage documents
\* that fit the working budget; the visitor adds the length of each.
Visit(sizes) ==
  LET end == FoldLeft(LAMBDA p, size :
             IF p.held + size + Overhead > MaxBytes \/ p.batch = MaxPage
             THEN [sent |-> p.sent + p.batch, batch |-> 1, held |-> size + Overhead]
             ELSE [p EXCEPT !.batch = @ + 1, !.held = @ + size + Overhead],
           [sent |-> 0, batch |-> 0, held |-> 0], sizes)
  IN end.sent + end.batch

CountFind == Visit([i \in DOMAIN docs |-> CountBytes])
MongoCount ==
  /\ Asked("mongo", "count")
  /\ \/ ~Countable /\ Reject("invalid")
     \/ /\ Countable /\ Estimates
        /\ \E n \in 0..(Len(docs) + 1) : reply' = [total |-> n, estimated |-> TRUE]
     \/ /\ Countable /\ ~Estimates /\ RequiresFind
        /\ reply' = [total |-> CountFind, estimated |-> FALSE]
     \/ /\ Countable /\ ~Estimates /\ ~RequiresFind
        /\ reply' = IF MatchFails THEN [error |-> "unsupported"] ELSE [total |-> Len(docs), estimated |-> FALSE]

-----------------------------------------------------------------------------
(* The search engines.                                                     *)
\* pageOptions: a search of an index, without paging of its own.
SearchSupported ==
  /\ Command.route \in {"/_search", "/index/_search"}
  /\ Command.params \cap {"source", "filter_path", "scroll", "scroll_id", "search_after", "pit"} = {}
  /\ Command.body \cap {"search_after", "pit"} = {}

\* What the engine reports for a search that counts up to a limit (0: all).
Totals(limit) ==
  IF limit = 0 \/ Len(docs) < limit THEN {[value |-> Len(docs), relation |-> "eq"]}
  ELSE {[value |-> limit, relation |-> "gte"]} \cup
       IF Len(docs) = limit THEN {[value |-> limit, relation |-> "eq"]} ELSE {}
\* Timed out or terminated early: fewer hits, or a total that proves nothing.
Pages(limit) ==
  LET hits == Slice(Offset, PageSize)
  IN [hits : {hits}, total : Totals(limit)] \cup
     (IF hits = <<>> THEN {} ELSE [hits : {Front(hits)}, total : Totals(limit)]) \cup
     [hits : {hits}, total : {[value |-> Least(Len(docs), Offset), relation |-> "gte"]}]

End == Offset + PageSize
Tracked == IF End < MaxInt32 THEN End + 1 ELSE 0
\* queryHasMore
Proves(page) ==
  IF page.total.relation = "eq"
  THEN Len(page.hits) = Least(PageSize, Most(0, page.total.value - Offset))
  ELSE page.total.value > End /\ Len(page.hits) = PageSize
\* performOnce reads the whole reply within the budget.
Body(page) == Envelope(Command.body) + SumWith(0, page.hits)
SearchQuery ==
  /\ Asked("search", "query")
  /\ LET invalid == TooManyAsked \/ ~SearchSupported \/ "collapse" \in Command.body
                    \/ Offset > MaxInt64 - PageSize
     IN \/ invalid /\ Reject("invalid")
        \/ ~invalid /\ \E page \in Pages(Tracked) :
             IF Body(page) > MaxBytes THEN Reject("exhausted")
             ELSE IF ~Proves(page) THEN Reject("backend")
             ELSE IF Sum(page.hits) > MaxBytes THEN Reject("exhausted")
             ELSE Answer(page.hits, page.total.value > End)

\* The parts of the body a count leaves out.
Presentation == {"sort", "_source", "highlight", "aggs", "collapse", "rescore", "suggest"}
\* The total must be exact.
SearchCount ==
  /\ Asked("search", "count")
  /\ \/ ~SearchSupported /\ Reject("invalid")
     \/ /\ SearchSupported /\ Envelope(Command.body \ Presentation) > MaxBytes
        /\ Reject("exhausted")
     \/ /\ SearchSupported /\ Envelope(Command.body \ Presentation) <= MaxBytes
        /\ \E total \in Totals(0) \cup {[value |-> Len(docs) \div 2, relation |-> "gte"]} :
             IF total.relation = "eq" THEN reply' = [total |-> total.value, estimated |-> FALSE]
             ELSE Reject("backend")

Next == MongoQuery \/ MongoCount \/ SearchQuery \/ SearchCount \/ NoBudget \/ Unavailable \/ Strained
Spec == Init /\ [][Next]_vars

-----------------------------------------------------------------------------
Answered(field) == field \in DOMAIN reply

\* A page is exactly the part of the result it names, and has_more is true just
\* when a document follows it: a client that asks for pages until has_more is
\* false has seen every document, whichever the backend.
PageExact ==
  Answered("more") => /\ reply.count = Len(Slice(reply.from, PageSize))
                      /\ reply.more = (Len(docs) > reply.from + PageSize)

\* Where memory and the cluster have room, only what the client asked for makes a
\* request exceed its budget: the documents of the page itself, not the one after
\* it, with what a search adds to its reply.  A count, whatever the command would
\* return, never does, and no page of an adapter is one the service calls invalid.
ErrorsTrue ==
  Answered("error") =>
    /\ reply.error # "internal"
    /\ reply.error = "exhausted" /\ ~strained /\ MaxBytes > 0 =>
         /\ request.op = "query"
         /\ \/ Sum(Slice(Offset, PageSize)) > MaxBytes
            \/ request.driver = "search" /\ Body([hits |-> Slice(Offset, PageSize)]) > MaxBytes

\* A count not marked as an estimate is the number of matches, however a find
\* is paged; an estimate is only given where the command selects everything;
\* and no predicate of find makes it uncountable.
CountExact ==
  /\ Answered("total") => IF reply.estimated
                          THEN request.command.filter = {} /\ "hint" \notin request.command.options
                          ELSE reply.total = Len(docs)
  /\ Answered("error") => reply.error # "unsupported"
=============================================================================
