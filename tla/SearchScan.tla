----------------------------- MODULE SearchScan -----------------------------
(***************************************************************************)
(* Scan of the search storage (search/scan.go) over ScanPages: one search  *)
(* per page with one hit more than the page holds, halved as long as the   *)
(* body exceeds the buffer, and a cache of page sizes that fitted.         *)
(***************************************************************************)
EXTENDS ScanPages

CONSTANTS
  Sorts,            \* [query -> its sort: a sequence of [name, direction]]
  MaxHints          \* maxScanSizeHints

VARIABLES
  size,             \* [Ids -> hits of the page being asked for]
  hints             \* scanSizeCache: sequence of [query, size], the recent first

vars == <<pageVars, size, hints>>

Init == PagesInit /\ size = [s \in Ids |-> 0] /\ hints = <<>>

\* ScanBackendBytes: a page and a full-sized lookahead.
BackendBytes(s) == 2 * MaxBytes(s) + CursorLimit

Hinted(q) == SelectSeq(hints, LAMBDA h : h.query = q)
Others(q) == SelectSeq(hints, LAMBDA h : h.query # q)
\* remember: an entry only shrinks; a new one may evict the oldest.
Remember(q, n) ==
  LET entry == [query |-> q, size |-> IF Hinted(q) = <<>> THEN n ELSE Least(n, Hinted(q)[1].size)]
  IN SubSeq(<<entry>> \o Others(q), 1, Least(Len(Others(q)) + 1, MaxHints))

\* scanSort: distinct ordinary fields, each plainly up or down.
Sortable(sort) ==
  /\ sort # <<>> /\ IsInjective([i \in DOMAIN sort |-> sort[i].name])
  /\ \A i \in DOMAIN sort : sort[i].name \notin {"_id", "_doc", "_score"}
                           /\ sort[i].direction \in {"asc", "desc"}
Refuse(s) ==
  /\ Scannable(s) /\ ~Sortable(Sorts[Scans[s].query])
  /\ Fail(s, "invalid")
  /\ UNCHANGED <<size, hints>>

\* suggest, at the start of a page.
Begin(s) ==
  /\ Scannable(s) /\ Sortable(Sorts[Scans[s].query])
  /\ state' = [state EXCEPT ![s] = "running"]
  /\ LET q == Scans[s].query
     IN /\ size' = [size EXCEPT ![s] = IF Hinted(q) = <<>> THEN Scans[s].batch
                                       ELSE Least(Scans[s].batch, Hinted(q)[1].size)]
        /\ hints' = Hinted(q) \o Others(q)
  /\ UNCHANGED <<present, reason, cursor, got, throughout, changes, faults>>

\* A hint expires a minute after it was made.
Expire(q) ==
  /\ Hinted(q) # <<>> /\ hints' = Others(q)
  /\ UNCHANGED <<pageVars, size>>

Hits(s) == LET all == Beyond(s, Position(s)) IN SubSeq(all, 1, Least(size[s] + 1, Len(all)))
BodyBytes(hits) == FoldLeft(LAMBDA n, d : n + Docs[d].size, 0, hits)

\* scanQuery: the same position with half the hits.
Halve(s) ==
  /\ state[s] = "running"
  /\ \E hits \in {Hits(s)} :
       /\ BodyBytes(hits) > BackendBytes(s) /\ size[s] > 1
       /\ size' = [size EXCEPT ![s] = @ \div 2]
  /\ UNCHANGED <<pageVars, hints>>
TooLarge(s) ==
  /\ state[s] = "running"
  /\ \E hits \in {Hits(s)} : BodyBytes(hits) > BackendBytes(s) /\ size[s] = 1
  /\ Fail(s, "exhausted")
  /\ UNCHANGED <<size, hints>>

\* The loop over the hits: as many as the page holds and the budget admits.
Cost(hits, n) == FoldLeft(LAMBDA sum, i : sum + Charge(Docs[hits[i]].size), 0, [i \in 1..n |-> i])
Taken(s, hits) == CHOOSE n \in 0..Least(size[s], Len(hits)) :
  /\ Cost(hits, n) <= MaxBytes(s)
  /\ n = Least(size[s], Len(hits)) \/ Cost(hits, n + 1) > MaxBytes(s)

\* Two neighbours with equal sort values, the hit after the page included.
Tied(hits, n) == \E i \in 2..Least(n + 1, Len(hits)) : Docs[hits[i]].key = Docs[hits[i - 1]].key

Page(s) ==
  /\ state[s] = "running"
  /\ \E hits \in {Hits(s)} : \E n \in {Taken(s, hits)} :
       /\ BodyBytes(hits) <= BackendBytes(s)
       /\ \/ /\ Tied(hits, n) /\ Fail(s, "tied")
             /\ UNCHANGED hints
          \/ /\ ~Tied(hits, n) /\ n = 0 /\ hits # <<>> /\ Fail(s, "exhausted")
             /\ UNCHANGED hints
          \/ /\ ~Tied(hits, n) /\ (n > 0 \/ hits = <<>>)
             /\ LET more == n < Len(hits)
                    docs == SubSeq(hits, 1, n)
                IN /\ Deliver(s, docs, [i \in 1..n |-> Docs[docs[i]].size], more)
                   /\ hints' = IF more /\ n < Scans[s].batch
                               THEN Remember(Scans[s].query, n) ELSE hints
  /\ UNCHANGED size

Abandon(s) == (Retry(s) \/ BudgetTooSmall(s)) /\ UNCHANGED <<size, hints>>
Client(s, t) == Confuse(s, t) /\ UNCHANGED <<size, hints>>
Write(d) == Change(d) /\ UNCHANGED <<size, hints>>

Next ==
  \/ \E s \in Ids : Refuse(s) \/ Begin(s) \/ Halve(s) \/ TooLarge(s) \/ Page(s) \/ Abandon(s)
  \/ \E s, t \in Ids : Client(s, t)
  \/ \E q \in DOMAIN Queries : Expire(q)
  \/ \E d \in AllDocs : Write(d)
  \/ (\A s \in Ids : state[s] \in {"done", "failed"}) /\ UNCHANGED vars

Spec == Init /\ [][Next]_vars

-----------------------------------------------------------------------------
\* The cache holds at most its limit, one entry a command, and a page asked
\* for is never empty nor larger than the batch of the request.
HintsBounded ==
  /\ Len(hints) <= MaxHints
  /\ \A i, j \in DOMAIN hints : hints[i].query = hints[j].query => i = j
  /\ \A s \in Ids : state[s] = "running" => size[s] \in 1..Scans[s].batch
=============================================================================
