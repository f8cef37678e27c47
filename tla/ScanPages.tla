------------------------------ MODULE ScanPages ------------------------------
(***************************************************************************)
(* Resumable scans: the part of Scan that both storages share (the service *)
(* in native.go, the cursor in storage/scan.go) and the clients that drive *)
(* it.  A scan is a sequence of independent requests.  All that relates    *)
(* two pages is the cursor the client sends back: it holds the position of *)
(* the last document of the page and the identity of the command.          *)
(* Documents come and go between and during the pages.                     *)
(***************************************************************************)
EXTENDS Integers, Sequences, FiniteSets, SequencesExt

CONSTANTS
  Scans,            \* [id -> [query, batch, maximum]], maximum the bytes of a response
  Docs,             \* [document -> [key, size]]; key is the value sorted by
  Queries,          \* [query -> [direction, docs]]: 1 or -1, the documents that match
  CursorLimit,      \* MaxScanCursorBytes
  CursorBytes,      \* bytes of an actual cursor
  Overhead,         \* bytes the budget adds to a document
  Framing,          \* bytes the encoding adds to a document or cursor
  PageFraming,      \* bytes of a page left for its framing
  MaxChanges, MaxFaults \* bounds: inserts and deletes; failed or lost pages

Ids == DOMAIN Scans
AllDocs == DOMAIN Docs

ScanPagesAssumption ==
  /\ \A d \in AllDocs : Docs[d].size \in Nat
  /\ CursorBytes \in 1..CursorLimit /\ Framing \in 0..Overhead
  /\ PageFraming >= Framing /\ \A s \in Ids : Scans[s].maximum \in Nat

VARIABLES
  present,          \* the documents that exist
  state,            \* [Ids -> "idle", "running", "done" or "failed"]
  reason,           \* [Ids -> why it failed]
  cursor,           \* [Ids -> <<>> or <<[query, position]>>]
  got,              \* [Ids -> the documents received, in order]
  throughout,       \* [Ids -> the documents that existed all the time]
  changes, faults

pageVars == <<present, state, reason, cursor, got, throughout, changes, faults>>

PagesInit ==
  /\ present \in SUBSET AllDocs
  /\ state = [s \in Ids |-> "idle"]
  /\ reason = [s \in Ids |-> "none"]
  /\ cursor = [s \in Ids |-> <<>>]
  /\ got = [s \in Ids |-> <<>>]
  /\ throughout = [s \in Ids |-> present \cap Queries[Scans[s].query].docs]
  /\ changes = 0 /\ faults = 0

Query(s) == Queries[Scans[s].query]
Least(a, b) == IF a <= b THEN a ELSE b

\* The documents budget: the service leaves room for the cursor and framing.
Maximum(s) == Scans[s].maximum
MaxBytes(s) == Maximum(s) - Least(Maximum(s) \div 4, CursorLimit) - PageFraming
\* Reserve: bytes charged to the budget for a document.
Charge(size) == size + Overhead
\* response.SizeVT of a page of documents of the given sizes.
ResponseBytes(sizes, next) ==
  FoldLeft(LAMBDA n, size : n + size + Framing, 0, sizes)
    + IF next = <<>> THEN 0 ELSE CursorBytes + Framing

\* The documents of a query in the order of its sort.
Sooner(q, d, e) == LET k == Queries[q].direction * Docs[d].key
                       l == Queries[q].direction * Docs[e].key
                   IN k < l \/ (k = l /\ d < e)
InOrder == [q \in DOMAIN Queries |-> SetToSortSeq(Queries[q].docs, LAMBDA d, e : Sooner(q, d, e))]
\* Those that exist and lie beyond a position (<<>> is the start).
Beyond(s, position) ==
  SelectSeq(InOrder[Scans[s].query], LAMBDA d :
    /\ d \in present
    /\ \A key \in ToSet(position) : Query(s).direction * Docs[d].key > Query(s).direction * key)

-----------------------------------------------------------------------------
(* The client and the service.                                             *)

\* Resume: a cursor belongs to the command that produced it.
Resumes(s, c) == \A token \in ToSet(c) : token.query = Scans[s].query
Position(s) == IF cursor[s] = <<>> THEN <<>> ELSE <<cursor[s][1].position>>

Fail(s, why) ==
  /\ state' = [state EXCEPT ![s] = "failed"] /\ reason' = [reason EXCEPT ![s] = why]
  /\ UNCHANGED <<present, cursor, got, throughout, changes, faults>>

\* The client may send the cursor of another scan.  If it is of the same
\* command the scan goes on from there, and only what follows is promised.
Confuse(s, t) ==
  /\ state[s] = "idle" /\ t # s /\ cursor[t] # <<>> /\ faults < MaxFaults
  /\ IF Resumes(s, cursor[t])
     THEN /\ cursor' = [cursor EXCEPT ![s] = cursor[t]] /\ faults' = faults + 1
          /\ got' = [got EXCEPT ![s] = <<>>]
          /\ throughout' = [throughout EXCEPT ![s] = @ \ ToSet(got[t])]
          /\ UNCHANGED <<present, state, reason, changes>>
     ELSE Fail(s, "foreign cursor")

\* A quota that leaves nothing for documents is refused before the storage is asked.
BudgetTooSmall(s) ==
  /\ state[s] = "idle" /\ Resumes(s, cursor[s]) /\ MaxBytes(s) <= 0
  /\ Fail(s, "budget")
Scannable(s) == state[s] = "idle" /\ Resumes(s, cursor[s]) /\ MaxBytes(s) > 0

\* An error the client may retry, with the cursor it has: the request timed
\* out, was refused, or the storage failed.
Retry(s) ==
  /\ state[s] = "running" /\ faults < MaxFaults /\ faults' = faults + 1
  /\ state' = [state EXCEPT ![s] = "idle"]
  /\ UNCHANGED <<present, reason, cursor, got, throughout, changes>>

\* Page, the service's checks of it, and the client that receives it.
Deliver(s, docs, sizes, more) ==
  LET next == IF more THEN <<[query |-> Scans[s].query, position |-> Docs[Last(docs)].key]>> ELSE <<>>
  IN IF ResponseBytes(sizes, next) > Maximum(s) THEN Fail(s, "response too large")
     ELSE /\ got' = [got EXCEPT ![s] = @ \o docs]
          /\ cursor' = [cursor EXCEPT ![s] = next]
          /\ state' = [state EXCEPT ![s] = IF more THEN "idle" ELSE "done"]
          /\ UNCHANGED <<present, reason, throughout, changes, faults>>

\* Another client inserts or deletes a document.
Change(d) ==
  /\ changes < MaxChanges /\ changes' = changes + 1
  /\ present' = IF d \in present THEN present \ {d} ELSE present \cup {d}
  /\ throughout' = [s \in Ids |-> IF state[s] \in {"done", "failed"} THEN throughout[s]
                                  ELSE throughout[s] \ {d}]
  /\ UNCHANGED <<state, reason, cursor, got, faults>>

-----------------------------------------------------------------------------
(* Properties.                                                             *)

\* A client never receives a document twice, and receives them in the order of
\* the sort, whatever pages were retried and whatever changed in between.
OnceInOrder ==
  \A s \in Ids : \A i, j \in DOMAIN got[s] : i < j => Sooner(Scans[s].query, got[s][i], got[s][j])

\* A scan that reaches its end has returned every document that matched from
\* its first page to its last one.
NoneMissed == \A s \in Ids : state[s] = "done" => throughout[s] \subseteq ToSet(got[s])

\* What a scan reports as too large is: some document is beyond the limit by
\* itself.  The response, with its cursor and framing, is only when the quota left
\* less room for the cursor than it takes.
TooLargeIsTrue ==
  \A s \in Ids :
    /\ reason[s] = "response too large" => Maximum(s) \div 4 < CursorBytes
    /\ reason[s] = "exhausted" => \E d \in Query(s).docs : Charge(Docs[d].size) > MaxBytes(s)
=============================================================================
