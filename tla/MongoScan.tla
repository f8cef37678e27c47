------------------------------ MODULE MongoScan ------------------------------
(***************************************************************************)
(* Scan of the MongoDB storage (mongodb/scan.go) over ScanPages: a find in *)
(* the order of _id, from the position of the cursor, with one document    *)
(* more than the page holds.  The find's cursor lives for one page, and    *)
(* documents change while it is read.                                      *)
(***************************************************************************)
EXTENDS ScanPages

CONSTANTS
  Commands,         \* [query -> the find: a function from its options to values]
  IdBytes           \* bytes of an _id in a document

VARIABLES
  page,             \* [Ids -> documents of the page so far]
  at                \* [Ids -> key of the last document read, <<>> at the start]

vars == <<pageVars, page, at>>

Init == PagesInit /\ page = [s \in Ids |-> <<>>] /\ at = [s \in Ids |-> <<>>]

Command(s) == Commands[Scans[s].query]
Option(s, name, default) == IF name \in DOMAIN Command(s) THEN Command(s)[name] ELSE default

\* scanFind: the options a resumable find may have.
Supported(s) ==
  /\ DOMAIN Command(s) \subseteq {"filter", "sort", "batchSize", "collation", "projection",
                                  "hint", "readConcern", "let", "comment", "allowDiskUse"}
  /\ Option(s, "sort", "up") \in {"up", "down"}
  /\ Option(s, "collation", "simple") = "simple"
  /\ Option(s, "projection", "none") \notin {"part of id", "replaced id"}
\* hideID: _id is read for the position and removed from the document.
HidesId(s) == Option(s, "projection", "none") = "without id"
Payload(s, d) == Docs[d].size - IF HidesId(s) THEN IdBytes ELSE 0

Begin(s) ==
  /\ Scannable(s)
  /\ IF Supported(s)
     THEN /\ state' = [state EXCEPT ![s] = "running"]
          /\ page' = [page EXCEPT ![s] = <<>>]
          /\ at' = [at EXCEPT ![s] = Position(s)]
          /\ UNCHANGED <<present, reason, cursor, got, throughout, changes, faults>>
     ELSE Fail(s, "invalid") /\ UNCHANGED <<page, at>>

Spent(s) == FoldLeft(LAMBDA n, d : n + Charge(Payload(s, d)), 0, page[s])
Finish(s, more) ==
  /\ Deliver(s, page[s], [i \in DOMAIN page[s] |-> Payload(s, page[s][i])], more)
  /\ UNCHANGED <<page, at>>

\* One cursor.Next: the end, the lookahead, a document that ends the page, one
\* that fits no page, or one more document of the page.
Read(s) ==
  /\ state[s] = "running"
  /\ LET rest == Beyond(s, at[s])
     IN \/ rest = <<>> /\ Finish(s, FALSE)
        \/ rest # <<>> /\ Len(page[s]) = Scans[s].batch /\ Finish(s, TRUE)
        \/ /\ rest # <<>> /\ Len(page[s]) < Scans[s].batch
           /\ IF Spent(s) + Charge(Payload(s, rest[1])) > MaxBytes(s)
              THEN IF page[s] = <<>> THEN Fail(s, "exhausted") /\ UNCHANGED <<page, at>>
                   ELSE Finish(s, TRUE)
              ELSE /\ page' = [page EXCEPT ![s] = Append(@, rest[1])]
                   /\ at' = [at EXCEPT ![s] = <<Docs[rest[1]].key>>]
                   /\ UNCHANGED pageVars

\* acquireWireMemory refused, the cursor broke or the deadline passed: the
\* page is dropped whole.
Abandon(s) == (Retry(s) \/ BudgetTooSmall(s)) /\ UNCHANGED <<page, at>>
Client(s, t) == Confuse(s, t) /\ UNCHANGED <<page, at>>
Write(d) == Change(d) /\ UNCHANGED <<page, at>>

Next ==
  \/ \E s \in Ids : Begin(s) \/ Read(s) \/ Abandon(s)
  \/ \E s, t \in Ids : Client(s, t)
  \/ \E d \in AllDocs : Write(d)
  \/ (\A s \in Ids : state[s] \in {"done", "failed"}) /\ UNCHANGED vars

Spec == Init /\ [][Next]_vars

-----------------------------------------------------------------------------
\* A document too large for any page is judged by what the client would
\* receive: one that fits once its _id is hidden never fails the scan.
HiddenIdIsFree ==
  \A s \in Ids : reason[s] = "exhausted" =>
    \E d \in Query(s).docs :
      Charge(Docs[d].size - IF Option(s, "projection", "none") = "without id" THEN IdBytes ELSE 0) > MaxBytes(s)
=============================================================================
