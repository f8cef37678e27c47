-------------------------- MODULE MCDocumentWrites --------------------------
EXTENDS DocumentWrites

CONSTANTS c1, c2, x, y, o1, o2, o3, o4, o5, alice, bob

\* Two calls meet on record x.  The first combines two RPCs and also writes
\* record y; the second wants the document of its put back.
MCCalls == {c1, c2}
MCRecords == {x, y}
MCOps == {o1, o2, o3, o4, o5}
MCChain ==
  c1 :> (x :> <<o1, o2>> @@ y :> <<o3>>) @@
  c2 :> (x :> <<o4, o5>> @@ y :> <<>>)
MCKind == o1 :> "create" @@ o2 :> "merge" @@ o3 :> "merge" @@ o4 :> "put" @@ o5 :> "merge"
MCOwner == o1 :> alice @@ o2 :> bob @@ o3 :> bob @@ o4 :> alice @@ o5 :> alice
MCReturns == {o4}

=============================================================================
