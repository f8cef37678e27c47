---------------------------- MODULE ReadBatches ----------------------------
(***************************************************************************)
(* The execution of a batch of read RPCs: executeReads and                 *)
(* splitReadResponse of batching_server.go over Server.read (read.go), the *)
(* budgets of storage/read_budget.go and request_budgets.go, and the way   *)
(* the storage adapters charge them.                                       *)
(*                                                                         *)
(* The RPCs of a group are read as one request in which every key is read  *)
(* once.  A document is charged to the snapshot quota of every RPC that    *)
(* asked for it, to the working set of the group, and once per operation   *)
(* to the output quota of its RPC.  An RPC that does not fit the group is  *)
(* deferred to a smaller one.  The storage returns the documents in any    *)
(* order, which decides who gets the quota, and memory may be refused for  *)
(* any snapshot and for the output of any operation.                       *)
(***************************************************************************)
EXTENDS Integers, Sequences, FiniteSets, SequencesExt

CONSTANTS
  Batch,          \* the RPCs of the batch, in arrival order
  Keys,
  Requests,       \* the operations an RPC may consist of: sequences of keys
  Documents,      \* what the store may hold: [Keys -> 0 (missing) or size]
  Invalid,        \* keys BatchKey rejects
  SnapshotLimit, OutputLimit, \* [Calls -> the quotas granted to the RPC]
  MaxRead,        \* maxReadBytes
  Overhead,       \* 128 in the code
  ByteLimit,      \* bytes of requests one group may have
  MaxRefused      \* bound: refusals of the memory pool in one read

Calls == ToSet(Batch)

ReadAssumption ==
  /\ Requests \subseteq Seq(Keys) \ {<<>>} /\ Invalid \subseteq Keys
  /\ Documents \subseteq [Keys -> Nat]
  /\ {SnapshotLimit, OutputLimit} \subseteq [Calls -> Nat] /\ {MaxRead, Overhead, ByteLimit} \subseteq Nat \ {0}

VARIABLES
  ops, store,   \* the requests of the batch and the documents stored
  calls,        \* RPCs still to be read
  limit,        \* the most RPCs of the next group
  cancelled,    \* RPCs whose context ended
  answer,       \* [Calls -> <<>>, <<"error">> or one result per operation]
  refused       \* history: [Calls -> keys and operations for which memory was refused]

Granted == [keys |-> {}, outputs |-> {}]

vars == <<ops, store, calls, limit, cancelled, answer, refused>>

Init ==
  /\ ops \in [Calls -> Requests] /\ store \in Documents
  /\ calls = Batch
  /\ limit = Len(calls)
  /\ cancelled = {}
  /\ answer = [c \in Calls |-> <<>>]
  /\ refused = [c \in Calls |-> Granted]

-----------------------------------------------------------------------------
\* op(v), with v evaluated once.
Apply(op(_), v) == CHOOSE r \in {op(u) : u \in {v}} : TRUE
FoldOnce(op(_, _), base, s) ==
  FoldLeft(LAMBDA acc, e : Apply(LAMBDA a : op(a, e), acc), base, s)

\* Server.read of the RPCs in g, in flat operation order.

FlatOps(g) == FlattenSeq([i \in DOMAIN g |-> ops[g[i]]])
\* The owner of an operation, and its place in the owner's request.
Owners(g) == FlattenSeq([i \in DOMAIN g |-> [j \in DOMAIN ops[g[i]] |-> <<i, j>>]])
\* forwarding.Limit: the quota granted, within that of the server.
Fresh(g, granted) == [i \in DOMAIN g |-> Min({granted[g[i]], MaxRead})]

Fits(size, remaining) == size + Overhead <= remaining
\* sharedSnapshotBudget: every RPC that wants k is charged if it can afford it,
\* and the snapshot is kept if one of them can.
Interested(g, k) == {i \in DOMAIN g : k \in ToSet(ops[g[i]])}
ReserveShared(b, size, who) ==
  [i \in DOMAIN b |-> IF i \in who /\ Fits(size, b[i]) THEN b[i] - size - Overhead ELSE b[i]]

\* Reserve of the adapter for key k: working set, caller quotas, then memory.
Reserve(g, no, acc, k) ==
  LET size == store[k]
      who == Interested(g, k)
      able == \E i \in who : Fits(size, acc.snapshots[i])
      put(s) == [acc.status EXCEPT ![k] = s] IN
  CASE size = 0 -> [acc EXCEPT !.status = put("missing")]
    [] size > 0 /\ Len(g) > 1 /\ ~Fits(size, acc.working) ->
         [acc EXCEPT !.status = put(IF Fits(size, MaxRead) THEN "later" ELSE "exhausted")]
    [] OTHER ->
         [status |-> put(IF able /\ k \notin no THEN "found" ELSE "exhausted"),
          snapshots |-> ReserveShared(acc.snapshots, size, who),
          working |-> IF able THEN acc.working - size - Overhead ELSE acc.working]

\* storage.Read: the keys in the order the backend returns them.
Snapshots(g, order, no) ==
  LET start == [status |-> [k \in Keys |-> "invalid"], snapshots |-> Fresh(g, SnapshotLimit), working |-> MaxRead] IN
  FoldOnce(LAMBDA acc, k : Reserve(g, no, acc, k), start, order).status

\* Output quotas are charged per operation in the order of the RPC.
ChargeOutputs(g, status) ==
  LET flat == FlatOps(g)
      own == Owners(g)
      step(acc, n) ==
        LET i == own[n][1]
            size == store[flat[n]] IN
        IF status[flat[n]] # "found" THEN [acc EXCEPT !.results = Append(@, status[flat[n]])]
        ELSE IF Fits(size, acc.outputs[i])
        THEN [results |-> Append(acc.results, "found"),
              outputs |-> [acc.outputs EXCEPT ![i] = @ - size - Overhead],
              bytes |-> [acc.bytes EXCEPT ![i] = @ + size + Overhead]]
        ELSE [acc EXCEPT !.results = Append(@, "exhausted")] IN
  FoldOnce(step, [results |-> <<>>, outputs |-> Fresh(g, OutputLimit), bytes |-> [i \in DOMAIN g |-> 0]],
           [n \in DOMAIN flat |-> n])

\* An RPC is deferred when a snapshot of it found the working set full, or when
\* its output does not fit beside that of the RPCs before it.
WaitsForSpace(g, status) == {i \in DOMAIN g : \E k \in ToSet(ops[g[i]]) : status[k] = "later"}
OutputDeferred(g, late, bytes) ==
  FoldOnce(LAMBDA acc, i :
             IF i \in late THEN acc
             ELSE IF bytes[i] > acc.remaining THEN [acc EXCEPT !.deferred = @ \cup {i}]
             ELSE [acc EXCEPT !.remaining = @ - bytes[i]],
           [remaining |-> MaxRead, deferred |-> late], [i \in DOMAIN g |-> i]).deferred

\* budgets.output: memory for the copy of one operation's document may be refused.
Copied(g, results, denied) ==
  [n \in DOMAIN results |->
     IF results[n] = "found" /\ Owners(g)[n] \in denied THEN "exhausted" ELSE results[n]]

Finish(g, status, denied) ==
  Apply(LAMBDA charged : [results |-> Copied(g, charged.results, denied),
                          deferred |-> OutputDeferred(g, WaitsForSpace(g, status), charged.bytes)],
        ChargeOutputs(g, status))
ReadGroup(g, order, no) ==
  Apply(LAMBDA status : Finish(g, status, no.outputs), Snapshots(g, order, no.keys))
\* What the memory pool may refuse of a read.
Refusals(g, keys) ==
  {no \in [keys : {s \in SUBSET keys : Cardinality(s) <= MaxRefused},
           outputs : {s \in SUBSET ToSet(Owners(g)) : Cardinality(s) <= MaxRefused}] :
     Cardinality(no.keys) + Cardinality(no.outputs) <= MaxRefused}
RefusedTo(g, no, i) ==
  [keys |-> no.keys \cap ToSet(ops[g[i]]), outputs |-> {<<1, o[2]>> : o \in {p \in no.outputs : p[1] = i}}]

-----------------------------------------------------------------------------
\* executeReads.

Live(s) == SelectSeq(s, LAMBDA c : c \notin cancelled)
\* The longest prefix of at most limit RPCs within the byte limit, one at least.
GroupSize ==
  LET bytes(n) == FoldLeft(LAMBDA sum, c : sum + Len(ops[c]), 0, SubSeq(calls, 1, n)) IN
  Max({n \in 1..Min({limit, Len(calls)}) : n = 1 \/ bytes(n) <= ByteLimit})

\* splitReadResponse: the results of call i are those at its offset.
SplitFromFirst(g, results, i) == SubSeq(results, 1, Len(ops[g[i]]))
Split(g, results, i) ==
  LET offset == Len(FlatOps(SubSeq(g, 1, i - 1))) IN
  SubSeq(results, offset + 1, offset + Len(ops[g[i]]))

NextLimit(group, deferred) ==
  IF deferred = {} THEN limit ELSE Max({1, Len(group) - Cardinality(deferred)})

Pick(g, S) == [n \in 1..Cardinality(S) |-> g[SetToSortSeq(S, <)[n]]]

Place(g, c) == SelectInSeq(g, LAMBDA d : d = c)

Iterate ==
  /\ calls # <<>>
  /\ \E taken \in {SubSeq(calls, 1, GroupSize)} : \E group \in {Live(taken)} :
     LET tail == SubSeq(calls, Len(taken) + 1, Len(calls))
         gone == ToSet(taken) \ ToSet(group)
         keys == ToSet(FlatOps(group)) \ Invalid IN
     IF group = <<>>
     THEN /\ calls' = tail
          /\ answer' = [c \in Calls |-> IF c \in gone THEN <<"error">> ELSE answer[c]]
          /\ UNCHANGED <<limit, refused>>
     ELSE \E order \in SetToSeqs(keys), no \in Refusals(group, keys) :
          \E outcome \in {ReadGroup(group, order, no)} :
          /\ calls' = Pick(group, outcome.deferred) \o tail
          /\ limit' = NextLimit(group, outcome.deferred)
          /\ answer' = [c \in Calls |->
               IF c \in gone THEN <<"error">>
               ELSE IF c \notin ToSet(group) THEN answer[c]
               ELSE LET i == Place(group, c) IN
                    IF i \in outcome.deferred THEN answer[c] ELSE Split(group, outcome.results, i)]
          /\ refused' = [c \in Calls |-> IF c \in ToSet(group) THEN RefusedTo(group, no, Place(group, c)) ELSE refused[c]]
  /\ UNCHANGED <<ops, store, cancelled>>

\* storage.Read or the admission fails as a whole.
IterateFails ==
  /\ calls # <<>>
  /\ answer' = [c \in Calls |-> IF c \in ToSet(SubSeq(calls, 1, GroupSize)) THEN <<"error">> ELSE answer[c]]
  /\ calls' = SubSeq(calls, GroupSize + 1, Len(calls))
  /\ UNCHANGED <<ops, store, limit, cancelled, refused>>

Cancel(c) ==
  /\ c \in ToSet(calls) /\ c \notin cancelled
  /\ cancelled' = cancelled \cup {c}
  /\ UNCHANGED <<ops, store, calls, limit, answer, refused>>

Next == Iterate \/ IterateFails \/ \E c \in Calls : Cancel(c)
Spec == Init /\ [][Next]_vars

-----------------------------------------------------------------------------
\* Documents an RPC may get although its own snapshot quota is spent: another RPC
\* that asked for them has paid.  With a snapshot quota as large as its output
\* quota it needs none.
Shared(c) ==
  {k \in ToSet(ops[c]) \ Invalid :
     /\ SnapshotLimit[c] < OutputLimit[c] /\ store[k] > 0 /\ k \notin refused[c].keys
     /\ \E d \in Calls \ {c} : k \in ToSet(ops[d]) /\ Fits(store[k], SnapshotLimit[d])}
Alone(c, order, paid) ==
  Apply(LAMBDA status : Finish(<<c>>, [k \in Keys |-> IF k \in paid THEN "found" ELSE status[k]],
                               refused[c].outputs).results,
        Snapshots(<<c>>, order, refused[c].keys))

\* An RPC gets from its batch what it could have got alone: the results of a read
\* of its request by itself, for some order of its documents.  Batching, sharing
\* of snapshots and deferral neither cost it quota nor give it other results, but
\* for documents that others paid for.
Transparent ==
  \A c \in Calls : answer[c] \notin {<<>>, <<"error">>} =>
    \E order \in SetToSeqs(ToSet(ops[c]) \ Invalid), paid \in SUBSET Shared(c) :
      answer[c] = Alone(c, order, paid)

\* The documents returned to an RPC fit the quota granted to it, repeated keys
\* counted every time (outputBudgets in Server.read).
OutputWithinQuota ==
  \A c \in Calls : answer[c] \notin {<<>>, <<"error">>} =>
    LET found == {n \in DOMAIN ops[c] : answer[c][n] = "found"} IN
    MapThenSumSet(LAMBDA n : store[ops[c][n]] + Overhead, found) <= Min({OutputLimit[c], MaxRead})

\* Every RPC is answered: a group in which all are deferred shrinks until one RPC
\* is read alone, and an RPC alone is never deferred.
AllAnswered == \A c \in Calls : answer[c] # <<>>

=============================================================================
