---------------------------- MODULE AsyncPublish ----------------------------
(***************************************************************************)
(* Asynchronous mutations: publishWrites and publishDeletes (publish.go),  *)
(* the envelope (queue/codec.go), the Kafka publisher (publisher.go,       *)
(* errors.go), and the command that reads a range of dead letters and      *)
(* replays it (dead_letter.go, dead_letter_command.go).                    *)
(*                                                                         *)
(* The producer client and the broker are external: the client buffers     *)
(* records per partition up to a limit and delivers them in order; a       *)
(* record that is reported failed may have been stored.                    *)
(***************************************************************************)
EXTENDS Integers, Sequences, FiniteSets, SequencesExt

CONSTANTS
  Rpcs, Replays,
  Request,          \* [Rpcs -> Seq(mutations)]
  DeadLog,          \* envelopes of the dead-letter partition, by offset
  Selections,       \* ranges [offset, count] that may be chosen, offsets from one
  BadKeys,          \* addresses that do not parse
  PartitionOf,      \* [keys -> partitions]
  KeyBytes,         \* [keys -> bytes of the record's key]
  Store, MaxRecordBytes, MaxBufferedBytes,
  MaxExpired,       \* bound: dead letters that retention removes
  MaxCancelled      \* bound: contexts that end early

Calls == Rpcs \cup Replays
Partitions == {PartitionOf[k] : k \in DOMAIN PartitionOf}
\* The RPCs of an engine share its producer client; a command has its own.
Client(c) == IF c \in Rpcs THEN "engine" ELSE c
Queues == {Client(c) : c \in Calls} \X Partitions

PublishAssumption ==
  /\ Rpcs \cap Replays = {}
  /\ {MaxRecordBytes, MaxBufferedBytes} \subseteq Nat \ {0} /\ MaxRecordBytes <= MaxBufferedBytes
  /\ MaxExpired \in 0..Len(DeadLog) /\ MaxCancelled \in Nat

VARIABLES
  selection,        \* [Replays -> the range given on the command line]
  configured,       \* the engine has a publisher
  gate,             \* TopicManager.ready is closed: the topics are established
  expired,          \* dead letters that are gone
  pc, mutations,    \* [Calls -> step], [Calls -> Seq([index, body])] handed to Publish
  next,             \* [Calls -> mutations given to the client]
  status,           \* [Calls -> results by operation index]
  cancelled,        \* calls whose context is done
  buffer,           \* [Queues -> Seq(<<call, position>>)] in the producer clients
  log               \* [Partitions -> Seq([call, position, value])] on the broker

vars == <<selection, configured, gate, expired, pc, mutations, next, status, cancelled, buffer, log>>

Count(c) == IF c \in Rpcs THEN Len(Request[c]) ELSE selection[c].count

Init ==
  /\ selection \in [Replays -> Selections]
  /\ configured \in BOOLEAN /\ gate = FALSE /\ expired = 0
  /\ pc = [c \in Calls |-> "new"] /\ mutations = [c \in Calls |-> <<>>]
  /\ next = [c \in Calls |-> 0]
  /\ status = [c \in Calls |-> [i \in 1..Count(c) |-> "none"]]
  /\ cancelled = {}
  /\ buffer = [q \in Queues |-> <<>>] /\ log = [p \in Partitions |-> <<>>]

-----------------------------------------------------------------------------
\* MarshalMutation and UnmarshalMutation: magic, version, kind, payload.
Envelope == 6
MutationSize(m) == Envelope + m.size
Marshal(m) == [version |-> 2, kind |-> m.kind, payload |-> m]
Undecodable == [error |-> "undecodable"]
Unmarshal(e) ==
  IF e.version = 2 /\ e.kind \in {"write", "delete"} /\ e.payload # Undecodable THEN e.payload ELSE Undecodable

\* The steps that publish nothing: every operation given to Publish fails.
FailAll(c, ms, code) ==
  /\ status' = [status EXCEPT ![c] = [i \in DOMAIN @ |->
       IF \E n \in DOMAIN ms : ms[n].index = i THEN code ELSE @[i]]]
  /\ pc' = [pc EXCEPT ![c] = "done"]
  /\ UNCHANGED <<mutations, next>>

\* Publish: oversized records fail, the others go to the client one by one.
TooLarge(m) == MutationSize(m) > MaxRecordBytes - KeyBytes[m.key]
Publish(c, ms) ==
  \/ ~gate /\ c \in Rpcs /\ FailAll(c, ms, "unavailable")
  \/ /\ gate \/ c \in Replays
     /\ mutations' = [mutations EXCEPT ![c] = ms]
     /\ status' = [status EXCEPT ![c] = [i \in DOMAIN @ |->
          IF \E n \in DOMAIN ms : ms[n].index = i /\ TooLarge(ms[n].body) THEN "invalid" ELSE @[i]]]
     /\ pc' = [pc EXCEPT ![c] = "produce"]
     /\ UNCHANGED next

\* Server.write and Server.delete publish the operations whose address parses;
\* publishWrites first takes memory for the expanded records.  Without a publisher
\* all of them fail.
ValidIndexes(c) == {i \in 1..Count(c) : Request[c][i].key \notin BadKeys}
ValidByPosition(c) ==
  LET at == SetToSortSeq(ValidIndexes(c), <) IN
  [n \in DOMAIN at |-> [index |-> n, body |-> Request[c][at[n]]]]
Valid(c) ==
  LET at == SetToSortSeq(ValidIndexes(c), <) IN
  [n \in DOMAIN at |-> [index |-> at[n], body |-> Request[c][at[n]]]]
Submit(c) ==
  /\ pc[c] = "new" /\ c \in Rpcs
  /\ \E ms \in {Valid(c)} :
       \/ ~configured /\ FailAll(c, ms, "unavailable")
       \/ configured /\ Publish(c, ms)
       \/ /\ configured /\ \E n \in DOMAIN ms : ms[n].body.kind = "write"
          /\ FailAll(c, ms, "exhausted")
  /\ UNCHANGED <<selection, configured, gate, expired, cancelled, buffer, log>>

\* TryProduce: refuses what its buffer cannot hold, or a context that is done.
Key(x) == mutations[x[1]][x[2]].body.key
Size(x) == KeyBytes[Key(x)] + MutationSize(mutations[x[1]][x[2]].body)
Index(x) == mutations[x[1]][x[2]].index
QueueBytes(q) == FoldLeft(LAMBDA a, x : a + Size(x), 0, buffer[q])
Buffered(c) == FoldSet(LAMBDA p, a : a + QueueBytes(<<Client(c), p>>), 0, Partitions)
Skipped(x) == status[x[1]][Index(x)] = "invalid"
Answer(x, code) == status' = [status EXCEPT ![x[1]][Index(x)] = code]
RefusedByContext(x) == Answer(x, "unavailable")
\* Records of a key go to one partition.
Route(x) == PartitionOf[Key(x)]
TryProduce(c) ==
  /\ pc[c] = "produce" /\ next[c] < Len(mutations[c])
  /\ next' = [next EXCEPT ![c] = @ + 1]
  /\ \E x \in {<<c, next[c] + 1>>} :
       \/ Skipped(x) /\ UNCHANGED <<status, buffer>>
       \/ ~Skipped(x) /\ c \in cancelled /\ RefusedByContext(x) /\ UNCHANGED buffer
       \/ /\ ~Skipped(x) /\ c \notin cancelled
          /\ \/ Buffered(c) + Size(x) > MaxBufferedBytes /\ Answer(x, "exhausted") /\ UNCHANGED buffer
             \/ /\ Buffered(c) + Size(x) <= MaxBufferedBytes
                /\ buffer' = [buffer EXCEPT ![<<Client(c), Route(x)>>] = Append(@, x)]
                /\ UNCHANGED status
  /\ UNCHANGED <<selection, configured, gate, expired, pc, mutations, cancelled, log>>

\* The client's callback, with publishError: stored and acknowledged; stored or
\* not and reported failed; or rejected by the broker as invalid.
Store_(p, x) ==
  log' = [log EXCEPT ![p] = Append(@, [call |-> x[1], position |-> x[2], value |-> Marshal(mutations[x[1]][x[2]].body)])]
FailureCodes(stored) == IF stored THEN {"unavailable"} ELSE {"unavailable", "invalid"}
Deliver(q) ==
  /\ buffer[q] # <<>>
  /\ buffer' = [buffer EXCEPT ![q] = Tail(@)]
  /\ \E x \in {Head(buffer[q])} :
       \/ Store_(q[2], x) /\ Answer(x, "accepted")
       \/ Store_(q[2], x) /\ \E code \in FailureCodes(TRUE) : Answer(x, code)
       \/ UNCHANGED log /\ \E code \in FailureCodes(FALSE) : Answer(x, code)
  /\ UNCHANGED <<selection, configured, gate, expired, pc, mutations, next, cancelled>>

\* pending.Wait: all callbacks have run.
Done(c) ==
  /\ pc[c] = "produce" /\ next[c] = Len(mutations[c])
  /\ \A n \in DOMAIN mutations[c] : status[c][mutations[c][n].index] # "none"
Finish(c) ==
  /\ Done(c)
  /\ pc' = [pc EXCEPT ![c] = "done"]
  /\ UNCHANGED <<selection, configured, gate, expired, mutations, next, status, cancelled, buffer, log>>

-----------------------------------------------------------------------------
\* ReadDeadLetters: the range must exist when the offsets are listed, and every
\* record is the next one; expiry in between is an error.
InRange(c) ==
  /\ selection[c].offset > expired /\ selection[c].offset <= Len(DeadLog)
  /\ selection[c].count <= Len(DeadLog) + 1 - selection[c].offset
Selected(c) == SubSeq(DeadLog, selection[c].offset, selection[c].offset + selection[c].count - 1)
ListOffsets(c) ==
  /\ pc[c] = "new" /\ c \in Replays
  /\ pc' = [pc EXCEPT ![c] = IF InRange(c) THEN "read" ELSE "done"]
  /\ UNCHANGED <<selection, configured, gate, expired, mutations, next, status, cancelled, buffer, log>>

\* ValidateDeadLetterReplay: every record decodes and belongs to the store, or
\* nothing is published.
Replayable(e) ==
  /\ Unmarshal(e) # Undecodable /\ Unmarshal(e).store = Store
  /\ Unmarshal(e).key \notin BadKeys
Replay_(c, chosen) ==
  \E bodies \in {SelectSeq(chosen, Replayable)} :
     Publish(c, [n \in DOMAIN bodies |-> [index |-> n, body |-> Unmarshal(bodies[n])]])
Replay(c) ==
  /\ pc[c] = "read"
  /\ IF expired < selection[c].offset /\ \A n \in DOMAIN Selected(c) : Replayable(Selected(c)[n])
     THEN Replay_(c, Selected(c))
     ELSE pc' = [pc EXCEPT ![c] = "done"] /\ UNCHANGED <<mutations, next, status>>
  /\ UNCHANGED <<selection, configured, gate, expired, cancelled, buffer, log>>

\* The topic manager opens the gate; callers give up; retention expires letters.
OpenGate ==
  /\ configured /\ ~gate /\ gate' = TRUE
  /\ UNCHANGED <<selection, configured, expired, pc, mutations, next, status, cancelled, buffer, log>>
Cancel(c) ==
  /\ pc[c] = "produce" /\ c \notin cancelled /\ Cardinality(cancelled) < MaxCancelled /\ cancelled' = cancelled \cup {c}
  /\ UNCHANGED <<selection, configured, gate, expired, pc, mutations, next, status, buffer, log>>
Expire ==
  /\ expired < MaxExpired /\ expired' = expired + 1
  /\ UNCHANGED <<selection, configured, gate, pc, mutations, next, status, cancelled, buffer, log>>

Work == \E c \in Calls : Submit(c) \/ TryProduce(c) \/ Finish(c) \/ ListOffsets(c) \/ Replay(c)
Next == Work \/ (\E q \in Queues : Deliver(q)) \/ OpenGate \/ Expire \/ \E c \in Calls : Cancel(c)

Spec == Init /\ [][Next]_vars

-----------------------------------------------------------------------------
Entries == UNION {{log[p][n] : n \in DOMAIN log[p]} : p \in Partitions}
Stored(c, n) == {<<p, q>> \in Partitions \X (1..Cardinality(Entries)) :
                   q \in DOMAIN log[p] /\ log[p][q].call = c /\ log[p][q].position = n}
Body(c, i) == IF c \in Rpcs THEN Request[c][i] ELSE Unmarshal(Selected(c)[i])

\* ACCEPTED means durable: the topic holds exactly one record of the operation,
\* with the operation itself in it, when its RPC is answered.
AcceptedStored ==
  \A c \in Calls : pc[c] = "done" => \A i \in DOMAIN status[c] : status[c][i] = "accepted" =>
    \E n \in DOMAIN mutations[c] :
      /\ Cardinality(Stored(c, n)) = 1
      /\ \A x \in Stored(c, n) : Unmarshal(log[x[1]][x[2]].value) = Body(c, i)

\* An operation refused as invalid or for want of buffer space left no record, so
\* that correcting or repeating it applies it once.
RefusedNotStored ==
  \A x \in Entries : status[x.call][mutations[x.call][x.position].index] \notin {"invalid", "exhausted"}

\* Operations of one RPC on one record are stored in one partition, in their order.
StoredInOrder ==
  \A c \in Calls : \A m, n \in DOMAIN mutations[c] :
    m < n /\ mutations[c][m].body.key = mutations[c][n].body.key =>
      \A u \in Stored(c, m), v \in Stored(c, n) : u[1] = v[1] /\ u[2] < v[2]

\* A replay publishes the selected records and nothing else, and none at all if
\* one of them is missing, undecodable or of another store.
ReplayExact ==
  \A x \in Entries : x.call \in Replays =>
    /\ x.value = Selected(x.call)[x.position]
    /\ \A n \in DOMAIN Selected(x.call) : Replayable(Selected(x.call)[n])

\* No record is still with the client when its call has been answered.
Settled == \A c \in Calls : pc[c] = "done" => \A q \in Queues : \A n \in DOMAIN buffer[q] : buffer[q][n][1] # c

\* Every publication is answered.
Answered == \A c \in Calls : pc[c] = "done"

=============================================================================
