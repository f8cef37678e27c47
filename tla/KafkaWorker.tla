---------------------------- MODULE KafkaWorker -----------------------------
(***************************************************************************)
(* Asynchronous delivery: the consumer loop of internal/queue/kafka        *)
(* (worker.go) with the handler of internal/worker (processor.go).  One    *)
(* logical consumer owns the partitions; a crash or a rebalance hands them *)
(* over at the committed offsets.  The broker (log, group offsets, dead-   *)
(* letter topic) and the storage behind the applier are external.          *)
(*                                                                         *)
(* A partition's log is a sequence of records; an offset counts records.   *)
(* During an outage operations may fail temporarily, replies may be lost   *)
(* and processing deadlines pass.                                          *)
(*                                                                         *)
(* Definitions named like the one that follows them with a suffix are      *)
(* mutations used to show that the properties can fail.                    *)
(***************************************************************************)
EXTENDS Integers, Sequences, FiniteSets, FiniteSetsExt, Functions

CONSTANTS
  Partitions,
  Log,               \* [Partitions -> Seq(records)], every record once
  Key,               \* [records -> document addresses], a key stays in one partition
  Poison,            \* records that cannot be decoded, each under a key of its own,
                     \* or whose address belongs to another store
  MaxPollRecords,
  MaxRetryAttempts,
  MaxCrashes         \* bound: crashes and rebalances in a behaviour

Records == UNION {Range(Log[p]) : p \in Partitions}
PartitionOf == [r \in Records |-> CHOOSE p \in Partitions : r \in Range(Log[p])]
Offset == [r \in Records |-> CHOOSE i \in DOMAIN Log[PartitionOf[r]] : Log[PartitionOf[r]][i] = r]

ASSUME WorkerAssumption ==
  /\ \A p \in Partitions : Log[p] \in Seq(Records) /\ IsInjective(Log[p])
  /\ \A p, q \in Partitions : p # q =>
       {Key[r] : r \in Range(Log[p])} \cap {Key[r] : r \in Range(Log[q])} = {}
  /\ Poison \subseteq Records
  /\ \A r \in Poison, s \in Records : Key[r] = Key[s] => s \in Poison
  /\ {MaxPollRecords, MaxRetryAttempts} \subseteq Nat \ {0}
  /\ MaxCrashes \in Nat

VARIABLES
  committed,   \* broker: [Partitions -> the group's committed offset]
  dlq,         \* broker: records copied to the dead-letter topic
  value,       \* storage: [keys -> offset of the record that took effect last]
  position,    \* client: [Partitions -> offset of the next record to fetch]
  pc,
  fetched,     \* records of the current fetch
  results,     \* [fetched -> result so far]
  batch,       \* records of the running HandleBatch call
  wave, attempt,
  expired,     \* the processing context is done
  outage, crashes,
  resolved,    \* history: records that once took effect or failed permanently
  settled,     \* history: records whose offset was committed with the result applied
  lostReply    \* history: a commit took place although it was reported failed

brokerVars == <<committed, dlq>>
roundVars == <<fetched, results, batch, wave, attempt, expired>>
envVars == <<outage, crashes>>
historyVars == <<resolved, settled, lostReply>>
vars == <<brokerVars, value, position, pc, roundVars, envVars, historyVars>>

Keys == {Key[r] : r \in Records}
Unknown == "unknown"
Applied == "applied"
Failed == "failed"       \* permanently: goes to the dead-letter topic
Retry == "retry"         \* temporarily, or the context was done

NoRound ==
  /\ fetched' = {} /\ batch' = {} /\ wave' = 0 /\ attempt' = 0 /\ expired' = FALSE
  /\ results' = [r \in Records |-> Unknown]

Init ==
  /\ committed = [p \in Partitions |-> 0] /\ dlq = {}
  /\ value = [k \in Keys |-> 0]
  /\ position = [p \in Partitions |-> 0]
  /\ pc = "idle"
  /\ fetched = {} /\ batch = {} /\ wave = 0 /\ attempt = 0 /\ expired = FALSE
  /\ results = [r \in Records |-> Unknown]
  /\ outage = TRUE /\ crashes = 0
  /\ resolved = {} /\ settled = {} /\ lostReply = FALSE

-----------------------------------------------------------------------------
\* PollRecords: at most MaxPollRecords records, in offset order per partition.
\* Undecodable and misrouted records fail at once; the rest go to the handler.
Poll ==
  /\ pc = "idle"
  /\ \E last \in [Partitions -> 0..MaxPollRecords] :
       LET got == {r \in Records : LET p == PartitionOf[r] IN
                     position[p] < Offset[r] /\ Offset[r] <= position[p] + last[p]}
       IN /\ got # {} /\ Cardinality(got) <= MaxPollRecords
          /\ \A p \in Partitions : position[p] + last[p] <= Len(Log[p])
          /\ fetched' = got
          /\ batch' = got \ Poison
          /\ results' = [r \in Records |-> IF r \in got \cap Poison THEN Failed ELSE Unknown]
          /\ resolved' = resolved \cup (got \cap Poison)
          /\ position' = [p \in Partitions |-> position[p] + last[p]]
  /\ wave' = 0 /\ attempt' = 1 /\ expired' = FALSE
  /\ pc' = "handling"
  /\ UNCHANGED <<brokerVars, value, envVars, settled, lostReply>>

\* Deadline, shutdown or a rebalance waiting to happen cancels the processing.
Expire ==
  /\ pc = "handling" /\ outage /\ ~expired
  /\ expired' = TRUE
  /\ UNCHANGED <<brokerVars, value, position, pc, fetched, results, batch, wave, attempt,
                 envVars, historyVars>>

\* buildMutationWaves: the n-th record of a key is in the n-th wave.
Earlier(r) == {s \in batch : Key[s] = Key[r] /\ Offset[s] < Offset[r]}
WaveFlat(n) == IF n = 0 THEN batch ELSE {}
Wave(n) == {r \in batch : Cardinality(Earlier(r)) = n}

\* HandleBatch: a temporary failure of a key blocks the rest of that key.
BlockedNever(r) == FALSE
Blocked(r) == \E s \in Earlier(r) : results[s] = Retry

\* What the applier may answer for one record, and whether it took effect: a
\* temporary failure leaves that open.  After cancellation no failure is final.
Outcomes ==
  {<<Applied, TRUE>>}
  \cup (IF outage THEN {<<Retry, TRUE>>, <<Retry, FALSE>>} ELSE {})
  \cup (IF expired THEN {} ELSE {<<Failed, FALSE>>})

\* One wave: applyWrites and applyDeletes of the records that are not blocked.
HandleWave ==
  /\ pc = "handling" /\ Wave(wave) # {}
  /\ \E out \in [{r \in Wave(wave) : ~Blocked(r)} -> Outcomes] :
       LET tried == DOMAIN out
           hit == {r \in tried : out[r][2]}
       IN /\ results' = [r \in Records |-> IF r \in tried THEN out[r][1]
                                           ELSE IF r \in Wave(wave) THEN Retry ELSE results[r]]
          /\ value' = [k \in Keys |-> IF \E r \in hit : Key[r] = k
                                      THEN Offset[CHOOSE r \in hit : Key[r] = k] ELSE value[k]]
          /\ resolved' = resolved \cup hit \cup {r \in tried : out[r][1] = Failed}
  /\ wave' = wave + 1
  /\ UNCHANGED <<brokerVars, position, pc, fetched, batch, attempt, expired, envVars,
                 settled, lostReply>>

\* handleWithRetry: after a HandleBatch call only the temporary failures are
\* tried again, unless it was the last attempt or the context is done.
RetryBatch ==
  /\ pc = "handling" /\ Wave(wave) = {}
  /\ attempt < MaxRetryAttempts
  /\ batch' = {r \in batch : results[r] = Retry}
  /\ batch' # {}
  /\ wave' = 0 /\ attempt' = attempt + 1
  /\ UNCHANGED <<brokerVars, value, position, pc, fetched, results, expired, envVars,
                 historyVars>>

\* resolvedPrefixes: the records before the first temporary failure of their partition.
ReadyAll == {r \in fetched : results[r] # Retry}
Ready ==
  {r \in fetched : \A s \in fetched :
     PartitionOf[s] = PartitionOf[r] /\ Offset[s] <= Offset[r] => results[s] # Retry}

EndHandling ==
  /\ pc = "handling" /\ Wave(wave) = {}
  /\ \/ \A r \in batch : results[r] # Retry
     \/ attempt = MaxRetryAttempts \/ expired
  /\ pc' = IF Ready = {} THEN "rewind" ELSE "dead letters"
  /\ UNCHANGED <<brokerVars, value, position, roundVars, envVars, historyVars>>

\* publishDeadLetters: copy the permanent failures of the prefix; on an error
\* some copies may have been written, and the whole fetch is retained.
PublishDeadLetters ==
  /\ pc = "dead letters"
  /\ LET failures == {r \in Ready : results[r] = Failed} IN
       \/ /\ dlq' = dlq \cup failures
          /\ pc' = "commit"
       \/ /\ outage /\ failures # {}
          /\ \E written \in SUBSET failures : dlq' = dlq \cup written
          /\ pc' = "rewind all"
  /\ UNCHANGED <<committed, value, position, roundVars, envVars, historyVars>>

\* CommitRecords of the prefix.  The broker stores what it is told, also when a
\* fetch repeated after a lost reply commits less than the one before.
Advance ==
  /\ committed' = [p \in Partitions |->
       LET mine == {Offset[r] : r \in {s \in Ready : PartitionOf[s] = p}}
       IN IF mine = {} THEN committed[p] ELSE Max(mine)]
  /\ settled' = settled \cup {r \in Ready : results[r] = Applied}

Commit ==
  /\ pc = "commit"
  /\ \/ Advance /\ pc' = "rewind" /\ UNCHANGED lostReply
     \/ outage /\ UNCHANGED <<committed, settled, lostReply>> /\ pc' = "rewind all"
     \/ outage /\ Advance /\ lostReply' = TRUE /\ pc' = "rewind all"
  /\ UNCHANGED <<dlq, value, position, roundVars, envVars, resolved>>

\* rewind: fetching resumes at the first retained record of each partition.
\* Nothing is retained after a full success.
Retained == IF pc = "rewind all" THEN fetched ELSE fetched \ Ready

RewindNot ==
  /\ pc \in {"rewind", "rewind all"}
  /\ NoRound /\ pc' = "idle"
  /\ UNCHANGED <<brokerVars, value, position, envVars, historyVars>>
Rewind ==
  /\ pc \in {"rewind", "rewind all"}
  /\ position' = [p \in Partitions |->
       LET mine == {Offset[r] : r \in {s \in Retained : PartitionOf[s] = p}}
       IN IF mine = {} THEN position[p] ELSE Min(mine) - 1]
  /\ NoRound /\ pc' = "idle"
  /\ UNCHANGED <<brokerVars, value, envVars, historyVars>>

\* A crash at any point, or a rebalance between rounds: the next owner of the
\* partitions starts from the committed offsets.
Handover ==
  /\ crashes < MaxCrashes
  /\ crashes' = crashes + 1
  /\ position' = committed
  /\ NoRound /\ pc' = "idle"
  /\ UNCHANGED <<brokerVars, value, outage, historyVars>>

Heal == outage /\ outage' = FALSE
        /\ UNCHANGED <<brokerVars, value, position, pc, roundVars, crashes, historyVars>>

Work ==
  \/ Poll \/ HandleWave \/ RetryBatch \/ EndHandling
  \/ PublishDeadLetters \/ Commit \/ Rewind

\* Everything is committed and nothing is left to fetch: the consumer polls on.
Drained == pc = "idle" /\ (\A p \in Partitions : position[p] = Len(Log[p])) /\ UNCHANGED vars

Next == Work \/ Expire \/ Handover \/ Heal \/ Drained

Spec == Init /\ [][Next]_vars

\* The consumer keeps running and dependency outages end.
FairSpec == Spec /\ WF_vars(Work) /\ WF_vars(Heal)

-----------------------------------------------------------------------------
\* Types, and what the processing states say about the round.
TypeOK ==
  /\ committed \in [Partitions -> Nat] /\ position \in [Partitions -> Nat]
  /\ \A p \in Partitions : committed[p] <= Len(Log[p]) /\ position[p] <= Len(Log[p])
  /\ {dlq, fetched, resolved, settled} \subseteq SUBSET Records
  /\ batch \subseteq fetched \ Poison
  /\ value \in [Keys -> Nat]
  /\ results \in [Records -> {Unknown, Applied, Failed, Retry}]
  /\ pc \in {"idle", "handling", "dead letters", "commit", "rewind", "rewind all"}
  /\ attempt \in 0..MaxRetryAttempts /\ wave \in Nat
  /\ pc \notin {"idle", "handling"} => \A r \in fetched : results[r] # Unknown

\* The consumer skips nothing: between rounds the fetch position is never past
\* the committed offset, so a retained record is fetched again without a restart.
NothingSkipped ==
  pc = "idle" => \A p \in Partitions : position[p] <= committed[p]

\* No accepted mutation is lost: below the committed offset of a partition every
\* record took effect or is in the dead-letter topic, whatever crashed, timed out
\* or lost its reply, a permanently failed one was copied before the commit, and
\* what is not committed is fetched again (resolvedPrefixes, rewind).
NothingLost ==
  /\ \A r \in Records : Offset[r] <= committed[PartitionOf[r]] =>
       r \in settled \cap resolved \/ r \in dlq
  /\ NothingSkipped

\* "A temporary failure blocks following work for that key": a record takes effect
\* or fails for good only after every earlier record of its key did so once.
KeyBarrier ==
  \A r, s \in Records : Key[r] = Key[s] /\ Offset[s] < Offset[r] /\ r \in resolved
                          => s \in resolved

\* Replay never rolls a document back behind a committed record: the record that
\* took effect last is at least as late as every committed one.  (A commit whose
\* reply was lost lets the worker repeat committed work; that case is excluded.)
NoRollback ==
  ~lostReply => \A r \in settled : value[Key[r]] >= Offset[r]

\* Once the dependencies are healthy again everything in the log is committed.
Delivered == <>[](\A p \in Partitions : committed[p] = Len(Log[p]))

=============================================================================
