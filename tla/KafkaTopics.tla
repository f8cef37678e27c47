---------------------------- MODULE KafkaTopics -----------------------------
(***************************************************************************)
(* Reconciliation of a store's Kafka topics: EnsureTopics (topics.go) and  *)
(* the TopicManager that repeats it and gates the store (topic_manager.go).*)
(* Every process of a store runs one manager with the same options, so     *)
(* managers race with each other in creating topics, reassigning replicas  *)
(* and setting the policy.  The cluster is external: brokers leave and     *)
(* return, creation becomes visible in the metadata later, reassignments   *)
(* take time, and another tool may change or delete a topic.               *)
(***************************************************************************)
EXTENDS Integers, Sequences, FiniteSets, SequencesExt

CONSTANTS
  Managers,
  Options,            \* the TopicOptions considered, defaults not yet applied
  Clusters,           \* the topics that may exist at the start
  BrokerIds,          \* every broker there ever is
  Month,              \* the default retention of dead letters
  MaxEvents           \* bound: calls of the admin client that fail, managers told to stop,
                      \* changes of a topic by others, brokers that leave or return

TopicsAssumption ==
  /\ BrokerIds \subseteq Nat /\ IsFiniteSet(BrokerIds)
  /\ {Month, MaxEvents} \subseteq Nat

VARIABLES
  options,    \* the options of this store
  live,       \* brokers of the cluster
  cluster,    \* [topic names -> {} or a set with [replicas: Seq(Seq(broker)), policy]]
  visible,    \* topics in the metadata
  moving,     \* [<<topic, partition>> -> replicas being moved to], active reassignments
  pc,         \* [Managers -> step of EnsureTopics]
  brokers,    \* [Managers -> brokerIDs, as loaded at the start of ensureTopics]
  todo,       \* [Managers -> topics the current loop still handles, in order]
  assign,     \* [Managers -> reassignments or configuration changes decided on]
  refused,    \* [Managers -> the last alteration met ReassignmentInProgress]
  cancelled,  \* managers whose context is done
  drift,      \* somebody else changed a topic
  events

managers == <<pc, brokers, todo, assign, refused, cancelled>>
kafka == <<live, cluster, visible, moving>>
bounds == <<drift, events>>
vars == <<options, managers, kafka, bounds>>

-----------------------------------------------------------------------------
\* The defaults EnsureTopics fills in.
Least(a, b) == IF a < b THEN a ELSE b
Opt == [options EXCEPT
  !.deadLetterRetention = IF @ = 0 THEN Month ELSE @,
  !.minInSync = IF @ = 0 THEN Least(2, options.replicationFactor) ELSE @,
  !.maxRecordBytes = IF @ = 0 THEN 900 * 1024 ELSE @]
Topics == ToSet(Opt.topics)
Factor == Opt.replicationFactor

\* validateTopicOptions: the seed brokers and topics are given once each, and every
\* number is in its range.
ValidOptions ==
  /\ Opt.seeds # {} /\ Opt.topics # <<>> /\ "" \notin Topics /\ IsInjective(Opt.topics)
  /\ Opt.partitions \in 1..2147483647 /\ Factor \in 1..32767
  /\ Opt.minInSync \in 1..Factor /\ Opt.maxRecordBytes \in 1..67108864
  /\ Opt.deadLetterRetention > 0 /\ Opt.retention > 0

\* topicPolicy.
Policy(t) ==
  [retention |-> IF t = Opt.deadLetter THEN Opt.deadLetterRetention ELSE Opt.retention,
   minInSync |-> Opt.minInSync, cleanup |-> "delete", unclean |-> FALSE,
   maxMessage |-> Opt.maxRecordBytes + 16 * 1024]

Exists(t) == cluster[t] # {}
Topic(t) == CHOOSE x \in cluster[t] : TRUE
Replicas(t, p) == Topic(t).replicas[p]
PartitionsOf(t) == {t} \X DOMAIN Topic(t).replicas
\* While a partition moves, the metadata lists its replicas, then the added ones.
Listing(t, p) ==
  LET next == IF <<t, p>> \in DOMAIN moving THEN moving[<<t, p>>] ELSE <<>> IN
  Replicas(t, p) \o SelectSeq(next, LAMBDA b : b \notin ToSet(Replicas(t, p)))

Init ==
  /\ options \in Options
  /\ live = BrokerIds /\ cluster \in Clusters /\ moving = <<>>
  /\ visible = {t \in DOMAIN cluster : Exists(t)}
  /\ pc = [m \in Managers |-> "idle"] /\ brokers = [m \in Managers |-> <<>>]
  /\ todo = [m \in Managers |-> <<>>] /\ assign = [m \in Managers |-> <<>>]
  /\ refused = [m \in Managers |-> FALSE] /\ cancelled = {}
  /\ drift = FALSE /\ events = 0

Event == events < MaxEvents /\ events' = events + 1
Go(m, step) == pc' = [pc EXCEPT ![m] = step]

-----------------------------------------------------------------------------
\* EnsureTopics: options that are not valid fail before the cluster is asked.
Start(m) ==
  /\ pc[m] = "idle"
  /\ Go(m, IF ValidOptions THEN "brokers" ELSE "failed")
  /\ UNCHANGED <<options, brokers, todo, assign, refused, cancelled, kafka, bounds>>

\* loadBrokerIDs, in ascending order; too few brokers are an error.
LoadBrokers(m) ==
  /\ pc[m] = "brokers"
  /\ brokers' = [brokers EXCEPT ![m] = SetToSortSeq(live, <)]
  /\ Go(m, IF Factor > Cardinality(live) THEN "failed" ELSE "list")
  /\ UNCHANGED <<options, todo, assign, refused, cancelled, kafka, bounds>>

\* reconcilePartitionCounts never changes a topic: another count is refused.
Counts == \A t \in Topics : Len(Topic(t).replicas) = Opt.partitions
Missing == SelectSeq(Opt.topics, LAMBDA t : t \notin visible)

\* loadTopicDetails: create what is missing, or go on with the listed details.
List(m) ==
  /\ pc[m] = "list"
  /\ todo' = [todo EXCEPT ![m] = Missing]
  /\ Go(m, IF Missing # <<>> THEN "create" ELSE IF Counts THEN "replication" ELSE "failed")
  /\ UNCHANGED <<options, brokers, assign, refused, cancelled, kafka, bounds>>

\* createTopics, one topic after the other: TopicAlreadyExists is success.  The
\* cluster places the replicas, on brokers that are there.
Placed(from) == [p \in 1..Opt.partitions |->
  LET at == SetToSortSeq(live, <) IN
  [r \in 1..Factor |-> at[((from + p + r) % Len(at)) + 1]]]
Create(m) ==
  /\ pc[m] = "create" /\ todo[m] # <<>>
  /\ \E t \in {Head(todo[m])} :
       \/ Exists(t) /\ todo' = [todo EXCEPT ![m] = Tail(@)] /\ UNCHANGED <<cluster, pc>>
       \/ /\ ~Exists(t) /\ Factor <= Cardinality(live)
          /\ \E from \in 0..1 :
               cluster' = [cluster EXCEPT ![t] = {[replicas |-> Placed(from), policy |-> Policy(t)]}]
          /\ todo' = [todo EXCEPT ![m] = Tail(@)] /\ UNCHANGED pc
       \/ ~Exists(t) /\ Factor > Cardinality(live) /\ Go(m, "failed") /\ UNCHANGED <<cluster, todo>>
  /\ UNCHANGED <<options, brokers, assign, refused, cancelled, live, visible, moving, bounds>>

\* waitForTopics, then reconcilePartitionCounts.
Created(m) ==
  /\ pc[m] = "create" /\ todo[m] = <<>> /\ Missing = <<>>
  /\ Go(m, IF Counts THEN "replication" ELSE "failed")
  /\ UNCHANGED <<options, brokers, todo, assign, refused, cancelled, kafka, bounds>>

\* desiredReplicas: keep the current replicas that are known, in order, then take
\* brokers round robin from the partition's own place.
Desired(p, current, known) ==
  LET kept == SelectSeq(current, LAMBDA b : b \in ToSet(known))
      robin == [i \in DOMAIN known |-> known[((p - 1 + i - 1) % Len(known)) + 1]]
      all == kept \o SelectSeq(robin, LAMBDA b : b \notin ToSet(current))
  IN SubSeq(all, 1, Least(Len(all), Factor))

\* reconcileReplicationFactors: the assignments are computed from the metadata ...
TooFewReplicas ==
  {x \in UNION {PartitionsOf(t) : t \in Topics} : Len(Listing(x[1], x[2])) < Factor}
WrongFactor ==
  {x \in UNION {PartitionsOf(t) : t \in Topics} : Len(Listing(x[1], x[2])) # Factor}
Assign(m) ==
  /\ pc[m] = "replication"
  /\ \/ Missing # <<>> /\ Go(m, "failed") /\ UNCHANGED assign
     \/ /\ Missing = <<>>
        /\ assign' = [assign EXCEPT ![m] =
             [x \in WrongFactor |-> Desired(x[2], Listing(x[1], x[2]), brokers[m])]]
        /\ Go(m, IF WrongFactor = {} THEN "policy" ELSE "alter")
  /\ UNCHANGED <<options, brokers, todo, refused, cancelled, kafka, bounds>>

\* ... and submitted later: the cluster refuses the partitions that move already,
\* that are gone, or that would move to a broker that is gone.  An error other
\* than ReassignmentInProgress ends the attempt.
Acceptable(a) ==
  {x \in DOMAIN a \ DOMAIN moving : Exists(x[1]) /\ ToSet(a[x]) \subseteq live}
Alter(m) ==
  /\ pc[m] = "alter"
  /\ \E a \in {assign[m]} : \E ok \in {Acceptable(a)} :
       /\ moving' = [x \in DOMAIN moving \cup ok |-> IF x \in ok THEN a[x] ELSE moving[x]]
       /\ refused' = [refused EXCEPT ![m] = DOMAIN a \cap DOMAIN moving # {}]
       /\ Go(m, IF DOMAIN a \subseteq ok \cup DOMAIN moving THEN "waitMoves" ELSE "failed")
  /\ assign' = [assign EXCEPT ![m] = <<>>]
  /\ UNCHANGED <<options, brokers, todo, cancelled, live, cluster, visible, bounds>>

\* waitForReassignments, then the next round or waitForReplicationFactors.
Moves == {x \in DOMAIN moving : x[1] \in Topics}
WaitMoves(m) ==
  /\ pc[m] = "waitMoves" /\ Moves = {}
  /\ Go(m, IF refused[m] THEN "replication" ELSE "waitFactors")
  /\ refused' = [refused EXCEPT ![m] = FALSE]
  /\ UNCHANGED <<options, brokers, todo, assign, cancelled, kafka, bounds>>
WaitFactors(m) ==
  /\ pc[m] = "waitFactors"
  /\ \/ Missing # <<>> /\ Go(m, "failed")
     \/ Missing = <<>> /\ WrongFactor = {} /\ Go(m, "policy")
  /\ UNCHANGED <<options, brokers, todo, assign, refused, cancelled, kafka, bounds>>

-----------------------------------------------------------------------------
\* reconcileTopicPolicy: the changes follow from one description of all topics.
Changes(t) == {k \in DOMAIN Policy(t) : Topic(t).policy[k] # Policy(t)[k]}
Described == \A t \in Topics : Exists(t)
Describe(m) ==
  /\ pc[m] = "policy"
  /\ \/ ~Described /\ Go(m, "failed") /\ UNCHANGED <<assign, todo>>
     \/ /\ Described
        /\ assign' = [assign EXCEPT ![m] = [t \in Topics |-> Changes(t)]]
        /\ todo' = [todo EXCEPT ![m] = SelectSeq(Opt.topics, LAMBDA t : Changes(t) # {})]
        /\ Go(m, "configure")
  /\ UNCHANGED <<options, brokers, refused, cancelled, kafka, bounds>>
Configure(m) ==
  /\ pc[m] = "configure" /\ todo[m] # <<>>
  /\ \E t \in {Head(todo[m])} :
       \/ ~Exists(t) /\ Go(m, "failed") /\ UNCHANGED <<cluster, todo>>
       \/ /\ Exists(t)
          /\ cluster' = [cluster EXCEPT ![t] = {[Topic(t) EXCEPT !.policy =
               [k \in DOMAIN @ |-> IF k \in assign[m][t] THEN Policy(t)[k] ELSE @[k]]]}]
          /\ todo' = [todo EXCEPT ![m] = Tail(@)] /\ UNCHANGED pc
  /\ UNCHANGED <<options, brokers, assign, refused, cancelled, live, visible, moving, bounds>>

\* verifyTopicPolicy polls until everything matches; then Run closes ready.
Configured(m) == pc[m] = "configure" /\ todo[m] = <<>>
Verified(m) == Configured(m) /\ Described /\ \A t \in Topics : Changes(t) = {}
Verify(m) ==
  /\ \/ Verified(m) /\ Go(m, "ready")
     \/ Configured(m) /\ ~Described /\ Go(m, "failed")
  /\ UNCHANGED <<options, brokers, todo, assign, refused, cancelled, kafka, bounds>>

-----------------------------------------------------------------------------
\* Run: an attempt that failed is repeated, with nothing left of it, after the
\* timer, or not at all once the context is done; select may choose either.
Running(m) == pc[m] \notin {"idle", "failed", "ready", "stopped"}
Retry(m) ==
  /\ pc[m] = "failed"
  /\ \/ Go(m, "idle")
     \/ m \in cancelled /\ Go(m, "stopped")
  /\ brokers' = [brokers EXCEPT ![m] = <<>>] /\ todo' = [todo EXCEPT ![m] = <<>>]
  /\ assign' = [assign EXCEPT ![m] = <<>>] /\ refused' = [refused EXCEPT ![m] = FALSE]
  /\ UNCHANGED <<options, cancelled, kafka, bounds>>

\* waitForTopicPoll: a loop that polls for what does not come ends by the timeout
\* of EnsureTopics, every call of the client when the context is done.
Polling(m) ==
  \/ pc[m] = "create" /\ todo[m] = <<>> /\ Missing # <<>>
  \/ pc[m] = "waitMoves" /\ Moves # {}
  \/ pc[m] = "waitFactors" /\ Missing = <<>> /\ WrongFactor # {}
  \/ Configured(m) /\ Described /\ ~Verified(m)
TimedOut(m) ==
  /\ Polling(m) \/ (Running(m) /\ m \in cancelled)
  /\ Go(m, "failed")
  /\ UNCHANGED <<options, brokers, todo, assign, refused, cancelled, kafka, bounds>>
\* A call of the admin client fails.
Fail(m) ==
  /\ Running(m) /\ Event
  /\ Go(m, "failed")
  /\ UNCHANGED <<options, brokers, todo, assign, refused, cancelled, kafka, drift>>
\* The process is told to stop.
Cancel(m) ==
  /\ m \notin cancelled /\ Event
  /\ cancelled' = cancelled \cup {m}
  /\ UNCHANGED <<options, pc, brokers, todo, assign, refused, kafka, drift>>

\* Ping and Wait: publishers and consumers pass once ready is closed.
GateOpen(m) == pc[m] = "ready"

-----------------------------------------------------------------------------
\* The cluster.
Propagate(t) ==
  /\ Exists(t) /\ t \notin visible
  /\ visible' = visible \cup {t}
  /\ UNCHANGED <<options, managers, live, cluster, moving, bounds>>
FinishMove(x) ==
  /\ x \in DOMAIN moving /\ ToSet(moving[x]) \subseteq live
  /\ cluster' = [cluster EXCEPT ![x[1]] = {[Topic(x[1]) EXCEPT !.replicas[x[2]] = moving[x]]}]
  /\ moving' = [y \in DOMAIN moving \ {x} |-> moving[y]]
  /\ UNCHANGED <<options, managers, live, visible, bounds>>
\* Another administrator sets the retention of a topic or deletes it.
Drift(t) ==
  /\ Exists(t) /\ Event /\ drift' = TRUE
  /\ \/ /\ cluster' = [cluster EXCEPT ![t] = {[Topic(t) EXCEPT !.policy.retention = 0]}]
        /\ UNCHANGED <<visible, moving>>
     \/ /\ cluster' = [cluster EXCEPT ![t] = {}] /\ visible' = visible \ {t}
        /\ moving' = [y \in {x \in DOMAIN moving : x[1] # t} |-> moving[y]]
  /\ UNCHANGED <<options, managers, live>>
Churn(b) ==
  /\ Event /\ live' = IF b \in live THEN live \ {b} ELSE live \cup {b}
  /\ UNCHANGED <<options, managers, cluster, visible, moving, drift>>

Step(m) ==
  \/ Start(m) \/ LoadBrokers(m) \/ List(m) \/ Create(m) \/ Created(m) \/ Assign(m) \/ Alter(m)
  \/ WaitMoves(m) \/ WaitFactors(m) \/ Describe(m) \/ Configure(m) \/ Verify(m)
  \/ Retry(m) \/ TimedOut(m) \/ Fail(m)
Cluster ==
  \/ (\E t \in DOMAIN cluster : Propagate(t) \/ Drift(t))
  \/ (\E x \in DOMAIN moving : FinishMove(x)) \/ (\E b \in BrokerIds : Churn(b))
Next == (\E m \in Managers : Step(m) \/ Cancel(m)) \/ Cluster

Spec == Init /\ [][Next]_vars

\* Every manager has come to an end.
Settled == \A m \in Managers : pc[m] \in {"ready", "stopped"}

-----------------------------------------------------------------------------
\* The gate of a store opens only on topics that have the configured partitions and
\* have, or are moving to, the configured number of replicas, whatever state they
\* were found in and whatever the other managers did since these were reconciled.
Final(t, p) == IF <<t, p>> \in DOMAIN moving THEN moving[<<t, p>>] ELSE Replicas(t, p)
GateOpensOnPolicy ==
  \A m \in Managers : GateOpen(m)' /\ ~GateOpen(m) =>
    /\ ValidOptions /\ Described /\ Counts
    /\ \A t \in Topics, p \in 1..Opt.partitions : Len(Final(t, p)) = Factor

\* No manager deletes a topic or changes its number of partitions, so the records of
\* a key stay in one partition; with options that are not valid none touches it.
PartitionsKept ==
  \A t \in DOMAIN cluster :
    /\ Exists(t) /\ ~drift' =>
         Exists(t)' /\ Len(Topic(t).replicas) = Len(Topic(t)'.replicas)
    /\ ~ValidOptions /\ ~drift' => cluster'[t] = cluster[t]

\* A reassignment a manager decides on names the configured number of distinct brokers
\* it knows, and gives up a replica on one of them only when there are too many.
MovesMinimal ==
  \A m \in Managers : pc[m] = "replication" /\ pc'[m] = "alter" =>
    \A x \in DOMAIN assign'[m] :
      LET new == assign'[m][x]
          kept == ToSet(Listing(x[1], x[2])) \cap ToSet(brokers[m])
      IN /\ IsInjective(new) /\ Len(new) = Factor /\ ToSet(new) \subseteq ToSet(brokers[m])
         /\ kept \subseteq ToSet(new) \/ ToSet(new) \subseteq kept

=============================================================================
