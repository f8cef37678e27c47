----------------------------- MODULE MCProcess -------------------------------
(***************************************************************************)
(* A process of each role: its configuration and life, the components of   *)
(* the gateway, publication to Kafka and its topics.  Each is checked on   *)
(* an instance of its own: an initial state chooses one of them, and the   *)
(* variables of the others stay idle.                                      *)
(***************************************************************************)
EXTENDS Integers, Sequences, FiniteSets, TLC

VARIABLES
  component,        \* the component of this behaviour
  kind, ops, phase, inFlight, bytes, views, part, remaining, reply, result, active,
  partLost, applied, spent,
  discoveries, disc, entries, conn, idleDisc, idleConn, made, connPc, held, closing, closed,
  dns, watcher, slot, loop, timer, updates, hints, stop, view,
  rpc, gateway, engine, channel, broken, gmem, emem, executed, streamLost,
  selection, configured, gate, expired, publishPc, mutations, next, status, publishCancelled, buffer,
  log,
  options, live, cluster, visible, moving, adminPc, brokers, todo, assign, refused,
  adminCancelled, drift, events,
  role, appPhase, step, open, tasks, probing, failed, appCancelled, serving, graced, forced,
  refusing, appRpc,
  file, machine, stage, err, loaded, backoff

Idle == "idle"

-----------------------------------------------------------------------------
\* Two RPCs over three records of two stores.  DNS may still list endpoint 3 for
\* store s, which serves store t by now; two scores are equal.
Scores == [x |-> <<3, 1, 3>>, y |-> <<1, 2, 3>>, z |-> <<0, 0, 0>>]
Routing == INSTANCE GatewayRouting WITH
  Rpcs <- {"a", "b"}, Kinds <- {"read", "return", "upsert"},
  Requests <- {<<"x", "z", "x">>, <<"y", "bad">>, <<"x", "x", "y", "z">>}, Bad <- "bad",
  StoreOf <- [x |-> "s", y |-> "s", z |-> "t"], Endpoints <- 1..3,
  Score <- [p \in {"x", "y", "z"} \X (1..3) |-> Scores[p[1]][p[2]]],
  Bound <- <<"s", "s", "t">>, Views <- [s |-> {{1, 2}, {1, 2, 3}}, t |-> {{3}}],
  MaxReadBytes <- 2, MaxFanout <- 2, MaxRequestsPerStore <- 1, MaxOperations <- 3,
  MaxRequests <- 2, MaxBytes <- 12, OperationBytes <- 2, MaxLost <- 1, lost <- partLost
RoutingVars == <<kind, ops, phase, inFlight, bytes, views, part, remaining, reply, result,
  active, partLost, applied, spent>>
RoutingIdle ==
  /\ kind = Idle /\ ops = Idle /\ phase = Idle /\ inFlight = Idle /\ bytes = Idle /\ views = Idle
  /\ part = Idle /\ remaining = Idle /\ reply = Idle /\ result = Idle /\ active = Idle
  /\ partLost = Idle /\ applied = Idle /\ spent = Idle

\* Three requests on two routes with room for one discovery and one connection.
Pools == INSTANCE GatewayConnections WITH
  Requests <- {"r1", "r2", "r3"}, RouteOf <- [r1 |-> "s", r2 |-> "s", r3 |-> "t"],
  Addresses <- {"p", "q"}, Maximum <- 1, MaxObjects <- 3, pc <- connPc
PoolsVars == <<discoveries, disc, entries, conn, idleDisc, idleConn, made, connPc, held,
  closing, closed>>
PoolsIdle ==
  /\ discoveries = Idle /\ disc = Idle /\ entries = Idle /\ conn = Idle /\ idleDisc = Idle
  /\ idleConn = Idle /\ made = Idle /\ connPc = Idle /\ held = Idle /\ closing = Idle /\ closed = Idle

\* Three versions of the records, one of them with too many addresses.
Dns == INSTANCE DnsRefresh WITH MaxVersion <- 3, Oversized <- {2}
DnsVars == <<dns, watcher, slot, loop, timer, updates, hints, stop, view>>
DnsIdle ==
  /\ dns = Idle /\ watcher = Idle /\ slot = Idle /\ loop = Idle /\ timer = Idle
  /\ updates = Idle /\ hints = Idle /\ stop = Idle /\ view = Idle

\* Two RPCs of any shape compete for memory that fits one whole response.
Shape(method, routed, bound, size) ==
  [kind |-> method, routed |-> routed, bound |-> bound, size |-> size]
Stream == INSTANCE ForwardStream WITH
  Ids <- {1, 2},
  Shapes <- {Shape("scan", TRUE, TRUE, 2), Shape("execute", TRUE, TRUE, 4),
             Shape("scan", TRUE, FALSE, 2), Shape("scan", FALSE, TRUE, 2)},
  GatewayUnits <- 6, EngineUnits <- 6, MessageUnits <- 3, Window <- 1, MaxLost <- 1,
  lost <- streamLost
StreamVars == <<rpc, gateway, engine, channel, broken, gmem, emem, executed, streamLost>>
StreamIdle ==
  /\ rpc = Idle /\ gateway = Idle /\ engine = Idle /\ channel = Idle /\ broken = Idle
  /\ gmem = Idle /\ emem = Idle /\ executed = Idle /\ streamLost = Idle

\* An RPC with an unparsable address, an oversized record and two writes of one
\* key; a delete RPC; a replay of a good range whose second record is oversized
\* by now, of one with a foreign record, or of an undecodable one.
Op(k, action, size) == [key |-> k, kind |-> action, size |-> size, store |-> "here"]
PublishRequest ==
  [w |-> <<Op("bad", "write", 1), Op("x", "write", 1), Op("y", "write", 5), Op("x", "write", 2)>>,
   d |-> <<Op("x", "delete", 1)>>]
Foreign == [key |-> "x", kind |-> "write", size |-> 1, store |-> "there"]
Dead(m) == [version |-> 2, kind |-> m.kind, payload |-> m]
PublishDeadLog ==
  <<Dead(Op("y", "write", 1)), Dead(Op("x", "write", 9)), Dead(Foreign),
    [version |-> 1, kind |-> "write", payload |-> Op("x", "write", 3)]>>
PublishSelections ==
  {[offset |-> 1, count |-> 2], [offset |-> 2, count |-> 2], [offset |-> 4, count |-> 1]}
Publish == INSTANCE AsyncPublish WITH
  Rpcs <- {"w", "d"}, Replays <- {"r"}, Request <- PublishRequest,
  DeadLog <- PublishDeadLog, Selections <- PublishSelections, BadKeys <- {"bad"},
  PartitionOf <- [x |-> 1, y |-> 2], Store <- "here", KeyBytes <- [x |-> 1, y |-> 2], MaxRecordBytes <- 12,
  MaxBufferedBytes <- 18, MaxExpired <- 1, MaxCancelled <- 1, pc <- publishPc,
  cancelled <- publishCancelled
PublishVars == <<selection, configured, gate, expired, publishPc, mutations, next, status,
  publishCancelled, buffer, log>>
PublishIdle ==
  /\ selection = Idle /\ configured = Idle /\ gate = Idle /\ expired = Idle /\ publishPc = Idle
  /\ mutations = Idle /\ next = Idle /\ status = Idle /\ publishCancelled = Idle
  /\ buffer = Idle /\ log = Idle


\* Two engines reconcile the main and the dead-letter topic of a store on three
\* brokers; broker 4 has left the cluster.  Some options are refused.
AdminOption(topics, minInSync) ==
  [seeds |-> {1}, topics |-> topics, partitions |-> 2, replicationFactor |-> 2,
   retention |-> 7, deadLetter |-> "dead", deadLetterRetention |-> 0,
   minInSync |-> minInSync, maxRecordBytes |-> 0]
AdminOptions ==
  {AdminOption(<<"main", "dead">>, 0), AdminOption(<<"main", "main">>, 0),
   AdminOption(<<"main", "dead">>, 3),
   [AdminOption(<<"main">>, 0) EXCEPT !.replicationFactor = 3]}
Kept(retention, replicas) ==
  {[replicas |-> replicas,
    policy |-> [retention |-> retention, minInSync |-> 2, cleanup |-> "delete",
                unclean |-> FALSE, maxMessage |-> 916 * 1024]]}
AdminClusters ==
  {[main |-> {}, dead |-> {}]}
    \cup [main : {Kept(5, <<(<<3>>), (<<1, 2>>)>>), Kept(5, <<(<<4, 3, 2>>)>>),
                  Kept(5, <<(<<4, 2>>), (<<3, 1, 2>>)>>)},
          dead : {Kept(30, <<(<<1, 2>>), (<<2, 3>>)>>)}]
Admin == INSTANCE KafkaTopics WITH
  Managers <- {"m1", "m2"}, Options <- AdminOptions, Clusters <- AdminClusters,
  BrokerIds <- 1 .. 3, Month <- 30, MaxEvents <- 1, pc <- adminPc,
  cancelled <- adminCancelled
AdminVars == <<options, live, cluster, visible, moving, adminPc, brokers, todo, assign,
  refused, adminCancelled, drift, events>>
AdminIdle ==
  /\ options = Idle /\ live = Idle /\ cluster = Idle /\ visible = Idle /\ moving = Idle
  /\ adminPc = Idle /\ brokers = Idle /\ todo = Idle /\ assign = Idle /\ refused = Idle
  /\ adminCancelled = Idle /\ drift = Idle /\ events = Idle

\* Every role; two batched requests, a native and an asynchronous one.
App == INSTANCE AppLifecycle WITH
  Requests <- <<"batched", "batched", "native", "async">>,
  Roles <- {"engine", "worker", "gateway"}, phase <- appPhase, rpc <- appRpc,
  cancelled <- appCancelled
AppVars == <<role, appPhase, step, open, tasks, probing, failed, appCancelled, serving, graced,
  forced, refusing, appRpc>>
AppIdle ==
  /\ role = Idle /\ appPhase = Idle /\ step = Idle /\ open = Idle /\ tasks = Idle
  /\ probing = Idle /\ failed = Idle /\ appCancelled = Idle /\ serving = Idle /\ graced = Idle /\ forced = Idle
  /\ refusing = Idle /\ appRpc = Idle

\* A gateway, an engine and a worker whose files give two options of a section an
\* unusual value: nothing, one, the largest integer and some between.
GatewayFile ==
  [mode |-> "gateway",
   routes |-> <<[store |-> "s", target |-> "target", insecure |-> FALSE, serverName |-> "n"]>>]
EngineFile ==
  [mode |-> "engine", driver |-> "mongodb", name |-> "store", uri |-> "uri", kafka |-> "on",
   brokers |-> <<"b", "">>, topic |-> "t"]
WorkerFile ==
  [mode |-> "worker", driver |-> "opensearch", name |-> "store", endpoints |-> <<"url", "">>,
   kafka |-> "on", brokers |-> <<"b">>, topic |-> "t", group |-> "g"]
MaxInt == 536870911
Values == {0, 1, 2, 1000000, MaxInt}
Written(options_) == UNION {[pair -> Values] : pair \in {{a, b} : a, b \in options_}}
Numbers ==
  [logging |-> {"maxBodyBytes", "queueSize", "batchSize", "flushInterval", "logShutdown"},
   process |-> {"memoryBytes", "burstPercent", "maxReceive", "maxSend", "maxReadBytes",
                "requestTimeout", "queuedBytes", "batchBytes", "maxRequests"},
   service |-> {"requestTimeout", "queueWait", "scanWait", "maxRequests", "scanRequests",
                "maxBytes", "scanBytes", "queueBytes", "requestOperations",
                "batchOperations", "batchBytes", "queuedOperations", "queuedBytes"},
   kafka |-> {"partitions", "replicationFactor", "minInSync", "retention", "maxBuffered",
              "maxRecord", "deadLetterRetention", "processingTimeout", "retryBackoff",
              "maxBackoff"},
   gateway |-> {"idleTimeout", "maxConnections", "gatewayRequests", "storeRequests",
                "gatewayBytes", "maxFanout"}]
Route(target, insecure) == [store |-> "s", target |-> target, insecure |-> insecure, serverName |-> "n"]
Texts ==
  [mode |-> {"api"}, level |-> {"loud"}, endpoint |-> {"host", "host:port"}, otlp |-> {"on"},
   console |-> {"off"}, driver |-> {"mysql", "mongodb", "elasticsearch"}, name |-> {"Store"},
   uriFile |-> {"missing", "uri"}, metadataField |-> {"_id", "field"},
   endpoints |-> {<<"">>, <<"url", "relative">>}, username |-> {"u"},
   passwordFile |-> {"p", "empty"}, apiKey |-> {"k"}, topic |-> {""},
   deadLetter |-> {"t", "d"}, group |-> {""}, brokers |-> {<<"">>}, kafka |-> {"off"},
   routes |-> {<<>>, <<Route("target", TRUE)>>, <<Route("udp", FALSE)>>,
               <<Route("target", FALSE), Route("target", FALSE)>>}]
Worded ==
  UNION {{(a :> x) @@ (b :> y) : x \in Texts[a], y \in Texts[b]} : <<a, b>> \in (DOMAIN Texts) \X (DOMAIN Texts)}
ConfigFiles ==
  {change @@ GatewayFile : change \in Written(Numbers.gateway) \cup Written(Numbers.process) \cup Worded}
    \cup {change @@ EngineFile : change \in Written(Numbers.logging) \cup Written(Numbers.process)
                                  \cup Written(Numbers.service) \cup Written(Numbers.kafka) \cup Worded}
    \cup {change @@ WorkerFile : change \in Written(Numbers.kafka) \cup Worded}
\* Limits of a container, of a group around it that its mount shows or hides, of
\* a group in the older layout, and none at all.
Group(kind_, path, root, limits) ==
  [go |-> MaxInt, host |-> 1000000, members |-> {[kind |-> kind_, path |-> path], [kind |-> "cpu", path |-> <<"c">>]},
   mounts |-> {[kind |-> kind_, root |-> root, point |-> <<"sys">>],
               [kind |-> "cpu", root |-> <<>>, point |-> <<"sys", "cpu">>]},
   limits |-> limits]
Nested == (<<"sys">> :> 0) @@ (<<"sys", "a">> :> 50000) @@ (<<"sys", "a", "b">> :> 90000)
            @@ (<<"sys", "cpu", "c">> :> 7)
Plain == Group("v2", <<"a", "b">>, <<>>, Nested)
ConfigMachines ==
  {Group("v2", <<>>, <<"a">>, Nested), Group("memory", <<"a", "b">>, <<"a">>, Nested),
   Group("memory", <<"d">>, <<"a">>, Nested), Group("v2", <<"a">>, <<>>, (<<"sys", "a">> :> 1)),
   [Plain EXCEPT !.go = 20000], [Plain EXCEPT !.host = 0, !.mounts = {}]}
Config == INSTANCE Configuration WITH
  Starts <- (ConfigFiles \X {Plain}) \cup ({GatewayFile, EngineFile, WorkerFile} \X ConfigMachines),
  KiB <- 2, GiB <- 2097152, TiB <- 268435456, Millisecond <- 2, Hour <- 300000,
  MaxInt32 <- 134217728
ConfigVars == <<file, machine, stage, err, loaded, backoff>>
ConfigIdle ==
  /\ file = Idle /\ machine = Idle /\ stage = Idle /\ err = Idle /\ loaded = Idle
  /\ backoff = Idle


ASSUME ProcessAssumption ==
  /\ Routing!RoutingAssumption /\ Pools!ConnectionsAssumption /\ Dns!DnsAssumption
  /\ Stream!ForwardAssumption /\ Publish!PublishAssumption /\ Admin!TopicsAssumption
  /\ Config!ConfigurationAssumption

-----------------------------------------------------------------------------
vars == <<component, RoutingVars, PoolsVars, DnsVars, StreamVars, PublishVars, AdminVars,
  AppVars, ConfigVars>>
InRouting == component = "routing"
InPools == component = "pools"
InDns == component = "dns"
InStream == component = "stream"
InPublish == component = "publish"
InAdmin == component = "topics"
InApp == component = "app"
InConfig == component = "configuration"

Init ==
  /\ component \in {"routing", "pools", "dns", "stream", "publish", "topics", "app",
                   "configuration"}
  /\ IF InRouting THEN Routing!Init ELSE RoutingIdle
  /\ IF InPools THEN Pools!Init ELSE PoolsIdle
  /\ IF InDns THEN Dns!Init ELSE DnsIdle
  /\ IF InStream THEN Stream!Init ELSE StreamIdle
  /\ IF InPublish THEN Publish!Init ELSE PublishIdle
  /\ IF InAdmin THEN Admin!Init ELSE AdminIdle
  /\ IF InApp THEN App!Init ELSE AppIdle
  /\ IF InConfig THEN Config!Init ELSE ConfigIdle

\* The only states in which a component may stop: every RPC or publication is
\* answered, what left a pool is closed, Close returned, each manager is ready or
\* has stopped, a configuration was refused or serves.
Ended ==
  \/ InRouting /\ Routing!Answered
  \/ InPools /\ Pools!AllClosed
  \/ InDns /\ loop = "done"
  \/ InPublish /\ Publish!Answered
  \/ InAdmin /\ Admin!Settled
  \/ InConfig /\ Config!Done

Step ==
  /\ UNCHANGED component
  /\ IF InRouting THEN Routing!Next ELSE UNCHANGED RoutingVars
  /\ IF InPools THEN Pools!Next ELSE UNCHANGED PoolsVars
  /\ IF InDns THEN Dns!Next ELSE UNCHANGED DnsVars
  /\ IF InStream THEN Stream!Next ELSE UNCHANGED StreamVars
  /\ IF InPublish THEN Publish!Next ELSE UNCHANGED PublishVars
  /\ IF InAdmin THEN Admin!Next ELSE UNCHANGED AdminVars
  /\ IF InApp THEN App!Next ELSE UNCHANGED AppVars
  /\ IF InConfig THEN Config!Next ELSE UNCHANGED ConfigVars

Next == Step \/ (Ended /\ UNCHANGED vars)

Spec == Init /\ [][Next]_vars

-----------------------------------------------------------------------------
\* The caller gets what the engine of its own store answered: each result of a
\* batch is the one that engine gave for that operation, and an answered stream
\* is complete and in order (planParts, combineResults, forward).
OwnResults ==
  /\ InRouting => Routing!OwnResults /\ Routing!OwnStore
  /\ InStream => Stream!Whole

\* What a caller is told to repeat was not executed, whatever was lost: a mutation
\* that failed as retryable, a scan marked safe to retry (setFailure, markRetrySafe).
RetrySafe ==
  /\ InRouting => Routing!RetrySafe
  /\ InStream => Stream!SafeIsUnstarted

\* Nothing is closed under a request that uses it, users are counted exactly, and
\* memory, budgets and slots are held for exactly the requests in progress
\* (acquire and release of connections.go, reserve of the gateway).
HeldExactly ==
  /\ InPools => Pools!UsersExact /\ Pools!NotUnderUsers /\ Pools!Capacity
  /\ InRouting => Routing!ReservationsExact /\ Routing!BudgetKept /\ Routing!Affinity
  /\ InStream => Stream!HeldIsReserved /\ Stream!Released

\* A discovery's view never goes back to older records, and is final once Close
\* has returned: a replaced resolver has no late callback (UpdateState, refresh).
ViewAdvances == [][InDns => Dns!ViewAdvances /\ Dns!ClosedIsFinal]_vars

\* ACCEPTED means durable: the topic holds the operation once, in the order of its
\* request; what was refused left no record, a replay publishes what was selected or
\* nothing, and no record is with the client after its answer (Publish, Replay).
AcceptedStored ==
  InPublish => /\ Publish!AcceptedStored /\ Publish!RefusedNotStored
               /\ Publish!StoredInOrder /\ Publish!ReplayExact /\ Publish!Settled

\* The gate of a store opens only on topics with the configured partitions and
\* replication factor, no topic changes its number of partitions, and a
\* reassignment moves no more than it must (topics.go).
GateOpensOnPolicy ==
  [][InAdmin => Admin!GateOpensOnPolicy /\ Admin!PartitionsKept /\ Admin!MovesMinimal]_vars

\* The worker, the gateway and batched requests never use what Close released,
\* other requests not before the grace period has abandoned them; a process that
\* has closed holds nothing, and a request is lost only when the grace period has
\* ended (Run and Close of the application).
UsedWhileOpen == InApp => App!UsedWhileOpen /\ App!AllReleased /\ App!DroppedOnlyLate


=============================================================================
