--------------------------- MODULE Configuration ---------------------------
(***************************************************************************)
(* A configuration file on its way to a running process: internal/config   *)
(* resolves the decoded file section by section, filling omitted options   *)
(* with defaults that depend on other options; then the constructors of    *)
(* the components (internal/app, capacity, merge, service, queue/kafka,    *)
(* storage, gateway, engine), each with limits of its own, accept or       *)
(* refuse what was resolved.                                               *)
(*                                                                         *)
(* `file' is the decoded configFile: a function whose domain is the        *)
(* options present.  Sizes are counted in KiB, times in Millisecond; the   *)
(* large units are shrunk so that MaxInt, the largest int64, stays in      *)
(* TLC's range, and keep their order.  A text is abstracted to whether it  *)
(* is empty ("") and to what its reader finds wrong with it.               *)
(***************************************************************************)
EXTENDS Integers, Sequences, FiniteSetsExt, TLC

CONSTANTS Starts,  \* the decoded files and the machines a process is started with
          KiB, GiB, TiB, Millisecond, Hour, MaxInt32, MaxInt

MiB == 1024 * KiB
Second == 1000 * Millisecond
Minute == 60 * Second

\* The units keep the order of the real ones, and MaxInt leaves room to see a
\* doubled duration overflow.
ConfigurationAssumption ==
    /\ KiB > 1 /\ GiB > 256 * MiB /\ TiB > 16 * GiB /\ MaxInt > TiB
    /\ 65 * MiB < MaxInt32 /\ MaxInt32 < MaxInt
    /\ Millisecond > 1 /\ Hour > Minute /\ MaxInt \div 2 > 720 * Hour

VARIABLES file, machine,
          stage,    \* the section being resolved or the component being built
          err,      \* the validator's error is set
          loaded,   \* the options resolved so far: the Config
          backoff   \* the worker's retry delay

vars == <<file, machine, stage, err, loaded, backoff>>

Init ==
    /\ \E start \in Starts : file = start[1] /\ machine = start[2]
    /\ stage = "process"
    /\ err = FALSE
    /\ loaded = <<>>
    /\ backoff = 0

Present(n) == n \in DOMAIN file

Text(n) == IF Present(n) THEN file[n] ELSE ""

\* integer and duration: an omitted or rejected option takes its fallback.
Value(n, fallback) == IF Present(n) /\ file[n] > 0 THEN file[n] ELSE fallback

\* ... and one that is written must be positive.
Positive(names) == \A n \in names \cap DOMAIN file : file[n] > 0

Within(r, limits) == \A n \in DOMAIN limits : r[n] > 0 /\ r[n] <= limits[n]

\* A section's options join the Config; the first error stays.
Resolve(r, ok, next) ==
    /\ loaded' = r @@ loaded
    /\ err' = (err \/ ~ok)
    /\ stage' = next
    /\ UNCHANGED <<file, machine, backoff>>

Reject == stage' = "rejected" /\ UNCHANGED <<file, machine, err, loaded, backoff>>

Logging ==
    [maxBodyBytes |-> Value("maxBodyBytes", 16 * KiB),
     queueSize |-> Value("queueSize", 1024),
     batchSize |-> Value("batchSize", 128),
     flushInterval |-> Value("flushInterval", Second),
     exportTimeout |-> Value("exportTimeout", 3 * Second),
     logShutdown |-> Value("logShutdown", 5 * Second)]

LoggingValid(r) ==
    /\ Positive(DOMAIN r)
    /\ Within(r, [maxBodyBytes |-> 64 * KiB, queueSize |-> 8192, batchSize |-> 512,
                  flushInterval |-> Minute, exportTimeout |-> 30 * Second,
                  logShutdown |-> 30 * Second])
    /\ r.maxBodyBytes >= KiB
    /\ Text("level") \in {"", "debug", "info", "warn", "error"}
    /\ Text("format") \in {"", "json", "text"}
    /\ Text("protocol") \in {"", "grpc", "http/protobuf"}
    /\ r.batchSize <= r.queueSize
    /\ Text("otlp") = "on" \/ Text("endpoint") # "" => Text("endpoint") = "host:port"
    /\ Text("console") # "off" \/ Text("otlp") = "on"
    /\ Text("labels") \in {"", "known"}

\* memory.max_bytes stays 0, for detection, when the file does not give it.
Process ==
    [memoryBytes |-> IF Present("memoryBytes") THEN Value("memoryBytes", 256 * MiB) ELSE 0,
     burstPercent |-> Value("burstPercent", 10),
     memoryWait |-> Value("memoryWait", 2 * Second),
     maxReceive |-> Value("maxReceive", 64 * MiB),
     maxSend |-> Value("maxSend", 64 * MiB),
     shutdownTimeout |-> Value("shutdownTimeout", 15 * Second)]

ResolveProcess ==
    /\ stage = "process"
    /\ LET r == Logging
           p == Process IN
       IF file.mode \in {"gateway", "engine", "worker"}
       THEN Resolve(p @@ r,
                    /\ LoggingValid(r)
                    /\ Positive(DOMAIN p)
                    /\ Present("memoryBytes") => p.memoryBytes >= KiB
                    /\ p.burstPercent <= 99,
                    "service")
       ELSE Reject

Service ==
    LET timeout == Value("requestTimeout", 30 * Second)
        requests == Value("maxRequests", 128)
        bytes == Value("maxBytes", 256 * MiB) IN
    [requestTimeout |-> timeout,
     requestOperations |-> Value("requestOperations", 1000),
     maxReadBytes |-> Value("maxReadBytes", Min({32 * MiB, loaded.maxSend \div 2})),
     maxRequests |-> requests,
     maxBytes |-> bytes,
     queueRequests |-> Value("queueRequests", 1024),
     queueBytes |-> Value("queueBytes", Min({32 * MiB, bytes})),
     queueWait |-> Value("queueWait", Min({2 * Second, timeout})),
     scanRequests |-> Value("scanRequests", Max({1, requests \div 2})),
     scanBytes |-> Value("scanBytes", Max({1, bytes \div 2})),
     scanWait |-> Value("scanWait", Min({2 * Second, timeout})),
     publishRequests |-> Value("publishRequests", 32),
     publishBytes |-> Value("publishBytes", 256 * MiB),
     mergeAttempts |-> Value("mergeAttempts", 3),
     luaTimeout |-> Value("luaTimeout", 100 * Millisecond),
     luaSource |-> Value("luaSource", 64 * KiB),
     luaResult |-> Value("luaResult", 16 * MiB),
     luaPrograms |-> Value("luaPrograms", 256),
     luaInstructions |-> Value("luaInstructions", 1000000)]

Batching(service) ==
    [batchWait |-> Value("batchWait", 2 * Millisecond),
     batchOperations |-> Value("batchOperations", service.requestOperations),
     batchBytes |-> Value("batchBytes", 16 * MiB),
     queuedOperations |-> Value("queuedOperations", Max({10000, service.requestOperations})),
     queuedBytes |-> Value("queuedBytes", Max({128 * MiB, loaded.maxReceive}))]

\* service.batching is checked against the request it must carry.
BatchingValid(service, batching) ==
    /\ batching.batchOperations <= service.requestOperations
    /\ batching.queuedOperations >= service.requestOperations
    /\ batching.queuedOperations >= batching.batchOperations
    /\ batching.queuedBytes >= loaded.maxReceive
    /\ batching.queuedBytes >= batching.batchBytes

ResolveService ==
    /\ stage = "service"
    /\ LET r == Service
           b == Batching(r)
           limits == [requestTimeout |-> 5 * Minute, maxReadBytes |-> loaded.maxSend \div 2,
                      maxRequests |-> 10000, maxBytes |-> 16 * GiB,
                      queueRequests |-> 10000, queueBytes |-> 16 * GiB,
                      queueWait |-> r.requestTimeout, scanWait |-> r.requestTimeout,
                      scanRequests |-> r.maxRequests, scanBytes |-> r.maxBytes,
                      publishRequests |-> 10000, publishBytes |-> 16 * GiB] IN
       Resolve(b @@ r,
               Positive(DOMAIN r \cup DOMAIN b) /\ Within(r, limits) /\ BatchingValid(r, b),
               "role")

\* service.request is the only part of service a gateway reads.
EngineOptions ==
    {"maxRequests", "maxBytes", "queueRequests", "queueBytes", "queueWait",
     "scanRequests", "scanBytes", "scanWait", "publishRequests", "publishBytes",
     "batchWait", "batchOperations", "batchBytes", "queuedOperations", "queuedBytes",
     "mergeAttempts", "luaTimeout", "luaSource", "luaResult", "luaPrograms",
     "luaInstructions"}

ResolveRole ==
    /\ stage = "role"
    /\ LET belongs ==
           IF file.mode = "gateway"
           THEN EngineOptions \cap DOMAIN file = {} /\ ~Present("driver") /\ Present("routes")
           ELSE ~Present("routes") /\ Present("driver") /\ Text("name") = "store" IN
       IF err \/ ~belongs
       THEN Reject
       ELSE Resolve(<<>>, TRUE, IF file.mode = "gateway" THEN "routes" ELSE "driver")

Gateway ==
    LET requests == Value("gatewayRequests", 128) IN
    [dnsRefresh |-> Value("dnsRefresh", 30 * Second),
     idleTimeout |-> Value("idleTimeout", 5 * Minute),
     maxConnections |-> Value("maxConnections", 256),
     gatewayRequests |-> requests,
     storeRequests |-> Value("storeRequests", Min({32, requests})),
     gatewayBytes |-> Value("gatewayBytes", 256 * MiB),
     maxFanout |-> Value("maxFanout", 8)]

ResolveGateway ==
    /\ stage = "routes"
    /\ LET g == Gateway
           limits == [maxConnections |-> 10000, gatewayRequests |-> 10000,
                      storeRequests |-> g.gatewayRequests, gatewayBytes |-> TiB,
                      maxFanout |-> 128] IN
       IF Len(file.routes) \in 1 .. 10000 /\ Positive(DOMAIN g) /\ Within(g, limits)
       THEN Resolve(g, TRUE, "accepted")
       ELSE Reject

\* resolveSecret: a path stands for what opening it finds.
Unusable == {"relative", "missing", "directory", "unreadable", "empty", "binary"}

Secret(value, path) ==
    IF ~Present(path) THEN Text(value)
    ELSE IF Present(value) \/ file[path] \in Unusable THEN "refused" ELSE file[path]

\* nonEmptyValues.
Listed(n) == IF Present(n) THEN SelectSeq(file[n], LAMBDA entry : entry # "") ELSE <<>>

DriverValid ==
    \/ /\ Text("driver") = "mongodb"
       /\ Secret("uri", "uriFile") \notin {"", "refused"}
    \/ /\ Text("driver") \in {"elasticsearch", "opensearch"}
       /\ Listed("endpoints") # <<>>
       /\ LET username == Secret("username", "usernameFile")
              password == Secret("password", "passwordFile")
              key == Secret("apiKey", "apiKeyFile") IN
          /\ "refused" \notin {username, password, key}
          /\ (username = "") = (password = "")
          /\ key = "" \/ username = ""

Storage ==
    [concurrentWrites |-> Value("concurrentWrites", 64),
     concurrentGroups |-> Value("concurrentGroups", 16)]

ResolveDriver ==
    /\ stage = "driver"
    /\ IF DriverValid
       THEN Resolve(Storage, Text("driver") = "mongodb" => Positive(DOMAIN Storage), "kafka")
       ELSE Reject

Kafka ==
    LET factor == Value("replicationFactor", 2) IN
    [partitions |-> Value("partitions", 4),
     replicationFactor |-> factor,
     retention |-> Value("retention", 72 * Hour),
     minInSync |-> Value("minInSync", Min({2, factor})),
     maxBuffered |-> Value("maxBuffered", 64 * MiB),
     maxRecord |-> Value("maxRecord", 900 * KiB),
     deadLetterRetention |-> Value("deadLetterRetention", 720 * Hour),
     pollRecords |-> Value("pollRecords", 500),
     processingTimeout |-> Value("processingTimeout", 20 * Second),
     retryAttempts |-> Value("retryAttempts", 10),
     retryBackoff |-> Value("retryBackoff", 100 * Millisecond),
     maxBackoff |-> Value("maxBackoff", 10 * Second)]


Delays(k) == k.maxBackoff >= k.retryBackoff /\ k.maxBackoff <= MaxInt \div 2

KafkaValid(k) ==
    /\ Positive(DOMAIN k)
    /\ Within(k, [partitions |-> MaxInt32, replicationFactor |-> 32767,
                  minInSync |-> k.replicationFactor, maxBuffered |-> GiB,
                  maxRecord |-> Min({64 * MiB, k.maxBuffered}),
                  processingTimeout |-> 20 * Second])
    /\ k.retention >= Millisecond /\ k.deadLetterRetention >= Millisecond
    /\ Delays(k)

DeadLetter ==
    IF Text("topic") # "" /\ Text("deadLetter") = "" THEN Text("topic") \o ".dlq"
    ELSE Text("deadLetter")

\* validateKafkaResources.
Resources ==
    IF Text("kafka") = "on"
    THEN /\ Listed("brokers") # <<>> /\ Text("topic") # "" /\ DeadLetter # Text("topic")
         /\ file.mode = "worker" => Text("group") # ""
    ELSE file.mode # "worker"

ResolveKafka ==
    /\ stage = "kafka"
    /\ LET k == Kafka IN
       IF ~err /\ KafkaValid(k) /\ Resources
       THEN Resolve(k, TRUE, "accepted")
       ELSE Reject

----------------------------------------------------------------------------
\* The memory a process may use: detect reads the Go limit, the host's memory
\* and the limits of the control group the process is a member of and of every
\* ancestor of it that is mounted.  A limit of "max" does not parse: 0.
Rooted(mount, path) ==
    IF path = <<>> THEN mount.root ELSE path

Visible(mount, path) ==
    LET member == Rooted(mount, path) IN
    Len(member) >= Len(mount.root) /\ SubSeq(member, 1, Len(mount.root)) = mount.root

Directories(mount, path) ==
    LET member == Rooted(mount, path) IN
    {mount.point \o SubSeq(member, Len(mount.root) + 1, last) : last \in Len(mount.root) .. Len(member)}

Groups(m) ==
    {d \in UNION {Directories(mount, member.path) :
                  <<mount, member>> \in
                  {pair \in m.mounts \X m.members :
                      /\ pair[1].kind = pair[2].kind /\ pair[1].kind \in {"v2", "memory"}
                      /\ Visible(pair[1], pair[2].path)}} :
     d \in DOMAIN m.limits}

Detect(m) ==
    LET limits == {limit \in {m.go, m.host} \cup {m.limits[d] : d \in Groups(m)} :
                   limit > 0 /\ limit < MaxInt} IN
    IF limits = {} THEN 256 * MiB ELSE Max({KiB, Min(limits) \div 2})

PoolBytes == IF loaded.memoryBytes = 0 THEN Detect(machine) ELSE loaded.memoryBytes

\* capacity.New; a burst and a normal part, and at least one byte of normal.
PoolAccepts ==
    /\ PoolBytes >= KiB /\ loaded.burstPercent \in 1 .. 99 /\ loaded.memoryWait > 0

Build(accepted, next) ==
    /\ stage' = IF accepted THEN next ELSE "failed"
    /\ UNCHANGED <<file, machine, err, loaded, backoff>>

BuildMemory ==
    /\ stage = "accepted"
    /\ Build(PoolAccepts, IF file.mode = "gateway" THEN "build gateway" ELSE "build storage")

\* newSnapshot, which `sink config check' runs as well.
ValidRoutes ==
    /\ Len(file.routes) \in 1 .. 10000
    /\ \A i \in DOMAIN file.routes :
           LET route == file.routes[i] IN
           /\ route.store # "" /\ route.target = "target"
           /\ route.insecure => route.serverName = ""
           /\ \A j \in 1 .. i - 1 : file.routes[j].store # route.store

GatewayAccepts ==
    /\ \A n \in {"gatewayRequests", "storeRequests", "gatewayBytes", "maxFanout",
                 "maxConnections", "idleTimeout", "dnsRefresh", "requestTimeout",
                 "requestOperations", "maxReadBytes"} : loaded[n] > 0
    /\ Max({loaded.maxSend, loaded.maxReceive}) > 0
    /\ ValidRoutes

BuildGateway == stage = "build gateway" /\ Build(GatewayAccepts, "running")

\* mongodb.New and search.New check what config leaves to them: the name of the
\* metadata field and the form of the endpoints.
MongoAccepts ==
    /\ Text("metadataField") \in {"", "field"}
    /\ loaded.concurrentWrites >= 0 /\ loaded.concurrentGroups >= 0

SearchAccepts == \A i \in DOMAIN Listed("endpoints") : Listed("endpoints")[i] = "url"

BuildStorage ==
    /\ stage = "build storage"
    /\ Build(IF Text("driver") = "mongodb" THEN MongoAccepts ELSE SearchAccepts, "build kafka")

PublisherAccepts ==
    /\ loaded.maxRecord >= 0 /\ loaded.maxBuffered >= 0
    /\ loaded.maxRecord <= loaded.maxBuffered /\ loaded.maxRecord <= 64 * MiB

BuildKafka ==
    /\ stage = "build kafka"
    /\ Build(Text("kafka") = "on" /\ file.mode = "engine" => PublisherAccepts, "build service")

LuaAccepts ==
    \A n \in {"luaTimeout", "luaSource", "luaResult", "luaPrograms", "luaInstructions"} :
        loaded[n] >= 0

\* service.New.
ServiceAccepts ==
    /\ \A n \in {"requestOperations", "mergeAttempts", "requestTimeout", "maxRequests",
                 "maxBytes", "maxReadBytes", "queueRequests", "queueBytes", "queueWait",
                 "publishRequests", "publishBytes", "scanRequests", "scanBytes", "scanWait"} :
           loaded[n] >= 0
    /\ loaded.scanRequests <= loaded.maxRequests /\ loaded.scanBytes <= loaded.maxBytes

BuildService ==
    /\ stage = "build service"
    /\ Build(LuaAccepts /\ ServiceAccepts,
             IF file.mode = "engine" THEN "build server" ELSE "build worker")

\* normalizeBatchingOptions and engine.New.
ServerAccepts ==
    /\ loaded.batchOperations <= loaded.requestOperations
    /\ loaded.queuedOperations >= loaded.requestOperations
    /\ loaded.queuedOperations >= loaded.batchOperations
    /\ loaded.queuedBytes >= loaded.batchBytes
    /\ loaded.maxReadBytes > 0 /\ loaded.maxReceive >= 0

BuildServer == stage = "build server" /\ Build(ServerAccepts, "running")

\* NewWorker.
WorkerAccepts ==
    /\ loaded.pollRecords >= 0 /\ loaded.retryAttempts >= 0
    /\ loaded.maxBackoff >= loaded.retryBackoff
    /\ loaded.processingTimeout \in 0 .. 20 * Second
    /\ loaded.maxRecord \in 0 .. 64 * MiB /\ loaded.shutdownTimeout >= 0

BuildWorker ==
    /\ stage = "build worker"
    /\ stage' = IF WorkerAccepts THEN "running" ELSE "failed"
    /\ backoff' = IF WorkerAccepts THEN loaded.retryBackoff ELSE 0
    /\ UNCHANGED <<file, machine, err, loaded>>

\* An int64 result.
Wrapped(n) == ((n + MaxInt + 1) % (2 * (MaxInt + 1))) - (MaxInt + 1)

\* A retry of the worker doubles its delay under the cap.
RetryLater ==
    /\ stage = "running" /\ file.mode = "worker"
    /\ backoff' = Min({Wrapped(backoff * 2), loaded.maxBackoff})
    /\ UNCHANGED <<file, machine, stage, err, loaded>>

Next ==
    \/ ResolveProcess \/ ResolveService \/ ResolveRole \/ ResolveGateway
    \/ ResolveDriver \/ ResolveKafka
    \/ BuildMemory \/ BuildGateway \/ BuildStorage \/ BuildKafka \/ BuildService
    \/ BuildServer \/ BuildWorker \/ RetryLater

Spec == Init /\ [][Next]_vars

Done == stage \in {"rejected", "failed", "running"}

----------------------------------------------------------------------------
\* validateTopicOptions, which the topic manager runs only once it serves: what
\* it refuses, it refuses again on every retry.
TopicsAccepted ==
    /\ Listed("brokers") # <<>> /\ Text("topic") # "" /\ DeadLetter \notin {"", Text("topic")}
    /\ loaded.partitions \in 1 .. MaxInt32
    /\ loaded.replicationFactor \in 1 .. 32767
    /\ loaded.minInSync \in 1 .. loaded.replicationFactor
    /\ loaded.maxRecord \in 1 .. 64 * MiB
    /\ loaded.retention >= Millisecond /\ loaded.deadLetterRetention >= Millisecond

\* What `sink config check' leaves to the storage drivers.
LeftToDrivers ==
    \/ Text("driver") = "mongodb" /\ Text("metadataField") \in {"_id", "a.b"}
    \/ Text("driver") # "mongodb" /\ "relative" \in {Listed("endpoints")[i] : i \in DOMAIN Listed("endpoints")}

\* A file whose limits config accepts is one every component accepts: start-up
\* fails only over routes that `sink config check' refuses too or over a text
\* left to the storage driver; no resolved limit is the 0 that a constructor
\* would replace by a default of its own; and the topic manager does not refuse
\* the options for good once the process serves.
StartsAsChecked ==
    /\ stage = "failed" =>
           IF file.mode = "gateway" THEN ~ValidRoutes ELSE LeftToDrivers
    /\ stage = "running" =>
           /\ \A n \in DOMAIN loaded \ {"memoryBytes"} : loaded[n] > 0
           /\ Text("kafka") = "on" => TopicsAccepted

\* The worker's delay between retries never leaves 1 .. max_backoff, whatever
\* the number of doublings, and the jitter of up to half of it more does not
\* overflow: an overflowing delay would retry at once.
DelayBounded ==
    stage = "running" /\ file.mode = "worker" =>
        /\ backoff \in 1 .. loaded.maxBackoff
        /\ Wrapped((backoff \div 2) + backoff - 1) >= backoff \div 2

\* The groups a process is charged to: the member's group and all that contain
\* it, seen through the mounts.
Enforced(m) ==
    {d \in DOMAIN m.limits :
        \E mount \in m.mounts, member \in m.members :
            /\ mount.kind = member.kind /\ mount.kind # "cpu"
            /\ Len(d) >= Len(mount.point)
            /\ SubSeq(d, 1, Len(mount.point)) = mount.point
            /\ LET group == mount.root \o SubSeq(d, Len(mount.point) + 1, Len(d))
                   path == IF member.path = <<>> THEN mount.root ELSE member.path IN
               Len(group) <= Len(path) /\ SubSeq(path, 1, Len(group)) = group}

\* A pool sized by detection takes at most half of every limit the process runs
\* under, that of an enclosing control group included.
PoolFitsMachine ==
    stage \in {"build gateway", "build storage"} /\ loaded.memoryBytes = 0 =>
        \A limit \in {machine.go, machine.host} \cup {machine.limits[d] : d \in Enforced(machine)} :
            limit > 0 => PoolBytes <= Max({KiB, limit \div 2})
=============================================================================
