---------------------------- MODULE AppLifecycle ----------------------------
(***************************************************************************)
(* The life of a Sink process (package app, run in main.go): New opens the *)
(* resources of its role one after the other, Run starts the background    *)
(* tasks and waits for a signal or for a failure, and Close releases       *)
(* everything in its order while requests are still being handled.         *)
(***************************************************************************)
EXTENDS Integers, Sequences, FiniteSets

CONSTANTS
  Requests,         \* a sequence of kinds: "batched", "native" or "async"
  Roles             \* the roles considered, of {"engine", "worker", "gateway"}

Ids == DOMAIN Requests

VARIABLES
  role,
  phase,            \* "new", "running", "waiting", "closing" or "closed"
  step,             \* resources opened in New, steps taken in Close
  open,             \* resources that are open
  tasks,            \* background tasks that run
  probing,          \* a health probe runs that nobody may be waiting for
  failed,           \* a server or the worker reported an error
  cancelled,        \* runContext is cancelled
  serving,          \* the gRPC server accepts requests
  graced,           \* GracefulStop has been called
  forced,           \* the grace period ended: Stop was called
  refusing,         \* the batchers were stopped
  rpc               \* [Ids -> "none", "queued", "executing", "answered" or "dropped"]

process == <<role, phase, step, open, tasks, probing, failed, cancelled>>
servers == <<serving, graced, forced, refusing>>
vars == <<process, servers, rpc>>

\* New and newGateway: what each role opens, in order.
GatewayOpens == <<"gateway", "health", "metrics", "grpc">>
Opens ==
  [engine |-> <<"storage", "health", "metrics", "publisher", "batching", "grpc">>,
   worker |-> <<"storage", "health", "metrics", "worker">>,
   gateway |-> GatewayOpens]
Optional == {"metrics", "publisher"}
\* Run: what each role runs in the background.
Tasks ==
  CASE role = "engine" -> {"probes"} \cup (IF "publisher" \in open THEN {"topics"} ELSE {})
    [] role = "worker" -> {"topics", "consume"}
    [] role = "gateway" -> {"discover", "probes"}
\* Close: the order of release.
ClosesStorageEarly == <<"grpc", "gateway", "storage", "batching", "health", "metrics", "worker", "publisher">>
Closes == <<"grpc", "gateway", "batching", "health", "metrics", "worker", "publisher", "storage">>

Init ==
  /\ role \in Roles
  /\ phase = "new" /\ step = 0 /\ open = {} /\ tasks = {} /\ probing = FALSE
  /\ failed = FALSE /\ cancelled = FALSE
  /\ serving = FALSE /\ graced = FALSE /\ forced = FALSE /\ refusing = FALSE
  /\ rpc = [r \in Ids |-> "none"]

-----------------------------------------------------------------------------
(* New.                                                                    *)
Opening == Opens[role][step + 1]
Open ==
  /\ phase = "new" /\ step < Len(Opens[role])
  /\ open' = open \cup {Opening} /\ step' = step + 1
  /\ UNCHANGED <<role, probing, phase, tasks, failed, cancelled, servers, rpc>>
\* Metrics and Kafka may be disabled.
Skip ==
  /\ phase = "new" /\ step < Len(Opens[role]) /\ Opening \in Optional
  /\ step' = step + 1
  /\ UNCHANGED <<role, probing, phase, open, tasks, failed, cancelled, servers, rpc>>
\* An error while it is put together; the engine's last step opens nothing.
Incomplete == phase = "new" /\ (step < Len(Opens[role]) \/ role = "engine")
\* The deferred Close; there is none before the first resource.
GiveUp ==
  /\ Incomplete
  /\ phase' = IF step = 0 THEN "closed" ELSE "closing"
  /\ step' = 0
  /\ UNCHANGED <<role, probing, open, tasks, failed, cancelled, servers, rpc>>

-----------------------------------------------------------------------------
(* Run.                                                                    *)
Run ==
  /\ phase = "new" /\ step = Len(Opens[role])
  /\ phase' = "running" /\ tasks' = Tasks /\ serving' = ("grpc" \in open)
  /\ UNCHANGED <<role, probing, step, open, failed, cancelled, graced, forced, refusing, rpc>>
Signal ==
  /\ phase = "running" /\ ~cancelled
  /\ cancelled' = TRUE
  /\ UNCHANGED <<role, probing, phase, step, open, tasks, failed, servers, rpc>>
ServeFails ==
  /\ phase = "running" /\ ~failed
  /\ failed' = TRUE
  /\ UNCHANGED <<role, probing, phase, step, open, tasks, cancelled, servers, rpc>>
\* A task ends once told; the worker's may also end with an error, and the topic
\* manager's when the topics are established.
TaskEnds(t) ==
  /\ t \in tasks /\ (cancelled \/ t \in {"consume", "topics"})
  /\ tasks' = tasks \ {t} /\ failed' = (failed \/ (t = "consume" /\ ~cancelled))
  /\ UNCHANGED <<role, probing, phase, step, open, cancelled, servers, rpc>>
\* check, of the task or of a readiness request: its probe has a context of its own
\* and is waited for neither by a caller that gives up nor by Run or Close.
StartProbe ==
  /\ ~probing /\ ("probes" \in tasks \/ (phase = "running" /\ "health" \in open))
  /\ probing' = TRUE
  /\ UNCHANGED <<role, phase, step, open, tasks, failed, cancelled, servers, rpc>>
EndProbe ==
  /\ probing /\ probing' = FALSE
  /\ UNCHANGED <<role, phase, step, open, tasks, failed, cancelled, servers, rpc>>
\* The select and the deferred function: tell the tasks, then wait for them.
Return ==
  /\ phase = "running" /\ (cancelled \/ failed)
  /\ phase' = "waiting" /\ cancelled' = TRUE
  /\ UNCHANGED <<role, probing, step, open, tasks, failed, servers, rpc>>
Waited ==
  /\ phase = "waiting" /\ tasks = {}
  /\ phase' = "closing" /\ step' = 0
  /\ UNCHANGED <<role, probing, open, tasks, failed, cancelled, servers, rpc>>

-----------------------------------------------------------------------------
(* Requests.                                                               *)
Live == {"queued", "executing"}
Batched(r) == role = "engine" /\ Requests[r] = "batched"
\* Without Kafka an asynchronous request is refused at once.
Arrive(r) ==
  /\ serving /\ rpc[r] = "none"
  /\ rpc' = [rpc EXCEPT ![r] =
       CASE Batched(r) -> "queued"
         [] role = "engine" /\ Requests[r] = "async" /\ "publisher" \notin open -> "answered"
         [] OTHER -> "executing"]
  /\ UNCHANGED <<process, servers>>
\* The batcher executes what it holds until it is stopped.
Execute(r) ==
  /\ rpc[r] = "queued" /\ ~refusing
  /\ rpc' = [rpc EXCEPT ![r] = "executing"]
  /\ UNCHANGED <<process, servers>>
\* A handler that returns after Stop has lost its connection.
Finish(r) ==
  /\ rpc[r] = "executing"
  /\ rpc' = [rpc EXCEPT ![r] = IF forced THEN "dropped" ELSE "answered"]
  /\ UNCHANGED <<process, servers>>
\* Queued when the batcher stops, or when its connection is gone.
Refuse(r) ==
  /\ rpc[r] = "queued" /\ (refusing \/ forced)
  /\ rpc' = [rpc EXCEPT ![r] = "dropped"]
  /\ UNCHANGED <<process, servers>>

-----------------------------------------------------------------------------
(* Close.                                                                  *)
Closing(resource) == phase = "closing" /\ step < Len(Closes) /\ Closes[step + 1] = resource
Release ==
  /\ open' = open \ {Closes[step + 1]} /\ step' = step + 1
  /\ UNCHANGED <<role, probing, phase, tasks, failed, cancelled, rpc>>

\* GracefulStop: no new requests; it returns when the handlers have.
GracefulStop ==
  /\ Closing("grpc") /\ "grpc" \in open /\ ~graced
  /\ graced' = TRUE /\ serving' = FALSE
  /\ UNCHANGED <<process, forced, refusing, rpc>>
Drained ==
  /\ Closing("grpc") /\ graced /\ \A r \in Ids : rpc[r] \notin Live
  /\ Release /\ UNCHANGED servers
\* The timer: Stop closes the connections and does not wait for handlers.
GraceEnds ==
  /\ Closing("grpc") /\ graced
  /\ forced' = TRUE
  /\ Release /\ UNCHANGED <<serving, graced, refusing>>

\* BatchingServer.Close: stop the batchers, then wait for what they execute.
StopBatching ==
  /\ Closing("batching") /\ "batching" \in open /\ ~refusing
  /\ refusing' = TRUE
  /\ UNCHANGED <<process, serving, graced, forced, rpc>>
CloseBatching ==
  /\ Closing("batching") /\ refusing /\ \A r \in Ids : Batched(r) => rpc[r] \notin Live
  /\ Release /\ UNCHANGED servers

\* Everything else is closed in one step, or was never opened.
CloseNext ==
  /\ phase = "closing" /\ step < Len(Closes)
  /\ Closes[step + 1] \in open => Closes[step + 1] \notin {"grpc", "batching"}
  /\ Release /\ UNCHANGED servers
Closed ==
  /\ phase = "closing" /\ step = Len(Closes)
  /\ phase' = "closed"
  /\ UNCHANGED <<role, probing, step, open, tasks, failed, cancelled, servers, rpc>>

Close ==
  \/ GracefulStop \/ Drained \/ GraceEnds \/ StopBatching \/ CloseBatching \/ CloseNext \/ Closed
Next ==
  \/ Open \/ Skip \/ GiveUp \/ Run \/ Signal \/ ServeFails \/ Return \/ Waited \/ Close
  \/ StartProbe \/ EndProbe
  \/ \E t \in tasks : TaskEnds(t)
  \/ \E r \in Ids : Arrive(r) \/ Execute(r) \/ Finish(r) \/ Refuse(r)
  \/ phase = "closed" /\ UNCHANGED vars

Spec == Init /\ [][Next]_vars

-----------------------------------------------------------------------------
\* What the handler of a request works with.
Needs(r) ==
  IF role = "gateway" THEN "gateway" ELSE IF Requests[r] = "async" THEN "publisher" ELSE "storage"

\* The worker's and the gateway's tasks and every batched request find what they
\* need open until they have ended, although the grace period may end first.  So do
\* the other requests as long as it has not; those it abandoned, and the probes,
\* are not waited for and may meet a closed client.
UsedWhileOpen ==
  /\ "consume" \in tasks => {"worker", "storage"} \subseteq open
  /\ "discover" \in tasks => "gateway" \in open
  /\ \A r \in Ids : rpc[r] = "executing" => Needs(r) \in open \/ (~Batched(r) /\ forced)

\* A process that has closed holds nothing and runs no task of Run, whether it ran
\* or failed while New put it together.
AllReleased == phase = "closed" => open = {} /\ tasks = {} /\ ~serving

\* An accepted request is answered by the drain in Close; it is lost only when
\* the grace period ended first.
DroppedOnlyLate == \A r \in Ids : rpc[r] = "dropped" => forced

=============================================================================
