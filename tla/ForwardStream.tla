---------------------------- MODULE ForwardStream ----------------------------
(***************************************************************************)
(* A native RPC through the gateway (gateway/methods.go, server.go and     *)
(* stream.go) to an engine (engine/stream.go): the response comes back as  *)
(* a size and then as frames, and neither process holds a byte of it that  *)
(* its memory pool has not granted.  One unit of memory is a frame.        *)
(***************************************************************************)
EXTENDS Integers, Sequences, FiniteSets, SequencesExt, FiniteSetsExt

CONSTANTS
  Ids,
  Shapes,           \* a set of [kind, routed, bound, size]: "scan" or another
                    \* method, whether the store has a route, whether the engine
                    \* there serves that store, and the frames of the response
  GatewayUnits, EngineUnits,
  MessageUnits,     \* the largest response the gateway takes
  Window,           \* frames the transport buffers
  MaxLost           \* bound: connections lost

ForwardAssumption ==
  /\ \A shape \in Shapes : shape.size \in Nat \ {0}
  /\ {GatewayUnits, EngineUnits, MessageUnits, Window} \subseteq Nat \ {0} /\ MaxLost \in Nat

VARIABLES
  rpc,              \* [Ids -> Shapes]
  gateway,          \* [Ids -> [state, size, got, safe]]
  engine,           \* [Ids -> [state, sent]]
  channel,          \* [Ids -> messages under way]
  broken,           \* [Ids -> the stream was cancelled or lost]
  gmem, emem,       \* [Ids -> units the scope holds in the gateway, in the engine]
  executed,         \* [Ids -> BOOLEAN], the engine's service was invoked
  lost

vars == <<rpc, gateway, engine, channel, broken, gmem, emem, executed, lost>>

Init ==
  /\ rpc \in [Ids -> Shapes]
  /\ gateway = [c \in Ids |-> [state |-> "new", size |-> 0, got |-> <<>>, safe |-> FALSE]]
  /\ engine = [c \in Ids |-> [state |-> "none", sent |-> 0]]
  /\ channel = [c \in Ids |-> <<>>] /\ broken = [c \in Ids |-> FALSE]
  /\ gmem = [c \in Ids |-> 0] /\ emem = [c \in Ids |-> 0]
  /\ executed = [c \in Ids |-> FALSE] /\ lost = 0

\* The pools, as CapacityPool has them: a request that fits may be granted; one
\* that must wait for others ends as busy.
Fits(mem, units, total) == MapThenSumSet(LAMBDA c : mem[c], Ids) + units <= total
Ended == {"answered", "failed"}

-----------------------------------------------------------------------------
(* The gateway.                                                            *)
\* The RPC returns: its stream is cancelled and its scope released.
End(c, state, safe) ==
  /\ gateway' = [gateway EXCEPT ![c].state = state, ![c].safe = safe]
  /\ broken' = [broken EXCEPT ![c] = TRUE] /\ channel' = [channel EXCEPT ![c] = <<>>]
  /\ gmem' = [gmem EXCEPT ![c] = 0]
  /\ UNCHANGED <<rpc, engine, emem, executed, lost>>
\* MemoryAdmissionError: only a scan is told that it may be repeated.
MarkedSafe(c) == rpc[c].kind = "scan"
GatewayGrow(c, from, to, units) ==
  /\ gateway[c].state = from /\ Fits(gmem, units, GatewayUnits)
  /\ gmem' = [gmem EXCEPT ![c] = @ + units]
  /\ gateway' = [gateway EXCEPT ![c].state = to]
  /\ UNCHANGED <<rpc, engine, channel, broken, emem, executed, lost>>

\* beginMemory: the request itself.
Begin(c) == GatewayGrow(c, "new", "begun", 1)
Unrouted(c) == gateway[c].state = "begun" /\ ~rpc[c].routed /\ End(c, "failed", FALSE)
\* forwardStream: the scratch memory first, then the stream.
Scratch(c) == rpc[c].routed /\ GatewayGrow(c, "begun", "ready", 1)
Busy(c) == gateway[c].state \in {"new", "begun"} /\ End(c, "failed", MarkedSafe(c))
OpenStream(c) ==
  /\ gateway[c].state = "ready"
  /\ gateway' = [gateway EXCEPT ![c].state = "header"]
  /\ engine' = [engine EXCEPT ![c].state = "admit"]
  /\ UNCHANGED <<rpc, channel, broken, gmem, emem, executed, lost>>

Message(c) == channel[c][1]
Receives(c, state, tag) ==
  gateway[c].state = state /\ channel[c] # <<>> /\ Message(c).tag = tag
ReceiveSize(c) ==
  /\ Receives(c, "header", "size") /\ Message(c).value <= MessageUnits
  /\ gateway' = [gateway EXCEPT ![c].state = "output", ![c].size = Message(c).value]
  /\ channel' = [channel EXCEPT ![c] = Tail(@)]
  /\ UNCHANGED <<rpc, engine, broken, gmem, emem, executed, lost>>
TooLarge(c) == Receives(c, "header", "size") /\ Message(c).value > MessageUnits /\ End(c, "failed", FALSE)
\* It reads on only when the whole response has its memory.
Output(c) == GatewayGrow(c, "output", "data", gateway[c].size)
\* An invalid frame cannot come from this engine.
ReceiveData(c) ==
  /\ Receives(c, "data", "data") /\ Len(gateway[c].got) < gateway[c].size
  /\ gateway' = [gateway EXCEPT ![c].got = Append(@, Message(c).value)]
  /\ channel' = [channel EXCEPT ![c] = Tail(@)]
  /\ UNCHANGED <<rpc, engine, broken, gmem, emem, executed, lost>>
\* The end of the stream, with everything received and decoded; or its status.
Finish(c) ==
  /\ Receives(c, "data", "end") /\ Len(gateway[c].got) = gateway[c].size
  /\ End(c, "answered", FALSE)
StreamFails(c) ==
  \E state \in {"header", "data"} :
    Receives(c, state, "error") /\ End(c, "failed", Message(c).value)
\* The deadline, the client or the connection: nothing is known of the engine.
GiveUp(c) == gateway[c].state \in {"header", "output", "data"} /\ End(c, "failed", FALSE)

Lose(c) ==
  /\ gateway[c].state \in {"header", "output", "data"} /\ ~broken[c] /\ lost < MaxLost
  /\ broken' = [broken EXCEPT ![c] = TRUE] /\ lost' = lost + 1
  /\ \E n \in 0 .. Len(channel[c]) : channel' = [channel EXCEPT ![c] = SubSeq(@, 1, n)]
  /\ UNCHANGED <<rpc, gateway, engine, gmem, emem, executed>>

-----------------------------------------------------------------------------
(* The engine.                                                             *)
Return(c, messages) ==
  /\ engine' = [engine EXCEPT ![c].state = "ended"]
  /\ emem' = [emem EXCEPT ![c] = 0]
  /\ channel' = [channel EXCEPT ![c] = IF broken[c] THEN @ ELSE @ \o messages]
  /\ UNCHANGED <<rpc, gateway, broken, gmem, executed, lost>>
Failure(safe) == <<[tag |-> "error", value |-> safe]>>
EngineGrow(c, from, to, units) ==
  /\ engine[c].state = from /\ Fits(emem, units, EngineUnits)
  /\ emem' = [emem EXCEPT ![c] = @ + units]
  /\ engine' = [engine EXCEPT ![c].state = to]
  /\ UNCHANGED <<rpc, gateway, channel, broken, gmem, executed, lost>>

Admit(c) == EngineGrow(c, "admit", "scratch", 1)
EngineScratch(c) == EngineGrow(c, "scratch", "forward", 1)
EngineBusy(c) == engine[c].state \in {"admit", "scratch"} /\ Return(c, Failure(MarkedSafe(c)))
\* Forward: another store's request is answered without being started.
Forward(c) ==
  /\ engine[c].state = "forward"
  /\ engine' = [engine EXCEPT ![c].state = "output"]
  /\ executed' = [executed EXCEPT ![c] = rpc[c].bound]
  /\ UNCHANGED <<rpc, gateway, channel, broken, gmem, emem, lost>>
Frames(c) == IF executed[c] THEN rpc[c].size ELSE 1
EnsureOutput(c) == EngineGrow(c, "output", "send", Frames(c))
OutputBusy(c) == engine[c].state = "output" /\ Return(c, Failure(FALSE))
\* SendMsg: the size, then the frames, as far as the window lets them.
Send(c) ==
  /\ engine[c].state = "send" /\ engine[c].sent <= Frames(c) /\ Len(channel[c]) < Window /\ ~broken[c]
  /\ channel' = [channel EXCEPT ![c] = Append(@,
       IF engine[c].sent = 0 THEN [tag |-> "size", value |-> Frames(c)]
                             ELSE [tag |-> "data", value |-> engine[c].sent])]
  /\ engine' = [engine EXCEPT ![c].sent = @ + 1]
  /\ UNCHANGED <<rpc, gateway, broken, gmem, emem, executed, lost>>
Sent(c) ==
  /\ engine[c].state = "send" /\ engine[c].sent > Frames(c)
  /\ Return(c, <<[tag |-> "end", value |-> 0]>>)
Cancelled(c) == engine[c].state \notin {"none", "ended"} /\ broken[c] /\ Return(c, <<>>)
GatewayStep(c) ==
  \/ Begin(c) \/ Unrouted(c) \/ Scratch(c) \/ Busy(c) \/ OpenStream(c) \/ ReceiveSize(c)
  \/ TooLarge(c) \/ Output(c) \/ ReceiveData(c) \/ Finish(c) \/ StreamFails(c) \/ GiveUp(c)
EngineStep(c) ==
  \/ Admit(c) \/ EngineScratch(c) \/ EngineBusy(c) \/ Forward(c) \/ EnsureOutput(c) \/ OutputBusy(c)
  \/ Send(c) \/ Sent(c) \/ Cancelled(c)
Done(c) == gateway[c].state \in Ended /\ engine[c].state \in {"none", "ended"}
Next ==
  \/ \E c \in Ids : GatewayStep(c) \/ EngineStep(c) \/ Lose(c)
  \/ (\A c \in Ids : Done(c)) /\ UNCHANGED vars

Spec == Init /\ [][Next]_vars

-----------------------------------------------------------------------------
\* The gateway holds no part of a response beyond the memory that its scope
\* was granted for it, whatever the engine sends.
HeldIsReserved == \A c \in Ids : gateway[c].state = "data" => gmem[c] >= 2 + Len(gateway[c].got)

\* An answered RPC has the complete response in its order: a stream that was
\* lost or cancelled part of the way is never taken for a whole one.
Whole ==
  \A c \in Ids : gateway[c].state = "answered" =>
    gateway[c].got = [i \in 1 .. Frames(c) |-> i]

\* A scan that is told it may be repeated was never started: the mark is given
\* exclusively before the service is invoked or anything is forwarded.
SafeIsUnstarted == \A c \in Ids : gateway[c].safe => ~executed[c]

\* Memory is returned on every path: a process that is done with an RPC holds
\* nothing for it.
Released ==
  \A c \in Ids : /\ gateway[c].state \in Ended => gmem[c] = 0
                 /\ engine[c].state = "ended" => emem[c] = 0

=============================================================================
