----------------------------- MODULE DnsRefresh -----------------------------
(***************************************************************************)
(* The refreshing DNS resolver of a discovery (dns_refresh.go) and the     *)
(* view it maintains (UpdateState, ReportError of discovery.go).           *)
(*                                                                         *)
(* refresh() owns one gRPC DNS resolver at a time and replaces it when its *)
(* timer fires.  The resolver is external: its goroutine looks names up    *)
(* and calls back; after a failure it backs off and tries again, after a   *)
(* success it waits for a hint.  Its Close waits for that goroutine.       *)
(* An answer is the version of the name's records at the lookup.           *)
(***************************************************************************)
EXTENDS Integers, FiniteSets

CONSTANTS
  MaxVersion,       \* bound: the last version of the DNS records
  Oversized         \* versions with more addresses than connections allowed

Slots == {0, 1}     \* a resolver and its successor

DnsAssumption == MaxVersion \in Nat \ {0} /\ Oversized \subseteq 1..(MaxVersion - 1)

VARIABLES
  dns,              \* current version of the records
  watcher,          \* [Slots -> [state, seen]], the resolvers' goroutines
  slot,             \* the resolver refresh() holds
  loop,             \* "select", "replace", "stop" or "done"
  timer,            \* "stopped", "armed" or "fired"
  updates, hints,   \* the channels of capacity one hold a token
  stop,             \* Close was called
  view              \* version of the addresses the discovery offers; 0 before

vars == <<dns, watcher, slot, loop, timer, updates, hints, stop, view>>

Gone == [state |-> "gone", seen |-> 0]
Fresh == [state |-> "lookup", seen |-> 0]

Init ==
  /\ dns = 1 /\ slot = 0
  /\ watcher = [s \in Slots |-> IF s = 0 THEN Fresh ELSE Gone]
  /\ loop = "select" /\ timer = "stopped"
  /\ updates = FALSE /\ hints = FALSE /\ stop = FALSE
  /\ view = 0

loopVars == <<slot, loop, timer>>
Is(s, state) == watcher[s].state = state
Become(s, state, seen) == watcher' = [watcher EXCEPT ![s] = [state |-> state, seen |-> seen]]
Closing(s) == (s # slot \/ loop \in {"replace", "stop"}) /\ ~Is(s, "gone")

-----------------------------------------------------------------------------
\* The resolver's goroutine.
LookupSucceeds(s) ==
  /\ Is(s, "lookup")
  /\ Become(s, "answer", dns)
  /\ UNCHANGED <<dns, loopVars, updates, hints, stop, view>>
LookupFails(s) ==
  /\ Is(s, "lookup")
  /\ Become(s, "backoff", 0)
  /\ UNCHANGED <<dns, loopVars, updates, hints, stop, view>>
Retry(s) ==
  /\ Is(s, "backoff") /\ ~Closing(s)
  /\ Become(s, "lookup", 0)
  /\ UNCHANGED <<dns, loopVars, updates, hints, stop, view>>
\* discovery.UpdateState: too many addresses are an error that keeps the view.
Update(s) ==
  /\ Is(s, "answer")
  /\ IF watcher[s].seen \in Oversized
     THEN Become(s, "backoff", 0) /\ UNCHANGED view
     ELSE Become(s, "notify", 0) /\ view' = watcher[s].seen
  /\ UNCHANGED <<dns, loopVars, updates, hints, stop>>
\* refreshingDNSResolver.UpdateState: a token, if there is none.
Notify(s) ==
  /\ Is(s, "notify")
  /\ updates' = TRUE
  /\ Become(s, "idle", 0)
  /\ UNCHANGED <<dns, loopVars, hints, stop, view>>
Exit(s) ==
  /\ Closing(s) /\ watcher[s].state \in {"lookup", "backoff", "idle"}
  /\ watcher' = [watcher EXCEPT ![s] = Gone]
  /\ UNCHANGED <<dns, loopVars, updates, hints, stop, view>>

-----------------------------------------------------------------------------
\* refresh(): the cases of its select.
Stop ==
  /\ loop = "select" /\ stop
  /\ loop' = "stop"
  /\ UNCHANGED <<dns, watcher, slot, timer, updates, hints, stop, view>>
Rearm ==
  /\ loop = "select" /\ updates
  /\ updates' = FALSE /\ timer' = "armed"
  /\ UNCHANGED <<dns, watcher, slot, loop, hints, stop, view>>
Hint ==
  /\ loop = "select" /\ hints
  /\ hints' = FALSE
  /\ IF Is(slot, "idle") THEN Become(slot, "lookup", 0) ELSE UNCHANGED watcher
  /\ UNCHANGED <<dns, loopVars, updates, stop, view>>
Expire ==
  /\ loop = "select" /\ timer = "fired"
  /\ loop' = "replace" /\ timer' = "stopped"
  /\ UNCHANGED <<dns, watcher, slot, updates, hints, stop, view>>

\* Close has returned: drop an update that raced with the timer and build the next
\* resolver, or try again later if that fails.
ReplacedAtOnce == loop = "replace" /\ Is(1 - slot, "gone")
Replaced == loop = "replace" /\ Is(slot, "gone")
Build ==
  /\ Replaced
  /\ updates' = FALSE
  /\ slot' = 1 - slot /\ loop' = "select"
  /\ watcher' = [watcher EXCEPT ![1 - slot] = Fresh]
  /\ UNCHANGED <<dns, timer, hints, stop, view>>
BuildFails ==
  /\ Replaced
  /\ updates' = FALSE /\ loop' = "select" /\ timer' = "armed"
  /\ UNCHANGED <<dns, watcher, slot, hints, stop, view>>

\* stop: the deferred Close, then done.
Stopped == loop = "stop" /\ \A s \in Slots : Is(s, "gone")
Finish ==
  /\ Stopped
  /\ loop' = "done"
  /\ UNCHANGED <<dns, watcher, slot, timer, updates, hints, stop, view>>

-----------------------------------------------------------------------------
Tick ==
  /\ timer = "armed" /\ timer' = "fired"
  /\ UNCHANGED <<dns, watcher, slot, loop, updates, hints, stop, view>>
ResolveNow ==
  /\ ~hints /\ loop # "done" /\ hints' = TRUE
  /\ UNCHANGED <<dns, watcher, loopVars, updates, stop, view>>
Close ==
  /\ ~stop /\ stop' = TRUE
  /\ UNCHANGED <<dns, watcher, loopVars, updates, hints, view>>
Change ==
  /\ dns < MaxVersion /\ dns' = dns + 1
  /\ UNCHANGED <<watcher, loopVars, updates, hints, stop, view>>

Refresh == Stop \/ Rearm \/ Hint \/ Expire \/ Build \/ BuildFails \/ Finish
Watch(s) == LookupSucceeds(s) \/ LookupFails(s) \/ Retry(s) \/ Update(s) \/ Notify(s) \/ Exit(s)
Next == Refresh \/ (\E s \in Slots : Watch(s)) \/ Tick \/ ResolveNow \/ Close \/ Change

Spec == Init /\ [][Next]_vars

-----------------------------------------------------------------------------
\* The view never goes back to older records: a replaced resolver has no late
\* callback, and an error keeps the addresses of the last answer, an empty list
\* included.
ViewAdvances == view' >= view

\* There is at most one live resolver besides one that is being closed, and when
\* Close has returned there is none and the view is final.
ClosedIsFinal == loop = "done" => view' = view /\ \A s \in Slots : Is(s, "gone")

=============================================================================
