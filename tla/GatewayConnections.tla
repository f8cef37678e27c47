------------------------- MODULE GatewayConnections -------------------------
(***************************************************************************)
(* The gateway's pools of discoveries and connections (connections.go,     *)
(* discover and destinations of discovery.go): requests take a discovery   *)
(* of their store's route, wait for its first answer, open or share a      *)
(* connection to one of its addresses and give both back.  Idle objects    *)
(* are evicted for others, expire, and all are closed at shutdown.         *)
(*                                                                         *)
(* Both pools are protected by one mutex, which a discovery does not hold  *)
(* while its resolver is built, closed or waited for.                      *)
(***************************************************************************)
EXTENDS Integers, Sequences, FiniteSets, SequencesExt

CONSTANTS
  Requests,
  RouteOf,          \* [Requests -> routes of the stores they address]
  Addresses,        \* addresses DNS may return
  Maximum,          \* capacity of each pool
  MaxObjects        \* bound: discoveries, and connections, made in a behaviour

Ids == 1..MaxObjects

ConnectionsAssumption == Maximum \in Nat \ {0} /\ MaxObjects \in Nat \ {0}

VARIABLES
  discoveries,      \* [subset of Routes -> id], the map
  disc,             \* [Ids -> [users, built, ready, closed]] discovery objects
  entries,          \* [subset of Addresses -> id], open connections by destination
  conn,             \* [Ids -> [users, closed]]
  idleDisc, idleConn, \* ids without users, longest idle first
  made,             \* [disc, conn -> objects made]
  pc, held,         \* [Requests -> step], [Requests -> [disc, conn]] ids or 0
  closing,          \* [Requests and "closer", "janitor" -> discoveries it must close]
  closed            \* connections.closed

vars == <<discoveries, disc, entries, conn, idleDisc, idleConn, made, pc, held, closing, closed>>

Actors == Requests \cup {"closer", "janitor"}
Image(f) == {f[x] : x \in DOMAIN f}
Put(f, x, v) == [y \in DOMAIN f \cup {x} |-> IF y = x THEN v ELSE f[y]]
Drop(f, ids) == [y \in {z \in DOMAIN f : f[z] \notin ids} |-> f[y]]
Without(s, ids) == SelectSeq(s, LAMBDA i : i \notin ids)

Init ==
  /\ discoveries = <<>> /\ entries = <<>>
  /\ disc = [i \in Ids |-> [users |-> 0, built |-> FALSE, ready |-> FALSE, closed |-> FALSE]]
  /\ conn = [i \in Ids |-> [users |-> 0, closed |-> FALSE]]
  /\ idleDisc = <<>> /\ idleConn = <<>>
  /\ made = [disc |-> 0, conn |-> 0]
  /\ pc = [r \in Requests |-> "start"] /\ held = [r \in Requests |-> [disc |-> 0, conn |-> 0]]
  /\ closing = [a \in Actors |-> {}]
  /\ closed = FALSE

Go(r, step) == pc' = [pc EXCEPT ![r] = step]
connVars == <<entries, conn, idleConn>>
discVars == <<discoveries, disc, idleDisc>>

-----------------------------------------------------------------------------
\* discover under the mutex: closed, shared, or new; a full pool evicts the
\* discovery that has been idle longest, and refuses if there is none.
VictimAny(map, idle) == {CHOOSE i \in Image(map) : TRUE}
Victim(map, idle) == IF idle = <<>> THEN {} ELSE {idle[1]}
Evicted(map, idle) == IF Cardinality(DOMAIN map) >= Maximum THEN Victim(map, idle) ELSE {}
Refused(map, idle) == Cardinality(DOMAIN map) >= Maximum /\ Victim(map, idle) = {}
Discover(r) ==
  /\ pc[r] = "start"
  /\ UNCHANGED <<connVars, closed>>
  /\ \/ /\ closed \/ (RouteOf[r] \notin DOMAIN discoveries /\ Refused(discoveries, idleDisc))
        /\ Go(r, "failed") /\ UNCHANGED <<discVars, made, held, closing>>
     \/ /\ ~closed /\ RouteOf[r] \in DOMAIN discoveries
        /\ \E i \in {discoveries[RouteOf[r]]} :
             /\ disc' = [disc EXCEPT ![i].users = @ + 1]
             /\ idleDisc' = Without(idleDisc, {i})
             /\ held' = [held EXCEPT ![r].disc = i]
        /\ Go(r, "wait")
        /\ UNCHANGED <<discoveries, made, closing>>
     \/ /\ ~closed /\ RouteOf[r] \notin DOMAIN discoveries
        /\ ~Refused(discoveries, idleDisc) /\ made.disc < MaxObjects
        /\ \E out \in {Evicted(discoveries, idleDisc)}, i \in {made.disc + 1} :
             /\ discoveries' = Put(Drop(discoveries, out), RouteOf[r], i)
             /\ idleDisc' = Without(idleDisc, out)
             /\ disc' = [disc EXCEPT ![i].users = 1]
             /\ held' = [held EXCEPT ![r].disc = i]
             /\ closing' = [closing EXCEPT ![r] = out]
        /\ made' = [made EXCEPT !.disc = @ + 1]
        /\ Go(r, "build")

\* discovery.close waits until the resolver is built, then closes it.
CloseDiscovery(a) ==
  /\ \E i \in closing[a] :
       /\ disc[i].built
       /\ disc' = [disc EXCEPT ![i].closed = TRUE]
       /\ closing' = [closing EXCEPT ![a] = @ \ {i}]
  /\ UNCHANGED <<discoveries, idleDisc, connVars, made, pc, held, closed>>

\* The creator builds the resolver, after the evicted discovery is closed.
Build(r) ==
  /\ pc[r] = "build" /\ closing[r] = {}
  /\ disc' = [disc EXCEPT ![held[r].disc].built = TRUE]
  /\ Go(r, "wait")
  /\ UNCHANGED <<discoveries, idleDisc, connVars, made, held, closing, closed>>

\* A running resolver reports addresses or an error: ready is closed once.
Report(i) ==
  /\ disc[i].built /\ ~disc[i].closed /\ ~disc[i].ready
  /\ disc' = [disc EXCEPT ![i].ready = TRUE]
  /\ UNCHANGED <<discoveries, idleDisc, connVars, made, pc, held, closing, closed>>

\* snapshot: the first answer, or the end of the request.
ReleaseDiscovery(r) ==
  \E i \in {held[r].disc} :
    /\ disc' = [disc EXCEPT ![i].users = @ - 1]
    /\ idleDisc' = IF disc[i].users = 1 /\ i \in Image(discoveries) THEN Append(idleDisc, i) ELSE idleDisc
    /\ held' = [held EXCEPT ![r] = [disc |-> 0, conn |-> 0]]
Snapshot(r) ==
  /\ pc[r] = "wait" /\ disc[held[r].disc].ready
  /\ Go(r, "acquire")
  /\ UNCHANGED <<discVars, connVars, made, held, closing, closed>>
GiveUp(r) ==
  /\ pc[r] = "wait"
  /\ ReleaseDiscovery(r) /\ Go(r, "failed")
  /\ UNCHANGED <<discoveries, connVars, made, closing, closed>>

\* acquire: the same shape as discover, for the connection to one address.  A
\* target that can not be resolved or dialled is refused after the eviction.
Acquire(r) ==
  /\ pc[r] = "acquire"
  /\ \E a \in Addresses :
       \/ /\ closed \/ (a \notin DOMAIN entries /\ Refused(entries, idleConn))
          /\ ReleaseDiscovery(r) /\ Go(r, "failed")
          /\ UNCHANGED <<discoveries, connVars, made>>
       \/ /\ ~closed /\ a \in DOMAIN entries
          /\ conn' = [conn EXCEPT ![entries[a]].users = @ + 1]
          /\ idleConn' = Without(idleConn, {entries[a]})
          /\ held' = [held EXCEPT ![r].conn = entries[a]]
          /\ Go(r, "call") /\ UNCHANGED <<discVars, entries, made>>
       \/ /\ ~closed /\ a \notin DOMAIN entries
          /\ ~Refused(entries, idleConn) /\ made.conn < MaxObjects
          /\ \E out \in {Evicted(entries, idleConn)}, i \in {made.conn + 1} :
               /\ entries' = Put(Drop(entries, out), a, i)
               /\ idleConn' = Without(idleConn, out)
               /\ conn' = [j \in Ids |-> [users |-> IF j = i THEN 1 ELSE conn[j].users,
                                          closed |-> conn[j].closed \/ j \in out]]
               /\ held' = [held EXCEPT ![r].conn = i]
          /\ made' = [made EXCEPT !.conn = @ + 1]
          /\ Go(r, "call") /\ UNCHANGED discVars
       \/ /\ ~closed /\ a \notin DOMAIN entries /\ ~Refused(entries, idleConn)
          /\ \E out \in {Evicted(entries, idleConn)} :
               /\ entries' = Drop(entries, out) /\ idleConn' = Without(idleConn, out)
               /\ conn' = [j \in Ids |-> [conn[j] EXCEPT !.closed = @ \/ j \in out]]
          /\ ReleaseDiscovery(r) /\ Go(r, "failed")
          /\ UNCHANGED <<discoveries, made>>
  /\ UNCHANGED <<closing, closed>>

\* The call ends: the connection and then the discovery are released.
ReleaseConnection(r) ==
  \E i \in {held[r].conn} :
    /\ conn' = [conn EXCEPT ![i].users = @ - 1]
    /\ idleConn' = IF conn[i].users = 1 /\ i \in Image(entries) THEN Append(idleConn, i) ELSE idleConn
Finish(r) ==
  /\ pc[r] = "call"
  /\ ReleaseConnection(r) /\ ReleaseDiscovery(r)
  /\ Go(r, "done")
  /\ UNCHANGED <<discoveries, entries, made, closing, closed>>

\* expire: what has been idle longest, as far as the timeout reaches.
Expire ==
  /\ ~closed /\ closing["janitor"] = {}
  /\ \E m \in 0..Len(idleConn), n \in 0..Len(idleDisc) :
       \E cs \in {ToSet(SubSeq(idleConn, 1, m))}, ds \in {ToSet(SubSeq(idleDisc, 1, n))} :
         /\ m + n > 0
         /\ entries' = Drop(entries, cs) /\ idleConn' = Without(idleConn, cs)
         /\ conn' = [i \in Ids |-> [conn[i] EXCEPT !.closed = @ \/ i \in cs]]
         /\ discoveries' = Drop(discoveries, ds) /\ idleDisc' = Without(idleDisc, ds)
         /\ closing' = [closing EXCEPT !["janitor"] = ds]
  /\ UNCHANGED <<disc, made, pc, held, closed>>

\* close: refuse everything from now on and close all that the maps hold.
Close ==
  /\ ~closed /\ closed' = TRUE
  /\ conn' = [i \in Ids |-> [conn[i] EXCEPT !.closed = @ \/ i \in Image(entries)]]
  /\ entries' = <<>> /\ discoveries' = <<>> /\ idleConn' = <<>> /\ idleDisc' = <<>>
  /\ closing' = [closing EXCEPT !["closer"] = Image(discoveries)]
  /\ UNCHANGED <<disc, made, pc, held>>

Step(r) == Discover(r) \/ Build(r) \/ Snapshot(r) \/ GiveUp(r) \/ Acquire(r) \/ Finish(r)
Next ==
  \/ \E r \in Requests : Step(r)
  \/ \E a \in Actors : CloseDiscovery(a)
  \/ \E i \in Ids : Report(i)
  \/ Expire \/ Close

\* Requests run and end with their timeout; closers run.
Spec ==
  /\ Init /\ [][Next]_vars
  /\ \A r \in Requests : WF_vars(Step(r))
  /\ \A a \in Actors : WF_vars(CloseDiscovery(a))

-----------------------------------------------------------------------------
\* Users are counted exactly, so that nothing idle is kept and nothing used is taken.
UsersExact ==
  /\ \A i \in Ids : disc[i].users = Cardinality({r \in Requests : held[r].disc = i})
  /\ \A i \in Ids : conn[i].users = Cardinality({r \in Requests : held[r].conn = i})

\* Eviction and expiry never close a connection or discovery that a request holds;
\* only shutdown does.
NotUnderUsers ==
  ~closed => \A r \in Requests :
    /\ held[r].conn # 0 => ~conn[held[r].conn].closed
    /\ held[r].disc # 0 => ~disc[held[r].disc].closed /\ held[r].disc \in Image(discoveries)

\* The pools stay within their capacity, and every object in them is still open.
Capacity ==
  /\ Cardinality(DOMAIN entries) <= Maximum /\ Cardinality(DOMAIN discoveries) <= Maximum
  /\ \A i \in Image(entries) : ~conn[i].closed
  /\ \A i \in Image(discoveries) : ~disc[i].closed

\* Nothing leaks: in the end whatever left the pools is closed, a resolver that was
\* still being built when the gateway shut down included.
AllClosed ==
  /\ \A r \in Requests : pc[r] \in {"done", "failed"}
  /\ \A i \in Ids : disc[i].built /\ i \notin Image(discoveries) => disc[i].closed
  /\ \A i \in 1..made.conn : conn[i].closed \/ i \in Image(entries)

=============================================================================
