---------------------------- MODULE CapacityPool ----------------------------
(***************************************************************************)
(* The process memory pool of internal/capacity/pool.go.                   *)
(*                                                                         *)
(* Every buffer of a request or a response is covered by a lease, every    *)
(* lease belongs to the owner (one operation) that created it, and all     *)
(* leases draw on one pool.  Part of the pool, the completion reserve, is  *)
(* only lent to response growth, and to one owner at a time.               *)
(*                                                                         *)
(* growMu serialises the Grow calls of one lease, so a Grow call, and the  *)
(* waiter it enqueues, is named by its lease.  The pool mutex p.mu is the  *)
(* variable mu.  The loops of dispatch() are run one iteration per step    *)
(* with mu held: no other operation of the pool is enabled in between, so  *)
(* each operation is still one critical section.                           *)
(*                                                                         *)
(* Definitions named like the one that follows them with a suffix are      *)
(* mutations used to show that the properties can fail.                    *)
(***************************************************************************)
EXTENDS Integers, Sequences, FiniteSets, Functions

CONSTANTS
  Owners,        \* operations
  Leases,        \* buffers
  OwnerOf,       \* the owner that called NewLease
  Bytes,         \* Options.Bytes
  BurstPercent,  \* Options.BurstPercent
  MaxWaiters,    \* Options.MaxWaiters
  Sizes,         \* the allocation sizes callers ask for
  DriverLeases,  \* bound: the leases that may be marked opaque
  None           \* nil

ASSUME PoolAssumption ==
  /\ OwnerOf \in [Leases -> Owners] /\ IsFiniteSet(Leases)
  /\ Bytes \in Nat /\ Bytes >= 1024
  /\ BurstPercent \in 1..99
  /\ MaxWaiters \in Nat \ {0}
  /\ Sizes \subseteq Nat \ {0}
  /\ DriverLeases \subseteq Leases
  /\ None \notin Owners \cup Leases

Request == "request"
Response == "response"
Phases == {Request, Response}

\* New: the reserve is a percentage of the whole, rounded down to hundredths.
normal == Bytes - (Bytes \div 100) * BurstPercent
total == Bytes

VARIABLES
  used,        \* Pool.used
  opaque,      \* Pool.opaque
  burstOwner,  \* Pool.burstOwner
  waiters,     \* Pool.waiters, by lease
  owned,       \* Owner.bytes
  held,        \* Lease.bytes
  closed,      \* Lease.closed
  isOpaque,    \* Lease.opaque
  call,        \* the Grow call of each lease, and its waiter
  mu,          \* Pool.mu: free, or held by a critical section in dispatch
  entitled     \* history: bytes held when Grow last succeeded, less later Shrinks

poolVars == <<used, opaque, burstOwner, waiters>>
leaseVars == <<owned, held, closed, isOpaque>>
vars == <<poolVars, leaseVars, call, mu, entitled>>

Idle == [pc |-> "idle", bytes |-> 0, phase |-> Request, granted |-> FALSE]
Free == [phase |-> "free", index |-> 0, pending |-> FALSE, grower |-> None]

Greater(a, b) == IF a > b THEN a ELSE b

Init ==
  /\ used = 0 /\ opaque = 0 /\ burstOwner = None /\ waiters = <<>>
  /\ owned = [o \in Owners |-> 0]
  /\ held = [l \in Leases |-> 0]
  /\ closed = [l \in Leases |-> FALSE]
  /\ isOpaque = [l \in Leases |-> FALSE]
  /\ call = [l \in Leases |-> Idle]
  /\ mu = Free
  /\ entitled = [l \in Leases |-> 0]

-----------------------------------------------------------------------------
\* dispatch() starts with the response phase; grower is the lease whose Grow
\* call has just enqueued a waiter, None for every other caller.
StartDispatchGrowOnly(grower) ==
  mu' = IF grower = None THEN Free
        ELSE [phase |-> Response, index |-> 1, pending |-> FALSE, grower |-> grower]
StartDispatch(grower) ==
  mu' = [phase |-> Response, index |-> 1, pending |-> FALSE, grower |-> grower]

\* The largest allocation phase may use while burstOwner holds the reserve.
LimitForAnyOwner(phase, owner) == IF phase = Response THEN total ELSE normal
LimitFor(phase, owner) ==
  IF phase = Response /\ burstOwner \in {None, owner} THEN total ELSE normal

Fits(l) == call[l].bytes <= LimitFor(call[l].phase, OwnerOf[l]) - used

\* The queue s after copy(s[i:], s[i+1:]) and the cut of its last place.
RemoveAt(s, i) == SubSeq(s, 1, i - 1) \o SubSeq(s, i + 1, Len(s))
\* remove(): the queue without the waiter of lease l, if it has one.
RemoveWaiter(l) ==
  IF l \in Range(waiters)
  THEN RemoveAt(waiters, CHOOSE i \in DOMAIN waiters : waiters[i] = l)
  ELSE waiters

\* min(bytes, l.bytes): a release never takes more than the lease holds.
Releasable(l, bytes) == IF bytes < held[l] THEN bytes ELSE held[l]

\* The part of a change to lease l that Pool.opaque sees.
OpaqueShareIgnored(l, bytes) == 0
OpaqueShare(l, bytes) == IF isOpaque[l] THEN bytes ELSE 0

\* releaseLocked(): return bytes of lease l to its owner and to the pool.
ReleaseLocked(l, bytes) ==
  /\ held' = [held EXCEPT ![l] = @ - bytes]
  /\ owned' = [owned EXCEPT ![OwnerOf[l]] = @ - bytes]
  /\ used' = used - bytes
  /\ opaque' = opaque - OpaqueShare(l, bytes)
  /\ burstOwner' =
       IF \/ used' <= normal
          \/ burstOwner = OwnerOf[l] /\ owned'[OwnerOf[l]] = 0
       THEN None ELSE burstOwner

-----------------------------------------------------------------------------
\* Grow: everything up to the call of dispatch().  The early returns (invalid
\* or cancelled call, closed lease, oversize or empty allocation) change
\* nothing, so they are the guards.
Grow(l, bytes, phase) ==
  /\ mu = Free
  /\ call[l].pc = "idle"
  /\ ~closed[l]
  /\ bytes <= (IF phase = Request THEN normal ELSE total) - owned[OwnerOf[l]]
  /\ call' = [call EXCEPT ![l] = [pc |-> "entering", bytes |-> bytes,
                                  phase |-> phase, granted |-> FALSE]]
  /\ waiters' = Append(waiters, l)
  /\ StartDispatch(l)
  /\ UNCHANGED <<used, opaque, burstOwner, leaseVars, entitled>>

\* dispatch(): the waiter at index is of the other phase, or does not fit.
DispatchPass ==
  /\ mu.phase \in Phases /\ mu.index <= Len(waiters)
  /\ LET w == waiters[mu.index] IN
       \/ /\ call[w].phase # mu.phase
          /\ mu' = [mu EXCEPT !.index = @ + 1]
       \/ /\ call[w].phase = mu.phase /\ ~Fits(w)
          /\ mu' = [mu EXCEPT !.index = @ + 1, !.pending = (mu.phase = Response)]
  /\ UNCHANGED <<poolVars, leaseVars, call, entitled>>

\* dispatch(): the waiter at index is granted and leaves the queue.
DispatchGrant ==
  /\ mu.phase \in Phases /\ mu.index <= Len(waiters)
  /\ LET w == waiters[mu.index]
         o == OwnerOf[w]
         n == call[w].bytes IN
       /\ call[w].phase = mu.phase /\ Fits(w)
       /\ burstOwner' = IF used + n > normal THEN o ELSE burstOwner
       /\ used' = used + n
       /\ opaque' = opaque + OpaqueShare(w, n)
       /\ held' = [held EXCEPT ![w] = @ + n]
       /\ owned' = [owned EXCEPT ![o] = @ + n]
       /\ call' = [call EXCEPT ![w].granted = TRUE]
       /\ waiters' = RemoveAt(waiters, mu.index)
  /\ UNCHANGED <<closed, isOpaque, mu, entitled>>

\* dispatch(): requests are considered only when no response is pending.
DispatchRequests ==
  /\ mu.phase = Response /\ mu.index > Len(waiters) /\ ~mu.pending
  /\ mu' = [mu EXCEPT !.phase = Request, !.index = 1]
  /\ UNCHANGED <<poolVars, leaseVars, call, entitled>>

DispatchOver ==
  /\ mu.phase \in Phases /\ mu.index > Len(waiters)
  /\ mu.phase = Response => mu.pending

\* Shrink, Close and the late path of Grow unlock after dispatch().
DispatchReturn ==
  /\ DispatchOver /\ mu.grower = None
  /\ mu' = Free
  /\ UNCHANGED <<poolVars, leaseVars, call, entitled>>

\* Grow after dispatch(): return if granted; a request, or a response beyond
\* MaxWaiters, gives up at once; any other response unlocks and waits.
GrowDecide ==
  /\ DispatchOver /\ mu.grower # None
  /\ LET l == mu.grower IN
       \/ /\ call[l].granted
          /\ entitled' = [entitled EXCEPT ![l] = held[l]]
          /\ call' = [call EXCEPT ![l] = Idle]
          /\ UNCHANGED waiters
       \/ /\ ~call[l].granted
          /\ call[l].phase = Request \/ Len(waiters) > MaxWaiters
          /\ waiters' = RemoveWaiter(l)
          /\ call' = [call EXCEPT ![l] = Idle]
          /\ UNCHANGED entitled
       \/ /\ ~call[l].granted
          /\ call[l].phase = Response /\ Len(waiters) <= MaxWaiters
          /\ call' = [call EXCEPT ![l].pc = "waiting"]
          /\ UNCHANGED <<waiters, entitled>>
  /\ mu' = Free
  /\ UNCHANGED <<used, opaque, burstOwner, leaseVars>>

\* The waiting call wakes on ready with its allocation granted.
GrowResume(l) ==
  /\ mu = Free /\ call[l].pc = "waiting"
  /\ call[l].granted /\ ~closed[l]
  /\ entitled' = [entitled EXCEPT ![l] = held[l]]
  /\ call' = [call EXCEPT ![l] = Idle]
  /\ UNCHANGED <<poolVars, leaseVars, mu>>

\* The waiting call finds its lease closed, whatever woke it.  (ready is only
\* closed by a grant or by Close, so a call woken ungranted is one of these.)
GrowClosed(l) ==
  /\ mu = Free /\ call[l].pc = "waiting"
  /\ closed[l]
  /\ call' = [call EXCEPT ![l] = Idle]
  /\ UNCHANGED <<poolVars, leaseVars, mu, entitled>>

\* The wait timed out or was cancelled, perhaps after the grant.
GrowExpireKeepsGrant(l) ==
  /\ mu = Free /\ call[l].pc = "waiting"
  /\ ~closed[l]
  /\ waiters' = RemoveWaiter(l)
  /\ call' = [call EXCEPT ![l] = Idle]
  /\ StartDispatch(None)
  /\ UNCHANGED <<used, opaque, burstOwner, leaseVars, entitled>>
GrowExpire(l) ==
  /\ mu = Free /\ call[l].pc = "waiting"
  /\ ~closed[l]
  /\ \/ /\ call[l].granted
        /\ ReleaseLocked(l, Releasable(l, call[l].bytes))
        /\ UNCHANGED waiters
     \/ /\ ~call[l].granted
        /\ waiters' = RemoveWaiter(l)
        /\ UNCHANGED <<held, owned, used, opaque, burstOwner>>
  /\ call' = [call EXCEPT ![l] = Idle]
  /\ StartDispatch(None)
  /\ UNCHANGED <<closed, isOpaque, entitled>>

Shrink(l, bytes) ==
  /\ mu = Free
  /\ ~closed[l]
  /\ ReleaseLocked(l, Releasable(l, bytes))
  /\ entitled' = [entitled EXCEPT ![l] = Greater(0, @ - bytes)]
  /\ StartDispatch(None)
  /\ UNCHANGED <<waiters, closed, isOpaque, call>>

Close(l) ==
  /\ mu = Free
  /\ ~closed[l]
  /\ closed' = [closed EXCEPT ![l] = TRUE]
  /\ ReleaseLocked(l, held[l])
  /\ waiters' = RemoveWaiter(l)
  /\ entitled' = [entitled EXCEPT ![l] = 0]
  /\ StartDispatch(None)
  /\ UNCHANGED <<isOpaque, call>>

MarkOpaque(l) ==
  /\ mu = Free
  /\ l \in DriverLeases /\ ~isOpaque[l]
  /\ isOpaque' = [isOpaque EXCEPT ![l] = TRUE]
  /\ opaque' = opaque + held[l]
  /\ UNCHANGED <<used, burstOwner, waiters, owned, held, closed, call, mu, entitled>>

\* NewLease: the identity of a closed lease that no call uses any more stands
\* for the next lease its owner creates.
NewLease(l) ==
  /\ mu = Free
  /\ closed[l] /\ call[l].pc = "idle"
  /\ closed' = [closed EXCEPT ![l] = FALSE]
  /\ isOpaque' = [isOpaque EXCEPT ![l] = FALSE]
  /\ UNCHANGED <<poolVars, owned, held, call, mu, entitled>>

Dispatch ==
  \/ DispatchPass \/ DispatchGrant \/ DispatchRequests
  \/ DispatchReturn \/ GrowDecide

Next ==
  \/ Dispatch
  \/ \E l \in Leases :
       \/ \E n \in Sizes, phase \in Phases : Grow(l, n, phase)
       \/ \E n \in Sizes : Shrink(l, n)
       \/ GrowResume(l) \/ GrowClosed(l) \/ GrowExpire(l)
       \/ Close(l) \/ MarkOpaque(l) \/ NewLease(l)

Spec == Init /\ [][Next]_vars

-----------------------------------------------------------------------------
LeasesOf(o) == {l \in Leases : OwnerOf[l] = o}
PendingGrant(l) == IF call[l].granted THEN call[l].bytes ELSE 0

\* Type invariant: the pool's counters, the leases, their Grow calls and the
\* mutex.  A lease never holds a negative number of bytes.
TypeOK ==
  /\ used \in Int /\ opaque \in Int
  /\ burstOwner \in Owners \cup {None}
  /\ waiters \in Seq(Leases)
  /\ owned \in [Owners -> Int]
  /\ held \in [Leases -> Nat]
  /\ closed \in [Leases -> BOOLEAN]
  /\ isOpaque \in [Leases -> BOOLEAN]
  /\ call \in [Leases -> [pc : {"idle", "entering", "waiting"}, bytes : Nat,
                          phase : Phases, granted : BOOLEAN]]
  /\ mu \in [phase : Phases, index : Nat \ {0}, pending : BOOLEAN,
             grower : Leases \cup {None}] \cup {Free}
  /\ entitled \in [Leases -> Nat]

(***************************************************************************)
(* The pool's three counters agree with the leases at every moment: used   *)
(* is the sum over all leases, Owner.bytes over the owner's leases, opaque *)
(* over the leases marked opaque.  A Shrink or Close between the grant and *)
(* the wake-up of a Grow, or a MarkOpaque at any time, must not skew them. *)
(***************************************************************************)
Ledger ==
  /\ used = SumFunction(held)
  /\ \A o \in Owners : owned[o] = SumFunctionOnSet(held, LeasesOf(o))
  /\ opaque = SumFunctionOnSet(held, {l \in Leases : isOpaque[l]})

(***************************************************************************)
(* "Only one owner may borrow the completion reserve": the pool never      *)
(* lends more than it has; it is past the normal limit exactly while some  *)
(* owner holds the reserve; and without that owner's bytes everybody else  *)
(* fits below the normal limit.                                            *)
(***************************************************************************)
ReserveExclusive ==
  /\ used <= total
  /\ burstOwner = None <=> used <= normal
  /\ burstOwner # None => used - owned[burstOwner] <= normal

(***************************************************************************)
(* The waiter queue stays within MaxWaiters, holds only responses, each    *)
(* the ungranted call of an open lease that is waiting, and every such     *)
(* call is in it once: no waiter is forgotten, none is left behind by a    *)
(* timeout or a Close.                                                     *)
(***************************************************************************)
QueueExact ==
  /\ Len(waiters) <= MaxWaiters
  /\ IsInjective(waiters)
  /\ Range(waiters) =
       {l \in Leases : /\ call[l].pc = "waiting" /\ call[l].phase = Response
                       /\ ~call[l].granted /\ ~closed[l]}

(***************************************************************************)
(* No lost wake-up: whenever the mutex is free, the queue is exact and no  *)
(* queued waiter fits, so every release and every grant has been passed    *)
(* on, although dispatch() scans the queue once and never returns to a     *)
(* waiter it passed.                                                       *)
(***************************************************************************)
NoLostWakeup ==
  mu = Free => QueueExact /\ \A i \in DOMAIN waiters : ~Fits(waiters[i])

(***************************************************************************)
(* A Grow that reports failure leaves nothing behind: apart from a grant   *)
(* its caller has yet to learn of, a lease never holds more than when its  *)
(* last successful Grow returned, less what was shrunk since.  A closed    *)
(* lease holds nothing, also when the close raced a grant.                 *)
(***************************************************************************)
NoLeak ==
  \A l \in Leases :
    /\ held[l] <= entitled[l] + PendingGrant(l)
    /\ closed[l] => held[l] = 0

(***************************************************************************)
(* Response growth has priority: a request is granted only when no         *)
(* response is queued.                                                     *)
(***************************************************************************)
ResponsesFirst ==
  [][\A l \in Leases :
       (call[l].phase = Request /\ ~call[l].granted /\ call'[l].granted)
         => \A i \in DOMAIN waiters : call[waiters[i]].phase = Request]_vars

=============================================================================
