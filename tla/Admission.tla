----------------------------- MODULE Admission -----------------------------
(***************************************************************************)
(* The execution admission pool of internal/service/admission.go, with the *)
(* bounded queue of direct RPCs (admission_queue.go) and the reservation a *)
(* write may shrink and grow while it runs (reservation.go).               *)
(*                                                                         *)
(* A request is one execution: a "batch" waits as long as its context      *)
(* lives, a "direct" RPC and a "scan" wait for a bounded time in bounded   *)
(* queues, and a "plain" one (a mutation of the worker) never waits.       *)
(* Every critical section under admissionMu is one action; a waiter sleeps *)
(* in select, has received its token, or is on its way out of the queue    *)
(* between two critical sections.  A request that has finished may be sent *)
(* again by its client.  These limits apply where the server was not given *)
(* the process pool of CapacityPool (admitMemory); the application always  *)
(* gives it.                                                               *)
(***************************************************************************)
EXTENDS Integers, Sequences, FiniteSets, SequencesExt

CONSTANTS
  Requests,
  Kind,                 \* [Requests -> {"batch", "direct", "scan", "plain"}]
  Bytes, Input,         \* encodedBytes and inputBytes of a request
  Resizable,            \* requests with a reservation
  MaxRequests, MaxBytes, MaxScanRequests, MaxScanBytes,
  MaxQueuedRequests, MaxQueuedBytes

AdmissionAssumption ==
  /\ Kind \in [Requests -> {"batch", "direct", "scan", "plain"}]
  /\ Bytes \in [Requests -> Nat] /\ Input \in [Requests -> Nat]
  /\ Resizable \subseteq {r \in Requests : Kind[r] \in {"batch", "direct"}}
  /\ {MaxRequests, MaxBytes, MaxScanRequests, MaxScanBytes} \subseteq Nat \ {0}
  /\ MaxScanRequests <= MaxRequests /\ MaxScanBytes <= MaxBytes
  /\ {MaxQueuedRequests, MaxQueuedBytes} \subseteq Nat

VARIABLES
  at,         \* [Requests -> where the RPC is]
  pool,       \* in-flight requests and bytes, and the share of scans
  queued,     \* requests and input bytes of queued direct RPCs
  waiters,    \* admissionWaiters
  tokens,     \* waiters whose ready channel holds a token
  reserved    \* [Requests -> bytes of the reservation of a running request]

vars == <<at, pool, queued, waiters, tokens, reserved>>

Scan(r) == Kind[r] = "scan"
Direct(r) == Kind[r] = "direct"
Running == {r \in Requests : at[r] = "running"}
Waiting == {r \in Requests : at[r] \in {"select", "woken", "leaving"}}

Init ==
  /\ at = [r \in Requests |-> "idle"]
  /\ pool = [requests |-> 0, bytes |-> 0, scans |-> 0, scanBytes |-> 0]
  /\ queued = [requests |-> 0, bytes |-> 0]
  /\ waiters = <<>> /\ tokens = {}
  /\ reserved = [r \in Requests |-> 0]

-----------------------------------------------------------------------------
\* Decisions under the lock, for the counters p.

SlotsFull(p, r) ==
  \/ p.requests >= MaxRequests
  \/ Scan(r) /\ (p.scans >= MaxScanRequests \/ Bytes[r] > MaxScanBytes - p.scanBytes)
Fits(p, r) == Bytes[r] <= MaxBytes - p.bytes
CanFit(r) == Bytes[r] <= MaxBytes /\ (Scan(r) => Bytes[r] <= MaxScanBytes)

\* The waiters that entered before r, all of them for a request not queued.
Earlier(r) == {waiters[i] : i \in {j \in DOMAIN waiters : \A k \in 1..j : waiters[k] # r}}
Full(r) ==
  \/ SlotsFull(pool, r) \/ ~Fits(pool, r)
  \/ \E w \in Earlier(r) : ~SlotsFull(pool, w)

Sum(f, S) == SumFunctionOnSet(f, S)
DirectQueueFull(r) ==
  queued.requests >= MaxQueuedRequests \/ Input[r] > MaxQueuedBytes - queued.bytes
ScanQueueFull(r) ==
  LET scans == {w \in ToSet(waiters) : Scan(w)} IN
  Cardinality(scans) >= MaxScanRequests \/ Bytes[r] > MaxScanBytes - Sum(Bytes, scans)
MayWait(r) ==
  /\ Kind[r] # "plain" /\ CanFit(r)
  /\ ~(Direct(r) /\ DirectQueueFull(r)) /\ ~(Scan(r) /\ ScanQueueFull(r))

\* wakeAdmissionWaiter: only the oldest waiter with a free slot is considered.
Wake(p, ws, ts) ==
  LET eligible == SelectSeq(ws, LAMBDA w : ~SlotsFull(p, w)) IN
  IF eligible # <<>> /\ Fits(p, Head(eligible)) THEN ts \cup {Head(eligible)} ELSE ts

Charge(p, r, n, bytes) ==
  [p EXCEPT !.requests = @ + n, !.bytes = @ + bytes,
            !.scans = IF Scan(r) THEN @ + n ELSE @,
            !.scanBytes = IF Scan(r) THEN @ + n * Bytes[r] ELSE @]
AdjustDirectQueue(r, n) ==
  queued' = IF Direct(r) THEN [requests |-> queued.requests + n, bytes |-> queued.bytes + n * Input[r]]
            ELSE queued

\* removeAdmissionWaiter: nothing for a request that is not queued.
RemoveWaiter(r, p) ==
  IF r \in ToSet(waiters)
  THEN /\ waiters' = Remove(waiters, r)
       /\ tokens' = Wake(p, Remove(waiters, r), tokens \ {r})
       /\ AdjustDirectQueue(r, -1)
  ELSE UNCHANGED <<waiters, tokens, queued>>

-----------------------------------------------------------------------------
\* admitRequest, and the release function it returns.

Reject(r) ==
  /\ at[r] = "idle" /\ Full(r) /\ ~MayWait(r)
  /\ at' = [at EXCEPT ![r] = "rejected"]
  /\ UNCHANGED <<pool, queued, waiters, tokens, reserved>>

Queue(r) ==
  /\ at[r] = "idle" /\ Full(r) /\ MayWait(r)
  /\ at' = [at EXCEPT ![r] = "select"]
  /\ waiters' = Append(waiters, r)
  /\ AdjustDirectQueue(r, 1)
  /\ UNCHANGED <<pool, tokens, reserved>>

Admit(r) ==
  /\ at[r] \in {"idle", "woken"} /\ ~Full(r)
  /\ at' = [at EXCEPT ![r] = "running"]
  /\ pool' = Charge(pool, r, 1, Bytes[r])
  /\ reserved' = [reserved EXCEPT ![r] = Bytes[r]]
  /\ RemoveWaiter(r, pool')

TakeToken(r) ==
  /\ at[r] = "select" /\ r \in tokens
  /\ tokens' = tokens \ {r}
  /\ at' = [at EXCEPT ![r] = "woken"]
  /\ UNCHANGED <<pool, queued, waiters, reserved>>

WaitAgain(r) ==
  /\ at[r] = "woken" /\ Full(r)
  /\ at' = [at EXCEPT ![r] = "select"]
  /\ UNCHANGED <<pool, queued, waiters, tokens, reserved>>

\* The wait times out or the caller is gone, asleep or with a token just taken;
\* the deferred function removes the waiter in a critical section of its own.
GiveUp(r) ==
  /\ at[r] \in {"select", "woken"}
  /\ at' = [at EXCEPT ![r] = "leaving"]
  /\ UNCHANGED <<pool, queued, waiters, tokens, reserved>>
Leave(r) ==
  /\ at[r] = "leaving"
  /\ at' = [at EXCEPT ![r] = "rejected"]
  /\ RemoveWaiter(r, pool)
  /\ UNCHANGED <<pool, reserved>>

ReleaseEncoded(r) ==
  /\ at[r] = "running"
  /\ at' = [at EXCEPT ![r] = "idle"]
  /\ pool' = Charge(pool, r, -1, -Bytes[r])
  /\ reserved' = [reserved EXCEPT ![r] = 0]
  /\ tokens' = Wake(pool', waiters, tokens)
  /\ UNCHANGED <<queued, waiters>>
Release(r) ==
  /\ at[r] = "running"
  /\ at' = [at EXCEPT ![r] = "idle"]
  /\ pool' = Charge(pool, r, -1, -reserved[r])
  /\ reserved' = [reserved EXCEPT ![r] = 0]
  /\ tokens' = Wake(pool', waiters, tokens)
  /\ UNCHANGED <<queued, waiters>>

\* The client sends a rejected request again.
Retry(r) ==
  /\ at[r] = "rejected"
  /\ at' = [at EXCEPT ![r] = "idle"]
  /\ UNCHANGED <<pool, queued, waiters, tokens, reserved>>

\* resize: growth is refused, not queued, while a waiter could run.
Resize(r, bytes) ==
  /\ at[r] = "running" /\ r \in Resizable /\ bytes # reserved[r]
  /\ bytes > reserved[r] =>
       /\ bytes - reserved[r] <= MaxBytes - pool.bytes
       /\ \A w \in ToSet(waiters) : SlotsFull(pool, w)
  /\ reserved' = [reserved EXCEPT ![r] = bytes]
  /\ pool' = [pool EXCEPT !.bytes = @ + bytes - reserved[r]]
  /\ tokens' = IF bytes < reserved[r] THEN Wake(pool', waiters, tokens) ELSE tokens
  /\ UNCHANGED <<at, queued, waiters>>

Next ==
  \E r \in Requests :
    \/ Reject(r) \/ Queue(r) \/ Admit(r)
    \/ TakeToken(r) \/ WaitAgain(r) \/ GiveUp(r) \/ Leave(r)
    \/ Release(r) \/ Retry(r)
    \/ \E bytes \in 0..Bytes[r] : Resize(r, bytes)

Spec == Init /\ [][Next]_vars

-----------------------------------------------------------------------------
TypeOK ==
  /\ at \in [Requests -> {"idle", "select", "woken", "leaving", "running", "rejected"}]
  /\ pool \in [requests : Nat, bytes : Nat, scans : Nat, scanBytes : Nat]
  /\ queued \in [requests : Nat, bytes : Nat]
  /\ waiters \in Seq(Requests) /\ tokens \subseteq ToSet(waiters)
  /\ reserved \in [Requests -> Nat]

\* The counters of admitRequest, release, resize and adjustDirectQueue are those
\* of the requests that run and wait, whatever shrank, timed out or was refused.
Accounting ==
  LET scans == {r \in Running : Scan(r)}
      direct == {r \in Waiting : Direct(r)} IN
  /\ pool.requests = Cardinality(Running) /\ pool.bytes = Sum(reserved, Running)
  /\ pool.scans = Cardinality(scans) /\ pool.scanBytes = Sum(Bytes, scans)
  /\ queued.requests = Cardinality(direct) /\ queued.bytes = Sum(Input, direct)
  /\ ToSet(waiters) = Waiting /\ Len(waiters) = Cardinality(Waiting)

\* admitRequest, resize and the two wait queues keep every configured limit.
WithinLimits ==
  /\ pool.requests <= MaxRequests /\ pool.bytes <= MaxBytes
  /\ pool.scans <= MaxScanRequests /\ pool.scanBytes <= MaxScanBytes
  /\ queued.requests <= MaxQueuedRequests /\ queued.bytes <= MaxQueuedBytes
  /\ LET scans == {r \in Waiting : Scan(r)} IN
       Cardinality(scans) <= MaxScanRequests /\ Sum(Bytes, scans) <= MaxScanBytes

\* wakeAdmissionWaiter wakes one waiter per change: whenever the oldest waiter
\* with a free slot fits, it holds a token, has just taken one, or is leaving and
\* will pass the capacity on.  Nobody sleeps beside capacity that is theirs.
NoLostWakeup ==
  LET eligible == SelectSeq(waiters, LAMBDA w : ~SlotsFull(pool, w)) IN
  eligible # <<>> /\ Fits(pool, Head(eligible)) =>
    Head(eligible) \in tokens \/ at[Head(eligible)] # "select"

=============================================================================
