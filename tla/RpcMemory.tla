----------------------------- MODULE RpcMemory -----------------------------
(***************************************************************************)
(* Who owns the memory of an RPC: the scopes of internal/capacity/scope.go *)
(* as the gRPC layer (protocol/memory.go, grpc_codec.go), the batcher and  *)
(* the execution of a batch (admitMemory, requestBudgets) use them.        *)
(*                                                                         *)
(* A scope counts references and closes its leases with the last one.  An  *)
(* RPC has up to three: gRPC holds one until the RPC ends, the batcher one *)
(* while a batch may read the request, and the encoded reply one until the *)
(* transport has freed its buffer.  A batch is a scope of its own, and     *)
(* charges documents to leases its owner creates inside the callers'       *)
(* scopes.  Lease.Grow is CapacityPool's: here it succeeds or is refused,  *)
(* and it always fails on a closed lease.                                  *)
(***************************************************************************)
EXTENDS Integers, FiniteSets, FiniteSetsExt, Functions

CONSTANTS
  Rpcs,
  Batch,              \* the scope of the batch execution
  InputBytes,         \* what the interceptor admits for the request
  CompletionBytes,    \* envelope admitted before any work
  DocumentBytes,      \* [Rpcs -> bytes of the document the RPC returns]
  Overhead            \* the slack added to the size of a response

MemoryAssumption ==
  /\ Batch \notin Rpcs
  /\ {InputBytes, CompletionBytes, Overhead} \subseteq Nat \ {0}
  /\ DocumentBytes \in [Rpcs -> Nat \ {0}]

Scopes == Rpcs \cup {Batch}
\* input, output, and for a caller the lease the batch's owner adds to its scope.
Leases == Scopes \X {"input", "output", "shared"}

VARIABLES
  at,         \* [Rpcs -> where the RPC's own goroutine is]
  job,        \* [Rpcs -> what the batch does with the call]
  batch,      \* where the batch execution is
  refs,       \* [Scopes -> Scope.refs]
  lease,      \* [Leases -> "absent", "open" or "closed"]
  bytes,      \* [Leases -> bytes held]
  need,       \* [Rpcs -> growth computed by EnsureOutput, not yet acquired]
  document,   \* the RPCs whose result carries a document
  buffers     \* the RPCs whose encoded reply is still owned by the transport

vars == <<at, job, batch, refs, lease, bytes, need, document, buffers>>

Init ==
  /\ at = [r \in Rpcs |-> "new"] /\ job = [r \in Rpcs |-> "none"]
  /\ batch = "idle"
  /\ refs = [s \in Scopes |-> 0]
  /\ lease = [l \in Leases |-> "absent"] /\ bytes = [l \in Leases |-> 0]
  /\ need = [r \in Rpcs |-> 0] /\ document = {} /\ buffers = {}

-----------------------------------------------------------------------------
\* Scope operations.

\* NewScope: one reference, and the leases input and output.
NewScope(s) ==
  /\ refs' = [refs EXCEPT ![s] = 1]
  /\ lease' = [l \in Leases |-> IF l[1] = s /\ l[2] # "shared" THEN "open" ELSE lease[l]]

RetainedBy(s) == [refs EXCEPT ![s] = IF @ = 0 THEN 0 ELSE @ + 1]

\* Release: the last reference closes every lease the scope has registered.
Owned(s) == {l \in Leases : l[1] = s /\ lease[l] # "absent"}
CloseAll(S) ==
  /\ lease' = [l \in Leases |-> IF l \in S THEN "closed" ELSE lease[l]]
  /\ bytes' = [l \in Leases |-> IF l \in S THEN 0 ELSE bytes[l]]
ReleaseScopes(S) ==
  LET last == {s \in S : refs[s] = 1} IN
  /\ refs' = [s \in Scopes |-> IF s \in S /\ refs[s] > 0 THEN refs[s] - 1 ELSE refs[s]]
  /\ CloseAll(UNION {Owned(s) : s \in last})

Grow(l, n) == lease[l] = "open" /\ bytes' = [bytes EXCEPT ![l] = @ + n]

\* The bytes EnsureOutput counts: the own output lease and those of producers.
Used(r) == bytes[<<r, "output">>] + bytes[<<r, "shared">>]
\* SizeVT of the response: an error envelope, or the document.
ResponseSize(r) == IF r \in document THEN DocumentBytes[r] ELSE 1

-----------------------------------------------------------------------------
\* The gRPC goroutine of an RPC.

TagRPC(r) ==
  /\ at[r] = "new"
  /\ at' = [at EXCEPT ![r] = "tagged"]
  /\ NewScope(r)
  /\ UNCHANGED <<job, batch, bytes, need, document, buffers>>

\* MemoryInterceptor: input first, then the completion envelope, twice its size
\* for the encoded copy.
AdmitInput(r) ==
  /\ at[r] = "tagged" /\ Grow(<<r, "input">>, InputBytes)
  /\ at' = [at EXCEPT ![r] = "admitted"]
  /\ UNCHANGED <<job, batch, refs, lease, need, document, buffers>>
AdmitCompletion(r) ==
  /\ at[r] = "admitted" /\ Grow(<<r, "output">>, 2 * CompletionBytes)
  /\ at' = [at EXCEPT ![r] = "handler"]
  /\ UNCHANGED <<job, batch, refs, lease, need, document, buffers>>

\* Submit: the batcher retains the scope before it hands the call over.
Submit(r) ==
  /\ at[r] = "handler"
  /\ at' = [at EXCEPT ![r] = "submitted"] /\ job' = [job EXCEPT ![r] = "queued"]
  /\ refs' = RetainedBy(r)
  /\ UNCHANGED <<batch, lease, bytes, need, document, buffers>>

\* Admission refused, the call answered with an error, growth refused, or the
\* caller's context ends while the batch goes on.
Fail(r) ==
  /\ at[r] \in {"tagged", "admitted", "handler", "submitted", "result", "ensure", "encode"}
  /\ at' = [at EXCEPT ![r] = "failed"]
  /\ need' = [need EXCEPT ![r] = 0]
  /\ UNCHANGED <<job, batch, refs, lease, bytes, document, buffers>>

\* EnsureOutput, in the interceptor and again in marshalManaged: the bytes are
\* read under the scope's mutex, the difference is acquired after it.
Missing(r, size) == Max({0, 2 * size - Used(r)})
EnsureRead(r) ==
  /\ \/ at[r] = "result" /\ at' = [at EXCEPT ![r] = "ensure"]
     \/ at[r] = "wrapped" /\ at' = [at EXCEPT ![r] = "encode"]
  /\ need' = [need EXCEPT ![r] = Missing(r, ResponseSize(r) + Overhead)]
  /\ UNCHANGED <<job, batch, refs, lease, bytes, document, buffers>>
EnsureGrow(r) ==
  /\ at[r] = "ensure" /\ Grow(<<r, "output">>, need[r])
  /\ need' = [need EXCEPT ![r] = 0]
  /\ at' = [at EXCEPT ![r] = "wrapped"]
  /\ UNCHANGED <<job, batch, refs, lease, document, buffers>>

\* marshalManaged: the buffer keeps a reference of its own; an encoding error
\* gives it back at once.
EncodeUnowned(r) ==
  /\ at[r] = "encode" /\ Grow(<<r, "output">>, need[r])
  /\ need' = [need EXCEPT ![r] = 0]
  /\ at' = [at EXCEPT ![r] = "sent"] /\ buffers' = buffers \cup {r}
  /\ UNCHANGED <<job, batch, refs, lease, document>>
Encode(r) ==
  /\ at[r] = "encode" /\ Grow(<<r, "output">>, need[r])
  /\ need' = [need EXCEPT ![r] = 0]
  /\ \/ at' = [at EXCEPT ![r] = "sent"] /\ buffers' = buffers \cup {r} /\ refs' = RetainedBy(r)
     \/ at' = [at EXCEPT ![r] = "failed"] /\ UNCHANGED <<buffers, refs>>
  /\ UNCHANGED <<job, batch, lease, document>>

\* The transport frees the last reference of the buffer, before or after End.
FreeBuffer(r) ==
  /\ r \in buffers
  /\ buffers' = buffers \ {r}
  /\ ReleaseScopes({r})
  /\ UNCHANGED <<at, job, batch, need, document>>
HandleEnd(r) ==
  /\ at[r] \in {"failed", "sent"}
  /\ at' = [at EXCEPT ![r] = "ended"]
  /\ ReleaseScopes({r})
  /\ UNCHANGED <<job, batch, need, document, buffers>>

-----------------------------------------------------------------------------
\* The batch goroutine.

\* executeBatch and admitMemory: a new scope, of which bookkeeping is admitted.
BatchBegin ==
  /\ batch = "idle"
  /\ \E calls \in SUBSET {r \in Rpcs : job[r] = "queued"} :
       calls # {} /\ job' = [r \in Rpcs |-> IF r \in calls THEN "running" ELSE job[r]]
  /\ batch' = "admit"
  /\ NewScope(Batch)
  /\ UNCHANGED <<at, bytes, need, document, buffers>>
BatchAdmit ==
  /\ batch = "admit"
  /\ \/ Grow(<<Batch, "input">>, 1) /\ batch' = "running" /\ UNCHANGED <<refs, lease, job>>
     \/ /\ ReleaseScopes({Batch}) /\ batch' = "finishing"
        /\ job' = [r \in Rpcs |-> IF job[r] = "running" THEN "final" ELSE job[r]]
  /\ UNCHANGED <<at, need, document, buffers>>

\* OutputFrom: the lease of this producer is found or created under the mutex of
\* the caller's scope, closed if the scope is gone; it grows after the mutex.
OutputLease(r) ==
  /\ batch = "running" /\ job[r] = "running"
  /\ job' = [job EXCEPT ![r] = "output"]
  /\ lease' = [lease EXCEPT ![<<r, "shared">>] =
                 IF @ # "absent" THEN @ ELSE IF refs[r] = 0 THEN "closed" ELSE "open"]
  /\ UNCHANGED <<at, batch, refs, bytes, need, document, buffers>>
OutputGrow(r) ==
  /\ job[r] = "output"
  /\ \/ /\ Grow(<<r, "shared">>, 2 * DocumentBytes[r])
        /\ document' = document \cup {r} /\ job' = [job EXCEPT ![r] = "held"]
     \/ job' = [job EXCEPT ![r] = "final"] /\ UNCHANGED <<bytes, document>>
  /\ UNCHANGED <<at, batch, refs, lease, need, buffers>>

\* ReleaseOutputFrom: the commit failed after its document was charged.
DropDocument(r) ==
  /\ job[r] = "held"
  /\ job' = [job EXCEPT ![r] = "final"]
  /\ document' = document \ {r}
  /\ bytes' = [bytes EXCEPT ![<<r, "shared">>] = Max({0, @ - 2 * DocumentBytes[r]})]
  /\ UNCHANGED <<at, batch, refs, lease, need, buffers>>

\* completeCall of an executing call: only the result is handed over.
Deliver(r) ==
  /\ job[r] \in {"held", "final"}
  /\ job' = [job EXCEPT ![r] = "delivered"]
  /\ at' = [at EXCEPT ![r] = IF @ = "submitted" THEN "result" ELSE @]
  /\ UNCHANGED <<batch, refs, lease, bytes, need, document, buffers>>

InBatch == {r \in Rpcs : job[r] \in {"running", "output", "held", "final", "delivered"}}
\* The batch's own scope is released, then the references of its calls.
BatchRelease ==
  /\ batch = "running" /\ \A r \in InBatch : job[r] = "delivered"
  /\ batch' = "finishing"
  /\ ReleaseScopes({Batch})
  /\ UNCHANGED <<at, job, need, document, buffers>>
BatchEnd ==
  /\ batch = "finishing" /\ \A r \in InBatch : job[r] = "delivered"
  /\ ReleaseScopes(InBatch)
  /\ job' = [r \in Rpcs |-> IF r \in InBatch THEN "done" ELSE job[r]]
  /\ batch' = "idle"
  /\ UNCHANGED <<at, need, document, buffers>>

Next ==
  \/ \E r \in Rpcs :
       \/ TagRPC(r) \/ AdmitInput(r) \/ AdmitCompletion(r) \/ Submit(r) \/ Fail(r)
       \/ EnsureRead(r) \/ EnsureGrow(r) \/ Encode(r) \/ FreeBuffer(r) \/ HandleEnd(r)
       \/ OutputLease(r) \/ OutputGrow(r) \/ DropDocument(r) \/ Deliver(r)
  \/ BatchBegin \/ BatchAdmit \/ BatchRelease \/ BatchEnd

Spec == Init /\ [][Next]_vars

-----------------------------------------------------------------------------
TypeOK ==
  /\ refs \in [Scopes -> 0..3]
  /\ lease \in [Leases -> {"absent", "open", "closed"}]
  /\ bytes \in [Leases -> Nat] /\ need \in [Rpcs -> Nat]
  /\ document \subseteq Rpcs /\ buffers \subseteq Rpcs

\* While the RPC's handler or a batch can still read the request, the bytes the
\* interceptor admitted for it stay charged, also after a cancellation.
InputCharged ==
  \A r \in Rpcs :
    at[r] \in {"admitted", "handler", "submitted", "result"} \/ job[r] = "queued" \/ r \in InBatch =>
      bytes[<<r, "input">>] = InputBytes

\* A document the batch holds for a caller, the response made of it and the
\* encoded copy in the transport are covered by the caller's output leases, for
\* both copies, as long as any of them exists.
OutputCharged ==
  \A r \in Rpcs :
    /\ r \in document /\ (at[r] = "result" \/ job[r] \in {"held", "delivered"}) =>
         Used(r) >= 2 * DocumentBytes[r]
    /\ at[r] \in {"wrapped", "encode"} \/ r \in buffers => Used(r) >= 2 * (ResponseSize(r) + Overhead)

\* A scope is referenced exactly by those who still use it, and once nobody does,
\* it holds no bytes and no lease that could still grow, whoever created it.
References ==
  /\ \A r \in Rpcs : refs[r] =
       Cardinality({h \in {"rpc", "batch", "buffer"} :
         \/ h = "rpc" /\ at[r] \notin {"new", "ended"}
         \/ h = "batch" /\ (job[r] = "queued" \/ r \in InBatch)
         \/ h = "buffer" /\ r \in buffers})
  /\ \A s \in Scopes : refs[s] = 0 => \A l \in Owned(s) : lease[l] = "closed" /\ bytes[l] = 0

\* All memory comes back: every RPC, failed, cancelled or answered, ends with
\* nothing charged (HandleRPC, ownedBufferPool.Put, executeBatch).
AllReturned == \A l \in Leases : bytes[l] = 0 /\ lease[l] # "open"

=============================================================================
