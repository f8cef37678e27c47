---------------------------- MODULE SearchWrites ----------------------------
(***************************************************************************)
(* Write and Delete of the Elasticsearch/OpenSearch storage (write.go,     *)
(* bulk.go, delete.go).  The waves of a request are sent as one bulk each. *)
(* A replacement that needs an existing record first reads its revision    *)
(* and compares it in the bulk; when that conflicts it reads again, up to  *)
(* MaxAttempts times.  A bulk is never sent twice.                         *)
(*                                                                         *)
(* The cluster is external: it runs the items of a bulk one at a time and  *)
(* may run the rest of a bulk after its reply was lost.  A document is its *)
(* sequence number; numbers are never used again.                          *)
(***************************************************************************)
EXTENDS Integers, Sequences, FiniteSets, SequencesExt

CONSTANTS
  Operations,       \* [1..n -> [req, record, kind, rev]], in request order
  Initial,          \* possible initial documents: [records -> 0 or a sequence number]
  MaxAttempts,      \* maxExistingWriteAttempts
  MaxDocs,          \* documents of metadata that fit into a response
  MaxFaults         \* bound: lost requests and refused items

Ops == DOMAIN Operations
Requests == {Operations[o].req : o \in Ops}
Kind(o) == Operations[o].kind
Record(o) == Operations[o].record
OpsOf(r) == {o \in Ops : Operations[o].req = r}
Absent == 0

SearchWritesAssumption ==
  /\ MaxAttempts \in Nat \ {0} /\ MaxDocs \in Nat \ {0}
  /\ \A r \in Requests : \/ \A o \in OpsOf(r) : Kind(o) \in {"delete", "invalid"}
                         \/ \A o \in OpsOf(r) : Kind(o) # "delete"

VARIABLES
  doc, seq,         \* [Records -> sequence number or Absent], the last number used
  wave, attempt,    \* [Requests -> Nat]
  stage,            \* [Requests -> step]
  pending,          \* [Requests -> operations of the wave without a result]
  checks,           \* [Requests -> stack of sequences of operations to look up]
  base,             \* [Ops -> sequence number its bulk item compares, or Absent]
  bulk, errs,       \* [Requests -> items left], [Ops -> item's reply]
  result, revision, \* [Ops -> outcome], [Ops -> revision returned]
  effect, refused,  \* [Ops -> sequence numbers it wrote], operations refused by the record's state
  orphans, faults

requestVars == <<wave, attempt, stage, pending, checks>>
serverVars == <<doc, seq, effect, refused>>
vars == <<doc, seq, wave, attempt, stage, pending, checks, base, bulk, errs, result, revision,
          effect, refused, orphans, faults>>

Valid(o) == Kind(o) # "invalid"
WaveOf == [o \in Ops |-> IF Kind(o) = "delete" THEN 0 ELSE Cardinality(
  {p \in Ops : p < o /\ Valid(p) /\ Operations[p].req = Operations[o].req /\ Record(p) = Record(o)})]
Wave(r, w) == {o \in OpsOf(r) : Valid(o) /\ WaveOf[o] = w}

Init ==
  /\ doc \in Initial /\ seq = 10
  /\ wave = [r \in Requests |-> 0] /\ attempt = [r \in Requests |-> 0]
  /\ stage = [r \in Requests |-> "wave"]
  /\ pending = [r \in Requests |-> {}] /\ checks = [r \in Requests |-> <<>>]
  /\ base = [o \in Ops |-> Absent]
  /\ bulk = [r \in Requests |-> {}] /\ errs = [o \in Ops |-> "none"]
  /\ result = [o \in Ops |-> IF Valid(o) THEN "none" ELSE "invalid"]
  /\ revision = [o \in Ops |-> Absent]
  /\ effect = [o \in Ops |-> {}] /\ refused = {} /\ orphans = {}
  /\ faults = 0

Goto(r, step) == stage' = [stage EXCEPT ![r] = step]
Answer(ops, outcome) == result' = [o \in Ops |-> IF o \in ops THEN outcome ELSE result[o]]

InOrder(s) == SetToSortSeq(s, LAMBDA x, y : x < y)
Elems(s) == {s[i] : i \in DOMAIN s}

-----------------------------------------------------------------------------
StartWave(r) ==
  /\ stage[r] = "wave"
  /\ IF Wave(r, wave[r]) = {}
     THEN Goto(r, "done") /\ UNCHANGED <<pending, attempt>>
     ELSE /\ Goto(r, "attempt") /\ attempt' = [attempt EXCEPT ![r] = 0]
          /\ pending' = [pending EXCEPT ![r] = Wave(r, wave[r])]
  /\ UNCHANGED <<serverVars, wave, checks, base, bulk, errs, result, revision, orphans, faults>>

\* writeWave: the attempts are spent.
GiveUp(r) ==
  /\ stage[r] = "attempt" /\ attempt[r] = MaxAttempts /\ pending[r] # {}
  /\ Answer(pending[r], "conflict") /\ pending' = [pending EXCEPT ![r] = {}]
  /\ UNCHANGED <<serverVars, wave, attempt, stage, checks, base, bulk, errs, revision, orphans, faults>>
EndWave(r) ==
  /\ stage[r] = "attempt" /\ pending[r] = {}
  /\ Goto(r, "wave") /\ wave' = [wave EXCEPT ![r] = @ + 1]
  /\ UNCHANGED <<serverVars, attempt, pending, checks, base, bulk, errs, result, revision, orphans, faults>>

\* writeWaveAttempt: documents of this storage always have a revision; those
\* that must exist are looked up.
MustExist(s) == {o \in s : Kind(o) = "exists"}
Attempt(r) ==
  /\ stage[r] = "attempt" /\ pending[r] # {} /\ attempt[r] < MaxAttempts
  /\ \E never \in {{o \in pending[r] : Kind(o) = "unmarked"}} :
       /\ Answer(never, "precondition")
       /\ pending' = [pending EXCEPT ![r] = @ \ never]
       /\ checks' = [checks EXCEPT ![r] = IF MustExist(pending[r]) = {} THEN <<>> ELSE <<InOrder(MustExist(pending[r]))>>]
  /\ attempt' = [attempt EXCEPT ![r] = @ + 1]
  /\ Goto(r, "check")
  /\ UNCHANGED <<serverVars, wave, base, bulk, errs, revision, orphans, faults>>

\* checkExistingWrites: a lookup that does not fit is split in the middle.
Split(s) == <<SubSeq(s, 1, Len(s) \div 2), SubSeq(s, Len(s) \div 2 + 1, Len(s))>>
TooLarge(r) ==
  /\ stage[r] = "check" /\ checks[r] # <<>> /\ Len(Head(checks[r])) > MaxDocs
  /\ checks' = [checks EXCEPT ![r] = Split(Head(@)) \o Tail(@)]
  /\ UNCHANGED <<serverVars, wave, attempt, stage, pending, base, bulk, errs, result, revision, orphans, faults>>
\* prepareExistingWrite for each document of an answer.
Check(r) ==
  /\ stage[r] = "check" /\ checks[r] # <<>> /\ Len(Head(checks[r])) <= MaxDocs
  /\ checks' = [checks EXCEPT ![r] = Tail(@)]
  /\ \/ \E missing \in {{o \in Elems(Head(checks[r])) : doc[Record(o)] = Absent}} :
          /\ Answer(missing, "precondition") /\ refused' = refused \cup missing
          /\ pending' = [pending EXCEPT ![r] = @ \ missing]
          /\ base' = [o \in Ops |-> IF o \in Elems(Head(checks[r])) THEN doc[Record(o)] ELSE base[o]]
          /\ UNCHANGED faults
     \/ /\ faults < MaxFaults /\ faults' = faults + 1
        /\ \E outcome \in {"backend", "exhausted"} : Answer(Elems(Head(checks[r])), outcome)
        /\ pending' = [pending EXCEPT ![r] = @ \ Elems(Head(checks[r]))]
        /\ UNCHANGED <<base, refused>>
  /\ UNCHANGED <<doc, seq, effect, wave, attempt, stage, bulk, errs, revision, orphans>>

\* buildWriteBulk and performBulk.
Compare(r) == [o \in Ops |-> IF o \in pending[r] /\ Kind(o) = "revision" THEN Operations[o].rev ELSE base[o]]
Send(r) ==
  /\ stage[r] = "check" /\ checks[r] = <<>>
  /\ IF pending[r] = {} THEN Goto(r, "attempt") /\ UNCHANGED <<bulk, base, errs>>
     ELSE /\ Goto(r, "sent")
          /\ bulk' = [bulk EXCEPT ![r] = pending[r]]
          /\ base' = Compare(r)
          /\ errs' = [o \in Ops |-> IF o \in pending[r] THEN "none" ELSE errs[o]]
  /\ UNCHANGED <<serverVars, wave, attempt, pending, checks, result, revision, orphans, faults>>

-----------------------------------------------------------------------------
\* The cluster runs an item: index, create or delete, with if_seq_no if given.
Accepts(o) ==
  /\ Kind(o) = "create" => doc[Record(o)] = Absent
  /\ base[o] # Absent => doc[Record(o)] = base[o]
Apply(o) ==
  /\ Accepts(o)
  /\ seq' = seq + 1
  /\ doc' = [doc EXCEPT ![Record(o)] = IF Kind(o) = "delete" THEN Absent ELSE seq']
  /\ effect' = [effect EXCEPT ![o] = @ \cup {seq'}]
  /\ UNCHANGED refused
Refuse(o) == ~Accepts(o) /\ refused' = refused \cup {o} /\ UNCHANGED <<doc, seq, effect>>
Item(r, o) ==
  /\ stage[r] = "sent" /\ o \in bulk[r]
  /\ bulk' = [bulk EXCEPT ![r] = @ \ {o}]
  /\ \/ Apply(o) /\ UNCHANGED <<errs, faults>>
     \/ Refuse(o) /\ errs' = [errs EXCEPT ![o] = "conflict"] /\ UNCHANGED faults
     \/ /\ faults < MaxFaults /\ faults' = faults + 1
        /\ \E err \in {"invalid", "exhausted", "backend"} : errs' = [errs EXCEPT ![o] = err]
        /\ UNCHANGED serverVars
  /\ UNCHANGED <<requestVars, base, result, revision, orphans>>
Orphan(o) ==
  /\ o \in orphans /\ orphans' = orphans \ {o}
  /\ Apply(o) \/ Refuse(o)
  /\ UNCHANGED <<requestVars, base, bulk, errs, result, revision, faults>>

\* A complete reply: the replacements that conflicted are tried again, the others
\* have their result (applyWriteItem, classifySearchStatus and Delete).
Conflicted(r) == {o \in pending[r] : errs[o] = "conflict" /\ Kind(o) = "exists"}
Outcome(o) == CASE errs[o] = "none" -> "applied"
                [] errs[o] = "conflict" -> "precondition"
                [] OTHER -> errs[o]
\* Delete: a deletion has no precondition to fail.
DeleteOutcome(o) == CASE errs[o] = "none" -> "applied"
                      [] errs[o] = "conflict" -> "backend"
                      [] OTHER -> errs[o]
Settled(o) == IF Kind(o) = "delete" THEN DeleteOutcome(o) ELSE Outcome(o)
Reply(r) ==
  /\ stage[r] = "sent" /\ bulk[r] = {}
  /\ result' = [o \in Ops |-> IF o \in pending[r] \ Conflicted(r) THEN Settled(o) ELSE result[o]]
  /\ revision' = [o \in Ops |-> IF o \in pending[r] /\ errs[o] = "none" /\ Kind(o) # "delete"
                                THEN CHOOSE n \in effect[o] : TRUE ELSE revision[o]]
  /\ pending' = [pending EXCEPT ![r] = Conflicted(r)]
  /\ Goto(r, "attempt")
  /\ UNCHANGED <<serverVars, wave, attempt, checks, base, bulk, errs, orphans, faults>>

\* performBulk fails: every item of the bulk fails, nothing of it is sent again.
\* The reply is lost, incomplete or of other documents; the memory to read it is
\* refused; or the cluster refused the whole request before running any of it
\* (HTTP 413, 429 or another status).
Lost(r) == Answer(pending[r], "backend") /\ orphans' = orphans \cup bulk[r]
ReplyRefused(r) == bulk[r] = {} /\ Answer(pending[r], "exhausted") /\ UNCHANGED orphans
RequestRefused(r) ==
  /\ bulk[r] = pending[r]
  /\ \E outcome \in {"backend", "exhausted"} : Answer(pending[r], outcome)
  /\ UNCHANGED orphans
Lose(r) ==
  /\ stage[r] = "sent" /\ faults < MaxFaults /\ faults' = faults + 1
  /\ Lost(r) \/ ReplyRefused(r) \/ RequestRefused(r)
  /\ pending' = [pending EXCEPT ![r] = {}] /\ bulk' = [bulk EXCEPT ![r] = {}]
  /\ Goto(r, "attempt")
  /\ UNCHANGED <<serverVars, wave, attempt, checks, base, errs, revision>>

\* Every request has ended and every operation is answered.
Done ==
  /\ \A r \in Requests : stage[r] = "done"
  /\ \A o \in Ops : result[o] # "none"
  /\ UNCHANGED vars

Step(r) ==
  \/ StartWave(r) \/ GiveUp(r) \/ EndWave(r) \/ Attempt(r) \/ TooLarge(r) \/ Check(r)
  \/ Send(r) \/ Reply(r) \/ Lose(r) \/ \E o \in OpsOf(r) : Item(r, o)
Next == (\E r \in Requests : Step(r)) \/ (\E o \in Ops : Orphan(o)) \/ Done

\* Each request's goroutine runs, and the cluster answers or the client times out.
Spec == Init /\ [][Next]_vars /\ \A r \in Requests : WF_vars(Step(r))

-----------------------------------------------------------------------------
\* Outcomes are true and nothing is applied twice: APPLIED was applied once and
\* returned the revision it wrote; PRECONDITION_FAILED was refused by the record's
\* state and, like CONFLICT and INVALID_ARGUMENT, has no effect.  BACKEND and
\* RESOURCE_EXHAUSTED leave it open: the memory for a reply may be refused after the
\* bulk was applied.
OutcomesTrue == \A o \in Ops :
  /\ Cardinality(effect[o]) <= 1
  /\ result[o] = "applied" => /\ effect[o] # {}
                              /\ Kind(o) # "delete" => effect[o] = {revision[o]}
  /\ result[o] = "precondition" => o \in refused \/ Kind(o) = "unmarked"
  /\ result[o] \in {"precondition", "conflict", "invalid"} => effect[o] = {} /\ o \notin orphans

\* A replacement never creates a record: between its lookup and its bulk item the
\* record may be deleted, but then the comparison fails.
ReplaceOnly == \A o \in Ops :
  Kind(o) = "exists" /\ effect'[o] # effect[o] => doc[Record(o)] # Absent

\* An operation takes effect only when those before it in its request on the same
\* record are answered; one answered as lost may still run late.
RecordOrder == \A o \in Ops : effect'[o] # effect[o] /\ Kind(o) # "delete" =>
  \A p \in OpsOf(Operations[o].req) : p < o /\ Record(p) = Record(o) => result[p] # "none"

=============================================================================
