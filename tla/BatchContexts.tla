--------------------------- MODULE BatchContexts ---------------------------
(***************************************************************************)
(* The contexts of shared work: batchExecutionContext (batcher.go) as      *)
(* executeBatch, executeWriteBatch and executeDeleteBatch nest it          *)
(* (batching_server.go): one for the batch, one for the calls that are     *)
(* live, one for each group of them that runs together.                    *)
(*                                                                         *)
(* Work for several callers must go on as long as one of them waits, and   *)
(* stop when none does.  Callers give up, reach their deadlines, and       *)
(* return once they are answered; AfterFunc callbacks run some time after. *)
(* Every caller has a deadline: the batching server gives it one.          *)
(***************************************************************************)
EXTENDS Integers, Sequences, FiniteSets, FiniteSetsExt, SequencesExt

CONSTANTS
  Batch,            \* the callers in queue order
  Timeout,          \* the server's request timeout
  Deadlines,        \* deadlines of the callers: functions from Callers
  MaxTime           \* bound: ticks of the clock

Callers == ToSet(Batch)

\* A caller's deadline is at most one timeout after the arrival of its request.
ContextAssumption ==
  /\ Timeout \in Nat \ {0} /\ MaxTime \in Nat
  /\ Deadlines \subseteq [Callers -> 1..Timeout]

VARIABLES
  clock,
  deadline,         \* [Callers -> deadline of the caller's context]
  ended,            \* callers whose context is done
  stopped,          \* the context of the batcher is cancelled
  context,          \* the nested contexts, outermost first
  calls,            \* callers of the batch that no group took yet
  group,            \* callers whose work is running
  answer            \* [Callers -> "none", "ok" or "error"]

vars == <<clock, deadline, ended, stopped, context, calls, group, answer>>

Init ==
  /\ clock = 0 /\ deadline \in Deadlines
  /\ ended = {} /\ stopped = FALSE
  /\ context = <<>> /\ calls = Batch /\ group = <<>>
  /\ answer = [c \in Callers |-> "none"]

-----------------------------------------------------------------------------
\* batchExecutionContext: the latest deadline of the callers, at most the server's
\* timeout from now.  "remaining" are the callers whose end was not counted yet.
Earliest(cs) == Min({deadline[c] : c \in ToSet(cs)} \cup {clock + Timeout})
LatestDeadline(cs) == Min({Max({deadline[c] : c \in ToSet(cs)}), clock + Timeout})
BatchExecutionContext(cs) ==
  [deadline |-> LatestDeadline(cs), remaining |-> ToSet(cs), done |-> FALSE]

\* A context is done if it was cancelled, reached its deadline, or a parent is done.
Expired(l) == context[l].done \/ context[l].deadline <= clock
Done == stopped \/ \E l \in DOMAIN context : Expired(l)

\* The AfterFunc callback of one caller in one context; the last one cancels.
Callback(l, c) ==
  context' = [context EXCEPT ![l] =
    [@ EXCEPT !.remaining = @ \ {c}, !.done = @ \/ context[l].remaining = {c}]]
AfterFunc(l, c) ==
  /\ c \in context[l].remaining \cap ended
  /\ Callback(l, c)
  /\ UNCHANGED <<clock, deadline, ended, stopped, calls, group, answer>>

-----------------------------------------------------------------------------
Live(cs) == SelectSeq(cs, LAMBDA c : c \notin ended)
GiveError(cs) == [c \in Callers |-> IF c \in ToSet(cs) /\ answer[c] = "none" THEN "error" ELSE answer[c]]
Gone(cs) == SelectSeq(cs, LAMBDA c : c \in ended)

\* executeBatch
Begin ==
  /\ context = <<>> /\ calls # <<>>
  /\ context' = <<BatchExecutionContext(calls)>>
  /\ UNCHANGED <<clock, deadline, ended, stopped, calls, group, answer>>

\* executeWriteBatch and executeDeleteBatch drop the callers that are gone.
BeginCalls ==
  /\ Len(context) = 1 /\ calls # <<>>
  /\ answer' = GiveError(Gone(calls)) /\ calls' = Live(calls)
  /\ context' = IF Live(calls) = <<>> THEN context ELSE Append(context, BatchExecutionContext(Live(calls)))
  /\ UNCHANGED <<clock, deadline, ended, stopped, group>>

\* The next calls that fit the memory limit, without those that are gone.
BeginGroup(n) ==
  /\ Len(context) = 2 /\ group = <<>> /\ n \in 1..Len(calls)
  /\ LET taken == SubSeq(calls, 1, n)
     IN  /\ answer' = GiveError(Gone(taken)) /\ group' = Live(taken)
         /\ context' = IF Live(taken) = <<>> THEN context ELSE Append(context, BatchExecutionContext(Live(taken)))
  /\ calls' = SubSeq(calls, n + 1, Len(calls))
  /\ UNCHANGED <<clock, deadline, ended, stopped>>

\* writeCompletion answers a caller before the others are finished.
Complete(c) ==
  /\ c \in ToSet(group) /\ answer[c] = "none"
  /\ answer' = [answer EXCEPT ![c] = "ok"]
  /\ UNCHANGED <<clock, deadline, ended, stopped, context, calls, group>>

\* Server.write or Server.delete returns: all answered, or its context was done.
EndGroup ==
  /\ group # <<>>
  /\ (\A c \in ToSet(group) : answer[c] # "none") \/ Done
  /\ answer' = GiveError(group) /\ group' = <<>> /\ context' = Front(context)
  /\ UNCHANGED <<clock, deadline, ended, stopped, calls>>

EndBatch ==
  /\ context # <<>> /\ calls = <<>> /\ group = <<>> /\ context' = <<>>
  /\ UNCHANGED <<clock, deadline, ended, stopped, calls, group, answer>>

-----------------------------------------------------------------------------
\* A caller's context ends: it gives up, or its RPC returns with the answer.
EndCaller(c) ==
  /\ c \notin ended /\ ended' = ended \cup {c}
  /\ UNCHANGED <<clock, deadline, stopped, context, calls, group, answer>>
Tick ==
  /\ clock < MaxTime /\ clock' = clock + 1
  /\ ended' = ended \cup {c \in Callers : deadline[c] <= clock + 1}
  /\ UNCHANGED <<deadline, stopped, context, calls, group, answer>>
Stop ==
  /\ ~stopped /\ stopped' = TRUE
  /\ UNCHANGED <<clock, deadline, ended, context, calls, group, answer>>

Work ==
  \/ Begin \/ BeginCalls \/ EndGroup \/ EndBatch
  \/ \E n \in 1..Len(calls) : BeginGroup(n)
Callbacks == \E l \in DOMAIN context : \E c \in context[l].remaining : AfterFunc(l, c)
Finished == calls = <<>> /\ context = <<>>
Next ==
  \/ Work \/ Callbacks \/ Tick \/ Stop
  \/ \E c \in Callers : Complete(c) \/ EndCaller(c)
  \/ Finished /\ UNCHANGED vars

\* The loop and the callbacks run.  The storage need not answer, the clock need not
\* move and callers need not leave.
Spec == Init /\ [][Next]_vars /\ WF_vars(Work) /\ WF_vars(Callbacks)

-----------------------------------------------------------------------------
\* As long as one caller of the group waits within its deadline, the work is not
\* cancelled by the others, whether they gave up, expired or were answered, in this
\* group or in an earlier one.
SharedWorkLives ==
  group # <<>> /\ Done =>
    stopped \/ \A c \in ToSet(group) : c \in ended \/ deadline[c] <= clock

\* A caller that still waits is never failed on account of the others.
ErrorForCause ==
  \A c \in Callers : answer[c] = "error" => stopped \/ c \in ended \/ deadline[c] <= clock

=============================================================================
