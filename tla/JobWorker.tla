----------------------------- MODULE JobWorker ------------------------------
(***************************************************************************)
(* The worker processes of backend/app/jobs/worker.py over the job store.   *)
(* Each worker runs process_one in a loop; while its handler runs, a second  *)
(* thread renews the lease.  No transaction is open across the handler, so   *)
(* every database call is a step of its own and anything may happen between  *)
(* two of them: the lease may run out, another worker may claim the job, its *)
(* owner may cancel it, a connection may fail, the process may die.          *)
(***************************************************************************)
EXTENDS JobStore

CONSTANTS Worker

VARIABLES
  pc,    \* where process_one is
  held,  \* the Job value process_one works on: id, claim_token, attempts
  lost,  \* the Event the heartbeat thread sets before it returns
  out,   \* what the try block left in `result` and `failure`
  live   \* the finishing transaction began before lease_until

workerVars == <<pc, held, lost, out, live>>
vars       == <<storeVars, workerVars>>

\* `result.status` of the handler, and `failure` with its code.
Outcome == [report : Report, failure : {"none", "retryable", "final"}, code : Code]

Success(report)           == [report |-> report, failure |-> "none", code |-> "none"]
Failure(report, kind, c)  == [report |-> report, failure |-> kind, code |-> c]
NoOutcome                 == Success("none")

\* What a handler can end with whatever the database holds: a result whose
\* first error decides the retry, a JobFailure, or any other exception.
HandlerOutcome ==
  {Success("succeeded"), Success("partial"),
   Failure("failed", "retryable", "ANALYSIS_FAILED"),
   Failure("failed", "final",     "ANALYSIS_FAILED"),
   Failure("none",   "retryable", "ANALYSIS_FAILED"),
   Failure("none",   "final",     "ANALYSIS_FAILED")}

\* A cancelled result is no success: INVALID_RESULT, should it come to `fail`.
StoppedOutcome == Failure("cancelled", "final", "INVALID_RESULT")

Claim   == [job : Job, token : Nat, attempt : Nat]
NoClaim == [token |-> NoToken]

Phase == {"idle", "claiming", "check", "handler", "settle",
          "ack", "acking", "fail", "failing", "complete", "completing"}
Finishing == {"acking", "failing", "completing"}

TypeOKWorker ==
  /\ pc \in [Worker -> Phase]
  /\ held \in [Worker -> Claim \cup {NoClaim}]
  /\ \A w \in Worker : held[w] = NoClaim <=> pc[w] \in {"idle", "claiming"}
  /\ lost \in [Worker -> BOOLEAN]
  /\ out \in [Worker -> Outcome]
  /\ live \in [Worker -> BOOLEAN]

TypeOK == TypeOKStore /\ TypeOKWorker

Init ==
  /\ InitStore
  /\ pc   = [w \in Worker |-> "idle"]
  /\ held = [w \in Worker |-> NoClaim]
  /\ lost = [w \in Worker |-> FALSE]
  /\ out  = [w \in Worker |-> NoOutcome]
  /\ live = [w \in Worker |-> FALSE]

-----------------------------------------------------------------------------
Goto(w, from, to) == pc[w] = from /\ pc' = [pc EXCEPT ![w] = to]

\* process_one returns, or its process dies and is started again: nothing of
\* the claim survives in the worker.
Forget(w) ==
  /\ pc'   = [pc   EXCEPT ![w] = "idle"]
  /\ held' = [held EXCEPT ![w] = NoClaim]
  /\ lost' = [lost EXCEPT ![w] = FALSE]
  /\ out'  = [out  EXCEPT ![w] = NoOutcome]
  /\ live' = [live EXCEPT ![w] = FALSE]

J(w) == held[w].job
T(w) == held[w].token

\* claim, first statement.
ClaimSweep(w) ==
  /\ Goto(w, "idle", "claiming")
  /\ Sweep
  /\ UNCHANGED <<held, lost, out, live>>

\* claim, second statement; RETURNING gives the worker the new token.
ClaimTake(w) ==
  /\ Goto(w, "claiming", "check")
  /\ \E j \in Job :
       /\ Take(j)
       /\ held' = [held EXCEPT ![w] = [job |-> j, token |-> NewToken(j),
                                       attempt |-> attempts[j] + 1]]
  /\ UNCHANGED <<lost, out, live>>

\* claim, second statement, no due row.
ClaimNothing(w) ==
  /\ Goto(w, "claiming", "idle")
  /\ \A j \in Job : ~Claimable(j)
  /\ UNCHANGED <<storeVars, held, lost, out, live>>

\* keep_lease, one round: the lease is renewed, or the thread gives up for
\* good because no row matched.
Heartbeat(w) ==
  /\ pc[w] \in {"check", "handler"}
  /\ ~lost[w]
  /\ \/ /\ Renew(J(w), T(w))
        /\ UNCHANGED lost
     \/ /\ ~Alive(J(w), T(w))
        /\ lost' = [lost EXCEPT ![w] = TRUE]
        /\ UNCHANGED storeVars
  /\ UNCHANGED <<pc, held, out, live>>

\* keep_lease, one round that raises: the thread gives up as well.
HeartbeatError(w) ==
  /\ pc[w] \in {"check", "handler"}
  /\ ~lost[w]
  /\ lost' = [lost EXCEPT ![w] = TRUE]
  /\ UNCHANGED <<storeVars, pc, held, out, live>>

\* JobContext.should_stop
Stopping(w) == lost[w] \/ ShouldStop(J(w), T(w))

\* The check before the handler is called.
CheckStop(w) ==
  /\ pc[w] = "check"
  /\ \/ /\ ~Stopping(w)
        /\ Goto(w, "check", "handler")
        /\ UNCHANGED out
     \/ /\ Stopping(w)
        /\ Goto(w, "check", "settle")
        /\ out' = [out EXCEPT ![w] = Failure("none", "final", "CANCELLED")]
  /\ UNCHANGED <<storeVars, held, lost, live>>

\* The database fails that check: it is inside the try block.
CheckError(w) ==
  /\ ~lost[w]
  /\ Goto(w, "check", "settle")
  /\ out' = [out EXCEPT ![w] = Failure("none", "retryable", "ANALYSIS_FAILED")]
  /\ UNCHANGED <<storeVars, held, lost, live>>

\* The handler ends and the heartbeat thread is joined.  The coordinator
\* reports "cancelled" only after should_stop told it to.
HandlerReturns(w) ==
  /\ Goto(w, "handler", "settle")
  /\ \E o \in HandlerOutcome \cup (IF Stopping(w) THEN {StoppedOutcome} ELSE {}) :
       out' = [out EXCEPT ![w] = o]
  /\ UNCHANGED <<storeVars, held, lost, live>>

\* should_stop after the join decides which transaction ends the claim.
Settle(w) ==
  /\ pc[w] = "settle"
  /\ \/ Stopping(w) /\ Goto(w, "settle", "ack")
     \/ ~Stopping(w) /\ out[w].failure # "none" /\ Goto(w, "settle", "fail")
     \/ ~Stopping(w) /\ out[w].failure = "none" /\ Goto(w, "settle", "complete")
  /\ UNCHANGED <<storeVars, held, lost, out, live>>

\* BEGIN of that transaction fixes its now().
Begin(w) ==
  /\ \/ Goto(w, "ack", "acking")
     \/ Goto(w, "fail", "failing")
     \/ Goto(w, "complete", "completing")
  /\ live' = [live EXCEPT ![w] = Holds(J(w), T(w)) /\ lease[J(w)] > 0]
  /\ UNCHANGED <<storeVars, held, lost, out>>

\* min(retry_delay_seconds * 2 ** (attempts - 1), 300)
Backoff(attempt) ==
  LET delay == RetryDelay * 2^(attempt - 1)
  IN  IF delay \in 0..MaxBackoff THEN delay ELSE MaxBackoff

FinishAck(w) ==
  /\ pc[w] = "acking"
  /\ \/ AcknowledgeCancel(J(w), T(w), live[w],
                          IF out[w].report = "cancelled" THEN "cancelled" ELSE "none")
     \/ ~CanAcknowledge(J(w), T(w), live[w]) /\ UNCHANGED storeVars
  /\ Forget(w)

FinishFail(w) ==
  /\ pc[w] = "failing"
  /\ \/ Fail(J(w), T(w), live[w], out[w].code, out[w].failure = "retryable",
             Backoff(held[w].attempt),
             IF out[w].report = "failed" THEN "failed" ELSE "none")
     \/ ~CanFail(J(w), T(w), live[w]) /\ UNCHANGED storeVars
  /\ Forget(w)

FinishComplete(w) ==
  /\ pc[w] = "completing"
  /\ \/ Complete(J(w), T(w), live[w], out[w].report)
     \/ ~CanComplete(J(w), T(w), live[w]) /\ UNCHANGED storeVars
  /\ Forget(w)

\* The process dies, or an uncaught database error ends process_one.  An open
\* transaction rolls back; the row keeps its token until the lease runs out.
Crash(w) ==
  /\ pc[w] # "idle"
  /\ Forget(w)
  /\ UNCHANGED storeVars

-----------------------------------------------------------------------------
Owner ==
  \E j \in Job :
    \/ \E n \in AttemptLimits : Enqueue(j, n)
    \/ Cancel(j)

Work(w) ==
  \/ ClaimSweep(w) \/ ClaimTake(w) \/ ClaimNothing(w)
  \/ Heartbeat(w) \/ HeartbeatError(w)
  \/ CheckStop(w) \/ CheckError(w) \/ HandlerReturns(w)
  \/ Settle(w) \/ Begin(w)
  \/ FinishAck(w) \/ FinishFail(w) \/ FinishComplete(w)

Next ==
  \/ Owner /\ UNCHANGED workerVars
  \/ Tick /\ UNCHANGED workerVars
  \/ \E w \in Worker : Work(w) \/ Crash(w)

Spec == Init /\ [][Next]_vars

(* Workers outside Steady may die for good; a steady one keeps polling and   *)
(* its claims are not aborted forever.  Of every worker it is assumed that    *)
(* its handler returns (the coordinator has a deadline) or its process dies:  *)
(* a handler that hangs while its heartbeat thread lives would keep the job.  *)
(* Nothing is assumed of owners, crashes or heartbeats.                      *)
CONSTANT Steady
ASSUME SteadyAssumption == Steady \subseteq Worker

Fairness ==
  /\ WF_vars(Tick /\ UNCHANGED workerVars)
  /\ \A w \in Worker :
       WF_vars(CheckStop(w) \/ HandlerReturns(w) \/ (Crash(w) /\ pc[w] \in {"check", "handler"}))
  /\ \A w \in Steady :
       /\ WF_vars(ClaimSweep(w) \/ ClaimNothing(w))
       /\ SF_vars(ClaimTake(w))
       /\ WF_vars(CheckStop(w) \/ HandlerReturns(w) \/ Settle(w) \/ Begin(w))
       /\ WF_vars(FinishAck(w) \/ FinishFail(w) \/ FinishComplete(w))

FairSpec == Spec /\ Fairness

-----------------------------------------------------------------------------
(* Safety.                                                                 *)

Current(w, j) == held[w] # NoClaim /\ J(w) = j /\ Holds(j, T(w))

\* However claims, expiries and crashes interleave, at most one worker holds
\* the claim token a running row carries.
OneHolder ==
  \A j \in Job : \A v, w \in Worker : Current(v, j) /\ Current(w, j) => v = w

\* A report is in the database exactly when its job has ended with it: never
\* for a job that is still queued or running, never for another end.
ReportMatchesEnd ==
  \A j \in Job :
    /\ result[j] <=> analyses[j] # "none"
    /\ status[j] = "completed" <=> analyses[j] = "succeeded"
    /\ status[j] = "partial"   <=> analyses[j] = "partial"
    /\ analyses[j] = "failed"    => status[j] = "failed"
    /\ analyses[j] = "cancelled" => status[j] = "cancelled"

\* max_attempts bounds how often a job is claimed, over retries, crashes and
\* lost leases; LEASE_EXPIRED is reported only when that budget is spent.
BudgetKept ==
  \A j \in Job :
    /\ minted[j] = attempts[j]
    /\ attempts[j] <= limit[j]
    /\ error[j] = "LEASE_EXPIRED" => attempts[j] = limit[j]

\* A worker that was told to stop, or saw a cancelled result, never records
\* that as the failure of the job: CANCELLED and INVALID_RESULT stay inside it.
StopIsNoFailure ==
  \A j \in Job : error[j] \notin {"CANCELLED", "INVALID_RESULT"}

\* A cancel accepted while the job runs is never lost: whoever ends or claims
\* the job next, it ends as cancelled, with no report but a cancelled one.
CancelWinsStep ==
  \A j \in Job :
    status[j] = "running" /\ cancel[j] =>
      \/ status'[j] = "running" /\ cancel'[j]
      \/ status'[j] = "cancelled" /\ analyses'[j] \in {"none", "cancelled"}
CancelWins == [][CancelWinsStep]_vars

\* An ended job and its report never change again, whatever stale workers,
\* sweeps and late cancels still do.
FinalIsFinalStep ==
  \A j \in Job : status[j] \in Terminal =>
    <<status[j], attempts[j], cancel[j], error[j], result[j], analyses[j]>>'
      = <<status[j], attempts[j], cancel[j], error[j], result[j], analyses[j]>>
FinalIsFinal == [][FinalIsFinalStep]_vars

\* Under a live lease only its holder ends or gives back the claim.
LeaseProtectsStep ==
  \A j \in Job :
    status[j] = "running" /\ lease[j] > 0 /\ token'[j] # token[j]
      => \E w \in Worker : Current(w, j) /\ pc[w] \in Finishing /\ pc'[w] = "idle"
LeaseProtects == [][LeaseProtectsStep]_vars

-----------------------------------------------------------------------------
(* The inductive invariant behind the safety properties.                    *)

RowInv ==
  \A j \in Job :
    /\ minted[j] = attempts[j] /\ attempts[j] <= limit[j]
    /\ status[j] = "absent"  => /\ limit[j] = 0 /\ ~cancel[j]
                                /\ error[j] = "none"
    /\ status[j] = "queued"  => ~cancel[j] /\ attempts[j] < limit[j]
    /\ status[j] = "running" => token[j] = minted[j] /\ token[j] # NoToken
    /\ error[j] = "LEASE_EXPIRED" => attempts[j] = limit[j]
    /\ error[j] \notin {"CANCELLED", "INVALID_RESULT"}

\* A token is held by the worker it was minted for, and by no other.
TokenInv ==
  /\ \A w \in Worker : held[w] # NoClaim => T(w) \in 1..minted[J(w)]
  /\ \A v, w \in Worker :
       held[v] # NoClaim /\ held[w] # NoClaim /\ J(v) = J(w) /\ T(v) = T(w) => v = w

\* What the code on the way to each finishing transaction has established.  A
\* worker with a code of its own making has seen a reason to stop, and such a
\* reason never goes away.
OutcomeOk(w) ==
  /\ pc[w] = "settle" /\ out[w].failure = "none" => out[w].report \in {"succeeded", "partial"}
  /\ pc[w] \in {"complete", "completing"} => out[w].report \in {"succeeded", "partial"}
  /\ pc[w] = "settle" /\ out[w].failure # "none" =>
       out[w].code = "ANALYSIS_FAILED" \/ Stopping(w)
  /\ pc[w] \in {"fail", "failing"} => out[w].code = "ANALYSIS_FAILED"

OutcomeInv == \A w \in Worker : OutcomeOk(w)

IInv == TypeOK /\ ReportMatchesEnd /\ RowInv /\ TokenInv /\ OutcomeInv

-----------------------------------------------------------------------------
(* The promise of JobLifecycle, read off the rows.                          *)

PhaseOf(j) ==
  CASE status[j] = "absent"  -> "absent"
    [] status[j] = "queued"  -> "waiting"
    [] status[j] = "running" -> "working"
    [] OTHER -> "ended"

Lifecycle == INSTANCE JobLifecycle WITH
  phase    <- [j \in Job |-> PhaseOf(j)],
  left     <- [j \in Job |-> limit[j] - attempts[j]],
  stopping <- cancel,
  ending   <- [j \in Job |-> IF status[j] \in Terminal THEN status[j] ELSE "none"],
  report   <- analyses

\* Rows, leases and workers implement the promise.
KeepsPromise == Lifecycle!Spec

-----------------------------------------------------------------------------
(* Liveness.                                                               *)

\* Every queued job ends, even if every other worker dies while holding it.
EveryJobEnds ==
  \A j \in Job : status[j] = "queued" ~> status[j] \in Terminal

\* A cancel request on a running job is carried out.
CancelIsCarriedOut ==
  \A j \in Job : cancel[j] ~> status[j] = "cancelled"
=============================================================================
