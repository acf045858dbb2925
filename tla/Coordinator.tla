---------------------------- MODULE Coordinator -----------------------------
(***************************************************************************)
(* One call of Coordinator.run (backend/app/ai/orchestration): the caller's *)
(* thread checks and prepares a snapshot, gives one task per role to a pool *)
(* of its own, and polls until all have ended, it is asked to stop, or the  *)
(* deadline passes.  Meanwhile the repository may change under it, the      *)
(* owner may cancel, and a role may take for ever: a thread is not killed.  *)
(***************************************************************************)
EXTENDS Naturals, Sequences, FiniteSets

CONSTANTS
  Role,          \* ROLES: five in the code
  MaxConcurrency \* max_concurrency: three by default

ASSUME CoordinatorAssumption ==
  /\ Role # {} /\ IsFiniteSet(Role)
  /\ MaxConcurrency \in Nat \ {0}

VARIABLES
  \* The world: what should_stop() answers, and current_snapshot().
  stop, scope,
  \* The caller's thread.
  pc, at, error,
  \* The pool: what became of the task of each role; the deadline has passed.
  task, late,
  \* The futures in `completed`, and what is made of them.
  completed, states, results, report

world  == <<stop, scope>>
caller == <<pc, at, error>>
pool   == <<task, late>>
made   == <<completed, states, results, report>>
vars   == <<world, caller, pool, made>>

\* What the caller does before it has a pool.
Preparation ==
  <<"scope", "validate", "scope", "stop", "parse", "scope", "stop", "analyse", "scope", "stop">>

NoReport == [status |-> "none"]

RoleStatus   == {"succeeded", "failed", "timed_out", "cancelled"}
ReportStatus == {"succeeded", "partial", "failed", "cancelled"}
Reports ==
  [status : ReportStatus, roles : [Role -> RoleStatus], results : SUBSET Role, graph : BOOLEAN]

TypeOK ==
  /\ stop \in BOOLEAN
  /\ scope \in {"same", "changed", "unavailable"}
  /\ pc \in {"prepare", "loop", "wait", "recheck", "clock", "ask", "last", "leave", "end"}
  /\ at \in 1..(Len(Preparation) + 1)
  /\ error \in {"none", "scope", "value", "other", "pool"}
  /\ task \in [Role -> {"none", "queued", "running", "returned", "raised", "dropped"}]
  /\ late \in BOOLEAN
  /\ completed \subseteq Role
  /\ states \in [Role -> RoleStatus \cup {"none"}]
  /\ results \subseteq Role
  /\ report \in Reports \cup {NoReport}

Init ==
  /\ stop = FALSE /\ scope = "same"
  /\ pc = "prepare" /\ at = 1 /\ error = "none"
  /\ task = [r \in Role |-> "none"] /\ late = FALSE
  /\ completed = {} /\ states = [r \in Role |-> "none"] /\ results = {}
  /\ report = NoReport

-----------------------------------------------------------------------------
(* The world.                                                              *)

\* An Event that is set, a lost lease or a cancel: none is taken back while
\* the handler runs.
AskToStop == ~stop /\ stop' = TRUE /\ UNCHANGED <<scope, caller, pool, made>>

\* Access is revoked and granted, a commit is pushed, GitHub cannot be reached.
ChangeScope ==
  /\ scope' \in {"same", "changed", "unavailable"} \ {scope}
  /\ UNCHANGED <<stop, caller, pool, made>>

-----------------------------------------------------------------------------
(* The caller's thread.                                                    *)

Raise(e, to) == error' = e /\ pc' = to /\ UNCHANGED at

\* check_scope, on to `ok`; an exception leaves through `raised`.
CheckScope(ok, raised) ==
  \/ scope = "same" /\ ok /\ UNCHANGED error
  \/ scope = "changed" /\ Raise("scope", raised)
  \/ scope = "unavailable" /\ Raise("other", raised)

\* should_stop is a query of the job's row: it may raise.
AskFails(raised) == Raise("other", raised) /\ UNCHANGED <<world, pool, made>>

Advance == at' = at + 1 /\ pc' = pc

Preparing(step) ==
  /\ pc = "prepare" /\ at <= Len(Preparation)
  /\ Preparation[at] = step

PrepareScope ==
  /\ Preparing("scope")
  /\ CheckScope(Advance, "end")
  /\ UNCHANGED <<world, pool, made>>

\* _validate, _parse, the dependency graph and the static quality analyzer.
Prepare(step) ==
  /\ Preparing(step)
  /\ \/ Advance /\ UNCHANGED error
     \/ \E e \in {"value", "other"} : Raise(e, "end")
  /\ UNCHANGED <<world, pool, made>>

\* _report: the status of the roles, and what they returned.
\* Mutant of StatusOf: a timeout cancels.
StatusOfTimeout(roles) ==
  IF \E r \in Role : roles[r] \in {"cancelled", "timed_out"} THEN "cancelled"
  ELSE IF \A r \in Role : roles[r] = "succeeded" THEN "succeeded"
  ELSE IF \E r \in Role : roles[r] = "succeeded" THEN "partial"
  ELSE "failed"
StatusOf(roles) ==
  IF \E r \in Role : roles[r] = "cancelled" THEN "cancelled"
  ELSE IF \A r \in Role : roles[r] = "succeeded" THEN "succeeded"
  ELSE IF \E r \in Role : roles[r] = "succeeded" THEN "partial"
  ELSE "failed"

MakeReport(roles, returned, graph) ==
  [status |-> StatusOf(roles), roles |-> roles, results |-> returned, graph |-> graph]

AllCancelled == [r \in Role |-> "cancelled"]

PrepareStop ==
  /\ Preparing("stop")
  /\ IF stop
     THEN /\ report' = MakeReport(AllCancelled, {}, FALSE)
          /\ pc' = "end" /\ at' = at
     ELSE Advance /\ UNCHANGED report
  /\ UNCHANGED <<world, error, pool, completed, states, results>>

PrepareStopFails == Preparing("stop") /\ AskFails("end")

\* A pool with max_concurrency threads, one task per role, and the deadline.
Submit ==
  /\ pc = "prepare" /\ at > Len(Preparation)
  /\ task' = [r \in Role |-> "queued"]
  /\ pc' = "loop"
  /\ UNCHANGED <<world, at, error, late, made>>

\* A thread cannot be started: no finally block is reached yet, and the pool
\* keeps what it was given.
SubmitFails ==
  /\ pc = "prepare" /\ at > Len(Preparation)
  /\ \E given \in SUBSET Role \ {{}} :
       task' = [r \in Role |-> IF r \in given THEN "queued" ELSE "none"]
  /\ Raise("pool", "end")
  /\ UNCHANGED <<world, late, made>>

Go(from, to) == pc = from /\ pc' = to /\ UNCHANGED <<at, error>>

Loop ==
  /\ Go("loop", IF completed # Role /\ ~stop THEN "wait" ELSE "ask")
  /\ UNCHANGED <<world, pool, made>>

\* The loop does not ask should_stop once nothing is pending.
LoopFails == pc = "loop" /\ completed # Role /\ AskFails("leave")

\* wait(pending, timeout): all have ended, or a twentieth of a second, or what
\* is left of the deadline, has passed.
Wait ==
  /\ Go("wait", "recheck")
  /\ completed' = completed \cup {r \in Role : task[r] \in {"returned", "raised"}}
  /\ UNCHANGED <<world, pool, states, results, report>>

Recheck ==
  /\ pc = "recheck"
  /\ CheckScope(pc' = "clock" /\ at' = at, "leave")
  /\ UNCHANGED <<world, pool, made>>

\* Mutant of Clock: the deadline only bounds the wait.
ClockUnheeded == Go("clock", "loop") /\ UNCHANGED <<world, pool, made>>

Clock ==
  /\ Go("clock", IF late THEN "ask" ELSE "loop")
  /\ UNCHANGED <<world, pool, made>>

\* Mutant of StateOf: a role that missed the last wait counts as succeeded.
StateHopeful(r) ==
  IF stop THEN "cancelled"
  ELSE IF r \in completed /\ task[r] = "raised" THEN "failed" ELSE "succeeded"
\* One answer of should_stop decides for every role.
StateOf(r) ==
  IF stop THEN "cancelled"
  ELSE IF r \notin completed THEN "timed_out"
  ELSE IF task[r] = "returned" THEN "succeeded" ELSE "failed"

Returned == IF stop THEN {} ELSE {r \in completed : task[r] = "returned"}

Ask ==
  /\ Go("ask", "last")
  /\ states' = [r \in Role |-> StateOf(r)]
  /\ results' = Returned
  /\ UNCHANGED <<world, pool, completed, report>>

AskRaises == pc = "ask" /\ AskFails("leave")

\* Mutant of Last: the report is made without a last check.
LastUnchecked ==
  /\ Go("last", "leave")
  /\ report' = MakeReport(states, results, \A r \in Role : states[r] # "cancelled")
  /\ UNCHANGED <<world, pool, completed, states, results>>

Last ==
  /\ pc = "last"
  /\ CheckScope(pc' = "leave" /\ at' = at
                /\ report' = MakeReport(states, results, \A r \in Role : states[r] # "cancelled"),
                "leave")
  /\ scope # "same" => UNCHANGED report
  /\ UNCHANGED <<world, pool, completed, states, results>>

\* The finally block: what has not started never will; the rest is abandoned.
Leave ==
  /\ Go("leave", "end")
  /\ task' = [r \in Role |-> IF task[r] = "queued" THEN "dropped" ELSE task[r]]
  /\ UNCHANGED <<world, late, made>>

Run ==
  \/ PrepareScope \/ PrepareStop \/ PrepareStopFails
  \/ \E step \in {"validate", "parse", "analyse"} : Prepare(step)
  \/ Submit \/ SubmitFails
  \/ Loop \/ LoopFails \/ Wait \/ Recheck \/ Clock
  \/ Ask \/ AskRaises \/ Last \/ Leave

-----------------------------------------------------------------------------
(* The pool's threads, and the clock.                                      *)

StartRole(r) ==
  /\ task[r] = "queued"
  /\ Cardinality({q \in Role : task[q] = "running"}) < MaxConcurrency
  /\ task' = [task EXCEPT ![r] = "running"]
  /\ UNCHANGED <<world, caller, late, made>>

EndRole(r) ==
  /\ task[r] = "running"
  /\ \E how \in {"returned", "raised"} : task' = [task EXCEPT ![r] = how]
  /\ UNCHANGED <<world, caller, late, made>>

DeadlinePasses ==
  /\ pc \notin {"prepare", "end"} /\ ~late
  /\ late' = TRUE
  /\ UNCHANGED <<world, caller, task, made>>

Next ==
  \/ AskToStop \/ ChangeScope
  \/ Run
  \/ \E r \in Role : StartRole(r) \/ EndRole(r)
  \/ DeadlinePasses

Spec == Init /\ [][Next]_vars

\* The caller goes on and time passes; a role need not end, nor even start.
FairSpec == Spec /\ WF_vars(Run) /\ WF_vars(DeadlinePasses)

-----------------------------------------------------------------------------
(* Properties.                                                             *)

\* A report `run` returns is one the contract accepts: AnalysisResult's
\* coherent_status over the errors to_analysis_result makes of the roles, one
\* for each that did not succeed (contracts/analysis.py, worker_adapter.py).
Errors == {r \in Role : report.roles[r] # "succeeded"}
ContractAccepts ==
  report # NoReport =>
    /\ report.status = "failed" => Errors # {}
    /\ report.status = "succeeded" => Errors = {}
    /\ report.status = "partial" =>
         /\ Errors # Role
         /\ \E r \in Role : report.roles[r] \in {"failed", "timed_out"}

\* A cancelled report carries nothing of the analysis, and no other report
\* lacks the graph: one answer of should_stop decided for all roles.
CancelIsWhole ==
  report # NoReport =>
    IF report.status = "cancelled"
    THEN stop /\ report.roles = AllCancelled /\ report.results = {} /\ ~report.graph
    ELSE report.graph /\ \A r \in Role : report.roles[r] # "cancelled"

\* What a report says of a role is what became of its task, and it carries the
\* results of exactly the roles it calls succeeded, also when a role ends
\* after the last wait, between the deadline and the report.
RolesAreReal ==
  report # NoReport =>
    /\ \A r \in Role :
         /\ report.roles[r] = "succeeded" => task[r] = "returned"
         /\ report.roles[r] = "failed" => task[r] = "raised"
    /\ report.results = {r \in Role : report.roles[r] = "succeeded"}

\* A role is called timed out only if the deadline has passed: neither a cancel
\* nor a last wait that came too early looks like a timeout.
TimeoutIsLate ==
  \A r \in Role : states[r] = "timed_out" => late

\* Once `run` has returned no further role of its pool is started; roles that
\* were running are abandoned ("Running Python threads cannot be forcibly
\* killed").  A pool that could not start its threads is not shut down.
NoLateStartStep ==
  pc = "end" /\ error # "pool" =>
    \A r \in Role : task'[r] = "running" => task[r] = "running"
NoLateStart == [][NoLateStartStep]_vars

\* It implements what the runtimes rely on.
Answered ==
  IF report # NoReport THEN report.status
  ELSE IF error # "none" THEN "raised" ELSE "none"
Promise == INSTANCE AnalysisPromise WITH asked <- stop, answer <- Answered
KeepsPromise == Promise!Spec

\* `run` ends although roles may hang: the deadline is enough.
RunEnds == <>(pc = "end")

\* A repository that changed, or is out of reach, while roles are awaited or
\* their results collected, and stays so, is not reported on.
Revoked == scope # "same" /\ pc \in {"loop", "wait", "recheck", "clock", "ask"}
RevokedIsNotReported ==
  [](Revoked => ([](scope # "same") => [](report = NoReport)))

-----------------------------------------------------------------------------
(* The inductive invariant.                                                *)

\* The caller's thread has answered exactly when it is on its way out.
PathInv ==
  /\ pc \notin {"leave", "end"} => report = NoReport /\ error = "none"
  /\ report # NoReport => error = "none"
  /\ pc = "prepare" => completed = {} /\ \A r \in Role : task[r] = "none"

\* `completed` holds ended tasks only, and why the loop was left.
LoopInv ==
  /\ \A r \in completed : task[r] \in {"returned", "raised"}
  /\ pc = "ask" => completed = Role \/ stop \/ late

\* What the collected states say of the tasks.
StatesInv ==
  /\ \A r \in Role :
       /\ states[r] = "cancelled" => stop
       /\ states[r] = "timed_out" => late
       /\ states[r] = "succeeded" => task[r] = "returned"
       /\ states[r] = "failed"    => task[r] = "raised"
  /\ pc = "last" =>
       /\ \A r \in Role : states[r] # "none"
       /\ \/ states = AllCancelled /\ results = {}
          \/ /\ \A r \in Role : states[r] # "cancelled"
             /\ results = {r \in Role : states[r] = "succeeded"}

IInv ==
  /\ TypeOK /\ PathInv /\ LoopInv /\ StatesInv
  /\ ContractAccepts /\ CancelIsWhole /\ RolesAreReal
=============================================================================
