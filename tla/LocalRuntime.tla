---------------------------- MODULE LocalRuntime ----------------------------
(***************************************************************************)
(* The local mode of Ariadne (backend/app/local): request threads enqueue   *)
(* analyses of saved snapshots, the one thread of an executor runs them, and *)
(* SQLite keeps the jobs and the reports.  `_lock` guards what the threads   *)
(* share in memory; every write to SQLite is a transaction of its own and    *)
(* may fail; the process may die at any point and be started again.          *)
(*                                                                         *)
(* Job ids are numbered in the order their rows are inserted, so a job is    *)
(* also its rowid.  A report is identified with the job that wrote it.       *)
(***************************************************************************)
EXTENDS Naturals, Sequences, FiniteSets

CONSTANTS
  Snapshot,  \* (repository_id, snapshot_id) pairs whose source is saved
  Request,   \* the request threads
  Rejection, \* whether a submit that raises may leave the job with the executor
  Capacity,  \* analyses waiting or running at once (8 in the code)
  MaxJobs,   \* bound: rows of jobs
  MaxFaults, \* bound: failing writes and rejected submissions
  MaxBoots   \* bound: starts of the process

Free     == "free"
Executor == "executor"

ASSUME LocalAssumption ==
  /\ Request \cap {Free, Executor} = {}
  /\ Rejection \subseteq BOOLEAN
  /\ Capacity \in Nat \ {0}
  /\ MaxJobs \in Nat
  /\ MaxFaults \in Nat
  /\ MaxBoots \in Nat

Job == 1..MaxJobs

VARIABLES
  \* SQLite: the rows of jobs, and which job has a row in analyses.
  created, of, status, error, named, stored,
  \* The process: is it up, `_closed`, `_lock`, the keys of `_stop` and the
  \* Events that are set.
  up, closed, lock, known, flag,
  \* The executor: its thread exists, submitted jobs, `_run` of the one it
  \* works on.
  thread, queue, step, mine, outcome, made,
  \* Request threads inside `analyze`.
  asking, wanted,
  faults, boots

rows     == <<created, of, status, error, named, stored>>
shared   == <<up, closed, lock, known, flag>>
pool     == <<thread, queue, step, mine, outcome, made>>
requests == <<asking, wanted>>
bounds   == <<faults, boots>>
vars     == <<rows, shared, pool, requests, bounds>>

Active    == {"queued", "running"}
Finished  == {"succeeded", "partial", "failed", "cancelled"}
Retryable == {"failed", "cancelled"}
Code      == {"none", "ANALYSIS_FAILED", "INTERRUPTED"}

NoJob == 0

TypeOK ==
  /\ created \in 0..MaxJobs
  /\ of     \in [Job -> Snapshot \cup {"none"}]
  /\ status \in [Job -> Active \cup Finished \cup {"none"}]
  /\ error  \in [Job -> Code]
  /\ named  \in [Job -> BOOLEAN]
  /\ stored \in [Job -> BOOLEAN]
  /\ up \in BOOLEAN /\ closed \in BOOLEAN
  /\ lock \in Request \cup {Free, Executor}
  /\ known \subseteq Job /\ flag \subseteq Job
  /\ thread \in BOOLEAN
  /\ queue \in Seq(Job)
  /\ step \in {"idle", "mark", "analyse", "decide", "store", "finish", "except"}
  /\ mine \in Job \cup {NoJob}
  /\ outcome \in Finished
  /\ made \in BOOLEAN
  /\ asking \in [Request -> {"no", "save", "submit", "undo"}]
  /\ wanted \in [Request -> Snapshot \cup {"none"}]
  /\ faults \in 0..MaxFaults /\ boots \in 0..MaxBoots
  \* Who holds `_lock`, and when there is a job to work on.
  /\ \A r \in Request : lock = r <=> asking[r] # "no"
  /\ lock = Executor <=> step \in {"store", "finish"}
  /\ mine = NoJob <=> step = "idle"

Init ==
  /\ created = 0
  /\ of     = [j \in Job |-> "none"]
  /\ status = [j \in Job |-> "none"]
  /\ error  = [j \in Job |-> "none"]
  /\ named  = [j \in Job |-> FALSE]
  /\ stored = [j \in Job |-> FALSE]
  /\ up = FALSE /\ closed = FALSE /\ lock = Free /\ known = {} /\ flag = {}
  /\ thread = FALSE
  /\ queue = <<>> /\ step = "idle" /\ mine = NoJob /\ outcome = "failed" /\ made = FALSE
  /\ asking = [r \in Request |-> "no"]
  /\ wanted = [r \in Request |-> "none"]
  /\ faults = 0 /\ boots = 0

\* A write that raises, or an executor that rejects: each spends the bound.
Fault == faults < MaxFaults /\ faults' = faults + 1 /\ UNCHANGED boots

-----------------------------------------------------------------------------
(* LocalRuntime.analyze, by a request thread.                              *)

\* Mutant of CanEnter: no lock.
CanEnterUnlocked == up
CanEnter == up /\ lock = Free

\* The latest row of the snapshot, if any, failed or was cancelled; any other
\* row is returned to the caller instead of a new job.
NewJobWanted(s) ==
  \A j \in Job :
    j <= created /\ of[j] = s /\ (\A k \in (j + 1)..created : of[k] # s)
      => status[j] \in Retryable

Pending == {j \in known : status[j] \in Active}

HasRoom == Cardinality(Pending) < Capacity

Look(r, s) ==
  /\ CanEnter /\ asking[r] = "no"
  /\ ~closed
  /\ NewJobWanted(s)
  /\ HasRoom
  /\ created < MaxJobs
  /\ lock' = r
  /\ asking' = [asking EXCEPT ![r] = "save"]
  /\ wanted' = [wanted EXCEPT ![r] = s]
  /\ UNCHANGED <<rows, up, closed, known, flag, pool, bounds>>

\* save_job of the queued row, then its Event.
SaveQueued(r) ==
  /\ asking[r] = "save"
  /\ created' = created + 1
  /\ of'     = [of     EXCEPT ![created + 1] = wanted[r]]
  /\ status' = [status EXCEPT ![created + 1] = "queued"]
  /\ known'  = known \cup {created + 1}
  /\ asking' = [asking EXCEPT ![r] = "submit"]
  /\ UNCHANGED <<error, named, stored, up, closed, lock, flag, pool, wanted, bounds>>

Return(r) ==
  /\ lock' = Free
  /\ asking' = [asking EXCEPT ![r] = "no"]
  /\ UNCHANGED wanted

SaveQueuedFails(r) ==
  /\ asking[r] = "save"
  /\ Fault
  /\ Return(r)
  /\ UNCHANGED <<rows, up, closed, known, flag, pool>>

Submit(r) ==
  /\ asking[r] = "submit"
  /\ queue' = Append(queue, created)
  /\ thread' = TRUE
  /\ Return(r)
  /\ UNCHANGED <<rows, up, closed, known, flag, step, mine, outcome, made, bounds>>

\* ThreadPoolExecutor.submit raises before it takes the job, or, when it cannot
\* start its first thread, after; then the next submit starts the thread.
SubmitFails(r) ==
  /\ asking[r] = "submit"
  /\ Fault
  /\ \E kept \in Rejection :
       /\ kept => ~thread
       /\ queue' = IF kept THEN Append(queue, created) ELSE queue
  /\ known' = known \ {created}
  /\ asking' = [asking EXCEPT ![r] = "undo"]
  /\ UNCHANGED <<rows, up, closed, lock, flag, thread, step, mine, outcome, made, wanted>>

SaveRejected(r) ==
  /\ asking[r] = "undo"
  /\ status' = [status EXCEPT ![created] = "failed"]
  /\ error'  = [error  EXCEPT ![created] = "ANALYSIS_FAILED"]
  /\ Return(r)
  /\ UNCHANGED <<created, of, named, stored, up, closed, known, flag, pool, bounds>>

SaveRejectedFails(r) ==
  /\ asking[r] = "undo"
  /\ Fault
  /\ Return(r)
  /\ UNCHANGED <<rows, up, closed, known, flag, pool>>

Analyze(r) ==
  \/ \E s \in Snapshot : Look(r, s)
  \/ SaveQueued(r) \/ SaveQueuedFails(r)
  \/ Submit(r) \/ SubmitFails(r)
  \/ SaveRejected(r) \/ SaveRejectedFails(r)

\* LocalRuntime.cancel: only a job of this process that has not ended.
Cancel(j) ==
  /\ CanEnter
  /\ j \in known \ flag
  /\ flag' = flag \cup {j}
  /\ UNCHANGED <<rows, up, closed, lock, known, pool, requests, bounds>>

-----------------------------------------------------------------------------
(* LocalRuntime._run, on the thread of the executor.                       *)

Start ==
  /\ thread /\ step = "idle" /\ queue # <<>>
  /\ mine' = Head(queue)
  /\ queue' = Tail(queue)
  /\ step' = "mark"
  /\ made' = FALSE
  /\ UNCHANGED <<rows, shared, thread, outcome, requests, bounds>>

\* save_job with status running: the one write of a job outside `_lock`.
MarkRunning ==
  /\ step = "mark"
  /\ status' = [status EXCEPT ![mine] = "running"]
  /\ step' = "analyse"
  /\ UNCHANGED <<created, of, error, named, stored, shared, thread, queue, mine, outcome, made,
                 requests, bounds>>

MarkRunningFails ==
  /\ step = "mark"
  /\ Fault
  /\ step' = "except"
  /\ UNCHANGED <<rows, shared, thread, queue, mine, outcome, made, requests>>

\* Coordinator.run polls stop.is_set(): it returns a cancelled report only if
\* the Event is set, and may have looked for the last time before it was.
Analyse(o) ==
  /\ step = "analyse"
  /\ o = "cancelled" => mine \in flag
  /\ outcome' = o
  /\ step' = "decide"
  /\ UNCHANGED <<rows, shared, thread, queue, mine, made, requests, bounds>>

AnalyseRaises ==
  /\ step = "analyse"
  /\ step' = "except"
  /\ UNCHANGED <<rows, shared, thread, queue, mine, outcome, made, requests, bounds>>

\* Mutant of StopSeen: the coordinator's answer is believed.
StopSeenByCoordinator == outcome = "cancelled"
\* The Event is asked for once more, under `_lock`.
StopSeen == mine \in flag

Decide ==
  /\ step = "decide" /\ lock = Free
  /\ lock' = Executor
  /\ step' = IF StopSeen THEN "finish" ELSE "store"
  /\ UNCHANGED <<rows, up, closed, known, flag, thread, queue, mine, outcome, made, requests, bounds>>

StoreReport ==
  /\ step = "store"
  /\ stored' = [stored EXCEPT ![mine] = TRUE]
  /\ made' = TRUE
  /\ step' = "finish"
  /\ UNCHANGED <<created, of, status, error, named, shared, thread, queue, mine, outcome,
                 requests, bounds>>

\* to_analysis_result or save_analysis raises: the with block frees `_lock`.
StoreReportFails ==
  /\ step = "store"
  /\ Fault
  /\ lock' = Free
  /\ step' = "except"
  /\ UNCHANGED <<rows, up, closed, known, flag, thread, queue, mine, outcome, made, requests>>

\* job.analysis_id is what was assigned to the object so far, `made`.
Save(s, code) ==
  /\ status' = [status EXCEPT ![mine] = s]
  /\ error'  = [error  EXCEPT ![mine] = code]
  /\ named'  = [named  EXCEPT ![mine] = made]
  /\ UNCHANGED <<created, of, stored>>

Leave ==
  /\ known' = known \ {mine}
  /\ lock' = Free
  /\ step' = "idle"
  /\ mine' = NoJob
  /\ UNCHANGED <<up, closed, flag, thread, queue, outcome, made, requests>>

Finish ==
  /\ step = "finish"
  /\ Save(IF StopSeen THEN "cancelled" ELSE outcome, "none")
  /\ Leave
  /\ UNCHANGED bounds

\* Mutant of FinishFails: the lock is not given back.
FinishFailsLocked ==
  /\ step = "finish"
  /\ Fault
  /\ step' = "except"
  /\ UNCHANGED <<rows, shared, thread, queue, mine, outcome, made, requests>>

FinishFails ==
  /\ step = "finish"
  /\ Fault
  /\ lock' = Free
  /\ step' = "except"
  /\ UNCHANGED <<rows, up, closed, known, flag, thread, queue, mine, outcome, made, requests>>

\* The handler of every exception above.
Recover ==
  /\ step = "except" /\ lock = Free
  /\ IF StopSeen THEN Save("cancelled", "none") ELSE Save("failed", "ANALYSIS_FAILED")
  /\ Leave
  /\ UNCHANGED bounds

\* The Event goes, the row stays as it is: nothing will ever run this job.
RecoverFails ==
  /\ step = "except" /\ lock = Free
  /\ Fault
  /\ Leave
  /\ UNCHANGED rows

Run ==
  \/ Start
  \/ MarkRunning \/ MarkRunningFails
  \/ (\E o \in Finished : Analyse(o)) \/ AnalyseRaises
  \/ Decide
  \/ StoreReport \/ StoreReportFails
  \/ Finish \/ FinishFails
  \/ Recover \/ RecoverFails

-----------------------------------------------------------------------------
(* The process: startup under the instance lock, close, and death.          *)

\* Mutant of Interrupted: only the job that was being worked on.
InterruptedRunning(j) == status[j] = "running"
Interrupted(j) == status[j] \in Active

\* The lifespan of the application: the instance lock is free once the previous
\* process is gone; recover_interrupted_jobs, then a new LocalRuntime.
Boot ==
  /\ ~up /\ boots < MaxBoots
  /\ up' = TRUE
  /\ boots' = boots + 1
  /\ status' = [j \in Job |-> IF Interrupted(j) THEN "failed" ELSE status[j]]
  /\ error'  = [j \in Job |-> IF Interrupted(j) THEN "INTERRUPTED" ELSE error[j]]
  /\ UNCHANGED <<created, of, named, stored, closed, lock, known, flag, pool, requests, faults>>

\* close: every pending job is asked to stop.
Close ==
  /\ CanEnter /\ ~closed
  /\ closed' = TRUE
  /\ flag' = flag \cup known
  /\ UNCHANGED <<rows, up, lock, known, pool, requests, bounds>>

\* What is gone with the process.
Vanish ==
  /\ up' = FALSE /\ closed' = FALSE /\ lock' = Free /\ known' = {} /\ flag' = {}
  /\ thread' = FALSE /\ queue' = <<>> /\ step' = "idle" /\ mine' = NoJob
  /\ outcome' = "failed" /\ made' = FALSE
  /\ asking' = [r \in Request |-> "no"]
  /\ wanted' = [r \in Request |-> "none"]
  /\ UNCHANGED <<rows, bounds>>

\* shutdown(wait=True) returns when the thread has run what was submitted.
Drained == step = "idle" /\ (queue = <<>> \/ ~thread)

Exit ==
  /\ up /\ closed
  /\ \A r \in Request : asking[r] = "no"
  /\ Drained
  /\ Vanish

Crash == up /\ Vanish

Next ==
  \/ \E r \in Request : Analyze(r)
  \/ \E j \in Job : Cancel(j)
  \/ Run
  \/ Boot \/ Close \/ Exit \/ Crash

Spec == Init /\ [][Next]_vars

\* The threads of a process keep running: a request inside `_lock` leaves it,
\* and the executor goes on with its job (Coordinator.run has a deadline).
\* Nobody has to start, close or keep up the process.
Fairness ==
  /\ WF_vars(Run)
  /\ \A r \in Request : WF_vars(SaveQueued(r) \/ Submit(r) \/ SaveRejected(r))

FairSpec == Spec /\ Fairness

-----------------------------------------------------------------------------
(* Properties.                                                             *)

Ended(j) == status[j] \in Finished

\* Nothing is analysed twice at a time: whatever threads ask together and
\* whatever fails, only the latest job of a snapshot can be unfinished
\* (the test of `existing` in LocalRuntime.analyze).
OnlyLatestActive ==
  \A i, j \in 1..created : i < j /\ of[i] = of[j] => Ended(i)

\* The executor never has more than Capacity jobs before it, those already
\* cancelled included ("analysis queue is full").
QueueBounded ==
  Len(queue) + (IF step = "idle" THEN 0 ELSE 1) <= Capacity

\* A job that ended with a report names one that is stored; a stored report is
\* unreachable from its ended job only if the process died between the two
\* writes (save_analysis and save_job are separate transactions).
ReportIsReachable ==
  \A j \in 1..created :
    /\ status[j] \in {"succeeded", "partial"} => named[j]
    /\ named[j] => stored[j]
    /\ stored[j] /\ Ended(j) /\ ~named[j] => error[j] = "INTERRUPTED"

\* A job whose cancellation was accepted ends as cancelled, although the
\* coordinator may have returned its report before the Event was set; and no
\* report of it is stored, unless a write failed: the cancel that comes after
\* StoreReport and FinishFails finds the report stored, and Recover saves the
\* row as cancelled with `analysis_id` naming it.
CancelIsHonoured ==
  \A j \in flag : Ended(j) =>
    /\ status[j] = "cancelled"
    /\ faults = 0 => ~stored[j]

\* Every unfinished job of a live process has somebody who will end it: its
\* Event can be set, and it is with the executor or the thread submitting it.
\* Only a failing last write leaves one behind.
InHand(j) ==
  \/ mine = j
  \/ \E i \in 1..Len(queue) : queue[i] = j
  \/ \E r \in Request : asking[r] \in {"submit", "undo"} /\ j = created

NothingStranded ==
  up /\ faults = 0 =>
    \A j \in 1..created : ~Ended(j) => j \in known /\ InHand(j)

\* An ended job is never rewritten, by a late thread or by recovery at startup.
EndIsFinalStep ==
  \A j \in Job : Ended(j) =>
    UNCHANGED <<status[j], error[j], named[j], stored[j]>>
EndIsFinal == [][EndIsFinalStep]_vars

\* A close that returns leaves no job unfinished, unless a last write failed.
CloseFinishesStep == Exit /\ faults = 0 => \A j \in 1..created : Ended(j)
CloseFinishesJobs == [][CloseFinishesStep]_vars

\* Left behind by a failed last write, until the next start.
Stranded(j) == up /\ ~Ended(j) /\ j \notin known

\* A queued job ends, unless the process goes down or its last write fails.
EveryAnalysisEnds ==
  \A j \in Job : status[j] = "queued" ~> Ended(j) \/ ~up \/ Stranded(j)

-----------------------------------------------------------------------------
(* The inductive invariant.                                                *)

\* Rows are inserted in order, active jobs carry no report yet, and what is
\* kept of a job in memory is kept of an active one.
RowInv ==
  /\ \A j \in Job : status[j] = "none" <=> created < j
  /\ \A j \in Job : j <= created => of[j] \in Snapshot
  /\ \A j \in Job : status[j] \in {"none", "queued"} => ~stored[j]
  /\ \A j \in Job : status[j] \in Active \cup {"none"} => ~named[j]
  /\ \A j \in known : status[j] \in Active
  /\ \A j \in flag : status[j] # "none"

\* Where the active jobs are, and that each is in one place only.
PlaceInv ==
  /\ \A i \in 1..Len(queue) : queue[i] \in known /\ status[queue[i]] = "queued"
  /\ \A i \in 1..Len(queue) : queue[i] # mine
  /\ \A i, k \in 1..Len(queue) : queue[i] = queue[k] => i = k
  /\ mine # NoJob => mine \in known
  /\ step = "mark" => status[mine] = "queued"
  /\ step \in {"analyse", "decide", "store", "finish"} => status[mine] = "running"
  /\ \A r \in Request :
       /\ asking[r] \in {"submit", "undo"} =>
            /\ created \in Job /\ status[created] = "queued"
            /\ created # mine /\ created \notin flag
            /\ \A i \in 1..Len(queue) : queue[i] # created
       /\ asking[r] = "submit" => created \in known
       /\ asking[r] = "undo"   => created \notin known /\ faults > 0

\* A thread about to insert a row still may.
AskInv ==
  \A r \in Request : asking[r] = "save" =>
    /\ created < MaxJobs
    /\ wanted[r] \in Snapshot
    /\ NewJobWanted(wanted[r])
    /\ Cardinality(known) < Capacity

Busy       == IF step = "idle" THEN 0 ELSE 1
Submitting == IF \E r \in Request : asking[r] = "submit" THEN 1 ELSE 0

\* `_stop` counts what the executor has before it.
CountInv ==
  /\ Cardinality(known) = Len(queue) + Busy + Submitting
  /\ Cardinality(known) <= Capacity

\* What `_run` has established about its job.
RunInv ==
  /\ mine # NoJob => stored[mine] = made
  /\ step = "finish" => (mine \in flag <=> ~made)
  /\ step = "except" /\ made => faults > 0
  /\ step \in {"mark", "analyse", "decide", "store"} => ~made
  /\ step \in {"decide", "store", "finish"} /\ outcome = "cancelled" => mine \in flag
  /\ step = "store" => mine \notin flag

\* Nothing is left in memory of a process that is down, and nothing waits for
\* a thread that does not exist.
DownInv ==
  /\ ~thread => queue = <<>> /\ step = "idle"
  /\ ~up => /\ known = {} /\ flag = {} /\ queue = <<>> /\ step = "idle"
            /\ lock = Free /\ ~closed /\ ~thread

IInv ==
  /\ TypeOK /\ RowInv /\ PlaceInv /\ AskInv /\ CountInv /\ RunInv /\ DownInv
  /\ OnlyLatestActive /\ ReportIsReachable /\ CancelIsHonoured /\ NothingStranded
=============================================================================
