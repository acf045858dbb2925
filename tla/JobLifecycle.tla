---------------------------- MODULE JobLifecycle ----------------------------
(***************************************************************************)
(* What the job queue promises its callers, without leases, tokens, clocks   *)
(* or workers: a job is submitted with a budget of attempts, each start      *)
(* spends one, and it ends once, with the report that belongs to its end.    *)
(* A job asked to stop while it is worked on can only end as cancelled.      *)
(***************************************************************************)
EXTENDS Naturals

CONSTANTS Job, AttemptLimits

VARIABLES
  phase,    \* how far the job is
  left,     \* attempts it may still start
  stopping, \* its owner asked it to stop
  ending,   \* how it ended
  report    \* what was published with its end

life == <<phase, left, stopping, ending, report>>

TypeOK ==
  /\ phase    \in [Job -> {"absent", "waiting", "working", "ended"}]
  /\ left     \in [Job -> Nat]
  /\ stopping \in [Job -> BOOLEAN]
  /\ ending   \in [Job -> {"none", "completed", "partial", "failed", "cancelled"}]
  /\ report   \in [Job -> {"none", "succeeded", "partial", "failed", "cancelled"}]

Init ==
  /\ phase    = [j \in Job |-> "absent"]
  /\ left     = [j \in Job |-> 0]
  /\ stopping = [j \in Job |-> FALSE]
  /\ ending   = [j \in Job |-> "none"]
  /\ report   = [j \in Job |-> "none"]

Submit(j) ==
  /\ phase[j] = "absent" /\ phase'[j] = "waiting"
  /\ left'[j] \in AttemptLimits
  /\ UNCHANGED <<stopping[j], ending[j], report[j]>>

\* Also a job whose attempt got lost is started again, unless it is to stop.
Start(j) ==
  /\ phase[j] = "waiting" \/ (phase[j] = "working" /\ ~stopping[j])
  /\ phase'[j] = "working"
  /\ left[j] > 0 /\ left'[j] = left[j] - 1
  /\ UNCHANGED <<stopping[j], ending[j], report[j]>>

GiveBack(j) ==
  /\ phase[j] = "working" /\ ~stopping[j] /\ left[j] > 0
  /\ phase'[j] = "waiting"
  /\ UNCHANGED <<left[j], stopping[j], ending[j], report[j]>>

AskToStop(j) ==
  /\ stopping'[j]
  /\ \/ phase[j] = "waiting" /\ phase'[j] = "ended" /\ ending'[j] = "cancelled"
     \/ phase[j] = "working" /\ UNCHANGED <<phase[j], ending[j]>>
  /\ UNCHANGED <<left[j], report[j]>>

\* The reports that may be published with each end.
ReportsOf(e) ==
  CASE e = "completed" -> {"succeeded"}
    [] e = "partial"   -> {"partial"}
    [] e = "failed"    -> {"failed", "none"}
    [] e = "cancelled" -> {"cancelled", "none"}

End(j) ==
  /\ phase[j] = "working" /\ phase'[j] = "ended"
  /\ IF stopping[j] THEN ending'[j] = "cancelled"
                    ELSE ending'[j] \in {"completed", "partial", "failed"}
  /\ report'[j] \in ReportsOf(ending'[j])
  /\ UNCHANGED <<left[j], stopping[j]>>

Rest(j) == UNCHANGED <<phase[j], left[j], stopping[j], ending[j], report[j]>>

\* Jobs are independent; several may move in one step.
Next ==
  /\ TypeOK'
  /\ \A j \in Job :
       Submit(j) \/ Start(j) \/ GiveBack(j) \/ AskToStop(j) \/ End(j) \/ Rest(j)

Spec == Init /\ [][Next]_life
=============================================================================
