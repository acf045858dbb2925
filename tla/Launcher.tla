------------------------------ MODULE Launcher ------------------------------
(***************************************************************************)
(* Runs of the product launcher (backend/app/api/local_launcher.py) on one  *)
(* machine: each starts the model server, the HTTPS site and the analysis   *)
(* worker as its children, watches them, and ends them.  Runs share two     *)
(* ports and two files, state.json and stop.json, by which open.ps1 and     *)
(* stop.ps1 (deployment/local-app) find and stop the run.                    *)
(***************************************************************************)
EXTENDS Naturals, FiniteSets

CONSTANTS
  Run,      \* runs of the launcher, each with a run_id of its own
  None,     \* no run
  MaxFaults \* bound: crashes of children, kills of launchers, kills without effect

ASSUME LauncherAssumption ==
  None \notin Run /\ MaxFaults \in Nat

VARIABLES
  pc, child,       \* of each run: where its launcher is, what became of its children
  record, request, \* the run_id in state.json and in stop.json
  awaited, told,   \* stop.ps1: the run it waits for, the runs it reported as stopped
  overlapped,      \* history: open.ps1 started a launcher beside another
  faults

vars == <<pc, child, record, request, awaited, told, overlapped, faults>>

Role   == {"model", "site", "worker"}
Served == {"model", "site"}       \* with a port of its own: 8767, 8443
Starting == {"check", "build", "load"} \cup Role
Stopping == {"stop worker", "stop site", "stop model", "clean"}

TypeOK ==
  /\ pc \in [Run -> {"off", "watch", "end", "refused", "killed", "stuck"} \cup Starting \cup Stopping]
  /\ child \in [Run -> [Role -> {"none", "loading", "up", "dead"}]]
  /\ record \in Run \cup {None} /\ request \in Run \cup {None}
  /\ awaited \in Run \cup {None} /\ told \subseteq Run
  /\ overlapped \in BOOLEAN /\ faults \in 0..MaxFaults

Init ==
  /\ pc = [l \in Run |-> "off"]
  /\ child = [l \in Run |-> [r \in Role |-> "none"]]
  /\ record = None /\ request = None
  /\ awaited = None /\ told = {} /\ overlapped = FALSE /\ faults = 0

Alive(l, r) == child[l][r] \in {"loading", "up"}

\* The runs whose launcher's process exists.
Live == {l \in Run : pc[l] \in {"watch"} \cup Starting \cup Stopping}

\* The runs whose child listens on the port of role r.
Listeners(r) == {l \in Run : child[l][r] = "up"}

Goto(l, where) == pc' = [pc EXCEPT ![l] = where]
Become(l, r, what) == child' = [child EXCEPT ![l][r] = what]

files == <<record, request>>
user  == <<awaited, told, overlapped>>

-----------------------------------------------------------------------------
(* The user's scripts.                                                     *)

\* open.ps1: a recorded run whose launcher lives is shown or refused; a record
\* without a launcher is removed; a site of somebody else is left alone.
Open(l) ==
  /\ pc[l] = "off"
  /\ record \notin Live
  /\ Listeners("site") = {}
  /\ record' = None
  /\ Goto(l, "check")
  /\ overlapped' = (overlapped \/ Live # {})
  /\ UNCHANGED <<child, request, awaited, told, faults>>

\* stop.ps1: a record whose four processes are there is asked to stop.
AskStop ==
  /\ awaited = None
  /\ record \in Live /\ \A r \in Role : Alive(record, r)
  /\ request' = record /\ awaited' = record
  /\ UNCHANGED <<pc, child, record, told, overlapped, faults>>

\* It waits for the record to be gone, for 25 seconds.
Stopped ==
  /\ awaited # None /\ record = None
  /\ told' = told \cup {awaited} /\ awaited' = None
  /\ UNCHANGED <<pc, child, files, overlapped, faults>>

\* Mutant of GivesUp: the record is removed by force.
GivesUpForced ==
  /\ awaited # None /\ record # None
  /\ awaited' = None /\ record' = None
  /\ UNCHANGED <<pc, child, request, told, overlapped, faults>>
GivesUp ==
  /\ awaited # None /\ record # None
  /\ awaited' = None
  /\ UNCHANGED <<pc, child, files, told, overlapped, faults>>

-----------------------------------------------------------------------------
(* The launcher.                                                           *)

\* _preflight: the settings are there, PostgreSQL and Qdrant answer, and both ports
\* can be bound at this moment; or it raises before anything is started.
Preflight(l) ==
  /\ pc[l] = "check"
  /\ \/ (\A r \in Served : Listeners(r) = {}) /\ Goto(l, "build")
     \/ Goto(l, "refused")
  /\ UNCHANGED <<child, files, user, faults>>

\* The frontend is up to date, or is built, or cannot be.
Frontend(l) ==
  /\ pc[l] = "build"
  /\ \E next \in {"load", "refused"} : Goto(l, next)
  /\ UNCHANGED <<child, files, user, faults>>

\* The model server is started, and begins to load its weights.
StartModel(l) ==
  /\ pc[l] = "load"
  /\ \/ Goto(l, "model") /\ Become(l, "model", "loading")
     \/ Goto(l, "refused") /\ UNCHANGED child
  /\ UNCHANGED <<files, user, faults>>

\* What is started when role r is ready.
After(r) == IF r = "model" THEN "site" ELSE "worker"

\* _ready_model, _ready_site: the child is there and somebody answers on the
\* port, not necessarily the child.  The next child is started.
Ready(l, r) ==
  /\ pc[l] = r /\ r \in Served
  /\ Alive(l, r) /\ Listeners(r) # {}
  /\ Goto(l, After(r))
  /\ Become(l, After(r), IF After(r) \in Served THEN "loading" ELSE "up")
  /\ UNCHANGED <<files, user, faults>>

\* The child is gone, the deadline has passed, what answers is something else, or
\* the next child cannot be started.
NotReady(l) ==
  /\ pc[l] \in Served
  /\ Goto(l, "stop worker")
  /\ UNCHANGED <<child, files, user, faults>>

\* The worker is looked at once, after two seconds; then state.json is written.
WriteRecord(l) ==
  /\ pc[l] = "worker"
  /\ IF Alive(l, "worker")
     THEN record' = l /\ Goto(l, "watch")
     ELSE Goto(l, "stop worker") /\ UNCHANGED record
  /\ UNCHANGED <<child, request, user, faults>>

\* Mutants of Watch: the site is not watched; the record goes before the children.
WatchTwo(l) ==
  /\ pc[l] = "watch"
  /\ request = l \/ \E r \in {"model", "worker"} : ~Alive(l, r)
  /\ Goto(l, "stop worker")
  /\ UNCHANGED <<child, files, user, faults>>
WatchUnlinks(l) ==
  /\ pc[l] = "watch"
  /\ request = l \/ \E r \in Role : ~Alive(l, r)
  /\ Goto(l, "stop worker") /\ record' = None
  /\ UNCHANGED <<child, request, user, faults>>
\* A child that ended, or a stop.json with the run_id of this run.
Watch(l) ==
  /\ pc[l] = "watch"
  /\ request = l \/ \E r \in Role : ~Alive(l, r)
  /\ Goto(l, "stop worker")
  /\ UNCHANGED <<child, files, user, faults>>

StopStep(r) ==
  CASE r = "worker" -> "stop worker" [] r = "site" -> "stop site" [] r = "model" -> "stop model"
AfterStop(r) ==
  CASE r = "worker" -> "stop site" [] r = "site" -> "stop model" [] r = "model" -> "clean"

\* Mutant of Stop: a child that is still loading is left to itself.
StopUp(l, r) ==
  /\ pc[l] = StopStep(r) /\ Goto(l, AfterStop(r))
  /\ IF child[l][r] = "up" THEN Become(l, r, "dead") ELSE UNCHANGED child
  /\ UNCHANGED <<files, user, faults>>
\* _stop: terminate, then kill.
Stop(l, r) ==
  /\ pc[l] = StopStep(r) /\ Goto(l, AfterStop(r))
  /\ IF Alive(l, r) THEN Become(l, r, "dead") ELSE UNCHANGED child
  /\ UNCHANGED <<files, user, faults>>

\* A child that even a kill does not end in ten seconds: wait raises out of the
\* finally block, and the rest of it is not run.
Stuck(l, r) ==
  /\ pc[l] = StopStep(r) /\ Alive(l, r)
  /\ faults < MaxFaults /\ faults' = faults + 1
  /\ Goto(l, "stuck")
  /\ UNCHANGED <<child, files, user>>

\* state.json is removed, whoever wrote it; stop.json if it is for this run.
Clean(l) ==
  /\ pc[l] = "clean" /\ Goto(l, "end")
  /\ record' = None
  /\ request' = IF request = l THEN None ELSE request
  /\ UNCHANGED <<child, user, faults>>

-----------------------------------------------------------------------------
(* The machine.                                                            *)

\* A server has loaded and binds its port.  If another listens there the site
\* ends; the model server, whose socket is made with SO_REUSEADDR, may end or, on
\* Windows, listen beside it.
Bind(l, r) ==
  /\ child[l][r] = "loading"
  /\ \/ Listeners(r) = {} /\ Become(l, r, "up")
     \/ Listeners(r) # {} /\ Become(l, r, "dead")
     \/ Listeners(r) # {} /\ r = "model" /\ Become(l, r, "up")
  /\ UNCHANGED <<pc, files, user, faults>>

Crash(l, r) ==
  /\ Alive(l, r) /\ Become(l, r, "dead")
  /\ faults < MaxFaults /\ faults' = faults + 1
  /\ UNCHANGED <<pc, files, user>>

\* The launcher's own process is killed: its children stay.
Kill(l) ==
  /\ l \in Live /\ Goto(l, "killed")
  /\ faults < MaxFaults /\ faults' = faults + 1
  /\ UNCHANGED <<child, files, user>>

Launch(l) ==
  \/ Preflight(l) \/ Frontend(l) \/ StartModel(l) \/ NotReady(l)
  \/ WriteRecord(l) \/ Watch(l) \/ Clean(l)
  \/ \E r \in Served : Ready(l, r)
  \/ \E r \in Role : Stop(l, r) \/ Stuck(l, r)

Next ==
  \/ AskStop \/ Stopped \/ GivesUp
  \/ \E l \in Run : Open(l) \/ Launch(l) \/ Kill(l)
  \/ \E l \in Run, r \in Served : Bind(l, r)
  \/ \E l \in Run, r \in Role : Crash(l, r)

Spec == Init /\ [][Next]_vars

\* A launcher that is not killed goes on: its waits have deadlines.
FairSpec == Spec /\ \A l \in Run : WF_vars(Launch(l))

-----------------------------------------------------------------------------
(* Properties.                                                             *)

\* A launcher that ended has ended every child it started, however far it had
\* come, unless a kill had no effect (finally, _stop).
NoOrphans ==
  \A l \in Run : pc[l] \in {"clean", "end", "refused"} => \A r \in Role : ~Alive(l, r)

\* While launchers do not overlap: when stop.ps1 reports that the application is
\* closed nothing of the run it named is left, unless its launcher did not come to
\* its end.  The record goes after the children.
ClosedMeansStopped ==
  ~overlapped =>
    \A l \in told : pc[l] \in {"killed", "stuck"} \/ \A r \in Role : ~Alive(l, r)

\* stop.ps1 finds the run by its record: a run that is watched is the recorded one.
RunIsRecorded == \A l \in Run : pc[l] = "watch" => record = l

\* It does as long as launchers do not overlap, whatever killed runs left behind.
FoundWhenAlone == ~overlapped => RunIsRecorded

\* The end of any child ends the launcher, and so does a stop that was asked for,
\* unless launchers overlap and it is asked of another before it is read.
StopIsCarriedOut ==
  \A l \in Run :
    LET Over == pc[l] \in {"end", "killed", "stuck"} IN
    /\ pc[l] = "watch" /\ (\E r \in Role : ~Alive(l, r)) ~> Over
    /\ pc[l] = "watch" /\ request = l ~> Over \/ overlapped
=============================================================================
