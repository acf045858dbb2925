------------------------- MODULE Coordinator_proofs -------------------------
(***************************************************************************)
(* Proofs about Coordinator, for every set of roles and every size of the   *)
(* pool.  The invariants say what a report tells of the roles; they need    *)
(* what the caller knows on its way there: that `completed` holds ended     *)
(* tasks, why the loop was left, and that one answer of should_stop made    *)
(* all the states.                                                          *)
(***************************************************************************)
EXTENDS Coordinator, TLAPS

\* Every step keeps the inductive invariant.
LEMMA StepInv ==
  ASSUME IInv, [Next]_vars
  PROVE  IInv'

<1>1. CASE AskToStop
  BY <1>1
  DEF AskToStop, IInv, TypeOK, PathInv, LoopInv, StatesInv, ContractAccepts, CancelIsWhole,
      RolesAreReal, Errors, caller, pool, made
<1>2. CASE ChangeScope
  BY <1>2
  DEF ChangeScope, IInv, TypeOK, PathInv, LoopInv, StatesInv, ContractAccepts, CancelIsWhole,
      RolesAreReal, Errors, caller, pool, made
<1>3. CASE PrepareScope
  BY <1>3
  DEF PrepareScope, Preparing, CheckScope, Advance, Raise, IInv, TypeOK, PathInv, LoopInv,
      StatesInv, ContractAccepts, CancelIsWhole, RolesAreReal, world, pool, made
<1>4. CASE PrepareStop
  <2>1. CASE ~stop
    BY <1>4, <2>1
    DEF PrepareStop, Preparing, Advance, IInv, TypeOK, PathInv, LoopInv, StatesInv, ContractAccepts,
        CancelIsWhole, RolesAreReal, world, pool
  <2>2. CASE stop
    <3>1. /\ UNCHANGED <<world, error, pool, completed, states, results, at>>
          /\ pc = "prepare" /\ pc' = "end"
          /\ report' = [status |-> "cancelled", roles |-> AllCancelled, results |-> {}, graph |-> FALSE]
      <4>1. StatusOf(AllCancelled) = "cancelled"
        BY CoordinatorAssumption DEF StatusOf, AllCancelled
      <4>. QED
        BY <1>4, <2>2, <4>1 DEF PrepareStop, Preparing, MakeReport
    <3>2. report' \in Reports /\ report' # NoReport
      BY <3>1 DEF Reports, ReportStatus, RoleStatus, AllCancelled, NoReport
    <3>3. TypeOK' /\ PathInv' /\ LoopInv' /\ StatesInv'
      BY <3>1, <3>2
      DEF IInv, TypeOK, PathInv, LoopInv, StatesInv, ContractAccepts, CancelIsWhole, RolesAreReal,
          world, pool
    <3>4. ContractAccepts' /\ CancelIsWhole' /\ RolesAreReal'
      BY <2>2, <3>1 DEF ContractAccepts, CancelIsWhole, RolesAreReal, AllCancelled, world
    <3>. QED BY <3>3, <3>4 DEF IInv
  <2>. QED BY <2>1, <2>2
<1>5. CASE PrepareStopFails
  BY <1>5
  DEF PrepareStopFails, Preparing, AskFails, Raise, IInv, TypeOK, PathInv, LoopInv, StatesInv,
      ContractAccepts, CancelIsWhole, RolesAreReal, world, pool, made
<1>6. ASSUME NEW step \in {"validate", "parse", "analyse"}, Prepare(step) PROVE IInv'
  BY <1>6
  DEF Prepare, Preparing, Advance, Raise, IInv, TypeOK, PathInv, LoopInv, StatesInv,
      ContractAccepts, CancelIsWhole, RolesAreReal, world, pool, made
<1>7. CASE Submit
  BY <1>7
  DEF Submit, IInv, TypeOK, PathInv, LoopInv, StatesInv, ContractAccepts, CancelIsWhole,
      RolesAreReal, world, made
<1>8. CASE SubmitFails
  BY <1>8
  DEF SubmitFails, Raise, IInv, TypeOK, PathInv, LoopInv, StatesInv, ContractAccepts, CancelIsWhole,
      RolesAreReal, world, made
<1>9. CASE Loop
  BY <1>9
  DEF Loop, Go, IInv, TypeOK, PathInv, LoopInv, StatesInv, ContractAccepts, CancelIsWhole,
      RolesAreReal, world, pool, made
<1>10. CASE LoopFails
  BY <1>10
  DEF LoopFails, AskFails, Raise, IInv, TypeOK, PathInv, LoopInv, StatesInv, ContractAccepts,
      CancelIsWhole, RolesAreReal, world, pool, made
<1>11. CASE Wait
  BY <1>11
  DEF Wait, Go, IInv, TypeOK, PathInv, LoopInv, StatesInv, ContractAccepts, CancelIsWhole,
      RolesAreReal, world, pool
<1>12. CASE Recheck
  BY <1>12
  DEF Recheck, CheckScope, Raise, IInv, TypeOK, PathInv, LoopInv, StatesInv, ContractAccepts,
      CancelIsWhole, RolesAreReal, world, pool, made
<1>13. CASE Clock
  BY <1>13
  DEF Clock, Go, IInv, TypeOK, PathInv, LoopInv, StatesInv, ContractAccepts, CancelIsWhole,
      RolesAreReal, world, pool, made
<1>14. CASE Ask
  BY <1>14
  DEF Ask, Go, StateOf, Returned, IInv, TypeOK, PathInv, LoopInv, StatesInv, ContractAccepts,
      CancelIsWhole, RolesAreReal, RoleStatus, AllCancelled, world, pool
<1>15. CASE AskRaises
  BY <1>15
  DEF AskRaises, AskFails, Raise, IInv, TypeOK, PathInv, LoopInv, StatesInv, ContractAccepts,
      CancelIsWhole, RolesAreReal, world, pool, made
<1>16. CASE Last
  <2>1. CASE scope # "same"
    BY <1>16, <2>1
    DEF Last, CheckScope, Raise, IInv, TypeOK, PathInv, LoopInv, StatesInv, ContractAccepts,
        CancelIsWhole, RolesAreReal, world, pool
  <2>2. CASE scope = "same"
    <3> DEFINE graph == \A r \in Role : states[r] # "cancelled"
    <3>1. /\ UNCHANGED <<world, error, pool, completed, states, results, at>>
          /\ pc = "last" /\ pc' = "leave"
          /\ report' = MakeReport(states, results, graph)
      BY <1>16, <2>2 DEF Last, CheckScope
    <3>2. /\ states \in [Role -> RoleStatus]
          /\ error = "none"
      BY <3>1 DEF IInv, TypeOK, PathInv, StatesInv
    <3>3. report' \in Reports /\ report' # NoReport
      BY <3>1, <3>2 DEF MakeReport, StatusOf, Reports, ReportStatus, IInv, TypeOK, NoReport
    <3>4. TypeOK' /\ PathInv' /\ LoopInv' /\ StatesInv'
      BY <3>1, <3>2, <3>3
      DEF IInv, TypeOK, PathInv, LoopInv, StatesInv, ContractAccepts, CancelIsWhole, RolesAreReal,
          world, pool
    <3>5. ContractAccepts'
      BY <3>1, <3>2, CoordinatorAssumption
      DEF MakeReport, StatusOf, ContractAccepts, Errors, RoleStatus
    <3>6. \/ states = AllCancelled /\ results = {} /\ stop /\ ~graph
          \/ graph /\ results = {r \in Role : states[r] = "succeeded"}
      BY <3>1, CoordinatorAssumption DEF IInv, StatesInv, AllCancelled
    <3>7. CancelIsWhole'
      BY <3>1, <3>2, <3>6 DEF MakeReport, StatusOf, CancelIsWhole, world
    <3>8. RolesAreReal'
      BY <3>1, <3>2, <3>6 DEF MakeReport, RolesAreReal, AllCancelled, IInv, StatesInv, pool
    <3>. QED BY <3>4, <3>5, <3>7, <3>8 DEF IInv
  <2>. QED BY <2>1, <2>2
<1>17. CASE Leave
  BY <1>17
  DEF Leave, Go, IInv, TypeOK, PathInv, LoopInv, StatesInv, ContractAccepts, CancelIsWhole,
      RolesAreReal, Errors, world, made
<1>18. ASSUME NEW r \in Role, StartRole(r) PROVE IInv'
  BY <1>18
  DEF StartRole, IInv, TypeOK, PathInv, LoopInv, StatesInv, ContractAccepts, CancelIsWhole,
      RolesAreReal, Errors, world, caller, made
<1>19. ASSUME NEW r \in Role, EndRole(r) PROVE IInv'
  BY <1>19
  DEF EndRole, IInv, TypeOK, PathInv, LoopInv, StatesInv, ContractAccepts, CancelIsWhole,
      RolesAreReal, Errors, world, caller, made
<1>20. CASE DeadlinePasses
  BY <1>20
  DEF DeadlinePasses, IInv, TypeOK, PathInv, LoopInv, StatesInv, ContractAccepts, CancelIsWhole,
      RolesAreReal, Errors, world, caller, made
<1>21. CASE UNCHANGED vars
  BY <1>21
  DEF vars, IInv, TypeOK, PathInv, LoopInv, StatesInv, ContractAccepts, CancelIsWhole, RolesAreReal,
      Errors, world, caller, pool, made
<1>. QED
  BY <1>1, <1>2, <1>3, <1>4, <1>5, <1>6, <1>7, <1>8, <1>9, <1>10, <1>11, <1>12, <1>13, <1>14, <1>15,
     <1>16, <1>17, <1>18, <1>19, <1>20, <1>21
  DEF Next, Run

\* The initial states satisfy it.
LEMMA InitInv == Init => IInv
<1> SUFFICES ASSUME Init PROVE IInv
  OBVIOUS
<1>1. TypeOK
  <2>1. at \in 1..(Len(Preparation) + 1)
    BY DEF Init
  <2>. QED BY <2>1 DEF Init, TypeOK
<1>2. PathInv /\ LoopInv
  BY DEF Init, PathInv, LoopInv
<1>3. StatesInv
  BY DEF Init, StatesInv
<1>4. ContractAccepts /\ CancelIsWhole /\ RolesAreReal
  BY DEF Init, ContractAccepts, CancelIsWhole, RolesAreReal
<1>. QED BY <1>1, <1>2, <1>3, <1>4 DEF IInv

\* The inductive invariant holds in every state of every behaviour.
THEOREM Invariance == Spec => []IInv
<1>1. IInv /\ [Next]_vars => IInv'
  BY StepInv
<1>. QED BY InitInv, <1>1, PTL DEF Spec

\* Type correctness.
THEOREM TypeCorrect == Spec => []TypeOK
<1>1. IInv => TypeOK
  BY DEF IInv
<1>. QED BY Invariance, <1>1, PTL

\* Whatever ends, fails, hangs or is cancelled, and in whatever order, the
\* contract accepts the report (_report, to_analysis_result, coherent_status).
THEOREM ReportsAccepted == Spec => []ContractAccepts
<1>1. IInv => ContractAccepts
  BY DEF IInv
<1>. QED BY Invariance, <1>1, PTL

\* A report is cancelled as a whole, and then stop was set, or not at all.
THEOREM CancelledWhole == Spec => []CancelIsWhole
<1>1. IInv => CancelIsWhole
  BY DEF IInv
<1>. QED BY Invariance, <1>1, PTL

\* What a report says of each role is what became of its task.
THEOREM RolesReported == Spec => []RolesAreReal
<1>1. IInv => RolesAreReal
  BY DEF IInv
<1>. QED BY Invariance, <1>1, PTL

\* Only the deadline makes a role time out.
THEOREM TimedOutLate == Spec => []TimeoutIsLate
<1>1. IInv => TimeoutIsLate
  BY DEF IInv, StatesInv, TimeoutIsLate
<1>. QED BY Invariance, <1>1, PTL

\* After run has ended, no task of its pool is queued any more.
QueueInv == pc = "end" /\ error # "pool" => \A r \in Role : task[r] # "queued"

\* Every step keeps it: only Leave and SubmitFails reach the end, and a task is
\* never queued again.
LEMMA QueueStep ==
  ASSUME IInv, QueueInv, [Next]_vars
  PROVE  QueueInv'
<1>1. CASE Run
  <2>1. CASE Leave
    BY <2>1 DEF Leave, Go, QueueInv, IInv, TypeOK
  <2>2. CASE SubmitFails
    BY <2>2 DEF SubmitFails, Raise, QueueInv
  <2>3. CASE UNCHANGED task /\ pc = "prepare"
    BY <2>3 DEF QueueInv, IInv, PathInv
  <2>4. CASE pc \in {"loop", "wait", "recheck", "clock", "ask", "last"} /\ pc' # "end"
    BY <2>4 DEF QueueInv
  <2>5. CASE Submit
    BY <2>5 DEF Submit, QueueInv
  <2>. QED
    BY <1>1, <2>1, <2>2, <2>3, <2>4, <2>5
    DEF Run, PrepareScope, PrepareStop, PrepareStopFails, Prepare, Preparing, Loop, LoopFails, Wait,
        Recheck, Clock, Ask, AskRaises, Last, CheckScope, AskFails, Raise, Go, pool
<1>2. ASSUME NEW r \in Role, StartRole(r) \/ EndRole(r) PROVE QueueInv'
  BY <1>2 DEF StartRole, EndRole, QueueInv, IInv, TypeOK, caller
<1>3. CASE AskToStop \/ ChangeScope \/ DeadlinePasses \/ UNCHANGED vars
  BY <1>3 DEF AskToStop, ChangeScope, DeadlinePasses, vars, QueueInv, caller, pool
<1>. QED BY <1>1, <1>2, <1>3 DEF Next

\* No role of a call is started once the call has returned.
THEOREM NoneStartsLate == Spec => NoLateStart
<1>1. Init => QueueInv
  BY DEF Init, QueueInv
<1>2. IInv /\ QueueInv /\ [Next]_vars => QueueInv'
  BY QueueStep
<1>3. IInv /\ QueueInv /\ [Next]_vars => [NoLateStartStep]_vars
  <2> SUFFICES ASSUME IInv, QueueInv, Next, pc = "end", error # "pool", NEW r \in Role, task'[r] = "running"
               PROVE  task[r] = "running"
    BY DEF NoLateStartStep
  <2>1. CASE UNCHANGED task
    BY <2>1
  <2>2. ASSUME NEW q \in Role, StartRole(q) PROVE FALSE
    BY <2>2 DEF StartRole, QueueInv
  <2>3. ASSUME NEW q \in Role, EndRole(q) PROVE task[r] = "running"
    BY <2>3 DEF EndRole, IInv, TypeOK
  <2>. QED
    BY <2>1, <2>2, <2>3
    DEF Next, Run, PrepareScope, PrepareStop, PrepareStopFails, Prepare, Preparing, Submit,
        SubmitFails, Loop, LoopFails, Wait, Recheck, Clock, Ask, AskRaises, Last, Leave, Go,
        AskToStop, ChangeScope, DeadlinePasses, pool
<1>. QED BY Invariance, <1>1, <1>2, <1>3, PTL DEF Spec, NoLateStart

-----------------------------------------------------------------------------
(* Revocation.                                                             *)

\* The pool exists and no report does.
Unreported == pc # "prepare" /\ report = NoReport

\* While the scope is not the same nothing makes a report: the last check is made with it.
LEMMA RevokedStep ==
  ASSUME Unreported, scope # "same", [Next]_vars
  PROVE  Unreported'
<1>1. CASE Loop \/ LoopFails \/ Wait \/ Recheck \/ Clock \/ Ask \/ AskRaises \/ Leave
  BY <1>1
  DEF Unreported, Loop, LoopFails, Wait, Recheck, Clock, Ask, AskRaises, Leave, Go, CheckScope,
      AskFails, Raise, made
<1>2. CASE Last
  BY <1>2 DEF Unreported, Last, CheckScope, Raise
<1>3. CASE PrepareScope \/ PrepareStop \/ PrepareStopFails \/ Submit \/ SubmitFails
           \/ \E step \in {"validate", "parse", "analyse"} : Prepare(step)
  BY <1>3
  DEF Unreported, PrepareScope, PrepareStop, PrepareStopFails, Submit, SubmitFails, Prepare, Preparing
<1>4. CASE AskToStop \/ ChangeScope \/ (\E r \in Role : StartRole(r) \/ EndRole(r))
           \/ DeadlinePasses \/ UNCHANGED vars
  BY <1>4
  DEF Unreported, AskToStop, ChangeScope, StartRole, EndRole, DeadlinePasses, caller, made, vars
<1>. QED BY <1>1, <1>2, <1>3, <1>4 DEF Next, Run

\* A scope that is withdrawn while roles are awaited or their results collected, and stays
\* so, leaves no report, whatever ends, stops or is late in the meantime.
THEOREM RevocationHeeded == Spec => RevokedIsNotReported
<1>1. IInv /\ Revoked => Unreported
  BY DEF IInv, PathInv, Revoked, Unreported
<1>2. Unreported /\ scope # "same" /\ [Next]_vars => Unreported'
  BY RevokedStep
<1>3. Unreported => report = NoReport
  BY DEF Unreported
<1>. QED BY Invariance, <1>1, <1>2, <1>3, PTL DEF Spec, RevokedIsNotReported

-----------------------------------------------------------------------------
(* The refinement: a call answers once, and is cancelled only if asked to.  *)

\* Every step is one of the promise or leaves both of its variables alone.
LEMMA PromiseStep ==
  ASSUME IInv, IInv', [Next]_vars
  PROVE  [Promise!Next]_<<stop, Answered>>
<1>1. CASE AskToStop
  BY <1>1 DEF AskToStop, Promise!Next, Promise!AskToStop, Answered, caller, made
<1>2. CASE UNCHANGED <<stop, error, report>>
  BY <1>2 DEF Answered
<1>3. ASSUME UNCHANGED stop, Answered = "none", Answered' # "none"
      PROVE  Promise!Next
  <2>1. Answered' \in Promise!Report \cup {"raised"}
    BY <1>3 DEF Answered, IInv, TypeOK, Reports, ReportStatus, Promise!Report
  <2>2. Answered' = "cancelled" => stop
    BY <1>3 DEF Answered, IInv, CancelIsWhole
  <2>. QED BY <1>3, <2>1, <2>2 DEF Promise!Next, Promise!Answer
<1>4. CASE Run
  <2>1. UNCHANGED stop
    BY <1>4
    DEF Run, PrepareScope, PrepareStop, PrepareStopFails, Prepare, Submit, SubmitFails, Loop,
        LoopFails, Wait, Recheck, Clock, Ask, AskRaises, Last, Leave, AskFails, world
  <2>2. CASE pc \in {"leave", "end"}
    BY <1>4, <2>2, <1>2
    DEF Run, PrepareScope, PrepareStop, PrepareStopFails, Prepare, Preparing, Submit, SubmitFails,
        Loop, LoopFails, Wait, Recheck, Clock, Ask, AskRaises, Last, Leave, Go, world, made
  <2>3. CASE pc \notin {"leave", "end"}
    <3>1. Answered = "none"
      BY <2>3 DEF Answered, IInv, PathInv
    <3>2. CASE Answered' = "none"
      BY <2>1, <3>1, <3>2
    <3>. QED BY <1>3, <2>1, <3>1, <3>2
  <2>. QED BY <2>2, <2>3
<1>5. CASE (\E r \in Role : StartRole(r) \/ EndRole(r)) \/ ChangeScope \/ DeadlinePasses \/ UNCHANGED vars
  BY <1>2, <1>5 DEF StartRole, EndRole, ChangeScope, DeadlinePasses, vars, world, caller, made
<1>. QED BY <1>1, <1>4, <1>5 DEF Next

\* Coordinator.run implements what LocalRuntime and the job worker assume of an
\* analysis.
THEOREM Refinement == Spec => KeepsPromise
<1>1. Init => Promise!Init
  BY DEF Init, Promise!Init, Answered
<1>2. IInv /\ IInv' /\ [Next]_vars => [Promise!Next]_<<stop, Answered>>
  BY PromiseStep
<1>. QED BY Invariance, <1>1, <1>2, PTL DEF Spec, KeepsPromise, Promise!Spec
=============================================================================
