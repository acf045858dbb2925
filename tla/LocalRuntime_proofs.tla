------------------------ MODULE LocalRuntime_proofs -------------------------
(***************************************************************************)
(* The safety properties of LocalRuntime for every set of snapshots and      *)
(* request threads, every capacity and every number of failing writes and    *)
(* restarts, provided an executor that rejects a job does not keep it        *)
(* (Refused; the run local_rejected shows what happens otherwise).           *)
(* Each part of the inductive invariant has a lemma of its own, with one      *)
(* step per action.                                                         *)
(***************************************************************************)
EXTENDS LocalRuntime, TLAPS, FiniteSetTheorems, SequenceTheorems

\* A submit that raises has not taken the job.
Refused == Rejection \subseteq {FALSE}

\* The handler of exceptions saves a retryable end of the job it works on.
LEMMA RecoverSaves ==
  ASSUME IInv, Recover
  PROVE  /\ mine \in Job /\ mine \in known
         /\ \E s \in Retryable, c \in Code : Save(s, c)
<1>1. mine \in Job /\ mine \in known
  BY DEF Recover, IInv, TypeOK, PlaceInv, NoJob
<1>2. Save("cancelled", "none") \/ Save("failed", "ANALYSIS_FAILED")
  BY DEF Recover
<1>. QED BY <1>1, <1>2 DEF Retryable, Code

\* Every step keeps the types, and who holds `_lock`.
LEMMA TypeStep ==
  ASSUME IInv, [Next]_vars, Refused
  PROVE  TypeOK'
<1>1. ASSUME NEW r \in Request, NEW s \in Snapshot, Look(r, s) PROVE TypeOK'
  BY <1>1, LocalAssumption DEF Look, CanEnter, HasRoom, IInv, TypeOK, Free, Executor,
      rows, pool, bounds
<1>2. ASSUME NEW r \in Request, SaveQueued(r) PROVE TypeOK'
  BY <1>2, LocalAssumption DEF SaveQueued, IInv, TypeOK, Job, Active, AskInv, pool, bounds
<1>3. ASSUME NEW r \in Request, SaveQueuedFails(r) PROVE TypeOK'
  BY <1>3, LocalAssumption DEF SaveQueuedFails, Return, Fault, IInv, TypeOK, Free,
      Executor, rows, pool
<1>4. ASSUME NEW r \in Request, Submit(r) PROVE TypeOK'
  BY <1>4, LocalAssumption, AppendProperties DEF Submit, Return, IInv, TypeOK, Free,
      Executor, PlaceInv, rows, bounds
<1>5. ASSUME NEW r \in Request, SubmitFails(r) PROVE TypeOK'
  <2>1. queue' = queue
    BY <1>5 DEF SubmitFails, Refused
  <2>. QED
    BY <1>5, <2>1, LocalAssumption
    DEF SubmitFails, Fault, IInv, TypeOK, NoJob, Free, Executor, rows, pool
<1>6. ASSUME NEW r \in Request, SaveRejected(r) PROVE TypeOK'
  BY <1>6, LocalAssumption DEF SaveRejected, Return, IInv, TypeOK, Finished, Code, Free,
      Executor, pool, bounds
<1>7. ASSUME NEW r \in Request, SaveRejectedFails(r) PROVE TypeOK'
  BY <1>7, LocalAssumption DEF SaveRejectedFails, Return, Fault, IInv, TypeOK, Free,
      Executor, rows, pool
<1>8. ASSUME NEW j \in Job, Cancel(j) PROVE TypeOK'
  BY <1>8 DEF Cancel, CanEnter, IInv, TypeOK, rows, pool, requests, bounds
<1>9. CASE Start
  <2>1. /\ queue \in Seq(Job) /\ queue # <<>>
        /\ lock = Executor <=> step \in {"store", "finish"}
    BY <1>9 DEF Start, IInv, TypeOK
  <2>2. mine' \in Job /\ queue' \in Seq(Job)
    BY <1>9, <2>1, HeadTailProperties DEF Start
  <2>3. mine' # NoJob
    BY <2>2 DEF Job, NoJob
  <2>. QED
    BY <1>9, <2>1, <2>2, <2>3
    DEF Start, IInv, TypeOK, rows, shared, requests, bounds
<1>10. CASE MarkRunning
  BY <1>10 DEF MarkRunning, IInv, TypeOK, Active, shared, requests, bounds
<1>11. CASE MarkRunningFails
  BY <1>11, LocalAssumption DEF MarkRunningFails, Fault, IInv, TypeOK, rows, shared,
      requests
<1>12. ASSUME NEW o \in Finished, Analyse(o) PROVE TypeOK'
  BY <1>12 DEF Analyse, IInv, TypeOK, rows, shared, requests, bounds
<1>13. CASE AnalyseRaises
  BY <1>13 DEF AnalyseRaises, IInv, TypeOK, rows, shared, requests, bounds
<1>14. CASE Decide
  BY <1>14, LocalAssumption DEF Decide, StopSeen, IInv, TypeOK, rows, requests, bounds
<1>15. CASE StoreReport
  BY <1>15 DEF StoreReport, IInv, TypeOK, shared, requests, bounds
<1>16. CASE StoreReportFails
  BY <1>16, LocalAssumption DEF StoreReportFails, Fault, IInv, TypeOK, Free, Executor,
      rows, requests
<1>17. CASE Finish
  BY <1>17, LocalAssumption DEF Finish, Save, Leave, StopSeen, IInv, TypeOK, Finished,
      Code, Free, Executor, requests, bounds
<1>18. CASE FinishFails
  BY <1>18, LocalAssumption DEF FinishFails, Fault, IInv, TypeOK, Free, Executor, rows,
      requests
<1>19. CASE Recover
  <2>1. mine \in Job /\ made \in BOOLEAN
    BY <1>19 DEF Recover, IInv, TypeOK, NoJob
  <2>2. /\ status' \in [Job -> Active \cup Finished \cup {"none"}]
        /\ error'  \in [Job -> Code]
        /\ named'  \in [Job -> BOOLEAN]
        /\ UNCHANGED <<created, of, stored>>
    BY <1>19, <2>1 DEF Recover, StopSeen, Save, IInv, TypeOK, Active, Finished, Code
  <2>. QED
    BY <1>19, <2>2, LocalAssumption
    DEF Recover, Leave, IInv, TypeOK, NoJob, Free, Executor, requests, bounds
<1>20. CASE RecoverFails
  BY <1>20, LocalAssumption DEF RecoverFails, Leave, Fault, IInv, TypeOK, rows, requests
<1>21. CASE Boot
  BY <1>21, LocalAssumption DEF Boot, Interrupted, IInv, TypeOK, Finished, Code, pool,
      requests
<1>22. CASE Close
  BY <1>22 DEF Close, CanEnter, IInv, TypeOK, rows, pool, requests, bounds
<1>23. CASE Vanish
  <2>1. queue' \in Seq(Job)
    BY <1>23 DEF Vanish
  <2>. QED
    BY <1>23, <2>1, LocalAssumption
    DEF Vanish, IInv, TypeOK, Finished, NoJob, Free, Executor, rows, bounds
<1>24. CASE UNCHANGED vars
  BY <1>24 DEF vars, IInv, TypeOK, rows, shared, pool, requests, bounds
<1>. QED
  BY <1>1, <1>2, <1>3, <1>4, <1>5, <1>6, <1>7, <1>8, <1>9, <1>10, <1>11, <1>12, <1>13,
     <1>14, <1>15, <1>16, <1>17, <1>18, <1>19, <1>20, <1>21, <1>22, <1>23, <1>24
  DEF Next, Analyze, Run, Exit, Crash

\* Rows are only ever added at the end, and rewritten while they are active.
LEMMA RowStep ==
  ASSUME IInv, [Next]_vars, Refused
  PROVE  RowInv'
<1>1. ASSUME NEW r \in Request, NEW s \in Snapshot, Look(r, s) PROVE RowInv'
  BY <1>1 DEF Look, CanEnter, HasRoom, IInv, TypeOK, RowInv, rows, pool, bounds
<1>2. ASSUME NEW r \in Request, SaveQueued(r) PROVE RowInv'
  BY <1>2, LocalAssumption DEF SaveQueued, IInv, TypeOK, RowInv, AskInv, Job, Active,
      pool, bounds
<1>3. ASSUME NEW r \in Request, SaveQueuedFails(r) PROVE RowInv'
  BY <1>3 DEF SaveQueuedFails, Return, Fault, IInv, TypeOK, RowInv, rows, pool
<1>4. ASSUME NEW r \in Request, Submit(r) PROVE RowInv'
  BY <1>4 DEF Submit, Return, IInv, TypeOK, RowInv, rows, bounds
<1>5. ASSUME NEW r \in Request, SubmitFails(r) PROVE RowInv'
  BY <1>5 DEF SubmitFails, Fault, IInv, TypeOK, RowInv, rows
<1>6. ASSUME NEW r \in Request, SaveRejected(r) PROVE RowInv'
  BY <1>6 DEF SaveRejected, Return, IInv, TypeOK, RowInv, PlaceInv, Active, pool, bounds
<1>7. ASSUME NEW r \in Request, SaveRejectedFails(r) PROVE RowInv'
  BY <1>7 DEF SaveRejectedFails, Return, Fault, IInv, TypeOK, RowInv, rows, pool
<1>8. ASSUME NEW j \in Job, Cancel(j) PROVE RowInv'
  BY <1>8 DEF Cancel, CanEnter, IInv, TypeOK, RowInv, Active, rows, pool, requests, bounds
<1>9. CASE Start
  BY <1>9 DEF Start, IInv, TypeOK, RowInv, rows, shared, requests, bounds
<1>10. CASE MarkRunning
  BY <1>10 DEF MarkRunning, IInv, TypeOK, RowInv, PlaceInv, Active, shared, requests, bounds
<1>11. CASE MarkRunningFails
  BY <1>11 DEF MarkRunningFails, Fault, IInv, TypeOK, RowInv, rows, shared, requests
<1>12. ASSUME NEW o \in Finished, Analyse(o) PROVE RowInv'
  BY <1>12 DEF Analyse, IInv, TypeOK, RowInv, rows, shared, requests, bounds
<1>13. CASE AnalyseRaises
  BY <1>13 DEF AnalyseRaises, IInv, TypeOK, RowInv, rows, shared, requests, bounds
<1>14. CASE Decide
  BY <1>14 DEF Decide, StopSeen, IInv, TypeOK, RowInv, rows, requests, bounds
<1>15. CASE StoreReport
  BY <1>15 DEF StoreReport, IInv, TypeOK, RowInv, PlaceInv, shared, requests, bounds
<1>16. CASE StoreReportFails
  BY <1>16 DEF StoreReportFails, Fault, IInv, TypeOK, RowInv, rows, requests
<1>17. CASE Finish
  BY <1>17 DEF Finish, Save, Leave, StopSeen, IInv, TypeOK, RowInv, PlaceInv, Active,
      Finished, requests, bounds
<1>18. CASE FinishFails
  BY <1>18 DEF FinishFails, Fault, IInv, TypeOK, RowInv, rows, requests
<1>19. CASE Recover
  <2>1. PICK s \in Retryable, c \in Code : Save(s, c)
    BY <1>19, RecoverSaves
  <2>2. mine \in Job /\ known' = known \ {mine} /\ flag' = flag /\ status[mine] # "none"
    BY <1>19, RecoverSaves DEF Recover, Leave, IInv, RowInv, Active
  <2>. QED
    BY <2>1, <2>2 DEF Save, IInv, TypeOK, RowInv, Retryable, Active, Job
<1>20. CASE RecoverFails
  BY <1>20 DEF RecoverFails, Leave, Fault, IInv, TypeOK, RowInv, rows, requests
<1>21. CASE Boot
  <2>1. known = {}
    BY <1>21 DEF Boot, IInv, DownInv
  <2>. QED
    BY <1>21, <2>1 DEF Boot, Interrupted, IInv, TypeOK, RowInv, Active
<1>22. CASE Close
  BY <1>22 DEF Close, CanEnter, IInv, TypeOK, RowInv, Active, rows, pool, requests, bounds
<1>23. CASE Vanish
  BY <1>23 DEF Vanish, IInv, TypeOK, RowInv, rows, bounds
<1>24. CASE UNCHANGED vars
  BY <1>24 DEF vars, IInv, TypeOK, RowInv, rows, shared, pool, requests, bounds
<1>. QED
  BY <1>1, <1>2, <1>3, <1>4, <1>5, <1>6, <1>7, <1>8, <1>9, <1>10, <1>11, <1>12, <1>13,
     <1>14, <1>15, <1>16, <1>17, <1>18, <1>19, <1>20, <1>21, <1>22, <1>23, <1>24
  DEF Next, Analyze, Run, Exit, Crash

\* Each active job is in one place: with its submitter, in the queue, or run.
LEMMA PlaceStep ==
  ASSUME IInv, [Next]_vars, Refused
  PROVE  PlaceInv'
<1>1. ASSUME NEW r \in Request, NEW s \in Snapshot, Look(r, s) PROVE PlaceInv'
  BY <1>1 DEF Look, CanEnter, HasRoom, IInv, TypeOK, PlaceInv, rows, pool, bounds
<1>2. ASSUME NEW r \in Request, SaveQueued(r) PROVE PlaceInv'
  <2>1. \A q \in Request \ {r} : asking[q] = "no"
    BY <1>2 DEF SaveQueued, IInv, TypeOK
  <2>2. created \in Nat /\ created + 1 \in Job /\ status[created + 1] = "none"
    BY <1>2, LocalAssumption DEF SaveQueued, IInv, TypeOK, AskInv, RowInv, Job
  <2>. QED
    BY <1>2, <2>1, LocalAssumption, <2>2
    DEF SaveQueued, IInv, TypeOK, RowInv, PlaceInv, AskInv,
        CancelIsHonoured, DownInv, Job, Active, NoJob, rows, shared, pool,
        requests, bounds
<1>3. ASSUME NEW r \in Request, SaveQueuedFails(r) PROVE PlaceInv'
  BY <1>3 DEF SaveQueuedFails, Return, Fault, IInv, TypeOK, PlaceInv, rows, pool
<1>4. ASSUME NEW r \in Request, Submit(r) PROVE PlaceInv'
  BY <1>4 DEF Submit, Return, IInv, TypeOK, PlaceInv, rows, bounds
<1>5. ASSUME NEW r \in Request, SubmitFails(r) PROVE PlaceInv'
  <2>1. \A q \in Request \ {r} : asking[q] = "no"
    BY <1>5 DEF SubmitFails, IInv, TypeOK
  <2>2. queue' = queue
    BY <1>5 DEF SubmitFails, Refused
  <2>. QED
    BY <1>5, <2>1, LocalAssumption, <2>2
    DEF SubmitFails, Fault, IInv, TypeOK, RowInv, PlaceInv, Job, Active,
        NoJob, rows, pool
<1>6. ASSUME NEW r \in Request, SaveRejected(r) PROVE PlaceInv'
  <2>1. \A q \in Request \ {r} : asking[q] = "no"
    BY <1>6 DEF SaveRejected, IInv, TypeOK
  <2>. QED
    BY <1>6, <2>1, LocalAssumption
    DEF SaveRejected, Return, IInv, TypeOK, RowInv, PlaceInv, Job, Active,
        NoJob, Free, rows, shared, pool, requests, bounds
<1>7. ASSUME NEW r \in Request, SaveRejectedFails(r) PROVE PlaceInv'
  BY <1>7 DEF SaveRejectedFails, Return, Fault, IInv, TypeOK, PlaceInv, rows, pool
<1>8. ASSUME NEW j \in Job, Cancel(j) PROVE PlaceInv'
  BY <1>8, LocalAssumption DEF Cancel, CanEnter, IInv, TypeOK, PlaceInv, rows, pool,
      requests, bounds
<1>9. CASE Start
  BY <1>9 DEF Start, IInv, TypeOK, PlaceInv, rows, shared, requests, bounds
<1>10. CASE MarkRunning
  BY <1>10 DEF MarkRunning, IInv, TypeOK, PlaceInv, shared, requests, bounds
<1>11. CASE MarkRunningFails
  BY <1>11 DEF MarkRunningFails, Fault, IInv, TypeOK, PlaceInv, rows, shared, requests
<1>12. ASSUME NEW o \in Finished, Analyse(o) PROVE PlaceInv'
  BY <1>12 DEF Analyse, IInv, TypeOK, PlaceInv, rows, shared, requests, bounds
<1>13. CASE AnalyseRaises
  BY <1>13 DEF AnalyseRaises, IInv, TypeOK, PlaceInv, rows, shared, requests, bounds
<1>14. CASE Decide
  BY <1>14 DEF Decide, StopSeen, IInv, TypeOK, PlaceInv, rows, requests, bounds
<1>15. CASE StoreReport
  BY <1>15 DEF StoreReport, IInv, TypeOK, PlaceInv, shared, requests, bounds
<1>16. CASE StoreReportFails
  BY <1>16 DEF StoreReportFails, Fault, IInv, TypeOK, PlaceInv, rows, requests
<1>17. CASE Finish
  BY <1>17 DEF Finish, Save, Leave, StopSeen, IInv, TypeOK, PlaceInv, Job, NoJob,
      requests, bounds
<1>18. CASE FinishFails
  BY <1>18 DEF FinishFails, Fault, IInv, TypeOK, PlaceInv, rows, requests
<1>19. CASE Recover
  <2>1. PICK s \in Retryable, c \in Code : Save(s, c)
    BY <1>19, RecoverSaves
  <2>2. \A r \in Request : asking[r] = "no"
    BY <1>19, LocalAssumption DEF Recover, IInv, TypeOK
  <2>3. /\ known' = known \ {mine} /\ mine' = NoJob /\ step' = "idle"
        /\ UNCHANGED <<queue, asking>>
    BY <1>19 DEF Recover, Leave, requests
  <2>4. \A i \in 1..Len(queue) :
          queue[i] \in known /\ queue[i] \in Job /\ queue[i] # mine /\ status[queue[i]] = "queued"
    BY DEF IInv, PlaceInv, TypeOK
  <2>5. \A i \in 1..Len(queue) : status'[queue[i]] = "queued"
    BY <2>1, <2>4 DEF Save, IInv, TypeOK
  <2>6. \A i \in 1..Len(queue) : queue[i] # NoJob
    BY <2>4 DEF Job, NoJob
  <2>. QED BY <2>2, <2>3, <2>4, <2>5, <2>6 DEF IInv, PlaceInv
<1>20. CASE RecoverFails
  BY <1>20 DEF RecoverFails, Leave, Fault, IInv, TypeOK, PlaceInv, Job, NoJob, rows,
      requests
<1>21. CASE Boot
  <2>1. known = {} /\ queue = <<>> /\ step = "idle" /\ \A r \in Request : asking[r] = "no"
    BY <1>21, LocalAssumption DEF Boot, IInv, TypeOK, DownInv
  <2>. QED
    BY <1>21, <2>1 DEF Boot, IInv, TypeOK, PlaceInv, pool, requests
<1>22. CASE Close
  BY <1>22, LocalAssumption DEF Close, CanEnter, IInv, TypeOK, PlaceInv, rows, pool,
      requests, bounds
<1>23. CASE Vanish
  BY <1>23 DEF Vanish, IInv, TypeOK, PlaceInv, rows, bounds
<1>24. CASE UNCHANGED vars
  BY <1>24 DEF vars, IInv, TypeOK, PlaceInv, rows, shared, pool, requests, bounds
<1>. QED
  BY <1>1, <1>2, <1>3, <1>4, <1>5, <1>6, <1>7, <1>8, <1>9, <1>10, <1>11, <1>12, <1>13,
     <1>14, <1>15, <1>16, <1>17, <1>18, <1>19, <1>20, <1>21, <1>22, <1>23, <1>24
  DEF Next, Analyze, Run, Exit, Crash

\* What `analyze` tested under `_lock` still holds when it inserts its row.
LEMMA AskStep ==
  ASSUME IInv, [Next]_vars, Refused
  PROVE  AskInv'
<1>1. ASSUME NEW r \in Request, NEW s \in Snapshot, Look(r, s) PROVE AskInv'
  <2>1. Pending = known
    BY DEF Pending, IInv, RowInv
  <2>2. \A q \in Request \ {r} : asking[q] = "no"
    BY <1>1, LocalAssumption DEF Look, CanEnter, IInv, TypeOK
  <2>3. NewJobWanted(s)'
    BY <1>1 DEF Look, rows, NewJobWanted
  <2>4. NewJobWanted(wanted[r])'
    BY <1>1, <2>3 DEF Look, IInv, TypeOK, NewJobWanted
  <2>5. \A q \in Request : asking'[q] = "save" => q = r
    BY <1>1, <2>2 DEF Look, IInv, TypeOK
  <2>. QED
    BY <1>1, <2>1, <2>4, <2>5 DEF Look, HasRoom, IInv, TypeOK, AskInv, rows
<1>2. ASSUME NEW r \in Request, SaveQueued(r) PROVE AskInv'
  <2>1. \A q \in Request \ {r} : asking[q] = "no"
    BY <1>2 DEF SaveQueued, IInv, TypeOK
  <2>. QED
    BY <1>2, <2>1, LocalAssumption
    DEF SaveQueued, AskInv, TypeOK, IInv
<1>3. ASSUME NEW r \in Request, SaveQueuedFails(r) PROVE AskInv'
  BY <1>3 DEF SaveQueuedFails, Return, Fault, IInv, TypeOK, AskInv, NewJobWanted, rows, pool
<1>4. ASSUME NEW r \in Request, Submit(r) PROVE AskInv'
  BY <1>4 DEF Submit, Return, IInv, TypeOK, AskInv, NewJobWanted, rows, bounds
<1>5. ASSUME NEW r \in Request, SubmitFails(r) PROVE AskInv'
  <2>1. \A q \in Request \ {r} : asking[q] = "no"
    BY <1>5 DEF SubmitFails, IInv, TypeOK
  <2>. QED
    BY <1>5, <2>1, LocalAssumption
    DEF SubmitFails, AskInv, TypeOK, IInv
<1>6. ASSUME NEW r \in Request, SaveRejected(r) PROVE AskInv'
  <2>1. \A q \in Request \ {r} : asking[q] = "no"
    BY <1>6 DEF SaveRejected, IInv, TypeOK
  <2>. QED
    BY <1>6, <2>1, LocalAssumption
    DEF SaveRejected, Return, AskInv, TypeOK, IInv
<1>7. ASSUME NEW r \in Request, SaveRejectedFails(r) PROVE AskInv'
  BY <1>7 DEF SaveRejectedFails, Return, Fault, IInv, TypeOK, AskInv, NewJobWanted, rows,
      pool
<1>8. ASSUME NEW j \in Job, Cancel(j) PROVE AskInv'
  BY <1>8 DEF Cancel, CanEnter, IInv, TypeOK, AskInv, NewJobWanted, rows, pool, requests,
      bounds
<1>9. CASE Start
  BY <1>9 DEF Start, IInv, TypeOK, AskInv, NewJobWanted, rows, shared, requests, bounds
<1>10. CASE MarkRunning
  BY <1>10 DEF MarkRunning, IInv, TypeOK, PlaceInv, AskInv, NewJobWanted, Retryable,
      shared, requests, bounds
<1>11. CASE MarkRunningFails
  BY <1>11 DEF MarkRunningFails, Fault, IInv, TypeOK, AskInv, NewJobWanted, rows, shared,
      requests
<1>12. ASSUME NEW o \in Finished, Analyse(o) PROVE AskInv'
  BY <1>12 DEF Analyse, IInv, TypeOK, AskInv, NewJobWanted, rows, shared, requests, bounds
<1>13. CASE AnalyseRaises
  BY <1>13 DEF AnalyseRaises, IInv, TypeOK, AskInv, NewJobWanted, rows, shared, requests,
      bounds
<1>14. CASE Decide
  BY <1>14 DEF Decide, StopSeen, IInv, TypeOK, AskInv, NewJobWanted, rows, requests, bounds
<1>15. CASE StoreReport
  BY <1>15 DEF StoreReport, IInv, TypeOK, AskInv, NewJobWanted, shared, requests, bounds
<1>16. CASE StoreReportFails
  BY <1>16 DEF StoreReportFails, Fault, IInv, TypeOK, AskInv, NewJobWanted, rows, requests
<1>17. CASE Finish
  BY <1>17, LocalAssumption DEF Finish, Save, Leave, StopSeen, IInv, TypeOK, AskInv,
      NewJobWanted, requests, bounds
<1>18. CASE FinishFails
  BY <1>18 DEF FinishFails, Fault, IInv, TypeOK, AskInv, NewJobWanted, rows, requests
<1>19. CASE Recover
  BY <1>19, LocalAssumption DEF Recover, Save, Leave, StopSeen, IInv, TypeOK, AskInv,
      NewJobWanted, requests, bounds
<1>20. CASE RecoverFails
  BY <1>20, LocalAssumption DEF RecoverFails, Leave, Fault, IInv, TypeOK, AskInv,
      NewJobWanted, rows, requests
<1>21. CASE Boot
  BY <1>21 DEF Boot, Interrupted, IInv, TypeOK, AskInv, NewJobWanted, Retryable, pool,
      requests
<1>22. CASE Close
  BY <1>22 DEF Close, CanEnter, IInv, TypeOK, AskInv, NewJobWanted, rows, pool, requests,
      bounds
<1>23. CASE Vanish
  BY <1>23 DEF Vanish, IInv, TypeOK, AskInv, NewJobWanted, rows, bounds
<1>24. CASE UNCHANGED vars
  BY <1>24 DEF vars, IInv, TypeOK, AskInv, NewJobWanted, rows, shared, pool, requests,
      bounds
<1>. QED
  BY <1>1, <1>2, <1>3, <1>4, <1>5, <1>6, <1>7, <1>8, <1>9, <1>10, <1>11, <1>12, <1>13,
     <1>14, <1>15, <1>16, <1>17, <1>18, <1>19, <1>20, <1>21, <1>22, <1>23, <1>24
  DEF Next, Analyze, Run, Exit, Crash

\* What `_run` has established about its job survives its next step.
LEMMA RunStep ==
  ASSUME IInv, [Next]_vars, Refused
  PROVE  RunInv'
<1>1. ASSUME NEW r \in Request, NEW s \in Snapshot, Look(r, s) PROVE RunInv'
  BY <1>1 DEF Look, CanEnter, HasRoom, IInv, TypeOK, RunInv, rows, pool, bounds
<1>2. ASSUME NEW r \in Request, SaveQueued(r) PROVE RunInv'
  BY <1>2 DEF SaveQueued, IInv, TypeOK, RunInv, pool, bounds
<1>3. ASSUME NEW r \in Request, SaveQueuedFails(r) PROVE RunInv'
  BY <1>3 DEF SaveQueuedFails, Return, Fault, IInv, TypeOK, RunInv, rows, pool
<1>4. ASSUME NEW r \in Request, Submit(r) PROVE RunInv'
  BY <1>4 DEF Submit, Return, IInv, TypeOK, RunInv, rows, bounds
<1>5. ASSUME NEW r \in Request, SubmitFails(r) PROVE RunInv'
  BY <1>5 DEF SubmitFails, Fault, IInv, TypeOK, RunInv, rows
<1>6. ASSUME NEW r \in Request, SaveRejected(r) PROVE RunInv'
  BY <1>6 DEF SaveRejected, Return, IInv, TypeOK, RunInv, pool, bounds
<1>7. ASSUME NEW r \in Request, SaveRejectedFails(r) PROVE RunInv'
  BY <1>7 DEF SaveRejectedFails, Return, Fault, IInv, TypeOK, RunInv, rows, pool
<1>8. ASSUME NEW j \in Job, Cancel(j) PROVE RunInv'
  BY <1>8 DEF Cancel, CanEnter, IInv, TypeOK, RunInv, Free, Executor, rows, pool,
      requests, bounds
<1>9. CASE Start
  <2>1. /\ queue \in Seq(Job) /\ queue # <<>> /\ Len(queue) >= 1
    BY <1>9 DEF Start, IInv, TypeOK
  <2>2. mine' = queue[1] /\ mine' \in Job /\ status[mine'] = "queued"
    BY <1>9, <2>1 DEF Start, IInv, PlaceInv
  <2>. QED
    BY <1>9, <2>2 DEF Start, IInv, TypeOK, RowInv, RunInv, rows, shared
<1>10. CASE MarkRunning
  BY <1>10 DEF MarkRunning, IInv, TypeOK, RunInv, shared, requests, bounds
<1>11. CASE MarkRunningFails
  BY <1>11 DEF MarkRunningFails, Fault, IInv, TypeOK, RunInv, rows, shared, requests
<1>12. ASSUME NEW o \in Finished, Analyse(o) PROVE RunInv'
  BY <1>12 DEF Analyse, IInv, TypeOK, RunInv, rows, shared, requests, bounds
<1>13. CASE AnalyseRaises
  BY <1>13 DEF AnalyseRaises, IInv, TypeOK, RunInv, rows, shared, requests, bounds
<1>14. CASE Decide
  BY <1>14 DEF Decide, StopSeen, IInv, TypeOK, RunInv, rows, requests, bounds
<1>15. CASE StoreReport
  BY <1>15 DEF StoreReport, IInv, TypeOK, RunInv, shared, requests, bounds
<1>16. CASE StoreReportFails
  BY <1>16 DEF StoreReportFails, Fault, IInv, TypeOK, RunInv, rows, requests
<1>17. CASE Finish
  BY <1>17 DEF Finish, Save, Leave, StopSeen, IInv, TypeOK, RunInv, requests, bounds
<1>18. CASE FinishFails
  BY <1>18 DEF FinishFails, Fault, IInv, TypeOK, RunInv, rows, requests
<1>19. CASE Recover
  BY <1>19 DEF Recover, Save, Leave, StopSeen, IInv, TypeOK, RunInv, requests, bounds
<1>20. CASE RecoverFails
  BY <1>20 DEF RecoverFails, Leave, Fault, IInv, TypeOK, RunInv, rows, requests
<1>21. CASE Boot
  BY <1>21 DEF Boot, Interrupted, IInv, TypeOK, RunInv, pool, requests
<1>22. CASE Close
  BY <1>22 DEF Close, CanEnter, IInv, TypeOK, RunInv, Free, Executor, rows, pool,
      requests, bounds
<1>23. CASE Vanish
  BY <1>23 DEF Vanish, IInv, TypeOK, RunInv, rows, bounds
<1>24. CASE UNCHANGED vars
  BY <1>24 DEF vars, IInv, TypeOK, RunInv, rows, shared, pool, requests, bounds
<1>. QED
  BY <1>1, <1>2, <1>3, <1>4, <1>5, <1>6, <1>7, <1>8, <1>9, <1>10, <1>11, <1>12, <1>13,
     <1>14, <1>15, <1>16, <1>17, <1>18, <1>19, <1>20, <1>21, <1>22, <1>23, <1>24
  DEF Next, Analyze, Run, Exit, Crash

\* A dead process leaves nothing in memory, a missing thread no work.
LEMMA DownStep ==
  ASSUME IInv, [Next]_vars, Refused
  PROVE  DownInv'
<1>1. ASSUME NEW r \in Request, NEW s \in Snapshot, Look(r, s) PROVE DownInv'
  BY <1>1 DEF Look, CanEnter, HasRoom, IInv, TypeOK, DownInv, rows, pool, bounds
<1>2. ASSUME NEW r \in Request, SaveQueued(r) PROVE DownInv'
  BY <1>2, LocalAssumption DEF SaveQueued, IInv, TypeOK, DownInv, pool, bounds
<1>3. ASSUME NEW r \in Request, SaveQueuedFails(r) PROVE DownInv'
  BY <1>3 DEF SaveQueuedFails, Return, Fault, IInv, TypeOK, DownInv, rows, pool
<1>4. ASSUME NEW r \in Request, Submit(r) PROVE DownInv'
  BY <1>4 DEF Submit, Return, IInv, TypeOK, DownInv, PlaceInv, rows, bounds
<1>5. ASSUME NEW r \in Request, SubmitFails(r) PROVE DownInv'
  <2>1. queue' = queue
    BY <1>5 DEF SubmitFails, Refused
  <2>. QED
    BY <1>5, <2>1 DEF SubmitFails, DownInv, IInv, pool
<1>6. ASSUME NEW r \in Request, SaveRejected(r) PROVE DownInv'
  BY <1>6 DEF SaveRejected, Return, IInv, TypeOK, DownInv, pool, bounds
<1>7. ASSUME NEW r \in Request, SaveRejectedFails(r) PROVE DownInv'
  BY <1>7 DEF SaveRejectedFails, Return, Fault, IInv, TypeOK, DownInv, rows, pool
<1>8. ASSUME NEW j \in Job, Cancel(j) PROVE DownInv'
  BY <1>8 DEF Cancel, CanEnter, IInv, TypeOK, DownInv, rows, pool, requests, bounds
<1>9. CASE Start
  BY <1>9 DEF Start, IInv, TypeOK, DownInv, rows, shared, requests, bounds
<1>10. CASE MarkRunning
  BY <1>10 DEF MarkRunning, IInv, TypeOK, DownInv, shared, requests, bounds
<1>11. CASE MarkRunningFails
  BY <1>11 DEF MarkRunningFails, Fault, IInv, TypeOK, DownInv, rows, shared, requests
<1>12. ASSUME NEW o \in Finished, Analyse(o) PROVE DownInv'
  BY <1>12 DEF Analyse, IInv, TypeOK, DownInv, rows, shared, requests, bounds
<1>13. CASE AnalyseRaises
  BY <1>13 DEF AnalyseRaises, IInv, TypeOK, DownInv, rows, shared, requests, bounds
<1>14. CASE Decide
  BY <1>14 DEF Decide, StopSeen, IInv, TypeOK, DownInv, rows, requests, bounds
<1>15. CASE StoreReport
  BY <1>15 DEF StoreReport, IInv, TypeOK, DownInv, shared, requests, bounds
<1>16. CASE StoreReportFails
  BY <1>16 DEF StoreReportFails, Fault, IInv, TypeOK, DownInv, rows, requests
<1>17. CASE Finish
  BY <1>17 DEF Finish, Save, Leave, StopSeen, IInv, TypeOK, DownInv, requests, bounds
<1>18. CASE FinishFails
  BY <1>18 DEF FinishFails, Fault, IInv, TypeOK, DownInv, rows, requests
<1>19. CASE Recover
  BY <1>19 DEF Recover, Save, Leave, StopSeen, IInv, TypeOK, DownInv, requests, bounds
<1>20. CASE RecoverFails
  BY <1>20 DEF RecoverFails, Leave, Fault, IInv, TypeOK, DownInv, rows, requests
<1>21. CASE Boot
  BY <1>21 DEF Boot, Interrupted, IInv, TypeOK, DownInv, pool, requests
<1>22. CASE Close
  BY <1>22 DEF Close, CanEnter, IInv, TypeOK, DownInv, rows, pool, requests, bounds
<1>23. CASE Vanish
  BY <1>23 DEF Vanish, IInv, TypeOK, DownInv, rows, bounds
<1>24. CASE UNCHANGED vars
  BY <1>24 DEF vars, IInv, TypeOK, DownInv, rows, shared, pool, requests, bounds
<1>. QED
  BY <1>1, <1>2, <1>3, <1>4, <1>5, <1>6, <1>7, <1>8, <1>9, <1>10, <1>11, <1>12, <1>13,
     <1>14, <1>15, <1>16, <1>17, <1>18, <1>19, <1>20, <1>21, <1>22, <1>23, <1>24
  DEF Next, Analyze, Run, Exit, Crash

\* No step makes a second job of a snapshot active.
LEMMA LatestStep ==
  ASSUME IInv, [Next]_vars, Refused
  PROVE  OnlyLatestActive'
<1>1. ASSUME NEW r \in Request, NEW s \in Snapshot, Look(r, s) PROVE OnlyLatestActive'
  BY <1>1 DEF Look, CanEnter, HasRoom, IInv, TypeOK, OnlyLatestActive, Ended,
      NewJobWanted, rows, pool, bounds
<1>2. ASSUME NEW r \in Request, SaveQueued(r) PROVE OnlyLatestActive'
  BY <1>2, LocalAssumption DEF SaveQueued, IInv, TypeOK, OnlyLatestActive, Ended, AskInv,
      NewJobWanted, Retryable, Finished, Job, pool, bounds
<1>3. ASSUME NEW r \in Request, SaveQueuedFails(r) PROVE OnlyLatestActive'
  BY <1>3 DEF SaveQueuedFails, Return, Fault, IInv, TypeOK, OnlyLatestActive, Ended,
      NewJobWanted, rows, pool
<1>4. ASSUME NEW r \in Request, Submit(r) PROVE OnlyLatestActive'
  BY <1>4 DEF Submit, Return, IInv, TypeOK, OnlyLatestActive, Ended, NewJobWanted, rows,
      bounds
<1>5. ASSUME NEW r \in Request, SubmitFails(r) PROVE OnlyLatestActive'
  BY <1>5 DEF SubmitFails, Fault, IInv, TypeOK, OnlyLatestActive, Ended, NewJobWanted, rows
<1>6. ASSUME NEW r \in Request, SaveRejected(r) PROVE OnlyLatestActive'
  BY <1>6 DEF SaveRejected, Return, IInv, TypeOK, OnlyLatestActive, Ended, NewJobWanted,
      pool, bounds
<1>7. ASSUME NEW r \in Request, SaveRejectedFails(r) PROVE OnlyLatestActive'
  BY <1>7 DEF SaveRejectedFails, Return, Fault, IInv, TypeOK, OnlyLatestActive, Ended,
      NewJobWanted, rows, pool
<1>8. ASSUME NEW j \in Job, Cancel(j) PROVE OnlyLatestActive'
  BY <1>8 DEF Cancel, CanEnter, IInv, TypeOK, OnlyLatestActive, Ended, NewJobWanted, rows,
      pool, requests, bounds
<1>9. CASE Start
  BY <1>9 DEF Start, IInv, TypeOK, OnlyLatestActive, Ended, NewJobWanted, rows, shared,
      requests, bounds
<1>10. CASE MarkRunning
  BY <1>10 DEF MarkRunning, IInv, TypeOK, OnlyLatestActive, Ended, PlaceInv, NewJobWanted,
      Finished, shared, requests, bounds
<1>11. CASE MarkRunningFails
  BY <1>11 DEF MarkRunningFails, Fault, IInv, TypeOK, OnlyLatestActive, Ended,
      NewJobWanted, rows, shared, requests
<1>12. ASSUME NEW o \in Finished, Analyse(o) PROVE OnlyLatestActive'
  BY <1>12 DEF Analyse, IInv, TypeOK, OnlyLatestActive, Ended, NewJobWanted, rows, shared,
      requests, bounds
<1>13. CASE AnalyseRaises
  BY <1>13 DEF AnalyseRaises, IInv, TypeOK, OnlyLatestActive, Ended, NewJobWanted, rows,
      shared, requests, bounds
<1>14. CASE Decide
  BY <1>14 DEF Decide, StopSeen, IInv, TypeOK, OnlyLatestActive, Ended, NewJobWanted,
      rows, requests, bounds
<1>15. CASE StoreReport
  BY <1>15 DEF StoreReport, IInv, TypeOK, OnlyLatestActive, Ended, NewJobWanted, shared,
      requests, bounds
<1>16. CASE StoreReportFails
  BY <1>16 DEF StoreReportFails, Fault, IInv, TypeOK, OnlyLatestActive, Ended,
      NewJobWanted, rows, requests
<1>17. CASE Finish
  BY <1>17 DEF Finish, Save, Leave, StopSeen, IInv, TypeOK, OnlyLatestActive, Ended,
      NewJobWanted, Finished, requests, bounds
<1>18. CASE FinishFails
  BY <1>18 DEF FinishFails, Fault, IInv, TypeOK, OnlyLatestActive, Ended, NewJobWanted,
      rows, requests
<1>19. CASE Recover
  BY <1>19, LocalAssumption DEF Recover, Save, Leave, StopSeen, IInv, TypeOK,
      OnlyLatestActive, Ended, NewJobWanted, Finished, Job, requests, bounds
<1>20. CASE RecoverFails
  BY <1>20 DEF RecoverFails, Leave, Fault, IInv, TypeOK, OnlyLatestActive, Ended,
      NewJobWanted, rows, requests
<1>21. CASE Boot
  BY <1>21, LocalAssumption DEF Boot, Interrupted, IInv, TypeOK, OnlyLatestActive, Ended,
      NewJobWanted, Finished, Job, pool, requests
<1>22. CASE Close
  BY <1>22 DEF Close, CanEnter, IInv, TypeOK, OnlyLatestActive, Ended, NewJobWanted, rows,
      pool, requests, bounds
<1>23. CASE Vanish
  BY <1>23 DEF Vanish, IInv, TypeOK, OnlyLatestActive, Ended, NewJobWanted, rows, bounds
<1>24. CASE UNCHANGED vars
  BY <1>24 DEF vars, IInv, TypeOK, OnlyLatestActive, Ended, NewJobWanted, rows, shared,
      pool, requests, bounds
<1>. QED
  BY <1>1, <1>2, <1>3, <1>4, <1>5, <1>6, <1>7, <1>8, <1>9, <1>10, <1>11, <1>12, <1>13,
     <1>14, <1>15, <1>16, <1>17, <1>18, <1>19, <1>20, <1>21, <1>22, <1>23, <1>24
  DEF Next, Analyze, Run, Exit, Crash

\* Status, analysis_id and the stored report stay together.
LEMMA ReportStep ==
  ASSUME IInv, [Next]_vars, Refused
  PROVE  ReportIsReachable'
<1>1. ASSUME NEW r \in Request, NEW s \in Snapshot, Look(r, s) PROVE ReportIsReachable'
  BY <1>1 DEF Look, CanEnter, HasRoom, IInv, TypeOK, ReportIsReachable, Ended, rows, pool,
      bounds
<1>2. ASSUME NEW r \in Request, SaveQueued(r) PROVE ReportIsReachable'
  <2>1. created \in Nat /\ created + 1 \in Job /\ status[created + 1] = "none"
    BY <1>2, LocalAssumption DEF SaveQueued, IInv, TypeOK, AskInv, RowInv, Job
  <2>2. ~named[created + 1] /\ ~stored[created + 1]
    BY <2>1 DEF IInv, RowInv
  <2>. QED
    BY <1>2, <2>1, <2>2 DEF SaveQueued, IInv, TypeOK, ReportIsReachable, Ended, Finished, Job
<1>3. ASSUME NEW r \in Request, SaveQueuedFails(r) PROVE ReportIsReachable'
  BY <1>3 DEF SaveQueuedFails, Return, Fault, IInv, TypeOK, ReportIsReachable, Ended,
      rows, pool
<1>4. ASSUME NEW r \in Request, Submit(r) PROVE ReportIsReachable'
  BY <1>4 DEF Submit, Return, IInv, TypeOK, ReportIsReachable, Ended, rows, bounds
<1>5. ASSUME NEW r \in Request, SubmitFails(r) PROVE ReportIsReachable'
  BY <1>5 DEF SubmitFails, Fault, IInv, TypeOK, ReportIsReachable, Ended, rows
<1>6. ASSUME NEW r \in Request, SaveRejected(r) PROVE ReportIsReachable'
  BY <1>6 DEF SaveRejected, Return, IInv, TypeOK, ReportIsReachable, RowInv, PlaceInv,
      Ended, pool, bounds
<1>7. ASSUME NEW r \in Request, SaveRejectedFails(r) PROVE ReportIsReachable'
  BY <1>7 DEF SaveRejectedFails, Return, Fault, IInv, TypeOK, ReportIsReachable, Ended,
      rows, pool
<1>8. ASSUME NEW j \in Job, Cancel(j) PROVE ReportIsReachable'
  BY <1>8 DEF Cancel, CanEnter, IInv, TypeOK, ReportIsReachable, Ended, rows, pool,
      requests, bounds
<1>9. CASE Start
  BY <1>9 DEF Start, IInv, TypeOK, ReportIsReachable, Ended, rows, shared, requests, bounds
<1>10. CASE MarkRunning
  BY <1>10 DEF MarkRunning, IInv, TypeOK, ReportIsReachable, Ended, Finished, shared,
      requests, bounds
<1>11. CASE MarkRunningFails
  BY <1>11 DEF MarkRunningFails, Fault, IInv, TypeOK, ReportIsReachable, Ended, rows,
      shared, requests
<1>12. ASSUME NEW o \in Finished, Analyse(o) PROVE ReportIsReachable'
  BY <1>12 DEF Analyse, IInv, TypeOK, ReportIsReachable, Ended, rows, shared, requests,
      bounds
<1>13. CASE AnalyseRaises
  BY <1>13 DEF AnalyseRaises, IInv, TypeOK, ReportIsReachable, Ended, rows, shared,
      requests, bounds
<1>14. CASE Decide
  BY <1>14 DEF Decide, StopSeen, IInv, TypeOK, ReportIsReachable, Ended, rows, requests,
      bounds
<1>15. CASE StoreReport
  BY <1>15 DEF StoreReport, IInv, TypeOK, ReportIsReachable, PlaceInv, Ended, Finished,
      shared, requests, bounds
<1>16. CASE StoreReportFails
  BY <1>16 DEF StoreReportFails, Fault, IInv, TypeOK, ReportIsReachable, Ended, rows,
      requests
<1>17. CASE Finish
  BY <1>17 DEF Finish, Save, Leave, StopSeen, IInv, TypeOK, ReportIsReachable, RunInv,
      Ended, requests, bounds
<1>18. CASE FinishFails
  BY <1>18 DEF FinishFails, Fault, IInv, TypeOK, ReportIsReachable, Ended, rows, requests
<1>19. CASE Recover
  BY <1>19, LocalAssumption DEF Recover, Save, Leave, StopSeen, IInv, TypeOK,
      ReportIsReachable, RunInv, Ended, Active, Job, requests, bounds
<1>20. CASE RecoverFails
  BY <1>20 DEF RecoverFails, Leave, Fault, IInv, TypeOK, ReportIsReachable, Ended, rows,
      requests
<1>21. CASE Boot
  BY <1>21, LocalAssumption DEF Boot, Interrupted, IInv, TypeOK, ReportIsReachable, Ended,
      Job, pool, requests
<1>22. CASE Close
  BY <1>22 DEF Close, CanEnter, IInv, TypeOK, ReportIsReachable, Ended, rows, pool,
      requests, bounds
<1>23. CASE Vanish
  BY <1>23 DEF Vanish, IInv, TypeOK, ReportIsReachable, Ended, rows, bounds
<1>24. CASE UNCHANGED vars
  BY <1>24 DEF vars, IInv, TypeOK, ReportIsReachable, Ended, rows, shared, pool, requests,
      bounds
<1>. QED
  BY <1>1, <1>2, <1>3, <1>4, <1>5, <1>6, <1>7, <1>8, <1>9, <1>10, <1>11, <1>12, <1>13,
     <1>14, <1>15, <1>16, <1>17, <1>18, <1>19, <1>20, <1>21, <1>22, <1>23, <1>24
  DEF Next, Analyze, Run, Exit, Crash

\* A job whose Event is set can only end cancelled, without a stored report
\* while no write has failed.
LEMMA CancelStep ==
  ASSUME IInv, [Next]_vars, Refused
  PROVE  CancelIsHonoured'
<1>1. ASSUME NEW r \in Request, NEW s \in Snapshot, Look(r, s) PROVE CancelIsHonoured'
  BY <1>1 DEF Look, CanEnter, HasRoom, IInv, TypeOK, CancelIsHonoured, Ended, rows, pool,
      bounds
<1>2. ASSUME NEW r \in Request, SaveQueued(r) PROVE CancelIsHonoured'
  BY <1>2 DEF SaveQueued, IInv, TypeOK, CancelIsHonoured, Ended, Finished, pool, bounds
<1>3. ASSUME NEW r \in Request, SaveQueuedFails(r) PROVE CancelIsHonoured'
  BY <1>3 DEF SaveQueuedFails, Return, Fault, IInv, TypeOK, CancelIsHonoured, Ended, rows,
      pool
<1>4. ASSUME NEW r \in Request, Submit(r) PROVE CancelIsHonoured'
  BY <1>4 DEF Submit, Return, IInv, TypeOK, CancelIsHonoured, Ended, rows, bounds
<1>5. ASSUME NEW r \in Request, SubmitFails(r) PROVE CancelIsHonoured'
  BY <1>5 DEF SubmitFails, Fault, IInv, TypeOK, CancelIsHonoured, Ended, rows
<1>6. ASSUME NEW r \in Request, SaveRejected(r) PROVE CancelIsHonoured'
  BY <1>6 DEF SaveRejected, Return, IInv, TypeOK, CancelIsHonoured, PlaceInv, Ended, pool,
      bounds
<1>7. ASSUME NEW r \in Request, SaveRejectedFails(r) PROVE CancelIsHonoured'
  BY <1>7 DEF SaveRejectedFails, Return, Fault, IInv, TypeOK, CancelIsHonoured, Ended,
      rows, pool
<1>8. ASSUME NEW j \in Job, Cancel(j) PROVE CancelIsHonoured'
  BY <1>8 DEF Cancel, CanEnter, IInv, TypeOK, CancelIsHonoured, RowInv, Ended, Finished,
      Active, rows, pool, requests, bounds
<1>9. CASE Start
  BY <1>9 DEF Start, IInv, TypeOK, CancelIsHonoured, Ended, rows, shared, requests, bounds
<1>10. CASE MarkRunning
  BY <1>10 DEF MarkRunning, IInv, TypeOK, CancelIsHonoured, Ended, Finished, shared,
      requests, bounds
<1>11. CASE MarkRunningFails
  BY <1>11 DEF MarkRunningFails, Fault, IInv, TypeOK, CancelIsHonoured, Ended, rows,
      shared, requests
<1>12. ASSUME NEW o \in Finished, Analyse(o) PROVE CancelIsHonoured'
  BY <1>12 DEF Analyse, IInv, TypeOK, CancelIsHonoured, Ended, rows, shared, requests,
      bounds
<1>13. CASE AnalyseRaises
  BY <1>13 DEF AnalyseRaises, IInv, TypeOK, CancelIsHonoured, Ended, rows, shared,
      requests, bounds
<1>14. CASE Decide
  BY <1>14 DEF Decide, StopSeen, IInv, TypeOK, CancelIsHonoured, Ended, rows, requests,
      bounds
<1>15. CASE StoreReport
  BY <1>15 DEF StoreReport, IInv, TypeOK, CancelIsHonoured, RunInv, Ended, shared, requests,
      bounds
<1>16. CASE StoreReportFails
  BY <1>16 DEF StoreReportFails, Fault, IInv, TypeOK, CancelIsHonoured, Ended, rows,
      requests
<1>17. CASE Finish
  BY <1>17 DEF Finish, Save, Leave, StopSeen, IInv, TypeOK, CancelIsHonoured, RunInv, Ended,
      requests, bounds
<1>18. CASE FinishFails
  BY <1>18 DEF FinishFails, Fault, IInv, TypeOK, CancelIsHonoured, Ended, rows, requests
<1>19. CASE Recover
  <2>1. PICK s \in Retryable, c \in Code : Save(s, c)
    BY <1>19, RecoverSaves
  <2>2. flag' = flag /\ mine \in Job
    BY <1>19, RecoverSaves DEF Recover, Leave
  <2>3. mine \in flag => status'[mine] = "cancelled"
    BY <1>19, <2>2 DEF Recover, StopSeen, Save, IInv, TypeOK
  <2>4. \A j \in flag : j # mine => status'[j] = status[j]
    BY <2>1, <2>2 DEF Save, IInv, TypeOK
  <2>5. stored' = stored /\ faults' = faults
    BY <1>19, <2>1 DEF Recover, Save, bounds
  <2>6. faults = 0 => ~stored[mine]
    BY <1>19, <2>2 DEF Recover, IInv, TypeOK, RunInv, Job, NoJob
  <2>. QED BY <2>2, <2>3, <2>4, <2>5, <2>6 DEF IInv, CancelIsHonoured, Ended
<1>20. CASE RecoverFails
  BY <1>20 DEF RecoverFails, Leave, Fault, IInv, TypeOK, CancelIsHonoured, Ended, rows,
      requests
<1>21. CASE Boot
  BY <1>21 DEF Boot, Interrupted, IInv, TypeOK, CancelIsHonoured, Ended, DownInv, pool,
      requests
<1>22. CASE Close
  BY <1>22 DEF Close, CanEnter, IInv, TypeOK, CancelIsHonoured, RowInv, Ended, Finished,
      Active, rows, pool, requests, bounds
<1>23. CASE Vanish
  BY <1>23 DEF Vanish, IInv, TypeOK, CancelIsHonoured, Ended, rows, bounds
<1>24. CASE UNCHANGED vars
  BY <1>24 DEF vars, IInv, TypeOK, CancelIsHonoured, Ended, rows, shared, pool, requests,
      bounds
<1>. QED
  BY <1>1, <1>2, <1>3, <1>4, <1>5, <1>6, <1>7, <1>8, <1>9, <1>10, <1>11, <1>12, <1>13,
     <1>14, <1>15, <1>16, <1>17, <1>18, <1>19, <1>20, <1>21, <1>22, <1>23, <1>24
  DEF Next, Analyze, Run, Exit, Crash

\* Without a failing write every active job keeps somebody who ends it.
LEMMA StrandedStep ==
  ASSUME IInv, [Next]_vars, Refused
  PROVE  NothingStranded'
<1>1. ASSUME NEW r \in Request, NEW s \in Snapshot, Look(r, s) PROVE NothingStranded'
  BY <1>1 DEF Look, CanEnter, HasRoom, IInv, TypeOK, NothingStranded, InHand, Ended, rows,
      pool, bounds
<1>2. ASSUME NEW r \in Request, SaveQueued(r) PROVE NothingStranded'
  <2>1. created \in Nat /\ created + 1 \in Job
    BY <1>2, LocalAssumption DEF SaveQueued, IInv, TypeOK, AskInv, Job
  <2>2. \A q \in Request \ {r} : asking[q] = "no"
    BY <1>2 DEF SaveQueued, IInv, TypeOK
  <2>3. ASSUME NEW j \in 1..created, ~Ended(j)', up', faults' = 0
        PROVE  j \in known' /\ InHand(j)'
    <3>1. ~Ended(j) /\ up /\ faults = 0
      BY <1>2, <2>1, <2>3 DEF SaveQueued, IInv, TypeOK, Ended, bounds
    <3>2. j \in known /\ InHand(j)
      BY <3>1 DEF IInv, NothingStranded
    <3>. QED BY <1>2, <2>2, <3>2 DEF SaveQueued, InHand, pool, IInv, TypeOK
  <2>4. created' \in known' /\ InHand(created)'
    BY <1>2, <2>1 DEF SaveQueued, InHand, IInv, TypeOK
  <2>5. \A j \in 1..created' : j \in 1..created \/ j = created'
    BY <1>2, <2>1 DEF SaveQueued
  <2>. QED BY <2>3, <2>4, <2>5 DEF NothingStranded
<1>3. ASSUME NEW r \in Request, SaveQueuedFails(r) PROVE NothingStranded'
  BY <1>3 DEF SaveQueuedFails, Return, Fault, IInv, TypeOK, NothingStranded, InHand,
      Ended, rows, pool
<1>4. ASSUME NEW r \in Request, Submit(r) PROVE NothingStranded'
  BY <1>4 DEF Submit, Return, IInv, TypeOK, NothingStranded, InHand, Ended, Active,
      Executor, rows, bounds
<1>5. ASSUME NEW r \in Request, SubmitFails(r) PROVE NothingStranded'
  BY <1>5 DEF SubmitFails, Fault, IInv, TypeOK, NothingStranded, InHand, Ended, rows
<1>6. ASSUME NEW r \in Request, SaveRejected(r) PROVE NothingStranded'
  BY <1>6 DEF SaveRejected, Return, IInv, TypeOK, NothingStranded, InHand, Ended,
      Finished, pool, bounds
<1>7. ASSUME NEW r \in Request, SaveRejectedFails(r) PROVE NothingStranded'
  BY <1>7 DEF SaveRejectedFails, Return, Fault, IInv, TypeOK, NothingStranded, InHand,
      Ended, rows, pool
<1>8. ASSUME NEW j \in Job, Cancel(j) PROVE NothingStranded'
  BY <1>8 DEF Cancel, CanEnter, IInv, TypeOK, NothingStranded, InHand, Ended, rows, pool,
      requests, bounds
<1>9. CASE Start
  <2>1. queue \in Seq(Job) /\ queue # <<>> /\ mine = NoJob
    BY <1>9 DEF Start, IInv, TypeOK
  <2>2. ASSUME NEW j \in 1..created, ~Ended(j), up, faults = 0
        PROVE  j \in known /\ InHand(j)'
    <3>1. j \in known /\ InHand(j) /\ mine # j
      BY <2>1, <2>2 DEF IInv, NothingStranded, NoJob
    <3>2. CASE \E r \in Request : asking[r] \in {"submit", "undo"} /\ j = created
      <4>1. UNCHANGED <<asking, created>>
        BY <1>9 DEF Start, requests, rows
      <4>. QED BY <3>1, <3>2, <4>1 DEF InHand
    <3>3. ASSUME NEW i \in 1..Len(queue), queue[i] = j PROVE InHand(j)'
      <4>1. CASE i = 1
        BY <1>9, <2>1, <3>3, <4>1 DEF Start, InHand
      <4>2. CASE i # 1
        <5>1. i - 1 \in 1..Len(queue') /\ queue'[i - 1] = j
          BY <1>9, <2>1, <3>3, <4>2, HeadTailProperties DEF Start
        <5>. QED BY <5>1 DEF InHand
      <4>. QED BY <4>1, <4>2
    <3>. QED BY <3>1, <3>2, <3>3 DEF InHand
  <2>. QED BY <1>9, <2>2 DEF Start, NothingStranded, Ended, rows, shared, bounds
<1>10. CASE MarkRunning
  BY <1>10 DEF MarkRunning, IInv, TypeOK, NothingStranded, InHand, PlaceInv, Ended,
      shared, requests, bounds
<1>11. CASE MarkRunningFails
  BY <1>11 DEF MarkRunningFails, Fault, IInv, TypeOK, NothingStranded, InHand, Ended,
      rows, shared, requests
<1>12. ASSUME NEW o \in Finished, Analyse(o) PROVE NothingStranded'
  BY <1>12 DEF Analyse, IInv, TypeOK, NothingStranded, InHand, Ended, rows, shared,
      requests, bounds
<1>13. CASE AnalyseRaises
  BY <1>13 DEF AnalyseRaises, IInv, TypeOK, NothingStranded, InHand, Ended, rows, shared,
      requests, bounds
<1>14. CASE Decide
  BY <1>14 DEF Decide, StopSeen, IInv, TypeOK, NothingStranded, InHand, Ended, rows,
      requests, bounds
<1>15. CASE StoreReport
  BY <1>15 DEF StoreReport, IInv, TypeOK, NothingStranded, InHand, Ended, shared,
      requests, bounds
<1>16. CASE StoreReportFails
  BY <1>16 DEF StoreReportFails, Fault, IInv, TypeOK, NothingStranded, InHand, Ended,
      rows, requests
<1>17. CASE Finish
  <2>1. ASSUME NEW j \in 1..created, ~Ended(j)', up, faults = 0
        PROVE  j \in known' /\ InHand(j)'
    <3>1. j # mine /\ ~Ended(j)
      BY <1>17, <2>1 DEF Finish, Save, StopSeen, Ended, Finished, IInv, TypeOK, Job, NoJob
    <3>2. j \in known /\ InHand(j)
      BY <2>1, <3>1 DEF IInv, NothingStranded
    <3>. QED BY <1>17, <3>1, <3>2 DEF Finish, Leave, Save, InHand, requests
  <2>. QED BY <1>17, <2>1 DEF Finish, Leave, Save, NothingStranded, bounds
<1>18. CASE FinishFails
  BY <1>18 DEF FinishFails, Fault, IInv, TypeOK, NothingStranded, InHand, Ended, rows,
      requests
<1>19. CASE Recover
  <2>1. ASSUME NEW j \in 1..created, ~Ended(j)', up, faults = 0
        PROVE  j \in known' /\ InHand(j)'
    <3>0. PICK s \in Retryable, c \in Code : Save(s, c)
      BY <1>19, RecoverSaves
    <3>1. j # mine /\ ~Ended(j)
      BY <1>19, <2>1, <3>0, RecoverSaves DEF Save, Ended, Retryable, Finished, IInv, TypeOK, Job
    <3>2. j \in known /\ InHand(j)
      BY <2>1, <3>1 DEF IInv, NothingStranded
    <3>. QED BY <1>19, <3>0, <3>1, <3>2 DEF Recover, Leave, Save, InHand, requests
  <2>2. UNCHANGED <<created, up, faults>>
    BY <1>19, RecoverSaves DEF Recover, Leave, Save, bounds
  <2>. QED BY <1>19, <2>1, <2>2 DEF NothingStranded, bounds
<1>20. CASE RecoverFails
  BY <1>20 DEF RecoverFails, Leave, Fault, IInv, TypeOK, NothingStranded, InHand, Ended,
      rows, requests
<1>21. CASE Boot
  BY <1>21, LocalAssumption DEF Boot, Interrupted, IInv, TypeOK, NothingStranded, InHand,
      RowInv, Ended, Finished, Job, pool, requests
<1>22. CASE Close
  BY <1>22 DEF Close, CanEnter, IInv, TypeOK, NothingStranded, InHand, Ended, rows, pool,
      requests, bounds
<1>23. CASE Vanish
  BY <1>23 DEF Vanish, IInv, TypeOK, NothingStranded, InHand, Ended, rows, bounds
<1>24. CASE UNCHANGED vars
  <2>1. \A j : InHand(j)' <=> InHand(j)
    BY <1>24 DEF vars, pool, rows, requests, InHand
  <2>. QED BY <1>24, <2>1 DEF vars, rows, shared, bounds, IInv, NothingStranded, Ended
<1>. QED
  BY <1>1, <1>2, <1>3, <1>4, <1>5, <1>6, <1>7, <1>8, <1>9, <1>10, <1>11, <1>12, <1>13,
     <1>14, <1>15, <1>16, <1>17, <1>18, <1>19, <1>20, <1>21, <1>22, <1>23, <1>24
  DEF Next, Analyze, Run, Exit, Crash

\* `_stop` and the executor are counted alike by every step.
LEMMA CountStep ==
  ASSUME IInv, [Next]_vars, Refused
  PROVE  CountInv'
<1>0. /\ IsFiniteSet(known) /\ Cardinality(known) \in Nat /\ Len(queue) \in Nat
  <2>1. IsFiniteSet(Job)
    BY FS_Interval, LocalAssumption DEF Job
  <2>2. known \subseteq Job /\ queue \in Seq(Job)
    BY DEF IInv, TypeOK
  <2>3. IsFiniteSet(known)
    BY <2>1, <2>2, FS_Subset
  <2>. QED BY <2>2, <2>3, FS_CardinalityType
<1>a. ASSUME UNCHANGED <<known, queue, asking>>, Busy' = Busy PROVE CountInv'
  <2>1. Submitting' = Submitting
    BY <1>a DEF Submitting
  <2>. QED BY <1>a, <2>1 DEF IInv, CountInv
<1>b. ASSUME NEW r \in Request, asking[r] # "no"
      PROVE  \A q \in Request \ {r} : asking[q] = "no"
  BY <1>b DEF IInv, TypeOK
<1>c. ASSUME NEW r \in Request, asking[r] # "no", UNCHANGED <<known, queue, step>>,
             asking' = [asking EXCEPT ![r] = "no"], asking[r] # "submit"
      PROVE  CountInv'
  <2>1. Submitting = 0 /\ Submitting' = 0 /\ Busy' = Busy
    BY <1>b, <1>c DEF Submitting, Busy, IInv, TypeOK
  <2>. QED BY <1>c, <2>1 DEF IInv, CountInv
<1>1. ASSUME NEW r \in Request, NEW s \in Snapshot, Look(r, s) PROVE CountInv'
  <2>1. \A q \in Request : asking[q] = "no"
    BY <1>1, LocalAssumption DEF Look, CanEnter, IInv, TypeOK
  <2>2. Submitting = 0 /\ Submitting' = 0 /\ Busy' = Busy
    BY <1>1, <2>1 DEF Look, Submitting, Busy, pool, IInv, TypeOK
  <2>. QED BY <1>1, <2>2 DEF Look, pool, IInv, CountInv
<1>2. ASSUME NEW r \in Request, SaveQueued(r) PROVE CountInv'
  <2>1. /\ created \in Nat /\ created + 1 \in Job
        /\ status[created + 1] = "none" /\ Cardinality(known) < Capacity
    BY <1>2, LocalAssumption DEF SaveQueued, IInv, TypeOK, AskInv, RowInv, Job
  <2>2. created + 1 \notin known
    BY <2>1 DEF IInv, RowInv, Active
  <2>3. Cardinality(known') = Cardinality(known) + 1
    BY <1>0, <1>2, <2>2, FS_AddElement DEF SaveQueued
  <2>4. Submitting = 0 /\ Submitting' = 1 /\ Busy' = Busy /\ queue' = queue
    BY <1>b, <1>2 DEF SaveQueued, Submitting, Busy, pool, IInv, TypeOK
  <2>. QED BY <1>0, <2>1, <2>3, <2>4, LocalAssumption DEF IInv, CountInv, Busy
<1>3. ASSUME NEW r \in Request,
             SaveQueuedFails(r) \/ SaveRejected(r) \/ SaveRejectedFails(r)
      PROVE  CountInv'
  BY <1>c, <1>3 DEF SaveQueuedFails, SaveRejected, SaveRejectedFails, Return, pool
<1>4. ASSUME NEW r \in Request, Submit(r) PROVE CountInv'
  <2>1. created \in Job /\ queue \in Seq(Job)
    BY <1>4 DEF Submit, IInv, TypeOK, PlaceInv
  <2>2. Len(queue') = Len(queue) + 1
    BY <1>4, <2>1, AppendProperties DEF Submit
  <2>3. Submitting = 1 /\ Submitting' = 0 /\ Busy' = Busy /\ known' = known
    BY <1>b, <1>4 DEF Submit, Return, Submitting, Busy, IInv, TypeOK
  <2>. QED BY <1>0, <2>2, <2>3 DEF IInv, CountInv, Busy
<1>5. ASSUME NEW r \in Request, SubmitFails(r) PROVE CountInv'
  <2>1. created \in known /\ known' = known \ {created}
    BY <1>5 DEF SubmitFails, IInv, PlaceInv
  <2>2. Cardinality(known') = Cardinality(known) - 1
    BY <1>0, <2>1, FS_RemoveElement
  <2>3. queue' = queue
    BY <1>5 DEF SubmitFails, Refused
  <2>4. Submitting = 1 /\ Submitting' = 0 /\ Busy' = Busy
    BY <1>b, <1>5 DEF SubmitFails, Submitting, Busy, IInv, TypeOK
  <2>. QED BY <1>0, <2>2, <2>3, <2>4, LocalAssumption DEF IInv, CountInv, Busy
<1>6. CASE Start
  <2>1. queue \in Seq(Job) /\ queue # <<>> /\ step = "idle" /\ step' = "mark"
    BY <1>6 DEF Start, IInv, TypeOK
  <2>2. Len(queue') = Len(queue) - 1
    BY <1>6, <2>1, HeadTailProperties DEF Start
  <2>3. Busy = 0 /\ Busy' = 1 /\ known' = known /\ Submitting' = Submitting
    BY <1>6, <2>1 DEF Start, Busy, Submitting, shared, requests
  <2>. QED BY <1>0, <2>2, <2>3 DEF IInv, CountInv, Submitting
<1>7. ASSUME Leave, step # "idle" PROVE CountInv'
  <2>1. mine \in known
    BY <1>7 DEF IInv, TypeOK, PlaceInv
  <2>2. Cardinality(known') = Cardinality(known) - 1
    BY <1>0, <1>7, <2>1, FS_RemoveElement DEF Leave
  <2>3. Busy = 1 /\ Busy' = 0 /\ queue' = queue /\ Submitting' = Submitting
    BY <1>7 DEF Leave, Busy, Submitting, requests
  <2>. QED BY <1>0, <2>2, <2>3, LocalAssumption DEF IInv, CountInv, Submitting
<1>8. CASE Finish \/ Recover \/ RecoverFails
  BY <1>7, <1>8 DEF Finish, Recover, RecoverFails
<1>9. CASE \/ MarkRunning \/ MarkRunningFails \/ (\E o \in Finished : Analyse(o))
           \/ AnalyseRaises \/ Decide \/ StoreReport \/ StoreReportFails \/ FinishFails
  <2>1. Busy = 1 /\ Busy' = 1 /\ UNCHANGED <<known, queue, asking>>
    BY <1>9 DEF Busy, MarkRunning, MarkRunningFails, Analyse, AnalyseRaises, Decide,
         StoreReport, StoreReportFails, FinishFails, shared, requests
  <2>. QED BY <1>a, <2>1
<1>10. CASE Boot \/ Close \/ UNCHANGED vars \/ \E j \in Job : Cancel(j)
  <2>1. Busy = Busy' /\ UNCHANGED <<known, queue, asking>>
    BY <1>10 DEF Boot, Close, Cancel, vars, Busy, shared, pool, requests
  <2>. QED BY <1>a, <2>1
<1>11. CASE Vanish
  <2>1. Cardinality(known') = 0 /\ Len(queue') = 0 /\ Busy' = 0 /\ Submitting' = 0
    BY <1>11, FS_EmptySet DEF Vanish, Busy, Submitting
  <2>. QED BY <2>1, LocalAssumption DEF CountInv
<1>. QED
  BY <1>1, <1>2, <1>3, <1>4, <1>5, <1>6, <1>8, <1>9, <1>10, <1>11
  DEF Next, Analyze, Run, Exit, Crash

LEMMA InitInv == Init => IInv
<1>. SUFFICES ASSUME Init PROVE IInv
  OBVIOUS
<1>1. TypeOK
  <2>1. queue \in Seq(Job)
    BY DEF Init
  <2>2. /\ of \in [Job -> Snapshot \cup {"none"}]
        /\ status \in [Job -> Active \cup Finished \cup {"none"}]
        /\ error \in [Job -> Code]
        /\ named \in [Job -> BOOLEAN] /\ stored \in [Job -> BOOLEAN]
        /\ asking \in [Request -> {"no", "save", "submit", "undo"}]
        /\ wanted \in [Request -> Snapshot \cup {"none"}]
    BY DEF Init, Code
  <2>3. \A r \in Request : lock = r <=> asking[r] # "no"
    BY LocalAssumption DEF Init
  <2>4. /\ created \in 0..MaxJobs /\ faults \in 0..MaxFaults /\ boots \in 0..MaxBoots
        /\ mine \in Job \cup {NoJob} /\ outcome \in Finished
    BY LocalAssumption DEF Init, Finished
  <2>. QED BY <2>1, <2>2, <2>3, <2>4 DEF Init, TypeOK, Free, Executor
<1>2. RowInv /\ PlaceInv /\ AskInv /\ RunInv /\ DownInv
  BY LocalAssumption
  DEF Init, RowInv, PlaceInv, AskInv, RunInv, DownInv, Active, NoJob, Job
<1>3. CountInv
  <2>1. Cardinality(known) = 0 /\ Len(queue) = 0 /\ Busy = 0 /\ Submitting = 0
    BY FS_EmptySet DEF Init, Busy, Submitting
  <2>. QED BY <2>1, LocalAssumption DEF CountInv
<1>4. OnlyLatestActive /\ ReportIsReachable /\ CancelIsHonoured /\ NothingStranded
  BY DEF Init, OnlyLatestActive, ReportIsReachable, CancelIsHonoured, NothingStranded
<1>. QED BY <1>1, <1>2, <1>3, <1>4 DEF IInv

\* The inductive invariant holds in every state the local mode can be in.
THEOREM Invariance == ASSUME Refused PROVE Spec => []IInv
<1>1. IInv /\ [Next]_vars => IInv'
  BY TypeStep, RowStep, PlaceStep, AskStep, CountStep, RunStep, DownStep, LatestStep,
     ReportStep, CancelStep, StrandedStep, Refused
  DEF IInv
<1>. QED BY InitInv, <1>1, PTL DEF Spec

\* Every variable keeps its type, and `_lock` its holder.
THEOREM TypeCorrect == ASSUME Refused PROVE Spec => []TypeOK
<1>1. IInv => TypeOK
  BY DEF IInv
<1>. QED BY <1>1, Invariance, PTL

\* No snapshot is ever analysed by two jobs at a time.
THEOREM NothingTwice == ASSUME Refused PROVE Spec => []OnlyLatestActive
<1>1. IInv => OnlyLatestActive
  BY DEF IInv
<1>. QED BY <1>1, Invariance, PTL

\* The executor never has more than Capacity jobs before it.
THEOREM BoundedQueue == ASSUME Refused PROVE Spec => []QueueBounded
<1>1. ASSUME IInv PROVE QueueBounded
  <2>1. Len(queue) \in Nat /\ Submitting \in {0, 1} /\ Busy \in {0, 1}
    BY <1>1 DEF IInv, TypeOK, Submitting, Busy
  <2>. QED BY <1>1, <2>1, LocalAssumption DEF IInv, CountInv, QueueBounded, Busy
<1>. QED BY <1>1, Invariance, PTL

\* The report a job names is stored, and a stored one is named.
THEOREM ReportsReachable == ASSUME Refused PROVE Spec => []ReportIsReachable
<1>1. IInv => ReportIsReachable
  BY DEF IInv
<1>. QED BY <1>1, Invariance, PTL

\* A job whose cancellation was accepted ends as cancelled, and without a stored
\* report unless a write failed.
THEOREM CancelWins == ASSUME Refused PROVE Spec => []CancelIsHonoured
<1>1. IInv => CancelIsHonoured
  BY DEF IInv
<1>. QED BY <1>1, Invariance, PTL

\* While no write fails, no job is left without somebody who ends it.
THEOREM NoneStranded == ASSUME Refused PROVE Spec => []NothingStranded
<1>1. IInv => NothingStranded
  BY DEF IInv
<1>. QED BY <1>1, Invariance, PTL

\* The rows of ended jobs are not among those a step rewrites.
LEMMA FinalStep ==
  ASSUME IInv, [Next]_vars, Refused
  PROVE  EndIsFinalStep
<1>1. ASSUME NEW r \in Request, NEW s \in Snapshot, Look(r, s) PROVE EndIsFinalStep
  BY <1>1 DEF Look, CanEnter, HasRoom, IInv, TypeOK, EndIsFinalStep, Ended, rows, pool,
      bounds
<1>2. ASSUME NEW r \in Request, SaveQueued(r) PROVE EndIsFinalStep
  BY <1>2 DEF SaveQueued, IInv, TypeOK, EndIsFinalStep, RowInv, Ended, Finished, pool,
      bounds
<1>3. ASSUME NEW r \in Request, SaveQueuedFails(r) PROVE EndIsFinalStep
  BY <1>3 DEF SaveQueuedFails, Return, Fault, IInv, TypeOK, EndIsFinalStep, Ended, rows,
      pool
<1>4. ASSUME NEW r \in Request, Submit(r) PROVE EndIsFinalStep
  BY <1>4 DEF Submit, Return, IInv, TypeOK, EndIsFinalStep, Ended, rows, bounds
<1>5. ASSUME NEW r \in Request, SubmitFails(r) PROVE EndIsFinalStep
  BY <1>5 DEF SubmitFails, Fault, IInv, TypeOK, EndIsFinalStep, Ended, rows
<1>6. ASSUME NEW r \in Request, SaveRejected(r) PROVE EndIsFinalStep
  BY <1>6 DEF SaveRejected, Return, IInv, TypeOK, EndIsFinalStep, PlaceInv, Ended,
      Finished, pool, bounds
<1>7. ASSUME NEW r \in Request, SaveRejectedFails(r) PROVE EndIsFinalStep
  BY <1>7 DEF SaveRejectedFails, Return, Fault, IInv, TypeOK, EndIsFinalStep, Ended, rows,
      pool
<1>8. ASSUME NEW j \in Job, Cancel(j) PROVE EndIsFinalStep
  BY <1>8 DEF Cancel, CanEnter, IInv, TypeOK, EndIsFinalStep, Ended, rows, pool, requests,
      bounds
<1>9. CASE Start
  BY <1>9 DEF Start, IInv, TypeOK, EndIsFinalStep, Ended, rows, shared, requests, bounds
<1>10. CASE MarkRunning
  BY <1>10 DEF MarkRunning, IInv, TypeOK, EndIsFinalStep, PlaceInv, Ended, Finished,
      shared, requests, bounds
<1>11. CASE MarkRunningFails
  BY <1>11 DEF MarkRunningFails, Fault, IInv, TypeOK, EndIsFinalStep, Ended, rows, shared,
      requests
<1>12. ASSUME NEW o \in Finished, Analyse(o) PROVE EndIsFinalStep
  BY <1>12 DEF Analyse, IInv, TypeOK, EndIsFinalStep, Ended, rows, shared, requests, bounds
<1>13. CASE AnalyseRaises
  BY <1>13 DEF AnalyseRaises, IInv, TypeOK, EndIsFinalStep, Ended, rows, shared, requests,
      bounds
<1>14. CASE Decide
  BY <1>14 DEF Decide, StopSeen, IInv, TypeOK, EndIsFinalStep, Ended, rows, requests, bounds
<1>15. CASE StoreReport
  BY <1>15 DEF StoreReport, IInv, TypeOK, EndIsFinalStep, PlaceInv, Ended, Finished,
      shared, requests, bounds
<1>16. CASE StoreReportFails
  BY <1>16 DEF StoreReportFails, Fault, IInv, TypeOK, EndIsFinalStep, Ended, rows, requests
<1>17. CASE Finish
  BY <1>17 DEF Finish, Save, Leave, StopSeen, IInv, TypeOK, EndIsFinalStep, PlaceInv,
      Ended, Finished, requests, bounds
<1>18. CASE FinishFails
  BY <1>18 DEF FinishFails, Fault, IInv, TypeOK, EndIsFinalStep, Ended, rows, requests
<1>19. CASE Recover
  BY <1>19, LocalAssumption DEF Recover, Save, Leave, StopSeen, IInv, TypeOK,
      EndIsFinalStep, RowInv, PlaceInv, Ended, Finished, Active, requests, bounds
<1>20. CASE RecoverFails
  BY <1>20 DEF RecoverFails, Leave, Fault, IInv, TypeOK, EndIsFinalStep, Ended, rows,
      requests
<1>21. CASE Boot
  BY <1>21 DEF Boot, Interrupted, IInv, TypeOK, EndIsFinalStep, Ended, Finished, Active,
      pool, requests
<1>22. CASE Close
  BY <1>22 DEF Close, CanEnter, IInv, TypeOK, EndIsFinalStep, Ended, rows, pool, requests,
      bounds
<1>23. CASE Vanish
  BY <1>23 DEF Vanish, IInv, TypeOK, EndIsFinalStep, Ended, rows, bounds
<1>24. CASE UNCHANGED vars
  BY <1>24 DEF vars, IInv, TypeOK, EndIsFinalStep, Ended, rows, shared, pool, requests,
      bounds
<1>. QED
  BY <1>1, <1>2, <1>3, <1>4, <1>5, <1>6, <1>7, <1>8, <1>9, <1>10, <1>11, <1>12, <1>13,
     <1>14, <1>15, <1>16, <1>17, <1>18, <1>19, <1>20, <1>21, <1>22, <1>23, <1>24
  DEF Next, Analyze, Run, Exit, Crash

\* An ended job never changes again.
THEOREM EndedIsFinal == ASSUME Refused PROVE Spec => EndIsFinal
<1>1. IInv /\ [Next]_vars => EndIsFinalStep
  BY FinalStep, Refused
<1>. QED BY <1>1, Invariance, PTL DEF EndIsFinal, Spec

\* close returns with every job ended, unless a write failed.
THEOREM CloseIsClean == ASSUME Refused PROVE Spec => CloseFinishesJobs
<1>1. ASSUME IInv, Exit, faults = 0, NEW j \in 1..created PROVE Ended(j)
  <2>1. queue = <<>> /\ mine = NoJob /\ up /\ \A r \in Request : asking[r] = "no"
    BY <1>1 DEF Exit, Drained, IInv, TypeOK, DownInv
  <2>2. j # NoJob
    BY <1>1 DEF NoJob
  <2>3. ~InHand(j)
    BY <2>1, <2>2 DEF InHand
  <2>. QED BY <1>1, <2>1, <2>3 DEF IInv, NothingStranded
<1>2. IInv => CloseFinishesStep
  BY <1>1 DEF CloseFinishesStep
<1>. QED BY <1>2, Invariance, PTL DEF CloseFinishesJobs
=============================================================================
