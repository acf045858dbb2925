----------------------------- MODULE Reporting ------------------------------
(***************************************************************************)
(* ApiRuntime and CachingWorker of backend/app/services/reporting for one    *)
(* owner's repository: requests that analyse and read, worker threads that   *)
(* index and publish what the queue made durable, the analysis cache between *)
(* them, and a repository that changes.                                     *)
(*                                                                         *)
(* The queue is what JobLifecycle promises of it (QueuePromise checks that). *)
(* A call of the scope resolver, a statement of SQL and a call to Qdrant is   *)
(* a step.  A request or a worker may fail at any of them.                   *)
(***************************************************************************)
EXTENDS VectorIndex

CONSTANTS
  Request, \* request threads of the API
  Key,     \* idempotency keys of clients
  Attempts,\* max_attempts of a job
  Vectors, \* whether the processes are configured with a rag_index: each reads that itself
  MaxJobs  \* bound: job rows

\* CachingWorkers are the callers of index_snapshot.
Worker == Indexer
Nobody == "nobody"

\* A key that is made by uuid4.
NoKey  == "no key"

ASSUME ReportingAssumption ==
  /\ Attempts \in Nat \ {0}
  /\ MaxJobs \in Nat
  /\ Vectors \subseteq BOOLEAN
  /\ Nobody \notin Worker /\ NoKey \notin Key

\* Jobs are numbered in the order of created_at.
Job   == 1..MaxJobs
NoJob == 0

VARIABLES
  \* Rows of analysis_jobs, with the thread that holds the claim.
  status, commitOf, keyOf, left, stopping, holder,
  cache,   \* the analysis_cache row of each commit
  wpc,     \* where process_one of a CachingWorker is
  work,    \* the job it claimed
  rpc,     \* where a request is
  key,     \* its idempotency key
  commit,  \* snapshot.commit_sha of analyze
  seen,    \* the scope that a read, or _has_index, compares with
  row,     \* the job, by itself or as the source of a report, it found
  reply,   \* what it answered
  held     \* history: the scopes since the row was read

jobVars     == <<status, commitOf, keyOf, left, stopping, holder>>
workVars    == <<wpc, work>>
requestVars == <<rpc, key, commit, seen, row, reply>>
reportVars  == <<vars, jobVars, cache, workVars, requestVars, held>>

Unfinished == {"queued", "running"}
Ends       == {"completed", "partial", "failed", "cancelled"}
NoRow      == [job |-> NoJob, fresh |-> FALSE]
Replies    == {"none", "cached", "queued", "conflict", "job", "cancel", "report"}

TypeOKReporting ==
  /\ TypeOK
  /\ status   \in [Job -> {"absent"} \cup Unfinished \cup Ends]
  /\ commitOf \in [Job -> Commit \cup {"none"}]
  /\ keyOf    \in [Job -> Key \cup {NoKey}]
  /\ left     \in [Job -> 0..Attempts]
  /\ stopping \in [Job -> BOOLEAN]
  /\ holder   \in [Job -> Worker \cup {Nobody}]
  /\ cache    \in [Commit -> [job : Job \cup {NoJob}, fresh : BOOLEAN]]
  /\ \A c \in Commit : cache[c].fresh => cache[c].job \in Job
  /\ wpc      \in [Worker -> {"idle", "handler", "ended", "snapshot", "index", "indexing", "check", "put"}]
  /\ work     \in [Worker -> Job \cup {NoJob}]
  /\ \A w \in Worker : wpc[w] # "idle" => work[w] \in Job
  /\ rpc      \in [Request -> {"idle", "cache", "row", "index", "scroll", "some", "none", "active",
                               "rebuild", "enqueue", "job", "cancel", "report", "read",
                               "confirmed", "replied"}]
  /\ key      \in [Request -> Key \cup {NoKey}]
  /\ commit   \in [Request -> Commit \cup {"none"}]
  /\ seen     \in [Request -> AuthorizedScope \cup {Denied}]
  /\ row      \in [Request -> Job \cup {NoJob}]
  /\ reply    \in [Request -> Replies]
  /\ held     \in [Request -> SUBSET (AuthorizedScope \cup {Denied})]

InitReporting ==
  /\ Init
  /\ status   = [j \in Job |-> "absent"]
  /\ commitOf = [j \in Job |-> "none"]
  /\ keyOf    = [j \in Job |-> NoKey]
  /\ left     = [j \in Job |-> 0]
  /\ stopping = [j \in Job |-> FALSE]
  /\ holder   = [j \in Job |-> Nobody]
  /\ cache    = [c \in Commit |-> NoRow]
  /\ wpc      = [w \in Worker |-> "idle"]
  /\ work     = [w \in Worker |-> NoJob]
  /\ rpc      = [r \in Request |-> "idle"]
  /\ key      = [r \in Request |-> NoKey]
  /\ commit   = [r \in Request |-> "none"]
  /\ seen     = [r \in Request |-> Denied]
  /\ row      = [r \in Request |-> NoJob]
  /\ reply    = [r \in Request |-> "none"]
  /\ held     = [r \in Request |-> {}]

-----------------------------------------------------------------------------
(* The queue.                                                              *)

\* INSERT of enqueue: the snapshot's row is there, analyze made sure of it.
Insert(r, k) ==
  \E j \in Job :
    /\ status[j] = "absent" /\ \A i \in 1..(j - 1) : status[i] # "absent"
    /\ status'   = [status   EXCEPT ![j] = "queued"]
    /\ commitOf' = [commitOf EXCEPT ![j] = commit[r]]
    /\ keyOf'    = [keyOf    EXCEPT ![j] = k]
    /\ left'     = [left     EXCEPT ![j] = Attempts]
    /\ row'      = [row      EXCEPT ![r] = j]
    /\ UNCHANGED <<stopping, holder>>

\* A job leaves the running state; its claim is gone.
EndJob(j, end) ==
  /\ status' = [status EXCEPT ![j] = end]
  /\ holder' = [holder EXCEPT ![j] = Nobody]
  /\ UNCHANGED <<commitOf, keyOf, left, stopping>>

\* A claim whose lease is over is swept.
Swept(j) ==
  /\ status[j] = "running"
  /\ \/ stopping[j] /\ EndJob(j, "cancelled")
     \/ ~stopping[j] /\ left[j] = 0 /\ EndJob(j, "failed")

\* Mutant of CancelJob: it ends a running job as well.
CancelJobNow(j) ==
  /\ status[j] \in Unfinished
  /\ status'   = [status   EXCEPT ![j] = "cancelled"]
  /\ stopping' = [stopping EXCEPT ![j] = TRUE]
  /\ UNCHANGED <<commitOf, keyOf, left, holder>>

CancelJob(j) ==
  /\ status[j] \in Unfinished
  /\ status'   = [status   EXCEPT ![j] = IF @ = "queued" THEN "cancelled" ELSE @]
  /\ stopping' = [stopping EXCEPT ![j] = TRUE]
  /\ UNCHANGED <<commitOf, keyOf, left, holder>>

-----------------------------------------------------------------------------
(* CachingWorker.process_one.                                              *)

WGoto(w, from, to) == wpc[w] = from /\ wpc' = [wpc EXCEPT ![w] = to]

\* Also a running job whose lease is over.
Claims(w, j) ==
  /\ WGoto(w, "idle", "handler")
  /\ \/ status[j] = "queued"
     \/ status[j] = "running" /\ ~stopping[j] /\ left[j] > 0
  /\ status' = [status EXCEPT ![j] = "running"]
  /\ holder' = [holder EXCEPT ![j] = w]
  /\ left'   = [left   EXCEPT ![j] = @ - 1]
  /\ work'   = [work   EXCEPT ![w] = j]
  /\ UNCHANGED <<commitOf, keyOf, stopping, cache>>

\* Mutant of HandlerEnds: the claim may have gone to another worker.
HandlerEndsStale(w) ==
  LET j == work[w]
  IN  /\ WGoto(w, "handler", "ended")
      /\ \/ UNCHANGED jobVars
         \/ stopping[j] /\ EndJob(j, "cancelled")
         \/ ~stopping[j] /\ \E end \in Ends \ {"cancelled"} : EndJob(j, end)
         \/ ~stopping[j] /\ left[j] > 0 /\ EndJob(j, "queued")
      /\ UNCHANGED <<work, cache>>

\* Worker.process_one records the end, if the claim is still its own.
HandlerEnds(w) ==
  LET j == work[w]
  IN  /\ WGoto(w, "handler", "ended")
      /\ \/ UNCHANGED jobVars
         \/ /\ holder[j] = w
            /\ \/ stopping[j] /\ EndJob(j, "cancelled")
               \/ ~stopping[j] /\ \E end \in Ends \ {"cancelled"} : EndJob(j, end)
               \/ ~stopping[j] /\ left[j] > 0 /\ EndJob(j, "queued")
      /\ UNCHANGED <<work, cache>>

\* Mutant of FindsCompleted: what the handler returned is taken for done.
FindsAnyEnd(w) ==
  /\ WGoto(w, "ended", "snapshot")
  /\ UNCHANGED <<jobVars, work, cache>>

\* Whoever completed the job, this thread publishes it.
FindsCompleted(w) ==
  /\ WGoto(w, "ended", "snapshot")
  /\ status[work[w]] = "completed"
  /\ UNCHANGED <<jobVars, work, cache>>

FindsSnapshot(w) ==
  /\ WGoto(w, "snapshot", "index")
  /\ scope # Denied /\ scope.commit = commitOf[work[w]]
  /\ UNCHANGED <<jobVars, work, cache>>

\* _index_material: the sources are loaded between looks at the scope.
IndexesMaterial(w) ==
  /\ TRUE \in Vectors
  /\ WGoto(w, "index", "indexing")
  /\ IndexBegins(w)
  /\ scope.commit = commitOf[work[w]]
  /\ UNCHANGED <<jobVars, work, cache>>

\* There is no rag_index, or it fails before index_snapshot, which is only logged.
IndexesNot(w) ==
  /\ WGoto(w, "index", "check")
  /\ UNCHANGED <<jobVars, work, cache>>

\* index_snapshot returned, or raised, which is only logged as well.
Indexed(w) ==
  /\ WGoto(w, "indexing", "check")
  /\ ipc[w] \in {"idle", "done"}
  /\ UNCHANGED <<jobVars, work, cache>>

\* The access check of AnalysisCache.put.
PutChecks(w) ==
  /\ WGoto(w, "check", "put")
  /\ scope # Denied /\ scope.commit = commitOf[work[w]]
  /\ UNCHANGED <<jobVars, work, cache>>

\* INSERT .. SELECT .. ON CONFLICT: the last writer wins.
Puts(w) ==
  /\ WGoto(w, "put", "idle")
  /\ status[work[w]] = "completed"
  /\ cache' = [cache EXCEPT ![commitOf[work[w]]] = [job |-> work[w], fresh |-> TRUE]]
  /\ work'  = [work EXCEPT ![w] = NoJob]
  /\ UNCHANGED jobVars

\* process_one returns without publishing, or the process dies.
WorkerEnds(w) ==
  /\ wpc[w] \notin {"idle", "indexing"} \/ (wpc[w] = "indexing" /\ ipc[w] \in {"idle", "done"})
  /\ wpc'  = [wpc  EXCEPT ![w] = "idle"]
  /\ work' = [work EXCEPT ![w] = NoJob]
  /\ UNCHANGED <<jobVars, cache>>

WorkerStep(w) ==
  \/ \E j \in Job : Claims(w, j) /\ UNCHANGED indexVars
  \/ HandlerEnds(w) /\ UNCHANGED indexVars
  \/ FindsCompleted(w) /\ UNCHANGED indexVars
  \/ FindsSnapshot(w) /\ UNCHANGED indexVars
  \/ IndexesMaterial(w)
  \/ IndexesNot(w) /\ UNCHANGED indexVars
  \/ Indexed(w) /\ UNCHANGED indexVars
  \/ PutChecks(w) /\ UNCHANGED indexVars
  \/ Puts(w) /\ UNCHANGED indexVars
  \/ WorkerEnds(w) /\ UNCHANGED indexVars

\* index_snapshot goes on.
IndexGoesOn(w) ==
  /\ wpc[w] = "indexing"
  /\ \/ IndexEnds(w) \/ IndexRechecks(w) \/ IndexScrolls(w)
     \/ IndexDeletes(w) \/ IndexUpserts(w) \/ IndexReturns(w)
  /\ UNCHANGED <<jobVars, workVars, cache>>

-----------------------------------------------------------------------------
(* analyze.                                                                *)

RGoto(r, from, to) == rpc[r] = from /\ rpc' = [rpc EXCEPT ![r] = to]

Answer(r, from, what) ==
  /\ RGoto(r, from, "replied")
  /\ reply' = [reply EXCEPT ![r] = what]

\* _authorized_snapshot: the scope and what was fetched are the same before and
\* after, or it raises.
AnalyzeBegins(r, k) ==
  /\ RGoto(r, "idle", "cache")
  /\ scope # Denied
  /\ commit' = [commit EXCEPT ![r] = scope.commit]
  /\ key'    = [key    EXCEPT ![r] = k]
  /\ UNCHANGED <<jobVars, seen, row, reply, held>>

\* The access check of AnalysisCache.get: another commit is a miss.
GetChecks(r) ==
  /\ scope # Denied
  /\ IF scope.commit = commit[r] THEN RGoto(r, "cache", "row")
                                 ELSE RGoto(r, "cache", "enqueue")
  /\ UNCHANGED <<jobVars, key, commit, seen, row, reply, held>>

\* Mutant of Hit: a row is a hit for every commit.
HitOfAny(c) == {cache[d].job : d \in {x \in Commit : cache[x].fresh}}

\* The SELECT of get: a fresh row, and its job completed.
Hit(c) == {cache[d].job : d \in {x \in {c} : cache[x].fresh /\ status[cache[x].job] = "completed"}}

Gets(r) ==
  /\ rpc[r] = "row"
  /\ \/ Hit(commit[r]) = {} /\ RGoto(r, "row", "enqueue") /\ UNCHANGED row
     \/ \E j \in Hit(commit[r]) : RGoto(r, "row", "index") /\ row' = [row EXCEPT ![r] = j]
  /\ UNCHANGED <<jobVars, key, commit, seen, reply, held>>

AnswersWithoutIndex(r) ==
  /\ FALSE \in Vectors
  /\ Answer(r, "index", "cached")
  /\ UNCHANGED <<jobVars, key, commit, seen, row, held>>

\* _has_index looks for itself.
HasIndexBegins(r) ==
  /\ TRUE \in Vectors
  /\ RGoto(r, "index", "scroll")
  /\ scope # Denied
  /\ seen' = [seen EXCEPT ![r] = scope]
  /\ UNCHANGED <<jobVars, key, commit, row, reply, held>>

\* One point of the scope is enough.
HasIndexScrolls(r) ==
  /\ rpc[r] = "scroll"
  /\ \/ \E p \in points : /\ p.commit = seen[r].commit /\ p.private = seen[r].private
                          /\ RGoto(r, "scroll", "some")
     \/ /\ \A p \in points : ~(p.commit = seen[r].commit /\ p.private = seen[r].private)
        /\ RGoto(r, "scroll", "none")
  /\ UNCHANGED <<jobVars, key, commit, seen, row, reply, held>>

HasIndexConfirms(r) ==
  /\ scope = seen[r]
  /\ \/ Answer(r, "some", "cached")
     \/ RGoto(r, "none", "active") /\ UNCHANGED reply
  /\ UNCHANGED <<jobVars, key, commit, seen, row, held>>

Active(c) == {j \in Job : commitOf[j] = c /\ status[j] \in Unfinished}

\* An active rebuild is reused, the youngest one.
ReusesActive(r) ==
  /\ Answer(r, "active", "queued")
  /\ \E j \in Active(commit[r]) :
       /\ \A i \in Active(commit[r]) : i <= j
       /\ row' = [row EXCEPT ![r] = j]
  /\ UNCHANGED <<jobVars, key, commit, seen, held>>

FindsNoActive(r) ==
  /\ Active(commit[r]) = {}
  /\ RGoto(r, "active", "rebuild")
  /\ UNCHANGED <<jobVars, key, commit, seen, row, reply, held>>

\* A rebuild does not use the client's key.
EnqueuesRebuild(r) ==
  /\ Answer(r, "rebuild", "queued")
  /\ Insert(r, NoKey)
  /\ UNCHANGED <<key, commit, seen, held>>

Replayed(k) == {j \in Job : k \in Key /\ keyOf[j] = k}

Enqueues(r) ==
  /\ Replayed(key[r]) = {}
  /\ Answer(r, "enqueue", "queued")
  /\ Insert(r, key[r])
  /\ UNCHANGED <<key, commit, seen, held>>

\* A client's key finds its job, whatever became of it.
Replays(r) ==
  \E j \in Replayed(key[r]) :
    /\ \/ commitOf[j] = commit[r] /\ Answer(r, "enqueue", "queued") /\ row' = [row EXCEPT ![r] = j]
       \/ commitOf[j] # commit[r] /\ Answer(r, "enqueue", "conflict") /\ UNCHANGED row
    /\ UNCHANGED <<jobVars, key, commit, seen, held>>

-----------------------------------------------------------------------------
(* Reads.  `what` is job, cancel or report: _job, cancel, and analysis or    *)
(* _latest.                                                                *)

ReadBegins(r, what) ==
  /\ RGoto(r, "idle", what)
  /\ scope # Denied
  /\ seen' = [seen EXCEPT ![r] = scope]
  /\ UNCHANGED <<jobVars, key, commit, row, reply, held>>

\* Every job has a row, and one that has ended may have a report.
Readable(what) ==
  {j \in Job : IF what = "report" THEN status[j] \in Ends
                                  ELSE status[j] # "absent"}

\* What was asked for is kept in `reply`, which is sent when `rpc` says so.
Reads(r, what) ==
  /\ RGoto(r, what, "read")
  /\ \E j \in Readable(what) : row' = [row EXCEPT ![r] = j]
  /\ reply' = [reply EXCEPT ![r] = what]
  /\ held'  = [held  EXCEPT ![r] = {scope}]
  /\ UNCHANGED <<jobVars, key, commit, seen>>

\* The row is of the scope, and the scope still holds.
Confirms(r) ==
  /\ \/ reply[r] # "cancel" /\ RGoto(r, "read", "replied")
     \/ reply[r] = "cancel" /\ RGoto(r, "read", "confirmed")
  /\ commitOf[row[r]] = seen[r].commit
  /\ scope = seen[r]
  /\ UNCHANGED <<jobVars, key, commit, seen, row, reply, held>>

\* A job that has ended stays as it is.
Cancels(r) ==
  /\ RGoto(r, "confirmed", "replied")
  /\ \/ CancelJob(row[r])
     \/ status[row[r]] \in Ends /\ UNCHANGED jobVars
  /\ UNCHANGED <<key, commit, seen, row, reply, held>>

\* The request returns, or raises wherever it is.
RequestEnds(r) ==
  /\ rpc[r] # "idle"
  /\ rpc'    = [rpc    EXCEPT ![r] = "idle"]
  /\ key'    = [key    EXCEPT ![r] = NoKey]
  /\ commit' = [commit EXCEPT ![r] = "none"]
  /\ seen'   = [seen   EXCEPT ![r] = Denied]
  /\ row'    = [row    EXCEPT ![r] = NoJob]
  /\ reply'  = [reply  EXCEPT ![r] = "none"]
  /\ held'   = [held   EXCEPT ![r] = {}]
  /\ UNCHANGED jobVars

RequestStep(r) ==
  \/ \E k \in Key \cup {NoKey} : AnalyzeBegins(r, k)
  \/ GetChecks(r) \/ Gets(r) \/ AnswersWithoutIndex(r)
  \/ HasIndexBegins(r) \/ HasIndexScrolls(r) \/ HasIndexConfirms(r)
  \/ ReusesActive(r) \/ FindsNoActive(r) \/ EnqueuesRebuild(r) \/ Enqueues(r) \/ Replays(r)
  \/ \E what \in {"job", "cancel", "report"} : ReadBegins(r, what) \/ Reads(r, what)
  \/ Confirms(r) \/ Cancels(r) \/ RequestEnds(r)

-----------------------------------------------------------------------------
\* An hour passes.
Expires(c) ==
  /\ cache[c].fresh
  /\ cache' = [cache EXCEPT ![c].fresh = FALSE]

\* prune_expired removes rows that have expired, invalidate any.
Drops(c) ==
  /\ cache[c] # NoRow
  /\ cache' = [cache EXCEPT ![c] = NoRow]

ScopeMoves ==
  /\ ChangeScope
  /\ held' = [r \in Request |-> IF held[r] = {} THEN {} ELSE held[r] \cup {scope'}]

NextReporting ==
  \/ ScopeMoves /\ UNCHANGED <<indexVars, jobVars, cache, workVars, requestVars>>
  \/ \E c \in Commit : (Expires(c) \/ Drops(c)) /\ UNCHANGED <<vars, jobVars, workVars, requestVars, held>>
  \/ \E j \in Job : Swept(j) /\ UNCHANGED <<vars, cache, workVars, requestVars, held>>
  \/ \E w \in Worker : (WorkerStep(w) \/ IndexGoesOn(w)) /\ UNCHANGED <<scope, changes, requestVars, held>>
  \/ \E r \in Request : RequestStep(r) /\ UNCHANGED <<vars, cache, workVars>>

SpecReporting == InitReporting /\ [][NextReporting]_reportVars

-----------------------------------------------------------------------------
(* Safety.                                                                 *)

\* Whatever order workers complete, publish, sweep and retry in, a cache row
\* points to a completed analysis of its own commit.
CacheIsSound ==
  \A c \in Commit : cache[c].job # NoJob =>
    status[cache[c].job] = "completed" /\ commitOf[cache[c].job] = c

\* What analyze answers is an analysis, finished or queued, of the snapshot that
\* was authorized for the request, whatever the repository has become and
\* whichever key the client replays.
AnswersAreOfSnapshot ==
  \A r \in Request :
    /\ reply[r] \in {"cached", "queued"} => commitOf[row[r]] = commit[r]
    /\ reply[r] = "cached" => status[row[r]] = "completed"

\* A job or a report is shown, and a job cancelled, only if the access that the
\* read began with was there after the row was read.
ReadIsConfirmed ==
  \A r \in Request : rpc[r] = "replied" /\ reply[r] \in {"job", "cancel", "report"} =>
    /\ commitOf[row[r]] = seen[r].commit
    /\ seen[r] \in held[r]

\* Only a thread of CachingWorker that knows its job completed publishes.
PublishesCompleted ==
  \A w \in Worker : wpc[w] \in {"snapshot", "index", "indexing", "check", "put"} =>
    status[work[w]] = "completed"

\* What makes them inductive.  A job that has ended has no holder and one that
\* waits may be started; what threads remember of a job is still so.
JobInv ==
  \A j \in Job :
    /\ holder[j] # Nobody => status[j] = "running"
    /\ status[j] = "queued" => left[j] > 0 /\ ~stopping[j]
    /\ status[j] = "absent" => left[j] = 0 /\ ~stopping[j] /\ keyOf[j] = NoKey

WorkInv == \A w \in Worker : wpc[w] # "idle" => status[work[w]] # "absent"

RequestInv ==
  \A r \in Request :
    /\ rpc[r] = "idle" => row[r] = NoJob
    /\ rpc[r] = "row" => commit[r] \in Commit
    /\ reply[r] # "none" => rpc[r] \in {"read", "confirmed", "replied"}
    /\ reply[r] \notin {"none", "conflict"} => row[r] \in Job
    /\ row[r] \in Job => status[row[r]] # "absent"
    /\ rpc[r] \in {"index", "scroll", "some", "none"} =>
         row[r] \in Job /\ status[row[r]] = "completed" /\ commitOf[row[r]] = commit[r]
    /\ rpc[r] \in {"read", "confirmed"} => reply[r] \in {"job", "cancel", "report"}
    /\ reply[r] \in {"job", "cancel", "report"} => scope \in held[r]
    /\ rpc[r] = "confirmed" => commitOf[row[r]] = seen[r].commit /\ seen[r] \in held[r]

RInv ==
  /\ TypeOKReporting /\ JobInv /\ WorkInv /\ RequestInv
  /\ CacheIsSound /\ AnswersAreOfSnapshot /\ ReadIsConfirmed /\ PublishesCompleted

Queue == INSTANCE JobLifecycle WITH
  AttemptLimits <- {Attempts},
  phase    <- [j \in Job |-> CASE status[j] = "absent"  -> "absent"
                               [] status[j] = "queued"  -> "waiting"
                               [] status[j] = "running" -> "working"
                               [] OTHER                 -> "ended"],
  stopping <- stopping,
  ending   <- [j \in Job |-> IF status[j] \in Ends THEN status[j] ELSE "none"],
  report   <- [j \in Job |-> CASE status[j] = "completed" -> "succeeded"
                               [] status[j] = "partial"   -> "partial"
                               [] OTHER                   -> "none"]

\* The queue that requests and workers are modelled on does nothing that the
\* job store does not promise.
QueuePromise == Queue!Spec

-----------------------------------------------------------------------------
(* What a comment says and the code does not.                               *)

\* "The durable result survived but local vectors did not. Rebuild": when no
\* worker is indexing, what _has_index finds is the index of the snapshot.
IndexedIsWhole ==
  \A r \in Request : rpc[r] = "some" /\ (\A w \in Worker : wpc[w] # "indexing") =>
    PointsOf(seen[r]) \subseteq points
=============================================================================
