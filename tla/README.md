# A TLA+ model of Ariadne

Ariadne analyses repositories: it reads a snapshot of a repository, runs five
deterministic analyses over it, stores the report, and answers questions about
the source from a vector index. It runs as a hosted product (PostgreSQL, Qdrant,
GitHub sign-in, separate worker processes) and as a local application (SQLite,
one process). This directory models the parts of it whose correctness depends on
the order in which things happen, and the algorithms whose results others build
on; it checks them with TLC, and proves the safety
properties that matter most with TLAPS.

Paths below are relative to `src/backend/app` unless they begin with `src/`.

## The system

| component | state | operations | talks to | what is hard | what makes it correct |
|---|---|---|---|---|---|
| Job queue, `jobs/store.py`, `jobs/schema.sql` | rows of `analysis_jobs`, one report per ended job in `analyses` | enqueue, cancel, claim (sweep, then take), heartbeat, should_stop, acknowledge_cancel, fail, complete | any number of API and worker processes through PostgreSQL | leases that run out under a live worker, stale workers, retries, a frozen `now()`, cancels at any time | one holder, reports only with their end, the attempt budget, no lost cancel, ends are final, every job ends |
| Job worker, `jobs/worker.py` | one claimed job, what its handler left, the heartbeat thread's Event | process_one, keep_lease, run_forever | the queue; a handler (the coordinator) | every database call is a step of its own and may fail; the process may die | a stop is never recorded as a failure, stale answers change nothing |
| Coordinator, `ai/orchestration/` | a pool of role threads, completed futures, a deadline | run, _report, to_analysis_result | current_snapshot (live access), should_stop, five analyzers | threads cannot be killed; cancel, deadline, revocation and answers race | a report is whole, true to its roles, accepted by the contract, and comes in time |
| Local runtime, `local/runtime.py`, `local/main.py` | `_stop`, `_closed`, `_lock`, an executor with one thread | analyze, _run, cancel, close; start and end of the process | request threads, the local store, the coordinator | request threads against the executor, writes that fail one by one, death and restart | nothing analysed twice at once, the queue limit, reachable reports, honoured cancels, nothing stranded |
| Local store, `local/store.py` | SQLite tables snapshots, repositories, analyses, jobs | save_snapshot, save_job, save_analysis, latest_job, recover_interrupted_jobs | the local runtime | separate transactions for a report and its job | saved snapshots are immutable, recovery touches unfinished rows only |
| Analysis cache, `cache/store.py` | `analysis_cache` rows with an expiry | get, put, invalidate, prune_expired | live access check | check and read are two steps | only complete results of the same owner and commit |
| Reporting, `services/reporting/service.py` | none of its own | analyze, job, cancel, analysis, _latest, chat; CachingWorker | queue, cache, index, GitHub scope | check, then enqueue; commit, then index, then cache | a hit is current; a lost index is rebuilt |
| Identity, `security/identity/` | one-time states, login attempts, connections, sessions, users | start, finish, finish_login, valid_token, replace_session | GitHub OAuth | threads that share a connection and so each other's transactions, a state used twice, first logins and refreshes at once | a state is used again only after a rollback, one user per account, credentials of their starter, no overtaken refresh token |
| Vector index and chat, `rag/` | Qdrant points per owner, repository and commit | index_snapshot, search, ask | embedding and answer providers, live scope | batches without a transaction, a commit that changes in between | answers only from the current commit |
| Local retrieval, `local/retrieval.py` | points per snapshot in an embedded collection, a lock | index_snapshot, search, ask, close | the local store, the local model server | resumption by counting, a lock that is released between indexing and searching, deaths in the middle of a batch | only a whole index is searched, a partial one is completed, every question ends |
| Chunker, `rag/indexing/chunker.py` | the position in a file | chunk_snapshot | both indexes | overlaps, long lines, character limits at once | nothing of a file is left out, a chunk's lines are lines, the loop ends |
| Evidence and quotations, `rag/chat/service.py`, `src/training/local_runtime_server.py` | none | _redact, _evidence, _passages, the selection, _validate | chat, the model | lines counted by three functions, one of which rewrites the text | a citation quotes what is on the lines it names |
| GitHub readers, `services/github_public`, `services/github_private` | the metadata read last | fetch_public_snapshot, read_text, document_files, the live scope | GitHub, Reporting | a dozen requests, and a repository that changes between any two | what is returned was true at one instant |
| Core database, `database/` | users, repositories, snapshots, analyses | owner-scoped inserts and reads | everything hosted | | rows of one owner only |
| Contracts, `contracts/analysis.py` | none | coherent_status | the coordinator's adapter | | it accepts every result the coordinator makes |
| Dependency graph, `analyzers/dependencies/graph.py` | symbols, edges, components | analyze_dependencies | parsers, coordinator | re-exports in cycles, same names, Tarjan's algorithm | edges follow evidence, cycles are the components |
| Architecture detector, `analyzers/architecture/detector.py` | none | analyze_architecture | the dependency graph | edges that are missing | a missing edge completes no style, and strengthens none that it does not contradict |
| Product launcher, `api/local_launcher.py`, `src/deployment/local-app` | three child processes, two ports, state.json, stop.json | main, open.ps1, stop.ps1 | the model server, the site, the worker | children die, launchers are killed or started twice | no orphans, a stop that ends everything |
| HTTP API, importer, other analyzers, parsers, rendering, frontend, demo, training, deployment | none, or none that lasts beyond a request | | | | |

How they interact. *Hosted*: an HTTP request reaches Reporting, which checks the
repository's scope with GitHub, asks the cache, and otherwise enqueues a job. A
worker process claims it, has the coordinator analyse it while a second thread
renews its lease, and stores report and end in one transaction; CachingWorker then
indexes the source and writes the cache entry, both best effort. *Local*: a request
thread saves a queued row and submits it to the executor, whose thread has the
coordinator analyse it and stores the report and then the job. The coordinator
learns of a cancel by polling: an Event locally, a query of the job's row hosted.

The hazards, each at its line, are the `hazards` of `PROJECT.json`; those that
no property covers carry a note that says why.

## The modules

| module | what it is |
|---|---|
| `JobStore` | the columns of `analysis_jobs` and every transition of `jobs/store.py` on them |
| `JobWorker` | extends it with worker processes: `process_one` call by call |
| `JobLifecycle` | abstract: what the queue promises its callers |
| `JobWorker_proofs` | theorems about the two |
| `Coordinator` | one call of `Coordinator.run` |
| `AnalysisPromise` | abstract: what the runtimes assume of one analysis |
| `Coordinator_proofs` | theorems about it |
| `LocalRuntime` | the local process, its request threads, its executor and its SQLite rows |
| `LocalRuntime_proofs` | theorems about it |
| `VectorIndex` | the points of one repository, `index_snapshot` and a scope that changes |
| `Chat` | extends it with `ask` and the `search` it calls |
| `Reporting` | extends `VectorIndex` with the requests of `ApiRuntime`, `CachingWorker` as the caller of `index_snapshot`, the analysis cache between them and a queue that `JobLifecycle` describes |
| `Index_proofs` | theorems about the last three |
| `Identity` | sign-in, sessions and GitHub credentials, statement by statement, on the connections of the processes |
| `Identity_proofs` | theorems about it |
| `Reading` | the calls that read GitHub, request by request, and a repository that changes |
| `Reading_proofs` | theorems about it |
| `Retrieval` | questions in the local mode: index, search and answer |
| `Launcher` | runs of the launcher, their children, ports and files, and the user's two scripts |
| `Launcher_proofs` | theorems about it |
| `Chunker` | the loop that cuts a file into chunks |
| `Citations` | extends it with evidence, passages, quotations and their verification |
| `Dependencies` | the dependency graph: symbols, re-exports, edges, cycles |
| `Architecture` | the styles that a dependency graph speaks for and against |
| `Merge` | the report made of the results of the roles, and the contract's verdict |
| `Parts_proofs` | theorems about `Chunker`, `Citations`, `Dependencies`, `Retrieval`, `Architecture` and `Merge` |
| `MCAlgorithms` | the last five algorithms side by side, each from its own inputs |
| `MCChat`, `MCReporting`, `MCIdentity`, `MCLauncher`, `MCRetrieval` | add symmetry sets, and the constants of their runs |

`JobWorker` refines `JobLifecycle`, and so does the queue that `Reporting` is modelled
on (`QueuePromise`), which is how the two are joined: leases, tokens and heartbeats are
in the one, what is done with the jobs in the other. `Coordinator` refines
`AnalysisPromise`; the latter is the only thing `LocalRuntime` (its `Analyse`) and
`JobWorker` (its `HandlerReturns`) assume of an analysis: it answers once, and says
"cancelled" only if it was asked to stop.

### JobStore, JobWorker

A row is its status, `cancel_requested`, attempts and limit, whether it is due, the
lease with its token, and the kind of report and error it ended with; who owns the
job, and its commit, do not change and are left out. Time is relative: a lease or a
retry delay is a countdown, and a step of time takes one from each; the code never
compares two rows' times. `Lease`, `RetryDelay` and `MaxBackoff` are the only delays:
heartbeats, handlers and everything else take any number of steps of time, or none.

* `claim` is one transaction of two statements under READ COMMITTED, so it is two
  steps, `ClaimSweep` and `ClaimTake`, and other transactions commit between them.
  The sweep's effect is visible with the statement rather than at the commit: a row
  it ends has an expired lease and nobody else writes it in between. Because of
  `SKIP LOCKED` which of the due rows is taken is left open.
* The three finishing transactions begin and act in two steps, since PostgreSQL's
  `now()` is the time of BEGIN: `Begin` notes in `live` whether the lease is alive,
  and the test of `CanComplete`, `CanFail` and `CanAcknowledge` uses that.
* `process_one` asks `should_stop` before the handler (`CheckStop`), where a database
  error is a retryable failure (`CheckError`), and after it (`Settle`), where the
  answer decides which transaction ends the claim. The heartbeat thread renews the
  lease, or gives up and sets `lost`. A `Crash`, possible at any step, is a dead
  process or a database error that `process_one` does not catch.
* The replay of an idempotency key and a conflict write nothing and are left out, as
  are the deletion of an owner (which cascades) and the Heartbeat's intervals.

### Coordinator

`Preparation` is the sequence of checks and stages before the pool exists, and `at`
is how far the caller is; `pc` follows the loop line by line. `task[r]` is the future
of a role, `completed` the set of that name. `wait` may return at any time with
whatever has ended (its timeout is at most 50 ms). The scope changes, comes back, or
cannot be read at any time; `stop` is never taken back (an Event, a lost lease, or a
cancel that only a claim resets). `_report` is `MakeReport`; the error per role that
`to_analysis_result` adds, and the contract's `coherent_status` over it, are in
`ContractAccepts`. What becomes of the results of the
roles is in `Merge`.

### LocalRuntime

Jobs are numbered in the order of their rows, so a job is its rowid; a report is
identified with its job. `analyze` holds `_lock` from its look at the latest row to
its return, in steps at each write (`Look`, `SaveQueued`, `Submit`, and what follows
a failure); each write of SQLite may fail on its own. `_run` takes the lock only to
decide, store and finish, and to handle an exception, as the code does. `Boot` is the
application's lifespan: the instance lock excludes a second process, so it happens
only when the previous one is gone, and it recovers the unfinished rows before
anything can be enqueued. `Crash` keeps SQLite and forgets everything else.
`Rejection` says whether the executor may keep a job whose submission raised.

### VectorIndex, Chat

The scope is what `resolve_scope` answers: commit and visibility, or no access. It
changes at any time. Each look at it, and each call to Qdrant, is a step; a call of
`index_snapshot` may end at any of them (`IndexEnds`), by an exception or the death
of the process, and leaves behind what it has done. A point's id hashes its commit
and chunk, not its visibility, so `Upserted` may replace a payload. `serial[i]` is a
history variable: no other indexer has replaced points for another scope since `i`
read them. The pages of the scroll are read as one; the next call repairs what
pages read at different times miss.

`ask` and `search` compare the scope with looks of their own (`initial`, `searched`),
as in the code. What is nearest, what the ranking keeps and what fits in the budget
are choices, a point's text and the citations are not modelled, and an answer is one
of the outcomes that `ask` tells apart. The collection is shared by all repositories,
so `search` may find that there is none whenever this one has no points. `since` is a
history variable: the scopes since the last hits or the last answer arrived.

### Reporting

One owner's repository, one configuration. Each look at the scope (`_scope`,
`_authorized_snapshot`, the access check of the cache), each SQL statement and each
call to Qdrant is a step; `_authorized_snapshot` is one, since it compares the scope
before and after. A request or a worker may raise, return or die at any step
(`RequestEnds`, `WorkerEnds`); an exception of `_index_material` is only logged
(`IndexesNot`, `Indexed`).

* A job is its status, commit, key, attempts left, cancel and the thread that holds
  the claim; jobs are numbered in the order of `created_at`. The lease is not there:
  a running job may be claimed again, or swept, at any time, which is more than the
  leases allow, and a worker that lost its claim goes on.
* `analyze` is `AnalyzeBegins` to `Replays` in the order of the code: snapshot,
  `AnalysisCache.get` (check, then SELECT), `_has_index`, the search for an active
  rebuild, `enqueue`.
* `_job`, `cancel`, `analysis` and `_latest` are one shape: the scope, the row, the
  scope again; `cancel` writes after that. `held` is a history variable: the scopes
  since the row was read.
* `process_one` of `CachingWorker` reads the job again, asks for the snapshot, indexes
  and puts. `WorkerStep` and `IndexGoesOn` join it to `VectorIndex`.
* `Vectors` says whether the processes have a `rag_index`; each reads that from its
  own environment, so they may differ.

### Identity

`OAuthService`, `IdentityHTTP` and `PostgresIdentityStore` are one state machine of
request threads; a request is the routes' chain of calls, and each SQL statement and
each exchange with GitHub is a step. The rows are `db`, one per user, credential,
session and one-time state; `Expires` is the end of a state's or a session's time. A
row that an open transaction has written does not expire before that ends.

* `IdentityHTTP` opens one connection and its threads share it (`conn` is any function
  from threads to connections), so a transaction is the connection's: `dirty[c]` are the
  rows it has written, `open[c]` is BEGIN and the savepoints, each with what was dirty
  before it. A statement of any thread joins whatever transaction is open on its
  connection and shares its fate; outside of one it commits at once.
* The blocks are those of psycopg 3.3.6, the version that `src/backend/pyproject.toml`
  pins. `depth[c]` is its counter, from which a block takes its savepoint's name and
  knows, when it ends, whether it is the innermost (`InOrder`). Two threads whose blocks
  end in another order than they began have one of them raise
  `OutOfOrderTransactionNesting` without a COMMIT or ROLLBACK (`ExitFails`), and the
  connection stays in a transaction until the next block that counts as the outermost,
  or a restart. A statement that fails inside a transaction leaves it `broken`: nothing
  is accepted until a rollback, and COMMIT rolls back without a word (`Exit`). A block
  whose savepoint cannot be set has been counted and is never taken off
  (`StatementFails`).
* A write waits for the transaction of another connection that has written the row
  (`Unlocked`). INSERT ... ON CONFLICT is two steps, since the conflict on the second
  unique index may appear in between: `UserInserted`, or `UniqueViolation` and `Look`.
* A statement that fails, and the rollback that follows, are one step (`Fails`). The
  process may be restarted at any time (`Restart`), with its connections' transactions.
* Users are named by their GitHub account, since only a sign-in makes them; rows
  without a `github_id` are left out. The token of a plain login is stored and read by
  nobody, so only credentials of the purpose "private" are kept. `grants` are the pairs
  that GitHub issued; it honours a refresh token once. Access tokens expire at any time.
* `uses`, `restored`, `lost` and `undone` are history variables: how many requests got
  the verifier of a state; how often a rollback brought its consumed row back; whose
  refreshed credential ended with its request; and whose credential, as last stored, a
  rollback took back.

### Reading

GitHub is one repository: its id (it may be deleted and made anew under its name), the
commit of its head, its visibility and the owner's access. `Change` may alter any of
these between two requests. A call of `ApiRuntime` is a `Program` of operations, and an
operation is the requests that the resolver or a reader makes: the metadata without a
token, then with one (`ReadPublic`, `ReadPrivate`), the head (`ReadCommit`), the tree,
a blob. `Enter` goes on to the next operation and `Answer` ends the call with what the
route answers. `since` is a history variable: the states of the repository since
content was last read.

* `_authorized_snapshot` looks, fetches and looks again (`Agree`); `load_material`
  reads one source and the documents; `file_summary` and `diagrams` look once more
  after the last text (`confirm`), and `_index_material` once more in full (`again`).
* `again` compares snapshots in which the id on GitHub has been replaced by the id of the
  row (`Unchanged`): a public repository that was deleted and made anew with the same
  content passes it. What is indexed has the id of the look that confirmed the commit
  (`source`), and `index_snapshot` looks at the scope once more before it indexes and
  takes what is of it (`Taken`, the operation "index"): it is this look that keeps the
  material of the one repository out of the index of the other.
* Everything that makes a request useless without the repository having changed (rate
  limits, size limits, unsupported files, a text that is not of its SHA) is `Fails`.
* A head that was left does not come back (`Change`). If it does, by a force push, a
  look of three requests can straddle it, and `SnapshotIsConfirmed` does not hold.

### Retrieval

One embedded collection in the process, and request threads inside `ask`. The lock is
taken by `index_snapshot` (`StartIndex`) and again by `search` (`StartSearch`), and
released in between; counting under the lock is part of the step that takes it. A
batch is one request to the server (`Embed`) and one write (`Upsert`). `Raise` is a
call, read, count or write that fails, with any part of the batch stored; the answer is
then "unavailable", except that `load_snapshot` is before the `try` of `ask` and its
error leaves it. `Die` is the end of the
process, `Boot` its start on the same collection. `save_snapshot` is `Save`: a stored
source is never changed. A batch whose request exceeds 64 KB (`Heavy`) is refused
each time it is tried. Timeouts are faults. What the code does and the model leaves to the reader: an
index made by an older version of the chunker with as many chunks would pass for
complete; the same commit or archive imported under another name is refused as a
change of an immutable snapshot; and an older import saved later makes its snapshot
the current one of the repository again.

### Launcher

A run's launcher goes through `main` step by step: `Preflight`, `Frontend`,
`StartModel`, `Ready` for the model and the site, `WriteRecord`, `Watch`, then `Stop`
for each child from the worker back to the model, and `Clean`. Each stage may fail and
lead to the teardown (`NotReady`). A child is loading until it binds its port (`Bind`),
which is when a second launcher can notice it; the readiness checks accept whoever
answers on the port. `Open`, `AskStop`, `Stopped` and `GivesUp` are the scripts
`open.ps1` and `stop.ps1`; `Open` is one step, where the script takes seconds to read
the record, remove a stale one and start a launcher, and no property depends on it.
`Crash` ends a child, `Kill` a launcher, and `Stuck` is a child that survives even a
kill. PostgreSQL and Qdrant, which the launcher only checks, and the identity test of a
process by its start time are left out.

### Chunker, Citations

A file is the sequence of its segments: its lines, and the pieces of `max_chars`
characters of a longer line. `Take` is an iteration of the inner loop and `Cut` the end
of the outer one, with `Back` the step back by the overlap.

`Citations` follows a quotation: `Retrieve` chooses chunks without a private key,
`Generate` has the server cut passages of `PassageLines` lines and the model select
some (with one repair), `Quote` is any other local provider, which may say anything,
and `Verify` is `_validate`. Text is a sequence of tokens; `Redacted` is what
`_redact` does to the lines, endings included: a redacted line keeps its ending only if
that is `\n` or `\r\n`, so that a file with other endings loses a line there and a right
quotation after it is refused. `SelectionIsAccepted` has that exception. The limits
of the server (80 passages, 1000 characters of one) and the lengths of claims and
quotations are left out.

### Dependencies, Architecture

`Link` is the three loops that make edges, `Exported` the recursion through
re-exports, over a file and a name and the pairs already on the way (`seen`), and
`Connect` the adjacency of files. `_cycles`, Tarjan's algorithm, goes step by step:
`visiting` holds the calls of `visit` that are under way, each with the targets its loop
has left, beside `indices`, `low` and `stack` as in the code (`active` is the set of what
is on the stack). `VisitRoot` and `VisitTarget` begin a call, `LookBack` takes a target
that was visited before, and `Return` ends a call: the root of a component takes it off
the stack, and the caller's `low` is lowered by what came back. `visit` calls itself, and
a path of files that exceeds Python's recursion limit is not modelled.

Only languages whose imports name a relative path are modelled (TypeScript): the module
rules of Python, Java, C# and C++, calls on `self` and dotted names, the scope of a call,
files with more than one dot in their name and the size limits are left out. A name may
be a member's, `C.f`, since `exported_symbol` also compares the last part of a symbol's
name with the export's (`Unqualified`, `Published`). `paths_for_module` has a second
candidate, what is before the last dot of the whole reference: that of `./gone`
is the directory itself, so that the reference is resolved to its index.ts (`UpToDot`,
`Targets`). The dependency README says
that overloads do not become resolved edges; a name that is overloaded in one visible
file and declared once in another is resolved to the latter, and the model has that.

`Architecture` takes resolved edges between files that have roles and units, and
assesses the seven styles as `add` and `grouped` do. One style supported and another
one mixed gives the summary "single" and a primary style.

### Merge

`MergeResults` is `_merge` and the status of `_report`, `Adapt` is `to_analysis_result`
and the contract's `coherent_status`. Items of testing, refactoring and documentation
are of one role and in no conflict and are left out. The quality findings are shown
under the role "refactoring" whatever became of that role, since they come from the
preparation. Of the conflicts only that they refer to items is checked.

## The runs

| run | instance | shows |
|---|---|---|
| `job` | one job of one or two attempts, two workers of which one may die for good; fair | one holder, the refinement of `JobLifecycle`, every queued job ends, every accepted cancel is carried out |
| `run` | three roles on two threads, roles may hang; fair | role states, the refinement of `AnalysisPromise`, `run` ends, a revoked repository is not reported |
| `local` | two snapshots, two request threads, two jobs, three faults, three starts; fair | no doubled analysis, honoured cancels, nothing stranded, queued jobs end while the process stays up |
| `chat_safety` | one question, one indexer, two commits, two batches, three changes of scope | what `index_snapshot` leaves after failed calls; evidence and replies are of the scope the question began with, and confirmed |
| `report_safety` | one request at a time, two workers, two jobs, two commits, one key, one change of scope | answers are of the snapshot they claim; the queue refines `JobLifecycle` |
| `report_partial` | one worker, two batches | *violated*: half an index counts as one (see below) |
| `identity` | two request threads on one connection and another process, two accounts, one browser, two states, three grants, two sessions | a state is used once, and once more for each rollback that brought it back; credentials are their starter's and not overtaken by spent ones |
| `reading` | two calls, four changes of the repository | what is returned was confirmed after it was read, and nothing is refused without a reason |
| `retrieval` | two threads, three questions about four snapshots, one fault; fair | only a whole index is searched, evidence is of the snapshot, no earlier failure makes a question unavailable, every question ends |
| `launch` | two runs, two faults; fair | no orphans, the record goes last and is found, a stop or a dead child ends the run |
| `launch_twice` | two runs, no faults | *violated*: a second open takes the record of the first (see below) |
| `algorithms` | files of up to three lines of eight kinds; 124,416 repositories of four files; all digraphs of four files; 6,144 graphs of styles; up to two results of each kind | nothing of a file is left out, quotations are true and the server's are accepted; exports, edges and cycles are those of the reference definitions; a missing edge completes no style and strengthens none unless it contradicts it; the contract accepts each report, and nothing found is lost |

Why the bounds are enough. Two workers are a holder and a stale worker, who may claim
anew; two attempts are a retry and the last; a lease and a backoff of two may be half
spent when they are renewed. That there is one job is no loss for the proved properties,
and for the others a second job would only be one more due row that the same fairness
reaches. In `local` two jobs are those of two snapshots, one waiting for the other, or a
job and its retry; three faults are a write, the write that handles the failure, and one
more after the restart; three starts are two recoveries. The full queue is left to the
proof. In `run` three roles on two threads have one that waits for a thread. In
`chat_safety` two batches leave a half-replaced index, which the next call must repair;
the indexers that disturb each other are the two workers of `report_safety`, whose
`RInv` contains the invariant behind `IndexIsExact`. Three changes are one before
`search` begins, one back before `ask` looks again, and one more while the provider
answers. In `report_safety` the jobs are an analysis and its rebuild, or analyses of two
commits; the request may come back with its key after the change. In `identity` the
initial states are also those where an account has signed in, and has connected its
repositories (`InitLater`), since the way there is the same each time; from them,
`Within` leaves room for one of four: states that are used again, by two threads of a
process and another process; refreshes by the same; refreshes and a reconnection; a
connection and the login of another account. Two threads on one connection have
transactions that nest, that end out of order and that are rolled back around the
other's statements; accounts, states and the two threads are interchangeable. In
`reading` the first call makes the row and the second is any other; four changes can
make a repository private and public again, or change it and back, within one look. In
`retrieval` two snapshots of one repository have as many chunks, one exceeds the limit
and one has a batch that is too large; a batch of two over three chunks leaves a partial
index. A third question only starves others on the lock, which the bound on questions
hides: the code's lock is not fair, and `AskEnds` is about finitely many questions. In
`launch` two runs are one that follows, or one beside the other. In `algorithms` chunks
of three segments with one repeated, over lines of one to four characters of which three
fit, reach every branch of the loop, and passages of two lines have a shorter last one;
four files have every shape of two components, and the four of the repositories
re-export in chains and cycles, declare members of classes and refer to files that are
not there. The proofs below hold without any of these bounds.

`CHECK_DEADLOCK FALSE` is set where a process may stop for good or a bound may run out:
nobody has to start the local process again, access to a repository may stay withdrawn,
an algorithm ends, and states, grants, calls and sessions are used up.

### What the code's documentation says otherwise

* `RunIsRecorded` (`launch_twice`). "`stop.ps1` stops only processes recorded and
  verified by this launcher. A second open reuses the healthy instance." The servers
  bind their ports when they have loaded, so a launcher started in the meantime passes
  `_preflight`, and takes the first one's servers for its own. It overwrites
  state.json, and its `finally` removes that file, whoever wrote it (only stop.json is
  compared with the run). The first run goes on and `stop.ps1` finds no record of it.

* `IndexedIsWhole` (`report_partial`). "The durable result survived but local vectors
  did not. Rebuild in the worker": `_has_index` looks for one point of the commit.
  When `index_snapshot` fails after its first batch, or the worker dies there, and an
  earlier cache row of the commit exists, `analyze` answers "cached" and chat goes on
  with part of the source; no rebuild is queued until the cache row expires.

Others that no run checks. When `submit` raises, `LocalRuntime.analyze` marks the job
failed and forgets it; `ThreadPoolExecutor.submit` queues an item before it starts a
thread, and when its first thread cannot be started it raises and keeps the item, so
that the next submission runs the failed job. The test of this path uses an executor
that raises before it takes anything; the run takes `Rejection = {FALSE}`, and the
proofs state it as the assumption `Refused`.

Four more are definitions; any of them, put among the INVARIANTS of the run of its module,
has TLC show the trace.

* `OneUse` (`Identity`). "DELETE is atomic: at most one concurrent callback receives the
  verifier", says `consume_state`. `IdentityHTTP` shares one connection among its threads
  (`security/identity/http.py:171`), and a DELETE between BEGIN and COMMIT of another
  thread's `transaction()` is undone when that one fails, after its request has been given
  the verifier. What holds is `ReuseNeedsRollback`.
* `MissingSupportsNothing` (`Architecture`). "A missing edge never becomes evidence", says
  `analyzers/architecture/README.md:16`. A style with a contradicting edge is "mixed" at low
  confidence; when that edge is the one that was not found, it is "supported" at medium or
  high, and may become the primary style. What holds is `MissingIsNoEvidence`.
* `MissingIsAmbiguous` (`Dependencies`). "A missing local reference is ambiguous", says
  `analyze_dependencies`; `./gone` is resolved to the index.ts of its directory.
* `ResolvedIsExported` (`Dependencies`). What "is not publicly exported" is ambiguous, says
  `analyzers/dependencies/README.md:15`; a method of a class answers for an export of the
  last part of its name.

`complete` is documented to save "under its live lease"; it tests `lease_until > now()`,
and `now()` is the start of the transaction, so that one that began in time and was
delayed commits after the lease (the model has it: `live` is noted by `Begin`). No other
worker can have claimed the job, and nothing is lost. `analyze` means to "reuse an
active rebuild" but looks for it and enqueues its own in separate statements, so two
requests may enqueue two. `rag/indexing/README.md` asks for "serialization by the
calling job layer", which indexes after the job has ended and its claim is gone: workers
of two jobs, or two that held one job in turn, index at once. For one commit and
visibility that is harmless (`IndexIsExact`); for two, the later scope is not sure to
win. A refreshed credential whose save does not come about, because GET /user failed or
the process ended, is lost while the stored one is spent (`lost` in `CredentialKept`),
and so is one whose save was inside another thread's transaction that rolled back
(`undone`): the account must be connected again.

## Fairness

* Workers (`job`): time passes (WF). A handler returns or its process dies
  (WF): one that hangs while its heartbeat thread lives would keep its job for ever;
  the coordinator's deadline bounds it except in the stages before the pool. A worker
  of `Steady` keeps polling as `run_forever` does (WF), takes each step of
  `process_one` that it reaches (WF), and is not for ever a step too late to take a
  due job (SF on `ClaimTake`: the job is due, then taken by another, then due again).
  Nothing is assumed of owners, of crashes and of heartbeats, and nothing more of the
  workers outside `Steady`, which may die while they hold the job.
* Coordinator (`run`): the caller's thread goes on and the deadline passes.
  Nothing is assumed of the roles, not even that they start.
* Local (`local`): the executor's thread goes on, and a request thread
  inside `_lock` leaves it. `Recover` waits for the lock with weak fairness: nobody
  holds it for ever, and a request thread holds it for a few SQLite calls. Nothing
  starts, closes or keeps up the process.
* Retrieval (`retrieval`): a thread inside `ask` goes on (`Step`, WF): each call of the
  server has a timeout, and whoever holds the lock leaves it after finitely many
  calls. Nothing is assumed of the application's start and end.
* Launcher (`launch`): a launcher that is not killed goes on (`Launch`, WF), since all
  its waits have deadlines. Nothing is assumed of the user and of the children.

## The proofs

Each theorem is `Spec => [](...)` or a refinement, for every value of the constants.

* **JobWorker_proofs**, under `StoreAssumption`: attempt limits are in 1..20, the
  lease is a positive number, the delays are numbers.
  The inductive invariant says of the rows that a running row and no other has a
  token, that a queued row has spent fewer attempts than its limit, and that a report
  is there exactly with the end it belongs to; of the workers, that a token held is one the job has minted and that no other worker
  holds it, and that a worker who has found a reason to stop finds
  it again: `lost` stays, a token taken over stays taken over, a cancel stays until
  the job ends. `OneHolder`, `BudgetKept`, `CancelWins` follow from it, and each step
  maps to a step of `JobLifecycle` or to none.
* **Coordinator_proofs**, for every finite non-empty set of roles. What a report says
  needs what the caller knows before it: `completed` holds ended tasks only
  (`LoopInv`), the loop is left only when all have ended, or with the stop or the
  deadline (`LoopInv`), and all states come of one answer of `should_stop`
  (`StatesInv`). `NoLateStart` has an invariant of its own: after `finally` no task
  is queued. The one exception is written into the property: when the pool cannot
  start a thread (`SubmitFails`), the exception leaves before the `try`, nothing shuts
  the pool down, and roles already queued may start later. `RevokedIsNotReported` speaks of
  the future but is a safety property: while the scope is not the same no step makes a
  report (`RevokedStep`), and PTL adds that up along the behaviour.
* **LocalRuntime_proofs**, for every set of snapshots and threads, every capacity and
  every bound, assuming `Refused` (a submission that raises has not taken the job).
  `OnlyLatestActive` is not inductive: that `analyze`'s look at the latest row still
  holds when the row is inserted is `AskInv`, which needs the lock; that each active
  job is in one place only, the queue, the executor or a submitting thread, is
  `PlaceInv`; and `QueueBounded` needs the count of `_stop` to be the count of those
  places (`CountInv`). `RunInv` carries what `_run` has established from one write to
  the next: `CancelIsHonoured` and `ReportIsReachable` rest on it. A cancelled job stays
  cancelled whatever fails; that it also names no report needs that no write failed, since
  `_run` may have stored the report when the write that finishes the job fails, and what a
  cancel of that moment leaves is a cancelled row with the report's id. When the last write
  of a job fails as well its row stays unfinished: `NothingStranded` is about processes
  without failed writes, and no property covers that.
* **Index_proofs**, about `VectorIndex` and `Chat` under `IndexAssumption`: sizes are numbers, a
  batch is not empty. `IndexIsExact` needs to know of an indexer on its way that every point is wanted or
  about to be deleted and then that every chunk up to its position is there
  (`SerialOk`), that ids to be deleted are wanted by nobody with the same scope and
  that nothing is upserted before the deletion (`StaleInv`), and that an id has one
  point (`TypeOK`). Another indexer of the same scope keeps all that. What `ask` knows
  is in `HeldInv`: the scope of now is one that held since the last arrival, so that a
  comparison with it that succeeds is a confirmation.
  `Reporting` also under `ReportingAssumption` (at least one attempt; the
  names that stand for nobody and for no key are not a worker and a key).
  `CacheIsSound` needs that a row never loses its commit and that an ended job stays
  ended (`JobsGrow`): a worker looks at the end once and publishes any time later. That
  only the holder ends a job, and that a job with a holder runs, is `JobInv`; what a
  request remembers of a row is `RequestInv`. Because rows only grow in that sense,
  each thread's part is kept by every step of another. Seen from the index a step is one
  of `VectorIndex` (`ReportingIsIndex`), so `IndexIsExact` carries over; seen from the
  queue it is one of `JobLifecycle`.
* **Identity_proofs**, under `IdentityAssumption` only (types of the constants): for every
  assignment of threads to connections. Since a transaction may hold the statements of any
  thread, nothing ties a request to a transaction, and the invariant speaks of versions of
  rows instead: what is committed, what the open transaction of a connection has written,
  and what its savepoints would bring back. `NestInv` says that these only grow along the
  stack, `RowInv` what a version can be. `Newest` is the version last written and `Holds` any
  that may come back; each way a transaction can begin, go on and end (`EnterSettles`,
  `WriteEffect`, `CommitSettles`, `ReleaseSettles`, `BackToLayer`, `BackToClean`) keeps the
  newest version, or counts in `restored` and `undone` what it took back, and makes no
  version that was not there (`BlockSettles`). `ReuseNeedsRollback` follows with `UseInv`,
  the uses of a state counted with its row; `LinkedToStarter` and `CredentialKept` are
  inductive with `ThreadInv`: a grant under way is its request's user's, unspent, in no
  version of any row and with no other request, so that each save, whatever it overtakes,
  writes one that is honoured.
* **Launcher_proofs**, under `LauncherAssumption`, for any number of runs, of launchers
  beside each other, and of faults. `NoOrphans` needs what a launcher's stage says of its
  children (`ChildInv`): what it has not started is not there, and what its teardown has
  passed is not alive and is started by nobody, up to the end. It does not need that
  launchers are alone; the other two do. A record is of a run that has not come to its end
  (`RecordInv`), and while no launcher was started beside another, the one that watches is
  the one on record, and what `stop.ps1` waits for is on record until it is over
  (`AloneInv`). `launch_twice` is what happens otherwise.
* **Reading_proofs**, under `ReadingAssumption`: bounds are numbers. No request reads the
  whole scope, so that an answer is compared with no instant of the repository, but
  commits only move forward. `LookInv` says that the metadata a look has read were true at
  an instant `w` after the tree was read; the commit it reads next is that of `world`, and
  when the comparison with the first look succeeds, `before.commit <= w.commit <=
  world.commit = before.commit` (`BeforeInv`, `WorldInv`): `w` is the instant at which all
  of the scope held. Without "moves forward" the middle of the chain is lost, and TLC has a
  counterexample. That a refusal has a reason needs the reverse, `QuietInv`: while nothing
  changes, everything a call has read is the scope there is. For what is indexed the
  comparison of `again` leaves the id of a public repository open; that `index_snapshot`
  saw the id under which the material is indexed (`Taken`) closes it.

* **Parts_proofs**, about the parts that stand alone.
  * `Chunker`, under `ChunkerAssumption`: the overlap is smaller than the window, and
    all pieces of a line but its last have `MaxChars` characters (`WellCut`). That
    nothing is left out (`WholeFile`) needs that everything before the chunk being
    collected is in a chunk (`CoverInv`) and that this one begins no later than the last
    one ended (`WindowInv`): with no overlap it begins right after it. That a chunk has one
    segment of each of its lines rests on the same limit being used twice: a full piece
    fills a chunk. From `StartsLater` follows that there are no more chunks than segments
    (`ChunksAreFew`), which is why the loop ends.
  * `Citations`, under `CitationsAssumption` and `ChunkerAssumption`. A quotation that
    `_validate` accepts is a part of the redacted text of a chunk, whose lines it counts
    there; that these are the lines of the file needs that a chunk's segments are
    consecutive lines (`ChunkIsLines`), that a part of a joined text is framed by its lines
    (`Framed`, `Placed`), and that redaction replaces line by line (`RedactedWhole`), so
    that a line's number in the one is its number in the other. For the server's own
    passages every step of the check is shown to succeed, unless a redacted line loses its
    ending (`SelectedIsVerified`).
  * `Dependencies`, under `DependenciesAssumption`: finitely many files and names, and no
    file that leads to itself (`Connect` leaves those edges out). `SearchInv` is the
    invariant of Tarjan's search: the stack is in the order of the visits; the calls are
    nested and each reaches the next; a node of the stack belongs to the last call that
    began before it and lies in the same component (`StackBelongs`); `low` is the number of
    a node of the stack that the call reaches (`LowReached`); a node whose edges have been
    looked at leads only to what was left or to what is not before `low` (`LookedAt`); and
    what was left is closed and its components have been found (`LeftIsFound`). A call
    whose `low` is its own number has nothing on the stack that leads before it, so that
    what it takes off is closed together with what was left, and is its component
    (`RootIs`, `PopStep`); any other call joins the one before it (`KeepStep`).
    `Exported` and `Reached` are recursive functions. That there is such a function is
    shown by a rank that each call lowers, the number of keys not yet on the way
    (`RankRecursion`), and the same rank carries what it computes (`FollowingFinds`): to
    stop at a key that is on the way loses nothing, because that key's own call goes on to
    all that it leads to. `ExportsAreReached` and `ResolvedIsEvidenced` follow.
  * `Retrieval`, under `RetrievalAssumption`. The code compares two counts; that equal
    counts mean equal sets is `CountIsEnough`, and it holds because a point is only
    ever a chunk of the snapshot it is stored under (`PointsInv`) and points are
    only added (`PointsGrow`). A thread that embeds holds the lock and has stored every
    chunk before its batch (`BatchInv`), whatever was there before; so when it goes on
    to search, or finds the count right, its index is whole.
  * `Architecture`, under `ArchitectureAssumption`: finitely many files, and dependencies
    between them. Leaving out one edge is followed style by style (`HypothesesGrow`): no style
    becomes complete that was not, and none is better assessed or at more confidence
    (`NoStronger`) unless the edge left out is one that contradicts it.
  * `Merge`, under `MergeAssumption`. The items are the first of the candidates of each
    id, and there is a first by well-foundedness (`FirstOf`), so that no id is twice in the
    report and none is missing (`MergedById`); that is what `coherent_status` asks of ids, and
    a case split on what became of the roles gives what it asks of the status.

Some theorems state invariants that no run lists, because the inductive invariants
contain them and one run more would show nothing new: in the queue `BudgetKept`,
`CancelWins`, `StopIsNoFailure`, `LeaseProtects` and `FinalIsFinal` (`BudgetKept`, and the
theorem `AttemptBudget` about it, say that an expired lease ends a job only when its attempts
are spent, which `EveryJobEnds` does not say); in the local runtime
`QueueBounded`, `ReportIsReachable`, `EndIsFinal` and `CloseFinishesJobs`; in the
coordinator `ContractAccepts`, `CancelIsWhole` and `NoLateStart`; in reporting
`CacheIsSound`, `ReadIsConfirmed` and `PublishesCompleted`; in identity
`LoginNeverConflicts`; in the chunker `ChunkIsLines` and `StartsLater`.

Only model-checked: the liveness properties `EveryJobEnds`, `CancelIsCarriedOut`,
`RunEnds`, `EveryAnalysisEnds`, `StopIsCarriedOut` and `AskEnds`, which rest on fairness
and so on ENABLED. All other properties of the runs are proved for every value of the
constants.

## Not modelled, and the plan

In this order:

1. Proofs: that `Agree`, the look that `_authorized_snapshot` repeats, implements the one
   step that `Reporting` makes of it, so that `AnswersAreOfSnapshot` holds of a scope that
   is read request by request; and that `Merge` receives what `Coordinator` collects.
2. Progress of `Reporting`: under fair workers and a scope that stays, a request that
   found the index lost gets it rebuilt.
3. Composition: `JobWorker` with `Coordinator` as its handler, make_job_handler's
   error codes and the retry decision of a failed report.
4. The ranking of `search` (`_rerank_hits`), and the module rules of the other
   languages in `Dependencies`.

Left out for good: the other analyzers, parsers and renderers (pure text processing
about which no property here is stated), the frontend, the demo, training and
deployment scripts, the HTTP routes and the validation of requests (no state between
requests), and the limits that refuse an input as a whole.
