------------------------------ MODULE JobStore ------------------------------
(***************************************************************************)
(* The PostgreSQL job queue of backend/app/jobs: one row per job, and one   *)
(* action per transition of class JobStore (store.py).  Every transition    *)
(* is one short transaction that locks the row it changes, so each action   *)
(* reads and writes the row in a single step.  Who calls a transition, and  *)
(* what may happen between two of them, is in JobWorker.                    *)
(*                                                                         *)
(* Time is relative.  `lease` counts the ticks until lease_until and `wait` *)
(* the ticks until available_at; both stop at 0, where the code's tests     *)
(* lease_until <= now() and available_at <= now() become true.  NULL lease  *)
(* and expired lease are both 0; only a running row has a lease.            *)
(*                                                                         *)
(* PostgreSQL's now() is the instant the transaction began.  A finishing    *)
(* transaction is BEGIN, then SELECT .. FOR UPDATE, then the writes: its     *)
(* test lease_until > now() is about BEGIN.  The argument `live` of the      *)
(* finishing transitions is that test.                                      *)
(***************************************************************************)
EXTENDS Naturals

CONSTANTS
  Job,           \* (owner, idempotency key) pairs; UNIQUE makes each one job
  AttemptLimits, \* the max_attempts values callers of enqueue pass
  Lease,         \* lease_seconds, in ticks
  RetryDelay,    \* retry_delay_seconds of the worker, in ticks
  MaxBackoff     \* the cap of the exponential backoff (300 in the code)

ASSUME StoreAssumption ==
  /\ AttemptLimits \subseteq 1..20
  /\ Lease \in Nat \ {0}
  /\ RetryDelay \in Nat
  /\ MaxBackoff \in Nat

VARIABLES
  \* The columns of analysis_jobs, one function each.
  status, attempts, limit, cancel, token, lease, wait, error, result,
  analyses, \* the status of the row of analyses whose id is the job's id
  minted    \* how many claim tokens gen_random_uuid made for the job

storeVars == <<status, attempts, limit, cancel, token, lease, wait, error, result,
               analyses, minted>>

Unfinished == {"queued", "running"}
Terminal   == {"completed", "partial", "failed", "cancelled"}
Status     == {"absent"} \cup Unfinished \cup Terminal

\* "ANALYSIS_FAILED" stands for every code a handler can report.
Code   == {"none", "LEASE_EXPIRED", "CANCELLED", "INVALID_RESULT", "ANALYSIS_FAILED"}
Report == {"none", "succeeded", "partial", "failed", "cancelled"}

NoToken == 0

TypeOKStore ==
  /\ status   \in [Job -> Status]
  /\ attempts \in [Job -> Nat]
  /\ limit    \in [Job -> Nat]
  /\ cancel   \in [Job -> BOOLEAN]
  /\ token    \in [Job -> Nat]
  /\ lease    \in [Job -> 0..Lease]
  /\ wait     \in [Job -> 0..MaxBackoff]
  /\ error    \in [Job -> Code]
  /\ result   \in [Job -> BOOLEAN]
  /\ analyses \in [Job -> Report]
  /\ minted   \in [Job -> Nat]

\* "absent": the row has not been inserted.
InitStore ==
  /\ status   = [j \in Job |-> "absent"]
  /\ attempts = [j \in Job |-> 0]
  /\ limit    = [j \in Job |-> 0]
  /\ cancel   = [j \in Job |-> FALSE]
  /\ token    = [j \in Job |-> NoToken]
  /\ lease    = [j \in Job |-> 0]
  /\ wait     = [j \in Job |-> 0]
  /\ error    = [j \in Job |-> "none"]
  /\ result   = [j \in Job |-> FALSE]
  /\ analyses = [j \in Job |-> "none"]
  /\ minted   = [j \in Job |-> 0]

-----------------------------------------------------------------------------
(* Callers of the API process.                                             *)

\* INSERT .. ON CONFLICT DO NOTHING: a replayed key finds its row and writes
\* nothing, so only the first call for a key is a step.
Enqueue(j, n) ==
  /\ status[j] = "absent"
  /\ status' = [status EXCEPT ![j] = "queued"]
  /\ limit'  = [limit  EXCEPT ![j] = n]
  /\ UNCHANGED <<attempts, cancel, token, lease, wait, error, result, analyses, minted>>

\* A queued job is cancelled at once, a running one is asked to stop.
Cancel(j) ==
  /\ status[j] \in Unfinished
  /\ status' = [status EXCEPT ![j] = IF @ = "queued" THEN "cancelled" ELSE @]
  /\ cancel' = [cancel EXCEPT ![j] = TRUE]
  /\ UNCHANGED <<attempts, limit, token, lease, wait, error, result, analyses, minted>>

-----------------------------------------------------------------------------
(* Claiming: two statements of one READ COMMITTED transaction, each of      *)
(* which sees what other transactions committed before it.                  *)

Expired(j) == status[j] = "running" /\ lease[j] = 0

\* Mutants of Exhausted: one of the two reasons is forgotten.
ExhaustedByCancel(j)   == Expired(j) /\ cancel[j]
ExhaustedByAttempts(j) == Expired(j) /\ attempts[j] >= limit[j]

Exhausted(j) == Expired(j) /\ (cancel[j] \/ attempts[j] >= limit[j])

\* The first UPDATE: expired claims that may not run again become terminal.
Sweep ==
  /\ status' = [j \in Job |-> IF Exhausted(j)
                                THEN IF cancel[j] THEN "cancelled" ELSE "failed"
                                ELSE status[j]]
  /\ error'  = [j \in Job |-> IF Exhausted(j)
                                THEN IF cancel[j] THEN "none" ELSE "LEASE_EXPIRED"
                                ELSE error[j]]
  /\ token'  = [j \in Job |-> IF Exhausted(j) THEN NoToken ELSE token[j]]
  /\ UNCHANGED <<attempts, limit, cancel, lease, wait, result, analyses, minted>>

Claimable(j) ==
  \/ status[j] = "queued" /\ wait[j] = 0
  \/ Expired(j) /\ attempts[j] < limit[j] /\ ~cancel[j]

\* Mutant of NewToken: a reclaimed row keeps the token it has.
NewTokenKept(j) == IF token[j] = NoToken THEN minted[j] + 1 ELSE token[j]

\* gen_random_uuid(): a token this job never had.
NewToken(j) == minted[j] + 1

\* The second UPDATE.  SKIP LOCKED passes over rows other transactions hold,
\* so which due row is taken is left open.
Take(j) ==
  /\ Claimable(j)
  /\ status'   = [status   EXCEPT ![j] = "running"]
  /\ attempts' = [attempts EXCEPT ![j] = @ + 1]
  /\ minted'   = [minted   EXCEPT ![j] = @ + 1]
  /\ token'    = [token    EXCEPT ![j] = NewToken(j)]
  /\ lease'    = [lease    EXCEPT ![j] = Lease]
  /\ cancel'   = [cancel   EXCEPT ![j] = FALSE]
  /\ error'    = [error    EXCEPT ![j] = "none"]
  /\ UNCHANGED <<limit, wait, result, analyses>>

-----------------------------------------------------------------------------
(* What the holder of claim token t of job j may do.                        *)

Holds(j, t) == status[j] = "running" /\ token[j] = t

Alive(j, t) == Holds(j, t) /\ lease[j] > 0 /\ ~cancel[j]

ShouldStop(j, t) == ~Alive(j, t)

\* The UPDATE of heartbeat; without a live claim no row matches.
Renew(j, t) ==
  /\ Alive(j, t)
  /\ lease' = [lease EXCEPT ![j] = Lease]
  /\ UNCHANGED <<status, attempts, limit, cancel, token, wait, error, result,
                 analyses, minted>>

\* The row leaves the running state with this status and error code.
\* Store.save_analysis inserts the report under the job's id, a primary key: a
\* second report for the same job would abort the whole transaction.
Leave(j, st, err, report) ==
  /\ report # "none" => analyses[j] = "none"
  /\ status'   = [status   EXCEPT ![j] = st]
  /\ error'    = [error    EXCEPT ![j] = err]
  /\ token'    = [token    EXCEPT ![j] = NoToken]
  /\ lease'    = [lease    EXCEPT ![j] = 0]
  /\ result'   = [result   EXCEPT ![j] = report # "none"]
  /\ analyses' = [analyses EXCEPT ![j] = IF report = "none" THEN @ ELSE report]
  /\ UNCHANGED <<attempts, limit, cancel, minted>>

CanAcknowledge(j, t, live) == Holds(j, t) /\ cancel[j] /\ live

\* report is "cancelled" or "none".
AcknowledgeCancel(j, t, live, report) ==
  /\ CanAcknowledge(j, t, live)
  /\ Leave(j, "cancelled", error[j], report)
  /\ UNCHANGED wait

CanFail(j, t, live) == Holds(j, t) /\ live

Final(j, retryable) == ~retryable \/ attempts[j] >= limit[j]

\* report is "failed" or "none"; only a final report is kept.
Fail(j, t, live, code, retryable, delay, report) ==
  /\ CanFail(j, t, live)
  /\ \/ cancel[j] /\ Leave(j, "cancelled", "none", "none")
     \/ ~cancel[j] /\ Final(j, retryable)  /\ Leave(j, "failed", code, report)
     \/ ~cancel[j] /\ ~Final(j, retryable) /\ Leave(j, "queued", code, "none")
  /\ wait' = [wait EXCEPT ![j] = delay]

\* Mutant of CanComplete: the cancel request is not looked at.
CanCompleteCancelled(j, t, live) == Holds(j, t) /\ live

CanComplete(j, t, live) == Holds(j, t) /\ live /\ ~cancel[j]

\* report is "succeeded" or "partial"; it commits together with the status.
Complete(j, t, live, report) ==
  /\ CanComplete(j, t, live)
  /\ Leave(j, IF report = "succeeded" THEN "completed" ELSE "partial", error[j], report)
  /\ UNCHANGED wait

-----------------------------------------------------------------------------
\* Time passes for every row at once.
Down(n) == IF n = 0 THEN 0 ELSE n - 1

Tick ==
  /\ \E j \in Job : lease[j] > 0 \/ wait[j] > 0
  /\ lease' = [j \in Job |-> Down(lease[j])]
  /\ wait'  = [j \in Job |-> Down(wait[j])]
  /\ UNCHANGED <<status, attempts, limit, cancel, token, error, result, analyses, minted>>
=============================================================================
