-------------------------- MODULE JobWorker_proofs --------------------------
(***************************************************************************)
(* The safety properties of JobWorker for every set of jobs and workers and  *)
(* every lease, delay and attempt limit.  The transitions of the store are   *)
(* treated first, each on its own: they keep StoreInv whatever calls them.   *)
(* A worker step is then a store transition, or none, and a move of one      *)
(* worker.                                                                  *)
(***************************************************************************)
EXTENDS JobWorker, TLAPS

StoreInv == TypeOKStore /\ ReportMatchesEnd /\ RowInv

\* The delay handed to `fail` stays within the cap, for any attempt number.
LEMMA BackoffType == ASSUME NEW n PROVE Backoff(n) \in 0..MaxBackoff
BY StoreAssumption DEF Backoff

LEMMA EnqueueStore ==
  ASSUME StoreInv, NEW j \in Job, NEW n \in AttemptLimits, Enqueue(j, n)
  PROVE  StoreInv'
<1>1. TypeOKStore'
  BY StoreAssumption DEF StoreInv, TypeOKStore, Enqueue, Status, Unfinished
<1>2. ReportMatchesEnd'
  BY DEF StoreInv, TypeOKStore, Enqueue, ReportMatchesEnd
<1>3. RowInv'
  BY StoreAssumption DEF StoreInv, TypeOKStore, Enqueue, RowInv
<1>. QED BY <1>1, <1>2, <1>3 DEF StoreInv

LEMMA CancelStore ==
  ASSUME StoreInv, NEW j \in Job, Cancel(j)
  PROVE  StoreInv'
<1>1. TypeOKStore'
  BY DEF StoreInv, TypeOKStore, Cancel, Status, Unfinished, Terminal
<1>2. ReportMatchesEnd'
  BY DEF StoreInv, TypeOKStore, Cancel, ReportMatchesEnd, Unfinished
<1>3. RowInv'
  BY DEF StoreInv, TypeOKStore, Cancel, RowInv, Unfinished
<1>. QED BY <1>1, <1>2, <1>3 DEF StoreInv

LEMMA SweepStore ==
  ASSUME StoreInv, Sweep
  PROVE  StoreInv'
<1>1. TypeOKStore'
  BY DEF StoreInv, TypeOKStore, Sweep, Status, Terminal, Code, NoToken
<1>2. ReportMatchesEnd'
  BY DEF StoreInv, TypeOKStore, Sweep, ReportMatchesEnd, Exhausted, Expired
<1>3. RowInv'
  BY DEF StoreInv, TypeOKStore, Sweep, RowInv, Exhausted, Expired
<1>. QED BY <1>1, <1>2, <1>3 DEF StoreInv

LEMMA TakeStore ==
  ASSUME StoreInv, NEW j \in Job, Take(j)
  PROVE  StoreInv'
<1>1. TypeOKStore'
  BY StoreAssumption DEF StoreInv, TypeOKStore, Take, NewToken, Status, Unfinished, Code
<1>2. ReportMatchesEnd'
  BY DEF StoreInv, TypeOKStore, Take, NewToken, ReportMatchesEnd, Claimable, Expired
<1>3. RowInv'
  BY DEF StoreInv, TypeOKStore, Take, NewToken, RowInv, Claimable, Expired, NoToken
<1>. QED BY <1>1, <1>2, <1>3 DEF StoreInv

LEMMA RenewStore ==
  ASSUME StoreInv, NEW j \in Job, NEW t, Renew(j, t)
  PROVE  StoreInv'
<1>1. TypeOKStore'
  BY StoreAssumption DEF StoreInv, TypeOKStore, Renew
<1>2. ReportMatchesEnd'
  BY DEF StoreInv, Renew, ReportMatchesEnd
<1>3. RowInv'
  BY DEF StoreInv, Renew, RowInv
<1>. QED BY <1>1, <1>2, <1>3 DEF StoreInv

LEMMA TickStore ==
  ASSUME StoreInv, Tick
  PROVE  StoreInv'
<1>1. TypeOKStore'
  BY StoreAssumption DEF StoreInv, TypeOKStore, Tick, Down
<1>2. ReportMatchesEnd'
  BY DEF StoreInv, Tick, ReportMatchesEnd
<1>3. RowInv'
  BY DEF StoreInv, Tick, RowInv
<1>. QED BY <1>1, <1>2, <1>3 DEF StoreInv

\* A claim ends with a matching pair of status and report, or goes back to the
\* queue while it has attempts left.
Matching(j, st, err, report) ==
  /\ \/ st = "completed" /\ report = "succeeded"
     \/ st = "partial"   /\ report = "partial"
     \/ st = "failed"    /\ report \in {"failed", "none"}
     \/ st = "cancelled" /\ report \in {"cancelled", "none"}
     \/ st = "queued"    /\ report = "none" /\ ~cancel[j] /\ attempts[j] < limit[j]
  /\ err \in {"none", "ANALYSIS_FAILED", error[j]}

LEMMA LeaveStore ==
  ASSUME StoreInv, NEW j \in Job, NEW st, NEW err, NEW report,
         status[j] = "running", Matching(j, st, err, report),
         Leave(j, st, err, report), wait' \in [Job -> 0..MaxBackoff]
  PROVE  StoreInv'
<1>0. /\ analyses[j] = "none"
      /\ st \in Status /\ err \in Code /\ report \in Report
      /\ (report # "none") \in BOOLEAN
  BY DEF StoreInv, TypeOKStore, ReportMatchesEnd, Matching, Status, Unfinished,
         Terminal, Code, Report
<1>1. TypeOKStore'
  <2>1. /\ status' \in [Job -> Status] /\ error' \in [Job -> Code]
        /\ token' \in [Job -> Nat] /\ lease' \in [Job -> 0..Lease]
    BY <1>0, StoreAssumption DEF StoreInv, TypeOKStore, Leave, NoToken
  <2>2. result' \in [Job -> BOOLEAN] /\ analyses' \in [Job -> Report]
    BY <1>0 DEF StoreInv, TypeOKStore, Leave
  <2>. QED BY <2>1, <2>2 DEF StoreInv, TypeOKStore, Leave
<1>2. ReportMatchesEnd'
  <2>. SUFFICES ASSUME NEW k \in Job
                PROVE  /\ result'[k] <=> analyses'[k] # "none"
                       /\ status'[k] = "completed" <=> analyses'[k] = "succeeded"
                       /\ status'[k] = "partial"   <=> analyses'[k] = "partial"
                       /\ analyses'[k] = "failed"    => status'[k] = "failed"
                       /\ analyses'[k] = "cancelled" => status'[k] = "cancelled"
    BY DEF ReportMatchesEnd
  <2>1. CASE k # j
    BY <2>1 DEF StoreInv, TypeOKStore, Leave, ReportMatchesEnd
  <2>2. CASE k = j
    <3>1. /\ status'[k] = st /\ analyses'[k] = report /\ result'[k] = (report # "none")
      BY <1>0, <2>2 DEF StoreInv, TypeOKStore, Leave
    <3>. QED BY <3>1 DEF Matching
  <2>. QED BY <2>1, <2>2
<1>3. RowInv'
  BY DEF StoreInv, TypeOKStore, Leave, Matching, RowInv
<1>. QED BY <1>1, <1>2, <1>3 DEF StoreInv

LEMMA AcknowledgeStore ==
  ASSUME StoreInv, NEW j \in Job, NEW t, NEW alive, NEW report \in {"cancelled", "none"},
         AcknowledgeCancel(j, t, alive, report)
  PROVE  StoreInv'
<1>1. Matching(j, "cancelled", error[j], report)
  BY DEF Matching
<1>2. status[j] = "running" /\ wait' \in [Job -> 0..MaxBackoff]
  BY DEF AcknowledgeCancel, CanAcknowledge, Holds, StoreInv, TypeOKStore
<1>. QED BY <1>1, <1>2, LeaveStore DEF AcknowledgeCancel

LEMMA FailStore ==
  ASSUME StoreInv, NEW j \in Job, NEW t, NEW alive, NEW retryable \in BOOLEAN,
         NEW delay \in 0..MaxBackoff, NEW report \in {"failed", "none"},
         Fail(j, t, alive, "ANALYSIS_FAILED", retryable, delay, report)
  PROVE  StoreInv'
<1>1. status[j] = "running" /\ wait' \in [Job -> 0..MaxBackoff]
  BY DEF Fail, CanFail, Holds, StoreInv, TypeOKStore
<1>2. CASE cancel[j] /\ Leave(j, "cancelled", "none", "none")
  BY <1>1, <1>2, LeaveStore DEF Matching
<1>3. CASE Leave(j, "failed", "ANALYSIS_FAILED", report)
  BY <1>1, <1>3, LeaveStore DEF Matching
<1>4. CASE ~cancel[j] /\ ~Final(j, retryable) /\ Leave(j, "queued", "ANALYSIS_FAILED", "none")
  <2>1. attempts[j] < limit[j]
    BY <1>4 DEF Final, StoreInv, TypeOKStore
  <2>. QED BY <1>1, <1>4, <2>1, LeaveStore DEF Matching
<1>. QED BY <1>2, <1>3, <1>4 DEF Fail

LEMMA CompleteStore ==
  ASSUME StoreInv, NEW j \in Job, NEW t, NEW alive, NEW report \in {"succeeded", "partial"},
         Complete(j, t, alive, report)
  PROVE  StoreInv'
<1>1. Matching(j, IF report = "succeeded" THEN "completed" ELSE "partial", error[j], report)
  BY DEF Matching
<1>2. status[j] = "running" /\ wait' \in [Job -> 0..MaxBackoff]
  BY DEF Complete, CanComplete, Holds, StoreInv, TypeOKStore
<1>. QED BY <1>1, <1>2, LeaveStore DEF Complete

-----------------------------------------------------------------------------
(* A reason to stop never goes away: tokens are never minted twice, so a     *)
(* claim that is not alive stays so.                                         *)

Stable ==
  /\ \A k \in Job : minted'[k] >= minted[k]
  /\ \A k \in Job : \A t \in 1..minted[k] : ~Alive(k, t) => ~(Alive(k, t)')

LEMMA UnchangedStable == ASSUME StoreInv, UNCHANGED storeVars PROVE Stable
BY DEF StoreInv, TypeOKStore, storeVars, Stable, Alive, Holds

LEMMA EnqueueStable ==
  ASSUME StoreInv, NEW j \in Job, NEW n \in AttemptLimits, Enqueue(j, n) PROVE Stable
BY DEF StoreInv, TypeOKStore, Enqueue, Stable, Alive, Holds

LEMMA CancelStable == ASSUME StoreInv, NEW j \in Job, Cancel(j) PROVE Stable
BY DEF StoreInv, TypeOKStore, Cancel, Stable, Alive, Holds

LEMMA SweepStable == ASSUME StoreInv, Sweep PROVE Stable
BY DEF StoreInv, TypeOKStore, Sweep, Exhausted, Expired, Stable, Alive, Holds, NoToken

LEMMA TakeStable == ASSUME StoreInv, NEW j \in Job, Take(j) PROVE Stable
BY DEF StoreInv, TypeOKStore, Take, NewToken, Stable, Alive, Holds

LEMMA RenewStable ==
  ASSUME StoreInv, RowInv, NEW j \in Job, NEW t, Renew(j, t) PROVE Stable
BY DEF StoreInv, TypeOKStore, Renew, Stable, Alive, Holds

LEMMA TickStable == ASSUME StoreInv, Tick PROVE Stable
BY DEF StoreInv, TypeOKStore, Tick, Down, Stable, Alive, Holds

LEMMA LeaveStable ==
  ASSUME StoreInv, NEW j \in Job, NEW st, NEW err, NEW report,
         status[j] = "running", Leave(j, st, err, report)
  PROVE  Stable
BY DEF StoreInv, TypeOKStore, Leave, Stable, Alive, Holds, NoToken

-----------------------------------------------------------------------------
(* One worker moves, the others stand still.                                *)

LEMMA OthersOutcome ==
  ASSUME TypeOK, TokenInv, OutcomeInv, Stable, NEW v \in Worker,
         pc'[v] = pc[v], held'[v] = held[v], lost'[v] = lost[v], out'[v] = out[v]
  PROVE  OutcomeOk(v)'
<1>1. Stopping(v) /\ pc[v] = "settle" => Stopping(v)'
  BY DEF TypeOK, TypeOKWorker, TokenInv, Stable, Stopping, ShouldStop, J, T, Claim
<1>. QED BY <1>1 DEF OutcomeInv, OutcomeOk

LEMMA TokensKept ==
  ASSUME TypeOK, TokenInv, Stable, minted' \in [Job -> Nat],
         \A v \in Worker : held'[v] \in {held[v], NoClaim}
  PROVE  TokenInv'
<1>1. ASSUME NEW w \in Worker, held'[w] # NoClaim
      PROVE  T(w)' \in 1..minted'[J(w)']
  BY <1>1 DEF TypeOK, TypeOKStore, TypeOKWorker, TokenInv, Stable, J, T, Claim
<1>. QED BY <1>1 DEF TokenInv, J, T

\* Everything but worker w's own variables stays.
Only(w) ==
  \A v \in Worker \ {w} :
    pc'[v] = pc[v] /\ held'[v] = held[v] /\ lost'[v] = lost[v] /\ out'[v] = out[v]

LEMMA OneMoves ==
  ASSUME IInv, NEW w \in Worker, StoreInv', Stable, TypeOKWorker', Only(w),
         held'[w] \in {held[w], NoClaim}, OutcomeOk(w)'
  PROVE  IInv'
<1>1. TokenInv'
  BY TokensKept DEF IInv, StoreInv, TypeOKStore, Only
<1>2. OutcomeInv'
  <2>. SUFFICES ASSUME NEW v \in Worker PROVE OutcomeOk(v)'
    BY DEF OutcomeInv
  <2>1. CASE v = w
    BY <2>1
  <2>2. CASE v # w
    BY <2>2, OthersOutcome DEF IInv, Only
  <2>. QED BY <2>1, <2>2
<1>. QED BY <1>1, <1>2 DEF IInv, TypeOK, StoreInv

LEMMA NoneMoves ==
  ASSUME IInv, StoreInv', Stable, UNCHANGED workerVars
  PROVE  IInv'
<1>1. TokenInv'
  BY TokensKept DEF IInv, StoreInv, TypeOKStore, workerVars
<1>2. OutcomeInv'
  BY OthersOutcome DEF IInv, OutcomeInv, workerVars
<1>3. TypeOKWorker'
  BY DEF IInv, TypeOK, TypeOKWorker, workerVars
<1>. QED BY <1>1, <1>2, <1>3 DEF IInv, TypeOK, StoreInv

LEMMA Forgets ==
  ASSUME IInv, NEW w \in Worker, StoreInv', Stable, Forget(w)
  PROVE  IInv'
<1>1. TypeOKWorker'
  BY DEF IInv, TypeOK, TypeOKWorker, Forget, Phase, Outcome, NoOutcome, Success, Report, Code
<1>2. Only(w) /\ held'[w] = NoClaim /\ pc'[w] = "idle"
  BY DEF IInv, TypeOK, TypeOKWorker, Forget, Only
<1>3. OutcomeOk(w)'
  BY <1>2 DEF OutcomeOk
<1>. QED BY <1>1, <1>2, <1>3, OneMoves

-----------------------------------------------------------------------------
(* The steps of a worker, one lemma for each action that needs an argument.  *)

LEMMA ClaimOfWorker ==
  ASSUME TypeOK, NEW w \in Worker, pc[w] \notin {"idle", "claiming"}
  PROVE  held[w] \in Claim /\ J(w) \in Job /\ T(w) \in Nat /\ held[w] # NoClaim
BY DEF TypeOK, TypeOKWorker, Claim, J, T

LEMMA SweepStep ==
  ASSUME IInv, NEW w \in Worker, ClaimSweep(w) PROVE IInv'
<1>1. StoreInv' /\ Stable
  BY SweepStore, SweepStable DEF IInv, TypeOK, StoreInv, ClaimSweep
<1>2. TypeOKWorker' /\ Only(w) /\ held' = held /\ pc'[w] = "claiming"
  BY DEF IInv, TypeOK, TypeOKWorker, ClaimSweep, Goto, Only, Phase
<1>3. OutcomeOk(w)'
  BY <1>2 DEF OutcomeOk
<1>. QED BY <1>1, <1>2, <1>3, OneMoves

LEMMA TakeStep ==
  ASSUME IInv, NEW w \in Worker, ClaimTake(w) PROVE IInv'
<1>1. PICK j \in Job :
        /\ Take(j)
        /\ held' = [held EXCEPT ![w] = [job |-> j, token |-> NewToken(j),
                                        attempt |-> attempts[j] + 1]]
  BY DEF ClaimTake
<1>2. StoreInv' /\ Stable
  BY <1>1, TakeStore, TakeStable DEF IInv, TypeOK, StoreInv
<1>3. /\ held[w] = NoClaim /\ pc'[w] = "check" /\ Only(w)
      /\ held'[w] = [job |-> j, token |-> NewToken(j), attempt |-> attempts[j] + 1]
  BY <1>1 DEF IInv, TypeOK, TypeOKWorker, ClaimTake, Goto, Only
<1>4. held'[w] # NoClaim /\ held'[w] \in Claim /\ J(w)' = j /\ T(w)' = minted[j] + 1
  BY <1>3 DEF NewToken, IInv, TypeOK, TypeOKStore, Claim, NoClaim, NoToken, J, T
<1>5. TypeOKWorker'
  BY <1>1, <1>3, <1>4 DEF IInv, TypeOK, TypeOKWorker, ClaimTake, Goto, Phase, Only
<1>6. minted' = [minted EXCEPT ![j] = @ + 1] /\ minted \in [Job -> Nat]
  BY <1>1 DEF Take, NewToken, IInv, TypeOK, TypeOKStore
<1>7. \A v \in Worker \ {w} : held[v] # NoClaim => J(v) \in Job /\ T(v) \in 1..minted[J(v)]
                                                  /\ J(v)' = J(v) /\ T(v)' = T(v)
  BY <1>3 DEF IInv, TypeOK, TypeOKWorker, TokenInv, Only, Claim, J, T
<1>8. TokenInv'
  <2>1. ASSUME NEW v \in Worker, held'[v] # NoClaim PROVE T(v)' \in 1..minted'[J(v)']
    BY <1>3, <1>4, <1>6, <1>7, <2>1 DEF Only
  <2>2. ASSUME NEW v \in Worker \ {w}, held'[v] # NoClaim, J(v)' = J(w)'
        PROVE  T(v)' # T(w)'
    BY <1>3, <1>4, <1>6, <1>7, <2>2 DEF Only
  <2>3. ASSUME NEW v \in Worker \ {w}, NEW u \in Worker \ {w},
               held'[v] # NoClaim, held'[u] # NoClaim, J(v)' = J(u)', T(v)' = T(u)'
        PROVE  v = u
    BY <1>3, <1>7, <2>3 DEF Only, IInv, TokenInv
  <2>. QED BY <2>1, <2>2, <2>3 DEF TokenInv
<1>9. OutcomeInv'
  <2>1. OutcomeOk(w)'
    BY <1>3 DEF OutcomeOk
  <2>2. ASSUME NEW v \in Worker \ {w} PROVE OutcomeOk(v)'
    BY <1>2, <1>3, OthersOutcome DEF IInv, Only
  <2>. QED BY <2>1, <2>2 DEF OutcomeInv
<1>. QED BY <1>2, <1>5, <1>8, <1>9 DEF IInv, TypeOK, StoreInv

LEMMA HeartbeatStep ==
  ASSUME IInv, NEW w \in Worker, Heartbeat(w) \/ HeartbeatError(w) PROVE IInv'
<1>1. pc[w] \in {"check", "handler"} /\ J(w) \in Job
  BY ClaimOfWorker DEF Heartbeat, HeartbeatError, IInv
<1>2. StoreInv' /\ Stable
  <2>1. CASE UNCHANGED storeVars
    BY <2>1, UnchangedStable DEF IInv, TypeOK, StoreInv, TypeOKStore, ReportMatchesEnd, RowInv, storeVars
  <2>2. CASE Renew(J(w), T(w))
    BY <1>1, <2>2, RenewStore, RenewStable DEF IInv, TypeOK, StoreInv
  <2>. QED BY <2>1, <2>2 DEF Heartbeat, HeartbeatError
<1>3. TypeOKWorker' /\ Only(w) /\ held' = held /\ pc' = pc
  BY DEF IInv, TypeOK, TypeOKWorker, Heartbeat, HeartbeatError, Only
<1>4. OutcomeOk(w)'
  BY <1>1, <1>3 DEF OutcomeOk
<1>. QED BY <1>2, <1>3, <1>4, OneMoves

\* The steps that only read the store.
LEMMA StoreUntouched ==
  ASSUME IInv, UNCHANGED storeVars
  PROVE  /\ StoreInv' /\ Stable
         /\ \A w \in Worker : held'[w] = held[w] /\ lost'[w] = lost[w] =>
              (Stopping(w)' <=> Stopping(w))
BY UnchangedStable DEF IInv, TypeOK, StoreInv, TypeOKStore, ReportMatchesEnd, RowInv, storeVars,
   Stopping, ShouldStop, Alive, Holds, J, T

LEMMA CheckStep ==
  ASSUME IInv, NEW w \in Worker, CheckStop(w) \/ CheckError(w) PROVE IInv'
<1>1. UNCHANGED storeVars /\ held' = held /\ lost' = lost
  BY DEF CheckStop, CheckError
<1>2. TypeOKWorker' /\ Only(w)
  BY DEF IInv, TypeOK, TypeOKWorker, CheckStop, CheckError, Goto, Only, Phase,
         Outcome, Failure, Report, Code
<1>3. OutcomeOk(w)'
  <2>1. CASE pc'[w] = "handler"
    BY <2>1 DEF OutcomeOk
  <2>2. CASE pc'[w] = "settle"
    <3>1. out'[w].failure # "none" /\ (out'[w].code = "ANALYSIS_FAILED" \/ Stopping(w))
      BY <2>2 DEF IInv, TypeOK, TypeOKWorker, CheckStop, CheckError, Goto, Failure
    <3>. QED BY <1>1, <2>2, <3>1, StoreUntouched DEF OutcomeOk
  <2>. QED BY <2>1, <2>2 DEF CheckStop, CheckError, Goto, IInv, TypeOK, TypeOKWorker
<1>. QED BY <1>1, <1>2, <1>3, StoreUntouched, OneMoves

LEMMA HandlerStep ==
  ASSUME IInv, NEW w \in Worker, HandlerReturns(w) PROVE IInv'
<1>1. UNCHANGED storeVars /\ held' = held /\ lost' = lost
  BY DEF HandlerReturns
<1>2. /\ pc'[w] = "settle"
      /\ \/ out'[w] \in HandlerOutcome
         \/ Stopping(w) /\ out'[w] = StoppedOutcome
  BY DEF IInv, TypeOK, TypeOKWorker, HandlerReturns, Goto
<1>3. out'[w] \in Outcome
  BY <1>2 DEF HandlerOutcome, StoppedOutcome, Success, Failure, Outcome, Report, Code
<1>4. TypeOKWorker' /\ Only(w)
  BY <1>3 DEF IInv, TypeOK, TypeOKWorker, HandlerReturns, Goto, Only, Phase
<1>5. OutcomeOk(w)'
  <2>1. CASE out'[w] \in HandlerOutcome
    BY <1>2, <2>1 DEF OutcomeOk, HandlerOutcome, Success, Failure
  <2>2. CASE Stopping(w) /\ out'[w] = StoppedOutcome
    BY <1>1, <1>2, <2>2, StoreUntouched DEF OutcomeOk, StoppedOutcome, Failure
  <2>. QED BY <1>2, <2>1, <2>2
<1>. QED BY <1>1, <1>4, <1>5, StoreUntouched, OneMoves

LEMMA SettleStep ==
  ASSUME IInv, NEW w \in Worker, Settle(w) \/ Begin(w) PROVE IInv'
<1>1. UNCHANGED storeVars /\ held' = held /\ lost' = lost /\ out' = out
  BY DEF Settle, Begin
<1>2. TypeOKWorker' /\ Only(w)
  BY ClaimOfWorker DEF IInv, TypeOK, TypeOKStore, TypeOKWorker, Settle, Begin, Goto, Only, Phase, Holds
<1>3. OutcomeOk(w)'
  BY <1>1 DEF IInv, TypeOK, TypeOKWorker, OutcomeInv, OutcomeOk, Settle, Begin, Goto
<1>. QED BY <1>1, <1>2, <1>3, StoreUntouched, OneMoves

LEMMA FinishStep ==
  ASSUME IInv, NEW w \in Worker, FinishAck(w) \/ FinishFail(w) \/ FinishComplete(w) \/ Crash(w)
  PROVE  IInv'
<1>1. Forget(w)
  BY DEF FinishAck, FinishFail, FinishComplete, Crash
<1>2. CASE UNCHANGED storeVars
  BY <1>1, <1>2, StoreUntouched, Forgets
<1>3. CASE ~UNCHANGED storeVars
  <2>1. J(w) \in Job /\ StoreInv
    BY <1>3, ClaimOfWorker
    DEF IInv, TypeOK, StoreInv, FinishAck, FinishFail, FinishComplete, Crash
  <2>2. StoreInv'
    <3>1. CASE FinishAck(w)
      BY <1>3, <2>1, <3>1, AcknowledgeStore DEF FinishAck
    <3>2. CASE FinishFail(w)
      <4>1. out[w].code = "ANALYSIS_FAILED"
        BY <3>2 DEF IInv, OutcomeInv, OutcomeOk, FinishFail
      <4>. QED BY <1>3, <2>1, <3>2, <4>1, BackoffType, FailStore DEF FinishFail
    <3>3. CASE FinishComplete(w)
      <4>1. out[w].report \in {"succeeded", "partial"}
        BY <3>3 DEF IInv, OutcomeInv, OutcomeOk, FinishComplete
      <4>. QED BY <1>3, <2>1, <3>3, <4>1, CompleteStore DEF FinishComplete
    <3>. QED BY <1>3, <3>1, <3>2, <3>3 DEF Crash
  <2>3. Stable
    <3>1. status[J(w)] = "running" /\ \E st, err, report : Leave(J(w), st, err, report)
      BY <1>3 DEF FinishAck, FinishFail, FinishComplete, Crash, AcknowledgeCancel, CanAcknowledge,
                  Fail, CanFail, Complete, CanComplete, Holds
    <3>. QED BY <2>1, <3>1, LeaveStable
  <2>. QED BY <1>1, <2>2, <2>3, Forgets
<1>. QED BY <1>2, <1>3

-----------------------------------------------------------------------------
LEMMA InitInv == Init => IInv
<1>. SUFFICES ASSUME Init PROVE IInv
  OBVIOUS
<1>1. TypeOK
  BY StoreAssumption
  DEF Init, InitStore, TypeOK, TypeOKStore, TypeOKWorker, Status, Code, Report, NoToken,
      Phase, Outcome, NoOutcome, Success
<1>2. ReportMatchesEnd /\ RowInv
  BY DEF Init, InitStore, ReportMatchesEnd, RowInv
<1>3. TokenInv /\ OutcomeInv
  BY DEF Init, TokenInv, OutcomeInv, OutcomeOk
<1>. QED BY <1>1, <1>2, <1>3 DEF IInv

LEMMA NextInv == IInv /\ [Next]_vars => IInv'
<1>. SUFFICES ASSUME IInv, [Next]_vars PROVE IInv'
  OBVIOUS
<1>. StoreInv
  BY DEF IInv, TypeOK, StoreInv
<1>1. CASE Owner /\ UNCHANGED workerVars
  BY <1>1, EnqueueStore, EnqueueStable, CancelStore, CancelStable, NoneMoves DEF Owner
<1>2. CASE Tick /\ UNCHANGED workerVars
  BY <1>2, TickStore, TickStable, NoneMoves
<1>3. ASSUME NEW w \in Worker, Work(w) \/ Crash(w) PROVE IInv'
  <2>1. CASE ClaimNothing(w)
    <3>1. TypeOKWorker' /\ Only(w) /\ held' = held /\ pc'[w] = "idle"
      BY <2>1 DEF IInv, TypeOK, TypeOKWorker, ClaimNothing, Goto, Only, Phase
    <3>2. OutcomeOk(w)'
      BY <3>1 DEF OutcomeOk
    <3>. QED BY <2>1, <3>1, <3>2, StoreUntouched, OneMoves DEF ClaimNothing
  <2>. QED BY <1>3, <2>1, SweepStep, TakeStep, HeartbeatStep, CheckStep, HandlerStep, SettleStep,
              FinishStep DEF Work
<1>4. CASE UNCHANGED vars
  BY <1>4, StoreUntouched, NoneMoves DEF vars
<1>. QED BY <1>1, <1>2, <1>3, <1>4 DEF Next

THEOREM Invariance == Spec => []IInv
BY InitInv, NextInv, PTL DEF Spec

\* TypeOK, for every set of jobs and workers.
THEOREM TypeCorrect == Spec => []TypeOK
BY Invariance, PTL DEF IInv

\* At most one worker holds the token of a running job.
THEOREM MutualExclusion == Spec => []OneHolder
<1>1. IInv => OneHolder
  BY DEF IInv, TokenInv, OneHolder, Current, Holds
<1>. QED BY <1>1, Invariance, PTL

\* A report is stored exactly with the end it belongs to.
THEOREM ReportWithEnd == Spec => []ReportMatchesEnd
BY Invariance, PTL DEF IInv

\* The number of claims of a job never exceeds its max_attempts.
THEOREM AttemptBudget == Spec => []BudgetKept
<1>1. IInv => BudgetKept
  BY DEF IInv, RowInv, BudgetKept
<1>. QED BY <1>1, Invariance, PTL

\* What a worker does on being told to stop is never recorded as a failure.
THEOREM StopNeverFails == Spec => []StopIsNoFailure
<1>1. IInv => StopIsNoFailure
  BY DEF IInv, RowInv, StopIsNoFailure
<1>. QED BY <1>1, Invariance, PTL

-----------------------------------------------------------------------------
(* Every step changes each row in one of six ways.                          *)

Kept(j) ==
  UNCHANGED <<status[j], attempts[j], limit[j], cancel[j], token[j], error[j], result[j],
              analyses[j]>>

Enqueued(j) ==
  /\ status[j] = "absent" /\ status'[j] = "queued" /\ limit'[j] \in AttemptLimits
  /\ UNCHANGED <<attempts[j], cancel[j], token[j], analyses[j]>>

Cancelled(j) ==
  /\ status[j] \in Unfinished /\ cancel'[j]
  /\ status'[j] = IF status[j] = "queued" THEN "cancelled" ELSE status[j]
  /\ UNCHANGED <<attempts[j], limit[j], token[j], analyses[j]>>

Retired(j) ==
  /\ Exhausted(j)
  /\ status'[j] = IF cancel[j] THEN "cancelled" ELSE "failed"
  /\ UNCHANGED <<attempts[j], limit[j], cancel[j], analyses[j]>>

Taken(j) ==
  /\ Claimable(j)
  /\ status'[j] = "running" /\ attempts'[j] = attempts[j] + 1 /\ cancel'[j] = FALSE
  /\ UNCHANGED <<limit[j], analyses[j]>>

Left(j) ==
  /\ \E w \in Worker : Current(w, j) /\ pc[w] \in Finishing /\ pc'[w] = "idle"
  /\ UNCHANGED <<attempts[j], limit[j], cancel[j]>>
  /\ \/ cancel[j] /\ status'[j] = "cancelled" /\ analyses'[j] \in {"none", "cancelled"}
     \/ ~cancel[j] /\ status'[j] = "completed" /\ analyses'[j] = "succeeded"
     \/ ~cancel[j] /\ status'[j] = "partial" /\ analyses'[j] = "partial"
     \/ ~cancel[j] /\ status'[j] = "failed" /\ analyses'[j] \in {"none", "failed"}
     \/ /\ ~cancel[j] /\ attempts[j] < limit[j]
        /\ status'[j] = "queued" /\ analyses'[j] = "none"

RowStep(j) ==
  Kept(j) \/ Enqueued(j) \/ Cancelled(j) \/ Retired(j) \/ Taken(j) \/ Left(j)

LEMMA FinishRows ==
  ASSUME IInv, NEW w \in Worker, FinishAck(w) \/ FinishFail(w) \/ FinishComplete(w),
         ~UNCHANGED storeVars, NEW k \in Job
  PROVE  RowStep(k)
<1>1. /\ J(w) \in Job /\ held[w] # NoClaim /\ pc[w] \in Finishing /\ pc'[w] = "idle"
      /\ Holds(J(w), T(w))
  BY ClaimOfWorker
  DEF FinishAck, FinishFail, FinishComplete, Forget, IInv, TypeOK, TypeOKWorker, Finishing,
      AcknowledgeCancel, CanAcknowledge, Fail, CanFail, Complete, CanComplete
<1>2. /\ analyses[J(w)] = "none" /\ attempts[J(w)] \in Nat /\ limit[J(w)] \in Nat
  BY <1>1 DEF IInv, TypeOK, TypeOKStore, ReportMatchesEnd, Holds, Report
<1>3. CASE k # J(w)
  <2>1. \E st, err, report : Leave(J(w), st, err, report)
    BY DEF FinishAck, FinishFail, FinishComplete, AcknowledgeCancel, Fail, Complete
  <2>. QED BY <1>3, <2>1 DEF Leave, RowStep, Kept, IInv, TypeOK, TypeOKStore
<1>4. CASE k = J(w)
  <2>1. Current(w, k)
    BY <1>1, <1>4 DEF Current
  <2>2. ASSUME NEW st, NEW err, NEW report, Leave(k, st, err, report)
        PROVE  /\ UNCHANGED <<attempts[k], limit[k], cancel[k]>>
               /\ status'[k] = st /\ analyses'[k] = report
    BY <1>2, <1>4, <2>2 DEF Leave, IInv, TypeOK, TypeOKStore
  <2>3. CASE FinishAck(w)
    BY <1>1, <1>3, <1>4, <2>1, <2>2, <2>3 DEF FinishAck, AcknowledgeCancel, CanAcknowledge, RowStep, Left
  <2>4. CASE FinishFail(w)
    <3>1. ~Final(k, out[w].failure = "retryable") => attempts[k] < limit[k]
      BY <1>2, <1>4 DEF Final
    <3>. QED BY <1>1, <1>4, <2>1, <2>2, <2>4, <3>1 DEF FinishFail, Fail, RowStep, Left
  <2>5. CASE FinishComplete(w)
    <3>1. out[w].report \in {"succeeded", "partial"}
      BY <2>5 DEF IInv, OutcomeInv, OutcomeOk, FinishComplete
    <3>. QED BY <1>1, <1>4, <2>1, <2>2, <2>5, <3>1 DEF FinishComplete, Complete, CanComplete, RowStep, Left
  <2>. QED BY <2>3, <2>4, <2>5
<1>. QED BY <1>3, <1>4

LEMMA StepRows ==
  ASSUME IInv, [Next]_vars, NEW k \in Job
  PROVE  RowStep(k)
<1>. USE DEF IInv, TypeOK, TypeOKStore
<1>1. CASE UNCHANGED storeVars
  BY <1>1 DEF storeVars, RowStep, Kept
<1>2. ASSUME NEW j \in Job, NEW n \in AttemptLimits, Enqueue(j, n) PROVE RowStep(k)
  BY <1>2 DEF Enqueue, RowStep, Kept, Enqueued
<1>3. ASSUME NEW j \in Job, Cancel(j) PROVE RowStep(k)
  BY <1>3 DEF Cancel, RowStep, Kept, Cancelled
<1>4. CASE Sweep
  BY <1>4 DEF Sweep, RowStep, Kept, Retired
<1>5. ASSUME NEW j \in Job, Take(j) PROVE RowStep(k)
  BY <1>5 DEF Take, NewToken, RowStep, Kept, Taken
<1>6. ASSUME NEW j, NEW t, Renew(j, t) PROVE RowStep(k)
  BY <1>6 DEF Renew, RowStep, Kept
<1>7. CASE Tick
  BY <1>7 DEF Tick, RowStep, Kept
<1>8. ASSUME NEW w \in Worker, Work(w) \/ Crash(w), ~UNCHANGED storeVars PROVE RowStep(k)
  BY <1>4, <1>5, <1>6, <1>8, FinishRows
  DEF Work, Crash, ClaimSweep, ClaimTake, ClaimNothing, Heartbeat, HeartbeatError, CheckStop,
      CheckError, HandlerReturns, Settle, Begin
<1>. QED BY <1>1, <1>2, <1>3, <1>7, <1>8 DEF Next, Owner, vars

\* An accepted cancel of a running job is never lost.
THEOREM CancelNeverLost == Spec => CancelWins
<1>1. IInv /\ [Next]_vars => CancelWinsStep
  BY StepRows
  DEF CancelWinsStep, RowStep, Kept, Enqueued, Cancelled, Retired, Taken, Left, Claimable,
      IInv, ReportMatchesEnd, TypeOK, TypeOKStore, Report
<1>. QED BY <1>1, Invariance, PTL DEF CancelWins, Spec

\* An ended job never changes again.
THEOREM EndIsFinal == Spec => FinalIsFinal
<1>1. IInv /\ [Next]_vars => FinalIsFinalStep
  BY StepRows
  DEF FinalIsFinalStep, RowStep, Kept, Enqueued, Cancelled, Retired, Taken, Left, Claimable,
      Exhausted, Expired, Current, Holds, Terminal, Unfinished
<1>. QED BY <1>1, Invariance, PTL DEF FinalIsFinal, Spec

\* Only the holder of a live lease ends its claim.
THEOREM LeaseIsExclusive == Spec => LeaseProtects
<1>1. ASSUME IInv, [Next]_vars, NEW j \in Job,
             status[j] = "running", lease[j] > 0, token'[j] # token[j]
      PROVE  Left(j)
  <2>1. RowStep(j) /\ ~Expired(j)
    BY <1>1, StepRows DEF Expired
  <2>. QED BY <1>1, <2>1
    DEF RowStep, Kept, Enqueued, Cancelled, Retired, Taken, Claimable, Exhausted
<1>2. IInv /\ [Next]_vars => LeaseProtectsStep
  BY <1>1 DEF LeaseProtectsStep, Left
<1>. QED BY <1>2, Invariance, PTL DEF LeaseProtects, Spec

-----------------------------------------------------------------------------
(* The rows implement JobLifecycle.                                         *)

LEMMA InitLife == Init => Lifecycle!Init
BY DEF Init, InitStore, Lifecycle!Init, PhaseOf, Terminal

LEMMA TypeLife == IInv => Lifecycle!TypeOK
<1>. SUFFICES ASSUME IInv PROVE Lifecycle!TypeOK
  OBVIOUS
<1>1. ASSUME NEW j \in Job PROVE limit[j] - attempts[j] \in Nat
  <2>1. limit[j] \in Nat /\ attempts[j] \in Nat /\ attempts[j] <= limit[j]
    BY DEF IInv, RowInv, TypeOK, TypeOKStore
  <2>. QED BY <2>1
<1>. QED BY <1>1
  DEF IInv, TypeOK, TypeOKStore, Lifecycle!TypeOK, PhaseOf, Terminal, Status, Report

LEMMA StepLife ==
  ASSUME IInv, NEW j \in Job, RowStep(j)
  PROVE  \/ Lifecycle!Submit(j) \/ Lifecycle!Start(j) \/ Lifecycle!GiveBack(j)
         \/ Lifecycle!AskToStop(j) \/ Lifecycle!End(j) \/ Lifecycle!Rest(j)
<1>. USE DEF IInv, TypeOK, TypeOKStore, PhaseOf, Terminal
<1>1. CASE Kept(j)
  BY <1>1 DEF Kept, Lifecycle!Rest
<1>2. CASE Enqueued(j)
  BY <1>2, StoreAssumption DEF Enqueued, RowInv, Lifecycle!Submit
<1>3. CASE Cancelled(j)
  BY <1>3 DEF Cancelled, Unfinished, Lifecycle!AskToStop
<1>4. CASE Retired(j)
  BY <1>4 DEF Retired, Exhausted, Expired, ReportMatchesEnd, Report, Lifecycle!End, Lifecycle!ReportsOf
<1>5. CASE Taken(j)
  <2>1. attempts[j] \in Nat /\ limit[j] \in Nat /\ attempts[j] < limit[j]
    BY <1>5 DEF Taken, Claimable, RowInv
  <2>2. /\ status[j] \in {"queued", "running"} /\ ~cancel[j]
        /\ UNCHANGED <<cancel[j], limit[j], analyses[j]>> /\ attempts'[j] = attempts[j] + 1
        /\ status'[j] = "running"
    BY <1>5 DEF Taken, Claimable, Expired, RowInv
  <2>. QED BY <2>1, <2>2 DEF Lifecycle!Start
<1>6. CASE Left(j)
  <2>1. status[j] = "running" /\ analyses[j] = "none" /\ attempts[j] \in Nat /\ limit[j] \in Nat
    BY <1>6 DEF Left, Current, Holds, ReportMatchesEnd, Report
  <2>2. CASE status'[j] = "queued"
    <3>1. ~cancel[j] /\ attempts[j] < limit[j] /\ analyses'[j] = "none"
          /\ UNCHANGED <<attempts[j], limit[j], cancel[j]>>
      BY <1>6, <2>2 DEF Left
    <3>. QED BY <2>1, <2>2, <3>1 DEF Lifecycle!GiveBack
  <2>3. CASE status'[j] # "queued"
    BY <1>6, <2>1, <2>3 DEF Left, Lifecycle!End, Lifecycle!ReportsOf
  <2>. QED BY <2>2, <2>3
<1>. QED BY <1>1, <1>2, <1>3, <1>4, <1>5, <1>6 DEF RowStep

\* The queue with its leases, tokens, crashes and retries implements the
\* lifecycle it promises.
THEOREM Refinement == Spec => KeepsPromise
<1>1. ASSUME IInv, [Next]_vars, Lifecycle!TypeOK' PROVE Lifecycle!Next
  BY <1>1, StepRows, StepLife DEF Lifecycle!Next
<1>. QED BY <1>1, InitLife, TypeLife, Invariance, PTL DEF KeepsPromise, Lifecycle!Spec, Spec
=============================================================================
