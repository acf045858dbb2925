----------------------------- MODULE Retrieval ------------------------------
(***************************************************************************)
(* Questions in the local mode (backend/app/local/retrieval.py, store.py):   *)
(* request threads index the chunks of an imported snapshot in an embedded    *)
(* vector collection, search it and have a local model answer.  The lock is   *)
(* held while a snapshot is indexed and while it is searched, not in between. *)
(* The model server may fail or be late, a write may fail, the process may    *)
(* die and be started again: SQLite and the collection outlive it.           *)
(***************************************************************************)
EXTENDS Naturals, FiniteSets

CONSTANTS
  Snapshot,  \* <<repository_id, snapshot_id>>
  Size,      \* the number of chunks of each snapshot
  Limit,     \* chunks of a snapshot that may be indexed (2048 in the code)
  Batch,     \* chunks embedded and stored at once (4 in the code)
  Heavy,     \* chunks, <<snapshot, number>>, that make a batch exceed 64 KB
  Thread, None,
  MaxAsks,   \* bound: questions
  MaxFaults  \* bound: failed calls and writes, and deaths of the process

ASSUME RetrievalAssumption ==
  /\ Size \in [Snapshot -> Nat] /\ Heavy \subseteq Snapshot \X Nat /\ Limit \in Nat /\ Batch \in Nat \ {0}
  /\ None \notin Thread \cup Snapshot \cup {"unavailable"}
  /\ MaxAsks \in Nat /\ MaxFaults \in Nat

Point == Snapshot \X (Nat \ {0})   \* its id: the snapshot and which chunk

VARIABLES
  saved,           \* SQLite: the snapshots imported
  points,          \* the collection
  client, lock,    \* the collection is "open", "closed" or "off" (it could not be
                   \* opened), or the process is "dead"; who holds `_lock`
  pc, of,          \* threads inside `ask`: where, and of which snapshot
  next, evidence,  \* the first chunk of the batch; the point shown to the model
  since, reply,    \* faults when the question came; what was answered last
  asks, faults

vars == <<saved, points, client, lock, pc, of, next, evidence, since, reply, asks, faults>>

Status == {"answered", "no_evidence", "rejected", "unavailable"}
Failure == {"rejected", "unavailable"}  \* a ValueError, or any other exception

TypeOKRetrieval ==
  /\ saved \subseteq Snapshot /\ points \subseteq Point
  /\ client \in {"open", "closed", "off", "dead"} /\ lock \in Thread \cup {None}
  /\ pc \in [Thread -> {"idle", "index", "embed", "upsert", "search", "query", "answer"}]
  /\ of \in [Thread -> Snapshot \cup {None}]
  /\ next \in [Thread -> Nat] /\ evidence \in [Thread -> Point \cup {None}]
  /\ since \in [Thread -> 0..MaxFaults] /\ reply \in [Thread -> Status \cup {None}]
  /\ asks \in 0..MaxAsks /\ faults \in 0..MaxFaults

InitRetrieval ==
  /\ saved = {} /\ points = {} /\ client = "open" /\ lock = None
  /\ pc = [t \in Thread |-> "idle"] /\ of = [t \in Thread |-> None]
  /\ next = [t \in Thread |-> 1] /\ evidence = [t \in Thread |-> None]
  /\ since = [t \in Thread |-> 0] /\ reply = [t \in Thread |-> None]
  /\ asks = 0 /\ faults = 0

-----------------------------------------------------------------------------
Chunks(s) == {s} \X (1..Size[s])

\* Mutant of Matching: any snapshot of the repository.
MatchingRepository(s) == {p \in points : p[1][1] = s[1]}
\* The points the filter selects.
Matching(s) == {p \in points : p[1] = s}

\* The chunks of the batch of thread t.
InBatch(t) == {p \in Chunks(of[t]) : p[2] \in next[t]..(next[t] + Batch - 1)}

Goto(t, where) == pc' = [pc EXCEPT ![t] = where]

\* `ask` returns.
Reply(t, status) ==
  /\ Goto(t, "idle")
  /\ reply' = [reply EXCEPT ![t] = status]
  /\ evidence' = [evidence EXCEPT ![t] = None]

Fault == faults < MaxFaults /\ faults' = faults + 1

Disk == <<saved, points>>
Mine == <<of, next, since>>

-----------------------------------------------------------------------------
\* save_snapshot: a stored source never changes; an equal one may be stored again, one
\* that differs (by its name alone, for the id is a digest or a commit) is refused.
Save(s) == s \notin saved /\ saved' = saved \cup {s}

\* /api/local/import: a source within the limits is saved.
Import(s) ==
  /\ client # "dead"
  /\ Save(s)
  /\ UNCHANGED <<points, client, lock, pc, evidence, Mine, reply, asks, faults>>

\* /api/local/chat of an imported snapshot.
Ask(t, s) ==
  /\ client # "dead" /\ pc[t] = "idle" /\ s \in saved /\ asks < MaxAsks
  /\ asks' = asks + 1
  /\ of' = [of EXCEPT ![t] = s] /\ next' = [next EXCEPT ![t] = 1]
  /\ since' = [since EXCEPT ![t] = faults]
  /\ IF client = "off"
     THEN Reply(t, "unavailable")
     ELSE /\ Goto(t, "index") /\ reply' = [reply EXCEPT ![t] = None]
          /\ UNCHANGED evidence
  /\ UNCHANGED <<Disk, client, lock, faults>>

\* Mutant of Indexed: what is there was put there by an earlier question.
IndexedSome(t) == Size[of[t]] = 0 \/ Matching(of[t]) # {}
\* As many points as chunks: nothing is left to index.
Indexed(t) == Cardinality(Matching(of[t])) = Size[of[t]]

\* Mutant of IndexFails: a collection with some of the chunks is not extended.
IndexFailsOnPart(t, status) ==
  \/ Size[of[t]] > Limit /\ status = "rejected"
  \/ Size[of[t]] <= Limit /\ client = "closed" /\ status = "unavailable"
  \/ Matching(of[t]) # {} /\ ~Indexed(t) /\ status = "unavailable"
\* Too many chunks, or a client that is closed.
IndexFails(t, status) ==
  \/ Size[of[t]] > Limit /\ status = "rejected"
  \/ Size[of[t]] <= Limit /\ client = "closed" /\ status = "unavailable"

\* index_snapshot takes the lock, chunks the source and counts the points.
StartIndex(t) ==
  /\ pc[t] = "index" /\ lock = None
  /\ IF \E status \in Failure : IndexFails(t, status)
     THEN /\ \E status \in Failure : IndexFails(t, status) /\ Reply(t, status)
          /\ UNCHANGED lock
     ELSE /\ IF Indexed(t) THEN Goto(t, "search") /\ UNCHANGED lock
                           ELSE Goto(t, "embed") /\ lock' = t
          /\ UNCHANGED <<evidence, reply>>
  /\ UNCHANGED <<Disk, client, Mine, asks, faults>>

\* Mutant of Released: the lock is not released when a call raises.
ReleasedNot(t) == lock
Released(t) == IF lock = t THEN None ELSE lock

\* The server embeds the batch, unless the request for it exceeds 64 KB.
Embed(t) ==
  /\ pc[t] = "embed"
  /\ IF InBatch(t) \cap Heavy # {}
     THEN Reply(t, "rejected") /\ lock' = Released(t)
     ELSE Goto(t, "upsert") /\ UNCHANGED <<lock, evidence, reply>>
  /\ UNCHANGED <<Disk, client, Mine, asks, faults>>

Following(t) == next[t] + Batch

\* The batch is stored; after the last one the lock is released.
Upsert(t) ==
  /\ pc[t] = "upsert"
  /\ points' = points \cup InBatch(t)
  /\ next' = [next EXCEPT ![t] = Following(t)]
  /\ IF Following(t) > Size[of[t]]
     THEN Goto(t, "search") /\ lock' = None
     ELSE Goto(t, "embed") /\ UNCHANGED lock
  /\ UNCHANGED <<saved, client, of, since, evidence, reply, asks, faults>>

\* search takes the lock and counts; without points there is nothing to search.
StartSearch(t) ==
  /\ pc[t] = "search" /\ lock = None
  /\ IF client = "closed" \/ Matching(of[t]) = {}
     THEN /\ Reply(t, IF client = "closed" THEN "unavailable" ELSE "no_evidence")
          /\ UNCHANGED lock
     ELSE /\ Goto(t, "query") /\ lock' = t
          /\ UNCHANGED <<evidence, reply>>
  /\ UNCHANGED <<Disk, client, Mine, asks, faults>>

\* The question is embedded and the nearest point found: any of them.
Query(t) ==
  /\ pc[t] = "query"
  /\ \E p \in Matching(of[t]) : evidence' = [evidence EXCEPT ![t] = p]
  /\ Goto(t, "answer") /\ lock' = None
  /\ UNCHANGED <<Disk, client, Mine, reply, asks, faults>>

\* The model finds claims, or none; or cites what it was not shown.
Answer(t) ==
  /\ pc[t] = "answer"
  /\ \E status \in {"answered", "no_evidence", "rejected"} : Reply(t, status)
  /\ UNCHANGED <<Disk, client, lock, Mine, asks, faults>>

\* A read, a call of the server or a write raises; of the batch any part may be stored.
Raise(t) ==
  /\ pc[t] \in {"index", "search", "embed", "upsert", "query", "answer"}
  /\ Fault
  /\ \E part \in SUBSET (IF pc[t] = "upsert" THEN InBatch(t) ELSE {}) : points' = points \cup part
  /\ \E status \in Failure : Reply(t, status)
  /\ lock' = Released(t)
  /\ UNCHANGED <<saved, client, Mine, asks>>

-----------------------------------------------------------------------------
\* The application stops: `close` waits for the lock, not for the threads.
Close ==
  /\ client = "open" /\ lock = None
  /\ client' = "closed"
  /\ UNCHANGED <<Disk, lock, pc, evidence, Mine, reply, asks, faults>>

\* The process dies, with part of a batch stored, or ends when no thread is left.
Die ==
  /\ client # "dead"
  /\ \/ client \in {"closed", "off"} /\ (\A t \in Thread : pc[t] = "idle") /\ UNCHANGED <<points, faults>>
     \/ /\ Fault
        /\ \E part \in SUBSET UNION {InBatch(t) : t \in {u \in Thread : pc[u] = "upsert"}} :
             points' = points \cup part
  /\ client' = "dead" /\ lock' = None
  /\ pc' = [t \in Thread |-> "idle"] /\ evidence' = [t \in Thread |-> None]
  /\ reply' = [t \in Thread |-> None]
  /\ UNCHANGED <<saved, Mine, asks>>

\* It is started again and opens the same collection, or goes on without it.
Boot ==
  /\ client = "dead"
  /\ \/ client' = "open" /\ UNCHANGED faults
     \/ client' = "off" /\ Fault
  /\ UNCHANGED <<Disk, lock, pc, evidence, Mine, reply, asks>>

Step(t) ==
  \/ StartIndex(t) \/ Embed(t) \/ Upsert(t)
  \/ StartSearch(t) \/ Query(t) \/ Answer(t)

NextRetrieval ==
  \/ \E s \in Snapshot : Import(s)
  \/ \E t \in Thread, s \in Snapshot : Ask(t, s)
  \/ \E t \in Thread : Step(t) \/ Raise(t)
  \/ Close \/ Die \/ Boot

SpecRetrieval == InitRetrieval /\ [][NextRetrieval]_vars

\* Every call of the server returns, or raises after its timeout, and a thread that
\* waits for a lock nobody holds gets it.
FairSpec == SpecRetrieval /\ \A t \in Thread : WF_vars(Step(t))

-----------------------------------------------------------------------------
(* Safety.                                                                 *)

\* A thread past index_snapshot searches an index that holds every chunk of its snapshot:
\* after failed or refused batches, batches stored in part, deaths, and whoever indexed it.
SearchSeesAll ==
  \A t \in Thread : pc[t] \in {"search", "query", "answer"} => Chunks(of[t]) \subseteq points

\* The model is shown a chunk of the snapshot that was asked about, and the store of
\* points never counts the chunks of one snapshot as those of another.
EvidenceIsOwn ==
  \A t \in Thread : pc[t] = "answer" => evidence[t] \in Chunks(of[t])

\* A question is unavailable only when a call or a write failed while it was answered or the
\* application was closed: no earlier failure, and no index left in part, makes it so.
UnavailableForReason ==
  \A t \in Thread : reply[t] = "unavailable" => faults > since[t] \/ client \in {"closed", "off"}

(* Liveness.                                                               *)

\* Every question ends: answered, refused, or lost with the process.
AskEnds == \A t \in Thread : pc[t] # "idle" ~> pc[t] = "idle"
=============================================================================
