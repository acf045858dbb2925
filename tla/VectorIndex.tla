---------------------------- MODULE VectorIndex -----------------------------
(***************************************************************************)
(* index_snapshot of backend/app/rag/indexing/store.py: the points Qdrant   *)
(* keeps for one owner's repository, and the processes that replace them.    *)
(* No two calls to Qdrant are one transaction, and nothing in this class     *)
(* keeps two indexers apart.                                                *)
(*                                                                         *)
(* The repository is a scope that changes at any time: the current commit,   *)
(* whether it is private, or no access at all.  The other fields of          *)
(* AuthorizedScope are fixed by the repository.  The resolver's own requests *)
(* are one look; one that fails is an operation that fails.                  *)
(***************************************************************************)
EXTENDS Naturals

CONSTANTS
  Commit,     \* commits that may be the head of the default branch
  Indexer,    \* threads that call index_snapshot
  Size,       \* chunks of a snapshot
  BatchSize,  \* points per upsert, 64 in the code
  MaxChanges  \* bound: how often the scope changes

ASSUME IndexAssumption ==
  /\ Size \in Nat
  /\ BatchSize \in Nat \ {0}
  /\ MaxChanges \in Nat

VARIABLES
  scope,   \* what resolve_scope answers
  changes, \* how often it changed
  points,  \* what the collection holds for this repository
  ipc,     \* where index_snapshot is
  mine,    \* its `scope`
  stale,   \* ids it found and does not want
  next,    \* the first chunk of the batch it upserts next
  serial   \* history: no other scope was indexed since it read the points

indexVars == <<points, ipc, mine, stale, next, serial>>
vars      == <<scope, changes, indexVars>>

AuthorizedScope == [commit : Commit, private : BOOLEAN]
Denied          == [commit |-> "none"]

\* The id hashes commit and chunk, and leaves `private` out.
Id    == [commit : Commit, chunk : 1..Size]
Point == [commit : Commit, chunk : 1..Size, private : BOOLEAN]

IdOf(p) == [commit |-> p.commit, chunk |-> p.chunk]
Batch(s, first, last) ==
  [commit : {s.commit}, chunk : first..last, private : {s.private}]
PointsOf(s) == Batch(s, 1, Size)

TypeOK ==
  /\ scope \in AuthorizedScope \cup {Denied}
  /\ changes \in 0..MaxChanges
  /\ points \subseteq Point
  /\ \A p, q \in points : IdOf(p) = IdOf(q) => p = q
  /\ ipc \in [Indexer -> {"idle", "embed", "scroll", "delete", "upsert", "done"}]
  /\ mine \in [Indexer -> AuthorizedScope \cup {Denied}]
  /\ \A i \in Indexer : ipc[i] # "idle" => mine[i] # Denied
  /\ stale \in [Indexer -> SUBSET Id]
  /\ next \in [Indexer -> 1..(Size + 1)]
  /\ serial \in [Indexer -> BOOLEAN]

InitScope ==
  /\ scope \in AuthorizedScope
  /\ changes = 0

InitIndex ==
  /\ points = {}
  /\ ipc    = [i \in Indexer |-> "idle"]
  /\ mine   = [i \in Indexer |-> Denied]
  /\ stale  = [i \in Indexer |-> {}]
  /\ next   = [i \in Indexer |-> 1]
  /\ serial = [i \in Indexer |-> FALSE]

Init == InitScope /\ InitIndex

-----------------------------------------------------------------------------
\* Access is granted or revoked, a commit is pushed, the repository is made
\* public or private.
ChangeScope ==
  /\ changes < MaxChanges
  /\ changes' = changes + 1
  /\ scope' \in (AuthorizedScope \cup {Denied}) \ {scope}

IGoto(i, from, to) == ipc[i] = from /\ ipc' = [ipc EXCEPT ![i] = to]

\* The snapshot must be the current one; then the chunks are embedded, which is
\* slow.
IndexBegins(i) ==
  /\ ipc[i] \in {"idle", "done"}
  /\ scope # Denied
  /\ ipc'    = [ipc    EXCEPT ![i] = "embed"]
  /\ mine'   = [mine   EXCEPT ![i] = scope]
  /\ next'   = [next   EXCEPT ![i] = 1]
  /\ serial' = [serial EXCEPT ![i] = FALSE]
  /\ UNCHANGED <<points, stale>>

\* Embedding, the live scope or Qdrant fails, the scope is not the same any
\* more, or the process dies: whatever Qdrant has done stays done.
IndexEnds(i) ==
  /\ ipc[i] \in {"embed", "scroll", "delete", "upsert"}
  /\ ipc'    = [ipc    EXCEPT ![i] = "idle"]
  /\ mine'   = [mine   EXCEPT ![i] = Denied]
  /\ stale'  = [stale  EXCEPT ![i] = {}]
  /\ next'   = [next   EXCEPT ![i] = 1]
  /\ serial' = [serial EXCEPT ![i] = FALSE]
  /\ UNCHANGED points

\* The last look at the scope, before any storage mutation.
IndexRechecks(i) ==
  /\ IGoto(i, "embed", "scroll")
  /\ scope = mine[i]
  /\ UNCHANGED <<points, mine, stale, next, serial>>

\* Mutant of Wanted: the points of every commit are kept.
WantedOfAnyCommit(i, id) == TRUE

Wanted(i, id) == id \in {IdOf(p) : p \in PointsOf(mine[i])}

\* The pages of the scroll are read as one.
IndexScrolls(i) ==
  /\ IGoto(i, "scroll", "delete")
  /\ stale'  = [stale  EXCEPT ![i] = {id \in {IdOf(p) : p \in points} : ~Wanted(i, id)}]
  /\ serial' = [serial EXCEPT ![i] = TRUE]
  /\ UNCHANGED <<points, mine, next>>

\* Another scope's points change under the indexers that read them before.
Disturb(i) ==
  serial' = [k \in Indexer |-> serial[k] /\ mine[k] = mine[i]]

IndexDeletes(i) ==
  /\ IGoto(i, "delete", "upsert")
  /\ points' = {p \in points : IdOf(p) \notin stale[i]}
  /\ stale'  = [stale EXCEPT ![i] = {}]
  /\ Disturb(i)
  /\ UNCHANGED <<mine, next>>

LastOf(i) == IF next[i] + BatchSize - 1 < Size THEN next[i] + BatchSize - 1 ELSE Size

\* A point replaces the one with its id.
Upserted(batch) ==
  {p \in points : IdOf(p) \notin {IdOf(q) : q \in batch}} \cup batch

IndexUpserts(i) ==
  /\ ipc[i] = "upsert" /\ next[i] <= Size
  /\ points' = Upserted(Batch(mine[i], next[i], LastOf(i)))
  /\ next'   = [next EXCEPT ![i] = LastOf(i) + 1]
  /\ Disturb(i)
  /\ UNCHANGED <<ipc, mine, stale>>

IndexReturns(i) ==
  /\ IGoto(i, "upsert", "done")
  /\ next[i] > Size
  /\ UNCHANGED <<points, mine, stale, next, serial>>

Index(i) ==
  \/ IndexBegins(i) \/ IndexEnds(i) \/ IndexRechecks(i) \/ IndexScrolls(i)
  \/ IndexDeletes(i) \/ IndexUpserts(i) \/ IndexReturns(i)

Next ==
  \/ ChangeScope /\ UNCHANGED indexVars
  \/ \E i \in Indexer : Index(i) /\ UNCHANGED <<scope, changes>>

Spec == Init /\ [][Next]_vars

-----------------------------------------------------------------------------
(* Safety.                                                                 *)

\* A call that returned leaves exactly the points of its snapshot, whatever
\* failed calls left behind and although other calls index the same snapshot at
\* the same time, provided that no call for another scope came in between.
IndexIsExact ==
  \A i \in Indexer : ipc[i] = "done" /\ serial[i] => points = PointsOf(mine[i])

\* What an indexer knows on the way there: what is not wanted will be deleted,
\* and what is wanted is there up to `next`.
SerialOk(i) ==
  /\ ipc[i] \in {"delete", "upsert", "done"}
  /\ ipc[i] = "delete" => \A p \in points : Wanted(i, IdOf(p)) \/ IdOf(p) \in stale[i]
  /\ ipc[i] \in {"upsert", "done"} =>
       /\ \A p \in points : Wanted(i, IdOf(p))
       /\ Batch(mine[i], 1, next[i] - 1) \subseteq points
  /\ ipc[i] = "done" => next[i] > Size

SerialInv == \A i \in Indexer : serial[i] => SerialOk(i)

\* Ids to be deleted are never wanted, and nothing is upserted before.
StaleInv ==
  \A i \in Indexer :
    /\ \A id \in stale[i] : ~Wanted(i, id)
    /\ stale[i] # {} => ipc[i] = "delete"
    /\ ipc[i] \in {"embed", "scroll", "delete"} => next[i] = 1

IInv == TypeOK /\ SerialInv /\ StaleInv
=============================================================================
