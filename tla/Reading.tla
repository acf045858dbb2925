------------------------------ MODULE Reading -------------------------------
(***************************************************************************)
(* How the API and its worker read a repository of GitHub: the resolver of   *)
(* live scopes, the public and the private reader, and the calls of          *)
(* backend/app/services/reporting made of them.  Each request to GitHub is a *)
(* step, and between any two the repository may be pushed to, made public or *)
(* private, deleted and made anew, and the owner's access may come and go.   *)
(***************************************************************************)
EXTENDS Naturals, Sequences

CONSTANTS
  MaxChanges, \* bound: changes of the repository
  Returns     \* bound: calls answered

ASSUME ReadingAssumption == MaxChanges \in Nat /\ Returns \in Nat

VARIABLES
  world, changes, \* GitHub: the repository, and how often it changed
  row,            \* the repository has a row, with its first snapshot
  kind, at, sub,  \* the call: which, its operation, the request to come
  wanted,         \* the commit of the job or the report it is about
  via, meta,      \* the reader in use, the metadata it read
  before, found,  \* the scope of the first look, the scope or snapshot being read
  snap, kept,     \* the snapshot; the one the material is of, and then what is indexed
  source,         \* the id on GitHub that the material is indexed under
  outcome, calls,
  since, quiet    \* history: the repository since the last content was read;
                  \* no change since the call began

github == <<world, changes>>
local  == <<kind, wanted, via, meta, before, found, snap, kept, source>>
past   == <<since, quiet>>
vars   == <<github, row, local, at, sub, outcome, calls, past>>

World == [id : 1..(MaxChanges + 1), commit : 1..(MaxChanges + 1), private : BOOLEAN, access : BOOLEAN]
Scope == [id : 1..(MaxChanges + 1), commit : 1..(MaxChanges + 1), private : BOOLEAN]
Nothing == [commit |-> 0]

\* The operations of the calls, in order.
Snapshot == <<"before", "fetch", "after">>                   \* _authorized_snapshot
Material == Snapshot \o <<"text", "documents", "text">>      \* load_material: a source and a document
Summary == Snapshot \o <<"text", "confirm">>
Diagrams == Material \o <<"confirm">>
Index == Material \o <<"confirm", "before", "fetch", "again", "index">>

Kinds == {"create", "list", "files", "summary", "diagrams", "load", "index"}

Program(k) ==
  CASE k = "create" -> <<"fetch", "insert">> [] k = "list"  -> <<"listed">>
    [] k = "files" -> Snapshot               [] k = "load"  -> Material
    [] k = "summary" -> Summary              [] k = "diagrams" -> Diagrams
    [] k = "index" -> Index

\* Calls about the commit of a job or of a report.
ForCommit == {"diagrams", "load", "index"}

Op == Program(kind)[at]
Looks == {"listed", "before", "after", "confirm", "again", "index"}

TypeOK ==
  /\ world \in World /\ changes \in 0..MaxChanges /\ row \in BOOLEAN
  /\ kind \in Kinds \cup {"none"} /\ at \in 1..11
  /\ sub \in {"none", "public", "private", "commit", "tree", "blob", "insert"}
  /\ wanted \in 0..(MaxChanges + 1) /\ via \in {"public", "private"}
  /\ meta \in 0..(MaxChanges + 1) /\ source \in 0..(MaxChanges + 1)
  /\ {before, found, snap, kept} \subseteq Scope \cup {Nothing}
  /\ outcome \in {"none", "done", "conflict", "unavailable", "exists", "failed"}
  /\ calls \in 0..Returns /\ since \subseteq World /\ quiet \in BOOLEAN

Init ==
  /\ world \in {w \in World : w.id = 1 /\ w.commit = 1} /\ changes = 0 /\ row = FALSE
  /\ kind = "none" /\ at = 1 /\ sub = "none" /\ wanted = 0
  /\ via = "public" /\ meta = 0 /\ source = 0
  /\ before = Nothing /\ found = Nothing /\ snap = Nothing /\ kept = Nothing
  /\ outcome = "none" /\ calls = 0
  /\ since = {} /\ quiet = TRUE

-----------------------------------------------------------------------------
(* GitHub.                                                                 *)

\* Commits are not taken back: a head that was left does not return.
Change ==
  /\ changes < MaxChanges /\ changes' = changes + 1
  /\ \/ world' = [world EXCEPT !.commit = @ + 1]
     \/ world' = [world EXCEPT !.id = @ + 1]
     \/ world' = [world EXCEPT !.private = ~@]
     \/ world' = [world EXCEPT !.access = ~@]
  /\ since' = since \cup {world'} /\ quiet' = FALSE
  /\ UNCHANGED <<row, local, at, sub, outcome, calls>>

\* Whether a reader can read: a private repository is not there (404) for those
\* without access, and no token is there for the private reader.
Readable(w, reader) == IF reader = "public" THEN ~w.private ELSE w.access
Reachable(w) == ~w.private \/ w.access
ScopeOf(w) == [id |-> w.id, commit |-> w.commit, private |-> w.private]

-----------------------------------------------------------------------------
(* A call.                                                                 *)

Answer(o) == outcome' = o /\ sub' = "none" /\ calls' = calls + 1 /\ UNCHANGED at

\* Where operation o begins, on snapshot s.
FirstRequest(o, s) ==
  CASE o \in Looks \cup {"fetch"} -> "public"
    [] o = "text"      -> IF s.private THEN "private" ELSE "blob"
    [] o = "documents" -> "private"
    [] o = "insert"    -> "insert"

\* Operation n of the program is next; document_files of the public reader asks nothing.
Enter(n, s) ==
  LET m == IF n <= Len(Program(kind)) /\ Program(kind)[n] = "documents" /\ ~s.private THEN n + 1 ELSE n
  IN  IF m > Len(Program(kind)) THEN Answer("done")
      ELSE at' = m /\ sub' = FirstRequest(Program(kind)[m], s) /\ UNCHANGED <<outcome, calls>>

\* A call about a commit is one about a head there was.
Begin(k) ==
  /\ sub = "none" /\ calls < Returns
  /\ row \/ k = "create"
  /\ kind' = k /\ at' = 1
  /\ sub' = FirstRequest(Program(k)[1], Nothing)
  /\ wanted' \in IF k \in ForCommit THEN 1..world.commit ELSE {0}
  /\ outcome' = "none"
  /\ via' = "public" /\ meta' = 0 /\ source' = 0
  /\ before' = Nothing /\ found' = Nothing /\ snap' = Nothing /\ kept' = Nothing
  /\ since' = {world} /\ quiet' = TRUE
  /\ UNCHANGED <<github, row, calls>>

\* GET /repos/{owner}/{repo} without a token.
\* Mutant of ReadPublic: what is not public is not there.
ReadPublicOnly ==
  /\ sub = "public"
  /\ IF world.private
     THEN Answer("unavailable") /\ UNCHANGED <<via, meta>>
     ELSE sub' = "commit" /\ via' = "public" /\ meta' = world.id /\ UNCHANGED <<at, outcome, calls>>
  /\ UNCHANGED <<github, row, kind, wanted, before, found, snap, kept, source, past>>
ReadPublic ==
  /\ sub = "public"
  /\ IF world.private
     THEN sub' = "private" /\ UNCHANGED <<via, meta>>
     ELSE sub' = "commit" /\ via' = "public" /\ meta' = world.id
  /\ UNCHANGED <<github, row, kind, at, wanted, before, found, snap, kept, source, outcome, calls, past>>

\* The same with the owner's token: a repository that is public is refused, and
\* so is another one under the name of the snapshot's.
ReadPrivate ==
  /\ sub = "private"
  /\ IF /\ world.access /\ world.private
        /\ Op \in {"text", "documents"} => world.id = snap.id
     THEN sub' = "commit" /\ via' = "private" /\ meta' = world.id /\ UNCHANGED <<at, outcome, calls>>
     ELSE Answer("unavailable") /\ UNCHANGED <<via, meta>>
  /\ UNCHANGED <<github, row, kind, wanted, before, found, snap, kept, source, past>>

\* The public reader does not find it any more: _fetch goes on with the private one.
NotFound ==
  IF Op = "fetch" /\ via = "public"
  THEN sub' = "private" /\ UNCHANGED <<at, outcome, calls>>
  ELSE Answer("unavailable")

\* What _authorized_snapshot requires of its three answers.
\* Mutant of Agree: the visibility is not compared.
AgreeOnCommit(after) ==
  /\ snap.id = before.id /\ snap.commit = before.commit
  /\ after.id = before.id /\ after.commit = before.commit
Agree(after) ==
  /\ snap.id = before.id /\ snap.commit = before.commit
  /\ after = before /\ snap.private = before.private

\* The repository has not changed since the material was loaded: the snapshots are
\* compared, in which the id on GitHub is replaced by the id of the row; only the one
\* of a private repository still has it.
Unchanged ==
  /\ snap.commit = kept.commit /\ snap.private = kept.private
  /\ snap.private => snap.id = kept.id

\* Mutant of Taken: the id is not compared.
TakenByCommit(scope) == scope.commit = kept.commit /\ (kept.private => scope.private)
\* index_snapshot takes what is of the scope it sees: the material under the id of the
\* look that confirmed its commit, and no private material as public.
Taken(scope) ==
  /\ scope.id = source /\ scope.commit = kept.commit
  /\ kept.private => scope.private

\* What a private text, and the list of the documents, requires of the head.
Current(head) == head.commit = snap.commit

\* The head of the default branch: the end of a look, the check of a text.
ReadCommit ==
  /\ sub = "commit"
  /\ LET read == [id |-> meta, commit |-> world.commit, private |-> via = "private"] IN
     IF ~Readable(world, via) THEN NotFound /\ UNCHANGED <<before, found, kept>>
     ELSE CASE Op = "fetch" ->
               /\ sub' = "tree" /\ found' = read
               /\ UNCHANGED <<at, outcome, calls, before, kept>>
            [] Op = "before" ->
               /\ before' = read /\ Enter(at + 1, snap) /\ UNCHANGED <<found, kept>>
            [] Op = "listed" -> Answer("done") /\ UNCHANGED <<before, found, kept>>
            [] Op = "after" ->
               /\ IF Agree(read) /\ (kind \in ForCommit => snap.commit = wanted)
                  THEN Enter(at + 1, snap) /\ kept' = snap
                  ELSE Answer("conflict") /\ UNCHANGED kept
               /\ UNCHANGED <<before, found>>
            [] Op = "again" ->
               /\ IF Agree(read) /\ Unchanged THEN Enter(at + 1, snap) ELSE Answer("conflict")
               /\ UNCHANGED <<before, found, kept>>
            [] Op = "index" ->
               \* Documents that were public are refused once the repository is private;
               \* material without any is then indexed as private.
               /\ \/ /\ Taken(read) /\ Answer("done")
                     /\ kept' = [kept EXCEPT !.id = source, !.private = read.private]
                  \/ /\ ~Taken(read) \/ read.private # kept.private
                     /\ Answer("conflict") /\ UNCHANGED kept
               /\ UNCHANGED <<before, found>>
            [] Op = "confirm" ->
               /\ IF read.commit = snap.commit THEN Enter(at + 1, snap) ELSE Answer("conflict")
               /\ UNCHANGED <<before, found, kept>>
            [] Op = "text" ->
               /\ IF Current(read)
                  THEN sub' = "blob" /\ UNCHANGED <<at, outcome, calls>>
                  ELSE Answer("unavailable")
               /\ UNCHANGED <<before, found, kept>>
            [] Op = "documents" ->
               /\ IF Current(read) THEN Enter(at + 1, snap) ELSE Answer("unavailable")
               /\ UNCHANGED <<before, found, kept>>
  /\ source' = IF Op = "confirm" THEN meta ELSE source
  /\ UNCHANGED <<github, row, kind, wanted, via, meta, snap, past>>

\* The tree of that commit, by its SHA, and the files selected from it.
TreeRead == snap' = found /\ Enter(at + 1, found) /\ since' = {world} /\ UNCHANGED quiet

ReadPublicTree ==
  /\ sub = "tree" /\ via = "public"
  /\ IF Readable(world, "public") THEN TreeRead ELSE NotFound /\ UNCHANGED <<snap, past>>
  /\ UNCHANGED <<github, row, kind, wanted, via, meta, before, found, kept, source>>

ReadPrivateTree ==
  /\ sub = "tree" /\ via = "private"
  /\ IF Readable(world, "private") THEN TreeRead ELSE NotFound /\ UNCHANGED <<snap, past>>
  /\ UNCHANGED <<github, row, kind, wanted, via, meta, before, found, kept, source>>

\* A text, by the SHA of its blob.
ReadBlob ==
  /\ sub = "blob"
  /\ IF Readable(world, IF snap.private THEN "private" ELSE "public")
     THEN Enter(at + 1, snap) /\ since' = {world} /\ UNCHANGED quiet
     ELSE Answer("failed") /\ UNCHANGED past
  /\ UNCHANGED <<github, row, local>>

\* The rows of a repository and of its snapshot, in one transaction.
Insert ==
  /\ sub = "insert"
  /\ Answer(IF row THEN "exists" ELSE "done") /\ row' = TRUE
  /\ UNCHANGED <<github, local, past>>

\* GitHub cannot be reached, limits the rate, answers nonsense or too much; the
\* files are too many or none is supported; a text is not the one of its SHA.
Fails ==
  /\ sub # "none"
  /\ Answer("failed")
  /\ UNCHANGED <<github, row, local, past>>

Next ==
  \/ Change \/ ReadPublic \/ ReadPrivate \/ ReadCommit \/ ReadPublicTree \/ ReadPrivateTree
  \/ ReadBlob \/ Insert \/ Fails
  \/ \E k \in Kinds : Begin(k)

Spec == Init /\ [][Next]_vars

-----------------------------------------------------------------------------
(* Properties.                                                             *)

Was(s) == s \in {ScopeOf(w) : w \in {v \in since : Reachable(v)}}

\* A snapshot that _authorized_snapshot returned was, with its id, its visibility
\* and its access, what the owner could see at one instant after its tree was
\* read, although no request reads all of that.  It rests on Change: if the head
\* may return to a commit it left, the three requests of a look can straddle it.
SnapshotIsConfirmed == outcome = "done" /\ kind = "files" => Was(snap)

\* Texts are read by SHA, whatever happened to the repository.  A summary and the
\* diagrams are shown only if the owner could read the repository at their commit
\* at an instant after the last text was read.  What goes to the index is of the
\* job's commit and of a scope, id and visibility included, that the owner could see
\* at one instant after the second reading of its tree: not by `_index_material`,
\* whose comparison misses a public repository made anew, but by index_snapshot.
TextIsConfirmed ==
  outcome = "done" =>
    /\ kind \in {"summary", "diagrams"} =>
         \E w \in since : Reachable(w) /\ w.commit = snap.commit
    /\ kind = "index" => Was(kept) /\ kept.commit = wanted

\* A call is refused only if the repository changed under it, is not the owner's
\* to read, or is not at the commit asked for.
RefusedForReason ==
  outcome \in {"conflict", "unavailable"} =>
    \/ ~quiet \/ ~Reachable(world)
    \/ kind \in ForCommit /\ wanted # world.commit
=============================================================================
