--------------------------- MODULE Reading_proofs ---------------------------
(***************************************************************************)
(* Proofs about Reading, for any number of calls and of changes of the        *)
(* repository.                                                               *)
(***************************************************************************)
EXTENDS Reading, TLAPS

\* GitHub has not changed more often than it did, and the head does not go back.
WorldInv ==
  /\ world.id <= changes + 1 /\ world.commit <= changes + 1
  /\ wanted <= world.commit
  /\ kind # "none" => world \in since
  /\ \A w \in since : w.commit <= world.commit

\* The request to come is one of the operation the call is at.
SubInv ==
  sub # "none" =>
    /\ kind \in Kinds /\ at <= Len(Program(kind)) /\ calls < Returns /\ outcome = "none"
    /\ sub = "public" => Op \in Looks \cup {"fetch"}
    /\ sub \in {"private", "commit"} => Op \in Looks \cup {"fetch", "text", "documents"}
    /\ sub = "commit" => meta # 0
    /\ sub = "tree" => Op = "fetch"
    /\ sub = "blob" => Op = "text"
    /\ sub = "insert" => Op = "insert"

\* How far the call is says what it has read.
StageInv ==
  sub # "none" /\ kind \notin {"create", "list"} =>
    /\ at >= 2 => before \in Scope
    /\ at >= 3 => snap \in Scope
    /\ at >= 4 => kept \in Scope /\ (kind \in ForCommit => kept.commit = wanted)
    /\ at >= 8 => source # 0
    /\ at = 11 => kept.commit = before.commit
    /\ sub = "tree" => found \in Scope

\* A scope that was read first is not of a later commit than the repository has; the one
\* that is compared is not later than anything since the tree was read.
BeforeInv ==
  /\ before.commit <= world.commit
  /\ sub # "none" /\ Op \in {"after", "again", "index"} => \A w \in since : before.commit <= w.commit

\* The metadata a look has read was true at an instant after the tree was read.
LookInv ==
  sub = "commit" /\ Op \in {"after", "again", "index"} =>
    \E w \in since : Reachable(w) /\ w.id = meta /\ w.private = (via = "private")

\* While nothing changes everything read is so.
QuietInv ==
  quiet /\ sub # "none" =>
    /\ {before, found, snap, kept} \subseteq {Nothing, ScopeOf(world)}
    /\ source \in {0, world.id}
    /\ sub \in {"commit", "tree"} => meta = world.id /\ (via = "private") = world.private
    /\ sub = "private" => world.private

\* The invariant: what is above, with the properties.
ReadingInv ==
  /\ TypeOK /\ WorldInv /\ SubInv /\ StageInv /\ BeforeInv /\ LookInv /\ QuietInv
  /\ SnapshotIsConfirmed /\ TextIsConfirmed /\ RefusedForReason

-----------------------------------------------------------------------------
(* The programs.                                                           *)

\* The operations of each call, one by one.
LEMMA Programs ==
  /\ /\ Len(Program("create")) = 2 /\ Program("create")[1] = "fetch" /\ Program("create")[2] = "insert"
  /\ /\ Len(Program("list")) = 1 /\ Program("list")[1] = "listed"
  /\ /\ Len(Program("files")) = 3 /\ Program("files")[1] = "before" /\ Program("files")[2] = "fetch" /\ Program("files")[3] = "after"
  /\ /\ Len(Program("load")) = 6 /\ Program("load")[1] = "before" /\ Program("load")[2] = "fetch" /\ Program("load")[3] = "after"
     /\ Program("load")[4] = "text" /\ Program("load")[5] = "documents" /\ Program("load")[6] = "text"
  /\ /\ Len(Program("summary")) = 5 /\ Program("summary")[1] = "before" /\ Program("summary")[2] = "fetch" /\ Program("summary")[3] = "after"
     /\ Program("summary")[4] = "text" /\ Program("summary")[5] = "confirm"
  /\ /\ Len(Program("diagrams")) = 7 /\ Program("diagrams")[1] = "before" /\ Program("diagrams")[2] = "fetch" /\ Program("diagrams")[3] = "after"
     /\ Program("diagrams")[4] = "text" /\ Program("diagrams")[5] = "documents" /\ Program("diagrams")[6] = "text" /\ Program("diagrams")[7] = "confirm"
  /\ /\ Len(Program("index")) = 11 /\ Program("index")[1] = "before" /\ Program("index")[2] = "fetch" /\ Program("index")[3] = "after"
     /\ Program("index")[4] = "text" /\ Program("index")[5] = "documents" /\ Program("index")[6] = "text" /\ Program("index")[7] = "confirm"
     /\ Program("index")[8] = "before" /\ Program("index")[9] = "fetch" /\ Program("index")[10] = "again"
     /\ Program("index")[11] = "index"
<1>1. Program("create") = <<"fetch", "insert">> /\ Program("list") = <<"listed">> /\ Program("files") = Snapshot
  BY DEF Program
<1>2. Program("load") = Material /\ Program("summary") = Summary /\ Program("diagrams") = Diagrams /\ Program("index") = Index
  BY DEF Program
<1>3. Len(Material) = 6 /\ Material[1] = "before" /\ Material[2] = "fetch" /\ Material[3] = "after"
      /\ Material[4] = "text" /\ Material[5] = "documents" /\ Material[6] = "text"
  BY DEF Material, Snapshot
<1>4. Len(Summary) = 5 /\ Summary[1] = "before" /\ Summary[2] = "fetch" /\ Summary[3] = "after"
      /\ Summary[4] = "text" /\ Summary[5] = "confirm"
  BY DEF Summary, Snapshot
<1>5. /\ Len(Diagrams) = 7 /\ Diagrams[1] = "before" /\ Diagrams[2] = "fetch" /\ Diagrams[3] = "after"
      /\ Diagrams[4] = "text" /\ Diagrams[5] = "documents" /\ Diagrams[6] = "text" /\ Diagrams[7] = "confirm"
  BY DEF Diagrams, Material, Snapshot
<1>6. /\ Len(Index) = 11 /\ Index[1] = "before" /\ Index[2] = "fetch" /\ Index[3] = "after"
      /\ Index[4] = "text" /\ Index[5] = "documents" /\ Index[6] = "text" /\ Index[7] = "confirm"
      /\ Index[8] = "before" /\ Index[9] = "fetch" /\ Index[10] = "again"
      /\ Index[11] = "index"
  BY DEF Index, Material, Snapshot
<1>7. Len(Snapshot) = 3 /\ Snapshot[1] = "before" /\ Snapshot[2] = "fetch" /\ Snapshot[3] = "after"
  BY DEF Snapshot
<1> QED BY <1>1, <1>2, <1>3, <1>4, <1>5, <1>6, <1>7

\* Which operation is where.
LEMMA Operations ==
  ASSUME NEW k \in Kinds, NEW n \in 1..Len(Program(k))
  PROVE  LET op == Program(k)[n] IN
         /\ Len(Program(k)) \in 1..11
         /\ op \in Looks \cup {"fetch", "text", "documents", "insert"}
         /\ op = "listed" => k = "list" /\ n = Len(Program(k))
         /\ op = "insert" => k = "create" /\ n = Len(Program(k))
         /\ op = "before" => k \notin {"create", "list"} /\ n \in {1, 8} /\ n < Len(Program(k))
         /\ op = "fetch" => k # "list" /\ n \in {1, 2, 9} /\ n < Len(Program(k)) /\ (n = 1 => k = "create")
         /\ op = "after" => k \notin {"create", "list"} /\ n = 3 /\ (n = Len(Program(k)) => k = "files")
         /\ op = "again" => k = "index" /\ n = 10 /\ n < Len(Program(k))
         /\ op = "index" => k = "index" /\ n = 11 /\ n = Len(Program(k)) /\ Program(k)[n - 1] = "again"
         /\ op \in {"after", "again"} => Program(k)[n - 1] = "fetch"
         /\ op \in {"text", "documents"} =>
              n \in 4..6 /\ k \in {"summary", "diagrams", "load", "index"} /\ (n = Len(Program(k)) => k = "load")
         /\ op = "documents" => n < Len(Program(k)) /\ Program(k)[n + 1] = "text"
         /\ op = "confirm" =>
              n \in {5, 7} /\ (n = Len(Program(k)) <=> k \in {"summary", "diagrams"})
                /\ k \in {"summary", "diagrams", "index"}
<1>1. CASE k = "create"
  <2>1. Len(Program(k)) = 2 /\ Program(k)[1] = "fetch" /\ Program(k)[2] = "insert"
    BY <1>1, Programs
  <2>2. CASE n = 1 BY <1>1, <2>1, <2>2 DEF Looks
  <2>3. CASE n = 2 BY <1>1, <2>1, <2>3 DEF Looks
  <2> QED BY <2>1, <2>2, <2>3
<1>2. CASE k = "list"
  <2>1. Len(Program(k)) = 1 /\ Program(k)[1] = "listed"
    BY <1>2, Programs
  <2>2. CASE n = 1 BY <1>2, <2>1, <2>2 DEF Looks
  <2> QED BY <2>1, <2>2
<1>3. CASE k = "files"
  <2>1. Len(Program(k)) = 3 /\ Program(k)[1] = "before" /\ Program(k)[2] = "fetch"
        /\ Program(k)[3] = "after"
    BY <1>3, Programs
  <2>2. CASE n = 1 BY <1>3, <2>1, <2>2 DEF Looks
  <2>3. CASE n = 2 BY <1>3, <2>1, <2>3 DEF Looks
  <2>4. CASE n = 3 BY <1>3, <2>1, <2>4 DEF Looks
  <2> QED BY <2>1, <2>2, <2>3, <2>4
<1>4. CASE k = "load"
  <2>1. Len(Program(k)) = 6 /\ Program(k)[1] = "before" /\ Program(k)[2] = "fetch"
        /\ Program(k)[3] = "after" /\ Program(k)[4] = "text" /\ Program(k)[5] = "documents"
        /\ Program(k)[6] = "text"
    BY <1>4, Programs
  <2>2. CASE n = 1 BY <1>4, <2>1, <2>2 DEF Looks
  <2>3. CASE n = 2 BY <1>4, <2>1, <2>3 DEF Looks
  <2>4. CASE n = 3 BY <1>4, <2>1, <2>4 DEF Looks
  <2>5. CASE n = 4 BY <1>4, <2>1, <2>5 DEF Looks
  <2>6. CASE n = 5 BY <1>4, <2>1, <2>6 DEF Looks
  <2>7. CASE n = 6 BY <1>4, <2>1, <2>7 DEF Looks
  <2> QED BY <2>1, <2>2, <2>3, <2>4, <2>5, <2>6, <2>7
<1>5. CASE k = "summary"
  <2>1. Len(Program(k)) = 5 /\ Program(k)[1] = "before" /\ Program(k)[2] = "fetch"
        /\ Program(k)[3] = "after" /\ Program(k)[4] = "text" /\ Program(k)[5] = "confirm"
    BY <1>5, Programs
  <2>2. CASE n = 1 BY <1>5, <2>1, <2>2 DEF Looks
  <2>3. CASE n = 2 BY <1>5, <2>1, <2>3 DEF Looks
  <2>4. CASE n = 3 BY <1>5, <2>1, <2>4 DEF Looks
  <2>5. CASE n = 4 BY <1>5, <2>1, <2>5 DEF Looks
  <2>6. CASE n = 5 BY <1>5, <2>1, <2>6 DEF Looks
  <2> QED BY <2>1, <2>2, <2>3, <2>4, <2>5, <2>6
<1>6. CASE k = "diagrams"
  <2>1. Len(Program(k)) = 7 /\ Program(k)[1] = "before" /\ Program(k)[2] = "fetch"
        /\ Program(k)[3] = "after" /\ Program(k)[4] = "text" /\ Program(k)[5] = "documents"
        /\ Program(k)[6] = "text" /\ Program(k)[7] = "confirm"
    BY <1>6, Programs
  <2>2. CASE n = 1 BY <1>6, <2>1, <2>2 DEF Looks
  <2>3. CASE n = 2 BY <1>6, <2>1, <2>3 DEF Looks
  <2>4. CASE n = 3 BY <1>6, <2>1, <2>4 DEF Looks
  <2>5. CASE n = 4 BY <1>6, <2>1, <2>5 DEF Looks
  <2>6. CASE n = 5 BY <1>6, <2>1, <2>6 DEF Looks
  <2>7. CASE n = 6 BY <1>6, <2>1, <2>7 DEF Looks
  <2>8. CASE n = 7 BY <1>6, <2>1, <2>8 DEF Looks
  <2> QED BY <2>1, <2>2, <2>3, <2>4, <2>5, <2>6, <2>7, <2>8
<1>7. CASE k = "index"
  <2>1. Len(Program(k)) = 11 /\ Program(k)[1] = "before" /\ Program(k)[2] = "fetch"
        /\ Program(k)[3] = "after" /\ Program(k)[4] = "text" /\ Program(k)[5] = "documents"
        /\ Program(k)[6] = "text" /\ Program(k)[7] = "confirm" /\ Program(k)[8] = "before"
        /\ Program(k)[9] = "fetch" /\ Program(k)[10] = "again" /\ Program(k)[11] = "index"
    BY <1>7, Programs
  <2>2. CASE n = 1 BY <1>7, <2>1, <2>2 DEF Looks
  <2>3. CASE n = 2 BY <1>7, <2>1, <2>3 DEF Looks
  <2>4. CASE n = 3 BY <1>7, <2>1, <2>4 DEF Looks
  <2>5. CASE n = 4 BY <1>7, <2>1, <2>5 DEF Looks
  <2>6. CASE n = 5 BY <1>7, <2>1, <2>6 DEF Looks
  <2>7. CASE n = 6 BY <1>7, <2>1, <2>7 DEF Looks
  <2>8. CASE n = 7 BY <1>7, <2>1, <2>8 DEF Looks
  <2>9. CASE n = 8 BY <1>7, <2>1, <2>9 DEF Looks
  <2>10. CASE n = 9 BY <1>7, <2>1, <2>10 DEF Looks
  <2>11. CASE n = 10 BY <1>7, <2>1, <2>11 DEF Looks
  <2>12. CASE n = 11 BY <1>7, <2>1, <2>12 DEF Looks
  <2> QED BY <2>1, <2>2, <2>3, <2>4, <2>5, <2>6, <2>7, <2>8, <2>9, <2>10, <2>11, <2>12
<1> QED BY <1>1, <1>2, <1>3, <1>4, <1>5, <1>6, <1>7 DEF Kinds

-----------------------------------------------------------------------------
(* Answers and the operations that follow.                                 *)

\* Each of the four is a scope, or was not read yet.
Fields(b, f, s, k) == {b, f, s, k} \subseteq Scope \cup {Nothing}

\* A scope is not nothing, and its fields make it.
LEMMA Scopes ==
  /\ Nothing.commit = 0 /\ Nothing \notin Scope
  /\ \A s \in Scope : s.id \in 1..(MaxChanges + 1) /\ s.commit \in 1..(MaxChanges + 1) /\ s.private \in BOOLEAN
  /\ \A s, t \in Scope : s.id = t.id /\ s.commit = t.commit /\ s.private = t.private => s = t
  /\ \A w \in World : /\ ScopeOf(w) \in Scope
                      /\ ScopeOf(w).id = w.id /\ ScopeOf(w).commit = w.commit /\ ScopeOf(w).private = w.private
  /\ \A i, c \in 1..(MaxChanges + 1), p \in BOOLEAN : [id |-> i, commit |-> c, private |-> p] \in Scope
<1>1. Nothing.commit = 0 BY DEF Nothing
<1>2. \A s \in Scope : s.id \in 1..(MaxChanges + 1) /\ s.commit \in 1..(MaxChanges + 1) /\ s.private \in BOOLEAN
  BY DEF Scope
<1>3. Nothing \notin Scope BY <1>1, <1>2
<1>4. \A s, t \in Scope : s.id = t.id /\ s.commit = t.commit /\ s.private = t.private => s = t
  BY DEF Scope
<1>5. \A w \in World : /\ ScopeOf(w) \in Scope
                       /\ ScopeOf(w).id = w.id /\ ScopeOf(w).commit = w.commit /\ ScopeOf(w).private = w.private
  BY DEF World, ScopeOf, Scope
<1>6. \A i, c \in 1..(MaxChanges + 1), p \in BOOLEAN : [id |-> i, commit |-> c, private |-> p] \in Scope
  BY DEF Scope
<1> QED BY <1>1, <1>2, <1>3, <1>4, <1>5, <1>6

\* Once a call is answered only what its answer says is left to show.
LEMMA Answered ==
  ASSUME ReadingInv, sub # "none",
         NEW o \in {"done", "conflict", "unavailable", "exists", "failed"}, Answer(o),
         UNCHANGED <<github, kind, wanted, via, meta, quiet>>, row' \in BOOLEAN,
         Fields(before', found', snap', kept'), before'.commit <= world.commit,
         source' \in 0..(MaxChanges + 1), since' \in {since, {world}},
         SnapshotIsConfirmed', TextIsConfirmed', RefusedForReason'
  PROVE  ReadingInv'
<1> USE DEF ReadingInv
<1>1. /\ sub' = "none" /\ outcome' = o /\ calls' = calls + 1 /\ at' = at
      /\ world' = world /\ changes' = changes /\ kind' = kind /\ wanted' = wanted
      /\ via' = via /\ meta' = meta /\ quiet' = quiet
  BY DEF Answer, github
<1>2. kind \in Kinds /\ calls < Returns BY DEF SubInv
<1>3. TypeOK'
  <2>1. calls' \in 0..Returns BY <1>1, <1>2, ReadingAssumption DEF TypeOK
  <2>2. since' \subseteq World BY DEF TypeOK
  <2>3. quiet' \in BOOLEAN BY <1>1 DEF TypeOK
  <2> QED BY <1>1, <2>1, <2>2, <2>3 DEF TypeOK, Fields
<1>4. WorldInv'
  <2>1. "none" \notin Kinds BY DEF Kinds
  <2>2. world \in since' /\ \A w \in since' : w.commit <= world.commit
    BY <1>2, <2>1 DEF WorldInv, TypeOK, World
  <2> QED BY <1>1, <2>2 DEF WorldInv
<1>5. SubInv' /\ StageInv' /\ LookInv' /\ QuietInv' BY <1>1 DEF SubInv, StageInv, LookInv, QuietInv
<1>6. BeforeInv' BY <1>1 DEF BeforeInv
<1> QED BY <1>3, <1>4, <1>5, <1>6

\* The call goes on with a later operation, on snapshot s; the list of documents is left out.
GoesOn(s) ==
  /\ at' \in {at + 1, at + 2} /\ at' \in 1..Len(Program(kind))
  /\ at' = at + 2 => Program(kind)[at + 1] = "documents"
  /\ outcome' = outcome /\ calls' = calls
  /\ sub' \in {"public", "private", "blob", "insert"}
  /\ sub' = "public" => Program(kind)[at'] \in Looks \cup {"fetch"}
  /\ sub' = "private" => Program(kind)[at'] \in {"text", "documents"} /\ s.private
  /\ sub' = "blob" => Program(kind)[at'] = "text"
  /\ sub' = "insert" => Program(kind)[at'] = "insert"

\* After an operation the call is answered, if that was the last, or goes on.
LEMMA Entered ==
  ASSUME TypeOK, SubInv, sub # "none", NEW s,
         at < Len(Program(kind)) /\ Program(kind)[at + 1] \in {"text", "documents"} => s.private \in BOOLEAN,
         Enter(at + 1, s)
  PROVE  \/ at = Len(Program(kind)) /\ Answer("done")
         \/ GoesOn(s)
<1> DEFINE m == IF at + 1 <= Len(Program(kind)) /\ Program(kind)[at + 1] = "documents" /\ ~s.private
                THEN at + 2 ELSE at + 1
<1>0. /\ kind \in Kinds /\ at \in 1..Len(Program(kind)) /\ at \in Nat /\ Len(Program(kind)) \in 1..11
  BY Operations DEF SubInv, TypeOK
<1>1. IF m > Len(Program(kind)) THEN Answer("done")
      ELSE at' = m /\ sub' = FirstRequest(Program(kind)[m], s) /\ UNCHANGED <<outcome, calls>>
  BY <1>0 DEF Enter
<1>2. CASE at = Len(Program(kind))
  <2>1. m > Len(Program(kind)) BY <1>0, <1>2
  <2> QED BY <1>1, <1>2, <2>1
<1>3. CASE at < Len(Program(kind))
  <2>1. /\ m \in {at + 1, at + 2} /\ m \in 1..Len(Program(kind))
        /\ m = at + 2 => Program(kind)[at + 1] = "documents" /\ Program(kind)[m] = "text"
        /\ m = at + 1 /\ Program(kind)[m] = "documents" => s.private
    <3>1. CASE Program(kind)[at + 1] = "documents" /\ ~s.private
      BY <1>0, <1>3, <3>1, Operations
    <3>2. CASE ~(Program(kind)[at + 1] = "documents" /\ ~s.private)
      BY <1>0, <1>3, <3>2
    <3> QED BY <3>1, <3>2
  <2> HIDE DEF m
  <2>2. /\ at' = m /\ sub' = FirstRequest(Program(kind)[m], s) /\ outcome' = outcome /\ calls' = calls
    BY <1>0, <1>1, <2>1
  <2>3. Program(kind)[m] \in Looks \cup {"fetch", "text", "documents", "insert"}
    BY <1>0, <2>1, Operations
  <2>4. CASE Program(kind)[m] \in Looks \cup {"fetch"}
    <3>1. sub' = "public" BY <2>2, <2>4 DEF FirstRequest, Looks
    <3> QED BY <2>1, <2>2, <2>4, <3>1 DEF GoesOn
  <2>5. CASE Program(kind)[m] = "text"
    <3>1. IF s.private THEN sub' = "private" ELSE sub' = "blob" BY <2>2, <2>5 DEF FirstRequest, Looks
    <3> QED BY <2>1, <2>2, <2>5, <3>1 DEF GoesOn
  <2>6. CASE Program(kind)[m] = "documents"
    <3>1. sub' = "private" BY <2>2, <2>6 DEF FirstRequest, Looks
    <3>2. s.private BY <2>1, <2>6
    <3> QED BY <2>1, <2>2, <2>6, <3>1, <3>2 DEF GoesOn
  <2>7. CASE Program(kind)[m] = "insert"
    <3>1. sub' = "insert" BY <2>2, <2>7 DEF FirstRequest, Looks
    <3> QED BY <2>1, <2>2, <2>7, <3>1 DEF GoesOn
  <2> QED BY <2>3, <2>4, <2>5, <2>6, <2>7
<1> QED BY <1>0, <1>2, <1>3

\* What an operation leaves for the ones after it.
Left ==
  /\ Fields(before', found', snap', kept') /\ before'.commit <= world.commit
  /\ kind \notin {"create", "list"} =>
       /\ before' \in Scope
       /\ at >= 2 => snap' \in Scope
       /\ at >= 3 => kept' \in Scope /\ (kind \in ForCommit => kept'.commit = wanted)
       /\ at >= 7 => source' # 0
       /\ at = 10 => before' = before /\ kept'.commit = before.commit
  /\ source' \in 0..(MaxChanges + 1) /\ (quiet => source' \in {0, world.id})
  /\ since' \in {since, {world}} /\ (Op = "fetch" => since' = {world})
  /\ quiet => {before', found', snap', kept'} \subseteq {Nothing, ScopeOf(world)}

\* The call goes on with an operation that finds what it needs.
LEMMA WentOn ==
  ASSUME ReadingInv, sub # "none", Enter(at + 1, snap'), Left,
         UNCHANGED <<github, row, kind, wanted, via, meta, quiet>>,
         at = Len(Program(kind)) => SnapshotIsConfirmed' /\ TextIsConfirmed' /\ RefusedForReason'
  PROVE  ReadingInv'
<1> USE DEF ReadingInv
<1>0. /\ kind \in Kinds /\ at \in 1..Len(Program(kind)) /\ at \in Nat /\ Len(Program(kind)) \in 1..11
      /\ world' = world /\ changes' = changes /\ row' = row /\ kind' = kind /\ wanted' = wanted
      /\ via' = via /\ meta' = meta /\ quiet' = quiet
  BY Operations DEF SubInv, TypeOK, github
<1>1. ASSUME at < Len(Program(kind)), Program(kind)[at + 1] \in {"text", "documents"}
      PROVE  snap' \in Scope /\ snap'.private \in BOOLEAN
  <2>1. at + 1 \in 4..6 /\ kind \notin {"create", "list"} BY <1>0, <1>1, Operations
  <2> QED BY <1>0, <2>1, Scopes DEF Left
<1>2. \/ at = Len(Program(kind)) /\ Answer("done")
      \/ GoesOn(snap')
  BY <1>1, Entered
<1>3. CASE at = Len(Program(kind)) /\ Answer("done")
  <2>1. row' \in BOOLEAN BY <1>0 DEF TypeOK
  <2> QED BY <1>3, <2>1, Answered DEF Left
<1>4. CASE GoesOn(snap')
  <2>0. /\ at' \in {at + 1, at + 2} /\ at' \in 1..Len(Program(kind))
        /\ at' = at + 2 => Program(kind)[at + 1] = "documents"
        /\ outcome' = outcome /\ calls' = calls
        /\ sub' \in {"public", "private", "blob", "insert"}
        /\ sub' = "public" => Program(kind)[at'] \in Looks \cup {"fetch"}
        /\ sub' = "private" => Program(kind)[at'] \in {"text", "documents"} /\ snap'.private
        /\ sub' = "blob" => Program(kind)[at'] = "text"
        /\ sub' = "insert" => Program(kind)[at'] = "insert"
    BY <1>4 DEF GoesOn
  <2>1. Op' = Program(kind)[at'] /\ outcome = "none" /\ calls < Returns
    BY <1>0 DEF Op, SubInv
  <2>2. SnapshotIsConfirmed' /\ TextIsConfirmed' /\ RefusedForReason'
    BY <2>0, <2>1 DEF SnapshotIsConfirmed, TextIsConfirmed, RefusedForReason
  <2>3. TypeOK'
    <3>1. since' \subseteq World BY DEF Left, TypeOK
    <3>2. quiet' \in BOOLEAN /\ row' \in BOOLEAN BY <1>0 DEF TypeOK
    <3> QED BY <1>0, <2>0, <3>1, <3>2 DEF TypeOK, Left, Fields
  <2>4. WorldInv'
    <3>1. "none" \notin Kinds BY DEF Kinds
    <3>2. world \in since' /\ \A w \in since' : w.commit <= world.commit
      BY <1>0, <3>1 DEF WorldInv, TypeOK, World, Left
    <3> QED BY <1>0, <3>2 DEF WorldInv
  <2>5. SubInv' BY <1>0, <2>0, <2>1 DEF SubInv
  <2>6. StageInv'
    <3> SUFFICES ASSUME kind \notin {"create", "list"} PROVE StageInv'
      BY <1>0 DEF StageInv
    <3>1. at' = at + 1 \/ at >= 3
      <4>1. CASE at' = at + 2
        <5>1. at + 1 \in 4..6 BY <1>0, <2>0, <4>1, Operations
        <5> QED BY <1>0, <5>1
      <4> QED BY <2>0, <4>1
    <3>2. before' \in Scope BY DEF Left
    <3>3. at' >= 3 => snap' \in Scope BY <1>0, <3>1 DEF Left
    <3>4. at' >= 4 => kept' \in Scope /\ (kind \in ForCommit => kept'.commit = wanted)
      BY <1>0, <3>1 DEF Left
    <3>5. at' >= 8 => source' # 0
      <4>1. at' = at + 2 => at + 1 \in 4..6 BY <1>0, <2>0, Operations
      <4> QED BY <1>0, <2>0, <4>1 DEF Left
    <3>6. at' = 11 => kept'.commit = before'.commit
      <4>1. at' = at + 2 => at + 1 \in 4..6 BY <1>0, <2>0, Operations
      <4> QED BY <1>0, <2>0, <4>1 DEF Left
    <3> QED BY <1>0, <2>0, <3>2, <3>3, <3>4, <3>5, <3>6 DEF StageInv
  <2>7. BeforeInv'
    <3>1. ASSUME Op' \in {"after", "again"} PROVE since' = {world}
      <4>1. at' \in {3, 10} BY <2>0, <1>0, <2>1, <3>1, Operations
      <4>2. at' = at + 1
        <5>1. at' = at + 2 => at + 1 \in 4..6 BY <1>0, <2>0, Operations
        <5> QED BY <1>0, <2>0, <4>1, <5>1
      <4>3. Op = "fetch" BY <1>0, <2>0, <2>1, <3>1, <4>1, <4>2, Operations DEF Op
      <4> QED BY <4>3 DEF Left
    <3>2. before'.commit <= world.commit BY DEF Left
    <3>3. ASSUME Op' = "index" PROVE \A w \in since' : before'.commit <= w.commit
      <4>1. at' = 11 /\ kind = "index" /\ Program(kind)[10] = "again"
        <5>1. at' \in 1..Len(Program(kind)) /\ Program(kind)[at'] = "index"
          BY <2>0, <2>1, <3>3
        <5>2. at' = 11 /\ kind = "index" BY <1>0, <5>1, Operations
        <5> QED BY <5>2, Programs
      <4>2. at' = at + 1
        <5>1. at' = at + 2 => at + 1 \in 4..6 BY <1>0, <2>0, Operations
        <5> QED BY <1>0, <2>0, <4>1, <5>1
      <4>3. at = 10 /\ Op = "again" BY <1>0, <4>1, <4>2 DEF Op
      <4>4. before' = before BY <4>1, <4>3 DEF Left
      <4>5. \A w \in since : before.commit <= w.commit BY <4>3 DEF BeforeInv
      <4> QED BY <3>2, <4>4, <4>5 DEF Left
    <3> QED BY <1>0, <3>1, <3>2, <3>3 DEF BeforeInv
  <2>8. LookInv' BY <2>0 DEF LookInv
  <2>9. QuietInv'
    <3> SUFFICES ASSUME quiet PROVE QuietInv'
      BY <1>0 DEF QuietInv
    <3>1. {before', found', snap', kept'} \subseteq {Nothing, ScopeOf(world)} BY DEF Left
    <3>2. sub' = "private" => world.private
      <4> SUFFICES ASSUME sub' = "private" PROVE world.private OBVIOUS
      <4>1. Program(kind)[at'] \in {"text", "documents"} /\ snap'.private BY <2>0
      <4>2. at' \in 4..6 /\ kind \notin {"create", "list"} BY <1>0, <2>0, <4>1, Operations
      <4>3. snap' \in Scope BY <1>0, <2>0, <4>2 DEF Left
      <4>4. snap' = ScopeOf(world) BY <3>1, <4>3, Scopes
      <4> QED BY <4>1, <4>4 DEF ScopeOf
    <3>3. ScopeOf(world)' = ScopeOf(world) BY <1>0 DEF ScopeOf
    <3>4. source' \in {0, world'.id} BY <1>0 DEF Left
    <3> QED BY <1>0, <2>0, <3>1, <3>2, <3>3, <3>4 DEF QuietInv
  <2> QED BY <2>2, <2>3, <2>4, <2>5, <2>6, <2>7, <2>8, <2>9
<1> QED BY <1>2, <1>3, <1>4

\* The operation goes on with another request.
LEMMA Asked ==
  ASSUME ReadingInv, sub # "none", sub' \in {"private", "commit", "tree", "blob"},
         UNCHANGED <<github, row, kind, at, wanted, before, snap, kept, source, outcome, calls, past>>,
         via' \in {"public", "private"}, meta' \in 0..(MaxChanges + 1), found' \in Scope \cup {Nothing},
         sub' \in {"private", "commit"} => Op \in Looks \cup {"fetch", "text", "documents"},
         sub' = "commit" => meta' # 0,
         sub' = "tree" => Op = "fetch" /\ found' \in Scope,
         sub' = "blob" => Op = "text",
         LookInv', QuietInv'
  PROVE  ReadingInv'
<1> USE DEF ReadingInv
<1>1. /\ world' = world /\ changes' = changes /\ row' = row /\ kind' = kind /\ at' = at /\ wanted' = wanted
      /\ before' = before /\ snap' = snap /\ kept' = kept /\ source' = source
      /\ outcome' = outcome /\ calls' = calls
      /\ since' = since /\ quiet' = quiet /\ Op' = Op
  BY DEF github, past, Op
<1>2. TypeOK'
  <2>1. quiet' \in BOOLEAN /\ row' \in BOOLEAN BY <1>1 DEF TypeOK
  <2> QED BY <1>1, <2>1 DEF TypeOK
<1>3. WorldInv' BY <1>1 DEF WorldInv
<1>4. SubInv' BY <1>1 DEF SubInv
<1>5. StageInv' BY <1>1 DEF StageInv
<1>6. BeforeInv' BY <1>1 DEF BeforeInv
<1>7. outcome = "none" BY DEF SubInv
<1>8. SnapshotIsConfirmed' /\ TextIsConfirmed' /\ RefusedForReason'
  BY <1>1, <1>7 DEF SnapshotIsConfirmed, TextIsConfirmed, RefusedForReason
<1> QED BY <1>2, <1>3, <1>4, <1>5, <1>6, <1>8

-----------------------------------------------------------------------------
(* The steps.                                                              *)

\* Nothing was asked yet.
LEMMA ReadingInit == Init => ReadingInv
<1> SUFFICES ASSUME Init PROVE ReadingInv
  OBVIOUS
<1> USE ReadingAssumption DEF Init
<1>1. TypeOK
  <2>1. row \in BOOLEAN /\ quiet \in BOOLEAN OBVIOUS
  <2> QED BY <2>1 DEF TypeOK, World
<1>2. WorldInv BY DEF WorldInv, World
<1>3. SubInv /\ StageInv /\ LookInv /\ QuietInv BY DEF SubInv, StageInv, LookInv, QuietInv
<1>4. BeforeInv BY DEF BeforeInv, Nothing, World
<1>5. SnapshotIsConfirmed /\ TextIsConfirmed /\ RefusedForReason
  BY DEF SnapshotIsConfirmed, TextIsConfirmed, RefusedForReason
<1> QED BY <1>1, <1>2, <1>3, <1>4, <1>5 DEF ReadingInv

\* The repository changes under the call.
LEMMA ChangeStep ==
  ASSUME ReadingInv, Change
  PROVE  ReadingInv'
<1> USE DEF ReadingInv
<1>1. /\ changes < MaxChanges /\ changes' = changes + 1 /\ since' = since \cup {world'} /\ quiet' = FALSE
      /\ row' = row /\ kind' = kind /\ wanted' = wanted /\ via' = via /\ meta' = meta
      /\ before' = before /\ found' = found /\ snap' = snap /\ kept' = kept /\ source' = source
      /\ at' = at /\ sub' = sub /\ outcome' = outcome /\ calls' = calls /\ Op' = Op
  BY DEF Change, local, Op
<1>2. /\ world' \in World /\ world'.commit >= world.commit
      /\ world'.id <= changes + 2 /\ world'.commit <= changes + 2
  <2>1. changes \in Nat /\ MaxChanges \in Nat BY ReadingAssumption DEF TypeOK
  <2>2. /\ world \in World /\ world.id \in Nat /\ world.commit \in Nat
        /\ world.id <= changes + 1 /\ world.commit <= changes + 1
    BY DEF TypeOK, WorldInv, World
  <2>3. CASE world' = [world EXCEPT !.commit = @ + 1]
    <3>1. world.commit + 1 \in 1..(MaxChanges + 1) BY <1>1, <2>1, <2>2 DEF World
    <3>2. /\ world'.id = world.id /\ world'.commit = world.commit + 1
      BY <2>2, <2>3 DEF World
    <3>3. world' \in World BY <2>2, <2>3, <3>1 DEF World
    <3> QED BY <1>1, <2>1, <2>2, <3>2, <3>3
  <2>4. CASE world' = [world EXCEPT !.id = @ + 1]
    <3>1. world.id + 1 \in 1..(MaxChanges + 1) BY <1>1, <2>1, <2>2 DEF World
    <3>2. world'.id = world.id + 1 /\ world'.commit = world.commit
      BY <2>2, <2>4 DEF World
    <3>3. world' \in World BY <2>2, <2>4, <3>1 DEF World
    <3> QED BY <1>1, <2>1, <2>2, <3>2, <3>3
  <2>5. CASE world' = [world EXCEPT !.private = ~@]
    <3>1. \A b \in BOOLEAN : LET w == [world EXCEPT !.private = b] IN
            w \in World /\ w.id = world.id /\ w.commit = world.commit
      BY <2>2 DEF World
    <3>2. (~world.private) \in BOOLEAN OBVIOUS
    <3>3. world' \in World /\ world'.id = world.id /\ world'.commit = world.commit BY <2>5, <3>1, <3>2, Zenon
    <3> QED BY <1>1, <2>1, <2>2, <3>3
  <2>6. CASE world' = [world EXCEPT !.access = ~@]
    <3>1. \A b \in BOOLEAN : LET w == [world EXCEPT !.access = b] IN
            w \in World /\ w.id = world.id /\ w.commit = world.commit
      BY <2>2 DEF World
    <3>2. (~world.access) \in BOOLEAN OBVIOUS
    <3>3. world' \in World /\ world'.id = world.id /\ world'.commit = world.commit BY <2>6, <3>1, <3>2, Zenon
    <3> QED BY <1>1, <2>1, <2>2, <3>3
  <2> QED BY <2>3, <2>4, <2>5, <2>6 DEF Change
<1>3. TypeOK'
  <2>1. row' \in BOOLEAN /\ quiet' \in BOOLEAN BY <1>1 DEF TypeOK
  <2>2. changes' \in 0..MaxChanges /\ since' \subseteq World BY <1>1, <1>2, ReadingAssumption DEF TypeOK
  <2> QED BY <1>1, <1>2, <2>1, <2>2 DEF TypeOK
<1>4. WorldInv'
  <2>1. \A w \in since : w.commit \in Nat BY DEF TypeOK, World
  <2>2. world.commit \in Nat /\ world'.commit \in Nat /\ wanted \in Nat BY <1>2 DEF TypeOK, World
  <2> QED BY <1>1, <1>2, <2>1, <2>2 DEF WorldInv, TypeOK
<1>5. SubInv' BY <1>1 DEF SubInv
<1>6. StageInv' BY <1>1 DEF StageInv
<1>7. BeforeInv'
  <2>1. before.commit \in Nat BY Scopes DEF TypeOK
  <2>2. world.commit \in Nat /\ world'.commit \in Nat BY <1>2 DEF TypeOK, World
  <2> QED BY <1>1, <1>2, <2>1, <2>2 DEF BeforeInv
<1>8. LookInv' BY <1>1 DEF LookInv, Reachable
<1>9. QuietInv' BY <1>1 DEF QuietInv
<1>10. SnapshotIsConfirmed' /\ TextIsConfirmed'
  <2>1. \A s : Was(s) => Was(s)' BY <1>1 DEF Was, ScopeOf, Reachable
  <2> QED BY <1>1, <2>1 DEF SnapshotIsConfirmed, TextIsConfirmed, Reachable
<1>11. RefusedForReason' BY <1>1 DEF RefusedForReason
<1> QED BY <1>3, <1>4, <1>5, <1>6, <1>7, <1>8, <1>9, <1>10, <1>11

\* A call begins with a look, a reading or a row.
LEMMA BeginStep ==
  ASSUME ReadingInv, NEW k \in Kinds, Begin(k)
  PROVE  ReadingInv'
<1> USE DEF ReadingInv
<1>1. /\ calls < Returns /\ kind' = k /\ at' = 1 /\ outcome' = "none" /\ via' = "public" /\ meta' = 0 /\ source' = 0
      /\ before' = Nothing /\ found' = Nothing /\ snap' = Nothing /\ kept' = Nothing
      /\ since' = {world} /\ quiet' = TRUE
      /\ world' = world /\ changes' = changes /\ row' = row /\ calls' = calls
  BY DEF Begin, github
<1>2. /\ 1 \in 1..Len(Program(k)) /\ Op' = Program(k)[1] /\ Program(k)[1] \in {"before", "fetch", "listed"}
      /\ Program(k)[1] \in Looks \cup {"fetch"}
  BY <1>1, Programs DEF Op, Kinds, Looks
<1>3. sub' = "public" BY <1>2 DEF Begin, FirstRequest
<1>4. wanted' \in 0..world.commit /\ world.commit \in 1..(MaxChanges + 1)
  BY DEF Begin, TypeOK, World
<1>5. TypeOK'
  <2>1. row' \in BOOLEAN /\ quiet' \in BOOLEAN BY <1>1 DEF TypeOK
  <2> QED BY <1>1, <1>3, <1>4, <2>1, ReadingAssumption DEF TypeOK
<1>6. WorldInv' BY <1>1, <1>4 DEF WorldInv, TypeOK, World
<1>7. SubInv' BY <1>1, <1>2, <1>3 DEF SubInv
<1>8. StageInv' BY <1>1, <1>3 DEF StageInv
<1>9. BeforeInv' BY <1>1, <1>2, <1>4, Scopes DEF BeforeInv
<1>10. LookInv' BY <1>3 DEF LookInv
<1>11. QuietInv' BY <1>1, <1>3 DEF QuietInv
<1>12. SnapshotIsConfirmed' /\ TextIsConfirmed' /\ RefusedForReason'
  BY <1>1 DEF SnapshotIsConfirmed, TextIsConfirmed, RefusedForReason
<1> QED BY <1>5, <1>6, <1>7, <1>8, <1>9, <1>10, <1>11, <1>12


\* The world as it is can be read by the reader of its visibility.
LEMMA Now ==
  ASSUME TypeOK, WorldInv, SubInv, sub # "none"
  PROVE  /\ world \in since /\ world \in World /\ ScopeOf(world) \in Scope
         /\ world.private \in BOOLEAN /\ world.access \in BOOLEAN
         /\ world.id \in 1..(MaxChanges + 1) /\ world.commit \in 1..(MaxChanges + 1)
         /\ kind \in Kinds /\ at \in 1..Len(Program(kind)) /\ at \in Nat /\ Len(Program(kind)) \in 1..11
<1>1. "none" \notin Kinds BY DEF Kinds
<1>2. world \in World /\ world \in since BY <1>1 DEF TypeOK, WorldInv, SubInv
<1>3. /\ world.private \in BOOLEAN /\ world.access \in BOOLEAN
      /\ world.id \in 1..(MaxChanges + 1) /\ world.commit \in 1..(MaxChanges + 1)
  BY <1>2 DEF World
<1>4. kind \in Kinds /\ at \in 1..Len(Program(kind)) /\ at \in Nat /\ Len(Program(kind)) \in 1..11
  BY Operations DEF SubInv, TypeOK
<1> QED BY <1>2, <1>3, <1>4, Scopes

\* The same of the operation the call is at.
LEMMA Here ==
  ASSUME TypeOK, SubInv, sub # "none"
  PROVE  /\ Op = "listed" => kind = "list"
         /\ Op = "before" => kind \notin {"create", "list"} /\ at < Len(Program(kind))
         /\ Op = "after" => kind \notin {"create", "list"} /\ at = 3 /\ (at = Len(Program(kind)) => kind = "files")
         /\ Op = "fetch" => at < Len(Program(kind)) /\ (kind \notin {"create", "list"} => at >= 2)
         /\ Op = "insert" => kind = "create"
         /\ Op = "again" => kind = "index" /\ at = 10 /\ at < Len(Program(kind))
         /\ Op = "index" => kind = "index" /\ at = 11
         /\ Op \in {"text", "documents"} =>
              kind \notin {"create", "list"} /\ at \in 4..6 /\ (at = Len(Program(kind)) => kind = "load")
         /\ Op = "documents" => at < Len(Program(kind))
         /\ Op = "confirm" =>
              /\ kind \in {"summary", "diagrams", "index"} /\ at \in {5, 7}
              /\ at = Len(Program(kind)) => kind \in {"summary", "diagrams"}
<1>1. kind \in Kinds /\ at \in 1..Len(Program(kind)) BY DEF SubInv, TypeOK
<1>2. Op = Program(kind)[at] BY DEF Op
<1> QED BY <1>1, <1>2, Operations

\* What is left of the id the material is indexed under, by an operation other than
\* the two that end in it.
LEMMA SourceLeft ==
  ASSUME TypeOK, SubInv, StageInv, QuietInv, sub # "none", source' = source
  PROVE  /\ source' \in 0..(MaxChanges + 1) /\ (quiet => source' \in {0, world.id})
         /\ Op \in {"before", "fetch", "after", "text", "documents"} =>
              /\ at # 10
              /\ kind \notin {"create", "list"} /\ at >= 7 => source' # 0
<1>1. kind \in Kinds /\ at \in 1..Len(Program(kind)) /\ at \in Nat BY DEF SubInv, TypeOK
<1>2. Op = Program(kind)[at] BY DEF Op
<1>3. source' \in 0..(MaxChanges + 1) /\ (quiet => source' \in {0, world.id}) BY DEF TypeOK, QuietInv
<1>4. Op \in {"before", "fetch", "after", "text", "documents"} => at # 10 /\ at # 7
  BY <1>1, <1>2, Operations
<1>5. kind \notin {"create", "list"} /\ at >= 8 => source' # 0 BY DEF StageInv
<1> QED BY <1>1, <1>3, <1>4, <1>5

\* What has to be shown of an answer that refuses or fails.
LEMMA Refused ==
  ASSUME ReadingInv, sub # "none",
         NEW o \in {"conflict", "unavailable", "failed"}, Answer(o),
         UNCHANGED <<github, row, kind, wanted, via, meta, before, found, snap, kept, past>>,
         source' \in {source, meta},
         o # "failed" /\ quiet => \/ ~Reachable(world)
                                  \/ kind \in ForCommit /\ wanted # world.commit
  PROVE  ReadingInv'
<1> USE DEF ReadingInv
<1>1. /\ world' = world /\ row' = row /\ kind' = kind /\ wanted' = wanted /\ outcome' = o
      /\ before' = before /\ found' = found /\ snap' = snap /\ kept' = kept
      /\ since' = since /\ quiet' = quiet
  BY DEF github, past, Answer
<1>2. SnapshotIsConfirmed' /\ TextIsConfirmed' BY <1>1 DEF SnapshotIsConfirmed, TextIsConfirmed
<1>3. RefusedForReason' BY <1>1 DEF RefusedForReason, Reachable
<1>4. row' \in BOOLEAN BY <1>1 DEF TypeOK
<1>5. Fields(before', found', snap', kept') BY <1>1 DEF Fields, TypeOK
<1>6. before'.commit <= world.commit BY <1>1 DEF BeforeInv
<1>7. UNCHANGED <<github, kind, wanted, via, meta, quiet>> BY <1>1
<1>8. source' \in 0..(MaxChanges + 1) BY DEF TypeOK
<1> QED BY <1>1, <1>2, <1>3, <1>4, <1>5, <1>6, <1>7, <1>8, Answered

\* The metadata, without a token.
LEMMA PublicStep ==
  ASSUME ReadingInv, ReadPublic
  PROVE  ReadingInv'
<1> USE DEF ReadingInv
<1>1. /\ sub = "public" /\ world' = world /\ Op' = Op /\ since' = since /\ quiet' = quiet
      /\ UNCHANGED <<github, row, kind, at, wanted, before, found, snap, kept, source, outcome, calls, past>>
  BY DEF ReadPublic, github, past, Op
<1>2. Op \in Looks \cup {"fetch"} /\ found \in Scope \cup {Nothing} /\ meta \in 0..(MaxChanges + 1)
      /\ via \in {"public", "private"}
  BY <1>1 DEF SubInv, TypeOK
<1>3. /\ world \in since /\ world.private \in BOOLEAN /\ world.id \in 1..(MaxChanges + 1)
      /\ MaxChanges \in Nat
  BY <1>1, Now, ReadingAssumption
<1>4. CASE world.private
  <2>1. sub' = "private" /\ via' = via /\ meta' = meta BY <1>4 DEF ReadPublic
  <2>2. LookInv' BY <2>1 DEF LookInv
  <2>3. QuietInv' BY <1>1, <1>4, <2>1 DEF QuietInv, ScopeOf
  <2> QED BY <1>1, <1>2, <2>1, <2>2, <2>3, Asked
<1>5. CASE ~world.private
  <2>1. sub' = "commit" /\ via' = "public" /\ meta' = world.id BY <1>5 DEF ReadPublic
  <2>2. Reachable(world) /\ world.private = (via' = "private") BY <1>3, <1>5, <2>1 DEF Reachable
  <2>3. LookInv' BY <1>1, <1>3, <2>1, <2>2 DEF LookInv, Reachable
  <2>4. QuietInv' BY <1>1, <2>1, <2>2 DEF QuietInv, ScopeOf
  <2> QED BY <1>1, <1>2, <1>3, <2>1, <2>3, <2>4, Asked
<1> QED BY <1>4, <1>5

\* The metadata, with the owner's token.
LEMMA PrivateStep ==
  ASSUME ReadingInv, ReadPrivate
  PROVE  ReadingInv'
<1> USE DEF ReadingInv
<1> DEFINE allowed == /\ world.access /\ world.private
                      /\ Op \in {"text", "documents"} => world.id = snap.id
<1>1. /\ sub = "private" /\ world' = world /\ Op' = Op /\ since' = since /\ quiet' = quiet
      /\ UNCHANGED <<github, row, kind, wanted, before, found, snap, kept, source, past>>
  BY DEF ReadPrivate, github, past, Op, Answer
<1>2. Op \in Looks \cup {"fetch", "text", "documents"} /\ found \in Scope \cup {Nothing}
  BY <1>1 DEF SubInv, TypeOK
<1>3. /\ world \in since /\ world \in World /\ world.private \in BOOLEAN /\ world.id \in 1..(MaxChanges + 1)
      /\ kind \in Kinds /\ at \in 1..Len(Program(kind)) /\ at \in Nat
      /\ MaxChanges \in Nat
  BY <1>1, Now, ReadingAssumption
<1>4. CASE allowed
  <2>1. /\ sub' = "commit" /\ via' = "private" /\ meta' = world.id
        /\ UNCHANGED <<at, outcome, calls>>
    BY <1>4 DEF ReadPrivate
  <2>2. Reachable(world) /\ world.private = (via' = "private") BY <1>3, <1>4, <2>1 DEF Reachable
  <2>3. LookInv' BY <1>1, <1>3, <2>1, <2>2 DEF LookInv, Reachable
  <2>4. QuietInv' BY <1>1, <2>1, <2>2 DEF QuietInv, ScopeOf
  <2> QED BY <1>1, <1>2, <1>3, <2>1, <2>3, <2>4, Asked
<1>5. CASE ~allowed
  <2>1. Answer("unavailable") /\ via' = via /\ meta' = meta BY <1>5 DEF ReadPrivate
  <2>2. ASSUME quiet PROVE ~Reachable(world)
    <3>1. world.private BY <1>1, <2>2 DEF QuietInv
    <3>2. ASSUME Op \in {"text", "documents"} PROVE world.id = snap.id
      <4>1. at \in 4..6 /\ kind \notin {"create", "list"} BY <1>3, <3>2, Operations DEF Op
      <4>2. snap \in Scope /\ snap \in {Nothing, ScopeOf(world)} BY <1>1, <2>2, <4>1 DEF StageInv, QuietInv
      <4> QED BY <1>3, <4>2, Scopes
    <3> QED BY <1>5, <3>1, <3>2 DEF Reachable
  <2> QED BY <1>1, <2>1, <2>2, Refused
<1> QED BY <1>4, <1>5

\* A reader that does not find the repository any more.
LEMMA NotFoundStep ==
  ASSUME ReadingInv, sub \in {"commit", "tree"}, NotFound, ~Readable(world, via),
         UNCHANGED <<github, row, kind, wanted, via, meta, before, found, snap, kept, past>>,
         source' = IF Op = "confirm" THEN meta ELSE source
  PROVE  ReadingInv'
<1> USE DEF ReadingInv
<1>1. /\ world' = world /\ since' = since /\ quiet' = quiet /\ via \in {"public", "private"}
      /\ before' = before /\ found' = found /\ snap' = snap /\ kept' = kept
      /\ via' = via /\ meta' = meta /\ meta \in 0..(MaxChanges + 1) /\ found \in Scope \cup {Nothing}
  BY DEF github, past, TypeOK
<1>2. world.private \in BOOLEAN BY Now
<1>3. CASE Op = "fetch" /\ via = "public"
  <2>1. sub' = "private" /\ source' = source /\ UNCHANGED <<at, outcome, calls>>
    BY <1>3 DEF NotFound
  <2>2. world.private BY <1>3 DEF Readable
  <2>3. LookInv' BY <2>1 DEF LookInv
  <2>4. QuietInv' BY <1>1, <2>1, <2>2 DEF QuietInv, ScopeOf
  <2> QED BY <1>1, <1>3, <2>1, <2>3, <2>4, Asked
<1>4. CASE ~(Op = "fetch" /\ via = "public")
  <2>1. Answer("unavailable") BY <1>4 DEF NotFound
  <2>2. quiet => (via = "private") = world.private BY DEF QuietInv
  <2>3. quiet => ~Reachable(world)
    <3>1. CASE via = "public" BY <1>2, <2>2, <3>1 DEF Readable, Reachable
    <3>2. CASE via = "private" BY <1>2, <2>2, <3>2 DEF Readable, Reachable
    <3> QED BY <1>1, <3>1, <3>2
  <2> QED BY <1>1, <2>1, <2>3, Refused
<1> QED BY <1>3, <1>4


\* What a look reads: of a head that can be read.
LEMMA Seen ==
  ASSUME ReadingInv, sub = "commit", Readable(world, via)
  PROVE  LET read == [id |-> meta, commit |-> world.commit, private |-> via = "private"] IN
         /\ read \in Scope /\ read.id = meta /\ read.commit = world.commit
         /\ read.private = (via = "private")
         /\ Reachable(world)
         /\ quiet => read = ScopeOf(world)
<1> DEFINE read == [id |-> meta, commit |-> world.commit, private |-> via = "private"]
<1> USE DEF ReadingInv
<1>1. meta \in 1..(MaxChanges + 1) BY ReadingAssumption DEF TypeOK, SubInv
<1>2. (via = "private") \in BOOLEAN OBVIOUS
<1>3. world.commit \in 1..(MaxChanges + 1) /\ ScopeOf(world) \in Scope /\ world \in World BY Now
<1>4. read \in Scope BY <1>1, <1>2, <1>3, Scopes
<1>5. read.id = meta /\ read.commit = world.commit /\ read.private = (via = "private") OBVIOUS
<1>6. Reachable(world) BY DEF Readable, Reachable
<1>7. ASSUME quiet PROVE read = ScopeOf(world)
  <2>1. meta = world.id /\ (via = "private") = world.private BY <1>7 DEF QuietInv
  <2> QED BY <2>1 DEF ScopeOf
<1> QED BY <1>4, <1>5, <1>6, <1>7

\* A scope that is read, of a commit that was the head before, was there at an instant
\* after the tree was read.
LEMMA Observed ==
  ASSUME ReadingInv, sub = "commit", Op \in {"after", "again", "index"}, before.commit = world.commit
  PROVE  Was([id |-> meta, commit |-> world.commit, private |-> via = "private"])
<1> DEFINE read == [id |-> meta, commit |-> world.commit, private |-> via = "private"]
<1> USE DEF ReadingInv
<1>1. PICK w \in since : Reachable(w) /\ w.id = meta /\ w.private = (via = "private")
  BY DEF LookInv
<1>2. before.commit <= w.commit /\ w.commit <= world.commit BY <1>1 DEF BeforeInv, WorldInv
<1>3. w \in World /\ w.commit \in Nat /\ world.commit \in Nat BY <1>1 DEF TypeOK, World
<1>4. w.commit = world.commit BY <1>2, <1>3
<1>5. read = ScopeOf(w) BY <1>1, <1>4 DEF ScopeOf
<1> QED BY <1>1, <1>5 DEF Was

\* The scope that a look agrees with was there after the tree was read.
LEMMA Agreed ==
  ASSUME ReadingInv, sub = "commit", Op \in {"after", "again"},
         Agree([id |-> meta, commit |-> world.commit, private |-> via = "private"])
  PROVE  Was(snap)
<1> DEFINE read == [id |-> meta, commit |-> world.commit, private |-> via = "private"]
<1> USE DEF ReadingInv
<1>1. /\ snap.id = before.id /\ snap.commit = before.commit /\ snap.private = before.private
      /\ before = read
  BY DEF Agree
<1>2. before.commit = world.commit BY <1>1
<1>3. Was(read) BY <1>2, Observed
<1>4. snap \in Scope /\ before \in Scope
  <2>1. kind \notin {"create", "list"} /\ at >= 3 BY Now, Operations DEF Op
  <2> QED BY <2>1, Now DEF StageInv
<1>5. snap = read BY <1>1, <1>4, Scopes
<1> QED BY <1>3, <1>5

\* The head, for each operation that asks for it.
LEMMA CommitStep ==
  ASSUME ReadingInv, ReadCommit
  PROVE  ReadingInv'
<1> USE DEF ReadingInv
<1> DEFINE read == [id |-> meta, commit |-> world.commit, private |-> via = "private"]
<1>1. /\ sub = "commit" /\ world' = world /\ row' = row /\ kind' = kind /\ wanted' = wanted
      /\ via' = via /\ meta' = meta /\ snap' = snap /\ since' = since /\ quiet' = quiet
      /\ source' = IF Op = "confirm" THEN meta ELSE source
      /\ UNCHANGED <<github, row, kind, wanted, via, meta, snap, past>>
  BY DEF ReadCommit, github, past
<1>2. /\ world \in since /\ world.commit \in 1..(MaxChanges + 1)
      /\ kind \in Kinds /\ at \in 1..Len(Program(kind)) /\ at \in Nat /\ Len(Program(kind)) \in 1..11
      /\ ScopeOf(world) \in Scope
  BY <1>1, Now
<1>3. CASE ~Readable(world, via)
  <2>1. NotFound /\ UNCHANGED <<before, found, kept>> BY <1>3, <1>1 DEF ReadCommit
  <2> QED BY <1>1, <1>3, <2>1, NotFoundStep
<1>4. CASE Readable(world, via)
  <2>1. /\ read \in Scope /\ read.id = meta /\ read.commit = world.commit
        /\ Reachable(world)
        /\ quiet => read = ScopeOf(world)
    BY <1>1, <1>4, Seen
  <2>2. Op \in Looks \cup {"fetch", "text", "documents"} BY <1>1 DEF SubInv
  <2>3. Op = Program(kind)[at] BY DEF Op
  <2>4. /\ kind \notin {"create", "list"} /\ at >= 2 => before \in Scope
        /\ kind \notin {"create", "list"} /\ at >= 3 => snap \in Scope
        /\ kind \notin {"create", "list"} /\ at >= 4 => kept \in Scope /\ (kind \in ForCommit => kept.commit = wanted)
        /\ kind \notin {"create", "list"} /\ at >= 8 => source # 0
        /\ kind \notin {"create", "list"} /\ at = 11 => kept.commit = before.commit
    BY <1>1 DEF StageInv
  <2>5. quiet => {before, found, snap, kept} \subseteq {Nothing, ScopeOf(world)} BY <1>1 DEF QuietInv
  <2>6. {before, found, snap, kept} \subseteq Scope \cup {Nothing} BY DEF TypeOK
  <2>7. before.commit <= world.commit BY DEF BeforeInv
  <2>8. outcome = "none" BY <1>1 DEF SubInv
  <2>9. \A s \in {Nothing, ScopeOf(world)} : s \in Scope => s = ScopeOf(world) BY Scopes
  <2>17. /\ source' \in {source, meta} /\ source' \in 0..(MaxChanges + 1)
         /\ quiet => source' \in {0, world.id}
    BY <1>1 DEF TypeOK, QuietInv
  <2> HIDE DEF read
  <2>10. CASE Op = "fetch"
    <3>1. sub' = "tree" /\ found' = read /\ UNCHANGED <<at, outcome, calls, before, kept>>
      BY <1>1, <1>4, <2>10 DEF ReadCommit, read, Looks
    <3>2. LookInv' BY <3>1 DEF LookInv
    <3>3. QuietInv' BY <1>1, <2>1, <2>5, <3>1 DEF QuietInv, ScopeOf
    <3>4. via' \in {"public", "private"} /\ meta' \in 0..(MaxChanges + 1) BY <1>1 DEF TypeOK
    <3> QED BY <1>1, <2>1, <2>10, <3>1, <3>2, <3>3, <3>4, Asked
  <2>11. CASE Op = "before"
    <3>1. before' = read /\ Enter(at + 1, snap) /\ found' = found /\ kept' = kept
      BY <1>1, <1>4, <2>11 DEF ReadCommit, read
    <3>2. kind \notin {"create", "list"} /\ at < Len(Program(kind)) BY <1>1, <2>11, Here
    <3>3. before' \in Scope /\ before'.commit <= world.commit /\ (quiet => before' = ScopeOf(world))
      BY <1>2, <2>1, <3>1, ReadingAssumption
    <3>4. Fields(before', found', snap', kept') BY <1>1, <2>6, <3>1, <3>3 DEF Fields
    <3>5. at >= 3 => kept' \in Scope /\ (kind \in ForCommit => kept'.commit = wanted)
      <4>1. at # 3 BY <1>2, <2>11, Operations DEF Op
      <4> QED BY <1>2, <2>4, <3>1, <3>2, <4>1
    <3>6. at >= 2 => snap' \in Scope
      <4>1. at \in {1, 8} BY <1>2, <2>11, Operations DEF Op
      <4> QED BY <1>1, <2>4, <3>2, <4>1
    <3>7. quiet => {before', found', snap', kept'} \subseteq {Nothing, ScopeOf(world)}
      BY <1>1, <2>5, <3>1, <3>3
    <3>8. Left
      <4>1. source' = source BY <1>1, <2>11
      <4>2. /\ at # 10 /\ (at >= 7 => source' # 0)
            /\ source' \in 0..(MaxChanges + 1) /\ (quiet => source' \in {0, world.id})
        BY <1>1, <2>11, <3>2, <4>1, SourceLeft
      <4> QED BY <1>1, <2>11, <3>2, <3>3, <3>4, <3>5, <3>6, <3>7, <4>2 DEF Left
    <3> QED BY <1>1, <1>2, <3>1, <3>2, <3>8, WentOn
  <2>12. CASE Op = "listed"
    <3>1. Answer("done") /\ before' = before /\ found' = found /\ kept' = kept
      BY <1>1, <1>4, <2>12 DEF ReadCommit
    <3>2. kind = "list" /\ outcome' = "done" BY <1>1, <2>12, <3>1, Here DEF Answer
    <3>3. SnapshotIsConfirmed' /\ TextIsConfirmed' /\ RefusedForReason'
      BY <1>1, <3>2 DEF SnapshotIsConfirmed, TextIsConfirmed, RefusedForReason
    <3>4. Fields(before', found', snap', kept') /\ before'.commit <= world.commit /\ row' \in BOOLEAN
      BY <1>1, <2>6, <2>7, <3>1 DEF Fields, TypeOK
    <3> QED BY <1>1, <2>17, <3>1, <3>3, <3>4, Answered
  <2>13. CASE Op = "after"
    <3>1. /\ before' = before /\ found' = found
          /\ IF Agree(read) /\ (kind \in ForCommit => snap.commit = wanted)
             THEN Enter(at + 1, snap) /\ kept' = snap
             ELSE Answer("conflict") /\ UNCHANGED kept
      BY <1>1, <1>4, <2>13 DEF ReadCommit, read
    <3>2. /\ kind \notin {"create", "list"} /\ at = 3 /\ (at = Len(Program(kind)) => kind = "files")
      BY <1>1, <2>13, Here
    <3>3. before \in Scope /\ snap \in Scope BY <2>4, <3>2
    <3>4. CASE Agree(read) /\ (kind \in ForCommit => snap.commit = wanted)
      <4>1. Enter(at + 1, snap) /\ kept' = snap BY <3>1, <3>4
      <4>2. Left BY <1>1, <1>2, <2>5, <2>6, <2>7, <2>13, <2>17, <3>1, <3>2, <3>3, <3>4, <4>1 DEF Left, Fields
      <4>3. ASSUME at = Len(Program(kind)) PROVE SnapshotIsConfirmed' /\ TextIsConfirmed' /\ RefusedForReason'
        <5>1. Was(snap) BY <1>1, <2>13, <3>4, Agreed DEF read
        <5>2. Was(snap)' BY <1>1, <5>1 DEF Was, ScopeOf, Reachable
        <5>3. kind' = "files" BY <1>1, <3>2, <4>3
        <5>4. \/ at = Len(Program(kind)) /\ Answer("done")
              \/ GoesOn(snap)
          BY <1>1, <1>2, <3>3, <4>1, <4>3, Entered
        <5>5. outcome' = "done" BY <1>2, <4>3, <5>4 DEF Answer, GoesOn
        <5> QED BY <5>2, <5>3, <5>5 DEF SnapshotIsConfirmed, TextIsConfirmed, RefusedForReason
      <4> QED BY <1>1, <4>1, <4>2, <4>3, WentOn
    <3>5. CASE ~(Agree(read) /\ (kind \in ForCommit => snap.commit = wanted))
      <4>1. Answer("conflict") /\ kept' = kept BY <3>1, <3>5
      <4>2. ASSUME quiet PROVE kind \in ForCommit /\ wanted # world.commit
        <5>1. before = ScopeOf(world) /\ snap = ScopeOf(world) /\ read = ScopeOf(world)
          BY <2>1, <2>5, <2>9, <3>3, <4>2
        <5>2. Agree(read) BY <5>1 DEF Agree
        <5>3. snap.commit = world.commit BY <5>1 DEF ScopeOf
        <5> QED BY <3>5, <5>2, <5>3
      <4> QED BY <1>1, <3>1, <4>1, <4>2, Refused
    <3> QED BY <3>4, <3>5
  <2>14. CASE Op = "again"
    <3>1. /\ before' = before /\ found' = found /\ kept' = kept /\ source' = source
          /\ IF Agree(read) /\ Unchanged THEN Enter(at + 1, snap) ELSE Answer("conflict")
      BY <1>1, <1>4, <2>14 DEF ReadCommit, read
    <3>2. kind = "index" /\ at = 10 /\ at < Len(Program(kind)) BY <1>1, <2>14, Here
    <3>3. before \in Scope /\ snap \in Scope /\ kept \in Scope /\ kept.commit = wanted /\ source # 0
      BY <2>4, <3>2 DEF ForCommit
    <3>4. CASE Agree(read) /\ Unchanged
      <4>1. Enter(at + 1, snap) BY <3>1, <3>4
      <4>2. kept.commit = before.commit BY <3>4 DEF Agree, Unchanged
      <4>4. Fields(before', found', snap', kept') /\ before'.commit <= world.commit
        BY <1>1, <2>6, <2>7, <3>1 DEF Fields
      <4>5. quiet => {before', found', snap', kept'} \subseteq {Nothing, ScopeOf(world)}
        BY <1>1, <2>5, <3>1
      <4>6. /\ before' \in Scope /\ snap' \in Scope /\ kept' \in Scope /\ kept'.commit = wanted
            /\ source' # 0 /\ before' = before /\ kept'.commit = before.commit
        BY <1>1, <3>1, <3>3, <4>2
      <4>3. Left
        <5>1. since' = since /\ Op # "fetch" BY <1>1, <2>14
        <5>2. at = 10 /\ kind = "index" BY <3>2
        <5> QED BY <2>17, <4>4, <4>5, <4>6, <5>1, <5>2 DEF Left
      <4>8. at # Len(Program(kind)) BY <3>2, Programs
      <4>7. Enter(at + 1, snap') BY <1>1, <4>1
      <4> QED BY <1>1, <4>3, <4>7, <4>8, WentOn
    <3>5. CASE ~(Agree(read) /\ Unchanged)
      <4>1. Answer("conflict") BY <3>1, <3>5
      <4>2. ASSUME quiet PROVE FALSE
        <5>1. before = ScopeOf(world) /\ snap = ScopeOf(world) /\ read = ScopeOf(world) /\ kept = ScopeOf(world)
          BY <2>1, <2>5, <2>9, <3>3, <4>2
        <5>2. Agree(read) /\ Unchanged BY <5>1 DEF Agree, Unchanged
        <5> QED BY <3>5, <5>2
      <4> QED BY <1>1, <2>17, <3>1, <4>1, <4>2, Refused
    <3> QED BY <3>4, <3>5
  <2>18. CASE Op = "index"
    <3>1. /\ before' = before /\ found' = found /\ source' = source
          /\ \/ /\ Taken(read) /\ Answer("done")
                /\ kept' = [kept EXCEPT !.id = source, !.private = read.private]
             \/ /\ ~Taken(read) \/ read.private # kept.private
                /\ Answer("conflict") /\ kept' = kept
      BY <1>1, <1>4, <2>18 DEF ReadCommit, read
    <3>2. kind = "index" /\ at = 11 BY <1>1, <2>18, Here
    <3>3. /\ before \in Scope /\ kept \in Scope /\ kept.commit = wanted /\ source # 0
          /\ kept.commit = before.commit
      BY <2>4, <3>2 DEF ForCommit
    <3>4. CASE /\ Taken(read) /\ Answer("done")
               /\ kept' = [kept EXCEPT !.id = source, !.private = read.private]
      <4>1. read.id = source /\ read.commit = kept.commit BY <3>4 DEF Taken
      <4>2. read.private \in BOOLEAN /\ source \in 1..(MaxChanges + 1)
        BY <2>1, <4>1, Scopes
      <4>3. kept' \in Scope /\ kept'.id = source /\ kept'.commit = kept.commit /\ kept'.private = read.private
        BY <3>3, <3>4, <4>2 DEF Scope
      <4>4. kept' = read BY <2>1, <4>1, <4>3, Scopes
      <4>5. Was(read) BY <1>1, <2>1, <2>18, <3>3, <4>1, Observed DEF read
      <4>6. Was(kept)' BY <1>1, <4>4, <4>5 DEF Was, ScopeOf, Reachable
      <4>7. SnapshotIsConfirmed' /\ TextIsConfirmed' /\ RefusedForReason'
        BY <1>1, <3>2, <3>3, <3>4, <4>3, <4>6
        DEF SnapshotIsConfirmed, TextIsConfirmed, RefusedForReason, Answer
      <4>8. Fields(before', found', snap', kept') /\ before'.commit <= world.commit /\ row' \in BOOLEAN
        BY <1>1, <2>6, <2>7, <3>1, <4>3 DEF Fields, TypeOK
      <4> QED BY <1>1, <2>17, <3>4, <4>7, <4>8, Answered
    <3>5. CASE /\ ~Taken(read) \/ read.private # kept.private
               /\ Answer("conflict") /\ kept' = kept
      <4>1. ASSUME quiet PROVE FALSE
        <5>1. read = ScopeOf(world) /\ kept = ScopeOf(world) BY <2>1, <2>5, <2>9, <3>3, <4>1
        <5>2. source = world.id BY <1>1, <3>3, <4>1 DEF QuietInv
        <5>3. read.id = world.id BY <5>1 DEF ScopeOf
        <5> QED BY <3>5, <5>1, <5>2, <5>3 DEF Taken
      <4> QED BY <1>1, <2>17, <3>1, <3>5, <4>1, Refused
    <3> QED BY <3>1, <3>4, <3>5
  <2>15. CASE Op = "confirm"
    <3>1. /\ before' = before /\ found' = found /\ kept' = kept
          /\ IF read.commit = snap.commit THEN Enter(at + 1, snap) ELSE Answer("conflict")
      BY <1>1, <1>4, <2>15 DEF ReadCommit, read
    <3>2. /\ kind \notin {"create", "list", "files"} /\ at \in {5, 7}
          /\ at = Len(Program(kind)) => kind \in {"summary", "diagrams"}
      BY <1>1, <2>15, Here
    <3>3. before \in Scope /\ snap \in Scope /\ kept \in Scope /\ (kind \in ForCommit => kept.commit = wanted)
      BY <2>4, <3>2
    <3>4. CASE read.commit = snap.commit
      <4>1. Enter(at + 1, snap) BY <3>1, <3>4
      <4>2. Left
        <5>1. source' = meta /\ meta # 0 BY <1>1, <2>15 DEF SubInv
        <5> QED BY <1>1, <2>5, <2>6, <2>7, <2>15, <2>17, <3>1, <3>2, <3>3, <5>1 DEF Left, Fields
      <4>3. ASSUME at = Len(Program(kind)) PROVE SnapshotIsConfirmed' /\ TextIsConfirmed' /\ RefusedForReason'
        <5>1. kind' \in {"summary", "diagrams"} BY <1>1, <3>2, <4>3
        <5>2. \E w \in since' : Reachable(w)' /\ w.commit = snap'.commit
          BY <1>1, <1>2, <2>1, <3>4 DEF Reachable
        <5>3. \/ at = Len(Program(kind)) /\ Answer("done")
              \/ GoesOn(snap)
          BY <1>1, <1>2, <3>3, <4>1, <4>3, Entered
        <5>4. outcome' = "done" BY <1>2, <4>3, <5>3 DEF Answer, GoesOn
        <5> QED BY <5>1, <5>2, <5>4 DEF SnapshotIsConfirmed, TextIsConfirmed, RefusedForReason
      <4> QED BY <1>1, <4>1, <4>2, <4>3, WentOn
    <3>5. CASE read.commit # snap.commit
      <4>1. Answer("conflict") BY <3>1, <3>5
      <4>2. ASSUME quiet PROVE FALSE
        <5>1. snap = ScopeOf(world) /\ read = ScopeOf(world) BY <2>1, <2>5, <2>9, <3>3, <4>2
        <5> QED BY <3>5, <5>1
      <4> QED BY <1>1, <3>1, <4>1, <4>2, Refused
    <3> QED BY <3>4, <3>5
  <2>16. CASE Op \in {"text", "documents"}
    <3>1. kind \notin {"create", "list"} /\ at \in 4..6 BY <1>1, <2>16, Here
    <3>2. before \in Scope /\ snap \in Scope /\ kept \in Scope /\ (kind \in ForCommit => kept.commit = wanted)
      BY <2>4, <3>1
    <3>3. before' = before /\ found' = found /\ kept' = kept
      BY <1>1, <1>4, <2>16 DEF ReadCommit
    <3>4. CASE ~Current(read)
      <4>1. Answer("unavailable") BY <1>1, <1>4, <2>16, <3>4 DEF ReadCommit, read
      <4>2. ASSUME quiet PROVE FALSE
        <5>1. snap = ScopeOf(world) /\ read = ScopeOf(world) BY <2>1, <2>5, <2>9, <3>2, <4>2
        <5> QED BY <3>4, <5>1 DEF Current
      <4> QED BY <1>1, <3>3, <4>1, <4>2, Refused
    <3>5. CASE Current(read) /\ Op = "text"
      <4>1. sub' = "blob" /\ UNCHANGED <<at, outcome, calls>>
        BY <1>1, <1>4, <3>5 DEF ReadCommit, read
      <4>2. LookInv' BY <4>1 DEF LookInv
      <4>3. QuietInv' BY <1>1, <2>5, <3>3, <4>1 DEF QuietInv, ScopeOf
      <4>4. via' \in {"public", "private"} /\ meta' \in 0..(MaxChanges + 1) /\ found' \in Scope \cup {Nothing}
        BY <1>1, <2>6, <3>3 DEF TypeOK
      <4> QED BY <1>1, <3>3, <3>5, <4>1, <4>2, <4>3, <4>4, Asked
    <3>6. CASE Current(read) /\ Op = "documents"
      <4>1. Enter(at + 1, snap) BY <1>1, <1>4, <3>6 DEF ReadCommit, read
      <4>2. Left BY <1>1, <2>5, <2>6, <2>7, <2>17, <3>1, <3>2, <3>3, <3>6 DEF Left, Fields
      <4>3. at < Len(Program(kind)) BY <1>1, <3>6, Here
      <4> QED BY <1>1, <1>2, <4>1, <4>2, <4>3, WentOn
    <3> QED BY <2>16, <3>4, <3>5, <3>6
  <2> QED BY <2>2, <2>10, <2>11, <2>12, <2>13, <2>14, <2>15, <2>16, <2>18 DEF Looks
<1> QED BY <1>3, <1>4


\* The tree of the head that was read, and the selection from it.
LEMMA TreeStep ==
  ASSUME ReadingInv, sub = "tree", Readable(world, via), TreeRead,
         UNCHANGED <<github, row, kind, wanted, via, meta, before, found, kept, source>>
  PROVE  ReadingInv'
<1> USE DEF ReadingInv
<1>1. /\ snap' = found /\ since' = {world} /\ quiet' = quiet /\ Enter(at + 1, snap')
      /\ before' = before /\ found' = found /\ kept' = kept /\ source' = source
  BY DEF TreeRead
<1>2. Op = "fetch" BY DEF SubInv
<1>3. at < Len(Program(kind)) /\ (kind \notin {"create", "list"} => at >= 2 /\ found \in Scope)
  BY <1>2, Here DEF StageInv
<1>4. /\ kind \notin {"create", "list"} => before \in Scope
      /\ kind \notin {"create", "list"} /\ at >= 4 => kept \in Scope /\ (kind \in ForCommit => kept.commit = wanted)
  BY <1>3 DEF StageInv
<1>5. kind \notin {"create", "list"} => at # 3 BY <1>2, Now, Operations DEF Op
<1>6. Fields(before', found', snap', kept') /\ before'.commit <= world.commit
  BY <1>1 DEF Fields, TypeOK, BeforeInv
<1>7. quiet => {before', found', snap', kept'} \subseteq {Nothing, ScopeOf(world)}
  BY <1>1 DEF QuietInv
<1>8. at \in Nat BY DEF TypeOK
<1>12. /\ source' \in 0..(MaxChanges + 1) /\ (quiet => source' \in {0, world.id})
       /\ at # 10 /\ (kind \notin {"create", "list"} /\ at >= 7 => source' # 0)
  BY <1>1, <1>2, SourceLeft
<1>9. Left BY <1>1, <1>2, <1>3, <1>4, <1>5, <1>6, <1>7, <1>8, <1>12 DEF Left
<1>10. at # Len(Program(kind)) BY <1>3, Now
<1>11. UNCHANGED <<github, row, kind, wanted, via, meta, quiet>> BY <1>1
<1> QED BY <1>1, <1>9, <1>10, <1>11, WentOn

\* The tree is there for the reader, or is not.
LEMMA TreesStep ==
  ASSUME ReadingInv, ReadPublicTree \/ ReadPrivateTree
  PROVE  ReadingInv'
<1>1. /\ sub = "tree"
      /\ IF Readable(world, via) THEN TreeRead ELSE NotFound /\ UNCHANGED <<snap, past>>
      /\ UNCHANGED <<github, row, kind, wanted, via, meta, before, found, kept, source>>
  BY DEF ReadPublicTree, ReadPrivateTree
<1>2. CASE Readable(world, via) BY <1>1, <1>2, TreeStep
<1>3. CASE ~Readable(world, via)
  <2>1. Op = "fetch" BY <1>1 DEF ReadingInv, SubInv
  <2> QED BY <1>1, <1>3, <2>1, NotFoundStep
<1> QED BY <1>2, <1>3

\* A text, whatever the head is by now.
LEMMA BlobStep ==
  ASSUME ReadingInv, ReadBlob
  PROVE  ReadingInv'
<1> USE DEF ReadingInv
<1>1. /\ sub = "blob" /\ world' = world /\ row' = row /\ kind' = kind /\ wanted' = wanted
      /\ via' = via /\ meta' = meta /\ quiet' = quiet
      /\ before' = before /\ found' = found /\ snap' = snap /\ kept' = kept
      /\ source' = source
      /\ UNCHANGED <<github, row, kind, wanted, via, meta, before, found, snap, kept, quiet>>
  BY DEF ReadBlob, github, local, past, Answer
<1>2. Op = "text" BY <1>1 DEF SubInv
<1>3. /\ kind \notin {"create", "list"} /\ at \in 4..6 /\ (at = Len(Program(kind)) => kind = "load")
  BY <1>1, <1>2, Here
<1>4. before \in Scope /\ snap \in Scope /\ kept \in Scope /\ (kind \in ForCommit => kept.commit = wanted)
  BY <1>1, <1>3 DEF StageInv
<1>5. CASE Readable(world, IF snap.private THEN "private" ELSE "public")
  <2>1. Enter(at + 1, snap') /\ since' = {world} BY <1>1, <1>5 DEF ReadBlob
  <2>2. Fields(before', found', snap', kept') /\ before'.commit <= world.commit
    BY <1>1 DEF Fields, TypeOK, BeforeInv
  <2>3. quiet => {before', found', snap', kept'} \subseteq {Nothing, ScopeOf(world)}
    BY <1>1 DEF QuietInv
  <2>6. source' \in 0..(MaxChanges + 1) /\ (quiet => source' \in {0, world.id})
    BY <1>1, SourceLeft
  <2>4. Left BY <1>1, <1>2, <1>3, <1>4, <2>1, <2>2, <2>3, <2>6 DEF Left
  <2>5. ASSUME at = Len(Program(kind)) PROVE SnapshotIsConfirmed' /\ TextIsConfirmed' /\ RefusedForReason'
    <3>1. kind' = "load" BY <1>1, <1>3, <2>5
    <3>2. \/ at = Len(Program(kind)) /\ Answer("done")
          \/ GoesOn(snap')
      BY <1>1, <1>4, <2>1, <2>5, Now, Entered
    <3>3. outcome' = "done" BY <2>5, <3>2, Now DEF Answer, GoesOn
    <3> QED BY <3>1, <3>3 DEF SnapshotIsConfirmed, TextIsConfirmed, RefusedForReason
  <2> QED BY <1>1, <2>1, <2>4, <2>5, WentOn
<1>6. CASE ~Readable(world, IF snap.private THEN "private" ELSE "public")
  <2>1. Answer("failed") /\ UNCHANGED past BY <1>1, <1>6 DEF ReadBlob
  <2> QED BY <1>1, <2>1, Refused
<1> QED BY <1>5, <1>6

\* The rows.
LEMMA InsertStep ==
  ASSUME ReadingInv, Insert
  PROVE  ReadingInv'
<1> USE DEF ReadingInv
<1> DEFINE o == IF row THEN "exists" ELSE "done"
<1>1. /\ sub = "insert" /\ Answer(o) /\ row' = TRUE /\ kind' = kind /\ world' = world
      /\ before' = before /\ found' = found /\ snap' = snap /\ kept' = kept /\ since' = since
      /\ UNCHANGED <<github, kind, wanted, via, meta, source, quiet>>
  BY DEF Insert, github, local, past
<1>2. kind = "create" BY <1>1, Here DEF SubInv
<1>3. SnapshotIsConfirmed' /\ TextIsConfirmed' /\ RefusedForReason'
  BY <1>1, <1>2 DEF SnapshotIsConfirmed, TextIsConfirmed, RefusedForReason, Answer, ForCommit
<1>4. Fields(before', found', snap', kept') /\ before'.commit <= world.commit
  BY <1>1 DEF Fields, TypeOK, BeforeInv
<1>5. o \in {"done", "conflict", "unavailable", "exists", "failed"} OBVIOUS
<1> HIDE DEF o
<1>6. source' \in 0..(MaxChanges + 1) BY <1>1 DEF TypeOK
<1> QED BY <1>1, <1>3, <1>4, <1>5, <1>6, Answered

\* Any request may fail.
LEMMA FailsStep ==
  ASSUME ReadingInv, Fails
  PROVE  ReadingInv'
<1>1. /\ sub # "none" /\ Answer("failed") /\ source' = source
      /\ UNCHANGED <<github, row, kind, wanted, via, meta, before, found, snap, kept, past>>
  BY DEF Fails, local
<1> QED BY <1>1, Refused

-----------------------------------------------------------------------------
(* Theorems.                                                               *)

\* The invariant, whatever happens to the repository between two requests.
THEOREM Invariance == Spec => []ReadingInv
<1>1. Init => ReadingInv BY ReadingInit
<1>2. ReadingInv /\ [Next]_vars => ReadingInv'
  <2> SUFFICES ASSUME ReadingInv, [Next]_vars PROVE ReadingInv'
    OBVIOUS
  <2>1. CASE Change BY <2>1, ChangeStep
  <2>2. CASE ReadPublic BY <2>2, PublicStep
  <2>3. CASE ReadPrivate BY <2>3, PrivateStep
  <2>4. CASE ReadCommit BY <2>4, CommitStep
  <2>5. CASE ReadPublicTree \/ ReadPrivateTree BY <2>5, TreesStep
  <2>6. CASE ReadBlob BY <2>6, BlobStep
  <2>7. CASE Insert BY <2>7, InsertStep
  <2>8. CASE Fails BY <2>8, FailsStep
  <2>9. ASSUME NEW k \in Kinds, Begin(k) PROVE ReadingInv' BY <2>9, BeginStep
  <2>10. CASE UNCHANGED vars
    <3> USE <2>10 DEF vars, github, local, past, ReadingInv
    <3>1. TypeOK' BY DEF TypeOK
    <3>2. WorldInv' BY DEF WorldInv
    <3>3. SubInv' /\ StageInv' BY DEF SubInv, StageInv, Op
    <3>4. BeforeInv' BY DEF BeforeInv, Op
    <3>5. LookInv' BY DEF LookInv, Op, Reachable
    <3>6. QuietInv' BY DEF QuietInv, ScopeOf
    <3>7. SnapshotIsConfirmed' /\ TextIsConfirmed' /\ RefusedForReason'
      BY DEF SnapshotIsConfirmed, TextIsConfirmed, RefusedForReason, Was, ScopeOf, Reachable
    <3> QED BY <3>1, <3>2, <3>3, <3>4, <3>5, <3>6, <3>7
  <2> QED BY <2>1, <2>2, <2>3, <2>4, <2>5, <2>6, <2>7, <2>8, <2>9, <2>10 DEF Next
<1> QED BY <1>1, <1>2, PTL DEF Spec

\* The variables keep their types: no call asks GitHub for what its program has not.
THEOREM TypeCorrect == Spec => []TypeOK
<1>1. ReadingInv => TypeOK BY DEF ReadingInv
<1> QED BY <1>1, Invariance, PTL

\* _authorized_snapshot returns a scope that was the repository's at one instant, however
\* the repository is pushed to, hidden, shown or made anew between its requests.
THEOREM SnapshotOfOneInstant == Spec => []SnapshotIsConfirmed
<1>1. ReadingInv => SnapshotIsConfirmed BY DEF ReadingInv
<1> QED BY <1>1, Invariance, PTL

\* What a summary or the diagrams show, and what goes to the index, was the owner's to
\* read at the commit it is about, after the last text was read.
THEOREM TextOfOneInstant == Spec => []TextIsConfirmed
<1>1. ReadingInv => TextIsConfirmed BY DEF ReadingInv
<1> QED BY <1>1, Invariance, PTL

\* A conflict or an absence is answered only if there is one.
THEOREM RefusalHasReason == Spec => []RefusedForReason
<1>1. ReadingInv => RefusedForReason BY DEF ReadingInv
<1> QED BY <1>1, Invariance, PTL

=============================================================================
