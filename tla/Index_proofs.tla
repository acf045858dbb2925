---------------------------- MODULE Index_proofs ----------------------------
(***************************************************************************)
(* Proofs about VectorIndex and about what runs beside it: Chat, which reads   *)
(* the index, and Reporting, whose workers write it.  They hold for every set  *)
(* of commits, indexers, askers, requests and keys, every size of a snapshot   *)
(* and of a batch, every number of jobs and attempts, and every number of      *)
(* changes.                                                                  *)
(***************************************************************************)
EXTENDS Chat, Reporting, TLAPS

-----------------------------------------------------------------------------
(* VectorIndex.                                                            *)

\* An id is wanted if it is of the snapshot's commit: every chunk is.
LEMMA WantedOfCommit ==
  ASSUME NEW i \in Indexer, mine[i] \in AuthorizedScope, NEW id \in Id
  PROVE  Wanted(i, id) <=> id.commit = mine[i].commit
<1>1. ASSUME Wanted(i, id) PROVE id.commit = mine[i].commit
  BY <1>1 DEF Wanted, PointsOf, Batch, IdOf
<1>2. ASSUME id.commit = mine[i].commit PROVE Wanted(i, id)
  <2> DEFINE p == [commit |-> id.commit, chunk |-> id.chunk, private |-> mine[i].private]
  <2>1. p \in PointsOf(mine[i])
    BY <1>2 DEF PointsOf, Batch, Id
  <2>2. IdOf(p) = id
    BY DEF IdOf, Id
  <2>. QED BY <2>1, <2>2 DEF Wanted
<1>. QED BY <1>1, <1>2

\* Ids are ids, and points of a batch are points.
LEMMA IdType == \A p \in Point : IdOf(p) \in Id
BY DEF IdOf, Id, Point

LEMMA BatchType ==
  ASSUME NEW s \in AuthorizedScope, NEW first \in 1..(Size + 1), NEW last \in 0..Size
  PROVE  Batch(s, first, last) \subseteq Point
BY IndexAssumption DEF Batch, Point, AuthorizedScope

\* In a batch of one scope an id belongs to one point.
LEMMA BatchIds ==
  ASSUME NEW s, NEW a, NEW b, NEW p \in Batch(s, a, b),
         NEW c, NEW d, NEW q \in Batch(s, c, d), IdOf(p) = IdOf(q)
  PROVE  p = q
BY DEF Batch, IdOf

\* The batch of a step ends between its first chunk and the last one.
LEMMA LastType ==
  ASSUME TypeOK, NEW i \in Indexer, next[i] <= Size
  PROVE  LastOf(i) \in 1..Size /\ LastOf(i) >= next[i]
<1>1. next[i] \in 1..(Size + 1)
  BY DEF TypeOK
<1>. QED BY <1>1, IndexAssumption DEF LastOf

\* Replacing points keeps one point per id.
LEMMA UpsertedType ==
  ASSUME TypeOK, NEW i \in Indexer, ipc[i] = "upsert", next[i] <= Size
  PROVE  LET batch == Batch(mine[i], next[i], LastOf(i))
         IN  /\ Upserted(batch) \subseteq Point
             /\ \A p, q \in Upserted(batch) : IdOf(p) = IdOf(q) => p = q
<1> DEFINE batch == Batch(mine[i], next[i], LastOf(i))
<1>1. mine[i] \in AuthorizedScope /\ next[i] \in 1..(Size + 1) /\ LastOf(i) \in 0..Size
  BY LastType, IndexAssumption DEF TypeOK
<1>2. batch \subseteq Point
  BY <1>1, BatchType
<1>3. \A p, q \in batch : IdOf(p) = IdOf(q) => p = q
  BY BatchIds
<1>4. points \subseteq Point /\ \A p, q \in points : IdOf(p) = IdOf(q) => p = q
  BY DEF TypeOK
<1> HIDE DEF batch
<1>. QED BY <1>2, <1>3, <1>4 DEF Upserted, batch

\* A step of i keeps what holds of the others if it leaves the points and the
\* fields of the others alone.
LEMMA OthersStep ==
  ASSUME IInv, NEW i \in Indexer, UNCHANGED points,
         \A k \in Indexer \ {i} :
           /\ ipc'[k] = ipc[k] /\ mine'[k] = mine[k] /\ stale'[k] = stale[k]
           /\ next'[k] = next[k] /\ serial'[k] = serial[k],
         serial'[i] => SerialOk(i)',
         \A id \in stale'[i] : ~Wanted(i, id)',
         stale'[i] # {} => ipc'[i] = "delete",
         ipc'[i] \in {"embed", "scroll", "delete"} => next'[i] = 1
  PROVE  SerialInv' /\ StaleInv'
<1>1. SerialInv /\ StaleInv
  BY DEF IInv
<1>2. ASSUME NEW k \in Indexer, serial'[k] PROVE SerialOk(k)'
  <2>1. CASE k = i
    BY <1>2, <2>1
  <2>2. CASE k # i
    BY <1>1, <1>2, <2>2 DEF SerialInv, SerialOk, Wanted
  <2>. QED BY <2>1, <2>2
<1>3. ASSUME NEW k \in Indexer
      PROVE  /\ \A id \in stale'[k] : ~Wanted(k, id)'
             /\ stale'[k] # {} => ipc'[k] = "delete"
             /\ ipc'[k] \in {"embed", "scroll", "delete"} => next'[k] = 1
  <2>1. CASE k = i
    BY <2>1
  <2>2. CASE k # i
    BY <1>1, <2>2 DEF StaleInv, Wanted
  <2>. QED BY <2>1, <2>2
<1>. QED BY <1>2, <1>3 DEF SerialInv, StaleInv

\* Steps that change no points.
LEMMA LocalStep ==
  ASSUME IInv, NEW i \in Indexer, UNCHANGED <<scope, changes>>,
         IndexBegins(i) \/ IndexEnds(i) \/ IndexRechecks(i) \/ IndexScrolls(i) \/ IndexReturns(i)
  PROVE  IInv'
<1> USE IndexAssumption
<1>0. TypeOK /\ SerialInv /\ StaleInv
  BY DEF IInv
<1>1. CASE IndexBegins(i)
  <2>1. TypeOK'
    BY <1>0, <1>1 DEF IndexBegins, TypeOK
  <2>2. stale[i] = {} /\ serial'[i] = FALSE /\ next'[i] = 1 /\ ipc'[i] = "embed"
    BY <1>0, <1>1 DEF IndexBegins, TypeOK, StaleInv
  <2>3. SerialInv' /\ StaleInv'
    BY <1>0, <1>1, <2>2, OthersStep DEF IndexBegins, TypeOK
  <2>. QED BY <2>1, <2>3 DEF IInv
<1>2. CASE IndexEnds(i)
  <2>1. TypeOK'
    BY <1>0, <1>2 DEF IndexEnds, TypeOK
  <2>2. stale'[i] = {} /\ serial'[i] = FALSE /\ next'[i] = 1
    BY <1>0, <1>2 DEF IndexEnds, TypeOK
  <2>3. SerialInv' /\ StaleInv'
    BY <1>0, <1>2, <2>2, OthersStep DEF IndexEnds, TypeOK
  <2>. QED BY <2>1, <2>3 DEF IInv
<1>3. CASE IndexRechecks(i)
  <2>1. TypeOK'
    BY <1>0, <1>3 DEF IndexRechecks, IGoto, TypeOK
  <2>2. stale[i] = {} /\ serial[i] = FALSE /\ next[i] = 1
    BY <1>0, <1>3 DEF IndexRechecks, IGoto, TypeOK, SerialInv, SerialOk, StaleInv
  <2>3. SerialInv' /\ StaleInv'
    BY <1>0, <1>3, <2>2, OthersStep DEF IndexRechecks, IGoto, TypeOK
  <2>. QED BY <2>1, <2>3 DEF IInv
<1>4. CASE IndexScrolls(i)
  <2>1. stale'[i] = {id \in {IdOf(p) : p \in points} : ~Wanted(i, id)} /\ ipc'[i] = "delete"
        /\ next[i] = 1
    BY <1>0, <1>4 DEF IndexScrolls, IGoto, TypeOK, StaleInv
  <2>2. stale'[i] \subseteq Id
    BY <1>0, <2>1, IdType DEF TypeOK
  <2>3. TypeOK'
    BY <1>0, <1>4, <2>2 DEF IndexScrolls, IGoto, TypeOK
  <2>4. SerialOk(i)'
    BY <1>0, <1>4, <2>1 DEF IndexScrolls, SerialOk, Wanted
  <2>5. \A id \in stale'[i] : ~Wanted(i, id)'
    BY <1>4, <2>1 DEF IndexScrolls, Wanted
  <2>6. SerialInv' /\ StaleInv'
    BY <1>0, <1>4, <2>1, <2>4, <2>5, OthersStep DEF IndexScrolls, IGoto, TypeOK
  <2>. QED BY <2>3, <2>6 DEF IInv
<1>5. CASE IndexReturns(i)
  <2>1. TypeOK'
    BY <1>0, <1>5 DEF IndexReturns, IGoto, TypeOK
  <2>2. stale[i] = {} /\ ipc'[i] = "done"
    BY <1>0, <1>5 DEF IndexReturns, IGoto, TypeOK, StaleInv
  <2>3. serial'[i] => SerialOk(i)'
    BY <1>0, <1>5, <2>2 DEF IndexReturns, IGoto, TypeOK, SerialInv, SerialOk, Wanted
  <2>4. SerialInv' /\ StaleInv'
    BY <1>0, <1>5, <2>2, <2>3, OthersStep DEF IndexReturns, IGoto, TypeOK
  <2>. QED BY <2>1, <2>4 DEF IInv
<1>. QED BY <1>1, <1>2, <1>3, <1>4, <1>5

\* Deleting takes away only what no serial indexer wants.
LEMMA DeleteStep ==
  ASSUME IInv, NEW i \in Indexer, UNCHANGED <<scope, changes>>, IndexDeletes(i)
  PROVE  IInv'
<1> USE IndexAssumption
<1>0. TypeOK /\ SerialInv /\ StaleInv
  BY DEF IInv
<1>1. TypeOK'
  BY <1>0 DEF IndexDeletes, IGoto, Disturb, TypeOK
<1>2. StaleInv'
  BY <1>0 DEF IndexDeletes, IGoto, TypeOK, StaleInv, Wanted
<1>3. ASSUME NEW k \in Indexer, serial'[k] PROVE SerialOk(k)'
  <2>1. serial[k] /\ mine[k] = mine[i] /\ mine' = mine /\ next' = next
    BY <1>0, <1>3 DEF IndexDeletes, Disturb, TypeOK
  <2>2. SerialOk(k)
    BY <1>0, <2>1 DEF SerialInv
  <2>3. \A id : Wanted(k, id)' <=> Wanted(k, id)
    BY <2>1 DEF Wanted
  <2>4. \A id \in stale[i] : ~Wanted(k, id)
    BY <1>0, <2>1 DEF StaleInv, Wanted
  <2>5. CASE k = i
    <3>1. ipc[i] = "delete" /\ ipc'[i] = "upsert" /\ next[i] = 1
      BY <1>0 DEF IndexDeletes, IGoto, TypeOK, StaleInv
    <3>2. \A p \in points' : Wanted(i, IdOf(p))'
      BY <2>2, <2>3, <2>5, <3>1 DEF IndexDeletes, SerialOk
    <3>3. Batch(mine[i], 1, next[i] - 1) = {}
      BY <3>1 DEF Batch
    <3>. QED BY <2>1, <2>5, <3>1, <3>2, <3>3 DEF SerialOk
  <2>6. CASE k # i
    <3>1. ipc'[k] = ipc[k] /\ stale'[k] = stale[k] /\ points' \subseteq points
      BY <1>0, <2>6 DEF IndexDeletes, IGoto, TypeOK
    <3>2. \A p \in points : Wanted(k, IdOf(p)) => p \in points'
      BY <2>4 DEF IndexDeletes
    <3>. QED BY <2>1, <2>2, <2>3, <3>1, <3>2 DEF SerialOk
  <2>. QED BY <2>5, <2>6
<1>4. SerialInv'
  BY <1>3 DEF SerialInv
<1>. QED BY <1>1, <1>2, <1>4 DEF IInv

\* A batch adds points that every serial indexer wants, and takes none away.
LEMMA UpsertStep ==
  ASSUME IInv, NEW i \in Indexer, UNCHANGED <<scope, changes>>, IndexUpserts(i)
  PROVE  IInv'
<1> USE IndexAssumption
<1> DEFINE batch == Batch(mine[i], next[i], LastOf(i))
<1>0. TypeOK /\ SerialInv /\ StaleInv
  BY DEF IInv
<1>1. /\ next[i] \in 1..Size /\ LastOf(i) \in 1..Size /\ LastOf(i) >= next[i]
      /\ mine[i] \in AuthorizedScope
  BY <1>0, LastType DEF IndexUpserts, TypeOK
<1>2. points' \subseteq Point /\ \A p, q \in points' : IdOf(p) = IdOf(q) => p = q
  BY <1>0, UpsertedType DEF IndexUpserts
<1>3. TypeOK'
  BY <1>0, <1>1, <1>2 DEF IndexUpserts, Disturb, TypeOK
<1>4. StaleInv'
  BY <1>0 DEF IndexUpserts, TypeOK, StaleInv, Wanted
<1>5. ASSUME NEW k \in Indexer, serial'[k] PROVE SerialOk(k)'
  <2>1. serial[k] /\ mine[k] = mine[i] /\ mine' = mine /\ ipc' = ipc /\ stale' = stale
    BY <1>0, <1>5 DEF IndexUpserts, Disturb, TypeOK
  <2>2. SerialOk(k)
    BY <1>0, <2>1 DEF SerialInv
  <2>3. \A id : Wanted(k, id)' <=> Wanted(k, id)
    BY <2>1 DEF Wanted
  <2>4. \A p \in batch : Wanted(k, IdOf(p))
    <3>1. batch \subseteq PointsOf(mine[k])
      BY <1>1, <2>1 DEF PointsOf, Batch
    <3>. QED BY <3>1 DEF Wanted
  <2>5. \A p \in points' : p \in points \/ p \in batch
    BY DEF IndexUpserts, Upserted
  <2>6. batch \subseteq points'
    BY DEF IndexUpserts, Upserted
  <2>7. ASSUME NEW b, Batch(mine[k], 1, b) \subseteq points
        PROVE  Batch(mine[k], 1, b) \subseteq points'
    <3>1. ASSUME NEW p \in Batch(mine[k], 1, b) PROVE p \in points'
      <4>1. CASE \E q \in batch : IdOf(q) = IdOf(p)
        BY <2>1, <2>6, <3>1, <4>1, BatchIds
      <4>2. CASE ~ \E q \in batch : IdOf(q) = IdOf(p)
        BY <2>7, <3>1, <4>2 DEF IndexUpserts, Upserted
      <4>. QED BY <4>1, <4>2
    <3>. QED BY <3>1
  <2>8. ipc[k] \in {"upsert", "done"} => Batch(mine[k], 1, next'[k] - 1) \subseteq points'
    <3>1. CASE k = i
      <4>1. ipc[i] = "upsert" /\ next'[i] = LastOf(i) + 1
        BY <1>0 DEF IndexUpserts, TypeOK
      <4>2. Batch(mine[i], 1, next[i] - 1) \subseteq points'
        BY <2>2, <2>7, <3>1, <4>1 DEF SerialOk
      <4>3. Batch(mine[i], 1, LastOf(i)) \subseteq Batch(mine[i], 1, next[i] - 1) \cup batch
        BY <1>1 DEF Batch
      <4>. QED BY <1>1, <2>6, <3>1, <4>1, <4>2, <4>3
    <3>2. CASE k # i
      BY <1>0, <2>2, <2>7, <3>2 DEF IndexUpserts, TypeOK, SerialOk
    <3>. QED BY <3>1, <3>2
  <2>9. ipc[k] = "done" => next'[k] > Size
    BY <1>0, <2>2 DEF IndexUpserts, TypeOK, SerialOk
  <2> HIDE DEF batch
  <2>. QED BY <2>1, <2>2, <2>3, <2>4, <2>5, <2>8, <2>9 DEF SerialOk
<1>6. SerialInv'
  BY <1>5 DEF SerialInv
<1>. QED BY <1>3, <1>4, <1>6 DEF IInv

\* Every step of the index keeps its invariant.
LEMMA IndexStep ==
  ASSUME IInv, [Next]_vars
  PROVE  IInv'
<1>1. CASE ChangeScope /\ UNCHANGED indexVars
  <2>0. TypeOK /\ SerialInv /\ StaleInv
    BY DEF IInv
  <2>1. TypeOK'
    BY <1>1, <2>0, IndexAssumption DEF ChangeScope, indexVars, TypeOK
  <2>2. SerialInv' /\ StaleInv'
    BY <1>1, <2>0 DEF indexVars, SerialInv, SerialOk, StaleInv, Wanted
  <2>. QED BY <2>1, <2>2 DEF IInv
<1>2. ASSUME NEW i \in Indexer, Index(i), UNCHANGED <<scope, changes>>
      PROVE  IInv'
  BY <1>2, LocalStep, DeleteStep, UpsertStep DEF Index
<1>3. CASE UNCHANGED vars
  BY <1>3 DEF vars, indexVars, IInv, TypeOK, SerialInv, SerialOk, StaleInv, Wanted
<1>. QED BY <1>1, <1>2, <1>3 DEF Next

LEMMA IndexInit == Init => IInv
BY IndexAssumption
DEF Init, InitScope, InitIndex, IInv, TypeOK, SerialInv, StaleInv, AuthorizedScope, Denied

\* index_snapshot: the points are of their types, and what an indexer has read
\* and not yet replaced is what its flag and its position say.
THEOREM IndexInvariant == Spec => []IInv
<1>1. IInv /\ [Next]_vars => IInv'
  BY IndexStep
<1>. QED BY <1>1, IndexInit, PTL DEF Spec

LEMMA IndexExact == IInv => IndexIsExact
<1> SUFFICES ASSUME IInv, NEW i \in Indexer, ipc[i] = "done", serial[i]
             PROVE  points = PointsOf(mine[i])
  BY DEF IndexIsExact
<1>1. TypeOK /\ SerialOk(i)
  BY DEF IInv, SerialInv
<1>2. next[i] = Size + 1
  BY <1>1, IndexAssumption DEF TypeOK, SerialOk
<1>3. PointsOf(mine[i]) \subseteq points
  BY <1>1, <1>2, IndexAssumption DEF SerialOk, PointsOf
<1>4. ASSUME NEW p \in points PROVE p \in PointsOf(mine[i])
  <2>1. PICK q \in PointsOf(mine[i]) : IdOf(q) = IdOf(p)
    BY <1>1 DEF SerialOk, Wanted
  <2>. QED BY <1>1, <1>3, <2>1 DEF TypeOK
<1>. QED BY <1>3, <1>4

\* index_snapshot: when a call returns and no call for another scope replaced
\* points since it read them, the collection holds exactly its snapshot.
THEOREM IndexExactness == Spec => []IndexIsExact
BY IndexInvariant, IndexExact, PTL

-----------------------------------------------------------------------------
(* Chat: the index while one asks.                                         *)

\* Seen from the index, ask does nothing.
LEMMA ChatIsIndex == [NextChat]_chatVars => [Next]_vars
<1>1. ScopeChanges /\ UNCHANGED <<indexVars, askVars>> => Next
  BY DEF ScopeChanges, Next
<1>2. ASSUME NEW i \in Indexer, Index(i), UNCHANGED <<scope, changes, askVars, since>>
      PROVE  Next
  BY <1>2 DEF Next
<1>3. ASSUME NEW a \in Asker, Ask(a) /\ UNCHANGED vars PROVE UNCHANGED vars
  BY <1>3
<1>. QED BY <1>1, <1>2, <1>3 DEF NextChat, chatVars

\* The steps of one question.
LEMMA AskStep ==
  ASSUME IInvChat, NEW a \in Asker, Ask(a), UNCHANGED vars
  PROVE  IInvChat'
<1>0. TypeOKChat /\ EvidenceIsOfScope /\ SourceIsConfirmed /\ ReplyIsConfirmed /\ HeldInv
  BY DEF IInvChat
<1>1. TypeOK' /\ scope' = scope /\ points' = points /\ scope \in Scopes
  BY <1>0 DEF vars, indexVars, TypeOKChat, TypeOK, Scopes
<1>2. CASE AskBegins(a)
  BY <1>0, <1>1, <1>2 DEF AskBegins, AGoto, Reply, Fresh, IInvChat, TypeOKChat, EvidenceIsOfScope,
    SourceIsConfirmed, ReplyIsConfirmed, HeldInv, Responses
<1>3. CASE SearchBegins(a)
  BY <1>0, <1>1, <1>3 DEF SearchBegins, AGoto, IInvChat, TypeOKChat, EvidenceIsOfScope,
    SourceIsConfirmed, ReplyIsConfirmed, HeldInv
<1>4. CASE SearchRechecks(a) \/ SearchReturns(a)
  BY <1>0, <1>1, <1>4 DEF SearchRechecks, SearchReturns, AGoto, IInvChat, TypeOKChat, EvidenceIsOfScope,
    SourceIsConfirmed, ReplyIsConfirmed, HeldInv
<1>5. CASE SearchChecks(a)
  BY <1>0, <1>1, <1>5 DEF SearchChecks, AGoto, IInvChat, TypeOKChat, EvidenceIsOfScope,
    SourceIsConfirmed, ReplyIsConfirmed, HeldInv
<1>6. CASE Query(a) \/ SearchFindsNone(a)
  <2>1. points \subseteq Point
    BY <1>0 DEF TypeOKChat, TypeOK
  <2>. QED
    BY <1>0, <1>1, <1>6, <2>1 DEF Query, SearchFindsNone, AGoto, Fresh, IInvChat, TypeOKChat,
      EvidenceIsOfScope, SourceIsConfirmed, ReplyIsConfirmed, HeldInv
<1>7. CASE AskRechecks(a)
  BY <1>0, <1>1, <1>7 DEF AskRechecks, AGoto, IInvChat, TypeOKChat, EvidenceIsOfScope,
    SourceIsConfirmed, ReplyIsConfirmed, HeldInv
<1>8. CASE Evidence(a)
  BY <1>0, <1>1, <1>8 DEF Evidence, AGoto, Reply, IInvChat, TypeOKChat, EvidenceIsOfScope,
    SourceIsConfirmed, ReplyIsConfirmed, HeldInv, Responses
<1>9. CASE ProviderAnswers(a)
  BY <1>0, <1>1, <1>9 DEF ProviderAnswers, AGoto, Fresh, IInvChat, TypeOKChat, EvidenceIsOfScope,
    SourceIsConfirmed, ReplyIsConfirmed, HeldInv
<1>10. CASE AskConfirms(a)
  <2>1. StatusOf(output[a]) \in Responses
    BY DEF StatusOf, Responses
  <2>. QED
    BY <1>0, <1>1, <1>10, <2>1 DEF AskConfirms, AGoto, Reply, IInvChat, TypeOKChat, EvidenceIsOfScope,
      SourceIsConfirmed, ReplyIsConfirmed, HeldInv
<1>11. CASE AskEnds(a)
  BY <1>0, <1>1, <1>11 DEF AskEnds, IInvChat, TypeOKChat, EvidenceIsOfScope,
    SourceIsConfirmed, ReplyIsConfirmed, HeldInv, Scopes, Outputs, Responses
<1>. QED
  BY <1>2, <1>3, <1>4, <1>5, <1>6, <1>7, <1>8, <1>9, <1>10, <1>11 DEF Ask

\* Every step keeps both invariants.
LEMMA ChatStep ==
  ASSUME IInv, IInvChat, [NextChat]_chatVars
  PROVE  IInv' /\ IInvChat'
<1>0. TypeOKChat /\ EvidenceIsOfScope /\ SourceIsConfirmed /\ ReplyIsConfirmed /\ HeldInv
  BY DEF IInvChat
<1>1. IInv'
  BY ChatIsIndex, IndexStep
<1>2. CASE ScopeChanges /\ UNCHANGED <<indexVars, askVars>>
  <2>1. TypeOK' /\ scope' \in Scopes
    BY <1>1 DEF IInv, TypeOK, Scopes
  <2>2. \A a \in Asker : since'[a] = since[a] \cup {scope'}
    BY <1>2 DEF ScopeChanges
  <2>3. TypeOKChat'
    BY <1>0, <1>2, <2>1 DEF ScopeChanges, askVars, TypeOKChat
  <2>. QED
    BY <1>0, <1>1, <1>2, <2>2, <2>3 DEF askVars, IInvChat, EvidenceIsOfScope,
      SourceIsConfirmed, ReplyIsConfirmed, HeldInv
<1>3. CASE UNCHANGED <<scope, askVars, since>>
  BY <1>0, <1>1, <1>3 DEF askVars, IInv, IInvChat, TypeOKChat, EvidenceIsOfScope,
    SourceIsConfirmed, ReplyIsConfirmed, HeldInv
<1>4. CASE UNCHANGED chatVars
  BY <1>3, <1>4 DEF chatVars, vars
<1>. QED BY <1>1, <1>2, <1>3, <1>4, AskStep DEF NextChat

LEMMA ChatInit == InitChat => IInv /\ IInvChat
BY IndexInit
DEF InitChat, IInv, IInvChat, TypeOKChat, EvidenceIsOfScope, SourceIsConfirmed, ReplyIsConfirmed,
  HeldInv, Scopes, Outputs, Responses

\* ask and search: the scope of now has held since the last arrival, and no
\* reply and no evidence are there before the looks at the scope that precede.
THEOREM ChatInvariant == SpecChat => [](IInv /\ IInvChat)
<1>1. (IInv /\ IInvChat) /\ [NextChat]_chatVars => (IInv /\ IInvChat)'
  BY ChatStep
<1>. QED BY <1>1, ChatInit, PTL DEF SpecChat

\* ask: the provider gets source of the commit that the question began with.
THEOREM EvidenceOfScope == SpecChat => []EvidenceIsOfScope
<1>1. IInvChat => EvidenceIsOfScope
  BY DEF IInvChat
<1>. QED BY <1>1, ChatInvariant, PTL

\* ask: what is sent and what is answered was confirmed after it had arrived.
THEOREM Confirmed == SpecChat => [](SourceIsConfirmed /\ ReplyIsConfirmed)
<1>1. IInvChat => SourceIsConfirmed /\ ReplyIsConfirmed
  BY DEF IInvChat
<1>. QED BY <1>1, ChatInvariant, PTL

-----------------------------------------------------------------------------
(* Reporting: the index while workers write it and requests look at it.     *)

-----------------------------------------------------------------------------
(* The invariant in parts: the queue, the workers, the cache, one request.    *)

JobOk ==
  /\ status   \in [Job -> {"absent"} \cup Unfinished \cup Ends]
  /\ commitOf \in [Job -> Commit \cup {"none"}]
  /\ keyOf    \in [Job -> Key \cup {NoKey}]
  /\ left     \in [Job -> 0..Attempts]
  /\ stopping \in [Job -> BOOLEAN]
  /\ holder   \in [Job -> Worker \cup {Nobody}]
  /\ JobInv

WorkOk ==
  /\ wpc  \in [Worker -> {"idle", "handler", "ended", "snapshot", "index", "indexing", "check", "put"}]
  /\ work \in [Worker -> Job \cup {NoJob}]
  /\ \A w \in Worker : wpc[w] # "idle" => work[w] \in Job
  /\ WorkInv /\ PublishesCompleted

CacheOk ==
  /\ cache \in [Commit -> [job : Job \cup {NoJob}, fresh : BOOLEAN]]
  /\ \A c \in Commit : cache[c].fresh => cache[c].job \in Job
  /\ CacheIsSound

RequestTypes ==
  /\ rpc    \in [Request -> {"idle", "cache", "row", "index", "scroll", "some", "none", "active",
                             "rebuild", "enqueue", "job", "cancel", "report", "read",
                             "confirmed", "replied"}]
  /\ key    \in [Request -> Key \cup {NoKey}]
  /\ commit \in [Request -> Commit \cup {"none"}]
  /\ seen   \in [Request -> AuthorizedScope \cup {Denied}]
  /\ row    \in [Request -> Job \cup {NoJob}]
  /\ reply  \in [Request -> Replies]
  /\ held   \in [Request -> SUBSET (AuthorizedScope \cup {Denied})]

RequestOk(r) ==
  /\ rpc[r] = "idle" => row[r] = NoJob
  /\ rpc[r] = "row" => commit[r] \in Commit
  /\ reply[r] # "none" => rpc[r] \in {"read", "confirmed", "replied"}
  /\ reply[r] \notin {"none", "conflict"} => row[r] \in Job
  /\ row[r] \in Job => status[row[r]] # "absent"
  /\ rpc[r] \in {"index", "scroll", "some", "none"} =>
       row[r] \in Job /\ status[row[r]] = "completed" /\ commitOf[row[r]] = commit[r]
  /\ rpc[r] \in {"read", "confirmed"} => reply[r] \in {"job", "cancel", "report"}
  /\ reply[r] \in {"job", "cancel", "report"} => scope \in held[r]
  /\ rpc[r] = "confirmed" => commitOf[row[r]] = seen[r].commit /\ seen[r] \in held[r]
  /\ reply[r] \in {"cached", "queued"} => commitOf[row[r]] = commit[r]
  /\ reply[r] = "cached" => status[row[r]] = "completed"
  /\ rpc[r] = "replied" /\ reply[r] \in {"job", "cancel", "report"} =>
       commitOf[row[r]] = seen[r].commit /\ seen[r] \in held[r]

LEMMA Parts ==
  RInv <=> TypeOK /\ JobOk /\ WorkOk /\ CacheOk /\ RequestTypes /\ \A r \in Request : RequestOk(r)
BY DEF RInv, TypeOKReporting, JobOk, WorkOk, CacheOk, RequestTypes, RequestOk, RequestInv,
  AnswersAreOfSnapshot, ReadIsConfirmed

LEMMA PartsNext ==
  ASSUME TypeOK', JobOk', WorkOk', CacheOk', RequestTypes', \A r \in Request : RequestOk(r)'
  PROVE  RInv'
BY DEF RInv, TypeOKReporting, JobOk, WorkOk, CacheOk, RequestTypes, RequestOk, RequestInv,
  AnswersAreOfSnapshot, ReadIsConfirmed

\* Rows stay, with their commit, and ended jobs stay as they are.
JobsGrow ==
  \A j \in Job :
    /\ status[j] # "absent" => status'[j] # "absent" /\ commitOf'[j] = commitOf[j]
    /\ status[j] \in Ends => status'[j] = status[j]

LEMMA JobsStay == UNCHANGED jobVars => JobsGrow
BY DEF jobVars, JobsGrow

-----------------------------------------------------------------------------
(* What the operations of the queue do to its rows.                         *)

LEMMA EndStep ==
  ASSUME JobOk, NEW j \in Job, status[j] = "running", NEW end \in Ends \cup {"queued"},
         end = "queued" => left[j] > 0 /\ ~stopping[j], EndJob(j, end)
  PROVE  JobOk' /\ JobsGrow
BY DEF EndJob, JobOk, JobInv, JobsGrow, Unfinished, Ends, Nobody

LEMMA SweepStep ==
  ASSUME JobOk, NEW j \in Job, Swept(j)
  PROVE  JobOk' /\ JobsGrow
<1>1. "cancelled" \in Ends /\ "failed" \in Ends
  BY DEF Ends
<1>. QED BY <1>1, EndStep DEF Swept

LEMMA CancelStep ==
  ASSUME JobOk, NEW j \in Job, CancelJob(j)
  PROVE  JobOk' /\ JobsGrow
BY DEF CancelJob, JobOk, JobInv, JobsGrow, Unfinished, Ends, Nobody

LEMMA InsertStep ==
  ASSUME JobOk, NEW r \in Request, commit[r] \in Commit \cup {"none"},
         NEW k \in Key \cup {NoKey}, Insert(r, k)
  PROVE  JobOk' /\ JobsGrow
BY ReportingAssumption DEF Insert, JobOk, JobInv, JobsGrow, Unfinished, Ends, Nobody

LEMMA ClaimStep ==
  ASSUME JobOk, NEW w \in Worker, NEW j \in Job, Claims(w, j)
  PROVE  JobOk' /\ JobsGrow
BY ReportingAssumption DEF Claims, JobOk, JobInv, JobsGrow, Unfinished, Ends, Nobody

-----------------------------------------------------------------------------
(* What the others keep while rows only grow.                               *)

LEMMA CacheKept == CacheOk /\ JobsGrow /\ UNCHANGED cache => CacheOk'
BY DEF CacheOk, CacheIsSound, JobsGrow, Ends, NoJob

LEMMA WorkKept == WorkOk /\ JobsGrow /\ UNCHANGED workVars => WorkOk'
BY DEF WorkOk, WorkInv, PublishesCompleted, JobsGrow, Ends, workVars

LEMMA RequestKept ==
  ASSUME NEW r \in Request, RequestOk(r), JobsGrow, UNCHANGED scope, row[r] \in Job \cup {NoJob},
         rpc'[r] = rpc[r], commit'[r] = commit[r], seen'[r] = seen[r], row'[r] = row[r],
         reply'[r] = reply[r], held'[r] = held[r]
  PROVE  RequestOk(r)'
BY DEF RequestOk, JobsGrow, Ends, NoJob, Job

-----------------------------------------------------------------------------
(* Steps.                                                                  *)

\* Seen from the index, everything is a step of a worker's index_snapshot, a
\* change of the scope, or nothing.
LEMMA ReportingIsIndex == [NextReporting]_reportVars => [Next]_vars
<1>1. ASSUME NEW w \in Worker, WorkerStep(w) \/ IndexGoesOn(w), UNCHANGED <<scope, changes>>
      PROVE  [Next]_vars
  <2>1. Index(w) => Next
    BY <1>1 DEF Next, Worker
  <2>2. WorkerStep(w) => Index(w) \/ UNCHANGED indexVars
    BY DEF WorkerStep, IndexesMaterial, Index
  <2>3. IndexGoesOn(w) => Index(w)
    BY DEF IndexGoesOn, Index
  <2>. QED BY <1>1, <2>1, <2>2, <2>3 DEF vars
<1>2. ScopeMoves /\ UNCHANGED indexVars => Next
  BY DEF ScopeMoves, Next
<1>. QED BY <1>1, <1>2 DEF NextReporting, reportVars

\* A thread of CachingWorker.
LEMMA WorkerStepOk ==
  ASSUME JobOk, WorkOk, CacheOk, NEW w \in Worker, WorkerStep(w)
  PROVE  JobOk' /\ JobsGrow /\ WorkOk' /\ CacheOk'
<1>1. CASE \E j \in Job : Claims(w, j)
  <2>1. PICK j \in Job : Claims(w, j)
    BY <1>1
  <2>2. JobOk' /\ JobsGrow
    BY <2>1, ClaimStep
  <2>3. WorkOk'
    BY <2>1, <2>2 DEF Claims, WGoto, WorkOk, WorkInv, PublishesCompleted, JobsGrow, JobOk, Ends
  <2>. QED BY <2>1, <2>2, <2>3, CacheKept DEF Claims
<1>2. CASE HandlerEnds(w)
  <2>1. wpc[w] = "handler" /\ work[w] \in Job /\ status[work[w]] # "absent"
    BY <1>2 DEF HandlerEnds, WGoto, WorkOk, WorkInv
  <2>2. JobOk' /\ JobsGrow
    <3>1. CASE UNCHANGED jobVars
      BY <3>1, JobsStay DEF jobVars, JobOk, JobInv
    <3>2. CASE holder[work[w]] = w /\ w # Nobody
      <4>1. status[work[w]] = "running"
        BY <2>1, <3>2 DEF JobOk, JobInv
      <4>. QED BY <1>2, <2>1, <3>1, <4>1, EndStep DEF HandlerEnds, Ends
    <3>. QED BY <1>2, <3>1, <3>2, ReportingAssumption DEF HandlerEnds
  <2>3. WorkOk'
    BY <1>2, <2>1, <2>2 DEF HandlerEnds, WGoto, WorkOk, WorkInv, PublishesCompleted, JobsGrow, Ends
  <2>. QED BY <1>2, <2>2, <2>3, CacheKept DEF HandlerEnds
<1>3. CASE FindsCompleted(w) \/ FindsSnapshot(w) \/ IndexesMaterial(w) \/ IndexesNot(w)
           \/ Indexed(w) \/ PutChecks(w)
  <2>1. UNCHANGED <<jobVars, work, cache>>
    BY <1>3 DEF FindsCompleted, FindsSnapshot, IndexesMaterial, IndexesNot, Indexed, PutChecks
  <2>2. JobOk' /\ JobsGrow
    BY <2>1, JobsStay DEF jobVars, JobOk, JobInv
  <2>3. WorkOk'
    BY <1>3, <2>1, <2>2 DEF FindsCompleted, FindsSnapshot, IndexesMaterial, IndexesNot, Indexed,
      PutChecks, WGoto, WorkOk, WorkInv, PublishesCompleted, jobVars
  <2>. QED BY <2>1, <2>2, <2>3, CacheKept
<1>4. CASE Puts(w)
  <2>1. JobOk' /\ JobsGrow
    BY <1>4, JobsStay DEF Puts, jobVars, JobOk, JobInv
  <2>2. WorkOk'
    BY <1>4 DEF Puts, WGoto, WorkOk, WorkInv, PublishesCompleted, jobVars
  <2>3. work[w] \in Job /\ status[work[w]] = "completed"
    BY <1>4 DEF Puts, WGoto, WorkOk
  <2>4. CacheOk'
    BY <1>4, <2>3 DEF Puts, CacheOk, CacheIsSound, jobVars
  <2>. QED BY <2>1, <2>2, <2>4
<1>5. CASE WorkerEnds(w)
  <2>1. JobOk' /\ JobsGrow
    BY <1>5, JobsStay DEF WorkerEnds, jobVars, JobOk, JobInv
  <2>2. WorkOk'
    BY <1>5 DEF WorkerEnds, WorkOk, WorkInv, PublishesCompleted, jobVars
  <2>. QED BY <1>5, <2>1, <2>2, CacheKept DEF WorkerEnds
<1>. QED BY <1>1, <1>2, <1>3, <1>4, <1>5 DEF WorkerStep

\* The steps of one request: what it does to the rows, and to itself.
LEMMA RequestStepOk ==
  ASSUME TypeOK, JobOk, RequestTypes, NEW r \in Request, RequestOk(r), CacheOk,
         RequestStep(r), UNCHANGED <<vars, cache>>
  PROVE  JobOk' /\ JobsGrow /\ RequestTypes' /\ RequestOk(r)'
<1>0. UNCHANGED scope /\ scope \in AuthorizedScope \cup {Denied} /\ scope \in {scope}
  BY DEF vars, TypeOK
<1>1. UNCHANGED jobVars => JobOk' /\ JobsGrow
  BY JobsStay DEF jobVars, JobOk, JobInv
<1>2. ASSUME NEW k \in Key \cup {NoKey}, AnalyzeBegins(r, k)
      PROVE  JobOk' /\ JobsGrow /\ RequestTypes' /\ RequestOk(r)'
  BY <1>0, <1>1, <1>2 DEF AnalyzeBegins, RGoto, RequestTypes, RequestOk, AuthorizedScope, NoJob, jobVars
<1>3. CASE GetChecks(r)
  BY <1>0, <1>1, <1>3 DEF GetChecks, RGoto, RequestTypes, RequestOk, AuthorizedScope, jobVars, Denied
<1>4. CASE Gets(r)
  <2>1. commit[r] \in Commit
    BY <1>4 DEF Gets, RequestOk
  <2>2. ASSUME NEW j \in Hit(commit[r])
        PROVE  j \in Job /\ status[j] = "completed" /\ commitOf[j] = commit[r]
    BY <2>1, <2>2 DEF Hit, CacheOk, CacheIsSound, NoJob, Job
  <2>. QED BY <1>0, <1>1, <1>4, <2>2 DEF Gets, RGoto, RequestTypes, RequestOk, jobVars
<1>5. CASE HasIndexBegins(r) \/ HasIndexScrolls(r)
  <2>1. CASE HasIndexBegins(r)
    BY <1>0, <1>1, <2>1 DEF HasIndexBegins, RGoto, RequestTypes, RequestOk, jobVars
  <2>2. CASE HasIndexScrolls(r)
    BY <1>0, <1>1, <2>2 DEF HasIndexScrolls, RGoto, RequestTypes, RequestOk, jobVars
  <2>. QED BY <1>5, <2>1, <2>2
<1>6. CASE HasIndexConfirms(r) \/ AnswersWithoutIndex(r)
  BY <1>0, <1>1, <1>6 DEF HasIndexConfirms, AnswersWithoutIndex, Answer, RGoto, RequestTypes, RequestOk, jobVars, Replies
<1>7. CASE ReusesActive(r)
  BY <1>0, <1>1, <1>7 DEF ReusesActive, Active, Answer, RGoto, RequestTypes, RequestOk, jobVars,
    Replies, Unfinished
<1>8. CASE FindsNoActive(r)
  BY <1>0, <1>1, <1>8 DEF FindsNoActive, RGoto, RequestTypes, RequestOk, jobVars
<1>9. ASSUME NEW k \in Key \cup {NoKey}, NEW pc, Answer(r, pc, "queued"), Insert(r, k),
             UNCHANGED <<key, commit, seen, held>>
      PROVE  JobOk' /\ JobsGrow /\ RequestTypes' /\ RequestOk(r)'
  <2>1. JobOk' /\ JobsGrow
    BY <1>9, InsertStep DEF RequestTypes
  <2>. QED BY <1>0, <1>9, <2>1 DEF Insert, Answer, RGoto, JobOk, RequestTypes, RequestOk, Replies
<1>10. CASE EnqueuesRebuild(r) \/ Enqueues(r)
  BY <1>9, <1>10 DEF EnqueuesRebuild, Enqueues, RequestTypes
<1>11. CASE Replays(r)
  <2>1. PICK j \in Replayed(key[r]) :
          /\ \/ commitOf[j] = commit[r] /\ Answer(r, "enqueue", "queued")
                /\ row' = [row EXCEPT ![r] = j]
             \/ Answer(r, "enqueue", "conflict") /\ UNCHANGED row
          /\ UNCHANGED <<jobVars, key, commit, seen, held>>
    BY <1>11 DEF Replays
  <2>2. j \in Job /\ status[j] # "absent"
    BY <2>1, ReportingAssumption DEF Replayed, JobOk, JobInv
  <2>. QED BY <1>0, <1>1, <2>1, <2>2 DEF jobVars, Answer, RGoto, RequestTypes, RequestOk, Replies
<1>12. ASSUME NEW what \in {"job", "cancel", "report"}, ReadBegins(r, what) \/ Reads(r, what)
       PROVE  JobOk' /\ JobsGrow /\ RequestTypes' /\ RequestOk(r)'
  BY <1>0, <1>1, <1>12 DEF ReadBegins, Reads, Readable, RGoto, RequestTypes, RequestOk, jobVars,
    Replies, Ends
<1>13. CASE Confirms(r)
  BY <1>0, <1>1, <1>13 DEF Confirms, RGoto, RequestTypes, RequestOk, jobVars
<1>14. CASE Cancels(r)
  <2>1. row[r] \in Job /\ rpc[r] = "confirmed"
    BY <1>14 DEF Cancels, RGoto, RequestOk
  <2>2. JobOk' /\ JobsGrow
    BY <1>1, <1>14, <2>1, CancelStep DEF Cancels
  <2>. QED BY <1>0, <1>14, <2>1, <2>2 DEF Cancels, RGoto, RequestTypes, RequestOk, JobsGrow
<1>15. CASE RequestEnds(r)
  BY <1>0, <1>1, <1>15 DEF RequestEnds, RequestTypes, RequestOk, jobVars, Replies, NoJob, Job
<1>. QED
  BY <1>2, <1>3, <1>4, <1>5, <1>6, <1>7, <1>8, <1>10, <1>11, <1>12, <1>13, <1>14, <1>15 DEF RequestStep

\* A request leaves the fields of the others alone.
LEMMA RequestLocal ==
  ASSUME RequestTypes, NEW r \in Request, RequestStep(r), NEW q \in Request \ {r}
  PROVE  /\ rpc'[q] = rpc[q] /\ commit'[q] = commit[q] /\ seen'[q] = seen[q]
         /\ row'[q] = row[q] /\ reply'[q] = reply[q] /\ held'[q] = held[q]
BY DEF RequestStep, RequestTypes, AnalyzeBegins, GetChecks, Gets, AnswersWithoutIndex,
  HasIndexBegins, HasIndexScrolls, HasIndexConfirms, ReusesActive, FindsNoActive,
  EnqueuesRebuild, Enqueues, Insert, Replays,
  ReadBegins, Reads, Confirms, Cancels, RequestEnds, Answer, RGoto

LEMMA ReportingStep ==
  ASSUME IInv, RInv, [NextReporting]_reportVars
  PROVE  IInv' /\ RInv'
<1>0. TypeOK /\ JobOk /\ WorkOk /\ CacheOk /\ RequestTypes /\ \A r \in Request : RequestOk(r)
  BY Parts
<1>1. IInv' /\ TypeOK'
  BY ReportingIsIndex, IndexStep DEF IInv
<1>2. CASE ScopeMoves /\ UNCHANGED <<indexVars, jobVars, cache, workVars, requestVars>>
  <2>1. JobOk' /\ JobsGrow
    BY <1>0, <1>2, JobsStay DEF jobVars, JobOk, JobInv
  <2>2. CacheOk' /\ WorkOk'
    BY <1>0, <1>2, <2>1, CacheKept, WorkKept
  <2>3. RequestTypes'
    BY <1>0, <1>1, <1>2 DEF ScopeMoves, requestVars, RequestTypes, TypeOK
  <2>4. ASSUME NEW r \in Request PROVE RequestOk(r)'
    <3>1. held[r] \subseteq held'[r] /\ (held[r] # {} => scope' \in held'[r])
      BY <1>2 DEF ScopeMoves
    <3>. QED BY <1>0, <1>2, <3>1 DEF requestVars, jobVars, RequestOk
  <2>. QED BY <1>1, <2>1, <2>2, <2>3, <2>4, PartsNext
<1>3. ASSUME JobOk', JobsGrow, WorkOk', CacheOk', UNCHANGED <<scope, requestVars, held>>
      PROVE  RInv'
  <2>1. RequestTypes'
    BY <1>0, <1>3 DEF requestVars, RequestTypes
  <2>2. \A r \in Request : RequestOk(r)'
    BY <1>0, <1>3, RequestKept DEF requestVars, RequestTypes
  <2>. QED BY <1>1, <1>3, <2>1, <2>2, PartsNext
<1>4. ASSUME NEW c \in Commit, Expires(c) \/ Drops(c),
             UNCHANGED <<vars, jobVars, workVars, requestVars, held>>
      PROVE  RInv'
  <2>1. JobOk' /\ JobsGrow /\ WorkOk'
    BY <1>0, <1>4, JobsStay, WorkKept DEF jobVars, JobOk, JobInv
  <2>2. /\ cache' \in [Commit -> [job : Job \cup {NoJob}, fresh : BOOLEAN]]
        /\ \A d \in Commit : cache'[d] = cache[d] \/ cache'[d] = NoRow
                              \/ (cache'[d].job = cache[d].job /\ ~cache'[d].fresh)
    <3>1. CASE Expires(c)
      BY <1>0, <3>1 DEF Expires, CacheOk
    <3>2. CASE Drops(c)
      <4>1. NoRow \in [job : Job \cup {NoJob}, fresh : BOOLEAN]
        BY DEF NoRow
      <4>. QED BY <1>0, <3>2, <4>1 DEF Drops, CacheOk
    <3>. QED BY <1>4, <3>1, <3>2
  <2>3. CacheOk'
    BY <1>0, <1>4, <2>2 DEF NoRow, CacheOk, CacheIsSound, jobVars, NoJob, Job
  <2>. QED BY <1>3, <1>4, <2>1, <2>3 DEF vars
<1>5. ASSUME NEW j \in Job, Swept(j), UNCHANGED <<vars, cache, workVars, requestVars, held>>
      PROVE  RInv'
  BY <1>0, <1>3, <1>5, SweepStep, WorkKept, CacheKept DEF vars
<1>6. ASSUME NEW w \in Worker, WorkerStep(w) \/ IndexGoesOn(w),
             UNCHANGED <<scope, changes, requestVars, held>>
      PROVE  RInv'
  <2>1. CASE WorkerStep(w)
    BY <1>0, <1>3, <1>6, <2>1, WorkerStepOk
  <2>2. CASE IndexGoesOn(w)
    BY <1>0, <1>3, <1>6, <2>2, JobsStay, WorkKept, CacheKept DEF IndexGoesOn, jobVars, JobOk, JobInv
  <2>. QED BY <1>6, <2>1, <2>2
<1>7. ASSUME NEW r \in Request, RequestStep(r), UNCHANGED <<vars, cache, workVars>>
      PROVE  RInv'
  <2>1. JobOk' /\ JobsGrow /\ RequestTypes' /\ RequestOk(r)'
    BY <1>0, <1>7, RequestStepOk
  <2>2. WorkOk' /\ CacheOk'
    BY <1>0, <1>7, <2>1, WorkKept, CacheKept
  <2>3. ASSUME NEW q \in Request \ {r} PROVE RequestOk(q)'
    BY <1>0, <1>7, <2>1, RequestLocal, RequestKept DEF vars, RequestTypes
  <2>. QED BY <1>1, <2>1, <2>2, <2>3, PartsNext
<1>8. CASE UNCHANGED reportVars
  <2>1. UNCHANGED <<jobVars, cache, workVars, scope, requestVars, held>>
    BY <1>8 DEF reportVars, vars
  <2>2. JobOk' /\ JobsGrow
    BY <1>0, <2>1, JobsStay DEF jobVars, JobOk, JobInv
  <2>3. WorkOk' /\ CacheOk'
    BY <1>0, <2>1, <2>2, WorkKept, CacheKept
  <2>4. UNCHANGED <<scope, requestVars, held>>
    BY <2>1
  <2>. QED BY <1>1, <1>3, <2>2, <2>3, <2>4
<1>. QED BY <1>1, <1>2, <1>4, <1>5, <1>6, <1>7, <1>8 DEF NextReporting

LEMMA ReportingInit == InitReporting => IInv /\ RInv
<1> SUFFICES ASSUME InitReporting PROVE IInv /\ RInv
  OBVIOUS
<1>1. IInv /\ TypeOK
  BY IndexInit DEF InitReporting, IInv
<1>2. JobOk
  BY ReportingAssumption DEF InitReporting, JobOk, JobInv, Unfinished, Ends
<1>3. WorkOk /\ CacheOk
  BY DEF InitReporting, WorkOk, WorkInv, PublishesCompleted, CacheOk, CacheIsSound, NoRow, NoJob
<1>4. RequestTypes /\ \A r \in Request : RequestOk(r)
  BY DEF InitReporting, RequestTypes, RequestOk, Replies, NoJob, Job
<1>. QED BY <1>1, <1>2, <1>3, <1>4, Parts

\* analyze, the reads and CachingWorker: what each thread remembers of the rows,
\* and the cache of them, stays true whatever the others do.
THEOREM ReportingInvariant == SpecReporting => [](IInv /\ RInv)
<1>1. (IInv /\ RInv) /\ [NextReporting]_reportVars => (IInv /\ RInv)'
  BY ReportingStep
<1>. QED BY <1>1, ReportingInit, PTL DEF SpecReporting

\* AnalysisCache: a row points to a completed analysis of its commit.
THEOREM CacheSound == SpecReporting => []CacheIsSound
<1>1. RInv => CacheIsSound
  BY DEF RInv
<1>. QED BY <1>1, ReportingInvariant, PTL

\* analyze: what it answers is of the snapshot it was authorized for.
THEOREM AnswersOfSnapshot == SpecReporting => []AnswersAreOfSnapshot
<1>1. RInv => AnswersAreOfSnapshot
  BY DEF RInv
<1>. QED BY <1>1, ReportingInvariant, PTL

\* _job, cancel, analysis, _latest: what is shown, or cancelled, was confirmed.
THEOREM ReadsConfirmed == SpecReporting => []ReadIsConfirmed
<1>1. RInv => ReadIsConfirmed
  BY DEF RInv
<1>. QED BY <1>1, ReportingInvariant, PTL

\* CachingWorker publishes completed jobs only.
THEOREM CompletedPublished == SpecReporting => []PublishesCompleted
<1>1. RInv => PublishesCompleted
  BY DEF RInv
<1>. QED BY <1>1, ReportingInvariant, PTL

\* index_snapshot as the workers call it: a call that was not mixed with another
\* scope leaves exactly its snapshot.
THEOREM WorkersIndexExactly == SpecReporting => []IndexIsExact
BY ReportingInvariant, IndexExact, PTL
-----------------------------------------------------------------------------
(* The queue implements JobLifecycle.                                       *)

QueueStep(j) ==
  \/ Queue!Submit(j) \/ Queue!Start(j) \/ Queue!GiveBack(j)
  \/ Queue!AskToStop(j) \/ Queue!End(j) \/ Queue!Rest(j)

LEMMA QueueInit == InitReporting => Queue!Init
BY DEF InitReporting, Queue!Init, Unfinished, Ends

LEMMA QueueType == JobOk => Queue!TypeOK
<1>. SUFFICES ASSUME JobOk PROVE Queue!TypeOK
  OBVIOUS
<1>1. left \in [Job -> Nat]
  BY ReportingAssumption DEF JobOk
<1>. QED BY <1>1 DEF JobOk, Queue!TypeOK, Unfinished, Ends

LEMMA QueueRests ==
  ASSUME JobOk, JobOk', NEW i \in Job,
         status'[i] = status[i], left'[i] = left[i], stopping'[i] = stopping[i]
  PROVE  Queue!Rest(i)
BY DEF JobOk, Queue!Rest

LEMMA QueueEnds ==
  ASSUME JobOk, JobOk', NEW j \in Job, status[j] = "running", NEW end \in Ends,
         stopping[j] <=> end = "cancelled", EndJob(j, end)
  PROVE  Queue!End(j)
<1>1. status'[j] = end /\ UNCHANGED <<left[j], stopping[j]>>
  BY DEF EndJob, JobOk
<1>. QED BY <1>1 DEF JobOk, Ends, Unfinished, Queue!End, Queue!ReportsOf

LEMMA QueueEndStep ==
  ASSUME JobOk, JobOk', NEW j \in Job, status[j] = "running", NEW end \in Ends,
         stopping[j] <=> end = "cancelled", EndJob(j, end), NEW i \in Job
  PROVE  QueueStep(i)
<1>1. CASE i = j
  BY <1>1, QueueEnds DEF QueueStep
<1>2. CASE i # j
  BY <1>2, QueueRests DEF QueueStep, EndJob, JobOk
<1>. QED BY <1>1, <1>2

LEMMA QueueGiveBack ==
  ASSUME JobOk, JobOk', NEW j \in Job, status[j] = "running", ~stopping[j], left[j] > 0,
         EndJob(j, "queued"), NEW i \in Job
  PROVE  QueueStep(i)
<1>1. CASE i = j
  BY <1>1 DEF QueueStep, Queue!GiveBack, EndJob, JobOk, Ends
<1>2. CASE i # j
  BY <1>2, QueueRests DEF QueueStep, EndJob, JobOk
<1>. QED BY <1>1, <1>2

LEMMA QueueCancel ==
  ASSUME JobOk, JobOk', NEW j \in Job, CancelJob(j), NEW i \in Job
  PROVE  QueueStep(i)
<1>1. CASE i = j
  BY <1>1 DEF QueueStep, Queue!AskToStop, CancelJob, Unfinished, JobOk, Ends
<1>2. CASE i # j
  BY <1>2, QueueRests DEF QueueStep, CancelJob, JobOk
<1>. QED BY <1>1, <1>2

LEMMA QueueSubmit ==
  ASSUME JobOk, JobOk', NEW r \in Request, NEW k, Insert(r, k), NEW i \in Job
  PROVE  QueueStep(i)
<1>1. PICK j \in Job :
        /\ status[j] = "absent"
        /\ status' = [status EXCEPT ![j] = "queued"] /\ left' = [left EXCEPT ![j] = Attempts]
        /\ UNCHANGED stopping
  BY DEF Insert
<1>2. CASE i = j
  BY <1>1, <1>2 DEF QueueStep, Queue!Submit, JobOk, Ends
<1>3. CASE i # j
  BY <1>1, <1>3, QueueRests DEF QueueStep, JobOk
<1>. QED BY <1>2, <1>3

LEMMA QueueStart ==
  ASSUME JobOk, JobOk', NEW w \in Worker, NEW j \in Job, Claims(w, j), NEW i \in Job
  PROVE  QueueStep(i)
<1>1. CASE i = j
  <2>1. status'[j] = "running" /\ left[j] > 0 /\ left'[j] = left[j] - 1
        /\ stopping'[j] = stopping[j]
        /\ (status[j] = "queued" \/ (status[j] = "running" /\ ~stopping[j]))
    BY DEF Claims, JobOk, JobInv
  <2>. QED BY <1>1, <2>1 DEF QueueStep, Queue!Start, JobOk, Ends
<1>2. CASE i # j
  BY <1>2, QueueRests DEF QueueStep, Claims, JobOk
<1>. QED BY <1>1, <1>2

LEMMA QueueStays ==
  ASSUME JobOk, JobOk', UNCHANGED jobVars, NEW i \in Job
  PROVE  QueueStep(i)
BY QueueRests DEF QueueStep, jobVars

LEMMA QueueMoves ==
  ASSUME RInv, RInv', [NextReporting]_reportVars, NEW i \in Job
  PROVE  QueueStep(i)
<1>0. JobOk /\ JobOk' /\ WorkOk /\ \A r \in Request : RequestOk(r)
  <2>1. JobOk /\ WorkOk /\ \A r \in Request : RequestOk(r)
    BY Parts
  <2>2. JobOk'
    BY DEF RInv, TypeOKReporting, JobOk
  <2>. QED BY <2>1, <2>2
<1>1. ASSUME NEW j \in Job, Swept(j) PROVE QueueStep(i)
  <2>1. status[j] = "running" /\ "cancelled" \in Ends /\ "failed" \in Ends
    BY <1>1 DEF Swept, Ends
  <2>. QED BY <1>0, <1>1, <2>1, QueueEndStep DEF Swept
<1>2. ASSUME NEW w \in Worker, WorkerStep(w) \/ IndexGoesOn(w) PROVE QueueStep(i)
  <2>1. CASE \E j \in Job : Claims(w, j)
    BY <1>0, <2>1, QueueStart
  <2>2. CASE HandlerEnds(w) /\ ~UNCHANGED jobVars
    <3>1. /\ work[w] \in Job /\ holder[work[w]] = w
          /\ \/ stopping[work[w]] /\ EndJob(work[w], "cancelled")
             \/ ~stopping[work[w]] /\ \E end \in Ends \ {"cancelled"} : EndJob(work[w], end)
             \/ ~stopping[work[w]] /\ left[work[w]] > 0 /\ EndJob(work[w], "queued")
      BY <1>0, <2>2 DEF HandlerEnds, WGoto, WorkOk
    <3>2. status[work[w]] = "running"
      BY <1>0, <3>1, ReportingAssumption DEF JobOk, JobInv
    <3>3. "cancelled" \in Ends
      BY DEF Ends
    <3>. QED BY <1>0, <3>1, <3>2, <3>3, QueueEndStep, QueueGiveBack
  <2>3. CASE UNCHANGED jobVars
    BY <1>0, <2>3, QueueStays
  <2>. QED BY <1>2, <2>1, <2>2, <2>3 DEF WorkerStep, IndexGoesOn, FindsCompleted, FindsSnapshot,
    IndexesMaterial, IndexesNot, Indexed, PutChecks, Puts, WorkerEnds
<1>3. ASSUME NEW r \in Request, RequestStep(r) PROVE QueueStep(i)
  <2>1. CASE EnqueuesRebuild(r) \/ Enqueues(r)
    BY <1>0, <2>1, QueueSubmit DEF EnqueuesRebuild, Enqueues
  <2>2. CASE Cancels(r) /\ ~UNCHANGED jobVars
    <3>1. row[r] \in Job /\ CancelJob(row[r])
      BY <1>0, <2>2 DEF Cancels, RGoto, RequestOk
    <3>. QED BY <1>0, <3>1, QueueCancel
  <2>3. CASE UNCHANGED jobVars
    BY <1>0, <2>3, QueueStays
  <2>. QED BY <1>3, <2>1, <2>2, <2>3 DEF RequestStep, AnalyzeBegins, GetChecks, Gets, AnswersWithoutIndex,
    HasIndexBegins, HasIndexScrolls, HasIndexConfirms, ReusesActive, FindsNoActive, Replays, ReadBegins, Reads,
    Confirms, RequestEnds
<1>4. CASE UNCHANGED jobVars
  BY <1>0, <1>4, QueueStays
<1>. QED BY <1>1, <1>2, <1>3, <1>4 DEF NextReporting, reportVars

\* The queue that requests and workers run on is the one JobLifecycle promises,
\* and JobWorker's rows implement.
THEOREM QueueKeepsPromise == SpecReporting => QueuePromise
<1>1. ASSUME RInv, RInv', [NextReporting]_reportVars
      PROVE  [Queue!Next]_(Queue!life)
  <2>1. JobOk'
    BY <1>1 DEF RInv, TypeOKReporting, JobOk
  <2>2. Queue!TypeOK'
    BY <2>1, QueueType, PTL
  <2>. QED BY <1>1, <2>2, QueueMoves DEF Queue!Next, QueueStep
<1>. QED BY <1>1, QueueInit, ReportingInvariant, PTL DEF QueuePromise, Queue!Spec, SpecReporting
=============================================================================
