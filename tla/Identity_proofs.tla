--------------------------- MODULE Identity_proofs ---------------------------
(***************************************************************************)
(* Theorems about Identity, whatever threads share a connection.             *)
(***************************************************************************)
EXTENDS Identity, TLAPS

LEMMA Places ==
  /\ "idle" \in Place /\ "create state" \in Place /\ "consume" \in Place /\ "exchange" \in Place
  /\ "bootstrap" \in Place /\ "user" \in Place /\ "insert" \in Place /\ "userdone" \in Place
  /\ "look" \in Place /\ "save" \in Place /\ "link" \in Place /\ "store" \in Place
  /\ "saved" \in Place /\ "mismatch" \in Place /\ "replace" \in Place /\ "forget" \in Place
  /\ "create session" \in Place /\ "session done" \in Place /\ "respond" \in Place
  /\ "logout" \in Place /\ "refresh" \in Place /\ "verify" \in Place
BY DEF Place, InBlock, Ends, Asks, Begins

LEMMA RowNames ==
  /\ \A a \in Account : User(a) \in Row /\ Credential(a) \in Row /\ Session(a) \in Row
  /\ \A s \in State : Pending(s) \in Row
  /\ \A a \in Account, b \in Account :
       /\ User(a) # Credential(b) /\ User(a) # Session(b) /\ Credential(a) # Session(b)
       /\ a # b => User(a) # User(b) /\ Credential(a) # Credential(b)
  /\ \A a \in Account, s \in State :
       User(a) # Pending(s) /\ Credential(a) # Pending(s) /\ Session(a) # Pending(s)
  /\ \A r \in State, s \in State : r # s => Pending(r) # Pending(s)
BY DEF Row, User, Credential, Session, Pending

LEMMA Shorter ==
  ASSUME NEW S, NEW s \in Seq(S), NEW n \in 0 .. Len(s)
  PROVE  /\ SubSeq(s, 1, n) \in Seq(S) /\ DOMAIN SubSeq(s, 1, n) = 1 .. n
         /\ \A i \in 1 .. n : SubSeq(s, 1, n)[i] = s[i]
         /\ SubSeq(s, 1, n) = <<>> => n = 0
OBVIOUS

-----------------------------------------------------------------------------
(* What a step does to the database.                                         *)

StoreOK ==
  /\ db \in [Row -> Nat]
  /\ dirty \in [Connection -> Writes]
  /\ open \in [Connection -> Seq(Layer)]
  /\ depth \in [Connection -> Int]
  /\ broken \subseteq Connection
  /\ restored \in [State -> Nat]
  /\ undone \subseteq Account

StoreInv == StoreOK /\ RowInv /\ NestInv

\* Nothing new is written, and what comes back is counted.
Settles ==
  /\ StoreInv'
  /\ \A r \in Row, v \in Nat : Holds(r, v)' => Holds(r, v)
  /\ \A s \in State :
       /\ restored[s] <= restored'[s]
       /\ Newest(Pending(s), 1)' => Newest(Pending(s), 1) \/ restored'[s] = restored[s] + 1
  /\ undone \subseteq undone'
  /\ \A a \in Account \ undone', v \in Nat :
       Newest(Credential(a), v)' => Newest(Credential(a), v)
  /\ \A a \in Account : db[User(a)] = 1 => db'[User(a)] = 1

LEMMA RollBackSettles ==
  ASSUME StoreInv, grants' = grants, depth' \in [Connection -> Int], NEW c \in Connection,
         NEW k \in 1 .. Len(open[c]) + 1, Closes(c, k),
         NEW rows \in Writes, RowOK(rows, Kept), RollBack(c, rows),
         \A r \in Row, v \in Nat : rows[r] = v => Holds(r, v),
         \A r \in Row : dirty[c][r] = Kept => rows[r] = Kept,
         \A r \in Row, j \in 1 .. k - 1 : rows[r] = Kept => open[c][j].rows[r] = Kept,
         k = 1 => rows = Clean
  PROVE  Settles
<1> DEFINE layers == SubSeq(open[c], 1, k - 1)
<1>1. /\ layers \in Seq(Layer) /\ DOMAIN layers = 1 .. k - 1
      /\ \A i \in 1 .. k - 1 : layers[i] = open[c][i]
      /\ layers = <<>> => k = 1
  <2>1. open[c] \in Seq(Layer) /\ k - 1 \in 0 .. Len(open[c])
    BY DEF StoreInv, StoreOK
  <2> QED
    BY <2>1, Shorter
<1>2. /\ open' = [open EXCEPT ![c] = layers] /\ dirty' = [dirty EXCEPT ![c] = rows] /\ db' = db
      /\ open'[c] = layers /\ dirty'[c] = rows
      /\ \A d \in Connection \ {c} : open'[d] = open[d] /\ dirty'[d] = dirty[d]
  BY DEF Closes, RollBack, StoreInv, StoreOK
<1>3. StoreOK'
  <2>1. restored' \in [State -> Nat] /\ undone' \subseteq Account /\ broken' \subseteq Connection
    BY DEF RollBack, StoreInv, StoreOK
  <2> QED
    BY <1>1, <1>2, <2>1 DEF StoreInv, StoreOK
<1>4. 1 .. k - 1 \subseteq DOMAIN open[c] /\ Kept \notin Nat
  BY DEF StoreInv, StoreOK, Kept
<1>5. RowInv'
  <2>1. \A rs, x : RowOK(rs, x)' <=> RowOK(rs, x)
    BY DEF RowOK
  <2> QED
    BY <1>1, <1>2, <1>4, <2>1 DEF StoreInv, RowInv
<1>6. NestInv'
  <2>1. ASSUME NEW d \in Connection \ {c}
        PROVE  (open[d] = <<>> => dirty[d] = Clean)' /\ DOMAIN open'[d] = DOMAIN open[d]
    BY <1>2 DEF StoreInv, NestInv, Clean
  <2>2. (open[c] = <<>> => dirty[c] = Clean)'
    BY <1>1, <1>2 DEF Clean
  <2>3. ASSUME NEW i \in 1 .. k - 1, NEW r \in Row
        PROVE  /\ rows[r] = Kept => layers[i].rows[r] = Kept
               /\ \A j \in 1 .. i : layers[i].rows[r] = Kept => layers[j].rows[r] = Kept
    BY <1>1, <1>4 DEF StoreInv, NestInv
  <2>4. ASSUME NEW d \in Connection \ {c}, NEW i \in DOMAIN open'[d], NEW r \in Row
        PROVE  /\ dirty'[d][r] = Kept => open'[d][i].rows[r] = Kept
               /\ \A j \in 1 .. i : open'[d][i].rows[r] = Kept => open'[d][j].rows[r] = Kept
    BY <1>2, <2>4 DEF StoreInv, NestInv
  <2> HIDE DEF layers
  <2> QED
    BY <1>1, <1>2, <2>1, <2>2, <2>3, <2>4 DEF NestInv
<1>7. ASSUME NEW r \in Row, NEW v \in Nat, Holds(r, v)' PROVE Holds(r, v)
  <2>1. db'[r] = v => Holds(r, v)
    BY <1>2 DEF Holds
  <2>2. ASSUME NEW d \in Connection, dirty'[d][r] = v PROVE Holds(r, v)
    <3>1. CASE d = c BY <1>2, <2>2, <3>1
    <3>2. CASE d # c BY <1>2, <2>2, <3>2 DEF Holds
    <3> QED BY <3>1, <3>2
  <2>3. ASSUME NEW d \in Connection, NEW i \in DOMAIN open'[d], open'[d][i].rows[r] = v
        PROVE  Holds(r, v)
    <3>1. i \in DOMAIN open[d] /\ open'[d][i] = open[d][i]
      <4>1. CASE d = c BY <1>1, <1>2, <1>4, <4>1
      <4>2. CASE d # c BY <1>2, <4>2
      <4> QED BY <4>1, <4>2
    <3> QED BY <2>3, <3>1 DEF Holds
  <2> QED BY <1>7, <2>1, <2>2, <2>3 DEF Holds
<1>8. ASSUME NEW r \in Row, NEW v \in Nat, Newest(r, v)'
      PROVE  Newest(r, v) \/ (Seen(rows, r) = v /\ View(c, r) # v)
  BY <1>2, <1>4, <1>8 DEF Newest, Seen, View, StoreInv, StoreOK
<1>9. ASSUME NEW s \in State
      PROVE  /\ restored[s] <= restored'[s]
             /\ Newest(Pending(s), 1)' => Newest(Pending(s), 1) \/ restored'[s] = restored[s] + 1
  <2>1. View(c, Pending(s)) \in {0, 1}
    BY DEF View, Seen, StoreInv, RowInv, RowOK
  <2>2. restored'[s] = restored[s] +
          (IF View(c, Pending(s)) = 0 /\ Seen(rows, Pending(s)) = 1 THEN 1 ELSE 0)
    BY DEF RollBack
  <2>3. restored[s] \in Nat
    BY DEF StoreInv, StoreOK
  <2> QED
    BY <1>8, <2>1, <2>2, <2>3, RowNames
<1>10. ASSUME NEW a \in Account \ undone', NEW v \in Nat, Newest(Credential(a), v)'
       PROVE  Newest(Credential(a), v)
  <2>1. Seen(rows, Credential(a)) = View(c, Credential(a))
    BY <1>10 DEF RollBack
  <2> QED
    BY <1>8, <1>10, <2>1, RowNames
<1>11. undone \subseteq undone'
  BY DEF RollBack
<1> QED
  BY <1>2, <1>3, <1>5, <1>6, <1>7, <1>9, <1>10, <1>11 DEF Settles, StoreInv

LEMMA Unchanged ==
  ASSUME StoreInv, grants' = grants, NEW c \in Connection, depth' \in [Connection -> Int],
         broken' \subseteq Connection, UNCHANGED <<db, dirty, open, restored, undone>>
  PROVE  Settles
<1>1. StoreInv'
  BY DEF StoreInv, StoreOK, RowInv, RowOK, NestInv, Clean
<1>2. \A r \in Row, v \in Nat : (Holds(r, v)' => Holds(r, v)) /\ (Newest(r, v)' => Newest(r, v))
  BY DEF Holds, Newest
<1>3. \A s \in State : restored'[s] = restored[s] /\ restored[s] \in Nat
  BY DEF StoreInv, StoreOK
<1>4. \A s \in State : Newest(Pending(s), 1)' => Newest(Pending(s), 1)
  BY <1>2, RowNames
<1>5. \A a \in Account, v \in Nat : Newest(Credential(a), v)' => Newest(Credential(a), v)
  BY <1>2, RowNames
<1> QED
  BY <1>1, <1>2, <1>3, <1>4, <1>5 DEF Settles

LEMMA EnterSettles ==
  ASSUME IdentityAssumption, StoreInv, grants' = grants, NEW t \in Thread, Enter(t)
  PROVE  Settles
<1> DEFINE c == conn[t]
           layer == [name |-> Name(c), rows |-> dirty[c]]
<1>1. /\ c \in Connection /\ open[c] \in Seq(Layer) /\ dirty[c] \in Writes
      /\ depth[c] \in Int /\ Kept \notin Nat
  BY DEF IdentityAssumption, StoreInv, StoreOK, Kept
<1>2. layer \in Layer
  BY <1>1 DEF Name, Layer
<1>3. /\ open' = [open EXCEPT ![c] = Append(open[c], layer)]
      /\ depth' = [depth EXCEPT ![c] = @ + 1]
      /\ UNCHANGED <<db, dirty, broken, restored, undone>>
  BY DEF Enter
<1>4. /\ Append(open[c], layer) \in Seq(Layer)
      /\ DOMAIN Append(open[c], layer) = 1 .. Len(open[c]) + 1
      /\ \A i \in 1 .. Len(open[c]) : i \in DOMAIN open[c] /\ Append(open[c], layer)[i] = open[c][i]
      /\ Append(open[c], layer)[Len(open[c]) + 1] = layer
      /\ Append(open[c], layer) # <<>>
  <2> HIDE DEF layer
  <2> QED
    BY <1>1, <1>2
<1>5. /\ open'[c] = Append(open[c], layer)
      /\ \A d \in Connection \ {c} : open'[d] = open[d]
  BY <1>1, <1>3 DEF StoreInv, StoreOK
<1>6. StoreOK'
  BY <1>1, <1>3, <1>4 DEF StoreInv, StoreOK
<1>7. layer.rows = dirty[c]
  OBVIOUS
<1> HIDE DEF layer
<1>8. \A d \in Connection : \A i \in DOMAIN open'[d] :
        \/ i \in DOMAIN open[d] /\ open'[d][i] = open[d][i]
        \/ open'[d][i].rows = dirty[d] /\ d = c /\ i = Len(open[c]) + 1
  <2> TAKE d \in Connection
  <2> TAKE i \in DOMAIN open'[d]
  <2>1. CASE d = c
    BY <1>1, <1>4, <1>5, <1>7, <2>1
  <2>2. CASE d # c
    BY <1>5, <2>2
  <2> QED
    BY <2>1, <2>2
<1>9. RowInv'
  <2>1. \A rs, x : RowOK(rs, x)' <=> RowOK(rs, x)
    BY DEF RowOK
  <2> QED
    BY <1>3, <1>8, <2>1 DEF StoreInv, RowInv
<1>10. NestInv'
  <2>1. ASSUME NEW d \in Connection PROVE (open[d] = <<>> => dirty[d] = Clean)'
    BY <1>3, <1>4, <1>5 DEF StoreInv, NestInv, Clean
  <2>2. ASSUME NEW d \in Connection, NEW i \in DOMAIN open'[d], NEW r \in Row
        PROVE  /\ dirty'[d][r] = Kept => open'[d][i].rows[r] = Kept
               /\ \A j \in 1 .. i : open'[d][i].rows[r] = Kept => open'[d][j].rows[r] = Kept
    <3>1. CASE i \in DOMAIN open[d] /\ open'[d][i] = open[d][i]
      <4>1. ASSUME NEW j \in 1 .. i PROVE open'[d][j] = open[d][j]
        <5>1. CASE d = c
          <6>1. j \in 1 .. Len(open[c])
            BY <1>1, <3>1, <4>1, <5>1
          <6> QED
            BY <1>4, <1>5, <5>1, <6>1
        <5> QED
          BY <1>5, <5>1
      <4> QED
        BY <1>3, <3>1, <4>1 DEF StoreInv, NestInv
    <3>2. CASE open'[d][i].rows = dirty[d] /\ d = c /\ i = Len(open[c]) + 1
      <4>1. ASSUME NEW j \in 1 .. i, j # i PROVE j \in DOMAIN open[c] /\ open'[d][j] = open[c][j]
        <5>1. j \in 1 .. Len(open[c])
          BY <1>1, <3>2, <4>1
        <5> QED
          BY <1>4, <1>5, <3>2, <5>1
      <4> QED
        BY <1>3, <3>2, <4>1 DEF StoreInv, NestInv
    <3> QED
      BY <1>8, <3>1, <3>2
  <2> QED
    BY <2>1, <2>2 DEF NestInv
<1>11. \A r \in Row, v \in Nat : (Holds(r, v)' => Holds(r, v)) /\ (Newest(r, v)' => Newest(r, v))
  BY <1>3, <1>8 DEF Holds, Newest
<1>12. \A s \in State : restored'[s] = restored[s] /\ restored[s] \in Nat
  BY <1>3 DEF StoreInv, StoreOK
<1>13. \A s \in State : Newest(Pending(s), 1)' => Newest(Pending(s), 1)
  BY <1>11, RowNames
<1>14. \A a \in Account, v \in Nat : Newest(Credential(a), v)' => Newest(Credential(a), v)
  BY <1>11, RowNames
<1> QED
  BY <1>3, <1>6, <1>9, <1>10, <1>11, <1>12, <1>13, <1>14 DEF Settles, StoreInv

\* What a block's end may roll back to.
LEMMA BackToLayer ==
  ASSUME StoreInv, NEW c \in Connection, NEW i \in DOMAIN open[c]
  PROVE  LET rows == open[c][i].rows IN
         /\ rows \in Writes /\ RowOK(rows, Kept) /\ i \in 1 .. Len(open[c]) + 1
         /\ \A r \in Row, v \in Nat : rows[r] = v => Holds(r, v)
         /\ \A r \in Row : dirty[c][r] = Kept => rows[r] = Kept
         /\ \A r \in Row, j \in 1 .. i - 1 : rows[r] = Kept => open[c][j].rows[r] = Kept
<1>1. open[c] \in Seq(Layer) /\ open[c][i] \in Layer
  BY DEF StoreInv, StoreOK
<1>2. i \in 1 .. Len(open[c]) + 1 /\ 1 .. i - 1 \subseteq 1 .. i
  BY <1>1
<1> QED
  BY <1>1, <1>2 DEF StoreInv, RowInv, NestInv, Holds, Layer

LEMMA BackToClean ==
  ASSUME StoreInv, NEW c \in Connection
  PROVE  /\ Clean \in Writes /\ RowOK(Clean, Kept) /\ 1 \in 1 .. Len(open[c]) + 1
         /\ \A r \in Row, v \in Nat : Clean[r] = v => Holds(r, v)
         /\ \A r \in Row : dirty[c][r] = Kept => Clean[r] = Kept
         /\ \A r \in Row, j \in 1 .. 1 - 1 : Clean[r] = Kept => open[c][j].rows[r] = Kept
<1>1. \A r \in Row : Clean[r] = Kept
  BY DEF Clean
<1>2. Clean \in Writes /\ Kept \notin Nat
  BY DEF Clean, Writes, Kept
<1>3. RowOK(Clean, Kept)
  BY <1>1, RowNames DEF RowOK
<1>4. Len(open[c]) \in Nat
  BY DEF StoreInv, StoreOK
<1> QED
  BY <1>1, <1>2, <1>3, <1>4

LEMMA RestartSettles ==
  ASSUME StoreInv, grants' = grants, NEW c \in Connection, depth' \in [Connection -> Int],
         Closes(c, 1), RollBack(c, Clean)
  PROVE  Settles
BY BackToClean, RollBackSettles

LEMMA CommitSettles ==
  ASSUME StoreInv, grants' = grants, NEW c \in Connection, depth' \in [Connection -> Int],
         Closes(c, 1), Commit(c)
  PROVE  Settles
<1>1. /\ open' = [open EXCEPT ![c] = <<>>] /\ dirty' = [dirty EXCEPT ![c] = Clean]
      /\ db' = [r \in Row |-> View(c, r)] /\ UNCHANGED <<broken, restored, undone>>
  <2>1. open[c] \in Seq(Layer) /\ 1 - 1 = 0 /\ 0 \in 0 .. Len(open[c])
    BY DEF StoreInv, StoreOK
  <2>2. SubSeq(open[c], 1, 1 - 1) = <<>>
    BY <2>1
  <2> QED
    BY <2>2 DEF Closes, Commit
<1>2. /\ open'[c] = <<>> /\ dirty'[c] = Clean /\ Kept \notin Nat
      /\ \A d \in Connection \ {c} : open'[d] = open[d] /\ dirty'[d] = dirty[d]
      /\ \A r \in Row : Clean[r] = Kept /\ db'[r] = IF dirty[c][r] = Kept THEN db[r] ELSE dirty[c][r]
  BY <1>1 DEF StoreInv, StoreOK, View, Seen, Clean, Kept
<1>3. \A r \in Row : db'[r] \in Nat
  <2> TAKE r \in Row
  <2>1. dirty[c][r] \in Nat \cup {Kept} /\ db[r] \in Nat
    BY DEF StoreInv, StoreOK, Writes
  <2> QED
    BY <1>2, <2>1
<1>4. StoreOK'
  <2>1. <<>> \in Seq(Layer) /\ Clean \in Writes
    BY BackToClean
  <2>2. db' \in [Row -> Nat]
    BY <1>1, <1>3
  <2> QED
    BY <1>1, <2>1, <2>2 DEF StoreInv, StoreOK
<1>5. RowInv'
  <2>1. \A rs, x : RowOK(rs, x)' <=> RowOK(rs, x)
    BY DEF RowOK
  <2>2. RowOK(db', 0)
    BY <1>2, RowNames DEF StoreInv, RowInv, RowOK
  <2>3. RowOK(Clean, Kept)
    BY BackToClean
  <2>4. RowOK(db, 0)'
    BY <2>2 DEF RowOK
  <2> QED
    BY <1>2, <2>1, <2>3, <2>4 DEF StoreInv, RowInv
<1>6. NestInv'
  BY <1>2 DEF StoreInv, NestInv, Clean
<1>7. ASSUME NEW r \in Row, NEW v \in Nat
      PROVE  (Holds(r, v)' => Holds(r, v)) /\ (Newest(r, v)' => Newest(r, v))
  BY <1>2 DEF Holds, Newest
<1>8. \A s \in State : restored'[s] = restored[s] /\ restored[s] \in Nat
  BY <1>1 DEF StoreInv, StoreOK
<1>9. \A s \in State : Newest(Pending(s), 1)' => Newest(Pending(s), 1)
  BY <1>7, RowNames
<1>10. \A a \in Account, v \in Nat : Newest(Credential(a), v)' => Newest(Credential(a), v)
  BY <1>7, RowNames
<1>11. \A a \in Account : db[User(a)] = 1 => db'[User(a)] = 1
  BY <1>2, RowNames DEF StoreInv, RowInv, RowOK
<1> QED
  BY <1>1, <1>4, <1>5, <1>6, <1>7, <1>8, <1>9, <1>10, <1>11 DEF Settles, StoreInv

LEMMA ReleaseSettles ==
  ASSUME StoreInv, grants' = grants, NEW c \in Connection, depth' \in [Connection -> Int],
         NEW k \in DOMAIN open[c], k # 1, Closes(c, k),
         UNCHANGED <<db, dirty, broken, restored, undone>>
  PROVE  Settles
<1> DEFINE layers == SubSeq(open[c], 1, k - 1)
<1>1. /\ layers \in Seq(Layer) /\ DOMAIN layers = 1 .. k - 1 /\ layers # <<>>
      /\ \A i \in 1 .. k - 1 : layers[i] = open[c][i]
  <2>1. open[c] \in Seq(Layer) /\ k - 1 \in 0 .. Len(open[c]) /\ k - 1 # 0
    BY DEF StoreInv, StoreOK
  <2> QED
    BY <2>1, Shorter
<1>2. /\ open' = [open EXCEPT ![c] = layers] /\ open'[c] = layers
      /\ \A d \in Connection \ {c} : open'[d] = open[d]
      /\ 1 .. k - 1 \subseteq DOMAIN open[c]
  BY DEF Closes, StoreInv, StoreOK
<1>3. StoreOK'
  BY <1>1, <1>2 DEF StoreInv, StoreOK
<1> HIDE DEF layers
<1>4. \A d \in Connection : \A i \in DOMAIN open'[d] :
        i \in DOMAIN open[d] /\ open'[d][i] = open[d][i]
  BY <1>1, <1>2
<1>5. RowInv'
  <2>1. \A rs, x : RowOK(rs, x)' <=> RowOK(rs, x)
    BY DEF RowOK
  <2> QED
    BY <1>4, <2>1 DEF StoreInv, RowInv
<1>6. NestInv'
  <2>1. \A d \in Connection : (open[d] = <<>> => dirty[d] = Clean)'
    BY <1>1, <1>2 DEF StoreInv, NestInv, Clean
  <2>2. ASSUME NEW d \in Connection, NEW i \in DOMAIN open'[d], NEW j \in 1 .. i
        PROVE  open'[d][j] = open[d][j]
    <3>1. CASE d = c
      <4>1. j \in 1 .. k - 1
        <5>1. i \in 1 .. k - 1 /\ k \in Nat
          BY <1>1, <1>2, <2>2, <3>1 DEF StoreInv, StoreOK
        <5> QED
          BY <5>1
      <4> QED
        BY <1>1, <1>2, <3>1, <4>1
    <3> QED
      BY <1>2, <3>1
  <2> QED
    BY <1>4, <2>1, <2>2 DEF StoreInv, NestInv
<1>7. \A r \in Row, v \in Nat : (Holds(r, v)' => Holds(r, v)) /\ (Newest(r, v)' => Newest(r, v))
  BY <1>4 DEF Holds, Newest
<1>8. \A s \in State : restored'[s] = restored[s] /\ restored[s] \in Nat
  BY DEF StoreInv, StoreOK
<1>9. \A s \in State : Newest(Pending(s), 1)' => Newest(Pending(s), 1)
  BY <1>7, RowNames
<1>10. \A a \in Account, v \in Nat : Newest(Credential(a), v)' => Newest(Credential(a), v)
  BY <1>7, RowNames
<1> QED
  BY <1>3, <1>5, <1>6, <1>7, <1>8, <1>9, <1>10 DEF Settles, StoreInv

LEMMA BlockSettles ==
  ASSUME IdentityAssumption, StoreInv, grants' = grants, NEW t \in Thread,
         Exit(t) \/ Abort(t) \/ ExitFails(t) \/ StatementFails(t)
  PROVE  Settles
<1> DEFINE c == conn[t]
<1>1. c \in Connection /\ depth \in [Connection -> Int] /\ broken \subseteq Connection
  BY DEF IdentityAssumption, StoreInv, StoreOK
<1>2. depth' \in [Connection -> Int]
  BY <1>1 DEF Exit, Abort, ExitFails, StatementFails, Pop
<1>3. CASE Closes(c, 1) /\ RollBack(c, Clean)
  BY <1>1, <1>2, <1>3, RestartSettles
<1>4. CASE Closes(c, 1) /\ Commit(c)
  BY <1>1, <1>2, <1>4, CommitSettles
<1>5. ASSUME NEW i \in DOMAIN open[c], i # 1, Closes(c, i), RollBack(c, open[c][i].rows)
      PROVE  Settles
  <2> DEFINE rows == open[c][i].rows
  <2>1. /\ rows \in Writes /\ RowOK(rows, Kept) /\ i \in 1 .. Len(open[c]) + 1
        /\ \A r \in Row, v \in Nat : rows[r] = v => Holds(r, v)
        /\ \A r \in Row : dirty[c][r] = Kept => rows[r] = Kept
        /\ \A r \in Row, j \in 1 .. i - 1 : rows[r] = Kept => open[c][j].rows[r] = Kept
    BY <1>1, BackToLayer
  <2>2. RollBack(c, rows)
    BY <1>5
  <2> HIDE DEF rows
  <2> QED
    BY <1>1, <1>2, <1>5, <2>1, <2>2, RollBackSettles
<1>6. ASSUME NEW i \in DOMAIN open[c], i # 1, Closes(c, i),
             UNCHANGED <<db, dirty, broken, restored, undone>>
      PROVE  Settles
  BY <1>1, <1>2, <1>6, ReleaseSettles
<1>7. CASE Breaks(c)
  <2>1. broken' \subseteq Connection /\ UNCHANGED <<db, dirty, open, restored, undone>>
    BY <1>1, <1>7 DEF Breaks
  <2> QED
    BY <1>1, <1>2, <2>1, Unchanged
<1>8. CASE UNCHANGED <<db, dirty, open, broken, restored, undone>>
  BY <1>1, <1>2, <1>8, Unchanged
<1>9. \A i : Savepoint(t, i) => i # 1
  BY DEF Savepoint
<1>10. CASE Exit(t)
  BY <1>3, <1>4, <1>6, <1>9, <1>10 DEF Exit
<1>11. CASE Abort(t)
  BY <1>3, <1>5, <1>7, <1>9, <1>11 DEF Abort
<1>12. CASE ExitFails(t)
  BY <1>3, <1>7, <1>8, <1>12 DEF ExitFails
<1>13. CASE StatementFails(t)
  BY <1>7, <1>13 DEF StatementFails
<1> QED
  BY <1>10, <1>11, <1>12, <1>13

\* A statement writes one row, and what it writes is the newest of it.
LEMMA WriteEffect ==
  ASSUME IdentityAssumption, StoreInv, grants' = grants, NEW t \in Thread,
         NEW r \in Row, NEW v \in Nat, Write(t, r, v),
         \A s \in State : r = Pending(s) => v \in {0, 1},
         \A a \in Account : /\ r = User(a) => v = 1
                            /\ r = Credential(a) => v \in 1 .. Len(grants)
  PROVE  /\ StoreInv'
         /\ \A x \in Row, y \in Nat : Holds(x, y)' => Holds(x, y) \/ (x = r /\ y = v)
         /\ \A x \in Row \ {r}, y \in Nat : Newest(x, y)' => Newest(x, y)
         /\ \A y \in Nat : Newest(r, y)' => y = v
         /\ View(conn[t], r) \in Nat /\ Newest(r, View(conn[t], r))
         /\ restored' = restored /\ undone' = {a \in undone : r # Credential(a)}
         /\ \A a \in Account : db[User(a)] = 1 => db'[User(a)] = 1
<1> DEFINE c == conn[t]
<1>1. /\ c \in Connection /\ Kept \notin Nat
      /\ \A d \in Connection : dirty[d] \in Writes /\ open[d] \in Seq(Layer)
      /\ \A d \in Connection \ {c} : dirty[d][r] = Kept
      /\ UNCHANGED <<open, depth, broken, restored>>
      /\ undone' = {a \in undone : r # Credential(a)}
  BY DEF IdentityAssumption, StoreInv, StoreOK, Kept, Write, Unlocked
<1>2. View(c, r) \in Nat /\ Newest(r, View(c, r))
  <2>1. dirty[c][r] \in Nat \cup {Kept} /\ db[r] \in Nat
    BY <1>1 DEF StoreInv, StoreOK, Writes
  <2> QED
    BY <1>1, <2>1 DEF View, Seen, Newest
<1>3. \A rs, x : RowOK(rs, x)' <=> RowOK(rs, x)
  BY DEF RowOK
<1>4. ASSUME open[c] = <<>>
      PROVE  /\ StoreInv'
             /\ \A x \in Row, y \in Nat : Holds(x, y)' => Holds(x, y) \/ (x = r /\ y = v)
             /\ \A x \in Row \ {r}, y \in Nat : Newest(x, y)' => Newest(x, y)
             /\ \A y \in Nat : Newest(r, y)' => y = v
             /\ \A a \in Account : db[User(a)] = 1 => db'[User(a)] = 1
  <2>1. db' = [db EXCEPT ![r] = v] /\ dirty' = dirty
    BY <1>4 DEF Write
  <2>2. db'[r] = v /\ \A x \in Row \ {r} : db'[x] = db[x]
    BY <2>1 DEF StoreInv, StoreOK
  <2>3. StoreOK'
    BY <1>1, <2>1 DEF StoreInv, StoreOK
  <2>4. RowOK(db', 0)
    BY <2>2, RowNames DEF StoreInv, RowInv, RowOK
  <2>5. RowInv'
    BY <1>1, <1>3, <2>1, <2>4 DEF StoreInv, RowInv
  <2>6. NestInv'
    BY <1>1, <2>1 DEF StoreInv, NestInv, Clean
  <2>7. dirty[c][r] = Kept
    BY <1>1, <1>4 DEF StoreInv, NestInv, Clean
  <2>8. \A y \in Nat : Newest(r, y)' => y = v
    BY <1>1, <2>1, <2>2, <2>7 DEF Newest
  <2>9. \A x \in Row \ {r}, y \in Nat : Newest(x, y)' => Newest(x, y)
    BY <2>1, <2>2 DEF Newest
  <2>10. \A x \in Row, y \in Nat : Holds(x, y)' => Holds(x, y) \/ (x = r /\ y = v)
    BY <1>1, <2>1, <2>2 DEF Holds
  <2>11. \A a \in Account : db[User(a)] = 1 => db'[User(a)] = 1
    BY <2>2, RowNames
  <2> QED
    BY <2>3, <2>5, <2>6, <2>8, <2>9, <2>10, <2>11 DEF StoreInv
<1>5. ASSUME open[c] # <<>>
      PROVE  /\ StoreInv'
             /\ \A x \in Row, y \in Nat : Holds(x, y)' => Holds(x, y) \/ (x = r /\ y = v)
             /\ \A x \in Row \ {r}, y \in Nat : Newest(x, y)' => Newest(x, y)
             /\ \A y \in Nat : Newest(r, y)' => y = v
             /\ \A a \in Account : db[User(a)] = 1 => db'[User(a)] = 1
  <2>1. db' = db /\ dirty' = [dirty EXCEPT ![c] = [dirty[c] EXCEPT ![r] = v]]
    BY <1>5 DEF Write
  <2>2. /\ dirty'[c] = [dirty[c] EXCEPT ![r] = v] /\ dirty'[c] \in Writes
        /\ dirty'[c][r] = v /\ \A x \in Row \ {r} : dirty'[c][x] = dirty[c][x]
        /\ \A d \in Connection \ {c} : dirty'[d] = dirty[d]
    BY <1>1, <2>1 DEF StoreInv, StoreOK, Writes
  <2>3. StoreOK'
    BY <1>1, <2>1, <2>2 DEF StoreInv, StoreOK
  <2>4. RowOK(dirty'[c], Kept)
    <3>1. RowOK(dirty[c], Kept)
      BY <1>1 DEF StoreInv, RowInv
    <3> QED
      BY <2>2, <3>1, RowNames DEF RowOK
  <2>5. RowInv'
    BY <1>1, <1>3, <2>1, <2>2, <2>4 DEF StoreInv, RowInv
  <2>6. NestInv'
    <3>1. \A d \in Connection : \A x \in Row : dirty'[d][x] = Kept => dirty[d][x] = Kept
      BY <1>1, <2>2
    <3>2. \A d \in Connection : open'[d] = <<>> => dirty'[d] = Clean
      BY <1>1, <1>5, <2>2 DEF StoreInv, NestInv
    <3>3. Clean' = Clean
      BY DEF Clean
    <3> QED
      BY <1>1, <3>1, <3>2, <3>3 DEF StoreInv, NestInv
  <2>8. \A y \in Nat : Newest(r, y)' => y = v
    BY <1>1, <2>1, <2>2 DEF Newest
  <2>9. \A x \in Row \ {r}, y \in Nat : Newest(x, y)' => Newest(x, y)
    BY <1>1, <2>1, <2>2 DEF Newest
  <2>10. \A x \in Row, y \in Nat : Holds(x, y)' => Holds(x, y) \/ (x = r /\ y = v)
    BY <1>1, <2>1, <2>2 DEF Holds
  <2> QED
    BY <2>1, <2>3, <2>5, <2>6, <2>8, <2>9, <2>10 DEF StoreInv
<1> QED
  BY <1>1, <1>2, <1>4, <1>5

-----------------------------------------------------------------------------
(* What a step does to the rest.                                             *)

RestOK ==
  /\ pc \in [Thread -> Place]
  /\ req \in [Thread -> Request]
  /\ binding \in [Browser -> State \cup {None}]
  /\ cookie \in [Browser -> Nat]
  /\ sessions \in Nat
  /\ started \in [State -> Started]
  /\ uses \in [State -> Nat]
  /\ grants \in Seq(Grant)
  /\ lost \subseteq Account

LEMMA Typed ==
  TypeOK <=> StoreOK /\ RestOK
BY DEF TypeOK, StoreOK, RestOK

LEMMA RequestTyped ==
  ASSUME RestOK, NEW t \in Thread
  PROVE  /\ \A v \in Int : Fill(t, "block", v) => req' \in [Thread -> Request]
         /\ \A v \in Nat : Fill(t, "grant", v) \/ Fill(t, "session", v)
                => req' \in [Thread -> Request]
         /\ \A a \in Account : Fill(t, "user", a) => req' \in [Thread -> Request]
         /\ NoRequest \in Request
         /\ Over(t) => pc' \in [Thread -> Place] /\ req' \in [Thread -> Request]
         /\ \A f \in Place, g \in Place :
              /\ Goto(t, f, g) => pc' \in [Thread -> Place]
              /\ Moves(t, f, g) => RestOK'
<1>1. NoRequest \in Request
  BY DEF NoRequest, Request
<1>2. ASSUME NEW v \in Int, Fill(t, "block", v) PROVE req' \in [Thread -> Request]
  BY <1>2 DEF Fill, RestOK, Request
<1>3. ASSUME NEW v \in Nat, Fill(t, "grant", v) \/ Fill(t, "session", v)
      PROVE  req' \in [Thread -> Request]
  <2>2. CASE Fill(t, "grant", v)
    BY <2>2 DEF Fill, RestOK, Request
  <2>3. CASE Fill(t, "session", v)
    BY <2>3 DEF Fill, RestOK, Request
  <2> QED
    BY <1>3, <2>2, <2>3
<1>4. ASSUME NEW a \in Account, Fill(t, "user", a) PROVE req' \in [Thread -> Request]
  BY <1>4 DEF Fill, RestOK, Request
<1> QED
  BY <1>1, <1>2, <1>3, <1>4, Places DEF RestOK, Over, Goto, Moves, site, history

\* The row of a grant that a request may take along.
LEMMA ViewTyped ==
  ASSUME IdentityAssumption, StoreInv, NEW t \in Thread, NEW r \in Row
  PROVE  /\ View(conn[t], r) \in Nat /\ Holds(r, View(conn[t], r))
         /\ Unlocked(t, r) => Newest(r, View(conn[t], r))
<1>1. conn[t] \in Connection /\ db[r] \in Nat /\ dirty[conn[t]][r] \in Nat \cup {Kept} /\ Kept \notin Nat
  BY DEF IdentityAssumption, StoreInv, StoreOK, Writes, Kept
<1> QED
  BY <1>1 DEF View, Seen, Holds, Newest, Unlocked

LEMMA BlockTyped ==
  ASSUME IdentityAssumption, StoreInv, RestOK, NEW t \in Thread, NEW f \in Place, NEW g \in Place,
         Block(t, f, g)
  PROVE  RestOK'
<1>1. Name(conn[t]) \in Int
  BY DEF Name, StoreInv, StoreOK, IdentityAssumption
<1> QED
  BY <1>1, RequestTyped DEF Block, RestOK, site, history

LEMMA RestStep ==
  ASSUME IdentityAssumption, StoreInv, RestOK, NEW t \in Thread, RequestOK(t), Handle(t)
  PROVE  RestOK'
<1> USE DEF site, history
<1>1. CASE Browse(t)
  <2>1. ASSUME NEW b \in Browser, NEW s \in State, LoginStarts(t, b, s) PROVE RestOK'
    BY <2>1 DEF LoginStarts, RestOK, Started
  <2>2. ASSUME NEW r \in Request, NEW p \in Place, Accept(t, p, r) PROVE RestOK'
    BY <2>2, RequestTyped DEF Accept, Goto, RestOK
  <2>3. ASSUME NEW b \in Browser, NEW s \in State, LoginReturns(t, b, s) PROVE RestOK'
    <3>1. [NoRequest EXCEPT !.state = s, !.browser = b, !.binding = binding[b],
                            !.session = cookie[b]] \in Request
      BY RequestTyped DEF RestOK, Request
    <3> QED
      BY <2>2, <2>3, <3>1, Places DEF LoginReturns
  <2>4. ASSUME NEW b \in Browser, NEW a \in Account, PrivateStarts(t, b, a) PROVE RestOK'
    <3>1. [NoRequest EXCEPT !.browser = b, !.user = a] \in Request
      BY RequestTyped DEF Request
    <3> QED
      BY <2>2, <2>4, <3>1, Places DEF PrivateStarts
  <2>5. ASSUME NEW b \in Browser, NEW a \in Account, LogoutBegins(t, b, a) PROVE RestOK'
    <3>1. [NoRequest EXCEPT !.browser = b, !.session = cookie[b]] \in Request
      BY RequestTyped DEF RestOK, Request
    <3> QED
      BY <2>2, <2>5, <3>1, Places DEF LogoutBegins
  <2>6. ASSUME NEW b \in Browser, NEW s \in State, NEW a \in Account, PrivateReturns(t, b, s, a)
        PROVE  RestOK'
    <3>1. [NoRequest EXCEPT !.state = s, !.browser = b, !.user = a, !.session = cookie[b]]
             \in Request
      BY RequestTyped DEF RestOK, Request
    <3> QED
      BY <2>2, <2>6, <3>1, Places DEF PrivateReturns
  <2> QED
    BY <1>1, <2>1, <2>3, <2>4, <2>5, <2>6 DEF Browse
<1>2. ASSUME NEW s \in State, StateCreated(t, s) PROVE RestOK'
  <2>1. [purpose |-> "private", browser |-> req[t].browser, user |-> req[t].user] \in Started
    BY DEF RestOK, Request, Started
  <2> QED
    BY <1>2, <2>1, RequestTyped DEF StateCreated, RestOK
<1>3. CASE LoggedOut(t)
  BY <1>3, RequestTyped DEF LoggedOut, RestOK
<1>4. CASE Consume(t)
  <2>1. /\ Goto(t, "consume", "exchange") /\ uses' = [uses EXCEPT ![req[t].state] = @ + 1]
        /\ UNCHANGED <<req, binding, cookie, sessions, started, history>>
    BY <1>4 DEF Consume
  <2>2. uses' \in [State -> Nat]
    <3>1. uses \in [State -> Nat] /\ req[t].state \in State
      BY <2>1 DEF RestOK, Goto, RequestOK
    <3>2. uses[req[t].state] + 1 \in Nat
      BY <3>1
    <3> QED
      BY <2>1, <3>1, <3>2
  <2>3. pc' \in [Thread -> Place]
    BY <2>1, Places, RequestTyped
  <2> QED
    BY <2>1, <2>2, <2>3 DEF RestOK
<1>5. CASE ConsumeFindsNone(t)
  BY <1>5, RequestTyped DEF ConsumeFindsNone, RestOK
<1>6. ASSUME NEW a \in Account, LoginGranted(t, a) PROVE RestOK'
  BY <1>6, Places, RequestTyped DEF LoginGranted, Goto, RestOK
<1>7. ASSUME NEW a \in Account, PrivateGranted(t, a) PROVE RestOK'
  <2>1. req[t].state \in State /\ started[req[t].state].user \in Account \cup {None}
    BY <1>7 DEF PrivateGranted, Goto, RequestOK, RestOK, Started
  <2>2. grants' \in Seq(Grant)
    BY <1>7, <2>1 DEF PrivateGranted, RestOK, Grant
  <2>3. req' \in [Thread -> Request] /\ pc' \in [Thread -> Place]
    <3>1. Len(grants) + 1 \in Nat
      BY DEF RestOK
    <3>2. Fill(t, "grant", Len(grants) + 1) /\ Goto(t, "exchange", "save")
      BY <1>7 DEF PrivateGranted
    <3> QED
      BY <3>1, <3>2, Places, RequestTyped
  <2> QED
    BY <1>7, <2>2, <2>3 DEF PrivateGranted, RestOK
<1>8. ASSUME NEW a \in Account, TokenLoaded(t, a) PROVE RestOK'
  <2>1. View(conn[t], Credential(a)) \in Nat
    BY ViewTyped, RowNames
  <2>2. [NoRequest EXCEPT !.user = a, !.grant = View(conn[t], Credential(a))] \in Request
    BY <2>1, RequestTyped DEF Request
  <2> QED
    BY <1>8, <2>2, Places, RequestTyped DEF TokenLoaded, Accept, Goto, RestOK
<1>9. CASE Bootstrap(t)
  <2>1. ASSUME Look(t) PROVE RestOK'
    BY <2>1, Places, RequestTyped DEF Look, RestOK
  <2>2. ASSUME BootstrapBegins(t) PROVE RestOK'
    BY <2>2, Places, BlockTyped DEF BootstrapBegins
  <2> QED
    BY <1>9, <2>1, <2>2, Places, RequestTyped DEF Bootstrap, UserUpdated, UserMissing,
       UserInserted, UniqueViolation, Bootstrapped
<1>10. CASE SaveVerifiedToken(t)
  <2>1. ASSUME SaveBegins(t) PROVE RestOK'
    BY <2>1, Places, BlockTyped DEF SaveBegins
  <2>2. ASSUME Mismatched(t) PROVE RestOK'
    <3>1. req[t].user \in Account
      BY <2>2 DEF Mismatched, RequestOK
    <3> QED
      BY <2>2, <3>1, RequestTyped DEF Mismatched, Raises, RestOK
  <2>3. ASSUME TokenSaved(t) PROVE RestOK'
    BY <2>3, RequestTyped DEF TokenSaved, RestOK
  <2>4. ASSUME Store(t) PROVE RestOK'
    BY <2>4, Places, RequestTyped DEF Store, RestOK
  <2> QED
    BY <1>10, <2>1, <2>2, <2>3, <2>4, Places, RequestTyped DEF SaveVerifiedToken, Link,
       LinkFindsNone, Saved
<1>11. CASE IssueSession(t)
  <2>1. ASSUME ReplaceBegins(t) PROVE RestOK'
    BY <2>1, Places, BlockTyped DEF ReplaceBegins
  <2>2. ASSUME SessionCreated(t) PROVE RestOK'
    <3>1. sessions + 1 \in Nat
      BY DEF RestOK
    <3>2. /\ Fill(t, "session", sessions + 1) /\ Goto(t, "create session", "session done")
          /\ sessions' = sessions + 1 /\ UNCHANGED <<binding, cookie, started, uses, history>>
      BY <2>2 DEF SessionCreated
    <3>3. req' \in [Thread -> Request] /\ pc' \in [Thread -> Place]
      BY <3>1, <3>2, Places, RequestTyped
    <3> QED
      BY <3>1, <3>2, <3>3 DEF RestOK
  <2>3. ASSUME Respond(t) PROVE RestOK'
    <3>1. req[t].session \in Nat
      BY DEF RestOK, Request
    <3> QED
      BY <2>3, <3>1, RequestTyped DEF Respond, RestOK
  <2> QED
    BY <1>11, <2>1, <2>2, <2>3, Places, RequestTyped DEF IssueSession, PreviousForgotten,
       Replaced
<1>12. CASE Refreshed(t)
  <2>1. req[t].grant \in 1 .. Len(grants)
    BY <1>12 DEF Refreshed, Goto, RequestOK
  <2>2. grants' \in Seq(Grant)
    <3>1. grants[req[t].grant] \in Grant
      BY <2>1 DEF RestOK
    <3>2. [grants[req[t].grant] EXCEPT !.spent = TRUE] \in Grant
      BY <3>1 DEF Grant
    <3>3. [grants EXCEPT ![req[t].grant].spent = TRUE] \in Seq(Grant)
      BY <2>1, <3>2 DEF RestOK
    <3> QED
      BY <1>12, <3>1, <3>3 DEF Refreshed
  <2> QED
    <3>1. Len(grants) + 1 \in Nat
      BY DEF RestOK
    <3>2. Fill(t, "grant", Len(grants) + 1) /\ Goto(t, "refresh", "verify")
      BY <1>12 DEF Refreshed
    <3>3. req' \in [Thread -> Request] /\ pc' \in [Thread -> Place]
      BY <3>1, <3>2, Places, RequestTyped
    <3> QED
      BY <1>12, <2>2, <3>3 DEF Refreshed, RestOK
<1>13. CASE Verifies(t)
  BY <1>13, Places, RequestTyped DEF Verifies, Goto, RestOK
<1>14. CASE Fails(t)
  <2>1. Carries(t) => req[t].user \in Account
    BY DEF Carries, RequestOK
  <2> QED
    BY <1>14, <2>1, RequestTyped DEF Fails, Raises, RestOK
<1>15. CASE FailsAtOnce(t)
  BY <1>15 DEF FailsAtOnce, RestOK
<1> QED
  BY <1>1, <1>2, <1>3, <1>4, <1>5, <1>6, <1>7, <1>8, <1>9, <1>10, <1>11, <1>12, <1>13, <1>14, <1>15
  DEF Handle, Grants

\* A step of thread t is its own, and leaves alone the states already started.
LEMMA Others ==
  ASSUME RestOK, NEW t \in Thread, Handle(t)
  PROVE  /\ \A u \in Thread \ {t} : pc'[u] = pc[u] /\ req'[u] = req[u]
         /\ \A s \in State : started[s].purpose # "none" => started'[s] = started[s]
<1>1. pc \in [Thread -> Place] /\ req \in [Thread -> Request] /\ started \in [State -> Started]
  BY DEF RestOK
<1>2. \A u \in Thread \ {t} : pc'[u] = pc[u] /\ req'[u] = req[u]
  BY <1>1 DEF Handle, Browse, Grants, Bootstrap, SaveVerifiedToken, IssueSession, LoginStarts,
     PrivateStarts, StateCreated, LogoutBegins, LoggedOut, LoginReturns, PrivateReturns, Consume,
     ConsumeFindsNone, LoginGranted, PrivateGranted, BootstrapBegins, UserUpdated, UserMissing,
     UserInserted, UniqueViolation, Look, Bootstrapped, SaveBegins, Link, LinkFindsNone, Store,
     Mismatched, Saved, TokenSaved, ReplaceBegins, PreviousForgotten, SessionCreated, Replaced,
     Respond, TokenLoaded, Refreshed, Verifies, Fails, FailsAtOnce, Goto, Moves, Fill, Accept,
     Block, Over, Raises
<1> DEFINE Stay == \A s \in State : started[s].purpose # "none" => started'[s] = started[s]
<1>3. ASSUME Browse(t) PROVE Stay
  BY <1>1, <1>3 DEF Browse, LoginStarts, PrivateStarts, LogoutBegins, LoginReturns,
     PrivateReturns, Accept, site
<1>4. ASSUME NEW r \in State, StateCreated(t, r) PROVE Stay
  BY <1>1, <1>4 DEF StateCreated
<1>5. ASSUME ~Browse(t), ~\E r \in State : StateCreated(t, r) PROVE Stay
  BY <1>5 DEF Handle, Grants, Bootstrap, SaveVerifiedToken, IssueSession, LoggedOut, Consume,
     ConsumeFindsNone, LoginGranted, PrivateGranted, BootstrapBegins, UserUpdated, UserMissing,
     UserInserted, UniqueViolation, Look, Bootstrapped, SaveBegins, Link, LinkFindsNone, Store,
     Mismatched, Saved, TokenSaved, ReplaceBegins, PreviousForgotten, SessionCreated, Replaced,
     Respond, TokenLoaded, Refreshed, Verifies, Fails, FailsAtOnce, Moves, Accept, Block, site
<1> QED
  BY <1>2, <1>3, <1>4, <1>5

-----------------------------------------------------------------------------
(* The kinds of step.                                                        *)

Same == UNCHANGED <<grants, started, uses>>

\* Begins, ends or breaks a block, or does nothing to the database.
Quiet(t) ==
  UNCHANGED store \/ Enter(t) \/ Exit(t) \/ Abort(t) \/ ExitFails(t) \/ StatementFails(t)

Creates(t, s) ==
  /\ started[s].purpose = "none" /\ started'[s].purpose # "none"
  /\ Write(t, Pending(s), 1) /\ UNCHANGED <<grants, uses>>
  /\ \A r \in State \ {s} : started'[r] = started[r]

Kind(t) ==
  \/ Quiet(t) /\ Same
  \/ (\E a \in Account, v \in Nat : Write(t, Session(a), v)) /\ Same
  \/ req[t].user \in Account /\ Write(t, User(req[t].user), 1) /\ Same
  \/ \E s \in State : Creates(t, s)
  \/ Consume(t)
  \/ Store(t)
  \/ \E a \in Account : PrivateGranted(t, a)
  \/ Refreshed(t)

LEMMA Kinds ==
  ASSUME RestOK, NEW t \in Thread, RequestOK(t), Handle(t)
  PROVE  Kind(t)
<1> USE DEF site, history, Same
<1>1. Read(t) => UNCHANGED store
  BY DEF Read
<1>2. CASE Browse(t)
  <2>1. ASSUME NEW b \in Browser, NEW s \in State, LoginStarts(t, b, s) PROVE Kind(t)
    BY <2>1 DEF LoginStarts, Kind, Creates, RestOK
  <2> QED
    BY <1>1, <1>2, <2>1 DEF Browse, PrivateStarts, LogoutBegins, LoginReturns, PrivateReturns,
       Accept, Kind, Quiet
<1>3. ASSUME NEW s \in State, StateCreated(t, s) PROVE Kind(t)
  BY <1>3 DEF StateCreated, Kind, Creates, RestOK
<1>4. CASE LoggedOut(t)
  BY <1>1, <1>4 DEF LoggedOut, Forgets, Kind, Quiet
<1>5. CASE ConsumeFindsNone(t)
  BY <1>1, <1>5 DEF ConsumeFindsNone, Kind, Quiet
<1>6. ASSUME NEW a \in Account, LoginGranted(t, a) \/ TokenLoaded(t, a) PROVE Kind(t)
  BY <1>1, <1>6 DEF LoginGranted, TokenLoaded, Accept, Kind, Quiet
<1>7. CASE UserUpdated(t) \/ UserInserted(t) \/ Link(t)
  <2>1. req[t].user \in Account
    <3>1. pc[t] \in {"user", "insert", "link"}
      BY <1>7 DEF UserUpdated, UserInserted, Link, Moves, Goto
    <3> QED
      BY <3>1 DEF RequestOK
  <2> QED
    BY <1>7, <2>1 DEF UserUpdated, UserInserted, Link, Moves, Kind
<1>8. CASE BootstrapBegins(t) \/ SaveBegins(t) \/ ReplaceBegins(t)
  BY <1>8 DEF BootstrapBegins, SaveBegins, ReplaceBegins, Block, Kind, Quiet
<1>9. CASE UserMissing(t) \/ LinkFindsNone(t) \/ Look(t)
  BY <1>1, <1>9 DEF UserMissing, LinkFindsNone, Look, Moves, Kind, Quiet
<1>10. CASE UniqueViolation(t) \/ Bootstrapped(t) \/ Saved(t) \/ Replaced(t)
  BY <1>10 DEF UniqueViolation, Bootstrapped, Saved, Replaced, Moves, Kind, Quiet
<1>11. CASE Mismatched(t) \/ TokenSaved(t)
  BY <1>11 DEF Mismatched, TokenSaved, Kind, Quiet
<1>12. CASE PreviousForgotten(t)
  BY <1>1, <1>12 DEF PreviousForgotten, Forgets, Moves, Kind, Quiet
<1>13. CASE SessionCreated(t)
  <2>1. req[t].user \in Account
    BY <1>13 DEF SessionCreated, Goto, RequestOK
  <2>2. sessions + 1 \in Nat
    BY DEF RestOK
  <2> QED
    BY <1>13, <2>1, <2>2 DEF SessionCreated, Kind
<1>14. CASE Respond(t) \/ Verifies(t)
  BY <1>14 DEF Respond, Verifies, Kind, Quiet
<1>15. CASE Fails(t) \/ FailsAtOnce(t)
  BY <1>15 DEF Fails, FailsAtOnce, Kind, Quiet
<1>16. CASE Consume(t) \/ Store(t) \/ Refreshed(t) \/ \E a \in Account : PrivateGranted(t, a)
  BY <1>16 DEF Kind
<1> QED
  BY <1>2, <1>3, <1>4, <1>5, <1>6, <1>7, <1>8, <1>9, <1>10, <1>11, <1>12, <1>13, <1>14, <1>15, <1>16
  DEF Handle, Grants, Bootstrap, SaveVerifiedToken, IssueSession

\* A thread writes on its own connection, and never while another one waits there.
LEMMA OwnRows ==
  ASSUME StoreInv, NEW t \in Thread, Kind(t)
  PROVE  /\ \A c \in Connection \ {conn[t]} : dirty'[c] = dirty[c]
         /\ ~Turn(t) => dirty' = dirty
<1> DEFINE Own == /\ \A c \in Connection \ {conn[t]} : dirty'[c] = dirty[c]
                  /\ ~Turn(t) => dirty' = dirty
<1>1. dirty \in [Connection -> Writes]
  BY DEF StoreInv, StoreOK
<1>2. ASSUME NEW r, NEW v, Write(t, r, v) PROVE Own
  BY <1>1, <1>2 DEF Write, Statement
<1>3. CASE Quiet(t)
  <2>1. \A rows : RollBack(conn[t], rows) \/ Commit(conn[t])
          => \A c \in Connection \ {conn[t]} : dirty'[c] = dirty[c]
    BY <1>1 DEF RollBack, Commit
  <2>2. UNCHANGED dirty \/ (Turn(t) /\ \A c \in Connection \ {conn[t]} : dirty'[c] = dirty[c])
    BY <1>3, <2>1 DEF Quiet, store, Enter, Statement, Exit, Abort, ExitFails, StatementFails, Pop, Breaks
  <2> QED
    BY <2>2
<1>4. CASE (\E a \in Account : PrivateGranted(t, a)) \/ Refreshed(t)
  BY <1>4 DEF PrivateGranted, Refreshed, store
<1> QED
  BY <1>2, <1>3, <1>4 DEF Kind, Creates, Consume, Store

-----------------------------------------------------------------------------
(* The database keeps its invariant, and only Store writes credentials.      *)

StoreEffect(t) ==
  /\ StoreInv'
  /\ \A a \in Account, y \in Nat : Holds(Credential(a), y)' =>
       Holds(Credential(a), y) \/ (Store(t) /\ a = req[t].user /\ y = req[t].grant)
  /\ \A a \in Account \ undone', y \in Nat : Newest(Credential(a), y)' =>
       \/ a \notin undone /\ Newest(Credential(a), y)
       \/ Store(t) /\ a = req[t].user /\ y = req[t].grant
  /\ \A a \in Account : db[User(a)] = 1 => db'[User(a)] = 1

LEMMA QuietSettles ==
  ASSUME IdentityAssumption, StoreInv, grants' = grants, NEW t \in Thread, Quiet(t)
  PROVE  Settles
<1>1. conn[t] \in Connection
  BY DEF IdentityAssumption
<1>2. ASSUME UNCHANGED store PROVE Settles
  <2>1. depth' \in [Connection -> Int] /\ broken' \subseteq Connection
        /\ UNCHANGED <<db, dirty, open, restored, undone>>
    BY <1>2 DEF store, StoreInv, StoreOK
  <2> QED
    BY <1>1, <2>1, Unchanged
<1> QED
  BY <1>2, EnterSettles, BlockSettles DEF Quiet

LEMMA StoreStep ==
  ASSUME IdentityAssumption, StoreInv, RestOK, NEW t \in Thread, RequestOK(t), Kind(t)
  PROVE  StoreEffect(t)
<1>1. CASE Quiet(t) /\ Same
  <2>1. Settles
    BY <1>1, QuietSettles DEF Same
  <2> QED
    BY <2>1, RowNames DEF Settles, StoreEffect
<1>2. ASSUME NEW r \in Row, NEW v \in Nat, Write(t, r, v), grants' = grants,
             \A a \in Account : r # Credential(a),
             \A s \in State : r = Pending(s) => v \in {0, 1},
             \A a \in Account : r = User(a) => v = 1
      PROVE  StoreEffect(t)
  <2>1. /\ StoreInv'
        /\ \A x \in Row, y \in Nat : Holds(x, y)' => Holds(x, y) \/ (x = r /\ y = v)
        /\ \A x \in Row \ {r}, y \in Nat : Newest(x, y)' => Newest(x, y)
        /\ undone' = {a \in undone : r # Credential(a)}
        /\ \A a \in Account : db[User(a)] = 1 => db'[User(a)] = 1
    BY <1>2, WriteEffect
  <2>2. undone' = undone
    BY <1>2, <2>1 DEF StoreInv, StoreOK
  <2> QED
    BY <1>2, <2>1, <2>2, RowNames DEF StoreEffect
<1>3. CASE (\E a \in Account, v \in Nat : Write(t, Session(a), v)) /\ Same
  <2>1. PICK a \in Account, v \in Nat : Write(t, Session(a), v)
    BY <1>3
  <2>2. /\ Session(a) \in Row /\ \A b \in Account : Session(a) # Credential(b)
        /\ \A b \in Account : Session(a) # User(b)
        /\ \A s \in State : Session(a) # Pending(s)
    BY DEF Session, Credential, User, Pending, Row
  <2> QED
    BY <1>2, <1>3, <2>1, <2>2 DEF Same
<1>4. CASE req[t].user \in Account /\ Write(t, User(req[t].user), 1) /\ Same
  BY <1>2, <1>4, RowNames DEF Same
<1>5. ASSUME NEW s \in State, NEW v \in {0, 1}, Write(t, Pending(s), v), grants' = grants
      PROVE  StoreEffect(t)
  BY <1>2, <1>5, RowNames
<1>6. CASE \E s \in State : Creates(t, s)
  BY <1>5, <1>6 DEF Creates
<1>7. CASE Consume(t)
  BY <1>5, <1>7 DEF Consume, Goto, RequestOK, history
<1>8. CASE Store(t)
  <2>0. req[t].user \in Account /\ req[t].grant \in 1 .. Len(grants) /\ req[t].grant \in Nat
    <3>1. pc[t] = "store"
      BY <1>8 DEF Store, Goto
    <3> QED
      BY <3>1 DEF RequestOK, RestOK
  <2>1. PICK a \in Account, v \in Nat :
          a = req[t].user /\ v = req[t].grant /\ v \in 1 .. Len(grants)
    BY <2>0
  <2>2. Write(t, Credential(a), v) /\ grants' = grants
    BY <1>8, <2>1 DEF Store
  <2>3. /\ StoreInv'
        /\ \A x \in Row, y \in Nat : Holds(x, y)' => Holds(x, y) \/ (x = Credential(a) /\ y = v)
        /\ \A x \in Row \ {Credential(a)}, y \in Nat : Newest(x, y)' => Newest(x, y)
        /\ \A y \in Nat : Newest(Credential(a), y)' => y = v
        /\ undone' = {b \in undone : Credential(a) # Credential(b)}
        /\ \A b \in Account : db[User(b)] = 1 => db'[User(b)] = 1
    <3>1. /\ Credential(a) \in Row /\ \A b \in Account : Credential(a) # User(b)
          /\ \A s \in State : Credential(a) # Pending(s)
      BY <2>1, RowNames
    <3> QED
      BY <2>1, <2>2, <3>1, WriteEffect
  <2>4. ASSUME NEW b \in Account, NEW y \in Nat
        PROVE  /\ Holds(Credential(b), y)' =>
                    Holds(Credential(b), y) \/ (Store(t) /\ b = a /\ y = v)
               /\ b \notin undone' /\ Newest(Credential(b), y)' =>
                    \/ b \notin undone /\ Newest(Credential(b), y)
                    \/ Store(t) /\ b = a /\ y = v
    <3>1. Credential(b) \in Row /\ (b # a => Credential(b) # Credential(a)) /\ b \in Account
      BY <2>1, RowNames
    <3> QED
      BY <1>8, <2>3, <3>1
  <2> QED
    BY <2>1, <2>3, <2>4 DEF StoreEffect
<1>9. CASE (\E a \in Account : PrivateGranted(t, a)) \/ Refreshed(t)
  <2>1. UNCHANGED store
    BY <1>9 DEF PrivateGranted, Refreshed
  <2>2. Len(grants) \in Nat /\ Len(grants') = Len(grants) + 1
    <3>1. \E gs, e : grants' = Append(gs, e) /\ gs \in Seq(Grant) /\ Len(gs) = Len(grants)
      <4>1. CASE Refreshed(t)
        <5> DEFINE g == req[t].grant
        <5>1. pc[t] = "refresh"
          BY <4>1 DEF Refreshed, Goto
        <5>2. g \in 1 .. Len(grants) /\ grants \in Seq(Grant)
          BY <5>1 DEF RequestOK, RestOK
        <5>3. [grants[g] EXCEPT !.spent = TRUE] \in Grant
          <6>1. grants[g] \in Grant
            BY <5>2
          <6> QED
            BY <6>1 DEF Grant
        <5>4. [grants EXCEPT ![g].spent = TRUE] \in Seq(Grant)
              /\ Len([grants EXCEPT ![g].spent = TRUE]) = Len(grants)
          BY <5>2, <5>3
        <5> QED
          BY <4>1, <5>4 DEF Refreshed
      <4> QED
        BY <1>9, <4>1 DEF PrivateGranted, RestOK
    <3>2. Len(grants) \in Nat
      BY DEF RestOK
    <3> QED
      BY <3>1, <3>2
  <2>3. \A rs, x : RowOK(rs, x) => RowOK(rs, x)'
    BY <2>2 DEF RowOK
  <2>4. UNCHANGED <<db, dirty, open, depth, broken, restored, undone>>
    BY <2>1 DEF store
  <2>5. StoreOK' /\ NestInv' /\ RowInv'
    <3>1. StoreOK' /\ NestInv'
      BY <2>4 DEF StoreInv, StoreOK, NestInv, Clean
    <3>2. RowOK(db, 0)'
      BY <2>2, <2>4 DEF StoreInv, RowInv, RowOK
    <3>3. \A c \in Connection :
            RowOK(dirty[c], Kept)' /\ \A i \in DOMAIN open[c] : RowOK(open[c][i].rows, Kept)'
      BY <2>3, <2>4 DEF StoreInv, RowInv
    <3> QED
      BY <2>4, <3>1, <3>2, <3>3 DEF RowInv
  <2>6. \A x, y : (Holds(x, y)' <=> Holds(x, y)) /\ (Newest(x, y)' <=> Newest(x, y))
    BY <2>4 DEF Holds, Newest
  <2> QED
    BY <2>4, <2>5, <2>6 DEF StoreEffect, StoreInv
<1> QED
  BY <1>1, <1>3, <1>4, <1>6, <1>7, <1>8, <1>9 DEF Kind

-----------------------------------------------------------------------------
(* The uses of a state.                                                      *)

LEMMA UseSettles ==
  ASSUME StoreInv, UseInv, uses' = uses, started' = started, uses \in [State -> Nat], Settles
  PROVE  UseInv'
<1> SUFFICES ASSUME NEW s \in State
             PROVE  (/\ uses[s] <= 1 + restored[s]
                     /\ Newest(Pending(s), 1) => uses[s] <= restored[s]
                     /\ started[s].purpose = "none" => uses[s] = 0)'
  BY DEF UseInv
<1>1. /\ restored[s] \in Nat /\ restored'[s] \in Nat /\ uses[s] \in Nat
      /\ restored[s] <= restored'[s]
      /\ Newest(Pending(s), 1)' => Newest(Pending(s), 1) \/ restored'[s] = restored[s] + 1
  BY DEF StoreInv, StoreOK, Settles
<1>2. /\ uses[s] <= 1 + restored[s]
      /\ Newest(Pending(s), 1) => uses[s] <= restored[s]
      /\ started[s].purpose = "none" => uses[s] = 0
  BY DEF UseInv
<1> QED
  BY <1>1, <1>2

LEMMA UseWrite ==
  ASSUME UseInv, StoreInv, uses \in [State -> Nat], restored' = restored, NEW r \in State \cup {None},
         None \notin State,
         \A s \in State \ {r} : /\ Newest(Pending(s), 1)' => Newest(Pending(s), 1)
                                /\ uses'[s] = uses[s] /\ started'[s] = started[s],
         r \in State => (/\ uses[r] <= 1 + restored[r]
                         /\ Newest(Pending(r), 1) => uses[r] <= restored[r]
                         /\ started[r].purpose = "none" => uses[r] = 0)'
  PROVE  UseInv'
<1>1. ASSUME NEW s \in State \ {r}
      PROVE  (/\ uses[s] <= 1 + restored[s]
              /\ Newest(Pending(s), 1) => uses[s] <= restored[s]
              /\ started[s].purpose = "none" => uses[s] = 0)'
  BY DEF UseInv
<1> QED
  BY <1>1 DEF UseInv

LEMMA UseStep ==
  ASSUME IdentityAssumption, StoreInv, RestOK, UseInv, NEW t \in Thread, RequestOK(t), Kind(t)
  PROVE  UseInv'
<1>0. uses \in [State -> Nat] /\ None \notin State
  BY DEF RestOK, IdentityAssumption
<1>1. CASE Quiet(t) /\ Same
  BY <1>0, <1>1, QuietSettles, UseSettles DEF Same
<1>2. ASSUME NEW r \in Row, NEW v \in Nat, Write(t, r, v), Same,
             \A s \in State : r # Pending(s),
             \A a \in Account : /\ r = User(a) => v = 1
                                /\ r = Credential(a) => v \in 1 .. Len(grants)
      PROVE  UseInv'
  <2>1. /\ \A x \in Row \ {r}, y \in Nat : Newest(x, y)' => Newest(x, y)
        /\ restored' = restored
    BY <1>2, WriteEffect DEF Same
  <2>2. \A s \in State : Newest(Pending(s), 1)' => Newest(Pending(s), 1)
    BY <1>2, <2>1, RowNames
  <2> QED
    BY <1>0, <1>2, <2>1, <2>2, UseWrite DEF Same
<1>3. CASE (\E a \in Account, v \in Nat : Write(t, Session(a), v)) /\ Same
  <2>1. \A a \in Account : /\ Session(a) \in Row
                           /\ \A b \in Account : Session(a) # User(b) /\ Session(a) # Credential(b)
                           /\ \A s \in State : Session(a) # Pending(s)
    BY DEF Session, Credential, User, Pending, Row
  <2> QED
    BY <1>2, <1>3, <2>1
<1>4. CASE req[t].user \in Account /\ Write(t, User(req[t].user), 1) /\ Same
  BY <1>2, <1>4, RowNames
<1>5. CASE Store(t)
  <2>1. req[t].user \in Account /\ req[t].grant \in 1 .. Len(grants) /\ req[t].grant \in Nat
    <3>1. pc[t] = "store"
      BY <1>5 DEF Store, Goto
    <3> QED
      BY <3>1 DEF RequestOK, RestOK
  <2>2. Write(t, Credential(req[t].user), req[t].grant) /\ Same
    BY <1>5 DEF Store, Same, site
  <2> QED
    BY <1>2, <2>1, <2>2, RowNames
<1>6. ASSUME NEW s \in State, Creates(t, s) PROVE UseInv'
  <2>1. /\ \A x \in Row \ {Pending(s)}, y \in Nat : Newest(x, y)' => Newest(x, y)
        /\ restored' = restored
    BY <1>6, WriteEffect, RowNames DEF Creates
  <2>2. uses[s] = 0 /\ uses' = uses /\ started'[s].purpose # "none" /\ restored[s] \in Nat
    BY <1>6 DEF Creates, UseInv, StoreInv, StoreOK
  <2>3. \A r \in State \ {s} : Newest(Pending(r), 1)' => Newest(Pending(r), 1)
    BY <2>1, RowNames
  <2>4. \A r \in State \ {s} : uses'[r] = uses[r] /\ started'[r] = started[r]
    BY <1>6 DEF Creates
  <2>5. 0 <= 1 + restored[s] /\ 0 <= restored[s]
    BY <2>2
  <2>6. (/\ uses[s] <= 1 + restored[s]
         /\ Newest(Pending(s), 1) => uses[s] <= restored[s]
         /\ started[s].purpose = "none" => uses[s] = 0)'
    BY <2>1, <2>2, <2>5
  <2> QED
    BY <1>0, <2>1, <2>3, <2>4, <2>6, UseWrite
<1>7. CASE Consume(t)
  <2>0. req[t].state \in State /\ started[req[t].state].purpose # "none"
    <3>1. pc[t] = "consume"
      BY <1>7 DEF Consume, Goto
    <3> QED
      BY <3>1 DEF RequestOK
  <2>1. PICK s \in State : s = req[t].state
    BY <2>0
  <2>2. /\ Write(t, Pending(s), 0) /\ View(conn[t], Pending(s)) = 1
        /\ uses' = [uses EXCEPT ![s] = @ + 1] /\ started' = started /\ grants' = grants
    BY <1>7, <2>1 DEF Consume, history
  <2>3. /\ \A x \in Row \ {Pending(s)}, y \in Nat : Newest(x, y)' => Newest(x, y)
        /\ \A y \in Nat : Newest(Pending(s), y)' => y = 0
        /\ Newest(Pending(s), View(conn[t], Pending(s)))
        /\ restored' = restored
    BY <2>2, WriteEffect, RowNames
  <2>4. uses[s] <= restored[s] /\ uses[s] \in Nat /\ restored[s] \in Nat
    BY <1>0, <2>2, <2>3 DEF UseInv, StoreInv, StoreOK
  <2>5. ~Newest(Pending(s), 1)'
    BY <2>3
  <2>6. (/\ uses[s] <= 1 + restored[s]
         /\ Newest(Pending(s), 1) => uses[s] <= restored[s]
         /\ started[s].purpose = "none" => uses[s] = 0)'
    <3>1. uses'[s] = uses[s] + 1 /\ started'[s].purpose # "none" /\ restored'[s] = restored[s]
      BY <1>0, <2>0, <2>1, <2>2, <2>3
    <3>2. uses[s] + 1 <= 1 + restored[s]
      BY <2>4
    <3> QED
      BY <2>5, <3>1, <3>2
  <2>7. \A r \in State \ {s} : Newest(Pending(r), 1)' => Newest(Pending(r), 1)
    BY <2>3, RowNames
  <2>8. \A r \in State \ {s} : uses'[r] = uses[r] /\ started'[r] = started[r]
    BY <1>0, <2>2
  <2> QED
    BY <1>0, <2>3, <2>6, <2>7, <2>8, UseWrite
<1>8. CASE (\E a \in Account : PrivateGranted(t, a)) \/ Refreshed(t)
  <2>1. UNCHANGED <<db, dirty, open, restored, uses, started>>
    BY <1>8 DEF PrivateGranted, Refreshed, store, site
  <2>2. \A x : Newest(x, 1)' => Newest(x, 1)
    BY <2>1 DEF Newest
  <2> QED
    BY <2>1, <2>2 DEF UseInv
<1> QED
  BY <1>1, <1>3, <1>4, <1>5, <1>6, <1>7, <1>8 DEF Kind

-----------------------------------------------------------------------------
(* What the requests know.                                                   *)

LEMMA GrantsGrow ==
  ASSUME RestOK, NEW t \in Thread, RequestOK(t), Handle(t)
  PROVE  /\ Len(grants') \in Nat /\ Len(grants') >= Len(grants)
         /\ \A g \in 1 .. Len(grants) :
              /\ g \in 1 .. Len(grants')
              /\ grants'[g].account = grants[g].account /\ grants'[g].by = grants[g].by
              /\ ~(Refreshed(t) /\ g = req[t].grant) => grants'[g] = grants[g]
<1>0. grants \in Seq(Grant) /\ Len(grants) \in Nat
  BY DEF RestOK
<1>1. ASSUME NEW a \in Account, PrivateGranted(t, a)
      PROVE  /\ Len(grants') = Len(grants) + 1 /\ ~Refreshed(t)
             /\ \A g \in 1 .. Len(grants) : grants'[g] = grants[g]
  BY <1>0, <1>1 DEF PrivateGranted, Refreshed, Goto
<1>2. CASE Refreshed(t)
  <2>1. req[t].grant \in 1 .. Len(grants)
    BY <1>2 DEF Refreshed, Goto, RequestOK
  <2> DEFINE g == req[t].grant
             spent == [grants EXCEPT ![g].spent = TRUE]
  <2>2. \A h \in 1 .. Len(grants) : grants[h] \in Grant
    BY <1>0
  <2>3. Len(spent) = Len(grants)
        /\ \A h \in 1 .. Len(grants) : spent[h] = IF h = g THEN [grants[g] EXCEPT !.spent = TRUE]
                                                  ELSE grants[h]
    BY <1>0, <2>1
  <2>4. grants' = Append(spent, grants[g]) /\ spent \in Seq(Grant)
    <3>1. [grants[g] EXCEPT !.spent = TRUE] \in Grant
      BY <2>1, <2>2 DEF Grant
    <3> QED
      BY <1>0, <1>2, <2>1, <3>1 DEF Refreshed
  <2>5. Len(grants') = Len(grants) + 1 /\ \A h \in 1 .. Len(grants) : grants'[h] = spent[h]
    <3> HIDE DEF spent
    <3> QED
      BY <1>0, <2>3, <2>4
  <2> QED
    BY <1>0, <1>2, <2>2, <2>3, <2>5 DEF Grant
<1>3. CASE ~Refreshed(t) /\ ~\E a \in Account : PrivateGranted(t, a)
  <2>1. grants' = grants
    BY <1>3, Kinds DEF Kind, Same, Creates, Consume, Store, history
  <2> QED
    BY <1>0, <2>1
<1> QED
  BY <1>0, <1>1, <1>2, <1>3

\* A request that does not change, or moves on, still knows it.
LEMMA RequestStays ==
  ASSUME RestOK, NEW t \in Thread, RequestOK(t), Handle(t), NEW u \in Thread, RequestOK(u),
         req'[u].grant = req[u].grant, req'[u].user = req[u].user,
         req'[u].browser = req[u].browser, req'[u].state = req[u].state,
         \/ pc'[u] = pc[u]
         \/ /\ pc'[u] \notin Ungranted \cup {"store", "refresh", "verify"}
            /\ pc[u] \notin {"idle", "consume", "exchange", "logout"}
         \/ /\ pc[u] \in Ungranted /\ pc'[u] \in Ungranted
            /\ {pc[u], pc'[u]} \cap {"consume", "exchange"} = {}
  PROVE  RequestOK(u)'
<1> DEFINE g == req[u].grant
<1>1. g # 0 => /\ g \in 1 .. Len(grants') /\ grants'[g].by = req[u].user
               /\ grants'[g].account = grants[g].account
  BY GrantsGrow DEF RequestOK
<1>2. pc[u] \in {"consume", "exchange"} => started'[req[u].state] = started[req[u].state]
  BY Others DEF RequestOK
<1>3. CASE pc'[u] = pc[u]
  BY <1>1, <1>2, <1>3 DEF RequestOK, Login, Ungranted
<1>4. CASE /\ pc'[u] \notin Ungranted \cup {"store", "refresh", "verify"}
           /\ pc[u] \notin {"idle", "consume", "exchange", "logout"}
  BY <1>1, <1>4 DEF RequestOK, Login, Ungranted
<1>5. CASE /\ pc[u] \in Ungranted /\ pc'[u] \in Ungranted
           /\ {pc[u], pc'[u]} \cap {"consume", "exchange"} = {}
  BY <1>1, <1>5 DEF RequestOK, Login, Ungranted
<1> QED
  BY <1>3, <1>4, <1>5

\* A version of a credential is a grant, or none.
LEMMA HeldGrant ==
  ASSUME StoreInv, RestOK, NEW a \in Account, NEW g \in Nat \ {0}, Holds(Credential(a), g)
  PROVE  g \in 1 .. Len(grants)
<1>1. Kept \notin Nat \ {0}
  BY DEF Kept
<1> QED
  BY <1>1, RowNames DEF Holds, StoreInv, RowInv, RowOK

LEMMA RequestStep ==
  ASSUME IdentityAssumption, StoreInv, RestOK, LinkedToStarter, NEW t \in Thread, RequestOK(t),
         Handle(t)
  PROVE  RequestOK(t)'
<1>0. /\ pc \in [Thread -> Place] /\ req \in [Thread -> Request]
      /\ grants \in Seq(Grant) /\ Len(grants) \in Nat /\ None \notin Browser
  BY DEF RestOK, IdentityAssumption
<1>a. Over(t) => RequestOK(t)'
  BY <1>0 DEF Over, RequestOK, Ungranted, NoRequest
<1>b. ASSUME \/ req'[t] = req[t]
             \/ \E v : Fill(t, "block", v) \/ Fill(t, "session", v)
      PROVE  /\ req'[t].grant = req[t].grant /\ req'[t].user = req[t].user
             /\ req'[t].browser = req[t].browser /\ req'[t].state = req[t].state
  BY <1>0, <1>b DEF Fill, Request
<1>1. CASE Browse(t)
  <2>1. ASSUME NEW b \in Browser, NEW s \in State, LoginStarts(t, b, s) PROVE RequestOK(t)'
    BY <2>1, <1>b, RequestStays DEF LoginStarts
  <2>2. ASSUME NEW b \in Browser, NEW s \in State, LoginReturns(t, b, s) PROVE RequestOK(t)'
    BY <1>0, <2>2 DEF LoginReturns, Accept, Goto, RequestOK, Login, Ungranted, NoRequest, site
  <2>3. ASSUME NEW b \in Browser, NEW a \in Account, PrivateStarts(t, b, a) PROVE RequestOK(t)'
    BY <1>0, <2>3 DEF PrivateStarts, Accept, Goto, RequestOK, Ungranted, NoRequest
  <2>4. ASSUME NEW b \in Browser, NEW a \in Account, LogoutBegins(t, b, a) PROVE RequestOK(t)'
    BY <1>0, <2>4 DEF LogoutBegins, Accept, Goto, RequestOK, Ungranted, NoRequest
  <2>5. ASSUME NEW b \in Browser, NEW s \in State, NEW a \in Account, PrivateReturns(t, b, s, a)
        PROVE  RequestOK(t)'
    BY <1>0, <2>5 DEF PrivateReturns, Accept, Goto, RequestOK, Login, Ungranted, NoRequest, site
  <2> QED
    BY <1>1, <2>1, <2>2, <2>3, <2>4, <2>5 DEF Browse
<1>2. CASE (\E s \in State : StateCreated(t, s)) \/ LoggedOut(t) \/ ConsumeFindsNone(t) \/ Fails(t)
  BY <1>2, <1>a DEF StateCreated, LoggedOut, ConsumeFindsNone, Fails, Raises
<1>3. CASE Consume(t)
  <2>1. /\ req' = req /\ started' = started /\ grants' = grants /\ pc[t] = "consume"
        /\ pc'[t] = "exchange" /\ Matches(t)
    BY <1>0, <1>3 DEF Consume, Goto, history
  <2> QED
    BY <1>0, <2>1 DEF RequestOK, Ungranted, Matches, Login
<1>4. ASSUME NEW a \in Account, LoginGranted(t, a) PROVE RequestOK(t)'
  <2>1. /\ pc[t] = "exchange" /\ pc'[t] = "bootstrap" /\ grants' = grants
        /\ req'[t].grant = req[t].grant /\ req'[t].browser = req[t].browser /\ req'[t].user = a
    BY <1>0, <1>4 DEF LoginGranted, Goto, Fill, Request, history
  <2> QED
    BY <2>1 DEF RequestOK, Ungranted
<1>5. ASSUME NEW a \in Account, PrivateGranted(t, a) PROVE RequestOK(t)'
  <2>1. /\ pc[t] = "exchange" /\ pc'[t] = "save" /\ ~Login(t)
        /\ grants' = Append(grants, [account |-> a, by |-> started[req[t].state].user,
                                     spent |-> FALSE])
        /\ Fill(t, "grant", Len(grants) + 1)
    BY <1>0, <1>5 DEF PrivateGranted, Goto
  <2>2. /\ req'[t].grant = Len(grants) + 1 /\ req'[t].user = req[t].user
        /\ req'[t].browser = req[t].browser
    BY <1>0, <2>1 DEF Fill, Request
  <2>3. /\ Len(grants') = Len(grants) + 1
        /\ grants'[Len(grants) + 1].by = started[req[t].state].user
    BY <1>0, <2>1
  <2> QED
    BY <1>0, <2>1, <2>2, <2>3 DEF RequestOK, Ungranted
<1>6. ASSUME NEW a \in Account, TokenLoaded(t, a) PROVE RequestOK(t)'
  <2>1. PICK g \in Nat : g = View(conn[t], Credential(a))
    BY ViewTyped, RowNames
  <2>2. /\ Accept(t, "refresh", [NoRequest EXCEPT !.user = a, !.grant = g])
        /\ grants' = grants /\ g # 0
    BY <1>6, <2>1 DEF TokenLoaded, Accept, history
  <2>3. Holds(Credential(a), g)
    BY <2>1, ViewTyped, RowNames
  <2>4. g \in 1 .. Len(grants) /\ grants[g].account = a /\ grants[g].by = a
    BY <2>2, <2>3, HeldGrant DEF LinkedToStarter
  <2>5. /\ pc'[t] = "refresh" /\ req'[t].grant = g /\ req'[t].user = a /\ req'[t].browser = None
    BY <1>0, <2>2 DEF Accept, Goto, NoRequest
  <2> QED
    BY <1>0, <2>2, <2>4, <2>5 DEF RequestOK, Ungranted
<1>7. CASE Bootstrap(t)
  <2>1. CASE Look(t)
    <3>1. CASE Moves(t, "look", "save")
      BY <1>0, <1>b, <3>1, RequestStays DEF Moves, Goto, Ungranted
    <3> QED
      BY <1>a, <2>1, <3>1 DEF Look
  <2>2. CASE UserMissing(t) \/ UserUpdated(t) \/ UserInserted(t) \/ UniqueViolation(t)
    BY <1>0, <1>b, <2>2, RequestStays DEF Ungranted, UserUpdated, UserMissing, UserInserted,
       UniqueViolation, Moves, Goto
  <2>3. CASE BootstrapBegins(t) \/ Bootstrapped(t)
    BY <1>0, <1>b, <2>3, RequestStays DEF Ungranted, BootstrapBegins, Bootstrapped, Block,
       Moves, Goto
  <2> QED
    BY <1>7, <2>1, <2>2, <2>3 DEF Bootstrap
<1>8. CASE SaveVerifiedToken(t)
  <2>1. CASE Link(t)
    <3>1. /\ req' = req /\ grants' = grants /\ Links(t) /\ pc[t] = "link"
          /\ pc'[t] = IF req[t].grant = 0 THEN "saved" ELSE "store"
      BY <1>0, <2>1 DEF Link, Moves, Goto, history
    <3> QED
      BY <1>0, <3>1 DEF RequestOK, Ungranted, Links, Verified
  <2>2. CASE Mismatched(t) \/ TokenSaved(t)
    BY <1>a, <2>2 DEF Mismatched, Raises, TokenSaved
  <2> QED
    BY <1>0, <1>8, <1>b, <2>1, <2>2, RequestStays DEF Ungranted, SaveVerifiedToken, SaveBegins,
       LinkFindsNone, Store, Saved, Block, Moves, Goto
<1>9. CASE IssueSession(t)
  <2>1. CASE Respond(t)
    BY <1>a, <2>1 DEF Respond
  <2> QED
    BY <1>0, <1>9, <1>b, <2>1, RequestStays DEF Ungranted, IssueSession, ReplaceBegins,
       PreviousForgotten, SessionCreated, Replaced, Block, Moves, Goto
<1>10. CASE Refreshed(t)
  <2>1. /\ pc[t] = "refresh" /\ pc'[t] = "verify"
        /\ grants' = Append([grants EXCEPT ![req[t].grant].spent = TRUE], grants[req[t].grant])
        /\ Fill(t, "grant", Len(grants) + 1)
    BY <1>0, <1>10 DEF Refreshed, Goto
  <2>2. /\ req'[t].grant = Len(grants) + 1 /\ req'[t].user = req[t].user
        /\ req'[t].browser = req[t].browser
    BY <1>0, <2>1 DEF Fill, Request
  <2>3. req[t].grant \in 1 .. Len(grants) /\ req[t].browser = None
    BY <2>1 DEF RequestOK
  <2>4. /\ Len(grants') = Len(grants) + 1
        /\ grants'[Len(grants) + 1] = grants[req[t].grant]
    <3>1. [grants EXCEPT ![req[t].grant].spent = TRUE] \in Seq(Grant)
          /\ Len([grants EXCEPT ![req[t].grant].spent = TRUE]) = Len(grants)
      <4>1. grants[req[t].grant] \in Grant
        BY <1>0, <2>3
      <4>2. [grants[req[t].grant] EXCEPT !.spent = TRUE] \in Grant
        BY <4>1 DEF Grant
      <4> QED
        BY <1>0, <2>3, <4>1, <4>2
    <3> QED
      BY <2>1, <3>1
  <2> QED
    BY <1>0, <2>1, <2>2, <2>3, <2>4 DEF RequestOK, Ungranted
<1>11. CASE Verifies(t)
  BY <1>0, <1>11, <1>b, RequestStays DEF Ungranted, Verifies, Goto
<1>12. CASE FailsAtOnce(t)
  BY <1>12, <1>b, RequestStays DEF FailsAtOnce
<1> QED
  BY <1>1, <1>2, <1>3, <1>4, <1>5, <1>6, <1>7, <1>8, <1>9, <1>10, <1>11, <1>12 DEF Handle, Grants

-----------------------------------------------------------------------------
(* The row of a first login.                                                 *)

LEMMA ToTheRow ==
  ASSUME RestOK, NEW t \in Thread, Handle(t)
  PROVE  /\ pc'[t] = "insert" => UserMissing(t)
         /\ pc'[t] = "look" => UniqueViolation(t)
<1> DEFINE Goal == pc'[t] \notin {"insert", "look"}
<1>0. pc \in [Thread -> Place]
  BY DEF RestOK
<1>1. CASE Browse(t)
  <2>1. Goal
    BY <1>0, <1>1 DEF Browse, LoginStarts, PrivateStarts, LogoutBegins, LoginReturns,
       PrivateReturns, Accept, Goto
  <2> QED
    BY <2>1
<1>2. CASE Bootstrap(t)
  BY <1>0, <1>2 DEF Bootstrap, BootstrapBegins, UserUpdated, UserMissing, UserInserted,
     UniqueViolation, Look, Bootstrapped, Block, Moves, Goto, Over
<1>3. CASE SaveVerifiedToken(t) \/ IssueSession(t)
  <2>1. Goal
    BY <1>0, <1>3 DEF SaveVerifiedToken, SaveBegins, Link, LinkFindsNone, Store, Mismatched, Saved,
       TokenSaved, IssueSession, ReplaceBegins, PreviousForgotten, SessionCreated, Replaced,
       Respond, Block, Moves, Goto, Over, Raises
  <2> QED
    BY <2>1
<1>4. CASE ~Browse(t) /\ ~Bootstrap(t) /\ ~SaveVerifiedToken(t) /\ ~IssueSession(t)
  <2>1. Goal
    BY <1>0, <1>4 DEF Handle, StateCreated, LoggedOut, Consume, ConsumeFindsNone, Grants,
       LoginGranted, PrivateGranted, TokenLoaded, Refreshed, Verifies, Fails, FailsAtOnce, Accept,
       Goto, Over, Raises
  <2> QED
    BY <2>1
<1> QED
  BY <1>1, <1>2, <1>3, <1>4

LEMMA UserStep ==
  ASSUME IdentityAssumption, StoreInv, RestOK, NEW t \in Thread, Handle(t),
         \A u \in Thread : RequestOK(u) /\ UserOK(u), NEW u \in Thread
  PROVE  UserOK(u)'
<1>0. Kind(t) /\ StoreEffect(t)
  BY Kinds, StoreStep
<1>1. pc[u] \in {"user", "insert", "look"} => req[u].user \in Account
  BY DEF RequestOK
<1>2. conn[u] \in Connection /\ conn[t] \in Connection
  BY DEF IdentityAssumption
<1>3. CASE u # t
  <2>1. pc'[u] = pc[u] /\ req'[u] = req[u]
    BY <1>3, Others
  <2>2. pc[u] = "insert" => dirty'[conn[u]] = dirty[conn[u]]
    BY <1>0, <1>2, <1>3, OwnRows DEF Turn
  <2>3. pc[u] = "look" => db'[User(req[u].user)] = 1
    BY <1>0, <1>1 DEF UserOK, StoreEffect
  <2> QED
    BY <2>1, <2>2, <2>3 DEF UserOK
<1>4. CASE u = t /\ pc'[t] = "insert"
  <2>1. UserMissing(t)
    BY <1>4, ToTheRow
  <2>2. /\ pc[t] = "user" /\ req' = req /\ UNCHANGED store
        /\ View(conn[t], User(req[t].user)) = 0
    BY <2>1 DEF UserMissing, Moves, Goto, Read
  <2>3. dirty[conn[t]][User(req[t].user)] \in {Kept, 1}
    BY <1>1, <1>2, <1>4, <2>2 DEF StoreInv, RowInv, RowOK
  <2>4. dirty[conn[t]][User(req[t].user)] = Kept
    BY <2>2, <2>3 DEF View, Seen, Kept
  <2> QED
    BY <1>4, <2>2, <2>4 DEF UserOK, store
<1>5. CASE u = t /\ pc'[t] = "look"
  <2>1. UniqueViolation(t)
    BY <1>5, ToTheRow
  <2>2. pc[t] = "insert" /\ req' = req /\ View(conn[t], User(req[t].user)) = 1
    BY <2>1 DEF UniqueViolation, Moves, Goto
  <2>3. db[User(req[t].user)] = 1
    BY <2>2 DEF UserOK, View, Seen
  <2>4. db'[User(req[t].user)] = 1
    BY <1>0, <1>1, <1>5, <2>2, <2>3 DEF StoreEffect
  <2> QED
    BY <1>5, <2>2, <2>4 DEF UserOK
<1>6. CASE u = t /\ pc'[t] \notin {"insert", "look"}
  BY <1>6 DEF UserOK
<1> QED
  BY <1>3, <1>4, <1>5, <1>6

-----------------------------------------------------------------------------
(* Grants on their way to the database.                                      *)

\* The grant of the thread that takes a step.
NewGrantOf(t) ==
  /\ \/ req'[t].grant = req[t].grant
     \/ req'[t].grant = 0
     \/ /\ pc'[t] = "refresh"
        /\ \E a \in Account, g \in Nat : Holds(Credential(a), g) /\ req'[t].grant = g
     \/ /\ req'[t].grant = Len(grants) + 1
        /\ Len(grants') = Len(grants) + 1 /\ ~grants'[Len(grants) + 1].spent
        /\ Refreshed(t) \/ \E a \in Account : PrivateGranted(t, a)
  /\ pc'[t] \in Unsaved /\ req'[t].grant # 0 =>
       \/ pc[t] \in Unsaved /\ req'[t].grant = req[t].grant
       \/ req'[t].grant = Len(grants) + 1

LEMMA NewGrant ==
  ASSUME IdentityAssumption, StoreInv, RestOK, NEW t \in Thread, RequestOK(t), GrantOK(t), Handle(t)
  PROVE  NewGrantOf(t)
<1>0. /\ pc \in [Thread -> Place] /\ req \in [Thread -> Request]
      /\ grants \in Seq(Grant) /\ Len(grants) \in Nat
  BY DEF RestOK
<1>a. Over(t) => NewGrantOf(t)
  BY <1>0 DEF Over, NoRequest, Unsaved, NewGrantOf
<1>b. ASSUME \/ req'[t] = req[t]
             \/ \E v : Fill(t, "block", v) \/ Fill(t, "session", v)
      PROVE  req'[t].grant = req[t].grant /\ req'[t].browser = req[t].browser
  BY <1>0, <1>b DEF Fill, Request
<1>1. CASE Browse(t)
  <2>1. ASSUME NEW b \in Browser, NEW s \in State, LoginStarts(t, b, s) PROVE NewGrantOf(t)
    BY <1>0, <2>1 DEF LoginStarts, NewGrantOf, Unsaved
  <2>2. ASSUME NEW b \in Browser, NEW s \in State, LoginReturns(t, b, s) PROVE NewGrantOf(t)
    BY <1>0, <2>2 DEF LoginReturns, Accept, Goto, NoRequest, Unsaved, NewGrantOf
  <2>3. ASSUME NEW b \in Browser, NEW a \in Account, PrivateStarts(t, b, a) PROVE NewGrantOf(t)
    BY <1>0, <2>3 DEF PrivateStarts, Accept, Goto, NoRequest, Unsaved, NewGrantOf
  <2>4. ASSUME NEW b \in Browser, NEW a \in Account, LogoutBegins(t, b, a) PROVE NewGrantOf(t)
    BY <1>0, <2>4 DEF LogoutBegins, Accept, Goto, NoRequest, Unsaved, NewGrantOf
  <2>5. ASSUME NEW b \in Browser, NEW s \in State, NEW a \in Account, PrivateReturns(t, b, s, a)
        PROVE  NewGrantOf(t)
    BY <1>0, <2>5 DEF PrivateReturns, Accept, Goto, NoRequest, Unsaved, NewGrantOf
  <2> QED
    BY <1>1, <2>1, <2>2, <2>3, <2>4, <2>5 DEF Browse
<1>2. CASE (\E s \in State : StateCreated(t, s)) \/ LoggedOut(t) \/ ConsumeFindsNone(t) \/ Fails(t)
  BY <1>2, <1>a DEF StateCreated, LoggedOut, ConsumeFindsNone, Fails, Raises
<1>3. CASE Consume(t)
  BY <1>0, <1>3 DEF Consume, Goto, Unsaved, NewGrantOf
<1>4. ASSUME NEW a \in Account, LoginGranted(t, a) PROVE NewGrantOf(t)
  BY <1>0, <1>4 DEF LoginGranted, Goto, Fill, Request, Unsaved, NewGrantOf
<1>5. ASSUME NEW a \in Account, PrivateGranted(t, a) PROVE NewGrantOf(t)
  <2>1. /\ pc'[t] = "save" /\ Fill(t, "grant", Len(grants) + 1)
        /\ grants' = Append(grants, [account |-> a, by |-> started[req[t].state].user,
                                     spent |-> FALSE])
    BY <1>0, <1>5 DEF PrivateGranted, Goto
  <2>2. req'[t].grant = Len(grants) + 1
    BY <1>0, <2>1 DEF Fill, Request
  <2>3. Len(grants') = Len(grants) + 1 /\ ~grants'[Len(grants) + 1].spent
    BY <1>0, <2>1
  <2> QED
    BY <1>5, <2>1, <2>2, <2>3 DEF NewGrantOf
<1>6. ASSUME NEW a \in Account, TokenLoaded(t, a) PROVE NewGrantOf(t)
  <2>1. PICK g \in Nat : g = View(conn[t], Credential(a)) /\ Holds(Credential(a), g)
    BY ViewTyped, RowNames
  <2>2. Accept(t, "refresh", [NoRequest EXCEPT !.user = a, !.grant = g])
    BY <1>6, <2>1 DEF TokenLoaded
  <2>3. pc'[t] = "refresh" /\ req'[t].grant = g
    BY <1>0, <2>2 DEF Accept, Goto, NoRequest
  <2> QED
    BY <2>1, <2>3 DEF NewGrantOf, Unsaved
<1>7. CASE Bootstrap(t)
  <2>1. CASE Look(t)
    <3>1. CASE Moves(t, "look", "save")
      BY <1>0, <3>1 DEF Moves, Goto, RequestOK, Ungranted, Unsaved, NewGrantOf
    <3> QED
      BY <1>a, <2>1, <3>1 DEF Look
  <2>2. CASE ~Look(t)
    <3>1. req'[t].grant = req[t].grant
      BY <1>7, <1>b, <2>2 DEF Bootstrap, BootstrapBegins, UserUpdated, UserMissing, UserInserted,
         UniqueViolation, Bootstrapped, Block, Moves
    <3>2. pc'[t] \notin Unsaved
      BY <1>0, <1>7, <2>2 DEF Bootstrap, BootstrapBegins, UserUpdated, UserMissing, UserInserted,
         UniqueViolation, Bootstrapped, Block, Moves, Goto, Unsaved
    <3> QED
      BY <3>1, <3>2 DEF NewGrantOf
  <2> QED
    BY <2>1, <2>2
<1>8. CASE SaveVerifiedToken(t)
  <2>1. CASE Mismatched(t) \/ TokenSaved(t)
    BY <1>a, <2>1 DEF Mismatched, Raises, TokenSaved
  <2>2. CASE Saved(t)
    BY <1>0, <2>2 DEF Saved, Moves, Goto, Unsaved, NewGrantOf
  <2>3. CASE ~(Mismatched(t) \/ TokenSaved(t) \/ Saved(t))
    <3>1. req'[t].grant = req[t].grant
      BY <1>8, <1>b, <2>3 DEF SaveVerifiedToken, SaveBegins, Link, LinkFindsNone, Store, Block, Moves
    <3>2. pc[t] \in Unsaved
      BY <1>0, <1>8, <2>3 DEF SaveVerifiedToken, SaveBegins, Link, LinkFindsNone, Store,
         Block, Moves, Goto, Unsaved
    <3> QED
      BY <3>1, <3>2 DEF NewGrantOf
  <2> QED
    BY <2>1, <2>2, <2>3
<1>9. CASE IssueSession(t)
  <2>1. CASE Respond(t)
    BY <1>a, <2>1 DEF Respond
  <2>2. CASE ~Respond(t)
    <3>1. req'[t].grant = req[t].grant
      BY <1>9, <1>b, <2>2 DEF IssueSession, ReplaceBegins, PreviousForgotten, SessionCreated,
         Replaced, Block, Moves
    <3>2. pc'[t] \notin Unsaved
      BY <1>0, <1>9, <2>2 DEF IssueSession, ReplaceBegins, PreviousForgotten, SessionCreated,
         Replaced, Block, Moves, Goto, Unsaved
    <3> QED
      BY <3>1, <3>2 DEF NewGrantOf
  <2> QED
    BY <2>1, <2>2
<1>10. CASE Refreshed(t)
  <2>1. /\ pc[t] = "refresh" /\ ~grants[req[t].grant].spent
        /\ grants' = Append([grants EXCEPT ![req[t].grant].spent = TRUE], grants[req[t].grant])
        /\ Fill(t, "grant", Len(grants) + 1)
    BY <1>0, <1>10 DEF Refreshed, Goto
  <2>2. req'[t].grant = Len(grants) + 1
    BY <1>0, <2>1 DEF Fill, Request
  <2>3. req[t].grant \in 1 .. Len(grants)
    BY <2>1 DEF RequestOK
  <2>4. /\ Len(grants') = Len(grants) + 1
        /\ grants'[Len(grants) + 1] = grants[req[t].grant]
    <3>1. grants[req[t].grant] \in Grant
      BY <1>0, <2>3
    <3>2. [grants[req[t].grant] EXCEPT !.spent = TRUE] \in Grant
      BY <3>1 DEF Grant
    <3>3. [grants EXCEPT ![req[t].grant].spent = TRUE] \in Seq(Grant)
          /\ Len([grants EXCEPT ![req[t].grant].spent = TRUE]) = Len(grants)
      BY <1>0, <2>3, <3>1, <3>2
    <3> QED
      BY <2>1, <3>3
  <2> QED
    BY <1>10, <2>1, <2>2, <2>4 DEF NewGrantOf
<1>11. CASE Verifies(t)
  BY <1>0, <1>11 DEF Verifies, Goto, Unsaved, NewGrantOf
<1>12. CASE FailsAtOnce(t)
  BY <1>12 DEF FailsAtOnce, NewGrantOf
<1> QED
  BY <1>1, <1>2, <1>3, <1>4, <1>5, <1>6, <1>7, <1>8, <1>9, <1>10, <1>11, <1>12 DEF Handle, Grants

LEMMA GrantStep ==
  ASSUME IdentityAssumption, StoreInv, RestOK, NEW t \in Thread, Handle(t),
         \A u \in Thread : RequestOK(u) /\ GrantOK(u), NEW u \in Thread
  PROVE  GrantOK(u)'
<1>0. Kind(t) /\ StoreEffect(t) /\ NewGrantOf(t) /\ Len(grants) \in Nat
  BY Kinds, StoreStep, NewGrant DEF RestOK
<1>1. \A w \in Thread \ {t} : req'[w] = req[w] /\ pc'[w] = pc[w]
  BY Others
<1>2. \A w \in Thread : req[w].grant # Len(grants) + 1
  <2> TAKE w \in Thread
  <2>1. req[w].grant # 0 => req[w].grant \in 1 .. Len(grants)
    BY DEF RequestOK
  <2> QED
    BY <1>0, <2>1
<1>3. pc \in [Thread -> Place]
  BY DEF RestOK
\* A version of a credential stays one, and a thread that stores its grant has it no more.
<1>4. ASSUME NEW g \in 1 .. Len(grants'), NEW a \in Account, ~Holds(Credential(a), g),
             Store(t) => req[t].grant # g
      PROVE  ~Holds(Credential(a), g)'
  BY <1>0, <1>4, GrantsGrow DEF StoreEffect
<1>5. CASE u # t
  <2> SUFFICES ASSUME pc[u] \in Unsaved, req[u].grant # 0
               PROVE  GrantOK(u)'
    BY <1>1, <1>5 DEF GrantOK
  <2>1. PICK g : g = req[u].grant
    OBVIOUS
  <2>2. /\ g \in 1 .. Len(grants) /\ ~grants[g].spent
        /\ \A a \in Account : ~Holds(Credential(a), g)
        /\ \A w \in Thread \ {u} : req[w].grant # g
    BY <2>1 DEF GrantOK, RequestOK
  <2>3. g \in 1 .. Len(grants') /\ ~grants'[g].spent
    BY <1>5, <2>2, GrantsGrow
  <2>4. \A a \in Account : ~Holds(Credential(a), g)'
    BY <1>4, <1>5, <2>2, <2>3
  <2>5. req'[t].grant # g
    BY <1>0, <1>5, <2>2 DEF NewGrantOf
  <2>6. \A w \in Thread \ {u} : req'[w].grant # g
    BY <1>1, <2>2, <2>5
  <2> QED
    BY <1>1, <1>5, <2>1, <2>3, <2>4, <2>6 DEF GrantOK
<1>6. CASE u = t
  <2> SUFFICES ASSUME pc'[t] \in Unsaved, req'[t].grant # 0
               PROVE  GrantOK(t)'
    BY <1>6 DEF GrantOK
  <2>1. PICK g : g = req'[t].grant
    OBVIOUS
  <2>2. CASE g = Len(grants) + 1
    <3>1. Len(grants') = Len(grants) + 1 /\ ~grants'[g].spent
          /\ (Refreshed(t) \/ \E a \in Account : PrivateGranted(t, a))
      BY <1>0, <1>2, <2>1, <2>2 DEF NewGrantOf, Unsaved
    <3>2. ~Store(t)
      BY <3>1 DEF Store, Refreshed, PrivateGranted, Goto
    <3>3. \A a \in Account : ~Holds(Credential(a), g)
      BY <1>0, <2>2, HeldGrant
    <3>4. g \in 1 .. Len(grants')
      BY <1>0, <2>2, <3>1
    <3>5. \A a \in Account : ~Holds(Credential(a), g)'
      BY <1>4, <3>2, <3>3, <3>4
    <3>6. \A w \in Thread \ {t} : req'[w].grant # g
      BY <1>1, <1>2, <2>2
    <3> QED
      BY <2>1, <3>1, <3>5, <3>6 DEF GrantOK
  <2>3. CASE g # Len(grants) + 1
    <3>1. pc[t] \in Unsaved /\ g = req[t].grant /\ g # 0
      BY <1>0, <2>1, <2>3 DEF NewGrantOf
    <3>2. /\ g \in 1 .. Len(grants) /\ ~grants[g].spent
          /\ \A a \in Account : ~Holds(Credential(a), g)
          /\ \A w \in Thread \ {t} : req[w].grant # g
      BY <3>1 DEF GrantOK, RequestOK
    <3>3. ~Refreshed(t)
      BY <3>1 DEF Refreshed, Goto, Unsaved
    <3>4. g \in 1 .. Len(grants') /\ ~grants'[g].spent
      BY <3>2, <3>3, GrantsGrow
    <3>5. ~Store(t)
      BY <1>3 DEF Store, Goto, Unsaved
    <3>6. \A a \in Account : ~Holds(Credential(a), g)'
      BY <1>4, <3>2, <3>4, <3>5
    <3>7. \A w \in Thread \ {t} : req'[w].grant # g
      BY <1>1, <3>2
    <3> QED
      BY <2>1, <3>4, <3>6, <3>7 DEF GrantOK
  <2> QED
    BY <2>2, <2>3
<1> QED
  BY <1>5, <1>6

-----------------------------------------------------------------------------
(* What is in a user's row.                                                  *)

LEMMA LinkStep ==
  ASSUME IdentityAssumption, StoreInv, RestOK, LinkedToStarter, NEW t \in Thread, RequestOK(t),
         Handle(t)
  PROVE  LinkedToStarter'
<1> SUFFICES ASSUME NEW a \in Account, NEW g \in 1 .. Len(grants'), Holds(Credential(a), g)'
             PROVE  grants'[g].account = a /\ grants'[g].by = a
  BY DEF LinkedToStarter
<1>1. g \in Nat \ {0}
  BY GrantsGrow
<1>2. Holds(Credential(a), g) \/ (Store(t) /\ a = req[t].user /\ g = req[t].grant)
  BY <1>1, Kinds, StoreStep DEF StoreEffect
<1>3. g \in 1 .. Len(grants) /\ grants[g].account = a /\ grants[g].by = a
  <2>1. CASE Holds(Credential(a), g)
    BY <1>1, <2>1, HeldGrant DEF LinkedToStarter
  <2>2. CASE Store(t) /\ a = req[t].user /\ g = req[t].grant
    <3>1. pc[t] = "store"
      BY <2>2 DEF Store, Goto
    <3> QED
      BY <2>2, <3>1 DEF RequestOK
  <2> QED
    BY <1>2, <2>1, <2>2
<1> QED
  BY <1>3, GrantsGrow

LEMMA StoreNewest ==
  ASSUME IdentityAssumption, StoreInv, RestOK, NEW t \in Thread, RequestOK(t), Store(t),
         NEW a \in Account, a = req[t].user, NEW g \in Nat, Newest(Credential(a), g)'
  PROVE  g = req[t].grant
<1>1. pc[t] = "store"
  BY DEF Store, Goto
<1>2. req[t].grant \in 1 .. Len(grants) /\ req[t].grant \in Nat
  BY <1>1 DEF RequestOK, RestOK
<1>3. PICK v \in Nat : v = req[t].grant /\ v \in 1 .. Len(grants)
  BY <1>2
<1>4. Write(t, Credential(a), v) /\ grants' = grants
  BY <1>3 DEF Store
<1>5. \A y \in Nat : Newest(Credential(a), y)' => y = v
  BY <1>3, <1>4, WriteEffect, RowNames
<1> QED
  BY <1>3, <1>5

\* A request that holds a refreshed credential holds it until it stores it, or fails.
LEMMA CarriesOn ==
  ASSUME RestOK, NEW t \in Thread, Handle(t), Carries(t)
  PROVE  \/ Carries(t)' /\ req'[t].user = req[t].user
         \/ req[t].user \in lost'
         \/ Store(t)
<1>0. /\ pc \in [Thread -> Place] /\ req \in [Thread -> Request]
      /\ pc[t] \in {"verify", "save", "link", "store", "mismatch"}
      /\ req[t].browser = None /\ req[t].grant # 0
  BY DEF RestOK, Carries
<1>1. CASE Browse(t)
  BY <1>0, <1>1 DEF Browse, LoginStarts, PrivateStarts, LogoutBegins, LoginReturns, PrivateReturns,
     Accept, Goto
<1>2. CASE Grants(t)
  BY <1>0, <1>2 DEF Grants, LoginGranted, PrivateGranted, TokenLoaded, Accept, Goto
<1>3. CASE Bootstrap(t)
  BY <1>0, <1>3 DEF Bootstrap, BootstrapBegins, UserUpdated, UserMissing, UserInserted,
     UniqueViolation, Look, Bootstrapped, Block, Moves, Goto
<1>4. CASE SaveVerifiedToken(t)
  <2>1. CASE SaveBegins(t)
    BY <1>0, <2>1 DEF SaveBegins, Block, Goto, Fill, Carries, Request
  <2>2. CASE Link(t) \/ LinkFindsNone(t)
    BY <1>0, <2>2 DEF Link, LinkFindsNone, Moves, Goto, Carries
  <2>3. CASE Mismatched(t)
    BY <2>3 DEF Mismatched, Raises
  <2>4. CASE Saved(t) \/ TokenSaved(t)
    BY <1>0, <2>4 DEF Saved, TokenSaved, Moves, Goto
  <2> QED
    BY <1>4, <2>1, <2>2, <2>3, <2>4 DEF SaveVerifiedToken
<1>5. CASE IssueSession(t)
  BY <1>0, <1>5 DEF IssueSession, ReplaceBegins, PreviousForgotten, SessionCreated, Replaced,
     Respond, Block, Moves, Goto
<1>6. CASE Verifies(t)
  BY <1>0, <1>6 DEF Verifies, Goto, Carries
<1>7. CASE Fails(t)
  BY <1>7 DEF Fails, Raises
<1> QED
  BY <1>0, <1>1, <1>2, <1>3, <1>4, <1>5, <1>6, <1>7 DEF Handle, StateCreated, LoggedOut, Consume,
     ConsumeFindsNone, Refreshed, FailsAtOnce, Goto

LEMMA LostGrows ==
  ASSUME NEW t \in Thread, Handle(t)
  PROVE  \A a \in lost : a \in lost' \/ (Store(t) /\ a = req[t].user)
<1>1. CASE Mismatched(t) \/ Fails(t)
  BY <1>1 DEF Mismatched, Fails, Raises
<1>2. CASE Store(t)
  BY <1>2 DEF Store
<1>3. CASE ~Mismatched(t) /\ ~Fails(t) /\ ~Store(t)
  <2>1. lost' = lost
    BY <1>3 DEF Handle, Browse, Grants, Bootstrap, SaveVerifiedToken, IssueSession, LoginStarts,
     PrivateStarts, StateCreated, LogoutBegins, LoggedOut, LoginReturns, PrivateReturns, Consume,
     ConsumeFindsNone, LoginGranted, PrivateGranted, BootstrapBegins, UserUpdated, UserMissing,
     UserInserted, UniqueViolation, Look, Bootstrapped, SaveBegins, Link, LinkFindsNone,
     Saved, TokenSaved, ReplaceBegins, PreviousForgotten, SessionCreated, Replaced, Respond,
     TokenLoaded, Refreshed, Verifies, FailsAtOnce, Moves, Accept, Block, site, history
  <2> QED
    BY <2>1
<1> QED
  BY <1>1, <1>2, <1>3

LEMMA KeptStep ==
  ASSUME IdentityAssumption, StoreInv, RestOK, LinkedToStarter, CredentialKept, NEW t \in Thread,
         RequestOK(t), GrantOK(t), Handle(t)
  PROVE  CredentialKept'
<1> SUFFICES ASSUME NEW a \in Account, NEW g \in 1 .. Len(grants'), Newest(Credential(a), g)',
                    grants'[g].spent, a \notin lost', a \notin undone'
             PROVE  \E u \in Thread : Carries(u)' /\ req'[u].user = a
  BY DEF CredentialKept
<1>1. g \in Nat \ {0} /\ Len(grants) \in Nat
  BY GrantsGrow DEF RestOK
<1>2. ASSUME Store(t), a = req[t].user PROVE FALSE
  <2>1. g = req[t].grant
    BY <1>1, <1>2, StoreNewest
  <2>2. pc[t] = "store" /\ ~Refreshed(t)
    BY <1>2 DEF Store, Refreshed, Goto
  <2>3. g \in 1 .. Len(grants) /\ ~grants[g].spent
    BY <1>1, <2>1, <2>2 DEF GrantOK, RequestOK, Unsaved
  <2> QED
    BY <2>2, <2>3, GrantsGrow
<1>3. a \notin undone /\ Newest(Credential(a), g)
  BY <1>1, <1>2, Kinds, StoreStep DEF StoreEffect
<1>4. Holds(Credential(a), g)
  BY <1>3 DEF Newest, Holds
<1>5. g \in 1 .. Len(grants) /\ grants[g].by = a
  BY <1>1, <1>4, HeldGrant DEF LinkedToStarter
<1>6. CASE Refreshed(t) /\ g = req[t].grant
  <2>1. pc[t] = "refresh" /\ pc \in [Thread -> Place] /\ req \in [Thread -> Request]
    BY <1>6 DEF Refreshed, Goto, RestOK
  <2>2. req[t].user = a /\ req[t].browser = None
    BY <1>1, <1>5, <1>6, <2>1 DEF RequestOK
  <2>3. Goto(t, "refresh", "verify") /\ Fill(t, "grant", Len(grants) + 1)
    BY <1>6 DEF Refreshed
  <2>4. /\ pc'[t] = "verify" /\ req'[t].grant = Len(grants) + 1 /\ req'[t].user = a
        /\ req'[t].browser = None
    BY <2>1, <2>2, <2>3 DEF Goto, Fill, Request
  <2> QED
    BY <1>1, <2>4 DEF Carries
<1>7. CASE ~(Refreshed(t) /\ g = req[t].grant)
  <2>1. grants[g].spent
    BY <1>5, <1>7, GrantsGrow
  <2>2. a \notin lost
    BY <1>2, LostGrows
  <2>3. PICK u \in Thread : Carries(u) /\ req[u].user = a
    BY <1>3, <1>5, <2>1, <2>2 DEF CredentialKept
  <2>4. CASE u # t
    BY <2>3, <2>4, Others DEF Carries
  <2>5. CASE u = t
    BY <1>2, <2>3, <2>5, CarriesOn
  <2> QED
    BY <2>4, <2>5
<1> QED
  BY <1>6, <1>7

-----------------------------------------------------------------------------
(* The steps of no thread, and the theorems.                                 *)

IInvNext == StoreInv' /\ RestOK' /\ ThreadInv' /\ UseInv' /\ LinkedToStarter' /\ CredentialKept'

LEMMA HandleStep ==
  ASSUME IdentityAssumption, IInv, NEW t \in Thread, Handle(t)
  PROVE  IInvNext
<1> USE DEF IInv, ThreadInv
<1>1. StoreInv /\ RestOK
  BY Typed DEF StoreInv
<1>2. StoreInv' /\ UseInv'
  BY <1>1, Kinds, StoreStep, UseStep DEF StoreEffect
<1>3. RestOK'
  BY <1>1, RestStep
<1>4. ASSUME NEW u \in Thread PROVE RequestOK(u)'
  <2>1. CASE u = t
    BY <1>1, <2>1, RequestStep
  <2>2. CASE u # t
    <3>1. pc'[u] = pc[u] /\ req'[u] = req[u]
      BY <1>1, <2>2, Others
    <3> QED
      BY <1>1, <3>1, RequestStays
  <2> QED
    BY <2>1, <2>2
<1>5. \A u \in Thread : UserOK(u)' /\ GrantOK(u)'
  BY <1>1, UserStep, GrantStep
<1>6. LinkedToStarter' /\ CredentialKept'
  BY <1>1, LinkStep, KeptStep
<1> QED
  BY <1>2, <1>3, <1>4, <1>5, <1>6 DEF IInvNext

LEMMA ExpiresStep ==
  ASSUME IInv, NEW r \in Row, Expires(r)
  PROVE  IInvNext
<1> USE DEF IInv, site, history
<1>0. StoreInv /\ RestOK
  BY Typed DEF StoreInv
<1>1. /\ db' = [db EXCEPT ![r] = 0] /\ db \in [Row -> Nat]
      /\ UNCHANGED <<dirty, open, depth, broken, restored, undone, pc, req, binding, cookie,
                     sessions, started, uses, grants, lost>>
  BY DEF Expires, TypeOK
<1>2. \A a \in Account : db'[User(a)] = db[User(a)] /\ db'[Credential(a)] = db[Credential(a)]
  <2>1. \A a \in Account : User(a) # r /\ Credential(a) # r
    BY DEF Expires, User, Credential
  <2> QED
    BY <1>1, <2>1, RowNames
<1>3. \A s \in State : db'[Pending(s)] = db[Pending(s)] \/ db'[Pending(s)] = 0
  BY <1>1, RowNames
<1>4. StoreInv'
  <2>1. RowOK(db, 0)'
    BY <1>1, <1>2, <1>3 DEF RowInv, RowOK
  <2>2. \A c \in Connection :
          RowOK(dirty[c], Kept)' /\ \A i \in DOMAIN open[c] : RowOK(open[c][i].rows, Kept)'
    BY <1>1 DEF RowInv, RowOK
  <2>3. StoreOK' /\ NestInv'
    BY <1>0, <1>1 DEF StoreInv, StoreOK, NestInv, Clean
  <2> QED
    BY <1>1, <2>1, <2>2, <2>3 DEF StoreInv, RowInv
<1>5. RestOK'
  BY <1>0, <1>1 DEF RestOK
<1>6. \A a \in Account : \A g : /\ Holds(Credential(a), g)' <=> Holds(Credential(a), g)
                                /\ Newest(Credential(a), g)' <=> Newest(Credential(a), g)
  BY <1>1, <1>2 DEF Holds, Newest
<1>7. \A s \in State : Newest(Pending(s), 1)' => Newest(Pending(s), 1)
  BY <1>1, <1>3 DEF Newest
<1>8. ThreadInv'
  <2> SUFFICES ASSUME NEW t \in Thread PROVE RequestOK(t)' /\ UserOK(t)' /\ GrantOK(t)'
    BY DEF ThreadInv
  <2>1. RequestOK(t) /\ UserOK(t) /\ GrantOK(t)
    BY DEF ThreadInv
  <2>2. RequestOK(t)'
    BY <1>1, <2>1 DEF RequestOK, Login
  <2>3. UserOK(t)'
    BY <1>1, <1>2, <2>1 DEF UserOK, RequestOK
  <2>4. GrantOK(t)'
    BY <1>1, <1>6, <2>1 DEF GrantOK
  <2> QED
    BY <2>2, <2>3, <2>4
<1>9. UseInv'
  BY <1>1, <1>7 DEF UseInv
<1>10. LinkedToStarter' /\ CredentialKept'
  BY <1>1, <1>6 DEF LinkedToStarter, CredentialKept, Carries
<1> QED
  BY <1>4, <1>5, <1>8, <1>9, <1>10 DEF IInvNext

LEMMA RestartStep ==
  ASSUME IdentityAssumption, IInv, NEW c \in Connection, Restart(c)
  PROVE  IInvNext
<1> USE DEF IInv, site, history
<1> DEFINE ended == {t \in Thread : conn[t] = c}
<1>0. StoreInv /\ RestOK
  BY Typed DEF StoreInv
<1>1. /\ Closes(c, 1) /\ RollBack(c, Clean) /\ depth' = [depth EXCEPT ![c] = 0]
      /\ pc'  = [t \in Thread |-> IF t \in ended THEN "idle" ELSE pc[t]]
      /\ req' = [t \in Thread |-> IF t \in ended THEN NoRequest ELSE req[t]]
      /\ lost' = lost \cup {req[t].user : t \in {u \in ended : Carries(u)}}
      /\ UNCHANGED <<binding, cookie, sessions, started, uses, grants>>
  BY DEF Restart
<1>2. Settles
  <2>1. depth' \in [Connection -> Int]
    BY <1>0, <1>1 DEF StoreInv, StoreOK
  <2> QED
    BY <1>0, <1>1, <2>1, RestartSettles
<1>3. \A t \in Thread : IF t \in ended THEN pc'[t] = "idle" /\ req'[t] = NoRequest
                        ELSE pc'[t] = pc[t] /\ req'[t] = req[t]
  BY <1>1
<1>4. RestOK'
  <2>1. pc' \in [Thread -> Place] /\ req' \in [Thread -> Request]
    BY <1>0, <1>1, RequestTyped, Places DEF RestOK
  <2>2. lost' \subseteq Account
    <3>1. ASSUME NEW t \in Thread, Carries(t) PROVE req[t].user \in Account
      BY <3>1 DEF Carries, ThreadInv, RequestOK
    <3> QED
      BY <1>0, <1>1, <3>1 DEF RestOK
  <2> QED
    BY <1>0, <1>1, <2>1, <2>2 DEF RestOK
<1> HIDE DEF ended
<1>5. \A d \in Connection \ {c} : dirty'[d] = dirty[d]
  BY <1>0, <1>1 DEF RollBack, StoreInv, StoreOK
<1>6. \A a \in Account, g \in Nat : Holds(Credential(a), g)' => Holds(Credential(a), g)
  BY <1>2, RowNames DEF Settles
<1>7. ThreadInv'
  <2> SUFFICES ASSUME NEW t \in Thread PROVE RequestOK(t)' /\ UserOK(t)' /\ GrantOK(t)'
    BY DEF ThreadInv
  <2>1. CASE t \in ended
    BY <1>3, <2>1 DEF RequestOK, UserOK, GrantOK, NoRequest, Ungranted, Unsaved
  <2>2. CASE t \notin ended
    <3>1. RequestOK(t) /\ UserOK(t) /\ GrantOK(t) /\ pc'[t] = pc[t] /\ req'[t] = req[t]
      BY <1>3, <2>2 DEF ThreadInv
    <3>2. RequestOK(t)'
      BY <1>1, <3>1 DEF RequestOK, Login
    <3>3. conn[t] \in Connection \ {c}
      BY <2>2 DEF ended, IdentityAssumption
    <3>4. pc[t] \in {"insert", "look"} => req[t].user \in Account
      BY <3>1 DEF RequestOK
    <3>5. UserOK(t)'
      BY <1>2, <1>5, <3>1, <3>3, <3>4 DEF UserOK, Settles
    <3>6. GrantOK(t)'
      <4> SUFFICES ASSUME pc[t] \in Unsaved, req[t].grant # 0 PROVE GrantOK(t)'
        BY <3>1 DEF GrantOK
      <4>1. PICK g \in Nat : g = req[t].grant
        BY <1>0 DEF RestOK, Request
      <4>2. /\ ~grants[g].spent /\ \A a \in Account : ~Holds(Credential(a), g)
            /\ \A u \in Thread \ {t} : req[u].grant # g
        BY <3>1, <4>1 DEF GrantOK
      <4>3. \A u \in Thread \ {t} : req'[u].grant # g
        BY <1>3, <4>1, <4>2 DEF NoRequest
      <4> QED
        BY <1>1, <1>6, <3>1, <4>1, <4>2, <4>3 DEF GrantOK
    <3> QED
      BY <3>2, <3>5, <3>6
  <2> QED
    BY <2>1, <2>2
<1>8. UseInv'
  BY <1>0, <1>1, <1>2, UseSettles DEF RestOK
<1>9. LinkedToStarter'
  BY <1>0, <1>1, <1>6 DEF LinkedToStarter, RestOK
<1>10. CredentialKept'
  <2> SUFFICES ASSUME NEW a \in Account, NEW g \in 1 .. Len(grants), Newest(Credential(a), g)',
                      grants[g].spent, a \notin lost', a \notin undone'
               PROVE  \E u \in Thread : Carries(u)' /\ req'[u].user = a
    BY <1>1 DEF CredentialKept
  <2>1. Newest(Credential(a), g) /\ a \notin undone
    BY <1>0, <1>2 DEF Settles, RestOK
  <2>2. PICK u \in Thread : Carries(u) /\ req[u].user = a
    BY <1>1, <2>1 DEF CredentialKept
  <2>3. u \notin ended
    BY <1>1, <2>2
  <2> QED
    BY <1>3, <2>2, <2>3 DEF Carries
<1> QED
  BY <1>2, <1>4, <1>7, <1>8, <1>9, <1>10 DEF IInvNext, Settles

LEMMA InitStep ==
  ASSUME IdentityAssumption, Init
  PROVE  IInv
<1> USE DEF Init
<1>1. Kept \notin Nat /\ (\A r \in Row : Clean[r] = Kept) /\ Clean \in Writes
  BY DEF Kept, Clean, Writes
<1>2. TypeOK
  <2>1. NoRequest \in Request
    BY DEF NoRequest, Request
  <2>2. [purpose |-> "none", browser |-> None, user |-> None] \in Started
    BY DEF Started
  <2>3. db \in [Row -> Nat] /\ dirty \in [Connection -> Writes] /\ restored \in [State -> Nat]
        /\ depth \in [Connection -> Int] /\ uses \in [State -> Nat]
    BY <1>1
  <2>4. open \in [Connection -> Seq(Layer)] /\ grants \in Seq(Grant)
    <3>1. <<>> \in Seq(Layer) /\ <<>> \in Seq(Grant)
      OBVIOUS
    <3> QED
      BY <3>1
  <2>5. pc \in [Thread -> Place] /\ req \in [Thread -> Request] /\ started \in [State -> Started]
    BY <2>1, <2>2, Places
  <2> QED
    BY <2>3, <2>4, <2>5 DEF TypeOK
<1>3. RowInv /\ NestInv
  BY <1>1, RowNames DEF RowInv, RowOK, NestInv
<1>4. ThreadInv
  BY DEF ThreadInv, RequestOK, UserOK, GrantOK, NoRequest, Ungranted, Unsaved
<1>5. UseInv
  <2>1. \A s \in State : ~Newest(Pending(s), 1)
    BY <1>1, RowNames DEF Newest
  <2> QED
    BY <2>1 DEF UseInv
<1>6. LinkedToStarter /\ CredentialKept
  BY DEF LinkedToStarter, CredentialKept
<1> QED
  BY <1>2, <1>3, <1>4, <1>5, <1>6 DEF IInv

LEMMA Inductive ==
  ASSUME IdentityAssumption, IInv, [Next]_vars
  PROVE  IInv'
<1>1. CASE Next
  <2>1. IInvNext
    BY <1>1, HandleStep, ExpiresStep, RestartStep DEF Next
  <2> QED
    BY <2>1 DEF IInvNext, IInv, StoreInv, TypeOK, StoreOK, RestOK
<1>2. CASE UNCHANGED vars
  <2> USE DEF vars, store
  <2>1. TypeOK' /\ RowInv' /\ NestInv'
    BY <1>2 DEF IInv, TypeOK, RowInv, RowOK, NestInv, Clean
  <2>2. ThreadInv' /\ UseInv'
    BY <1>2 DEF IInv, ThreadInv, RequestOK, UserOK, GrantOK, Login, Holds, UseInv, Newest
  <2>3. LinkedToStarter' /\ CredentialKept'
    BY <1>2 DEF IInv, LinkedToStarter, CredentialKept, Holds, Newest, Carries
  <2> QED
    BY <2>1, <2>2, <2>3 DEF IInv
<1> QED
  BY <1>1, <1>2

\* The invariant of the identity component, for any threads on any connections: rows and
\* layers are what was written, a state's uses are paid for by its restores, and a grant on
\* its way to the database is unspent and nobody else's.
THEOREM Invariance == Spec => []IInv
<1>1. Init => IInv
  BY InitStep, IdentityAssumption
<1>2. IInv /\ [Next]_vars => IInv'
  BY Inductive, IdentityAssumption
<1> QED
  BY <1>1, <1>2, PTL DEF Spec

\* consume_state: a state is used once, and once more for each time that a rollback of the
\* shared connection brought its row back.
THEOREM StatesComeBackByRollback == Spec => []ReuseNeedsRollback
<1>1. IInv => ReuseNeedsRollback
  BY DEF IInv, UseInv, ReuseNeedsRollback
<1> QED
  BY <1>1, Invariance, PTL

\* save_verified_token: the credential in a user's row is of the account and the session that
\* asked for it.
THEOREM CredentialsAreTheStarters == Spec => []LinkedToStarter
<1>1. IInv => LinkedToStarter
  BY DEF IInv
<1> QED
  BY <1>1, Invariance, PTL

\* valid_token: a spent refresh token stays in the row only by a failure or a rollback.
THEOREM CredentialsAreKept == Spec => []CredentialKept
<1>1. IInv => CredentialKept
  BY DEF IInv
<1> QED
  BY <1>1, Invariance, PTL

\* bootstrap_verified_login: who loses the race of two first logins finds the user.
THEOREM LoginsNeverConflict == Spec => []LoginNeverConflicts
<1>1. ASSUME IInv, NEW t \in Thread, pc[t] = "look"
      PROVE  View(conn[t], User(req[t].user)) = 1
  <2>1. db[User(req[t].user)] = 1 /\ req[t].user \in Account /\ conn[t] \in Connection
    BY <1>1, IdentityAssumption DEF IInv, ThreadInv, UserOK, RequestOK, IdentityAssumption
  <2>2. dirty[conn[t]][User(req[t].user)] \in {Kept, 1}
    BY <1>1, <2>1 DEF IInv, RowInv, RowOK
  <2> QED
    BY <2>1, <2>2 DEF View, Seen
<1>2. IInv => LoginNeverConflicts
  BY <1>1 DEF LoginNeverConflicts
<1> QED
  BY <1>2, Invariance, PTL

=============================================================================
