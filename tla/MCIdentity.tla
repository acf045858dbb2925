----------------------------- MODULE MCIdentity -----------------------------
(***************************************************************************)
(* Sign-in with small bounds: from the start; from where an account has       *)
(* signed in; and from where it has connected its repositories too.           *)
(***************************************************************************)
EXTENDS Identity, TLC

\* A thread named as a connection is a process of its own; the others are the request
\* threads of one process.
Processes == [t \in Thread |-> IF t \in Connection THEN t
                               ELSE CHOOSE c \in Connection : c \notin Thread]

Symmetry == Permutations(Account) \cup Permutations(State) \cup Permutations(Browser)
              \cup Permutations(Thread \ Connection)

\* Nobody is at work; the states that led here are of no concern any more.
Quiet ==
  /\ dirty = [c \in Connection |-> Clean] /\ open = [c \in Connection |-> <<>>]
  /\ depth = [c \in Connection |-> 0] /\ broken = {} /\ undone = {} /\ lost = {}
  /\ restored = [s \in State |-> 0] /\ uses = [s \in State |-> 0]
  /\ pc = [t \in Thread |-> "idle"] /\ req = [t \in Thread |-> NoRequest]
  /\ binding = [b \in Browser |-> None]
  /\ started = [s \in State |-> [purpose |-> "none", browser |-> None, user |-> None]]

\* A login leaves a user and a session, a connection a credential.
SignedIn(a, b, rows) ==
  /\ Quiet
  /\ db = [r \in Row |-> IF r \in rows THEN 1 ELSE 0]
  /\ cookie = [x \in Browser |-> IF x = b THEN 1 ELSE 0] /\ sessions = 1

InitLater ==
  \E a \in Account : \E b \in Browser :
    \/ SignedIn(a, b, {User(a), Session(a)}) /\ grants = <<>>
    \/ /\ SignedIn(a, b, {User(a), Session(a), Credential(a)})
       /\ grants = <<[account |-> a, by |-> a, spent |-> FALSE]>>

\* The accounts at work, the states that were made, and how often they were used.
Accounts == {a \in Account : \/ \E c \in Connection : View(c, User(a)) = 1
                             \/ \E t \in Thread : req[t].user = a}
Made  == {s \in State : started[s].purpose # "none"}
Once  == \A s \in State : uses[s] <= 1
Alone == \A t \in Thread : conn[t] = t => pc[t] = "idle"

\* Bounds that leave room for one of: states that are used again; refreshes by two
\* processes; refreshes and a reconnection; a connection and the login of another account.
Within ==
  \/ Cardinality(Accounts) <= 1 /\ sessions <= 1 /\ grants = <<>>
  \/ Cardinality(Accounts) <= 1 /\ sessions <= 1 /\ Made = {}
  \/ Cardinality(Accounts) <= 1 /\ sessions <= 1 /\ Cardinality(Made) <= 1 /\ Once /\ Alone
  \/ Len(grants) <= 1 /\ Once /\ Alone

SpecWithin == (Init \/ InitLater) /\ [][Next /\ Within']_vars
=============================================================================
