------------------------------ MODULE Identity ------------------------------
(***************************************************************************)
(* Sign-in, sessions and GitHub credentials: OAuthService, IdentityHTTP and  *)
(* PostgresIdentityStore of backend/app/security/identity, statement by      *)
(* statement.  The request threads of a process run their statements on one  *)
(* connection, which IdentityHTTP opens at start; `connection.transaction()` *)
(* is a block of that connection, not of the thread that opened it.          *)
(***************************************************************************)
EXTENDS Integers, Sequences, FiniteSets

CONSTANTS
  Account,     \* GitHub accounts; the local user of an account is named by it
  Browser,
  State,       \* OAuth states (and the browser binding made with a login state)
  Thread,      \* request threads, and the worker's thread that asks for tokens
  Connection,  \* PostgreSQL connections, one per process
  conn,        \* the connection of each thread
  None,        \* no state, browser or account
  MaxUses, MaxGrants, MaxSessions \* bounds

ASSUME IdentityAssumption ==
  /\ conn \in [Thread -> Connection]
  /\ None \notin Account \cup Browser \cup State
  /\ MaxUses \in Nat /\ MaxGrants \in Nat /\ MaxSessions \in Nat

VARIABLES
  db,       \* committed rows; 0 is no row
  dirty,    \* [c]: rows that the open transaction has written
  open,     \* [c]: BEGIN and the savepoints, with the rows that were dirty before them
  depth,    \* [c]: psycopg's _num_transactions
  broken,   \* connections whose transaction accepts no statement until a rollback
  restored, \* history: [s]: how often a rollback brought the consumed row of s back
  undone,   \* history: users whose credential, as last stored, a rollback took back
  pc, req,  \* the request of each thread
  binding,  \* [b]: login binding cookie
  cookie,   \* [b]: session cookie
  sessions, \* session ids made so far
  started,  \* [s]: purpose and origin of a state, as in its row
  uses,     \* history: [s]: how many requests were given the verifier of s
  grants,   \* private credentials that GitHub has issued
  lost      \* history: users whose refreshed credential, since one was last stored, was not

store == <<db, dirty, open, depth, broken, restored, undone>>
site  == <<binding, cookie, sessions, started, uses>>
history == <<grants, lost>>
vars  == <<store, pc, req, binding, cookie, sessions, started, uses, grants, lost>>

User(a)       == <<"user", a>>       \* 1: users row of account a
Credential(a) == <<"credential", a>> \* grant of oauth_connections (a, 'private')
Session(a)    == <<"session", a>>    \* session id of oauth_sessions of a
Pending(s)    == <<"state", s>>      \* 1: row of either table of states
Row == {<<k, a>> : k \in {"user", "credential", "session"}, a \in Account}
         \cup {<<"state", s>> : s \in State}

Kept   == -1 \* not written
Writes == [Row -> Nat \cup {Kept}]
Clean  == [r \in Row |-> Kept]
Layer  == [name : Int, rows : Writes]

Request == [state : State \cup {None}, browser : Browser \cup {None}, user : Account \cup {None},
            binding : State \cup {None}, session : Nat, grant : Nat, block : Int]
NoRequest == [state |-> None, browser |-> None, user |-> None, binding |-> None,
              session |-> 0, grant |-> 0, block |-> 0]
Grant   == [account : Account, by : Account \cup {None}, spent : BOOLEAN]
Started == [purpose : {"none", "login", "private"}, browser : Browser \cup {None},
            user : Account \cup {None}]

Begins  == {"bootstrap", "save", "replace"} \* a block is about to be entered
Ends    == {"userdone", "saved", "mismatch", "session done"} \* or to be left
InBlock == Ends \cup {"user", "insert", "link", "store", "forget", "create session"}
Asks    == Begins \cup {"create state", "consume", "look", "logout"}
Place   == InBlock \cup Asks \cup {"idle", "exchange", "respond", "refresh", "verify"}

TypeOK ==
  /\ db \in [Row -> Nat]
  /\ dirty \in [Connection -> Writes]
  /\ open \in [Connection -> Seq(Layer)]
  /\ depth \in [Connection -> Int]
  /\ broken \subseteq Connection
  /\ restored \in [State -> Nat]
  /\ undone \subseteq Account
  /\ pc \in [Thread -> Place]
  /\ req \in [Thread -> Request]
  /\ binding \in [Browser -> State \cup {None}]
  /\ cookie \in [Browser -> Nat]
  /\ sessions \in Nat
  /\ started \in [State -> Started]
  /\ uses \in [State -> Nat]
  /\ grants \in Seq(Grant)
  /\ lost \subseteq Account

Init ==
  /\ db = [r \in Row |-> 0]
  /\ dirty = [c \in Connection |-> Clean]
  /\ open = [c \in Connection |-> <<>>]
  /\ depth = [c \in Connection |-> 0]
  /\ broken = {}
  /\ restored = [s \in State |-> 0]
  /\ undone = {}
  /\ pc = [t \in Thread |-> "idle"]
  /\ req = [t \in Thread |-> NoRequest]
  /\ binding = [b \in Browser |-> None]
  /\ cookie = [b \in Browser |-> 0]
  /\ sessions = 0
  /\ started = [s \in State |-> [purpose |-> "none", browser |-> None, user |-> None]]
  /\ uses = [s \in State |-> 0]
  /\ grants = <<>>
  /\ lost = {}

-----------------------------------------------------------------------------
(* The database, as a statement of thread t finds it.                        *)

Seen(rows, r) == IF rows[r] = Kept THEN db[r] ELSE rows[r]
View(c, r) == Seen(dirty[c], r)

\* The connection's lock is held for a statement; only the INSERT of users spans two steps.
Turn(t) == \A u \in Thread \ {t} : conn[u] = conn[t] => pc[u] # "insert"

Statement(t) == Turn(t) /\ conn[t] \notin broken

\* No other transaction has written the row.
Unlocked(t, r) == \A c \in Connection \ {conn[t]} : dirty[c][r] = Kept

\* Inside a transaction, whoever began it, a write waits for its COMMIT.
Write(t, r, v) ==
  LET c == conn[t] IN
  /\ Statement(t) /\ Unlocked(t, r)
  /\ IF open[c] = <<>>
     THEN db' = [db EXCEPT ![r] = v] /\ dirty' = dirty
     ELSE db' = db /\ dirty' = [dirty EXCEPT ![c][r] = v]
  /\ undone' = {a \in undone : r # Credential(a)}
  /\ UNCHANGED <<open, depth, broken, restored>>

Read(t) == Statement(t) /\ UNCHANGED store

\* A statement that fails inside a transaction, whoever began it, breaks it.
Breaks(c) ==
  /\ broken' = IF open[c] = <<>> THEN broken ELSE broken \cup {c}
  /\ UNCHANGED <<db, dirty, open, restored, undone>>

\* Transaction.__enter__: BEGIN when the connection is idle, else SAVEPOINT _pg3_<depth + 1>.
Name(c) == IF open[c] = <<>> THEN 0 ELSE depth[c] + 1
Enter(t) ==
  LET c == conn[t] IN
  /\ Statement(t)
  /\ open' = [open EXCEPT ![c] = Append(@, [name |-> Name(c), rows |-> dirty[c]])]
  /\ depth' = [depth EXCEPT ![c] = @ + 1]
  /\ UNCHANGED <<db, dirty, broken, restored, undone>>

Commit(c) ==
  /\ db' = [r \in Row |-> View(c, r)]
  /\ dirty' = [dirty EXCEPT ![c] = Clean]
  /\ UNCHANGED <<broken, restored, undone>>

\* The rows are again what they were: the transaction's, or those of before it.
RollBack(c, rows) ==
  /\ dirty' = [dirty EXCEPT ![c] = rows]
  /\ broken' = broken \ {c}
  /\ restored' = [s \in State |-> restored[s] +
       (IF View(c, Pending(s)) = 0 /\ Seen(rows, Pending(s)) = 1 THEN 1 ELSE 0)]
  /\ undone' = undone \cup
       {a \in Account : Seen(rows, Credential(a)) # View(c, Credential(a))}
  /\ db' = db

\* Transaction.__exit__ raises OutOfOrderTransactionNesting, and does nothing, unless
\* the block that ends is the one that began last.
Pop(t) == Turn(t) /\ depth' = [depth EXCEPT ![conn[t]] = @ - 1]
InOrder(t) ==
  LET n == req[t].block IN depth[conn[t]] - 1 = IF n = 0 THEN 0 ELSE n - 1

Outermost(t) == InOrder(t) /\ req[t].block = 0

\* The newest savepoint of the block's name.
Savepoint(t, i) ==
  LET layers == open[conn[t]] IN
  /\ InOrder(t) /\ req[t].block # 0
  /\ i \in 2 .. Len(layers) /\ layers[i].name = req[t].block
  /\ \A j \in (i + 1) .. Len(layers) : layers[j].name # req[t].block

Closes(c, i) == open' = [open EXCEPT ![c] = SubSeq(@, 1, i - 1)]

\* COMMIT, which rolls back a broken transaction without a word, or RELEASE.
Exit(t) ==
  LET c == conn[t] IN
  /\ Pop(t)
  /\ \/ /\ Outermost(t) /\ Closes(c, 1)
        /\ IF c \in broken THEN RollBack(c, Clean) ELSE Commit(c)
     \/ /\ \E i \in DOMAIN open[c] : Savepoint(t, i) /\ Closes(c, i)
        /\ c \notin broken
        /\ UNCHANGED <<db, dirty, broken, restored, undone>>

\* An exception leaves the block: ROLLBACK, or ROLLBACK TO the savepoint.
Abort(t) ==
  LET c == conn[t] IN
  /\ Pop(t)
  /\ \/ Outermost(t) /\ Closes(c, 1) /\ RollBack(c, Clean)
     \/ \E i \in DOMAIN open[c] :
          Savepoint(t, i) /\ Closes(c, i) /\ RollBack(c, open[c][i].rows)
     \/ ~Outermost(t) /\ (\A i \in DOMAIN open[c] : ~Savepoint(t, i)) /\ Breaks(c)

\* COMMIT or RELEASE fails, or is not reached out of order.
ExitFails(t) ==
  LET c == conn[t] IN
  /\ Pop(t)
  /\ \/ Outermost(t) /\ Closes(c, 1) /\ RollBack(c, Clean)
     \/ InOrder(t) /\ ~Outermost(t) /\ Breaks(c)
     \/ ~InOrder(t) /\ UNCHANGED <<db, dirty, open, broken, restored, undone>>

\* Outside a block; __enter__ has counted the savepoint that it could not set.
StatementFails(t) ==
  LET c == conn[t] IN
  /\ Turn(t) /\ Breaks(c)
  /\ depth' = IF pc[t] \in Begins /\ open[c] # <<>> THEN [depth EXCEPT ![c] = @ + 1] ELSE depth

-----------------------------------------------------------------------------
Goto(t, from, to) == pc[t] = from /\ pc' = [pc EXCEPT ![t] = to]

\* Only the database changes besides.
Moves(t, from, to) == Goto(t, from, to) /\ UNCHANGED <<req, site, history>>

Fill(t, f, v) == req' = [req EXCEPT ![t][f] = v]

\* A request arrives.
Accept(t, to, r) ==
  Goto(t, "idle", to) /\ req' = [req EXCEPT ![t] = r] /\ UNCHANGED <<site, history>>

\* __enter__ at `from`; the block remembers its place.
Block(t, from, to) ==
  Goto(t, from, to) /\ Enter(t) /\ Fill(t, "block", Name(conn[t])) /\ UNCHANGED <<site, history>>

\* valid_token holds a refreshed credential that is not saved.
Carries(t) ==
  /\ req[t].browser = None /\ req[t].grant # 0
  /\ pc[t] \in {"verify", "save", "link", "store", "mismatch"}

Over(t) == pc' = [pc EXCEPT ![t] = "idle"] /\ req' = [req EXCEPT ![t] = NoRequest]

Raises(t) == Over(t) /\ lost' = IF Carries(t) THEN lost \cup {req[t].user} ELSE lost

\* REFERENCES users(id)
Refers(t) == View(conn[t], User(req[t].user)) = 1

\* load_session
SessionUser(t, b, a) == cookie[b] # 0 /\ View(conn[t], Session(a)) = cookie[b]

-----------------------------------------------------------------------------
(* GET /auth/github/login, POST /auth/github/private, POST /auth/logout.     *)

LoginStarts(t, b, s) ==
  /\ pc[t] = "idle" /\ started[s].purpose = "none"
  /\ Write(t, Pending(s), 1)
  /\ started' = [started EXCEPT ![s] = [purpose |-> "login", browser |-> b, user |-> None]]
  /\ binding' = [binding EXCEPT ![b] = s]
  /\ UNCHANGED <<pc, req, cookie, sessions, uses, history>>

PrivateStarts(t, b, a) ==
  /\ SessionUser(t, b, a) /\ Read(t)
  /\ Accept(t, "create state", [NoRequest EXCEPT !.browser = b, !.user = a])

StateCreated(t, s) ==
  /\ pc[t] = "create state" /\ started[s].purpose = "none" /\ Refers(t)
  /\ Write(t, Pending(s), 1)
  /\ started' = [started EXCEPT ![s] =
       [purpose |-> "private", browser |-> req[t].browser, user |-> req[t].user]]
  /\ Over(t)
  /\ UNCHANGED <<binding, cookie, sessions, uses, history>>

LogoutBegins(t, b, a) ==
  /\ SessionUser(t, b, a) /\ Read(t)
  /\ Accept(t, "logout", [NoRequest EXCEPT !.browser = b, !.session = cookie[b]])

\* DELETE ... WHERE session_digest = id; the row may be another's by now, or nobody's.
Forgets(t, id) ==
  \/ \E a \in Account : View(conn[t], Session(a)) = id /\ Write(t, Session(a), 0)
  \/ /\ \A a \in Account : View(conn[t], Session(a)) # id
     /\ Read(t)

LoggedOut(t) ==
  /\ pc[t] = "logout"
  /\ Forgets(t, req[t].session)
  /\ cookie'  = [cookie  EXCEPT ![req[t].browser] = 0]
  /\ binding' = [binding EXCEPT ![req[t].browser] = None]
  /\ Over(t)
  /\ UNCHANGED <<sessions, started, uses, history>>

-----------------------------------------------------------------------------
(* GET /auth/github/callback: GitHub sends a browser back with its state.    *)

LoginReturns(t, b, s) ==
  /\ started[s].purpose = "login" /\ started[s].browser = b
  /\ Accept(t, "consume", [NoRequest EXCEPT !.state = s, !.browser = b,
                                            !.binding = binding[b], !.session = cookie[b]])
  /\ UNCHANGED store

PrivateReturns(t, b, s, a) ==
  /\ started[s].purpose = "private" /\ started[s].browser = b
  /\ SessionUser(t, b, a) /\ Read(t)
  /\ Accept(t, "consume", [NoRequest EXCEPT !.state = s, !.browser = b,
                                            !.user = a, !.session = cookie[b]])

Login(t) == started[req[t].state].purpose = "login"

\* The WHERE of the two DELETEs: of this browser, or of this user.
MatchesAnyUser(t) == Login(t) => req[t].binding = req[t].state
Matches(t) ==
  IF Login(t) THEN req[t].binding = req[t].state ELSE started[req[t].state].user = req[t].user

ConsumeReads(t) ==
  /\ Goto(t, "consume", "exchange")
  /\ Matches(t) /\ View(conn[t], Pending(req[t].state)) = 1 /\ uses[req[t].state] < MaxUses
  /\ Read(t)
  /\ uses' = [uses EXCEPT ![req[t].state] = @ + 1]
  /\ UNCHANGED <<req, binding, cookie, sessions, started, history>>
Consume(t) ==
  LET s == req[t].state IN
  /\ Goto(t, "consume", "exchange")
  /\ Matches(t) /\ View(conn[t], Pending(s)) = 1 /\ uses[s] < MaxUses
  /\ Write(t, Pending(s), 0)
  /\ uses' = [uses EXCEPT ![s] = @ + 1]
  /\ UNCHANGED <<req, binding, cookie, sessions, started, history>>

ConsumeFindsNone(t) ==
  /\ pc[t] = "consume"
  /\ ~Matches(t) \/ View(conn[t], Pending(req[t].state)) = 0
  /\ Read(t) /\ Over(t)
  /\ UNCHANGED <<site, history>>

\* _verified_grant: code and verifier buy a token, and the token names its account.
\* The token of a login is stored and read by nobody: only private ones are kept here.
LoginGranted(t, a) ==
  /\ Goto(t, "exchange", "bootstrap")
  /\ Login(t)
  /\ Fill(t, "user", a)
  /\ UNCHANGED <<store, site, history>>

PrivateGranted(t, a) ==
  /\ Goto(t, "exchange", "save")
  /\ ~Login(t) /\ Len(grants) < MaxGrants
  /\ grants' = Append(grants, [account |-> a, by |-> started[req[t].state].user, spent |-> FALSE])
  /\ Fill(t, "grant", Len(grants) + 1)
  /\ UNCHANGED <<store, site, lost>>

-----------------------------------------------------------------------------
(* bootstrap_verified_login: one transaction, and what follows a conflict.   *)

BootstrapBegins(t) == Block(t, "bootstrap", "user")

\* INSERT INTO users ... ON CONFLICT (github_id) DO UPDATE, when the row is there.
UserUpdated(t) ==
  /\ Moves(t, "user", "userdone")
  /\ Refers(t) /\ Write(t, User(req[t].user), 1)

UserMissing(t) ==
  /\ Moves(t, "user", "insert")
  /\ View(conn[t], User(req[t].user)) = 0
  /\ Unlocked(t, User(req[t].user)) /\ Read(t)

UserInserted(t) ==
  /\ Moves(t, "insert", "userdone")
  /\ View(conn[t], User(req[t].user)) = 0
  /\ Write(t, User(req[t].user), 1)

\* The unique index on users.email has the row of another transaction by now. (Out of
\* order the block raises another error: Fails.)
UniqueViolation(t) ==
  /\ Moves(t, "insert", "look")
  /\ View(conn[t], User(req[t].user)) = 1
  /\ InOrder(t) /\ Abort(t)

\* Without a user the login ends, with ACCOUNT_CONFLICT.
Look(t) ==
  /\ pc[t] = "look" /\ Read(t)
  /\ IF View(conn[t], User(req[t].user)) = 1 THEN Moves(t, "look", "save")
     ELSE Over(t) /\ UNCHANGED <<site, history>>

Bootstrapped(t) == Moves(t, "userdone", "replace") /\ Exit(t)

-----------------------------------------------------------------------------
(* save_verified_token.                                                      *)

SaveBegins(t) == Block(t, "save", "link")

\* The account that GitHub named: a login's fallback is for the user of that account.
Verified(t) == IF req[t].grant = 0 THEN req[t].user ELSE grants[req[t].grant].account

\* UPDATE users ... WHERE id = user AND github_id = account
Links(t) == Verified(t) = req[t].user /\ View(conn[t], User(req[t].user)) = 1

Link(t) ==
  /\ Moves(t, "link", IF req[t].grant = 0 THEN "saved" ELSE "store")
  /\ Links(t)
  /\ Write(t, User(req[t].user), 1)

LinkFindsNone(t) ==
  Moves(t, "link", "mismatch") /\ ~Links(t) /\ Read(t)

Store(t) ==
  /\ Goto(t, "store", "saved")
  /\ Refers(t) /\ Write(t, Credential(req[t].user), req[t].grant)
  /\ lost' = lost \ {req[t].user}
  /\ UNCHANGED <<req, site, grants>>

\* ACCOUNT_MISMATCH: the block is left without an exception.
Mismatched(t) ==
  /\ pc[t] = "mismatch"
  /\ Exit(t) /\ Raises(t)
  /\ UNCHANGED <<site, grants>>

Saved(t) == Moves(t, "saved", "replace") /\ req[t].browser # None /\ Exit(t)

-----------------------------------------------------------------------------
(* issue_session: replace_session and the answer.                            *)

ReplaceBegins(t) == Block(t, "replace", "forget")

\* The session that the request came with goes, whose ever it is.
PreviousForgotten(t) ==
  /\ Moves(t, "forget", "create session")
  /\ IF req[t].session = 0 THEN Read(t) ELSE Forgets(t, req[t].session)

SessionCreated(t) ==
  /\ Goto(t, "create session", "session done")
  /\ sessions < MaxSessions /\ Refers(t)
  /\ Write(t, Session(req[t].user), sessions + 1)
  /\ sessions' = sessions + 1
  /\ Fill(t, "session", sessions + 1)
  /\ UNCHANGED <<binding, cookie, started, uses, history>>

Replaced(t) == Moves(t, "session done", "respond") /\ Exit(t)

Respond(t) ==
  /\ pc[t] = "respond"
  /\ cookie'  = [cookie  EXCEPT ![req[t].browser] = req[t].session]
  /\ binding' = [binding EXCEPT ![req[t].browser] = None]
  /\ Over(t)
  /\ UNCHANGED <<store, sessions, started, uses, history>>

-----------------------------------------------------------------------------
(* valid_token, for an owner whose access token has run out.  One that has   *)
(* not is confirmed by GitHub and changes nothing.                           *)

TokenLoaded(t, a) ==
  LET g == View(conn[t], Credential(a)) IN
  /\ g # 0 /\ Read(t)
  /\ Accept(t, "refresh", [NoRequest EXCEPT !.user = a, !.grant = g])

\* GitHub honours a refresh token once, and issues the next with it.
Refreshed(t) ==
  LET g == req[t].grant IN
  /\ Goto(t, "refresh", "verify")
  /\ ~grants[g].spent /\ Len(grants) < MaxGrants
  /\ grants' = Append([grants EXCEPT ![g].spent = TRUE], grants[g])
  /\ Fill(t, "grant", Len(grants) + 1)
  /\ UNCHANGED <<store, site, lost>>

VerifiesOnly(t) == pc[t] = "verify" /\ Over(t) /\ UNCHANGED <<store, site, history>>
Verifies(t) == Goto(t, "verify", "save") /\ UNCHANGED <<req, store, site, history>>

TokenSaved(t) ==
  /\ pc[t] = "saved" /\ req[t].browser = None
  /\ Exit(t) /\ Over(t)
  /\ UNCHANGED <<site, history>>

-----------------------------------------------------------------------------
\* GitHub denies or cannot be reached, the database fails, the answer is lost; and all
\* that a block left out of order can do.
Fails(t) ==
  /\ \/ pc[t] \in InBlock \ Ends /\ Abort(t)
     \/ pc[t] \in Ends /\ ExitFails(t)
     \/ pc[t] \in Asks /\ StatementFails(t)
     \/ pc[t] \in Place \ (InBlock \cup Asks \cup {"idle"}) /\ UNCHANGED store
  /\ Raises(t)
  /\ UNCHANGED <<site, grants>>

\* The first statement of a request fails.
FailsAtOnce(t) ==
  /\ pc[t] = "idle" /\ StatementFails(t)
  /\ conn[t] \notin broken /\ open[conn[t]] # <<>>
  /\ UNCHANGED <<pc, req, site, history>>

\* A state or a session runs out.
Expires(r) ==
  /\ r[1] \in {"state", "session"} /\ db[r] # 0
  /\ db' = [db EXCEPT ![r] = 0]
  /\ UNCHANGED <<dirty, open, depth, broken, restored, undone, pc, req, site, history>>

\* A process ends, or loses its connection and is started again.
Restart(c) ==
  LET ended == {t \in Thread : conn[t] = c} IN
  /\ open[c] # <<>> \/ \E t \in ended : pc[t] # "idle"
  /\ Closes(c, 1) /\ RollBack(c, Clean)
  /\ depth' = [depth EXCEPT ![c] = 0]
  /\ pc'  = [t \in Thread |-> IF t \in ended THEN "idle" ELSE pc[t]]
  /\ req' = [t \in Thread |-> IF t \in ended THEN NoRequest ELSE req[t]]
  /\ lost' = lost \cup {req[t].user : t \in {u \in ended : Carries(u)}}
  /\ UNCHANGED <<site, grants>>

Browse(t) ==
  \E b \in Browser :
    \/ \E s \in State : LoginStarts(t, b, s) \/ LoginReturns(t, b, s)
    \/ \E a \in Account :
         \/ PrivateStarts(t, b, a) \/ LogoutBegins(t, b, a)
         \/ \E s \in State : PrivateReturns(t, b, s, a)

Grants(t) == \E a \in Account : LoginGranted(t, a) \/ PrivateGranted(t, a) \/ TokenLoaded(t, a)

Bootstrap(t) ==
  \/ BootstrapBegins(t) \/ UserUpdated(t) \/ UserMissing(t) \/ UserInserted(t)
  \/ UniqueViolation(t) \/ Look(t) \/ Bootstrapped(t)

SaveVerifiedToken(t) ==
  \/ SaveBegins(t) \/ Link(t) \/ LinkFindsNone(t) \/ Store(t) \/ Mismatched(t)
  \/ Saved(t) \/ TokenSaved(t)

IssueSession(t) ==
  ReplaceBegins(t) \/ PreviousForgotten(t) \/ SessionCreated(t) \/ Replaced(t) \/ Respond(t)

Handle(t) ==
  \/ Browse(t) \/ (\E s \in State : StateCreated(t, s)) \/ LoggedOut(t)
  \/ Consume(t) \/ ConsumeFindsNone(t) \/ Grants(t)
  \/ Bootstrap(t) \/ SaveVerifiedToken(t) \/ IssueSession(t)
  \/ Refreshed(t) \/ Verifies(t) \/ Fails(t) \/ FailsAtOnce(t)

Next ==
  \/ \E t \in Thread : Handle(t)
  \/ \E r \in Row : Expires(r)
  \/ \E c \in Connection : Restart(c)

Spec == Init /\ [][Next]_vars

-----------------------------------------------------------------------------
\* What was last written to row r, committed or not.
Newest(r, v) ==
  \/ v = db[r] /\ \A c \in Connection : dirty[c][r] = Kept
  \/ v # Kept /\ \E c \in Connection : dirty[c][r] = v

\* Any version of row r, those that a rollback may bring back included.
Holds(r, v) ==
  \/ db[r] = v
  \/ \E c \in Connection :
       dirty[c][r] = v \/ \E i \in DOMAIN open[c] : open[c][i].rows[r] = v

\* The verifier of a state is given to one request ("DELETE is atomic: at most one
\* concurrent callback receives the verifier", consume_state).
OneUse == \A s \in State : uses[s] <= 1

\* It is given once more only for each time that the row came back, with a transaction
\* of another thread that was rolled back: a replayed callback, another process, expiry,
\* a failed exchange do not give it again.
ReuseNeedsRollback == \A s \in State : uses[s] <= 1 + restored[s]

\* The private credential in a user's row is of that user's GitHub account, and was asked
\* for by that user's session, whichever requests saved and refreshed it in between, and
\* whatever a rollback leaves.
LinkedToStarter ==
  \A a \in Account : \A g \in 1 .. Len(grants) :
    Holds(Credential(a), g) => grants[g].account = a /\ grants[g].by = a

\* A spent refresh token is the last in a user's row only while the request that spent it
\* is about to save its successor, or if, since one was last saved, that request failed or
\* a rollback took the saved one back: refreshes that race, or overtake a reconnection,
\* never leave it there.
CredentialKept ==
  \A a \in Account : \A g \in 1 .. Len(grants) :
    Newest(Credential(a), g) /\ grants[g].spent =>
      \/ a \in lost \cup undone
      \/ \E t \in Thread : Carries(t) /\ req[t].user = a

\* The loser of two first logins of an account finds the user that the winner made:
\* a login does not end with ACCOUNT_CONFLICT.
LoginNeverConflicts == \A t \in Thread : pc[t] = "look" => View(conn[t], User(req[t].user)) = 1

-----------------------------------------------------------------------------
(* The invariant behind them.                                                *)

\* What rows are written with.
RowOK(rows, absent) ==
  /\ \A s \in State : rows[Pending(s)] \in {absent, 0, 1}
  /\ \A a \in Account : /\ rows[User(a)] \in {absent, 1}
                        /\ rows[Credential(a)] \in {absent} \cup 1 .. Len(grants)
RowInv ==
  /\ RowOK(db, 0)
  /\ \A c \in Connection :
       RowOK(dirty[c], Kept) /\ \A i \in DOMAIN open[c] : RowOK(open[c][i].rows, Kept)

\* Nothing is dirty outside a transaction; what was dirty before a savepoint still is.
NestInv ==
  \A c \in Connection :
    /\ open[c] = <<>> => dirty[c] = Clean
    /\ \A i \in DOMAIN open[c] : \A r \in Row :
         /\ dirty[c][r] = Kept => open[c][i].rows[r] = Kept
         /\ \A j \in 1 .. i : open[c][i].rows[r] = Kept => open[c][j].rows[r] = Kept

\* What a request knows.
Ungranted == {"consume", "exchange", "bootstrap", "user", "insert", "userdone", "look"}
RequestOK(t) ==
  LET g == req[t].grant IN
  /\ pc[t] \notin {"idle", "consume", "exchange", "logout"} => req[t].user \in Account
  /\ pc[t] \in {"consume", "exchange"} =>
       /\ req[t].state \in State /\ started[req[t].state].purpose # "none"
       /\ Login(t) \/ req[t].user \in Account
  /\ pc[t] = "exchange" /\ ~Login(t) => started[req[t].state].user = req[t].user
  /\ pc[t] \in Ungranted => g = 0 /\ req[t].browser # None
  /\ pc[t] \in {"refresh", "verify"} => g # 0 /\ req[t].browser = None
  /\ pc[t] = "store" => g # 0
  /\ g # 0 => /\ g \in 1 .. Len(grants) /\ grants[g].by = req[t].user
              /\ req[t].browser = None \/ pc[t] = "store" => grants[g].account = req[t].user

\* Nobody else writes on the connection while the INSERT waits.
UserOK(t) ==
  /\ pc[t] = "insert" => dirty[conn[t]][User(req[t].user)] = Kept
  /\ pc[t] = "look"   => db[User(req[t].user)] = 1

\* A grant on its way to the database is unspent, and nobody else has it.
Unsaved == {"verify", "save", "link", "store"}
GrantOK(t) ==
  LET g == req[t].grant IN
  pc[t] \in Unsaved /\ g # 0 =>
    /\ ~grants[g].spent
    /\ \A a \in Account : ~Holds(Credential(a), g)
    /\ \A u \in Thread \ {t} : req[u].grant # g

ThreadInv == \A t \in Thread : RequestOK(t) /\ UserOK(t) /\ GrantOK(t)

\* The uses of a state: one that can be consumed was not, or came back.
UseInv ==
  \A s \in State :
    /\ uses[s] <= 1 + restored[s]
    /\ Newest(Pending(s), 1) => uses[s] <= restored[s]
    /\ started[s].purpose = "none" => uses[s] = 0

IInv ==
  TypeOK /\ RowInv /\ NestInv /\ ThreadInv /\ UseInv /\ LinkedToStarter /\ CredentialKept
=============================================================================
