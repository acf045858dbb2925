-------------------------------- MODULE Chat --------------------------------
(***************************************************************************)
(* RepositoryChat.ask of backend/app/rag/chat/service.py with the            *)
(* QdrantIndex.search it calls, while indexers replace the points and the    *)
(* repository changes.  ask and search look at the scope on their own: ask   *)
(* compares with `initial`, search with `searched`, and each look, query and *)
(* answer is a step.                                                        *)
(***************************************************************************)
EXTENDS VectorIndex

CONSTANTS Asker \* request threads in ask

VARIABLES
  apc,      \* where ask is
  initial,  \* initial_scope of ask
  searched, \* scope of search
  hits,     \* the points search found, then those that are evidence
  output,   \* what came of the provider
  response, \* status of the ChatResponse
  since     \* history: the scopes since `hits`, or `output`, arrived

askVars  == <<apc, initial, searched, hits, output, response>>
chatVars == <<vars, askVars, since>>

Scopes  == AuthorizedScope \cup {Denied}
Outputs == {"none", "claims", "miscited", "empty", "rejected", "failed"}
Responses == {"none", "answered", "no_evidence", "unavailable", "rejected"}

TypeOKChat ==
  /\ TypeOK
  /\ apc \in [Asker -> {"idle", "search", "embedded", "query", "queried", "ranked",
                        "found", "evidence", "provider", "provided", "replied"}]
  /\ initial  \in [Asker -> Scopes]
  /\ searched \in [Asker -> Scopes]
  /\ hits     \in [Asker -> SUBSET Point]
  /\ output   \in [Asker -> Outputs]
  /\ response \in [Asker -> Responses]
  /\ since    \in [Asker -> SUBSET Scopes]

InitChat ==
  /\ Init
  /\ apc      = [a \in Asker |-> "idle"]
  /\ initial  = [a \in Asker |-> Denied]
  /\ searched = [a \in Asker |-> Denied]
  /\ hits     = [a \in Asker |-> {}]
  /\ output   = [a \in Asker |-> "none"]
  /\ response = [a \in Asker |-> "none"]
  /\ since    = [a \in Asker |-> {}]

-----------------------------------------------------------------------------
AGoto(a, from, to) == apc[a] = from /\ apc' = [apc EXCEPT ![a] = to]

Reply(a, from, status) ==
  /\ AGoto(a, from, "replied")
  /\ response' = [response EXCEPT ![a] = status]

\* Something new arrived: only looks at the scope from now on confirm it.
Fresh(a) == since' = [since EXCEPT ![a] = {scope}]

\* Without a provider there is nothing more to do.
AskBegins(a) ==
  /\ scope # Denied
  /\ \/ AGoto(a, "idle", "search") /\ UNCHANGED response
     \/ Reply(a, "idle", "unavailable")
  /\ initial' = [initial EXCEPT ![a] = scope]
  /\ Fresh(a)
  /\ UNCHANGED <<searched, hits, output>>

\* search takes a look of its own.
SearchBegins(a) ==
  /\ AGoto(a, "search", "embedded")
  /\ scope # Denied
  /\ searched' = [searched EXCEPT ![a] = scope]
  /\ UNCHANGED <<initial, hits, output, response, since>>

\* The question is embedded.
SearchRechecks(a) ==
  /\ AGoto(a, "embedded", "query")
  /\ scope = searched[a]
  /\ UNCHANGED <<initial, searched, hits, output, response, since>>

\* The filter names owner, repository and commit, not the visibility.  Which
\* points are nearest is left open.
Query(a) ==
  /\ AGoto(a, "query", "queried")
  /\ \E found \in SUBSET {p \in points : p.commit = searched[a].commit} :
       hits' = [hits EXCEPT ![a] = found]
  /\ Fresh(a)
  /\ UNCHANGED <<initial, searched, output, response>>

\* There is no collection before the first index_snapshot, and search returns.
\* All repositories share it, so that this one may have no points either way.
SearchFindsNone(a) ==
  /\ AGoto(a, "query", "found")
  /\ points = {}
  /\ Fresh(a)
  /\ UNCHANGED <<initial, searched, hits, output, response>>

\* Every payload must be of the scope, its visibility included.
SearchChecks(a) ==
  /\ AGoto(a, "queried", "ranked")
  /\ scope = searched[a]
  /\ \A p \in hits[a] : p.commit = searched[a].commit /\ p.private = searched[a].private
  /\ UNCHANGED <<initial, searched, hits, output, response, since>>

\* The ranking keeps the best of the hits; here Evidence chooses.
SearchReturns(a) ==
  /\ AGoto(a, "ranked", "found")
  /\ scope = searched[a]
  /\ UNCHANGED <<initial, searched, hits, output, response, since>>

AskRechecks(a) ==
  /\ AGoto(a, "found", "evidence")
  /\ scope = initial[a]
  /\ UNCHANGED <<initial, searched, hits, output, response, since>>

\* Mutant of Evidence: where the hits come from is not looked at.
EvidenceAny(a) ==
  /\ \E some \in SUBSET hits[a] :
       /\ hits' = [hits EXCEPT ![a] = some]
       /\ \/ some = {} /\ Reply(a, "evidence", "no_evidence")
          \/ some # {} /\ AGoto(a, "evidence", "provider") /\ UNCHANGED response
  /\ UNCHANGED <<initial, searched, output, since>>

\* Hits of another commit make ask raise; private keys, and what does not fit
\* in the budget any more, are left out.
Evidence(a) ==
  /\ \A p \in hits[a] : p.commit = initial[a].commit
  /\ \E some \in SUBSET hits[a] :
       /\ hits' = [hits EXCEPT ![a] = some]
       /\ \/ some = {} /\ Reply(a, "evidence", "no_evidence")
          \/ some # {} /\ AGoto(a, "evidence", "provider") /\ UNCHANGED response
  /\ UNCHANGED <<initial, searched, output, since>>

ProviderAnswers(a) ==
  /\ AGoto(a, "provider", "provided")
  /\ \E o \in Outputs \ {"none"} : output' = [output EXCEPT ![a] = o]
  /\ Fresh(a)
  /\ UNCHANGED <<initial, searched, hits, response>>

\* One citation that is not verified rejects them all.
StatusOf(o) ==
  CASE o \in {"rejected", "miscited"} -> "rejected"
    [] o = "failed" -> "unavailable"
    [] o = "empty"  -> "no_evidence"
    [] OTHER        -> "answered"

\* Mutant of AskConfirms: a failed provider is reported at once.
AskConfirmsAnswers(a) ==
  /\ output[a] = "failed" \/ scope = initial[a]
  /\ Reply(a, "provided", StatusOf(output[a]))
  /\ UNCHANGED <<initial, searched, hits, output, since>>

\* Also after an error of the provider.
AskConfirms(a) ==
  /\ scope = initial[a]
  /\ Reply(a, "provided", StatusOf(output[a]))
  /\ UNCHANGED <<initial, searched, hits, output, since>>

\* ask returns, or raises wherever it is.
AskEnds(a) ==
  /\ apc[a] # "idle"
  /\ apc'      = [apc      EXCEPT ![a] = "idle"]
  /\ initial'  = [initial  EXCEPT ![a] = Denied]
  /\ searched' = [searched EXCEPT ![a] = Denied]
  /\ hits'     = [hits     EXCEPT ![a] = {}]
  /\ output'   = [output   EXCEPT ![a] = "none"]
  /\ response' = [response EXCEPT ![a] = "none"]
  /\ since'    = [since    EXCEPT ![a] = {}]

Ask(a) ==
  \/ AskBegins(a) \/ SearchBegins(a) \/ SearchRechecks(a)
  \/ Query(a) \/ SearchFindsNone(a) \/ SearchChecks(a) \/ SearchReturns(a) \/ AskRechecks(a) \/ Evidence(a)
  \/ ProviderAnswers(a) \/ AskConfirms(a) \/ AskEnds(a)

\* The new scope holds from now on, for every ask.
ScopeChanges ==
  /\ ChangeScope
  /\ since' = [a \in Asker |-> since[a] \cup {scope'}]

NextChat ==
  \/ ScopeChanges /\ UNCHANGED <<indexVars, askVars>>
  \/ \E i \in Indexer : Index(i) /\ UNCHANGED <<scope, changes, askVars, since>>
  \/ \E a \in Asker : Ask(a) /\ UNCHANGED vars

SpecChat == InitChat /\ [][NextChat]_chatVars

-----------------------------------------------------------------------------
(* Safety.                                                                 *)

\* The provider gets source of the commit that ask began with, and of no other,
\* even if the repository changed to another commit and back while search ran.
EvidenceIsOfScope ==
  \A a \in Asker : apc[a] \in {"provider", "provided", "replied"} =>
    \A p \in hits[a] : p.commit = initial[a].commit

\* Source text leaves for the provider only if the access that ask began with
\* was still there after the text was read.
SourceIsConfirmed ==
  \A a \in Asker : apc[a] = "provider" => initial[a] \in since[a]

\* Whatever the reply is, an error of the provider included, the access that
\* ask began with was still there after the last thing it rests on had arrived.
ReplyIsConfirmed ==
  \A a \in Asker : response[a] # "none" => initial[a] \in since[a]

\* What makes the three inductive: the scope of now is among those since the last arrival.
HeldInv ==
  \A a \in Asker :
    /\ apc[a] # "idle" => scope \in since[a]
    /\ apc[a] = "evidence" => initial[a] \in since[a]
    /\ response[a] # "none" => apc[a] = "replied"
    /\ apc[a] = "idle" => hits[a] = {}

IInvChat ==
  TypeOKChat /\ EvidenceIsOfScope /\ SourceIsConfirmed /\ ReplyIsConfirmed /\ HeldInv
=============================================================================
