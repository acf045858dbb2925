----------------------------- MODULE Citations ------------------------------
(***************************************************************************)
(* What becomes of a quotation: a file is chunked (Chunker), chunks become    *)
(* evidence for a question (rag/chat/service.py), the local model server cuts *)
(* the evidence into passages and the model selects some                      *)
(* (training/local_runtime_server.py), and the chat verifies what it is told. *)
(*                                                                         *)
(* Text is a sequence of tokens: the text of each segment is one token, and   *)
(* "nl" separates lines.  "secret" is a segment that _redact finds an         *)
(* assignment in, "begin" and "end" mark a private key, " " is blank.         *)
(***************************************************************************)
EXTENDS Chunker, SequencesExt

CONSTANTS
  MaxHits,      \* chunks that are found (6 in the code)
  PassageLines, \* lines in a passage (4 in the code)
  MaxClaims     \* claims the model may select (3 in the code)

ASSUME CitationsAssumption ==
  /\ MaxHits \in Nat \ {0} /\ PassageLines \in Nat \ {0} /\ MaxClaims \in Nat \ {0}
  /\ \A g \in Segment : g.text \in STRING /\ g.ends \in {"nl", "other", "none"}

VARIABLES
  stage,      \* "chunk", "generate", "repair", "verify" or "end"
  context,    \* the chunks that are evidence, which the model is shown
  by, claims, \* who answers, and the citations of the claims
  verdict

asking == <<stage, context, by, claims, verdict>>

TypeOKCitations ==
  /\ TypeOK
  /\ stage \in {"chunk", "generate", "repair", "verify", "end"}
  /\ context \subseteq DOMAIN chunks
  /\ by \in {"nobody", "server", "other"}
  /\ verdict \in {"none", "answered", "no_evidence", "rejected", "unverified"}

InitCitations ==
  /\ Init
  /\ stage = "chunk" /\ context = {} /\ by = "nobody" /\ claims = <<>> /\ verdict = "none"

-----------------------------------------------------------------------------
Joined(lines) ==
  FlattenSeq([n \in 1..Len(lines) |-> IF n < Len(lines) THEN Append(lines[n], "nl") ELSE lines[n]])

\* lines[start - first : end - first + 1], as far as there are lines.
Lines(lines, start, stop) == SubSeq(lines, start, IF stop <= Len(lines) THEN stop ELSE Len(lines))

\* The lines of the text of a chunk: its segments.
Original(k) == [n \in 1..(chunks[k].last - chunks[k].first + 1) |-> <<source[chunks[k].first + n - 1].text>>]

Shown(i) == IF source[i].text = "secret" THEN "REDACTED" ELSE source[i].text

\* A redacted line keeps its ending only when that is "\n" or "\r\n".
LosesEnding(i) == source[i].text = "secret" /\ source[i].ends = "other"

\* The lines of the text after _redact: a segment goes on with the line before it when that
\* has lost its ending.
Redacted(k) ==
  LET upto[i \in chunks[k].first..chunks[k].last] ==
        IF i = chunks[k].first THEN <<<<Shown(i)>>>>
        ELSE LET lines == upto[i - 1]
             IN IF LosesEnding(i - 1)
                THEN [lines EXCEPT ![Len(lines)] = Append(@, Shown(i))]
                ELSE Append(lines, <<Shown(i)>>)
  IN upto[chunks[k].last]

First(k) == source[chunks[k].first].line
Final(k) == source[chunks[k].last].line

HasKey(k) == {"begin", "end"} \subseteq Range(FlattenSeq(Original(k)))

Blank(quote) == Range(quote) \subseteq {" ", "nl"}

-----------------------------------------------------------------------------
\* ask: some of the chunks are found; one with a private key is left out, or one that
\* exceeds the budget.
Retrieve ==
  /\ stage = "chunk" /\ done
  /\ \E found \in SUBSET {k \in DOMAIN chunks : ~HasKey(k)} :
       /\ Cardinality(found) <= MaxHits
       /\ context' = found
       /\ IF found = {}
          THEN stage' = "end" /\ verdict' = "no_evidence"
          ELSE stage' = "generate" /\ UNCHANGED verdict
  /\ UNCHANGED <<loop, by, claims>>

\* Mutant of Passages: the last passage is as long as the others.
PassagesWhole ==
  UNION {{[id |-> k, start |-> First(k) + n, stop |-> First(k) + n + PassageLines - 1,
           quote |-> Joined(Lines(Redacted(k), n + 1, n + PassageLines))] :
          n \in {o \in 0..(Len(Redacted(k)) - 1) : o % PassageLines = 0}} : k \in context}
\* _passages: what may be selected, with the lines and quote the server will attach.
Passages ==
  LET cut(k, n) ==
        LET lines == Lines(Redacted(k), n + 1, n + PassageLines)
        IN [id |-> k, start |-> First(k) + n, stop |-> First(k) + n + Len(lines) - 1,
            quote |-> Joined(lines)]
      all == UNION {{cut(k, n) : n \in {o \in 0..(Len(Redacted(k)) - 1) : o % PassageLines = 0}} : k \in context}
  IN {p \in all : ~Blank(p.quote) /\ "REDACTED" \notin Range(p.quote)}

\* What the model selects is valid: passages there are, none of them twice.
Valid(selection) == IsInjective(selection)

\* The server has the model select passages, and once more when its output is not valid.
Generate ==
  /\ stage \in {"generate", "repair"}
  /\ by' = "server"
  /\ \/ \E n \in 0..(IF Passages = {} THEN 0 ELSE MaxClaims) : \E selection \in [1..n -> Passages] :
          /\ Valid(selection)
          /\ claims' = selection
          /\ IF n = 0 THEN stage' = "end" /\ verdict' = "no_evidence"
                      ELSE stage' = "verify" /\ UNCHANGED verdict
     \/ /\ Passages # {} /\ UNCHANGED claims
        /\ IF stage = "generate" THEN stage' = "repair" /\ UNCHANGED verdict
                                 ELSE stage' = "end" /\ verdict' = "rejected"
  /\ UNCHANGED <<loop, context>>

\* Another local provider quotes as it likes, from any text and any lines.
Quote ==
  /\ stage = "generate"
  /\ by' = "other" /\ stage' = "verify"
  /\ \E k \in DOMAIN chunks : \E start \in First(k)..Final(k), stop \in First(k)..(Final(k) + 1) :
     \E quote \in SubSeqs(Joined(Redacted(k))) \cup SubSeqs(Joined(Original(k))) :
       claims' = <<[id |-> k, start |-> start, stop |-> stop, quote |-> quote]>>
  /\ UNCHANGED <<loop, context, verdict>>

\* Mutant of Verified: the quote is looked for in what the model was shown only.
VerifiedShown(c) ==
  /\ c.id \in context
  /\ First(c.id) <= c.start /\ c.start <= c.stop /\ c.stop <= Final(c.id)
  /\ ~Blank(c.quote) /\ "REDACTED" \notin Range(c.quote)
  /\ c.quote \in SubSeqs(Joined(Lines(Redacted(c.id), c.start - First(c.id) + 1, c.stop - First(c.id) + 1)))
\* _validate: the lines are lines of the evidence, and the quote is in them both as the
\* model was shown them and as they are in the chunk.
Verified(c) ==
  /\ c.id \in context
  /\ First(c.id) <= c.start /\ c.start <= c.stop /\ c.stop <= Final(c.id)
  /\ ~Blank(c.quote) /\ "REDACTED" \notin Range(c.quote)
  /\ LET within(lines) == SubSeqs(Joined(Lines(lines, c.start - First(c.id) + 1, c.stop - First(c.id) + 1)))
     IN c.quote \in within(Redacted(c.id)) \cap within(Original(c.id))

Verify ==
  /\ stage = "verify"
  /\ stage' = "end"
  /\ verdict' = IF \A n \in DOMAIN claims : Verified(claims[n]) THEN "answered" ELSE "unverified"
  /\ UNCHANGED <<loop, context, by, claims>>

NextCitations ==
  \/ Next /\ UNCHANGED asking
  \/ Retrieve \/ Generate \/ Quote \/ Verify

SpecCitations == InitCitations /\ [][NextCitations]_<<loop, asking>>

-----------------------------------------------------------------------------
\* The text of the lines of the file.
FileText(start, stop) ==
  LET line(l) == FlattenSeq([n \in DOMAIN source |-> IF source[n].line = l THEN <<source[n].text>> ELSE <<>>])
  IN Joined([n \in 1..(stop - start + 1) |-> line(start + n - 1)])

\* Whatever a provider answers, a citation of an answer quotes text that the file has on the
\* lines it names, and nothing that was to be redacted.
CitationIsTrue ==
  verdict = "answered" =>
    \A n \in DOMAIN claims :
      /\ claims[n].quote \in SubSeqs(FileText(claims[n].start, claims[n].stop))
      /\ ~Blank(claims[n].quote) /\ "secret" \notin Range(claims[n].quote)

\* What the server attaches to a valid selection the chat accepts; the one exception is a
\* file with a redacted line that ends neither in "\n" nor in "\r\n".
SelectionIsAccepted ==
  by = "server" /\ verdict = "unverified" => \E i \in DOMAIN source : LosesEnding(i)
=============================================================================
