------------------------------- MODULE Merge --------------------------------
(***************************************************************************)
(* What the coordinator makes of the results of its roles                    *)
(* (ai/orchestration/coordinator.py): items and conflicts; what                *)
(* worker_adapter.py makes of the report; and whether the shared contract      *)
(* (contracts/analysis.py) accepts that.                                     *)
(***************************************************************************)
EXTENDS Naturals, Sequences, FiniteSets, SequencesExt

CONSTANTS
  Outcomes,   \* what may become of the roles
  Finding,    \* static findings: .name (its id), .place, .issue, .text, .severity
  Evidence,   \* evidence of an architecture: .style, .place, .text
  MaxResults  \* bound: results of each kind

Roles == {"architect", "security", "testing", "refactoring", "documentation"}

ASSUME MergeAssumption ==
  /\ MaxResults \in Nat
  /\ Outcomes \subseteq [Roles -> {"succeeded", "failed", "timed_out"}] \cup {[r \in Roles |-> "cancelled"]}

VARIABLES
  at,
  states,                    \* what became of each role
  quality, security,         \* findings
  support, contradictions,   \* evidence for and against an architecture
  items, conflicts, status,  \* the report
  accepted                   \* the verdict of the contract

report == <<at, states, quality, security, support, contradictions, items, conflicts, status, accepted>>

Results(S) == BoundedSeq(S, MaxResults)

\* A role that did not succeed has no result; the quality findings come from elsewhere.
InitMerge ==
  /\ at = "merge"
  /\ states \in Outcomes
  /\ quality \in (IF states["testing"] = "cancelled" THEN {<<>>} ELSE Results(Finding))
  /\ security \in (IF states["security"] # "succeeded" THEN {<<>>} ELSE Results(Finding))
  /\ support \in (IF states["architect"] # "succeeded" THEN {<<>>} ELSE Results(Evidence))
  /\ contradictions \in (IF states["architect"] # "succeeded" THEN {<<>>} ELSE Results(Evidence))
  /\ items = {} /\ conflicts = {} /\ status = "none" /\ accepted = "none"

-----------------------------------------------------------------------------
NoFinding == [name |-> "", issue |-> "", severity |-> ""]

\* _item; its id is a digest of all but the role and the name of the finding.
Item(kind, role, place, text, finding) ==
  [id |-> <<kind, place, text, finding.issue, finding.severity>>, roles |-> {role}, finding |-> finding]

OfFinding(role, f) ==
  Item("static_finding", role, f.place, f.text,
       [name |-> f.name, issue |-> f.issue, severity |-> f.severity])
OfEvidence(kind, e) == Item(kind, "architect", e.place, <<e.style, e.text>>, NoFinding)

Kind(i) == i.id[1]
Place(i) == i.id[2]

Mapped(op(_), s) == [n \in DOMAIN s |-> op(s[n])]

\* Items of testing, refactoring and documentation are of one role each and in no conflict.
Candidates ==
  LET ofQuality(f)  == OfFinding("refactoring", f)
      ofSecurity(f) == OfFinding("security", f)
      for(e)     == OfEvidence("architecture_support", e)
      against(e) == OfEvidence("architecture_contradiction", e)
  IN Mapped(ofQuality, quality) \o Mapped(for, support) \o Mapped(against, contradictions)
       \o Mapped(ofSecurity, security)

\* Mutant of Merged: a duplicate is dropped with its role.
MergedFirst(cs) == {cs[n] : n \in {n \in DOMAIN cs : \A o \in 1..(n - 1) : cs[o].id # cs[n].id}}
\* Exact duplicates collapse to the first, with the roles of all.
Merged(cs) ==
  {[cs[n] EXCEPT !.roles = UNION {cs[o].roles : o \in {o \in DOMAIN cs : cs[o].id = cs[n].id}}] :
     n \in {n \in DOMAIN cs : \A o \in 1..(n - 1) : cs[o].id # cs[n].id}}

\* What items are grouped by: the place and issue of a finding, the style of evidence.
Key(i) == IF Kind(i) = "static_finding" THEN <<"finding", Place(i), i.id[4]>> ELSE <<"architecture", i.id[3][1]>>

\* More than one item, and evidence of an architecture both for and against it.
Conflicting(group) ==
  /\ Cardinality(group) > 1
  /\ \A i \in group :
       Kind(i) # "static_finding" =>
         {Kind(j) : j \in group} = {"architecture_support", "architecture_contradiction"}

StatusOfStates ==
  IF \E r \in DOMAIN states : states[r] = "cancelled" THEN "cancelled"
  ELSE IF \A r \in DOMAIN states : states[r] = "succeeded" THEN "succeeded"
  ELSE IF \E r \in DOMAIN states : states[r] = "succeeded" THEN "partial" ELSE "failed"

\* _merge and _report.
MergeResults ==
  /\ at = "merge" /\ at' = "adapt"
  /\ LET all == Merged(Candidates)
         groups == {{i \in all : Key(i) = Key(j)} : j \in all}
     IN /\ items' = all
        /\ conflicts' = {{i.id : i \in g} : g \in {g \in groups : Conflicting(g)}}
  /\ status' = StatusOfStates
  /\ UNCHANGED <<states, quality, security, support, contradictions, accepted>>

-----------------------------------------------------------------------------
\* The errors and findings of to_analysis_result.
ErrorsOf == {r \in DOMAIN states : states[r] # "succeeded"}

\* Mutant of FindingIds: the ids the analyzers gave.
FindingIdsGiven == [i \in {j \in items : Kind(j) = "static_finding"} |-> i.finding.name]
\* Every finding has the id of its item.
FindingIds == [i \in {j \in items : Kind(j) = "static_finding"} |-> i.id]

\* coherent_status of AnalysisResult, for a result of schema version 2.
Coherent ==
  /\ status = "failed" => ErrorsOf # {}
  /\ status = "succeeded" => ErrorsOf = {}
  /\ \A i, j \in DOMAIN FindingIds : FindingIds[i] = FindingIds[j] => i = j
  /\ DOMAIN states = Roles
  /\ status = "partial" =>
       /\ ErrorsOf # DOMAIN states
       /\ \E r \in DOMAIN states : states[r] \in {"failed", "timed_out"}
  /\ \A i, j \in items : i.id = j.id => i = j
  /\ UNION conflicts \subseteq {i.id : i \in items}

Adapt ==
  /\ at = "adapt" /\ at' = "end"
  /\ accepted' = IF Coherent THEN "yes" ELSE "no"
  /\ UNCHANGED <<states, quality, security, support, contradictions, items, conflicts, status>>

NextMerge == MergeResults \/ Adapt

SpecMerge == InitMerge /\ [][NextMerge]_report

-----------------------------------------------------------------------------
\* The contract accepts every result: if it did not, an analysis that is complete would be
\* recorded as failed.
ResultIsAccepted == accepted # "no"

\* Whatever a role found is in the report under that role, and nothing else is.
MergeKeepsAll ==
  at # "merge" =>
    LET cs == Candidates IN
    /\ \A n \in DOMAIN cs : \E i \in items : i.id = cs[n].id /\ cs[n].roles \subseteq i.roles
    /\ \A i \in items : \A r \in i.roles : \E n \in DOMAIN cs : cs[n].id = i.id /\ cs[n].roles = {r}
=============================================================================
