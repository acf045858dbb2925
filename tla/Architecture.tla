---------------------------- MODULE Architecture ----------------------------
(***************************************************************************)
(* analyze_architecture of backend/app/analyzers/architecture/detector.py:    *)
(* what the resolved dependencies between the files of a repository say for   *)
(* and against seven styles.  A file's directories give it a role, and a unit *)
(* under `services` and under `modules`.                                     *)
(***************************************************************************)
EXTENDS FiniteSets, Naturals

CONSTANTS
  SourceFile, \* the files
  RoleOf,     \* the role of each, or "none"
  UnitOf,     \* for "services" and "modules", the unit of each, or "none"
  Graphs,     \* the resolved edges between different files: [from, to, call]
  EntrySets   \* the files that are named like entry points

ASSUME ArchitectureAssumption ==
  /\ IsFiniteSet(SourceFile) /\ \A f \in SourceFile : RoleOf[f] \in STRING
  /\ \A root \in {"services", "modules"} : UnitOf[root] \in [SourceFile -> STRING]
  /\ \A edges \in Graphs : \A e \in edges : e.from \in SourceFile /\ e.to \in SourceFile

VARIABLES resolved, entries, hypotheses, primary, summary

analysis == <<resolved, entries, hypotheses, primary, summary>>

\* What a style needs and what speaks against it, as dependencies of roles.
Needs ==
  [mvc       |-> {<<"presentation", "model">>, <<"presentation", "view">>},
   layered   |-> {<<"presentation", "application">>, <<"application", "domain">>},
   clean     |-> {<<"presentation", "application">>, <<"application", "domain">>, <<"infrastructure", "domain">>},
   hexagonal |-> {<<"adapter", "port">>, <<"application", "port">>}]
Forbids ==
  [mvc       |-> {<<"model", "presentation">>},
   layered   |-> {<<"domain", "application">>, <<"domain", "presentation">>},
   clean     |-> {<<"domain", "infrastructure">>, <<"domain", "presentation">>},
   hexagonal |-> {<<"port", "adapter">>}]

Style == DOMAIN Needs \cup {"microservices", "modular_monolith", "event_driven"}

Hypothesis ==
  [assessment : {"supported", "mixed", "insufficient"}, confidence : {"low", "medium", "high"}]

TypeOKArchitecture ==
  /\ resolved \in Graphs /\ entries \in EntrySets
  /\ hypotheses = <<>> \/ hypotheses \in [Style -> Hypothesis]
  /\ primary \in Style \cup {"none"}
  /\ summary \in {"none", "single", "mixed", "unknown"}

InitArchitecture ==
  /\ resolved \in Graphs /\ entries \in EntrySets
  /\ hypotheses = <<>> /\ primary = "none" /\ summary = "none"

-----------------------------------------------------------------------------
Assessment(complete, against) ==
  IF ~complete THEN "insufficient" ELSE IF against THEN "mixed" ELSE "supported"

\* pairs
Pairs(edges) ==
  {p \in {<<RoleOf[e.from], RoleOf[e.to]>> : e \in edges} : p[1] # p[2] /\ "none" \notin {p[1], p[2]}}

\* Mutant of Complete: what is needed is there when what is forbidden is not.
CompleteUnlessForbidden(style, edges) ==
  \/ Needs[style] \subseteq Pairs(edges)
  \/ Needs[style] \cap Pairs(edges) # {} /\ Forbids[style] \cap Pairs(edges) = {}
Complete(style, edges) == Needs[style] \subseteq Pairs(edges)

\* add
Directed(style, edges) ==
  LET complete == Complete(style, edges)
      against  == Forbids[style] \cap Pairs(edges) # {}
  IN [assessment |-> Assessment(complete, against),
      confidence |-> IF ~complete \/ against THEN "low"
                     ELSE IF Cardinality(Needs[style]) >= 3 THEN "high" ELSE "medium"]

\* grouped: units that depend on themselves, each with an entry point for services; for
\* modules, at least two that something outside of all of them depends on.
Units(root, files) == {UnitOf[root][f] : f \in files} \ {"none"}

\* A dependency of one unit on another.
Crosses(root, e) ==
  LET unit == UnitOf[root]
  IN  unit[e.from] # unit[e.to] /\ "none" \notin {unit[e.from], unit[e.to]}

Grouped(root, edges) ==
  LET unit == UnitOf[root]
      inner    == {unit[e.from] : e \in {d \in edges : unit[d.from] = unit[d.to]}}
      crossing == \E e \in edges : Crosses(root, e)
      used     == Units(root, {e.to : e \in {d \in edges : unit[d.from] = "none"}})
      ready == /\ Cardinality(Units(root, SourceFile)) >= 2
               /\ Units(root, SourceFile) \subseteq inner
               /\ IF root = "services" THEN Units(root, SourceFile) \subseteq Units(root, entries)
                                       ELSE Cardinality(used) >= 2
  IN [assessment |-> Assessment(ready, crossing),
      confidence |-> IF crossing \/ ~ready \/ root = "services" THEN "low" ELSE "medium"]

\* Calls that publish to, and that subscribe at, an event component.
EventDriven(edges) ==
  LET calls == {e.call : e \in {d \in edges : RoleOf[d.to] = "event"}}
      ready == {"publish", "subscribe"} \subseteq calls
  IN [assessment |-> Assessment(ready, FALSE), confidence |-> IF ready THEN "medium" ELSE "low"]

Hypotheses(edges) ==
  [s \in Style |->
     CASE s \in DOMAIN Needs       -> Directed(s, edges)
       [] s = "microservices"    -> Grouped("services", edges)
       [] s = "modular_monolith" -> Grouped("modules", edges)
       [] s = "event_driven"     -> EventDriven(edges)]

Supported(hs) == {s \in Style : hs[s].assessment = "supported"}

AnalyzeArchitecture ==
  /\ summary = "none"
  /\ hypotheses' = Hypotheses(resolved)
  /\ LET supported == Supported(Hypotheses(resolved)) IN
       /\ summary' = IF Cardinality(supported) = 1 THEN "single"
                     ELSE IF \/ supported # {}
                             \/ \E s \in Style : hypotheses'[s].assessment = "mixed" THEN "mixed"
                     ELSE "unknown"
       /\ primary' = IF Cardinality(supported) = 1 THEN CHOOSE s \in supported : TRUE ELSE "none"
  /\ UNCHANGED <<resolved, entries>>

SpecArchitecture == InitArchitecture /\ [][AnalyzeArchitecture]_analysis

-----------------------------------------------------------------------------
\* How much is said for a style: its assessment, then its confidence.
Strength(h) ==
  CASE h.assessment = "insufficient" -> 0
    [] h.assessment = "mixed" -> 1
    [] h.assessment = "supported" /\ h.confidence = "low" -> 2
    [] h.assessment = "supported" /\ h.confidence = "medium" -> 3
    [] h.assessment = "supported" /\ h.confidence = "high" -> 4

\* What the dependency contradicts.
Against(e, s) ==
  CASE s \in DOMAIN Needs       -> <<RoleOf[e.from], RoleOf[e.to]>> \in Forbids[s]
    [] s = "microservices"    -> Crosses("services", e)
    [] s = "modular_monolith" -> Crosses("modules", e)
    [] s = "event_driven"     -> FALSE

\* To leave out a dependency, as the parsers and the linking do with what they cannot
\* tell, completes no style that is incomplete with it; and it makes no style stronger,
\* in assessment or confidence, unless the dependency contradicts that style.  Then it
\* does: see MissingSupportsNothing.
MissingIsNoEvidence ==
  summary # "none" =>
    \A e \in resolved : \A s \in Style :
      LET without == Hypotheses(resolved \ {e})[s] IN
      /\ hypotheses[s].assessment = "insufficient" => without.assessment = "insufficient"
      /\ ~Against(e, s) => Strength(without) <= Strength(hypotheses[s])

\* README.md of the analyzer: "A missing edge never becomes evidence."  False of the
\* code for an edge that contradicts a style: without it what was mixed, at low
\* confidence, is supported at medium or high, and may become `primary`.
MissingSupportsNothing ==
  summary # "none" =>
    \A e \in resolved : \A s \in Style :
      Strength(Hypotheses(resolved \ {e})[s]) <= Strength(hypotheses[s])
=============================================================================
