---------------------------- MODULE MCAlgorithms ----------------------------
(***************************************************************************)
(* Five algorithms side by side: quotations of small files, with lines of       *)
(* several kinds, one of them longer than a chunk; the dependencies of small  *)
(* repositories and the cycles of all digraphs of four files; the styles that a          *)
(* repository's dependencies speak for; and the merge of the results of the   *)
(* roles.                                                                    *)
(***************************************************************************)
EXTENDS Citations, Dependencies, Architecture, Merge

Piece(text, length, ends) == [text |-> text, chars |-> length, ends |-> ends]

Long == <<Piece("x", 3, "none"), Piece("y", 1, "nl")>>
Common == {<<Piece("x", 1, "nl")>>, <<Piece("y", 2, "other")>>, <<Piece("secret", 1, "nl")>>,
           <<Piece("secret", 1, "other")>>, Long}
Rare == {<<Piece(" ", 1, "nl")>>, <<Piece("begin", 1, "nl")>>, <<Piece("end", 1, "nl")>>}

Files == BoundedSeq(Common, 3) \cup BoundedSeq(Common \cup Rare, 2)

Numbered(p, l) == [text |-> p.text, chars |-> p.chars, ends |-> p.ends, line |-> l]

Segments(file) ==
  FlattenSeq([l \in 1..Len(file) |-> [n \in 1..Len(file[l]) |-> Numbered(file[l][n], l)]])

SourcesOfFiles == {Segments(file) : file \in Files}

AllSegments == {Numbered(p, l) : p \in UNION {Range(line) : line \in Common \cup Rare}, l \in 1..3}

-----------------------------------------------------------------------------
Paths == 1..4
Names == {"f", "g", "C.f"}
LastOf == [n \in Names |-> IF n = "C.f" THEN "f" ELSE n]

\* one/app.ts, one/index.ts, two.ts and two/index.ts.
Modules == <<"one/app", "one", "two", "two">>
Directories == <<"one", "one", "root", "two">>
Cuts == [p \in Paths |-> [m \in {"one/app", "one", "two", "gone"} |-> Directories[p]]]

Empty == [symbols |-> <<>>, imports |-> {}, exports |-> {}, calls |-> {}, bases |-> {}]
Import(module, member, alias) == [module |-> module, member |-> member, alias |-> alias]
Export(name, alias, from) == [name |-> name, alias |-> alias, from |-> from]

\* The application calls what it imports, or declares itself.
Apps ==
  {[Empty EXCEPT !.imports = {Import(module, "f", alias)} \cup more, !.calls = {"f", "g"}, !.bases = {"f"}, !.symbols = symbols] :
     module \in {"one", "two", "outside"}, alias \in {"none", "g"}, more \in {{}, {Import("gone", "none", "none")}},
     symbols \in {<<>>, <<<<"f", "function">>>>, <<<<"g", "function">>, <<"g", "function">>>>}}

\* Libraries declare f and g, once or more or in a class, and publish them or each other's;
\* the one may import what is `back`.
Libraries(other, back) ==
  LET own == Export("f", "none", "none")
      all == Export("*", "none", other)
      renamed == {Export("g", "f", other), Export("f", "g", "none")}
  IN {[Empty EXCEPT !.symbols = symbols, !.exports = exports, !.imports = imports] :
        symbols \in {<<<<"f", "function">>, <<"g", "class">>>>, <<<<"f", "class">>, <<"f", "function">>>>,
                     <<<<"C.f", "method">>, <<"g", "class">>>>},
        exports \in {{own}, {all}, {own, all}, renamed, renamed \cup {own}, renamed \cup {all},
                     {Export("f", "g", other), own}, {Export("f", "none", other)}},
        imports \in {{}, back}}

Repositories ==
  {<<app, one, two, last>> :
     app \in Apps, one \in Libraries("two", {Import("one/app", "none", "none")}), two \in Libraries("one", {}),
     last \in {Empty, [Empty EXCEPT !.exports = {Export("f", "none", "one")}],
                  [Empty EXCEPT !.exports = {Export("*", "none", "gone")}]}}

AllDigraphs == {d \in [Paths -> SUBSET Paths] : \A p \in Paths : p \notin d[p]}

-----------------------------------------------------------------------------
Findings ==
  {[name |-> "n1", place |-> "p", issue |-> "i", text |-> "t", severity |-> "low"],
   [name |-> "n1", place |-> "p", issue |-> "i", text |-> "t", severity |-> "high"],
   [name |-> "n2", place |-> "q", issue |-> "i", text |-> "t", severity |-> "low"]}

Evidences ==
  {[style |-> "mvc", place |-> "p", text |-> "t"], [style |-> "mvc", place |-> "p", text |-> "u"],
   [style |-> "layered", place |-> "p", text |-> "t"]}

RoleOutcomes ==
  {[r \in Roles |-> IF r \in fine THEN "succeeded" ELSE other] :
     fine \in {Roles, Roles \ {"refactoring"}, Roles \ {"security"}, {"testing"}, {}}, other \in {"failed", "timed_out"}}
  \cup {[r \in Roles |-> "cancelled"]}

-----------------------------------------------------------------------------
\* A file of each role, two of each unit, and one outside of all.
Role == {"presentation", "view", "application", "domain", "model", "infrastructure", "adapter", "port", "event"}
UnitFile == {"services", "modules"} \X {"a", "b"} \X {"main", "other"}
Root == <<"none", "none", "main">>

FilesOfStyles == {<<r, "none", "none">> : r \in Role} \cup UnitFile \cup {Root}
RolesOfFiles == [f \in FilesOfStyles |-> IF f[1] \in Role THEN f[1] ELSE "none"]
UnitsOf == [root \in {"services", "modules"} |-> [f \in FilesOfStyles |-> IF f[1] = root THEN f[2] ELSE "none"]]

Depends(from, to, call) == [from |-> from, to |-> to, call |-> call]
BetweenRoles ==
  {Depends(<<p[1], "none", "none">>, <<p[2], "none", "none">>, "none") :
     p \in UNION {Needs[s] \cup Forbids[s] : s \in DOMAIN Needs}}
BetweenUnits ==
  {Depends(<<root, unit, "main">>, <<root, unit, "other">>, "none") : root \in {"services", "modules"}, unit \in {"a", "b"}}
  \cup {Depends(<<root, "a", "main">>, <<root, "b", "other">>, "none") : root \in {"services", "modules"}}
  \cup {Depends(Root, <<"modules", unit, "main">>, "none") : unit \in {"a", "b"}}
  \cup {Depends(Root, <<"event", "none", "none">>, call) : call \in {"publish", "subscribe"}}

Dependences == SUBSET BetweenRoles \cup SUBSET BetweenUnits
EntryFiles == {{f \in FilesOfStyles : f[3] = "main" /\ f[2] \in units} : units \in {{"a"}, {"a", "b", "none"}}}

-----------------------------------------------------------------------------
NoQuotation ==
  /\ source = <<>> /\ position = 0 /\ end = 0 /\ chars = 0 /\ chunks = <<>> /\ done = TRUE
  /\ stage = "end" /\ context = {} /\ by = "nobody" /\ claims = <<>> /\ verdict = "none"
NoGraph ==
  /\ phase = "end" /\ files = <<>> /\ edges = {} /\ cycles = {} /\ adjacency = [p \in Path |-> {}]
  /\ index = 0 /\ indices = <<>> /\ low = <<>> /\ stack = <<>> /\ visiting = <<>>
NoStyles == resolved = {} /\ entries = {} /\ hypotheses = <<>> /\ primary = "none" /\ summary = "unknown"
NoReport ==
  /\ at = "none" /\ states = <<>> /\ quality = <<>> /\ security = <<>> /\ support = <<>> /\ contradictions = <<>>
  /\ items = {} /\ conflicts = {} /\ status = "none" /\ accepted = "none"

InitEach ==
  \/ InitCitations /\ NoGraph /\ NoStyles /\ NoReport
  \/ NoQuotation /\ InitGraph /\ NoStyles /\ NoReport
  \/ NoQuotation /\ NoGraph /\ InitArchitecture /\ NoReport
  \/ NoQuotation /\ NoGraph /\ NoStyles /\ InitMerge

NextEach ==
  \/ NextCitations /\ UNCHANGED <<graph, analysis, report>>
  \/ NextGraph /\ UNCHANGED <<loop, asking, analysis, report>>
  \/ AnalyzeArchitecture /\ UNCHANGED <<loop, asking, graph, report>>
  \/ NextMerge /\ UNCHANGED <<loop, asking, graph, analysis>>

SpecEach == InitEach /\ [][NextEach]_<<loop, asking, graph, analysis, report>>
=============================================================================
