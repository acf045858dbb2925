---------------------------- MODULE Dependencies ----------------------------
(***************************************************************************)
(* analyze_dependencies of backend/app/analyzers/dependencies/graph.py, for   *)
(* files whose imports name a module by a relative path, and its exports      *)
(* (TypeScript): symbols, edges, and the cycles among files.                 *)
(*                                                                         *)
(* A file is a record of symbols, <<name, kind>> as often as declared;        *)
(* imports, [module, member, alias]; exports, [name, alias, from]; calls and  *)
(* bases, sets of names.                                                     *)
(***************************************************************************)
EXTENDS Integers, Sequences, FiniteSets, SequencesExt

CONSTANTS
  Path,      \* paths of files: numbers, in the order of the paths
  Name,      \* what files declare, import and export; a member with its class: C.f
  Unqualified, \* the last part of a name: f of C.f
  ModuleOf,  \* what a file answers to: two may answer to the same (a.ts, a/index.ts)
  UpToDot,   \* what is left of the reference of a file to a module before its last dot: of
             \* ./missing the directory of the file
  Outside,   \* a module that is not relative
  Nobody,    \* no name, no target, no module
  Projects,  \* the parsed repositories
  Digraphs   \* adjacencies of files, to try _cycles alone

Star == "*"
Callable == {"class", "struct", "function", "method"}
Base     == {"class", "struct", "interface"}

ASSUME DependenciesAssumption ==
  /\ Path \subseteq Nat /\ IsFiniteSet(Path) /\ IsFiniteSet(Name) /\ Unqualified \in [Name -> Name]
  /\ \A f \in Projects : DOMAIN f = Path /\ \A p \in Path :
       /\ f[p].symbols \in Seq(Name \X STRING)
       /\ \A i \in f[p].imports : i.member \in Name \cup {Nobody}
       /\ \A x \in f[p].exports : x.name \in Name \cup {Star}
  /\ Digraphs \subseteq {d \in [Path -> SUBSET Path] : \A p \in Path : p \notin d[p]}

VARIABLES
  phase, files, edges, adjacency,
  index, indices, low,  \* as in _cycles: how many are visited, when each was (-1: not yet)
  stack,                \* visited, and not in a component yet
  visiting,             \* the calls of visit, outermost first: a node, the targets left to it
  cycles                \* the components found

search == <<index, indices, low, stack, visiting>>
graph == <<phase, files, edges, adjacency, search, cycles>>

TypeOKGraph ==
  /\ phase \in {"link", "connect", "detect", "end"}
  /\ \A e \in edges :
       /\ e.kind \in {"import", "call", "inheritance"}
       /\ e.status \in {"resolved", "external", "ambiguous"}
       /\ e.status = "resolved" => e.target \in e.candidates
  /\ adjacency \in [Path -> SUBSET Path]
  /\ index \in Nat /\ indices \in [Path -> {-1} \cup 0..(index - 1)] /\ low \in [Path -> Int]
  /\ stack \in Seq(Path) /\ visiting \in Seq([node : Path, rest : SUBSET Path])
  /\ \A c \in cycles : c \subseteq Path

InitGraph ==
  /\ edges = {} /\ cycles = {}
  /\ index = 0 /\ indices = [p \in Path |-> -1] /\ low = [p \in Path |-> -1]
  /\ stack = <<>> /\ visiting = <<>>
  /\ \/ phase = "link" /\ files \in Projects /\ adjacency = [p \in Path |-> {}]
     \/ phase = "detect" /\ files = <<>> /\ adjacency \in Digraphs

-----------------------------------------------------------------------------
(* Names.                                                                  *)

File(p) == <<"file", p>>
Symbol(p, name) == <<"symbol", p, name>>
PathOf(node) == node[2]

\* Where file p declares a name that becomes a symbol.
Declared(p, name) ==
  {i \in DOMAIN files[p].symbols :
     files[p].symbols[i][1] = name /\ files[p].symbols[i][2] \notin {"variable", "namespace"}}

\* Mutant of SymbolOf: the first of several declarations.
SymbolOfFirst(p, name) == IF Declared(p, name) # {} THEN {Symbol(p, name)} ELSE {}
\* A name declared more than once is no symbol.
SymbolOf(p, name) ==
  IF \E i \in Declared(p, name) : Declared(p, name) = {i} THEN {Symbol(p, name)} ELSE {}

\* symbol_kinds keeps the kind of the first declaration.
KindOf(s) ==
  files[s[2]].symbols[CHOOSE i \in Declared(s[2], s[3]) : \A j \in Declared(s[2], s[3]) : i <= j][2]

\* What an export of the name publishes of its own file: a member of a class as well.
Published(p, name) == UNION {SymbolOf(p, n) : n \in {m \in Name : Unqualified[m] = name}}

\* paths_for_module, of a reference <<module, member>> of file p: the files that answer to
\* the module; without a member, if there is none, those that answer to what is left of the
\* reference when its last dot, taken for the one before a member, is cut off.
Answering(module) == {q \in Path : ModuleOf[q] = module}
Targets(p, ref) ==
  IF ref[1] = Outside THEN {}
  ELSE IF Answering(ref[1]) = {} /\ ref[2] = Nobody THEN Answering(UpToDot[p][ref[1]])
  ELSE Answering(ref[1])

\* Why there is none.
Missing(p, ref) ==
  IF ref[1] = Outside THEN "external" ELSE IF Targets(p, ref) = {} THEN "missing" ELSE Nobody

\* What an export passes on to.
From(x) == <<x.from, Nobody>>
Of(i) == <<i.module, i.member>>

\* The exports of p that make `name` public, and what they call it.
Exports(p, name) ==
  {<<x, IF x.name = Star THEN name ELSE x.name>> :
     x \in {e \in files[p].exports :
              /\ ~(e.name = Star /\ e.alias # Nobody)
              /\ e.name = Star \/ (IF e.alias # Nobody THEN e.alias ELSE e.name) = name}}

Keys == Path \X Name

\* Mutant of Exported: not twice through the same file.
ExportedOnce(p, name) ==
  LET found[at \in Keys \X SUBSET Keys] ==
        LET key == at[1] seen == at[2] IN
        IF key[1] \in {k[1] : k \in seen} THEN {}
        ELSE UNION {LET x == e[1] inner == e[2] IN
                    IF x.from # Nobody
                    THEN UNION {found[<<<<q, inner>>, seen \cup {key}>>] : q \in Targets(key[1], From(x))}
                    ELSE IF x.name # Star THEN Published(key[1], inner) ELSE {} : e \in Exports(key[1], key[2])}
  IN found[<<<<p, name>>, {}>>]
\* exported_symbol: exports are followed, not twice through the same file and name.
Exported(p, name) ==
  LET found[at \in Keys \X SUBSET Keys] ==
        LET key == at[1] seen == at[2] IN
        IF key \in seen THEN {}
        ELSE UNION {LET x == e[1] inner == e[2] IN
                    IF x.from # Nobody
                    THEN UNION {found[<<<<q, inner>>, seen \cup {key}>>] : q \in Targets(key[1], From(x))}
                    ELSE IF x.name # Star THEN Published(key[1], inner) ELSE {} : e \in Exports(key[1], key[2])}
  IN found[<<<<p, name>>, {}>>]

\* What the imports of p bind `name` to: members of a module with one file.
Bound(p, name) ==
  LET named == {i \in files[p].imports :
                  i.member # Nobody /\ (IF i.alias # Nobody THEN i.alias ELSE i.member) = name}
  IN UNION {UNION {Exported(q, i.member) : q \in {r \in Path : Targets(p, Of(i)) = {r}}} : i \in named}

-----------------------------------------------------------------------------
(* Edges.                                                                  *)

\* add: resolved when there is one candidate.
Edge(from, kind, expression, candidates, missing) ==
  LET one == \E c \in candidates : candidates = {c} IN
  [from |-> from, kind |-> kind, expression |-> expression, candidates |-> candidates,
   target |-> IF one THEN CHOOSE c \in candidates : TRUE ELSE Nobody,
   status |-> IF one THEN "resolved"
              ELSE IF candidates = {} /\ missing = "external" THEN "external" ELSE "ambiguous"]

Imported(p) ==
  {Of(i) : i \in files[p].imports} \cup {From(x) : x \in {e \in files[p].exports : e.from # Nobody}}

Named(p, name, kinds) == {s \in SymbolOf(p, name) \cup Bound(p, name) : KindOf(s) \in kinds}

\* The loops over imports and re-exports, calls, and bases.
Link ==
  /\ phase = "link" /\ phase' = "connect"
  /\ edges' = UNION {
       {Edge(File(p), "import", ref, {File(q) : q \in Targets(p, ref)}, Missing(p, ref)) : ref \in Imported(p)}
       \cup {Edge(File(p), "call", <<name>>, Named(p, name, Callable), "unbound") : name \in files[p].calls}
       \cup {Edge(File(p), "inheritance", <<name>>, Named(p, name, Base), "unbound") : name \in files[p].bases}
       : p \in DOMAIN files}
  /\ UNCHANGED <<files, adjacency, search, cycles>>

\* Resolved edges between different files.
Connect ==
  /\ phase = "connect" /\ phase' = "detect"
  /\ adjacency' = [p \in Path |->
       {PathOf(e.target) : e \in {d \in edges : d.status = "resolved" /\ PathOf(d.from) = p}} \ {p}]
  /\ UNCHANGED <<files, edges, search, cycles>>

-----------------------------------------------------------------------------
(* Cycles: Tarjan's algorithm, from one call of visit, or look at a target, to the next. *)

Less(a, b) == IF a <= b THEN a ELSE b

\* The first in the order of the paths.
Smallest(nodes) == CHOOSE p \in nodes : \A q \in nodes : p <= q

Unvisited == {p \in Path : indices[p] = -1}

Detecting == phase = "detect" /\ UNCHANGED <<phase, files, edges, adjacency>>

\* The call under way, and where it takes the next target.
Call == visiting[Len(visiting)]
Target == Smallest(Call.rest)
Taken == [visiting EXCEPT ![Len(visiting)].rest = @ \ {Target}]

\* visit(v) begins, beside the calls there are.
Enter(v, calls) ==
  /\ index' = index + 1
  /\ indices' = [indices EXCEPT ![v] = index] /\ low' = [low EXCEPT ![v] = index]
  /\ stack' = Append(stack, v)
  /\ visiting' = Append(calls, [node |-> v, rest |-> adjacency[v]])
  /\ UNCHANGED cycles

VisitRoot ==
  /\ Detecting /\ visiting = <<>> /\ Unvisited # {}
  /\ Enter(Smallest(Unvisited), <<>>)

VisitTarget ==
  /\ Detecting /\ visiting # <<>> /\ Call.rest # {} /\ Target \in Unvisited
  /\ Enter(Target, Taken)

\* Mutant of Lower: a node that was left counts as well.
LowerAny(v, w) == Less(low[v], indices[w])
\* An edge to a node on the stack.
Lower(v, w) == IF w \in Range(stack) THEN Less(low[v], indices[w]) ELSE low[v]

LookBack ==
  /\ Detecting /\ visiting # <<>> /\ Call.rest # {} /\ Target \notin Unvisited
  /\ low' = [low EXCEPT ![Call.node] = Lower(Call.node, Target)]
  /\ visiting' = Taken
  /\ UNCHANGED <<index, indices, stack, cycles>>

\* visit(v) ends.  The root of a component takes it off the stack; one node alone is no
\* cycle, unless it leads to itself.
Return ==
  /\ Detecting /\ visiting # <<>> /\ Call.rest = {}
  /\ LET v == Call.node
         from == CHOOSE i \in DOMAIN stack : stack[i] = v
         component == Range(SubSeq(stack, from, Len(stack)))
     IN IF low[v] = indices[v]
        THEN /\ stack' = SubSeq(stack, 1, from - 1)
             /\ cycles' = IF component # {v} \/ v \in adjacency[v] THEN cycles \cup {component} ELSE cycles
        ELSE UNCHANGED <<stack, cycles>>
  /\ visiting' = SubSeq(visiting, 1, Len(visiting) - 1)
  /\ low' = IF Len(visiting) = 1 THEN low
             ELSE LET u == visiting[Len(visiting) - 1].node IN [low EXCEPT ![u] = Less(@, low[Call.node])]
  /\ UNCHANGED <<index, indices>>

Detected ==
  /\ phase = "detect" /\ visiting = <<>> /\ Unvisited = {}
  /\ phase' = "end"
  /\ UNCHANGED <<files, edges, adjacency, search, cycles>>

NextGraph == Link \/ Connect \/ VisitRoot \/ VisitTarget \/ LookBack \/ Return \/ Detected

SpecGraph == InitGraph /\ [][NextGraph]_graph

-----------------------------------------------------------------------------
\* What can be reached from n, where each x leads to leads[x].
Reached(leads, n) ==
  LET grow[S \in SUBSET DOMAIN leads] ==
        LET more == S \cup UNION {leads[x] : x \in S} IN IF more = S THEN S ELSE grow[more]
  IN grow[{n}]

\* The cycles reported are the strongly connected components of more than one file: the
\* largest sets of files of which each reaches each.
CyclesAreComponents ==
  LET reach == [p \in Path |-> Reached(adjacency, p)]
  IN phase = "end" =>
       cycles = {c \in {{q \in Path : q \in reach[p] /\ p \in reach[q]} : p \in Path} : Cardinality(c) > 1}

\* The keys that exports of a key lead to, and the symbols that they make public themselves.
Passed(key) ==
  UNION {Targets(key[1], From(e[1])) \X {e[2]} : e \in {x \in Exports(key[1], key[2]) : x[1].from # Nobody}}
Owned(key) ==
  UNION {Published(key[1], e[2]) :
           e \in {x \in Exports(key[1], key[2]) : x[1].from = Nobody /\ x[1].name # Star}}

\* Following exports finds every symbol that a chain of re-exports leads to, whatever its
\* length, its branches and its cycles, and none that it does not lead to.
ExportsAreReached ==
  LET leads == [key \in Keys |-> Passed(key)]
  IN phase = "connect" =>
       \A p \in Path : \A i \in {j \in files[p].imports : j.member # Nobody} : \A q \in Targets(p, Of(i)) :
         Exported(q, i.member) = UNION {Owned(key) : key \in Reached(leads, <<q, i.member>>)}

\* A call or base is resolved to a symbol declared once only, in its own file or in one that
\* its imports lead to: same names in unrelated files are never linked.
ResolvedIsEvidenced ==
  \A e \in edges : e.status = "resolved" /\ e.kind # "import" =>
    LET t == e.target
        leads == [p \in Path |-> UNION {Targets(p, ref) : ref \in Imported(p)}]
    IN Cardinality(Declared(t[2], t[3])) = 1 /\ t[2] \in Reached(leads, PathOf(e.from))

\* analyze_dependencies: "A missing local reference is ambiguous".  False of the code: a
\* reference without a member to a file that is not there is resolved to the index file of
\* a directory above.
MissingIsAmbiguous ==
  \A e \in edges :
    e.kind = "import" /\ e.expression[1] # Outside /\ Answering(e.expression[1]) = {} => e.status = "ambiguous"

\* README.md of the analyzer: ambiguous is what "is not publicly exported".  False of the
\* code: an export publishes the members of classes that have its name.
ResolvedIsExported ==
  \A e \in edges : e.status = "resolved" /\ e.kind # "import" /\ PathOf(e.target) # PathOf(e.from) =>
    \E x \in files[e.target[2]].exports : x.name = e.target[3] /\ x.from = Nobody
=============================================================================
