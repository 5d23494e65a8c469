------------------------------- MODULE Reading --------------------------------
(***************************************************************************)
(* What is worked out of a graph by walking it: what a corpus copies from  *)
(* its parents so that its own objects can be read (porcelain/src/         *)
(* corpus.rs, reach), what `pub propose' says has moved under an object    *)
(* (propose.rs), where two claims mean different things by one word        *)
(* (crates/publet-graph/src/divergence.rs) and what `pub get' answers of a *)
(* thing (get.rs, crates/publet-graph/src/singular.rs).                    *)
(*                                                                         *)
(* A prose claim's aspect is the term it defines or, if it states a value, *)
(* the thing it is about.                                                  *)
(***************************************************************************)
EXTENDS Evidence

\* What a claim's data say of its value, if nothing leaves it open.
CONSTANT Implied

ASSUME ReadingAssumption ==
    \A c \in Cid :
        /\ Implied[c] \in {"confirmed", "estimate", "to-verify"}
        /\ Object[c].type = "prose" =>
             Object[c].depends \in SUBSET Cid /\ IsFiniteSet(Object[c].depends)

----------------------------------------------------------------------------
(* Copies.                                                                 *)

\* references: what a body names; a key's `rotates' is not among it, nor is
\* what an anchor is of.
References(c) ==
    CASE Object[c].type = "relation"                -> {Object[c].from, Object[c].to}
      [] Object[c].type \in {"annotation", "sig"}   -> {Object[c].to}
      [] Object[c].type = "prose"                   -> Object[c].depends
      [] OTHER                                      -> {}

\* Mutant: a version brings its predecessor and not its successor.
AboutOlder(c) ==
    CASE Object[c].type = "sig" -> {Object[c].to}
      [] Object[c].type = "annotation" /\ Object[c].kind = "tagged" -> {Object[c].to}
      [] Object[c].type = "relation" /\ Object[c].kind = "retracts" -> {Object[c].to}
      [] Object[c].type = "relation" /\ Object[c].kind = "supersedes" -> {Object[c].from}
      [] OTHER -> {}

\* The objects that bring c with them.
About(c) ==
    CASE Object[c].type = "sig" -> {Object[c].to}
      [] Object[c].type = "annotation" /\ Object[c].kind = "tagged" -> {Object[c].to}
      [] Object[c].type = "relation" /\ Object[c].kind = "retracts" -> {Object[c].to}
      [] Object[c].type = "relation" /\ Object[c].kind = "supersedes" ->
            {Object[c].from, Object[c].to}
      [] OTHER -> {}

\* What each object held leads to, and what a set of them does in one step.
Onward(g) ==
    Tabulated([c \in g |-> References(c) \cup {Author(c)} \cup {o \in g : c \in About(o)}])

Further(g, next, seen) == seen \cup UNION {next[c] : c \in seen \cap g}

Walked(g, next, seeds) ==
    FoldLeft(LAMBDA seen, i : Further(g, next, seen), seeds, [i \in 1..Cardinality(g) |-> i])

\* reach: everything the corpus's own objects and the delegations to its key
\* lead to.
Reach(g, own, author) ==
    LET seeds == own \cup {r \in Related(g, "delegates") : Object[r].to = author}
    IN  (Walked(g, Onward(g), seeds) \cap g) \ own

----------------------------------------------------------------------------
(* Dependencies.                                                           *)

\* Identifiers in order: each after as many as are smaller.
InOrder(S) ==
    [i \in 1..Cardinality(S) |->
        CHOOSE x \in S : Cardinality({y \in S : IdOrder[y] < IdOrder[x]}) = i - 1]

\* algorithms::graph::closure: breadth first, what c leads to in identifier order.
Visited(E, out, i) ==
    IF i > Len(out) THEN out
    ELSE out \o InOrder({e[2] : e \in {e \in E : e[1] = out[i]}} \ Range(out))

BreadthFirst(E, c) ==
    Tail(FoldLeft(LAMBDA out, i : Visited(E, out, i), <<c>>,
                  [i \in 1..(Cardinality(E) + 1) |-> i]))

\* depends_closure
DependsClosure(g, c) == BreadthFirst(DependsEdges(g), c)

\* Lineage's heads: the members nothing in the lineage supersedes.
Heads(g, c, mode) ==
    {m \in Lineage(g, c, mode) : \A e \in SupersedesEdges(g, mode) : e[2] # m}

\* Mutant: only what a claim itself names is looked at.
RestsOnOldDirectly(g, c) ==
    \E d \in Object[c].depends : Heads(g, d, "authoritative") \ {d} # {}

\* Something in the closure has been superseded; a closure that comes back
\* to the claim is passed over.
RestsOnOld(g, c) ==
    /\ ~DependsClosureFails(g, c)
    /\ \E d \in Range(DependsClosure(g, c)) : Heads(g, d, "authoritative") \ {d} # {}

\* report_staleness: the lineage will branch, a premise has moved, or the
\* dispute has been resolved.
Stale(g, c) ==
    \/ \E e \in Edges(g, "supersedes") : e[1] = c /\ Heads(g, e[2], "full") \ {c} # {}
    \/ RestsOnOld(g, c)
    \/ \E e \in Edges(g, "disputes") : e[1] = c /\ AnnotationsOf(g, "resolution", e[2]) # {}

----------------------------------------------------------------------------
(* Terms.                                                                  *)

\* definitional_terms: of several definitions of a term, the last walked to.
TermsAlong(claims, walked) ==
    LET defining == SelectSeq(walked, LAMBDA d :
                        /\ d \in claims
                        /\ Object[d].kind = "definitional" /\ Object[d].aspect # None)
    IN  [t \in {Object[d].aspect : d \in Range(defining)} |->
            Last(SelectSeq(defining, LAMBDA d : Object[d].aspect = t))]

DefinitionalTerms(g, c) == TermsAlong(Of(g, "prose"), DependsClosure(g, c))

\* equivalence_class, in either direction, by keys the viewpoint trusts.
Equivalent(g, c, d, trusted) ==
    LET E == {<<Object[r].from, Object[r].to>> :
                r \in {r \in Related(g, "equivalent") : Author(r) \in trusted}}
    IN  Reaches(E \cup {<<e[2], e[1]>> : e \in E}, c, d)

\* Mutant: anyone's edge makes two definitions one lineage.
SameGenesisFull(g, c, d) == GenesisOf(g, c, "full") = GenesisOf(g, d, "full")

SameGenesis(g, c, d) == GenesisOf(g, c, "authoritative") = GenesisOf(g, d, "authoritative")

\* compare: the terms the two define differently, and whether that is one
\* concept at two moments (stale) or two concepts (divergent).  It finds
\* nothing, and fails, where a closure comes back to the claim.
Conflicts(g, left, right, trusted) ==
    LET here  == DefinitionalTerms(g, left)
        there == DefinitionalTerms(g, right)
    IN  {t \in DOMAIN here \cap DOMAIN there :
            /\ ~DependsClosureFails(g, left) /\ ~DependsClosureFails(g, right)
            /\ here[t] # there[t]
            /\ ~Equivalent(g, here[t], there[t], trusted)}

Divergent(g, left, right, trusted) ==
    {t \in Conflicts(g, left, right, trusted) :
        ~SameGenesis(g, DefinitionalTerms(g, left)[t], DefinitionalTerms(g, right)[t])}

----------------------------------------------------------------------------
(* Values.                                                                 *)

\* facts_about: the claims that state a value of one of the things.
FactsAbout(g, things) == {f \in Of(g, "prose") : Object[f].aspect \in things}

\* singular_versions: a revised thing is the same thing.
SingularVersions(g, s) == Lineage(g, s, "authoritative")

\* Mutant: proposals to replace a claim hide it.
LineageHeadsFull(g, c) == Heads(g, c, "full")

\* lineage_heads: what every anchor over the lineage recommends, whoever set
\* it, or else the heads.
LineageHeads(g, c) ==
    LET over     == {a \in Of(g, "anchor") : Object[a].from = GenesisOf(g, c, "authoritative")}
        advised == {Object[a].to : a \in over} \cap Lineage(g, c, "authoritative")
    IN  IF Cardinality(advised) = 1 THEN advised ELSE Heads(g, c, "authoritative")

\* current: a superseded statement of a value is history.
Current(g, s) == {f \in FactsAbout(g, SingularVersions(g, s)) : f \in LineageHeads(g, f)}

Doubts(a) ==
    \/ Object[a].kind = "assessment" /\ Object[a].value \in {"unsupported", "refuted", "undetermined"}
    \/ Object[a].kind = "verdict" /\ Object[a].value = "deny"

\* open_annotations: what leaves a claim open.  A dispute is settled where it
\* is retracted or resolved itself, the grounds and not the claim.
OpenAnnotations(g, c) ==
    LET doubtful == {a \in Of(g, "annotation") : Object[a].to = c /\ Doubts(a)}
        disputes == {e[1] : e \in {e \in Edges(g, "disputes") : e[2] = c}}
    IN  {o \in doubtful : ~IsRetracted(g, o)} \cup
        {o \in disputes : ~IsRetracted(g, o) /\ AnnotationsOf(g, "resolution", o) = {}}

Status(g, f) == IF OpenAnnotations(g, f) # {} THEN "to-verify" ELSE Implied[f]

----------------------------------------------------------------------------
(* Properties.                                                             *)

\* What is copied reads as it did where it came from: every claim a corpus
\* copies with one of its own has the authoritative lineage it has in the
\* parent, key rotations and their signatures included, if the only
\* delegations there are ones to the corpus's own key.
CopiesRead ==
    LET keys   == {a \in Of(graph, "key") :
                     \A r \in Related(graph, "delegates") : Object[r].to = a}
        copies == {{o} \cup Reach(graph, {o}, a) : o \in Of(graph, "prose"), a \in keys}
    IN  \A copied \in copies \ {graph} : \A m \in Of(copied, "prose") :
            Lineage(copied, m, "authoritative") = Lineage(graph, m, "authoritative")

\* What has moved under an object shows: if anything it rests on, however far
\* down, has a successor its author stands behind, the object is reported,
\* unless it rests on itself.
MovesShow ==
    \A c \in Of(graph, "prose") :
        (/\ ~DependsClosureFails(graph, c)
         /\ \E e \in SupersedesEdges(graph, "authoritative") :
                Reaches(DependsEdges(graph), c, e[2]) /\ e[2] # c)
        => Stale(graph, c)

\* Two meanings are not made one from outside: a relation, other than a
\* dependency, leaves a divergence a divergence when its author has no part in
\* the lineage of one of the two definitions, unless it meddles or withdraws
\* something.
OnlyAuthorsUnite ==
    [][\A c \in Of(graph' \ graph, "relation") :
        (~Meddles(graph, graph', c) /\ ~Withdraws(graph, c) /\ Object[c].kind # "depends") =>
            \A l, r \in {p \in Of(graph, "prose") : DOMAIN DefinitionalTerms(graph, p) # {}} :
                \A t \in Divergent(graph, l, r, {}) :
                    LET defs == {DefinitionalTerms(graph, l)[t], DefinitionalTerms(graph, r)[t]}
                    IN  (\E d \in defs : NoPart(graph, graph', c, d))
                        => t \in Divergent(graph', l, r, {})]_evars

\* What is answered stands until those who said it revise it: no arrival from
\* a key with no part in the lineage of the thing or of the statement, anchors
\* and meddling apart, takes a current value away.
AnswersStand ==
    [][\A c \in graph' \ graph :
        (Object[c].type # "anchor" /\ ~Meddles(graph, graph', c)) =>
        \A s \in Of(graph, "prose") : \A f \in Current(graph, s) :
            (\A o \in {s, f} : NoPart(graph, graph', c, o)) => f \in Current(graph', s)]_evars

\* A value that somebody doubts is not answered as confirmed, or as an
\* estimate, until one who doubts it files something, a resolution comes or
\* an edge is filed from an object that is not its author's.
DoubtsStand ==
    [][\A c \in graph' \ graph : \A f \in Of(graph, "prose") :
        (OpenAnnotations(graph, f) # {} /\ Status(graph', f) # "to-verify") =>
            \/ Author(c) \in {Author(o) : o \in OpenAnnotations(graph, f)}
            \/ Object[c].type = "annotation" /\ Object[c].kind = "resolution"
            \/ FromAnothers(c)]_evars

=============================================================================
