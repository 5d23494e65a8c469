------------------------------ MODULE BuildTree ------------------------------
(***************************************************************************)
(* What one build of a tree of publet sources produces, before anything is *)
(* stored: porcelain/src/build.rs, build_tree and what it calls.           *)
(*                                                                         *)
(* An object is the term it is the hash of, so two objects have the same   *)
(* identifier exactly when they are the same term.  A publet and the       *)
(* claims it owns are one node; its body is its text and the identifiers   *)
(* of the nodes it cites.  The author and the `created' instant are the    *)
(* workspace's one key and the constant DEFAULT_CREATED, and so add        *)
(* nothing to a term.                                                      *)
(***************************************************************************)
EXTENDS Naturals, Sequences, FiniteSets

CONSTANTS
    Slug,       \* the names sources are declared under
    Order,      \* the slugs, each after the ones it cites (topological)
    Deps,       \* Deps[s]: the slugs the source of s cites by version
    Text,       \* what a source may say
    Tag,        \* the tags a source may ask for
    None        \* an absent source, lock entry or generation

ASSUME OrderAssumption ==
    /\ Order \in Seq(Slug)
    /\ \A s \in Slug : \E i \in DOMAIN Order : Order[i] = s
    /\ \A i, j \in DOMAIN Order :
          Order[j] \in Deps[Order[i]] => j < i

ASSUME DepsAssumption == Deps \in [Slug -> SUBSET Slug]

Source == [text : Text, tag : Tag]

----------------------------------------------------------------------------
(* The objects a build makes.                                              *)

Version(s, text, deps) ==
    [kind |-> "version", slug |-> s, text |-> text, deps |-> deps]
Supersedes(new, old)   == [kind |-> "supersedes", from |-> new, to |-> old]
Tagged(genesis, tag)   == [kind |-> "tagged", target |-> genesis, tag |-> tag]
Retracts(new, old)     == [kind |-> "retracts", from |-> new, to |-> old]
Sig(object)            == [kind |-> "sig", target |-> object]

OfKind(objects, k) == {o \in objects : o.kind = k}

----------------------------------------------------------------------------
(* Names to identifiers.                                                   *)

Declared(src) == {s \in Slug : src[s] # None}

\* nodes_of: a name that no publet.json declares fails the build.
NamesResolve(src) == \A s \in Declared(src) : Deps[s] \subseteq Declared(src)

\* Build::resolved: what each name resolves to, children first.
Resolved(src) ==
    LET version[s \in Declared(src)] ==
            Version(s, src[s].text, [d \in Deps[s] |-> version[d]])
    IN  version

\* Build::substitute and Build::node: the version the source of s becomes,
\* every name in it replaced by what it resolved to.  A body equal to the
\* prior version's is the prior version.
VersionOf(src, s) ==
    Version(s, src[s].text, [d \in Deps[s] |-> Resolved(src)[d]])

\* Build::prior_of and Build::genesis_of: what the lock last recorded.
Prior(entries, s) == IF entries[s] = None THEN None ELSE entries[s].cid

\* Mutant: every version starts a lineage of its own.
GenesisOfRestarting(entries, s, version) == version

GenesisOf(entries, s, version) ==
    IF entries[s] = None THEN version ELSE entries[s].genesis

\* Session::changed, and the early return of Build::node.
Changed(src, entries) ==
    {s \in Declared(src) : Prior(entries, s) # VersionOf(src, s)}

----------------------------------------------------------------------------
(* The graph's part: supersedes is acyclic, and a tag is live until its    *)
(* author retracts it.                                                     *)

\* Everything `v' supersedes, directly or not, in `graph'.
OlderThan(graph, v) ==
    LET edges == OfKind(graph, "supersedes")
        reach[n \in 0..Cardinality(edges)] ==
            IF n = 0 THEN {v}
            ELSE reach[n-1] \cup
                 {e.to : e \in {x \in edges : x.from \in reach[n-1]}}
    IN  reach[Cardinality(edges)]

\* Graph::would_close_cycle, for the edge from `new' to `old'.
ClosesCycle(graph, new, old) == new \in OlderThan(graph, old)

\* Graph::is_retracted
IsRetracted(graph, object) ==
    \E r \in OfKind(graph, "retracts") : r.to = object /\ r.from \in graph

\* Graph::tags_of
TagsOf(graph, genesis) ==
    {o.tag : o \in {x \in OfKind(graph, "tagged") :
                        x.target = genesis /\ ~IsRetracted(graph, x)}}

----------------------------------------------------------------------------
(* What each node adds.  Edges and tags join objects of one slug only, so  *)
(* no node's additions depend on what another node added.                  *)

\* Build::node: the new version and the edge to the one it revises, owned
\* by the node whether new to the store or held from an earlier draft.
NodeObjects(src, entries, s) ==
    LET new   == VersionOf(src, s)
        prior == Prior(entries, s)
    IN  IF s \notin Changed(src, entries) THEN {}
        ELSE IF prior = None THEN {new}
        ELSE {new, Supersedes(new, prior)}

\* Mutant: only a publet already in the lock is tagged.
TagObjectsOfRevisions(src, entries, graph, s) ==
    IF entries[s] = None THEN {}
    ELSE {Tagged(entries[s].genesis, src[s].tag)}

\* Build::tag: the tag annotation, unless the genesis has that tag already,
\* and the retraction of the tag recorded at the last build if it differs.
TagObjects(src, entries, graph, s) ==
    LET genesis  == GenesisOf(entries, s, VersionOf(src, s))
        filed    == Tagged(genesis, src[s].tag)
        previous == IF entries[s] = None THEN src[s].tag ELSE entries[s].tag
        old      == Tagged(genesis, previous)
    IN  IF src[s].tag \in TagsOf(graph, genesis) THEN {}
        ELSE IF previous # src[s].tag /\ old \in graph
                /\ ~IsRetracted(graph, old)
             THEN {filed, Retracts(filed, old)}
        ELSE {filed}

\* build_tree refuses a tree where two sources ask for one tag or a name is
\* unresolved, one that revises a version the workspace does not hold, and
\* one with a supersedes edge that closes a cycle; then nothing is stored.
\* A tree with no source is built where publets/ is missing: it is empty.
Admissible(src, entries, graph) ==
    /\ \A s, r \in Declared(src) : s # r => src[s].tag # src[r].tag
    /\ NamesResolve(src)
    /\ \A s \in Declared(src) : Prior(entries, s) \in graph \cup {None}
    /\ \A s \in Changed(src, entries) :
          LET new == VersionOf(src, s)  prior == Prior(entries, s)
          IN  \/ prior = None
              \/ Supersedes(new, prior) \in graph
              \/ ~ClosesCycle(graph, new, prior)

\* Built.owned: every object the node of s consists of; tags only when the
\* build files them.
Owned(src, entries, graph, tag) ==
    [s \in Slug |->
       IF src[s] = None THEN {}
       ELSE NodeObjects(src, entries, s) \cup
            (IF tag THEN TagObjects(src, entries, graph, s) ELSE {})]

\* Built.lock: the row of each declared slug.
Rows(src, entries) ==
    [s \in Slug |->
       IF src[s] = None THEN None
       ELSE [ cid     |-> VersionOf(src, s),
              genesis |-> GenesisOf(entries, s, VersionOf(src, s)),
              tag     |-> src[s].tag ]]

\* Built.pending is stored in the order built: each node's version, then its
\* supersedes edge, the nodes children first; then the tags; and last, in
\* no order a source decides, the signatures.
Position(s) == CHOOSE i \in DOMAIN Order : Order[i] = s
Rank(o) ==
    CASE o.kind = "version"    -> 2 * Position(o.slug)
      [] o.kind = "supersedes" -> 2 * Position(o.from.slug) + 1
      [] o.kind = "tagged"     -> 2 * (Len(Order) + Position(o.target.slug))
      [] o.kind = "retracts"   -> 2 * (Len(Order) + Position(o.to.target.slug)) + 1
      [] OTHER                 -> 4 * Len(Order) + 2

First(objects) == {o \in objects : \A p \in objects : Rank(o) <= Rank(p)}

\* select: the named nodes that changed, and the changed nodes those cite,
\* and so on: the least set that has them.  An unchanged node is not followed.
Select(changed, named) ==
    LET closed == {S \in SUBSET changed :
                     /\ named \cap changed \subseteq S
                     /\ \A s \in S : Deps[s] \cap changed \subseteq S}
    IN  {s \in changed : \A S \in closed : s \in S}

=============================================================================
