------------------------------- MODULE Graph ---------------------------------
(***************************************************************************)
(* The object graph: crates/publet-graph/src/graph.rs, with the typed      *)
(* views of view.rs and document.rs.                                       *)
(*                                                                         *)
(* A graph is the set of identifiers inserted; what an identifier stands   *)
(* for never changes (content addressing), so it is a constant function.   *)
(* One record shape serves every type:                                     *)
(*                                                                         *)
(*   relation     kind, from, to, aspect ("lineage" if it delegates that,  *)
(*                immediately)                                             *)
(*   annotation   kind, to = its target, aspect                            *)
(*   prose        kind = its class, depends                                *)
(*   anchor       from = the lineage named, to = the object recommended    *)
(*   key          to = the key it rotates, or None                         *)
(*   sig          to = what it signs, kind = the purpose it verifies for   *)
(*                under its author's key                                   *)
(*   policy       a viewpoint                                              *)
(***************************************************************************)
EXTENDS Naturals

CONSTANTS
    Cid,            \* identifiers
    None,           \* no identifier, class or aspect
    Object,         \* Object[c]: the object c identifies
    IdOrder,        \* IdOrder[c]: the place of c in identifier order
    MaxRotations    \* MAX_ROTATIONS

Types == {"prose", "relation", "annotation", "anchor", "key", "sig", "policy"}

\* Bytes that do not parse or verify; an object its typed view refuses.
Forms == {"sound", "garbled", "illtyped"}

ASSUME GraphAssumption ==
    /\ None \notin Cid
    /\ MaxRotations \in Nat
    /\ \A c \in Cid :
         /\ Object[c].type \in Types
         /\ Object[c].form \in Forms
         /\ Object[c].type = "relation" => Object[c].from \in Cid /\ Object[c].to \in Cid
         /\ Object[c].author # None
         /\ IdOrder[c] \in Nat
    /\ \A c, d \in Cid : IdOrder[c] = IdOrder[d] => c = d

Of(graph, type) == {c \in graph : Object[c].type = type}

Related(graph, kind) == {r \in Of(graph, "relation") : Object[r].kind = kind}

\* out_edges and in_edges: one edge however many relations assert it.
Edges(graph, kind) == {<<Object[r].from, Object[r].to>> : r \in Related(graph, kind)}

----------------------------------------------------------------------------
(* Traversal: algorithms::graph.                                           *)

Closed(S, E) == \A e \in E : e[1] \in S => e[2] \in S

Ends(E, a) == {a} \cup {e[1] : e \in E} \cup {e[2] : e \in E}

\* b is in everything that holds a and is closed under the edges.
Reaches(E, a, b) == \A S \in SUBSET Ends(E, a) : (a \in S /\ Closed(S, E)) => b \in S

Reachable(E, a) == {b \in Ends(E, a) : Reaches(E, a, b)}

----------------------------------------------------------------------------
(* Classes, and what may be judged.                                        *)

RelationClass(kind) ==
    CASE kind \in {"implements", "translates"}  -> "empirical"
      [] kind \in {"depends", "equivalent"}     -> "definitional"
      [] kind = "derived-from"                  -> "attributive"
      [] OTHER                                  -> "performative"

AnnotationClass(kind) ==
    CASE kind \in {"settled", "well-formed", "attests", "witnessed"} -> "empirical"
      [] kind \in {"assessment", "verdict", "critique", "triage",
                   "resolution", "trusts", "assumes-accountability"} -> "performative"
      [] kind \in {"classifies", "tagged"}                           -> "definitional"
      [] kind \in {"usage", "affiliated", "timestamped"}             -> "attributive"
      [] kind = "personhood"                                         -> "formal"
      [] OTHER                                                       -> None

\* class_of: None for what has not arrived, and for what has no class.
ClassOf(graph, c) ==
    IF c \notin graph THEN None
    ELSE CASE Object[c].type = "prose"      -> Object[c].kind
           [] Object[c].type = "relation"   -> RelationClass(Object[c].kind)
           [] Object[c].type = "annotation" -> AnnotationClass(Object[c].kind)
           [] OTHER                         -> None

NotTruthApt == {"definitional", "normative", "expressive", "performative"}

CheckVerdict(class, aspect) ==
    /\ class \notin NotTruthApt
    /\ class \in {"attributive", "archival"} => aspect = "provenance"

CheckAnnotation(graph, a) ==
    \/ Object[a].kind # "verdict"
    \/ ClassOf(graph, Object[a].to) = None
    \/ CheckVerdict(ClassOf(graph, Object[a].to), Object[a].aspect)

----------------------------------------------------------------------------
(* Insertion.                                                              *)

Acyclic == {"supersedes", "implements", "depends", "derived-from"}

WouldCloseCycle(graph, kind, from, to) ==
    from = to \/ Reaches(Edges(graph, kind), to, from)

\* Mutant: a relation waits for both of its ends.
InsertableWhenEndsHeld(graph, c) ==
    /\ Object[c].form = "sound"
    /\ Object[c].type = "relation" => {Object[c].from, Object[c].to} \subseteq graph
    /\ Object[c].type = "annotation" => CheckAnnotation(graph, c)

\* Graph::insert succeeds; it then adds c and does nothing else.
Insertable(graph, c) ==
    /\ Object[c].form = "sound"
    /\ (Object[c].type = "relation" /\ Object[c].kind \in Acyclic)
          => ~WouldCloseCycle(graph, Object[c].kind, Object[c].from, Object[c].to)
    /\ Object[c].type = "annotation" => CheckAnnotation(graph, c)

----------------------------------------------------------------------------
(* Authority over an object.                                               *)

Author(c) == Object[c].author

\* Mutant: anyone's retraction counts.
RetractedByAnyone(graph, c) ==
    /\ c \in graph
    /\ \E e \in Edges(graph, "retracts") : e[2] = c

\* is_retracted: the relation's `from' end is an object of the target's author.
IsRetracted(graph, c) ==
    /\ c \in graph
    /\ \E e \in Edges(graph, "retracts") :
         e[2] = c /\ e[1] \in graph /\ Author(e[1]) = Author(c)

DelegatesLineage(graph, from, to) ==
    \E r \in Related(graph, "delegates") :
        /\ Object[r].from = from /\ Object[r].to = to
        /\ Author(r) = from
        /\ Object[r].aspect = "lineage"
        /\ ~IsRetracted(graph, r)

SignedBy(graph, key, target, purpose) ==
    /\ key \in Of(graph, "key")
    /\ target \in graph
    /\ \E s \in Of(graph, "sig") :
         Author(s) = key /\ Object[s].to = target /\ Object[s].kind = purpose

RotatedFrom(graph, successor) ==
    IF /\ successor \in Of(graph, "key")
       /\ Object[successor].to # None
       /\ SignedBy(graph, Object[successor].to, successor, "rotation")
       /\ SignedBy(graph, successor, successor, "rotation")
    THEN Object[successor].to ELSE None

ContinuesKey(graph, original, successor) ==
    LET key[i \in 0..MaxRotations] ==
            IF i = 0 THEN successor
            ELSE IF key[i - 1] = None THEN None ELSE RotatedFrom(graph, key[i - 1])
    IN  \E i \in 0..MaxRotations : key[i] = original

----------------------------------------------------------------------------
(* Lineage.                                                                *)

Modes == {"authoritative", "full"}

\* Mutant: whoever files a relation has authority.
EdgeIsAuthoritativeByAnyone(graph, e) ==
    /\ e[2] \in graph
    /\ \E r \in Related(graph, "supersedes") : <<Object[r].from, Object[r].to>> = e

EdgeIsAuthoritative(graph, e) ==
    /\ e[2] \in graph
    /\ \E r \in Related(graph, "supersedes") :
         /\ <<Object[r].from, Object[r].to>> = e
         /\ \/ Author(r) = Author(e[2])
            \/ DelegatesLineage(graph, Author(e[2]), Author(r))
            \/ ContinuesKey(graph, Author(e[2]), Author(r))

SupersedesEdges(graph, mode) ==
    {e \in Edges(graph, "supersedes") : mode = "full" \/ EdgeIsAuthoritative(graph, e)}

\* Where an object supersedes several, the last in identifier order.
LastAncestor(E, c) ==
    LET up == {e[2] : e \in {e \in E : e[1] = c}}
    IN  IF up = {} THEN None
        ELSE CHOOSE a \in up : \A b \in up : IdOrder[b] <= IdOrder[a]

\* Mutant: the walk up takes proposals for revisions.
GenesisOfFull(graph, c, mode) ==
    CHOOSE g \in Ends(Edges(graph, "supersedes"), c) :
        \E E \in {SupersedesEdges(graph, "full")} :
            /\ LastAncestor(E, g) = None
            /\ Reaches({e \in E : e[2] = LastAncestor(E, e[1])}, c, g)

\* algorithms::graph::root along the last ancestors.
GenesisOf(graph, c, mode) ==
    CHOOSE g \in Ends(Edges(graph, "supersedes"), c) :
        \E E \in {SupersedesEdges(graph, mode)} :
            /\ LastAncestor(E, g) = None
            /\ Reaches({e \in E : e[2] = LastAncestor(E, e[1])}, c, g)

Lineage(graph, c, mode) ==
    UNION {Reachable(down, genesis) :
              down    \in {{<<e[2], e[1]>> : e \in SupersedesEdges(graph, mode)}},
              genesis \in {GenesisOf(graph, c, mode)}}

----------------------------------------------------------------------------
(* Rules checked again once everything is in.                              *)

\* Mutant: verdicts are judged on insertion alone.
ValidatesDisputes(graph) ==
    \A r \in Related(graph, "disputes") : Object[r].from \in graph

\* Graph::validate
Validates(graph) ==
    /\ \A a \in Of(graph, "annotation") : CheckAnnotation(graph, a)
    /\ \A a \in Of(graph, "anchor") :
         Object[a].to \in Lineage(graph, Object[a].from, "full")
    /\ \A r \in Related(graph, "disputes") : Object[r].from \in graph

\* depends_closure: in-body dependencies and `depends' relations together.
DependsEdges(graph) ==
    Edges(graph, "depends") \cup
    UNION {{<<c, d>> : d \in Object[c].depends} : c \in Of(graph, "prose")}

DependsClosureFails(graph, c) ==
    \E e \in DependsEdges(graph) : e[1] = c /\ Reaches(DependsEdges(graph), e[2], c)

=============================================================================
