------------------------------ MODULE Lineage --------------------------------
(***************************************************************************)
(* What a graph says of lineage while it grows: crates/publet-graph/src/   *)
(* graph.rs.  The graph is GraphLoad's.  Objects of several keys arrive in    *)
(* any order: an author's revisions, a stranger's proposals, a delegate's  *)
(* revisions under a delegation that may be withdrawn, and those of a key  *)
(* the author's key was rotated to.                                        *)
(***************************************************************************)
EXTENDS GraphLoad

\* Whether a key speaks for another in a lineage.
SpeaksFor(g, key, original) ==
    \/ key = original
    \/ DelegatesLineage(g, original, key)
    \/ ContinuesKey(g, original, key)

\* Whose word an object is: its author's, and of a key object also the key's
\* own, for its author is the digest of the key it states.
Voices(c) == {Author(c)} \cup {v \in {c} : Object[c].type = "key"}

\* Whose word c is has no part in a lineage of k's, nor k in one of theirs.
Apart(g, c, k) == \A v \in Voices(c) : ~SpeaksFor(g, v, k) /\ ~SpeaksFor(g, k, v)

\* Nor has it a part in the lineage o is in, between graphs g and h.
NoPart(g, h, c, o) == \A m \in Lineage(g, o, "authoritative") : Apart(h, c, Author(m))

\* Whether c takes something back: it says so, or what says so, already here,
\* names it as the object it was said from.
Withdraws(g, c) ==
    \/ Object[c].type = "relation" /\ Object[c].kind = "retracts"
    \/ \E e \in Edges(g, "retracts") : e[1] = c

\* Whether c joins an object of someone else's to something.
FromAnothers(c) == Object[c].type = "relation" /\ Author(Object[c].from) # Author(c)

\* Whether between graphs g and h an edge somebody filed from an object of
\* someone else's gains authority: its author wrote what it leads to, which
\* came later, or was lent the authority by a delegation or a rotation.
LendsToAnothers(g, h) ==
    \E r \in Related(g, "supersedes") :
        /\ FromAnothers(r)
        /\ <<Object[r].from, Object[r].to>> \in
              SupersedesEdges(h, "authoritative") \ SupersedesEdges(g, "authoritative")

\* Whether the arrival of c, which makes h of g, moves objects that are not
\* its author's by their own edges, or makes such an edge count.
Meddles(g, h, c) == FromAnothers(c) \/ LendsToAnothers(g, h)

\* An object from a key that has no part in a lineage, by delegation or
\* rotation either way, leaves the authoritative lineage as it was, unless it
\* meddles: a proposal is not a revision.
ProposalsApart ==
    [][\A c \in graph' \ graph : ~Meddles(graph, graph', c) =>
        \A o \in Of(graph, "prose") : NoPart(graph, graph', c, o) =>
            Lineage(graph', o, "authoritative") = Lineage(graph, o, "authoritative")]_graph

\* An object is in its own lineage, however it is counted.
OwnLineage ==
    \A o \in Of(graph, "prose") : \A mode \in Modes : o \in Lineage(graph, o, mode)

\* Lineages keep their own: an object does not fall out of its lineage, and a
\* stranger's proposal does not get into the authoritative one.
LineageKept == []OwnLineage /\ ProposalsApart

\* The full lineage is the authoritative one and third parties' proposals.
FullIncludesAuthoritative ==
    \A o \in Of(graph, "prose") :
        Lineage(graph, o, "authoritative") \subseteq Lineage(graph, o, "full")

\* What counts as retracted was retracted by the key that signed it.
RetractedByAuthor ==
    \A c \in graph : IsRetracted(graph, c) =>
        \E r \in Related(graph, "retracts") : Object[r].to = c /\ Author(r) = Author(c)

=============================================================================
