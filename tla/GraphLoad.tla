----------------------------- MODULE GraphLoad -------------------------------
(***************************************************************************)
(* Loading a graph: crates/publet-graph/src/load.rs, from_objects and      *)
(* from_dir.  Objects arrive in any order; those refused are tried again   *)
(* when the rest are in; then the whole is validated.  The second pass     *)
(* goes in order of arrival, which is as arbitrary as the first.           *)
(***************************************************************************)
EXTENDS Graph

VARIABLES
    dir,        \* what is to be loaded
    pending,    \* what the first pass has not come to
    graph,
    deferred,   \* refused once
    phase       \* "first", "retry", "loaded", "failed"

vars == <<dir, pending, graph, deferred, phase>>

Init ==
    /\ dir \in SUBSET Cid
    /\ pending = dir
    /\ graph = {}
    /\ deferred = {}
    /\ phase = "first"

Take(c) ==
    /\ phase = "first" /\ c \in pending
    /\ pending' = pending \ {c}
    /\ IF Object[c].form = "garbled"
       THEN phase' = "failed" /\ UNCHANGED <<graph, deferred>>
       ELSE IF Insertable(graph, c)
            THEN graph' = graph \cup {c} /\ UNCHANGED <<deferred, phase>>
            ELSE deferred' = deferred \cup {c} /\ UNCHANGED <<graph, phase>>
    /\ UNCHANGED dir

EndOfPass ==
    /\ phase = "first" /\ pending = {}
    /\ phase' = "retry"
    /\ UNCHANGED <<dir, pending, graph, deferred>>

Retry(c) ==
    /\ phase = "retry" /\ c \in deferred
    /\ IF Insertable(graph, c)
       THEN /\ graph' = graph \cup {c}
            /\ deferred' = deferred \ {c}
            /\ UNCHANGED phase
       ELSE phase' = "failed" /\ UNCHANGED <<graph, deferred>>
    /\ UNCHANGED <<dir, pending>>

Validate ==
    /\ phase = "retry" /\ deferred = {}
    /\ phase' = IF Validates(graph) THEN "loaded" ELSE "failed"
    /\ UNCHANGED <<dir, pending, graph, deferred>>

Next ==
    \/ \E c \in Cid : Take(c) \/ Retry(c)
    \/ EndOfPass
    \/ Validate

Spec == Init /\ [][Next]_vars

----------------------------------------------------------------------------
(* Properties.                                                             *)

\* What a set of objects must satisfy, whatever order it comes in.
Sound(D)    == \A c \in D : Object[c].form = "sound"
Acyclical(D) ==
    \A kind \in Acyclic : \A e \in Edges(D, kind) : ~Reaches(Edges(D, kind), e[2], e[1])
Acceptable(D) == Sound(D) /\ Acyclical(D) /\ Validates(D)

\* Arrival order does not decide validity: what loads is all of an
\* acceptable set, and what fails to load was not one.
ArrivalOrder ==
    /\ phase = "loaded" => graph = dir /\ Acceptable(dir)
    /\ phase = "failed" => ~Acceptable(dir)

\* Trying again changes nothing: what was refused once is refused by
\* whatever the graph has become since.
DeferredRefused == \A c \in deferred : ~Insertable(graph, c)

\* Loading is a question of the set alone: neither the order of arrival nor
\* a second attempt changes the answer.
LoadsAlike == ArrivalOrder /\ DeferredRefused

\* No claim of a loaded graph presupposes itself.
DependsAcyclic ==
    phase = "loaded" => \A c \in graph : ~DependsClosureFails(graph, c)

=============================================================================
