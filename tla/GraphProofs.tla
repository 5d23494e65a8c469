---------------------------- MODULE GraphProofs ------------------------------
(***************************************************************************)
(* Proofs about the claim graph, for every set of objects and every order  *)
(* they come in: GraphLoad, Lineage, Evidence and Reading.                 *)
(*                                                                         *)
(* LoadInv is the invariant of a load, GrowthInv that of a graph that      *)
(* grows.  Beyond them little is said of states: most of what follows is   *)
(* about the operators, what walks reach, folds come to and rounds of      *)
(* propagation hand on, and about what one arrival changes of that.        *)
(***************************************************************************)
EXTENDS Reading, Induction, SequenceTheorems

----------------------------------------------------------------------------
(* Reachability.                                                           *)

\* What lies outside the ends of the edges does not matter.
LEMMA ReachesMeaning ==
    ASSUME NEW E, NEW a, NEW b
    PROVE  Reaches(E, a, b) <=> \A S : (a \in S /\ Closed(S, E)) => b \in S
<1>1. ASSUME Reaches(E, a, b), NEW S, a \in S, Closed(S, E)
      PROVE  b \in S
  <2> DEFINE T == S \cap Ends(E, a)
  <2>1. T \in SUBSET Ends(E, a) /\ a \in T
    BY <1>1 DEF Ends
  <2>2. Closed(T, E)
    BY <1>1 DEF Closed, Ends
  <2>3. QED
    BY <1>1, <2>1, <2>2 DEF Reaches
<1>2. ASSUME \A S : (a \in S /\ Closed(S, E)) => b \in S
      PROVE  Reaches(E, a, b)
  BY <1>2 DEF Reaches
<1>3. QED
  BY <1>1, <1>2

\* More edges, and no less is reached.
LEMMA ReachesMore ==
    ASSUME NEW E, NEW F, E \subseteq F, NEW a, NEW b, Reaches(E, a, b)
    PROVE  Reaches(F, a, b)
<1>1. \A S : Closed(S, F) => Closed(S, E)
  BY DEF Closed
<1>2. QED
  BY <1>1, ReachesMeaning

\* A walk of no steps.
LEMMA ReachesItself ==
    ASSUME NEW E, NEW a
    PROVE  Reaches(E, a, a)
BY ReachesMeaning

\* One walk after another.
LEMMA ReachesOn ==
    ASSUME NEW E, NEW a, NEW b, NEW c, Reaches(E, a, b), Reaches(E, b, c)
    PROVE  Reaches(E, a, c)
BY ReachesMeaning

\* An edge whose target does not reach its source closes no cycle.
LEMMA AddEdge ==
    ASSUME NEW E, NEW f, NEW t,
           \A e \in E : ~Reaches(E, e[2], e[1]),
           ~Reaches(E, t, f)
    PROVE  \A e \in E \cup {<<f, t>>} : ~Reaches(E \cup {<<f, t>>}, e[2], e[1])
<1> DEFINE F == E \cup {<<f, t>>}
\* A set closed under the old edges that does not hold f is closed under all.
<1>1. \A S : Closed(S, E) /\ f \notin S => Closed(S, F)
  BY DEF Closed
<1>2. ~Reaches(F, t, f)
  BY <1>1, ReachesMeaning
<1>3. ASSUME NEW e \in E, Reaches(F, e[2], e[1])
      PROVE  FALSE
  <2>1. PICK S0 : e[2] \in S0 /\ Closed(S0, E) /\ e[1] \notin S0
    BY ReachesMeaning
  <2>2. Reaches(E, e[2], f)
    <3>1. ASSUME NEW S, e[2] \in S, Closed(S, E), f \notin S
          PROVE  FALSE
      <4> DEFINE T == S \cap S0
      <4>1. Closed(T, E)
        BY <2>1, <3>1 DEF Closed
      <4>2. Closed(T, F)
        BY <4>1, <3>1, <1>1
      <4>3. QED
        BY <4>2, <2>1, <3>1, <1>3, ReachesMeaning
    <3>2. QED
      BY <3>1, ReachesMeaning
  <2>3. Reaches(E, t, e[1])
    <3>1. ASSUME NEW S, t \in S, Closed(S, E), e[1] \notin S
          PROVE  FALSE
      <4> DEFINE T == S \cup S0
      <4>1. Closed(T, E)
        BY <2>1, <3>1 DEF Closed
      <4>2. Closed(T, F)
        BY <4>1, <3>1 DEF Closed
      <4>3. e[1] \in T
        BY <4>2, <2>1, <1>3, ReachesMeaning
      <4>4. QED
        BY <4>3, <2>1, <3>1
    <3>2. QED
      BY <3>1, ReachesMeaning
  <2>4. Reaches(E, e[1], e[2])
    <3>1. \A S : e[1] \in S /\ Closed(S, E) => e[2] \in S
      BY DEF Closed
    <3>2. QED
      BY <3>1, ReachesMeaning
  <2>5. Reaches(E, t, f)
    BY <2>2, <2>3, <2>4, ReachesOn
  <2>6. QED
    BY <2>5
<1>4. \A e \in F : e \in E \/ (e[1] = f /\ e[2] = t)
  OBVIOUS
<1>5. QED
  BY <1>2, <1>3, <1>4

----------------------------------------------------------------------------
(* Insertion.                                                              *)

\* More objects, and no fewer edges.
LEMMA EdgesMore ==
    ASSUME NEW G, NEW D, G \subseteq D, NEW kind
    PROVE  Edges(G, kind) \subseteq Edges(D, kind)
BY DEF Edges, Related, Of

\* class_of: what has a class keeps it.
LEMMA ClassStays ==
    ASSUME NEW G, NEW D, G \subseteq D, NEW c, ClassOf(G, c) # None
    PROVE  ClassOf(D, c) = ClassOf(G, c)
<1>1. c \in G
  BY DEF ClassOf
<1>2. c \in D
  BY <1>1
<1>3. QED
  BY <1>1, <1>2 DEF ClassOf

\* A verdict that may not be given may not be given later.
LEMMA VerdictStaysRefused ==
    ASSUME NEW G, NEW D, G \subseteq D, NEW a, ~CheckAnnotation(G, a)
    PROVE  ~CheckAnnotation(D, a)
<1>1. ClassOf(D, Object[a].to) = ClassOf(G, Object[a].to)
  BY ClassStays DEF CheckAnnotation
<1>2. QED
  BY <1>1 DEF CheckAnnotation

\* What one graph refuses, a larger one refuses.
LEMMA RefusedStays ==
    ASSUME NEW G, NEW D, G \subseteq D, NEW c, ~Insertable(G, c)
    PROVE  ~Insertable(D, c)
<1>1. CASE Object[c].form # "sound"
  BY <1>1 DEF Insertable
<1>2. CASE Object[c].type = "annotation" /\ ~CheckAnnotation(G, c)
  BY <1>2, VerdictStaysRefused DEF Insertable
<1>3. CASE /\ Object[c].type = "relation" /\ Object[c].kind \in Acyclic
           /\ WouldCloseCycle(G, Object[c].kind, Object[c].from, Object[c].to)
  <2>1. WouldCloseCycle(D, Object[c].kind, Object[c].from, Object[c].to)
    BY <1>3, EdgesMore, ReachesMore DEF WouldCloseCycle
  <2>2. QED
    BY <1>3, <2>1 DEF Insertable
<1>4. QED
  BY <1>1, <1>2, <1>3 DEF Insertable

\* A set that holds an object one of its parts refuses is not acceptable.
LEMMA RefusedUnacceptable ==
    ASSUME NEW G, NEW D, G \subseteq D, NEW c \in D, ~Insertable(G, c)
    PROVE  ~Acceptable(D)
<1>1. CASE Object[c].form # "sound"
  BY <1>1 DEF Acceptable, Sound
<1>2. CASE Object[c].type = "annotation" /\ ~CheckAnnotation(G, c)
  BY <1>2, VerdictStaysRefused DEF Acceptable, Validates, Of
<1>3. CASE /\ Object[c].type = "relation" /\ Object[c].kind \in Acyclic
           /\ WouldCloseCycle(G, Object[c].kind, Object[c].from, Object[c].to)
  <2> DEFINE E == Edges(D, Object[c].kind)
             e == <<Object[c].from, Object[c].to>>
  <2>1. e \in E
    BY <1>3 DEF Edges, Related, Of
  <2>2. Reaches(E, Object[c].to, Object[c].from)
    BY <1>3, EdgesMore, ReachesMore, ReachesItself DEF WouldCloseCycle
  <2>3. e[1] = Object[c].from /\ e[2] = Object[c].to
    OBVIOUS
  <2>4. ~Acyclical(D)
    BY <1>3, <2>1, <2>2, <2>3 DEF Acyclical
  <2>5. QED
    BY <2>4 DEF Acceptable
<1>4. QED
  BY <1>1, <1>2, <1>3 DEF Insertable

\* Graph::insert closes no cycle.
LEMMA InsertKeepsAcyclical ==
    ASSUME NEW G, NEW c, Acyclical(G), Insertable(G, c)
    PROVE  Acyclical(G \cup {c})
<1> SUFFICES ASSUME NEW kind \in Acyclic
             PROVE  \A e \in Edges(G \cup {c}, kind) :
                        ~Reaches(Edges(G \cup {c}, kind), e[2], e[1])
  BY DEF Acyclical
<1>1. \A e \in Edges(G, kind) : ~Reaches(Edges(G, kind), e[2], e[1])
  BY DEF Acyclical
<1>2. CASE Object[c].type = "relation" /\ Object[c].kind = kind
  <2> DEFINE f == Object[c].from
             t == Object[c].to
  <2>1. Edges(G \cup {c}, kind) = Edges(G, kind) \cup {<<f, t>>}
    BY <1>2 DEF Edges, Related, Of
  <2>2. ~Reaches(Edges(G, kind), t, f)
    BY <1>2 DEF Insertable, WouldCloseCycle
  <2> HIDE DEF f, t
  <2>3. \A e \in Edges(G, kind) \cup {<<f, t>>} :
           ~Reaches(Edges(G, kind) \cup {<<f, t>>}, e[2], e[1])
    BY <1>1, <2>2, AddEdge
  <2>4. QED
    BY <2>1, <2>3
<1>3. CASE ~(Object[c].type = "relation" /\ Object[c].kind = kind)
  <2>1. Edges(G \cup {c}, kind) = Edges(G, kind)
    BY <1>3 DEF Edges, Related, Of
  <2>2. QED
    BY <1>1, <2>1
<1>4. QED
  BY <1>2, <1>3

----------------------------------------------------------------------------
(* The load.                                                               *)

LoadTypeOK ==
    /\ dir \in SUBSET Cid
    /\ pending \in SUBSET dir
    /\ graph \in SUBSET dir
    /\ deferred \in SUBSET dir
    /\ phase \in {"first", "retry", "loaded", "failed"}

\* While it lasts, a load has lost nothing, has let nothing in that it should
\* not, and has put off only what no later graph will take.
LoadInv ==
    /\ LoadTypeOK
    /\ phase # "failed" => dir = pending \cup graph \cup deferred
    /\ phase \in {"retry", "loaded"} => pending = {}
    /\ phase = "loaded" => deferred = {} /\ Validates(graph)
    /\ phase = "failed" => ~Acceptable(dir)
    /\ Sound(graph)
    /\ Acyclical(graph)
    /\ DeferredRefused

\* A load has not begun.
LEMMA LoadInit == Init => LoadInv
BY DEF Init, LoadInv, LoadTypeOK, Sound, Acyclical, Edges, Related, Of, DeferredRefused

\* Each step of a load keeps what is said of it.
LEMMA LoadStep == LoadInv /\ [Next]_vars => LoadInv'
<1> SUFFICES ASSUME LoadInv, [Next]_vars
             PROVE  LoadInv'
  OBVIOUS
<1> USE DEF LoadInv, LoadTypeOK
\* Letting in what is insertable keeps what is said of the graph.
<1>1. ASSUME NEW c \in dir, Insertable(graph, c), graph' = graph \cup {c},
             deferred' \subseteq deferred
      PROVE  Sound(graph)' /\ Acyclical(graph)' /\ DeferredRefused'
  <2>1. Sound(graph)'
    BY <1>1 DEF Sound, Insertable
  <2>2. Acyclical(graph)'
    BY <1>1, InsertKeepsAcyclical DEF Acyclical
  <2>3. DeferredRefused'
    BY <1>1, RefusedStays DEF DeferredRefused
  <2>4. QED
    BY <2>1, <2>2, <2>3
<1>2. ASSUME NEW c \in Cid, Take(c)
      PROVE  LoadInv'
  <2>1. CASE Object[c].form = "garbled"
    <3>1. ~Acceptable(dir)
      BY <1>2, <2>1 DEF Take, Acceptable, Sound
    <3>2. QED
      BY <1>2, <2>1, <3>1 DEF Take, Acceptable, Sound, Acyclical, DeferredRefused, Validates
  <2>2. CASE Object[c].form # "garbled" /\ Insertable(graph, c)
    <3>1. Sound(graph)' /\ Acyclical(graph)' /\ DeferredRefused'
      BY <1>1, <1>2, <2>2 DEF Take
    <3>2. QED
      BY <1>2, <2>2, <3>1 DEF Take
  <2>3. CASE Object[c].form # "garbled" /\ ~Insertable(graph, c)
    <3>1. Sound(graph)' /\ Acyclical(graph)' /\ DeferredRefused'
      BY <1>2, <2>3 DEF Take, Sound, Acyclical, DeferredRefused
    <3>2. QED
      BY <1>2, <2>3, <3>1 DEF Take
  <2>4. QED
    BY <2>1, <2>2, <2>3
<1>3. ASSUME NEW c \in Cid, Retry(c)
      PROVE  LoadInv'
  <2>1. ~Insertable(graph, c)
    BY <1>3 DEF Retry, DeferredRefused
  <2>2. ~Acceptable(dir)
    BY <1>3, <2>1, RefusedUnacceptable DEF Retry
  <2>3. QED
    BY <1>3, <2>1, <2>2 DEF Retry, Acceptable, Sound, Acyclical, DeferredRefused, Validates
<1>4. CASE EndOfPass
  BY <1>4 DEF EndOfPass, Sound, Acyclical, DeferredRefused
<1>5. CASE Validate
  <2>1. graph = dir
    BY <1>5 DEF Validate
  <2>2. ~Validates(graph) => ~Acceptable(dir)
    BY <2>1 DEF Acceptable
  <2>3. QED
    BY <1>5, <2>1, <2>2 DEF Validate, Acceptable, Sound, Acyclical, DeferredRefused, Validates
<1>6. CASE UNCHANGED vars
  BY <1>6 DEF vars, Acceptable, Sound, Acyclical, DeferredRefused, Validates
<1>7. QED
  BY <1>2, <1>3, <1>4, <1>5, <1>6 DEF Next

\* from_objects: what is said of a load is so all the time it lasts.
THEOREM LoadInvariance == Spec => []LoadInv
<1>1. Init => LoadInv
  BY LoadInit
<1>2. LoadInv /\ [Next]_vars => LoadInv'
  BY LoadStep
<1>3. QED
  BY <1>1, <1>2, PTL DEF Spec

\* from_objects and from_dir: whatever the objects and the order they come
\* in, what loads is the whole of an acceptable set, and a set that fails to
\* load is not acceptable.
THEOREM OrderDoesNotDecide == Spec => []ArrivalOrder
<1>1. LoadInv => ArrivalOrder
  BY DEF LoadInv, LoadTypeOK, ArrivalOrder, Acceptable
<1>2. QED
  BY <1>1, LoadInvariance, PTL

\* The second pass of from_objects and from_dir never admits anything.
THEOREM RetryIsFutile == Spec => []DeferredRefused
<1>1. LoadInv => DeferredRefused
  BY DEF LoadInv
<1>2. QED
  BY <1>1, LoadInvariance, PTL

\* from_objects and from_dir: the order of arrival and the second attempt
\* both leave the answer as it was.
THEOREM LoadingIsOfTheSet == Spec => []LoadsAlike
<1>1. ArrivalOrder /\ DeferredRefused <=> LoadsAlike
  BY DEF LoadsAlike
<1>2. QED
  BY <1>1, OrderDoesNotDecide, RetryIsFutile, PTL

----------------------------------------------------------------------------
(* Walking back, and to the end of a walk.                                 *)

Reversed(E) == {<<e[2], e[1]>> : e \in E}

\* What is reached is an end of the edges, or where the walk began.
LEMMA ReachesAnEnd ==
    ASSUME NEW E, NEW a, NEW b, Reaches(E, a, b)
    PROVE  b \in Ends(E, a)
<1>1. a \in Ends(E, a) /\ Closed(Ends(E, a), E)
  BY DEF Ends, Closed
<1> QED BY <1>1, ReachesMeaning

\* One edge is a walk.
LEMMA ReachesNext ==
    ASSUME NEW E, NEW e \in E
    PROVE  Reaches(E, e[1], e[2])
<1>1. \A S : e[1] \in S /\ Closed(S, E) => e[2] \in S
  BY DEF Closed
<1> QED BY <1>1, ReachesMeaning

\* A walk the other way along the edges the other way.
LEMMA ReachesBack ==
    ASSUME NEW E, NEW a, NEW b, Reaches(E, a, b)
    PROVE  Reaches(Reversed(E), b, a)
<1> DEFINE T == {x \in Ends(E, a) : Reaches(Reversed(E), x, a)}
<1>1. a \in T
  BY ReachesItself DEF Ends
<1>2. Closed(T, E)
  <2> SUFFICES ASSUME NEW e \in E, e[1] \in T PROVE e[2] \in T
    BY DEF Closed
  <2> DEFINE r == <<e[2], e[1]>>
  <2>1. r \in Reversed(E) /\ r[1] = e[2] /\ r[2] = e[1]
    BY DEF Reversed
  <2> HIDE DEF r
  <2>2. Reaches(Reversed(E), e[2], e[1])
    BY <2>1, ReachesNext
  <2>3. Reaches(Reversed(E), e[2], a)
    BY <2>2, ReachesOn
  <2>4. e[2] \in Ends(E, a)
    BY DEF Ends
  <2> QED BY <2>3, <2>4
<1> QED BY <1>1, <1>2, ReachesMeaning

\* A walk that goes anywhere has a first step.
LEMMA ReachesFirst ==
    ASSUME NEW E, NEW a, NEW b, Reaches(E, a, b), a # b
    PROVE  \E e \in E : e[1] = a /\ Reaches(E, e[2], b)
<1> SUFFICES ASSUME \A e \in E : e[1] = a => ~Reaches(E, e[2], b) PROVE FALSE
  OBVIOUS
<1> DEFINE T == {a} \cup {x \in Ends(E, a) : ~Reaches(E, x, b)}
<1>1. Closed(T, E)
  <2> SUFFICES ASSUME NEW e \in E, e[1] \in T PROVE e[2] \in T
    BY DEF Closed
  <2>1. ~Reaches(E, e[2], b)
    <3>1. CASE e[1] = a
      BY <3>1
    <3>2. CASE ~Reaches(E, e[1], b)
      BY <3>2, ReachesNext, ReachesOn
    <3> QED BY <3>1, <3>2
  <2>2. e[2] \in Ends(E, a)
    BY DEF Ends
  <2> QED BY <2>1, <2>2
<1>2. b \in T
  BY <1>1, ReachesMeaning
<1> QED BY <1>2, ReachesItself

EdgesAcyclic(E) == \A e \in E : ~Reaches(E, e[2], e[1])

IsSink(E, g) == \A e \in E : e[1] # g

\* From anywhere among finitely many edges without a cycle a walk leads to
\* where it can go no further: every step leaves less to be reached.
LEMMA WalkEnds ==
    ASSUME NEW E, IsFiniteSet(E), EdgesAcyclic(E), NEW a
    PROVE  \E g : Reaches(E, a, g) /\ IsSink(E, g)
<1>1. \A x : IsFiniteSet(Reachable(E, x))
  <2> SUFFICES ASSUME NEW x PROVE IsFiniteSet(Reachable(E, x))
    OBVIOUS
  <2>1. IsFiniteSet({e[1] : e \in E}) /\ IsFiniteSet({e[2] : e \in E})
    <3> DEFINE one == [e \in E |-> e[1]]
               two == [e \in E |-> e[2]]
    <3>1. IsFiniteSet({one[e] : e \in DOMAIN one}) /\ IsFiniteSet({two[e] : e \in DOMAIN two})
      BY ImageFinite
    <3>2. {one[e] : e \in DOMAIN one} = {e[1] : e \in E}
          /\ {two[e] : e \in DOMAIN two} = {e[2] : e \in E}
      OBVIOUS
    <3> QED BY <3>1, <3>2
  <2>2. IsFiniteSet({x} \cup {e[1] : e \in E})
    BY <2>1, FS_Singleton, FS_Union
  <2>3. IsFiniteSet(Ends(E, x))
    BY <2>1, <2>2, FS_Union DEF Ends
  <2> QED BY <2>3, FS_Subset DEF Reachable
<1> DEFINE S == {Cardinality(Reachable(E, x)) : x \in Reachable(E, a)}
<1>2. a \in Reachable(E, a)
  BY ReachesItself DEF Reachable, Ends
<1>3. S \in SUBSET Nat /\ S # {}
  BY <1>1, <1>2, FS_CardinalityType
<1>4. PICK n \in S : \A m \in S : n <= m
  BY <1>3, LeastMember
<1>5. PICK g \in Reachable(E, a) : n = Cardinality(Reachable(E, g))
  BY <1>4
<1>6. ASSUME NEW e \in E, e[1] = g PROVE FALSE
  <2>1. Reaches(E, g, e[2]) /\ ~Reaches(E, e[2], g)
    BY <1>6, ReachesNext DEF EdgesAcyclic
  <2>2. e[2] \in Reachable(E, a)
    BY <2>1, ReachesOn, ReachesAnEnd DEF Reachable
  <2>3. Reachable(E, e[2]) \subseteq Reachable(E, g)
    BY <2>1, ReachesOn, ReachesAnEnd DEF Reachable
  <2>4. g \in Reachable(E, g) /\ g \notin Reachable(E, e[2])
    BY <2>1, ReachesItself, ReachesAnEnd DEF Reachable
  <2>5. Cardinality(Reachable(E, e[2])) < Cardinality(Reachable(E, g))
    <3>1. Cardinality(Reachable(E, e[2])) <= Cardinality(Reachable(E, g))
          /\ (Cardinality(Reachable(E, e[2])) = Cardinality(Reachable(E, g))
                => Reachable(E, e[2]) = Reachable(E, g))
      BY <1>1, <2>3, FS_Subset
    <3>2. Cardinality(Reachable(E, e[2])) \in Nat /\ Cardinality(Reachable(E, g)) \in Nat
      BY <1>1, FS_CardinalityType
    <3> QED BY <2>4, <3>1, <3>2
  <2>6. Cardinality(Reachable(E, e[2])) \in S
    BY <2>2
  <2>7. Cardinality(Reachable(E, e[2])) \in Nat
    BY <1>1, FS_CardinalityType
  <2> HIDE DEF S
  <2> QED BY <1>3, <1>4, <1>5, <2>5, <2>6, <2>7
<1> QED BY <1>5, <1>6 DEF Reachable, IsSink

\* Where each node has one edge at most, all a walk comes to goes on to the
\* same end.
LEMMA WalkEndsOnce ==
    ASSUME NEW E, \A e, f \in E : e[1] = f[1] => e[2] = f[2],
           NEW a, NEW g, Reaches(E, a, g), IsSink(E, g)
    PROVE  \A x : Reaches(E, a, x) => Reaches(E, x, g)
<1> DEFINE T == {x \in Ends(E, a) : Reaches(E, x, g)}
<1>1. a \in T
  BY DEF Ends
<1>2. Closed(T, E)
  <2> SUFFICES ASSUME NEW e \in E, e[1] \in T PROVE e[2] \in T
    BY DEF Closed
  <2>1. e[1] # g
    BY DEF IsSink
  <2>2. PICK f \in E : f[1] = e[1] /\ Reaches(E, f[2], g)
    BY <2>1, ReachesFirst
  <2>3. f[2] = e[2]
    BY <2>2
  <2> QED BY <2>2, <2>3 DEF Ends
<1> QED BY <1>1, <1>2, ReachesMeaning


----------------------------------------------------------------------------
(* The walk from an object up its ancestors to its genesis, and down.      *)

\* Where an object supersedes several, LastAncestor is one of them.
LEMMA LastAncestorIs ==
    ASSUME NEW E \in SUBSET (Cid \X Cid), IsFiniteSet(E), NEW c
    PROVE  /\ (\E e \in E : e[1] = c) =>
                 /\ LastAncestor(E, c) # None
                 /\ <<c, LastAncestor(E, c)>> \in E
                 /\ \A b : <<c, b>> \in E => IdOrder[b] <= IdOrder[LastAncestor(E, c)]
           /\ (\A e \in E : e[1] # c) => LastAncestor(E, c) = None
<1> DEFINE up == {e[2] : e \in {e \in E : e[1] = c}}
<1>0. LastAncestor(E, c) = IF up = {} THEN None
                           ELSE CHOOSE a \in up : \A b \in up : IdOrder[b] <= IdOrder[a]
  BY DEF LastAncestor
<1>1. \A b : b \in up <=> <<c, b>> \in E
  OBVIOUS
<1>2. up \subseteq Cid
  OBVIOUS
<1>3. IsFiniteSet(up)
  <2> DEFINE F == {e \in E : e[1] = c}
             f == [e \in F |-> e[2]]
  <2>1. IsFiniteSet(F)
    BY FS_Subset
  <2>2. DOMAIN f = F /\ up = {f[e] : e \in DOMAIN f}
    OBVIOUS
  <2> QED BY <2>1, <2>2, ImageFinite
<1>4. (\E e \in E : e[1] = c) => up # {}
  <2> SUFFICES ASSUME NEW e \in E, e[1] = c PROVE up # {}
    OBVIOUS
  <2>1. e[2] \in up
    OBVIOUS
  <2> QED BY <2>1
<1>5. (\A e \in E : e[1] # c) => up = {}
  OBVIOUS
<1> HIDE DEF up
<1>6. up # {} => \E a \in up : \A b \in up : IdOrder[b] <= IdOrder[a]
  <2> SUFFICES ASSUME up # {} PROVE \E a \in up : \A b \in up : IdOrder[b] <= IdOrder[a]
    OBVIOUS
  <2> DEFINE f == [a \in up |-> IdOrder[a]]
             S == {f[a] : a \in DOMAIN f}
  <2>1. IsFiniteSet(S)
    BY <1>3, ImageFinite
  <2>2. S \subseteq Int /\ S # {}
    BY <1>2, GraphAssumption
  <2>3. PICK n \in S : \A m \in S : n >= m
    BY <2>1, <2>2, FiniteHasGreatest
  <2>4. PICK a \in up : n = IdOrder[a]
    BY <2>3
  <2>5. \A b \in up : IdOrder[b] \in S /\ IdOrder[b] \in Nat
    BY <1>2, GraphAssumption
  <2> HIDE DEF S
  <2>6. \A b \in up : IdOrder[b] <= IdOrder[a]
    BY <2>3, <2>4, <2>5
  <2> QED BY <2>6
<1>7. up # {} => /\ LastAncestor(E, c) \in up
                 /\ \A b \in up : IdOrder[b] <= IdOrder[LastAncestor(E, c)]
  BY <1>0, <1>6
<1>8. None \notin Cid
  BY GraphAssumption
<1> QED BY <1>0, <1>1, <1>2, <1>4, <1>5, <1>7, <1>8

\* The way up: from each object to its last ancestor.
Up(E) == {e \in E : e[2] = LastAncestor(E, e[1])}

\* A graph's edges of one kind: finitely many, between identifiers.
LineageEdges(E) == E \in SUBSET (Cid \X Cid) /\ IsFiniteSet(E) /\ EdgesAcyclic(E)

\* The way up ends where nothing has been superseded, once for each object.
LEMMA RootIs ==
    ASSUME NEW E, LineageEdges(E), NEW o
    PROVE  /\ \E g : LastAncestor(E, g) = None /\ Reaches(Up(E), o, g)
           /\ \A g : LastAncestor(E, g) = None => IsSink(Up(E), g)
           /\ \A e, f \in Up(E) : e[1] = f[1] => e[2] = f[2]
           /\ \A g, h : (/\ LastAncestor(E, g) = None /\ Reaches(Up(E), o, g)
                         /\ LastAncestor(E, h) = None /\ Reaches(Up(E), o, h)) => g = h
<1>1. Up(E) \subseteq E /\ IsFiniteSet(Up(E))
  BY FS_Subset DEF Up, LineageEdges
<1>2. EdgesAcyclic(Up(E))
  BY <1>1, ReachesMore DEF EdgesAcyclic, LineageEdges
<1>3. \A g : LastAncestor(E, g) = None => \A e \in E : e[1] # g
  BY LastAncestorIs DEF LineageEdges
<1>4. \A g : IsSink(Up(E), g) => LastAncestor(E, g) = None
  <2> SUFFICES ASSUME NEW g, LastAncestor(E, g) # None PROVE ~IsSink(Up(E), g)
    OBVIOUS
  <2> DEFINE e == <<g, LastAncestor(E, g)>>
  <2>1. e \in E
    BY LastAncestorIs DEF LineageEdges
  <2>2. e \in Up(E) /\ e[1] = g
    BY <2>1 DEF Up
  <2> QED BY <2>2 DEF IsSink
<1>5. \A g : LastAncestor(E, g) = None => IsSink(Up(E), g)
  BY <1>1, <1>3 DEF IsSink
<1>6. \E g : LastAncestor(E, g) = None /\ Reaches(Up(E), o, g)
  BY <1>1, <1>2, <1>4, WalkEnds
<1>7. \A e, f \in Up(E) : e[1] = f[1] => e[2] = f[2]
  BY DEF Up
<1>8. ASSUME NEW g, NEW h, LastAncestor(E, g) = None, Reaches(Up(E), o, g),
             LastAncestor(E, h) = None, Reaches(Up(E), o, h), g # h
      PROVE  FALSE
  <2>1. Reaches(Up(E), h, g)
    BY <1>5, <1>7, <1>8, WalkEndsOnce
  <2>2. \E e \in Up(E) : e[1] = h
    BY <1>8, <2>1, ReachesFirst
  <2> QED BY <1>5, <1>8, <2>2 DEF IsSink
<1> QED BY <1>5, <1>6, <1>7, <1>8

\* Everything on the way up is in the lineage that starts where it ends.
LEMMA UpIsWithin ==
    ASSUME NEW E, LineageEdges(E), NEW o, NEW g,
           LastAncestor(E, g) = None, Reaches(Up(E), o, g)
    PROVE  \A x : Reaches(Up(E), o, x) => Reaches(Reversed(E), g, x)
<1> SUFFICES ASSUME NEW x, Reaches(Up(E), o, x) PROVE Reaches(Reversed(E), g, x)
  OBVIOUS
<1>1. Reaches(Up(E), x, g)
  BY RootIs, WalkEndsOnce
<1>2. Reversed(Up(E)) \subseteq Reversed(E)
  BY DEF Reversed, Up
<1> QED BY <1>1, <1>2, ReachesBack, ReachesMore

\* Edges that leave a lineage's members where they are leave the lineage as it
\* is: new ones join nothing in it, and those lost did not lead to a member.
LEMMA LineageUnmoved ==
    ASSUME NEW E, NEW F, LineageEdges(E), LineageEdges(F), NEW o, NEW g,
           LastAncestor(E, g) = None, Reaches(Up(E), o, g),
           \A e \in F \ E : ~Reaches(Reversed(E), g, e[1]) /\ ~Reaches(Reversed(E), g, e[2]),
           \A e \in E \ F : ~Reaches(Reversed(E), g, e[2])
    PROVE  /\ LastAncestor(F, g) = None /\ Reaches(Up(F), o, g)
           /\ \A x : Reaches(Reversed(F), g, x) <=> Reaches(Reversed(E), g, x)
<1> DEFINE B(x) == Reaches(Reversed(E), g, x)
<1>1. \A x : Reaches(Up(E), o, x) => B(x)
  BY UpIsWithin
<1>2. ASSUME NEW w, Reaches(Up(E), o, w) PROVE LastAncestor(F, w) = LastAncestor(E, w)
  <2>1. B(w)
    BY <1>1, <1>2
  <2>2. \A a : <<w, a>> \in F => <<w, a>> \in E
    <3> SUFFICES ASSUME NEW a, <<w, a>> \in F, <<w, a>> \notin E PROVE FALSE
      OBVIOUS
    <3>1. <<w, a>>[1] = w
      OBVIOUS
    <3> QED BY <2>1, <3>1
  <2>3. CASE \A e \in E : e[1] # w
    <3>1. \A e \in F : e[1] # w
      <4> SUFFICES ASSUME NEW e \in F, e[1] = w PROVE FALSE
        OBVIOUS
      <4>1. e = <<w, e[2]>>
        BY DEF LineageEdges
      <4>2. e \in E
        BY <2>2, <4>1
      <4> QED BY <2>3, <4>2
    <3> QED BY <2>3, <3>1, LastAncestorIs DEF LineageEdges
  <2>4. CASE \E e \in E : e[1] = w
    <3> DEFINE a == LastAncestor(E, w)
               edge == <<w, a>>
    <3>1. edge \in E /\ \A b : <<w, b>> \in E => IdOrder[b] <= IdOrder[a]
      BY <2>4, LastAncestorIs DEF LineageEdges
    <3>2. edge \in Up(E) /\ edge[1] = w /\ edge[2] = a
      BY <3>1 DEF Up
    <3>3. Reaches(Up(E), o, a)
      BY <1>2, <3>2, ReachesNext, ReachesOn
    <3>4. edge \in F
      BY <1>1, <3>1, <3>2, <3>3
    <3> DEFINE b == LastAncestor(F, w)
    <3>5. <<w, b>> \in F /\ IdOrder[a] <= IdOrder[b]
      BY <3>2, <3>4, LastAncestorIs DEF LineageEdges
    <3>6. <<w, b>> \in E
      BY <2>2, <3>5
    <3>7. a \in Cid /\ b \in Cid /\ IdOrder[b] <= IdOrder[a]
      BY <3>1, <3>6 DEF LineageEdges
    <3> HIDE DEF a, b
    <3>8. a = b
      <4>1. IdOrder[a] \in Nat /\ IdOrder[b] \in Nat
        BY <3>7, GraphAssumption
      <4>2. IdOrder[a] = IdOrder[b]
        BY <3>5, <3>7, <4>1
      <4> QED BY <3>7, <4>2, GraphAssumption
    <3> QED BY <3>8 DEF a, b
  <2> QED BY <2>3, <2>4
<1>3. \A x : Reaches(Up(E), o, x) => Reaches(Up(F), o, x)
  <2> DEFINE T == {x \in Ends(Up(E), o) : Reaches(Up(E), o, x) /\ Reaches(Up(F), o, x)}
  <2>1. o \in T
    BY ReachesItself DEF Ends
  <2>2. Closed(T, Up(E))
    <3> SUFFICES ASSUME NEW e \in Up(E), e[1] \in T PROVE e[2] \in T
      BY DEF Closed
    <3>1. Reaches(Up(E), o, e[2])
      BY ReachesNext, ReachesOn
    <3>2. e \in E /\ e[2] = LastAncestor(E, e[1])
      BY DEF Up
    <3>3. e \in F
      BY <1>1, <3>1, <3>2
    <3>4. e \in Up(F)
      BY <1>2, <3>2, <3>3 DEF Up
    <3>5. Reaches(Up(F), o, e[2])
      BY <3>4, ReachesNext, ReachesOn
    <3> QED BY <3>1, <3>5 DEF Ends
  <2> QED BY <2>1, <2>2, ReachesMeaning
<1>4. ASSUME NEW x, B(x) PROVE Reaches(Reversed(F), g, x)
  <2> DEFINE T == {y \in Ends(Reversed(E), g) : B(y) /\ Reaches(Reversed(F), g, y)}
  <2>1. g \in T
    BY ReachesItself DEF Ends
  <2>2. Closed(T, Reversed(E))
    <3> SUFFICES ASSUME NEW r \in Reversed(E), r[1] \in T PROVE r[2] \in T
      BY DEF Closed
    <3>1. B(r[2])
      BY ReachesNext, ReachesOn
    <3>2. PICK e \in E : r = <<e[2], e[1]>>
      BY DEF Reversed
    <3>3. e \in F
      BY <3>2
    <3>4. r \in Reversed(F)
      BY <3>2, <3>3 DEF Reversed
    <3>5. Reaches(Reversed(F), g, r[2])
      BY <3>4, ReachesNext, ReachesOn
    <3> QED BY <3>1, <3>5 DEF Ends
  <2> QED BY <1>4, <2>1, <2>2, ReachesMeaning
<1>5. ASSUME NEW x, Reaches(Reversed(F), g, x) PROVE B(x)
  <2> DEFINE T == {y \in Ends(Reversed(F), g) : B(y)}
  <2>1. g \in T
    BY ReachesItself DEF Ends
  <2>2. Closed(T, Reversed(F))
    <3> SUFFICES ASSUME NEW r \in Reversed(F), r[1] \in T PROVE r[2] \in T
      BY DEF Closed
    <3>1. PICK e \in F : r = <<e[2], e[1]>>
      BY DEF Reversed
    <3>2. e \in E
      BY <3>1
    <3>3. r \in Reversed(E)
      BY <3>1, <3>2 DEF Reversed
    <3>4. B(r[2])
      BY <3>3, ReachesNext, ReachesOn
    <3> QED BY <3>4 DEF Ends
  <2> QED BY <1>5, <2>1, <2>2, ReachesMeaning
<1> QED BY <1>2, <1>3, <1>4, <1>5


\* What every graph is that came together by insertion.
GraphOK(G) == G \in SUBSET Cid /\ IsFiniteSet(G) /\ Acyclical(G)

\* The supersedes edges of such a graph are what the walks ask for.
LEMMA SupersedesAre ==
    ASSUME NEW G, GraphOK(G), NEW mode
    PROVE  LineageEdges(SupersedesEdges(G, mode))
<1> DEFINE E == Edges(G, "supersedes")
           R == Related(G, "supersedes")
           f == [r \in R |-> <<Object[r].from, Object[r].to>>]
<1>1. R \subseteq G
  BY DEF Related, Of
<1>2. IsFiniteSet(R)
  BY <1>1, FS_Subset DEF GraphOK
<1>3. E = {f[r] : r \in DOMAIN f}
  BY DEF Edges
<1>4. IsFiniteSet(E)
  <2>1. DOMAIN f = R
    OBVIOUS
  <2>2. IsFiniteSet({f[r] : r \in DOMAIN f})
    <3> HIDE DEF f, R
    <3> QED BY <1>2, <2>1, ImageFinite
  <2> QED BY <1>3, <2>2
<1>5. E \in SUBSET (Cid \X Cid)
  BY <1>1, GraphAssumption DEF Edges, GraphOK, Related, Of
<1>6. EdgesAcyclic(E)
  BY DEF GraphOK, Acyclical, Acyclic, EdgesAcyclic
<1> HIDE DEF E
<1>7. SupersedesEdges(G, mode) \subseteq E
  BY DEF SupersedesEdges, E
<1>8. EdgesAcyclic(SupersedesEdges(G, mode))
  BY <1>6, <1>7, ReachesMore DEF EdgesAcyclic
<1> QED BY <1>4, <1>5, <1>7, <1>8, FS_Subset DEF LineageEdges

\* genesis_of is where the way up ends, whatever the mode, and lineage what
\* can be reached down from there.
LEMMA LineageIs ==
    ASSUME NEW G, GraphOK(G), NEW mode, NEW o
    PROVE  LET E == SupersedesEdges(G, mode)
               g == GenesisOf(G, o, mode)
           IN  /\ LastAncestor(E, g) = None /\ Reaches(Up(E), o, g)
               /\ \A x : x \in Lineage(G, o, mode) <=> Reaches(Reversed(E), g, x)
<1> DEFINE E == SupersedesEdges(G, mode)
           g == GenesisOf(G, o, mode)
           Is(h) == LastAncestor(E, h) = None /\ Reaches(Up(E), o, h)
<1>1. LineageEdges(E)
  BY SupersedesAre
<1>2. g = CHOOSE h \in Ends(Edges(G, "supersedes"), o) : Is(h)
  BY DEF GenesisOf, Up
<1>3. PICK h : Is(h)
  BY <1>1, RootIs
<1>4. h \in Ends(Edges(G, "supersedes"), o)
  <2>1. h \in Ends(Up(E), o)
    BY <1>3, ReachesAnEnd
  <2>2. Up(E) \subseteq Edges(G, "supersedes")
    BY DEF Up, SupersedesEdges
  <2> QED BY <2>1, <2>2 DEF Ends
<1>5. Is(g)
  <2> HIDE DEF Is, g
  <2> QED BY <1>2, <1>3, <1>4
<1>6. Lineage(G, o, mode) = Reachable(Reversed(E), g)
  BY DEF Lineage, Reversed
<1>7. \A x : x \in Reachable(Reversed(E), g) <=> Reaches(Reversed(E), g, x)
  BY ReachesAnEnd DEF Reachable
<1> QED BY <1>5, <1>6, <1>7

\* An object is in its own lineage.
LEMMA InOwnLineage ==
    ASSUME NEW G, GraphOK(G), NEW mode, NEW o
    PROVE  o \in Lineage(G, o, mode)
<1> DEFINE E == SupersedesEdges(G, mode)
           g == GenesisOf(G, o, mode)
<1>1. LastAncestor(E, g) = None /\ Reaches(Up(E), o, g)
  BY LineageIs
<1>2. Reaches(Reversed(E), g, o)
  BY <1>1, SupersedesAre, UpIsWithin, ReachesItself
<1> QED BY <1>2, LineageIs


----------------------------------------------------------------------------
(* Authority, as a graph grows by one object.                              *)

\* Each key rotated from the one after it.
Rotations(G, keys, n) ==
    \A i \in 1..n : keys[i] # None /\ keys[i] = RotatedFrom(G, keys[i - 1])

\* continues_key follows rotations back, as many as it may.
LEMMA ContinuesIs ==
    ASSUME NEW G, NEW original, original # None, NEW successor, successor # None
    PROVE  ContinuesKey(G, original, successor) <=>
              \E n \in 0..MaxRotations : \E keys :
                  keys[0] = successor /\ keys[n] = original /\ Rotations(G, keys, n)
<1> DEFINE M == MaxRotations
           rule(f, i) == IF i = 0 THEN successor
                         ELSE IF f[i - 1] = None THEN None ELSE RotatedFrom(G, f[i - 1])
           body(f, m) == [i \in 0..m |-> rule(f, i)]
           P == {m \in Nat : \E f : f = body(f, m)}
<1>0. M \in Nat
  BY GraphAssumption
<1>1. 0 \in P
  <2>1. [i \in 0..0 |-> successor] = body([i \in 0..0 |-> successor], 0)
    OBVIOUS
  <2> QED BY <2>1
<1>2. ASSUME NEW m \in Nat, m \in P PROVE m + 1 \in P
  <2>1. PICK f : f = body(f, m)
    BY <1>2
  <2> DEFINE h == [i \in 0..(m + 1) |-> IF i = m + 1 THEN rule(f, i) ELSE f[i]]
  <2>2. \A i \in 0..(m + 1) : i # m + 1 => i \in 0..m /\ (i # 0 => i - 1 \in 0..m)
    OBVIOUS
  <2>3. m \in 0..m /\ (m + 1) - 1 = m /\ m + 1 # 0 /\ \A i \in 0..m : i # m + 1 /\ i \in 0..(m + 1)
    OBVIOUS
  <2>4. \A i \in 0..m : f[i] = rule(f, i)
    BY <2>1
  <2>5. \A i \in 0..m : h[i] = f[i]
    BY <2>3
  <2>6. h[m + 1] = rule(f, m + 1) /\ h = [i \in 0..(m + 1) |-> h[i]]
    OBVIOUS
  <2> HIDE DEF h
  <2>7. \A i \in 0..(m + 1) : h[i] = rule(h, i)
    BY <2>2, <2>3, <2>4, <2>5, <2>6
  <2>8. h = body(h, m + 1)
    BY <2>6, <2>7
  <2> HIDE DEF body
  <2> QED BY <2>8
<1> HIDE DEF P
<1>3. M \in P
  BY <1>0, <1>1, <1>2, InductionSet
<1> DEFINE key == CHOOSE f : f = body(f, M)
<1>4. key = body(key, M)
  BY <1>3 DEF P
<1>5. ContinuesKey(G, original, successor) <=> \E i \in 0..M : key[i] = original
  BY DEF ContinuesKey
<1> HIDE DEF key
<1>6. \A i \in 0..M : key[i] = rule(key, i)
  BY <1>4
<1>7. key[0] = successor /\ \A i \in 1..M :
         key[i] = IF key[i - 1] = None THEN None ELSE RotatedFrom(G, key[i - 1])
  BY <1>0, <1>6
<1> HIDE DEF M, rule
<1>8. ASSUME NEW n \in 0..M, key[n] = original
      PROVE  Rotations(G, key, n)
  <2> DEFINE Q == {m \in Nat : m <= n => key[n - m] # None}
  <2>1. 0 \in Q
    BY <1>8
  <2>2. ASSUME NEW m \in Nat, m \in Q PROVE m + 1 \in Q
    <3> SUFFICES ASSUME m + 1 <= n PROVE key[n - (m + 1)] # None
      OBVIOUS
    <3>1. n - m \in 1..M /\ (n - m) - 1 = n - (m + 1) /\ m <= n
      BY <1>0
    <3>2. key[n - m] # None
      BY <2>2, <3>1
    <3> QED BY <1>7, <3>1, <3>2
  <2> HIDE DEF Q
  <2>3. Nat \subseteq Q
    BY <2>1, <2>2, InductionSet
  <2>4. \A i \in 0..n : key[i] # None
    <3> SUFFICES ASSUME NEW i \in 0..n PROVE key[i] # None
      OBVIOUS
    <3>1. n - i \in Nat /\ n - i <= n /\ n - (n - i) = i
      BY <1>0
    <3> QED BY <2>3, <3>1 DEF Q
  <2>5. \A i \in 1..n : i \in 0..n /\ i - 1 \in 0..n /\ i \in 1..M
    BY <1>0
  <2> QED BY <1>7, <2>4, <2>5 DEF Rotations
<1>9. ASSUME NEW n \in 0..M, NEW keys, keys[0] = successor, keys[n] = original,
             Rotations(G, keys, n)
      PROVE  key[n] = original
  <2> DEFINE Q == {m \in Nat : m <= n => key[m] = keys[m] /\ keys[m] # None}
  <2>1. 0 \in Q
    BY <1>7, <1>9
  <2>2. ASSUME NEW m \in Nat, m \in Q PROVE m + 1 \in Q
    <3> SUFFICES ASSUME m + 1 <= n PROVE key[m + 1] = keys[m + 1] /\ keys[m + 1] # None
      OBVIOUS
    <3>1. m + 1 \in 1..n /\ m + 1 \in 1..M /\ (m + 1) - 1 = m /\ m <= n
      BY <1>0
    <3> QED BY <1>7, <1>9, <2>2, <3>1 DEF Rotations
  <2> HIDE DEF Q
  <2>3. n \in Q
    BY <2>1, <2>2, InductionSet, <1>0
  <2> QED BY <1>9, <2>3 DEF Q
<1> QED BY <1>5, <1>7, <1>8, <1>9 DEF M


\* Of a run of rotations, each key continues the ones before it.
LEMMA RotationsBetween ==
    ASSUME NEW G, NEW n \in 0..MaxRotations, NEW keys, Rotations(G, keys, n),
           keys[0] # None, NEW j \in 0..n
    PROVE  /\ keys[j] # None
           /\ ContinuesKey(G, keys[n], keys[j])
           /\ ContinuesKey(G, keys[j], keys[0])
<1>0. MaxRotations \in Nat
  BY GraphAssumption
<1>1. \A i \in 0..n : keys[i] # None
  BY <1>0 DEF Rotations
<1>2. Rotations(G, keys, j) /\ j \in 0..MaxRotations
  BY <1>0 DEF Rotations
<1>3. ContinuesKey(G, keys[j], keys[0])
  BY <1>0, <1>1, <1>2, ContinuesIs
<1> DEFINE later == [i \in 0..(n - j) |-> keys[i + j]]
<1>4. n - j \in 0..MaxRotations /\ later[0] = keys[j] /\ later[n - j] = keys[n]
  BY <1>0
<1>5. Rotations(G, later, n - j)
  <2> SUFFICES ASSUME NEW i \in 1..(n - j)
               PROVE  later[i] # None /\ later[i] = RotatedFrom(G, later[i - 1])
    BY DEF Rotations
  <2>1. later[i] = keys[i + j] /\ later[i - 1] = keys[(i + j) - 1] /\ i + j \in 1..n
    BY <1>0
  <2> HIDE DEF later
  <2> QED BY <2>1 DEF Rotations
<1> HIDE DEF later
<1>6. ContinuesKey(G, keys[n], keys[j])
  BY <1>0, <1>1, <1>4, <1>5, ContinuesIs
<1> QED BY <1>0, <1>1, <1>3, <1>6

\* A rotation that counts goes on counting as the graph grows.
LEMMA RotatedStays ==
    ASSUME NEW G, NEW H, G \subseteq H, NEW key, RotatedFrom(G, key) # None
    PROVE  RotatedFrom(H, key) = RotatedFrom(G, key)
BY DEF RotatedFrom, SignedBy, Of

\* A key goes on continuing what it continues.
LEMMA ContinuesStays ==
    ASSUME NEW G, NEW H, G \subseteq H, NEW original, original # None,
           NEW successor, successor # None, ContinuesKey(G, original, successor)
    PROVE  ContinuesKey(H, original, successor)
<1>1. PICK n \in 0..MaxRotations : \E keys :
         keys[0] = successor /\ keys[n] = original /\ Rotations(G, keys, n)
  BY ContinuesIs
<1>2. PICK keys : keys[0] = successor /\ keys[n] = original /\ Rotations(G, keys, n)
  BY <1>1
<1>3. Rotations(H, keys, n)
  BY <1>2, RotatedStays DEF Rotations
<1> QED BY <1>2, <1>3, ContinuesIs

\* One arrival makes a key continue another only through a key it speaks with.
LEMMA ContinuesThrough ==
    ASSUME NEW G, NEW c, NEW original, original # None, NEW successor, successor # None,
           ContinuesKey(G \cup {c}, original, successor),
           ~ContinuesKey(G, original, successor)
    PROVE  \E v \in Voices(c) : /\ ContinuesKey(G \cup {c}, original, v)
                                /\ ContinuesKey(G \cup {c}, v, successor)
<1> DEFINE H == G \cup {c}
<1>1. PICK n \in 0..MaxRotations : \E keys :
         keys[0] = successor /\ keys[n] = original /\ Rotations(H, keys, n)
  BY ContinuesIs
<1>2. PICK keys : keys[0] = successor /\ keys[n] = original /\ Rotations(H, keys, n)
  BY <1>1
<1>3. ~Rotations(G, keys, n)
  BY <1>2, ContinuesIs
<1>4. PICK i \in 1..n : keys[i] # None /\ keys[i] = RotatedFrom(H, keys[i - 1])
                        /\ keys[i] # RotatedFrom(G, keys[i - 1])
  BY <1>2, <1>3 DEF Rotations
<1>5. \E v \in Voices(c) : v = keys[i - 1] \/ v = keys[i]
  <2> DEFINE new == keys[i - 1]
             old == keys[i]
  <2>1. /\ new \in Of(H, "key") /\ old = Object[new].to
        /\ SignedBy(H, old, new, "rotation") /\ SignedBy(H, new, new, "rotation")
    BY <1>4 DEF RotatedFrom
  <2>2. ~(/\ new \in Of(G, "key")
          /\ SignedBy(G, old, new, "rotation") /\ SignedBy(G, new, new, "rotation"))
    BY <1>4, <2>1 DEF RotatedFrom
  <2> HIDE DEF new, old
  <2>3. ASSUME NEW k, SignedBy(H, k, new, "rotation"), ~SignedBy(G, k, new, "rotation"),
               new \in G
        PROVE  k \in Voices(c)
    <3>1. k \in Of(H, "key") /\ \E s \in Of(H, "sig") :
             Author(s) = k /\ Object[s].to = new /\ Object[s].kind = "rotation"
      BY <2>3 DEF SignedBy
    <3>2. CASE k \notin G
      BY <3>1, <3>2 DEF Of, Voices
    <3>3. CASE k \in G
      BY <2>3, <3>1, <3>3 DEF SignedBy, Of, Voices
    <3> QED BY <3>2, <3>3
  <2>4. CASE new \notin G
    <3>1. new = c /\ Object[c].type = "key"
      BY <2>1, <2>4 DEF Of
    <3> QED BY <3>1 DEF Voices, new
  <2>5. CASE new \in G
    <3>1. new \in Of(G, "key")
      BY <2>1, <2>5 DEF Of
    <3>2. old \in Voices(c) \/ new \in Voices(c)
      BY <2>1, <2>2, <2>3, <2>5, <3>1
    <3> QED BY <3>2 DEF new, old
  <2> QED BY <2>4, <2>5
<1>6. PICK v \in Voices(c) : v = keys[i - 1] \/ v = keys[i]
  BY <1>5
<1>7. \E j \in 0..n : v = keys[j]
  <2>1. i - 1 \in 0..n /\ i \in 0..n
    BY GraphAssumption
  <2> QED BY <1>6, <2>1
<1>8. ContinuesKey(H, original, v) /\ ContinuesKey(H, v, successor)
  BY <1>2, <1>7, RotationsBetween
<1> QED BY <1>8


\* What is retracted stays so.
LEMMA RetractedStays ==
    ASSUME NEW G, NEW H, G \subseteq H, NEW x, IsRetracted(G, x)
    PROVE  IsRetracted(H, x)
BY EdgesMore DEF IsRetracted

\* Whoever speaks with a key is not apart from it, nor from who continues it.
LEMMA NotApart ==
    ASSUME NEW H, NEW c, NEW k
    PROVE  /\ k = Author(c) => ~Apart(H, c, k)
           /\ \A v \in Voices(c) : SpeaksFor(H, v, k) \/ SpeaksFor(H, k, v) => ~Apart(H, c, k)
BY DEF Apart, Voices, SpeaksFor

\* An edge that an arrival gives authority joins objects of keys it is not
\* apart from, unless it meddles.
LEMMA EdgesCome ==
    ASSUME NEW G \in SUBSET Cid, NEW c \in Cid \ G, ~Meddles(G, G \cup {c}, c),
           NEW e \in SupersedesEdges(G \cup {c}, "authoritative"),
           e \notin SupersedesEdges(G, "authoritative")
    PROVE  /\ ~Apart(G \cup {c}, c, Author(e[1]))
           /\ ~Apart(G \cup {c}, c, Author(e[2]))
<1> DEFINE H == G \cup {c}
<1>0. "authoritative" # "full"
  OBVIOUS
<1>1. e[2] \in H /\ EdgeIsAuthoritative(H, e)
  BY <1>0 DEF SupersedesEdges, EdgeIsAuthoritative
<1>2. PICK r \in Related(H, "supersedes") :
         /\ <<Object[r].from, Object[r].to>> = e
         /\ \/ Author(r) = Author(e[2])
            \/ DelegatesLineage(H, Author(e[2]), Author(r))
            \/ ContinuesKey(H, Author(e[2]), Author(r))
  BY <1>1 DEF EdgeIsAuthoritative
<1>3. r \in H /\ r \in Cid /\ Object[r].type = "relation" /\ Object[r].kind = "supersedes"
      /\ Object[r].from = e[1] /\ Object[r].to = e[2]
  BY <1>2 DEF Related, Of
<1>4. Author(r) = Author(e[1])
  <2>1. CASE r = c
    BY <1>2, <1>3, <2>1 DEF Meddles, FromAnothers
  <2>2. CASE r \in G
    <3>1. r \in Related(G, "supersedes")
      BY <1>3, <2>2 DEF Related, Of
    <3>2. ~FromAnothers(r)
      BY <1>2, <3>1 DEF Meddles, LendsToAnothers
    <3> QED BY <1>3, <3>2 DEF FromAnothers
  <2> QED BY <1>3, <2>1, <2>2
<1>5. SpeaksFor(H, Author(e[1]), Author(e[2]))
  BY <1>2, <1>4 DEF SpeaksFor
<1>6. CASE r = c
  BY <1>4, <1>5, <1>6, NotApart DEF Voices
<1>7. CASE e[2] = c
  BY <1>5, <1>7, NotApart DEF Voices
<1>8. CASE r \in G /\ e[2] \in G
  <2>1. r \in Related(G, "supersedes") /\ e \in Edges(G, "supersedes")
    BY <1>2, <1>3, <1>8 DEF Related, Of, Edges
  <2>2. ~(\/ Author(r) = Author(e[2])
          \/ DelegatesLineage(G, Author(e[2]), Author(r))
          \/ ContinuesKey(G, Author(e[2]), Author(r)))
    BY <1>2, <1>8, <2>1 DEF SupersedesEdges, EdgeIsAuthoritative
  <2>3. CASE DelegatesLineage(H, Author(e[2]), Author(r))
    <3>1. PICK d \in Related(H, "delegates") :
             /\ Object[d].from = Author(e[2]) /\ Object[d].to = Author(r)
             /\ Author(d) = Author(e[2])
             /\ Object[d].aspect = "lineage"
             /\ ~IsRetracted(H, d)
      BY <2>3 DEF DelegatesLineage
    <3>2. d \notin G
      <4> SUFFICES ASSUME d \in G PROVE FALSE
        OBVIOUS
      <4>1. d \in Related(G, "delegates")
        BY <3>1 DEF Related, Of
      <4>2. ~IsRetracted(G, d)
        BY <3>1, RetractedStays
      <4> QED BY <2>2, <3>1, <4>1, <4>2 DEF DelegatesLineage
    <3>3. Author(c) = Author(e[2])
      BY <3>1, <3>2 DEF Related, Of
    <3> QED BY <1>5, <3>3, NotApart DEF Voices
  <2>4. CASE ContinuesKey(H, Author(e[2]), Author(r))
    <3>1. Author(e[2]) # None /\ Author(r) # None
      BY <1>3, <1>8, GraphAssumption DEF Author
    <3>2. PICK v \in Voices(c) : ContinuesKey(H, Author(e[2]), v) /\ ContinuesKey(H, v, Author(r))
      BY <2>2, <2>4, <3>1, ContinuesThrough
    <3>3. SpeaksFor(H, v, Author(e[2])) /\ SpeaksFor(H, Author(e[1]), v)
      BY <1>4, <3>2 DEF SpeaksFor
    <3> QED BY <3>3, NotApart
  <2> QED BY <1>2, <2>2, <2>3, <2>4
<1> QED BY <1>1, <1>3, <1>6, <1>7, <1>8

\* An edge that an arrival takes authority from leads to an object of the key
\* that arrival is from: it withdrew the delegation.
LEMMA EdgesGo ==
    ASSUME NEW G \in SUBSET Cid, NEW c \in Cid \ G, ~FromAnothers(c),
           NEW e \in SupersedesEdges(G, "authoritative"),
           e \notin SupersedesEdges(G \cup {c}, "authoritative")
    PROVE  ~Apart(G \cup {c}, c, Author(e[2]))
<1> DEFINE H == G \cup {c}
<1>0. G \subseteq H /\ "authoritative" # "full"
  OBVIOUS
<1>1. e \in Edges(H, "supersedes") /\ EdgeIsAuthoritative(G, e)
  BY <1>0, EdgesMore DEF SupersedesEdges
<1>2. PICK r \in Related(G, "supersedes") :
         /\ <<Object[r].from, Object[r].to>> = e
         /\ \/ Author(r) = Author(e[2])
            \/ DelegatesLineage(G, Author(e[2]), Author(r))
            \/ ContinuesKey(G, Author(e[2]), Author(r))
  BY <1>1 DEF EdgeIsAuthoritative
<1>3. e[2] \in H /\ e[2] \in Cid /\ r \in Related(H, "supersedes") /\ r \in Cid
  BY <1>1, <1>2 DEF EdgeIsAuthoritative, Related, Of
<1>4. ~(\/ Author(r) = Author(e[2])
        \/ DelegatesLineage(H, Author(e[2]), Author(r))
        \/ ContinuesKey(H, Author(e[2]), Author(r)))
  BY <1>1, <1>2, <1>3 DEF SupersedesEdges, EdgeIsAuthoritative
<1>5. ~ContinuesKey(G, Author(e[2]), Author(r))
  <2>1. Author(e[2]) # None /\ Author(r) # None
    BY <1>3, GraphAssumption DEF Author
  <2> QED BY <1>0, <1>4, <2>1, ContinuesStays
<1>6. PICK d \in Related(G, "delegates") :
         /\ Object[d].from = Author(e[2]) /\ Object[d].to = Author(r)
         /\ Author(d) = Author(e[2])
         /\ Object[d].aspect = "lineage"
         /\ ~IsRetracted(G, d)
  BY <1>2, <1>4, <1>5 DEF DelegatesLineage
<1>7. d \in G /\ d \in Related(H, "delegates")
  BY <1>6 DEF Related, Of
<1>8. IsRetracted(H, d)
  BY <1>4, <1>6, <1>7 DEF DelegatesLineage
<1>9. PICK w \in Related(H, "retracts") :
         Object[w].to = d /\ Object[w].from \in H /\ Author(Object[w].from) = Author(d)
  <2>1. PICK x \in Edges(H, "retracts") : x[2] = d /\ x[1] \in H /\ Author(x[1]) = Author(d)
    BY <1>8 DEF IsRetracted
  <2>2. PICK w \in Related(H, "retracts") : x = <<Object[w].from, Object[w].to>>
    BY <2>1 DEF Edges
  <2>3. x[1] = Object[w].from /\ x[2] = Object[w].to
    BY <2>2
  <2> QED BY <2>1, <2>2, <2>3
<1>10. Author(c) = Author(d)
  <2>1. CASE w = c
    BY <1>9, <2>1 DEF FromAnothers, Related, Of
  <2>2. CASE Object[w].from = c
    BY <1>9, <2>2
  <2>3. CASE w \in G /\ Object[w].from \in G
    <3> DEFINE x == <<Object[w].from, Object[w].to>>
    <3>1. x \in Edges(G, "retracts") /\ x[1] = Object[w].from /\ x[2] = Object[w].to
      BY <1>9, <2>3 DEF Edges, Related, Of
    <3> HIDE DEF x
    <3>2. IsRetracted(G, d)
      BY <1>7, <1>9, <2>3, <3>1 DEF IsRetracted
    <3> QED BY <1>6, <3>2
  <2> QED BY <1>9, <2>1, <2>2, <2>3 DEF Related, Of
<1> QED BY <1>6, <1>10, NotApart

\* A proposal from a key with no part in a lineage leaves it as it was.
LEMMA LineageApart ==
    ASSUME NEW G, GraphOK(G), NEW c \in Cid \ G, GraphOK(G \cup {c}), NEW o,
           ~Meddles(G, G \cup {c}, c), NoPart(G, G \cup {c}, c, o)
    PROVE  /\ GenesisOf(G \cup {c}, o, "authoritative") = GenesisOf(G, o, "authoritative")
           /\ Lineage(G \cup {c}, o, "authoritative") = Lineage(G, o, "authoritative")
<1> DEFINE H == G \cup {c}
           E == SupersedesEdges(G, "authoritative")
           F == SupersedesEdges(H, "authoritative")
           g == GenesisOf(G, o, "authoritative")
           h == GenesisOf(H, o, "authoritative")
<1>1. LineageEdges(E) /\ LineageEdges(F)
  BY SupersedesAre
<1>2. /\ LastAncestor(E, g) = None /\ Reaches(Up(E), o, g)
      /\ \A x : x \in Lineage(G, o, "authoritative") <=> Reaches(Reversed(E), g, x)
  BY LineageIs
<1>3. /\ LastAncestor(F, h) = None /\ Reaches(Up(F), o, h)
      /\ \A x : x \in Lineage(H, o, "authoritative") <=> Reaches(Reversed(F), h, x)
  BY LineageIs
<1>4. \A e \in F \ E : ~Reaches(Reversed(E), g, e[1]) /\ ~Reaches(Reversed(E), g, e[2])
  BY <1>2, EdgesCome DEF GraphOK, NoPart
<1>5. \A e \in E \ F : ~Reaches(Reversed(E), g, e[2])
  BY <1>2, EdgesGo DEF GraphOK, NoPart, Meddles
<1> HIDE DEF E, F, g, h
<1>6. /\ LastAncestor(F, g) = None /\ Reaches(Up(F), o, g)
      /\ \A x : Reaches(Reversed(F), g, x) <=> Reaches(Reversed(E), g, x)
  BY <1>1, <1>2, <1>4, <1>5, LineageUnmoved
<1>7. g = h
  BY <1>1, <1>3, <1>6, RootIs
<1>8. \A x : x \in Lineage(H, o, "authoritative") <=> x \in Lineage(G, o, "authoritative")
  BY <1>2, <1>3, <1>6, <1>7
<1> QED BY <1>7, <1>8 DEF g, h


----------------------------------------------------------------------------
(* A graph as it grows.                                                    *)

\* What is to come are identifiers, and what is held came in one by one;
\* what the workspace points to is a policy.
GrowthInv ==
    /\ pending \in SUBSET Cid /\ deferred \in SUBSET Cid
    /\ GraphOK(graph)
    /\ \A c \in graph : Object[c].type # "policy" => Object[c].form = "sound"
    /\ policy # None => policy \in Cid /\ Object[policy].type = "policy"

\* Nothing has come.
LEMMA GrowthInit == Init /\ policy = None => GrowthInv
BY FS_EmptySet DEF Init, GrowthInv, GraphOK, Acyclical, Edges, Related, Of

\* Inserting what is insertable keeps a graph in order.
LEMMA InsertKeepsOK ==
    ASSUME NEW G, GraphOK(G), NEW c \in Cid,
           Insertable(G, c) \/ Object[c].type = "policy"
    PROVE  GraphOK(G \cup {c})
<1>1. IsFiniteSet(G \cup {c})
  BY FS_AddElement DEF GraphOK
<1>2. CASE Insertable(G, c)
  BY <1>1, <1>2, InsertKeepsAcyclical DEF GraphOK
<1>3. CASE Object[c].type = "policy"
  <2>1. \A kind : Edges(G \cup {c}, kind) = Edges(G, kind)
    BY <1>3 DEF Edges, Related, Of
  <2> QED BY <1>1, <2>1 DEF GraphOK, Acyclical
<1> QED BY <1>2, <1>3

\* No step adds more than one object.
LEMMA GrowthStep ==
    ASSUME GrowthInv, [EvidenceNext]_evars
    PROVE  /\ GrowthInv'
           /\ graph' = graph \/ \E c \in Cid \ graph : graph' = graph \cup {c}
<1> USE DEF GrowthInv
<1>1. ASSUME NEW c \in Cid, graph' = graph \cup {c},
             Insertable(graph, c) \/ Object[c].type = "policy"
      PROVE  /\ GraphOK(graph')
             /\ \A d \in graph' : Object[d].type # "policy" => Object[d].form = "sound"
             /\ graph' = graph \/ \E x \in Cid \ graph : graph' = graph \cup {x}
  BY <1>1, InsertKeepsOK DEF Insertable
<1>2. ASSUME NEW c \in Cid, Arrive(c)
      PROVE  /\ GrowthInv'
             /\ graph' = graph \/ \E x \in Cid \ graph : graph' = graph \cup {x}
  BY <1>1, <1>2 DEF Arrive, Take
<1>3. ASSUME NEW c \in Cid, Again(c)
      PROVE  /\ GrowthInv'
             /\ graph' = graph \/ \E x \in Cid \ graph : graph' = graph \cup {x}
  BY <1>1, <1>3 DEF Again, Retry
<1>4. ASSUME NEW c \in Cid, Adopt(c)
      PROVE  /\ GrowthInv'
             /\ graph' = graph \/ \E x \in Cid \ graph : graph' = graph \cup {x}
  BY <1>1, <1>4 DEF Adopt
<1>5. CASE Passed \/ Checked \/ UNCHANGED evars
  BY <1>5 DEF Passed, EndOfPass, Checked, Validate, evars, vars
<1> QED BY <1>2, <1>3, <1>4, <1>5 DEF EvidenceNext

\* lineage, genesis_of and edge_is_authoritative: in whatever order objects
\* come, an object is in its own lineage, and the arrival of an object from a
\* key that has no part in a lineage leaves it as it was, unless the object
\* is an edge from someone else's object, or lends authority to such an edge
\* already filed, as Meddles says.
THEOREM LineagesKept == EvidenceSpec => LineageKept
<1>1. Init /\ policy = None => GrowthInv
  BY GrowthInit
<1>2. GrowthInv /\ [EvidenceNext]_evars => GrowthInv'
  BY GrowthStep
<1>3. GrowthInv => OwnLineage
  BY InOwnLineage DEF GrowthInv, OwnLineage
<1>4. GrowthInv /\ GrowthInv' /\ [EvidenceNext]_evars =>
        [\A c \in graph' \ graph : ~Meddles(graph, graph', c) =>
            \A o \in Of(graph, "prose") : NoPart(graph, graph', c, o) =>
                Lineage(graph', o, "authoritative") = Lineage(graph, o, "authoritative")]_graph
  <2> SUFFICES ASSUME GrowthInv, GrowthInv', [EvidenceNext]_evars,
                      NEW c \in graph' \ graph, NEW o \in Of(graph, "prose"), ~Meddles(graph, graph', c),
                      NoPart(graph, graph', c, o)
               PROVE  Lineage(graph', o, "authoritative") = Lineage(graph, o, "authoritative")
    OBVIOUS
  <2>1. c \in Cid \ graph /\ graph' = graph \cup {c}
    BY GrowthStep
  <2>2. GraphOK(graph) /\ GraphOK(graph \cup {c})
    BY <2>1 DEF GrowthInv
  <2> QED BY <2>1, <2>2, LineageApart
<1>5. EvidenceSpec => [](GrowthInv)
  BY <1>1, <1>2, PTL DEF EvidenceSpec
<1>6. EvidenceSpec => ProposalsApart
  BY <1>4, <1>5, PTL DEF EvidenceSpec, ProposalsApart
<1>7. EvidenceSpec => []OwnLineage
  BY <1>3, <1>5, PTL
<1> QED BY <1>6, <1>7 DEF LineageKept

----------------------------------------------------------------------------
(* What leaves a value open.                                               *)

\* Where an arrival retracts, it is from the author of what it retracts, or
\* joins an object of someone else's to it.
LEMMA WhoRetracts ==
    ASSUME NEW G, NEW c, NEW x, IsRetracted(G \cup {c}, x), ~IsRetracted(G, x),
           ~FromAnothers(c)
    PROVE  Author(c) = Author(x)
<1> DEFINE H == G \cup {c}
<1>1. x \in H
  BY DEF IsRetracted
<1>2. PICK e \in Edges(H, "retracts") : e[2] = x /\ e[1] \in H /\ Author(e[1]) = Author(x)
  BY DEF IsRetracted
<1>3. CASE x = c \/ e[1] = c
  BY <1>2, <1>3
<1>4. CASE x \in G /\ e[1] \in G
  <2>1. e \notin Edges(G, "retracts")
    BY <1>2, <1>4 DEF IsRetracted
  <2>2. PICK r \in Related(H, "retracts") : e = <<Object[r].from, Object[r].to>>
    BY <1>2 DEF Edges
  <2>3. r = c /\ Object[r].type = "relation"
    BY <2>1, <2>2 DEF Edges, Related, Of
  <2>4. e[1] = Object[c].from
    BY <2>2, <2>3
  <2> QED BY <1>2, <2>3, <2>4 DEF FromAnothers
<1> QED BY <1>1, <1>2, <1>3, <1>4

\* open_annotations and status: a doubt goes when one who doubts files
\* something, when a resolution comes, or when an edge is filed from an
\* object that is not its author's, and in no other way.
THEOREM DoubtsAreHeld == EvidenceSpec => DoubtsStand
<1>1. GrowthInv /\ [EvidenceNext]_evars =>
        [\A c \in graph' \ graph : \A f \in Of(graph, "prose") :
            (OpenAnnotations(graph, f) # {} /\ Status(graph', f) # "to-verify") =>
                \/ Author(c) \in {Author(o) : o \in OpenAnnotations(graph, f)}
                \/ Object[c].type = "annotation" /\ Object[c].kind = "resolution"
                \/ FromAnothers(c)]_evars
  <2> SUFFICES ASSUME GrowthInv, [EvidenceNext]_evars,
                      NEW c \in graph' \ graph, NEW f \in Of(graph, "prose"),
                      OpenAnnotations(graph, f) # {}, Status(graph', f) # "to-verify",
                      ~FromAnothers(c),
                      ~(Object[c].type = "annotation" /\ Object[c].kind = "resolution")
               PROVE  Author(c) \in {Author(o) : o \in OpenAnnotations(graph, f)}
    OBVIOUS
  <2>1. graph' = graph \cup {c}
    BY GrowthStep
  <2> DEFINE H == graph \cup {c}
  <2>2. OpenAnnotations(H, f) = {}
    BY <2>1 DEF Status
  <2>3. PICK o \in OpenAnnotations(graph, f) : TRUE
    OBVIOUS
  <2>4. ~IsRetracted(graph, o)
    BY DEF OpenAnnotations
  <2>5. CASE o \in Of(graph, "annotation") /\ Object[o].to = f /\ Doubts(o)
    <3>1. o \in Of(H, "annotation")
      BY <2>5 DEF Of
    <3>2. IsRetracted(H, o)
      BY <2>2, <2>5, <3>1 DEF OpenAnnotations
    <3> QED BY <2>4, <3>2, WhoRetracts
  <2>6. CASE /\ \E e \in Edges(graph, "disputes") : e[2] = f /\ o = e[1]
             /\ AnnotationsOf(graph, "resolution", o) = {}
    <3>1. PICK e \in Edges(graph, "disputes") : e[2] = f /\ o = e[1]
      BY <2>6
    <3>2. e \in Edges(H, "disputes")
      BY <3>1, EdgesMore
    <3>3. AnnotationsOf(H, "resolution", o) = {}
      BY <2>6 DEF AnnotationsOf, Annotations, Of
    <3>4. IsRetracted(H, o)
      BY <2>2, <3>1, <3>2, <3>3 DEF OpenAnnotations
    <3> QED BY <2>4, <3>4, WhoRetracts
  <2> QED BY <2>3, <2>5, <2>6 DEF OpenAnnotations
<1>2. EvidenceSpec => []GrowthInv
  BY GrowthInit, GrowthStep, PTL DEF EvidenceSpec
<1> QED BY <1>1, <1>2, PTL DEF EvidenceSpec, DoubtsStand

----------------------------------------------------------------------------
(* Independent reproductions.                                              *)

\* Two who are tied, either way, are one party.
LEMMA TiedAreOne ==
    ASSUME NEW G, NEW filed, NEW r \in filed, NEW s \in filed, Tied(G, r, s)
    PROVE  LET ties == {e \in filed \X filed : Tied(G, e[1], e[2])}
           IN  Reachable(ties, r) = Reachable(ties, s)
<1> DEFINE ties == {e \in filed \X filed : Tied(G, e[1], e[2])}
<1>1. Tied(G, s, r)
  BY DEF Tied, SamePerson, SharesAffiliation, Overlap
<1>2. <<r, s>> \in ties /\ <<s, r>> \in ties
  BY <1>1
<1> DEFINE there == <<r, s>>
           back == <<s, r>>
<1>3. there[1] = r /\ there[2] = s /\ back[1] = s /\ back[2] = r
  OBVIOUS
<1>4. Reaches(ties, r, s) /\ Reaches(ties, s, r)
  <2> HIDE DEF ties, there, back
  <2>1. there \in ties /\ back \in ties
    BY <1>2 DEF there, back
  <2> QED BY <1>3, <2>1, ReachesNext
<1>5. Ends(ties, r) = Ends(ties, s)
  BY <1>2, <1>3 DEF Ends
<1> HIDE DEF ties
<1> QED BY <1>4, <1>5, ReachesOn DEF Reachable, ties

\* One from each party: as many as independent_groups counts, no two tied.
LEMMA OneOfEach ==
    ASSUME NEW G, NEW filed, IsFiniteSet(filed)
    PROVE  \E S \in SUBSET filed :
              /\ Cardinality(S) = Parties(G, filed)
              /\ \A r, s \in S : r # s => ~Tied(G, r, s)
<1> DEFINE ties == {e \in filed \X filed : Tied(G, e[1], e[2])}
           party == [r \in filed |-> Reachable(ties, r)]
           parties == {party[r] : r \in filed}
           first == [P \in parties |-> CHOOSE r \in filed : party[r] = P]
           S == {first[P] : P \in parties}
<1>1. Parties(G, filed) = Cardinality(parties)
  BY DEF Parties
<1>2. \A P \in parties : first[P] \in filed /\ party[first[P]] = P
  OBVIOUS
<1>3. \A r, s \in filed : Tied(G, r, s) => party[r] = party[s]
  BY TiedAreOne
<1>4. DOMAIN party = filed /\ DOMAIN first = parties
  OBVIOUS
<1> HIDE DEF ties, party
<1>5. IsFiniteSet(parties)
  <2>1. parties = {party[r] : r \in DOMAIN party}
    BY <1>4
  <2> QED BY <1>4, <2>1, ImageFinite
<1> HIDE DEF first, parties
<1>6. S \in SUBSET filed
  BY <1>2
<1>7. first \in Bijection(parties, S)
  <2>1. first \in [parties -> S]
    <3>1. first = [P \in parties |-> first[P]]
      BY DEF first
    <3> QED BY <3>1
  <2>2. \A P, Q \in parties : first[P] = first[Q] => P = Q
    BY <1>2
  <2> QED BY <2>1, <2>2 DEF Bijection, Injection, IsInjective, Surjection
<1>8. Cardinality(S) = Cardinality(parties)
  <2> HIDE DEF S
  <2> QED BY <1>5, <1>7, FS_Bijection DEF ExistsBijection
<1>9. \A r, s \in S : r # s => ~Tied(G, r, s)
  <2> SUFFICES ASSUME NEW P \in parties, NEW Q \in parties, Tied(G, first[P], first[Q])
               PROVE  first[P] = first[Q]
    OBVIOUS
  <2> QED BY <1>2, <1>3
<1> QED BY <1>1, <1>6, <1>8, <1>9

\* evidence_for, independent_groups and outcome: an empirical claim that is
\* accepted has been reproduced by as many people as the policy's floor, no
\* two of whom share a key, a person, a funder or an affiliation.
THEOREM FloorIsMet == EvidenceSpec => []FloorMetByIndependent
<1>1. GrowthInv => FloorMetByIndependent
  <2> SUFFICES ASSUME GrowthInv, NEW o \in Of(graph, "prose"),
                      Object[o].kind = "empirical", Object[o].value = "open",
                      Standing(Viewpoint, graph, o) = "accepted"
               PROVE  \E S \in SUBSET Eligible(graph, o, "consistent") :
                 /\ Cardinality(S) >= Viewpoint.floor
                 /\ \A r, s \in S : r # s =>
                      /\ Author(r) # Author(s)
                      /\ \/ Object[r].value.funding = None
                         \/ Object[r].value.funding # Object[s].value.funding
                      /\ ~SharesAffiliation(graph, Author(r), Author(s))
                      /\ \A a \in Annotations(graph, "attests") :
                           {Object[a].to, Object[a].value} # {Author(r), Author(s)}
    BY DEF FloorMetByIndependent
  <2> DEFINE filed == Eligible(graph, o, "consistent")
             ev == EvidenceFor(graph, o)
  <2>1. ev.consistent = Parties(graph, filed) /\ ev.repeats = "open"
    BY DEF EvidenceFor
  <2> HIDE DEF ev
  <2>2. ASSUME NEW affirm, NEW deny, NEW delta,
               Outcome(Viewpoint, "empirical", ev, affirm, deny, delta) = "accepted"
        PROVE  ReplicationOk(Viewpoint, "empirical", ev)
    <3>1. ByWeight(Viewpoint, "empirical", ev, affirm, deny, delta) = "accepted"
      BY <2>2 DEF Outcome
    <3> QED BY <3>1 DEF ByWeight
  <2>3. ReplicationOk(Viewpoint, "empirical", ev)
    BY <2>2 DEF Standing, Evaluate, ev
  <2>4. ev.consistent >= Viewpoint.floor
    BY <2>1, <2>3 DEF ReplicationOk
  <2>5. IsFiniteSet(filed)
    <3>1. filed \subseteq graph
      BY DEF Eligible, AnnotationsOf, Annotations, Of
    <3> QED BY <3>1, FS_Subset DEF GrowthInv, GraphOK
  <2>6. PICK S \in SUBSET filed : /\ Cardinality(S) = Parties(graph, filed)
                                  /\ \A r, s \in S : r # s => ~Tied(graph, r, s)
    BY <2>5, OneOfEach
  <2>7. ASSUME NEW r \in S, NEW s \in S, r # s
        PROVE  /\ Author(r) # Author(s)
               /\ \/ Object[r].value.funding = None
                  \/ Object[r].value.funding # Object[s].value.funding
               /\ ~SharesAffiliation(graph, Author(r), Author(s))
               /\ ~SamePerson(graph, Author(r), Author(s))
    BY <2>6, <2>7 DEF Tied
  <2>8. ASSUME NEW r \in S, NEW s \in S, r # s, NEW a \in Annotations(graph, "attests"),
               {Object[a].to, Object[a].value} = {Author(r), Author(s)}
        PROVE  FALSE
    <3>1. \/ Object[a].to = Author(r) /\ Object[a].value = Author(s)
          \/ Object[a].to = Author(s) /\ Object[a].value = Author(r)
      BY <2>7, <2>8
    <3>2. SamePerson(graph, Author(r), Author(s))
      BY <3>1 DEF SamePerson, AnnotationsOf
    <3> QED BY <2>7, <2>8, <3>2
  <2> QED BY <2>1, <2>4, <2>6, <2>7, <2>8
<1>2. EvidenceSpec => []GrowthInv
  BY GrowthInit, GrowthStep, PTL DEF EvidenceSpec
<1> QED BY <1>1, <1>2, PTL

----------------------------------------------------------------------------
(* What is answered, and what two claims mean by a word.                   *)

\* A head that an arrival has no part in stays one.
LEMMA HeadsStay ==
    ASSUME NEW G, GraphOK(G), NEW c \in Cid \ G, GraphOK(G \cup {c}), NEW o,
           ~Meddles(G, G \cup {c}, c), NoPart(G, G \cup {c}, c, o),
           NEW f \in Heads(G, o, "authoritative")
    PROVE  f \in Heads(G \cup {c}, o, "authoritative")
<1> DEFINE H == G \cup {c}
<1>1. f \in Lineage(G, o, "authoritative") /\ f \in Lineage(H, o, "authoritative")
  BY LineageApart DEF Heads
<1>2. ASSUME NEW e \in SupersedesEdges(H, "authoritative"), e[2] = f PROVE FALSE
  <2>1. e \notin SupersedesEdges(G, "authoritative")
    BY <1>2 DEF Heads
  <2>2. ~Apart(H, c, Author(f))
    BY <1>2, <2>1, EdgesCome DEF GraphOK
  <2> QED BY <1>1, <2>2 DEF NoPart
<1> QED BY <1>1, <1>2 DEF Heads

\* singular_versions, current and lineage_heads: what a thing's current values
\* are is settled by those with a part in its lineage or in the statement's,
\* by whoever sets anchors, and by those who meddle, as Meddles says.
THEOREM AnswersAreKept == EvidenceSpec => AnswersStand
<1>1. GrowthInv /\ GrowthInv' /\ [EvidenceNext]_evars =>
        [\A c \in graph' \ graph :
            (Object[c].type # "anchor" /\ ~Meddles(graph, graph', c)) =>
            \A s \in Of(graph, "prose") : \A f \in Current(graph, s) :
                (\A o \in {s, f} : NoPart(graph, graph', c, o)) => f \in Current(graph', s)]_evars
  <2> SUFFICES ASSUME GrowthInv, GrowthInv', [EvidenceNext]_evars,
                      NEW c \in graph' \ graph, Object[c].type # "anchor",
                      ~Meddles(graph, graph', c),
                      NEW s \in Of(graph, "prose"), NEW f \in Current(graph, s),
                      NoPart(graph, graph', c, s), NoPart(graph, graph', c, f)
               PROVE  f \in Current(graph', s)
    OBVIOUS
  <2> DEFINE H == graph \cup {c}
  <2>1. c \in Cid \ graph /\ graph' = H
    BY GrowthStep
  <2>2. GraphOK(graph) /\ GraphOK(H)
    BY <2>1 DEF GrowthInv
  <2>3. Lineage(H, s, "authoritative") = Lineage(graph, s, "authoritative")
    BY <2>1, <2>2, LineageApart
  <2>4. /\ Lineage(H, f, "authoritative") = Lineage(graph, f, "authoritative")
        /\ GenesisOf(H, f, "authoritative") = GenesisOf(graph, f, "authoritative")
    BY <2>1, <2>2, LineageApart
  <2>5. f \in FactsAbout(H, SingularVersions(H, s))
    BY <2>3 DEF Current, FactsAbout, SingularVersions, Of
  <2>6. Of(H, "anchor") = Of(graph, "anchor")
    BY DEF Of
  <2>7. f \in LineageHeads(graph, f)
    BY DEF Current
  <2> DEFINE advised == {Object[a].to : a \in {a \in Of(graph, "anchor") :
                            Object[a].from = GenesisOf(graph, f, "authoritative")}}
                        \cap Lineage(graph, f, "authoritative")
  <2>8. /\ LineageHeads(graph, f) = IF Cardinality(advised) = 1 THEN advised
                                    ELSE Heads(graph, f, "authoritative")
        /\ LineageHeads(H, f) = IF Cardinality(advised) = 1 THEN advised
                                ELSE Heads(H, f, "authoritative")
    BY <2>4, <2>6 DEF LineageHeads
  <2> HIDE DEF advised
  <2>9. f \in Heads(graph, f, "authoritative") => f \in Heads(H, f, "authoritative")
    BY <2>1, <2>2, HeadsStay
  <2>10. f \in LineageHeads(H, f)
    BY <2>7, <2>8, <2>9
  <2> QED BY <2>1, <2>5, <2>10 DEF Current
<1>2. EvidenceSpec => []GrowthInv
  BY GrowthInit, GrowthStep, PTL DEF EvidenceSpec
<1> QED BY <1>1, <1>2, PTL DEF EvidenceSpec, AnswersStand

\* An arrival that takes nothing back leaves what was not retracted standing,
\* and with it what was delegated and every edge that has authority.
LEMMA NotWithdrawn ==
    ASSUME NEW G, NEW c, ~Withdraws(G, c), NEW x \in G, IsRetracted(G \cup {c}, x)
    PROVE  IsRetracted(G, x)
<1> DEFINE H == G \cup {c}
<1>1. PICK e \in Edges(H, "retracts") : e[2] = x /\ e[1] \in H /\ Author(e[1]) = Author(x)
  BY DEF IsRetracted
<1>2. e \in Edges(G, "retracts")
  BY <1>1 DEF Edges, Related, Of, Withdraws
<1>3. e[1] \in G
  BY <1>1, <1>2 DEF Withdraws
<1> QED BY <1>1, <1>2, <1>3 DEF IsRetracted

\* What takes nothing back takes authority from no edge.
LEMMA EdgesStay ==
    ASSUME NEW G \in SUBSET Cid, NEW c \in Cid \ G, ~Withdraws(G, c)
    PROVE  SupersedesEdges(G, "authoritative") \subseteq
           SupersedesEdges(G \cup {c}, "authoritative")
<1> DEFINE H == G \cup {c}
<1> SUFFICES ASSUME NEW e \in SupersedesEdges(G, "authoritative")
             PROVE  e \in SupersedesEdges(H, "authoritative")
  OBVIOUS
<1>0. G \subseteq H /\ "authoritative" # "full"
  OBVIOUS
<1>1. e \in Edges(H, "supersedes") /\ EdgeIsAuthoritative(G, e)
  BY <1>0, EdgesMore DEF SupersedesEdges
<1>2. PICK r \in Related(G, "supersedes") :
         /\ <<Object[r].from, Object[r].to>> = e
         /\ \/ Author(r) = Author(e[2])
            \/ DelegatesLineage(G, Author(e[2]), Author(r))
            \/ ContinuesKey(G, Author(e[2]), Author(r))
  BY <1>1 DEF EdgeIsAuthoritative
<1>3. e[2] \in H /\ e[2] \in Cid /\ r \in Related(H, "supersedes") /\ r \in Cid
  BY <1>1, <1>2 DEF EdgeIsAuthoritative, Related, Of
<1>4. ASSUME DelegatesLineage(G, Author(e[2]), Author(r))
      PROVE  DelegatesLineage(H, Author(e[2]), Author(r))
  <2>1. PICK d \in Related(G, "delegates") :
           /\ Object[d].from = Author(e[2]) /\ Object[d].to = Author(r)
           /\ Author(d) = Author(e[2])
           /\ Object[d].aspect = "lineage"
           /\ ~IsRetracted(G, d)
    BY <1>4 DEF DelegatesLineage
  <2>2. d \in Related(H, "delegates") /\ d \in G
    BY DEF Related, Of
  <2>3. ~IsRetracted(H, d)
    BY <2>1, <2>2, NotWithdrawn
  <2> QED BY <2>1, <2>2, <2>3 DEF DelegatesLineage
<1>5. ASSUME ContinuesKey(G, Author(e[2]), Author(r))
      PROVE  ContinuesKey(H, Author(e[2]), Author(r))
  <2>1. Author(e[2]) # None /\ Author(r) # None
    BY <1>3, GraphAssumption DEF Author
  <2> QED BY <1>0, <1>5, <2>1, ContinuesStays
<1>6. EdgeIsAuthoritative(H, e)
  BY <1>2, <1>3, <1>4, <1>5 DEF EdgeIsAuthoritative
<1> QED BY <1>1, <1>6 DEF SupersedesEdges

\* Two lineages stay two when one has nothing to do with the arrival.
LEMMA LineagesStayApart ==
    ASSUME NEW G, GraphOK(G), NEW c \in Cid \ G, GraphOK(G \cup {c}),
           ~Meddles(G, G \cup {c}, c), ~Withdraws(G, c),
           NEW d, NoPart(G, G \cup {c}, c, d), NEW x, ~SameGenesis(G, d, x)
    PROVE  ~SameGenesis(G \cup {c}, d, x)
<1> DEFINE H == G \cup {c}
           E == SupersedesEdges(G, "authoritative")
           F == SupersedesEdges(H, "authoritative")
           g == GenesisOf(G, d, "authoritative")
<1> SUFFICES ASSUME SameGenesis(H, d, x) PROVE FALSE
  OBVIOUS
<1>1. LineageEdges(E) /\ LineageEdges(F)
  BY SupersedesAre
<1>2. /\ GenesisOf(H, d, "authoritative") = g
      /\ Lineage(H, d, "authoritative") = Lineage(G, d, "authoritative")
  BY LineageApart
<1>3. GenesisOf(H, x, "authoritative") = g
  BY <1>2 DEF SameGenesis
<1>4. /\ LastAncestor(F, g) = None /\ Reaches(Up(F), x, g)
      /\ \A y : y \in Lineage(H, d, "authoritative") <=> Reaches(Reversed(F), g, y)
  BY <1>2, <1>3, LineageIs
<1>5. \A e \in F \ E : ~Reaches(Reversed(F), g, e[1]) /\ ~Reaches(Reversed(F), g, e[2])
  BY <1>2, <1>4, EdgesCome DEF GraphOK, NoPart
<1>6. E \subseteq F
  BY EdgesStay DEF GraphOK
<1>7. LastAncestor(E, GenesisOf(G, x, "authoritative")) = None
      /\ Reaches(Up(E), x, GenesisOf(G, x, "authoritative"))
  BY LineageIs
<1> HIDE DEF E, F, g
<1>8. LastAncestor(E, g) = None /\ Reaches(Up(E), x, g)
  BY <1>1, <1>4, <1>5, <1>6, LineageUnmoved
<1>9. GenesisOf(G, x, "authoritative") = g
  BY <1>1, <1>7, <1>8, RootIs
<1> QED BY <1>9 DEF SameGenesis, g

\* What claims rest on, and the terms they use, change only with claims and
\* dependencies.
LEMMA TermsStay ==
    ASSUME NEW G, NEW c, Object[c].type = "relation", Object[c].kind # "depends", NEW p
    PROVE  /\ DependsEdges(G \cup {c}) = DependsEdges(G)
           /\ DefinitionalTerms(G \cup {c}, p) = DefinitionalTerms(G, p)
<1> DEFINE H == G \cup {c}
<1>1. Of(H, "prose") = Of(G, "prose")
  BY DEF Of
<1>2. DependsEdges(H) = DependsEdges(G)
  BY <1>1 DEF DependsEdges, Edges, Related, Of
<1>3. DependsClosure(H, p) = DependsClosure(G, p)
  BY <1>2 DEF DependsClosure
<1> QED BY <1>1, <1>2, <1>3 DEF DefinitionalTerms

\* compare: a stranger's relation does not make one meaning of two, unless it
\* meddles, takes something back or is a dependency.
THEOREM MeaningsStayApart == EvidenceSpec => OnlyAuthorsUnite
<1>1. GrowthInv /\ GrowthInv' /\ [EvidenceNext]_evars =>
        [\A c \in Of(graph' \ graph, "relation") :
            (~Meddles(graph, graph', c) /\ ~Withdraws(graph, c) /\ Object[c].kind # "depends") =>
                \A l, r \in {p \in Of(graph, "prose") : DOMAIN DefinitionalTerms(graph, p) # {}} :
                    \A t \in Divergent(graph, l, r, {}) :
                        LET defs == {DefinitionalTerms(graph, l)[t], DefinitionalTerms(graph, r)[t]}
                        IN  (\E d \in defs : NoPart(graph, graph', c, d))
                            => t \in Divergent(graph', l, r, {})]_evars
  <2> SUFFICES ASSUME GrowthInv, GrowthInv', [EvidenceNext]_evars,
                      NEW c \in Of(graph' \ graph, "relation"),
                      ~Meddles(graph, graph', c), ~Withdraws(graph, c), Object[c].kind # "depends",
                      NEW l, NEW r, NEW t \in Divergent(graph, l, r, {}),
                      \/ NoPart(graph, graph', c, DefinitionalTerms(graph, l)[t])
                      \/ NoPart(graph, graph', c, DefinitionalTerms(graph, r)[t])
               PROVE  t \in Divergent(graph', l, r, {})
    OBVIOUS
  <2> DEFINE H == graph \cup {c}
             left == DefinitionalTerms(graph, l)
             right == DefinitionalTerms(graph, r)
  <2>1. c \in Cid \ graph /\ graph' = H /\ Object[c].type = "relation"
    BY GrowthStep DEF Of
  <2>2. GraphOK(graph) /\ GraphOK(H)
    BY <2>1 DEF GrowthInv
  <2>3. DefinitionalTerms(H, l) = left /\ DefinitionalTerms(H, r) = right
    BY <2>1, TermsStay
  <2> HIDE DEF left, right
  <2>4. \A a, b : Equivalent(H, a, b, {}) <=> Equivalent(graph, a, b, {})
    BY DEF Equivalent
  <2>5. DependsEdges(H) = DependsEdges(graph)
    BY <2>1, TermsStay
  <2>6. \A a : DependsClosureFails(H, a) <=> DependsClosureFails(graph, a)
    BY <2>5 DEF DependsClosureFails
  <2>7. Conflicts(H, l, r, {}) = Conflicts(graph, l, r, {})
    BY <2>3, <2>4, <2>6 DEF Conflicts, left, right
  <2>8. t \in Conflicts(graph, l, r, {}) /\ ~SameGenesis(graph, left[t], right[t])
    BY DEF Divergent, left, right
  <2>9. ~SameGenesis(graph, right[t], left[t])
    BY <2>8 DEF SameGenesis
  <2>10. ~SameGenesis(H, left[t], right[t]) \/ ~SameGenesis(H, right[t], left[t])
    BY <2>1, <2>2, <2>8, <2>9, LineagesStayApart DEF left, right
  <2>11. ~SameGenesis(H, left[t], right[t])
    BY <2>10 DEF SameGenesis
  <2> QED BY <2>1, <2>3, <2>7, <2>8, <2>11 DEF Divergent
<1>2. EvidenceSpec => []GrowthInv
  BY GrowthInit, GrowthStep, PTL DEF EvidenceSpec
<1> QED BY <1>1, <1>2, PTL DEF EvidenceSpec, OnlyAuthorsUnite

----------------------------------------------------------------------------
(* Trust: fixed point, and what a round of the propagation does.           *)

\* A quotient, rounded down, times its divisor.
LEMMA Quotient ==
    ASSUME NEW n \in Nat, NEW m \in Nat, m # 0
    PROVE  n \div m \in Nat /\ m * (n \div m) <= n
OBVIOUS

\* Fixed6::times rounds down.
LEMMA TimesIs ==
    ASSUME NEW a \in Nat, NEW b \in Nat
    PROVE  Times(a, b) \in Nat /\ Scale * Times(a, b) <= a * b
<1>1. a * b \in Nat /\ Scale \in Nat /\ Scale # 0
  BY EvidenceAssumption
<1> QED BY <1>1, Quotient DEF Times

\* Fixed6::mul_div rounds down, and is nothing where there is nothing to divide by.
LEMMA MulDivIs ==
    ASSUME NEW a \in Nat, NEW num \in Nat, NEW den \in Nat
    PROVE  MulDiv(a, num, den) \in Nat /\ den * MulDiv(a, num, den) <= a * num
<1>1. a * num \in Nat
  OBVIOUS
<1>2. CASE den = 0
  BY <1>1, <1>2 DEF MulDiv
<1>3. CASE den # 0
  BY <1>1, <1>3, Quotient DEF MulDiv
<1> QED BY <1>2, <1>3

\* A policy that can be worked with, and edges of finite trust.
PolicyOK(p) ==
    /\ p.iterations \in Nat /\ p.tau \in Nat /\ p.deltaMax \in Nat /\ p.floor \in Nat
    /\ p.damping \in 0..Scale
    /\ IsFiniteSet(DOMAIN p.roots) /\ \A k \in DOMAIN p.roots : p.roots[k] \in Nat

EdgesOK(edges) == IsFiniteSet(edges) /\ \A t \in edges : Object[t].value.weight \in Nat

\* What a key shares out comes to one at most.
LEMMA FractionsShared ==
    ASSUME NEW edges, EdgesOK(edges), NEW a
    PROVE  LET by == {u \in edges : Author(u) = a}
           IN  /\ \A t \in by : Fraction(edges, t) \in Nat
               /\ SumFunctionOnSet([t \in by |-> Fraction(edges, t)], by) <= Scale
<1> DEFINE by == {u \in edges : Author(u) = a}
           weight == [u \in by |-> Object[u].value.weight]
           fraction == [t \in by |-> Fraction(edges, t)]
           total == SumFunctionOnSet(weight, by)
<1>0. Scale \in Nat /\ Scale # 0
  BY EvidenceAssumption
<1>1. IsFiniteSet(by) /\ \A t \in by : weight[t] \in Nat
  BY FS_Subset DEF EdgesOK
<1>2. total \in Nat
  <2> HIDE DEF by, weight
  <2> QED BY <1>1, SumType
<1>3. \A t \in by : Fraction(edges, t) = MulDiv(weight[t], Scale, total)
  BY DEF Fraction, SumFunction
<1> HIDE DEF weight, total
<1>4. \A t \in by : Fraction(edges, t) \in Nat /\ total * Fraction(edges, t) <= weight[t] * Scale
  <2> SUFFICES ASSUME NEW t \in by
               PROVE  Fraction(edges, t) \in Nat /\ total * Fraction(edges, t) <= weight[t] * Scale
    OBVIOUS
  <2>1. weight[t] \in Nat /\ Fraction(edges, t) = MulDiv(weight[t], Scale, total)
    BY <1>1, <1>3
  <2> QED BY <1>0, <1>2, <2>1, MulDivIs
<1>5. \A t \in by : fraction[t] \in Nat /\ total * fraction[t] <= Scale * weight[t]
  BY <1>0, <1>1, <1>4
<1>6. \A t \in by : fraction[t] = MulDiv(weight[t], Scale, total)
  BY <1>3
<1> HIDE DEF by, fraction
<1>7. CASE total = 0
  <2> DEFINE none == [t \in by |-> 0]
  <2>1. \A t \in by : fraction[t] = 0 * weight[t]
    BY <1>1, <1>6, <1>7 DEF MulDiv
  <2>2. SumFunctionOnSet(fraction, by) = 0 * SumFunctionOnSet(weight, by)
    BY <1>1, <2>1, SumOfMultiples
  <2>3. SumFunctionOnSet(fraction, by) <= Scale
    BY <1>0, <1>2, <2>2 DEF total
  <2> QED BY <1>4, <2>3 DEF by, fraction
<1>8. CASE total # 0
  <2>1. SumFunctionOnSet(weight, by) <= total
    BY <1>2 DEF total
  <2>2. SumFunctionOnSet(fraction, by) <= Scale
    BY <1>0, <1>1, <1>2, <1>5, <1>8, <2>1, SharedOut
  <2> QED BY <1>4, <2>2 DEF by, fraction
<1> QED BY <1>7, <1>8

\* A function tabulated is the function.
LEMMA TabulatedIs == ASSUME NEW f PROVE Tabulated(f) = f
BY DEF Tabulated

\* propagate_all starts from the seeds and takes one round after another.
LEMMA PropagatedIs ==
    ASSUME NEW p, p.iterations \in Nat, NEW edges, NEW V, Seeds(p, edges) \in V,
           \A w \in V : Round(p, edges, w) \in V
    PROVE  \E h \in [0..p.iterations -> V] :
              /\ h[0] = Seeds(p, edges)
              /\ \A n \in 1..p.iterations : h[n] = Round(p, edges, h[n - 1])
              /\ Propagated(p, edges) = h[p.iterations]
<1> DEFINE N == p.iterations
           R(w) == Round(p, edges, w)
           base == Seeds(p, edges)
           op == [q \in V \X (1..N) |-> R(q[1])]
           body(f) == [s \in SUBSET (1..N) |->
                         IF s = {} THEN Tabulated(Seeds(p, edges))
                         ELSE Tabulated(Round(p, edges, f[s \ {Max(s)}]))]
           f == CHOOSE x : x = body(x)
<1>0. N \in Nat
  OBVIOUS
<1>1. op \in [V \X (1..N) -> V]
  <2> SUFFICES ASSUME NEW q \in V \X (1..N) PROVE R(q[1]) \in V
    OBVIOUS
  <2>1. q[1] \in V
    OBVIOUS
  <2> HIDE DEF R
  <2> QED BY <2>1 DEF R
<1>2. ASSUME NEW w \in V, NEW n \in 1..N PROVE op[<<w, n>>] = R(w)
  <2> DEFINE q == <<w, n>>
  <2>1. q \in V \X (1..N) /\ q[1] = w
    OBVIOUS
  <2> HIDE DEF R, q
  <2>2. op[q] = R(q[1])
    BY <2>1
  <2> QED BY <2>1, <2>2 DEF q
<1>3. ASSUME NEW s \in SUBSET (1..N), s # {}
      PROVE  Max(s) = Greatest(s) /\ Greatest(s) \in 1..N
  BY <1>0, <1>3, GreatestIs DEF Max, Greatest
<1> HIDE DEF op, R
<1>b. base \in V
  OBVIOUS
<1> HIDE DEF N, base
<1>4. PICK g \in [SUBSET (1..N) -> V] : IsStepFold(g, N, base, op)
  BY <1>0, <1>1, <1>b, StepsExist
<1>5. ASSUME NEW s \in SUBSET (1..N), s # {}
      PROVE  op[<<g[s \ {Greatest(s)}], Greatest(s)>>] = R(g[s \ {Max(s)}])
  <2>1. g[s \ {Greatest(s)}] \in V
    OBVIOUS
  <2> QED BY <1>2, <1>3, <1>5, <2>1
<1>6. g = body(g)
  <2>1. g = [s \in SUBSET (1..N) |-> g[s]]
    OBVIOUS
  <2>2. \A s \in SUBSET (1..N) : g[s] = body(g)[s]
    BY <1>4, <1>5, TabulatedIs DEF R, base, IsStepFold
  <2> QED BY <2>1, <2>2
<1>7. f = body(f)
  BY <1>6
<1>8. Propagated(p, edges) = f[1..N]
  BY <1>0 DEF Propagated, FoldLeft, MapThenFoldSet, N
<1> HIDE DEF f
<1>9. f[{}] = base
  BY <1>7, TabulatedIs DEF base
<1>10. ASSUME NEW s \in SUBSET (1..N), s # {}, f[s \ {Greatest(s)}] \in V
       PROVE  f[s] = op[<<f[s \ {Greatest(s)}], Greatest(s)>>]
  <2>1. f[s] = R(f[s \ {Max(s)}])
    BY <1>7, <1>10, TabulatedIs DEF R
  <2> QED BY <1>2, <1>3, <1>10, <2>1
<1>11. PICK h \in [0..N -> V] : InTurn(h, f, N, base, op)
  <2>1. StepsIn(f, N, V, base, op)
    BY <1>9, <1>10 DEF StepsIn
  <2> QED BY <1>0, <1>1, <1>b, <2>1, StepsTaken
<1>12. \A n \in 1..N : h[n] = R(h[n - 1])
  <2> SUFFICES ASSUME NEW n \in 1..N PROVE h[n] = R(h[n - 1])
    OBVIOUS
  <2>1. h[n - 1] \in V
    BY <1>0
  <2> QED BY <1>2, <1>11, <2>1 DEF InTurn
<1> QED BY <1>8, <1>11, <1>12 DEF R, N, base, InTurn

\* The keys that may weigh something are finitely many.
LEMMA WeighedFinite ==
    ASSUME NEW p, PolicyOK(p), NEW edges, EdgesOK(edges)
    PROVE  IsFiniteSet(Weighed(p, edges))
<1> DEFINE to == [t \in edges |-> Object[t].to]
<1>1. IsFiniteSet({to[t] : t \in DOMAIN to})
  <2>1. DOMAIN to = edges
    OBVIOUS
  <2> HIDE DEF to
  <2> QED BY <2>1, ImageFinite DEF EdgesOK
<1>2. {to[t] : t \in DOMAIN to} = {Object[t].to : t \in edges}
  OBVIOUS
<1> QED BY <1>1, <1>2, FS_Union DEF Weighed, PolicyOK

\* The seeds come to one at most.
LEMMA SeedsConserved ==
    ASSUME NEW p, PolicyOK(p), NEW edges, EdgesOK(edges)
    PROVE  /\ Seeds(p, edges) \in [Weighed(p, edges) -> Nat]
           /\ SumFunctionOnSet(Seeds(p, edges), Weighed(p, edges)) <= Scale
<1> DEFINE keys == Weighed(p, edges)
           roots == DOMAIN p.roots
           total == SumFunctionOnSet(p.roots, roots)
           seeds == Seeds(p, edges)
<1>0. Scale \in Nat /\ Scale # 0
  BY EvidenceAssumption
<1>1. IsFiniteSet(roots) /\ \A k \in roots : p.roots[k] \in Nat
  BY DEF PolicyOK
<1>2. total \in Nat
  BY <1>1, SumType
<1>3. roots \in SUBSET keys
  BY DEF Weighed
<1>4. \A k \in keys : seeds[k] = IF k \in roots THEN MulDiv(p.roots[k], Scale, total) ELSE 0
  BY DEF Seeds, SumFunction
<1>5. \A k \in roots : seeds[k] \in Nat /\ total * seeds[k] <= Scale * p.roots[k]
  <2> SUFFICES ASSUME NEW k \in roots
               PROVE  seeds[k] \in Nat /\ total * seeds[k] <= Scale * p.roots[k]
    OBVIOUS
  <2>1. seeds[k] = MulDiv(p.roots[k], Scale, total)
    BY <1>3, <1>4
  <2>2. p.roots[k] \in Nat
    BY <1>1
  <2> HIDE DEF seeds, total
  <2>3. seeds[k] \in Nat /\ total * seeds[k] <= p.roots[k] * Scale
    BY <1>0, <1>2, <2>1, <2>2, MulDivIs
  <2> QED BY <1>0, <1>2, <2>2, <2>3
<1>6. seeds \in [keys -> Nat]
  <2>1. \A k \in keys : seeds[k] \in Nat
    BY <1>4, <1>5
  <2>2. seeds = [k \in keys |-> seeds[k]]
    BY DEF Seeds
  <2> QED BY <2>1, <2>2
<1>7. SumFunctionOnSet(seeds, roots) <= Scale
  <2> HIDE DEF seeds
  <2>1. CASE total = 0
    <3>1. \A k \in roots : seeds[k] = 0
      BY <1>3, <1>4, <2>1 DEF MulDiv
    <3>2. SumFunctionOnSet(seeds, roots) = 0
      BY <1>1, <3>1, SumOfZeros
    <3> QED BY <1>0, <3>2
  <2>2. CASE total # 0
    <3>1. SumFunctionOnSet(p.roots, roots) <= total
      BY <1>2
    <3> HIDE DEF total
    <3> QED BY <1>0, <1>1, <1>2, <1>5, <2>2, <3>1, SharedOut
  <2> QED BY <2>1, <2>2
<1>8. SumFunctionOnSet(seeds, keys) = SumFunctionOnSet(seeds, roots)
  <2>1. IsFiniteSet(keys)
    BY WeighedFinite
  <2>2. \A k \in keys \ roots : seeds[k] = 0
    BY <1>4
  <2> HIDE DEF seeds, keys
  <2> QED BY <1>3, <1>5, <2>1, <2>2, SumOfPart
<1> QED BY <1>6, <1>7, <1>8

\* What a key hands on is a damped share of what it has.
LEMMA AlongShared ==
    ASSUME NEW p, PolicyOK(p), NEW edges, EdgesOK(edges), NEW w, NEW a, w[a] \in Nat
    PROVE  LET by == {t \in edges : Author(t) = a}
           IN  /\ \A t \in by : Along(p, edges, w, t) \in Nat
               /\ Scale * SumFunctionOnSet([t \in by |-> Along(p, edges, w, t)], by)
                    <= p.damping * w[a]
<1> DEFINE by == {t \in edges : Author(t) = a}
           along == [t \in by |-> Along(p, edges, w, t)]
           share == [t \in by |-> Fraction(edges, t)]
           scaled == [t \in by |-> Scale * along[t]]
           d == p.damping
           c == d * w[a]
<1>0. Scale \in Nat /\ Scale # 0 /\ d \in Nat /\ c \in Nat
  BY EvidenceAssumption DEF PolicyOK
<1>1. IsFiniteSet(by) /\ \A t \in by : share[t] \in Nat
  BY FS_Subset, FractionsShared DEF EdgesOK
<1>2. SumFunctionOnSet(share, by) <= Scale
  BY FractionsShared
<1>3. ASSUME NEW t \in by PROVE along[t] \in Nat /\ Scale * (Scale * along[t]) <= c * share[t]
  <2> DEFINE s == share[t]
             x == Times(w[a], s)
             v == along[t]
  <2>1. s \in Nat
    BY <1>1
  <2>2. v = Times(x, d)
    BY DEF Along
  <2> HIDE DEF s, x, v, d
  <2>3. x \in Nat /\ Scale * x <= w[a] * s
    BY <2>1, TimesIs DEF x
  <2>4. v \in Nat /\ Scale * v <= x * d
    BY <1>0, <2>2, <2>3, TimesIs
  <2>5. Scale * (Scale * v) <= Scale * (x * d)
    BY <1>0, <2>3, <2>4
  <2>6. Scale * (x * d) = d * (Scale * x)
    BY <1>0, <2>3
  <2>7. d * (Scale * x) <= d * (w[a] * s)
    BY <1>0, <2>1, <2>3
  <2>8. d * (w[a] * s) = c * s
    BY <1>0, <2>1
  <2> DEFINE A == Scale * (Scale * v)
             B == Scale * (x * d)
             C == d * (Scale * x)
             D == d * (w[a] * s)
  <2>9. A \in Nat /\ B \in Nat /\ C \in Nat /\ D \in Nat
    <3>1. Scale * v \in Nat /\ x * d \in Nat /\ Scale * x \in Nat /\ w[a] * s \in Nat
      BY <1>0, <2>1, <2>3, <2>4
    <3> QED BY <1>0, <3>1
  <2>10. A <= B /\ B = C /\ C <= D /\ D = c * s
    BY <2>5, <2>6, <2>7, <2>8
  <2>11. A <= c * s
    <3> HIDE DEF A, B, C, D
    <3> QED BY <2>9, <2>10
  <2> QED BY <2>4, <2>11 DEF s, v
<1>4. \A t \in by : scaled[t] = Scale * along[t]
  OBVIOUS
<1>5. \A t \in by : along[t] = Along(p, edges, w, t)
  OBVIOUS
<1> HIDE DEF along, share, scaled, by, c, d
<1>6. \A t \in by : scaled[t] \in Nat /\ Scale * scaled[t] <= c * share[t]
  BY <1>0, <1>3, <1>4
<1>7. SumFunctionOnSet(scaled, by) <= c
  BY <1>0, <1>1, <1>2, <1>6, SharedOut
<1>8. SumFunctionOnSet(scaled, by) = Scale * SumFunctionOnSet(along, by)
  BY <1>0, <1>1, <1>3, <1>4, SumOfMultiples
<1> QED BY <1>3, <1>5, <1>7, <1>8 DEF along, by, c, d


\* A round of the propagation, in its parts: what the seeds give a key, and
\* what comes in along the edges from keys that are weighed.
LEMMA RoundIs ==
    ASSUME NEW p, PolicyOK(p), NEW edges, EdgesOK(edges),
           NEW w \in [Weighed(p, edges) -> Nat]
    PROVE  LET keys  == Weighed(p, edges)
               inner == {t \in edges : Author(t) \in keys}
               along == [t \in inner |-> Along(p, edges, w, t)]
           IN  /\ \A t \in inner : along[t] \in Nat /\ Object[t].to \in keys
               /\ \A k \in keys :
                    LET got == SumFunctionOnSet(along, {t \in inner : Object[t].to = k})
                    IN  /\ got \in Nat
                        /\ Times(Seeds(p, edges)[k], Scale - p.damping) \in Nat
                        /\ Round(p, edges, w)[k] = Times(Seeds(p, edges)[k], Scale - p.damping) + got
               /\ Round(p, edges, w) \in [keys -> Nat]
<1> DEFINE keys  == Weighed(p, edges)
           inner == {t \in edges : Author(t) \in keys}
           along == [t \in inner |-> Along(p, edges, w, t)]
           into(k) == {t \in inner : Object[t].to = k}
           got(k) == SumFunctionOnSet(along, into(k))
           given(k) == Times(Seeds(p, edges)[k], Scale - p.damping)
           round == Round(p, edges, w)
<1>0. Scale - p.damping \in Nat
  BY EvidenceAssumption DEF PolicyOK
<1>1. \A t \in inner : along[t] \in Nat /\ Object[t].to \in keys
  <2> SUFFICES ASSUME NEW t \in inner PROVE along[t] \in Nat /\ Object[t].to \in keys
    OBVIOUS
  <2>1. w[Author(t)] \in Nat
    OBVIOUS
  <2>2. Along(p, edges, w, t) \in Nat
    BY <2>1, AlongShared
  <2> QED BY <2>2 DEF Weighed
<1>2. ASSUME NEW k \in keys PROVE got(k) \in Nat
  <2>1. IsFiniteSet(into(k))
    BY FS_Subset DEF EdgesOK
  <2> HIDE DEF along
  <2> QED BY <1>1, <2>1, SumType
<1>3. ASSUME NEW k \in keys PROVE given(k) \in Nat
  <2>1. Seeds(p, edges)[k] \in Nat
    BY SeedsConserved
  <2> QED BY <1>0, <2>1, TimesIs
<1>4. ASSUME NEW k \in keys PROVE round[k] = given(k) + got(k)
  <2> DEFINE here == {t \in edges : Object[t].to = k /\ Author(t) \in keys}
             some == [t \in here |-> Along(p, edges, w, t)]
  <2>1. round[k] = given(k) + SumFunctionOnSet(some, here)
    BY DEF Round, SumFunction
  <2>2. here = into(k)
    OBVIOUS
  <2>3. \A t \in here : along[t] \in Nat /\ along[t] = some[t]
    BY <1>1
  <2>4. IsFiniteSet(here)
    BY FS_Subset DEF EdgesOK
  <2>5. SumFunctionOnSet(along, here) = SumFunctionOnSet(some, here)
    <3> HIDE DEF along, some, here
    <3> QED BY <2>3, <2>4, SumOfSame
  <2> QED BY <2>1, <2>2, <2>5
<1>5. round = [k \in keys |-> round[k]]
  BY DEF Round
<1>6. \A k \in keys : round[k] \in Nat
  <2> SUFFICES ASSUME NEW k \in keys PROVE round[k] \in Nat
    OBVIOUS
  <2>1. got(k) \in Nat /\ given(k) \in Nat /\ round[k] = given(k) + got(k)
    BY <1>2, <1>3, <1>4
  <2> HIDE DEF got, given, round
  <2> QED BY <2>1
<1>7. round \in [keys -> Nat]
  <2> HIDE DEF round, keys
  <2> QED BY <1>5, <1>6
<1> QED BY <1>1, <1>2, <1>3, <1>4, <1>7

\* A round makes no trust.
LEMMA RoundConserves ==
    ASSUME NEW p, PolicyOK(p), NEW edges, EdgesOK(edges),
           NEW w \in [Weighed(p, edges) -> Nat],
           SumFunctionOnSet(w, Weighed(p, edges)) <= Scale
    PROVE  SumFunctionOnSet(Round(p, edges, w), Weighed(p, edges)) <= Scale
<1> DEFINE keys  == Weighed(p, edges)
           inner == {t \in edges : Author(t) \in keys}
           along == [t \in inner |-> Along(p, edges, w, t)]
           to    == [t \in inner |-> Object[t].to]
           from  == [t \in inner |-> Author(t)]
           got   == [k \in keys |-> SumFunctionOnSet(along, {t \in inner : to[t] = k})]
           gone  == [k \in keys |-> SumFunctionOnSet(along, {t \in inner : from[t] = k})]
           given == [k \in keys |-> Times(Seeds(p, edges)[k], Scale - p.damping)]
           round == Round(p, edges, w)
           d     == p.damping
<1>0. Scale \in Nat /\ Scale # 0 /\ d \in Nat /\ Scale - d \in Nat
  BY EvidenceAssumption DEF PolicyOK
<1>1. IsFiniteSet(keys) /\ IsFiniteSet(inner)
  BY WeighedFinite, FS_Subset DEF EdgesOK
<1>2. \A t \in inner : along[t] \in Nat /\ to[t] \in keys /\ from[t] \in keys
  BY RoundIs
<1>3. \A k \in keys : {t \in inner : to[t] = k} = {t \in inner : Object[t].to = k}
  OBVIOUS
<1>4. ASSUME NEW k \in keys
      PROVE  got[k] \in Nat /\ given[k] \in Nat /\ round[k] = given[k] + got[k]
  <2>1. got[k] = SumFunctionOnSet(along, {t \in inner : Object[t].to = k})
    BY <1>3
  <2> QED BY <2>1, RoundIs
<1>5. ASSUME NEW k \in keys PROVE gone[k] \in Nat /\ Scale * gone[k] <= d * w[k]
  <2> DEFINE by == {t \in edges : Author(t) = k}
             some == [t \in by |-> Along(p, edges, w, t)]
  <2>1. by = {t \in inner : from[t] = k}
    OBVIOUS
  <2>2. w[k] \in Nat
    OBVIOUS
  <2>3. \A t \in by : along[t] \in Nat /\ along[t] = some[t]
    BY <1>2, <2>1
  <2>4. IsFiniteSet(by)
    BY FS_Subset DEF EdgesOK
  <2>5. SumFunctionOnSet(along, by) = SumFunctionOnSet(some, by) /\ SumFunctionOnSet(along, by) \in Nat
    <3> HIDE DEF along, some, by
    <3> QED BY <2>3, <2>4, SumOfSame, SumType
  <2>6. Scale * SumFunctionOnSet(some, by) <= d * w[k]
    BY <2>2, AlongShared
  <2>7. gone[k] = SumFunctionOnSet(along, by)
    BY <2>1
  <2> QED BY <2>5, <2>6, <2>7
<1>6. ASSUME NEW k \in keys
      PROVE  /\ Seeds(p, edges)[k] \in Nat /\ given[k] \in Nat
             /\ Scale * given[k] <= (Scale - d) * Seeds(p, edges)[k]
  <2> DEFINE s == Seeds(p, edges)[k]
             r == Scale - d
  <2>1. s \in Nat
    BY SeedsConserved
  <2>2. given[k] = Times(s, r)
    OBVIOUS
  <2> HIDE DEF s, given, r
  <2>3. r \in Nat
    BY <1>0 DEF r
  <2>4. given[k] \in Nat /\ Scale * given[k] <= s * r
    BY <2>1, <2>2, <2>3, TimesIs
  <2>5. s * r = r * s
    BY <2>1, <2>3
  <2> QED BY <2>1, <2>4, <2>5 DEF s, r
<1>7. SumFunctionOnSet(Seeds(p, edges), keys) <= Scale
  BY SeedsConserved
<1>8. \A k \in keys : w[k] \in Nat
  OBVIOUS
<1>9. SumFunctionOnSet(w, keys) <= Scale
  OBVIOUS
<1>a. SumFunctionOnSet(along, inner) = SumFunctionOnSet(got, keys)
  <2> HIDE DEF along, inner, keys, to, from
  <2> QED BY <1>1, <1>2, SumByGroups
<1>b. SumFunctionOnSet(along, inner) = SumFunctionOnSet(gone, keys)
  <2> HIDE DEF along, inner, keys, to, from
  <2> QED BY <1>1, <1>2, SumByGroups
<1> HIDE DEF keys, inner, along, to, from, got, gone, given, round, d
<1>10. SumFunctionOnSet(gone, keys) <= d
  BY <1>0, <1>1, <1>5, <1>8, <1>9, SharedOut
<1>11. SumFunctionOnSet(given, keys) <= Scale - d
  <2> DEFINE r == Scale - d
             s == Seeds(p, edges)
  <2>1. r \in Nat /\ \A k \in keys : s[k] \in Nat /\ given[k] \in Nat /\ Scale * given[k] <= r * s[k]
    BY <1>0, <1>6
  <2>2. SumFunctionOnSet(s, keys) <= Scale
    BY <1>7
  <2> HIDE DEF r, s
  <2>3. SumFunctionOnSet(given, keys) <= r
    BY <1>0, <1>1, <2>1, <2>2, SharedOut
  <2> QED BY <2>3 DEF r
<1>12. SumFunctionOnSet(round, keys) = SumFunctionOnSet(given, keys) + SumFunctionOnSet(got, keys)
  BY <1>1, <1>4, SumOfBoth
<1>13. SumFunctionOnSet(given, keys) \in Nat /\ SumFunctionOnSet(got, keys) \in Nat
  BY <1>1, <1>4, SumType
<1>14. SumFunctionOnSet(round, keys) <= Scale
  BY <1>0, <1>10, <1>11, <1>12, <1>13, <1>a, <1>b
<1> QED BY <1>14 DEF round, keys


\* Nothing times anything is nothing.
LEMMA TimesNothing ==
    ASSUME NEW b \in Nat
    PROVE  Times(0, b) = 0
<1>1. 0 * b = 0 /\ Scale \in Nat /\ Scale # 0
  BY EvidenceAssumption
<1>2. 0 \div Scale = 0
  BY <1>1
<1> QED BY <1>1, <1>2 DEF Times

\* However many rounds are taken, no trust is made.
LEMMA PropagatedConserves ==
    ASSUME NEW p, PolicyOK(p), NEW edges, EdgesOK(edges)
    PROVE  /\ Propagated(p, edges) \in [Weighed(p, edges) -> Nat]
           /\ SumFunctionOnSet(Propagated(p, edges), Weighed(p, edges)) <= Scale
<1> DEFINE keys == Weighed(p, edges)
           V == {w \in [keys -> Nat] : SumFunctionOnSet(w, keys) <= Scale}
<1>1. Seeds(p, edges) \in V
  BY SeedsConserved
<1>2. ASSUME NEW w \in V PROVE Round(p, edges, w) \in V
  <2>1. w \in [keys -> Nat] /\ SumFunctionOnSet(w, keys) <= Scale
    OBVIOUS
  <2>2. Round(p, edges, w) \in [keys -> Nat]
    BY <2>1, RoundIs
  <2>3. SumFunctionOnSet(Round(p, edges, w), keys) <= Scale
    BY <2>1, RoundConserves
  <2> QED BY <2>2, <2>3
<1>3. p.iterations \in Nat
  BY DEF PolicyOK
<1> HIDE DEF V
<1>4. PICK h \in [0..p.iterations -> V] : Propagated(p, edges) = h[p.iterations]
  BY <1>1, <1>2, <1>3, PropagatedIs
<1>5. h[p.iterations] \in V
  BY <1>3
<1> QED BY <1>4, <1>5 DEF V

\* What comes along an edge from a key that weighs nothing is nothing.
LEMMA AlongNothing ==
    ASSUME NEW p, PolicyOK(p), NEW edges, EdgesOK(edges), NEW w, NEW t \in edges,
           w[Author(t)] = 0
    PROVE  Along(p, edges, w, t) = 0
<1>1. Fraction(edges, t) \in Nat
  BY FractionsShared
<1>2. Times(w[Author(t)], Fraction(edges, t)) = 0
  BY <1>1, TimesNothing
<1> QED BY <1>2, TimesNothing DEF Along, PolicyOK

\* What weighs anything has been handed it, link by link, by a root.
LEMMA PropagatedReaches ==
    ASSUME NEW p, PolicyOK(p), NEW edges, EdgesOK(edges), NEW E,
           \A t \in edges : <<Author(t), Object[t].to>> \in E,
           NEW k \in Weighed(p, edges), Propagated(p, edges)[k] # 0
    PROVE  \E r \in DOMAIN p.roots : Reaches(E, r, k)
<1> DEFINE keys == Weighed(p, edges)
           Handed(x) == \E r \in DOMAIN p.roots : Reaches(E, r, x)
           V == {w \in [keys -> Nat] : \A x \in keys : w[x] # 0 => Handed(x)}
<1>1. ASSUME NEW x \in keys, Seeds(p, edges)[x] # 0 PROVE Handed(x)
  <2>1. x \in DOMAIN p.roots
    BY <1>1 DEF Seeds
  <2> QED BY <2>1, ReachesItself
<1>2. Seeds(p, edges) \in V
  BY <1>1, SeedsConserved
<1>3. ASSUME NEW w \in V PROVE Round(p, edges, w) \in V
  <2> DEFINE inner == {t \in edges : Author(t) \in keys}
             along == [t \in inner |-> Along(p, edges, w, t)]
             into(x) == {t \in inner : Object[t].to = x}
             round == Round(p, edges, w)
  <2>1. w \in [keys -> Nat] /\ \A x \in keys : w[x] # 0 => Handed(x)
    OBVIOUS
  <2>2. round \in [keys -> Nat]
    BY <2>1, RoundIs
  <2>3. ASSUME NEW x \in keys, ~Handed(x) PROVE round[x] = 0
    <3>1. Seeds(p, edges)[x] = 0
      BY <1>1, <2>3
    <3>2. Times(Seeds(p, edges)[x], Scale - p.damping) = 0
      <4>1. Scale - p.damping \in Nat
        BY EvidenceAssumption DEF PolicyOK
      <4> QED BY <3>1, <4>1, TimesNothing
    <3>3. ASSUME NEW t \in into(x) PROVE along[t] = 0
      <4>1. Author(t) \in keys /\ <<Author(t), x>> \in E
        OBVIOUS
      <4>2. Reaches(E, Author(t), x)
        BY <4>1, ReachesMeaning DEF Closed
      <4>3. ~Handed(Author(t))
        <5> SUFFICES ASSUME NEW r \in DOMAIN p.roots, Reaches(E, r, Author(t)) PROVE FALSE
          OBVIOUS
        <5>1. Reaches(E, r, x)
          BY <4>2, ReachesOn
        <5> QED BY <2>3, <5>1
      <4>4. w[Author(t)] = 0
        BY <2>1, <4>1, <4>3
      <4> QED BY <4>4, AlongNothing
    <3>4. SumFunctionOnSet(along, into(x)) = 0
      <4>1. IsFiniteSet(into(x))
        BY FS_Subset DEF EdgesOK
      <4> HIDE DEF along, into
      <4> QED BY <3>3, <4>1, SumOfZeros
    <3>5. round[x] = Times(Seeds(p, edges)[x], Scale - p.damping) + SumFunctionOnSet(along, into(x))
      BY <2>1, RoundIs
    <3> HIDE DEF round, along, into
    <3> QED BY <3>2, <3>4, <3>5
  <2> HIDE DEF round, Handed
  <2>4. round \in V
    BY <2>2, <2>3
  <2> QED BY <2>4 DEF round
<1>4. p.iterations \in Nat
  BY DEF PolicyOK
<1> HIDE DEF V
<1>5. PICK h \in [0..p.iterations -> V] : Propagated(p, edges) = h[p.iterations]
  BY <1>2, <1>3, <1>4, PropagatedIs
<1>6. h[p.iterations] \in V
  BY <1>4
<1> QED BY <1>5, <1>6 DEF V

\* Whatever is asked about, the edges that apply are ones to weigh by.
EdgesInOrder(G) == \A subjects : EdgesOK(EdgesWithin(G, subjects))

\* trust_edges: the edges of trust a graph holds are so.
LEMMA SoundEdges ==
    ASSUME NEW G, GraphOK(G), \A c \in G : Object[c].type # "policy" => Object[c].form = "sound"
    PROVE  EdgesInOrder(G)
<1> SUFFICES ASSUME NEW subjects PROVE EdgesOK(EdgesWithin(G, subjects))
  BY DEF EdgesInOrder
<1>1. EdgesWithin(G, subjects) \subseteq G
  BY DEF EdgesWithin, TrustEdges, Annotations, Of
<1>2. IsFiniteSet(EdgesWithin(G, subjects))
  BY <1>1, FS_Subset DEF GraphOK
<1>3. \A t \in EdgesWithin(G, subjects) :
        /\ t \in Cid /\ Object[t].type = "annotation"
        /\ Object[t].kind = "trusts" /\ Object[t].form = "sound"
  BY <1>1 DEF EdgesWithin, TrustEdges, Annotations, Of, GraphOK
<1>4. \A t \in EdgesWithin(G, subjects) : Object[t].value.weight \in Nat
  BY <1>3, EvidenceAssumption
<1> QED BY <1>2, <1>4 DEF EdgesOK

\* The policy the workspace points to is one to weigh by.
LEMMA TrustInOrder ==
    ASSUME GrowthInv, policy # None
    PROVE  PolicyOK(Viewpoint) /\ EdgesInOrder(graph)
<1>1. PolicyOK(Viewpoint)
  BY EvidenceAssumption DEF GrowthInv, PolicyOK, Viewpoint
<1> QED BY <1>1, SoundEdges DEF GrowthInv

\* propagate_within and propagate_all: however keys vouch for each other, and
\* however often the walk goes round, what they all weigh is no more than the
\* roots' own, and none weighs anything that no root, along edges that apply
\* to what is asked, has handed it.
THEOREM TrustIsEarned == EvidenceSpec => []TrustEarned
<1>1. GrowthInv => TrustConserved
  <2> SUFFICES ASSUME GrowthInv, policy # None, NEW o
               PROVE  LET w == Weights(Viewpoint, graph, SubjectsOf(graph, o))
                      IN  WeightOf(DOMAIN w, w) <= Scale
    BY DEF TrustConserved, Evaluates
  <2> DEFINE edges == EdgesWithin(graph, SubjectsOf(graph, o))
             w == Propagated(Viewpoint, edges)
  <2>1. PolicyOK(Viewpoint) /\ EdgesOK(edges)
    BY TrustInOrder DEF EdgesInOrder
  <2>2. DOMAIN w = Weighed(Viewpoint, edges) /\ SumFunctionOnSet(w, Weighed(Viewpoint, edges)) <= Scale
    BY <2>1, PropagatedConserves
  <2>3. DOMAIN w \cap DOMAIN w = DOMAIN w
    OBVIOUS
  <2> HIDE DEF edges
  <2>4. WeightOf(DOMAIN w, w) <= Scale
    BY <2>2, <2>3 DEF WeightOf
  <2> QED BY <2>4 DEF Weights, edges
<1>2. GrowthInv => WeightWithinSubjects
  <2> SUFFICES ASSUME GrowthInv, policy # None, NEW o
               PROVE  LET subjects == SubjectsOf(graph, o)
                          applies(t) == \/ Object[t].value.subjects = {}
                                        \/ Object[t].value.subjects \cap subjects # {}
                          w == Weights(Viewpoint, graph, subjects)
                      IN  \A k \in DOMAIN w : w[k] # 0 => \E r \in DOMAIN Viewpoint.roots :
                              Reaches({<<Author(t), Object[t].to>> :
                                  t \in {t \in Annotations(graph, "trusts") : applies(t)}}, r, k)
    BY DEF WeightWithinSubjects, Evaluates
  <2> DEFINE subjects == SubjectsOf(graph, o)
             applies(t) == \/ Object[t].value.subjects = {}
                           \/ Object[t].value.subjects \cap subjects # {}
             edges == EdgesWithin(graph, subjects)
             E == {<<Author(t), Object[t].to>> :
                      t \in {t \in Annotations(graph, "trusts") : applies(t)}}
             w == Propagated(Viewpoint, edges)
  <2>1. PolicyOK(Viewpoint) /\ EdgesOK(edges)
    BY TrustInOrder DEF EdgesInOrder
  <2>2. \A t \in edges : t \in Annotations(graph, "trusts") /\ applies(t)
    BY DEF EdgesWithin, TrustEdges
  <2>3. \A t \in edges : <<Author(t), Object[t].to>> \in E
    BY <2>2
  <2>4. DOMAIN w = Weighed(Viewpoint, edges)
    BY <2>1, PropagatedConserves
  <2> HIDE DEF edges, E
  <2>5. \A k \in DOMAIN w : w[k] # 0 => \E r \in DOMAIN Viewpoint.roots : Reaches(E, r, k)
    BY <2>1, <2>3, <2>4, PropagatedReaches
  <2> QED BY <2>5 DEF Weights, edges, E
<1>3. EvidenceSpec => []GrowthInv
  BY GrowthInit, GrowthStep, PTL DEF EvidenceSpec
<1>4. GrowthInv => TrustEarned
  BY <1>1, <1>2 DEF TrustEarned
<1> QED BY <1>3, <1>4, PTL


----------------------------------------------------------------------------
(* What keys nobody vouches for can do to the weights, and so to standings. *)

\* What a key weighs, among weights that may not have reached it.
Worth(w, k) == IF k \in DOMAIN w THEN w[k] ELSE 0

\* What comes along an edge, likewise.
Handed(p, edges, w, t) ==
    Times(Times(Worth(w, Author(t)), Fraction(edges, t)), p.damping)

\* The edges to k from keys of U.
From(edges, U, k) == {t \in edges : Object[t].to = k /\ Author(t) \in U}

\* The seeds' part of a round.
Given(p, k) ==
    IF k \in DOMAIN p.roots
    THEN Times(MulDiv(p.roots[k], Scale, SumFunction(p.roots)), Scale - p.damping) ELSE 0

\* Where only keys of U weigh anything, a round is made of their edges alone.
LEMMA RoundOf ==
    ASSUME NEW p, PolicyOK(p), NEW edges, EdgesOK(edges), NEW U,
           NEW w \in [Weighed(p, edges) -> Nat],
           \A k : k \notin U => Worth(w, k) = 0, NEW k
    PROVE  Worth(Round(p, edges, w), k) =
           Given(p, k) + SumFunctionOnSet([t \in From(edges, U, k) |-> Handed(p, edges, w, t)],
                                          From(edges, U, k))
<1> DEFINE keys   == Weighed(p, edges)
           inner  == {t \in edges : Author(t) \in keys}
           along  == [t \in inner |-> Along(p, edges, w, t)]
           into   == {t \in inner : Object[t].to = k}
           from   == From(edges, U, k)
           handed == [t \in from |-> Handed(p, edges, w, t)]
           both   == into \cap from
           given  == Times(Seeds(p, edges)[k], Scale - p.damping)
           round  == Round(p, edges, w)
<1>0. DOMAIN round = keys /\ DOMAIN w = keys
  BY DEF Round
<1>1. CASE k \in keys
  <2>1. IsFiniteSet(into) /\ IsFiniteSet(from) /\ both \in SUBSET into /\ both \in SUBSET from
    BY FS_Subset DEF EdgesOK, From
  <2>2. \A t \in inner : along[t] \in Nat
    BY RoundIs
  <2>3. \A t \in into \ both : along[t] = 0
    <3> SUFFICES ASSUME NEW t \in into \ both PROVE along[t] = 0
      OBVIOUS
    <3>1. t \in edges /\ Author(t) \in keys /\ Author(t) \notin U
      BY DEF From
    <3>2. w[Author(t)] = 0
      BY <1>0, <3>1 DEF Worth
    <3> QED BY <3>1, <3>2, AlongNothing
  <2>4. \A t \in both : handed[t] = along[t]
    BY <1>0 DEF Handed, Along, Worth
  <2>5. \A t \in from \ both : handed[t] = 0
    <3> SUFFICES ASSUME NEW t \in from \ both PROVE handed[t] = 0
      OBVIOUS
    <3>1. t \in edges /\ Author(t) \notin keys
      BY DEF From
    <3>2. Worth(w, Author(t)) = 0
      BY <1>0, <3>1 DEF Worth
    <3>3. Fraction(edges, t) \in Nat
      BY <3>1, FractionsShared
    <3>4. Times(Worth(w, Author(t)), Fraction(edges, t)) = 0
      BY <3>2, <3>3, TimesNothing
    <3> QED BY <3>4, TimesNothing DEF Handed, PolicyOK
  <2>6. \A t \in both : along[t] \in Nat /\ handed[t] \in Nat
    BY <2>2, <2>4
  <2>7. round[k] = given + SumFunctionOnSet(along, into)
    BY <1>1, RoundIs
  <2>8. given = Given(p, k)
    <3>1. Scale - p.damping \in Nat
      BY EvidenceAssumption DEF PolicyOK
    <3> QED BY <1>1, <3>1, TimesNothing DEF Seeds, Given
  <2>9. IsFiniteSet(both)
    BY <2>1, FS_Subset
  <2> HIDE DEF into, from, handed, along, inner, keys, round, given
  <2>10. SumFunctionOnSet(along, into) = SumFunctionOnSet(along, both)
    BY <2>1, <2>3, <2>6, SumOfPart
  <2>11. SumFunctionOnSet(handed, from) = SumFunctionOnSet(handed, both)
    BY <2>1, <2>5, <2>6, SumOfPart
  <2>12. SumFunctionOnSet(along, both) = SumFunctionOnSet(handed, both)
    BY <2>4, <2>6, <2>9, SumOfSame
  <2>13. round[k] = Given(p, k) + SumFunctionOnSet(handed, from)
    BY <2>7, <2>8, <2>10, <2>11, <2>12
  <2>14. Worth(round, k) = round[k]
    BY <1>0, <1>1 DEF Worth
  <2> QED BY <2>13, <2>14 DEF round, handed, from
<1>2. CASE k \notin keys
  <2>1. from = {} /\ k \notin DOMAIN p.roots
    BY <1>2 DEF From, Weighed
  <2>2. SumFunctionOnSet(handed, from) = 0
    <3> HIDE DEF handed
    <3> QED BY <2>1, SumOfNone
  <2>3. Given(p, k) = 0
    BY <2>1 DEF Given
  <2> QED BY <1>0, <1>2, <2>2, <2>3 DEF Worth
<1> QED BY <1>1, <1>2

\* Two sets of edges that differ only in those of keys outside U, which
\* nobody in U vouches for, come to the same weights, round by round.
LEMMA SameWorth ==
    ASSUME NEW p, PolicyOK(p), NEW e, EdgesOK(e), NEW f, EdgesOK(f), NEW U,
           DOMAIN p.roots \subseteq U,
           \A t \in e \cup f : Author(t) \in U => Object[t].to \in U /\ t \in e /\ t \in f
    PROVE  \A k : /\ Worth(Propagated(p, e), k) = Worth(Propagated(p, f), k)
                  /\ k \notin U => Worth(Propagated(p, e), k) = 0
<1> DEFINE Alike(w, v) == \A k : /\ Worth(w, k) = Worth(v, k)
                                 /\ k \notin U => Worth(w, k) = 0
           V == [Weighed(p, e) -> Nat]
           W == [Weighed(p, f) -> Nat]
           N == p.iterations
<1>0. N \in Nat
  BY DEF PolicyOK
<1>1. \A k : From(e, U, k) = From(f, U, k) /\ (k \notin U => From(e, U, k) = {})
  BY DEF From
<1>2. ASSUME NEW k, NEW t \in From(e, U, k) PROVE Fraction(e, t) = Fraction(f, t)
  <2>1. Author(t) \in U
    BY DEF From
  <2>2. {u \in e : Author(u) = Author(t)} = {u \in f : Author(u) = Author(t)}
    BY <2>1
  <2> QED BY <2>2 DEF Fraction
<1>3. ASSUME NEW w \in V, NEW v \in W, Alike(w, v)
      PROVE  Alike(Round(p, e, w), Round(p, f, v))
  <2> SUFFICES ASSUME NEW k
               PROVE  /\ Worth(Round(p, e, w), k) = Worth(Round(p, f, v), k)
                      /\ k \notin U => Worth(Round(p, e, w), k) = 0
    OBVIOUS
  <2>1. \A x : x \notin U => Worth(w, x) = 0 /\ Worth(v, x) = 0
    BY <1>3
  <2>2. Worth(Round(p, e, w), k) =
           Given(p, k) + SumFunctionOnSet([t \in From(e, U, k) |-> Handed(p, e, w, t)], From(e, U, k))
    BY <2>1, RoundOf
  <2>3. Worth(Round(p, f, v), k) =
           Given(p, k) + SumFunctionOnSet([t \in From(f, U, k) |-> Handed(p, f, v, t)], From(f, U, k))
    BY <2>1, RoundOf
  <2>4. \A t \in From(e, U, k) : Handed(p, e, w, t) = Handed(p, f, v, t)
    BY <1>2, <1>3 DEF Handed
  <2>5. [t \in From(e, U, k) |-> Handed(p, e, w, t)] = [t \in From(f, U, k) |-> Handed(p, f, v, t)]
    BY <1>1, <2>4
  <2>6. ASSUME k \notin U PROVE Worth(Round(p, e, w), k) = 0
    <3>1. From(e, U, k) = {} /\ Given(p, k) = 0
      BY <1>1, <2>6 DEF Given
    <3>2. \A g : SumFunctionOnSet(g, {}) = 0
      BY SumOfNone
    <3> QED BY <2>2, <3>1, <3>2
  <2> QED BY <1>1, <2>2, <2>3, <2>5, <2>6
<1>4. Seeds(p, e) \in V /\ Seeds(p, f) \in W
  BY SeedsConserved
<1>5. Alike(Seeds(p, e), Seeds(p, f))
  <2> SUFFICES ASSUME NEW k
               PROVE  /\ Worth(Seeds(p, e), k) = Worth(Seeds(p, f), k)
                      /\ k \notin U => Worth(Seeds(p, e), k) = 0
    OBVIOUS
  <2> QED BY DEF Worth, Seeds, Weighed
<1>6. /\ \A w \in V : Round(p, e, w) \in V
      /\ \A w \in W : Round(p, f, w) \in W
  BY RoundIs
<1> HIDE DEF V, W, N, Alike
<1>7. PICK g \in [0..N -> V] : /\ g[0] = Seeds(p, e)
                               /\ \A n \in 1..N : g[n] = Round(p, e, g[n - 1])
                               /\ Propagated(p, e) = g[N]
  BY <1>0, <1>4, <1>6, PropagatedIs DEF N
<1>8. PICK h \in [0..N -> W] : /\ h[0] = Seeds(p, f)
                               /\ \A n \in 1..N : h[n] = Round(p, f, h[n - 1])
                               /\ Propagated(p, f) = h[N]
  BY <1>0, <1>4, <1>6, PropagatedIs DEF N
<1> DEFINE P == {n \in Nat : n <= N => Alike(g[n], h[n])}
<1>9. 0 \in P
  BY <1>5, <1>7, <1>8
<1>10. ASSUME NEW n \in Nat, n \in P PROVE n + 1 \in P
  <2>1. CASE n + 1 <= N
    <3>1. n + 1 \in 1..N /\ (n + 1) - 1 = n /\ n \in 0..N
      BY <1>0, <2>1
    <3>2. g[n + 1] = Round(p, e, g[n]) /\ h[n + 1] = Round(p, f, h[n])
      BY <1>7, <1>8, <3>1
    <3>3. Alike(g[n], h[n]) /\ g[n] \in V /\ h[n] \in W
      BY <1>10, <3>1
    <3>4. Alike(g[n + 1], h[n + 1])
      BY <1>3, <3>2, <3>3
    <3> QED BY <3>4
  <2> QED BY <2>1
<1> HIDE DEF P
<1>11. N \in P
  BY <1>0, <1>9, <1>10, InductionSet
<1>12. Alike(Propagated(p, e), Propagated(p, f))
  BY <1>0, <1>7, <1>8, <1>11 DEF P
<1> QED BY <1>12 DEF Alike


\* The weight of some keys is that of those of them that weigh anything.
LEMMA WeightIs ==
    ASSUME NEW K, IsFiniteSet(K), NEW D, NEW w \in [D -> Nat], NEW U,
           \A k : k \notin U => Worth(w, k) = 0
    PROVE  /\ WeightOf(K, w) = SumFunctionOnSet([k \in K \cap U |-> Worth(w, k)], K \cap U)
           /\ WeightOf(K, w) \in Nat
<1> DEFINE worth == [k \in K \cap U |-> Worth(w, k)]
           S == K \cap DOMAIN w
           T == K \cap U
           B == S \cap T
<1>1. IsFiniteSet(S) /\ IsFiniteSet(T) /\ IsFiniteSet(B) /\ B \in SUBSET S /\ B \in SUBSET T
  BY FS_Subset
<1>2. \A k \in S : w[k] \in Nat /\ (k \notin B => w[k] = 0)
  BY DEF Worth
<1>3. \A k \in T : worth[k] \in Nat /\ (k \notin B => worth[k] = 0)
  BY DEF Worth
<1>4. \A k \in B : w[k] \in Nat /\ w[k] = worth[k]
  BY DEF Worth
<1>5. WeightOf(K, w) = SumFunctionOnSet(w, S)
  BY DEF WeightOf
<1> HIDE DEF worth, S, T, B
<1>6. SumFunctionOnSet(w, S) = SumFunctionOnSet(w, B)
  BY <1>1, <1>2, SumOfPart
<1>7. SumFunctionOnSet(worth, T) = SumFunctionOnSet(worth, B)
  BY <1>1, <1>3, SumOfPart
<1>8. SumFunctionOnSet(w, B) = SumFunctionOnSet(worth, B) /\ SumFunctionOnSet(w, B) \in Nat
  BY <1>1, <1>4, SumOfSame, SumType
<1> QED BY <1>5, <1>6, <1>7, <1>8 DEF worth, T

\* Sets of keys that differ only in keys that weigh nothing weigh the same.
LEMMA WeighAlike ==
    ASSUME NEW K, IsFiniteSet(K), NEW L, IsFiniteSet(L), NEW U, K \cap U = L \cap U,
           NEW D, NEW w \in [D -> Nat], NEW E, NEW v \in [E -> Nat],
           \A k : Worth(w, k) = Worth(v, k) /\ (k \notin U => Worth(w, k) = 0)
    PROVE  WeightOf(K, w) = WeightOf(L, v)
<1>1. /\ \A k : k \notin U => Worth(w, k) = 0
      /\ \A k : k \notin U => Worth(v, k) = 0
  OBVIOUS
<1>2. WeightOf(K, w) = SumFunctionOnSet([k \in K \cap U |-> Worth(w, k)], K \cap U)
  BY <1>1, WeightIs
<1>3. WeightOf(L, v) = SumFunctionOnSet([k \in L \cap U |-> Worth(v, k)], L \cap U)
  BY <1>1, WeightIs
<1>4. [k \in K \cap U |-> Worth(w, k)] = [k \in L \cap U |-> Worth(v, k)]
  OBVIOUS
<1> QED BY <1>2, <1>3, <1>4

\* What takes nothing back leaves what is retracted as it was.
LEMMA RetractedAlike ==
    ASSUME NEW G, NEW c, ~Withdraws(G, c), NEW x \in G
    PROVE  IsRetracted(G \cup {c}, x) <=> IsRetracted(G, x)
<1>1. IsRetracted(G, x) => IsRetracted(G \cup {c}, x)
  BY RetractedStays
<1> QED BY <1>1, NotWithdrawn

\* Who is tied to whom is said by annotations of two kinds.
LEMMA TiedAlike ==
    ASSUME NEW G, NEW H, Annotations(H, "attests") = Annotations(G, "attests"),
           Annotations(H, "affiliated") = Annotations(G, "affiliated"), NEW r, NEW s
    PROVE  Tied(H, r, s) <=> Tied(G, r, s)
BY DEF Tied, SamePerson, SharesAffiliation, AnnotationsOf

\* Nor do the same claims come from other parties.
LEMMA PartiesAlike ==
    ASSUME NEW G, NEW H, Annotations(H, "attests") = Annotations(G, "attests"),
           Annotations(H, "affiliated") = Annotations(G, "affiliated"), NEW filed
    PROVE  Parties(H, filed) = Parties(G, filed)
<1>1. {e \in filed \X filed : Tied(H, e[1], e[2])} = {e \in filed \X filed : Tied(G, e[1], e[2])}
  BY TiedAlike
<1> QED BY <1>1 DEF Parties

\* Who is vouched for vouches for no one else.
LEMMA VouchedClosed ==
    ASSUME NEW p, NEW G, NEW t \in Annotations(G, "trusts"), Author(t) \in Vouched(p, G)
    PROVE  Object[t].to \in Vouched(p, G)
<1> DEFINE E == {<<Author(u), Object[u].to>> : u \in Annotations(G, "trusts")}
           there == <<Author(t), Object[t].to>>
<1>1. PICK k \in DOMAIN p.roots : Author(t) \in Reachable(E, k)
  BY DEF Vouched
<1>2. there \in E /\ there[1] = Author(t) /\ there[2] = Object[t].to
  OBVIOUS
<1> HIDE DEF E, there
<1>3. Reaches(E, there[1], there[2])
  BY <1>2, ReachesNext
<1>4. Reaches(E, k, there[2])
  BY <1>1, <1>2, <1>3, ReachesOn DEF Reachable
<1>5. there[2] \in Ends(E, k)
  BY <1>2 DEF Ends
<1>6. there[2] \in Reachable(E, k)
  BY <1>4, <1>5 DEF Reachable
<1> QED BY <1>2, <1>6 DEF Vouched, E

\* Who has a say on a claim are finitely many.
LEMMA SayersFinite ==
    ASSUME NEW G, IsFiniteSet(G), NEW o
    PROVE  /\ \A finding : IsFiniteSet(Signers(G, o, finding))
           /\ IsFiniteSet(Arguing(G, o))
<1> DEFINE by == [x \in G |-> Author(x)]
           authors == {by[x] : x \in DOMAIN by}
<1>1. DOMAIN by = G
  OBVIOUS
<1>2. authors = {Author(x) : x \in G}
  OBVIOUS
<1> HIDE DEF by
<1>3. IsFiniteSet(authors)
  BY <1>1, ImageFinite
<1>4. /\ \A finding : Signers(G, o, finding) \subseteq authors
      /\ Arguing(G, o) \subseteq authors
  BY <1>2 DEF Signers, Arguing, AnnotationsOf, Annotations, Of
<1> HIDE DEF authors
<1> QED BY <1>3, <1>4, FS_Subset


\* Evidence that differs only in what keys outside U say.
SaidAlike(U, e, f) ==
    /\ f.affirm \cap U = e.affirm \cap U
    /\ f.deny \cap U = e.deny \cap U
    /\ f.argued \cap U = e.argued \cap U
    /\ f.proved <=> e.proved
    /\ f.consistent = e.consistent
    /\ f.inconsistent = e.inconsistent
    /\ f.repeats = e.repeats
    /\ f.retracted <=> e.retracted

\* The opinion of a key nobody vouches for adds nothing to who has a say with
\* any weight.
LEMMA StrangersSayNothing ==
    ASSUME NEW G \in SUBSET Cid, NEW c \in Cid \ G, Opinion(c), ~Withdraws(G, c),
           NEW U, Author(c) \notin U, NEW o \in G
    PROVE  /\ SubjectsOf(G \cup {c}, o) = SubjectsOf(G, o)
           /\ SaidAlike(U, EvidenceFor(G, o), EvidenceFor(G \cup {c}, o))
<1> DEFINE H == G \cup {c}
           e == EvidenceFor(G, o)
           f == EvidenceFor(H, o)
<1>1. \A kind : kind \notin {"verdict", "trusts"} => Annotations(H, kind) = Annotations(G, kind)
  BY DEF Annotations, Of, Opinion
<1>2. Of(H, "key") = Of(G, "key")
  BY DEF Of, Opinion
<1>3. \A x \in G : IsRetracted(H, x) <=> IsRetracted(G, x)
  BY RetractedAlike
<1>4. SubjectsOf(H, o) = SubjectsOf(G, o)
  <2>1. AnnotationsOf(H, "classifies", o) = AnnotationsOf(G, "classifies", o)
    BY <1>1 DEF AnnotationsOf
  <2>2. \A x \in AnnotationsOf(G, "classifies", o) : x \in G
    BY DEF AnnotationsOf, Annotations, Of
  <2> QED BY <1>3, <2>1, <2>2 DEF SubjectsOf
<1>5. \A finding : Signers(H, o, finding) \cap U = Signers(G, o, finding) \cap U
  <2> SUFFICES ASSUME NEW finding, NEW k \in U
               PROVE  k \in Signers(H, o, finding) <=> k \in Signers(G, o, finding)
    OBVIOUS
  <2> QED BY DEF Signers, AnnotationsOf, Annotations, Of
<1>6. SettledGrounds(H, o) = SettledGrounds(G, o)
  BY <1>1 DEF SettledGrounds, AnnotationsOf
<1>7. Arguing(H, o) \cap U = Arguing(G, o) \cap U
  <2>1. ASSUME NEW k \in U, k \in Arguing(H, o) PROVE k \in Arguing(G, o)
    <3>1. PICK d \in Of(H, "prose") : /\ <<d, o>> \in Edges(H, "disputes")
                                      /\ d \notin SettledGrounds(H, o) /\ k = Author(d)
      BY <2>1 DEF Arguing
    <3>2. d \in Of(G, "prose")
      BY <3>1 DEF Of
    <3>3. <<d, o>> \in Edges(G, "disputes")
      <4>1. PICK r \in Related(H, "disputes") : <<d, o>> = <<Object[r].from, Object[r].to>>
        BY <3>1 DEF Edges
      <4>2. r # c
        BY <3>1, <4>1 DEF Opinion, FromAnothers, Related, Of
      <4> QED BY <4>1, <4>2 DEF Edges, Related, Of
    <3> QED BY <1>6, <3>1, <3>2, <3>3 DEF Arguing
  <2>2. Arguing(G, o) \subseteq Arguing(H, o)
    BY <1>6, EdgesMore DEF Arguing, Of
  <2> QED BY <2>1, <2>2
<1>8. \A outcome : Eligible(H, o, outcome) = Eligible(G, o, outcome)
  BY <1>1, <1>2 DEF Eligible, AnnotationsOf, Human
<1>9. \A filed : Parties(H, filed) = Parties(G, filed)
  BY <1>1, PartiesAlike
<1>10. f.proved <=> e.proved
  BY <1>1 DEF EvidenceFor, AnnotationsOf
<1>11. f.retracted <=> e.retracted
  BY <1>3 DEF EvidenceFor
<1>12. f.consistent = e.consistent /\ f.inconsistent = e.inconsistent /\ f.repeats = e.repeats
  BY <1>8, <1>9 DEF EvidenceFor
<1>13. /\ f.affirm \cap U = e.affirm \cap U
       /\ f.deny \cap U = e.deny \cap U
       /\ f.argued \cap U = e.argued \cap U
  BY <1>5, <1>7 DEF EvidenceFor
<1> QED BY <1>4, <1>10, <1>11, <1>12, <1>13 DEF SaidAlike

\* Two bodies of evidence that weigh the same give the same standing.
LEMMA OutcomeAlike ==
    ASSUME NEW p, NEW class, NEW e, NEW f, f.proved <=> e.proved,
           f.consistent = e.consistent, f.inconsistent = e.inconsistent,
           f.repeats = e.repeats, f.retracted <=> e.retracted,
           NEW affirm, NEW deny, NEW delta
    PROVE  Outcome(p, class, f, affirm, deny, delta) = Outcome(p, class, e, affirm, deny, delta)
<1>1. ReplicationOk(p, class, f) <=> ReplicationOk(p, class, e)
  BY DEF ReplicationOk
<1>2. ByWeight(p, class, f, affirm, deny, delta) = ByWeight(p, class, e, affirm, deny, delta)
  BY <1>1 DEF ByWeight
<1> QED BY <1>2 DEF Outcome

\* A stranger's edges of trust are nobody else's.
LEMMA StrangersEdges ==
    ASSUME NEW G \in SUBSET Cid, NEW c \in Cid \ G, NEW p,
           Author(c) \notin Vouched(p, G \cup {c}), NEW subjects
    PROVE  LET H == G \cup {c}
               e == EdgesWithin(G, subjects)
               f == EdgesWithin(H, subjects)
           IN  \A t \in e \cup f : Author(t) \in Vouched(p, H) =>
                    Object[t].to \in Vouched(p, H) /\ t \in e /\ t \in f
<1> DEFINE H == G \cup {c}
           e == EdgesWithin(G, subjects)
           f == EdgesWithin(H, subjects)
           U == Vouched(p, H)
<1> SUFFICES ASSUME NEW t \in e \cup f, Author(t) \in U
             PROVE  Object[t].to \in U /\ t \in e /\ t \in f
  OBVIOUS
<1>1. t \in Annotations(H, "trusts") /\ t # c
  BY DEF EdgesWithin, TrustEdges, Annotations, Of
<1>2. Object[t].to \in U
  BY <1>1, VouchedClosed
<1>3. \A u : (u \in AnnotationsOf(H, "trusts", Object[t].to) /\ Author(u) = Author(t)) <=>
             (u \in AnnotationsOf(G, "trusts", Object[t].to) /\ Author(u) = Author(t))
  BY DEF AnnotationsOf, Annotations, Of
<1>4. t \in Annotations(G, "trusts")
  BY <1>1 DEF Annotations, Of
<1>5. t \in TrustEdges(G) <=> t \in TrustEdges(H)
  <2> HIDE DEF U
  <2> QED BY <1>1, <1>3, <1>4 DEF TrustEdges
<1> QED BY <1>2, <1>5 DEF EdgesWithin

\* Keys someone with standing vouches for include the roots.
LEMMA RootsVouched ==
    ASSUME NEW p, NEW G
    PROVE  DOMAIN p.roots \subseteq Vouched(p, G)
<1> SUFFICES ASSUME NEW k \in DOMAIN p.roots PROVE k \in Vouched(p, G)
  OBVIOUS
<1> DEFINE E == {<<Author(t), Object[t].to>> : t \in Annotations(G, "trusts")}
<1>1. k \in Reachable(E, k)
  BY ReachesItself DEF Reachable, Ends
<1> QED BY <1>1 DEF Vouched


\* What a stranger has to say moves no standing.
LEMMA StrangersMoveNone ==
    ASSUME GrowthInv, policy # None, NEW c \in Cid \ graph, EdgesInOrder(graph \cup {c}),
           Opinion(c), ~Withdraws(graph, c),
           Author(c) \notin Vouched(Viewpoint, graph \cup {c}), NEW o \in graph
    PROVE  Standing(Viewpoint, graph \cup {c}, o) = Standing(Viewpoint, graph, o)
<1> DEFINE G == graph
           H == graph \cup {c}
           p == Viewpoint
           U == Vouched(p, H)
           class == Object[o].kind
           e == EvidenceFor(G, o)
           f == EvidenceFor(H, o)
           subjects == SubjectsOf(G, o)
           d == EdgesWithin(G, subjects)
           b == EdgesWithin(H, subjects)
           w == Propagated(p, d)
           v == Propagated(p, b)
<1>1. PolicyOK(p) /\ EdgesOK(d) /\ EdgesOK(b)
  BY TrustInOrder DEF EdgesInOrder
<1>2. G \in SUBSET Cid /\ IsFiniteSet(G) /\ IsFiniteSet(H)
  BY FS_AddElement DEF GrowthInv, GraphOK
<1>3. DOMAIN p.roots \subseteq U
  BY RootsVouched
<1>4. \A t \in d \cup b : Author(t) \in U => Object[t].to \in U /\ t \in d /\ t \in b
  BY <1>2, StrangersEdges
<1> HIDE DEF d, b, U
<1>5. \A k : Worth(w, k) = Worth(v, k) /\ (k \notin U => Worth(w, k) = 0)
  BY <1>1, <1>3, <1>4, SameWorth
<1>6. w \in [Weighed(p, d) -> Nat] /\ v \in [Weighed(p, b) -> Nat]
  BY <1>1, PropagatedConserves
<1>7. SubjectsOf(H, o) = subjects /\ SaidAlike(U, e, f)
  BY <1>2, StrangersSayNothing DEF U
<1>8. /\ IsFiniteSet(e.affirm) /\ IsFiniteSet(e.deny) /\ IsFiniteSet(e.argued)
      /\ IsFiniteSet(f.affirm) /\ IsFiniteSet(f.deny) /\ IsFiniteSet(f.argued)
  BY <1>2, SayersFinite DEF EvidenceFor
<1>9. /\ WeightOf(f.affirm, v) = WeightOf(e.affirm, w)
      /\ WeightOf(f.deny, v) = WeightOf(e.deny, w)
      /\ WeightOf(f.argued, v) = WeightOf(e.argued, w)
  <2> HIDE DEF e, f, w, v
  <2> QED BY <1>5, <1>6, <1>7, <1>8, WeighAlike DEF SaidAlike
<1>10. Standing(p, H, o) = Evaluate(p, class, f, v)
  BY <1>7 DEF Standing, Weights, b
<1>11. Standing(p, G, o) = Evaluate(p, class, e, w)
  BY DEF Standing, Weights, d
<1>12. Evaluate(p, class, f, v) = Evaluate(p, class, e, w)
  <2> DEFINE affirm == WeightOf(e.affirm, w)
             deny   == WeightOf(e.deny, w)
             delta  == Delta(p, affirm, WeightOf(e.argued, w))
  <2>1. Evaluate(p, class, f, v) = Outcome(p, class, f, affirm, deny, delta)
    BY <1>9 DEF Evaluate
  <2>2. Evaluate(p, class, e, w) = Outcome(p, class, e, affirm, deny, delta)
    BY DEF Evaluate
  <2> HIDE DEF e, f, w, v, affirm, deny, delta, class
  <2>3. Outcome(p, class, f, affirm, deny, delta) = Outcome(p, class, e, affirm, deny, delta)
    BY <1>7, OutcomeAlike DEF SaidAlike
  <2> QED BY <2>1, <2>2, <2>3
<1> QED BY <1>10, <1>11, <1>12


----------------------------------------------------------------------------
(* What support that comes late can do to a standing.                      *)

\* A number that goes into another is at most the quotient.
LEMMA GoesInto ==
    ASSUME NEW n \in Nat, NEW m \in Nat, m # 0, NEW q \in Nat, m * q <= n
    PROVE  q <= n \div m
<1> DEFINE t == n \div m
<1>1. t \in Nat /\ n < m * (t + 1)
  OBVIOUS
<1> HIDE DEF t
<1>2. ~(q >= t + 1)
  <2> SUFFICES ASSUME q >= t + 1 PROVE FALSE
    OBVIOUS
  <2>1. m * q >= m * (t + 1)
    BY <1>1
  <2>2. m * q \in Nat /\ m * (t + 1) \in Nat
    BY <1>1
  <2> QED BY <1>1, <2>1, <2>2
<1>3. q <= t
  BY <1>1, <1>2
<1> QED BY <1>3 DEF t

\* A share of m grows with what it is the share of.
LEMMA ShareGrows ==
    ASSUME NEW a \in Nat, NEW x \in Nat, NEW d \in Nat, NEW m \in Nat
    PROVE  MulDiv(m, a, a + d) <= MulDiv(m, a + x, (a + x) + d)
<1> DEFINE b == a + x
           q == MulDiv(m, a, a + d)
<1>0. b \in Nat /\ a + d \in Nat /\ b + d \in Nat
  OBVIOUS
<1>1. q \in Nat /\ (a + d) * q <= m * a /\ MulDiv(m, b, b + d) \in Nat
  BY <1>0, MulDivIs
<1>2. CASE a + d = 0
  BY <1>1, <1>2 DEF MulDiv
<1>3. CASE a + d # 0
  <2> HIDE DEF q
  <2>1. q <= m
    <3>1. m * a <= m * (a + d)
      OBVIOUS
    <3>2. m * (a + d) = (a + d) * m
      OBVIOUS
    <3> DEFINE k == a + d
    <3>3. k \in Nat /\ k # 0 /\ k * q <= k * m
      <4>1. (a + d) * q \in Nat /\ m * a \in Nat /\ (a + d) * m \in Nat
        BY <1>1
      <4> QED BY <1>1, <1>3, <3>1, <3>2, <4>1
    <3> HIDE DEF k
    <3> QED BY <1>1, <3>3
  <2>2. q * x <= m * x
    BY <1>1, <2>1
  <2>3. (b + d) * q = (a + d) * q + q * x
    BY <1>1
  <2>4. m * b = m * a + m * x
    OBVIOUS
  <2>5. (b + d) * q <= m * b
    <3>1. (a + d) * q \in Nat /\ q * x \in Nat /\ m * a \in Nat /\ m * x \in Nat
      BY <1>1
    <3> HIDE DEF b
    <3> QED BY <1>1, <2>2, <2>3, <2>4, <3>1
  <2>6. m * b \in Nat /\ b + d # 0
    BY <1>3
  <2> HIDE DEF b
  <2>7. q <= (m * b) \div (b + d)
    BY <1>0, <1>1, <2>5, <2>6, GoesInto
  <2>8. MulDiv(m, b, b + d) = (m * b) \div (b + d)
    BY <2>6 DEF MulDiv
  <2> QED BY <2>7, <2>8 DEF q, b
<1> QED BY <1>2, <1>3

\* A share shrinks as what it is shared with grows.
LEMMA ShareShrinks ==
    ASSUME NEW r \in Nat, NEW a \in Nat, NEW x \in Nat, NEW m \in Nat
    PROVE  MulDiv(m, r, (a + x) + r) <= MulDiv(m, r, a + r)
<1> DEFINE b == a + x
           q == MulDiv(m, r, b + r)
<1>0. b \in Nat /\ a + r \in Nat /\ b + r \in Nat /\ m * r \in Nat
  OBVIOUS
<1>1. q \in Nat /\ (b + r) * q <= m * r /\ MulDiv(m, r, a + r) \in Nat
  BY <1>0, MulDivIs
<1>2. CASE a + r = 0
  <2>1. r = 0 /\ m * r = 0
    BY <1>2
  <2>2. q = 0
    <3>1. CASE b + r = 0
      BY <3>1 DEF MulDiv
    <3>2. CASE b + r # 0
      BY <1>0, <2>1, <3>2 DEF MulDiv
    <3> QED BY <3>1, <3>2
  <2> QED BY <1>1, <2>2
<1>3. CASE a + r # 0
  <2> HIDE DEF q
  <2>1. (a + r) * q <= m * r
    <3>1. (b + r) * q = (a + r) * q + x * q
      BY <1>1
    <3>2. (a + r) * q \in Nat /\ x * q \in Nat
      BY <1>1
    <3> HIDE DEF b
    <3> QED BY <1>0, <1>1, <3>1, <3>2
  <2>2. q <= (m * r) \div (a + r)
    BY <1>0, <1>1, <1>3, <2>1, GoesInto
  <2>3. MulDiv(m, r, a + r) = (m * r) \div (a + r)
    BY <1>3 DEF MulDiv
  <2> QED BY <2>2, <2>3 DEF q, b
<1> QED BY <1>2, <1>3

\* The divergence factor falls with affirmation and rises with argument.
LEMMA DeltaFalls ==
    ASSUME NEW p, p.deltaMax \in Nat, NEW a \in Nat, NEW x \in Nat, NEW r \in Nat, NEW y \in Nat
    PROVE  /\ Delta(p, a, r + y) \in Nat /\ Delta(p, a + x, r) \in Nat
           /\ Delta(p, a + x, r) <= Delta(p, a, r + y)
<1> DEFINE m == p.deltaMax
           s == MulDiv(m, r, (a + x) + r)
           t == MulDiv(m, r + y, a + (r + y))
<1>1. MulDiv(m, r, (a + x) + r) <= MulDiv(m, r, a + r)
  BY ShareShrinks
<1>2. MulDiv(m, r, r + a) <= MulDiv(m, r + y, (r + y) + a)
  BY ShareGrows
<1>3. r + a = a + r /\ (r + y) + a = a + (r + y)
  OBVIOUS
<1>4. s \in Nat /\ t \in Nat /\ MulDiv(m, r, a + r) \in Nat
  <2>1. /\ m \in Nat /\ r + y \in Nat /\ a + r \in Nat
        /\ (a + x) + r \in Nat /\ a + (r + y) \in Nat
    OBVIOUS
  <2> HIDE DEF m
  <2> QED BY <2>1, MulDivIs
<1>5. s <= t
  BY <1>1, <1>2, <1>3, <1>4
<1>6. ASSUME NEW v \in Nat PROVE Min({m, v}) = IF m <= v THEN m ELSE v
  <2> DEFINE least == IF m <= v THEN m ELSE v
  <2>1. least \in {m, v} /\ \A z \in {m, v} : least <= z
    OBVIOUS
  <2>2. \A z \in {m, v} : (\A u \in {m, v} : z <= u) => z = least
    OBVIOUS
  <2> QED BY <2>1, <2>2 DEF Min
<1>7. Delta(p, a + x, r) = Min({m, s}) /\ Delta(p, a, r + y) = Min({m, t})
  BY DEF Delta
<1> HIDE DEF s, t
<1> QED BY <1>4, <1>5, <1>6, <1>7

\* Acceptance by weight stands when the denials are the same, there is no
\* less affirmation and no more argument: the two shares cannot both be more
\* than half.
LEMMA AcceptanceStands ==
    ASSUME NEW p, p.tau \in Nat, 2 * p.tau > Scale, NEW class, NEW e, NEW f,
           ReplicationOk(p, class, f),
           NEW a \in Nat, NEW b \in Nat, a <= b, NEW d \in Nat, NEW delta \in Nat, NEW less \in Nat,
           less <= delta, ByWeight(p, class, e, a, d, delta) = "accepted"
    PROVE  ByWeight(p, class, f, b, d, less) = "accepted"
<1> DEFINE total == a + d
           more  == b + d
           A     == Ratio(a, total)
           B     == Ratio(b, more)
           D     == Ratio(d, more)
<1>0. Scale \in Nat /\ Scale # 0 /\ total \in Nat /\ more \in Nat
  BY EvidenceAssumption
<1>1. total # 0 /\ A >= p.tau + delta
  BY DEF ByWeight
<1>2. more # 0
  BY <1>1
<1>3. A <= B
  <2>1. Scale * a = a * Scale /\ Scale * b = b * Scale
    BY <1>0
  <2>2. A = MulDiv(Scale, a, total) /\ B = MulDiv(Scale, b, more)
    BY <2>1 DEF Ratio, MulDiv
  <2>3. PICK x \in Nat : b = a + x
    <3>1. b - a \in Nat /\ b = a + (b - a)
      OBVIOUS
    <3> QED BY <3>1
  <2>4. MulDiv(Scale, a, a + d) <= MulDiv(Scale, a + x, (a + x) + d)
    BY <1>0, ShareGrows
  <2>5. MulDiv(Scale, a, a + d) <= MulDiv(Scale, b, b + d)
    BY <2>3, <2>4
  <2> QED BY <2>2, <2>5
<1>4. /\ A \in Nat /\ B \in Nat /\ D \in Nat
      /\ more * B <= b * Scale /\ more * D <= d * Scale
  BY <1>0, MulDivIs DEF Ratio
<1>5. b * Scale + d * Scale = more * Scale
  BY <1>0
<1> HIDE DEF total, more, A, B, D
<1>6. more * (B + D) <= more * Scale
  <2>1. more * (B + D) = more * B + more * D
    BY <1>0, <1>4
  <2>2. more * B \in Nat /\ more * D \in Nat /\ b * Scale \in Nat /\ d * Scale \in Nat
    BY <1>0, <1>4
  <2> QED BY <1>4, <1>5, <2>1, <2>2
<1>7. B + D <= Scale
  BY <1>0, <1>2, <1>4, <1>6
<1>8. B >= p.tau + less
  BY <1>1, <1>3, <1>4
<1>9. D < p.tau + less
  BY <1>0, <1>4, <1>7, <1>8
<1>10. ByWeight(p, class, f, b, d, less) =
          (CASE more = 0                       -> "undetermined"
             [] more # 0 /\ D >= p.tau + less  -> "rejected"
             [] more # 0 /\ D < p.tau + less /\ B >= p.tau + less ->
                   IF ReplicationOk(p, class, f) THEN "accepted" ELSE "unreplicated"
             [] OTHER                          -> "contested")
  BY DEF ByWeight, D, B, more
<1>11. ByWeight(p, class, f, b, d, less) = "accepted"
  <2>1. ~(D >= p.tau + less)
    BY <1>4, <1>9
  <2> QED BY <1>1, <1>2, <1>8, <1>9, <1>10, <2>1
<1> QED BY <1>11


\* More keys weigh no less.
LEMMA WeightMore ==
    ASSUME NEW L, IsFiniteSet(L), NEW K \in SUBSET L, NEW D, NEW w \in [D -> Nat]
    PROVE  WeightOf(K, w) \in Nat /\ \E x \in Nat : WeightOf(L, w) = WeightOf(K, w) + x
<1> DEFINE S == K \cap DOMAIN w
           T == (L \cap DOMAIN w) \ S
<1>1. IsFiniteSet(S) /\ IsFiniteSet(T) /\ S \cap T = {} /\ S \cup T = L \cap DOMAIN w
  BY FS_Subset
<1>2. \A k \in S \cup T : w[k] \in Nat
  OBVIOUS
<1>3. WeightOf(K, w) = SumFunctionOnSet(w, S) /\ WeightOf(L, w) = SumFunctionOnSet(w, S \cup T)
  BY <1>1 DEF WeightOf
<1> HIDE DEF S, T
<1>4. SumFunctionOnSet(w, S) \in Nat /\ SumFunctionOnSet(w, T) \in Nat
  BY <1>1, <1>2, SumType
<1>5. SumFunctionOnSet(w, S \cup T) = SumFunctionOnSet(w, S) + SumFunctionOnSet(w, T)
  BY <1>1, <1>2, SumOverBoth
<1> QED BY <1>3, <1>4, <1>5

\* Who is tied to whom among what was filed.
Ties(G, filed) == {e \in filed \X filed : Tied(G, e[1], e[2])}

\* Whoever is reached through ties is of the same party.
LEMMA ReachedAreOne ==
    ASSUME NEW G, NEW filed, NEW r \in filed, NEW s, Reaches(Ties(G, filed), r, s)
    PROVE  Reachable(Ties(G, filed), r) = Reachable(Ties(G, filed), s)
<1> DEFINE ties == Ties(G, filed)
           S == {x \in filed : Reachable(ties, r) = Reachable(ties, x)}
<1>1. Closed(S, ties)
  <2> SUFFICES ASSUME NEW e \in ties, e[1] \in S PROVE e[2] \in S
    BY DEF Closed
  <2>1. e[1] \in filed /\ e[2] \in filed /\ Tied(G, e[1], e[2])
    BY DEF Ties
  <2>2. Reachable(ties, e[1]) = Reachable(ties, e[2])
    BY <2>1, TiedAreOne DEF Ties
  <2> QED BY <2>1, <2>2
<1>2. r \in S
  OBVIOUS
<1> HIDE DEF S
<1>3. s \in S
  BY <1>1, <1>2, ReachesMeaning
<1> QED BY <1>3 DEF S

\* One more reproduction, tied to one other at most, makes parties no fewer.
LEMMA PartiesGrow ==
    ASSUME NEW G, NEW filed, IsFiniteSet(filed), NEW c, c \notin filed,
           \A s, t \in filed : Tied(G, c, s) /\ Tied(G, c, t) => s = t
    PROVE  Parties(G, filed) <= Parties(G, filed \cup {c})
<1> DEFINE more   == filed \cup {c}
           ties   == Ties(G, filed)
           links  == Ties(G, more)
           party  == [r \in filed |-> Reachable(ties, r)]
           group  == [r \in more |-> Reachable(links, r)]
           parties == {party[r] : r \in DOMAIN party}
           groups  == {group[r] : r \in DOMAIN group}
           first  == [P \in parties |-> CHOOSE r \in filed : party[r] = P]
           into   == [P \in parties |-> group[first[P]]]
<1>1. ASSUME NEW r \in filed, NEW s \in filed, Reaches(links, r, s) PROVE Reaches(ties, r, s)
  <2> DEFINE T == {x \in filed : Reaches(ties, r, x)}
             S == T \cup {x \in {c} : \E u \in T : Tied(G, u, c)}
  <2>1. Closed(S, links)
    <3> SUFFICES ASSUME NEW e \in links, e[1] \in S PROVE e[2] \in S
      BY DEF Closed
    <3>1. e[1] \in more /\ e[2] \in more /\ Tied(G, e[1], e[2])
      BY DEF Ties
    <3>2. CASE e[1] \in T /\ e[2] \in filed
      <4>1. e \in ties
        BY <3>2 DEF Ties
      <4>2. Reaches(ties, e[1], e[2])
        <5> HIDE DEF ties
        <5> QED BY <4>1, ReachesNext
      <4>3. Reaches(ties, r, e[2])
        BY <3>2, <4>2, ReachesOn
      <4> QED BY <3>2, <4>3
    <3>3. CASE e[1] \in T /\ e[2] = c
      BY <3>1, <3>3
    <3>4. CASE e[1] = c /\ e[2] \in filed
      <4>1. PICK u \in T : Tied(G, u, c)
        BY <3>4
      <4>2. Tied(G, c, u)
        BY <4>1 DEF Tied, SamePerson, SharesAffiliation, Overlap
      <4>3. u = e[2]
        BY <3>1, <3>4, <4>2
      <4> QED BY <4>1, <4>3
    <3>5. CASE e[1] = c /\ e[2] = c
      BY <3>5
    <3> QED BY <3>1, <3>2, <3>3, <3>4, <3>5
  <2>2. r \in S
    BY ReachesItself
  <2> HIDE DEF S, links
  <2>3. s \in S
    BY <1>1, <2>1, <2>2, ReachesMeaning
  <2> QED BY <2>3 DEF S
<1>2. ASSUME NEW r \in filed, NEW s \in filed, group[r] = group[s] PROVE party[r] = party[s]
  <2>1. s \in Reachable(links, s)
    BY ReachesItself DEF Reachable, Ends
  <2>2. Reaches(links, r, s)
    BY <1>2, <2>1 DEF Reachable
  <2>3. Reaches(ties, r, s)
    BY <1>1, <2>2
  <2>4. Reachable(ties, r) = Reachable(ties, s)
    BY <2>3, ReachedAreOne
  <2> QED BY <2>4
<1>3. Parties(G, filed) = Cardinality(parties) /\ Parties(G, more) = Cardinality(groups)
  <2>1. parties = {Reachable(ties, r) : r \in filed} /\ groups = {Reachable(links, r) : r \in more}
    OBVIOUS
  <2> QED BY <2>1 DEF Parties, Ties
<1>4. DOMAIN party = filed /\ DOMAIN group = more /\ IsFiniteSet(more)
  BY FS_AddElement
<1> HIDE DEF party, group
<1>5. IsFiniteSet(groups)
  BY <1>4, ImageFinite
<1>6. \A P \in parties : first[P] \in filed /\ party[first[P]] = P
  BY <1>4
<1>7. into \in Injection(parties, groups)
  <2>1. into \in [parties -> groups]
    BY <1>4, <1>6
  <2>2. DOMAIN into = parties
    OBVIOUS
  <2>3. \A P \in parties : into[P] = group[first[P]]
    OBVIOUS
  <2> HIDE DEF into, first, parties, groups
  <2>4. \A P, Q \in parties : into[P] = into[Q] => P = Q
    BY <1>2, <1>6, <2>3
  <2> QED BY <2>1, <2>2, <2>4 DEF Injection, IsInjective
<1> HIDE DEF parties, groups, into
<1>8. Cardinality(parties) <= Cardinality(groups)
  BY <1>5, <1>7, FS_Injection
<1> QED BY <1>3, <1>8

\* What is counted is a number.
LEMMA EvidenceCounts ==
    ASSUME NEW G, IsFiniteSet(G), NEW o
    PROVE  EvidenceFor(G, o).consistent \in Nat
<1> DEFINE filed == Eligible(G, o, "consistent")
<1>1. IsFiniteSet(filed)
  <2>1. filed \subseteq G
    BY DEF Eligible, AnnotationsOf, Annotations, Of
  <2> QED BY <2>1, FS_Subset
<1> HIDE DEF filed
<1>2. PICK S \in SUBSET filed : Cardinality(S) = Parties(G, filed)
  BY <1>1, OneOfEach
<1>3. Parties(G, filed) \in Nat
  BY <1>1, <1>2, FS_Subset, FS_CardinalityType
<1> QED BY <1>3 DEF EvidenceFor, filed

\* Evidence with more for the claim and no more against it.
SaidMore(e, f) ==
    /\ e.affirm \subseteq f.affirm /\ f.deny = e.deny /\ f.argued \subseteq e.argued
    /\ e.proved => f.proved
    /\ e.consistent <= f.consistent /\ f.inconsistent = e.inconsistent
    /\ f.repeats = e.repeats
    /\ f.retracted <=> e.retracted

\* What support adds to the evidence for a claim, and what it leaves alone.
LEMMA SupportSays ==
    ASSUME NEW G \in SUBSET Cid, IsFiniteSet(G), NEW c \in Cid \ G, NEW o \in G,
           Supports(G, c, o), ~Withdraws(G, c)
    PROVE  /\ SubjectsOf(G \cup {c}, o) = SubjectsOf(G, o)
           /\ TrustEdges(G \cup {c}) = TrustEdges(G)
           /\ SaidMore(EvidenceFor(G, o), EvidenceFor(G \cup {c}, o))
           /\ EvidenceFor(G, o).consistent \in Nat
<1> DEFINE H == G \cup {c}
           e == EvidenceFor(G, o)
           f == EvidenceFor(H, o)
<1>1. /\ \A type : type # "annotation" => Of(H, type) = Of(G, type)
      /\ \A kind : kind \notin {"verdict", "resolution", "settled"} =>
            Annotations(H, kind) = Annotations(G, kind)
  BY DEF Annotations, Of, Supports
<1>2. \A kind : AnnotationsOf(G, kind, o) \subseteq AnnotationsOf(H, kind, o)
  BY DEF AnnotationsOf, Annotations, Of
<1>3. \A x \in G : IsRetracted(H, x) <=> IsRetracted(G, x)
  BY RetractedAlike
<1>4. SubjectsOf(H, o) = SubjectsOf(G, o)
  <2>1. AnnotationsOf(H, "classifies", o) = AnnotationsOf(G, "classifies", o)
    BY <1>1 DEF AnnotationsOf
  <2>2. \A x \in AnnotationsOf(G, "classifies", o) : x \in G
    BY DEF AnnotationsOf, Annotations, Of
  <2> QED BY <1>3, <2>1, <2>2 DEF SubjectsOf
<1>5. TrustEdges(H) = TrustEdges(G)
  <2>1. Annotations(H, "trusts") = Annotations(G, "trusts")
    BY <1>1
  <2>2. \A x : AnnotationsOf(H, "trusts", x) = AnnotationsOf(G, "trusts", x)
    BY <2>1 DEF AnnotationsOf
  <2> QED BY <2>1, <2>2 DEF TrustEdges
<1>6. e.affirm \subseteq f.affirm
  BY <1>2 DEF EvidenceFor, Signers
<1>7. f.deny = e.deny
  BY DEF EvidenceFor, Signers, AnnotationsOf, Annotations, Of, Supports
<1>8. f.argued \subseteq e.argued
  <2>1. SettledGrounds(G, o) \subseteq SettledGrounds(H, o)
    BY <1>2 DEF SettledGrounds
  <2>2. Edges(H, "disputes") = Edges(G, "disputes") /\ Of(H, "prose") = Of(G, "prose")
    BY <1>1 DEF Edges, Related
  <2> QED BY <2>1, <2>2 DEF EvidenceFor, Arguing
<1>9. e.proved => f.proved
  BY <1>2 DEF EvidenceFor
<1>10. \A x \in {"consistent", "inconsistent"} :
          Eligible(H, o, x) = Eligible(G, o, x) \/ Eligible(H, o, x) = Eligible(G, o, x) \cup {c}
  BY <1>1 DEF Eligible, AnnotationsOf, Annotations, Of, Human
<1>11. \A filed : Parties(H, filed) = Parties(G, filed)
  BY <1>1, PartiesAlike
<1>12. Eligible(H, o, "inconsistent") = Eligible(G, o, "inconsistent")
  BY <1>1 DEF Eligible, AnnotationsOf, Annotations, Of, Human, Supports
<1>13. e.consistent \in Nat
  BY EvidenceCounts
<1>14. e.consistent <= f.consistent
  <2> DEFINE filed == Eligible(G, o, "consistent")
  <2>1. IsFiniteSet(filed) /\ c \notin filed
    <3>1. filed \subseteq G
      BY DEF Eligible, AnnotationsOf, Annotations, Of
    <3> QED BY <3>1, FS_Subset
  <2>2. CASE Eligible(H, o, "consistent") = filed
    <3>1. f.consistent = e.consistent
      BY <1>11, <2>2 DEF EvidenceFor
    <3> QED BY <1>13, <3>1
  <2>3. CASE Eligible(H, o, "consistent") = filed \cup {c} /\ Eligible(H, o, "consistent") # filed
    <3>1. c \in Eligible(H, o, "consistent")
      BY <2>3
    <3>2. BridgesNothing(G, c, o)
      BY <3>1 DEF Eligible, AnnotationsOf, Annotations, Of, Supports
    <3>3. \A s, t \in filed : Tied(G, c, s) /\ Tied(G, c, t) => s = t
      BY <3>2 DEF BridgesNothing
    <3> HIDE DEF filed
    <3>4. Parties(G, filed) <= Parties(G, filed \cup {c})
      BY <2>1, <3>3, PartiesGrow
    <3>5. e.consistent = Parties(G, filed) /\ f.consistent = Parties(G, filed \cup {c})
      BY <1>11, <2>3 DEF EvidenceFor, filed
    <3> QED BY <3>4, <3>5
  <2> QED BY <1>10, <2>2, <2>3
<1>15. f.inconsistent = e.inconsistent /\ f.repeats = e.repeats
  BY <1>11, <1>12 DEF EvidenceFor
<1>16. f.retracted <=> e.retracted
  BY <1>3 DEF EvidenceFor
<1> QED BY <1>4, <1>5, <1>6, <1>7, <1>8, <1>9, <1>14, <1>15, <1>16, <1>13 DEF SaidMore


\* Support takes no acceptance away, under a policy that asks for more than
\* half.
LEMMA SupportStands ==
    ASSUME GrowthInv, policy # None, NEW c \in Cid \ graph, NEW o \in graph,
           Supports(graph, c, o), ~Withdraws(graph, c), 2 * Viewpoint.tau > Scale,
           Standing(Viewpoint, graph, o) = "accepted"
    PROVE  Standing(Viewpoint, graph \cup {c}, o) = "accepted"
<1> DEFINE G == graph
           H == graph \cup {c}
           p == Viewpoint
           class == Object[o].kind
           e == EvidenceFor(G, o)
           f == EvidenceFor(H, o)
           edges == EdgesWithin(G, SubjectsOf(G, o))
           w == Propagated(p, edges)
           affirm == WeightOf(e.affirm, w)
           deny   == WeightOf(e.deny, w)
           argued == WeightOf(e.argued, w)
           affirmed == WeightOf(f.affirm, w)
           argues   == WeightOf(f.argued, w)
           delta  == Delta(p, affirm, argued)
           less   == Delta(p, affirmed, argues)
<1>1. PolicyOK(p) /\ EdgesOK(edges)
  BY TrustInOrder DEF EdgesInOrder
<1>2. G \in SUBSET Cid /\ IsFiniteSet(G) /\ IsFiniteSet(H)
  BY FS_AddElement DEF GrowthInv, GraphOK
<1>3. /\ SubjectsOf(H, o) = SubjectsOf(G, o)
      /\ TrustEdges(H) = TrustEdges(G)
      /\ SaidMore(e, f) /\ e.consistent \in Nat
  BY <1>2, SupportSays
<1>4. EdgesWithin(H, SubjectsOf(H, o)) = edges
  BY <1>3 DEF EdgesWithin
<1>5. Standing(p, G, o) = Outcome(p, class, e, affirm, deny, delta)
  BY DEF Standing, Weights, Evaluate
<1>6. Standing(p, H, o) = Outcome(p, class, f, affirmed, deny, less)
  BY <1>3, <1>4 DEF Standing, Weights, Evaluate, SaidMore
<1>7. /\ IsFiniteSet(f.affirm) /\ IsFiniteSet(e.argued) /\ IsFiniteSet(e.deny)
      /\ e.affirm \in SUBSET f.affirm /\ f.argued \in SUBSET e.argued
  BY <1>2, <1>3, SayersFinite DEF EvidenceFor, SaidMore
<1>8. w \in [Weighed(p, edges) -> Nat]
  BY <1>1, PropagatedConserves
<1> HIDE DEF e, f, w, edges, p, class
<1>9. affirm \in Nat /\ deny \in Nat /\ argues \in Nat
  <2>1. e.deny \in SUBSET e.deny
    OBVIOUS
  <2> QED BY <1>7, <1>8, <2>1, WeightMore
<1>10. PICK x \in Nat : affirmed = affirm + x
  BY <1>7, <1>8, WeightMore
<1>11. PICK y \in Nat : argued = argues + y
  BY <1>7, <1>8, WeightMore
<1>12. p.tau \in Nat /\ p.deltaMax \in Nat /\ p.floor \in Nat /\ 2 * p.tau > Scale
  BY <1>1 DEF PolicyOK, p
<1> HIDE DEF affirm, deny, argued, affirmed, argues
<1>13. delta \in Nat /\ less \in Nat /\ less <= delta
  BY <1>9, <1>10, <1>11, <1>12, DeltaFalls
<1>14. Outcome(p, class, e, affirm, deny, delta) = "accepted"
  BY <1>5 DEF p
<1> HIDE DEF delta, less
<1>15. ReplicationOk(p, class, e) => ReplicationOk(p, class, f)
  <2>1. f.repeats = e.repeats /\ e.consistent <= f.consistent /\ e.consistent \in Nat
    BY <1>3 DEF SaidMore
  <2>2. f.consistent \in Nat
    BY <1>2, EvidenceCounts DEF f
  <2>3. \A n \in Nat : e.consistent >= n => f.consistent >= n
    BY <2>1, <2>2
  <2> QED BY <1>12, <2>1, <2>3 DEF ReplicationOk
<1>16. ASSUME ByWeight(p, class, e, affirm, deny, delta) = "accepted"
       PROVE  ByWeight(p, class, f, affirmed, deny, less) = "accepted"
  <2>1. affirmed \in Nat /\ affirm <= affirmed
    BY <1>9, <1>10
  <2>2. ReplicationOk(p, class, f)
    BY <1>15, <1>16 DEF ByWeight
  <2>3. p.tau \in Nat /\ 2 * p.tau > Scale
    BY <1>12
  <2>4. less \in Nat /\ delta \in Nat /\ less <= delta /\ deny \in Nat /\ affirm \in Nat
    BY <1>9, <1>13
  <2> QED BY <1>16, <2>1, <2>2, <2>3, <2>4, AcceptanceStands
<1>17. /\ e.proved => f.proved
       /\ f.inconsistent = e.inconsistent
       /\ f.retracted <=> e.retracted
  BY <1>3 DEF SaidMore
<1>18. class \notin NotTruthApt /\ ~e.retracted
  BY <1>14 DEF Outcome
<1>19. CASE class = "formal" /\ f.proved
  <2>1. Outcome(p, class, f, affirmed, deny, less) = "accepted"
    BY <1>17, <1>18, <1>19 DEF Outcome
  <2> QED BY <1>6, <2>1 DEF p
<1>20. CASE ~(class = "formal" /\ f.proved)
  <2>1. ~(class = "formal" /\ e.proved)
    BY <1>17, <1>20
  <2>2. ~(class = "empirical" /\ e.inconsistent > 0)
    BY <1>14, <1>18, <2>1 DEF Outcome
  <2>3. ByWeight(p, class, e, affirm, deny, delta) = "accepted"
    BY <1>14, <1>18, <2>1, <2>2 DEF Outcome
  <2>4. ByWeight(p, class, f, affirmed, deny, less) = "accepted"
    BY <1>16, <2>3
  <2>5. Outcome(p, class, f, affirmed, deny, less) = "accepted"
    BY <1>17, <1>18, <1>20, <2>2, <2>4 DEF Outcome
  <2> QED BY <1>6, <2>5 DEF p
<1> QED BY <1>19, <1>20

\* evaluate: what keys nobody with standing vouches for have to say moves no
\* standing, however many they are; and support that comes late, in whatever
\* order, takes no acceptance away under a policy that asks for more than half.
THEOREM StandingsAreEarned == EvidenceSpec => StandingsEarned
<1>1. ASSUME GrowthInv, [EvidenceNext]_evars
      PROVE  \A c \in graph' \ graph :
               (/\ Evaluates /\ Opinion(c) /\ ~Withdraws(graph, c)
                /\ Author(c) \notin Vouched(Viewpoint, graph')) =>
                   \A o \in Of(graph, "prose") :
                       Standing(Viewpoint, graph', o) = Standing(Viewpoint, graph, o)
  <2> SUFFICES ASSUME NEW c \in graph' \ graph, Evaluates, Opinion(c), ~Withdraws(graph, c),
                      Author(c) \notin Vouched(Viewpoint, graph'), NEW o \in Of(graph, "prose")
               PROVE  Standing(Viewpoint, graph', o) = Standing(Viewpoint, graph, o)
    OBVIOUS
  <2>1. GrowthInv' /\ graph' = graph \cup {c} /\ c \in Cid \ graph
    BY <1>1, GrowthStep
  <2>2. EdgesInOrder(graph \cup {c})
    BY <2>1, SoundEdges DEF GrowthInv
  <2>3. policy # None /\ o \in graph
    BY DEF Evaluates, Of
  <2> QED BY <1>1, <2>1, <2>2, <2>3, StrangersMoveNone
<1>2. ASSUME GrowthInv, [EvidenceNext]_evars
      PROVE  \A c \in graph' \ graph : \A o \in Of(graph, "prose") :
               (/\ Evaluates /\ 2 * Viewpoint.tau > Scale
                /\ Supports(graph, c, o) /\ ~Withdraws(graph, c)
                /\ Standing(Viewpoint, graph, o) = "accepted")
               => Standing(Viewpoint, graph', o) = "accepted"
  <2> SUFFICES ASSUME NEW c \in graph' \ graph, NEW o \in Of(graph, "prose"),
                      Evaluates, 2 * Viewpoint.tau > Scale,
                      Supports(graph, c, o), ~Withdraws(graph, c),
                      Standing(Viewpoint, graph, o) = "accepted"
               PROVE  Standing(Viewpoint, graph', o) = "accepted"
    OBVIOUS
  <2>1. graph' = graph \cup {c} /\ c \in Cid \ graph
    BY <1>2, GrowthStep
  <2>2. policy # None /\ o \in graph
    BY DEF Evaluates, Of
  <2> QED BY <1>2, <2>1, <2>2, SupportStands
<1>3. EvidenceSpec => []GrowthInv
  BY GrowthInit, GrowthStep, PTL DEF EvidenceSpec
<1> QED BY <1>1, <1>2, <1>3, PTL
        DEF EvidenceSpec, StandingsEarned, StrangersMoveNothing, SupportNeverUnseats


----------------------------------------------------------------------------
(* What a corpus copies from its parents.                                  *)

\* The walk takes one round after another, as many as there are objects.
LEMMA WalkedIs ==
    ASSUME NEW g, IsFiniteSet(g), NEW next, NEW seeds
    PROVE  \E h : /\ h[0] = seeds
                  /\ \A n \in 1..Cardinality(g) : h[n] = Further(g, next, h[n - 1])
                  /\ Walked(g, next, seeds) = h[Cardinality(g)]
<1> DEFINE N == Cardinality(g)
           V == SUBSET (seeds \cup UNION {next[c] : c \in g})
           R(w) == Further(g, next, w)
           op == [q \in V \X (1..N) |-> R(q[1])]
           body(f) == [s \in SUBSET (1..N) |->
                         IF s = {} THEN seeds ELSE Further(g, next, f[s \ {Max(s)}])]
           f == CHOOSE x : x = body(x)
<1>0. N \in Nat
  BY FS_CardinalityType
<1>a. \A w \in V : R(w) \in V
  BY DEF Further
<1>b. seeds \in V
  OBVIOUS
<1> HIDE DEF V
<1>1. op \in [V \X (1..N) -> V]
  <2> SUFFICES ASSUME NEW q \in V \X (1..N) PROVE R(q[1]) \in V
    OBVIOUS
  <2>1. q[1] \in V
    OBVIOUS
  <2> HIDE DEF R
  <2> QED BY <1>a, <2>1 DEF R
<1>2. ASSUME NEW w \in V, NEW n \in 1..N PROVE op[<<w, n>>] = R(w)
  <2> DEFINE q == <<w, n>>
  <2>1. q \in V \X (1..N) /\ q[1] = w
    OBVIOUS
  <2> HIDE DEF R, q
  <2>2. op[q] = R(q[1])
    BY <2>1
  <2> QED BY <2>1, <2>2 DEF q
<1>3. ASSUME NEW s \in SUBSET (1..N), s # {}
      PROVE  Max(s) = Greatest(s) /\ Greatest(s) \in 1..N
  BY <1>0, <1>3, GreatestIs DEF Max, Greatest
<1> HIDE DEF op, R, N
<1>4. PICK fold \in [SUBSET (1..N) -> V] : IsStepFold(fold, N, seeds, op)
  BY <1>0, <1>1, <1>b, StepsExist
<1>5. ASSUME NEW s \in SUBSET (1..N), s # {}
      PROVE  op[<<fold[s \ {Greatest(s)}], Greatest(s)>>] = R(fold[s \ {Max(s)}])
  <2>1. fold[s \ {Greatest(s)}] \in V
    OBVIOUS
  <2> QED BY <1>2, <1>3, <1>5, <2>1
<1>6. fold = body(fold)
  <2>1. fold = [s \in SUBSET (1..N) |-> fold[s]]
    OBVIOUS
  <2>2. \A s \in SUBSET (1..N) : fold[s] = body(fold)[s]
    BY <1>4, <1>5 DEF R, IsStepFold
  <2> QED BY <2>1, <2>2
<1>7. f = body(f)
  BY <1>6
<1>8. Walked(g, next, seeds) = f[1..N]
  BY <1>0 DEF Walked, FoldLeft, MapThenFoldSet, N
<1> HIDE DEF f
<1>9. f[{}] = seeds
  BY <1>7
<1>10. ASSUME NEW s \in SUBSET (1..N), s # {}, f[s \ {Greatest(s)}] \in V
       PROVE  f[s] = op[<<f[s \ {Greatest(s)}], Greatest(s)>>]
  <2>1. f[s] = R(f[s \ {Max(s)}])
    BY <1>7, <1>10 DEF R
  <2> QED BY <1>2, <1>3, <1>10, <2>1
<1>11. PICK h \in [0..N -> V] : InTurn(h, f, N, seeds, op)
  <2>1. StepsIn(f, N, V, seeds, op)
    BY <1>9, <1>10 DEF StepsIn
  <2> QED BY <1>0, <1>1, <1>b, <2>1, StepsTaken
<1>12. \A n \in 1..N : h[n] = R(h[n - 1])
  <2> SUFFICES ASSUME NEW n \in 1..N PROVE h[n] = R(h[n - 1])
    OBVIOUS
  <2>1. h[n - 1] \in V
    BY <1>0
  <2> QED BY <1>2, <1>11, <2>1 DEF InTurn
<1> QED BY <1>8, <1>11, <1>12 DEF R, N, InTurn

\* What is held of a set leads nowhere but into it.
Settled(g, next, W) == \A c \in W \cap g : next[c] \subseteq W

\* As many rounds as there are objects are enough: each adds one that is
\* held, or there is nothing to add.
LEMMA WalkSettles ==
    ASSUME NEW g, IsFiniteSet(g), NEW next, NEW seeds, seeds \cap g # {}
    PROVE  seeds \subseteq Walked(g, next, seeds) /\ Settled(g, next, Walked(g, next, seeds))
<1> DEFINE N == Cardinality(g)
<1>0. N \in Nat
  BY FS_CardinalityType
<1>1. PICK h : /\ h[0] = seeds
               /\ \A n \in 1..N : h[n] = Further(g, next, h[n - 1])
               /\ Walked(g, next, seeds) = h[N]
  BY WalkedIs
<1>2. \A W : IsFiniteSet(W \cap g) /\ Cardinality(W \cap g) \in Nat /\ Cardinality(W \cap g) <= N
  <2> SUFFICES ASSUME NEW W
               PROVE  IsFiniteSet(W \cap g) /\ Cardinality(W \cap g) \in Nat
                      /\ Cardinality(W \cap g) <= N
    OBVIOUS
  <2>1. W \cap g \subseteq g
    OBVIOUS
  <2>2. IsFiniteSet(W \cap g) /\ Cardinality(W \cap g) <= N
    BY <2>1, FS_Subset
  <2> QED BY <2>2, FS_CardinalityType
<1> DEFINE Goes(n) == /\ seeds \subseteq h[n]
                      /\ Settled(g, next, h[n]) \/ n < Cardinality(h[n] \cap g)
           P == {n \in Nat : n <= N => Goes(n)}
<1>3. 0 \in P
  <2>1. Cardinality(seeds \cap g) # 0
    BY <1>2, FS_EmptySet
  <2>2. 0 < Cardinality(seeds \cap g)
    BY <1>2, <2>1
  <2> QED BY <1>1, <2>2
<1>4. ASSUME NEW n \in Nat, n \in P PROVE n + 1 \in P
  <2> SUFFICES ASSUME n + 1 <= N PROVE Goes(n + 1)
    OBVIOUS
  <2> DEFINE U == h[n]
             W == h[n + 1]
  <2>1. n + 1 \in 1..N /\ (n + 1) - 1 = n /\ n <= N
    BY <1>0
  <2>2. W = Further(g, next, U)
    BY <1>1, <2>1
  <2>3. Goes(n)
    BY <1>4, <2>1
  <2> HIDE DEF U, W
  <2>4. U \subseteq W /\ \A c \in U \cap g : next[c] \subseteq W
    BY <2>2 DEF Further
  <2>5. seeds \subseteq W
    BY <2>3, <2>4 DEF U
  <2>6. CASE Settled(g, next, U)
    <3>1. W = U
      BY <2>2, <2>6 DEF Further, Settled
    <3> QED BY <2>5, <2>6, <3>1 DEF W
  <2>7. CASE n < Cardinality(U \cap g) /\ W \cap g = U \cap g
    <3>1. Settled(g, next, W)
      BY <2>4, <2>7 DEF Settled
    <3> QED BY <2>5, <3>1 DEF W
  <2>8. CASE n < Cardinality(U \cap g) /\ W \cap g # U \cap g
    <3>1. U \cap g \subseteq W \cap g
      BY <2>4
    <3>2. Cardinality(U \cap g) <= Cardinality(W \cap g)
          /\ (Cardinality(U \cap g) = Cardinality(W \cap g) => U \cap g = W \cap g)
      BY <1>2, <3>1, FS_Subset
    <3>3. Cardinality(U \cap g) \in Nat /\ Cardinality(W \cap g) \in Nat
      BY <1>2
    <3>4. n + 1 < Cardinality(W \cap g)
      BY <2>8, <3>2, <3>3
    <3> QED BY <2>5, <3>4 DEF W
  <2> QED BY <2>3, <2>6, <2>7, <2>8 DEF U
<1> HIDE DEF P
<1>5. N \in P
  BY <1>0, <1>3, <1>4, InductionSet
<1>6. Goes(N)
  BY <1>0, <1>5 DEF P
<1>7. ~(N < Cardinality(h[N] \cap g))
  BY <1>0, <1>2
<1> QED BY <1>1, <1>6, <1>7


\* What is held in W leads nowhere but into W, and W has the delegations to a.
Brings(G, W, a) ==
    /\ \A c \in W \cap G : /\ References(c) \subseteq W
                           /\ Author(c) \in W
                           /\ \A x \in G : c \in About(x) => x \in W
    /\ \A r \in Related(G, "delegates") : Object[r].to = a => r \in W

\* reach copies, with an object, all it leads to.
LEMMA ReachBrings ==
    ASSUME NEW G, IsFiniteSet(G), NEW o \in G, NEW a
    PROVE  \E W : Brings(G, W, a) /\ {o} \cup Reach(G, {o}, a) = W \cap G
<1> DEFINE seeds == {o} \cup {r \in Related(G, "delegates") : Object[r].to = a}
           next == Onward(G)
           W == Walked(G, next, seeds)
<1>1. seeds \cap G # {}
  OBVIOUS
<1>2. {o} \cup Reach(G, {o}, a) = {o} \cup ((W \cap G) \ {o})
  BY DEF Reach
<1>3. \A c \in G : next[c] = References(c) \cup {Author(c)} \cup {x \in G : c \in About(x)}
  BY TabulatedIs DEF Onward
<1>4. o \in seeds /\ \A r \in Related(G, "delegates") : Object[r].to = a => r \in seeds
  OBVIOUS
<1> HIDE DEF next, seeds
<1>5. seeds \subseteq W /\ Settled(G, next, W)
  BY <1>1, WalkSettles
<1>6. Brings(G, W, a)
  BY <1>3, <1>4, <1>5 DEF Brings, Settled
<1> HIDE DEF W
<1> QED BY <1>2, <1>4, <1>5, <1>6

\* What was taken back was taken back where it is copied to.
LEMMA CopyRetracted ==
    ASSUME NEW G, NEW W, NEW a, Brings(G, W, a), NEW x \in W \cap G
    PROVE  IsRetracted(W \cap G, x) <=> IsRetracted(G, x)
<1>1. IsRetracted(W \cap G, x) => IsRetracted(G, x)
  <2>1. W \cap G \subseteq G
    OBVIOUS
  <2> QED BY <2>1, RetractedStays
<1>2. ASSUME IsRetracted(G, x) PROVE IsRetracted(W \cap G, x)
  <2>1. PICK e \in Edges(G, "retracts") : e[2] = x /\ e[1] \in G /\ Author(e[1]) = Author(x)
    BY <1>2 DEF IsRetracted
  <2>2. PICK w \in Related(G, "retracts") : e = <<Object[w].from, Object[w].to>>
    BY <2>1 DEF Edges
  <2>3. w \in G /\ Object[w].type = "relation" /\ Object[w].kind = "retracts"
        /\ Object[w].from = e[1] /\ Object[w].to = x
    BY <2>1, <2>2 DEF Related, Of
  <2>4. x \in About(w)
    BY <2>3 DEF About
  <2>5. w \in W \cap G
    BY <2>3, <2>4 DEF Brings
  <2>6. e[1] \in References(w)
    BY <2>3 DEF References
  <2>7. e[1] \in W
    BY <2>5, <2>6 DEF Brings
  <2>8. e \in Edges(W \cap G, "retracts")
    BY <2>2, <2>3, <2>5 DEF Edges, Related, Of
  <2> QED BY <2>1, <2>7, <2>8 DEF IsRetracted
<1> QED BY <1>1, <1>2

\* A key's rotation is copied with it: its signatures and the key before it.
LEMMA CopyRotated ==
    ASSUME NEW G, NEW W, NEW a, Brings(G, W, a), NEW k \in W
    PROVE  /\ RotatedFrom(W \cap G, k) = RotatedFrom(G, k)
           /\ RotatedFrom(G, k) # None => RotatedFrom(G, k) \in W
<1> DEFINE C == W \cap G
           old == Object[k].to
<1>1. CASE RotatedFrom(G, k) # None
  <2>1. /\ k \in Of(G, "key") /\ old # None /\ RotatedFrom(G, k) = old
        /\ SignedBy(G, old, k, "rotation") /\ SignedBy(G, k, k, "rotation")
    BY <1>1 DEF RotatedFrom
  <2>2. k \in C
    BY <2>1 DEF Of
  <2>3. ASSUME NEW key, SignedBy(G, key, k, "rotation")
        PROVE  key \in W /\ SignedBy(C, key, k, "rotation")
    <3>1. PICK s \in Of(G, "sig") : Author(s) = key /\ Object[s].to = k /\ Object[s].kind = "rotation"
      BY <2>3 DEF SignedBy
    <3>2. s \in G /\ k \in About(s)
      BY <3>1 DEF Of, About
    <3>3. s \in C
      BY <2>2, <3>2 DEF Brings
    <3>4. key \in W
      BY <3>1, <3>3 DEF Brings
    <3>5. key \in Of(C, "key") /\ s \in Of(C, "sig")
      BY <2>3, <3>1, <3>3, <3>4 DEF SignedBy, Of
    <3> QED BY <2>2, <3>1, <3>4, <3>5 DEF SignedBy
  <2>4. k \in Of(C, "key")
    BY <2>1, <2>2 DEF Of
  <2> HIDE DEF old, C
  <2>5. RotatedFrom(C, k) = old
    BY <2>1, <2>3, <2>4 DEF RotatedFrom, old
  <2> QED BY <2>1, <2>3, <2>5 DEF C
<1>2. CASE RotatedFrom(G, k) = None
  <2>1. C \subseteq G
    OBVIOUS
  <2> QED BY <1>2, <2>1, RotatedStays
<1> QED BY <1>1, <1>2

\* A key continues where it is copied to what it continued.
LEMMA CopyContinues ==
    ASSUME NEW G, NEW W, NEW a, Brings(G, W, a), NEW original, original # None,
           NEW successor \in W, successor # None
    PROVE  ContinuesKey(W \cap G, original, successor) <=> ContinuesKey(G, original, successor)
<1> DEFINE C == W \cap G
<1>1. C \subseteq G
  OBVIOUS
<1>2. ContinuesKey(C, original, successor) => ContinuesKey(G, original, successor)
  BY <1>1, ContinuesStays
<1>3. ASSUME ContinuesKey(G, original, successor)
      PROVE  ContinuesKey(C, original, successor)
  <2>1. PICK n \in 0..MaxRotations : \E keys :
           keys[0] = successor /\ keys[n] = original /\ Rotations(G, keys, n)
    BY <1>3, ContinuesIs
  <2>2. PICK keys : keys[0] = successor /\ keys[n] = original /\ Rotations(G, keys, n)
    BY <2>1
  <2> DEFINE P == {m \in Nat : m <= n => keys[m] \in W}
  <2>3. 0 \in P
    BY <2>2
  <2>4. ASSUME NEW m \in Nat, m \in P PROVE m + 1 \in P
    <3> SUFFICES ASSUME m + 1 <= n PROVE keys[m + 1] \in W
      OBVIOUS
    <3>0. n \in Nat
      BY GraphAssumption
    <3>1. m + 1 \in 1..n /\ (m + 1) - 1 = m /\ m <= n
      BY <3>0
    <3>2. keys[m] \in W
      BY <2>4, <3>1
    <3>3. keys[m + 1] # None /\ keys[m + 1] = RotatedFrom(G, keys[m])
      BY <2>2, <3>1 DEF Rotations
    <3> QED BY <3>2, <3>3, CopyRotated
  <2> HIDE DEF P
  <2>5. \A i \in 1..n : keys[i - 1] \in W
    <3> SUFFICES ASSUME NEW i \in 1..n PROVE keys[i - 1] \in W
      OBVIOUS
    <3>0. n \in Nat
      BY GraphAssumption
    <3>1. i - 1 \in Nat /\ i - 1 <= n
      BY <3>0
    <3>2. i - 1 \in P
      BY <2>3, <2>4, <3>1, InductionSet
    <3> QED BY <3>1, <3>2 DEF P
  <2>6. \A i \in 1..n : RotatedFrom(C, keys[i - 1]) = RotatedFrom(G, keys[i - 1])
    BY <2>5, CopyRotated
  <2>7. Rotations(C, keys, n)
    BY <2>2, <2>6 DEF Rotations
  <2> QED BY <2>2, <2>7, ContinuesIs
<1> QED BY <1>2, <1>3

\* A relation that supersedes is copied with either of its ends, and has the
\* authority it had.
LEMMA CopyEdges ==
    ASSUME NEW G \in SUBSET Cid, NEW W, NEW a, Brings(G, W, a),
           \A r \in Related(G, "delegates") : Object[r].to = a
    PROVE  /\ SupersedesEdges(W \cap G, "authoritative") \subseteq SupersedesEdges(G, "authoritative")
           /\ \A e \in SupersedesEdges(G, "authoritative") :
                 e[2] \in G /\ (e[1] \in W \cap G \/ e[2] \in W =>
                    e \in SupersedesEdges(W \cap G, "authoritative") /\ e[1] \in W /\ e[2] \in W)
<1> DEFINE C == W \cap G
           Lends(H, r, e) == \/ Author(r) = Author(e[2])
                             \/ DelegatesLineage(H, Author(e[2]), Author(r))
                             \/ ContinuesKey(H, Author(e[2]), Author(r))
<1>0. "authoritative" # "full" /\ C \subseteq G
  OBVIOUS
<1>1. \A H, e : e \in SupersedesEdges(H, "authoritative") <=>
         e[2] \in H /\ \E r \in Related(H, "supersedes") :
            <<Object[r].from, Object[r].to>> = e /\ Lends(H, r, e)
  BY <1>0 DEF SupersedesEdges, EdgeIsAuthoritative, Edges
<1>2. \A from, to : DelegatesLineage(C, from, to) <=> DelegatesLineage(G, from, to)
  <2> SUFFICES ASSUME NEW from, NEW to
               PROVE  DelegatesLineage(C, from, to) <=> DelegatesLineage(G, from, to)
    OBVIOUS
  <2>1. \A r : r \in Related(C, "delegates") <=> r \in Related(G, "delegates")
    BY DEF Brings, Related, Of
  <2>2. \A r \in Related(G, "delegates") : r \in C
    BY DEF Brings, Related, Of
  <2>3. \A r \in Related(G, "delegates") : IsRetracted(C, r) <=> IsRetracted(G, r)
    BY <2>2, CopyRetracted
  <2> QED BY <2>1, <2>3 DEF DelegatesLineage
<1>3. ASSUME NEW r \in C, NEW e, e[2] \in C
      PROVE  Lends(C, r, e) <=> Lends(G, r, e)
  <2>1. Author(r) \in W /\ Author(r) # None /\ Author(e[2]) # None
    BY <1>3, GraphAssumption DEF Brings, Author
  <2>2. ContinuesKey(C, Author(e[2]), Author(r)) <=> ContinuesKey(G, Author(e[2]), Author(r))
    BY <2>1, CopyContinues
  <2> QED BY <1>2, <2>2
<1>4. \A r : r \in Related(C, "supersedes") <=> r \in Related(G, "supersedes") /\ r \in C
  BY DEF Related, Of
<1> HIDE DEF Lends
<1>5. SupersedesEdges(C, "authoritative") \subseteq SupersedesEdges(G, "authoritative")
  <2> SUFFICES ASSUME NEW e \in SupersedesEdges(C, "authoritative")
               PROVE  e \in SupersedesEdges(G, "authoritative")
    OBVIOUS
  <2>1. PICK r \in Related(C, "supersedes") :
           e[2] \in C /\ <<Object[r].from, Object[r].to>> = e /\ Lends(C, r, e)
    BY <1>1
  <2>2. r \in Related(G, "supersedes") /\ Lends(G, r, e) /\ e[2] \in G
    BY <1>3, <1>4, <2>1
  <2> QED BY <1>1, <2>1, <2>2
<1>6. ASSUME NEW e \in SupersedesEdges(G, "authoritative")
      PROVE  e[2] \in G
  BY <1>1
<1>7. ASSUME NEW e \in SupersedesEdges(G, "authoritative"), e[1] \in C \/ e[2] \in W
      PROVE  e \in SupersedesEdges(C, "authoritative") /\ e[1] \in W /\ e[2] \in W
  <2>1. PICK r \in Related(G, "supersedes") :
           e[2] \in G /\ <<Object[r].from, Object[r].to>> = e /\ Lends(G, r, e)
    BY <1>1
  <2>2. /\ r \in G /\ Object[r].type = "relation" /\ Object[r].kind = "supersedes"
        /\ Object[r].from = e[1] /\ Object[r].to = e[2]
    BY <2>1 DEF Related, Of
  <2>3. e[1] \in About(r) /\ e[2] \in About(r)
    BY <2>2 DEF About
  <2>4. r \in C
    BY <1>7, <2>1, <2>2, <2>3 DEF Brings
  <2>5. References(r) \subseteq W /\ References(r) = {e[1], e[2]}
    BY <2>2, <2>4 DEF Brings, References
  <2>6. e[1] \in W /\ e[2] \in W /\ e[2] \in C
    BY <2>1, <2>5
  <2>7. Lends(C, r, e) /\ r \in Related(C, "supersedes")
    BY <1>3, <1>4, <2>1, <2>4, <2>6
  <2>8. e \in SupersedesEdges(C, "authoritative")
    BY <1>1, <2>1, <2>6, <2>7
  <2> QED BY <2>6, <2>8
<1> QED BY <1>5, <1>6, <1>7


\* A part of a graph that came together by insertion might have come so too.
LEMMA PartOK ==
    ASSUME NEW G, GraphOK(G), NEW C \in SUBSET G
    PROVE  GraphOK(C)
<1>1. C \in SUBSET Cid /\ IsFiniteSet(C)
  BY FS_Subset DEF GraphOK
<1>2. \A kind : Edges(C, kind) \subseteq Edges(G, kind)
  BY EdgesMore
<1>3. Acyclical(C)
  <2> SUFFICES ASSUME NEW kind \in Acyclic, NEW e \in Edges(C, kind), Reaches(Edges(C, kind), e[2], e[1])
               PROVE  FALSE
    BY DEF Acyclical
  <2>1. Reaches(Edges(G, kind), e[2], e[1]) /\ e \in Edges(G, kind)
    BY <1>2, ReachesMore
  <2> QED BY <2>1 DEF GraphOK, Acyclical
<1> QED BY <1>1, <1>3 DEF GraphOK

\* What is copied has the lineage it had.
LEMMA CopyKeepsLineage ==
    ASSUME NEW G, GraphOK(G), NEW W, NEW a, Brings(G, W, a),
           \A r \in Related(G, "delegates") : Object[r].to = a,
           NEW m \in W \cap G
    PROVE  Lineage(W \cap G, m, "authoritative") = Lineage(G, m, "authoritative")
<1> DEFINE C == W \cap G
           E == SupersedesEdges(G, "authoritative")
           F == SupersedesEdges(C, "authoritative")
           g == GenesisOf(G, m, "authoritative")
           h == GenesisOf(C, m, "authoritative")
<1>0. GraphOK(C)
  BY PartOK
<1>1. LineageEdges(E) /\ LineageEdges(F)
  BY <1>0, SupersedesAre
<1>2. /\ LastAncestor(E, g) = None /\ Reaches(Up(E), m, g)
      /\ \A x : x \in Lineage(G, m, "authoritative") <=> Reaches(Reversed(E), g, x)
  BY LineageIs
<1>3. /\ LastAncestor(F, h) = None /\ Reaches(Up(F), m, h)
      /\ \A x : x \in Lineage(C, m, "authoritative") <=> Reaches(Reversed(F), h, x)
  BY <1>0, LineageIs
<1>4. /\ F \subseteq E
      /\ \A e \in E : e[2] \in G /\ (e[1] \in C \/ e[2] \in W => e \in F /\ e[1] \in W /\ e[2] \in W)
  BY CopyEdges DEF GraphOK
<1> HIDE DEF E, F, g, h
<1>5. g \in W
  <2>1. m \in C /\ Closed(C, Up(E))
    BY <1>4 DEF Closed, Up
  <2> QED BY <1>2, <2>1, ReachesMeaning
<1>6. \A x : Reaches(Reversed(E), g, x) => x \in W
  <2>1. Closed(W, Reversed(E))
    <3> SUFFICES ASSUME NEW r \in Reversed(E), r[1] \in W PROVE r[2] \in W
      BY DEF Closed
    <3>1. PICK e \in E : r = <<e[2], e[1]>>
      BY DEF Reversed
    <3> QED BY <1>4, <3>1
  <2> QED BY <1>5, <2>1, ReachesMeaning
<1>7. \A e \in E \ F : ~Reaches(Reversed(E), g, e[2])
  BY <1>4, <1>6
<1>8. /\ LastAncestor(F, g) = None /\ Reaches(Up(F), m, g)
      /\ \A x : Reaches(Reversed(F), g, x) <=> Reaches(Reversed(E), g, x)
  BY <1>1, <1>2, <1>4, <1>7, LineageUnmoved
<1>9. g = h
  BY <1>1, <1>3, <1>8, RootIs
<1>10. \A x : x \in Lineage(C, m, "authoritative") <=> x \in Lineage(G, m, "authoritative")
  BY <1>2, <1>3, <1>8, <1>9
<1> HIDE DEF C
<1>11. Lineage(C, m, "authoritative") = Lineage(G, m, "authoritative")
  BY <1>10
<1> QED BY <1>11 DEF C

\* reach: whatever has come, in whatever order, what a corpus copies of it
\* has the authoritative lineages it has there.
THEOREM CopiesAreRead == EvidenceSpec => []CopiesRead
<1>1. Init /\ policy = None => GrowthInv
  BY GrowthInit
<1>2. GrowthInv /\ [EvidenceNext]_evars => GrowthInv'
  BY GrowthStep
<1>3. GrowthInv => CopiesRead
  <2> DEFINE keys == {a \in Of(graph, "key") :
                        \A r \in Related(graph, "delegates") : Object[r].to = a}
             copies == {{o} \cup Reach(graph, {o}, a) : o \in Of(graph, "prose"), a \in keys}
  <2>1. ASSUME GrowthInv, NEW copied \in copies, NEW m \in Of(copied, "prose")
        PROVE  Lineage(copied, m, "authoritative") = Lineage(graph, m, "authoritative")
    <3>1. PICK o \in Of(graph, "prose"), a \in keys : copied = {o} \cup Reach(graph, {o}, a)
      BY <2>1
    <3>2. o \in graph /\ GraphOK(graph)
      BY <2>1, <3>1 DEF Of, GrowthInv
    <3>3. PICK W : Brings(graph, W, a) /\ copied = W \cap graph
      BY <3>1, <3>2, ReachBrings DEF GraphOK
    <3>4. m \in W \cap graph
      BY <2>1, <3>3 DEF Of
    <3>5. \A r \in Related(graph, "delegates") : Object[r].to = a
      BY <3>1
    <3>6. Lineage(W \cap graph, m, "authoritative") = Lineage(graph, m, "authoritative")
      BY <3>2, <3>3, <3>4, <3>5, CopyKeepsLineage
    <3> QED BY <3>3, <3>6
  <2> HIDE DEF copies
  <2>2. GrowthInv => \A copied \in copies \ {graph} : \A m \in Of(copied, "prose") :
           Lineage(copied, m, "authoritative") = Lineage(graph, m, "authoritative")
    BY <2>1
  <2> QED BY <2>2 DEF CopiesRead, copies, keys
<1> QED BY <1>1, <1>2, <1>3, PTL DEF EvidenceSpec


----------------------------------------------------------------------------
(* What has moved under an object.                                         *)

\* The members of S before x.
Below(S, x) == {y \in S : IdOrder[y] < IdOrder[x]}

\* No two members have as many before them.
LEMMA RanksDiffer ==
    ASSUME NEW S \in SUBSET Cid, IsFiniteSet(S), NEW x \in S, NEW y \in S
    PROVE  /\ Cardinality(Below(S, x)) \in 0..(Cardinality(S) - 1)
           /\ Cardinality(Below(S, x)) = Cardinality(Below(S, y)) => x = y
<1>1. \A z \in S : IdOrder[z] \in Nat
  BY GraphAssumption
<1>2. ASSUME NEW z \in S
      PROVE  IsFiniteSet(Below(S, z)) /\ Cardinality(Below(S, z)) \in Nat
             /\ Cardinality(Below(S, z)) < Cardinality(S)
  <2>1. Below(S, z) \subseteq S \ {z}
    BY <1>1 DEF Below
  <2>2. IsFiniteSet(S \ {z}) /\ Cardinality(S \ {z}) = Cardinality(S) - 1
    BY FS_RemoveElement
  <2>3. IsFiniteSet(Below(S, z)) /\ Cardinality(Below(S, z)) <= Cardinality(S \ {z})
    BY <2>1, <2>2, FS_Subset
  <2>4. Cardinality(Below(S, z)) \in Nat /\ Cardinality(S) \in Nat
    BY <2>3, FS_CardinalityType
  <2> QED BY <2>2, <2>3, <2>4
<1>3. ASSUME NEW u \in S, NEW v \in S, IdOrder[u] < IdOrder[v]
      PROVE  Cardinality(Below(S, u)) # Cardinality(Below(S, v))
  <2>1. Below(S, u) \subseteq Below(S, v)
    BY <1>1, <1>3 DEF Below
  <2>2. u \in Below(S, v) /\ u \notin Below(S, u)
    BY <1>1, <1>3 DEF Below
  <2>3. Cardinality(Below(S, u)) = Cardinality(Below(S, v)) => Below(S, u) = Below(S, v)
    BY <1>2, <2>1, FS_Subset
  <2> QED BY <2>2, <2>3
<1>4. Cardinality(Below(S, x)) \in 0..(Cardinality(S) - 1)
  <2>1. Cardinality(S) \in Nat
    BY FS_CardinalityType
  <2> QED BY <1>2, <2>1
<1>5. ASSUME Cardinality(Below(S, x)) = Cardinality(Below(S, y)) PROVE x = y
  <2>1. IdOrder[x] = IdOrder[y]
    BY <1>1, <1>3, <1>5
  <2> QED BY <2>1, GraphAssumption
<1> QED BY <1>4, <1>5

\* The members in order are the members, each once.
LEMMA InOrderIs ==
    ASSUME NEW S \in SUBSET Cid, IsFiniteSet(S)
    PROVE  /\ InOrder(S) \in Seq(S) /\ Len(InOrder(S)) = Cardinality(S)
           /\ \A x \in S : \E i \in 1..Cardinality(S) : InOrder(S)[i] = x
           /\ \A i, j \in 1..Cardinality(S) : InOrder(S)[i] = InOrder(S)[j] => i = j
<1> DEFINE N == Cardinality(S)
           rank == [x \in S |-> Cardinality(Below(S, x)) + 1]
<1>0. N \in Nat
  BY FS_CardinalityType
<1>1. \A x \in S : rank[x] \in 1..N
  <2> SUFFICES ASSUME NEW x \in S PROVE rank[x] \in 1..N
    OBVIOUS
  <2>1. Cardinality(Below(S, x)) \in 0..(N - 1)
    BY RanksDiffer
  <2> QED BY <1>0, <2>1
<1>2. \A x, y \in S : rank[x] = rank[y] => x = y
  <2> SUFFICES ASSUME NEW x \in S, NEW y \in S, rank[x] = rank[y] PROVE x = y
    OBVIOUS
  <2>1. Cardinality(Below(S, x)) \in 0..(N - 1) /\ Cardinality(Below(S, y)) \in 0..(N - 1)
    BY RanksDiffer
  <2>2. rank[x] = Cardinality(Below(S, x)) + 1 /\ rank[y] = Cardinality(Below(S, y)) + 1
    OBVIOUS
  <2>3. Cardinality(Below(S, x)) = Cardinality(Below(S, y))
    BY <1>0, <2>1, <2>2
  <2> QED BY <2>3, RanksDiffer
<1>3. \A i \in 1..N : \E x \in S : rank[x] = i
  <2>1. rank \in [S -> 1..N]
    BY <1>1
  <2> HIDE DEF rank
  <2>2. rank \in Injection(S, 1..N)
    BY <1>2, <2>1 DEF Injection, IsInjective
  <2>3. IsFiniteSet(1..N) /\ Cardinality(1..N) = N
    BY <1>0, FS_Interval
  <2>4. rank \in Surjection(S, 1..N)
    BY <2>2, <2>3, FS_Injection DEF N
  <2> QED BY <2>4 DEF Surjection
<1>4. \A i \in 1..N : InOrder(S)[i] \in S /\ rank[InOrder(S)[i]] = i
  <2> SUFFICES ASSUME NEW i \in 1..N PROVE InOrder(S)[i] \in S /\ rank[InOrder(S)[i]] = i
    OBVIOUS
  <2> DEFINE At(x) == Cardinality({y \in S : IdOrder[y] < IdOrder[x]}) = i - 1
  <2>1. InOrder(S)[i] = CHOOSE x \in S : At(x)
    BY DEF InOrder
  <2>2. \A x \in S : rank[x] = i <=> At(x)
    <3> SUFFICES ASSUME NEW x \in S PROVE rank[x] = i <=> At(x)
      OBVIOUS
    <3>1. Cardinality(Below(S, x)) \in 0..(N - 1)
      BY RanksDiffer
    <3>2. rank[x] = Cardinality(Below(S, x)) + 1 /\ (At(x) <=> Cardinality(Below(S, x)) = i - 1)
      BY DEF Below
    <3> HIDE DEF rank, At
    <3> QED BY <1>0, <3>1, <3>2
  <2>3. \E x \in S : At(x)
    BY <1>3, <2>2
  <2> HIDE DEF At, rank
  <2> QED BY <2>1, <2>2, <2>3
<1> HIDE DEF rank
<1>5. InOrder(S) = [i \in 1..N |-> InOrder(S)[i]] /\ InOrder(S) \in [1..N -> S]
  <2> DEFINE At(i) == CHOOSE x \in S : Cardinality({y \in S : IdOrder[y] < IdOrder[x]}) = i - 1
  <2>1. InOrder(S) = [i \in 1..N |-> At(i)]
    BY DEF InOrder
  <2> HIDE DEF At, N
  <2>2. \A i \in 1..N : InOrder(S)[i] = At(i)
    BY <2>1
  <2>3. InOrder(S) = [i \in 1..N |-> InOrder(S)[i]]
    BY <2>1, <2>2
  <2>4. \A i \in 1..N : InOrder(S)[i] \in S
    BY <1>4
  <2> QED BY <2>3, <2>4
<1>6. InOrder(S) \in Seq(S) /\ Len(InOrder(S)) = N
  <2> DEFINE s == InOrder(S)
  <2> HIDE DEF s
  <2>1. s \in [1..N -> S]
    BY <1>5 DEF s
  <2>2. s \in Seq(S) /\ Len(s) = N
    BY <1>0, <2>1
  <2> QED BY <2>2 DEF s
<1>7. \A x \in S : \E i \in 1..N : InOrder(S)[i] = x
  <2> SUFFICES ASSUME NEW x \in S PROVE \E i \in 1..N : InOrder(S)[i] = x
    OBVIOUS
  <2>1. rank[x] \in 1..N
    BY <1>1
  <2>2. InOrder(S)[rank[x]] = x
    BY <1>2, <1>4, <2>1
  <2> QED BY <2>1, <2>2
<1>8. \A i, j \in 1..N : InOrder(S)[i] = InOrder(S)[j] => i = j
  BY <1>4
<1> QED BY <1>6, <1>7, <1>8


\* What e leads to from x, and the edges closure is asked about.
From1(E, x) == {e[2] : e \in {e \in E : e[1] = x}}

WalkEdges(E) == E \in SUBSET (Cid \X Cid) /\ IsFiniteSet(E)

\* Visiting appends what was not yet in line, in order.
LEMMA VisitedIs ==
    ASSUME NEW E, WalkEdges(E), NEW U \in SUBSET Cid, \A e \in E : e[2] \in U,
           NEW out \in Seq(U), NEW i \in Nat
    PROVE  LET fresh == From1(E, out[i]) \ Range(out)
           IN  /\ Visited(E, out, i) \in Seq(U)
               /\ i > Len(out) => Visited(E, out, i) = out
               /\ ~(i > Len(out)) => Visited(E, out, i) = out \o InOrder(fresh)
               /\ fresh \in SUBSET U /\ IsFiniteSet(fresh)
<1> DEFINE fresh == From1(E, out[i]) \ Range(out)
           F == {e \in E : e[1] = out[i]}
           two == [e \in F |-> e[2]]
<1>1. IsFiniteSet(F)
  BY FS_Subset DEF WalkEdges
<1>2. IsFiniteSet(From1(E, out[i]))
  <2>1. DOMAIN two = F /\ From1(E, out[i]) = {two[e] : e \in DOMAIN two}
    BY DEF From1
  <2> HIDE DEF two, F
  <2> QED BY <1>1, <2>1, ImageFinite
<1>3. fresh \in SUBSET U /\ IsFiniteSet(fresh)
  <2>1. IsFiniteSet(fresh)
    BY <1>2, FS_Difference
  <2> QED BY <2>1 DEF From1
<1>4. Visited(E, out, i) = IF i > Len(out) THEN out ELSE out \o InOrder(fresh)
  BY DEF Visited, From1
<1> HIDE DEF fresh
<1>5. InOrder(fresh) \in Seq(fresh)
  BY <1>3, InOrderIs
<1>6. InOrder(fresh) \in Seq(U)
  BY <1>3, <1>5, SeqMonotonic
<1>7. out \o InOrder(fresh) \in Seq(U)
  BY <1>6, ConcatProperties
<1> QED BY <1>3, <1>4, <1>7 DEF fresh

\* closure visits one place in line after another.
LEMMA BreadthFirstIs ==
    ASSUME NEW E, WalkEdges(E), NEW c \in Cid
    PROVE  \E h \in [0..(Cardinality(E) + 1) -> Seq(Ends(E, c))] :
              /\ h[0] = <<c>>
              /\ \A n \in 1..(Cardinality(E) + 1) : h[n] = Visited(E, h[n - 1], n)
              /\ BreadthFirst(E, c) = Tail(h[Cardinality(E) + 1])
<1> DEFINE N == Cardinality(E) + 1
           U == Ends(E, c)
           V == Seq(U)
           R(w, n) == Visited(E, w, n)
           base == <<c>>
           op == [q \in V \X (1..N) |-> R(q[1], q[2])]
           body(f) == [s \in SUBSET (1..N) |->
                         IF s = {} THEN <<c>> ELSE Visited(E, f[s \ {Max(s)}], [i \in 1..N |-> i][Max(s)])]
           f == CHOOSE x : x = body(x)
<1>0. N \in Nat
  BY FS_CardinalityType DEF WalkEdges
<1>a. \A w \in V : \A n \in 1..N : R(w, n) \in V
  <2>1. U \in SUBSET Cid /\ \A e \in E : e[2] \in U
    BY DEF Ends, WalkEdges
  <2> SUFFICES ASSUME NEW w \in V, NEW n \in 1..N PROVE R(w, n) \in V
    OBVIOUS
  <2>2. n \in Nat
    BY <1>0
  <2> HIDE DEF U
  <2>3. Visited(E, w, n) \in Seq(U)
    BY <2>1, <2>2, VisitedIs
  <2> QED BY <2>3
<1>b. base \in V
  <2>1. c \in U
    BY DEF Ends
  <2> QED BY <2>1
<1> HIDE DEF V, U
<1>1. op \in [V \X (1..N) -> V]
  <2> SUFFICES ASSUME NEW q \in V \X (1..N) PROVE R(q[1], q[2]) \in V
    OBVIOUS
  <2>1. q[1] \in V /\ q[2] \in 1..N
    OBVIOUS
  <2> HIDE DEF R
  <2> QED BY <1>a, <2>1 DEF R
<1>2. ASSUME NEW w \in V, NEW n \in 1..N PROVE op[<<w, n>>] = R(w, n)
  <2> DEFINE q == <<w, n>>
  <2>1. q \in V \X (1..N) /\ q[1] = w /\ q[2] = n
    OBVIOUS
  <2> HIDE DEF R, q
  <2>2. op[q] = R(q[1], q[2])
    BY <2>1
  <2> QED BY <2>1, <2>2 DEF q
<1>3. ASSUME NEW s \in SUBSET (1..N), s # {}
      PROVE  Max(s) = Greatest(s) /\ Greatest(s) \in 1..N
  BY <1>0, <1>3, GreatestIs DEF Max, Greatest
<1>c. \A n \in 1..N : [i \in 1..N |-> i][n] = n
  OBVIOUS
<1> HIDE DEF op, R, N, base
<1>4. PICK fold \in [SUBSET (1..N) -> V] : IsStepFold(fold, N, base, op)
  BY <1>0, <1>1, <1>b, StepsExist
<1>5. ASSUME NEW s \in SUBSET (1..N), s # {}
      PROVE  op[<<fold[s \ {Greatest(s)}], Greatest(s)>>]
                = R(fold[s \ {Max(s)}], [i \in 1..N |-> i][Max(s)])
  <2>1. fold[s \ {Greatest(s)}] \in V
    OBVIOUS
  <2>2. Max(s) = Greatest(s) /\ Greatest(s) \in 1..N
    BY <1>3, <1>5
  <2> QED BY <1>2, <1>c, <2>1, <2>2
<1>6. fold = body(fold)
  <2>1. fold = [s \in SUBSET (1..N) |-> fold[s]]
    OBVIOUS
  <2>2. \A s \in SUBSET (1..N) : fold[s] = body(fold)[s]
    BY <1>4, <1>5 DEF R, base, IsStepFold
  <2> QED BY <2>1, <2>2
<1>7. f = body(f)
  BY <1>6
<1>8. BreadthFirst(E, c) = Tail(f[1..N])
  BY <1>0 DEF BreadthFirst, FoldLeft, MapThenFoldSet, N
<1> HIDE DEF f
<1>9. f[{}] = base
  BY <1>7 DEF base
<1>10. ASSUME NEW s \in SUBSET (1..N), s # {}, f[s \ {Greatest(s)}] \in V
       PROVE  f[s] = op[<<f[s \ {Greatest(s)}], Greatest(s)>>]
  <2>1. f[s] = R(f[s \ {Max(s)}], [i \in 1..N |-> i][Max(s)])
    BY <1>7, <1>10 DEF R
  <2>2. Max(s) = Greatest(s) /\ Greatest(s) \in 1..N
    BY <1>3, <1>10
  <2> QED BY <1>2, <1>c, <1>10, <2>1, <2>2
<1>11. PICK h \in [0..N -> V] : InTurn(h, f, N, base, op)
  <2>1. StepsIn(f, N, V, base, op)
    BY <1>9, <1>10 DEF StepsIn
  <2> QED BY <1>0, <1>1, <1>b, <2>1, StepsTaken
<1>12. \A n \in 1..N : h[n] = R(h[n - 1], n)
  <2> SUFFICES ASSUME NEW n \in 1..N PROVE h[n] = R(h[n - 1], n)
    OBVIOUS
  <2>1. h[n - 1] \in V
    BY <1>0
  <2> QED BY <1>2, <1>11, <2>1 DEF InTurn
<1>13. h[0] = base /\ BreadthFirst(E, c) = Tail(h[N])
  BY <1>8, <1>11 DEF InTurn
<1> QED BY <1>12, <1>13 DEF R, N, base, V, U


\* What stands in line after n visits: c first, nobody twice, and all that
\* those visited lead to.
InLine(E, c, out, n) ==
    /\ out \in Seq(Ends(E, c)) /\ Len(out) >= 1 /\ out[1] = c
    /\ \A i, j \in 1..Len(out) : out[i] = out[j] => i = j
    /\ \A i \in 1..Len(out) : out[i] \in {c} \cup {e[2] : e \in E}
    /\ \A i \in 1..Len(out) : i <= n => From1(E, out[i]) \subseteq Range(out)

\* A visit keeps the line so.
LEMMA InLineStep ==
    ASSUME NEW E, WalkEdges(E), NEW c \in Cid, NEW n \in Nat, NEW out, InLine(E, c, out, n)
    PROVE  InLine(E, c, Visited(E, out, n + 1), n + 1)
<1> DEFINE U == Ends(E, c)
           fresh == From1(E, out[n + 1]) \ Range(out)
           new == Visited(E, out, n + 1)
           s == InOrder(fresh)
           L == Len(out)
           M == Cardinality(fresh)
<1>0. U \in SUBSET Cid /\ (\A e \in E : e[2] \in U) /\ n + 1 \in Nat
  BY DEF Ends, WalkEdges
<1>1. /\ new \in Seq(U)
      /\ n + 1 > L => new = out
      /\ ~(n + 1 > L) => new = out \o s
      /\ fresh \in SUBSET U /\ IsFiniteSet(fresh)
  BY <1>0, VisitedIs DEF InLine
<1>2. L \in Nat /\ L >= 1
  BY DEF InLine
<1>3. CASE n + 1 > L
  <2>1. \A i \in 1..L : i <= n
    BY <1>2, <1>3
  <2> QED BY <1>1, <1>3, <2>1 DEF InLine
<1>4. CASE ~(n + 1 > L)
  <2>1. fresh \in SUBSET Cid
    BY <1>0, <1>1
  <2> HIDE DEF fresh
  <2>2. /\ s \in Seq(fresh) /\ Len(s) = M
        /\ \A x \in fresh : \E i \in 1..M : s[i] = x
        /\ \A i, j \in 1..M : s[i] = s[j] => i = j
    BY <1>1, <2>1, InOrderIs
  <2>3. M \in Nat /\ \A i \in 1..M : s[i] \in fresh
    BY <1>1, <2>2, FS_CardinalityType
  <2>4. s \in Seq(U)
    BY <1>1, <2>2, SeqMonotonic
  <2> HIDE DEF s, new
  <2>5. new = out \o s
    BY <1>1, <1>4
  <2>6. /\ Len(new) = L + M
        /\ \A i \in 1..(L + M) : new[i] = IF i <= L THEN out[i] ELSE s[i - L]
    <3>1. out \in Seq(U)
      BY DEF InLine
    <3> HIDE DEF U, L, M
    <3>2. /\ Len(out \o s) = Len(out) + Len(s)
          /\ \A i \in 1..(Len(out) + Len(s)) :
                (out \o s)[i] = IF i <= Len(out) THEN out[i] ELSE s[i - Len(out)]
      BY <2>4, <3>1, ConcatProperties
    <3>3. Len(out) = L /\ Len(s) = M
      BY <2>2 DEF L
    <3> QED BY <2>5, <3>2, <3>3
  <2>7. \A i \in 1..L : i \in 1..Len(new) /\ new[i] = out[i]
    BY <1>2, <2>3, <2>6
  <2>8. \A i \in 1..M : L + i \in 1..Len(new) /\ new[L + i] = s[i]
    <3> SUFFICES ASSUME NEW i \in 1..M PROVE L + i \in 1..Len(new) /\ new[L + i] = s[i]
      OBVIOUS
    <3>1. L + i \in 1..(L + M) /\ ~(L + i <= L) /\ (L + i) - L = i
      BY <1>2, <2>3
    <3> QED BY <2>6, <3>1
  <2>9. \A i \in 1..Len(new) : i \in 1..L \/ \E j \in 1..M : i = L + j
    <3> SUFFICES ASSUME NEW i \in 1..Len(new), i \notin 1..L PROVE \E j \in 1..M : i = L + j
      OBVIOUS
    <3>1. i - L \in 1..M /\ i = L + (i - L)
      BY <1>2, <2>3, <2>6
    <3> QED BY <3>1
  <2>10. \A x : x \in Range(out) <=> \E i \in 1..L : x = out[i]
    <3>1. DOMAIN out = 1..L
      BY DEF InLine
    <3> QED BY <3>1 DEF Range
  <2>11. \A x : x \in Range(new) <=> \E i \in 1..Len(new) : x = new[i]
    <3>1. DOMAIN new = 1..Len(new)
      BY <1>1
    <3> QED BY <3>1 DEF Range
  <2>12. Range(out) \subseteq Range(new) /\ fresh \subseteq Range(new)
    <3>1. ASSUME NEW x \in Range(out) PROVE x \in Range(new)
      BY <2>7, <2>10, <2>11
    <3>2. ASSUME NEW x \in fresh PROVE x \in Range(new)
      <4>1. PICK i \in 1..M : s[i] = x
        BY <2>2
      <4>2. L + i \in 1..Len(new) /\ new[L + i] = x
        BY <2>8, <4>1
      <4> HIDE DEF L
      <4> QED BY <2>11, <4>2
    <3> QED BY <3>1, <3>2
  <2>13. Len(new) >= 1 /\ new[1] = c
    <3>1. 1 \in 1..L
      BY <1>2
    <3> QED BY <1>2, <2>3, <2>6, <2>7, <3>1 DEF InLine
  <2>14. ASSUME NEW i \in 1..Len(new), NEW j \in 1..Len(new), new[i] = new[j]
         PROVE  i = j
    <3>1. CASE i \in 1..L /\ j \in 1..L
      BY <2>7, <2>14, <3>1 DEF InLine
    <3>2. ASSUME NEW a \in 1..L, NEW b \in 1..M, new[a] = new[L + b] PROVE FALSE
      <4>1. out[a] = s[b]
        BY <2>7, <2>8, <3>2
      <4>2. out[a] \in Range(out) /\ s[b] \in fresh
        BY <2>3, <2>10
      <4> QED BY <4>1, <4>2 DEF fresh
    <3>3. CASE i \notin 1..L /\ j \notin 1..L
      <4>1. PICK p \in 1..M : i = L + p
        BY <2>9, <3>3
      <4>2. PICK q \in 1..M : j = L + q
        BY <2>9, <3>3
      <4>3. s[p] = s[q]
        BY <2>8, <2>14, <4>1, <4>2
      <4>4. p = q
        BY <2>2, <4>3
      <4> QED BY <4>1, <4>2, <4>4
    <3>4. CASE i \in 1..L /\ j \notin 1..L
      BY <2>9, <2>14, <3>2, <3>4
    <3>5. CASE i \notin 1..L /\ j \in 1..L
      BY <2>9, <2>14, <3>2, <3>5
    <3> QED BY <3>1, <3>3, <3>4, <3>5
  <2>15. ASSUME NEW i \in 1..Len(new) PROVE new[i] \in {c} \cup {e[2] : e \in E}
    <3>1. CASE i \in 1..L
      BY <2>7, <3>1 DEF InLine
    <3>2. CASE i \notin 1..L
      <4>1. new[i] \in fresh
        BY <2>3, <2>8, <2>9, <3>2
      <4> QED BY <4>1 DEF fresh, From1
    <3> QED BY <3>1, <3>2
  <2>16. ASSUME NEW i \in 1..Len(new), i <= n + 1 PROVE From1(E, new[i]) \subseteq Range(new)
    <3>1. i \in 1..L /\ (i <= n \/ i = n + 1)
      BY <1>2, <1>4, <2>16
    <3>2. new[i] = out[i]
      BY <2>7, <3>1
    <3>3. CASE i <= n
      BY <2>12, <3>1, <3>2, <3>3 DEF InLine
    <3>4. CASE i = n + 1
      <4>1. From1(E, out[n + 1]) \subseteq Range(out) \cup fresh
        BY DEF fresh
      <4> QED BY <2>12, <3>2, <3>4, <4>1
    <3> QED BY <3>1, <3>3, <3>4
  <2>17. InLine(E, c, new, n + 1)
    BY <1>1, <2>13, <2>14, <2>15, <2>16 DEF InLine
  <2> QED BY <2>17 DEF new
<1> QED BY <1>3, <1>4

\* No line is longer than one and the edges together.
LEMMA InLineShort ==
    ASSUME NEW E, WalkEdges(E), NEW c, NEW n, NEW out, InLine(E, c, out, n)
    PROVE  Len(out) <= Cardinality(E) + 1
<1> DEFINE T == {e[2] : e \in E}
           two == [e \in E |-> e[2]]
           L == Len(out)
<1>1. IsFiniteSet(T) /\ Cardinality(T) <= Cardinality(E)
  <2>1. DOMAIN two = E /\ T = {two[e] : e \in DOMAIN two}
    OBVIOUS
  <2> HIDE DEF two, T
  <2> QED BY <2>1, ImageFinite DEF WalkEdges
<1> HIDE DEF T
<1>2. IsFiniteSet(T \cup {c}) /\ Cardinality(T \cup {c}) <= Cardinality(T) + 1
  <2>1. IsFiniteSet(T \cup {c})
        /\ Cardinality(T \cup {c}) = IF c \in T THEN Cardinality(T) ELSE Cardinality(T) + 1
    BY <1>1, FS_AddElement
  <2>2. Cardinality(T) \in Nat
    BY <1>1, FS_CardinalityType
  <2> QED BY <2>1, <2>2
<1>3. L \in Nat /\ out \in [1..L -> T \cup {c}]
  <2>1. out \in Seq(Ends(E, c)) /\ \A i \in 1..L : out[i] \in T \cup {c}
    BY DEF InLine, T
  <2>2. L \in Nat /\ out = [i \in 1..L |-> out[i]]
    BY <2>1
  <2> HIDE DEF L
  <2> QED BY <2>1, <2>2
<1>4. out \in Injection(1..L, T \cup {c})
  BY <1>3 DEF Injection, IsInjective, InLine
<1>5. Cardinality(1..L) <= Cardinality(T \cup {c})
  BY <1>2, <1>4, FS_Injection
<1>6. Cardinality(1..L) = L
  BY <1>3, FS_Interval
<1>7. Cardinality(T) \in Nat /\ Cardinality(T \cup {c}) \in Nat /\ Cardinality(E) \in Nat
  BY <1>1, <1>2, FS_CardinalityType DEF WalkEdges
<1> QED BY <1>1, <1>2, <1>3, <1>5, <1>6, <1>7

\* closure has everything that is reached, but where it began.
LEMMA ClosureReaches ==
    ASSUME NEW E, WalkEdges(E), NEW c \in Cid, NEW d, Reaches(E, c, d), d # c
    PROVE  d \in Range(BreadthFirst(E, c))
<1> DEFINE N == Cardinality(E) + 1
<1>0. N \in Nat
  BY FS_CardinalityType DEF WalkEdges
<1>1. PICK h \in [0..N -> Seq(Ends(E, c))] :
         /\ h[0] = <<c>>
         /\ \A n \in 1..N : h[n] = Visited(E, h[n - 1], n)
         /\ BreadthFirst(E, c) = Tail(h[N])
  BY BreadthFirstIs
<1> DEFINE P == {n \in Nat : n <= N => InLine(E, c, h[n], n)}
<1>2. 0 \in P
  <2>1. c \in Ends(E, c)
    BY DEF Ends
  <2>2. h[0] \in Seq(Ends(E, c)) /\ Len(h[0]) = 1 /\ h[0][1] = c
    BY <1>1, <2>1
  <2>3. InLine(E, c, h[0], 0)
    BY <2>2 DEF InLine
  <2> QED BY <2>3
<1>3. ASSUME NEW n \in Nat, n \in P PROVE n + 1 \in P
  <2> SUFFICES ASSUME n + 1 <= N PROVE InLine(E, c, h[n + 1], n + 1)
    OBVIOUS
  <2>1. n + 1 \in 1..N /\ (n + 1) - 1 = n /\ n <= N
    BY <1>0
  <2>2. h[n + 1] = Visited(E, h[n], n + 1) /\ InLine(E, c, h[n], n)
    BY <1>1, <1>3, <2>1
  <2> QED BY <2>2, InLineStep
<1> HIDE DEF P
<1>4. N \in P
  BY <1>0, <1>2, <1>3, InductionSet
<1> DEFINE out == h[N]
           L == Len(out)
<1>5. InLine(E, c, out, N)
  BY <1>0, <1>4 DEF P
<1>6. L <= N
  BY <1>5, InLineShort
<1>7. BreadthFirst(E, c) = Tail(out)
  BY <1>1
<1> HIDE DEF out
<1>8. out \in Seq(Ends(E, c)) /\ L \in Nat /\ L >= 1 /\ out[1] = c /\ DOMAIN out = 1..L
  BY <1>5 DEF InLine
<1>9. \A x : x \in Range(out) <=> \E i \in 1..L : x = out[i]
  BY <1>8 DEF Range
<1>10. Closed(Range(out), E)
  <2> SUFFICES ASSUME NEW e \in E, e[1] \in Range(out) PROVE e[2] \in Range(out)
    BY DEF Closed
  <2>1. PICK i \in 1..L : e[1] = out[i]
    BY <1>9
  <2>2. i <= N
    BY <1>0, <1>6, <1>8
  <2>3. From1(E, out[i]) \subseteq Range(out)
    BY <1>5, <2>2 DEF InLine
  <2> QED BY <2>1, <2>3 DEF From1
<1>11. c \in Range(out)
  BY <1>8, <1>9
<1>12. PICK i \in 1..L : d = out[i]
  BY <1>9, <1>10, <1>11, ReachesMeaning
<1>13. i # 1
  BY <1>8, <1>12
<1>14. i - 1 \in 1..(L - 1) /\ (i - 1) + 1 = i
  BY <1>8, <1>13
<1>15. Tail(out) \in Seq(Ends(E, c)) /\ Len(Tail(out)) = L - 1
       /\ \A j \in 1..Len(Tail(out)) : Tail(out)[j] = out[j + 1]
  <2>1. out # << >>
    BY <1>8
  <2> QED BY <1>8, <2>1, HeadTailProperties
<1>16. Tail(out)[i - 1] = d /\ i - 1 \in DOMAIN Tail(out)
  BY <1>12, <1>14, <1>15
<1> QED BY <1>7, <1>16 DEF Range


\* What the dependencies of a graph are: finitely many, between identifiers.
LEMMA DependenciesAre ==
    ASSUME NEW G, GraphOK(G)
    PROVE  WalkEdges(DependsEdges(G))
<1> DEFINE R == Related(G, "depends")
           P == Of(G, "prose")
           f == [r \in R |-> <<Object[r].from, Object[r].to>>]
           body == [c \in P |-> {<<c, d>> : d \in Object[c].depends}]
           S == {body[c] : c \in DOMAIN body}
<1>1. R \subseteq G /\ P \subseteq G /\ IsFiniteSet(G) /\ G \subseteq Cid
  BY DEF Related, Of, GraphOK
<1>2. IsFiniteSet(R) /\ IsFiniteSet(P)
  BY <1>1, FS_Subset
<1>3. IsFiniteSet(Edges(G, "depends"))
  <2>1. DOMAIN f = R /\ Edges(G, "depends") = {f[r] : r \in DOMAIN f}
    BY DEF Edges
  <2> HIDE DEF f, R
  <2> QED BY <1>2, <2>1, ImageFinite
<1>4. Edges(G, "depends") \subseteq Cid \X Cid
  BY <1>1, GraphAssumption DEF Edges, Related, Of
<1>5. ASSUME NEW c \in P
      PROVE  IsFiniteSet(body[c]) /\ body[c] \subseteq Cid \X Cid
  <2>1. Object[c].depends \in SUBSET Cid /\ IsFiniteSet(Object[c].depends) /\ c \in Cid
    BY <1>1, ReadingAssumption DEF Of
  <2> DEFINE pair == [d \in Object[c].depends |-> <<c, d>>]
  <2>2. DOMAIN pair = Object[c].depends /\ body[c] = {pair[d] : d \in DOMAIN pair}
    OBVIOUS
  <2>3. IsFiniteSet({pair[d] : d \in DOMAIN pair})
    <3> HIDE DEF pair
    <3> QED BY <2>1, <2>2, ImageFinite
  <2>4. body[c] \subseteq Cid \X Cid
    <3>1. body[c] = {<<c, d>> : d \in Object[c].depends}
      OBVIOUS
    <3> HIDE DEF body
    <3> QED BY <2>1, <3>1
  <2>5. IsFiniteSet(body[c])
    <3> HIDE DEF body, pair
    <3> QED BY <2>2, <2>3
  <2> QED BY <2>4, <2>5
<1>6. UNION S = UNION {{<<c, d>> : d \in Object[c].depends} : c \in Of(G, "prose")}
  OBVIOUS
<1>7. DOMAIN body = P
  OBVIOUS
<1> HIDE DEF body, P
<1>8. IsFiniteSet(S) /\ \A T \in S : IsFiniteSet(T) /\ T \subseteq Cid \X Cid
  BY <1>2, <1>5, <1>7, ImageFinite
<1>9. IsFiniteSet(UNION S) /\ UNION S \subseteq Cid \X Cid
  BY <1>8, FS_UNION
<1>10. DependsEdges(G) = Edges(G, "depends") \cup UNION S
  BY <1>6 DEF DependsEdges
<1>11. IsFiniteSet(Edges(G, "depends") \cup UNION S)
  BY <1>3, <1>9, FS_Union
<1> QED BY <1>4, <1>9, <1>10, <1>11 DEF WalkEdges

\* Where something has been superseded, its lineage has another head.
LEMMA SupersededHasHead ==
    ASSUME NEW G, GraphOK(G), NEW mode, NEW e \in SupersedesEdges(G, mode)
    PROVE  Heads(G, e[2], mode) \ {e[2]} # {}
<1> DEFINE E == SupersedesEdges(G, mode)
           g == GenesisOf(G, e[2], mode)
           D == Reversed(E)
           back == <<e[2], e[1]>>
<1>1. LineageEdges(E)
  BY SupersedesAre
<1>2. \A x : x \in Lineage(G, e[2], mode) <=> Reaches(D, g, x)
  BY LineageIs
<1>3. e[2] \in Lineage(G, e[2], mode)
  BY InOwnLineage
<1>4. back \in D /\ back[1] = e[2] /\ back[2] = e[1]
  BY DEF Reversed
<1>5. IsFiniteSet(D)
  <2> DEFINE f == [x \in E |-> <<x[2], x[1]>>]
  <2>1. DOMAIN f = E /\ D = {f[x] : x \in DOMAIN f}
    BY DEF Reversed
  <2> HIDE DEF f, E, D
  <2> QED BY <1>1, <2>1, ImageFinite DEF LineageEdges
<1>6. EdgesAcyclic(D)
  <2> SUFFICES ASSUME NEW r \in D, Reaches(D, r[2], r[1]) PROVE FALSE
    BY DEF EdgesAcyclic
  <2>1. PICK x \in E : r = <<x[2], x[1]>>
    BY DEF Reversed
  <2>2. Reaches(D, x[1], x[2])
    BY <2>1
  <2>3. Reaches(Reversed(D), x[2], x[1])
    BY <2>2, ReachesBack
  <2>4. Reversed(D) = E
    <3>1. \A y \in E : y = <<y[1], y[2]>>
      BY <1>1 DEF LineageEdges
    <3>2. \A y \in E : <<<<y[2], y[1]>>[2], <<y[2], y[1]>>[1]>> = y
      BY <3>1
    <3>3. Reversed(D) = {<<<<y[2], y[1]>>[2], <<y[2], y[1]>>[1]>> : y \in E}
      BY DEF Reversed
    <3> HIDE DEF E, D
    <3> QED BY <3>2, <3>3
  <2> QED BY <1>1, <2>1, <2>3, <2>4 DEF LineageEdges, EdgesAcyclic
<1> HIDE DEF back, D, E, g
<1>7. PICK m : Reaches(D, e[1], m) /\ IsSink(D, m)
  BY <1>5, <1>6, WalkEnds
<1>8. Reaches(D, e[2], m)
  BY <1>4, <1>7, ReachesNext, ReachesOn
<1>9. m \in Lineage(G, e[2], mode)
  BY <1>2, <1>3, <1>8, ReachesOn
<1>10. \A x \in E : x[2] # m
  <2> SUFFICES ASSUME NEW x \in E, x[2] = m PROVE FALSE
    OBVIOUS
  <2> DEFINE r == <<x[2], x[1]>>
  <2>1. r \in D /\ r[1] = m
    BY DEF D, Reversed
  <2> QED BY <1>7, <2>1 DEF IsSink
<1>11. m # e[2]
  BY <1>10 DEF E
<1>12. m \in Heads(G, e[2], mode)
  BY <1>9, <1>10 DEF Heads, E
<1> QED BY <1>11, <1>12

\* report_staleness: whatever has come, in whatever order, `pub propose' says
\* that an object rests on something that has moved, wherever it does.
THEOREM MovesAreShown == EvidenceSpec => []MovesShow
<1>1. Init /\ policy = None => GrowthInv
  BY GrowthInit
<1>2. GrowthInv /\ [EvidenceNext]_evars => GrowthInv'
  BY GrowthStep
<1>3. GrowthInv => MovesShow
  <2> SUFFICES ASSUME GrowthInv, NEW c \in Of(graph, "prose"),
                      ~DependsClosureFails(graph, c),
                      NEW e \in SupersedesEdges(graph, "authoritative"),
                      Reaches(DependsEdges(graph), c, e[2]), e[2] # c
               PROVE  Stale(graph, c)
    BY DEF MovesShow
  <2>1. GraphOK(graph) /\ c \in Cid
    BY DEF GrowthInv, GraphOK, Of
  <2>2. e[2] \in Range(DependsClosure(graph, c))
    BY <2>1, DependenciesAre, ClosureReaches DEF DependsClosure
  <2>3. Heads(graph, e[2], "authoritative") \ {e[2]} # {}
    BY <2>1, SupersededHasHead
  <2>4. RestsOnOld(graph, c)
    BY <2>2, <2>3 DEF RestsOnOld
  <2> QED BY <2>4 DEF Stale
<1> QED BY <1>1, <1>2, <1>3, PTL DEF EvidenceSpec

================================================================================
