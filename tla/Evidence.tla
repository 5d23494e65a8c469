------------------------------ MODULE Evidence -------------------------------
(***************************************************************************)
(* What a reader's viewpoint makes of the evidence it holds: crates/       *)
(* publet-eval (gather.rs, standing.rs, policy.rs, propagate.rs), crates/  *)
(* publet-algorithms (propagate.rs, fixed.rs), `pub why', `pub policy' and *)
(* `pub-index'.                                                            *)
(*                                                                         *)
(* The graph is GraphLoad's, growing as objects come.  A standing is kept  *)
(* nowhere: it is worked out from the graph and the policy the workspace   *)
(* points to whenever it is asked for, so evidence that comes late, in any *)
(* order and from anyone, may change it.  Object[c].value is the rest of   *)
(* an object's body:                                                       *)
(*                                                                         *)
(*   verdict      "affirm", "deny" or "abstain"                            *)
(*   settled      outcome, materials (whether shared), funding             *)
(*   resolution   outcome, grounds                                         *)
(*   attests      the key said to be the same person's                     *)
(*   affiliated   org, from (0: since ever), until (None: still)           *)
(*   trusts       weight, subjects ({}: unconfined)                        *)
(*   classifies   the subject                                              *)
(*   key          whether it declares a human principal                    *)
(*   prose        its reproducibility class                                *)
(*   policy       roots, damping, iterations, tau, deltaMax, floor         *)
(***************************************************************************)
EXTENDS Lineage, Integers, Sequences, FiniteSets, FiniteSetsExt, SequencesExt, TLC

CONSTANT Scale      \* one, in fixed point (10^6 in the code)

\* MAX_ITERATIONS
MaxIterations == 200

\* Weights are natural numbers: a damping beyond one, which nothing in the code
\* refuses, would make the roots' own share negative and is left out.
ASSUME EvidenceAssumption ==
    /\ Scale \in Nat \ {0}
    /\ \A c \in Cid : Object[c].type = "policy" =>
         LET p == Object[c].value
         IN  /\ {p.iterations, p.tau, p.deltaMax, p.floor} \subseteq Nat
             /\ p.damping \in 0..Scale
             /\ IsFiniteSet(DOMAIN p.roots) /\ \A k \in DOMAIN p.roots : p.roots[k] \in Nat
    /\ \A c \in Cid :
         (/\ Object[c].type = "annotation" /\ Object[c].kind = "trusts"
          /\ Object[c].form = "sound") => Object[c].value.weight \in Nat

VARIABLE policy     \* the policy the workspace points to, or None

evars == <<vars, policy>>

----------------------------------------------------------------------------
(* Fixed point: products are taken before quotients, which truncate.       *)

MulDiv(a, num, den) == IF den = 0 THEN 0 ELSE (a * num) \div den
Times(a, b)         == (a * b) \div Scale
Ratio(a, b)         == MulDiv(a, Scale, b)

----------------------------------------------------------------------------
(* Policies.                                                               *)

\* `pub policy' refuses a policy only if it has no root.
Authorable(p) == DOMAIN p.roots # {}

\* Policy::from_object: some root has weight, and iterations are bounded.
Readable(p) ==
    /\ \E k \in DOMAIN p.roots : p.roots[k] # 0
    /\ p.iterations <= MaxIterations

----------------------------------------------------------------------------
(* Trust.                                                                  *)

Annotations(g, kind) == {a \in Of(g, "annotation") : Object[a].kind = kind}
AnnotationsOf(g, kind, c) == {a \in Annotations(g, kind) : Object[a].to = c}

\* trust_edges: of several by one key on another, the first in identifier order.
TrustEdges(g) ==
    {t \in Annotations(g, "trusts") :
        \A u \in AnnotationsOf(g, "trusts", Object[t].to) :
            Author(u) = Author(t) => IdOrder[t] <= IdOrder[u]}

\* subjects_of
SubjectsOf(g, c) ==
    {Object[a].value : a \in {x \in AnnotationsOf(g, "classifies", c) : ~IsRetracted(g, x)}}

\* Mutant: every edge applies whatever is asked.
EdgesWithinAny(g, subjects) == TrustEdges(g)

\* propagate_within: a confined edge applies to a query in one of its subjects.
EdgesWithin(g, subjects) ==
    {t \in TrustEdges(g) :
        LET confined == Object[t].value.subjects
        IN  confined = {} \/ confined \cap subjects # {}}

\* Mutant: what a key confers is not shared out.
FractionWhole(edges, t) == Scale

\* What share of what its author confers goes along an edge.
Fraction(edges, t) ==
    MulDiv(Object[t].value.weight, Scale,
           SumFunction([u \in {u \in edges : Author(u) = Author(t)} |-> Object[u].value.weight]))

\* The function itself: comparing it has TLC tabulate it.
Tabulated(f) == CHOOSE g \in {f} : g = f

\* propagate_all: the keys weighed, the seeds, what comes along an edge, a
\* round, and exactly as many rounds from the seeds as the policy says.
Weighed(p, edges) == DOMAIN p.roots \cup {Object[t].to : t \in edges}

Seeds(p, edges) ==
    LET total == SumFunction(p.roots)
    IN  [k \in Weighed(p, edges) |->
            IF k \in DOMAIN p.roots THEN MulDiv(p.roots[k], Scale, total) ELSE 0]

Along(p, edges, w, t) == Times(Times(w[Author(t)], Fraction(edges, t)), p.damping)

Round(p, edges, w) ==
    LET keys    == Weighed(p, edges)
        seeds   == Seeds(p, edges)
        into(k) == {t \in edges : Object[t].to = k /\ Author(t) \in keys}
    IN  [k \in keys |->
            Times(seeds[k], Scale - p.damping) +
            SumFunction([t \in into(k) |-> Along(p, edges, w, t)])]

Propagated(p, edges) ==
    FoldLeft(LAMBDA w, i : Tabulated(Round(p, edges, w)),
             Tabulated(Seeds(p, edges)), [i \in 1..p.iterations |-> i])

Weights(p, g, subjects) == Propagated(p, EdgesWithin(g, subjects))

\* Mutant: a key the walk did not reach counts as one.
WeightOfAll(keys, weights) ==
    SumFunction([k \in keys |-> IF k \in DOMAIN weights THEN weights[k] ELSE Scale])

\* weight_of
WeightOf(keys, weights) == SumFunctionOnSet(weights, keys \cap DOMAIN weights)

----------------------------------------------------------------------------
(* Evidence.                                                               *)

\* authored_by_human: a key that is not held is nobody's.
Human(g, key) == key \in Of(g, "key") /\ Object[key].value

Signers(g, c, finding) ==
    {Author(a) : a \in {v \in AnnotationsOf(g, "verdict", c) : Object[v].value = finding}}

\* Mutant: of two who name each other only the one named second is seen.
SamePersonOneWay(g, k, l) ==
    \E a \in AnnotationsOf(g, "attests", k) : Object[a].value = l

\* same_person_links, in either direction
SamePerson(g, k, l) ==
    \/ \E a \in AnnotationsOf(g, "attests", k) : Object[a].value = l
    \/ \E a \in AnnotationsOf(g, "attests", l) : Object[a].value = k

\* shares_affiliation: an absent bound is open.
Overlap(a, b) ==
    /\ a.org = b.org
    /\ b.until = None \/ a.from <= b.until
    /\ a.until = None \/ b.from <= a.until

SharesAffiliation(g, k, l) ==
    \E a \in AnnotationsOf(g, "affiliated", k), b \in AnnotationsOf(g, "affiliated", l) :
        Overlap(Object[a].value, Object[b].value)

\* The two who filed r and s are not independent of each other.
Tied(g, r, s) ==
    LET mine   == Author(r)
        theirs == Author(s)
    IN  \/ mine = theirs
        \/ SamePerson(g, mine, theirs)
        \/ Object[r].value.funding # None /\ Object[r].value.funding = Object[s].value.funding
        \/ SharesAffiliation(g, mine, theirs)

\* Reproductions that count toward independence.
Eligible(g, c, outcome) ==
    {r \in AnnotationsOf(g, "settled", c) :
        /\ Object[r].value.outcome = outcome
        /\ ~Object[r].value.materials
        /\ Human(g, Author(r))}

\* independent_groups: the components of what is tied.
Parties(g, filed) ==
    LET ties == {e \in filed \X filed : Tied(g, e[1], e[2])}
    IN  Cardinality({Reachable(ties, r) : r \in filed})

\* settled_grounds: only a resolution that was sustained settles.
SettledGrounds(g, c) ==
    UNION {Object[a].value.grounds : a \in
        {r \in AnnotationsOf(g, "resolution", c) : Object[r].value.outcome = "sustained"}}

\* Mutant: the test for settled grounds is the wrong way round.
ArguingSettled(g, c) ==
    {Author(d) : d \in {d \in Of(g, "prose") :
        <<d, c>> \in Edges(g, "disputes") /\ d \in SettledGrounds(g, c)}}

\* A dispute counts if it names a claim, and grounds not settled already.
Arguing(g, c) ==
    {Author(d) : d \in {d \in Of(g, "prose") :
        <<d, c>> \in Edges(g, "disputes") /\ d \notin SettledGrounds(g, c)}}

\* evidence_for
EvidenceFor(g, c) ==
    [ affirm     |-> Signers(g, c, "affirm"),
      deny       |-> Signers(g, c, "deny"),
      argued     |-> Arguing(g, c),
      proved     |-> /\ Object[c].kind = "formal"
                     /\ \E a \in AnnotationsOf(g, "settled", c) :
                            Object[a].value.outcome = "verified",
      consistent   |-> Parties(g, Eligible(g, c, "consistent")),
      inconsistent |-> Parties(g, Eligible(g, c, "inconsistent")),
      repeats    |-> Object[c].value,
      retracted  |-> IsRetracted(g, c) ]

----------------------------------------------------------------------------
(* Standing.                                                               *)

ReplicationOk(p, class, ev) ==
    \/ class # "empirical"
    \/ ev.repeats = "unique-event" /\ ev.consistent >= 1
    \/ ev.repeats \in {"open", "destructive"} /\ ev.consistent >= p.floor

\* The divergence factor.
Delta(p, affirm, argued) == Min({p.deltaMax, MulDiv(p.deltaMax, argued, affirm + argued)})

\* outcome's comparison of weights, once proof and reproduction are done with.
ByWeight(p, class, ev, affirm, deny, delta) ==
    LET total     == affirm + deny
        threshold == p.tau + delta
    IN  CASE total = 0                       -> "undetermined"
          [] total # 0 /\ Ratio(deny, total) >= threshold -> "rejected"
          [] total # 0 /\ Ratio(deny, total) < threshold /\ Ratio(affirm, total) >= threshold ->
                IF ReplicationOk(p, class, ev) THEN "accepted" ELSE "unreplicated"
          [] OTHER                           -> "contested"

\* outcome
Outcome(p, class, ev, affirm, deny, delta) ==
    IF class \in NotTruthApt THEN "not-truth-apt"
    ELSE IF ev.retracted THEN "rejected"
    ELSE IF class = "formal" /\ ev.proved THEN "accepted"
    ELSE IF class = "empirical" /\ ev.inconsistent > 0 THEN "rejected"
    ELSE ByWeight(p, class, ev, affirm, deny, delta)

\* evaluate
Evaluate(p, class, ev, weights) ==
    LET affirm == WeightOf(ev.affirm, weights)
        deny   == WeightOf(ev.deny, weights)
    IN  Outcome(p, class, ev, affirm, deny,
                Delta(p, affirm, WeightOf(ev.argued, weights)))

\* pub why: within the subjects of what is asked about.
Standing(p, g, c) ==
    Evaluate(p, Object[c].kind, EvidenceFor(g, c), Weights(p, g, SubjectsOf(g, c)))

\* The policy pointed to, if it can be read.
Viewpoint == Object[policy].value
Evaluates == policy # None /\ Readable(Viewpoint)

----------------------------------------------------------------------------

\* `pub policy': the object is put, and the workspace points to it; whether
\* it can be read is found out by whoever evaluates.
Adopt(c) ==
    /\ phase = "first" /\ c \in pending /\ Object[c].type = "policy"
    /\ Authorable(Object[c].value)
    /\ pending' = pending \ {c}
    /\ graph' = graph \cup {c}
    /\ policy' = c
    /\ UNCHANGED <<dir, deferred, phase>>

\* GraphLoad's steps, under one policy.
Arrive(c) == Object[c].type # "policy" /\ Take(c) /\ UNCHANGED policy
Again(c)  == Retry(c) /\ UNCHANGED policy
Passed    == EndOfPass /\ UNCHANGED policy
Checked   == Validate /\ UNCHANGED policy

EvidenceNext ==
    \/ \E c \in Cid : Arrive(c) \/ Again(c) \/ Adopt(c)
    \/ Passed
    \/ Checked

EvidenceSpec == Init /\ policy = None /\ [][EvidenceNext]_evars

----------------------------------------------------------------------------
(* Properties.                                                             *)

\* Trust is handed on and never made: whatever keys vouch for each other, the
\* weights of all of them come to no more than the roots' own.
TrustConserved ==
    Evaluates =>
        \A o \in Of(graph, "prose") :
            LET w == Weights(Viewpoint, graph, SubjectsOf(graph, o))
            IN  WeightOf(DOMAIN w, w) <= Scale

\* Keys someone with standing vouches for, on anything.
Vouched(p, g) ==
    UNION {Reachable({<<Author(t), Object[t].to>> : t \in Annotations(g, "trusts")}, k)
             : k \in DOMAIN p.roots}

\* What a key may say of claims that are to be weighed: verdicts, whom it
\* trusts, and grounds of its own against something.
Opinion(c) ==
    \/ Object[c].type = "annotation" /\ Object[c].kind \in {"verdict", "trusts"}
    \/ Object[c].type = "relation" /\ Object[c].kind = "disputes" /\ ~FromAnothers(c)
    \/ Object[c].type = "prose"

\* The opinions of keys nobody with standing vouches for move no standing,
\* however many they are and however they vouch for each other: only what
\* they take back of their own can.
StrangersMoveNothing ==
    [][\A c \in graph' \ graph :
        (/\ Evaluates /\ Opinion(c) /\ ~Withdraws(graph, c)
         /\ Author(c) \notin Vouched(Viewpoint, graph')) =>
            \A o \in Of(graph, "prose") :
                Standing(Viewpoint, graph', o) = Standing(Viewpoint, graph, o)]_evars

\* A key trusted on one subject weighs nothing on a claim outside it: the
\* walk goes along edges that apply to the claim and no others.
WeightWithinSubjects ==
    Evaluates =>
        \A o \in Of(graph, "prose") :
            LET subjects == SubjectsOf(graph, o)
                applies(t) == \/ Object[t].value.subjects = {}
                              \/ Object[t].value.subjects \cap subjects # {}
                w == Weights(Viewpoint, graph, subjects)
            IN  \A k \in DOMAIN w : w[k] # 0 => \E r \in DOMAIN Viewpoint.roots :
                    Reaches({<<Author(t), Object[t].to>> :
                                t \in {t \in Annotations(graph, "trusts") : applies(t)}}, r, k)

\* Whatever a key weighs was handed to it by a root, on the subject at hand,
\* and no more than the roots had.
TrustEarned == TrustConserved /\ WeightWithinSubjects

\* What meets the floor: as many people as it asks for who reproduced the
\* claim, no two of whom anyone has tied to each other.
FloorMetByIndependent ==
    Evaluates =>
        \A o \in Of(graph, "prose") :
            (/\ Object[o].kind = "empirical" /\ Object[o].value = "open"
             /\ Standing(Viewpoint, graph, o) = "accepted")
            => \E S \in SUBSET Eligible(graph, o, "consistent") :
                 /\ Cardinality(S) >= Viewpoint.floor
                 /\ \A r, s \in S : r # s =>
                      /\ Author(r) # Author(s)
                      /\ \/ Object[r].value.funding = None
                         \/ Object[r].value.funding # Object[s].value.funding
                      /\ ~SharesAffiliation(graph, Author(r), Author(s))
                      /\ \A a \in Annotations(graph, "attests") :
                           {Object[a].to, Object[a].value} # {Author(r), Author(s)}

\* A reproduction that ties no two parties together.
BridgesNothing(g, r, o) ==
    \A s, t \in Eligible(g, o, "consistent") :
        Tied(g, r, s) /\ Tied(g, r, t) => s = t

\* What supports a claim: an affirmation, a checked proof, the grounds of a
\* dispute settled, one more reproduction that agrees.
Supports(g, c, o) ==
    /\ Object[c].type = "annotation" /\ Object[c].to = o
    /\ \/ Object[c].kind = "verdict" /\ Object[c].value = "affirm"
       \/ Object[c].kind = "resolution"
       \/ /\ Object[c].kind = "settled"
          /\ Object[c].value.outcome \in {"verified", "consistent"}
          /\ BridgesNothing(g, c, o)

\* Support that comes late unseats nothing: under a policy that asks for more
\* than half, no such arrival takes acceptance away, unless it withdraws.
SupportNeverUnseats ==
    [][\A c \in graph' \ graph : \A o \in Of(graph, "prose") :
        (/\ Evaluates /\ 2 * Viewpoint.tau > Scale
         /\ Supports(graph, c, o) /\ ~Withdraws(graph, c)
         /\ Standing(Viewpoint, graph, o) = "accepted")
        => Standing(Viewpoint, graph', o) = "accepted"]_evars

\* Standings move with those who have a say and in the direction they argue.
StandingsEarned == StrangersMoveNothing /\ SupportNeverUnseats

=============================================================================
