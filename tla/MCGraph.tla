------------------------------ MODULE MCGraph ---------------------------------
(***************************************************************************)
(* Readers loading different things.  Some load directories that can go    *)
(* wrong in each way a load checks: three `supersedes' relations that      *)
(* close a cycle together, verdicts on what may not be judged, an anchor   *)
(* into a lineage, a dispute whose grounds may be missing, bytes that do   *)
(* not parse.                                                              *)
(*                                                                         *)
(* One follows a lineage: key k revises v1 as v2 and delegates to d, who   *)
(* revises v2 as v3, and may withdraw that; k2 is rotated from k and       *)
(* revises v2 as v4; e proposes e1 for v1.  One hears opinions of the      *)
(* formal claim o, from keys its root r trusts, one of them on a subject   *)
(* only, and from s and t, who trust each other; one hears of disputes and *)
(* proofs of o.  One receives reproductions of the empirical claim m by    *)
(* keys that may turn out to be colleagues, one person, or paid by one     *)
(* funder.  One compares claims of k and e that define a word differently,  *)
(* as d1 and d2, while k revises d1 and e claims that d2 replaces it, means *)
(* the same or rests on it.  One asks for the value f1 states of the thing *)
(* s1, which k revises and e would replace; one hears doubts of it, and    *)
(* their withdrawal.  These have part of what they load already.           *)
(***************************************************************************)
EXTENDS Reading

CONSTANTS x, y, z, xy, yz, zx, judged, sourced, copy, argued, anchored, broken,
          k, d, e, k2, v1, v2, v3, v4, e1,
          rev12, rev23, rev24, prop, del, undel, sigk, sigk2,
          r, a, b, s, t, o, topic, ra, rb, rbTopic, st, ts, isTopic,
          yes, no, noS, grounds, argue, settle, proof,
          m, f, g, h, yesM, agreeF, agreeG, agreeH, againstH, same, atF, atG,
          lab, grant, one, two, idle,
          word, d1, d1b, d2, c1, c2, c3, revd, claimd, eqv, leans, deld,
          s1, s2, f1, f2, fe, revs, revf, propf, keep,
          denyF, unsureF, argueF, dropK, dropE, dropArgue, settleF,
          undelE, hide, loop

Order == <<v1, v2, v3, v4, e1, k, d, e, k2,
           rev12, rev23, rev24, prop, del, undel, sigk, sigk2,
           r, a, b, s, t, o, topic, ra, rbTopic, rb, st, ts, isTopic,
           yes, no, noS, grounds, argue, settle, proof,
           m, f, g, h, yesM, agreeF, agreeG, agreeH, againstH, same, atF, atG, one, two, idle,
           x, y, z, xy, yz, zx, judged, sourced, copy, argued, anchored, broken,
           d1, d1b, d2, c1, c2, c3, revd, claimd, eqv, leans, deld,
           s1, s2, f1, f2, fe, revs, revf, propf, keep,
           denyF, unsureF, argueF, dropK, dropE, dropArgue, settleF,
           undelE, hide, loop>>

MCCid == {Order[i] : i \in DOMAIN Order}
MCIdOrder == [c \in MCCid |-> CHOOSE i \in DOMAIN Order : Order[i] = c]

Base == [type |-> "key", author |-> k, form |-> "sound", kind |-> None, value |-> TRUE,
         from |-> None, to |-> None, aspect |-> None, depends |-> {}]

\* Claims: identifier, author, class, aspect, what they depend on.
Claims == {
    <<v1, k, "empirical", None, {}>>, <<v2, k, "empirical", None, {}>>,
    <<v3, d, "empirical", None, {}>>, <<v4, k2, "empirical", None, {}>>,
    <<e1, e, "empirical", None, {}>>,
    <<o, k, "formal", None, {}>>, <<topic, k, "definitional", None, {}>>,
    <<grounds, b, "empirical", None, {}>>, <<m, k, "empirical", None, {}>>,
    <<x, k, "empirical", None, {}>>, <<y, k, "empirical", None, {}>>,
    <<z, k, "normative", None, {}>>,
    <<d1, k, "definitional", word, {}>>, <<d1b, k, "definitional", word, {}>>,
    <<d2, e, "definitional", word, {}>>,
    <<c1, k, "empirical", None, {d1}>>, <<c2, e, "empirical", None, {d2}>>,
    <<c3, k, "empirical", None, {c1}>>,
    <<s1, k, "definitional", None, {}>>, <<s2, k, "definitional", None, {}>>,
    <<f1, k, "empirical", s1, {}>>, <<f2, k, "empirical", s2, {}>>,
    <<fe, e, "empirical", s1, {}>> }

\* Relations: identifier, author, kind, from, to.
Relations == {
    <<rev12, k, "supersedes", v2, v1>>, <<rev23, d, "supersedes", v3, v2>>,
    <<rev24, k2, "supersedes", v4, v2>>, <<prop, e, "supersedes", e1, v1>>,
    <<del, k, "delegates", k, d>>, <<undel, k, "retracts", v1, del>>,
    <<undelE, e, "retracts", v1, del>>, <<hide, e, "supersedes", v2, e1>>,
    <<argue, b, "disputes", grounds, o>>,
    <<xy, k, "supersedes", x, y>>, <<yz, k, "supersedes", y, z>>,
    <<zx, k, "supersedes", z, x>>,
    <<copy, k, "derived-from", x, y>>, <<argued, k, "disputes", z, y>>,
    <<revd, k, "supersedes", d1b, d1>>, <<claimd, e, "supersedes", d2, d1>>,
    <<eqv, e, "equivalent", d2, d1>>, <<leans, e, "depends", d2, d1>>,
    <<loop, e, "depends", d1, c1>>, <<deld, k, "delegates", k, e>>,
    <<revs, k, "supersedes", s2, s1>>, <<revf, k, "supersedes", f2, f1>>,
    <<propf, e, "supersedes", fe, f1>>, <<argueF, e, "disputes", fe, f1>>,
    <<dropK, k, "retracts", f1, denyF>>, <<dropE, e, "retracts", fe, denyF>>,
    <<dropArgue, e, "retracts", denyF, fe>> }

Trusts(weight, subjects)    == [weight |-> weight, subjects |-> subjects]
Settled(outcome, funding)   == [outcome |-> outcome, materials |-> FALSE, funding |-> funding]
Affiliated(from, until)     == [org |-> lab, from |-> from, until |-> until]
Resolved(outcome, resolves) == [outcome |-> outcome, grounds |-> {resolves}]

\* Annotations: identifier, author, kind, of what, what they say.
Notes == {
    <<ra, r, "trusts", a, Trusts(2, {})>>, <<rb, r, "trusts", b, Trusts(1, {})>>,
    <<rbTopic, r, "trusts", b, Trusts(3, {topic})>>,
    <<st, s, "trusts", t, Trusts(1, {})>>, <<ts, t, "trusts", s, Trusts(1, {})>>,
    <<isTopic, k, "classifies", o, topic>>,
    <<yes, a, "verdict", o, "affirm">>, <<no, b, "verdict", o, "deny">>,
    <<noS, s, "verdict", o, "deny">>, <<yesM, r, "verdict", m, "affirm">>,
    <<settle, t, "resolution", o, Resolved("sustained", grounds)>>,
    <<proof, s, "settled", o, Settled("verified", None)>>,
    <<agreeF, f, "settled", m, Settled("consistent", None)>>,
    <<agreeG, g, "settled", m, Settled("consistent", grant)>>,
    <<agreeH, h, "settled", m, Settled("consistent", grant)>>,
    <<againstH, h, "settled", m, Settled("inconsistent", None)>>,
    <<same, s, "attests", g, f>>,
    <<atF, k, "affiliated", f, Affiliated(0, 4)>>,
    <<atG, k, "affiliated", g, Affiliated(4, None)>>,
    <<judged, k, "verdict", z, "affirm">>, <<sourced, k, "verdict", copy, "affirm">>,
    <<denyF, e, "verdict", f1, "deny">>,
    <<unsureF, k, "assessment", f1, "undetermined">>,
    <<settleF, k, "resolution", fe, Resolved("overruled", fe)>> }

\* Policies: identifier, roots, threshold, rounds.
Policies == { <<one, r :> 1, 66, 3>>, <<two, r :> 2 @@ a :> 1, 55, 1>>, <<idle, r :> 0, 66, 3>> }

\* Each object beside its identifier.
Objects ==
    {<<row[1], [Base EXCEPT !.type = "prose", !.author = row[2], !.kind = row[3],
                            !.value = "open", !.aspect = row[4], !.depends = row[5]]>>
       : row \in Claims} \cup
    {<<row[1], [Base EXCEPT !.type = "relation", !.author = row[2], !.kind = row[3],
                            !.from = row[4], !.to = row[5],
                            !.aspect = IF row[3] = "delegates" THEN "lineage" ELSE None]>>
       : row \in Relations} \cup
    {<<row[1], [Base EXCEPT !.type = "annotation", !.author = row[2], !.kind = row[3],
                            !.to = row[4], !.value = row[5],
                            !.aspect = IF row[1] = sourced THEN "provenance" ELSE None]>>
       : row \in Notes} \cup
    {<<row[1], [Base EXCEPT !.type = "policy", !.value =
                   [ roots |-> row[2], tau |-> row[3], iterations |-> row[4],
                     damping |-> 85, deltaMax |-> 29, floor |-> 2 ]]>>
       : row \in Policies} \cup
    {<<row[1], [Base EXCEPT !.type = "anchor", !.author = row[2], !.from = row[3], !.to = row[4]]>>
       : row \in {<<anchored, k, y, x>>, <<keep, e, f1, f1>>}} \cup
    {<<row[1], [Base EXCEPT !.type = "sig", !.author = row[2], !.kind = "rotation", !.to = k2]>>
       : row \in {<<sigk, k>>, <<sigk2, k2>>}} \cup
    {<<key, [Base EXCEPT !.author = key, !.to = IF key = k2 THEN k ELSE None]>>
       : key \in {k, d, e, k2, r, a, b, s, t, f, g, h}} \cup
    {<<broken, [Base EXCEPT !.form = "garbled"]>>}

MCObject == [c \in MCCid |-> (CHOOSE object \in Objects : object[1] = c)[2]]

MCImplied == [c \in MCCid |-> IF c = f1 THEN "confirmed" ELSE "estimate"]

\* What is loaded already, and what is to come.
Following ==
    { [ given |-> {k, d, e, k2, v1, v2},
        pool  |-> {v3, v4, e1, rev12, rev23, rev24, prop, del, undel, sigk, sigk2} ],
      [ given |-> {r, a, b, s, t, k, topic, o, yes},
        pool  |-> {one, two, ra, rb, rbTopic, st, ts, isTopic, no, noS} ],
      [ given |-> {r, a, b, k, o, ra, rb},
        pool  |-> {one, two, idle, yes, no, grounds, argue, settle, proof} ],
      [ given |-> {r, f, g, m, yesM},
        pool  |-> {one, h, agreeF, agreeG, agreeH, againstH, same, atF, atG} ],
      [ given |-> {k, e, d1, d2, c1, c2},
        pool  |-> {d1b, c3, revd, claimd, eqv, leans, deld} ],
      [ given |-> {k, e, s1, f1},
        pool  |-> {s2, f2, fe, revs, revf, propf, keep} ],
      [ given |-> {k, e, s1, f1},
        pool  |-> {fe, denyF, unsureF, argueF, dropK, dropE, dropArgue, settleF} ] }

\* Directories: everything, but for some of what can go wrong.
Loading ==
    { [ given |-> {k, y},
        pool  |-> {x, z, xy, yz, zx, judged, sourced, copy, argued, anchored, broken} \ out ]
      : out \in SUBSET {z, zx, judged, argued, broken} }

\* Readers of what e files from objects of k's.
Meddled ==
    { [ given |-> {k, d, e, v1, v2, rev12}, pool |-> {del, undelE, e1, hide} ],
      [ given |-> {k, e, d1, c1}, pool |-> {loop} ] }

MCInit ==
    /\ \E reader \in Following \cup Loading \cup Meddled :
         /\ dir = reader.given \cup reader.pool
         /\ pending = reader.pool
         /\ graph = reader.given
    /\ deferred = {} /\ phase = "first" /\ policy = None

MCSpec == MCInit /\ [][EvidenceNext]_evars

=============================================================================
