------------------------------ MODULE Auditing -------------------------------
(***************************************************************************)
(* A domain whose membership roots are entered in a log, an auditor who    *)
(* keeps the size and root of the log it last accepted, and anyone who     *)
(* asks whether something is a member (server.rs `proof', bin/pub-proof).  *)
(*                                                                         *)
(* Proofs come from someone who need not be honest: they may be made for   *)
(* another position, size or history, cut short or extended.  A publisher  *)
(* may change an entry it has already shown.                               *)
(***************************************************************************)
EXTENDS Merkle, SequencesExt

CONSTANTS
    Cid,                \* what may be a member: naturals, ordered as such
    Memberships,        \* the memberships later generations have
    MaxGenerations      \* how many generations are published

ASSUME AuditingAssumption ==
    /\ Cid \in SUBSET Nat /\ IsFiniteSet(Cid) /\ Cardinality(Cid) \in Word
    /\ Memberships \subseteq SUBSET Cid
    /\ MaxGenerations \in Word \ {0}

VARIABLES
    history,    \* the membership of each generation, as the publisher tells it
    seen        \* the history behind the size and root the auditor keeps

auditVars == <<history, seen>>

\* The log of generations is external: the repository has the functions and
\* says whose roots its leaves are (log.rs:11), but no code of it keeps one.
Leaves(h)  == [i \in DOMAIN h |-> LeafHash(MembershipRoot(h[i]))]
LogRoot(h) == Root(Leaves(h))

AuditInit == (\E genesis \in SUBSET Cid : history = <<genesis>>) /\ seen = <<>>

\* A publisher enters its next generation.
Enter(members) ==
    /\ Len(history) < MaxGenerations
    /\ history' = Append(history, members)
    /\ UNCHANGED seen

\* A publisher goes back on one generation the auditor has seen.
Rewrite(i, members) ==
    /\ IsPrefix(seen, history)
    /\ i <= Len(seen) /\ history[i] # members
    /\ history' = [history EXCEPT ![i] = members]
    /\ UNCHANGED seen

\* What may be handed over as a consistency proof: one made of the true
\* history, or of one that does extend what the auditor has seen, for any
\* size, and the same cut short or extended.
Offered ==
    LET old     == LogRoot(seen)
        new     == LogRoot(history)
        spliced == seen \o SubSeq(history, Len(seen) + 1, Len(history))
        honest  == {ConsistencyProof(leaves, m) :
                       leaves \in {Leaves(history), Leaves(spliced)}, m \in 0..Len(history)}
    IN  honest \cup {Tail(p) : p \in honest \ {<<>>}}
               \cup {<<old>> \o p : p \in honest} \cup {Append(p, new) : p \in honest}

Audit ==
    /\ seen # history
    /\ LET old == LogRoot(seen)
           new == LogRoot(history)
       IN  \E proof \in Offered : VerifyConsistency(Len(seen), Len(history), old, new, proof)
    /\ seen' = history
    /\ UNCHANGED history

\* pub-proof: a proof made and checked against the membership's own root.
Report(members, member) ==
    LET proof == Prove(members, member)
    IN  [finding |-> proof.finding, verified |-> Verify(member, proof, MembershipRoot(members))]

\* server.rs `proof': the same of the members a node has declared, which are
\* the manifest's.
Answer(member) == Report(Head(history), member)

AuditNext ==
    \/ \E members \in Memberships : Enter(members)
    \/ \E i \in 1..MaxGenerations, members \in Memberships : Rewrite(i, members)
    \/ Audit

AuditSpec == AuditInit /\ [][AuditNext]_auditVars

----------------------------------------------------------------------------
(* Properties.                                                             *)

\* The proof that a log extends each earlier state of itself is accepted, up
\* to the last size a word holds.
ConsistencyVerifies ==
    \A m \in 0..Len(history) :
        VerifyConsistency(m, Len(history), LogRoot(SubSeq(history, 1, m)), LogRoot(history),
                          ConsistencyProof(Leaves(history), m))

\* Whatever is offered, and whatever size is claimed with it, an auditor that
\* accepts a root holds one whose log begins with what it had seen.
ConsistencySound ==
    LET old == LogRoot(seen)
        new == LogRoot(history)
    IN  \A n \in Word, proof \in Offered :
          seen # <<>> /\ VerifyConsistency(Len(seen), n, old, new, proof) => IsPrefix(seen, history)

\* A consistency proof is accepted of a log that extends what was seen, and
\* of no other.
ConsistencyExact == ConsistencyVerifies /\ ConsistencySound

\* Asked whether something is a member, `pub-proof' of the last generation
\* and a node of the manifest answer rightly, from a proof that verifies.
AnswersVerify ==
    LET right(members, x) ==
            [finding |-> IF x \in members THEN "present" ELSE "absent", verified |-> TRUE]
    IN  \A x \in Cid :
          /\ Report(Last(history), x) = right(Last(history), x)
          /\ Answer(x) = right(Head(history), x)

\* The members as honest proofs show them, and what verifies of that at any
\* position of any size claimed.
Shown(members) == {Entry(members, i) : i \in 0..(Cardinality(members) - 1)}

Claims(members, size) ==
    LET root == MembershipRoot(members)
    IN  {e \in {[entry EXCEPT !.index = i] : entry \in Shown(members), i \in 0..(size - 1)} :
            VerifyInclusion(LeafHash(e.value), e.index, size, e.path, root)}

\* Whatever positions and sizes are claimed, no proof shows a member absent,
\* or shows something present that is not a member.
AnswersSound ==
    LET members == Last(history)
        root    == MembershipRoot(members)
        shown   == Shown(members)
    IN  \A size \in Word \ {0} :
          LET options == {{}} \cup {{e} : e \in Claims(members, size)}
          IN  /\ \A x \in Cid \ members, i \in 0..(size - 1), e \in shown :
                   ~Verify(x, Present(i, size, e.path), root)
              /\ \A x \in members, b, a \in options : ~Verify(x, Absent(b, a, size), root)

\* Questions of membership are answered rightly with a proof that verifies,
\* and no proof of a wrong answer does.
AnswersExact == AnswersVerify /\ AnswersSound

\* A node that holds generations up to the next one answers a reader that
\* asks for checkpoints: the loop that collects them ends.
CheckpointsEnd == \A head \in 0..Len(history) : CheckpointLoopEnds(head)

=============================================================================
