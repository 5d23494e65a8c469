------------------------------- MODULE Merkle --------------------------------
(***************************************************************************)
(* The append-only log and the sorted membership tree:                     *)
(* crates/publet-algorithms/src/log.rs and membership.rs.                  *)
(*                                                                         *)
(* Hashing is collision-free: a hash is the term it is taken of, and leaf  *)
(* and interior hashes are told apart by their tags.  Positions and sizes  *)
(* are words of Width bits (64 in the code), so that a small width reaches *)
(* what the code does at the end of the word.  Positions count from 0.     *)
(***************************************************************************)
EXTENDS Integers, Sequences, FiniteSets, FiniteSetsExt

CONSTANT Width

ASSUME WidthAssumption == Width \in Nat \ {0}

Word == 0..(2^Width - 1)

----------------------------------------------------------------------------
(* Hashes, and the bits of a word.                                         *)

EmptyRoot         == <<>>
LeafHash(content) == <<"leaf", content>>
NodeHash(l, r)    == <<"node", l, r>>

\* Width - leading_zeros, count_ones, trailing_zeros, and one bit.
BitLength(n)     == Min({k \in 0..Width : n < 2^k})
Bit(n, i)        == (n \div 2^i) % 2
CountOnes(n)     == Cardinality({i \in 0..(Width - 1) : Bit(n, i) = 1})
TrailingZeros(n) == Min({i \in 0..(Width - 1) : Bit(n, i) = 1})

\* split, split_len: the largest power of two strictly below n.
Split(n) == 2^(BitLength(n - 1) - 1)

----------------------------------------------------------------------------
(* The log.  What the code computes of a slice is tabulated here by the    *)
(* slice's length n and what comes `before' it.                            *)

Roots(leaves) ==
    LET all == Len(leaves)
        over[n \in 0..all] ==
            [before \in 0..(all - n) |->
                CASE n = 0 -> EmptyRoot
                  [] n = 1 -> leaves[before + 1]
                  [] OTHER -> NodeHash(over[Split(n)][before],
                                       over[n - Split(n)][before + Split(n)])]
    IN  over

Root(leaves) == Roots(leaves)[Len(leaves)][0]

\* inclusion_proof: from the leaf upward; empty for a position outside.
InclusionProof(leaves, index) ==
    LET all == Len(leaves)
        path[n \in 1..all] ==
            [before \in 0..(all - n) |->
                [i \in 0..(n - 1) |->
                    LET k == Split(n)
                    IN  CASE n = 1 -> <<>>
                          [] n > 1 /\ i < k ->
                                Append(path[k][before][i], Roots(leaves)[n - k][before + k])
                          [] OTHER ->
                                Append(path[n - k][before + k][i - k], Roots(leaves)[k][before])]]
    IN  IF index >= all THEN <<>> ELSE path[all][0][index]

\* verify_inclusion's descent, turned round: the side the node is on, from
\* the leaf up.
Sides[size \in Word \ {0}] ==
    [index \in 0..(size - 1) |->
        LET k == Split(size)
        IN  CASE size = 1 -> <<>>
              [] size > 1 /\ index < k -> Append(Sides[k][index], "left")
              [] OTHER -> Append(Sides[size - k][index - k], "right")]

\* Folding a path onto a node: a sibling goes to the right of a node that is
\* on the left, to the left of one on the right, and of no other.
Climb(seed, path, sides) ==
    LET node[i \in 0..Len(path)] ==
            CASE i = 0 -> seed
              [] i > 0 /\ sides[i] = "left"  -> NodeHash(node[i - 1], path[i])
              [] i > 0 /\ sides[i] = "right" -> NodeHash(path[i], node[i - 1])
              [] OTHER -> node[i - 1]
    IN  node[Len(path)]

VerifyInclusion(leaf, index, size, path, root) ==
    LET sides == Sides[size][index]
    IN  /\ index < size
        /\ Len(sides) = Len(path)
        /\ Climb(leaf, path, sides) = root

\* subproof, by m and start.
Subproofs(leaves) ==
    LET all == Len(leaves)
        over[n \in 1..all] ==
            [before \in 0..(all - n) |->
                [m \in 1..n |-> [start \in BOOLEAN |->
                    LET k == Split(n)
                    IN  CASE m = n -> IF start THEN <<>> ELSE <<Roots(leaves)[n][before]>>
                          [] m < n /\ m <= k ->
                                Append(over[k][before][m][start],
                                       Roots(leaves)[n - k][before + k])
                          [] OTHER ->
                                Append(over[n - k][before + k][m - k][FALSE],
                                       Roots(leaves)[k][before])]]]
    IN  over

ConsistencyProof(leaves, m) ==
    IF m = 0 \/ m >= Len(leaves) THEN <<>> ELSE Subproofs(leaves)[Len(leaves)][0][m][TRUE]

\* How many bits the exclusive or of two words takes: as far as they differ.
DifferWithin(a, b) == Min({k \in 0..Width : a \div 2^k = b \div 2^k})

\* Mutant: the shift wraps at the width instead of being checked.
DecomposeWrapped(index, size) ==
    LET inner == DifferWithin(index, size - 1)
    IN  [inner |-> inner, border |-> CountOnes(index \div 2^(inner % Width))]

\* decompose: the levels where the path turns, and those where it only folds
\* right; a shift by the whole width leaves nothing.
Decompose(index, size) ==
    LET inner == DifferWithin(index, size - 1)
    IN  [inner |-> inner, border |-> CountOnes(index \div 2^inner)]

\* chain_inner and chain_inner_right fold by the bits of a mask, and along
\* the border chain_border_right folds right: whether a step stays left.
StaysLeft(m, n, i) ==
    LET shift == TrailingZeros(m)
    IN  i <= Decompose(m - 1, n).inner - shift /\ Bit((m - 1) \div 2^shift, i - 1) = 0

\* What verify_consistency computes from a proof of the right length: where
\* the new root's path stays left, the old tree has nothing on the right.
Rebuilt(m, n, old, proof) ==
    LET whole == m = 2^TrailingZeros(m)
        seed  == IF whole THEN old ELSE proof[1]
        rest  == IF whole THEN proof ELSE Tail(proof)
        sides(left) == [i \in DOMAIN rest |-> IF StaysLeft(m, n, i) THEN left ELSE "right"]
    IN  [old |-> Climb(seed, rest, sides("none")), new |-> Climb(seed, rest, sides("left"))]

ProofLength(m, n) ==
    LET shift == TrailingZeros(m)
        parts == Decompose(m - 1, n)
    IN  (IF m = 2^shift THEN 0 ELSE 1) + parts.inner - shift + parts.border

\* Mutant: only the new root is compared.
VerifyNewOnly(m, n, old, new, proof) ==
    CASE m > n  -> FALSE
      [] m = n  -> proof = <<>> /\ old = new
      [] m = 0  -> proof = <<>>
      [] OTHER  -> /\ proof # <<>> /\ Len(proof) = ProofLength(m, n)
                   /\ Rebuilt(m, n, old, proof).new = new

VerifyConsistency(m, n, old, new, proof) ==
    CASE m > n  -> FALSE
      [] m = n  -> proof = <<>> /\ old = new
      [] m = 0  -> proof = <<>>
      [] OTHER  -> /\ proof # <<>> /\ Len(proof) = ProofLength(m, n)
                   /\ Rebuilt(m, n, old, proof) = [old |-> old, new |-> new]

\* Mutant: the step wraps instead of saturating.
StepWrapped(step) == (step * 2) % 2^Width

\* checkpoints: the step after this one, saturating, and whether the loop
\* that counts up to a head by it ends.
NextStep(step) == Min({step * 2, 2^Width - 1})

CheckpointLoopEnds(head) ==
    LET steps[k \in Nat] == IF k = 0 THEN 1 ELSE NextStep(steps[k - 1])
    IN  \E k \in 0..Width : steps[k] > head

----------------------------------------------------------------------------
(* The sorted membership.                                                  *)

\* Membership::new, leaves, root.
Sorted(members) ==
    [i \in 1..Cardinality(members) |->
        CHOOSE x \in members : Cardinality({y \in members : y < x}) = i - 1]
MemberLeaves(members)   == [i \in 1..Cardinality(members) |-> LeafHash(Sorted(members)[i])]
MembershipRoot(members) == Root(MemberLeaves(members))

Present(index, size, path)   == [finding |-> "present", index |-> index, size |-> size,
                                 path |-> path]
Absent(before, after, size)  == [finding |-> "absent", before |-> before, after |-> after,
                                 size |-> size]

\* A member shown with its position and its path.
Entry(members, index) ==
    [ index |-> index, value |-> Sorted(members)[index + 1],
      path  |-> InclusionProof(MemberLeaves(members), index) ]

\* The neighbours of the place `below': at most one on each side.
Neighbour(members, index) ==
    {Entry(members, i) : i \in {index} \cap 0..(Cardinality(members) - 1)}

\* Mutant: the neighbours are those of the place after.
ProveBeside(members, member) ==
    LET below == Cardinality({x \in members : x < member})
        size  == Cardinality(members)
    IN  IF member \in members
        THEN Present(below, size, InclusionProof(MemberLeaves(members), below))
        ELSE Absent(Neighbour(members, below), Neighbour(members, below + 1), size)

\* Membership::prove: the member, or the neighbours it would stand between.
Prove(members, member) ==
    LET below == Cardinality({x \in members : x < member})
        size  == Cardinality(members)
    IN  IF member \in members
        THEN Present(below, size, InclusionProof(MemberLeaves(members), below))
        ELSE Absent(Neighbour(members, below - 1), Neighbour(members, below), size)

\* Mutant: the neighbours need not be adjacent.
BracketsLoosely(before, after, size, member) ==
    /\ before # {} \/ after # {}
    /\ \A b \in before : b.value < member /\ (after = {} => b.index + 1 = size)
    /\ \A a \in after : member < a.value /\ (before = {} => a.index = 0)

\* Nothing lies between: the neighbours are adjacent, or the one there is is
\* the first or the last.
Brackets(before, after, size, member) ==
    /\ before # {} \/ after # {}
    /\ \A b \in before, a \in after : a.index = b.index + 1
    /\ \A b \in before : b.value < member /\ (after = {} => b.index + 1 = size)
    /\ \A a \in after : member < a.value /\ (before = {} => a.index = 0)

\* membership::verify
Verify(member, proof, root) ==
    CASE proof.finding = "present" ->
           VerifyInclusion(LeafHash(member), proof.index, proof.size, proof.path, root)
      [] proof.finding = "absent" /\ proof.size = 0 ->
           proof.before = {} /\ proof.after = {} /\ root = EmptyRoot
      [] OTHER ->
           /\ \A e \in proof.before \cup proof.after :
                VerifyInclusion(LeafHash(e.value), e.index, proof.size, e.path, root)
           /\ Brackets(proof.before, proof.after, proof.size, member)

=============================================================================
