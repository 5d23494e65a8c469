----------------------------- MODULE MCFollowing ------------------------------
(***************************************************************************)
(* Following for TLC: two members, and of either index a record that a     *)
(* peer made up, which adds more than its snapshot or ends elsewhere.      *)
(***************************************************************************)
EXTENDS Following, TLC

CONSTANTS x, y

ReaderSymmetry == Permutations(Reader)

MCForged == { Generation(1, {x}, {x, y}, {}),
              Generation(2, {y}, {y}, {x}) }

=============================================================================
