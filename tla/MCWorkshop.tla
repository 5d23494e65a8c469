----------------------------- MODULE MCWorkshop ------------------------------
(***************************************************************************)
(* Small corpora for TLC: one publet, or two of which the second cites the *)
(* first by version.                                                       *)
(***************************************************************************)
EXTENDS Workshop, TLC

CONSTANTS a, b

OneOrder == <<a>>
OneDeps  == [s \in {a} |-> {}]

TwoOrder == <<a, b>>
TwoDeps  == [s \in {a, b} |-> IF s = b THEN {a} ELSE {}]

\* No action tells one text from another.
TextSymmetry == Permutations(Text)

=============================================================================
