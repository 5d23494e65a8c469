------------------------------- MODULE MCSync --------------------------------
(***************************************************************************)
(* A node with one domain of a genesis and one or two generations more, of *)
(* which the last only takes something away, and a reader of it.           *)
(***************************************************************************)
EXTENDS Sync

CONSTANTS x, y, d

Genesis == [domain |-> d, index |-> 0, added |-> {x}]
First   == [domain |-> d, index |-> 1, added |-> {y}]
Last    == [domain |-> d, index |-> 2, added |-> {}]

Members  == [m \in {d} |-> {x}]
Records  == {Genesis, First, Last}
TwoOnly  == {Genesis, First}
NoStamps == [a \in {} |-> x]

=============================================================================
