------------------------------ MODULE MCStore --------------------------------
(***************************************************************************)
(* A small node for TLC: two domains that share their one member, an       *)
(* annotation that timestamps the first manifest, and a generation record. *)
(***************************************************************************)
EXTENDS Store

CONSTANTS d, e, stamp

Members == [m \in Domain |-> {stamp}]
Records == {[domain |-> d, index |-> 0, added |-> {stamp}]}
Stamps  == [a \in {stamp} |-> d]

=============================================================================
