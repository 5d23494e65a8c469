------------------------------- MODULE MCDesk ---------------------------------
(***************************************************************************)
(* Many keys and crashes with few writes, or the other way round; and two  *)
(* key commands at once, or writes beside one.                             *)
(***************************************************************************)
EXTENDS Desk, TLC

CONSTANT Budget

ASSUME BudgetAssumption == Budget \in Nat

Affordable ==
    /\ drawn + crashes + 2 * inits + 2 * writes <= Budget
    /\ writes > 0 => /\ crashes + inits <= 1
                     /\ Cardinality({p \in Proc : proc[p] # Idle}) <= 1

MCSpec == DeskInit /\ [][DeskNext /\ Affordable']_deskVars

\* No action tells one process from another.
MCSymmetry == Permutations(Proc)

=============================================================================
