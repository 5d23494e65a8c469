--------------------------- MODULE PublishedCorpus ---------------------------
(***************************************************************************)
(* What a corpus promises whoever reads it through corpus.lock: a row for  *)
(* each published publet, a generation, and the generation's members.      *)
(* Publishing is one step.  It never loses a member, it counts generations *)
(* one by one, and a row it changes names a signed member that supersedes  *)
(* the version the row named before, in the same lineage.                  *)
(*                                                                         *)
(* It does not promise that there is always something to read: the lock    *)
(* may be lost.  Then it is lost whole, and nothing is published again     *)
(* until somebody puts it back, which is outside this module.              *)
(***************************************************************************)
EXTENDS BuildTree

VARIABLES
    readable,   \* whether corpus.lock, if there is one, can be read
    entries,    \* the rows of corpus.lock, by slug
    index,      \* the generation's index plus one; 0 before the first
    members     \* the generation's members

vars == <<readable, entries, index, members>>

Nothing ==
    /\ entries = [s \in Slug |-> None]
    /\ index = 0
    /\ members = {}

Init == readable = TRUE /\ Nothing

\* What a reader needs of a new row: the version, signed, and if it revises
\* another, the edge to that one and the lineage's genesis as it was.
Backed(old, new, held) ==
    /\ new # None
    /\ {new.cid, Sig(new.cid)} \subseteq held
    /\ old # None =>
         /\ new.genesis = old.genesis
         /\ Supersedes(new.cid, old.cid) \in held

Publish ==
    /\ readable /\ UNCHANGED readable
    /\ members \subseteq members'
    /\ index' = IF index > 0 /\ members' = members THEN index ELSE index + 1
    /\ \A s \in Slug :
          \/ entries'[s] = entries[s]
          \/ Backed(entries[s], entries'[s], members')

\* The lock is lost, all of it.
Lose ==
    /\ readable /\ readable' = FALSE
    /\ Nothing'

Next == Publish \/ Lose

Spec == Init /\ [][Next]_vars

=============================================================================
