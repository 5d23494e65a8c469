-------------------------------- MODULE Desk ----------------------------------
(***************************************************************************)
(* The commands that write one object at a time: `pub compose', `document',*)
(* `doc', `relate', `annotate', `delegate' and `revise' (porcelain/src),   *)
(* in the workspace whose keys Keys models.  Each opens the store, reads   *)
(* `author' and offers what it would write to the loader together with     *)
(* everything held; the lock makes it one step.  `revise' writes two       *)
(* objects.                                                                *)
(*                                                                         *)
(* An object is what it says: the same text by the same author is the same *)
(* object, since `created' is a constant unless a flag gives it.           *)
(***************************************************************************)
EXTENDS Keys, FiniteSets

CONSTANTS
    Prose,      \* texts of claims
    Normative,  \* those of them that take no verdict
    Doc,        \* manifests of documents
    MaxWrites   \* how many of these commands succeed

ASSUME DeskAssumption == Normative \subseteq Prose /\ MaxWrites \in Nat

VARIABLES
    writes,
    versions,   \* history: what `revise' made that nothing else has since
    undone      \* history: what `revise' took away that was there before it

desk == <<writes, versions, undone>>
deskVars == <<vars, desk>>

Claim(by, text)    == [type |-> "prose", by |-> by, text |-> text]
Document(by, text) == [type |-> "doc", by |-> by, text |-> text]
Work(by, text)     == IF text \in Doc THEN Document(by, text) ELSE Claim(by, text)
Relation(by, kind, from, to) ==
    [type |-> "relation", by |-> by, kind |-> kind, from |-> from, to |-> to]
Delegation(by) == [type |-> "delegates", by |-> by]
Verdict(by, to) == [type |-> "annotation", by |-> by, to |-> to]

Works == {o \in objects : o.type \in {"prose", "doc"}}

Supersedes(S) ==
    {<<r.from, r.to>> : r \in {r \in S : r.type = "relation" /\ r.kind = "supersedes"}}

\* Every set of nodes has one that no edge leads out of into the set.
Acyclic(E) ==
    \A S \in SUBSET {e[1] : e \in E} :
        S # {} => \E a \in S : \A e \in E : e[1] = a => e[2] \notin S

\* load::from_objects accepts; in which order they come does not matter.
Loads(S) ==
    /\ Acyclic(Supersedes(S))
    /\ \A r \in S : r.type = "relation" /\ r.kind = "disputes" => r.from \in S
    /\ \A a \in S : a.type = "annotation" /\ a.to \in S => a.to.text \notin Normative

\* Mutant: nothing is offered to the loader.
StoreUnoffered(o) == objects' = objects \cup {o}

\* offer_then_store
OfferThenStore(o) ==
    /\ Loads(objects \cup {o})
    /\ objects' = objects \cup {o}

\* check_quantities, which `compose' asks instead: the claim loads with
\* everything held.  No text states a quantity its units do not allow.
CheckQuantities(o) == Loads(objects \cup {o})

\* What may be named: an identifier need not be held.
Named == Works \cup {Work(author, t) : t \in Prose \cup Doc}

AtDesk(p) ==
    /\ proc[p] = Idle
    /\ holder = None
    /\ author # None
    /\ writes < MaxWrites /\ writes' = writes + 1
    /\ UNCHANGED <<files, holder, proc, drawn, authors, inits>>

Compose(p) ==
    /\ AtDesk(p)
    /\ \E t \in Prose : LET claim == Claim(author, t)
                      IN  /\ CheckQuantities(claim)
                          /\ objects' = objects \cup {claim}
                          /\ versions' = versions \ {claim}
    /\ UNCHANGED <<undone, crashes>>

StoreDocument(p) ==
    /\ AtDesk(p)
    /\ \E t \in Doc :
         OfferThenStore(Document(author, t)) /\ versions' = versions \ {Document(author, t)}
    /\ UNCHANGED <<undone, crashes>>

Relate(p) ==
    /\ AtDesk(p)
    /\ \E kind \in {"supersedes", "disputes"}, from, to \in Named :
         from # to /\ OfferThenStore(Relation(author, kind, from, to))
    /\ UNCHANGED <<versions, undone, crashes>>

\* A verdict; the other kinds ask more of their flags and less of the loader.
Annotate(p) ==
    /\ AtDesk(p)
    /\ \E to \in Named : OfferThenStore(Verdict(author, to))
    /\ UNCHANGED <<versions, undone, crashes>>

\* To a key of another workspace, held or not.
Delegate(p) ==
    /\ AtDesk(p)
    /\ OfferThenStore(Delegation(author))
    /\ UNCHANGED <<versions, undone, crashes>>

----------------------------------------------------------------------------
(* pub revise                                                              *)

\* Mutant: a version identical to the old one is published.
RevisableAlways(old) ==
    {Work(author, t) : t \in IF old.type = "doc" THEN Doc ELSE Prose}

\* The next versions of an object: of its type, with another body.
Revisable(old) ==
    {Work(author, t) : t \in (IF old.type = "doc" THEN Doc ELSE Prose) \ {old.text}}

\* Mutant: a version whose edge is refused stays.
RevisedKept(old, new) ==
    LET both == objects \cup {new, Relation(author, "supersedes", new, old)}
    IN  IF Loads(both) THEN both ELSE objects \cup {new}

\* The new version is stored, then the edge; where that is refused the new
\* version is removed, whether or not it was there before.
Revised(old, new) ==
    LET both == objects \cup {new, Relation(author, "supersedes", new, old)}
    IN  IF Loads(both) THEN both ELSE objects \ {new}

Revise(p) ==
    /\ AtDesk(p)
    /\ \E old \in Works : \E new \in Revisable(old) :
         /\ Loads(objects \cup {new})
         /\ objects' = Revised(old, new)
         /\ versions' = versions \cup {new}
         /\ undone' = undone \cup (objects \ objects')
    /\ UNCHANGED crashes

\* The process dies between the two.
ReviseCutShort(p) ==
    /\ AtDesk(p)
    /\ crashes < MaxCrashes /\ crashes' = crashes + 1
    /\ \E old \in Works : \E new \in Revisable(old) :
         OfferThenStore(new) /\ versions' = versions \ {new}
    /\ UNCHANGED undone

----------------------------------------------------------------------------

DeskInit == Init /\ writes = 0 /\ versions = {} /\ undone = {}

DeskNext ==
    \/ Next /\ UNCHANGED desk
    \/ \E p \in Proc :
         \/ Compose(p) \/ StoreDocument(p) \/ Relate(p) \/ Annotate(p)
         \/ Delegate(p) \/ Revise(p) \/ ReviseCutShort(p)

DeskSpec == DeskInit /\ [][DeskNext]_deskVars

----------------------------------------------------------------------------
(* Properties.                                                             *)

\* Whatever is written, by whichever commands and however they end, the
\* workspace loads, so that the next command is not refused for what an
\* earlier one let in; or it loads again once one object is put back that
\* `revise' took away, which writing the same text does.
DeskMends == Loads(objects) \/ \E o \in undone : Loads(objects \cup {o})

\* A `revise' that is refused "stores neither" (revise.rs:7), and leaves the
\* store as it was: no command takes away what another wrote.
NothingUndone == undone = {}

\* What leaves the store was superseded: only a `revise' back to an earlier
\* version of the same lineage takes away what was there.
OnlyReversionsUndo ==
    [][\A o \in objects \ objects' : \E e \in Supersedes(objects) : e[2] = o]_deskVars

\* No command loses what was there: a secret, but to a first key that was
\* looked for too early, or an object, but to a `revise' that goes back to it.
NothingLost == SecretsKept /\ OnlyReversionsUndo

\* A version that `revise' made and did not take back has the edge that
\* leads to it, unless the process died between the two.
VersionsLed ==
    \A v \in versions \cap objects : \E e \in Supersedes(objects) : e[1] = v

\* continues_key: both keys signed each rotation in between.
RotatedBy(old, new) ==
    /\ KeyObject(new, old) \in objects
    /\ {Signature(new, new, "rotates", new), Signature(old, old, "rotates", new)} \subseteq objects

Continues(original, successor) ==
    \A K \in SUBSET Key :
        (original \in K /\ \A k \in K, l \in Key : RotatedBy(k, l) => l \in K)
        => successor \in K

Afresh == Cardinality({o \in objects : o.type = "key" /\ o.rotates = None}) > 1

\* Whoever rotated keys in between, and wherever that died, an edge the
\* workspace writes over a claim it wrote under an earlier key is a revision
\* a reader accepts and not a stranger's proposal, as long as only one key
\* was generated and the others rotated from it.
RevisionsCarryOn ==
    \A r \in objects :
        (r.type = "relation" /\ r.kind = "supersedes" /\ {r.by, r.to.by} \subseteq Key /\ ~Afresh)
        => Continues(r.to.by, r.by)

\* What `revise' makes reads as a revision: an edge leads to each version, a
\* reader takes it for the author's own, and can check each rotation behind it.
RevisionsLead == VersionsLed /\ RevisionsCarryOn /\ RotationsVerify

=============================================================================
