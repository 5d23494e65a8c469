------------------------------- MODULE Store ---------------------------------
(***************************************************************************)
(* One node's object store: crates/publet-store/src/store.rs, the operator *)
(* commands over it (bin/pub-store) and the server that shares it          *)
(* (crates/publet-net/src/server.rs, bin/pub-serve).                       *)
(*                                                                         *)
(* The database is open to one process at a time, so the operator's        *)
(* commands and the server exclude each other; each Store method is one    *)
(* transaction, and a command of several can die between two of them.      *)
(*                                                                         *)
(* An object stands for its identifier.  A manifest names its membership   *)
(* by a collision-free root, so the members a declaration may give are     *)
(* exactly Snapshot[d].  A generation record is the object it is, and is   *)
(* read by its domain, its index and what it adds.                         *)
(***************************************************************************)
EXTENDS Naturals, FiniteSets

CONSTANTS
    Item,       \* claims and annotations
    Blob,       \* blobs, which have a table of their own
    Domain,     \* domain manifests
    Snapshot,   \* Snapshot[d]: the members the root in manifest d stands for
    Record,     \* generation records: [domain, index, added]
    Covers,     \* Covers[a]: what the `timestamped' annotation a is about,
                \* for each annotation that names a service
    Commands,   \* the commands this node's operator uses
    Careful     \* whether generations are indexed in order, each after the
                \* objects it adds

Object == Item \cup Domain \cup Record

ASSUME StoreAssumption ==
    /\ Snapshot \in [Domain -> SUBSET Object]
    /\ \A r \in Record :
          r.domain \in Domain /\ r.index \in Nat /\ r.added \subseteq Object
    /\ DOMAIN Covers \subseteq Item
    /\ \A a \in DOMAIN Covers : Covers[a] \in Object
    /\ Blob \cap Object = {}
    /\ Careful \in BOOLEAN

VARIABLES
    held,       \* OBJECTS: the identifiers stored
    blobs,      \* BLOBS
    bad,        \* those whose bytes have changed underneath the store
    declared,   \* DECLARED and MEMBERS: the domains this node serves
    tombs,      \* TOMBSTONES
    stamps,     \* TIMESTAMPS
    gens,       \* GENERATIONS: the records indexed, one per domain and index
    op,         \* the operator's command, between its transactions
    serving,    \* whether pub-serve has the store open
    offers,     \* objects whose offer was found not held, not yet stored
    archived    \* history: what the last archive run left timestamped, while
                \* it is held

storeVars == <<held, blobs, bad, declared, tombs, stamps, gens, op, serving,
               offers, archived>>

Idle == [cmd |-> "none"]

Init ==
    /\ held = {} /\ blobs = {} /\ bad = {}
    /\ declared = {} /\ tombs = {} /\ stamps = {} /\ gens = {}
    /\ op = Idle /\ serving = FALSE /\ offers = {}
    /\ archived = {}

----------------------------------------------------------------------------

\* Mutant: the manifests are left out.
DeclaredMembersOnly == UNION {Snapshot[d] : d \in declared}

\* Store::declared_members: members of the declared domains, and the
\* manifests themselves.
DeclaredMembers == (UNION {Snapshot[d] : d \in declared}) \cup declared

\* Store::open fails with Locked while another process has the store.
Opens(cmd) == cmd \in Commands /\ ~serving /\ op = Idle

\* Store::put: the bytes are verified, and replace whatever was there.
Put(o) == held' = held \cup {o} /\ bad' = bad \ {o}

\* pub-store add
Add(o) ==
    /\ Opens("add")
    /\ Put(o)
    /\ UNCHANGED <<blobs, declared, tombs, stamps, gens, op, serving, offers, archived>>

\* Store::put_blob
AddBlob(b) ==
    /\ Opens("add")
    /\ blobs' = blobs \cup {b} /\ bad' = bad \ {b}
    /\ UNCHANGED <<held, declared, tombs, stamps, gens, op, serving, offers, archived>>

\* Store::declare: the manifest must be held and must still parse and
\* verify; its members need not be held.
Declare(d) ==
    /\ Opens("declare")
    /\ d \in held \ bad
    /\ declared' = declared \cup {d}
    /\ UNCHANGED <<held, blobs, bad, tombs, stamps, gens, op, serving, offers, archived>>

\* Store::undeclare
Undeclare(d) ==
    /\ Opens("undeclare")
    /\ d \in declared
    /\ declared' = declared \ {d}
    /\ UNCHANGED <<held, blobs, bad, tombs, stamps, gens, op, serving, offers, archived>>

\* Store::collect_garbage: every object outside the declared sets, in one
\* transaction.  Blobs and indexed generations are other tables.
CollectGarbage ==
    /\ Opens("gc")
    /\ held' = held \cap DeclaredMembers
    /\ bad' = bad \cap (held' \cup blobs)
    /\ archived' = archived \cap held'
    /\ UNCHANGED <<blobs, declared, tombs, stamps, gens, op, serving, offers>>

\* Mutant: only a declared manifest needs a tombstone.
RemoveMembers(o) ==
    /\ Opens("remove")
    /\ o \in declared => o \in tombs
    /\ o \in held
    /\ held' = held \ {o} /\ bad' = bad \ {o}
    /\ archived' = archived \ {o}
    /\ UNCHANGED <<blobs, declared, tombs, stamps, gens, op, serving, offers>>

\* Store::remove
Remove(o) ==
    /\ Opens("remove")
    /\ o \in DeclaredMembers => o \in tombs
    /\ o \in held
    /\ held' = held \ {o} /\ bad' = bad \ {o}
    /\ archived' = archived \ {o}
    /\ UNCHANGED <<blobs, declared, tombs, stamps, gens, op, serving, offers>>

\* Store::tombstone
Tombstone(o) ==
    /\ Opens("tombstone")
    /\ tombs' = tombs \cup {o}
    /\ UNCHANGED <<held, blobs, bad, declared, stamps, gens, op, serving, offers, archived>>

----------------------------------------------------------------------------
(* pub-store generation: the record is stored, then indexed.               *)

Indexed(d) == {r \in gens : r.domain = d}

\* An operator who takes care has what a record adds, and the record before.
Prepared(r) ==
    /\ r.added \subseteq held
    /\ r.index = 0 \/ \E q \in Indexed(r.domain) : q.index + 1 = r.index

Generation(r) ==
    /\ Opens("generation")
    /\ Careful => Prepared(r)
    /\ Put(r)
    /\ op' = [cmd |-> "generation", record |-> r]
    /\ UNCHANGED <<blobs, declared, tombs, stamps, gens, serving, offers, archived>>

\* Store::put_generation: a record already indexed there is replaced.
PutGeneration ==
    /\ op.cmd = "generation"
    /\ gens' = {r \in gens : r.domain # op.record.domain \/ r.index # op.record.index}
                 \cup {op.record}
    /\ op' = Idle
    /\ UNCHANGED <<held, blobs, bad, declared, tombs, stamps, serving, offers, archived>>

----------------------------------------------------------------------------
(* pub-store archive and audit.                                            *)

\* A held annotation that still parses covers its target and itself.
Covered ==
    LET read == DOMAIN Covers \cap (held \ bad)
    IN  read \cup {Covers[a] : a \in read}

\* Mutant: only claims are looked at.
UntimestampedItems == (Item \cap held) \ (stamps \cup Covered)

\* untimestamped, of pub-store: in neither the table nor an annotation.
Untimestamped == held \ (stamps \cup Covered)

Archive ==
    /\ Opens("archive")
    /\ op' = [cmd |-> "archive", missing |-> Untimestamped]
    /\ UNCHANGED <<held, blobs, bad, declared, tombs, stamps, gens, serving, offers, archived>>

\* Store::timestamp, once for each.
Timestamp(o) ==
    /\ op.cmd = "archive" /\ o \in op.missing
    /\ stamps' = stamps \cup {o}
    /\ op' = [op EXCEPT !.missing = @ \ {o}]
    /\ UNCHANGED <<held, blobs, bad, declared, tombs, gens, serving, offers, archived>>

Archived ==
    /\ op.cmd = "archive" /\ op.missing = {}
    /\ archived' = held
    /\ op' = Idle
    /\ UNCHANGED <<held, blobs, bad, declared, tombs, stamps, gens, serving, offers>>

----------------------------------------------------------------------------
(* What happens to the operator's process and to the disk.                 *)

Die ==
    /\ op # Idle /\ op' = Idle
    /\ UNCHANGED <<held, blobs, bad, declared, tombs, stamps, gens, serving, offers, archived>>

Corrupt(o) ==
    /\ "corrupt" \in Commands
    /\ o \in (held \cup blobs) \ bad
    /\ bad' = bad \cup {o}
    /\ UNCHANGED <<held, blobs, declared, tombs, stamps, gens, op, serving, offers, archived>>

----------------------------------------------------------------------------
(* pub-serve.  Handlers run concurrently over the one open store; the only *)
(* one that writes is `offer', which looks first and stores afterwards.    *)

Serve ==
    /\ Opens("serve")
    /\ serving' = TRUE
    /\ UNCHANGED <<held, blobs, bad, declared, tombs, stamps, gens, op, offers, archived>>

\* Mutant: what it had not stored is kept for the next time.
StopKeeping ==
    /\ serving
    /\ serving' = FALSE
    /\ UNCHANGED <<held, blobs, bad, declared, tombs, stamps, gens, op, offers, archived>>

\* The offers it had not stored are lost with it.
Stop ==
    /\ serving
    /\ serving' = FALSE /\ offers' = {}
    /\ UNCHANGED <<held, blobs, bad, declared, tombs, stamps, gens, op, archived>>

\* offer: one already held is answered 409 and changes nothing.
Offer(o) ==
    /\ serving /\ "offer" \in Commands
    /\ o \notin held
    /\ offers' = offers \cup {o}
    /\ UNCHANGED <<held, blobs, bad, declared, tombs, stamps, gens, op, serving, archived>>

Accept(o) ==
    /\ serving /\ o \in offers
    /\ Put(o)
    /\ offers' = offers \ {o}
    /\ UNCHANGED <<blobs, declared, tombs, stamps, gens, op, serving, archived>>

----------------------------------------------------------------------------

StoreNext ==
    \/ \E o \in Object :
          \/ Add(o) \/ Remove(o) \/ Tombstone(o) \/ Timestamp(o)
          \/ Offer(o) \/ Accept(o)
    \/ \E o \in Object \cup Blob : Corrupt(o)
    \/ \E b \in Blob : AddBlob(b)
    \/ \E d \in Domain : Declare(d) \/ Undeclare(d)
    \/ \E r \in Record : Generation(r)
    \/ CollectGarbage \/ PutGeneration \/ Archive \/ Archived
    \/ Die \/ Serve \/ Stop

StoreSpec == Init /\ [][StoreNext]_storeVars

----------------------------------------------------------------------------
(* Properties.                                                             *)

\* Type invariant.  A generation is indexed once per domain and index, and
\* only the server has offers in hand.
StoreTypeOK ==
    /\ held \subseteq Object /\ blobs \subseteq Blob /\ bad \subseteq held \cup blobs
    /\ declared \subseteq Domain
    /\ tombs \subseteq Object /\ stamps \subseteq Object /\ archived \subseteq Object
    /\ gens \subseteq Record
    /\ \A r, q \in gens : r.domain = q.domain /\ r.index = q.index => r = q
    /\ serving \in BOOLEAN
    /\ offers \subseteq Object /\ (offers # {} => serving)
    /\ \/ op = Idle
       \/ op.cmd = "generation" /\ op = [cmd |-> "generation", record |-> op.record]
          /\ op.record \in Record
       \/ op.cmd = "archive" /\ op = [cmd |-> "archive", missing |-> op.missing]
          /\ op.missing \subseteq Object

\* A declaration stays readable: the manifest of every declared domain is
\* held, or its removal has been disclosed by a tombstone.
ManifestHeld == declared \subseteq held \cup tombs

\* A declared object is never lost silently: no command, however it is
\* interrupted or interleaved with the server, ends with an object of a
\* declared set gone and no tombstone to say so.
NoSilentLoss ==
    [][\A o \in held \ held' : o \in DeclaredMembers => o \in tombs]_storeVars

\* What an archive run leaves behind is timestamped, and audit finds it so
\* later, until an annotation about it is taken from the store or garbled.
ArchivedStays ==
    [][\A o \in archived' :
         (o \notin archived \/ o \in stamps \cup Covered) =>
            \/ o \in (stamps \cup Covered)'
            \/ \E a \in DOMAIN Covers \cap ((held \ held') \cup bad') : o \in {a, Covers[a]}
      ]_storeVars

=============================================================================
