-------------------------------- MODULE Sync ---------------------------------
(***************************************************************************)
(* A reader following one domain of a node by delta: bin/pub-sync and      *)
(* `pub sync', the retrieval client (crates/publet-net/src/client.rs) and  *)
(* the server's read handlers.                                             *)
(*                                                                         *)
(* A sync is two requests and a run of writes: ask for the checkpoints to  *)
(* learn where the domain's head is, ask for the delta, and store what     *)
(* came, one transaction each.  The node may stop, be worked on and serve  *)
(* again between the requests, and the reader's process may die while it   *)
(* stores.  The next --from is the last sync's `to', or 0, the default.    *)
(***************************************************************************)
EXTENDS Store, FiniteSetsExt

CONSTANTS
    Followed,   \* the domain the reader follows
    GivesTo,    \* whether the reader sometimes passes --to
    MaxLosses   \* how often a connection breaks or the reader's process dies

\* Bytes that no longer match hash to something no honest object is.
Garbled(o) == [garbled |-> o]

ASSUME SyncAssumption ==
    /\ Followed \in Domain /\ GivesTo \in BOOLEAN /\ MaxLosses \in Nat
    /\ \A o \in Object : Garbled(o) \notin Object

VARIABLES
    replica,    \* what the reader's store holds
    at,         \* the generation the reader has synced to
    sync,       \* the sync in progress
    losses,     \* how many syncs were cut short
    missed      \* history: what some delta still had to read when the node
                \* did not have it, or not intact

syncVars == <<replica, at, sync, losses>>
vars == <<storeVars, syncVars, missed>>

Resting == [phase |-> "rest"]

SyncInit ==
    /\ Init
    /\ replica = {} /\ at = 0 /\ sync = Resting /\ losses = 0 /\ missed = {}

----------------------------------------------------------------------------
(* What the server answers.                                                *)

\* Store::get: the bytes as they are, not verified.
Get(o) == IF o \in bad THEN Garbled(o) ELSE o

\* Store::head_generation
Indices(d) == {r.index : r \in Indexed(d)}
HeadGeneration(d) == Max(Indices(d))

\* With nothing indexed a domain is, to a reader, at generation 0.
Head == IF Indices(Followed) = {} THEN 0 ELSE HeadGeneration(Followed)

\* Mutant: the loop stops a step early.
CheckpointsShort(head) == {head - 2^k : k \in {j \in 0..head : 2^j < head}}

\* publet_algorithms::log::checkpoints: powers of two back from the head.
Checkpoints(head) == {head - 2^k : k \in {j \in 0..head : 2^j <= head}}

\* Mutant: the range starts at the generation the reader has.
SpanFrom(from, to) == from..(to - 1)

\* The generations a delta spans: after `from', up to `to'.
Span(from, to) == (from + 1)..to

RecordsIn(from, to) == {r \in Indexed(Followed) : r.index \in Span(from, to)}

\* Mutant: only what the last record adds.
AddedByLast(from, to) ==
    UNION {r.added : r \in {q \in RecordsIn(from, to) : q.index = to}}

\* Store::added_between
AddedBetween(from, to) == UNION {r.added : r \in RecordsIn(from, to)}

\* Mutant: a generation that is not indexed is passed over.
AnswersAcross(from, to) == from <= to

\* delta: 400 for a range that runs backwards, 404 for a missing record.
Answers(from, to) ==
    /\ from <= to
    /\ Span(from, to) \subseteq Indices(Followed)

----------------------------------------------------------------------------
(* The reader.                                                             *)

\* Where a sync from `from' is headed: just past the latest checkpoint.
Target(from) ==
    LET points == Checkpoints(HeadGeneration(Followed))
    IN  IF points = {} THEN from ELSE Max(points) + 1

\* What is still to be read of a delta, and cannot be.
Unreadable == IF sync.phase = "read" THEN sync.todo \ (held \ bad) ELSE {}

\* Client::checkpoints; with no generation indexed it is answered 404.
Ask(from) ==
    /\ sync = Resting
    /\ serving /\ Indices(Followed) # {}
    /\ sync' = [phase |-> "delta", from |-> from, to |-> Target(from), given |-> FALSE]
    /\ UNCHANGED <<storeVars, replica, at, losses, missed>>

\* --to on the command line.
AskTo(from, to) ==
    /\ GivesTo /\ sync = Resting
    /\ sync' = [phase |-> "delta", from |-> from, to |-> to, given |-> TRUE]
    /\ UNCHANGED <<storeVars, replica, at, losses, missed>>

\* delta, its first half: the records.
Request ==
    /\ sync.phase = "delta" /\ serving
    /\ Answers(sync.from, sync.to)
    /\ sync' = [ phase |-> "read", from |-> sync.from, to |-> sync.to,
                 todo  |-> AddedBetween(sync.from, sync.to),
                 pack  |-> RecordsIn(sync.from, sync.to) ]
    /\ UNCHANGED <<storeVars, replica, at, losses>>
    /\ missed' = missed \cup Unreadable'

\* Its second half reads the objects one by one, and passes over one that
\* is not held.
Read(o) ==
    /\ sync.phase = "read" /\ serving /\ o \in sync.todo
    /\ sync' = [sync EXCEPT !.todo = @ \ {o},
                            !.pack = IF o \in held THEN @ \cup {Get(o)} ELSE @]
    /\ UNCHANGED <<storeVars, replica, at, losses, missed>>

Receive ==
    /\ sync.phase = "read" /\ serving /\ sync.todo = {}
    /\ sync' = [sync EXCEPT !.phase = "store", !.todo = sync.pack]
    /\ UNCHANGED <<storeVars, replica, at, losses, missed>>

\* A request the server refuses or does not live to answer ends the sync,
\* and so does a pack with a frame longer than an object may be, which only
\* changed bytes can be (WireError::FrameTooLarge).
Fail ==
    /\ \/ sync.phase = "delta" /\ (~serving \/ ~Answers(sync.from, sync.to))
       \/ sync.phase = "read" /\ ~serving
       \/ sync.phase = "read" /\ sync.todo = {}
          /\ \E o \in Object : Garbled(o) \in sync.pack
    /\ sync' = Resting
    /\ UNCHANGED <<storeVars, replica, at, losses, missed>>

\* The connection breaks, before the pack or inside it (WireError::
\* Truncated), or the reader's process dies as it stores.
Lose ==
    /\ sync # Resting
    /\ losses < MaxLosses /\ losses' = losses + 1
    /\ sync' = Resting
    /\ UNCHANGED <<storeVars, replica, at, missed>>

\* Store::put, under the identifier of the bytes received.
StoreReceived ==
    /\ sync.phase = "store"
    /\ \E c \in sync.todo :
          /\ replica' = replica \cup {c}
          /\ sync' = [sync EXCEPT !.todo = @ \ {c}]
    /\ UNCHANGED <<storeVars, at, losses, missed>>

Synced ==
    /\ sync.phase = "store" /\ sync.todo = {}
    /\ at' = IF sync.to > at THEN sync.to ELSE at
    /\ sync' = Resting
    /\ UNCHANGED <<storeVars, replica, losses, missed>>

SyncStep ==
    \/ Request \/ Receive \/ Fail \/ StoreReceived \/ Synced
    \/ \E o \in Object : Read(o)

Next ==
    \/ StoreNext /\ UNCHANGED syncVars /\ missed' = missed \cup Unreadable'
    \/ \E from \in {0, at} :
          \/ Ask(from)
          \/ \E to \in {r.index : r \in Record} : AskTo(from, to)
    \/ SyncStep \/ Lose

Spec == SyncInit /\ [][Next]_vars

\* A sync that has started runs until it ends.
FairSpec == Spec /\ WF_vars(SyncStep)

----------------------------------------------------------------------------
(* Properties.                                                             *)

\* A reader who has synced to a generation holds every record after the
\* genesis up to it, and everything those records add but what the node
\* could not read for some delta, whatever the node collected, removed, lost
\* and regained, and wherever syncs were cut short.
ReplicaWhole ==
    \A r \in Indexed(Followed) :
        r.index \in 1..at => r \in replica /\ r.added \subseteq replica \cup missed

\* A delta that arrives brings each record's objects, but for those the node
\* did not have when it came to read them: what was taken from the store
\* before the request or after the object was read does no harm.
DeltaCarries ==
    sync.phase = "store" =>
        \A r \in sync.pack \cap Record : r.added \subseteq sync.pack \cup missed

\* What a record of a declared domain adds travels with it: a delta that
\* arrives is all that is needed to apply it (the comment in the handler,
\* server.rs:155).  Garbage collection makes it false.
DeltaWhole ==
    sync.phase = "store" /\ Followed \in declared =>
        \A r \in sync.pack \cap Record :
            \A o \in r.added : o \in sync.pack \/ Garbled(o) \in sync.pack

\* Bytes that no longer match their identifier are not served.
ServedIntact == sync.phase = "store" => \A o \in Object : Garbled(o) \notin sync.pack

\* The node answers for every generation after the genesis, with objects
\* whose bytes are what they were.
Sound == serving /\ bad = {} /\ 1..Head \subseteq Indices(Followed)

\* Once connections hold, a reader who asks a node that goes on serving
\* where the head is, and syncs, gets to the head of the domain, whatever
\* gaps its index had before.  (While a gap lasts, every delta across it is
\* refused.)
SyncReachesHead ==
    [](sync = Resting /\ losses = MaxLosses /\ []Sound
         /\ <>(sync.phase = "delta" /\ ~sync.given) => <>(at = Head))

=============================================================================
