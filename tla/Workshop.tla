------------------------------ MODULE Workshop -------------------------------
(***************************************************************************)
(* A corpus as its author works on it: porcelain/src/corpus.rs.            *)
(*                                                                         *)
(* Sources are edited, `pub build' turns them into unsigned drafts in the  *)
(* workspace's store, and `pub publish' signs some of them, exports them   *)
(* to objects/, advances the generation and rewrites corpus.lock.  Both    *)
(* commands are sequences of separate writes (each Store::put and          *)
(* Store::remove is a transaction of its own, each file a plain            *)
(* fs::write), and the process may die between any two of them or inside   *)
(* one.  The store's exclusive lock keeps two commands from running at     *)
(* once.                                                                   *)
(*                                                                         *)
(* The corpus has no parents and no rendering beside any source, so a      *)
(* publish copies nothing in and pins nothing.                             *)
(***************************************************************************)
EXTENDS BuildTree

CONSTANTS
    Time,       \* the instants now() may return
    Bound,      \* the corpus's declared bound, in objects
    MaxEdits,   \* how often the sources are edited
    MaxCrashes, \* how often the process dies
    BuildFirst  \* whether the author always builds before publishing

ASSUME WorkshopAssumption ==
    /\ Bound \in Nat
    /\ MaxEdits \in Nat /\ MaxCrashes \in Nat
    /\ BuildFirst \in BOOLEAN

VARIABLES
    src,        \* publets/: the sources
    store,      \* .publet/: the objects the workspace's store holds
    drafts,     \* .publet/drafts.json: the objects of the current drafts
    lock,       \* corpus.lock: its rows and the generation it records
    files,      \* objects/: the exported objects, whole
    records,    \* objects/: the manifests and generation records, whole
    torn,       \* files left half written by a process that died
    session,    \* the command in progress
    edits,      \* how many edits there have been
    crashes,    \* how many times the process has died
    released,   \* history: everything some publish chose to release
    recorded    \* history: every version corpus.lock has named

vars == <<src, store, drafts, lock, files, records, torn, session,
          edits, crashes, released, recorded>>
disk == <<store, drafts, lock, files, records, torn>>
budget == <<edits, crashes>>
history == <<released, recorded>>

Idle == [phase |-> "idle"]

\* The two files a command reads before anything else.
LockFile   == [kind |-> "corpus.lock"]
DraftsFile == [kind |-> "drafts.json"]

\* A lock that names nothing: there is none yet, or what there is was cut
\* short, which no reader can parse.
NoLock == [entries |-> [s \in Slug |-> None], gen |-> None]

Init ==
    /\ src = [s \in Slug |-> None]
    /\ store = {}
    /\ drafts = {}
    /\ lock = NoLock
    /\ files = {}
    /\ records = {}
    /\ torn = {}
    /\ session = Idle
    /\ edits = 0
    /\ crashes = 0
    /\ released = {}
    /\ recorded = {}

----------------------------------------------------------------------------
(* Generation records.  A record is a term too: its snapshot is the root   *)
(* of a membership, and its parent is the record before it.                *)

Manifest(members, t) ==
    [kind |-> "domain", snapshot |-> members, created |-> t]
Genesis(domain, members, t) ==
    [kind |-> "generation", domain |-> domain, index |-> 0, parent |-> None,
     snapshot |-> members, added |-> members, created |-> t]

NextGeneration(gen, members, added, t) ==
    [kind |-> "generation", domain |-> gen.domain, index |-> gen.index + 1,
     parent |-> gen, snapshot |-> members, added |-> added, created |-> t]

\* membership: the union of `added' along the chain back to genesis.
Membership(gen) ==
    LET chain[n \in 0..gen.index] ==
            IF n = 0 THEN {gen}
            ELSE chain[n-1] \cup ({r.parent : r \in chain[n-1]} \ {None})
    IN  UNION {r.added : r \in chain[gen.index]}

\* check_depends_closure
DependsClosed(objects) ==
    \A v \in OfKind(objects, "version") :
        \A d \in DOMAIN v.deps : v.deps[d] \in objects

----------------------------------------------------------------------------
(* The author.                                                             *)

\* A source is written, changed or deleted.  A command reads the sources
\* once, as it starts, so an edit made while one runs is an edit made
\* after it.
Edit(s) ==
    /\ session = Idle
    /\ edits < MaxEdits /\ edits' = edits + 1
    /\ \E x \in Source \cup {None} :
          /\ x # src[s]
          /\ src' = [src EXCEPT ![s] = x]
    /\ UNCHANGED <<disk, session, crashes, history>>

\* Session::open: corpus.lock and drafts.json must be readable.
Open == session = Idle /\ torn \cap {LockFile, DraftsFile} = {}

----------------------------------------------------------------------------
(* pub build                                                               *)

\* Mutant: a draft also supersedes the draft before it.
DraftedOnDrafts ==
    LET owned == UNION {Owned(src, lock.entries, store, FALSE)[s] : s \in Slug}
    IN  owned \cup {Supersedes(n, o) : n \in OfKind(owned, "version"),
                                      o \in OfKind(drafts, "version") \ owned}

\* Session::build, without tags: what the tree's drafts consist of.  They
\* are built against the published rows, never an earlier draft.
Drafted == UNION {Owned(src, lock.entries, store, FALSE)[s] : s \in Slug}

Build ==
    /\ Open
    /\ Admissible(src, lock.entries, store)
    /\ session' = [phase |-> "draft", puts |-> Drafted \ store, owned |-> Drafted]
    /\ UNCHANGED <<src, disk, budget, history>>

\* The next object in the order built; the signatures, which come last,
\* together.
Put ==
    /\ session.phase \in {"draft", "put"} /\ session.puts # {}
    /\ store' = store \cup First(session.puts)
    /\ session' = [session EXCEPT !.puts = @ \ First(session.puts)]
    /\ UNCHANGED <<src, drafts, lock, files, records, torn, budget, history>>

\* Mutants: exported objects are dropped too; nothing is dropped.
StaleExportedToo == drafts \ session.owned
StaleKept == {}

\* An earlier draft this one replaces is dropped unless its file is there.
Stale == (drafts \ session.owned) \ (files \cup torn)

RemoveStale ==
    /\ session.phase = "draft" /\ session.puts = {}
    /\ Stale \cap store # {}
    /\ store' = store \ Stale
    /\ UNCHANGED <<src, drafts, lock, files, records, torn, session, budget, history>>

WriteDrafts ==
    /\ session.phase = "draft" /\ session.puts = {}
    /\ Stale \cap store = {}
    /\ drafts' = session.owned
    /\ session' = Idle
    /\ UNCHANGED <<src, store, lock, files, records, torn, budget, history>>

----------------------------------------------------------------------------
(* pub publish                                                             *)

\* Mutants: only the rows just published are kept; every built row goes to
\* the lock, selected or not.
PublishedRowsOnly(selected) ==
    [s \in selected |-> Rows(src, lock.entries)[s]]
PublishedRowsAll(selected) ==
    [s \in Slug |-> IF src[s] # None THEN Rows(src, lock.entries)[s]
                    ELSE lock.entries[s]]

\* The rows corpus.lock will have: those selected as built, the others as
\* they were.
PublishedRows(selected) ==
    [s \in Slug |-> IF s \in selected THEN Rows(src, lock.entries)[s]
                    ELSE lock.entries[s]]

\* sign_each: a signature on each object that has none.
Signatures(objects) == {Sig(o) : o \in {x \in objects : Sig(x) \notin store}}

\* `named' are the slugs given, or with --all every one declared, which may
\* be none.
Publish(named) ==
    /\ Open
    /\ named \subseteq Declared(src)
    /\ named = {} => Declared(src) = {}
    /\ Admissible(src, lock.entries, store)
    /\ BuildFirst => drafts = Drafted
    /\ LET owned    == Owned(src, lock.entries, store, TRUE)
           built    == UNION {owned[s] : s \in Slug}
           selected == Select(Changed(src, lock.entries), named)
           chosen   == UNION {owned[s] : s \in selected}
           release  == chosen \cup Signatures(chosen)
       IN  /\ session' =
                [ phase       |-> "put",
                  puts        |-> (built \ store) \cup Signatures(chosen),
                  release     |-> release,
                  unpublished |-> (drafts \cup built) \ release,
                  remaining   |-> built \ release,
                  entries     |-> PublishedRows(selected),
                  gen         |-> None ]
           /\ released' = released \cup release
    /\ UNCHANGED <<src, disk, budget, recorded>>

\* Mutant: drafts are exported with the rest.
ToExportDraftsToo == store \ (files \cup torn)

\* export: every object held and not a draft, unless its file exists.
ToExport == (store \ session.unpublished) \ (files \cup torn)

Export ==
    /\ session.phase = "put" /\ session.puts = {}
    /\ ToExport # {}
    /\ files' = files \cup ToExport
    /\ UNCHANGED <<src, store, drafts, lock, records, torn, session, budget, history>>

\* advance reads every file of objects/ back before it records anything.
Advancing ==
    session.phase = "put" /\ session.puts = {} /\ ToExport = {}

\* Mutant: a file that does not parse is passed over.
AdvanceAcceptsTorn ==
    /\ Cardinality(files) <= Bound
    /\ DependsClosed(files)
    /\ lock.gen # None => Membership(lock.gen) \subseteq files

AdvanceAccepts ==
    /\ torn = {}
    /\ Cardinality(files) <= Bound
    /\ DependsClosed(files)
    /\ lock.gen # None => Membership(lock.gen) \subseteq files

AdvanceRefused ==
    /\ Advancing /\ ~AdvanceAccepts
    /\ session' = Idle
    /\ UNCHANGED <<src, disk, budget, history>>

AdvanceUnchanged ==
    /\ Advancing /\ AdvanceAccepts
    /\ lock.gen # None /\ Membership(lock.gen) = files
    /\ session' = [session EXCEPT !.phase = "lock", !.gen = lock.gen]
    /\ UNCHANGED <<src, disk, budget, history>>

\* Mutant: only what this publish releases is recorded as added.
AddedReleased == session.release

Added == files \ Membership(lock.gen)

AdvanceNext ==
    /\ Advancing /\ AdvanceAccepts
    /\ lock.gen # None /\ Membership(lock.gen) # files
    /\ \E t \in Time :
         LET next == NextGeneration(lock.gen, files, Added, t)
         IN  /\ records' = records \cup {next}
             /\ session' = [session EXCEPT !.phase = "lock", !.gen = next]
    /\ UNCHANGED <<src, store, drafts, lock, files, torn, budget, history>>

AdvanceManifest ==
    /\ Advancing /\ AdvanceAccepts
    /\ lock.gen = None
    /\ \E t \in Time :
         LET domain == Manifest(files, t)
         IN  /\ records' = records \cup {domain}
             /\ session' = [session EXCEPT !.phase = "genesis",
                                           !.gen = Genesis(domain, files, t)]
    /\ UNCHANGED <<src, store, drafts, lock, files, torn, budget, history>>

AdvanceGenesis ==
    /\ session.phase = "genesis"
    /\ records' = records \cup {session.gen}
    /\ session' = [session EXCEPT !.phase = "lock"]
    /\ UNCHANGED <<src, store, drafts, lock, files, torn, budget, history>>

\* Mutant: the lock is rewritten with the rows it had.
WriteLockUnchangedRows ==
    /\ session.phase = "lock"
    /\ lock' = [lock EXCEPT !.gen = session.gen]
    /\ session' = [session EXCEPT !.phase = "forget"]
    /\ UNCHANGED <<src, store, drafts, files, records, torn, budget, history>>

WriteLock ==
    /\ session.phase = "lock"
    /\ lock' = [entries |-> session.entries, gen |-> session.gen]
    /\ recorded' = recorded \cup
          {session.entries[s].cid : s \in {x \in Slug : session.entries[x] # None}}
    /\ session' = [session EXCEPT !.phase = "forget"]
    /\ UNCHANGED <<src, store, drafts, files, records, torn, budget, released>>

\* remaining_drafts: of what this publish built, what it did not release.
ForgetPublished ==
    /\ session.phase = "forget"
    /\ drafts' = session.remaining
    /\ session' = Idle
    /\ UNCHANGED <<src, store, lock, files, records, torn, budget, history>>

----------------------------------------------------------------------------
(* The process dies: between two writes, after some of the writes one      *)
(* action stands for, or inside a write to a file.                         *)

Die ==
    /\ session # Idle /\ session' = Idle
    /\ crashes < MaxCrashes /\ crashes' = crashes + 1
    /\ UNCHANGED <<src, edits, history>>

\* Each put is a transaction: some of the next ones are in, whole.
CrashPutting ==
    /\ session.phase \in {"draft", "put"} /\ session.puts # {}
    /\ \E part \in SUBSET First(session.puts) : store' = store \cup part
    /\ UNCHANGED <<drafts, lock, files, records, torn>>
    /\ Die

CrashRemoving ==
    /\ session.phase = "draft" /\ session.puts = {}
    /\ \E part \in SUBSET (Stale \cap store) : store' = store \ part
    /\ UNCHANGED <<drafts, lock, files, records, torn>>
    /\ Die

\* A file is a plain write: the last one begun may be cut short.
CrashExporting ==
    /\ session.phase = "put" /\ session.puts = {}
    /\ \E part \in SUBSET ToExport :
          /\ files' = files \cup part
          /\ torn' \in {torn} \cup {torn \cup {o} : o \in ToExport \ part}
    /\ UNCHANGED <<store, drafts, lock, records>>
    /\ Die

\* The one file about to be written besides the objects.
Writing ==
    CASE session.phase = "draft"   -> {DraftsFile}
      [] session.phase = "put"     ->
            IF lock.gen = None THEN {Manifest(files, t) : t \in Time}
            ELSE {NextGeneration(lock.gen, files, Added, t) : t \in Time}
      [] session.phase = "genesis" -> {session.gen}
      [] session.phase = "lock"    -> {LockFile}
      [] session.phase = "forget"  -> {DraftsFile}

\* A write truncates first: what the file said before is gone, a record that
\* an attempt that died wrote included.
Truncated(f) ==
    /\ records' = records \ {f}
    /\ lock' = IF f = LockFile THEN NoLock ELSE lock
    /\ drafts' = IF f = DraftsFile THEN {} ELSE drafts

CrashWriting ==
    /\ \/ session.phase \in {"genesis", "lock", "forget"}
       \/ session.phase = "draft" /\ session.puts = {} /\ Stale \cap store = {}
       \/ Advancing /\ AdvanceAccepts
          /\ (lock.gen # None => Membership(lock.gen) # files)
    /\ \/ UNCHANGED <<drafts, lock, records, torn>>
       \/ \E f \in Writing : torn' = torn \cup {f} /\ Truncated(f)
    /\ UNCHANGED <<store, files>>
    /\ Die

----------------------------------------------------------------------------

Command ==
    \/ Put \/ RemoveStale \/ WriteDrafts
    \/ Export \/ AdvanceRefused \/ AdvanceUnchanged \/ AdvanceNext
    \/ AdvanceManifest \/ AdvanceGenesis \/ WriteLock \/ ForgetPublished

Next ==
    \/ \E s \in Slug : Edit(s)
    \/ Build
    \/ \E named \in SUBSET Slug : Publish(named)
    \/ Command
    \/ CrashPutting \/ CrashRemoving \/ CrashExporting \/ CrashWriting

Spec == Init /\ [][Next]_vars

\* A command that has started keeps running until it ends.
FairSpec == Spec /\ WF_vars(Command)

----------------------------------------------------------------------------
(* Properties.                                                             *)

\* The command in progress: a build has what it owns, a publish what it
\* releases, what stays a draft, and the rows and generation it will record.
SessionOK ==
    \/ session = Idle
    \/ /\ session.phase = "draft"
       /\ session = [phase |-> "draft", puts |-> session.puts,
                     owned |-> session.owned]
       /\ session.puts \subseteq session.owned
    \/ /\ session.phase \in {"put", "genesis", "lock", "forget"}
       /\ session = [ phase       |-> session.phase,
                      puts        |-> session.puts,
                      release     |-> session.release,
                      unpublished |-> session.unpublished,
                      remaining   |-> session.remaining,
                      entries     |-> session.entries,
                      gen         |-> session.gen ]
       /\ session.release \cap session.unpublished = {}
       /\ DOMAIN session.entries = Slug

\* Type invariant: Session::open and what each command keeps in memory.
TypeOK ==
    /\ src \in [Slug -> Source \cup {None}]
    /\ lock = [entries |-> lock.entries, gen |-> lock.gen]
    /\ DOMAIN lock.entries = Slug
    /\ edits \in 0..MaxEdits /\ crashes \in 0..MaxCrashes
    /\ SessionOK

\* An object in objects/ stays in the workspace's store: the drafts a build
\* drops are never ones a publish, even one that died, has exported.
ExportedHeld == files \subseteq store

\* Whatever corpus.lock has ever named is in objects/, whole and signed, and
\* everything it cites is there too, wherever a publish may have died.
RecordedWhole ==
    \A v \in recorded :
        /\ {v, Sig(v)} \subseteq files
        /\ \A d \in DOMAIN v.deps : v.deps[d] \in files

\* The generation corpus.lock names was written before the lock named it,
\* the chain of records behind it says exactly what its snapshot says, and
\* each of its members is still in objects/.
GenerationSound ==
    lock.gen # None =>
        /\ lock.gen \in records
        /\ Membership(lock.gen) = lock.gen.snapshot
        /\ lock.gen.snapshot \subseteq files

\* A draft revises what was published, never an earlier draft: the older end
\* of every supersedes edge the workspace holds is a version the lock named.
RevisesPublished ==
    \A e \in OfKind(store, "supersedes") : e.to \in recorded

\* Read through corpus.lock, the corpus is the abstract one: a publish shows
\* all at once, or not at all, or leaves a lock nobody can read, however many
\* writes it takes and wherever it may die.
Published == INSTANCE PublishedCorpus WITH
    readable <- LockFile \notin torn,
    entries  <- lock.entries,
    index    <- IF lock.gen = None THEN 0 ELSE lock.gen.index + 1,
    members  <- IF lock.gen = None THEN {} ELSE lock.gen.snapshot

ImplementsPublished == Published!Spec

\* Drafts stay in the workspace: what is exported is what some publish
\* chose to release.
DraftsStayLocal == files \subseteq released

\* A published publet carries the tag its row names.
PublishTags ==
    session = Idle =>
        \A s \in Slug : lock.entries[s] # None =>
            lock.entries[s].tag \in TagsOf(files, lock.entries[s].genesis)

\* A published publet carries no tag but the one its row names: a build that
\* files another withdraws the one recorded before it.
OldTagsWithdrawn ==
    session = Idle =>
        \A s \in Slug : lock.entries[s] # None =>
            TagsOf(files, lock.entries[s].genesis) \subseteq {lock.entries[s].tag}

\* The tag a row names, as the annotation that files it.
Filed(row) == Tagged(row.genesis, row.tag)

\* `row' went back to a tag its lineage had before: with another tag of the
\* same lineage its author withdrew this one.
WentBack(row) ==
    \E r \in OfKind(files, "retracts") :
        /\ r.to = Filed(row) /\ r.from \in files
        /\ r.from.kind = "tagged"
        /\ r.from.target = row.genesis /\ r.from.tag # row.tag

\* The tag of every row, from the write of corpus.lock on, is an annotation
\* in objects/, wherever publishes died before, and it is live unless the
\* row went back to a tag withdrawn earlier.
TagsExported ==
    \A s \in Slug : lock.entries[s] # None =>
        /\ Filed(lock.entries[s]) \in files
        /\ \/ lock.entries[s].tag \in TagsOf(files, lock.entries[s].genesis)
           \/ WentBack(lock.entries[s])

\* Between commands the store holds what is exported and the current
\* drafts, and nothing else: experimenting leaves no history.
NoHistory == session = Idle => store \subseteq files \cup drafts

\* Drafts leave nothing behind, neither outside the workspace nor in it.
DraftsLeaveNothing == DraftsStayLocal /\ NoHistory

\* A publish that starts ends with every version it selected in the lock.
PublishCompletes ==
    \A s \in Slug :
        (session.phase = "put" /\ session.entries[s] # lock.entries[s])
            ~> (session.phase = "forget" /\ lock.entries[s] = session.entries[s])

=============================================================================
