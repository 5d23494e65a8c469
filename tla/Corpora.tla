------------------------------- MODULE Corpora -------------------------------
(***************************************************************************)
(* A corpus that builds on a parent corpus: porcelain/src/corpus.rs.       *)
(*                                                                         *)
(* The child is pinned to a generation of its parent and cites the         *)
(* parent's publets as `alias:slug'.  What a name resolved to is recorded, *)
(* in drafts.json by a build and in corpus.lock by a publish, and later    *)
(* commands use the record.  `pub corpus upgrade' moves the pin to the     *)
(* parent's latest generation and resolves the lock's names again.         *)
(*                                                                         *)
(* Build and publish hold the child's store open and so exclude each       *)
(* other; upgrade opens no store and may run beside them, and the parent   *)
(* is published from a workspace of its own.  The child has one publet,    *)
(* whose version is what it cites.  How a publish's own writes may be cut  *)
(* short is Workshop's subject; here each file is written in one step.     *)
(***************************************************************************)
EXTENDS Naturals, FiniteSets, Sequences

CONSTANTS
    Slug,       \* the parent's publets
    None,       \* no pin, no version
    MaxParent,  \* how many generations the parent publishes
    MaxEdits,   \* how often the child's source is edited
    MaxIndex,   \* how many generations the child records
    Beside      \* whether an upgrade may run beside another command

ASSUME CorporaAssumption ==
    /\ MaxParent \in Nat \ {0} /\ MaxEdits \in Nat /\ MaxIndex \in Nat
    /\ Beside \in BOOLEAN
    /\ None \notin Nat

VARIABLES
    parent,     \* parent[g]: the slugs the parent's lock had at generation g
    cites,      \* the slugs the child's source cites
    edits,
    lock,       \* the child's corpus.lock: version, generation, pin, imports
    drafts,     \* the child's drafts.json: pin, imports
    objects,    \* the child's objects/: versions and what they cite
    replaced,   \* the supersedes edges among them
    session,    \* the build or publish in progress
    upgrading   \* the upgrade in progress

vars == <<parent, cites, edits, lock, drafts, objects, replaced, session, upgrading>>

Idle == [phase |-> "idle"]

\* A version of a parent's publet, by its place in the publet's history.
Versions == 0..MaxParent
Imported == [slug : Slug, version : Versions]

\* Resolutions of names: at most one for each slug.
Imports == {f \in SUBSET Imported :
               \A i, j \in f : i.slug = j.slug => i = j}
Names(imports) == {i.slug : i \in imports}

\* BTreeMap::extend: the second's entries win.
Extend(first, second) ==
    {i \in first : i.slug \notin Names(second)} \cup second

----------------------------------------------------------------------------
(* The parent, as its children see it.                                     *)

Latest == Len(parent)

\* ParentView.slugs: what the parent's lock declares.
Slugs == {[slug |-> s, version |-> parent[Latest][s]] :
             s \in {x \in Slug : parent[Latest][x] # 0}}

\* ParentView.members: what the pinned generation holds.  A corpus never
\* removes a member, so that is everything published up to it.
Members(pin) ==
    {i \in Imported : i.version # 0 /\ \E g \in 1..pin : parent[g][i.slug] = i.version}

\* The parent publishes a new publet or a new version of one.
ParentPublish(s) ==
    /\ Latest < MaxParent
    /\ parent' = Append(parent, [parent[Latest] EXCEPT ![s] = @ + 1])
    /\ UNCHANGED <<cites, edits, lock, drafts, objects, replaced, session, upgrading>>

Init ==
    /\ \E s \in Slug : parent = <<[x \in Slug |-> IF x = s THEN 1 ELSE 0]>>
    /\ cites = {}
    /\ edits = 0
    /\ lock = [version |-> None, index |-> 0, members |-> {},
               pin |-> None, imports |-> {}]
    /\ objects = {}
    /\ drafts = [pin |-> None, imports |-> {}]
    /\ replaced = {}
    /\ session = Idle
    /\ upgrading = Idle

----------------------------------------------------------------------------
(* Session::open and Importer::resolve                                     *)

\* Mutant: the pin that lives with the drafts is preferred.
PinDraftFirst ==
    IF drafts.pin # None THEN drafts.pin
    ELSE IF lock.pin # None THEN lock.pin
    ELSE Latest

\* The published pin, else the drafts', else the parent's latest.
Pin ==
    IF lock.pin # None THEN lock.pin
    ELSE IF drafts.pin # None THEN drafts.pin
    ELSE Latest

\* Mutant: a draft's resolution is preferred.
KnownDraftFirst == Extend(lock.imports, drafts.imports)

\* What is published wins.
Known == Extend(drafts.imports, lock.imports)

\* What the names not yet known resolve to: the parent's current versions.
Fresh == {i \in Slugs : i.slug \in cites \ Names(Known)}

\* Mutant: a version newer than the pinned generation is let through.
ResolvesUnpinned == cites \subseteq Names(Known) \cup Names(Fresh)

\* Every name is known, or declared by the parent and within the pin.
Resolves ==
    /\ cites \subseteq Names(Known) \cup Names(Fresh)
    /\ Fresh \subseteq Members(Pin)

\* The version the source becomes.
Version(imports) == [cites |-> {i \in imports : i.slug \in cites}]

\* What `v' replaced, directly or not.
Older(v) ==
    LET reach[n \in 0..Cardinality(replaced)] ==
            IF n = 0 THEN {v}
            ELSE reach[n-1] \cup
                 {e[2] : e \in {x \in replaced : x[1] \in reach[n-1]}}
    IN  reach[Cardinality(replaced)]

\* A build is refused, and stores nothing, if a name does not resolve or
\* the new version's supersedes edge would close a cycle.
Builds ==
    /\ cites # {}
    /\ Resolves
    /\ LET new == Version(Known \cup Fresh)
       IN  \/ lock.version \in {None, new}
           \/ <<new, lock.version>> \in replaced
           \/ new \notin Older(lock.version)

Opened(phase) ==
    /\ session = Idle
    /\ ~Beside => upgrading = Idle
    /\ Builds
    /\ session' = [ phase |-> phase, pin |-> Pin, imports |-> Known \cup Fresh,
                    version |-> Version(Known \cup Fresh), base |-> lock ]
    /\ UNCHANGED <<parent, cites, edits, lock, drafts, objects, replaced, upgrading>>

Build == Opened("build")
Publish == Opened("publish")

\* write_drafts: the pins and the resolutions, with the objects built.
WriteDrafts ==
    /\ session.phase \in {"build", "published"}
    /\ drafts' = [pin |-> session.pin, imports |-> session.imports]
    /\ session' = Idle
    /\ UNCHANGED <<parent, cites, edits, lock, objects, replaced, upgrading>>

\* publish: the new version and what it reaches in the parent are exported,
\* the next generation is recorded if the membership changed, and the lock,
\* as it was read when the session opened, is written with the new version,
\* pin and resolutions.
WriteLock ==
    /\ session.phase = "publish"
    /\ objects' = objects \cup {session.version} \cup session.version.cites
    /\ LET base == session.base
           grew == objects' # base.members
       IN  /\ grew => base.index < MaxIndex
           /\ lock' = [ version |-> session.version,
                        index   |-> IF grew THEN base.index + 1 ELSE base.index,
                        members |-> objects',
                        pin     |-> session.pin,
                        imports |-> session.imports ]
           /\ replaced' = replaced \cup
                (IF base.version \in {None, session.version} THEN {}
                 ELSE {<<session.version, base.version>>})
    /\ session' = [session EXCEPT !.phase = "published"]
    /\ UNCHANGED <<parent, cites, edits, drafts, upgrading>>

----------------------------------------------------------------------------
(* pub corpus upgrade: the lock is read, changed and written back.         *)

\* Mutant: the lock's corpus section starts from the default.
UpgradeDefault ==
    /\ upgrading = Idle
    /\ ~Beside => session = Idle
    /\ upgrading' = [ phase |-> "upgrade",
                      lock  |-> [lock EXCEPT
                         !.pin = Latest, !.index = 0, !.members = {}]]
    /\ UNCHANGED <<parent, cites, edits, lock, drafts, objects, replaced, session>>

Upgrade ==
    /\ upgrading = Idle
    /\ ~Beside => session = Idle
    /\ upgrading' = [ phase |-> "upgrade",
                      lock  |-> [lock EXCEPT
                         !.pin = Latest,
                         !.imports = Extend(@, {i \in Slugs : i.slug \in Names(@)})]]
    /\ UNCHANGED <<parent, cites, edits, lock, drafts, objects, replaced, session>>

WriteUpgrade ==
    /\ upgrading # Idle
    /\ lock' = upgrading.lock
    /\ upgrading' = Idle
    /\ UNCHANGED <<parent, cites, edits, drafts, objects, replaced, session>>

----------------------------------------------------------------------------
(* pub corpus status                                                       *)

UpToDate == lock.pin # None /\ lock.pin = Latest
HasNewer == {i \in lock.imports : \E j \in Slugs : j.slug = i.slug /\ j # i}

----------------------------------------------------------------------------

\* The author changes what the source cites; a command reads the source
\* as it opens, so an edit beside one is an edit after it.
Edit ==
    /\ session = Idle
    /\ edits < MaxEdits /\ edits' = edits + 1
    /\ \E c \in SUBSET Slug : c # cites /\ cites' = c
    /\ UNCHANGED <<parent, lock, drafts, objects, replaced, session, upgrading>>

Next ==
    \/ \E s \in Slug : ParentPublish(s)
    \/ Edit
    \/ Build \/ Publish \/ WriteDrafts \/ WriteLock
    \/ Upgrade \/ WriteUpgrade

Spec == Init /\ [][Next]_vars

----------------------------------------------------------------------------
(* Properties.                                                             *)

\* Whatever corpus.lock says a name resolved to is a member of the
\* generation it pins, however builds, upgrades and the parent's own
\* publishing interleave: the parent can always supply it.
ImportsWithinPin ==
    lock.imports # {} => lock.pin # None /\ lock.imports \subseteq Members(lock.pin)

\* An upgrade unblocks: a corpus pinned to its parent's latest generation
\* can resolve whatever that parent declares, whatever its drafts recorded.
UpgradeUnblocks ==
    UpToDate /\ session = Idle /\ cites \subseteq Names(Slugs) => Resolves

\* A pin supplies what is cited: what corpus.lock resolved is in the
\* generation it pins, and pinning the latest opens all that it declares.
PinSupplies == ImportsWithinPin /\ UpgradeUnblocks

\* What an upgrade resolved stays resolved: no later command takes a
\* recorded name back to an older version, or the pin to an older generation.
UpgradeStands ==
    [][/\ lock.pin # None => lock'.pin # None /\ lock'.pin >= lock.pin
       /\ \A i \in lock.imports : \E j \in lock'.imports :
             j.slug = i.slug /\ j.version >= i.version]_vars

\* What a publish recorded stays recorded: the generation corpus.lock names
\* is never followed by an earlier one.
PublishStands == [][lock'.index >= lock.index]_vars

\* Nothing corpus.lock records of a parent or of a publish is taken back.
RecordedStands == UpgradeStands /\ PublishStands

\* After an upgrade, builds cite what the parent now has: a corpus that
\* status calls up to date has no import with a newer version.
UpToDateIsCurrent == UpToDate => HasNewer = {}

=============================================================================
