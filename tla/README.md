# A TLA+ verification of publet

publet is a reference implementation of the Publet Protocol: signed,
content-addressed claims, the graph they form, corpora that publish them as
domains with numbered generations, and nodes that store and serve them. This
directory models the parts that keep or change state, checks them with TLC on
small instances and proves the central invariants with TLAPS for every value of
the constants.

## 1. The system

| Part | State it keeps | Operations | What is hard |
|---|---|---|---|
| Corpus (`porcelain/src/corpus.rs`, `build.rs`) | sources, the workspace's store, `drafts.json`, `corpus.lock`, `objects/` | `pub build`, `pub publish` | a command is dozens of separate writes; the process may die between or inside any of them |
| Parents and imports (`corpus.rs`) | pins and resolutions, in two files | build, publish, `pub corpus upgrade`, `status` | the parent moves by itself; upgrade takes no lock |
| Signing keys (`sign.rs`, `workspace.rs`) | `signing.key`, `retired/`, `author` in `config`, key objects | generate, rotate, sign | three places that must agree, written one by one |
| Store (`publet-store`, `pub-store`) | objects, blobs, declarations, tombstones, timestamps, generations | add, declare, gc, remove, tombstone, archive, generation | domains share members; commands of several transactions |
| Node (`publet-net`, `pub-serve`) | the store, offers in progress | offer, checkpoints, delta | handlers interleave; the node is stopped and worked on between requests |
| Sync (`pub-sync`, `pub sync`) | the reader's replica and its place | checkpoints, delta, put | two requests and a run of writes, each of which may be the last |
| Single objects (`compose`, `document`, `relate`, `annotate`, `delegate`, `revise`) | the workspace's store | one or two puts, each offered to a graph of everything held | `revise` puts twice; the author may change in between |
| Rendering (`render.rs`, `env.rs`, `corpus.rs`) | the render output (page, set document, record), the environment cache, rendering records, `blobs/` | `pub env build`, `pub render`, what publish pins, `--prune` | steps run without a lock; files and tools change underneath |
| Generations and deltas (`publet-domain`) | records, a reader's membership | publish, `apply` | a peer may alter what it hands over |
| Witnesses (`publet-domain`, `pub witness`) | what each reader has been shown | witness, `detect_split_views` | readers see different histories at different times |
| Claim graph (`publet-graph`) | the objects admitted and their indexes | insert, validate, load | objects arrive in any order; authority may arrive late |
| Merkle log and membership (`publet-algorithms`) | what an auditor last accepted | roots, inclusion, consistency and absence proofs | proofs and sizes come from the one being checked; the end of the word |
| Evaluation (`publet-eval`, `pub why`, `pub policy`) | the policy pointed to; a standing is worked out each time | gather, propagate, evaluate | evidence, ties and trust arrive in any order, from anyone |
| Reading (`reach`, `pub propose`, `pub get`, `pub-divergence`) | none | closures, lineages and comparisons over the graph | the answer changes as strangers' objects arrive |
| Settlement, documents, quantities, linting, core encoding | none of their own | queries, conversions | mostly pure |

How they interact. `pub build` and `pub publish` load the workspace's store and
the parents' pinned members into a claim graph, offer it what they build, and
store and export what it admits. A published corpus is a domain: a manifest and
a chain of generation records in `objects/`. An operator loads those into a
node's store (`pub-store`), the server serves them, readers sync them by delta,
apply the records and witness the roots they saw.

Correctness, part by part: what `corpus.lock` names is whole wherever a command
died, and drafts never leave the workspace; a child's resolutions stay within
its pin and an upgrade is not undone; no secret is lost and every signature can
be checked; a declared object is never lost silently; a reader has what it
believes it has; a membership a reader reaches is the one its last record says;
split views show and honest histories do not look split; the order of arrival
never decides what a graph accepts, and third parties never get into an
author's lineage; keys nobody vouches for move no standing, and what meets a
floor was done by independent people; no accepted proof hides a rewritten
generation or denies a member; what is pinned as a rendering of a version was
made from it; a workspace goes on loading whatever its commands write.

The hazards behind these are in `PROJECT.json`, each at its line.

## 2. The modules

| Module | Models | Notes |
|---|---|---|
| `BuildTree` | `build_tree` and what it calls | operators; an object is the term it is the hash of |
| `Workshop` | a corpus on disk, one action per write | EXTENDS `BuildTree` |
| `PublishedCorpus` | what a reader of `corpus.lock` sees: publishing in one step | the abstract specification `Workshop` implements |
| `Corpora` | a child corpus and its moving parent | |
| `Keys` | the signing key, its files and its commands | |
| `Store` | one node's store, its operator and its server | |
| `Sync` | a reader following the node | EXTENDS `Store`: the two run together |
| `Following` | records, `apply`, witnesses and split views | |
| `Merkle`, `Auditing` | the log and the membership tree; an auditor and a publisher who may rewrite | `Merkle` is operators; what the code computes of a slice by recursion is a function tabulated by the slice's length |
| `Graph` | what the graph admits and how lineages are read | operators over a set of admitted objects |
| `GraphLoad` | `from_objects`, object by object, both passes | EXTENDS `Graph` |
| `Lineage` | what lineages say while a graph grows | EXTENDS `GraphLoad` |
| `Evidence` | policies, trust, evidence, standings | EXTENDS `Lineage`; adds the policy pointed to |
| `Reading` | copies, staleness, divergence, current values and their status | EXTENDS `Evidence`; operators and properties |
| `Desk` | the commands that write one or two objects | EXTENDS `Keys`: the two run together |
| `Rendering` | environments, renders, pinned renderings, pruning | |
| `MC*` | instances for TLC | constants, a starting state, a budget |
| `WorkshopProofs`, `CorporaProofs`, `StoreProofs`, `DomainProofs`, `GraphProofs`, `DeskProofs`, `RenderingProofs` | theorems and proofs | `StoreProofs` also of `Sync`, `DomainProofs` of `Following`, `Merkle` and `Auditing`, `GraphProofs` of `GraphLoad`, `Lineage`, `Evidence` and `Reading`, `DeskProofs` of `Keys` |
| `Induction` | lemmas on induction, counting and folds | the other proofs rest on it |

Definitions keep the source's names; `PROJECT.json` maps each to its lines.
Definitions named in a comment as *Mutant* are deliberate bugs: each property
has one that it must, and does, reject.

### Workshop

State: `src` is `publets/`, `store` the workspace's database, `drafts`
`drafts.json`, `lock` `corpus.lock`, `files` and `records` what is whole in
`objects/`, `torn` what a process that died left half written. `session` is the
command in progress: what it still has to put, what it will release, what stays
a draft, the rows and generation it will record.

`Build` opens the session and works out the drafts; `Put`, `RemoveStale` and
`WriteDrafts` are its writes. `Publish` does the same with tags and signatures;
`Put`, `Export`, the `Advance*` actions, `WriteLock` and `ForgetPublished` are
its writes, in the code's order. `Crash*` ends a command after some of the
writes an action stands for, or inside a file: transactions are whole or absent,
files may be cut short, and a write cut short has already lost what the file said
(`Truncated`). A torn `corpus.lock` or `drafts.json` makes every later command
fail, and a torn object makes every later advance fail: the code reads them back
and refuses. `PublishedCorpus` therefore promises its reader one step or a lock
that cannot be read (`Lose`), and no more.

Abstractions: a publet with the claims it owns is one node; the bound is counted
in objects, not bytes; the corpus has no parents (that is `Corpora`) and no
renderings. The store's exclusive lock makes commands serial, so an edit while
one runs is an edit after it.

### Corpora

The parent is the sequence of what its lock declared, generation by generation.
`Opened` is `Session::open` and the build: the pin is the lock's, else the
drafts', else the latest; known resolutions are the drafts' overridden by the
lock's; the rest resolve to the parent's current versions if the pinned
generation has them. `Upgrade` and `WriteUpgrade` are the read and the write of
`pub corpus upgrade`. `Beside` says whether an upgrade may run while another
command does: the code does not prevent it, since upgrade opens no store.

### Keys

A key is the number of its secret. Each command is a process with a program
counter; `holder` is who has the store open. What a command reads before it
opens the store is kept in its process record and may be stale by then. A crash
may cut the key file or the configuration short.

### Store and Sync

Each `Store` method is a transaction and an action; a command of several is an
action for each, between which `Die` may end it. `bad` holds objects whose bytes
changed underneath the database (external: disks do). The server excludes the
operator's commands; among its handlers only `offer` writes, looking first and
storing afterwards. In `Sync` a reader asks, requests, receives and stores; the
delta handler reads its records and then its objects one by one. `Careful` says
whether the operator indexes generations in order and after their objects, and
`Commands` which commands the node's operator uses. `MaxLosses` bounds how often
a connection breaks or the reader's process dies. `missed` is a history: what a
delta had still to read while the node did not hold it, or not intact. It is what
the reader's properties except, so they can be stated of a node that collects,
removes and is damaged in the middle of a request.

### Desk

A command of `Desk` runs while no other holds the store, so each is one step but
`revise`, whose process may die between its two puts (`ReviseCutShort`). An
object is what it says: the same text by the same author is the same object,
because `created` is a constant unless a flag gives it. `Loads` is what the
loader asks of the set; `annotate` is modelled by its verdicts, the only kind the
loader judges. `versions` and `undone` are histories: what `revise` made, and
what it took away that was there before.

### Rendering

One document and a pipeline of two steps, the first writing a page, the second
setting it with a tool that is installed, or pinned in an environment. A render
reads the store, lets it go and runs its steps over files that other commands
see; `RenderRecord` writes what it made and `pub publish` pins it if what it finds
is what the record says. `Upgrade` changes the tool or the cited file and `Restate`
the tool's identity claim between any two steps (external: users do). An environment counts once its record is
written. `Beside`, `Renderer` and `Builder` say what may run at once: `renderings` has one
of each and none beside a publish;
section 5 says what more than one does.

### Merkle and Auditing

Hashing is collision-free and a hash is the term it is taken of. Words have
`Width` bits, so that the run reaches the end of the word, where the code's bit
counting could go wrong. `Roots`, `InclusionProof`'s paths and `Subproofs` are
functions of a part's length and of what comes before it, each unfolding at
`Split` as the code's recursion does; `Sides` is the descent of
`verify_inclusion`, and `Climb` the fold that it and `verify_consistency` share.
A shift is a quotient by a power of two, a bit the parity of one, and the length
of an exclusive or the least shift at which two words agree (`DifferWithin`).
No code of the repository keeps a log of generations, so `Leaves` and `Enter` are
external: what is checked is the library's proofs, on a log such as `log.rs` says
they are for. In `Auditing`, `Enter` publishes a generation, `Rewrite` lets the publisher go
back on one the auditor has seen, and `Audit` accepts what verifies of proofs
made for the true history or a spliced one, for any size, cut short or extended.
`Cid` is a set of numbers because members are kept and compared in order.

### Following

A membership root is collision-free, so it stands for the set. A peer has
everything the publisher showed anyone (`AtHand`) and the records in `Forged`,
which are anybody's, and hands over any sequence of them (`Handed`), the last
snapshot included: `pub-delta` looks at what a record is, not at who made it.
`told` is a history: the records a reader's runs ended in. What can be promised is
what follows when the last record is the publisher's (`Guided`). Readers are shown
one or several histories; `manner` says whether they witness what they reached or
what `pub witness` prints.

### Graph, GraphLoad, Lineage, Evidence, Reading

Objects are records with the fields admission and evaluation look at. `Reaches`
is the least closed set, which is what the code's traversal computes. `GraphLoad`
takes the files in any order, defers what `insert` refuses and retries it in any
order (a superset of the code's order). The other three read the same growing
graph: `Lineage` its lineages, `Evidence` the standing a policy gives a claim
(`Adopt` points the workspace to another policy), `Reading` what is copied, what
has moved, where words differ and what value is current. None of these keeps
anything, so every property of theirs is about what the next object may change.
A delegation's `aspect` says it covers lineages; a signature's `kind` is the
purpose it verifies for. `NoPart` is what the properties call having no part in
a lineage: an object is its author's word and, if it is a key object, also the
word of the key it states (`Voices`), whose digest its author is (`sign.rs:167`).
`FromAnothers` is an edge filed from an object that is not the filer's, and
`Meddles` also what lends authority to such an edge filed before; `Withdraws` also covers an object that comes after the retraction that names it
as its `from` end, which its arrival puts into effect. Fixed-point products are taken before quotients, which
truncate, as in the code; `Scale` is 100 instead of 10^6, so rounding bites.
`MCGraph` starts one of several readers, each with part of its objects loaded
and a pool of ten or so still to come, in any order.

## 3. The runs

Deadlock is not checked: authors, operators and readers may stop at any time,
and bounds on edits and crashes end every behaviour.

| Run | Shows |
|---|---|
| `workshop_crash` | one publet, three edits, two crashes anywhere, inside `corpus.lock` too, two instants: what the lock has named is whole and signed; the generation chain agrees with its snapshot; drafts revise published versions only; **Workshop implements PublishedCorpus** |
| `workshop_tidy` | two publets, two tags and three texts, one publet citing the other, an author who builds before publishing, no crash: drafts stay local and leave no history; the tag each row names is exported, and live unless the row went back to it; **Workshop implements PublishedCorpus** with two sources too; and a publish that starts completes. The bound is never reached, so no publish is refused after its first write |
| `workshop_leak` | a disagreement between the code and its documentation (section 5) |
| `corpora_serial` | a parent of four generations, a child with two imports: resolutions within the pin; an upgrade unblocks and stands; publishes stand |
| `keys_beside` | two key commands at once, three secrets, two crashes, `pub init` run again, up to three objects written in between: rotations always verify; a secret once in use is lost only in the step in which a generated key is written over a file that came after its command had looked, be it another generated key or a rotation's; revisions carry on across rotations; the workspace loads, or does again with one object put back; no version goes without its edge unless `revise` died |
| `store_keep` | two domains sharing a member, every command and the server: manifests stay readable, no silent loss, what an archive run covered stays covered |
| `sync_whole` | a genesis and two generations indexed in any order, with one missing or before their objects, on a node that collects between the requests and the reads of a delta; two lost connections and `--to`: a delta lacks, and so a reader lacks, only what the node lacked when it came to read it; once connections hold and the index has no gap, a sync reaches the head |
| `sync_collected` | a disagreement (section 5) |
| `following` | two readers of two histories of three generations, any run of what was shown to anyone and of two records made up, witnesses in any order: the last record decides where a reader gets, what it needs is named, what was published applies, readers told two memberships show, honest histories do not look split |
| `auditing` | five generations over a word of three bits, all memberships of five: honest proofs verify, accepted ones are true whatever size or position is claimed, checkpoints are computed at every head below the last number of the word |
| `renderings` | three texts of which two set alike, two tool versions, a file and a tool that change, a crash anywhere: an environment that counts is whole, what is pinned is what it says, the active output is kept, pruning spares it |
| `graph_grows` | seven readers and 32 directories. Loading: the order does not decide, the retry never helps. Lineages: everyone is in their own, proposals stay out. Standings: trust is conserved and stays within its subjects, strangers move nothing, support that comes late unseats nothing, a floor is met by independent people. Reading: copies read as they did, what moved shows, only authors make two meanings one, strangers neither take a current value away nor lay a doubt to rest |

Some properties are conjunctions of named parts, which is how the rest of this
file names them: `DraftsLeaveNothing` (`DraftsStayLocal`, `NoHistory`),
`PinSupplies` (`ImportsWithinPin`, `UpgradeUnblocks`), `RecordedStands`
(`UpgradeStands`, `PublishStands`), `RevisionsLead` (`VersionsLed`,
`RevisionsCarryOn`, `RotationsVerify`), `NothingLost` (`SecretsKept`,
`OnlyReversionsUndo`), `HistoryFollowed` (`LastRecordDecides`, `NothingOmitted`,
`HistoryApplies`),
`AlarmIffSplit` (`NoFalseAlarm`, `SplitViewsShow`), `ConsistencyExact`
(`ConsistencyVerifies`, `ConsistencySound`), `AnswersExact` (`AnswersVerify`,
`AnswersSound`), `LoadsAlike` (`ArrivalOrder`, `DeferredRefused`), `LineageKept`
(`OwnLineage`, `ProposalsApart`), `TrustEarned` (`TrustConserved`,
`WeightWithinSubjects`) and `StandingsEarned` (`StrangersMoveNothing`,
`SupportNeverUnseats`). `PROJECT.json` lists mutants for each.

Why the bounds are enough. The corpus properties speak of one version and what
it cites, so one publet and one citation suffice; three edits reach a version
that goes back to an earlier one, and two crashes a recovery that itself dies.
Two instants tell a record rewritten in the same second from one that is not. A
parent of four generations has room for a version before a pin, at it, after it
and after an upgrade. Three texts and two tags let a row go back to a tag it had. A node needs two
domains for sharing, and a reader a genesis (a head without checkpoints) and two
generations more, for a gap between them and for an interrupted sync that is
resumed. Bytes that change underneath are in `store_keep`; beside a sync only the
theorems have them. Alterations that cancel
need two records, and a forged one among them that adds too much. A cycle of
three is the shortest that no pair of edges shows. `keys_beside` has a budget (`Affordable`): a write
or a `pub init` costs as much as two keys or crashes, and writes go on beside one
key command, not two, and beside one crash or `pub init`; a revision needs one
write before it, and one key rotated, perhaps cut short, in between. In `graph_grows` each reader's pool holds what its properties
tell apart: a delegation and its withdrawal, a rotation and its two signatures,
two trusted keys of which one on a subject only, two strangers who trust each
other, three people who reproduce a claim and each way they can be tied. Three
rounds of propagation go round the longest circle of trust once and back. Five
generations put a log on either side of a power of two, and a word of three bits
ends at seven. Three texts allow going back to an earlier one after another was
rendered; two that set alike share a blob.

### Fairness

Only two things are assumed fair. `Workshop`'s `FairSpec` has weak fairness of
`Command`: a process that has started goes on running, which is what makes a
publish complete when nothing kills it. `Sync`'s `FairSpec` has weak fairness of
`SyncStep`, likewise; that the node goes on serving, sound and without a gap (`Sound`), is in
the property's own hypothesis, since nothing obliges an operator to see to it. Authors, operators,
peers and crashes are never assumed to act.

## 4. What is proved

TLAPS checks what follows for every value of the constants: any number of
publets, domains, readers, keys, objects, policies and rounds, every graph and
every order, under the assumptions each module names. Each statement is the
property a run checks; a hypothesis in front of it is a constant the run sets, or
something the run's instances satisfy, and is there because the code does
otherwise without it (`NoneApart` only says that `None` is a value of its own; `BuildFirst` and `Beside` are constants).

| Theorem | States | Hypothesis, and why |
|---|---|---|
| `TypeCorrect`, `StoreTypeCorrect` | `TypeOK`, `StoreTypeOK` | |
| `LockWhole` | `RecordedWhole` | |
| `NeverDropsExported` | `ExportedHeld` | |
| `DraftsRevisePublished` | `RevisesPublished` | |
| `GenerationsSound` | `GenerationSound` | |
| `PublishingIsAtomic` | `ImplementsPublished` | `NoneApart`: "no entry" is not an entry |
| `DraftsForgotten` | `DraftsLeaveNothing` | `Careful`: the author builds first (`workshop_leak` is one who does not) and no process dies; `[]Within`: the corpus stays within its bound, since a publish refused for its size has stored tags that the next one exports |
| `TagsPublished` | `TagsExported` | `BuildFirst` (for an author who does not it fails: section 5, `PublishTags`); any tags, edits and deaths |
| `DeclarationsReadable`, `LossIsDisclosed`, `ArchiveLasts` | `ManifestHeld`, `NoSilentLoss`, `ArchivedStays` | |
| `ReplicasWhole`, `DeltasCarry` | `ReplicaWhole`, `DeltaCarries` | `OneHistory`: one record for each generation, none of them itself an added object |
| `NothingIsMissed` | `missed = {}`, so that the two above hold without exception | `KeepsAll`: the operator indexes a record after its objects and neither collects, removes nor damages any (`sync_collected` is one who collects) |
| `PinsSupply`, `RecordsStand` | `PinSupplies`, `RecordedStands` | `~Beside`: an upgrade takes no lock, and beside a publish it undoes what that recorded (section 5) |
| `HistoriesFollowed`, `AlarmsExact` | `HistoryFollowed`, `AlarmIffSplit` | |
| `AuditsConsistent`, `AnswersRight` | `ConsistencyExact`, `AnswersExact` | |
| `CheckpointsAnswered` | `CheckpointsEnd` | `MaxGenerations < 2^Width - 1`: at the last number a word holds the loop does not end (section 5) |
| `AcceptedExtends`, `ExtensionAccepted`, `InclusionVerifies`, `OnlyLeavesIncluded`, `CheckpointLoopEndsBelow` | what `verify_consistency`, `verify_inclusion` and `checkpoints` promise of any log, size, position and proof | a log's leaves are leaf hashes, and it is no longer than a word counts |
| `WorkspaceMends`, `NothingIsLost`, `RevisionsRead` | `DeskMends`, `NothingLost`, `RevisionsLead` | |
| `EnvironmentsWhole`, `PinnedIsTrue`, `ActiveIsKept` | `ProvisionedWhole`, `PinnedTrue`, `ActiveKept` | one builder; one of each and nothing beside a publish (a render beside one breaks it: section 5); nothing beside a publish |
| `OrderDoesNotDecide`, `RetryIsFutile`, `LoadingIsOfTheSet` | `ArrivalOrder`, `DeferredRefused`, `LoadsAlike` | |
| `LineagesKept`, `AnswersAreKept`, `MeaningsStayApart`, `DoubtsAreHeld` | `LineageKept`, `AnswersStand`, `OnlyAuthorsUnite`, `DoubtsStand` | none: what meddling does is in the properties (section 5) |
| `TrustIsEarned`, `StandingsAreEarned` | `TrustEarned`, `StandingsEarned` | |
| `FloorIsMet` | `FloorMetByIndependent` | |
| `CopiesAreRead`, `MovesAreShown` | `CopiesRead`, `MovesShow` | |

### The arguments

None of these is inductive as it stands, type correctness apart.

*A published corpus* (`WorkshopProofs`). `Inv` adds: every version in the lock is
in `recorded` (`LockRecorded`); a build's drafts never contain a signature
(`DraftsUnsigned`); what a publish has still to put, together with the store,
contains the selected versions, their signatures and their citations
(`PutsSound`); supersedes edges about to be put lead to recorded versions
(`PutsRevise`); once the advance has accepted, everything the lock is about to
name is in `objects/` (`AdvancedWhole`). The argument runs from the selection,
which is closed under changed citations, through the export to the check the
advance makes before anything is recorded. `GenerationInv` adds that the record
under way extends the one the lock names; membership is a recursive function over
the chain, so `MembershipBehind` first shows that it exists and unfolds.
`RowsSound` says that a row about to be written continues the row there was, by
an edge that is on its way to `objects/`: this makes `WriteLock` the abstract
`Publish` and every other step a stutter. `TidyInv` and `ClosedInv` account for
everything the store holds beyond `objects/`, and `TagInv` for each row's tag and
what may have withdrawn it.

*Parents* (`CorporaProofs`). `ParentGrows`: the members of a generation are those
of the one before or later ones; so drafts are behind the lock, and what a
command under way is to record covers what has been recorded.

*Nodes and readers* (`StoreProofs`). The removal guard carries `ManifestHeld`.
`ArchiveInv` says that what an archive run has still to stamp is all that lacks a
timestamp. `FollowInv` says, for each place a sync can be in, what the pack holds
of the range asked for, what of it is stored, and that what is in neither was
`missed`.

*Histories* (`DomainProofs`). `FollowingInv` says that a reader holds what the
last record it was told says, whoever made it, so where that is the publisher's
the reader is where the publisher was. What is in a fold of additions and removals
was there or was added, so an accepted run names all that is new in the last
snapshot. Alarms: witnesses are of what was told, a function of the generation
where there is one history.

*The log and the membership* (`DomainProofs`). The run checks proofs that a liar
could put together from what it has; the theorems are about every sequence of
hashes. `RootOfBoth` splits the root of a part into those of its halves, and
since a hash is the term it is taken of, what climbs to a root climbs through
those very halves: by induction on the tree, `OnlyLeavesIncluded` finds the leaf,
and `AcceptedExtends` the old log at the front of the new one. Completeness needs
the code's arithmetic: that `decompose`, the trailing zeros and the mask describe
the path that `subproof` took. A size is a power of two and what it has beyond
it, and `BitsBelow`, `OnesMore`, `ZerosOfMore` and `DifferOf` say what that does
to its bits; `ExtensionAccepted` follows the recursion down by them. The auditor's
invariant is only that histories stay within what a word counts
(`HistoriesStay`); the rest follows in every such state. For the membership, a
sorted member's position is the number of members below it, so neighbours at
adjacent positions leave no room between them, and a member that is claimed to
lie between would have to. `Capped` is what the checkpoint loop's step comes to
after any number of doublings: a power of two or the end of the word.

*Keys and single objects* (`DeskProofs`). `KeyInv` says which files stand, which
secret is in them and what is stored and signed at every program counter of
every process, however many run at once, and what one that died may have left. `DeskInv`
says the same of what is held: the set loads, each version has its edge or was
taken away with it, and every rotation is signed with the secret it replaces.
An induction on what is held shows that a lineage carries on across rotations.

*Renderings* (`RenderingProofs`). `EnvInv` follows a provision through the
directory, `RenderInv` a render through the files, `ShelfInv` says where the
output of every exported rendering is: in `blobs/`, on its way, or lost to a
publish that died.

*The graph* (`GraphProofs`). `LoadInv` rests on reachability (`ReachesMeaning`,
`AddEdge`) and on admission being monotone: what is refused stays refused
(`RefusedStays`), what a whole directory refuses makes it unacceptable in every
order (`RefusedUnacceptable`), admission keeps each kind acyclic
(`InsertKeepsAcyclical`). `GrowthInv` says that a growing graph is finite,
acyclic by kind and gains one object at a time; every other theorem is then about
one insertion: which edges come with authority (`EdgesCome`) and that none of
them touches the lineage of someone who is apart (`LineageApart`). `CopiesRead`
follows an edge's authority through the copy: the edge, the keys that give it
authority and what might take that away are all within reach. `MovesShow` shows
that the code's breadth-first walk is the closure (`BreadthFirstIs`) and that a
finite acyclic lineage in which something is superseded has a head further on
(`SupersededHasHead`). `TrustEarned` and `StandingsEarned` are about sums: what a
key hands on is a share of what it has, truncation only loses, so each round
hands on no more than the last (`SharedOut`, `SumByGroups`); a key off the edges
gets nothing in any round and so moves no sum.

*Induction.* The library states induction for an operator, which the provers
cannot be given; `Induction` states it for the set of numbers a claim holds for,
and derives from it what `MapThenSumSet`, `FoldSet`, `FoldLeft` over numbers and
a recursive function come to. What a fold or a recursive function computes is
therefore proved; no module has a `RECURSIVE` operator.

`EvidenceAssumption` asks for more than the code checks in one place: a damping
of at most one. `pub policy` and `Policy::from_object` take any; beyond one, the
roots' own share is negative, and the model, whose weights are natural numbers,
does not speak of it. Nor does it of the saturation of the code's 128-bit
numbers.

`WidthAssumption` asks for a word of at least one bit; `AuditingAssumption` that
there are no more members and no more generations than a word counts, which the
code's 64 bits make true of anything that fits in a machine.

Only model-checked: liveness (`PublishCompletes`, `SyncReachesHead`), which is out
of the prover's reach. Every other property of a passing run is a theorem.

## 5. Where code and documentation disagree

Two runs must fail, each with its counterexample; `PROJECT.json` quotes the
lines.

* Drafts leak: build, edit, publish, publish again exports a replaced draft
  (`workshop_leak`: `DraftsStayLocal` without `BuildFirst`).
* Garbage collection discards what later generations of a declared domain added,
  and the delta does not say so (`sync_collected`: `DeltaWhole` with `gc`).

### Known disagreements

The others are reproduced by adding the named property, as an invariant unless
said otherwise, to the named run's configuration, with the change of constants
given; TLC finds each within seconds, a few within two minutes.

| Property | Where | What happens |
|---|---|---|
| `PublishTags` | `workshop_tidy`, `BuildFirst = FALSE` | `Build::tag` takes a tag in the graph as filed (`build.rs:1082`), so one left there by a draft is never exported |
| `PublishTags` | `workshop_tidy` | going back to an earlier tag files the annotation already withdrawn and leaves none live (`build.rs:1085`) |
| `OldTagsWithdrawn` | `workshop_tidy`, `MaxCrashes = 1` | a tag of a publish that died before it wrote `corpus.lock` is withdrawn by nothing, though `build.rs:1069` says that the tag filed last time is (`build.rs:1098`) |
| `AlteredRefused` | `following` | additions that a later record takes back pass (`delta.rs:81`), though `delta.rs:8` says that anything added fails the comparison |
| `ReadersOnHistory` | `following` | the last snapshot is the peer's own word (`delta.rs:83`), though `delta.rs:10` says that a peer need not be trusted |
| `PrintedSplitsShow` | `following` | `pub witness` prints the manifest's root beside the index of the last generation (`main.rs:313`), so no split shows |
| `PublishStands` (a property) | `corpora_serial`, `Beside = TRUE` | an upgrade takes no lock and writes back what it read (`corpus.rs:1602`) |
| `SecretsAtHand` | `keys_beside` | `--generate-key` looks for the key file before it opens the store, and may write over one that has come since (`sign.rs:117`), though `sign.rs:119` says that it will not |
| `NothingUndone` | `keys_beside` | a `pub revise` back to an earlier version removes that version when its edge is refused (`revise.rs:136`), though `revise.rs:6` says that it stores neither unless both are admissible |
| `PinnedTrue` | `renderings`, `Beside = TRUE`, `MaxCrashes = 0` | a render beside a publish changes an output between the publish's two reads of it (`corpus.rs:1103`) |
| `PublishKeeps` | `renderings`, `MaxChanges = 0` | the blobs of a publish that died are left out by every later one (`corpus.rs:1385`) |
| `UpToDateIsCurrent` | `corpora_serial` | an import known only to the drafts is passed over by an upgrade (`corpus.rs:1579`) |
| `SignaturesVerify` | `keys_beside` | a crash between the key file and `author` (`sign.rs:284`), or a rotation during a publish (`corpus.rs:545`), makes signatures no key verifies |
| `ServedIntact` | `sync_whole`, with `corrupt` among the commands | damaged bytes are served, though `store.rs:610` says they must not be |
| `DependsAcyclic` | `graph_grows` | a cycle across a `depends` list and a `depends` relation loads, though `spec/index.md:555` says it must not |
| `FullIncludesAuthoritative` | `graph_grows` | a proposal can hide an author's own history from the full lineage (`graph.rs:820`) |
| `CheckpointsEnd` | `auditing`, `MaxGenerations = 7` | at the end of the word the loop never ends (`log.rs:472`) |
| `PinnedTrue` | `renderings`, `Renderer = {r, q}` | a render beside another changes files after they were looked at (`render.rs:284`) |
| `ProvisionedWhole` | `renderings`, `Builder = {w, v}` | one builder removes the directory another is filling (`env.rs:317`) |
| `ActiveAvailable` | `renderings`, `MaxCrashes = 0` | going back to an earlier version makes a pruned rendering active again, and publish pins nothing new (`corpus.rs:1084`) |
| `MinimumNumeric` | `renderings`, `MCRequires` the minimum `<<1, 0>>`, `<<1>>` added to `MCToolVersion` | version `1` does not meet `1.0+` (`version.rs:43`) |
| `RetractedByAuthor` | `graph_grows` | who wrote a retraction is not looked at (`graph.rs:357`) |

Further: `check_against` passes a record that leaves out additions or declares
removals that did not happen (`generation.rs:230`; `corpus.rs:486` says
"exactly"), which is why `HistoryApplies` asks that records declare exactly
the change; an archive run does not stamp what a `timestamped` annotation
covers, so collecting the annotation leaves no timestamp (`pub-store`
`main.rs:220`), which is the exception `ArchivedStays` makes.

Exceptions the properties of the later modules make, each because the code does
otherwise:

* `SecretsKept`: a `--generate-key` that found no key file writes over one that
  another command has written since: another `--generate-key`, or a rotation, which
  moves the old file away before it writes the new (`sign.rs:282`).
* `TagsExported`: a row that went back to a tag withdrawn before has no live one.
* `LastRecordDecides`, `NoFalseAlarm`: a run that ends in a record the publisher
  never showed leads anywhere.
* `ReplicaWhole`, `DeltaCarries`: what the node did not hold when a delta came to
  read it is not in the delta.
* `DeskMends`, `OnlyReversionsUndo`: `pub revise` back to an earlier version, with
  the default `created`, rebuilds the object already held; its edge would close a
  cycle and is refused, and the command then removes that object
  (`revise.rs:136`; `revise.rs:6` says it "stores neither unless both are
  admissible"). A `disputes` relation from it is then left dangling and nothing
  loads any more, until the object is put back.
* `RevisionsCarryOn`: after a crash between retiring the old key file and writing
  the new one, `--generate-key` starts a key no rotation leads to.
* `CopiesRead`: a delegation to some other key is not copied, so a delegate's
  revision reads as a proposal in the child, though `corpus.rs:1194` says that
  what is copied reads as it did where it came from. It is therefore stated of
  graphs whose only delegations are to the corpus's own key.
* `MovesShow`: a claim whose closure comes back to it is passed over
  (`propose.rs:112`).
* `ProposalsApart`, `AnswersStand`, `OnlyAuthorsUnite`: an edge counts as the
  filer's, wherever it starts (`graph.rs:178`, `graph.rs:357`): one filed from an
  object that is not his may take back that object's edges or revise in its name,
  at once or when a delegation or a rotation comes that lends it authority
  (`Meddles`).
* `OnlyAuthorsUnite`: of several definitions of a term the last walked to counts
  (`divergence.rs:182`), so a `depends` relation, which anyone may file, can hide a
  divergence; a retraction may take away the edge that made a walk end elsewhere;
  `pub-divergence` trusts everybody's `equivalent` unless told otherwise.
* `AnswersStand`: an anchor counts whoever set it (`singular.rs:327`), so a
  stranger's can hide the head of a lineage from `pub get`.
* `DoubtsStand`: a retraction counts by the author of the object at its `from`
  end, whoever filed it (`graph.rs:357`).
* `ActiveKept`: a publish that dies between exporting its objects and their blobs
  leaves the blob out for good (`corpus.rs:1385`).

Observations without a run: `pub get` takes a dispute as settled by a resolution
of the disputing claim (`get.rs:273`), while evaluation and `pub propose` look
for one of the disputed claim, and a withdrawn `disputes` relation still counts;
a verdict its author retracted still counts in a standing (`gather.rs:117`);
`Client::pack` compares each object with the identifier it has just computed from
it (`client.rs:163`), which discards nothing, though its comment says it does;
`Registry::verify` records the nullifier the annotation states and not the one the
scheme returns (`personhood.rs:232`); `pub env build` holds the store while its
steps run (`env.rs:67`); the second pass of `from_objects` never admits
anything the first refused (proved), so its retry is dead code; a replica that
syncs by delta never indexes the generations it stores, and a sync from 0 never
brings the genesis members; `rotate` may report "nothing was changed" after it
has stored three objects; `pub init` run again in a workspace with a key leaves
`author` naming a placeholder, which neither generate nor rotate will repair.

## 6. What is not modelled

Byte-level encoding, parsing and cryptography (an identifier is the term it
identifies, a signature verifies under one key); prose linting, formatting, page
layout and the read-only filters; what external programs do beyond writing a
file; unit arithmetic and data tables, which are pure and about strings and
decimals; paths of singulars and H3 geometry; personhood, whose only scheme
accepts anything; the ledger interface, which has no implementation that keeps
state; bundles; `pub build` outside a corpus, `pub domain` and the equivalence
closure; directory trees (`tree.rs`). The node's endpoints that hand over one
object, a generation or a pack only read, and no command of the repository asks
for them.

## 7. Plan

To be proved: `ServedIntact` for a node whose disk is sound.

To be modelled, if the code grows there: `pub build` outside a corpus, and
`pub domain` with the equivalence closure.
