------------------------------ MODULE Rendering ------------------------------
(***************************************************************************)
(* Rendering a published document: `pub render' (porcelain/src/render.rs), *)
(* the environments it runs in (`pub env', env.rs), the renderings `pub    *)
(* publish' pins and `pub corpus renderings --prune' drops (corpus.rs).    *)
(*                                                                         *)
(* One document, rendered by a pipeline of two steps.  The first writes a  *)
(* page for a version of the document; the second sets what the page it    *)
(* finds shows, with whatever version of a tool it runs.  The files are    *)
(* the versions they were made from: identifiers are collision-free.       *)
(*                                                                         *)
(* Only some commands hold the workspace's store.  A render reads it and   *)
(* lets it go before its first step, and pruning never takes it; an        *)
(* environment lies in a cache that every workspace of a machine shares.   *)
(***************************************************************************)
EXTENDS Naturals, Sequences, SequencesExt, FiniteSets, FiniteSetsExt

CONSTANTS
    Version,        \* texts the document may have: positive numbers
    Shows,          \* what of each the second step sets: two may come out alike
    ToolVersion,    \* versions of the tool: sequences of numbers
    Pin,            \* the version the environment's download is pinned to
    Requires,       \* the version the step asks for: a form and its parts
    HostRequires,   \* the version provisioning asks of the host's own copy
    HostWhen,       \* when it is needed: "provision" only, or at "runtime" too
    Renderer,       \* renders that may be in progress at once
    Builder,        \* workspaces that may be provisioning at once
    Beside,         \* whether renders and pruning go on while publish runs
    MaxInstant, MaxChanges, MaxCrashes, MaxPinned

ASSUME RenderingAssumption ==
    /\ Version \subseteq Nat \ {0} /\ Shows \in [Version -> Nat]
    /\ Pin \in ToolVersion /\ HostWhen \in {"provision", "runtime"}

VARIABLES
    source,     \* the document's text, as the author left it
    drafted,    \* the version `pub build' drafted, 0 if none
    published,  \* the version corpus.lock names, 0 if none
    machine,    \* the tool installed, and whether the cited file is as cited
    stated,     \* the head of the tool's identity claim: version and standing
    inEnv,      \* whether the pipeline cites an environment
    env,        \* the environment's directory
    builder,    \* each provisioning in progress
    render,     \* each render in progress
    out,        \* the page, the document set from it and render.json
    store,      \* the rendering records and the blobs the workspace holds
    corpus,     \* those in objects/ and in blobs/
    publish,    \* the publish in progress
    prune,      \* the kept outputs a prune in progress has still to remove
    clock, changes, crashes,
    lost        \* outputs pruned, or not exported by a publish that died

vars == <<source, drafted, published, machine, stated, inEnv, env, builder, render, out,
          store, corpus, publish, prune, clock, changes, crashes, lost>>

author    == <<source, drafted, machine, stated, inEnv, clock, changes>>
workplace == <<env, builder, render, out>>
shelves   == <<store, corpus, published, publish, prune, lost>>

NoFile   == [from |-> 0, tool |-> <<>>]
NoRecord == [doc |-> 0, page |-> 0, set |-> NoFile, tool |-> <<>>]
NoEnv    == [file |-> FALSE, tool |-> <<>>, recorded |-> FALSE]
Idle     == [pc |-> "idle"]

Init ==
    /\ source \in Version /\ drafted = 0 /\ published = 0
    /\ machine \in {[tool |-> v, file |-> TRUE] : v \in ToolVersion}
    /\ stated = [version |-> Pin, standing |-> "signed"]
    /\ inEnv \in BOOLEAN /\ env = NoEnv
    /\ builder = [w \in Builder |-> Idle] /\ render = [r \in Renderer |-> Idle]
    /\ out = [page |-> 0, set |-> NoFile, record |-> NoRecord]
    /\ store = [records |-> {}, blobs |-> {}] /\ corpus = store
    /\ publish = Idle /\ prune = {} /\ lost = {}
    /\ clock = 1 /\ changes = 0 /\ crashes = 0

----------------------------------------------------------------------------
(* version::satisfies                                                      *)

\* Sequences of numbers as the code compares them: by their first difference,
\* and a proper prefix is less.
AtLeast(have, need) ==
    LET differ == {i \in DOMAIN have \cap DOMAIN need : have[i] # need[i]}
    IN  IF differ = {} THEN Len(have) >= Len(need)
        ELSE have[Min(differ)] > need[Min(differ)]

PartOf(have, i) == IF i \in DOMAIN have THEN have[i] ELSE 0

\* ^X.Y: the same up to the first part that is not zero.
Caret(have, need) ==
    LET nonzero == {i \in DOMAIN need : need[i] # 0}
        fixed   == IF nonzero = {} THEN Len(need) ELSE Min(nonzero)
    IN  (\A i \in 1..fixed : PartOf(have, i) = need[i]) /\ AtLeast(have, need)

Satisfies(version, requires) ==
    CASE requires.form = "caret"   -> Caret(version, requires.parts)
      [] requires.form = "minimum" -> AtLeast(version, requires.parts)
      [] requires.form = "prefix"  -> IsPrefix(requires.parts, version)

----------------------------------------------------------------------------
(* The author, and the machine.                                            *)

Change(n) ==
    /\ changes + n <= MaxChanges /\ changes' = changes + n
    /\ UNCHANGED <<inEnv, workplace, shelves, crashes>>

Edit(v) ==
    /\ v # source /\ source' = v
    /\ Change(1) /\ UNCHANGED <<drafted, machine, stated, clock>>

\* pub build: what is not published is a draft.
Build ==
    /\ publish.pc = "idle"
    /\ drafted' = IF source = published THEN 0 ELSE source
    /\ drafted' # drafted
    /\ Change(0) /\ UNCHANGED <<source, machine, stated, clock>>

\* The tool installed on the machine or the file cited is replaced.
Upgrade(m) ==
    /\ m # machine /\ machine' = m
    /\ Change(1) /\ UNCHANGED <<source, drafted, stated, clock>>

\* The tool's identity claim is revised: as a draft, or by an object nobody
\* has signed yet, or signed.
Restate(claim) ==
    /\ claim # stated /\ stated' = claim
    /\ Change(1) /\ UNCHANGED <<source, drafted, machine, clock>>

Tick ==
    /\ clock < MaxInstant /\ clock' = clock + 1
    /\ Change(0) /\ UNCHANGED <<source, drafted, machine, stated>>

----------------------------------------------------------------------------
(* pub env build                                                           *)

\* env::provisioned: the directory holds the record of this environment.
Provisioned == env.recorded

Provision(w, pc, dir) ==
    /\ env' = dir
    /\ builder' = [builder EXCEPT ![w] = [pc |-> pc]]
    /\ UNCHANGED <<author, render, out, shelves, crashes>>

\* check_hosts: what the host must provide, all of it or what runs need.
CheckHosts(when) == HostWhen \in when => Satisfies(machine.tool, HostRequires)

\* Mutant: an earlier attempt is left where it is and counts as one.
EnvBuildOver(w) ==
    /\ builder[w].pc = "idle" /\ ~Provisioned /\ CheckHosts({"provision", "runtime"})
    /\ Provision(w, "made", [env EXCEPT !.recorded = TRUE])

\* The pre-flight passes (the environment's own claims are signed); what an
\* earlier attempt left is removed.
EnvBuild(w) ==
    /\ builder[w].pc = "idle" /\ ~Provisioned /\ CheckHosts({"provision", "runtime"})
    /\ Provision(w, "made", NoEnv)

\* materialize: the files the environment carries.
Materialize(w) ==
    /\ builder[w].pc = "made"
    /\ Provision(w, "filled", [env EXCEPT !.file = TRUE])

\* execute: the step that downloads the tool, whose output is pinned; what
\* arrives need not be what was asked for.
EnvStep(w, arrived) ==
    /\ builder[w].pc = "filled"
    /\ Provision(w, IF arrived = Pin THEN "run" ELSE "idle", [env EXCEPT !.tool = arrived])

\* The record that makes it an environment is the last thing written.
EnvRecord(w) ==
    /\ builder[w].pc = "run"
    /\ Provision(w, "idle", [env EXCEPT !.recorded = TRUE])

----------------------------------------------------------------------------
(* pub render                                                              *)

\* Names::read, resolve: drafts are laid over what the lock names.
Resolved == IF drafted # 0 THEN drafted ELSE published

\* Mutant: the host's program is run whether or not there is an environment.
ProgramHost == machine.tool

\* program: inside an environment, only what it holds.
Program == IF inEnv THEN env.tool ELSE machine.tool

\* verifies, trusted_keys: a key the policy names as a root has signed it.
Verifies == stated.standing = "signed"

\* Pipeline::unsigned: a draft needs no signature, being this workspace's.
Unsigned == stated.standing # "draft" /\ ~Verifies

\* components: a step depends on a tool's lineage, and is held to its head.
StatedVersion == stated.version

\* What is expected occurs in what was printed, which may say more.
Occurs(expect, printed) ==
    \E i \in DOMAIN printed : IsPrefix(expect, SubSeq(printed, i, Len(printed)))

\* check_tools: the claim meets the step's requirement, and the program prints
\* the version claimed.
CheckTools == Satisfies(StatedVersion, Requires) /\ Occurs(StatedVersion, Program)

\* check_files: the cited file hashes to the blob its claim carries.
CheckFiles == machine.file

\* env::ready and the pre-flight: nothing runs until all of it checks out.
Preflight ==
    /\ inEnv => Provisioned /\ CheckHosts({"runtime"})
    /\ ~Unsigned /\ CheckTools /\ CheckFiles

Render(r, to) ==
    /\ render' = [render EXCEPT ![r] = to]
    /\ UNCHANGED <<author, env, builder, shelves, crashes>>

\* run: everything is read, checked, and the store let go.
RenderRun(r) ==
    /\ render[r].pc = "idle" /\ publish.pc = "idle"
    /\ Resolved # 0 /\ Preflight
    /\ Render(r, [pc |-> "page", doc |-> Resolved, tool |-> Program, page |-> 0, set |-> NoFile])
    /\ UNCHANGED out

\* The first step, `pub myst': the page of this version.
RenderPage(r) ==
    /\ render[r].pc = "page"
    /\ out' = [out EXCEPT !.page = render[r].doc]
    /\ Render(r, [render[r] EXCEPT !.pc = "set", !.page = render[r].doc])

\* The second: the page there is, set by the tool there is.
RenderSet(r) ==
    /\ render[r].pc = "set"
    /\ LET made == [from |-> Shows[out.page], tool |-> Program]
       IN  /\ out' = [out EXCEPT !.set = made]
           /\ Render(r, [render[r] EXCEPT !.pc = "record", !.set = made])

\* A step may fail; nothing further runs.
RenderFails(r) == render[r].pc = "set" /\ Render(r, Idle) /\ UNCHANGED out

\* record: render.json, beside the outputs, of what each one was.
RenderRecord(r) ==
    /\ render[r].pc = "record"
    /\ out' = [out EXCEPT !.record = [ doc |-> render[r].doc, page |-> render[r].page,
                                       set |-> render[r].set, tool |-> render[r].tool ]]
    /\ Render(r, Idle)

----------------------------------------------------------------------------
(* Records of renderings.                                                  *)

\* rendering_objects: what was rendered, into what, with what, and the output
\* kept.  Its identifier is an order nobody chose.
Pinned(record, blob) ==
    [ doc |-> record.doc, page |-> record.page, set |-> record.set, tool |-> record.tool,
      blob |-> blob, created |-> clock ]

ToolRank(v) == (CHOOSE s \in SetToSeqs(ToolVersion) : TRUE)[1] = v

\* renderings: oldest first, by instant and then by identifier.
Newer(p, q) ==
    \/ p.created > q.created
    \/ p.created = q.created /\ ToolRank(p.set.tool) /\ ~ToolRank(q.set.tool)

\* active_rendering: the newest of exactly this version, if there is one.
ActiveRendering(records, doc) ==
    LET mine == {p \in records : p.doc = doc}
    IN  IF mine = {} THEN {} ELSE {CHOOSE p \in mine : \A q \in mine : ~Newer(q, p)}

----------------------------------------------------------------------------
(* pub publish                                                             *)

Publishing(to) ==
    /\ publish' = to
    /\ UNCHANGED <<source, machine, stated, inEnv, clock, changes, workplace, prune, crashes>>

\* The session opens and builds; `--no-rendering' leaves renderings alone.
PublishOpen(rendering) ==
    /\ publish.pc = "idle"
    /\ Beside \/ (prune = {} /\ \A r \in Renderer : render[r].pc = "idle")
    /\ Publishing([ pc |-> IF rendering THEN "check" ELSE "put", doc |-> source,
                    record |-> NoRecord, filed |-> {}, cited |-> {} ])
    /\ UNCHANGED <<drafted, store, corpus, published, lost>>

\* Mutant: the outputs are not looked at.
PinsUnread(doc) ==
    /\ out.record.doc = doc
    /\ \A active \in ActiveRendering(store.records, doc) :
         active.page # out.record.page \/ active.set # out.record.set

\* pin_rendering: of this version, unchanged since it was rendered, and not
\* identical to the rendering already pinned.
Pins(doc) ==
    /\ out.record.doc = doc
    /\ out.page = out.record.page /\ out.set = out.record.set
    /\ \A active \in ActiveRendering(store.records, doc) :
         active.page # out.record.page \/ active.set # out.record.set

PinCheck ==
    /\ publish.pc = "check"
    /\ Publishing([publish EXCEPT !.pc = IF Pins(publish.doc) THEN "keep" ELSE "put",
                                  !.record = out.record])
    /\ UNCHANGED <<drafted, store, corpus, published, lost>>

\* The final output is read again and kept.
PinKeep ==
    /\ publish.pc = "keep"
    /\ Cardinality(store.records) < MaxPinned
    /\ store' = [store EXCEPT !.blobs = @ \cup {out.set}]
    /\ Publishing([publish EXCEPT !.pc = "put", !.filed = {Pinned(publish.record, out.set)}])
    /\ UNCHANGED <<drafted, corpus, published, lost>>

PublishPut ==
    /\ publish.pc = "put"
    /\ store' = [store EXCEPT !.records = @ \cup publish.filed]
    /\ Publishing([publish EXCEPT !.pc = "export"])
    /\ UNCHANGED <<drafted, corpus, published, lost>>

\* Mutant: only a claim's own file counts as cited.
BlobOfClaim(record) == {}

\* blob_of: a settlement cites the output it keeps.
BlobOf(record) == {record.blob}

\* export: the records not in objects/ yet.
ExportObjects ==
    /\ publish.pc = "export"
    /\ corpus' = [corpus EXCEPT !.records = @ \cup store.records]
    /\ Publishing([publish EXCEPT !.pc = "blobs",
                     !.cited = UNION {BlobOf(p) : p \in store.records \ corpus.records}])
    /\ UNCHANGED <<drafted, store, published, lost>>

\* export, then: the blobs cited by what was just exported, and no other.
ExportBlobs ==
    /\ publish.pc = "blobs"
    /\ corpus' = [corpus EXCEPT !.blobs = @ \cup (publish.cited \cap store.blobs)]
    /\ Publishing([publish EXCEPT !.pc = "lock"])
    /\ UNCHANGED <<drafted, store, published, lost>>

WriteLock ==
    /\ publish.pc = "lock"
    /\ published' = publish.doc /\ drafted' = 0
    /\ Publishing(Idle)
    /\ UNCHANGED <<store, corpus, lost>>

----------------------------------------------------------------------------
(* pub corpus renderings --prune                                           *)

\* Mutant: an output an active rendering shares is not kept back.
PrunableShared ==
    LET active == ActiveRendering(corpus.records, published)
    IN  {p.blob : p \in corpus.records \ active} \cap corpus.blobs

\* The outputs held for renderings that are not active, and that no active
\* one has in common with them.
Prunable ==
    LET active == ActiveRendering(corpus.records, published)
    IN  ({p.blob : p \in corpus.records \ active} \cap corpus.blobs)
            \ {p.blob : p \in active}

Pruning == UNCHANGED <<author, workplace, store, published, publish, crashes>>

PruneRead ==
    /\ prune = {} /\ Prunable # {}
    /\ Beside \/ publish.pc = "idle"
    /\ prune' = Prunable
    /\ Pruning /\ UNCHANGED <<corpus, lost>>

PruneRemove(blob) ==
    /\ blob \in prune /\ prune' = prune \ {blob}
    /\ corpus' = [corpus EXCEPT !.blobs = @ \ {blob}]
    /\ lost' = lost \cup ({blob} \ {p.blob : p \in ActiveRendering(corpus.records, published)})
    /\ Pruning

----------------------------------------------------------------------------
(* A process dies between two steps.                                       *)

Crash ==
    /\ crashes < MaxCrashes /\ crashes' = crashes + 1
    /\ \/ \E r \in Renderer : /\ render[r].pc # "idle"
                              /\ render' = [render EXCEPT ![r] = Idle]
                              /\ UNCHANGED <<builder, publish, lost>>
       \/ \E w \in Builder : /\ builder[w].pc # "idle"
                             /\ builder' = [builder EXCEPT ![w] = Idle]
                             /\ UNCHANGED <<render, publish, lost>>
       \/ /\ publish.pc # "idle" /\ publish' = Idle
          /\ lost' = IF publish.pc = "blobs" THEN lost \cup publish.cited ELSE lost
          /\ UNCHANGED <<render, builder>>
    /\ UNCHANGED <<author, env, out, store, corpus, published, prune>>

Next ==
    \/ \E v \in Version : Edit(v)
    \/ Build \/ Tick
    \/ \E v \in ToolVersion, file \in BOOLEAN : Upgrade([tool |-> v, file |-> file])
    \/ \E v \in ToolVersion, standing \in {"signed", "draft", "unsigned"} :
         Restate([version |-> v, standing |-> standing])
    \/ \E w \in Builder :
         EnvBuild(w) \/ Materialize(w) \/ (\E v \in ToolVersion : EnvStep(w, v)) \/ EnvRecord(w)
    \/ \E r \in Renderer :
         RenderRun(r) \/ RenderPage(r) \/ RenderSet(r) \/ RenderFails(r) \/ RenderRecord(r)
    \/ \E rendering \in BOOLEAN : PublishOpen(rendering)
    \/ PinCheck \/ PinKeep \/ PublishPut \/ ExportObjects \/ ExportBlobs \/ WriteLock
    \/ PruneRead \/ (\E blob \in prune : PruneRemove(blob))
    \/ Crash

Spec == Init /\ [][Next]_vars

----------------------------------------------------------------------------
(* Properties.                                                             *)

\* A directory that counts as an environment holds all of it, whatever an
\* earlier attempt left behind and wherever it died.
ProvisionedWhole == env.recorded => env = [file |-> TRUE, tool |-> Pin, recorded |-> TRUE]

\* What is pinned as a rendering of a version was made from that version, in
\* one piece; the output kept is the one listed; and inside an environment it
\* was made by the tool it names, whatever became of the machine meanwhile.
PinnedTrue ==
    \A p \in store.records :
        /\ p.page = p.doc /\ p.set.from = Shows[p.doc]
        /\ p.blob = p.set
        /\ inEnv => p.set.tool = p.tool

\* Whenever no publish is in progress, the output of the rendering active for
\* the version published is in blobs/, unless it was pruned while another was
\* active, or the publish that filed it died before it came to the blobs.
ActiveKept ==
    publish.pc = "idle" =>
        \A p \in ActiveRendering(corpus.records, published) : p.blob \in corpus.blobs \cup lost

\* A publish that found a rendering of its document beside it has, but for
\* the lock, left "the accepted output kept as a blob" (corpus.rs:791); one
\* that comes after a publish that died has not.
PublishKeeps ==
    publish.pc = "lock" /\ publish.record.doc = publish.doc =>
        \A p \in ActiveRendering(corpus.records, publish.doc) : p.blob \in corpus.blobs

\* An output once kept is there for as long as its rendering is active, also
\* when the author goes back to an earlier version.
ActiveAvailable ==
    publish.pc = "idle" =>
        \A p \in ActiveRendering(corpus.records, published) : p.blob \in corpus.blobs

\* A requirement of a least version is met by every version not below it,
\* compared number by number.
MinimumNumeric ==
    Requires.form = "minimum" =>
        LET have == stated.version
            need == Requires.parts
            longest == IF Len(have) > Len(need) THEN Len(have) ELSE Len(need)
            pad(s) == [i \in 1..longest |-> PartOf(s, i)]
        IN  Satisfies(have, Requires) = AtLeast(pad(have), pad(need))

=============================================================================
