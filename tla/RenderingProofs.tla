--------------------------- MODULE RenderingProofs ---------------------------
(***************************************************************************)
(* What is rendered and kept, for any texts, tools and requirements, where *)
(* nothing runs beside a publish: with other commands beside it the        *)
(* properties fail, as the README says.                                    *)
(***************************************************************************)
EXTENDS Rendering, Induction

\* One workspace provisions at a time, and one render is in progress.
OneBuilder  == \A w, x \in Builder : w = x
OneRenderer == \A r, s \in Renderer : r = s

----------------------------------------------------------------------------
(* Environments.                                                           *)

\* Whoever provisions has got as far in the directory as its steps say, and
\* until the last there is no record.
EnvInv ==
    /\ builder \in [Builder -> {builder[w] : w \in Builder}]
    /\ env = [file |-> env.file, tool |-> env.tool, recorded |-> env.recorded]
    /\ \A w \in Builder :
          /\ builder[w].pc \in {"made", "filled", "run"} => ~env.recorded
          /\ builder[w].pc \in {"filled", "run"} => env.file = TRUE
          /\ builder[w].pc = "run" => env.tool = Pin
    /\ ProvisionedWhole

Provisioning(w) ==
    EnvBuild(w) \/ Materialize(w) \/ (\E v \in ToolVersion : EnvStep(w, v)) \/ EnvRecord(w)

Rendered(r) ==
    RenderRun(r) \/ RenderPage(r) \/ RenderSet(r) \/ RenderFails(r) \/ RenderRecord(r)

Published ==
    \/ \E rendering \in BOOLEAN : PublishOpen(rendering)
    \/ PinCheck \/ PinKeep \/ PublishPut \/ ExportObjects \/ ExportBlobs \/ WriteLock

Pruned == PruneRead \/ \E blob \in prune : PruneRemove(blob)

\* What the author does, and what happens to the machine.
Authored ==
    \/ \E v \in Version : Edit(v)
    \/ Build \/ Tick
    \/ \E v \in ToolVersion, file \in BOOLEAN : Upgrade([tool |-> v, file |-> file])
    \/ \E v \in ToolVersion, standing \in {"signed", "draft", "unsigned"} :
         Restate([version |-> v, standing |-> standing])

\* Every step is one of these.
LEMMA Steps ==
    Next => \/ Authored \/ Published \/ Pruned \/ Crash
            \/ \E w \in Builder : Provisioning(w)
            \/ \E r \in Renderer : Rendered(r)
BY DEF Next, Authored, Published, Pruned, Provisioning, Rendered

\* What the author does leaves what is rendered and kept alone.
LEMMA AuthoredLeaves == Authored => UNCHANGED <<inEnv, workplace, shelves, crashes>>
BY DEF Authored, Edit, Build, Tick, Upgrade, Restate, Change

\* Publishing and pruning leave environments and outputs alone.
LEMMA PublishedLeaves == Published => UNCHANGED <<inEnv, workplace, source, clock>>
BY DEF Published, PublishOpen, PinCheck, PinKeep, PublishPut, ExportObjects, ExportBlobs,
       WriteLock, Publishing

\* Pruning leaves everything but what is shelved alone.
LEMMA PrunedLeaves == Pruned => UNCHANGED <<author, workplace, store, published, publish>>
BY DEF Pruned, PruneRead, PruneRemove, Pruning

\* Provisioning and rendering leave what is kept alone.
LEMMA ProvisioningLeaves ==
    ASSUME NEW w \in Builder, Provisioning(w)
    PROVE  UNCHANGED <<author, render, out, shelves>>
BY DEF Provisioning, EnvBuild, Materialize, EnvStep, EnvRecord, Provision

\* Rendering leaves the author's texts, environments and what is kept alone.
LEMMA RenderedLeaves ==
    ASSUME NEW r \in Renderer, Rendered(r)
    PROVE  UNCHANGED <<author, env, builder, shelves>>
BY DEF Rendered, RenderRun, RenderPage, RenderSet, RenderFails, RenderRecord, Render

\* Each step of a provisioning keeps it.
LEMMA EnvStepSound ==
    ASSUME OneBuilder, EnvInv, NEW w \in Builder, Provisioning(w)
    PROVE  EnvInv'
<1>1. PICK to : builder' = [builder EXCEPT ![w] = [pc |-> to]]
  BY DEF Provisioning, EnvBuild, Materialize, EnvStep, EnvRecord, Provision
<1>2. /\ builder' \in [Builder -> {builder'[x] : x \in Builder}]
      /\ builder'[w] = [pc |-> to] /\ \A x \in Builder : x = w
  BY <1>1 DEF EnvInv, OneBuilder
<1>3. CASE EnvBuild(w)
  <2>1. builder' = [builder EXCEPT ![w] = [pc |-> "made"]] /\ env' = NoEnv
    BY <1>3 DEF EnvBuild, Provision
  <2>2. builder'[w].pc = "made"
    BY <2>1 DEF EnvInv
  <2> QED BY <1>2, <2>1, <2>2 DEF EnvInv, ProvisionedWhole, NoEnv
<1>4. CASE Materialize(w)
  <2>1. /\ builder' = [builder EXCEPT ![w] = [pc |-> "filled"]] /\ builder[w].pc = "made"
        /\ env' = [env EXCEPT !.file = TRUE]
    BY <1>4 DEF Materialize, Provision
  <2>2. builder'[w].pc = "filled" /\ ~env.recorded
    BY <2>1 DEF EnvInv
  <2>3. env' = [file |-> TRUE, tool |-> env.tool, recorded |-> env.recorded]
    BY <2>1 DEF EnvInv
  <2> QED BY <1>2, <2>2, <2>3 DEF EnvInv, ProvisionedWhole
<1>5. CASE \E v \in ToolVersion : EnvStep(w, v)
  <2>1. PICK v \in ToolVersion : EnvStep(w, v)
    BY <1>5
  <2>2. /\ builder' = [builder EXCEPT ![w] = [pc |-> IF v = Pin THEN "run" ELSE "idle"]]
        /\ builder[w].pc = "filled" /\ env' = [env EXCEPT !.tool = v]
    BY <2>1 DEF EnvStep, Provision
  <2>3. builder'[w].pc \in {"run", "idle"} /\ (builder'[w].pc = "run" => v = Pin)
    BY <2>2 DEF EnvInv
  <2>4. env' = [file |-> TRUE, tool |-> v, recorded |-> env.recorded] /\ ~env.recorded
    BY <2>2 DEF EnvInv
  <2> QED BY <1>2, <2>3, <2>4 DEF EnvInv, ProvisionedWhole
<1>6. CASE EnvRecord(w)
  <2>1. /\ builder' = [builder EXCEPT ![w] = [pc |-> "idle"]] /\ builder[w].pc = "run"
        /\ env' = [env EXCEPT !.recorded = TRUE]
    BY <1>6 DEF EnvRecord, Provision
  <2>2. builder'[w].pc = "idle"
    BY <2>1 DEF EnvInv
  <2>3. env' = [file |-> TRUE, tool |-> Pin, recorded |-> TRUE]
    BY <2>1 DEF EnvInv
  <2> QED BY <1>2, <2>2, <2>3 DEF EnvInv, ProvisionedWhole
<1> QED BY <1>3, <1>4, <1>5, <1>6 DEF Provisioning

\* So does every step.
LEMMA EnvInvStep == OneBuilder /\ EnvInv /\ [Next]_vars => EnvInv'
<1> SUFFICES ASSUME OneBuilder, EnvInv, [Next]_vars PROVE EnvInv'
  OBVIOUS
<1>a. ASSUME UNCHANGED <<env, builder>> PROVE EnvInv'
  BY <1>a DEF EnvInv, ProvisionedWhole
<1>1. CASE Authored \/ Published \/ Pruned
  BY <1>1, <1>a, AuthoredLeaves, PublishedLeaves, PrunedLeaves DEF workplace
<1>2. CASE Crash
  <2>1. CASE UNCHANGED builder
    BY <1>2, <1>a, <2>1 DEF Crash
  <2>2. CASE \E w \in Builder : builder' = [builder EXCEPT ![w] = Idle]
    <3>1. PICK w \in Builder : builder' = [builder EXCEPT ![w] = Idle]
      BY <2>2
    <3>2. /\ builder' \in [Builder -> {builder'[x] : x \in Builder}]
          /\ builder'[w].pc = "idle" /\ \A x \in Builder : x # w => builder'[x] = builder[x]
      BY <3>1 DEF EnvInv, Idle
    <3> QED BY <1>2, <3>2 DEF Crash, EnvInv, ProvisionedWhole
  <2> QED BY <1>2, <2>1, <2>2 DEF Crash
<1>3. CASE \E w \in Builder : Provisioning(w)
  BY <1>3, EnvStepSound
<1>4. CASE \E r \in Renderer : Rendered(r)
  BY <1>4, <1>a, RenderedLeaves
<1>5. CASE UNCHANGED vars
  BY <1>5, <1>a DEF vars
<1> QED BY <1>1, <1>2, <1>3, <1>4, <1>5, Steps

\* No environment has been built.
LEMMA EnvInit == Init => EnvInv
<1> SUFFICES ASSUME Init PROVE EnvInv
  OBVIOUS
<1>1. env = NoEnv /\ builder = [w \in Builder |-> Idle]
  BY DEF Init
<1>2. \A w \in Builder : builder[w].pc = "idle"
  BY <1>1 DEF Idle
<1>3. builder \in [Builder -> {builder[w] : w \in Builder}]
  BY <1>1
<1> QED BY <1>1, <1>2, <1>3 DEF EnvInv, NoEnv, ProvisionedWhole

\* A directory that counts as an environment holds all of it, whatever an
\* earlier attempt left there and wherever it died.
THEOREM EnvironmentsWhole == OneBuilder => (Spec => []ProvisionedWhole)
<1> SUFFICES ASSUME OneBuilder PROVE Spec => []ProvisionedWhole
  OBVIOUS
<1>1. EnvInv /\ [Next]_vars => EnvInv'
  BY EnvInvStep
<1>2. EnvInv => ProvisionedWhole
  BY DEF EnvInv
<1> QED BY <1>1, <1>2, EnvInit, PTL DEF Spec

----------------------------------------------------------------------------
(* What is pinned.                                                         *)

\* A record of a rendering says what it was made from and what made it.
Says(record) ==
    /\ record.page = record.doc
    /\ record.set.from = Shows[record.doc]
    /\ inEnv => record.set.tool = record.tool

\* A publish in progress carries what it opened with and what it found.
PublishSound ==
    /\ source \in Version
    /\ publish.pc # "idle" =>
          /\ publish = [ pc |-> publish.pc, doc |-> publish.doc, record |-> publish.record,
                         filed |-> publish.filed, cited |-> publish.cited ]
          /\ publish.doc \in Version
          /\ \A p \in publish.filed : Says(p) /\ p.blob = p.set
    /\ publish.pc = "keep" => Says(publish.record) /\ out.set = publish.record.set

\* A render in progress has made what the outputs show, in the environment
\* it started in.
RenderSound ==
    \A r \in Renderer : render[r].pc # "idle" =>
        /\ publish.pc = "idle"
        /\ render[r].pc \in {"page", "set", "record"}
        /\ render[r] = [ pc |-> render[r].pc, doc |-> render[r].doc, tool |-> render[r].tool,
                         page |-> render[r].page, set |-> render[r].set ]
        /\ inEnv => env.recorded /\ render[r].tool = Pin
        /\ render[r].pc \in {"set", "record"} => render[r].page = render[r].doc
        /\ render[r].pc = "set" => out.page = render[r].doc
        /\ render[r].pc = "record" =>
              render[r].set.from = Shows[render[r].doc] /\ (inEnv => render[r].set.tool = Pin)

RenderInv ==
    /\ EnvInv
    /\ render \in [Renderer -> {render[r] : r \in Renderer}]
    /\ out = [page |-> out.page, set |-> out.set, record |-> out.record]
    /\ out.record.doc # 0 => Says(out.record)
    /\ store = [records |-> store.records, blobs |-> store.blobs]
    /\ PublishSound
    /\ RenderSound
    /\ PinnedTrue

\* An environment that is there stays as it is.
LEMMA EnvironmentStays ==
    ASSUME EnvInv, NEW w \in Builder, Provisioning(w)
    PROVE  ~env.recorded
BY DEF EnvInv, Provisioning, EnvBuild, Provisioned, Materialize, EnvStep, EnvRecord

\* Each step of a render keeps it.
LEMMA RenderedSound ==
    ASSUME OneRenderer, RenderInv, NEW r \in Renderer, Rendered(r), EnvInv'
    PROVE  RenderInv'
<1>1. UNCHANGED <<author, env, builder, shelves>>
  BY RenderedLeaves
<1>2. /\ render \in [Renderer -> {render[q] : q \in Renderer}]
      /\ \A q \in Renderer : q = r
  BY DEF RenderInv, OneRenderer
<1>3. ASSUME NEW to, render' = [render EXCEPT ![r] = to]
      PROVE  render' \in [Renderer -> {render'[q] : q \in Renderer}] /\ render'[r] = to
  BY <1>2, <1>3
<1>4. /\ store' = [records |-> store'.records, blobs |-> store'.blobs] /\ PinnedTrue'
      /\ source' \in Version
  BY <1>1 DEF RenderInv, PinnedTrue, PublishSound, author, shelves
<1>5. publish.pc = "idle" /\ PublishSound'
  <2>1. publish.pc = "idle"
    BY DEF RenderInv, RenderSound, Rendered, RenderRun, RenderPage, RenderSet, RenderFails,
           RenderRecord
  <2> QED BY <1>1, <1>4, <2>1 DEF PublishSound, shelves
<1>6. CASE RenderRun(r)
  <2>1. PICK to : /\ to = [ pc |-> "page", doc |-> Resolved, tool |-> Program, page |-> 0,
                            set |-> NoFile ]
                  /\ render' = [render EXCEPT ![r] = to] /\ Preflight /\ out' = out
    BY <1>6 DEF RenderRun, Render
  <2>2. inEnv => env.recorded /\ Program = Pin
    BY <2>1 DEF Preflight, Provisioned, Program, RenderInv, EnvInv, ProvisionedWhole
  <2>3. RenderSound'
    BY <1>1, <1>2, <1>3, <1>5, <2>1, <2>2 DEF RenderSound, author, shelves
  <2> QED BY <1>1, <1>3, <1>4, <1>5, <2>1, <2>3 DEF RenderInv, Says, author
<1>7. CASE RenderPage(r)
  <2>1. PICK to : /\ to = [render[r] EXCEPT !.pc = "set", !.page = render[r].doc]
                  /\ render' = [render EXCEPT ![r] = to] /\ render[r].pc = "page"
                  /\ out' = [out EXCEPT !.page = render[r].doc]
    BY <1>7 DEF RenderPage, Render
  <2>2. render[r] = [ pc |-> "page", doc |-> render[r].doc, tool |-> render[r].tool,
                      page |-> render[r].page, set |-> render[r].set ]
        /\ (inEnv => env.recorded /\ render[r].tool = Pin)
    BY <2>1 DEF RenderInv, RenderSound
  <2>3. to = [ pc |-> "set", doc |-> render[r].doc, tool |-> render[r].tool,
               page |-> render[r].doc, set |-> render[r].set ]
    BY <2>1, <2>2
  <2>4. out' = [page |-> render[r].doc, set |-> out.set, record |-> out.record]
    BY <2>1 DEF RenderInv
  <2>5. RenderSound'
    <3>1. /\ render'[r] = to /\ out'.page = to.doc /\ to.page = to.doc /\ to.pc = "set"
          /\ to = [pc |-> to.pc, doc |-> to.doc, tool |-> to.tool, page |-> to.page,
                   set |-> to.set]
      BY <1>3, <2>1, <2>3, <2>4
    <3>2. inEnv' => env.recorded' /\ to.tool = Pin
      BY <1>1, <2>2, <2>3 DEF author
    <3>3. publish'.pc = "idle"
      BY <1>1, <1>5 DEF shelves
    <3> QED BY <1>2, <3>1, <3>2, <3>3 DEF RenderSound
  <2> QED BY <1>1, <1>3, <1>4, <1>5, <2>1, <2>4, <2>5 DEF RenderInv, Says, author
<1>8. CASE RenderSet(r)
  <2>1. PICK to, made :
          /\ made = [from |-> Shows[out.page], tool |-> Program]
          /\ to = [render[r] EXCEPT !.pc = "record", !.set = made]
          /\ render' = [render EXCEPT ![r] = to] /\ render[r].pc = "set"
          /\ out' = [out EXCEPT !.set = made]
    BY <1>8 DEF RenderSet, Render
  <2>2. render[r] = [ pc |-> "set", doc |-> render[r].doc, tool |-> render[r].tool,
                      page |-> render[r].page, set |-> render[r].set ]
        /\ (inEnv => env.recorded /\ render[r].tool = Pin)
        /\ render[r].page = render[r].doc /\ out.page = render[r].doc
    BY <2>1 DEF RenderInv, RenderSound
  <2>3. to = [ pc |-> "record", doc |-> render[r].doc, tool |-> render[r].tool,
               page |-> render[r].page, set |-> made ]
    BY <2>1, <2>2
  <2>4. out' = [page |-> out.page, set |-> made, record |-> out.record]
    BY <2>1 DEF RenderInv
  <2>5. made.from = Shows[render[r].doc] /\ (inEnv => made.tool = Pin)
    BY <2>1, <2>2 DEF Program, RenderInv, EnvInv, ProvisionedWhole
  <2>6. RenderSound'
    BY <1>1, <1>2, <1>3, <1>5, <2>1, <2>2, <2>3, <2>5 DEF RenderSound, author, shelves
  <2> QED BY <1>1, <1>3, <1>4, <1>5, <2>1, <2>4, <2>6 DEF RenderInv, Says, author
<1>9. CASE RenderFails(r)
  <2>1. render' = [render EXCEPT ![r] = Idle] /\ out' = out
    BY <1>9 DEF RenderFails, Render
  <2>2. RenderSound'
    BY <1>2, <1>3, <2>1 DEF RenderSound, Idle
  <2> QED BY <1>1, <1>3, <1>4, <1>5, <2>1, <2>2 DEF RenderInv, Says, author
<1>10. CASE RenderRecord(r)
  <2>1. PICK record :
          /\ record = [ doc |-> render[r].doc, page |-> render[r].page,
                        set |-> render[r].set, tool |-> render[r].tool ]
          /\ render' = [render EXCEPT ![r] = Idle] /\ render[r].pc = "record"
          /\ out' = [out EXCEPT !.record = record]
    BY <1>10 DEF RenderRecord, Render
  <2>2. RenderSound'
    BY <1>2, <1>3, <2>1 DEF RenderSound, Idle
  <2>3. out' = [page |-> out.page, set |-> out.set, record |-> record]
    BY <2>1 DEF RenderInv
  <2>4. Says(record)
    BY <2>1 DEF RenderInv, RenderSound, Says
  <2> QED BY <1>1, <1>3, <1>4, <1>5, <2>1, <2>2, <2>3, <2>4 DEF RenderInv, Says, author
<1> QED BY <1>6, <1>7, <1>8, <1>9, <1>10 DEF Rendered

\* Each step of a publish keeps it: nothing it has looked at changes under it.
LEMMA PublishedSound ==
    ASSUME ~Beside, RenderInv, Published, EnvInv'
    PROVE  RenderInv'
<1>1. UNCHANGED <<inEnv, env, builder, render, out, source>>
  BY PublishedLeaves DEF workplace
<1>2. \A record : Says(record) <=> Says(record)'
  BY <1>1 DEF Says
<1>3. /\ source \in Version
      /\ publish.pc # "idle" =>
          /\ publish = [ pc |-> publish.pc, doc |-> publish.doc, record |-> publish.record,
                         filed |-> publish.filed, cited |-> publish.cited ]
          /\ publish.doc \in Version
          /\ \A p \in publish.filed : Says(p) /\ p.blob = p.set
      /\ publish.pc = "keep" => Says(publish.record) /\ out.set = publish.record.set
  BY DEF RenderInv, PublishSound
<1>4. publish.pc # "idle" => \A r \in Renderer : render[r].pc = "idle"
  BY DEF RenderInv, RenderSound
<1>a. ASSUME \A r \in Renderer : render[r].pc = "idle" PROVE RenderSound'
  BY <1>1, <1>a DEF RenderSound
<1>b. ASSUME RenderSound', PublishSound', UNCHANGED store PROVE RenderInv'
  BY <1>1, <1>2, <1>b DEF RenderInv, PinnedTrue
<1>c. ASSUME publish.pc # "idle", NEW to \in {"export", "blobs", "lock"}, NEW cited,
             publish' = [publish EXCEPT !.pc = to, !.cited = cited]
      PROVE  PublishSound'
  <2>1. publish' = [ pc |-> to, doc |-> publish.doc, record |-> publish.record,
                     filed |-> publish.filed, cited |-> cited ]
    BY <1>3, <1>c
  <2> QED BY <1>1, <1>2, <1>3, <1>c, <2>1 DEF PublishSound
<1>5. CASE \E rendering \in BOOLEAN : PublishOpen(rendering)
  <2>1. PICK to : /\ to \in {"check", "put"}
                  /\ publish' = [ pc |-> to, doc |-> source, record |-> NoRecord,
                                  filed |-> {}, cited |-> {} ]
                  /\ \A r \in Renderer : render[r].pc = "idle"
                  /\ UNCHANGED store
    BY <1>5 DEF PublishOpen, Publishing
  <2>2. PublishSound'
    BY <1>1, <1>3, <2>1 DEF PublishSound
  <2> QED BY <1>a, <1>b, <2>1, <2>2
<1>6. CASE PinCheck
  <2>1. PICK to : /\ to \in {"keep", "put"} /\ (to = "keep" => Pins(publish.doc))
                  /\ publish' = [publish EXCEPT !.pc = to, !.record = out.record]
                  /\ publish.pc = "check" /\ UNCHANGED store
    BY <1>6 DEF PinCheck, Publishing
  <2>2. publish' = [ pc |-> to, doc |-> publish.doc, record |-> out.record,
                     filed |-> publish.filed, cited |-> publish.cited ]
    BY <1>3, <2>1
  <2>3. to = "keep" => Says(out.record) /\ out.set = out.record.set
    <3>1. publish.doc # 0
      BY <1>3, <2>1, RenderingAssumption
    <3> QED BY <2>1, <3>1 DEF Pins, RenderInv
  <2>4. PublishSound'
    BY <1>1, <1>2, <1>3, <2>1, <2>2, <2>3 DEF PublishSound
  <2> QED BY <1>4, <1>a, <1>b, <2>1, <2>4
<1>7. CASE PinKeep
  <2>1. PICK pinned :
          /\ pinned = Pinned(publish.record, out.set)
          /\ publish' = [publish EXCEPT !.pc = "put", !.filed = {pinned}]
          /\ publish.pc = "keep"
          /\ store' = [store EXCEPT !.blobs = @ \cup {out.set}]
    BY <1>7 DEF PinKeep, Publishing
  <2>2. publish' = [ pc |-> "put", doc |-> publish.doc, record |-> publish.record,
                     filed |-> {pinned}, cited |-> publish.cited ]
    BY <1>3, <2>1
  <2>3. Says(pinned) /\ pinned.blob = pinned.set
    BY <1>3, <2>1 DEF Pinned, Says
  <2>4. PublishSound'
    <3>1. \A p \in publish'.filed : Says(p)' /\ p.blob = p.set
      BY <1>2, <2>2, <2>3
    <3>2. publish'.pc = "put" /\ publish'.doc \in Version
      BY <1>3, <2>1, <2>2
    <3>3. publish' = [ pc |-> publish'.pc, doc |-> publish'.doc, record |-> publish'.record,
                       filed |-> publish'.filed, cited |-> publish'.cited ]
      BY <2>2
    <3> QED BY <1>1, <1>3, <3>1, <3>2, <3>3 DEF PublishSound
  <2>5. store' = [records |-> store.records, blobs |-> store.blobs \cup {out.set}]
    BY <2>1 DEF RenderInv
  <2>6. PinnedTrue'
    BY <1>1, <2>5 DEF PinnedTrue, RenderInv
  <2> QED BY <1>1, <1>2, <1>4, <1>a, <2>1, <2>4, <2>5, <2>6 DEF RenderInv
<1>8. CASE PublishPut
  <2>1. /\ publish' = [publish EXCEPT !.pc = "export"] /\ publish.pc = "put"
        /\ store' = [store EXCEPT !.records = @ \cup publish.filed]
    BY <1>8 DEF PublishPut, Publishing
  <2>2. publish' = [publish EXCEPT !.pc = "export", !.cited = publish.cited]
    BY <1>3, <2>1
  <2>3. PublishSound'
    BY <1>c, <2>1, <2>2
  <2>4. store' = [records |-> store.records \cup publish.filed, blobs |-> store.blobs]
    BY <2>1 DEF RenderInv
  <2>5. PinnedTrue'
    BY <1>1, <1>3, <2>1, <2>4 DEF PinnedTrue, RenderInv, Says
  <2> QED BY <1>1, <1>2, <1>4, <1>a, <2>1, <2>3, <2>4, <2>5 DEF RenderInv
<1>9. CASE ExportObjects
  <2>1. PICK cited : /\ publish' = [publish EXCEPT !.pc = "blobs", !.cited = cited]
                     /\ publish.pc = "export" /\ UNCHANGED store
    BY <1>9 DEF ExportObjects, Publishing
  <2> QED BY <1>4, <1>a, <1>b, <1>c, <2>1
<1>10. CASE ExportBlobs
  <2>1. /\ publish' = [publish EXCEPT !.pc = "lock"]
        /\ publish.pc = "blobs" /\ UNCHANGED store
    BY <1>10 DEF ExportBlobs, Publishing
  <2>2. publish' = [publish EXCEPT !.pc = "lock", !.cited = publish.cited]
    BY <1>3, <2>1
  <2> QED BY <1>4, <1>a, <1>b, <1>c, <2>1, <2>2
<1>11. CASE WriteLock
  <2>1. publish' = Idle /\ publish.pc = "lock" /\ UNCHANGED store
    BY <1>11 DEF WriteLock, Publishing
  <2>2. PublishSound'
    BY <1>1, <1>3, <2>1 DEF PublishSound, Idle
  <2> QED BY <1>4, <1>a, <1>b, <2>1, <2>2
<1> QED BY <1>5, <1>6, <1>7, <1>8, <1>9, <1>10, <1>11 DEF Published

\* Every step keeps what is pinned true.
LEMMA RenderInvStep ==
    ~Beside /\ OneBuilder /\ OneRenderer /\ RenderInv /\ [Next]_vars => RenderInv'
<1> SUFFICES ASSUME ~Beside, OneBuilder, OneRenderer, RenderInv, [Next]_vars
             PROVE  RenderInv'
  OBVIOUS
<1>1. EnvInv'
  BY EnvInvStep DEF RenderInv
<1>2. CASE Authored
  <2>1. UNCHANGED <<inEnv, env, builder, render, out, store, publish>>
    BY <1>2, AuthoredLeaves DEF workplace, shelves
  <2>2. source' \in Version
    BY <1>2 DEF Authored, Edit, Build, Tick, Upgrade, Restate, RenderInv, PublishSound
  <2> QED BY <1>1, <2>1, <2>2 DEF RenderInv, PublishSound, RenderSound, PinnedTrue, Says
<1>3. CASE Published
  BY <1>1, <1>3, PublishedSound
<1>4. CASE Pruned
  <2>1. UNCHANGED <<source, inEnv, env, builder, render, out, store, publish>>
    BY <1>4, PrunedLeaves DEF author, workplace
  <2> QED BY <1>1, <2>1 DEF RenderInv, PublishSound, RenderSound, PinnedTrue, Says
<1>5. CASE Crash
  <2>1. /\ UNCHANGED <<source, inEnv, env, out, store>>
        /\ publish' \in {publish, Idle}
        /\ \/ UNCHANGED render
           \/ \E r \in Renderer : render' = [render EXCEPT ![r] = Idle]
    BY <1>5 DEF Crash, author
  <2>2. /\ render' \in [Renderer -> {render'[r] : r \in Renderer}]
        /\ \A r \in Renderer : render'[r] \in {render[r], Idle}
    BY <2>1 DEF RenderInv
  <2>3. Idle.pc = "idle"
    BY DEF Idle
  <2>4. PublishSound'
    BY <2>1, <2>3 DEF PublishSound, RenderInv, Says
  <2>5. RenderSound'
    <3> SUFFICES ASSUME NEW r \in Renderer, render'[r].pc # "idle"
                 PROVE  publish'.pc = "idle" /\ render'[r] = render[r]
      BY <2>1 DEF RenderSound, RenderInv
    <3> QED BY <2>1, <2>2, <2>3 DEF RenderSound, RenderInv
  <2> QED BY <1>1, <2>1, <2>2, <2>4, <2>5 DEF RenderInv, PinnedTrue, Says
<1>6. CASE \E w \in Builder : Provisioning(w)
  <2>1. PICK w \in Builder : Provisioning(w)
    BY <1>6
  <2>2. UNCHANGED <<source, inEnv, render, out, store, publish>>
    BY <2>1, ProvisioningLeaves DEF author, shelves
  <2>3. ~env.recorded
    BY <2>1, EnvironmentStays DEF RenderInv
  <2>4. RenderSound'
    BY <2>2, <2>3 DEF RenderSound, RenderInv
  <2> QED BY <1>1, <2>2, <2>4 DEF RenderInv, PublishSound, PinnedTrue, Says
<1>7. CASE \E r \in Renderer : Rendered(r)
  BY <1>1, <1>7, RenderedSound
<1>8. CASE UNCHANGED vars
  BY <1>1, <1>8 DEF vars, RenderInv, PublishSound, RenderSound, PinnedTrue, Says
<1> QED BY <1>2, <1>3, <1>4, <1>5, <1>6, <1>7, <1>8, Steps

\* Nothing has been rendered.
LEMMA RenderInit == Init => RenderInv
<1> SUFFICES ASSUME Init PROVE RenderInv
  OBVIOUS
<1>1. /\ source \in Version /\ render = [r \in Renderer |-> Idle] /\ publish = Idle
      /\ out = [page |-> 0, set |-> NoFile, record |-> NoRecord]
      /\ store = [records |-> {}, blobs |-> {}]
  BY DEF Init
<1>2. render \in [Renderer -> {render[r] : r \in Renderer}]
      /\ \A r \in Renderer : render[r].pc = "idle"
  BY <1>1 DEF Idle
<1> QED BY <1>1, <1>2, EnvInit
        DEF RenderInv, PublishSound, RenderSound, PinnedTrue, NoRecord, Idle

\* What is pinned as a rendering of a version was made from it in one piece,
\* and in an environment by the tool it names: with one render at a time and
\* none beside a publish.
THEOREM PinnedIsTrue ==
    ~Beside /\ OneBuilder /\ OneRenderer => (Spec => []PinnedTrue)
<1> SUFFICES ASSUME ~Beside, OneBuilder, OneRenderer PROVE Spec => []PinnedTrue
  OBVIOUS
<1>1. RenderInv /\ [Next]_vars => RenderInv'
  BY RenderInvStep
<1>2. RenderInv => PinnedTrue
  BY DEF RenderInv
<1> QED BY <1>1, <1>2, RenderInit, PTL DEF Spec


----------------------------------------------------------------------------
(* What is kept.                                                           *)

\* The active rendering is one of those there are: of finitely many, one is
\* newest.
LEMMA ActiveIsOne ==
    ASSUME NEW records, IsFiniteSet(records), \A p \in records : p.created \in Nat, NEW doc
    PROVE  ActiveRendering(records, doc) \subseteq records
<1> DEFINE mine == {p \in records : p.doc = doc}
<1>1. CASE mine = {}
  BY <1>1 DEF ActiveRendering
<1>2. CASE mine # {}
  <2> DEFINE T == {p.created : p \in mine}
  <2>1. IsFiniteSet(mine)
    <3>1. mine \subseteq records
      OBVIOUS
    <3> QED BY <3>1, FS_Subset
  <2>2. IsFiniteSet(T)
    <3>1. [p \in mine |-> p.created] \in Surjection(mine, T)
      BY DEF Surjection
    <3> QED BY <2>1, <3>1, FS_Surjection
  <2>3. T \in SUBSET Int /\ T # {}
    BY <1>2
  <2>4. PICK last \in T : \A c \in T : last >= c
    BY <2>2, <2>3, FiniteHasGreatest
  <2> DEFINE latest == {p \in mine : p.created = last}
  <2>5. latest # {}
    OBVIOUS
  <2>6. PICK p \in latest : (\E q \in latest : ToolRank(q.set.tool)) => ToolRank(p.set.tool)
    BY <2>5
  <2>7. \A q \in mine : ~Newer(q, p)
    <3> SUFFICES ASSUME NEW q \in mine, Newer(q, p) PROVE FALSE
      OBVIOUS
    <3>1. p.created = last /\ last \in Nat /\ q.created \in Nat /\ last >= q.created
      BY <2>4
    <3>2. ~(q.created > p.created)
      BY <3>1
    <3>3. q.created = p.created /\ ToolRank(q.set.tool) /\ ~ToolRank(p.set.tool)
      BY <3>2 DEF Newer
    <3> QED BY <2>6, <3>3
  <2> HIDE DEF latest
  <2>8. (CHOOSE m \in mine : \A q \in mine : ~Newer(q, m)) \in mine
    BY <2>7 DEF latest
  <2> QED BY <1>2, <2>8 DEF ActiveRendering
<1> QED BY <1>1, <1>2

\* What a publish has still to export.
Pending == IF publish.pc = "blobs" THEN publish.cited ELSE {}

\* The output of every rendering exported is in blobs/, or about to be, or
\* lost; and what is being pruned is the output of no active one.
ShelfInv ==
    /\ clock \in Nat
    /\ store = [records |-> store.records, blobs |-> store.blobs]
    /\ corpus = [records |-> corpus.records, blobs |-> corpus.blobs]
    /\ IsFiniteSet(store.records)
    /\ \A p \in store.records : p.created \in Nat /\ p.blob \in store.blobs
    /\ corpus.records \subseteq store.records
    /\ publish.pc # "idle" =>
          /\ prune = {}
          /\ publish = [ pc |-> publish.pc, doc |-> publish.doc, record |-> publish.record,
                         filed |-> publish.filed, cited |-> publish.cited ]
          /\ IsFiniteSet(publish.filed)
          /\ \A p \in publish.filed : p.created \in Nat /\ p.blob \in store.blobs
    /\ publish.pc = "blobs" => publish.cited \subseteq store.blobs
    /\ \A p \in ActiveRendering(corpus.records, published) : p.blob \notin prune
    /\ \A p \in corpus.records : p.blob \in corpus.blobs \cup lost \cup Pending

\* Each step of a publish keeps it.
LEMMA PublishedKept ==
    ASSUME ~Beside, ShelfInv, Published
    PROVE  ShelfInv'
<1>1. UNCHANGED <<clock, prune>>
  BY PublishedLeaves DEF Published, PublishOpen, PinCheck, PinKeep, PublishPut, ExportObjects,
                         ExportBlobs, WriteLock, Publishing
<1>2. publish.pc # "idle" =>
          /\ prune = {}
          /\ publish = [ pc |-> publish.pc, doc |-> publish.doc, record |-> publish.record,
                         filed |-> publish.filed, cited |-> publish.cited ]
          /\ IsFiniteSet(publish.filed)
          /\ \A p \in publish.filed : p.created \in Nat /\ p.blob \in store.blobs
  BY DEF ShelfInv
\* While a publish is in progress, nothing is being pruned.
<1>a. ASSUME prune = {}
      PROVE  \A p \in ActiveRendering(corpus.records, published)' : p.blob \notin prune'
  BY <1>1, <1>a
\* A step that leaves what is kept alone.
<1>b. ASSUME prune = {}, UNCHANGED <<store, corpus, lost>>, publish.pc # "blobs",
             NEW to, to # "blobs", NEW doc, NEW record, NEW filed, NEW cited,
             publish' = [ pc |-> to, doc |-> doc, record |-> record, filed |-> filed,
                          cited |-> cited ],
             filed = {} \/ (publish.pc # "idle" /\ filed = publish.filed)
      PROVE  ShelfInv'
  <2>1. publish'.pc = to /\ publish'.filed = filed
    BY <1>b
  <2>2. IsFiniteSet(filed) /\ \A p \in filed : p.created \in Nat /\ p.blob \in store.blobs
    BY <1>2, <1>b, FS_EmptySet
  <2>3. Pending = {} /\ Pending' = {}
    BY <1>b, <2>1 DEF Pending
  <2> QED BY <1>1, <1>a, <1>b, <2>1, <2>2, <2>3 DEF ShelfInv
<1>3. CASE \E rendering \in BOOLEAN : PublishOpen(rendering)
  <2>1. PICK to : /\ to \in {"check", "put"}
                  /\ publish' = [ pc |-> to, doc |-> source, record |-> NoRecord,
                                  filed |-> {}, cited |-> {} ]
                  /\ publish.pc = "idle" /\ prune = {}
                  /\ UNCHANGED <<store, corpus, lost>>
    BY <1>3 DEF PublishOpen, Publishing
  <2> QED BY <1>b, <2>1
<1>4. CASE PinCheck
  <2>1. PICK to : /\ to \in {"keep", "put"}
                  /\ publish' = [publish EXCEPT !.pc = to, !.record = out.record]
                  /\ publish.pc = "check" /\ UNCHANGED <<store, corpus, lost>>
    BY <1>4 DEF PinCheck, Publishing
  <2>2. publish' = [ pc |-> to, doc |-> publish.doc, record |-> out.record,
                     filed |-> publish.filed, cited |-> publish.cited ]
    BY <1>2, <2>1
  <2> QED BY <1>2, <1>b, <2>1, <2>2
<1>c. /\ clock \in Nat
      /\ store = [records |-> store.records, blobs |-> store.blobs]
      /\ corpus = [records |-> corpus.records, blobs |-> corpus.blobs]
      /\ IsFiniteSet(store.records)
      /\ \A p \in store.records : p.created \in Nat /\ p.blob \in store.blobs
      /\ corpus.records \subseteq store.records
      /\ publish.pc = "blobs" => publish.cited \subseteq store.blobs
      /\ \A p \in corpus.records : p.blob \in corpus.blobs \cup lost \cup Pending
  BY DEF ShelfInv
<1>5. CASE PinKeep
  <2>1. PICK pinned :
          /\ pinned = Pinned(publish.record, out.set)
          /\ publish' = [publish EXCEPT !.pc = "put", !.filed = {pinned}]
          /\ publish.pc = "keep"
          /\ store' = [store EXCEPT !.blobs = @ \cup {out.set}]
          /\ UNCHANGED <<corpus, lost>>
    BY <1>5 DEF PinKeep, Publishing
  <2>2. publish' = [ pc |-> "put", doc |-> publish.doc, record |-> publish.record,
                     filed |-> {pinned}, cited |-> publish.cited ]
    BY <1>2, <2>1
  <2>3. store' = [records |-> store.records, blobs |-> store.blobs \cup {out.set}]
    BY <1>c, <2>1
  <2>4. pinned.created \in Nat /\ pinned.blob = out.set
    BY <1>c, <2>1 DEF Pinned
  <2>5. IsFiniteSet({pinned})
    BY FS_Singleton
  <2>6. publish'.pc = "put" /\ publish'.filed = {pinned} /\ Pending = {} /\ Pending' = {}
    BY <2>1, <2>2 DEF Pending
  <2>7. prune = {}
    BY <1>2, <2>1
  <2>8. store'.records = store.records /\ store.blobs \subseteq store'.blobs
        /\ out.set \in store'.blobs
    BY <2>3
  <2>9. \A p \in publish'.filed : p.created \in Nat /\ p.blob \in store'.blobs
    BY <2>4, <2>6, <2>8
  <2>10. /\ publish'.pc # "blobs"
         /\ publish' = [ pc |-> publish'.pc, doc |-> publish'.doc, record |-> publish'.record,
                         filed |-> publish'.filed, cited |-> publish'.cited ]
    BY <2>2
  <2>11. store' = [records |-> store'.records, blobs |-> store'.blobs]
    BY <2>3
  <2> QED BY <1>1, <1>a, <1>c, <2>1, <2>5, <2>6, <2>7, <2>8, <2>9, <2>10, <2>11 DEF ShelfInv
<1>6. CASE PublishPut
  <2>1. /\ publish' = [publish EXCEPT !.pc = "export"] /\ publish.pc = "put"
        /\ store' = [store EXCEPT !.records = @ \cup publish.filed]
        /\ UNCHANGED <<corpus, lost>>
    BY <1>6 DEF PublishPut, Publishing
  <2>2. publish' = [ pc |-> "export", doc |-> publish.doc, record |-> publish.record,
                     filed |-> publish.filed, cited |-> publish.cited ]
    BY <1>2, <2>1
  <2>3. store' = [records |-> store.records \cup publish.filed, blobs |-> store.blobs]
    BY <1>c, <2>1
  <2>4. IsFiniteSet(store'.records)
    <3>1. IsFiniteSet(store.records) /\ IsFiniteSet(publish.filed)
      BY <1>2, <1>c, <2>1
    <3>2. IsFiniteSet(store.records \cup publish.filed)
      BY <3>1, FS_Union
    <3> QED BY <2>3, <3>2
  <2>5. /\ publish'.pc = "export" /\ publish'.filed = publish.filed
        /\ Pending = {} /\ Pending' = {}
    BY <2>1, <2>2 DEF Pending
  <2>6. prune = {}
    BY <1>2, <2>1
  <2> QED BY <1>1, <1>2, <1>a, <1>c, <2>1, <2>2, <2>3, <2>4, <2>5, <2>6 DEF ShelfInv
<1>7. CASE ExportObjects
  <2>1. PICK cited :
          /\ cited = UNION {BlobOf(p) : p \in store.records \ corpus.records}
          /\ publish' = [publish EXCEPT !.pc = "blobs", !.cited = cited]
          /\ publish.pc = "export" /\ UNCHANGED <<store, lost>>
          /\ corpus' = [corpus EXCEPT !.records = @ \cup store.records]
    BY <1>7 DEF ExportObjects, Publishing
  <2>2. publish' = [ pc |-> "blobs", doc |-> publish.doc, record |-> publish.record,
                     filed |-> publish.filed, cited |-> cited ]
    BY <1>2, <2>1
  <2>3. corpus' = [records |-> store.records, blobs |-> corpus.blobs]
    <3>1. corpus.records \cup store.records = store.records
      BY <1>c
    <3> QED BY <1>c, <2>1, <3>1
  <2>4. cited = {p.blob : p \in store.records \ corpus.records}
    BY <2>1 DEF BlobOf
  <2>5. publish'.pc = "blobs" /\ publish'.filed = publish.filed /\ publish'.cited = cited
    BY <2>2
  <2>6. Pending = {} /\ Pending' = cited
    BY <2>1, <2>5 DEF Pending
  <2>7. cited \subseteq store.blobs
    BY <1>c, <2>4
  <2>8. \A p \in corpus'.records : p.blob \in corpus'.blobs \cup lost' \cup Pending'
    BY <1>c, <2>1, <2>3, <2>4, <2>6
  <2>9. prune = {}
    BY <1>2, <2>1
  <2> QED BY <1>1, <1>2, <1>a, <1>c, <2>1, <2>2, <2>3, <2>5, <2>7, <2>8, <2>9 DEF ShelfInv
<1>8. CASE ExportBlobs
  <2>1. /\ publish' = [publish EXCEPT !.pc = "lock"] /\ publish.pc = "blobs"
        /\ corpus' = [corpus EXCEPT !.blobs = @ \cup (publish.cited \cap store.blobs)]
        /\ UNCHANGED <<store, lost>>
    BY <1>8 DEF ExportBlobs, Publishing
  <2>2. publish' = [ pc |-> "lock", doc |-> publish.doc, record |-> publish.record,
                     filed |-> publish.filed, cited |-> publish.cited ]
    BY <1>2, <2>1
  <2>3. corpus' = [records |-> corpus.records, blobs |-> corpus.blobs \cup publish.cited]
    <3>1. publish.cited \cap store.blobs = publish.cited
      BY <1>c, <2>1
    <3> QED BY <1>c, <2>1, <3>1
  <2>4. publish'.pc = "lock" /\ publish'.filed = publish.filed
    BY <2>2
  <2>5. Pending = publish.cited /\ Pending' = {}
    BY <2>1, <2>4 DEF Pending
  <2>6. prune = {}
    BY <1>2, <2>1
  <2> QED BY <1>1, <1>2, <1>a, <1>c, <2>1, <2>2, <2>3, <2>4, <2>5, <2>6 DEF ShelfInv
<1>9. CASE WriteLock
  <2>1. publish' = Idle /\ publish.pc = "lock" /\ UNCHANGED <<store, corpus, lost>>
    BY <1>9 DEF WriteLock, Publishing
  <2>2. publish'.pc = "idle" /\ Pending = {} /\ Pending' = {}
    BY <2>1 DEF Idle, Pending
  <2>3. prune = {}
    BY <1>2, <2>1
  <2> QED BY <1>1, <1>a, <1>c, <2>1, <2>2, <2>3 DEF ShelfInv
<1> QED BY <1>3, <1>4, <1>5, <1>6, <1>7, <1>8, <1>9 DEF Published

\* Pruning removes the outputs of renderings that are not active, and says so.
LEMMA PrunedKept ==
    ASSUME ~Beside, ShelfInv, Pruned
    PROVE  ShelfInv'
<1>1. UNCHANGED <<clock, store, published, publish>>
  BY PrunedLeaves DEF author
<1> DEFINE active == ActiveRendering(corpus.records, published)
<1>2. CASE PruneRead
  <2>1. /\ publish.pc = "idle" /\ UNCHANGED <<corpus, lost>>
        /\ prune' = Prunable
    BY <1>2 DEF PruneRead
  <2>2. \A p \in active : p.blob \notin prune'
    BY <2>1 DEF Prunable
  <2> QED BY <1>1, <2>1, <2>2 DEF ShelfInv, Pending
<1>3. CASE \E blob \in prune : PruneRemove(blob)
  <2>1. PICK blob \in prune :
          /\ prune' = prune \ {blob}
          /\ corpus' = [corpus EXCEPT !.blobs = @ \ {blob}]
          /\ lost' = lost \cup ({blob} \ {p.blob : p \in active})
    BY <1>3 DEF PruneRemove
  <2>2. corpus' = [records |-> corpus.records, blobs |-> corpus.blobs \ {blob}]
    BY <2>1 DEF ShelfInv
  <2>3. lost' = lost \cup {blob}
    BY <2>1 DEF ShelfInv
  <2>4. \A p \in corpus'.records : p.blob \in corpus'.blobs \cup lost' \cup Pending'
    BY <1>1, <2>2, <2>3 DEF ShelfInv, Pending
  <2> HIDE DEF active
  <2>5. \A p \in active : p.blob \notin prune'
    BY <2>1 DEF ShelfInv, active
  <2>6. active = ActiveRendering(corpus.records, published)'
    BY <1>1, <2>2 DEF active
  <2>7. publish.pc = "idle"
    BY <2>1 DEF ShelfInv
  <2> QED BY <1>1, <2>2, <2>4, <2>5, <2>6, <2>7 DEF ShelfInv
<1> QED BY <1>2, <1>3 DEF Pruned

\* Every step keeps what is kept.
LEMMA ShelfInvStep == ~Beside /\ ShelfInv /\ [Next]_vars => ShelfInv'
<1> SUFFICES ASSUME ~Beside, ShelfInv, [Next]_vars PROVE ShelfInv'
  OBVIOUS
<1>a. ASSUME UNCHANGED <<store, corpus, published, publish, prune, lost>>, clock' \in Nat
      PROVE  ShelfInv'
  BY <1>a DEF ShelfInv, Pending
<1>1. CASE Authored
  <2>1. clock' \in {clock, clock + 1}
    BY <1>1 DEF Authored, Edit, Build, Tick, Upgrade, Restate
  <2>2. clock' \in Nat
    BY <2>1 DEF ShelfInv
  <2> QED BY <1>1, <1>a, <2>2, AuthoredLeaves DEF shelves
<1>2. CASE Published
  BY <1>2, PublishedKept
<1>3. CASE Pruned
  BY <1>3, PrunedKept
<1>4. CASE Crash
  <2>1. UNCHANGED <<clock, store, corpus, published, prune>>
    BY <1>4 DEF Crash, author
  <2>2. CASE UNCHANGED <<publish, lost>>
    BY <1>a, <2>1, <2>2 DEF ShelfInv
  <2>3. CASE /\ publish' = Idle
             /\ lost' = IF publish.pc = "blobs" THEN lost \cup publish.cited ELSE lost
    <3>1. publish'.pc = "idle"
      BY <2>3 DEF Idle
    <3>2. \A p \in corpus'.records : p.blob \in corpus'.blobs \cup lost' \cup Pending'
      BY <2>1, <2>3, <3>1 DEF ShelfInv, Pending
    <3> QED BY <2>1, <3>1, <3>2 DEF ShelfInv
  <2> QED BY <1>4, <2>2, <2>3 DEF Crash
<1>5. CASE \E w \in Builder : Provisioning(w)
  BY <1>5, <1>a, ProvisioningLeaves DEF author, shelves, ShelfInv
<1>6. CASE \E r \in Renderer : Rendered(r)
  BY <1>6, <1>a, RenderedLeaves DEF author, shelves, ShelfInv
<1>7. CASE UNCHANGED vars
  BY <1>7, <1>a DEF vars, ShelfInv
<1> QED BY <1>1, <1>2, <1>3, <1>4, <1>5, <1>6, <1>7, Steps

\* Nothing has been kept.
LEMMA ShelfInit == Init => ShelfInv
<1> SUFFICES ASSUME Init PROVE ShelfInv
  OBVIOUS
<1>1. /\ store = [records |-> {}, blobs |-> {}] /\ corpus = store
      /\ publish = Idle /\ prune = {} /\ lost = {} /\ clock = 1
  BY DEF Init
<1> QED BY <1>1, FS_EmptySet DEF ShelfInv, Idle, Pending

\* The output of the rendering active for the version published is kept,
\* unless it was pruned while another was active, or a publish died before
\* it came to the outputs: where nothing runs beside a publish.
THEOREM ActiveIsKept == ~Beside => (Spec => []ActiveKept)
<1> SUFFICES ASSUME ~Beside PROVE Spec => []ActiveKept
  OBVIOUS
<1>1. ShelfInv /\ [Next]_vars => ShelfInv'
  BY ShelfInvStep
<1>2. ASSUME ShelfInv PROVE ActiveKept
  <2> SUFFICES ASSUME publish.pc = "idle",
                      NEW p \in ActiveRendering(corpus.records, published)
               PROVE  p.blob \in corpus.blobs \cup lost
    BY DEF ActiveKept
  <2>1. IsFiniteSet(corpus.records) /\ \A q \in corpus.records : q.created \in Nat
    BY <1>2, FS_Subset DEF ShelfInv
  <2>2. p \in corpus.records
    BY <2>1, ActiveIsOne
  <2> QED BY <1>2, <2>2 DEF ShelfInv, Pending
<1> QED BY <1>1, <1>2, ShelfInit, PTL DEF Spec

================================================================================
