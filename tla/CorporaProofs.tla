---------------------------- MODULE CorporaProofs ----------------------------
(***************************************************************************)
(* What a corpus may rely on of the parent it is pinned to, whatever the   *)
(* parent publishes, whatever the child's source cites and however often   *)
(* it is built, published and upgraded, one command at a time.             *)
(***************************************************************************)
EXTENDS Corpora, TLAPS

Citing == [cites : SUBSET Imported]
Pins == {None} \cup 1..MaxParent
Locks == [version : {None} \cup Citing, index : Nat,
          members : SUBSET (Citing \cup Imported),
          pin : Pins, imports : SUBSET Imported]
Sessions == [phase : {"build", "publish", "published"}, pin : 1..MaxParent,
             imports : SUBSET Imported, version : Citing, base : Locks]

Typed ==
    /\ parent \in Seq([Slug -> Versions]) /\ Latest \in 1..MaxParent
    /\ objects \in SUBSET (Citing \cup Imported)
    /\ lock \in Locks
    /\ drafts \in [pin : Pins, imports : SUBSET Imported]
    /\ session \in {Idle} \cup Sessions
    /\ upgrading \in {Idle} \cup [phase : {"upgrade"}, lock : Locks]

\* The parent's publets move to later versions, by one a generation at most.
ParentGrows ==
    \A g \in 1..Latest : \A s \in Slug :
        /\ parent[g][s] <= g
        /\ \A h \in g..Latest : parent[g][s] <= parent[h][s]

\* Resolutions are the parent's, at or before the pin beside them.
Within(pin, imports) == pin \in 1..Latest /\ imports \subseteq Members(pin)
Settled(pin, imports) == (pin = None /\ imports = {}) \/ Within(pin, imports)

\* The pin beside the drafts is never ahead of another.
DraftsBehind(pin) == drafts.pin # None /\ pin # None => drafts.pin <= pin

\* Every name in the lock is in `imports' too, at that version or a later one.
Covers(imports) ==
    \A i \in lock.imports : \E j \in imports : j.slug = i.slug /\ j.version >= i.version

\* A build or publish holds the pin and the resolutions it found; a publish
\* writes back the lock as it still is.
SessionHolds ==
    session # Idle =>
        /\ upgrading = Idle
        /\ Within(session.pin, session.imports)
        /\ lock.pin \in {None, session.pin}
        /\ lock.imports \subseteq session.imports
        /\ DraftsBehind(session.pin)
        /\ session.phase = "publish" => session.base = lock
        /\ session.phase = "published" => lock.pin = session.pin

\* An upgrade holds a lock that is the one on disk, moved forward.
UpgradeHolds ==
    upgrading # Idle =>
        LET next == upgrading.lock
        IN  /\ session = Idle
            /\ Within(next.pin, next.imports)
            /\ lock.pin # None => lock.pin <= next.pin
            /\ Covers(next.imports)
            /\ DraftsBehind(next.pin)
            /\ next.index = lock.index

CorporaInv ==
    /\ Typed
    /\ ParentGrows
    /\ Settled(lock.pin, lock.imports)
    /\ Settled(drafts.pin, drafts.imports)
    /\ DraftsBehind(lock.pin)
    /\ SessionHolds
    /\ UpgradeHolds

----------------------------------------------------------------------------
(* What generations hold.                                                  *)

\* A later generation holds what an earlier one does.
LEMMA MembersGrow ==
    ASSUME NEW p \in Nat, NEW q \in Nat, p <= q
    PROVE  Members(p) \subseteq Members(q)
BY DEF Members

\* Publishing a generation changes none of the earlier ones.
LEMMA MembersKept ==
    ASSUME Typed, NEW s \in Slug, ParentPublish(s), NEW pin \in 1..Latest
    PROVE  Members(pin)' = Members(pin)
<1>1. \A g \in 1..pin : parent'[g] = parent[g]
  BY DEF Typed, ParentPublish, Latest
<1> QED BY <1>1 DEF Members

\* What the parent declares is in its latest generation.
LEMMA SlugsAreMembers ==
    ASSUME Typed
    PROVE  Slugs \subseteq Members(Latest)
<1> SUFFICES ASSUME NEW s \in Slug, parent[Latest][s] # 0
             PROVE  [slug |-> s, version |-> parent[Latest][s]] \in Members(Latest)
  BY DEF Slugs
<1>1. parent[Latest][s] \in Versions
  BY DEF Typed, Latest
<1>2. Latest \in 1..Latest
  BY DEF Typed, Latest
<1> QED BY <1>1, <1>2 DEF Members, Imported

\* Whichever pin a command finds, what is already resolved is within it.
LEMMA KnownWithin ==
    ASSUME CorporaInv
    PROVE  Within(Pin, Known)
<1> USE CorporaAssumption DEF CorporaInv, Settled, Within, Pin, Known, Extend, DraftsBehind
<1>1. Latest \in Nat /\ Latest \in 1..Latest
  BY DEF Typed, Latest
<1>2. CASE lock.pin # None
  <2>1. drafts.imports \subseteq Members(lock.pin)
    BY <1>1, <1>2, MembersGrow
  <2> QED BY <1>2, <2>1
<1>3. CASE lock.pin = None
  BY <1>1, <1>3
<1> QED BY <1>2, <1>3

----------------------------------------------------------------------------
(* The parent's steps.                                                     *)

\* A publet's versions are counted up along the parent's generations.
LEMMA ParentStaysGrowing ==
    ASSUME Typed, ParentGrows, NEW s \in Slug, ParentPublish(s)
    PROVE  Typed' /\ ParentGrows'
<1> DEFINE next == [parent[Latest] EXCEPT ![s] = @ + 1]
<1>1. /\ parent \in Seq([Slug -> Versions]) /\ Latest \in 1..MaxParent
      /\ Latest = Len(parent) /\ Latest < MaxParent
      /\ parent' = Append(parent, next)
  BY DEF Typed, ParentPublish, Latest
<1>2. parent[Latest] \in [Slug -> Versions] /\ parent[Latest][s] <= Latest
  BY <1>1 DEF ParentGrows
<1>3. next \in [Slug -> Versions]
  BY <1>1, <1>2, CorporaAssumption DEF Versions
<1>4. Latest' = Latest + 1 /\ parent' \in Seq([Slug -> Versions])
  BY <1>1, <1>3 DEF Latest
<1>5. Typed'
  BY <1>1, <1>4, CorporaAssumption DEF Typed, ParentPublish
<1>6. /\ \A g \in 1..Latest : parent'[g] = parent[g] 
      /\ parent'[Latest + 1] = next
  BY <1>1, <1>3 DEF Latest
<1>7. \A x \in Slug : parent[Latest][x] <= next[x] /\ next[x] <= Latest + 1
  BY <1>1, <1>2 DEF ParentGrows, Versions
<1>8. ASSUME NEW g \in 1..Latest', NEW x \in Slug
      PROVE  /\ parent'[g][x] <= g
             /\ \A h \in g..Latest' : parent'[g][x] <= parent'[h][x]
  <2>1. CASE g = Latest + 1
    BY <1>1, <1>3, <1>4, <1>6, <1>7, <2>1 DEF Versions
  <2>2. CASE g \in 1..Latest
    <3>1. parent[g] \in [Slug -> Versions] BY <1>1, <2>2
    <3>2. parent'[g][x] <= g BY <1>6, <2>2 DEF ParentGrows
    <3>3. ASSUME NEW h \in g..Latest PROVE parent'[g][x] <= parent'[h][x]
      BY <1>1, <1>6, <2>2, <3>3 DEF ParentGrows
    <3>4. parent'[g][x] <= parent'[Latest + 1][x]
      <4>1. parent[g][x] <= parent[Latest][x]
        BY <1>1, <2>2 DEF ParentGrows
      <4> QED BY <1>1, <1>2, <1>3, <1>6, <1>7, <2>2, <3>1, <4>1 DEF Versions
    <3> QED BY <1>1, <1>4, <3>2, <3>3, <3>4
  <2> QED BY <1>1, <1>4, <2>1, <2>2
<1> QED BY <1>5, <1>8 DEF ParentGrows

\* What is pinned stays pinned as the parent publishes.
LEMMA ParentSteps ==
    ASSUME CorporaInv, NEW s \in Slug, ParentPublish(s)
    PROVE  CorporaInv'
<1>1. Typed' /\ ParentGrows'
  BY ParentStaysGrowing DEF CorporaInv
<1>2. Latest \in Nat /\ Latest' = Latest + 1
  BY DEF CorporaInv, Typed, ParentPublish, Latest
<1>3. UNCHANGED <<cites, lock, drafts, objects, replaced, session, upgrading>>
  BY DEF ParentPublish
<1>4. \A pin, imports : Within(pin, imports) => Within(pin, imports)'
  BY <1>2, MembersKept DEF CorporaInv, Within
<1>5. Settled(lock.pin, lock.imports)' /\ Settled(drafts.pin, drafts.imports)'
  BY <1>3, <1>4 DEF CorporaInv, Settled
<1>6. DraftsBehind(lock.pin)'
  BY <1>3 DEF CorporaInv, DraftsBehind
<1>7. SessionHolds'
  BY <1>3, <1>4 DEF CorporaInv, SessionHolds, DraftsBehind
<1>8. UpgradeHolds'
  BY <1>3, <1>4 DEF CorporaInv, UpgradeHolds, DraftsBehind, Covers
<1> QED BY <1>1, <1>5, <1>6, <1>7, <1>8 DEF CorporaInv

----------------------------------------------------------------------------
(* The child's commands.                                                   *)

\* A step that leaves the parent alone leaves its generations alone.
LEMMA MembersStill ==
    ASSUME parent' = parent
    PROVE  /\ Latest' = Latest
           /\ \A pin, imports : Within(pin, imports)' <=> Within(pin, imports)
BY DEF Within, Members, Latest

\* A command opens with the pin and the resolutions it found, and with
\* what it resolved beside them.
LEMMA OpenSteps ==
    ASSUME CorporaInv, ~Beside, Build \/ Publish
    PROVE  CorporaInv'
<1>1. PICK phase \in {"build", "publish"} : Opened(phase)
  BY DEF Build, Publish
<1>2. /\ session = Idle /\ upgrading = Idle /\ Resolves
      /\ session' = [ phase |-> phase, pin |-> Pin, imports |-> Known \cup Fresh,
                      version |-> Version(Known \cup Fresh), base |-> lock ]
      /\ UNCHANGED <<parent, cites, edits, lock, drafts, objects, replaced, upgrading>>
  BY <1>1 DEF Opened, Builds
<1>3. Within(Pin, Known \cup Fresh)
  BY <1>2, KnownWithin DEF Resolves, Within
<1>4. Pin \in 1..MaxParent /\ Known \cup Fresh \in SUBSET Imported
  BY <1>3, CorporaAssumption DEF CorporaInv, Typed, Within, Members, Latest
<1>5. Version(Known \cup Fresh) \in Citing
  BY <1>4 DEF Version, Citing
<1>6. session' \in Sessions
  BY <1>1, <1>2, <1>4, <1>5 DEF CorporaInv, Typed, Sessions
<1>7. Typed' /\ ParentGrows'
  BY <1>2, <1>6 DEF CorporaInv, Typed, ParentGrows, Latest
<1>8. \A pin, imports : Within(pin, imports)' <=> Within(pin, imports)
  BY <1>2, MembersStill
<1>9. lock.imports \subseteq Known /\ lock.pin \in {None, Pin} /\ DraftsBehind(Pin)
  <2>1. Latest \in Nat /\ (drafts.pin # None => drafts.pin \in 1..Latest)
    BY DEF CorporaInv, Typed, Settled, Within
  <2> QED BY <2>1 DEF Known, Extend, Pin, CorporaInv, DraftsBehind
<1>10. SessionHolds'
  BY <1>1, <1>2, <1>3, <1>8, <1>9 DEF SessionHolds, DraftsBehind
<1>11. UpgradeHolds'
  BY <1>2 DEF UpgradeHolds
<1> QED BY <1>2, <1>7, <1>8, <1>10, <1>11 DEF CorporaInv, Settled, DraftsBehind

\* What a command resolved is its drafts' record.
LEMMA DraftSteps ==
    ASSUME CorporaInv, WriteDrafts
    PROVE  CorporaInv'
<1> USE CorporaAssumption
<1>1. session # Idle /\ session \in Sessions
  BY DEF WriteDrafts, CorporaInv, Typed, Idle
<1>2. /\ drafts' = [pin |-> session.pin, imports |-> session.imports]
      /\ session' = Idle
      /\ UNCHANGED <<parent, cites, edits, lock, objects, replaced, upgrading>>
  BY DEF WriteDrafts
<1>3. Typed' /\ ParentGrows'
  BY <1>1, <1>2 DEF CorporaInv, Typed, ParentGrows, Latest, Sessions, Pins
<1>4. \A pin, imports : Within(pin, imports)' <=> Within(pin, imports)
  BY <1>2, MembersStill
<1>5. Settled(drafts.pin, drafts.imports)' /\ Settled(lock.pin, lock.imports)'
  BY <1>1, <1>2, <1>4 DEF CorporaInv, SessionHolds, Settled
<1>6. DraftsBehind(lock.pin)'
  BY <1>1, <1>2 DEF CorporaInv, SessionHolds, DraftsBehind, Within
<1>7. SessionHolds' /\ UpgradeHolds'
  BY <1>1, <1>2 DEF CorporaInv, SessionHolds, UpgradeHolds
<1> QED BY <1>3, <1>5, <1>6, <1>7 DEF CorporaInv

\* What a publish records: the lock it read, with a later version and the
\* pin and resolutions it found there, and perhaps more.
LEMMA LockSteps ==
    ASSUME CorporaInv, WriteLock
    PROVE  /\ CorporaInv'
           /\ lock.pin # None => lock'.pin = lock.pin
           /\ lock.imports \subseteq lock'.imports
           /\ lock'.index >= lock.index
<1> USE CorporaAssumption
<1>1. session # Idle /\ session \in Sessions /\ session.base = lock
  BY DEF WriteLock, CorporaInv, Typed, Idle, SessionHolds
<1>2. /\ session' = [session EXCEPT !.phase = "published"]
      /\ objects' = objects \cup {session.version} \cup session.version.cites
      /\ UNCHANGED <<parent, cites, edits, drafts, upgrading>>
      /\ lock'.pin = session.pin /\ lock'.imports = session.imports
  BY DEF WriteLock
<1>3. lock'.index \in {lock.index, lock.index + 1}
  BY <1>1 DEF WriteLock
<1>4. /\ session.version \in Citing /\ session.version.cites \subseteq Imported
      /\ lock.index \in Nat
  BY <1>1 DEF Sessions, Citing, CorporaInv, Typed, Locks
<1>5. objects' \in SUBSET (Citing \cup Imported)
  BY <1>2, <1>4 DEF CorporaInv, Typed
<1>6. lock' \in Locks
  BY <1>1, <1>4, <1>5 DEF WriteLock, Locks, Sessions, Pins
<1>7. session' \in Sessions
  BY <1>1, <1>2 DEF Sessions
<1>8. Typed' /\ ParentGrows'
  BY <1>2, <1>5, <1>6, <1>7 DEF CorporaInv, Typed, ParentGrows, Latest
<1>9. \A pin, imports : Within(pin, imports)' <=> Within(pin, imports)
  BY <1>2, MembersStill
<1>10. session'.pin = session.pin /\ session'.imports = session.imports
       /\ session'.phase = "published"
  BY <1>1, <1>2 DEF Sessions
<1>11. Settled(drafts.pin, drafts.imports)' /\ Settled(lock.pin, lock.imports)'
  BY <1>1, <1>2, <1>9 DEF CorporaInv, SessionHolds, Settled
<1>12. SessionHolds'
  BY <1>1, <1>2, <1>9, <1>10 DEF CorporaInv, SessionHolds, DraftsBehind
<1>13. UpgradeHolds'
  BY <1>1, <1>2 DEF CorporaInv, SessionHolds, UpgradeHolds
<1>14. DraftsBehind(lock.pin)'
  BY <1>1, <1>2 DEF CorporaInv, SessionHolds, DraftsBehind
<1>15. (lock.pin # None => lock'.pin = lock.pin) /\ lock.imports \subseteq lock'.imports
  BY <1>1, <1>2 DEF CorporaInv, SessionHolds
<1> QED BY <1>3, <1>4, <1>8, <1>11, <1>12, <1>13, <1>14, <1>15 DEF CorporaInv

\* What an upgrade reads, moved to the parent's latest generation.
LEMMA UpgradeSteps ==
    ASSUME CorporaInv, ~Beside, Upgrade
    PROVE  CorporaInv'
<1> DEFINE moved == Extend(lock.imports, {i \in Slugs : i.slug \in Names(lock.imports)})
<1> USE CorporaAssumption
<1>1. /\ session = Idle /\ lock \in Locks
      /\ upgrading' = [phase |-> "upgrade",
                       lock |-> [lock EXCEPT !.pin = Latest, !.imports = moved]]
      /\ UNCHANGED <<parent, cites, edits, lock, drafts, objects, replaced, session>>
  BY DEF Upgrade, CorporaInv, Typed
<1>2. Latest \in 1..MaxParent /\ Latest \in 1..Latest
  BY DEF CorporaInv, Typed
<1>3. lock.imports \subseteq Members(Latest) /\ (lock.pin # None => lock.pin <= Latest)
  BY <1>2, MembersGrow DEF CorporaInv, Settled, Within
<1>4. Within(Latest, moved)
  BY <1>2, <1>3, SlugsAreMembers DEF Within, Extend, CorporaInv
<1>5. moved \in SUBSET Imported
  BY <1>4 DEF Within, Members
<1>6. upgrading'.lock = [lock EXCEPT !.pin = Latest, !.imports = moved]
      /\ upgrading'.lock \in Locks
  BY <1>1, <1>2, <1>5 DEF Locks, Pins
<1>7. Typed' /\ ParentGrows'
  BY <1>1, <1>6 DEF CorporaInv, Typed, ParentGrows, Latest
<1>8. ASSUME NEW i \in lock.imports
      PROVE  \E j \in moved : j.slug = i.slug /\ j.version >= i.version
  <2>1. PICK g \in 1..lock.pin : i \in Imported /\ parent[g][i.slug] = i.version
                                 /\ i.version # 0 /\ lock.pin \in 1..Latest
    BY DEF CorporaInv, Settled, Within, Members
  <2>2. i.slug \in Slug /\ i.version \in Versions
    BY <2>1 DEF Imported
  <2>3. i.version <= parent[Latest][i.slug] /\ parent[Latest][i.slug] \in Nat
    <3>1. g \in 1..Latest /\ Latest \in g..Latest
      BY <1>2, <2>1
    <3>2. parent[g][i.slug] <= parent[Latest][i.slug]
      BY <2>2, <3>1 DEF CorporaInv, ParentGrows
    <3>3. parent[Latest] \in [Slug -> Versions]
      BY <1>2 DEF CorporaInv, Typed, Latest
    <3> QED BY <2>1, <2>2, <3>2, <3>3 DEF Versions
  <2> DEFINE j == [slug |-> i.slug, version |-> parent[Latest][i.slug]]
  <2>4. j \in Slugs
    BY <2>1, <2>2, <2>3 DEF Slugs, Versions
  <2>5. j \in moved /\ j.slug = i.slug /\ j.version >= i.version
    BY <2>2, <2>3, <2>4 DEF Extend, Names, Versions
  <2> QED BY <2>5
<1>9. upgrading'.lock.pin = Latest /\ upgrading'.lock.imports = moved
      /\ upgrading'.lock.index = lock.index
  BY <1>1, <1>6 DEF Locks
<1>10. \A pin, imports : Within(pin, imports)' <=> Within(pin, imports)
  BY <1>1, MembersStill
<1>11. DraftsBehind(Latest)
  BY <1>2 DEF CorporaInv, DraftsBehind, Settled, Within
<1>12. UpgradeHolds'
  BY <1>1, <1>3, <1>4, <1>8, <1>9, <1>10, <1>11 DEF UpgradeHolds, Covers, DraftsBehind
<1>13. SessionHolds'
  BY <1>1 DEF SessionHolds
<1> QED BY <1>1, <1>7, <1>10, <1>12, <1>13 DEF CorporaInv, Settled, DraftsBehind

\* What an upgrade writes: a later pin, and no name at an earlier version.
LEMMA WriteUpgradeSteps ==
    ASSUME CorporaInv, WriteUpgrade
    PROVE  /\ CorporaInv'
           /\ lock.pin # None => lock'.pin # None /\ lock'.pin >= lock.pin
           /\ Covers(lock'.imports)
           /\ lock'.index = lock.index
<1> USE CorporaAssumption
<1>1. /\ upgrading # Idle /\ session = Idle
      /\ lock' = upgrading.lock /\ upgrading' = Idle
      /\ UNCHANGED <<parent, cites, edits, drafts, objects, replaced, session>>
  BY DEF WriteUpgrade, CorporaInv, UpgradeHolds
<1>2. lock' \in Locks /\ Within(lock'.pin, lock'.imports)
  BY <1>1 DEF CorporaInv, Typed, UpgradeHolds
<1>3. Typed' /\ ParentGrows'
  BY <1>1, <1>2 DEF CorporaInv, Typed, ParentGrows, Latest
<1>4. \A pin, imports : Within(pin, imports)' <=> Within(pin, imports)
  BY <1>1, MembersStill
<1>5. Settled(lock.pin, lock.imports)' /\ Settled(drafts.pin, drafts.imports)'
  BY <1>1, <1>2, <1>4 DEF CorporaInv, Settled
<1>6. DraftsBehind(lock.pin)' /\ SessionHolds' /\ UpgradeHolds'
  BY <1>1 DEF CorporaInv, UpgradeHolds, SessionHolds, DraftsBehind
<1>7. /\ lock.pin # None => lock'.pin # None /\ lock'.pin >= lock.pin
      /\ Covers(lock'.imports) /\ lock'.index = lock.index
  BY <1>1, <1>2 DEF CorporaInv, UpgradeHolds, Within, Settled
<1> QED BY <1>3, <1>5, <1>6, <1>7 DEF CorporaInv

\* Editing touches nothing a command recorded.
LEMMA StillSteps ==
    ASSUME CorporaInv, Edit \/ UNCHANGED vars
    PROVE  CorporaInv' /\ UNCHANGED lock
<1>1. UNCHANGED <<parent, lock, drafts, objects, session, upgrading>>
  BY DEF Edit, vars
<1>2. \A pin, imports : Within(pin, imports)' <=> Within(pin, imports)
  BY <1>1, MembersStill
<1> QED
  BY <1>1, <1>2 DEF CorporaInv, Typed, ParentGrows, Latest, Settled, DraftsBehind,
                    SessionHolds, UpgradeHolds, Covers

----------------------------------------------------------------------------
(* The theorems.                                                           *)

\* A corpus none of whose commands runs beside an upgrade: nothing is open
\* and nothing resolved at first.
LEMMA InitCorporaInv == Init => CorporaInv
<1> SUFFICES ASSUME Init PROVE CorporaInv
  OBVIOUS
<1> USE CorporaAssumption
<1>1. PICK s \in Slug : parent = <<[x \in Slug |-> IF x = s THEN 1 ELSE 0]>>
  BY DEF Init
<1>2. parent \in Seq([Slug -> Versions]) /\ Latest = 1
  BY <1>1 DEF Latest, Versions
<1>3. ParentGrows
  BY <1>1, <1>2 DEF ParentGrows
<1>4. Typed
  BY <1>2 DEF Init, Typed, Locks, Pins
<1> QED BY <1>3, <1>4 DEF Init, CorporaInv, Settled, DraftsBehind, SessionHolds, UpgradeHolds

\* What every step keeps, and what it leaves of the record.
LEMMA CorporaStep ==
    ASSUME CorporaInv, ~Beside, [Next]_vars
    PROVE  /\ CorporaInv'
           /\ lock.pin # None => lock'.pin # None /\ lock'.pin >= lock.pin
           /\ Covers(lock'.imports)
           /\ lock'.index >= lock.index
<1>0. /\ lock.index \in Nat /\ lock.imports \subseteq Imported
      /\ lock.pin # None => lock.pin \in Nat
  BY DEF CorporaInv, Typed, Locks, Pins
<1>1. Covers(lock.imports) /\ lock.index >= lock.index
      /\ (lock.pin # None => lock.pin >= lock.pin)
  BY <1>0 DEF Covers, Imported, Versions
<1>2. ASSUME NEW s \in Slug, ParentPublish(s) PROVE CorporaInv' /\ UNCHANGED lock
  BY <1>2, ParentSteps DEF ParentPublish
<1>3. CASE Edit \/ UNCHANGED vars
  BY <1>1, <1>3, StillSteps
<1>4. CASE Build \/ Publish
  <2>1. UNCHANGED lock BY <1>4 DEF Build, Publish, Opened
  <2> QED BY <1>1, <1>4, <2>1, OpenSteps
<1>5. CASE WriteDrafts
  <2>1. UNCHANGED lock BY <1>5 DEF WriteDrafts
  <2> QED BY <1>1, <1>5, <2>1, DraftSteps
<1>6. CASE WriteLock
  <2>1. /\ CorporaInv' /\ lock.imports \subseteq lock'.imports
        /\ lock.pin # None => lock'.pin = lock.pin
        /\ lock'.index >= lock.index
    BY <1>6, LockSteps
  <2>2. Covers(lock'.imports)
    BY <1>1, <2>1 DEF Covers
  <2> QED BY <1>1, <2>1, <2>2
<1>7. CASE Upgrade
  <2>1. UNCHANGED lock BY <1>7 DEF Upgrade
  <2> QED BY <1>1, <1>7, <2>1, UpgradeSteps
<1>8. CASE WriteUpgrade
  BY <1>0, <1>8, WriteUpgradeSteps
<1> QED BY <1>1, <1>2, <1>3, <1>4, <1>5, <1>6, <1>7, <1>8 DEF Next

\* CorporaInv is inductive, over the parent's publishing and the child's
\* edits, builds, publishes and upgrades.
THEOREM CorporaInvariance == ~Beside => (Spec => []CorporaInv)
<1> SUFFICES ASSUME ~Beside PROVE Spec => []CorporaInv
  OBVIOUS
<1>1. CorporaInv /\ [Next]_vars => CorporaInv'
  BY CorporaStep
<1> QED BY <1>1, InitCorporaInv, PTL DEF Spec

\* Whatever corpus.lock resolved is a member of the generation it pins, and
\* a corpus pinned to its parent's latest generation resolves whatever that
\* declares: Importer::resolve, write_drafts, publish and upgrade together.
THEOREM PinsSupply == ~Beside => (Spec => []PinSupplies)
<1> SUFFICES ASSUME ~Beside PROVE Spec => []PinSupplies
  OBVIOUS
<1>1. CorporaInv => ImportsWithinPin
  BY CorporaAssumption DEF CorporaInv, Settled, Within, ImportsWithinPin
<1>2. ASSUME CorporaInv PROVE UpgradeUnblocks
  <2> SUFFICES ASSUME lock.pin # None, lock.pin = Latest, cites \subseteq Names(Slugs)
               PROVE  Resolves
    BY DEF UpgradeUnblocks, UpToDate
  <2>1. cites \subseteq Names(Known) \cup Names(Fresh)
    BY DEF Fresh, Names
  <2>2. Fresh \subseteq Members(Pin)
    <3>1. Pin = Latest BY DEF Pin
    <3> QED BY <1>2, <3>1, SlugsAreMembers DEF CorporaInv, Fresh
  <2> QED BY <2>1, <2>2 DEF Resolves
<1>3. CorporaInv => PinSupplies
  BY <1>1, <1>2 DEF PinSupplies
<1> QED BY <1>3, CorporaInvariance, PTL

\* No command takes a recorded name back to an older version, the pin to an
\* older generation, or the index to an earlier one.
THEOREM RecordsStand == ~Beside => (Spec => RecordedStands)
<1> SUFFICES ASSUME ~Beside PROVE Spec => RecordedStands
  OBVIOUS
<1>1. CorporaInv /\ [Next]_vars
        => [/\ lock.pin # None => lock'.pin # None /\ lock'.pin >= lock.pin
            /\ \A i \in lock.imports : \E j \in lock'.imports :
                  j.slug = i.slug /\ j.version >= i.version]_vars
  BY CorporaStep DEF Covers
<1>2. CorporaInv /\ [Next]_vars => [lock'.index >= lock.index]_vars
  BY CorporaStep
<1> QED BY <1>1, <1>2, CorporaInvariance, PTL
        DEF Spec, RecordedStands, UpgradeStands, PublishStands

=============================================================================
