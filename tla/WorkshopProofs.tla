--------------------------- MODULE WorkshopProofs ----------------------------
(***************************************************************************)
(* Proofs about Workshop, for any number of publets, texts, tags, edits    *)
(* and crashes.                                                            *)
(*                                                                         *)
(* RecordedWhole is not inductive: that what the lock names is whole when  *)
(* the lock is written follows from what publish put in the store long     *)
(* before.  Inv follows a version from Publish, where it and its signature *)
(* are held or about to be and are not among the drafts held back, through *)
(* the export, to the advance, which reads every file back.                *)
(*                                                                         *)
(* Beside Inv, what the later theorems rest on: GenerationInv follows the  *)
(* generation from what publish exports to the record and the lock;        *)
(* RowsSound, that each row a publish will write continues the row there   *)
(* was, and ReadInv, that no command runs once the lock is lost, for the   *)
(* refinement of PublishedCorpus; TidyInv and ClosedInv, that every object *)
(* is a draft still held back or released, and what objects/ holds cites   *)
(* what it holds; TagInv, that a row's tag is there or on its way.  The    *)
(* last three ask for what their theorems ask for.                         *)
(***************************************************************************)
EXTENDS Workshop, Induction

\* A draft is never a signature.
NoSig(objects) == \A o \in objects : o.kind # "sig"

\* Each edge among the objects supersedes what the rows record for the slug.
Revises(objects, entries, s) ==
    \A e \in OfKind(objects, "supersedes") :
        entries[s] # None /\ e.to = entries[s].cid

\* A version is in objects/ with its signature and all it cites.
Whole(v) ==
    /\ {v, Sig(v)} \subseteq files
    /\ \A d \in DOMAIN v.deps : v.deps[d] \in files

LockRecorded ==
    \A s \in Slug : lock.entries[s] # None => lock.entries[s].cid \in recorded

DraftsUnsigned ==
    /\ NoSig(drafts)
    /\ session.phase = "draft" => NoSig(session.owned)
    /\ session.phase \in {"put", "genesis", "lock", "forget"}
          => NoSig(session.remaining)

\* A row publish will change names a version that will be exported.
Releasing(v) ==
    /\ v.kind = "version"
    /\ {v, Sig(v)} \subseteq store \cup session.puts
    /\ {v, Sig(v)} \cap session.unpublished = {}

PutsSound ==
    session.phase = "put" =>
        \A s \in Slug :
            \/ session.entries[s] = lock.entries[s]
            \/ Releasing(session.entries[s].cid)

PutsRevise ==
    session.phase \in {"draft", "put"} =>
        \A e \in OfKind(session.puts, "supersedes") : e.to \in recorded

\* Once the generation is advanced, what the lock is to name is whole.
AdvancedWhole ==
    session.phase \in {"genesis", "lock", "forget"} =>
        \A s \in Slug :
            session.entries[s] # None => Whole(session.entries[s].cid)

Inv ==
    /\ TypeOK
    /\ ExportedHeld
    /\ RecordedWhole
    /\ RevisesPublished
    /\ LockRecorded
    /\ DraftsUnsigned
    /\ PutsSound
    /\ PutsRevise
    /\ AdvancedWhole

----------------------------------------------------------------------------
(* What a build owns.                                                      *)

\* Build::node and Build::tag make versions, edges, tags and retractions,
\* never a signature.
LEMMA OwnedUnsigned ==
    ASSUME NEW sources, NEW entries, NEW graph, NEW tag, NEW s \in Slug
    PROVE  NoSig(Owned(sources, entries, graph, tag)[s])
BY DEF NoSig, Owned, NodeObjects, TagObjects, VersionOf, Version, Supersedes,
       Tagged, Retracts

\* Build::node supersedes only what the lock records for the same slug.
LEMMA OwnedRevises ==
    ASSUME NEW sources, NEW entries, NEW graph, NEW tag, NEW s \in Slug
    PROVE  Revises(Owned(sources, entries, graph, tag)[s], entries, s)
BY DEF Revises, OfKind, Owned, NodeObjects, TagObjects, VersionOf, Version, Supersedes,
       Tagged, Retracts, Prior

\* Build::node owns the new version of every node that changed.
LEMMA OwnedVersion ==
    ASSUME NEW sources, NEW entries, NEW graph, NEW tag,
           NEW s \in Changed(sources, entries)
    PROVE  /\ s \in Slug /\ sources[s] # None
           /\ VersionOf(sources, s) \in Owned(sources, entries, graph, tag)[s]
BY DEF Changed, Declared, Owned, NodeObjects

\* select chooses among the nodes that changed.
LEMMA SelectChanged ==
    ASSUME NEW changed, NEW named
    PROVE  Select(changed, named) \subseteq changed
BY DEF Select

----------------------------------------------------------------------------
(* Inv is inductive.                                                       *)

\* The workspace `pub init' leaves.
LEMMA InitInv == Init => Inv
<1> SUFFICES ASSUME Init PROVE Inv
  OBVIOUS
<1>1. TypeOK
  BY WorkshopAssumption DEF Init, NoLock, TypeOK, SessionOK, Idle
<1>2. ExportedHeld /\ RecordedWhole /\ RevisesPublished /\ LockRecorded
  BY DEF Init, NoLock, ExportedHeld, RecordedWhole, RevisesPublished, LockRecorded, OfKind
<1>3. DraftsUnsigned /\ PutsSound /\ PutsRevise /\ AdvancedWhole
  BY DEF Init, Idle, DraftsUnsigned, NoSig, PutsSound, PutsRevise, AdvancedWhole
<1> QED BY <1>1, <1>2, <1>3 DEF Inv

\* An edit touches only the sources.
LEMMA EditInv ==
    ASSUME Inv, NEW s \in Slug, Edit(s)
    PROVE  Inv'
<1> USE DEF Inv, Edit, disk, history
<1>1. TypeOK'
  BY WorkshopAssumption DEF TypeOK, SessionOK, Source, Idle
<1>2. (ExportedHeld /\ RecordedWhole /\ RevisesPublished /\ LockRecorded)'
  BY DEF ExportedHeld, RecordedWhole, RevisesPublished, LockRecorded
<1>3. (DraftsUnsigned /\ PutsSound /\ PutsRevise /\ AdvancedWhole)'
  BY DEF Idle, DraftsUnsigned, NoSig, PutsSound, PutsRevise, AdvancedWhole
<1> QED BY <1>1, <1>2, <1>3

\* pub build starts: it owns drafts, none of them a signature, and revises
\* only what the lock records.
LEMMA BuildInv ==
    ASSUME Inv, Build
    PROVE  Inv'
<1> USE DEF Inv, Build, disk, budget, history
<1>1. TypeOK'
  BY DEF TypeOK, SessionOK
<1>2. (ExportedHeld /\ RecordedWhole /\ RevisesPublished /\ LockRecorded)'
  BY DEF ExportedHeld, RecordedWhole, RevisesPublished, LockRecorded
<1>3. NoSig(Drafted)
  <2>1. \A s \in Slug : NoSig(Owned(src, lock.entries, store, FALSE)[s])
    BY OwnedUnsigned, Zenon
  <2> QED BY <2>1 DEF Drafted, NoSig
<1>4. \A e \in OfKind(Drafted \ store, "supersedes") : e.to \in recorded
  <2> SUFFICES ASSUME NEW e \in OfKind(Drafted \ store, "supersedes")
               PROVE  e.to \in recorded
    OBVIOUS
  <2>1. PICK s \in Slug : e \in Owned(src, lock.entries, store, FALSE)[s]
    BY DEF Drafted, OfKind
  <2>2. Revises(Owned(src, lock.entries, store, FALSE)[s], lock.entries, s)
    BY OwnedRevises, Zenon
  <2> QED BY <2>1, <2>2 DEF Revises, LockRecorded, OfKind
<1>5. (DraftsUnsigned /\ PutsSound /\ PutsRevise /\ AdvancedWhole)'
  BY <1>3, <1>4 DEF DraftsUnsigned, NoSig, PutsSound, PutsRevise, AdvancedWhole
<1> QED BY <1>1, <1>2, <1>5

\* Store::put moves objects from those pending to those held.
LEMMA PutInv ==
    ASSUME Inv, Put
    PROVE  Inv'
<1> USE DEF Inv, Put, budget, history
<1>1. First(session.puts) \subseteq session.puts
  BY DEF First
<1>2. TypeOK'
  BY DEF TypeOK, SessionOK, Idle
<1>3. session'.phase = session.phase /\ session'.puts \subseteq session.puts
  BY DEF TypeOK, SessionOK, Idle
<1>4. (ExportedHeld /\ RecordedWhole /\ LockRecorded)'
  BY DEF ExportedHeld, RecordedWhole, LockRecorded
<1>5. RevisesPublished'
  BY <1>1 DEF RevisesPublished, PutsRevise, OfKind
<1>6. DraftsUnsigned'
  BY <1>3 DEF TypeOK, SessionOK, Idle, DraftsUnsigned, NoSig
<1>7. PutsSound'
  BY <1>1, <1>3 DEF TypeOK, SessionOK, Idle, PutsSound, Releasing
<1>8. (PutsRevise /\ AdvancedWhole)'
  BY <1>3 DEF PutsRevise, OfKind, AdvancedWhole
<1> QED BY <1>2, <1>4, <1>5, <1>6, <1>7, <1>8

\* pub build drops stale drafts, none of which is in objects/.
LEMMA RemoveStaleInv ==
    ASSUME Inv, RemoveStale
    PROVE  Inv'
<1> USE DEF Inv, RemoveStale, budget, history
<1>1. TypeOK'
  BY DEF TypeOK, SessionOK, Idle
<1>2. (ExportedHeld /\ RecordedWhole /\ RevisesPublished /\ LockRecorded)'
  BY DEF ExportedHeld, RecordedWhole, RevisesPublished, LockRecorded, Stale, OfKind
<1>3. (DraftsUnsigned /\ PutsSound /\ PutsRevise /\ AdvancedWhole)'
  BY DEF DraftsUnsigned, NoSig, PutsSound, PutsRevise, AdvancedWhole
<1> QED BY <1>1, <1>2, <1>3

\* pub build ends with drafts.json naming what it owns.
LEMMA WriteDraftsInv ==
    ASSUME Inv, WriteDrafts
    PROVE  Inv'
<1> USE DEF Inv, WriteDrafts, budget, history
<1>1. TypeOK'
  BY DEF TypeOK, SessionOK, Idle
<1>2. (ExportedHeld /\ RecordedWhole /\ RevisesPublished /\ LockRecorded)'
  BY DEF ExportedHeld, RecordedWhole, RevisesPublished, LockRecorded
<1>3. (DraftsUnsigned /\ PutsSound /\ PutsRevise /\ AdvancedWhole)'
  BY DEF Idle, DraftsUnsigned, NoSig, PutsSound, PutsRevise, AdvancedWhole
<1> QED BY <1>1, <1>2, <1>3

\* pub publish starts: a row it will change names a version it releases with
\* a signature, neither of them held back as a draft.
LEMMA PublishInv ==
    ASSUME Inv, NEW named \in SUBSET Slug, Publish(named)
    PROVE  Inv'
<1> DEFINE owned    == Owned(src, lock.entries, store, TRUE)
           built    == UNION {owned[s] : s \in Slug}
           selected == Select(Changed(src, lock.entries), named)
           chosen   == UNION {owned[s] : s \in selected}
           release  == chosen \cup Signatures(chosen)
<1>1. /\ session' =
            [ phase       |-> "put",
              puts        |-> (built \ store) \cup Signatures(chosen),
              release     |-> release,
              unpublished |-> (drafts \cup built) \ release,
              remaining   |-> built \ release,
              entries     |-> PublishedRows(selected),
              gen         |-> None ]
      /\ UNCHANGED <<src, store, drafts, lock, files, records, torn, edits,
                     crashes, recorded>>
  BY DEF Publish, disk, budget
<1>2. selected \subseteq Changed(src, lock.entries) /\ selected \subseteq Slug
  BY SelectChanged, OwnedVersion, Zenon DEF Changed, Declared
<1>3. chosen \subseteq built
  BY <1>2
<1>4. NoSig(built)
  <2>1. \A s \in Slug : NoSig(owned[s])
    BY OwnedUnsigned, Zenon
  <2> QED BY <2>1 DEF NoSig
<1>5. \A s \in selected : VersionOf(src, s) \in owned[s]
  BY <1>2, OwnedVersion, Zenon
<1> HIDE DEF owned, built, selected, chosen
<1>6. TypeOK'
  BY <1>1 DEF Inv, TypeOK, SessionOK, PublishedRows
<1>7. (ExportedHeld /\ RecordedWhole /\ RevisesPublished /\ LockRecorded)'
  BY <1>1 DEF Inv, ExportedHeld, RecordedWhole, RevisesPublished, LockRecorded
<1>8. (DraftsUnsigned /\ AdvancedWhole)'
  BY <1>1, <1>4 DEF Inv, DraftsUnsigned, NoSig, AdvancedWhole
<1>9. PutsSound'
  <2> SUFFICES ASSUME NEW s \in Slug, s \in selected
               PROVE  Releasing(session.entries[s].cid)'
    BY <1>1 DEF PutsSound, PublishedRows
  <2> DEFINE v == VersionOf(src, s)
  <2>1. session'.entries[s].cid = v
    BY <1>1, <1>2 DEF PublishedRows, Rows, Changed, Declared
  <2>2. v.kind = "version" /\ Sig(v).kind = "sig"
    BY DEF VersionOf, Version, Sig
  <2>3. v \in chosen
    BY <1>5 DEF chosen
  <2> HIDE DEF v
  <2>4. Sig(v) \in store \cup Signatures(chosen)
    BY <2>3 DEF Signatures
  <2>5. v \in store' \cup session'.puts /\ Sig(v) \in store' \cup session'.puts
    BY <1>1, <1>3, <2>3, <2>4
  <2>6. v \notin session'.unpublished
    BY <1>1, <2>3
  <2>7. Sig(v) \notin session'.unpublished
    BY <1>1, <1>4, <2>2 DEF Inv, DraftsUnsigned, NoSig
  <2> QED BY <2>1, <2>2, <2>5, <2>6, <2>7 DEF Releasing, Sig
<1>10. PutsRevise'
  <2> SUFFICES ASSUME NEW e \in session'.puts, e.kind = "supersedes"
               PROVE  e.to \in recorded
    BY <1>1 DEF PutsRevise, OfKind
  <2>1. e \in built
    <3>1. \A o : Sig(o).kind = "sig"
      BY DEF Sig
    <3> QED BY <1>1, <3>1 DEF Signatures
  <2>2. PICK s \in Slug : e \in owned[s]
    BY <2>1 DEF built
  <2>3. Revises(owned[s], lock.entries, s)
    BY OwnedRevises, Zenon DEF owned
  <2> QED BY <2>2, <2>3 DEF Revises, Inv, LockRecorded, OfKind
<1> QED BY <1>6, <1>7, <1>8, <1>9, <1>10 DEF Inv

\* export writes files of objects the store holds.
LEMMA ExportInv ==
    ASSUME Inv, Export
    PROVE  Inv'
<1> USE DEF Inv, Export, budget, history
<1>1. TypeOK'
  BY DEF TypeOK, SessionOK, Idle
<1>2. (ExportedHeld /\ RecordedWhole /\ RevisesPublished /\ LockRecorded)'
  BY DEF ExportedHeld, RecordedWhole, RevisesPublished, LockRecorded, ToExport
<1>3. (DraftsUnsigned /\ PutsSound /\ PutsRevise /\ AdvancedWhole)'
  BY DEF DraftsUnsigned, NoSig, PutsSound, Releasing, PutsRevise, AdvancedWhole
<1> QED BY <1>1, <1>2, <1>3

\* When advance accepts what it read back, every row to be recorded names a
\* version that is whole.
LEMMA AcceptedWhole ==
    ASSUME Inv, Advancing, AdvanceAccepts,
           NEW s \in Slug, session.entries[s] # None
    PROVE  Whole(session.entries[s].cid)
<1>1. CASE session.entries[s] = lock.entries[s]
  BY <1>1 DEF Inv, LockRecorded, RecordedWhole, Whole
<1>2. CASE Releasing(session.entries[s].cid)
  <2> DEFINE v == session.entries[s].cid
  <2>1. v \in files /\ Sig(v) \in files
    BY <1>2 DEF Releasing, Advancing, AdvanceAccepts, ToExport
  <2>2. v.kind = "version"
    BY <1>2 DEF Releasing
  <2> QED BY <2>1, <2>2 DEF AdvanceAccepts, DependsClosed, OfKind, Whole
<1> QED BY <1>1, <1>2 DEF Inv, Advancing, PutsSound

\* advance: refused, nothing changes; accepted, the session keeps its rows.
LEMMA AdvanceInv ==
    ASSUME Inv, AdvanceRefused \/ AdvanceUnchanged \/ AdvanceNext
                \/ AdvanceManifest \/ AdvanceGenesis
    PROVE  Inv'
<1>1. /\ UNCHANGED <<src, store, drafts, lock, files, torn, edits, crashes,
                     released, recorded>>
      /\ \/ session' = Idle
         \/ /\ session.phase \in {"put", "genesis"}
            /\ session.phase = "put" => Advancing /\ AdvanceAccepts
            /\ \E p \in {"genesis", "lock"} : \E g :
                  session' = [session EXCEPT !.phase = p, !.gen = g]
  <2>1. CASE AdvanceRefused
    BY <2>1 DEF AdvanceRefused, disk, budget, history
  <2>2. CASE AdvanceUnchanged
    BY <2>2 DEF AdvanceUnchanged, Advancing, disk, budget, history
  <2>3. CASE AdvanceNext
    BY <2>3 DEF AdvanceNext, Advancing, budget, history
  <2>4. CASE AdvanceManifest
    BY <2>4 DEF AdvanceManifest, Advancing, budget, history
  <2>5. CASE AdvanceGenesis
    <3>1. session' = [session EXCEPT !.phase = "lock", !.gen = session.gen]
      BY <2>5 DEF AdvanceGenesis, Inv, TypeOK, SessionOK, Idle
    <3> QED BY <2>5, <3>1 DEF AdvanceGenesis, budget, history
  <2> QED BY <2>1, <2>2, <2>3, <2>4, <2>5
<1>2. CASE session' = Idle
  <2>1. TypeOK'
    BY <1>1, <1>2 DEF Inv, TypeOK, SessionOK
  <2>2. (ExportedHeld /\ RecordedWhole /\ RevisesPublished /\ LockRecorded)'
    BY <1>1 DEF Inv, ExportedHeld, RecordedWhole, RevisesPublished, LockRecorded
  <2>3. (DraftsUnsigned /\ PutsSound /\ PutsRevise /\ AdvancedWhole)'
    BY <1>1, <1>2 DEF Inv, Idle, DraftsUnsigned, NoSig, PutsSound, PutsRevise,
                     AdvancedWhole
  <2> QED BY <2>1, <2>2, <2>3 DEF Inv
<1>3. CASE session' # Idle
  <2>0. PICK p \in {"genesis", "lock"} :
            \E g : session' = [session EXCEPT !.phase = p, !.gen = g]
    BY <1>1, <1>3
  <2>1. PICK g : session' = [session EXCEPT !.phase = p, !.gen = g]
    BY <2>0
  <2>2. /\ session'.phase = p
        /\ session'.entries = session.entries
        /\ session'.remaining = session.remaining
        /\ TypeOK'
    <3>0. session.phase \in {"put", "genesis"}
      BY <1>1, <1>3
    <3>1. PICK h, k, r, u, m, e, o :
            session = [phase |-> h, puts |-> k, release |-> r, unpublished |-> u,
                       remaining |-> m, entries |-> e, gen |-> o]
      BY <3>0 DEF Inv, TypeOK, SessionOK, Idle
    <3>2. session' = [phase |-> p, puts |-> k, release |-> r, unpublished |-> u,
                      remaining |-> m, entries |-> e, gen |-> g]
      BY <2>1, <3>1
    <3>3. /\ session.release \cap session.unpublished = {}
          /\ DOMAIN session.entries = Slug
      BY <3>0 DEF Inv, TypeOK, SessionOK, Idle
    <3> QED BY <1>1, <3>1, <3>2, <3>3 DEF Inv, TypeOK, SessionOK
  <2>3. (ExportedHeld /\ RecordedWhole /\ RevisesPublished /\ LockRecorded)'
    BY <1>1 DEF Inv, ExportedHeld, RecordedWhole, RevisesPublished, LockRecorded
  <2>4. (DraftsUnsigned /\ PutsSound /\ PutsRevise)'
    BY <1>1, <1>3, <2>2 DEF Inv, DraftsUnsigned, NoSig, PutsSound, PutsRevise
  <2>5. AdvancedWhole'
    <3> SUFFICES ASSUME NEW s \in Slug, session.entries[s] # None
                 PROVE  Whole(session.entries[s].cid)
      BY <1>1, <2>2 DEF AdvancedWhole, Whole
    <3>1. CASE session.phase = "put"
      BY <1>1, <1>3, <3>1, AcceptedWhole
    <3>2. CASE session.phase = "genesis"
      BY <3>2 DEF Inv, AdvancedWhole
    <3> QED BY <1>1, <1>3, <3>1, <3>2
  <2> QED BY <2>2, <2>3, <2>4, <2>5 DEF Inv
<1> QED BY <1>2, <1>3

\* Lock::write: what the lock names from now on is whole.
LEMMA WriteLockInv ==
    ASSUME Inv, WriteLock
    PROVE  Inv'
<1> USE DEF Inv, WriteLock, budget
<1>1. /\ session'.phase = "forget"
      /\ session'.entries = session.entries
      /\ session'.remaining = session.remaining
      /\ TypeOK'
  BY DEF TypeOK, SessionOK, Idle
<1>2. RecordedWhole'
  BY DEF RecordedWhole, AdvancedWhole, Whole
<1>3. (ExportedHeld /\ RevisesPublished /\ LockRecorded)'
  BY DEF ExportedHeld, RevisesPublished, LockRecorded, OfKind
<1>4. (DraftsUnsigned /\ PutsSound /\ PutsRevise /\ AdvancedWhole)'
  BY <1>1 DEF DraftsUnsigned, NoSig, PutsSound, PutsRevise, AdvancedWhole, Whole
<1> QED BY <1>1, <1>2, <1>3, <1>4

\* pub publish ends with drafts.json naming what it did not release.
LEMMA ForgetPublishedInv ==
    ASSUME Inv, ForgetPublished
    PROVE  Inv'
<1> USE DEF Inv, ForgetPublished, budget, history
<1>1. TypeOK'
  BY DEF TypeOK, SessionOK, Idle
<1>2. (ExportedHeld /\ RecordedWhole /\ RevisesPublished /\ LockRecorded)'
  BY DEF ExportedHeld, RecordedWhole, RevisesPublished, LockRecorded
<1>3. (DraftsUnsigned /\ PutsSound /\ PutsRevise /\ AdvancedWhole)'
  BY DEF Idle, DraftsUnsigned, NoSig, PutsSound, PutsRevise, AdvancedWhole
<1> QED BY <1>1, <1>2, <1>3

\* The process dies: whatever the store and objects/ are left with, they
\* hold no object they would not have held, and lose none that was exported.
LEMMA CrashInv ==
    ASSUME Inv, CrashPutting \/ CrashRemoving \/ CrashExporting \/ CrashWriting
    PROVE  Inv'
<1>1. /\ UNCHANGED <<src, edits, recorded>>
      /\ lock' \in {lock, NoLock} /\ drafts' \in {drafts, {}}
      /\ session' = Idle
      /\ crashes < MaxCrashes /\ crashes' = crashes + 1
      /\ files \subseteq files' /\ files' \subseteq store'
      /\ \A e \in OfKind(store', "supersedes") : e.to \in recorded
  <2>1. CASE CrashPutting
    BY <2>1 DEF Die, history, CrashPutting, First, Inv, ExportedHeld, RevisesPublished, PutsRevise,
                OfKind
  <2>2. CASE CrashRemoving
    BY <2>2 DEF Die, history, CrashRemoving, Stale, Inv, ExportedHeld, RevisesPublished, OfKind
  <2>3. CASE CrashExporting
    BY <2>3 DEF Die, history, CrashExporting, ToExport, Inv, ExportedHeld, RevisesPublished
  <2>4. CASE CrashWriting
    BY <2>4 DEF Die, history, CrashWriting, Truncated, Inv, ExportedHeld, RevisesPublished
  <2> QED BY <2>1, <2>2, <2>3, <2>4
<1>2. TypeOK'
  BY <1>1, WorkshopAssumption DEF Inv, TypeOK, SessionOK, NoLock
<1>3. (ExportedHeld /\ RecordedWhole /\ RevisesPublished /\ LockRecorded)'
  BY <1>1 DEF Inv, ExportedHeld, RecordedWhole, RevisesPublished, LockRecorded, NoLock
<1>4. (DraftsUnsigned /\ PutsSound /\ PutsRevise /\ AdvancedWhole)'
  BY <1>1 DEF Inv, Idle, DraftsUnsigned, NoSig, PutsSound, PutsRevise, AdvancedWhole
<1> QED BY <1>2, <1>3, <1>4 DEF Inv

\* Nothing happens.
LEMMA StutterInv ==
    ASSUME Inv, UNCHANGED vars
    PROVE  Inv'
BY DEF vars, Inv, TypeOK, SessionOK, Idle, ExportedHeld, RecordedWhole,
       RevisesPublished, LockRecorded, DraftsUnsigned, NoSig, PutsSound, Releasing,
       PutsRevise, AdvancedWhole, Whole

\* Inv holds in every state the workspace can be in.
THEOREM Invariance == Spec => []Inv
<1>1. Inv /\ [Next]_vars => Inv'
  BY EditInv, BuildInv, PutInv, RemoveStaleInv, WriteDraftsInv, PublishInv, ExportInv,
     AdvanceInv, WriteLockInv, ForgetPublishedInv, CrashInv, StutterInv
     DEF Next, Command
<1> QED BY InitInv, <1>1, PTL DEF Spec

\* The state keeps its shape, whatever commands run and wherever they die.
THEOREM TypeCorrect == Spec => []TypeOK
BY Invariance, PTL DEF Inv

\* Every version corpus.lock has ever named is in objects/, signed, with all
\* it cites, whatever the order of edits, builds and publishes and wherever
\* any of them died.
THEOREM LockWhole == Spec => []RecordedWhole
BY Invariance, PTL DEF Inv

\* No build ever drops from the store an object that is in objects/.
THEOREM NeverDropsExported == Spec => []ExportedHeld
BY Invariance, PTL DEF Inv

\* No draft, kept or dropped, supersedes another draft.
THEOREM DraftsRevisePublished == Spec => []RevisesPublished
BY Invariance, PTL DEF Inv

----------------------------------------------------------------------------
(* Generations.                                                            *)

\* The records a generation rests on, as far as so many steps back.
Behind(chain, n, gen) ==
    /\ chain[0] = {gen}
    /\ \A i \in 1..n :
          chain[i] = chain[i-1] \cup ({r.parent : r \in chain[i-1]} \ {None})

AddedBy(chain) == UNION {r.added : r \in chain}

\* membership follows the chain back, one record at a time.
LEMMA MembershipBehind ==
    ASSUME NEW gen, gen.index \in Nat
    PROVE  \E c : Behind(c, gen.index, gen)
                  /\ Membership(gen) = AddedBy(c[gen.index])
<1> DEFINE body(f, n) == [i \in 0..n |->
                            IF i = 0 THEN {gen}
                            ELSE f[i-1] \cup ({r.parent : r \in f[i-1]} \ {None})]
           P == {n \in Nat : \E f : f = body(f, n)}
<1>1. 0 \in P
  <2>1. [i \in 0..0 |-> {gen}] = body([i \in 0..0 |-> {gen}], 0)
    OBVIOUS
  <2> QED BY <2>1
<1>2. ASSUME NEW n \in Nat, n \in P PROVE n + 1 \in P
  <2>1. PICK f : f = body(f, n)
    BY <1>2
  <2> DEFINE g == [i \in 0..(n+1) |->
                     IF i = n + 1 THEN f[n] \cup ({r.parent : r \in f[n]} \ {None}) ELSE f[i]]
  <2>2. \A i \in 0..(n+1) : i # n + 1 => i \in 0..n /\ (i # 0 => i - 1 \in 0..n)
    OBVIOUS
  <2>3. n \in 0..n /\ n \in 0..(n+1) /\ n # n + 1 /\ (n + 1) - 1 = n /\ 0 \in 0..n
    OBVIOUS
  <2>4. \A i \in 0..n : f[i] = IF i = 0 THEN {gen}
                               ELSE f[i-1] \cup ({r.parent : r \in f[i-1]} \ {None})
    BY <2>1
  <2>5. \A i \in 0..n : g[i] = f[i]
    OBVIOUS
  <2>6. g[n+1] = f[n] \cup ({r.parent : r \in f[n]} \ {None})
    OBVIOUS
  <2>7. DOMAIN g = 0..(n+1) /\ g = [i \in 0..(n+1) |-> g[i]]
    OBVIOUS
  <2> HIDE DEF g
  <2>8. \A i \in 0..(n+1) : g[i] = IF i = 0 THEN {gen}
                                   ELSE g[i-1] \cup ({r.parent : r \in g[i-1]} \ {None})
    BY <2>2, <2>3, <2>4, <2>5, <2>6
  <2>9. g = body(g, n + 1)
    BY <2>7, <2>8
  <2>10. n + 1 \in Nat /\ \E h : h = body(h, n + 1)
    BY <2>9
  <2> HIDE DEF body
  <2> QED BY <2>10
<1> HIDE DEF P
<1>3. gen.index \in P
  BY <1>1, <1>2, InductionSet
<1> DEFINE c == CHOOSE f : f = body(f, gen.index)
<1>4. c = body(c, gen.index)
  BY <1>3 DEF P
<1>5. Membership(gen) = AddedBy(c[gen.index])
  BY DEF Membership, AddedBy
<1> HIDE DEF c
<1>6. Behind(c, gen.index, gen)
  <2>1. \A i \in 0..gen.index : c[i] = IF i = 0 THEN {gen}
                                       ELSE c[i-1] \cup ({r.parent : r \in c[i-1]} \ {None})
    BY <1>4
  <2>2. 0 \in 0..gen.index /\ \A i \in 1..gen.index : i \in 0..gen.index /\ i # 0
    OBVIOUS
  <2> QED BY <2>1, <2>2 DEF Behind
<1> QED BY <1>5, <1>6

\* What is added along a chain with one record more.
LEMMA AddedAlong ==
    ASSUME NEW chain, NEW next
    PROVE  AddedBy(chain \cup {next}) = AddedBy(chain) \cup next.added
<1>1. \A m, S : m \in AddedBy(S) <=> \E r \in S : m \in r.added
  BY Zenon DEF AddedBy
<1>2. \A m : m \in AddedBy(chain \cup {next}) <=> m \in AddedBy(chain) \cup next.added
  BY <1>1
<1> QED BY <1>2

\* A generation's members are those of the one before and what it adds.
LEMMA MembershipNext ==
    ASSUME NEW gen, gen.index \in Nat, gen # None, NEW members, NEW added, NEW t
    PROVE  Membership(NextGeneration(gen, members, added, t)) = Membership(gen) \cup added
<1> DEFINE next == NextGeneration(gen, members, added, t)
           k == gen.index
<1>1. next.index = k + 1 /\ next.parent = gen /\ next.added = added
  BY DEF NextGeneration
<1> HIDE DEF next
<1>2. PICK c : Behind(c, k, gen) /\ Membership(gen) = AddedBy(c[k])
  BY MembershipBehind
<1>3. PICK d : Behind(d, k + 1, next) /\ Membership(next) = AddedBy(d[k + 1])
  BY <1>1, MembershipBehind
<1> DEFINE P == {n \in Nat : n <= k => gen \in c[n] /\ d[n+1] = c[n] \cup {next}}
<1>4. 0 \in P
  <2>1. d[1] = d[0] \cup ({r.parent : r \in d[0]} \ {None}) /\ d[0] = {next}
    <3>1. 1 \in 1..(k + 1) /\ 1 - 1 = 0
      OBVIOUS
    <3> QED BY <1>3, <3>1 DEF Behind
  <2>2. d[1] = {next, gen} /\ c[0] = {gen}
    BY <1>1, <1>2, <2>1 DEF Behind
  <2> QED BY <2>2
<1>5. ASSUME NEW n \in Nat, n \in P PROVE n + 1 \in P
  <2> SUFFICES ASSUME n + 1 <= k
               PROVE  gen \in c[n+1] /\ d[(n+1)+1] = c[n+1] \cup {next}
    OBVIOUS
  <2>1. n <= k /\ n + 1 \in 1..k /\ (n+1) - 1 = n /\ (n+1) + 1 \in 1..(k+1)
        /\ ((n+1) + 1) - 1 = n + 1
    OBVIOUS
  <2>2. gen \in c[n] /\ d[n+1] = c[n] \cup {next}
    BY <1>5, <2>1
  <2>3. c[n+1] = c[n] \cup ({r.parent : r \in c[n]} \ {None})
    BY <1>2, <2>1 DEF Behind
  <2>4. d[(n+1)+1] = d[n+1] \cup ({r.parent : r \in d[n+1]} \ {None})
    BY <1>3, <2>1 DEF Behind
  <2>5. {r.parent : r \in d[n+1]} = {r.parent : r \in c[n]} \cup {gen}
    BY <1>1, <2>2
  <2> QED BY <2>2, <2>3, <2>4, <2>5
<1> HIDE DEF P
<1>6. k \in P
  BY <1>4, <1>5, InductionSet
<1>7. d[k+1] = c[k] \cup {next}
  BY <1>6 DEF P
<1>8. AddedBy(d[k + 1]) = AddedBy(c[k]) \cup added
  BY <1>1, <1>7, AddedAlong
<1>9. Membership(next) = Membership(gen) \cup added
  BY <1>2, <1>3, <1>8
<1> QED BY <1>9 DEF next

\* The first generation's members are what it adds.
LEMMA MembershipGenesis ==
    ASSUME NEW domain, NEW members, NEW t
    PROVE  Membership(Genesis(domain, members, t)) = members
<1> DEFINE gen == Genesis(domain, members, t)
<1>1. gen.index = 0 /\ gen.added = members
  BY DEF Genesis
<1>2. PICK c : Behind(c, gen.index, gen) /\ Membership(gen) = AddedBy(c[gen.index])
  BY <1>1, MembershipBehind
<1>3. c[gen.index] = {} \cup {gen}
  BY <1>1, <1>2 DEF Behind
<1>4. AddedBy({}) = {}
  BY DEF AddedBy
<1>5. AddedBy(c[gen.index]) = AddedBy({}) \cup gen.added
  BY <1>3, AddedAlong
<1>6. Membership(gen) = members
  BY <1>1, <1>2, <1>4, <1>5
<1> QED BY <1>6


IsGeneration(gen) ==
    gen = [ kind |-> "generation", domain |-> gen.domain, index |-> gen.index,
            parent |-> gen.parent, snapshot |-> gen.snapshot, added |-> gen.added,
            created |-> gen.created ]

\* A generation's chain says what its snapshot says, and its members are
\* in objects/.
SoundGeneration(gen) ==
    /\ IsGeneration(gen) /\ gen.index \in Nat
    /\ Membership(gen) = gen.snapshot
    /\ gen.snapshot \subseteq files

\* The generation about to be recorded is the first, the one the lock names,
\* where nothing is new, or the one after it.
NextSound ==
    /\ session.phase = "genesis" => lock.gen = None
    /\ session.phase = "lock" =>
          /\ session.gen \in records
          /\ lock.gen # None =>
                \/ session.gen = lock.gen
                \/ /\ session.gen.index = lock.gen.index + 1
                   /\ session.gen.snapshot # lock.gen.snapshot
    /\ session.phase \in {"genesis", "lock"} =>
          /\ SoundGeneration(session.gen)
          /\ session.gen.snapshot = files
          /\ lock.gen = None => session.gen.index = 0

GenerationInv ==
    /\ lock.gen # None => SoundGeneration(lock.gen) /\ lock.gen \in records
    /\ NextSound

\* A step that records nothing leaves the generation the lock names sound.
LEMMA GenerationStays ==
    ASSUME GenerationInv, UNCHANGED lock, files \subseteq files',
           lock.gen # None => lock.gen \in records',
           session'.phase \notin {"genesis", "lock"}
    PROVE  GenerationInv'
BY DEF GenerationInv, NextSound, SoundGeneration

\* The advance records what it read back.
LEMMA GenerationAdvance ==
    ASSUME Inv, GenerationInv,
           AdvanceUnchanged \/ AdvanceNext \/ AdvanceManifest \/ AdvanceGenesis
    PROVE  GenerationInv'
<1>1. /\ session.phase \in {"put", "genesis"}
      /\ session = [ phase |-> session.phase, puts |-> session.puts,
                     release |-> session.release, unpublished |-> session.unpublished,
                     remaining |-> session.remaining, entries |-> session.entries,
                     gen |-> session.gen ]
  <2>1. session.phase \in {"put", "genesis"}
    BY DEF AdvanceUnchanged, AdvanceNext, AdvanceManifest, AdvanceGenesis, Advancing
  <2>2. session # Idle /\ session.phase # "draft"
    BY <2>1 DEF Idle
  <2> QED BY <2>1, <2>2 DEF Inv, TypeOK, SessionOK
<1>2. UNCHANGED <<lock, files>> /\ records \subseteq records'
  BY DEF AdvanceUnchanged, AdvanceNext, AdvanceManifest, AdvanceGenesis, disk
<1>3. CASE AdvanceUnchanged
  <2>1. /\ session' = [session EXCEPT !.phase = "lock", !.gen = lock.gen]
        /\ lock.gen # None /\ Membership(lock.gen) = files
    BY <1>3 DEF AdvanceUnchanged
  <2>2. session'.phase = "lock" /\ session'.gen = lock.gen
    BY <1>1, <2>1
  <2> QED BY <1>2, <2>1, <2>2 DEF GenerationInv, NextSound, SoundGeneration
<1>4. CASE AdvanceNext
  <2>1. PICK t \in Time :
          LET next == NextGeneration(lock.gen, files, Added, t)
          IN  /\ records' = records \cup {next}
              /\ session' = [session EXCEPT !.phase = "lock", !.gen = next]
    BY <1>4 DEF AdvanceNext
  <2> DEFINE next == NextGeneration(lock.gen, files, Added, t)
  <2>2. lock.gen # None /\ Membership(lock.gen) # files /\ SoundGeneration(lock.gen)
    BY <1>4 DEF AdvanceNext, GenerationInv
  <2>3. IsGeneration(next) /\ next.index = lock.gen.index + 1 /\ next.snapshot = files
    BY DEF NextGeneration, IsGeneration
  <2>4. Membership(next) = Membership(lock.gen) \cup Added
    BY <2>2, MembershipNext DEF SoundGeneration
  <2> HIDE DEF next
  <2>5. records' = records \cup {next} /\ session'.phase = "lock" /\ session'.gen = next
    BY <1>1, <2>1 DEF next
  <2>6. Membership(next) = files
    BY <2>2, <2>4 DEF SoundGeneration, Added
  <2>7. SoundGeneration(next)
    BY <2>2, <2>3, <2>6 DEF SoundGeneration
  <2> QED BY <1>2, <2>2, <2>3, <2>5, <2>7 DEF GenerationInv, NextSound, SoundGeneration
<1>5. CASE AdvanceManifest
  <2>1. PICK t \in Time :
          session' = [session EXCEPT !.phase = "genesis",
                                     !.gen = Genesis(Manifest(files, t), files, t)]
    BY <1>5 DEF AdvanceManifest
  <2> DEFINE gen == Genesis(Manifest(files, t), files, t)
  <2>2. lock.gen = None
    BY <1>5 DEF AdvanceManifest
  <2>3. IsGeneration(gen) /\ gen.index = 0 /\ gen.snapshot = files
    BY DEF Genesis, IsGeneration
  <2>4. Membership(gen) = files
    BY MembershipGenesis
  <2> HIDE DEF gen
  <2>5. session'.phase = "genesis" /\ session'.gen = gen
    BY <1>1, <2>1 DEF gen
  <2> QED BY <1>2, <2>2, <2>3, <2>4, <2>5 DEF GenerationInv, NextSound, SoundGeneration
<1>6. CASE AdvanceGenesis
  <2>1. session' = [session EXCEPT !.phase = "lock"] /\ session.phase = "genesis"
        /\ session.gen \in records'
    BY <1>6 DEF AdvanceGenesis
  <2>2. session'.phase = "lock" /\ session'.gen = session.gen
    BY <1>1, <2>1
  <2> QED BY <1>2, <2>1, <2>2 DEF GenerationInv, NextSound, SoundGeneration
<1> QED BY <1>3, <1>4, <1>5, <1>6

\* Every step leaves the generation the lock names sound.
LEMMA GenerationStep == Inv /\ GenerationInv /\ [Next]_vars => GenerationInv'
<1> SUFFICES ASSUME Inv, GenerationInv, [Next]_vars PROVE GenerationInv'
  OBVIOUS
<1>0. Idle.phase = "idle"
  BY DEF Idle
<1>1. CASE (\E s \in Slug : Edit(s)) \/ Build \/ \E named \in SUBSET Slug : Publish(named)
  <2>1. UNCHANGED <<lock, files, records>>
    BY <1>1 DEF Edit, Build, Publish, disk
  <2>2. session'.phase \in {"idle", "draft", "put"}
    <3>1. CASE \E s \in Slug : Edit(s)
      BY <1>0, <3>1 DEF Edit
    <3>2. CASE Build
      BY <3>2 DEF Build
    <3>3. CASE \E named \in SUBSET Slug : Publish(named)
      BY <3>3 DEF Publish
    <3> QED BY <1>1, <3>1, <3>2, <3>3
  <2> QED BY <2>1, <2>2, GenerationStays DEF GenerationInv
<1>2. CASE Put \/ RemoveStale \/ WriteDrafts \/ Export \/ AdvanceRefused \/ ForgetPublished
  <2>1. UNCHANGED <<lock, records>> /\ files \subseteq files'
    BY <1>2 DEF Put, RemoveStale, WriteDrafts, Export, AdvanceRefused, ForgetPublished, disk
  <2>2. session'.phase \in {"idle", "draft", "put"}
    <3>1. CASE Put
      BY <3>1 DEF Put, Inv, TypeOK, SessionOK, Idle
    <3>2. CASE ~Put
      BY <1>0, <1>2, <3>2 DEF RemoveStale, WriteDrafts, Export, AdvanceRefused, ForgetPublished
    <3> QED BY <3>1, <3>2
  <2> QED BY <2>1, <2>2, GenerationStays DEF GenerationInv
<1>3. CASE AdvanceUnchanged \/ AdvanceNext \/ AdvanceManifest \/ AdvanceGenesis
  BY <1>3, GenerationAdvance
<1>4. CASE WriteLock
  <2>1. /\ session.phase = "lock" /\ lock'.gen = session.gen /\ UNCHANGED <<files, records>>
    BY <1>4 DEF WriteLock
  <2>2. session'.phase = "forget"
    BY <1>4 DEF WriteLock, Inv, TypeOK, SessionOK, Idle
  <2> QED BY <2>1, <2>2 DEF GenerationInv, NextSound, SoundGeneration
<1>5. CASE CrashPutting \/ CrashRemoving \/ CrashExporting \/ CrashWriting
  <2>1. lock' \in {lock, NoLock} /\ session' = Idle /\ files \subseteq files'
    BY <1>5 DEF CrashPutting, CrashRemoving, CrashExporting, CrashWriting, Truncated, Die
  <2>2. ASSUME lock.gen # None PROVE lock.gen \in records'
    <3>1. lock.gen \in records /\ lock.gen.kind = "generation" /\ lock.gen.index \in Nat
      BY <2>2 DEF GenerationInv, SoundGeneration, IsGeneration
    <3>2. CASE UNCHANGED records
      BY <3>1, <3>2
    <3>3. CASE CrashWriting /\ \E f \in Writing : records' = records \ {f}
      <4>1. PICK f \in Writing : records' = records \ {f}
        BY <3>3
      <4>2. session.phase # "genesis"
        BY <2>2 DEF GenerationInv, NextSound
      <4>3. session.phase \in {"draft", "put", "lock", "forget"}
        BY <3>3, <4>2 DEF CrashWriting, Advancing
      <4>4. f # lock.gen
        <5>1. CASE session.phase = "put"
          <6>1. PICK t \in Time : f = NextGeneration(lock.gen, files, Added, t)
            BY <2>2, <4>1, <5>1 DEF Writing
          <6>2. f.index = lock.gen.index + 1
            BY <6>1 DEF NextGeneration
          <6> QED BY <3>1, <6>2
        <5>2. CASE session.phase # "put"
          <6>1. f \in {DraftsFile, LockFile}
            BY <4>1, <4>3, <5>2 DEF Writing
          <6>2. DraftsFile.kind # "generation" /\ LockFile.kind # "generation"
            BY DEF DraftsFile, LockFile
          <6> QED BY <3>1, <6>1, <6>2
        <5> QED BY <5>1, <5>2
      <4> QED BY <3>1, <4>1, <4>4
    <3> QED BY <1>5, <3>2, <3>3 DEF CrashPutting, CrashRemoving, CrashExporting, CrashWriting,
                                    Truncated
  <2>3. CASE lock' = lock
    BY <1>0, <2>1, <2>2, <2>3, GenerationStays
  <2>4. CASE lock' = NoLock
    BY <1>0, <2>1, <2>4 DEF NoLock, GenerationInv, NextSound
  <2> QED BY <2>1, <2>3, <2>4
<1>6. CASE UNCHANGED vars
  BY <1>6 DEF vars, GenerationInv, NextSound, SoundGeneration
<1> QED BY <1>1, <1>2, <1>3, <1>4, <1>5, <1>6 DEF Next, Command

\* The fresh corpus has no generation.
LEMMA GenerationInit == Init => GenerationInv
BY DEF Init, NoLock, Idle, GenerationInv, NextSound

\* The generation corpus.lock names was recorded before it, says with its
\* chain what it says with its snapshot, and all its members are in objects/,
\* wherever any publish died.
THEOREM GenerationsSound == Spec => []GenerationSound
<1>1. GenerationInv => GenerationSound
  BY DEF GenerationInv, GenerationSound, SoundGeneration
<1> QED BY <1>1, GenerationInit, GenerationStep, Invariance, PTL DEF Spec


----------------------------------------------------------------------------
(* The published corpus.                                                   *)

\* None is none of the values it is the absence of.
NoneApart ==
    /\ \A s, text, deps : Version(s, text, deps) # None
    /\ \A cid, genesis, tag : [cid |-> cid, genesis |-> genesis, tag |-> tag] # None
    /\ \A gen : IsGeneration(gen) => gen # None

\* A row that takes another's place names a version that supersedes the one
\* that row named, in its lineage, by an edge among these objects.
Continuing(old, new, objects) ==
    /\ new # None
    /\ old # None => new.genesis = old.genesis /\ Supersedes(new.cid, old.cid) \in objects

\* The objects that a publish holds or will, and does not hold back.
Coming == (store \cup session.puts) \ session.unpublished

RowsSound ==
    /\ \A s \in Slug : lock.entries[s] # None => lock.entries[s].cid # None
    /\ session.phase \in {"put", "genesis", "lock"} =>
          \A s \in Slug :
             /\ session.entries[s] # None => session.entries[s].cid # None
             /\ \/ session.entries[s] = lock.entries[s]
                \/ Continuing(lock.entries[s], session.entries[s],
                              IF session.phase = "put" THEN Coming ELSE files)

\* A publish starts with rows that continue those there were.
LEMMA RowsPublish ==
    ASSUME NoneApart, Inv, RowsSound, NEW named \in SUBSET Slug, Publish(named)
    PROVE  RowsSound'
<1> DEFINE owned    == Owned(src, lock.entries, store, TRUE)
           built    == UNION {owned[s] : s \in Slug}
           selected == Select(Changed(src, lock.entries), named)
           chosen   == UNION {owned[s] : s \in selected}
           release  == chosen \cup Signatures(chosen)
<1>1. /\ session' =
            [ phase       |-> "put",
              puts        |-> (built \ store) \cup Signatures(chosen),
              release     |-> release,
              unpublished |-> (drafts \cup built) \ release,
              remaining   |-> built \ release,
              entries     |-> PublishedRows(selected),
              gen         |-> None ]
      /\ UNCHANGED <<store, lock>>
  BY DEF Publish, disk
<1>2. selected \subseteq Changed(src, lock.entries) /\ selected \subseteq Slug
  BY SelectChanged, OwnedVersion, Zenon DEF Changed, Declared
<1>3. chosen \subseteq built
  BY <1>2
<1> SUFFICES ASSUME NEW s \in Slug
             PROVE  /\ session'.entries[s] # None => session'.entries[s].cid # None
                    /\ \/ session'.entries[s] = lock.entries[s]
                       \/ Continuing(lock.entries[s], session'.entries[s], Coming')
  BY <1>1 DEF RowsSound
<1>4. CASE s \notin selected
  BY <1>1, <1>4 DEF PublishedRows, RowsSound
<1>5. CASE s \in selected
  <2> DEFINE new == VersionOf(src, s)
             old == lock.entries[s]
             row == [ cid |-> new, genesis |-> GenesisOf(lock.entries, s, new),
                      tag |-> src[s].tag ]
  <2>1. src[s] # None /\ s \in Changed(src, lock.entries)
    BY <1>2, <1>5 DEF Changed, Declared
  <2>2. session'.entries[s] = row
    BY <1>1, <1>5, <2>1 DEF PublishedRows, Rows
  <2>3. row # None /\ new # None
    BY Zenon DEF NoneApart, VersionOf
  <2>4. ASSUME old # None
        PROVE  row.genesis = old.genesis /\ Supersedes(new, old.cid) \in Coming'
    <3>1. row.genesis = old.genesis
      BY <2>4 DEF GenesisOf
    <3>2. Prior(lock.entries, s) = old.cid /\ old.cid # None
      BY <2>4 DEF Prior, RowsSound
    <3>3. Supersedes(new, old.cid) \in NodeObjects(src, lock.entries, s)
      BY <2>1, <3>2 DEF NodeObjects
    <3>4. Supersedes(new, old.cid) \in owned[s]
      BY <2>1, <3>3 DEF Owned
    <3> HIDE DEF owned
    <3>5. Supersedes(new, old.cid) \in chosen
      BY <1>5, <3>4
    <3> HIDE DEF chosen, built
    <3>6. Supersedes(new, old.cid) \in built
      BY <1>3, <3>5
    <3> QED BY <1>1, <3>1, <3>5, <3>6 DEF Coming
  <2>5. row.cid = new
    OBVIOUS
  <2> HIDE DEF row, new, old, owned, built, selected, chosen
  <2>6. Continuing(old, row, Coming')
    BY <2>3, <2>4, <2>5 DEF Continuing
  <2> QED BY <2>2, <2>3, <2>5, <2>6 DEF old
<1> QED BY <1>4, <1>5

\* Every step keeps them so, and what the advance accepts has their edges.
LEMMA RowsStep == NoneApart /\ Inv /\ RowsSound /\ [Next]_vars => RowsSound'
<1> SUFFICES ASSUME NoneApart, Inv, RowsSound, [Next]_vars PROVE RowsSound'
  OBVIOUS
<1>0. Idle.phase = "idle"
  BY DEF Idle
<1>a. ASSUME UNCHANGED lock, session'.phase \notin {"put", "genesis", "lock"}
      PROVE  RowsSound'
  BY <1>a DEF RowsSound
<1>1. CASE \E s \in Slug : Edit(s)
  BY <1>0, <1>1, <1>a DEF Edit, disk
<1>2. CASE Build
  BY <1>2, <1>a DEF Build, disk
<1>3. CASE \E named \in SUBSET Slug : Publish(named)
  BY <1>3, RowsPublish
<1>4. CASE Put
  <2>1. CASE session.phase = "draft"
    <3>1. session'.phase = "draft"
      BY <1>4, <2>1 DEF Put, Inv, TypeOK, SessionOK, Idle
    <3> QED BY <1>4, <1>a, <3>1 DEF Put
  <2>2. CASE session.phase = "put"
    <3>1. /\ session'.phase = "put" /\ session'.entries = session.entries
          /\ session'.unpublished = session.unpublished
          /\ session'.puts = session.puts \ First(session.puts)
          /\ store' = store \cup First(session.puts) /\ UNCHANGED lock
      <4>1. session = [ phase |-> session.phase, puts |-> session.puts,
                        release |-> session.release, unpublished |-> session.unpublished,
                        remaining |-> session.remaining, entries |-> session.entries,
                        gen |-> session.gen ]
        BY <2>2, <1>0 DEF Inv, TypeOK, SessionOK
      <4> QED BY <1>4, <2>2, <4>1 DEF Put
    <3>2. Coming \subseteq Coming'
      BY <3>1 DEF Coming
    <3> QED BY <2>2, <3>1, <3>2 DEF RowsSound, Continuing
  <2> QED BY <1>4, <2>1, <2>2 DEF Put
<1>5. CASE RemoveStale
  BY <1>5, <1>a DEF RemoveStale
<1>6. CASE WriteDrafts \/ AdvanceRefused \/ ForgetPublished
  BY <1>0, <1>6, <1>a DEF WriteDrafts, AdvanceRefused, ForgetPublished, disk
<1>7. CASE Export
  BY <1>7 DEF Export, RowsSound, Coming
<1>8. CASE AdvanceUnchanged \/ AdvanceNext \/ AdvanceManifest \/ AdvanceGenesis
  <2>1. /\ UNCHANGED <<store, lock, files, torn>>
        /\ session.phase \in {"put", "genesis"}
        /\ session.phase = "put" => Advancing /\ AdvanceAccepts
    BY <1>8 DEF AdvanceUnchanged, AdvanceNext, AdvanceManifest, AdvanceGenesis, Advancing, disk
  <2>2. session = [ phase |-> session.phase, puts |-> session.puts,
                    release |-> session.release, unpublished |-> session.unpublished,
                    remaining |-> session.remaining, entries |-> session.entries,
                    gen |-> session.gen ]
    BY <1>0, <2>1 DEF Inv, TypeOK, SessionOK
  <2>3. session'.phase \in {"genesis", "lock"} /\ session'.entries = session.entries
    BY <1>8, <2>2 DEF AdvanceUnchanged, AdvanceNext, AdvanceManifest, AdvanceGenesis
  <2>4. session.phase = "put" => Coming \subseteq files
    BY <2>1 DEF Coming, Advancing, AdvanceAccepts, ToExport
  <2> QED BY <2>1, <2>3, <2>4 DEF RowsSound, Continuing
<1>9. CASE WriteLock
  <2>1. session'.phase = "forget"
    BY <1>9 DEF WriteLock, Inv, TypeOK, SessionOK, Idle
  <2>2. lock'.entries = session.entries /\ session.phase = "lock"
    BY <1>9 DEF WriteLock
  <2> QED BY <2>1, <2>2 DEF RowsSound
<1>10. CASE CrashPutting \/ CrashRemoving \/ CrashExporting \/ CrashWriting
  <2>1. lock' \in {lock, NoLock} /\ session' = Idle
    BY <1>10 DEF CrashPutting, CrashRemoving, CrashExporting, CrashWriting, Truncated, Die
  <2>2. CASE lock' = lock
    BY <1>0, <1>a, <2>1, <2>2
  <2>3. CASE lock' = NoLock
    BY <1>0, <2>1, <2>3 DEF RowsSound, NoLock
  <2> QED BY <2>1, <2>2, <2>3
<1>11. CASE UNCHANGED vars
  BY <1>11 DEF vars, RowsSound, Coming
<1> QED BY <1>1, <1>2, <1>3, <1>4, <1>5, <1>6, <1>7, <1>8, <1>9, <1>10, <1>11
        DEF Next, Command

\* The lock is no object, and a command runs only where it could be read.
ReadInv ==
    /\ LockFile \notin store
    /\ session.phase \in {"draft", "put"} => LockFile \notin session.puts
    /\ session # Idle => LockFile \notin torn

\* Build::node, Build::tag and sign_each make objects, none of them the lock.
LEMMA OwnedNoLock ==
    ASSUME NEW sources, NEW entries, NEW graph, NEW tag, NEW s \in Slug
    PROVE  LockFile \notin Owned(sources, entries, graph, tag)[s]
BY DEF LockFile, Owned, NodeObjects, TagObjects, VersionOf, Version, Supersedes, Tagged,
       Retracts

\* Nor is a signature.
LEMMA SignedNoLock ==
    ASSUME NEW objects
    PROVE  LockFile \notin Signatures(objects)
<1>1. \A o : Sig(o) # LockFile
  BY DEF Sig, LockFile
<1> QED BY <1>1 DEF Signatures

\* Every step keeps it so.
LEMMA ReadStep == Inv /\ ReadInv /\ [Next]_vars => ReadInv'
<1> SUFFICES ASSUME Inv, ReadInv, [Next]_vars PROVE ReadInv'
  OBVIOUS
<1>0. Idle.phase = "idle"
  BY DEF Idle
<1>1. CASE (\E s \in Slug : Edit(s)) \/ AdvanceRefused \/ ForgetPublished \/ WriteDrafts
  <2>1. UNCHANGED store /\ session' = Idle
    BY <1>1 DEF Edit, Open, AdvanceRefused, ForgetPublished, WriteDrafts, disk
  <2> QED BY <1>0, <2>1 DEF ReadInv
<1>2. CASE Build
  <2>1. UNCHANGED <<store, torn>> /\ session'.puts \subseteq Drafted /\ LockFile \notin torn
    BY <1>2 DEF Build, Open, disk
  <2>2. LockFile \notin Drafted
    <3>1. \A s \in Slug : LockFile \notin Owned(src, lock.entries, store, FALSE)[s]
      BY OwnedNoLock
    <3> QED BY <3>1 DEF Drafted
  <2> QED BY <2>1, <2>2 DEF ReadInv
<1>3. CASE \E named \in SUBSET Slug : Publish(named)
  <2>1. PICK named \in SUBSET Slug : Publish(named)
    BY <1>3
  <2> DEFINE built  == UNION {Owned(src, lock.entries, store, TRUE)[s] : s \in Slug}
             chosen == UNION {Owned(src, lock.entries, store, TRUE)[s] :
                                s \in Select(Changed(src, lock.entries), named)}
  <2>2. UNCHANGED <<store, torn>> /\ LockFile \notin torn
        /\ session'.puts = (built \ store) \cup Signatures(chosen)
    BY <2>1 DEF Publish, Open, disk
  <2>3. LockFile \notin built /\ LockFile \notin Signatures(chosen)
    <3>1. \A s \in Slug : LockFile \notin Owned(src, lock.entries, store, TRUE)[s]
      BY OwnedNoLock
    <3>2. LockFile \notin Signatures(chosen)
      BY SignedNoLock
    <3> QED BY <3>1, <3>2
  <2> QED BY <2>2, <2>3 DEF ReadInv
<1>4. CASE Put
  <2>1. First(session.puts) \subseteq session.puts
    BY DEF First
  <2>2. /\ session.phase \in {"draft", "put"} /\ session # Idle
        /\ store' = store \cup First(session.puts) /\ UNCHANGED torn
        /\ session'.puts \subseteq session.puts
    BY <1>0, <1>4 DEF Put, Inv, TypeOK, SessionOK
  <2> QED BY <2>1, <2>2 DEF ReadInv
<1>5. CASE RemoveStale \/ Export
  <2>1. store' \subseteq store /\ UNCHANGED <<session, torn>>
    BY <1>5 DEF RemoveStale, Export
  <2> QED BY <2>1 DEF ReadInv
<1>6. CASE AdvanceUnchanged \/ AdvanceNext \/ AdvanceManifest \/ AdvanceGenesis \/ WriteLock
  <2>1. session.phase \in {"put", "genesis", "lock"} /\ UNCHANGED <<store, torn>>
    BY <1>6 DEF AdvanceUnchanged, AdvanceNext, AdvanceManifest, AdvanceGenesis, WriteLock,
                Advancing, disk
  <2>2. session = [ phase |-> session.phase, puts |-> session.puts,
                    release |-> session.release, unpublished |-> session.unpublished,
                    remaining |-> session.remaining, entries |-> session.entries,
                    gen |-> session.gen ]
    BY <1>0, <2>1 DEF Inv, TypeOK, SessionOK
  <2>3. session'.phase \in {"genesis", "lock", "forget"}
    BY <1>6, <2>2 DEF AdvanceUnchanged, AdvanceNext, AdvanceManifest, AdvanceGenesis, WriteLock
  <2> QED BY <1>0, <2>1, <2>3 DEF ReadInv
<1>7. CASE CrashPutting \/ CrashRemoving \/ CrashExporting \/ CrashWriting
  <2>1. First(session.puts) \subseteq session.puts
    BY DEF First
  <2>2. LockFile \notin store' /\ session' = Idle
    BY <1>7, <2>1 DEF CrashPutting, CrashRemoving, CrashExporting, CrashWriting, Die, ReadInv
  <2> QED BY <1>0, <2>2 DEF ReadInv
<1>8. CASE UNCHANGED vars
  BY <1>8 DEF vars, ReadInv
<1> QED BY <1>1, <1>2, <1>3, <1>4, <1>5, <1>6, <1>7, <1>8 DEF Next, Command

\* A process that dies takes the lock with it whole or leaves it as it was.
LEMMA PublishedCrash ==
    ASSUME Inv, GenerationInv, ReadInv,
           CrashPutting \/ CrashRemoving \/ CrashExporting \/ CrashWriting
    PROVE  [Published!Next]_(Published!vars)
<1>0. Idle.phase = "idle"
  BY DEF Idle
<1>1. LockFile \notin torn
  <2>1. session # Idle
    BY DEF CrashPutting, CrashRemoving, CrashExporting, CrashWriting, Die
  <2> QED BY <2>1 DEF ReadInv
<1>2. CASE lock' = lock /\ LockFile \notin torn'
  BY <1>1, <1>2 DEF Published!vars
<1>3. CASE lock' = NoLock /\ LockFile \in torn'
  BY <1>1, <1>3 DEF NoLock, Published!Next, Published!Lose, Published!Nothing
<1>4. CASE CrashPutting \/ CrashRemoving
  BY <1>1, <1>2, <1>4 DEF CrashPutting, CrashRemoving
<1>5. CASE CrashExporting
  <2>1. \A o \in ToExport : o # LockFile
    BY DEF ToExport, ReadInv
  <2> QED BY <1>1, <1>2, <1>5, <2>1 DEF CrashExporting
<1>6. CASE CrashWriting
  <2>1. CASE UNCHANGED <<drafts, lock, records, torn>>
    BY <1>1, <1>2, <2>1
  <2>2. CASE \E f \in Writing : torn' = torn \cup {f} /\ Truncated(f)
    <3>1. PICK f \in Writing : torn' = torn \cup {f} /\ Truncated(f)
      BY <2>2
    <3>2. CASE f = LockFile
      BY <1>3, <3>1, <3>2 DEF Truncated
    <3>3. CASE f # LockFile
      BY <1>1, <1>2, <3>1, <3>3 DEF Truncated
    <3> QED BY <3>2, <3>3
  <2> QED BY <1>6, <2>1, <2>2 DEF CrashWriting
<1> QED BY <1>4, <1>5, <1>6

\* A write of the lock publishes, one cut short loses it, and no other step
\* shows.
LEMMA PublishedStep ==
    ASSUME NoneApart, Inv, GenerationInv, RowsSound, ReadInv, [Next]_vars
    PROVE  [Published!Next]_(Published!vars)
<1>1. CASE WriteLock
  <2>1. /\ session.phase = "lock"
        /\ lock' = [entries |-> session.entries, gen |-> session.gen]
    BY <1>1 DEF WriteLock
  <2>2. /\ SoundGeneration(session.gen) /\ session.gen # None
        /\ session.gen.snapshot = files /\ session.gen.index \in Nat
        /\ lock.gen = None => session.gen.index = 0
        /\ lock.gen # None =>
              /\ lock.gen.snapshot \subseteq files /\ lock.gen.index \in Nat
              /\ \/ session.gen = lock.gen
                 \/ /\ session.gen.index = lock.gen.index + 1
                    /\ session.gen.snapshot # lock.gen.snapshot
    BY <2>1 DEF GenerationInv, NextSound, SoundGeneration, NoneApart
  <2>3. \A s \in Slug : \/ session.entries[s] = lock.entries[s]
                        \/ Published!Backed(lock.entries[s], session.entries[s], files)
    <3> SUFFICES ASSUME NEW s \in Slug, session.entries[s] # lock.entries[s]
                 PROVE  Published!Backed(lock.entries[s], session.entries[s], files)
      OBVIOUS
    <3>1. Continuing(lock.entries[s], session.entries[s], files)
      BY <2>1 DEF RowsSound
    <3>2. {session.entries[s].cid, Sig(session.entries[s].cid)} \subseteq files
      BY <2>1, <3>1 DEF Inv, AdvancedWhole, Whole, Continuing
    <3> QED BY <3>1, <3>2 DEF Continuing, Published!Backed, Published!Sig, Sig,
                Published!Supersedes, Supersedes
  <2>4. LockFile \notin torn /\ UNCHANGED torn
    <3>1. session # Idle
      BY <2>1 DEF Idle
    <3> QED BY <1>1, <3>1 DEF WriteLock, ReadInv
  <2> QED BY <2>1, <2>2, <2>3, <2>4 DEF Published!Next, Published!Publish
<1>2. CASE CrashPutting \/ CrashRemoving \/ CrashExporting \/ CrashWriting
  BY <1>2, PublishedCrash
<1>3. CASE ~WriteLock /\ ~(CrashPutting \/ CrashRemoving \/ CrashExporting \/ CrashWriting)
  <2>1. UNCHANGED <<lock, torn>>
    BY <1>3 DEF vars, Next, Command, Edit, Build, Publish, Put, RemoveStale, WriteDrafts,
                Export, AdvanceRefused, AdvanceUnchanged, AdvanceNext, AdvanceManifest,
                AdvanceGenesis, ForgetPublished, disk
  <2> QED BY <2>1 DEF Published!vars
<1> QED BY <1>1, <1>2, <1>3

\* Read through corpus.lock, a publish shows all at once, not at all, or as a
\* lock that cannot be read, however many writes it takes and wherever it
\* dies: the workspace implements the abstract corpus.
THEOREM PublishingIsAtomic == NoneApart => (Spec => ImplementsPublished)
<1> SUFFICES ASSUME NoneApart PROVE Spec => ImplementsPublished
  OBVIOUS
<1>1. Init => Published!Init
  BY DEF Init, NoLock, Published!Init, Published!Nothing
<1>2. Init => RowsSound /\ ReadInv
  BY DEF Init, NoLock, Idle, RowsSound, ReadInv
<1>3. Inv /\ GenerationInv /\ RowsSound /\ ReadInv /\ [Next]_vars
         => [Published!Next]_(Published!vars)
  BY PublishedStep
<1>5. Inv /\ ReadInv /\ [Next]_vars => ReadInv'
  BY ReadStep
<1>4. Inv /\ RowsSound /\ [Next]_vars => RowsSound'
  BY RowsStep
<1> QED BY <1>1, <1>2, <1>3, <1>4, <1>5, GenerationInit, GenerationStep, Invariance, PTL
        DEF Spec, ImplementsPublished, Published!Spec


----------------------------------------------------------------------------
(* An author who builds before publishing, and no process that dies.       *)

Careful == MaxCrashes = 0 /\ BuildFirst

\* What the store holds beside objects/ is the drafts, those being built, or
\* what a publish holds back or is to export.
Accounted ==
    /\ session = Idle => store \subseteq files \cup drafts
    /\ session.phase = "draft" => store \subseteq files \cup drafts \cup session.owned
    /\ session.phase = "put" =>
          /\ store \cup session.puts \subseteq files \cup session.unpublished \cup session.release
          /\ session.release \subseteq released
    /\ session.phase \in {"genesis", "lock", "forget"} =>
          store \subseteq files \cup session.unpublished
    /\ session.phase \in {"put", "genesis", "lock", "forget"} =>
          session.unpublished = session.remaining

TidyInv ==
    /\ torn = {}
    /\ files \subseteq released
    /\ Accounted

\* What a build owns without tags, it owns with them; and no draft is a tag.
LEMMA OwnedWithTags ==
    ASSUME NEW sources, NEW entries, NEW graph, NEW s \in Slug
    PROVE  /\ Owned(sources, entries, graph, FALSE)[s] \subseteq Owned(sources, entries, graph, TRUE)[s]
           /\ \A o \in Owned(sources, entries, graph, FALSE)[s] : o.kind \notin {"tagged", "retracts"}
BY DEF Owned, NodeObjects, VersionOf, Version, Supersedes

\* A publish of what was built holds back what it does not release, and
\* nothing that is neither is in the store.
LEMMA TidyPublish ==
    ASSUME Careful, Inv, TidyInv, NEW named \in SUBSET Slug, Publish(named)
    PROVE  TidyInv'
<1> DEFINE owned    == Owned(src, lock.entries, store, TRUE)
           built    == UNION {owned[s] : s \in Slug}
           selected == Select(Changed(src, lock.entries), named)
           chosen   == UNION {owned[s] : s \in selected}
           release  == chosen \cup Signatures(chosen)
<1>1. /\ session' =
            [ phase       |-> "put",
              puts        |-> (built \ store) \cup Signatures(chosen),
              release     |-> release,
              unpublished |-> (drafts \cup built) \ release,
              remaining   |-> built \ release,
              entries     |-> PublishedRows(selected),
              gen         |-> None ]
      /\ released' = released \cup release
      /\ drafts = Drafted /\ session = Idle
      /\ UNCHANGED <<store, files, torn>>
  BY DEF Publish, disk, Careful, Open
<1>2. drafts \subseteq built
  <2>1. \A s \in Slug : Owned(src, lock.entries, store, FALSE)[s] \subseteq owned[s]
    BY OwnedWithTags, Zenon
  <2> QED BY <1>1, <2>1 DEF Drafted
<1> HIDE DEF owned, built, selected, chosen
<1>3. store \subseteq files \cup drafts
  BY <1>1 DEF TidyInv, Accounted
<1>4. release = chosen \cup Signatures(chosen)
  OBVIOUS
<1> HIDE DEF release
<1>5. /\ session'.phase = "put" /\ session'.unpublished = built \ release
      /\ session'.remaining = built \ release /\ session'.release = release
      /\ session'.puts \subseteq built \cup release
  BY <1>1, <1>2, <1>4
<1>6. session' # Idle
  BY <1>5 DEF Idle
<1> QED BY <1>1, <1>2, <1>3, <1>5, <1>6 DEF TidyInv, Accounted

\* Every other step that is not a refusal keeps it.
LEMMA TidyStep == Careful /\ Inv /\ TidyInv /\ [Next /\ ~AdvanceRefused]_vars => TidyInv'
<1> SUFFICES ASSUME Careful, Inv, TidyInv, [Next /\ ~AdvanceRefused]_vars PROVE TidyInv'
  OBVIOUS
<1>0. Idle.phase = "idle"
  BY DEF Idle
<1>s. session.phase \in {"put", "genesis", "lock", "forget"} =>
        session = [ phase |-> session.phase, puts |-> session.puts,
                    release |-> session.release, unpublished |-> session.unpublished,
                    remaining |-> session.remaining, entries |-> session.entries,
                    gen |-> session.gen ]
  BY <1>0 DEF Inv, TypeOK, SessionOK
<1>1. CASE \E s \in Slug : Edit(s)
  BY <1>1 DEF Edit, disk, history, TidyInv, Accounted
<1>2. CASE Build
  BY <1>0, <1>2 DEF Build, Open, disk, history, TidyInv, Accounted
<1>3. CASE \E named \in SUBSET Slug : Publish(named)
  BY <1>3, TidyPublish
<1>4. CASE Put
  <2>1. First(session.puts) \subseteq session.puts
    BY DEF First
  <2>2. /\ store' = store \cup First(session.puts)
        /\ UNCHANGED <<files, drafts, torn, released>>
    BY <1>4 DEF Put, history
  <2>3. CASE session.phase = "draft"
    <3>1. session = [phase |-> "draft", puts |-> session.puts, owned |-> session.owned]
          /\ session.puts \subseteq session.owned
      BY <1>0, <2>3 DEF Inv, TypeOK, SessionOK
    <3>2. session'.phase = "draft" /\ session'.owned = session.owned
      BY <1>4, <3>1 DEF Put
    <3> QED BY <1>0, <2>1, <2>2, <2>3, <3>1, <3>2 DEF TidyInv, Accounted
  <2>4. CASE session.phase = "put"
    <3>1. /\ session'.phase = "put" /\ session'.puts = session.puts \ First(session.puts)
          /\ session'.release = session.release /\ session'.remaining = session.remaining
          /\ session'.unpublished = session.unpublished
      BY <1>4, <1>s, <2>4 DEF Put
    <3> QED BY <1>0, <2>1, <2>2, <2>4, <3>1 DEF TidyInv, Accounted
  <2> QED BY <1>4, <2>3, <2>4 DEF Put
<1>5. CASE RemoveStale
  <2>1. /\ session.phase = "draft" /\ store' \subseteq store
        /\ UNCHANGED <<files, drafts, torn, released, session>>
    BY <1>5 DEF RemoveStale, history
  <2> QED BY <1>0, <2>1 DEF TidyInv, Accounted
<1>6. CASE WriteDrafts
  <2>1. /\ session.phase = "draft" /\ Stale \cap store = {}
        /\ drafts' = session.owned /\ session' = Idle
        /\ UNCHANGED <<store, files, torn, released>>
    BY <1>6 DEF WriteDrafts, history
  <2>2. store \subseteq files \cup session.owned
    BY <2>1 DEF TidyInv, Accounted, Stale
  <2> QED BY <1>0, <2>1, <2>2 DEF TidyInv, Accounted
<1>7. CASE Export
  <2>1. /\ session.phase = "put" /\ files' = files \cup ToExport
        /\ UNCHANGED <<store, torn, released, session>>
    BY <1>7 DEF Export, history
  <2>2. ToExport \subseteq released
    BY <2>1 DEF TidyInv, Accounted, ToExport
  <2> QED BY <1>0, <2>1, <2>2 DEF TidyInv, Accounted
<1>8. CASE AdvanceUnchanged \/ AdvanceNext \/ AdvanceManifest \/ AdvanceGenesis
  <2>1. /\ UNCHANGED <<store, files, torn, released>>
        /\ session.phase \in {"put", "genesis"}
        /\ session.phase = "put" => Advancing
    BY <1>8 DEF AdvanceUnchanged, AdvanceNext, AdvanceManifest, AdvanceGenesis, Advancing,
                disk, history
  <2>2. /\ session'.phase \in {"genesis", "lock"}
        /\ session'.unpublished = session.unpublished
        /\ session'.remaining = session.remaining
    BY <1>8, <1>s, <2>1 DEF AdvanceUnchanged, AdvanceNext, AdvanceManifest, AdvanceGenesis
  <2>3. session.phase = "put" => store \subseteq files \cup session.unpublished
    BY <2>1 DEF TidyInv, Advancing, ToExport
  <2>4. session' # Idle
    BY <1>0, <2>2
  <2> QED BY <2>1, <2>2, <2>3, <2>4 DEF TidyInv, Accounted
<1>9. CASE WriteLock
  <2>1. session'.phase = "forget" /\ session'.unpublished = session.unpublished
        /\ session'.remaining = session.remaining /\ session.phase = "lock"
    BY <1>9, <1>s DEF WriteLock
  <2>2. UNCHANGED <<store, files, torn, released>>
    BY <1>9 DEF WriteLock
  <2> QED BY <1>0, <2>1, <2>2 DEF TidyInv, Accounted
<1>10. CASE ForgetPublished
  BY <1>0, <1>10 DEF ForgetPublished, history, TidyInv, Accounted
<1>11. CASE CrashPutting \/ CrashRemoving \/ CrashExporting \/ CrashWriting
  <2>1. crashes < MaxCrashes /\ crashes \in 0..MaxCrashes
    BY <1>11 DEF CrashPutting, CrashRemoving, CrashExporting, CrashWriting, Die, Inv, TypeOK
  <2> QED BY <2>1 DEF Careful
<1>12. CASE UNCHANGED vars
  BY <1>12 DEF vars, TidyInv, Accounted
<1> QED BY <1>1, <1>2, <1>3, <1>4, <1>5, <1>6, <1>7, <1>8, <1>9, <1>10, <1>11, <1>12
        DEF Next, Command

\* Each name resolves to the version of its source, whose own names have been
\* resolved before it.
LEMMA ResolvedIs ==
    ASSUME NEW sources, NamesResolve(sources)
    PROVE  \A s \in Declared(sources) : Resolved(sources)[s] = VersionOf(sources, s)
<1> DEFINE D(n) == {s \in Declared(sources) : Position(s) <= n}
           is(f, s) == Version(s, sources[s].text, [d \in Deps[s] |-> f[d]])
           body(f) == [s \in Declared(sources) |-> is(f, s)]
           P == {n \in Nat : \E f : DOMAIN f = D(n) /\ \A s \in D(n) : f[s] = is(f, s)}
<1>1. \A s \in Slug : Position(s) \in 1..Len(Order) /\ Order[Position(s)] = s
  <2>1. \A s \in Slug : \E i \in DOMAIN Order : Order[i] = s
    BY OrderAssumption
  <2>2. DOMAIN Order = 1..Len(Order)
    BY OrderAssumption
  <2> QED BY <2>1, <2>2 DEF Position
<1>2. Len(Order) \in Nat
  BY OrderAssumption
<1>3. \A s \in Declared(sources) : \A d \in Deps[s] :
         d \in Declared(sources) /\ Position(d) < Position(s)
  <2> SUFFICES ASSUME NEW s \in Declared(sources), NEW d \in Deps[s]
               PROVE  d \in Declared(sources) /\ Position(d) < Position(s)
    OBVIOUS
  <2>1. d \in Declared(sources) /\ d \in Slug /\ s \in Slug
    BY DEF NamesResolve, Declared
  <2>2. Position(s) \in DOMAIN Order /\ Position(d) \in DOMAIN Order
    <3>1. DOMAIN Order = 1..Len(Order)
      BY OrderAssumption
    <3> QED BY <1>1, <2>1, <3>1
  <2>3. Order[Position(d)] \in Deps[Order[Position(s)]]
    BY <1>1, <2>1
  <2>4. Position(d) < Position(s)
    BY <2>2, <2>3, OrderAssumption, Zenon
  <2> QED BY <2>1, <2>4
<1>4. \A s \in Declared(sources) : Position(s) \in 1..Len(Order)
  BY <1>1 DEF Declared
<1>5. 0 \in P
  <2>1. D(0) = {}
    BY <1>4
  <2>2. DOMAIN [s \in {} |-> None] = {}
    OBVIOUS
  <2> QED BY <2>1, <2>2
<1>6. ASSUME NEW n \in Nat, n \in P PROVE n + 1 \in P
  <2>1. PICK f : DOMAIN f = D(n) /\ \A s \in D(n) : f[s] = is(f, s)
    BY <1>6
  <2> DEFINE g == [s \in D(n + 1) |-> IF s \in D(n) THEN f[s] ELSE is(f, s)]
  <2>2. \A s \in D(n + 1) : s \in Declared(sources) /\ \A d \in Deps[s] : d \in D(n)
    BY <1>3, <1>4
  <2>3. \A s \in D(n) : s \in D(n + 1)
    BY <1>4
  <2>4. DOMAIN g = D(n + 1) /\ \A s \in D(n) : g[s] = f[s]
    BY <2>3
  <2>5. \A s \in D(n + 1) : g[s] = is(f, s)
    BY <2>1
  <2> HIDE DEF g
  <2>6. \A s \in D(n + 1) : is(g, s) = is(f, s)
    BY <2>2, <2>4
  <2>7. \A s \in D(n + 1) : g[s] = is(g, s)
    BY <2>5, <2>6
  <2> QED BY <2>4, <2>7
<1> HIDE DEF P
<1>7. Len(Order) \in P
  BY <1>2, <1>5, <1>6, InductionSet
<1>8. D(Len(Order)) = Declared(sources)
  BY <1>4
<1>9. PICK f : DOMAIN f = Declared(sources) /\ \A s \in Declared(sources) : f[s] = is(f, s)
  BY <1>7, <1>8 DEF P
<1>10. \E h : h = body(h)
  <2> DEFINE h == [s \in Declared(sources) |-> f[s]]
  <2>1. \A s \in Declared(sources) : is(h, s) = is(f, s)
    BY <1>3
  <2>2. \A s \in Declared(sources) : h[s] = is(h, s)
    BY <1>9, <2>1
  <2>3. h = [s \in Declared(sources) |-> h[s]]
    OBVIOUS
  <2> HIDE DEF h, is
  <2>4. h = body(h)
    BY <2>2, <2>3
  <2> QED BY <2>4
<1>11. Resolved(sources) = body(Resolved(sources))
  <2>1. Resolved(sources) = CHOOSE h : h = body(h)
    BY DEF Resolved
  <2> HIDE DEF body
  <2> QED BY <1>10, <2>1
<1> QED BY <1>11 DEF VersionOf

\* Whatever a version in objects/ cites is there too, between the writes of
\* one export.
ClosedInv ==
    /\ DependsClosed(files)
    /\ session.phase = "put" =>
          /\ session.release \subseteq store \cup session.puts
          /\ DependsClosed(files \cup session.release)

\* As long as the corpus keeps within the bound it declares.
Within == Cardinality(files) <= Bound

\* What a publish releases cites what it releases, for select follows what
\* changed, or what the lock records already.
LEMMA ClosedPublish ==
    ASSUME NoneApart, Inv, ClosedInv, NEW named \in SUBSET Slug, Publish(named)
    PROVE  ClosedInv'
<1> DEFINE owned    == Owned(src, lock.entries, store, TRUE)
           built    == UNION {owned[s] : s \in Slug}
           changed  == Changed(src, lock.entries)
           selected == Select(changed, named)
           chosen   == UNION {owned[s] : s \in selected}
           release  == chosen \cup Signatures(chosen)
<1>1. /\ session'.phase = "put"
      /\ session'.puts = (built \ store) \cup Signatures(chosen)
      /\ session'.release = release
      /\ UNCHANGED <<store, files>>
      /\ NamesResolve(src)
  BY DEF Publish, disk, Admissible
<1>2. selected \subseteq changed /\ selected \subseteq Slug
  BY SelectChanged, OwnedVersion, Zenon DEF Changed, Declared
<1>3. \A s \in selected : \A d \in Deps[s] : d \in changed => d \in selected
  BY <1>2 DEF Select
<1>4. \A s \in Declared(src) : Resolved(src)[s] = VersionOf(src, s)
  BY <1>1, ResolvedIs
<1>5. \A s \in selected : VersionOf(src, s) \in chosen
  <2>1. \A s \in selected : VersionOf(src, s) \in owned[s]
    BY <1>2, OwnedVersion, Zenon
  <2> QED BY <2>1
<1>6. \A d \in Declared(src) \ changed : VersionOf(src, d) \in files
  <2> SUFFICES ASSUME NEW d \in Declared(src) \ changed PROVE VersionOf(src, d) \in files
    OBVIOUS
  <2>1. Prior(lock.entries, d) = VersionOf(src, d)
    BY DEF Changed
  <2>2. VersionOf(src, d) # None
    BY DEF NoneApart, VersionOf
  <2>3. lock.entries[d] # None /\ lock.entries[d].cid = VersionOf(src, d) /\ d \in Slug
    BY <2>1, <2>2 DEF Prior, Declared
  <2> QED BY <2>3 DEF Inv, LockRecorded, RecordedWhole
<1>7. ASSUME NEW v \in chosen, v.kind = "version"
      PROVE  \A d \in DOMAIN v.deps : v.deps[d] \in files \cup chosen
  <2>1. PICK s \in selected : v \in owned[s]
    OBVIOUS
  <2>2. v = VersionOf(src, s)
    BY <1>2, <1>7, <2>1 DEF Owned, NodeObjects, TagObjects, Tagged, Retracts, Supersedes
  <2>3. DOMAIN v.deps = Deps[s] /\ \A d \in Deps[s] : v.deps[d] = Resolved(src)[d]
    BY <2>2 DEF VersionOf, Version
  <2>4. \A d \in Deps[s] : d \in Declared(src)
    BY <1>1, <1>2 DEF NamesResolve, Changed
  <2> QED BY <1>3, <1>4, <1>5, <1>6, <2>3, <2>4
<1>8. \A o : Sig(o).kind = "sig"
  BY DEF Sig
<1>9. chosen \subseteq built
  BY <1>2
<1> HIDE DEF owned, built, changed, selected, chosen
<1>10. \A v \in release : v.kind = "version" => v \in chosen
  BY <1>8 DEF Signatures
<1>11. DependsClosed(files \cup release)
  BY <1>7, <1>10 DEF ClosedInv, DependsClosed, OfKind
<1> QED BY <1>1, <1>9, <1>11 DEF ClosedInv

\* Every other step of a process that does not die keeps it.
LEMMA ClosedStep ==
    NoneApart /\ Careful /\ Inv /\ TidyInv /\ ClosedInv /\ [Next]_vars => ClosedInv'
<1> SUFFICES ASSUME NoneApart, Careful, Inv, TidyInv, ClosedInv, [Next]_vars
             PROVE  ClosedInv'
  OBVIOUS
<1>0. Idle.phase = "idle"
  BY DEF Idle
<1>1. CASE \E named \in SUBSET Slug : Publish(named)
  BY <1>1, ClosedPublish
<1>2. CASE Put
  <2>1. First(session.puts) \subseteq session.puts
    BY DEF First
  <2>2. store' = store \cup First(session.puts) /\ UNCHANGED files
    BY <1>2 DEF Put
  <2>3. session'.phase = "put" =>
           /\ session.phase = "put" /\ session'.release = session.release
           /\ session'.puts = session.puts \ First(session.puts)
    BY <1>0, <1>2 DEF Put, Inv, TypeOK, SessionOK
  <2> QED BY <2>1, <2>2, <2>3 DEF ClosedInv
<1>3. CASE Export
  <2>1. /\ session.phase = "put" /\ session.puts = {}
        /\ files' = files \cup ToExport /\ UNCHANGED <<store, session>>
    BY <1>3 DEF Export
  <2>2. session.release \cap session.unpublished = {}
    BY <1>0, <2>1 DEF Inv, TypeOK, SessionOK
  <2>3. files' = files \cup session.release
    BY <2>1, <2>2 DEF ToExport, ClosedInv, TidyInv, Accounted
  <2>4. files' \cup session.release = files \cup session.release
    BY <2>3
  <2> QED BY <2>1, <2>3, <2>4 DEF ClosedInv
<1>4. CASE \/ \E s \in Slug : Edit(s)
           \/ Build \/ RemoveStale \/ WriteDrafts
           \/ AdvanceRefused \/ AdvanceUnchanged \/ AdvanceNext \/ AdvanceManifest
           \/ AdvanceGenesis \/ WriteLock \/ ForgetPublished
  <2>1. UNCHANGED files
    BY <1>4 DEF Edit, Build, RemoveStale, WriteDrafts, AdvanceRefused, AdvanceUnchanged,
                AdvanceNext, AdvanceManifest, AdvanceGenesis, WriteLock, ForgetPublished, disk
  <2>2. session'.phase # "put"
    <3>1. CASE \/ \E s \in Slug : Edit(s)
               \/ Build \/ RemoveStale \/ WriteDrafts \/ AdvanceRefused \/ ForgetPublished
      BY <1>0, <3>1 DEF Edit, Build, RemoveStale, WriteDrafts, AdvanceRefused, ForgetPublished
    <3>2. CASE AdvanceUnchanged \/ AdvanceNext \/ AdvanceManifest \/ AdvanceGenesis \/ WriteLock
      <4>1. session.phase \in {"put", "genesis", "lock"}
        BY <3>2 DEF AdvanceUnchanged, AdvanceNext, AdvanceManifest, AdvanceGenesis, WriteLock,
                    Advancing
      <4>2. session = [ phase |-> session.phase, puts |-> session.puts,
                        release |-> session.release, unpublished |-> session.unpublished,
                        remaining |-> session.remaining, entries |-> session.entries,
                        gen |-> session.gen ]
        BY <1>0, <4>1 DEF Inv, TypeOK, SessionOK
      <4> QED BY <3>2, <4>2 DEF AdvanceUnchanged, AdvanceNext, AdvanceManifest,
                                AdvanceGenesis, WriteLock
    <3> QED BY <1>4, <3>1, <3>2
  <2> QED BY <2>1, <2>2 DEF ClosedInv
<1>5. CASE CrashPutting \/ CrashRemoving \/ CrashExporting \/ CrashWriting
  <2>1. crashes < MaxCrashes /\ crashes \in 0..MaxCrashes
    BY <1>5 DEF CrashPutting, CrashRemoving, CrashExporting, CrashWriting, Die, Inv, TypeOK
  <2> QED BY <2>1 DEF Careful
<1>6. CASE UNCHANGED vars
  BY <1>6 DEF vars, ClosedInv
<1> QED BY <1>1, <1>2, <1>3, <1>4, <1>5, <1>6 DEF Next, Command

\* A corpus within its bound is never refused the advance: nothing is cut
\* short, nothing recorded is missing, and nothing cites what is not there.
LEMMA NotRefused == GenerationInv /\ TidyInv /\ ClosedInv /\ Within => ~AdvanceRefused
BY DEF AdvanceRefused, AdvanceAccepts, GenerationInv, SoundGeneration, TidyInv, ClosedInv, Within

\* Drafts leave nothing behind, in the workspace or outside it, for an author
\* who builds before publishing, as long as no process dies and the corpus
\* keeps within its bound: a publish refused for its size has stored tags that
\* the next one exports.
THEOREM DraftsForgotten ==
    NoneApart /\ Careful => (Spec /\ []Within => []DraftsLeaveNothing)
<1> SUFFICES ASSUME NoneApart, Careful PROVE Spec /\ []Within => []DraftsLeaveNothing
  OBVIOUS
<1>1. Init => TidyInv /\ ClosedInv
  BY DEF Init, Idle, TidyInv, Accounted, ClosedInv, DependsClosed, OfKind
<1>2. Inv /\ GenerationInv /\ TidyInv /\ ClosedInv /\ Within /\ [Next]_vars
         => TidyInv' /\ ClosedInv'
  BY TidyStep, ClosedStep, NotRefused
<1>3. TidyInv => DraftsLeaveNothing
  BY DEF TidyInv, Accounted, DraftsLeaveNothing, DraftsStayLocal, NoHistory
<1> QED BY <1>1, <1>2, <1>3, GenerationInit, GenerationStep, Invariance, PTL DEF Spec

----------------------------------------------------------------------------
(* Tags, for an author who builds before publishing.                       *)

\* A tag is told from another by its target and text alone, and withdrawn
\* only with another tag of the same target.
TagShape(objects) ==
    \A o \in objects :
       /\ o.kind = "tagged" => o = Tagged(o.target, o.tag)
       /\ o.kind = "retracts" =>
             /\ o.from.kind = "tagged"
             /\ o.from.target = o.to.target /\ o.from.tag # o.to.tag

\* Each row's lineage is its own publet's.
OwnLineages(entries) ==
    \A s \in Slug : entries[s] # None => entries[s].genesis.slug = s

\* A row's tag is in objects/, or on its way there.
TagInv ==
    /\ TagShape(store)
    /\ session.phase \in {"draft", "put"} => TagShape(session.puts)
    /\ OwnLineages(lock.entries)
    /\ session.phase \in {"put", "genesis", "lock"} => OwnLineages(session.entries)
    /\ \A s \in Slug : lock.entries[s] # None => Filed(lock.entries[s]) \in files
    /\ session.phase = "put" =>
          \A s \in Slug : session.entries[s] # None =>
             \/ Filed(session.entries[s]) \in files
             \/ /\ Filed(session.entries[s]) \in store \cup session.puts
                /\ Filed(session.entries[s]) \notin session.unpublished
    /\ session.phase \in {"genesis", "lock"} =>
          \A s \in Slug : session.entries[s] # None => Filed(session.entries[s]) \in files

\* A row's lineage, the one recorded or the version itself, is its publet's.
LEMMA RowLineage ==
    ASSUME NEW sources, NEW entries, NEW s \in Slug, OwnLineages(entries), sources[s] # None
    PROVE  Rows(sources, entries)[s].genesis.slug = s
BY DEF OwnLineages, Rows, GenesisOf, VersionOf, Version

\* Build::tag files a tag the graph does not have, for the publet's own
\* lineage, and withdraws only another tag of it.
LEMMA TagFiled ==
    ASSUME NEW sources, NEW entries, NEW graph, NEW s \in Slug,
           OwnLineages(entries)
    PROVE  /\ TagShape(Owned(sources, entries, graph, TRUE)[s])
           /\ \A o \in Owned(sources, entries, graph, TRUE)[s] :
                 o.kind = "tagged" => o.target.slug = s
           /\ sources[s] # None =>
                 \/ Rows(sources, entries)[s].tag
                      \in TagsOf(graph, Rows(sources, entries)[s].genesis)
                 \/ Filed(Rows(sources, entries)[s]) \in Owned(sources, entries, graph, TRUE)[s]
<1> DEFINE genesis == GenesisOf(entries, s, VersionOf(sources, s))
           filed   == Tagged(genesis, sources[s].tag)
           nodes   == NodeObjects(sources, entries, s)
           tags    == TagObjects(sources, entries, graph, s)
<1>1. \A o \in nodes : o.kind \notin {"tagged", "retracts"}
  BY DEF NodeObjects, VersionOf, Version, Supersedes
<1>2. CASE sources[s] = None
  BY <1>2 DEF Owned, TagShape
<1>3. CASE sources[s] # None
  <2>1. genesis.slug = s
    BY DEF OwnLineages, GenesisOf, VersionOf, Version
  <2>2. filed.kind = "tagged" /\ filed = Tagged(filed.target, filed.tag)
        /\ filed.target = genesis /\ filed.tag = sources[s].tag
    BY DEF Tagged
  <2>3. \A o \in tags :
           \/ o = filed
           \/ \E u : u # sources[s].tag /\ o = Retracts(filed, Tagged(genesis, u))
    <3> DEFINE previous == IF entries[s] = None THEN sources[s].tag ELSE entries[s].tag
    <3>1. tags = IF sources[s].tag \in TagsOf(graph, genesis) THEN {}
                 ELSE IF previous # sources[s].tag /\ Tagged(genesis, previous) \in graph
                         /\ ~IsRetracted(graph, Tagged(genesis, previous))
                      THEN {filed, Retracts(filed, Tagged(genesis, previous))}
                      ELSE {filed}
      BY Zenon DEF TagObjects
    <3> HIDE DEF previous, tags, filed, genesis
    <3> QED BY <3>1
  <2>4. \A u : LET o == Retracts(filed, Tagged(genesis, u))
               IN  /\ o.kind = "retracts" /\ o.from = filed
                   /\ o.to.target = genesis /\ o.to.tag = u
    BY DEF Retracts, Tagged
  <2>5. sources[s].tag \in TagsOf(graph, genesis) \/ filed \in tags
    BY DEF TagObjects
  <2>6. Owned(sources, entries, graph, TRUE)[s] = nodes \cup tags
    BY <1>3 DEF Owned
  <2>7. /\ Rows(sources, entries)[s].genesis = genesis
        /\ Rows(sources, entries)[s].tag = sources[s].tag
        /\ Filed(Rows(sources, entries)[s]) = filed
    BY <1>3 DEF Rows, Filed
  <2> HIDE DEF genesis, filed, nodes, tags
  <2>8. TagShape(tags) /\ \A o \in tags : o.kind = "tagged" => o.target.slug = s
    BY <2>1, <2>2, <2>3, <2>4 DEF TagShape
  <2>9. /\ TagShape(Owned(sources, entries, graph, TRUE)[s])
        /\ \A o \in Owned(sources, entries, graph, TRUE)[s] :
              o.kind = "tagged" => o.target.slug = s
    BY <1>1, <2>6, <2>8 DEF TagShape
  <2> QED BY <2>1, <2>5, <2>6, <2>7, <2>9
<1> QED BY <1>2, <1>3

\* A publish of what was built: a tag the store has already is no draft, for
\* drafts have no tags, nor another publet's, so it is exported; the others
\* it files.
LEMMA TagPublish ==
    ASSUME BuildFirst, Inv, TagInv, NEW named \in SUBSET Slug, Publish(named)
    PROVE  TagInv'
<1> DEFINE owned    == Owned(src, lock.entries, store, TRUE)
           built    == UNION {owned[s] : s \in Slug}
           selected == Select(Changed(src, lock.entries), named)
           chosen   == UNION {owned[s] : s \in selected}
           release  == chosen \cup Signatures(chosen)
<1>1. /\ session' =
            [ phase       |-> "put",
              puts        |-> (built \ store) \cup Signatures(chosen),
              release     |-> release,
              unpublished |-> (drafts \cup built) \ release,
              remaining   |-> built \ release,
              entries     |-> PublishedRows(selected),
              gen         |-> None ]
      /\ drafts = Drafted
      /\ UNCHANGED <<src, store, lock, files>>
  BY DEF Publish, disk
<1>2. selected \subseteq Slug /\ \A s \in selected : src[s] # None
  BY SelectChanged, OwnedVersion, Zenon DEF Changed, Declared
<1>3. \A s \in Slug : /\ TagShape(owned[s])
                      /\ \A o \in owned[s] : o.kind = "tagged" => o.target.slug = s
  <2> SUFFICES ASSUME NEW s \in Slug
               PROVE  /\ TagShape(Owned(src, lock.entries, store, TRUE)[s])
                      /\ \A o \in Owned(src, lock.entries, store, TRUE)[s] :
                            o.kind = "tagged" => o.target.slug = s
    OBVIOUS
  <2>1. OwnLineages(lock.entries)
    BY DEF TagInv
  <2>2. TagShape(Owned(src, lock.entries, store, TRUE)[s])
    BY <2>1, TagFiled, Zenon
  <2>3. \A o \in Owned(src, lock.entries, store, TRUE)[s] :
           o.kind = "tagged" => o.target.slug = s
    BY <2>1, TagFiled, Zenon
  <2> QED BY <2>2, <2>3
<1>4. TagShape(built)
  BY <1>3 DEF TagShape
<1>5. \A o \in drafts : o.kind # "tagged"
  <2>1. \A s \in Slug : \A o \in Owned(src, lock.entries, store, FALSE)[s] : o.kind # "tagged"
    BY OwnedWithTags
  <2> QED BY <1>1, <2>1 DEF Drafted
<1>6. chosen \subseteq built
  BY <1>2
<1>7. ASSUME NEW s \in selected
      PROVE  LET row == PublishedRows(selected)[s]
             IN  /\ row.genesis.slug = s
                 /\ Filed(row) \in store \cup chosen
                 /\ Filed(row) \notin (drafts \cup built) \ release
  <2> DEFINE row == PublishedRows(selected)[s]
  <2>1. s \in Slug /\ src[s] # None /\ row = Rows(src, lock.entries)[s]
    BY <1>2 DEF PublishedRows
  <2>2. /\ row.genesis.slug = s
        /\ row.tag \in TagsOf(store, row.genesis) \/ Filed(row) \in owned[s]
    <3>1. OwnLineages(lock.entries)
      BY DEF TagInv
    <3>2. Rows(src, lock.entries)[s].genesis.slug = s
      BY <2>1, <3>1, RowLineage
    <3>3. \/ Rows(src, lock.entries)[s].tag
               \in TagsOf(store, Rows(src, lock.entries)[s].genesis)
          \/ Filed(Rows(src, lock.entries)[s]) \in Owned(src, lock.entries, store, TRUE)[s]
      BY <2>1, <3>1, TagFiled
    <3> HIDE DEF row
    <3> QED BY <2>1, <3>2, <3>3
  <2>3. Filed(row).kind = "tagged" /\ Filed(row).target = row.genesis
    BY DEF Filed, Tagged
  <2> HIDE DEF row
  <2>4. row.tag \in TagsOf(store, row.genesis) => Filed(row) \in store
    <3> SUFFICES ASSUME row.tag \in TagsOf(store, row.genesis) PROVE Filed(row) \in store
      OBVIOUS
    <3>1. PICK o \in store : o.kind = "tagged" /\ o.target = row.genesis /\ o.tag = row.tag
      BY DEF TagsOf, OfKind
    <3>2. o = Filed(row)
      BY <3>1 DEF TagInv, TagShape, Filed
    <3> QED BY <3>1, <3>2
  <2>5. Filed(row) \in built => Filed(row) \in chosen
    <3> SUFFICES ASSUME Filed(row) \in built PROVE Filed(row) \in chosen
      OBVIOUS
    <3>1. PICK r \in Slug : Filed(row) \in owned[r]
      OBVIOUS
    <3>2. r = s
      BY <1>3, <2>2, <2>3, <3>1
    <3> QED BY <3>1, <3>2
  <2>6. Filed(row) \in store \cup chosen
    BY <2>2, <2>4
  <2>7. Filed(row) \notin drafts
    BY <1>5, <2>3
  <2> QED BY <2>2, <2>5, <2>6, <2>7 DEF row
<1> HIDE DEF owned, built, selected, chosen
<1>8. \A o \in Signatures(chosen) : o.kind = "sig"
  <2>1. \A o : Sig(o).kind = "sig"
    BY DEF Sig
  <2> QED BY <2>1 DEF Signatures
<1>9. TagShape(session'.puts)
  BY <1>1, <1>4, <1>8 DEF TagShape
<1>10. ASSUME NEW s \in Slug, session'.entries[s] # None
       PROVE  /\ session'.entries[s].genesis.slug = s
              /\ \/ Filed(session'.entries[s]) \in files
                 \/ /\ Filed(session'.entries[s]) \in store \cup session'.puts
                    /\ Filed(session'.entries[s]) \notin session'.unpublished
  <2>1. CASE s \in selected
    BY <1>1, <1>6, <1>7, <2>1
  <2>2. CASE s \notin selected
    <3>1. session'.entries[s] = lock.entries[s]
      BY <1>1, <2>2 DEF PublishedRows
    <3> QED BY <1>10, <3>1 DEF TagInv, OwnLineages
  <2> QED BY <2>1, <2>2
<1>11. session'.phase = "put" /\ UNCHANGED <<store, lock, files>>
  BY <1>1
<1> QED BY <1>9, <1>10, <1>11 DEF TagInv, OwnLineages

\* Every other step keeps it, a process that dies included: what it put will
\* be exported by the next publish.
LEMMA TagStep == BuildFirst /\ Inv /\ TagInv /\ [Next]_vars => TagInv'
<1> SUFFICES ASSUME BuildFirst, Inv, TagInv, [Next]_vars
             PROVE  TagInv'
  OBVIOUS
<1>0. Idle.phase = "idle"
  BY DEF Idle
<1>s. session.phase \in {"put", "genesis", "lock", "forget"} =>
        session = [ phase |-> session.phase, puts |-> session.puts,
                    release |-> session.release, unpublished |-> session.unpublished,
                    remaining |-> session.remaining, entries |-> session.entries,
                    gen |-> session.gen ]
  BY <1>0 DEF Inv, TypeOK, SessionOK
<1>1. CASE (\E s \in Slug : Edit(s)) \/ WriteDrafts \/ ForgetPublished \/ AdvanceRefused
  <2>1. UNCHANGED <<store, lock, files>> /\ session'.phase = "idle"
    BY <1>0, <1>1 DEF Edit, WriteDrafts, ForgetPublished, AdvanceRefused, disk
  <2> QED BY <2>1 DEF TagInv
<1>2. CASE Build
  <2>1. /\ session'.phase = "draft" /\ session'.puts = Drafted \ store
        /\ UNCHANGED <<store, lock, files>>
    BY <1>2 DEF Build, disk
  <2>2. TagShape(Drafted)
    <3>1. \A s \in Slug : TagShape(Owned(src, lock.entries, store, FALSE)[s])
      BY OwnedWithTags DEF TagShape
    <3> QED BY <3>1 DEF Drafted, TagShape
  <2> QED BY <2>1, <2>2 DEF TagInv, TagShape
<1>3. CASE \E named \in SUBSET Slug : Publish(named)
  BY <1>3, TagPublish
<1>4. CASE Put
  <2>1. First(session.puts) \subseteq session.puts
    BY DEF First
  <2>2. store' = store \cup First(session.puts) /\ UNCHANGED <<lock, files>>
    BY <1>4 DEF Put
  <2>3. CASE session.phase = "draft"
    <3>1. session = [phase |-> "draft", puts |-> session.puts, owned |-> session.owned]
      BY <1>0, <2>3 DEF Inv, TypeOK, SessionOK
    <3>2. session'.phase = "draft" /\ session'.puts = session.puts \ First(session.puts)
      BY <1>4, <3>1 DEF Put
    <3> QED BY <2>1, <2>2, <2>3, <3>2 DEF TagInv, TagShape
  <2>4. CASE session.phase = "put"
    <3>1. /\ session'.phase = "put" /\ session'.puts = session.puts \ First(session.puts)
          /\ session'.entries = session.entries
          /\ session'.unpublished = session.unpublished
      BY <1>4, <1>s, <2>4 DEF Put
    <3> QED BY <2>1, <2>2, <2>4, <3>1 DEF TagInv, TagShape
  <2> QED BY <1>4, <2>3, <2>4 DEF Put
<1>5. CASE RemoveStale
  <2>1. store' \subseteq store /\ UNCHANGED <<lock, files, session>> /\ session.phase = "draft"
    BY <1>5 DEF RemoveStale
  <2> QED BY <2>1 DEF TagInv, TagShape
<1>6. CASE Export
  <2>1. session.phase = "put" /\ files' = files \cup ToExport /\ UNCHANGED <<store, lock, session>>
    BY <1>6 DEF Export
  <2> QED BY <2>1 DEF TagInv
<1>7. CASE AdvanceUnchanged \/ AdvanceNext \/ AdvanceManifest \/ AdvanceGenesis
  <2>1. /\ UNCHANGED <<store, lock, files>>
        /\ session.phase \in {"put", "genesis"}
        /\ session.phase = "put" => Advancing /\ AdvanceAccepts
    BY <1>7 DEF AdvanceUnchanged, AdvanceNext, AdvanceManifest, AdvanceGenesis, Advancing, disk
  <2>2. session'.phase \in {"genesis", "lock"} /\ session'.entries = session.entries
    BY <1>7, <1>s, <2>1 DEF AdvanceUnchanged, AdvanceNext, AdvanceManifest, AdvanceGenesis
  <2>3. session.phase = "put" => (store \cup session.puts) \ session.unpublished \subseteq files
    BY <2>1 DEF Advancing, AdvanceAccepts, ToExport
  <2> QED BY <2>1, <2>2, <2>3 DEF TagInv
<1>8. CASE WriteLock
  <2>1. /\ session'.phase = "forget" /\ session.phase = "lock"
        /\ lock'.entries = session.entries /\ UNCHANGED <<store, files>>
    BY <1>8, <1>s DEF WriteLock
  <2> QED BY <2>1 DEF TagInv
<1>9. CASE CrashPutting \/ CrashRemoving \/ CrashExporting \/ CrashWriting
  <2>1. /\ lock' \in {lock, NoLock} /\ session' = Idle /\ files \subseteq files'
        /\ TagShape(store')
    <3>1. First(session.puts) \subseteq session.puts
      BY DEF First
    <3>2. CASE CrashPutting
      BY <3>1, <3>2 DEF CrashPutting, Die, TagInv, TagShape
    <3>3. CASE CrashRemoving \/ CrashExporting \/ CrashWriting
      BY <3>3 DEF CrashRemoving, CrashExporting, CrashWriting, Truncated, Die, TagInv, TagShape
    <3> QED BY <1>9, <3>2, <3>3
  <2>2. CASE lock' = lock
    BY <1>0, <2>1, <2>2 DEF TagInv
  <2>3. CASE lock' = NoLock
    BY <1>0, <2>1, <2>3 DEF TagInv, OwnLineages, NoLock
  <2> QED BY <2>1, <2>2, <2>3
<1>10. CASE UNCHANGED vars
  BY <1>10 DEF vars, TagInv
<1> QED BY <1>1, <1>2, <1>3, <1>4, <1>5, <1>6, <1>7, <1>8, <1>9, <1>10
        DEF Next, Command

\* The tag of every row is an annotation in objects/, for an author who
\* builds before publishing, wherever publishes die; and it is live unless
\* the row went back to a tag withdrawn earlier.
THEOREM TagsPublished == BuildFirst => (Spec => []TagsExported)
<1> SUFFICES ASSUME BuildFirst PROVE Spec => []TagsExported
  OBVIOUS
<1>1. Init => TagInv
  BY DEF Init, NoLock, Idle, TagInv, TagShape, OwnLineages
<1>2. Inv /\ TagInv /\ [Next]_vars => TagInv'
  BY TagStep
<1>3. Inv /\ TagInv => TagsExported
  <2> SUFFICES ASSUME Inv, TagInv, NEW s \in Slug, lock.entries[s] # None
               PROVE  LET row == lock.entries[s]
                      IN  /\ Filed(row) \in files
                          /\ row.tag \in TagsOf(files, row.genesis) \/ WentBack(row)
    BY DEF TagsExported
  <2> DEFINE row == lock.entries[s]
  <2>1. Filed(row) \in files
    BY DEF TagInv
  <2>2. Filed(row).kind = "tagged" /\ Filed(row).target = row.genesis /\ Filed(row).tag = row.tag
    BY DEF Filed, Tagged
  <2> HIDE DEF row
  <2>3. ASSUME ~IsRetracted(files, Filed(row)) PROVE row.tag \in TagsOf(files, row.genesis)
    <3>1. Filed(row) \in {x \in OfKind(files, "tagged") :
                              x.target = row.genesis /\ ~IsRetracted(files, x)}
      BY <2>1, <2>2, <2>3 DEF OfKind
    <3>2. Filed(row).tag \in TagsOf(files, row.genesis)
      BY <3>1, Zenon DEF TagsOf
    <3> QED BY <2>2, <3>2
  <2>4. ASSUME IsRetracted(files, Filed(row)) PROVE WentBack(row)
    <3>1. PICK r \in OfKind(files, "retracts") : r.to = Filed(row) /\ r.from \in files
      BY <2>4 DEF IsRetracted
    <3>2. r \in store /\ r.kind = "retracts"
      BY <3>1 DEF OfKind, Inv, ExportedHeld
    <3>3. /\ r.from.kind = "tagged" /\ r.from.target = row.genesis
          /\ r.from.tag # row.tag
      BY <2>2, <3>1, <3>2 DEF TagInv, TagShape
    <3>4. WentBack(row)
      BY <3>1, <3>3, Zenon DEF WentBack
    <3> QED BY <3>4
  <2>5. row.tag \in TagsOf(files, row.genesis) \/ WentBack(row)
    BY <2>3, <2>4
  <2> QED BY <2>1, <2>5 DEF row
<1> QED BY <1>1, <1>2, <1>3, Invariance, PTL DEF Spec

================================================================================
