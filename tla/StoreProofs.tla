----------------------------- MODULE StoreProofs -----------------------------
(***************************************************************************)
(* What the store promises for every set of objects, domains and records,  *)
(* whatever commands its operator uses; and what a reader of it has who    *)
(* follows one of its domains by delta, where its operator keeps what the  *)
(* records add.                                                            *)
(***************************************************************************)
EXTENDS Sync, Induction

\* The manifest of a declared domain can go only by Store::remove, which
\* wants a tombstone; tombstones and the type of the state go with it.
StoreInv == StoreTypeOK /\ ManifestHeld

\* A manifest is itself among the objects a declaration commits to.
LEMMA ManifestsDeclared == declared \subseteq DeclaredMembers
BY DEF DeclaredMembers

\* Nothing is declared before its manifest is held.
LEMMA InitStoreInv == Init => StoreInv
BY DEF Init, StoreInv, StoreTypeOK, ManifestHeld, Idle

\* Commands and handlers of one object.
LEMMA ObjectSteps ==
    ASSUME StoreInv, NEW o \in Object,
           Add(o) \/ Remove(o) \/ Tombstone(o) \/ Timestamp(o)
           \/ Offer(o) \/ Accept(o)
    PROVE  StoreInv'
<1> USE DEF StoreInv, StoreTypeOK, ManifestHeld, Idle
<1>1. CASE Add(o)
  BY <1>1 DEF Add, Opens, Put
<1>2. CASE Remove(o)
  BY <1>2, ManifestsDeclared DEF Remove, Opens
<1>3. CASE Tombstone(o)
  BY <1>3 DEF Tombstone, Opens
<1>4. CASE Timestamp(o)
  BY <1>4 DEF Timestamp
<1>5. CASE Offer(o)
  BY <1>5 DEF Offer
<1>6. CASE Accept(o)
  BY <1>6 DEF Accept, Put
<1> QED BY <1>1, <1>2, <1>3, <1>4, <1>5, <1>6

\* Declarations and their withdrawal.
LEMMA DomainSteps ==
    ASSUME StoreInv, NEW d \in Domain, Declare(d) \/ Undeclare(d)
    PROVE  StoreInv'
<1> USE DEF StoreInv, StoreTypeOK, ManifestHeld, Idle
<1>1. CASE Declare(d)
  BY <1>1 DEF Declare, Opens
<1>2. CASE Undeclare(d)
  BY <1>2 DEF Undeclare, Opens
<1> QED BY <1>1, <1>2

\* A record is put before it is indexed, and indexing replaces.
LEMMA GenerationSteps ==
    ASSUME StoreInv, PutGeneration \/ \E r \in Record : Generation(r)
    PROVE  StoreInv'
<1> USE DEF StoreInv, StoreTypeOK, ManifestHeld, Idle
<1>1. CASE PutGeneration
  BY <1>1 DEF PutGeneration
<1>2. ASSUME NEW r \in Record, Generation(r) PROVE StoreInv'
  <2>1. r \in Object BY DEF Object
  <2>2. op' = [cmd |-> "generation", record |-> r] BY <1>2 DEF Generation
  <2> QED BY <1>2, <2>1, <2>2 DEF Generation, Opens, Put
<1> QED BY <1>1, <1>2

\* Garbage collection keeps every declared manifest that is held.
LEMMA OtherSteps ==
    ASSUME StoreInv,
           \/ \E c \in Object \cup Blob : Corrupt(c)
           \/ \E b \in Blob : AddBlob(b)
           \/ CollectGarbage \/ Archive \/ Archived \/ Die \/ Serve \/ Stop
    PROVE  StoreInv'
<1> USE DEF StoreInv, StoreTypeOK, ManifestHeld, Idle
<1>1. ASSUME NEW c \in Object \cup Blob, Corrupt(c) PROVE StoreInv'
  BY <1>1 DEF Corrupt
<1>2. ASSUME NEW b \in Blob, AddBlob(b) PROVE StoreInv'
  BY <1>2 DEF AddBlob, Opens
<1>3. CASE CollectGarbage
  BY <1>3, ManifestsDeclared DEF CollectGarbage, Opens
<1>4. CASE Archive
  <2>1. op' = [cmd |-> "archive", missing |-> Untimestamped] BY <1>4 DEF Archive
  <2>2. Untimestamped \subseteq Object BY DEF Untimestamped
  <2> QED BY <1>4, <2>1, <2>2 DEF Archive, Opens
<1>5. CASE Archived
  BY <1>5 DEF Archived
<1>6. CASE Die
  BY <1>6 DEF Die
<1>7. CASE Serve
  BY <1>7 DEF Serve, Opens
<1>8. CASE Stop
  BY <1>8 DEF Stop
<1> QED BY <1>1, <1>2, <1>3, <1>4, <1>5, <1>6, <1>7, <1>8

\* Every step of the node keeps it.
LEMMA StoreSteps ==
    ASSUME StoreInv, [StoreNext]_storeVars
    PROVE  StoreInv'
<1>1. CASE StoreNext
  BY <1>1, ObjectSteps, DomainSteps, GenerationSteps, OtherSteps DEF StoreNext
<1>2. CASE UNCHANGED storeVars
  BY <1>2 DEF storeVars, StoreInv, StoreTypeOK, ManifestHeld
<1> QED BY <1>1, <1>2

\* StoreInv is inductive over the operator's commands, the server's
\* handlers, deaths between transactions and changes of bytes underneath.
THEOREM StoreInvariance == StoreSpec => []StoreInv
<1>1. StoreInv /\ [StoreNext]_storeVars => StoreInv'
  BY StoreSteps
<1> QED BY <1>1, InitStoreInv, PTL DEF StoreSpec

\* The state keeps its type: in particular a domain has one record at most
\* per index, whatever is indexed again (Store::put_generation).
THEOREM StoreTypeCorrect == StoreSpec => []StoreTypeOK
BY StoreInvariance, PTL DEF StoreInv

\* A declaration stays readable: Store::declare, Store::remove and
\* Store::collect_garbage together keep its manifest, or a tombstone for it.
THEOREM DeclarationsReadable == StoreSpec => []ManifestHeld
BY StoreInvariance, PTL DEF StoreInv

\* What a step can take out of the store.
LEMMA LossDisclosed ==
    ASSUME [StoreNext]_storeVars, NEW o \in held \ held', o \in DeclaredMembers
    PROVE  o \in tombs
<1>1. ASSUME NEW p \in Object, Add(p) \/ Accept(p) PROVE FALSE
  BY <1>1 DEF Add, Accept, Put
<1>2. ASSUME NEW p \in Object, Remove(p) PROVE o \in tombs
  BY <1>2 DEF Remove
<1>3. ASSUME NEW p \in Object, Tombstone(p) \/ Timestamp(p) \/ Offer(p) PROVE FALSE
  BY <1>3 DEF Tombstone, Timestamp, Offer
<1>4. ASSUME NEW c \in Object \cup Blob, Corrupt(c) PROVE FALSE
  BY <1>4 DEF Corrupt
<1>5. ASSUME NEW b \in Blob, AddBlob(b) PROVE FALSE
  BY <1>5 DEF AddBlob
<1>6. ASSUME NEW d \in Domain, Declare(d) \/ Undeclare(d) PROVE FALSE
  BY <1>6 DEF Declare, Undeclare
<1>7. ASSUME NEW r \in Record, Generation(r) PROVE FALSE
  BY <1>7 DEF Generation, Put
<1>8. CASE CollectGarbage
  BY <1>8 DEF CollectGarbage
<1>9. CASE PutGeneration \/ Archive \/ Archived \/ Die \/ Serve \/ Stop
  BY <1>9 DEF PutGeneration, Archive, Archived, Die, Serve, Stop
<1>10. CASE UNCHANGED storeVars
  BY <1>10 DEF storeVars
<1> QED BY <1>1, <1>2, <1>3, <1>4, <1>5, <1>6, <1>7, <1>8, <1>9, <1>10 DEF StoreNext

\* No step of any command or handler takes a declared object out of the
\* store without a tombstone for it.
THEOREM LossIsDisclosed == StoreSpec => NoSilentLoss
<1>1. [StoreNext]_storeVars
        => [\A o \in held \ held' : o \in DeclaredMembers => o \in tombs]_storeVars
  BY LossDisclosed
<1> QED BY <1>1, PTL DEF StoreSpec, NoSilentLoss

----------------------------------------------------------------------------
(* What an archive run leaves behind.                                      *)

\* An annotation about `o', or `o' itself, no longer reads.
Spoilt(o) == \E a \in DOMAIN Covers \cap bad : o \in {a, Covers[a]}

\* While an archive runs nothing is stored, and what it has still to
\* timestamp is all that is without a timestamp, but for what was spoilt.
ArchiveInv ==
    /\ op # Idle => ~serving
    /\ op.cmd = "archive" =>
          \A o \in held : o \in stamps \cup op.missing \cup Covered \/ Spoilt(o)

\* What is covered stays covered until an annotation goes or is garbled.
LEMMA CoverStays ==
    ASSUME NEW o \in Covered
    PROVE  \/ o \in Covered'
           \/ \E a \in DOMAIN Covers \cap ((held \ held') \cup bad') : o \in {a, Covers[a]}
<1>1. PICK a \in DOMAIN Covers \cap (held \ bad) : o \in {a, Covers[a]}
  BY DEF Covered
<1>2. CASE a \in held' /\ a \notin bad'
  BY <1>1, <1>2 DEF Covered
<1>3. CASE ~(a \in held' /\ a \notin bad')
  BY <1>1, <1>3
<1> QED BY <1>2, <1>3

\* Only the archive's own steps and changes of bytes happen while it runs.
LEMMA ArchiveSteps ==
    ASSUME StoreInv, ArchiveInv, [StoreNext]_storeVars
    PROVE  ArchiveInv'
<1> USE DEF ArchiveInv, Idle, Opens
<1>1. ASSUME NEW o \in Object, Add(o) \/ Remove(o) \/ Tombstone(o) \/ Offer(o) \/ Accept(o)
      PROVE  ArchiveInv'
  BY <1>1 DEF Add, Remove, Tombstone, Offer, Accept
<1>2. ASSUME NEW o \in Object, Timestamp(o) PROVE ArchiveInv'
  <2>1. op.cmd = "archive" /\ op # Idle /\ op = [cmd |-> "archive", missing |-> op.missing]
    BY <1>2 DEF Timestamp, StoreInv, StoreTypeOK
  <2>2. op' = [cmd |-> "archive", missing |-> op.missing \ {o}]
    BY <1>2, <2>1 DEF Timestamp
  <2>3. /\ stamps' = stamps \cup {o}
        /\ UNCHANGED <<held, bad, serving>>
    BY <1>2 DEF Timestamp
  <2>4. op'.cmd = "archive" /\ op'.missing = op.missing \ {o} /\ Covered' = Covered
        /\ \A x : Spoilt(x)' <=> Spoilt(x)
    BY <2>2, <2>3 DEF Covered, Spoilt
  <2> QED BY <2>1, <2>3, <2>4
<1>3. ASSUME NEW c \in Object \cup Blob, Corrupt(c) PROVE ArchiveInv'
  <2>1. /\ bad' = bad \cup {c}
        /\ UNCHANGED <<held, stamps, op, serving>>
    BY <1>3 DEF Corrupt
  <2>2. ASSUME op.cmd = "archive", NEW o \in held
        PROVE  o \in stamps \cup op.missing \cup Covered' \/ Spoilt(o)'
    <3>1. CASE o \in Covered
      BY <2>1, <3>1, CoverStays DEF Spoilt
    <3>2. CASE o \in stamps \cup op.missing \/ Spoilt(o)
      BY <2>1, <3>2 DEF Spoilt
    <3> QED BY <2>2, <3>1, <3>2
  <2> QED BY <2>1, <2>2
<1>4. ASSUME NEW b \in Blob, AddBlob(b) PROVE ArchiveInv'
  BY <1>4 DEF AddBlob
<1>5. ASSUME NEW d \in Domain, Declare(d) \/ Undeclare(d) PROVE ArchiveInv'
  BY <1>5 DEF Declare, Undeclare
<1>6. ASSUME NEW r \in Record, Generation(r) PROVE ArchiveInv'
  BY <1>6 DEF Generation
<1>7. CASE CollectGarbage \/ PutGeneration \/ Archived \/ Die \/ Serve \/ Stop
  BY <1>7 DEF CollectGarbage, PutGeneration, Archived, Die, Serve, Stop
<1>8. CASE Archive
  <2>1. /\ op' = [cmd |-> "archive", missing |-> Untimestamped]
        /\ ~serving
        /\ UNCHANGED <<held, bad, stamps, serving>>
    BY <1>8 DEF Archive
  <2>2. Covered' = Covered
    BY <2>1 DEF Covered
  <2> QED BY <2>1, <2>2 DEF Untimestamped
<1>9. CASE UNCHANGED storeVars
  BY <1>9 DEF storeVars, Covered, Spoilt
<1> QED BY <1>1, <1>2, <1>3, <1>4, <1>5, <1>6, <1>7, <1>8, <1>9 DEF StoreNext

\* What an archive run leaves is timestamped (pub-store archive), and stays
\* so until an annotation about it goes or is garbled, whatever commands
\* and offers follow.
THEOREM ArchiveLasts == StoreSpec => ArchivedStays
<1> DEFINE Lost(o) == \E a \in DOMAIN Covers \cap ((held \ held') \cup bad') : o \in {a, Covers[a]}
           Stays == \A o \in archived' :
                       (o \notin archived \/ o \in stamps \cup Covered) =>
                          o \in (stamps \cup Covered)' \/ Lost(o)
<1>1. Init => ArchiveInv
  BY DEF Init, ArchiveInv, Idle
<1>2. StoreInv /\ ArchiveInv /\ [StoreNext]_storeVars => ArchiveInv'
  BY ArchiveSteps
<1>3. ASSUME StoreInv, ArchiveInv, StoreNext PROVE Stays
  <2>1. stamps \subseteq stamps'
    BY <1>3 DEF StoreNext, Add, Remove, Tombstone, Timestamp, Offer, Accept, Corrupt, AddBlob,
                Declare, Undeclare, Generation, CollectGarbage, PutGeneration, Archive, Archived,
                Die, Serve, Stop
  <2>2. archived' \subseteq archived \/ Archived
    BY <1>3 DEF StoreNext, Add, Remove, Tombstone, Timestamp, Offer, Accept, Corrupt, AddBlob,
                Declare, Undeclare, Generation, CollectGarbage, PutGeneration, Archive,
                Die, Serve, Stop
  <2>3. ASSUME NEW o \in stamps \cup Covered
        PROVE  o \in (stamps \cup Covered)' \/ Lost(o)
    BY <2>1, CoverStays
  <2>4. ASSUME Archived, NEW o \in held
        PROVE  o \in (stamps \cup Covered)' \/ Lost(o)
    <3>1. op.cmd = "archive" /\ op.missing = {} /\ UNCHANGED <<held, bad, stamps>>
      BY <2>4 DEF Archived
    <3>2. o \in stamps \cup Covered \/ Spoilt(o)
      BY <1>3, <3>1 DEF ArchiveInv
    <3> QED BY <2>3, <3>1, <3>2 DEF Spoilt
  <2>5. CASE archived' \subseteq archived
    BY <2>3, <2>5
  <2>6. CASE Archived
    <3>1. archived' = held BY <2>6 DEF Archived
    <3> QED BY <2>4, <2>6, <3>1
  <2> QED BY <2>2, <2>5, <2>6
<1>4. StoreInv /\ ArchiveInv /\ [StoreNext]_storeVars
        => [\A o \in archived' :
              (o \notin archived \/ o \in stamps \cup Covered) =>
                 \/ o \in (stamps \cup Covered)'
                 \/ \E a \in DOMAIN Covers \cap ((held \ held') \cup bad') : o \in {a, Covers[a]}
           ]_storeVars
  BY <1>3
<1> QED BY <1>1, <1>2, <1>4, StoreInvariance, PTL DEF StoreSpec, ArchivedStays

----------------------------------------------------------------------------
(* Following a domain.                                                     *)

\* A publisher of one record for each generation, none of which is itself
\* an object that a record adds.
OneHistory ==
    /\ \A r, q \in Record : r.domain = q.domain /\ r.index = q.index => r = q
    /\ \A r \in Record : r.added \cap Record = {}

\* All of the generations of a delta are there.
Spanned(from, to) ==
    /\ from \in {0, at} /\ to \in Nat /\ from <= to
    /\ Span(from, to) \subseteq Indices(Followed)

\* What a sync in progress has of its delta: the records first, then the
\* objects, but for those missed, and the rest still to be read or stored.
SyncSound ==
    /\ sync.phase \in {"rest", "delta", "read", "store"}
    /\ sync.phase = "rest" => sync = Resting
    /\ sync.phase = "delta" =>
          /\ sync = [phase |-> "delta", from |-> sync.from, to |-> sync.to, given |-> sync.given]
          /\ sync.from \in {0, at} /\ sync.to \in Int
    /\ sync.phase \in {"read", "store"} =>
          /\ sync = [phase |-> sync.phase, from |-> sync.from, to |-> sync.to,
                     todo |-> sync.todo, pack |-> sync.pack]
          /\ Spanned(sync.from, sync.to)
          /\ sync.pack \cap Record = RecordsIn(sync.from, sync.to)
    /\ sync.phase = "read" =>
          /\ sync.todo \subseteq AddedBetween(sync.from, sync.to)
          /\ AddedBetween(sync.from, sync.to) \subseteq sync.pack \cup sync.todo \cup missed
          /\ sync.todo \subseteq (held \ bad) \cup missed
    /\ sync.phase = "store" =>
          /\ AddedBetween(sync.from, sync.to) \subseteq sync.pack \cup missed
          /\ sync.pack \subseteq replica \cup sync.todo

FollowInv ==
    /\ StoreInv /\ IsFiniteSet(gens)
    /\ at \in Nat /\ 1..at \subseteq Indices(Followed)
    /\ ReplicaWhole
    /\ SyncSound

\* With one history a record that is indexed stays so, whatever commands
\* are used: no table of a store loses generations.
LEMMA GenerationsStay ==
    ASSUME OneHistory, StoreInv, IsFiniteSet(gens), [StoreNext]_storeVars
    PROVE  gens \subseteq gens' /\ IsFiniteSet(gens')
<1>1. CASE PutGeneration
  <2>1. op.record \in Record /\ gens \subseteq Record
    BY <1>1 DEF PutGeneration, StoreInv, StoreTypeOK, Idle
  <2>2. gens' = {r \in gens : r.domain # op.record.domain \/ r.index # op.record.index}
                  \cup {op.record}
    BY <1>1 DEF PutGeneration
  <2>3. gens' = gens \cup {op.record}
    BY <2>1, <2>2 DEF OneHistory
  <2> QED BY <2>3, FS_AddElement
<1>2. CASE ~PutGeneration
  <2>1. gens' = gens
    BY <1>2 DEF StoreNext, Add, Remove, Tombstone, Timestamp, Offer, Accept, Corrupt, AddBlob,
                Declare, Undeclare, Generation, CollectGarbage, Archive, Archived,
                Die, Serve, Stop, storeVars
  <2> QED BY <2>1
<1> QED BY <1>1, <1>2

\* What a delta spans does not change once it is all indexed.
LEMMA DeltaStays ==
    ASSUME OneHistory, gens \subseteq gens', gens' \subseteq Record,
           NEW from \in Nat, NEW to \in Nat, Span(from, to) \subseteq Indices(Followed)
    PROVE  /\ RecordsIn(from, to)' = RecordsIn(from, to)
           /\ AddedBetween(from, to)' = AddedBetween(from, to)
<1>1. RecordsIn(from, to)' = RecordsIn(from, to)
  <2>1. ASSUME NEW r \in gens', r.domain = Followed, r.index \in Span(from, to)
        PROVE  r \in gens
    BY <2>1 DEF OneHistory, Indices, Indexed
  <2> QED BY <2>1 DEF RecordsIn, Indexed
<1> QED BY <1>1 DEF AddedBetween

\* Whatever the node does, what a sync still has to read is there, or has
\* been noted as missed.
LEMMA NodeStepsFollow ==
    ASSUME OneHistory, FollowInv, StoreNext, UNCHANGED syncVars,
           missed' = missed \cup Unreadable'
    PROVE  FollowInv'
<1>1. StoreInv' /\ IsFiniteSet(gens') /\ gens \subseteq gens' /\ gens' \subseteq Record
  BY StoreSteps, GenerationsStay DEF FollowInv, StoreInv, StoreTypeOK
<1>2. UNCHANGED <<replica, at, sync>> /\ missed \subseteq missed'
  BY DEF syncVars
<1>3. Indices(Followed) \subseteq Indices(Followed)'
  BY <1>1 DEF Indices, Indexed
<1>4. at' \in Nat /\ 1..at' \subseteq Indices(Followed)'
  BY <1>2, <1>3 DEF FollowInv
<1>5. ReplicaWhole'
  <2> SUFFICES ASSUME NEW r \in gens', r.domain = Followed, r.index \in 1..at
               PROVE  r \in replica /\ r.added \subseteq replica \cup missed
    BY <1>2 DEF ReplicaWhole, Indexed
  <2>1. PICK q \in gens : q.domain = Followed /\ q.index = r.index
    BY DEF FollowInv, Indices, Indexed
  <2>2. q = r
    BY <1>1, <2>1 DEF OneHistory
  <2> QED BY <2>1, <2>2 DEF FollowInv, ReplicaWhole, Indexed
<1>6. SyncSound'
  <2>1. CASE sync.phase \in {"rest", "delta"}
    BY <1>2, <2>1 DEF FollowInv, SyncSound
  <2>2. CASE sync.phase \in {"read", "store"}
    <3> DEFINE from == sync.from
               to == sync.to
    <3>1. from \in Nat /\ to \in Nat /\ from \in {0, at} /\ from <= to
          /\ Span(from, to) \subseteq Indices(Followed)
      BY <2>2 DEF FollowInv, SyncSound, Spanned
    <3> HIDE DEF from, to
    <3>2. /\ RecordsIn(from, to)' = RecordsIn(from, to)
          /\ AddedBetween(from, to)' = AddedBetween(from, to)
      <4>1. \A f, t : /\ f \in Nat /\ t \in Nat /\ Span(f, t) \subseteq Indices(Followed)
                      => /\ RecordsIn(f, t)' = RecordsIn(f, t)
                         /\ AddedBetween(f, t)' = AddedBetween(f, t)
        BY <1>1, DeltaStays
      <4>2. from' = from /\ to' = to
        BY <1>2 DEF from, to
      <4> QED BY <3>1, <4>1, <4>2
    <3>3. Spanned(from, to)'
      BY <1>2, <1>3, <3>1 DEF Spanned, Span, from, to
    <3>4. sync.phase = "read" => sync.todo \subseteq (held \ bad)' \cup missed'
      BY <1>2 DEF Unreadable
    <3> QED BY <1>1, <1>2, <2>2, <3>2, <3>3, <3>4 DEF FollowInv, SyncSound, from, to
  <2> QED BY <2>1, <2>2 DEF FollowInv, SyncSound
<1> QED BY <1>1, <1>4, <1>5, <1>6 DEF FollowInv

\* The greatest of a finite set of integers is one of them.
LEMMA MaxIsMember ==
    ASSUME NEW S \in SUBSET Int, IsFiniteSet(S), S # {}
    PROVE  Max(S) \in S
<1>1. \E n \in S : \A m \in S : n >= m
  BY FiniteHasGreatest
<1> QED BY <1>1 DEF Max

\* The checkpoints a node offers lead to some generation.
LEMMA TargetTyped ==
    ASSUME FollowInv, Indices(Followed) # {}, NEW from \in Int
    PROVE  Target(from) \in Int
<1> DEFINE head == HeadGeneration(Followed)
           powers == {j \in 0..head : 2^j <= head}
           points == {head - 2^k : k \in powers}
<1>1. IsFiniteSet(Indexed(Followed)) /\ \A r \in Indexed(Followed) : r.index \in Int
  <2>1. Indexed(Followed) \subseteq gens /\ gens \subseteq Record /\ IsFiniteSet(gens)
    BY DEF Indexed, FollowInv, StoreInv, StoreTypeOK
  <2> QED BY <2>1, FS_Subset, StoreAssumption
<1>2. IsFiniteSet(Indices(Followed)) /\ Indices(Followed) \in SUBSET Int
  <2>1. [r \in Indexed(Followed) |-> r.index] \in Surjection(Indexed(Followed), Indices(Followed))
    BY DEF Surjection, Indices
  <2>2. IsFiniteSet(Indices(Followed))
    BY <1>1, <2>1, FS_Surjection
  <2> QED BY <1>1, <2>2 DEF Indices
<1>3. head \in Int
  BY <1>2, MaxIsMember DEF HeadGeneration
<1> HIDE DEF head
<1>4. IsFiniteSet(powers) /\ powers \in SUBSET Nat
  <2>1. IsFiniteSet(0..head)
    BY <1>3, FS_Interval
  <2>2. powers \subseteq 0..head
    OBVIOUS
  <2> QED BY <1>3, <2>1, <2>2, FS_Subset
<1> HIDE DEF powers
<1>5. points \in SUBSET Int
  <2>1. \A k \in powers : 2^k \in Int
    BY <1>4
  <2> QED BY <1>3, <2>1
<1>6. IsFiniteSet(points)
  <2>1. [k \in powers |-> head - 2^k] \in Surjection(powers, points)
    BY DEF Surjection
  <2> HIDE DEF points
  <2> QED BY <1>4, <2>1, FS_Surjection
<1>7. Checkpoints(head) = points
  BY DEF Checkpoints, powers
<1> HIDE DEF points
<1>8. points # {} => Max(points) \in Int
  BY <1>5, <1>6, MaxIsMember
<1>9. Target(from) = IF points = {} THEN from ELSE Max(points) + 1
  BY <1>7 DEF Target, head
<1> QED BY <1>8, <1>9

\* A reader at rest has nothing in hand.
LEMMA RestIsSound == sync' = Resting => SyncSound'
<1> SUFFICES ASSUME sync' = Resting PROVE SyncSound'
  OBVIOUS
<1>1. sync'.phase = "rest"
  BY DEF Resting
<1> QED BY <1>1 DEF SyncSound

\* The reader's requests, and what ends them.
LEMMA ReaderAsks ==
    ASSUME FollowInv,
           \/ \E from \in {0, at} :
                 \/ Ask(from)
                 \/ \E to \in {r.index : r \in Record} : AskTo(from, to)
           \/ Fail \/ Lose
    PROVE  FollowInv'
<1> USE DEF FollowInv
<1>1. UNCHANGED <<storeVars, replica, at, missed>>
  BY DEF Ask, AskTo, Fail, Lose
<1>2. StoreInv' /\ IsFiniteSet(gens') /\ Indices(Followed)' = Indices(Followed) /\ ReplicaWhole'
  BY <1>1 DEF storeVars, StoreInv, StoreTypeOK, ManifestHeld, Indices, Indexed,
              ReplicaWhole
<1>3. ASSUME NEW from \in {0, at}, Ask(from) PROVE SyncSound'
  <2>1. Target(from) \in Int
    BY <1>3, TargetTyped DEF Ask
  <2> QED BY <1>1, <1>3, <2>1 DEF Ask, SyncSound
<1>4. ASSUME NEW from \in {0, at}, NEW to \in {r.index : r \in Record}, AskTo(from, to)
      PROVE  SyncSound'
  BY <1>1, <1>4, StoreAssumption DEF AskTo, SyncSound
<1>5. ASSUME Fail \/ Lose PROVE SyncSound'
  <2>1. sync' = Resting
    BY <1>5 DEF Fail, Lose
  <2> QED BY <2>1, RestIsSound
<1>6. SyncSound'
  BY <1>3, <1>4, <1>5
<1> QED BY <1>1, <1>2, <1>6

\* The records found, the objects read one by one, and the pack stored.
LEMMA ReaderFetches ==
    ASSUME OneHistory, FollowInv, SyncStep, ~Fail
    PROVE  FollowInv'
<1> USE DEF FollowInv
<1>1. UNCHANGED storeVars /\ replica \subseteq replica' /\ missed \subseteq missed'
  BY DEF SyncStep, Request, Read, Receive, StoreReceived, Synced
<1>2. /\ StoreInv' /\ IsFiniteSet(gens') /\ Indices(Followed)' = Indices(Followed)
      /\ Indexed(Followed)' = Indexed(Followed) /\ held' = held /\ bad' = bad
      /\ \A from, to : /\ RecordsIn(from, to)' = RecordsIn(from, to)
                       /\ AddedBetween(from, to)' = AddedBetween(from, to)
  BY <1>1 DEF storeVars, StoreInv, StoreTypeOK, ManifestHeld, Indices, Indexed,
              RecordsIn, AddedBetween
<1>3. at' = at => ReplicaWhole'
  BY <1>1, <1>2 DEF ReplicaWhole
<1>4. at' = at => \A from, to : Spanned(from, to)' <=> Spanned(from, to)
  BY <1>2 DEF Spanned
<1>5. CASE Request
  <2>1. /\ sync.phase = "delta" /\ sync.from \in {0, at} /\ sync.to \in Int
        /\ Answers(sync.from, sync.to)
        /\ sync' = [ phase |-> "read", from |-> sync.from, to |-> sync.to,
                     todo  |-> AddedBetween(sync.from, sync.to),
                     pack  |-> RecordsIn(sync.from, sync.to) ]
        /\ at' = at /\ missed' = missed \cup Unreadable'
    BY <1>5 DEF Request, SyncSound
  <2>2. Spanned(sync.from, sync.to)
    BY <2>1 DEF Spanned, Answers
  <2>3. RecordsIn(sync.from, sync.to) \subseteq Record
    BY DEF RecordsIn, Indexed, StoreInv, StoreTypeOK
  <2>4. AddedBetween(sync.from, sync.to) \subseteq (held \ bad) \cup missed'
    BY <1>2, <2>1 DEF Unreadable
  <2>5. SyncSound'
    BY <1>2, <1>4, <2>1, <2>2, <2>3, <2>4 DEF SyncSound
  <2> QED BY <1>2, <1>3, <2>1, <2>5
<1>6. ASSUME NEW o \in Object, Read(o) PROVE FollowInv'
  <2>1. /\ sync.phase = "read" /\ o \in sync.todo
        /\ sync = [phase |-> "read", from |-> sync.from, to |-> sync.to,
                   todo |-> sync.todo, pack |-> sync.pack]
        /\ at' = at /\ missed' = missed
    BY <1>6 DEF Read, SyncSound
  <2> DEFINE pack == IF o \in held THEN sync.pack \cup {Get(o)} ELSE sync.pack
  <2>2. sync' = [phase |-> "read", from |-> sync.from, to |-> sync.to,
                 todo |-> sync.todo \ {o}, pack |-> pack]
    BY <1>6, <2>1 DEF Read
  <2>3. o \in pack \cup missed /\ sync.pack \subseteq pack
    BY <2>1 DEF SyncSound, Get
  <2>4. pack \cap Record = sync.pack \cap Record
    <3>1. o \notin Record
      BY <2>1 DEF SyncSound, AddedBetween, RecordsIn, Indexed, StoreInv, StoreTypeOK, OneHistory
    <3>2. Garbled(o) \notin Record
      BY SyncAssumption DEF Object
    <3> QED BY <3>1, <3>2 DEF Get
  <2> HIDE DEF pack
  <2>5. SyncSound'
    BY <1>2, <1>4, <2>1, <2>2, <2>3, <2>4 DEF SyncSound
  <2> QED BY <1>2, <1>3, <2>1, <2>5
<1>7. CASE Receive
  <2>1. /\ sync.phase = "read" /\ sync.todo = {}
        /\ sync = [phase |-> "read", from |-> sync.from, to |-> sync.to,
                   todo |-> sync.todo, pack |-> sync.pack]
        /\ at' = at
    BY <1>7 DEF Receive, SyncSound
  <2>2. sync' = [phase |-> "store", from |-> sync.from, to |-> sync.to,
                 todo |-> sync.pack, pack |-> sync.pack]
    BY <1>7, <2>1 DEF Receive
  <2>3. SyncSound'
    BY <1>1, <1>2, <1>4, <2>1, <2>2 DEF SyncSound
  <2> QED BY <1>2, <1>3, <2>1, <2>3
<1>8. CASE StoreReceived
  <2>1. /\ sync.phase = "store"
        /\ sync = [phase |-> "store", from |-> sync.from, to |-> sync.to,
                   todo |-> sync.todo, pack |-> sync.pack]
        /\ at' = at
    BY <1>8 DEF StoreReceived, SyncSound
  <2>2. PICK c \in sync.todo : /\ replica' = replica \cup {c}
                               /\ sync' = [sync EXCEPT !.todo = @ \ {c}]
    BY <1>8 DEF StoreReceived
  <2>3. sync' = [phase |-> "store", from |-> sync.from, to |-> sync.to,
                 todo |-> sync.todo \ {c}, pack |-> sync.pack]
    BY <2>1, <2>2
  <2>4. SyncSound'
    BY <1>1, <1>2, <1>4, <2>1, <2>2, <2>3 DEF SyncSound
  <2> QED BY <1>2, <1>3, <2>1, <2>4
<1>9. CASE Synced
  <2>1. /\ sync.phase = "store" /\ sync.todo = {} /\ UNCHANGED <<replica, missed>>
        /\ Spanned(sync.from, sync.to)
        /\ RecordsIn(sync.from, sync.to) \subseteq replica
        /\ AddedBetween(sync.from, sync.to) \subseteq replica \cup missed
        /\ at' = IF sync.to > at THEN sync.to ELSE at
        /\ sync' = Resting
    BY <1>9 DEF Synced, SyncSound
  <2>2. /\ at \in Nat /\ sync.from \in {0, at} /\ sync.to \in Nat /\ at' \in Nat
        /\ \A i \in 1..at' : i \in 1..at \/ i \in Span(sync.from, sync.to)
    BY <2>1 DEF Spanned, Span
  <2>3. 1..at' \subseteq Indices(Followed)
    BY <2>1, <2>2 DEF Spanned
  <2>4. ReplicaWhole'
    <3> SUFFICES ASSUME NEW r \in Indexed(Followed), r.index \in 1..at'
                 PROVE  r \in replica /\ r.added \subseteq replica \cup missed
      BY <1>2, <2>1 DEF ReplicaWhole
    <3>1. CASE r.index \in 1..at
      BY <3>1 DEF ReplicaWhole
    <3>2. CASE r.index \in Span(sync.from, sync.to)
      <4>1. r \in RecordsIn(sync.from, sync.to)
        BY <3>2 DEF RecordsIn
      <4> QED BY <2>1, <4>1 DEF AddedBetween
    <3> QED BY <2>2, <3>1, <3>2
  <2>5. SyncSound'
    BY <2>1, RestIsSound
  <2> QED BY <1>2, <2>2, <2>3, <2>4, <2>5
<1> QED BY <1>5, <1>6, <1>7, <1>8, <1>9 DEF SyncStep

\* FollowInv is inductive over the node's steps and the reader's.
THEOREM FollowInvariance == OneHistory => (Spec => []FollowInv)
<1> SUFFICES ASSUME OneHistory PROVE Spec => []FollowInv
  OBVIOUS
<1>1. ASSUME SyncInit PROVE FollowInv
  <2>1. StoreInv
    BY <1>1, InitStoreInv DEF SyncInit
  <2>2. IsFiniteSet({})
    BY FS_EmptySet
  <2> QED BY <1>1, <2>1, <2>2 DEF SyncInit, Init, Idle, FollowInv, ReplicaWhole,
                                  Indexed, SyncSound, Resting
<1>2. ASSUME FollowInv, [Next]_vars PROVE FollowInv'
  <2>1. CASE StoreNext /\ UNCHANGED syncVars /\ missed' = missed \cup Unreadable'
    BY <1>2, <2>1, NodeStepsFollow
  <2>2. CASE UNCHANGED vars
    <3>1. /\ StoreInv' <=> StoreInv
          /\ ReplicaWhole' <=> ReplicaWhole
          /\ Indices(Followed)' = Indices(Followed)
          /\ \A from, to : /\ RecordsIn(from, to)' = RecordsIn(from, to)
                           /\ AddedBetween(from, to)' = AddedBetween(from, to)
                           /\ Spanned(from, to)' <=> Spanned(from, to)
      BY <2>2 DEF vars, syncVars, storeVars, StoreInv, StoreTypeOK, ManifestHeld, ReplicaWhole,
                  Indices, Indexed, RecordsIn, AddedBetween, Spanned
    <3>2. UNCHANGED <<gens, at, sync, held, bad, replica, missed>>
      BY <2>2 DEF vars, syncVars, storeVars
    <3> QED BY <1>2, <3>1, <3>2 DEF FollowInv, SyncSound
  <2>3. CASE SyncStep /\ ~Fail
    BY <1>2, <2>3, ReaderFetches
  <2>4. CASE \/ \E from \in {0, at} :
                  \/ Ask(from)
                  \/ \E to \in {r.index : r \in Record} : AskTo(from, to)
             \/ Fail \/ Lose
    BY <1>2, <2>4, ReaderAsks
  <2> QED BY <1>2, <2>1, <2>2, <2>3, <2>4 DEF Next
<1> QED BY <1>1, <1>2, PTL DEF Spec

\* A reader who has synced to a generation has all that leads to it, but for
\* what the node did not have when a delta came to read it: for every
\* history, every command of the node's operator, collection and removal
\* included, and however syncs are cut short (Store::added_between, the
\* delta handler, pub-sync).
THEOREM ReplicasWhole == OneHistory => (Spec => []ReplicaWhole)
<1>1. FollowInv => ReplicaWhole
  BY DEF FollowInv
<1> QED BY <1>1, FollowInvariance, PTL

\* A delta that arrives lacks nothing but what the node lacked when it came
\* to read it.
THEOREM DeltasCarry == OneHistory => (Spec => []DeltaCarries)
<1>1. FollowInv => DeltaCarries
  BY DEF FollowInv, DeltaCarries, SyncSound, AddedBetween
<1> QED BY <1>1, FollowInvariance, PTL

----------------------------------------------------------------------------
(* A node that keeps what its records add.                                 *)

\* Its operator indexes a record after the objects it adds, and uses no
\* command that takes bytes from the store.
KeepsAll == Careful /\ Commands \cap {"gc", "remove", "corrupt"} = {}

\* What is indexed can be served whole, and nothing was ever missed.
NodeWhole ==
    /\ StoreTypeOK
    /\ bad = {}
    /\ \A r \in gens : r.added \subseteq held
    /\ op.cmd = "generation" => op.record.added \subseteq held
    /\ sync.phase \in {"read", "store"} =>
          sync = [phase |-> sync.phase, from |-> sync.from, to |-> sync.to,
                  todo |-> sync.todo, pack |-> sync.pack]
    /\ sync.phase = "read" => sync.todo \subseteq held
    /\ missed = {}

\* Such a node only gains, and has what each record adds before it indexes
\* the record.
LEMMA NodeGains ==
    ASSUME KeepsAll, StoreTypeOK, bad = {}, \A r \in gens : r.added \subseteq held,
           op.cmd = "generation" => op.record.added \subseteq held, StoreNext
    PROVE  /\ bad' = {} /\ \A r \in gens' : r.added \subseteq held'
           /\ op'.cmd = "generation" => op'.record.added \subseteq held'
           /\ held \subseteq held'
<1> USE DEF KeepsAll, Opens, Idle
<1>1. ASSUME NEW o \in Object, Add(o) \/ Accept(o)
      PROVE  bad' = {} /\ held \subseteq held' /\ gens' = gens /\ op' = op
  BY <1>1 DEF Add, Accept, Put
<1>2. ASSUME NEW o \in Object, Remove(o) PROVE FALSE
  BY <1>2 DEF Remove
<1>3. ASSUME NEW o \in Object, Timestamp(o)
      PROVE  bad' = {} /\ held' = held /\ gens' = gens /\ op'.cmd = "archive"
  <2>1. op.cmd = "archive" /\ op = [cmd |-> "archive", missing |-> op.missing]
    BY <1>3 DEF Timestamp, StoreTypeOK
  <2>2. op' = [cmd |-> "archive", missing |-> op.missing \ {o}]
    BY <1>3, <2>1 DEF Timestamp
  <2>3. op'.cmd = "archive"
    BY <2>2
  <2> QED BY <1>3, <2>3 DEF Timestamp
<1>4. ASSUME NEW o \in Object, Tombstone(o) \/ Offer(o)
      PROVE  bad' = {} /\ held' = held /\ gens' = gens /\ op' = op
  BY <1>4 DEF Tombstone, Offer
<1>5. ASSUME NEW c \in Object \cup Blob, Corrupt(c) PROVE FALSE
  BY <1>5 DEF Corrupt
<1>6. ASSUME NEW b \in Blob, AddBlob(b)
      PROVE  bad' = {} /\ held' = held /\ gens' = gens /\ op' = op
  BY <1>6 DEF AddBlob
<1>7. ASSUME NEW d \in Domain, Declare(d) \/ Undeclare(d)
      PROVE  bad' = {} /\ held' = held /\ gens' = gens /\ op' = op
  BY <1>7 DEF Declare, Undeclare
<1>8. ASSUME NEW r \in Record, Generation(r)
      PROVE  /\ bad' = {} /\ held \subseteq held' /\ gens' = gens
             /\ op'.record.added \subseteq held'
  <2>1. r.added \subseteq held /\ op' = [cmd |-> "generation", record |-> r]
        /\ held' = held \cup {r} /\ bad' = bad \ {r} /\ gens' = gens
    BY <1>8 DEF Generation, Prepared, Put
  <2> QED BY <2>1
<1>9. CASE PutGeneration
  <2>1. /\ gens' \subseteq gens \cup {op.record} /\ op.record.added \subseteq held
        /\ op' = Idle /\ UNCHANGED <<held, bad>>
    BY <1>9 DEF PutGeneration
  <2> QED BY <2>1
<1>10. CASE CollectGarbage
  BY <1>10 DEF CollectGarbage
<1>11. CASE Archive \/ Archived \/ Die \/ Serve \/ Stop
  <2>1. bad' = {} /\ held' = held /\ gens' = gens /\ (op'.cmd # "generation" \/ op' = op)
    BY <1>11 DEF Archive, Archived, Die, Serve, Stop
  <2> QED BY <2>1
<1> QED BY <1>1, <1>2, <1>3, <1>4, <1>5, <1>6, <1>7, <1>8, <1>9, <1>10, <1>11 DEF StoreNext

\* So no delta of it lacks anything, and with ReplicasWhole and DeltasCarry
\* its readers and its deltas are whole without exception.
THEOREM NothingIsMissed == KeepsAll => (Spec => [](missed = {}))
<1> SUFFICES ASSUME KeepsAll PROVE Spec => [](missed = {})
  OBVIOUS
<1>1. SyncInit => NodeWhole
  BY InitStoreInv DEF SyncInit, Init, Idle, NodeWhole, Resting, StoreInv
<1>2. ASSUME NodeWhole, StoreInv, StoreInv', [Next]_vars PROVE NodeWhole'
  <2> USE DEF NodeWhole
  <2>0. StoreTypeOK'
    BY <1>2 DEF StoreInv
  <2>1. CASE StoreNext /\ UNCHANGED syncVars /\ missed' = missed \cup Unreadable'
    <3>1. /\ bad' = {} /\ \A r \in gens' : r.added \subseteq held'
          /\ op'.cmd = "generation" => op'.record.added \subseteq held'
          /\ held \subseteq held' /\ sync' = sync
      BY <1>2, <2>1, NodeGains DEF syncVars
    <3>2. missed' = {}
      BY <1>2, <2>1, <3>1 DEF Unreadable
    <3> QED BY <1>2, <2>0, <3>1, <3>2
  <2>2. CASE ~(StoreNext /\ UNCHANGED syncVars /\ missed' = missed \cup Unreadable')
    <3>1. UNCHANGED storeVars
      BY <1>2, <2>2 DEF Next, vars, SyncStep, Ask, AskTo, Request, Read, Receive, Fail, Lose,
                        StoreReceived, Synced
    <3>2. UNCHANGED <<held, bad, gens, op>>
      BY <3>1 DEF storeVars
    <3>3. CASE Request
      <4>1. /\ sync' = [ phase |-> "read", from |-> sync.from, to |-> sync.to,
                         todo  |-> AddedBetween(sync.from, sync.to),
                         pack  |-> RecordsIn(sync.from, sync.to) ]
            /\ missed' = missed \cup Unreadable'
        BY <3>3 DEF Request
      <4>2. AddedBetween(sync.from, sync.to) \subseteq held
        BY <1>2 DEF AddedBetween, RecordsIn, Indexed
      <4>3. missed' = {}
        BY <1>2, <3>2, <4>1, <4>2 DEF Unreadable
      <4> QED BY <1>2, <2>0, <3>2, <4>1, <4>2, <4>3
    <3>4. CASE ~Request
      <4>1. missed' = missed
        BY <1>2, <2>2, <3>4 DEF Next, vars, SyncStep, Ask, AskTo, Read, Receive, Fail, Lose,
                                StoreReceived, Synced
      <4> DEFINE Kept ==
                   /\ sync'.phase \in {"read", "store"} =>
                         sync' = [phase |-> sync'.phase, from |-> sync'.from, to |-> sync'.to,
                                  todo |-> sync'.todo, pack |-> sync'.pack]
                   /\ sync'.phase = "read" => sync'.todo \subseteq held
      <4>2. ASSUME \E from \in {0, at} :
                      Ask(from) \/ \E to \in {r.index : r \in Record} : AskTo(from, to)
            PROVE  Kept
        BY <4>2 DEF Ask, AskTo
      <4>3. ASSUME NEW o \in Object, Read(o) PROVE Kept
        <5>1. sync.phase = "read"
          BY <4>3 DEF Read
        <5> DEFINE pack == IF o \in held THEN sync.pack \cup {Get(o)} ELSE sync.pack
        <5>2. sync' = [phase |-> "read", from |-> sync.from, to |-> sync.to,
                       todo |-> sync.todo \ {o}, pack |-> pack]
          BY <1>2, <4>3, <5>1 DEF Read
        <5> HIDE DEF pack
        <5> QED BY <1>2, <5>1, <5>2
      <4>4. ASSUME Receive PROVE Kept
        <5>1. sync' = [phase |-> "store", from |-> sync.from, to |-> sync.to,
                       todo |-> sync.pack, pack |-> sync.pack]
          BY <1>2, <4>4 DEF Receive
        <5> QED BY <5>1
      <4>5. ASSUME Fail \/ Lose \/ Synced PROVE Kept
        BY <4>5 DEF Fail, Lose, Synced, Resting
      <4>6. ASSUME StoreReceived PROVE Kept
        <5>1. PICK c \in sync.todo : sync' = [sync EXCEPT !.todo = @ \ {c}]
          BY <4>6 DEF StoreReceived
        <5>2. sync' = [phase |-> "store", from |-> sync.from, to |-> sync.to,
                       todo |-> sync.todo \ {c}, pack |-> sync.pack]
          BY <1>2, <4>6, <5>1 DEF StoreReceived
        <5> QED BY <5>2
      <4>7. ASSUME UNCHANGED vars PROVE Kept
        BY <1>2, <4>7 DEF vars, syncVars
      <4>8. Kept
        BY <1>2, <2>2, <3>4, <4>2, <4>3, <4>4, <4>5, <4>6, <4>7 DEF Next, SyncStep
      <4> QED BY <1>2, <2>0, <3>2, <4>1, <4>8
    <3> QED BY <3>3, <3>4
  <2> QED BY <2>1, <2>2
<1>3. NodeWhole => missed = {}
  BY DEF NodeWhole
<1>4. Spec => []StoreInv
  <2>1. SyncInit => StoreInv
    BY InitStoreInv DEF SyncInit
  <2>2. StoreInv /\ [Next]_vars => StoreInv'
    <3>1. [Next]_vars => [StoreNext]_storeVars
      BY DEF Next, vars, SyncStep, Ask, AskTo, Request, Read, Receive, Fail, Lose,
             StoreReceived, Synced
    <3> QED BY <3>1, StoreSteps
  <2> QED BY <2>1, <2>2, PTL DEF Spec
<1> QED BY <1>1, <1>2, <1>3, <1>4, PTL DEF Spec

=============================================================================
