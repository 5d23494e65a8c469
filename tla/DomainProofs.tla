---------------------------- MODULE DomainProofs -----------------------------
(***************************************************************************)
(* What following a domain by its deltas and comparing witnesses promise,  *)
(* for every set of members, readers and generations; and what the log and *)
(* the sorted membership promise an auditor, for every width of a word,    *)
(* every log and every membership.                                         *)
(***************************************************************************)
EXTENDS Following, Auditing, Induction, SequenceTheorems, FunctionTheorems

\* Each history is indexed from its genesis on, and each record says what
\* it changed.
ChainSound ==
    /\ chain \in [Reader -> Seq(Records)]
    /\ \A r \in Reader :
          /\ chain[r] # <<>>
          /\ \A i \in 1..Len(chain[r]) : chain[r][i].index = i - 1
          /\ \A i \in 1..(Len(chain[r]) - 1) :
                chain[r][i + 1] = Record(chain[r][i], chain[r][i + 1].snapshot)

\* Where a reader is, it was told to be, by one record of each index.
ReaderTold ==
    /\ reader \in [Reader -> [index : Nat, members : SUBSET Member]]
    /\ told \in [Reader -> SUBSET Records]
    /\ \A r \in Reader :
          /\ \A t \in told[r] : t.index <= reader[r].index
          /\ \A t, u \in told[r] : t.index = u.index => t = u
          /\ \E t \in told[r] : t.index = reader[r].index /\ t.snapshot = reader[r].members

\* A witness attests what its observer was told of the generation it names
\* or, where it is the root printed, the genesis.
WitnessesTold ==
    /\ IsFiniteSet(witnesses)
    /\ \A w \in witnesses :
          /\ w.observer \in Reader
          /\ manner = "reached" =>
                \E t \in told[w.observer] : t.index = w.generation /\ t.snapshot = w.root
          /\ manner = "printed" => w.root = chain[w.observer][1].snapshot

FollowingInv ==
    /\ manner \in {"reached", "printed"}
    /\ ChainSound
    /\ ReaderTold
    /\ WitnessesTold

----------------------------------------------------------------------------
(* delta::apply, as a fold over the records.                               *)

\* What a membership is after some of a run's records, in order: all that
\* was there or added, and not removed since.
Since(start, records, s) ==
    {m \in start \cup UNION {records[i].added : i \in s} :
        \/ /\ m \in start
           /\ \A j \in s : m \notin records[j].removed
        \/ \E i \in s : /\ m \in records[i].added
                        /\ \A j \in s : i <= j => m \notin records[j].removed}

\* Applying a run is applying its records one at a time, in order.
LEMMA StepByStep ==
    ASSUME NEW R, NEW records \in Seq(R), NEW start
    PROVE  \E h : /\ h[0] = start
                  /\ \A n \in 1..Len(records) : h[n] = Step(h[n - 1], records[n])
                  /\ Applied(start, records) = h[Len(records)]
<1> DEFINE N == Len(records)
           MaxOf(s) == CHOOSE x \in s : \A y \in s : x >= y
           body(f) == [s \in SUBSET (1..N) |->
                         IF s = {} THEN start
                         ELSE Step(f[s \ {MaxOf(s)}], records[MaxOf(s)])]
           g == [s \in SUBSET (1..N) |-> Since(start, records, s)]
           f == CHOOSE x : x = body(x)
<1>0. N \in Nat /\ DOMAIN records = 1..N
  OBVIOUS
<1>1. ASSUME NEW s \in SUBSET (1..N), s # {}
      PROVE  MaxOf(s) \in s /\ \A y \in s : MaxOf(s) >= y
  <2>1. s \in SUBSET (0..N) BY <1>0
  <2>2. \E x \in s : \A y \in s : y <= x BY <1>0, <1>1, <2>1, GreatestMember
  <2>3. \E x \in s : \A y \in s : x >= y BY <2>1, <2>2, <1>0
  <2> QED BY <2>3
<1>2. g = body(g)
  <2>1. ASSUME NEW s \in SUBSET (1..N)
        PROVE  Since(start, records, s) = IF s = {} THEN start
                         ELSE Step(g[s \ {MaxOf(s)}], records[MaxOf(s)])
    <3>1. CASE s = {}
      BY <3>1 DEF Since
    <3>2. CASE s # {}
      <4> DEFINE t == MaxOf(s)
      <4>1. t \in s /\ \A y \in s : t >= y
        BY <1>1, <3>2
      <4> HIDE DEF MaxOf, t
      <4>2. t \in Nat /\ s \subseteq Nat
        BY <1>0, <4>1
      <4>3. g[s \ {t}] = Since(start, records, s \ {t})
        OBVIOUS
      <4>4. \A j \in s : t <= j <=> j = t
        BY <4>1, <4>2
      <4>5. Since(start, records, s) = Step(Since(start, records, s \ {t}), records[t])
        <5> HIDE DEF g, f, body
        <5>1. ASSUME NEW m PROVE m \in Since(start, records, s) <=> m \in Step(Since(start, records, s \ {t}), records[t])
          BY <4>1, <4>2, <4>4 DEF Since, Step
        <5> QED BY <5>1
      <4> QED BY <3>2, <4>3, <4>5 DEF t
    <3> QED BY <3>1, <3>2
  <2> QED BY <2>1
<1> HIDE DEF g
<1>3. f = body(f)
  BY <1>2
<1>4. Applied(start, records) = f[1..N]
  BY <1>0 DEF Applied, FoldLeft, MapThenFoldSet, Max
<1> HIDE DEF f
<1> DEFINE h == [n \in 0..N |-> f[1..n]]
<1>5. h[0] = start
  BY <1>0, <1>3
<1>6. ASSUME NEW n \in 1..N PROVE h[n] = Step(h[n-1], records[n])
  <2>1. MaxOf(1..n) = n
    <3>1. 1..n \in SUBSET (1..N) /\ n \in 1..n BY <1>0
    <3> QED BY <1>1, <3>1
  <2>2. (1..n) \ {n} = 1..(n-1) /\ n \in 1..n
    OBVIOUS
  <2>4. 1..n \in SUBSET (1..N) /\ 1..(n-1) \in SUBSET (1..N)
    BY <1>0
  <2>3. f[1..n] = Step(f[1..(n-1)], records[n])
    BY <1>3, <2>1, <2>2, <2>4
  <2> QED BY <2>3, <1>0
<1>7. h[N] = f[1..N]
  BY <1>0
<1> HIDE DEF h
<1> QED BY <1>4, <1>5, <1>6, <1>7

----------------------------------------------------------------------------
(* Witnesses.                                                              *)

\* A generation is reported when two witnesses of it attest two roots.
LEMMA DetectMeaning ==
    ASSUME IsFiniteSet(witnesses), NEW v \in witnesses, NEW w \in witnesses,
           v.generation = w.generation, v.root # w.root
    PROVE  v.generation \in DetectSplitViews(witnesses)
<1> DEFINE at == {x \in witnesses : x.generation = v.generation}
           roots == {x.root : x \in at}
<1>1. IsFiniteSet(at)
  BY FS_Subset
<1>2. IsFiniteSet(roots)
  <2> HIDE DEF at
  <2>1. [x \in at |-> x.root] \in Surjection(at, roots)
    BY DEF Surjection
  <2> QED BY <1>1, <2>1, FS_Surjection
<1>3. v.root \in roots /\ w.root \in roots
  OBVIOUS
<1>4. Cardinality(roots) > 1
  <2> HIDE DEF roots
  <2> QED BY <1>2, <1>3, TwoCount
<1> QED BY <1>4 DEF DetectSplitViews

\* It is not when they all attest one.
LEMMA NoneDetected ==
    ASSUME \A v, w \in witnesses : v.generation = w.generation => v.root = w.root
    PROVE  DetectSplitViews(witnesses) = {}
<1> SUFFICES ASSUME NEW u \in witnesses
             PROVE  ~(Cardinality({w.root : w \in {x \in witnesses :
                                       x.generation = u.generation}}) > 1)
  BY DEF DetectSplitViews
<1>1. {w.root : w \in {x \in witnesses : x.generation = u.generation}} \subseteq {u.root}
  OBVIOUS
<1> QED BY <1>1, OneCounts

----------------------------------------------------------------------------
(* The steps.                                                              *)

\* What a peer can hand over is records.
LEMMA HandedIsRecords ==
    ASSUME ChainSound, NEW given \in Handed
    PROVE  given \in Seq(Records)
<1>1. \A r \in Reader : ToSet(chain[r]) \subseteq Records
  BY DEF ChainSound, ToSet
<1>2. AtHand \subseteq Records
  BY <1>1, FollowingAssumption DEF AtHand
<1>3. PICK n \in 0..MaxIndex : given \in [1..n -> AtHand]
  BY DEF Handed, BoundedSeq, SeqOf
<1>4. n \in Nat /\ given \in [1..n -> Records]
  BY <1>2, <1>3, FollowingAssumption
<1> QED BY <1>4

\* An accepted run leads on: to a later index, and to a set of members.
LEMMA AcceptedLeadsOn ==
    ASSUME NEW given \in Seq(Records), NEW start, NEW index \in Nat,
           Accepts(start, index, given)
    PROVE  /\ Last(given) \in Records
           /\ Last(given).index > index
           /\ Applied(start, given) = Last(given).snapshot
<1>1. given # <<>> /\ Contiguous(index, given) /\ Applied(start, given) = Last(given).snapshot
  BY DEF Accepts
<1>2. Len(given) \in Nat \ {0} /\ DOMAIN given = 1..Len(given) /\ Last(given) = given[Len(given)]
  BY <1>1 DEF Last
<1>3. given[Len(given)] \in Records /\ given[Len(given)].index = index + Len(given)
  BY <1>1, <1>2 DEF Contiguous
<1> QED BY <1>1, <1>2, <1>3

\* What applying a run leaves was there before or is named by it.
LEMMA AppliedIsNamed ==
    ASSUME NEW given \in Seq(Records), NEW start
    PROVE  Applied(start, given) \subseteq start \cup AddedBy(given)
<1>1. PICK h : /\ h[0] = start
               /\ \A n \in 1..Len(given) : h[n] = Step(h[n - 1], given[n])
               /\ Applied(start, given) = h[Len(given)]
  BY StepByStep
<1>2. Len(given) \in Nat /\ DOMAIN given = 1..Len(given)
  OBVIOUS
<1>3. \A n \in 1..Len(given) : given[n].added \subseteq AddedBy(given)
  BY <1>2 DEF AddedBy
<1> DEFINE S == {n \in Nat : n <= Len(given) => h[n] \subseteq start \cup AddedBy(given)}
<1>4. 0 \in S
  BY <1>1
<1>5. ASSUME NEW n \in Nat, n \in S PROVE n + 1 \in S
  <2> SUFFICES ASSUME n + 1 <= Len(given)
               PROVE  h[n + 1] \subseteq start \cup AddedBy(given)
    OBVIOUS
  <2>1. n + 1 \in 1..Len(given) /\ (n + 1) - 1 = n /\ n <= Len(given)
    BY <1>2
  <2>2. h[n + 1] = Step(h[n], given[n + 1])
    BY <1>1, <2>1
  <2>3. h[n] \subseteq start \cup AddedBy(given)
    BY <1>5, <2>1
  <2> QED BY <1>3, <2>1, <2>2, <2>3 DEF Step
<1> HIDE DEF S
<1>6. Nat \subseteq S
  BY <1>4, <1>5, InductionSet
<1>7. h[Len(given)] \subseteq start \cup AddedBy(given)
  BY <1>2, <1>6 DEF S
<1> QED BY <1>1, <1>7

\* The publisher extends one reader's history, by a record that says what
\* it changes.
LEMMA PublishSteps ==
    ASSUME FollowingInv, NEW r \in Reader, NEW next \in SUBSET Member, Publish(r, next)
    PROVE  FollowingInv'
<1> DEFINE records == chain[r]
           record == Record(Last(records), next)
<1>1. /\ records \in Seq(Records) /\ Len(records) \in Nat \ {0}
      /\ Last(records) = records[Len(records)]
      /\ Last(records) \in Records /\ Last(records).index = Len(records) - 1
  BY DEF FollowingInv, ChainSound, Last
<1>2. /\ chain' = [chain EXCEPT ![r] = Append(records, record)]
      /\ UNCHANGED <<reader, told, witnesses, manner>>
  BY DEF Publish
<1>3. record \in Records /\ record.index = Len(records) /\ record.snapshot = next
  BY <1>1 DEF Record, Generation, DiffAdded, DiffRemoved, Records
<1> HIDE DEF record
<1>4. chain'[r] = Append(records, record) /\ \A q \in Reader \ {r} : chain'[q] = chain[q]
  BY <1>2 DEF FollowingInv, ChainSound
<1>5. /\ Append(records, record) \in Seq(Records)
      /\ Len(Append(records, record)) = Len(records) + 1
      /\ \A i \in 1..Len(records) : Append(records, record)[i] = records[i]
      /\ Append(records, record)[Len(records) + 1] = record
  BY <1>1, <1>3, AppendProperties
<1>6. \A q \in Reader : /\ Len(chain'[q]) \in Nat /\ Len(chain'[q]) >= Len(chain[q])
                        /\ \A i \in 1..Len(chain[q]) : chain'[q][i] = chain[q][i]
  <2> SUFFICES ASSUME NEW q \in Reader
               PROVE  /\ Len(chain'[q]) \in Nat /\ Len(chain'[q]) >= Len(chain[q])
                      /\ \A i \in 1..Len(chain[q]) : chain'[q][i] = chain[q][i]
    OBVIOUS
  <2>1. Len(chain[q]) \in Nat
    BY DEF FollowingInv, ChainSound
  <2>2. CASE q = r
    <3>1. chain'[r] = Append(records, record)
      BY <1>4
    <3> QED BY <1>1, <1>5, <2>2, <3>1
  <2>3. CASE q # r
    <3>1. chain'[q] = chain[q]
      BY <1>4, <2>3
    <3> QED BY <2>1, <3>1
  <2> QED BY <2>2, <2>3
<1>7. ChainSound'
  <2>1. chain' \in [Reader -> Seq(Records)]
    BY <1>2, <1>5 DEF FollowingInv, ChainSound
  <2>2. /\ chain'[r] # <<>>
        /\ \A i \in 1..Len(chain'[r]) : chain'[r][i].index = i - 1
    <3>1. \A i \in 1..Len(records) : records[i].index = i - 1
      BY DEF FollowingInv, ChainSound
    <3> QED BY <1>1, <1>3, <1>4, <1>5, <3>1, SMTT(30)
  <2>3. ASSUME NEW i \in 1..(Len(chain'[r]) - 1)
        PROVE  chain'[r][i + 1] = Record(chain'[r][i], chain'[r][i + 1].snapshot)
    <3>1. CASE i = Len(records)
      <4>1. chain'[r][i + 1] = record /\ chain'[r][i] = Last(records)
        BY <1>1, <1>4, <1>5, <3>1
      <4> QED BY <1>3, <4>1 DEF record
    <3>2. CASE i # Len(records)
      <4>1. i \in 1..(Len(records) - 1) /\ i + 1 \in 1..Len(records) /\ i \in 1..Len(records)
        BY <1>1, <1>4, <1>5, <3>2
      <4> QED BY <1>4, <1>5, <4>1 DEF FollowingInv, ChainSound
    <3> QED BY <3>1, <3>2
  <2>4. ASSUME NEW q \in Reader \ {r}
        PROVE  /\ chain'[q] # <<>>
               /\ \A i \in 1..Len(chain'[q]) : chain'[q][i].index = i - 1
               /\ \A i \in 1..(Len(chain'[q]) - 1) :
                     chain'[q][i + 1] = Record(chain'[q][i], chain'[q][i + 1].snapshot)
    BY <1>4 DEF FollowingInv, ChainSound
  <2> QED BY <2>1, <2>2, <2>3, <2>4 DEF ChainSound
<1>8. ReaderTold'
  BY <1>2 DEF FollowingInv, ReaderTold
<1>9. \A q \in Reader : chain'[q][1] = chain[q][1]
  <2> SUFFICES ASSUME NEW q \in Reader PROVE chain'[q][1] = chain[q][1]
    OBVIOUS
  <2>1. 1 \in 1..Len(chain[q])
    BY DEF FollowingInv, ChainSound
  <2> QED BY <1>6, <2>1
<1>10. WitnessesTold'
  BY <1>2, <1>9 DEF FollowingInv, WitnessesTold
<1> QED BY <1>2, <1>7, <1>8, <1>10 DEF FollowingInv

\* A reader moves to a later generation, where it is told to.
LEMMA ReceiveSteps ==
    ASSUME FollowingInv, NEW r \in Reader, Receive(r)
    PROVE  FollowingInv'
<1>1. PICK given \in Handed :
          /\ Accepts(reader[r].members, reader[r].index, given)
          /\ reader' = [reader EXCEPT ![r] =
                          [ index   |-> Last(given).index,
                            members |-> Applied(reader[r].members, given) ]]
          /\ told' = [told EXCEPT ![r] = told[r] \cup {Last(given)}]
  BY DEF Receive
<1>2. UNCHANGED <<chain, witnesses, manner>> /\ reader[r].index \in Nat
  BY DEF FollowingInv, ReaderTold, Receive
<1>3. /\ Last(given) \in Records /\ Last(given).index > reader[r].index
      /\ Applied(reader[r].members, given) = Last(given).snapshot
  BY <1>1, <1>2, HandedIsRecords, AcceptedLeadsOn DEF FollowingInv
<1> DEFINE new == Last(given)
<1>4. /\ new \in Records /\ new.index \in Nat /\ new.snapshot \in SUBSET Member
      /\ new.index > reader[r].index
      /\ reader' = [reader EXCEPT ![r] = [index |-> new.index, members |-> new.snapshot]]
      /\ told' = [told EXCEPT ![r] = told[r] \cup {new}]
  BY <1>1, <1>3 DEF Records
<1> HIDE DEF new
<1>5. /\ reader \in [Reader -> [index : Nat, members : SUBSET Member]]
      /\ told \in [Reader -> SUBSET Records]
  BY DEF FollowingInv, ReaderTold
<1>6. ASSUME NEW q \in Reader
      PROVE  /\ \A t \in told'[q] : t.index <= reader'[q].index
             /\ \A t, u \in told'[q] : t.index = u.index => t = u
             /\ \E t \in told'[q] : /\ t.index = reader'[q].index
                                    /\ t.snapshot = reader'[q].members
  <2>1. /\ \A t \in told[q] : t.index \in Nat /\ t.index <= reader[q].index
        /\ \A t, u \in told[q] : t.index = u.index => t = u
        /\ \E t \in told[q] : t.index = reader[q].index /\ t.snapshot = reader[q].members
    BY <1>5 DEF FollowingInv, ReaderTold, Records
  <2>2. CASE q = r
    <3>1. /\ told'[q] = told[q] \cup {new}
          /\ reader'[q].index = new.index /\ reader'[q].members = new.snapshot
      BY <1>4, <1>5, <2>2
    <3>2. \A t \in told[q] : t.index < new.index
      BY <1>2, <1>4, <2>1, <2>2
    <3> QED BY <1>4, <2>1, <3>1, <3>2
  <2>3. CASE q # r
    <3>1. told'[q] = told[q] /\ reader'[q] = reader[q]
      BY <1>4, <1>5, <2>3
    <3> QED BY <2>1, <3>1
  <2> QED BY <2>2, <2>3
<1>7. ReaderTold'
  BY <1>4, <1>5, <1>6 DEF ReaderTold
<1>8. \A q \in Reader : told[q] \subseteq told'[q]
  BY <1>4, <1>5
<1>9. WitnessesTold'
  <2>1. \A w \in witnesses :
           /\ w.observer \in Reader
           /\ manner = "reached" =>
                 \E t \in told'[w.observer] : t.index = w.generation /\ t.snapshot = w.root
           /\ manner = "printed" => w.root = chain[w.observer][1].snapshot
    BY <1>8 DEF FollowingInv, WitnessesTold
  <2> QED BY <1>2, <2>1 DEF FollowingInv, WitnessesTold
<1> QED BY <1>2, <1>7, <1>9 DEF FollowingInv, ChainSound

\* A witness is added to those there are.
LEMMA WitnessSteps ==
    ASSUME FollowingInv, NEW r \in Reader, Annotate(r) \/ WitnessCommand(r)
    PROVE  FollowingInv'
<1>1. UNCHANGED <<chain, reader, told, manner>>
  BY DEF Annotate, WitnessCommand
<1>2. PICK w : /\ witnesses' = witnesses \cup {w}
               /\ w.observer = r
               /\ manner = "reached" =>
                     \E t \in told[r] : t.index = w.generation /\ t.snapshot = w.root
               /\ manner = "printed" => w.root = chain[r][1].snapshot
  <2>1. CASE Annotate(r)
    <3> DEFINE w == Attested(r, reader[r].index, reader[r].members)
    <3>1. \E t \in told[r] : t.index = reader[r].index /\ t.snapshot = reader[r].members
      BY DEF FollowingInv, ReaderTold
    <3>2. /\ witnesses' = witnesses \cup {w} /\ manner = "reached"
          /\ w.observer = r /\ w.generation = reader[r].index
          /\ w.root = reader[r].members
      BY <2>1 DEF Annotate, Attested
    <3> HIDE DEF w
    <3> QED BY <3>1, <3>2
  <2>2. CASE WitnessCommand(r)
    <3> DEFINE w == Attested(r, HeadGeneration(r), chain[r][1].snapshot)
    <3>1. /\ witnesses' = witnesses \cup {w} /\ manner = "printed"
          /\ w.observer = r /\ w.root = chain[r][1].snapshot
      BY <2>2 DEF WitnessCommand, Attested
    <3> HIDE DEF w
    <3> QED BY <3>1
  <2> QED BY <2>1, <2>2
<1>3. IsFiniteSet(witnesses')
  BY <1>2, FS_AddElement DEF FollowingInv, WitnessesTold
<1>4. WitnessesTold'
  BY <1>1, <1>2, <1>3 DEF FollowingInv, WitnessesTold
<1> QED BY <1>1, <1>4 DEF FollowingInv, ChainSound, ReaderTold

----------------------------------------------------------------------------
(* The theorems.                                                           *)

\* Everyone starts at the genesis.
LEMMA InitFollowingInv == Init => FollowingInv
<1> SUFFICES ASSUME NEW genesis \in SUBSET Member,
                    chain = [r \in Reader |-> <<Generation(0, genesis, genesis, {})>>],
                    reader = [r \in Reader |-> [index |-> 0, members |-> genesis]],
                    told = [r \in Reader |-> {Generation(0, genesis, genesis, {})}],
                    witnesses = {}, manner \in {"reached", "printed"}
             PROVE  FollowingInv
  BY DEF Init
<1>1. Generation(0, genesis, genesis, {}) \in Records
  BY DEF Generation, Records
<1>2. ChainSound
  BY <1>1 DEF ChainSound, Generation
<1>3. ReaderTold
  <2> DEFINE first == Generation(0, genesis, genesis, {})
  <2>1. first \in Records /\ first.index = 0 /\ first.snapshot = genesis
    BY <1>1 DEF Generation
  <2> HIDE DEF first
  <2>2. \A r \in Reader : /\ told[r] = {first}
                          /\ reader[r].index = 0 /\ reader[r].members = genesis
    BY DEF first
  <2>3. told \in [Reader -> SUBSET Records]
    BY <2>1 DEF first
  <2>4. reader \in [Reader -> [index : Nat, members : SUBSET Member]]
    OBVIOUS
  <2> QED BY <2>1, <2>2, <2>3, <2>4 DEF ReaderTold
<1>4. WitnessesTold
  BY FS_EmptySet DEF WitnessesTold
<1> QED BY <1>2, <1>3, <1>4 DEF FollowingInv

\* FollowingInv is inductive over publishing, receiving and witnessing.
THEOREM FollowingInvariance == Spec => []FollowingInv
<1>1. FollowingInv /\ [Next]_vars => FollowingInv'
  <2> SUFFICES ASSUME FollowingInv, [Next]_vars PROVE FollowingInv'
    OBVIOUS
  <2>1. CASE Next
    BY <2>1, PublishSteps, ReceiveSteps, WitnessSteps DEF Next
  <2>2. CASE UNCHANGED vars
    <3>1. /\ chain' = chain /\ reader' = reader /\ told' = told
          /\ witnesses' = witnesses /\ manner' = manner
      BY <2>2 DEF vars
    <3>2. ChainSound'
      BY <3>1 DEF FollowingInv, ChainSound
    <3>3. ReaderTold'
      BY <3>1 DEF FollowingInv, ReaderTold
    <3>4. WitnessesTold'
      BY <3>1 DEF FollowingInv, WitnessesTold
    <3> QED BY <3>1, <3>2, <3>3, <3>4 DEF FollowingInv
  <2> QED BY <2>1, <2>2
<1> QED BY <1>1, InitFollowingInv, PTL DEF Spec

\* Applied one at a time, a history's records lead along its snapshots.
LEMMA SoundHistoryApplies ==
    ASSUME ChainSound, NEW r \in Reader, NEW from \in DOMAIN chain[r],
           NEW to \in DOMAIN chain[r], from < to
    PROVE  Accepts(chain[r][from].snapshot, from - 1, Run(chain[r], from - 1, to - 1))
<1> DEFINE records == chain[r]
           run == Run(records, from - 1, to - 1)
           start == records[from].snapshot
<1>1. /\ records \in Seq(Records) /\ Len(records) \in Nat /\ DOMAIN records = 1..Len(records)
      /\ from \in 1..Len(records) /\ to \in 1..Len(records)
      /\ \A i \in 1..Len(records) : records[i].index = i - 1
      /\ \A i \in 1..(Len(records) - 1) :
            records[i + 1] = Record(records[i], records[i + 1].snapshot)
  <2>1. records \in Seq(Records)
    BY DEF ChainSound
  <2>2. Len(records) \in Nat /\ DOMAIN records = 1..Len(records)
    BY <2>1
  <2>3. /\ \A i \in 1..Len(records) : records[i].index = i - 1
        /\ \A i \in 1..(Len(records) - 1) :
              records[i + 1] = Record(records[i], records[i + 1].snapshot)
    BY DEF ChainSound
  <2> HIDE DEF records
  <2>4. from \in 1..Len(records) /\ to \in 1..Len(records)
    BY <2>2 DEF records
  <2> QED BY <2>1, <2>2, <2>3, <2>4
<1> HIDE DEF records, start
<1>0. from \in Nat \ {0} /\ to \in Nat /\ from < to /\ to <= Len(records) /\ Len(records) \in Nat
  BY <1>1
<1>2. /\ run \in Seq(Records) /\ Len(run) = to - from
      /\ \A i \in 1..(to - from) : run[i] = records[from + i]
  <2>1. \A i \in (from + 1)..to : records[i] \in Records
    BY <1>1
  <2>2. run = SubSeq(records, from + 1, to)
    <3>1. (from - 1) + 2 = from + 1 /\ (to - 1) + 1 = to
      BY <1>1
    <3> QED BY <3>1 DEF Run
  <2>3. /\ SubSeq(records, from + 1, to) \in Seq(Records)
        /\ Len(SubSeq(records, from + 1, to)) = to - from
        /\ \A i \in 1..(to - from) : SubSeq(records, from + 1, to)[i] = records[from + i]
    <3>1. /\ from + 1 \in Int /\ to \in Int /\ from + 1 <= to
          /\ to - (from + 1) + 1 = to - from
          /\ \A i \in 1..(to - from) : (from + 1) + i - 1 = from + i
      BY <1>0
    <3>2. /\ SubSeq(records, from + 1, to) \in Seq(Records)
          /\ Len(SubSeq(records, from + 1, to)) = to - (from + 1) + 1
          /\ \A i \in 1..(to - (from + 1) + 1) :
                SubSeq(records, from + 1, to)[i] = records[(from + 1) + i - 1]
      BY <2>1, <3>1, SubSeqProperties
    <3> QED BY <3>1, <3>2
  <2> QED BY <2>2, <2>3
<1> HIDE DEF run
<1>3. PICK h : /\ h[0] = start
               /\ \A n \in 1..Len(run) : h[n] = Step(h[n - 1], run[n])
               /\ Applied(start, run) = h[Len(run)]
  BY <1>2, StepByStep
<1>4. ASSUME NEW i \in 1..(Len(records) - 1)
      PROVE  Step(records[i].snapshot, records[i + 1]) = records[i + 1].snapshot
  <2>1. /\ records[i + 1].added = records[i + 1].snapshot \ records[i].snapshot
        /\ records[i + 1].removed = records[i].snapshot \ records[i + 1].snapshot
    <3> DEFINE next == records[i + 1].snapshot
    <3>1. records[i + 1] = Record(records[i], next)
      BY <1>1
    <3> HIDE DEF next
    <3>2. /\ records[i + 1].added = next \ records[i].snapshot
          /\ records[i + 1].removed = records[i].snapshot \ next
      BY <3>1 DEF Record, Generation, DiffAdded, DiffRemoved
    <3> QED BY <3>2 DEF next
  <2> QED BY <2>1 DEF Step
<1> DEFINE S == {n \in Nat : n <= to - from => h[n] = records[from + n].snapshot}
<1>5. 0 \in S
  BY <1>0, <1>3 DEF start
<1>6. ASSUME NEW n \in Nat, n \in S PROVE n + 1 \in S
  <2> SUFFICES ASSUME n + 1 <= to - from
               PROVE  h[n + 1] = records[from + (n + 1)].snapshot
    OBVIOUS
  <2>1. n + 1 \in 1..Len(run) /\ (n + 1) - 1 = n /\ n <= to - from
    BY <1>1, <1>2
  <2>2. h[n + 1] = Step(h[n], run[n + 1])
    BY <1>3, <2>1
  <2>3. from + n \in 1..(Len(records) - 1) /\ from + (n + 1) = (from + n) + 1
    BY <1>0
  <2>4. run[n + 1] = records[(from + n) + 1] /\ h[n] = records[from + n].snapshot
    BY <1>1, <1>2, <1>6, <2>1, <2>3, SMTT(30)
  <2> QED BY <1>4, <2>2, <2>3, <2>4
<1> HIDE DEF S
<1>7. to - from \in S
  <2>1. Nat \subseteq S
    BY <1>5, <1>6, InductionSet
  <2> QED BY <1>1, <2>1
<1>8. Applied(start, run) = records[to].snapshot
  BY <1>1, <1>2, <1>3, <1>7 DEF S
<1>9. Last(run) = records[to] /\ run # <<>>
  BY <1>1, <1>2 DEF Last
<1>10. Contiguous(from - 1, run)
  <2> SUFFICES ASSUME NEW i \in 1..(to - from)
               PROVE  run[i].index = (from - 1) + i
    BY <1>2 DEF Contiguous
  <2>1. from + i \in 1..Len(records)
    BY <1>1
  <2> QED BY <1>1, <1>2, <2>1
<1> QED BY <1>8, <1>9, <1>10 DEF Accepts, run, start, records

\* A record of the publisher's is at its index in the history.
LEMMA ShownIsIndexed ==
    ASSUME ChainSound, NEW r \in Reader, NEW t \in ToSet(chain[r])
    PROVE  t.index + 1 \in DOMAIN chain[r] /\ chain[r][t.index + 1] = t
<1>1. PICK i \in DOMAIN chain[r] : chain[r][i] = t
  BY DEF ToSet
<1>2. DOMAIN chain[r] = 1..Len(chain[r]) /\ Len(chain[r]) \in Nat
  BY DEF ChainSound
<1>3. t.index = i - 1
  BY <1>1, <1>2 DEF ChainSound
<1> QED BY <1>1, <1>2, <1>3

\* Whatever peers hand over, the last record of the run decides: where it is
\* the publisher's, so is the reader's membership (delta::apply), and the run
\* named all the reader needed; and what was published applies from any
\* generation to any later one.
THEOREM HistoriesFollowed == Spec => []HistoryFollowed
<1>1. FollowingInv => LastRecordDecides
  <2> SUFFICES ASSUME FollowingInv, NEW r \in Reader,
                      NEW t \in told[r] \cap ToSet(chain[r]), t.index = reader[r].index
               PROVE  OnHistory(r)
    BY DEF LastRecordDecides, Guided
  <2>1. t.snapshot = reader[r].members
    BY DEF FollowingInv, ReaderTold
  <2>2. t.index + 1 \in DOMAIN chain[r] /\ chain[r][t.index + 1] = t
    BY ShownIsIndexed DEF FollowingInv
  <2> QED BY <2>1, <2>2 DEF OnHistory
<1>2. FollowingInv => NothingOmitted
  <2> SUFFICES ASSUME FollowingInv, NEW r \in Reader, NEW given \in Handed,
                      Accepts(reader[r].members, reader[r].index, given)
               PROVE  Last(given).snapshot \subseteq reader[r].members \cup AddedBy(given)
    BY DEF NothingOmitted
  <2>1. given \in Seq(Records)
    BY HandedIsRecords DEF FollowingInv
  <2>2. Applied(reader[r].members, given) = Last(given).snapshot
    BY DEF Accepts
  <2> QED BY <2>1, <2>2, AppliedIsNamed
<1>3. FollowingInv => HistoryApplies
  BY SoundHistoryApplies DEF FollowingInv, HistoryApplies
<1>4. FollowingInv => HistoryFollowed
  BY <1>1, <1>2, <1>3 DEF HistoryFollowed
<1> QED BY <1>4, FollowingInvariance, PTL

\* Where everyone was told what the publisher shows everyone, no two
\* witnesses of a generation differ.
LEMMA NoAlarmUnsplit == FollowingInv => NoFalseAlarm
<1> SUFFICES ASSUME FollowingInv,
                    \A r, q \in Reader : \A i \in DOMAIN chain[r] \cap DOMAIN chain[q] :
                        chain[r][i].snapshot = chain[q][i].snapshot,
                    \A r \in Reader : told[r] \subseteq ToSet(chain[r])
             PROVE  DetectSplitViews(witnesses) = {}
  BY DEF NoFalseAlarm
<1>1. \A w \in witnesses : w.observer \in Reader /\ 1 \in DOMAIN chain[w.observer]
  BY DEF FollowingInv, ChainSound, WitnessesTold
<1>2. \A v, w \in witnesses : v.generation = w.generation => v.root = w.root
  <2> SUFFICES ASSUME NEW v \in witnesses, NEW w \in witnesses, v.generation = w.generation
               PROVE  v.root = w.root
    OBVIOUS
  <2>1. CASE manner = "reached"
    <3>1. PICK t \in told[v.observer] : t.index = v.generation /\ t.snapshot = v.root
      BY <2>1 DEF FollowingInv, WitnessesTold
    <3>2. PICK u \in told[w.observer] : u.index = w.generation /\ u.snapshot = w.root
      BY <2>1 DEF FollowingInv, WitnessesTold
    <3>3. t.index + 1 \in DOMAIN chain[v.observer] /\ chain[v.observer][t.index + 1] = t
      BY <1>1, ShownIsIndexed DEF FollowingInv
    <3>4. u.index + 1 \in DOMAIN chain[w.observer] /\ chain[w.observer][u.index + 1] = u
      BY <1>1, ShownIsIndexed DEF FollowingInv
    <3> QED BY <1>1, <3>1, <3>2, <3>3, <3>4
  <2>2. CASE manner = "printed"
    <3>1. /\ v.root = chain[v.observer][1].snapshot
          /\ w.root = chain[w.observer][1].snapshot
      BY <2>2 DEF FollowingInv, WitnessesTold
    <3>2. 1 \in DOMAIN chain[v.observer] \cap DOMAIN chain[w.observer]
      BY <1>1
    <3> QED BY <1>1, <3>1, <3>2
  <2> QED BY <2>1, <2>2 DEF FollowingInv
<1> QED BY <1>2, NoneDetected

\* Witnesses of what readers reached raise the alarm where readers were told
\* two histories (detect_split_views), and nowhere else.
THEOREM AlarmsExact == Spec => []AlarmIffSplit
<1>1. ASSUME FollowingInv PROVE SplitViewsShow
  <2> SUFFICES ASSUME manner = "reached", NEW v \in witnesses, NEW w \in witnesses,
                      v.generation = w.generation,
                      Told(v.observer, v.generation) # Told(w.observer, v.generation)
               PROVE  v.generation \in DetectSplitViews(witnesses)
    BY DEF SplitViewsShow
  <2>1. \A x \in {v, w} : Told(x.observer, x.generation) = {x.root}
    <3> SUFFICES ASSUME NEW x \in {v, w} PROVE Told(x.observer, x.generation) = {x.root}
      OBVIOUS
    <3>1. /\ x.observer \in Reader
          /\ \E t \in told[x.observer] : t.index = x.generation /\ t.snapshot = x.root
      BY <1>1 DEF FollowingInv, WitnessesTold
    <3>2. \A t, u \in told[x.observer] : t.index = u.index => t = u
      BY <1>1, <3>1 DEF FollowingInv, ReaderTold
    <3> QED BY <3>1, <3>2 DEF Told
  <2>2. v.root # w.root
    BY <2>1
  <2>3. IsFiniteSet(witnesses)
    BY <1>1 DEF FollowingInv, WitnessesTold
  <2> QED BY <2>2, <2>3, DetectMeaning
<1>2. FollowingInv => AlarmIffSplit
  BY <1>1, NoAlarmUnsplit DEF AlarmIffSplit
<1> QED BY <1>2, FollowingInvariance, PTL

----------------------------------------------------------------------------
\* A set of numbers that has each number all the smaller ones of which it
\* has, has them all.
LEMMA FromSmaller ==
    ASSUME NEW S, \A n \in Nat : (\A m \in 0..(n - 1) : m \in S) => n \in S
    PROVE  Nat \subseteq S
<1> SUFFICES ASSUME Nat \ S # {} PROVE FALSE
  OBVIOUS
<1>1. PICK n \in Nat \ S : \A m \in Nat \ S : n <= m
  BY LeastMember
<1>2. \A m \in 0..(n - 1) : m \in S
  BY <1>1
<1> QED BY <1>1, <1>2

----------------------------------------------------------------------------
(* Powers of two and the bits of a word.                                   *)

\* There are twice as many sets of one more.
LEMMA PowerDoubles ==
    ASSUME NEW n \in Nat
    PROVE  2^(n + 1) = 2 * 2^n
<1> DEFINE Old == SUBSET (1..n)
           New == {A \cup {n + 1} : A \in Old}
           f == [A \in Old |-> A \cup {n + 1}]
<1>1. IsFiniteSet(1..n) /\ IsFiniteSet(1..(n + 1))
      /\ Cardinality(1..n) = n /\ Cardinality(1..(n + 1)) = n + 1
  BY FS_Interval
<1>2. Cardinality(Old) = 2^n /\ IsFiniteSet(Old) /\ Cardinality(SUBSET (1..(n + 1))) = 2^(n + 1)
  BY <1>1, FS_SUBSET
<1>3. SUBSET (1..(n + 1)) = Old \cup New
  <2>1. ASSUME NEW A \in SUBSET (1..(n + 1)) PROVE A \in Old \cup New
    <3>1. CASE n + 1 \in A
      <4>1. A \ {n + 1} \in Old /\ A = (A \ {n + 1}) \cup {n + 1}
        BY <3>1
      <4> QED BY <4>1
    <3>2. CASE n + 1 \notin A
      BY <3>2
    <3> QED BY <3>1, <3>2
  <2>2. 1..n \subseteq 1..(n + 1) /\ n + 1 \in 1..(n + 1)
    OBVIOUS
  <2>3. Old \cup New \subseteq SUBSET (1..(n + 1))
    BY <2>2
  <2> QED BY <2>1, <2>3
<1>4. Old \cap New = {}
  OBVIOUS
<1>5. f \in Bijection(Old, New)
  <2>1. \A A, B \in Old : f[A] = f[B] => A = B
    <3> SUFFICES ASSUME NEW A \in Old, NEW B \in Old, f[A] = f[B] PROVE A = B
      OBVIOUS
    <3>1. n + 1 \notin A /\ n + 1 \notin B /\ A \cup {n + 1} = B \cup {n + 1}
      OBVIOUS
    <3> QED BY <3>1
  <2>2. f \in [Old -> New]
    OBVIOUS
  <2>3. \A B \in New : \E A \in Old : f[A] = B
    OBVIOUS
  <2> HIDE DEF f, Old, New
  <2> QED BY <2>1, <2>2, <2>3, Fun_IsBij
<1> HIDE DEF f, Old, New
<1>6. IsFiniteSet(New) /\ Cardinality(New) = Cardinality(Old)
  BY <1>2, <1>5, FS_Bijection DEF ExistsBijection
<1>7. Cardinality(Old \cup New) = Cardinality(Old) + Cardinality(New) - Cardinality(Old \cap New)
  BY <1>2, <1>6, FS_Union
<1>8. Cardinality({}) = 0 /\ Cardinality(Old) \in Nat
  BY <1>2, FS_EmptySet, FS_CardinalityType
<1>9. 2^(n + 1) = Cardinality(Old) + Cardinality(Old)
  <2>1. Cardinality(Old \cup New) = 2^(n + 1)
    BY ONLY <1>2, <1>3, Zenon
  <2>2. Cardinality(Old \cap New) = 0
    BY ONLY <1>4, <1>8, Zenon
  <2>3. Cardinality(New) = Cardinality(Old)
    BY <1>6
  <2> QED BY ONLY <1>7, <1>8, <2>1, <2>2, <2>3, SMT
<1> QED BY <1>2, <1>8, <1>9

\* A power of two is a positive number.
LEMMA PowerPositive ==
    ASSUME NEW n \in Nat
    PROVE  2^n \in Nat \ {0}
<1> DEFINE P == {k \in Nat : 2^k \in Nat \ {0}}
<1>1. 0 \in P
  <2>1. 2^0 = 1
    OBVIOUS
  <2> QED BY <2>1
<1>2. ASSUME NEW k \in Nat, k \in P PROVE k + 1 \in P
  BY <1>2, PowerDoubles
<1>3. Nat \subseteq P
  <2> HIDE DEF P
  <2> QED BY <1>1, <1>2, InductionSet
<1> QED BY <1>3

\* A product of powers of two.
LEMMA PowerSum ==
    ASSUME NEW m \in Nat, NEW n \in Nat
    PROVE  2^(m + n) = 2^m * 2^n
<1> DEFINE P == {k \in Nat : 2^(m + k) = 2^m * 2^k}
<1>1. 0 \in P
  <2>1. 2^0 = 1 /\ m + 0 = m /\ 2^m \in Nat
    BY PowerPositive
  <2>2. 2^m * 2^0 = 2^m
    BY ONLY <2>1, SMT
  <2> QED BY <2>1, <2>2
<1>2. ASSUME NEW k \in Nat, k \in P PROVE k + 1 \in P
  <2>1. 2^(m + k) = 2^m * 2^k
    BY <1>2
  <2>2. m + (k + 1) = (m + k) + 1 /\ m + k \in Nat
    OBVIOUS
  <2>3. 2^((m + k) + 1) = 2 * 2^(m + k) /\ 2^(k + 1) = 2 * 2^k
    BY <2>2, PowerDoubles
  <2>4. \A x, y \in Nat : 2 * (x * y) = x * (2 * y)
    OBVIOUS
  <2>5. 2^m \in Nat /\ 2^k \in Nat
    BY PowerPositive
  <2>6. 2 * (2^m * 2^k) = 2^m * (2 * 2^k)
    BY <2>4, <2>5
  <2> QED BY <2>1, <2>2, <2>3, <2>6
<1>3. Nat \subseteq P
  <2> HIDE DEF P
  <2> QED BY <1>1, <1>2, InductionSet
<1> QED BY <1>3

\* A greater power of two is at least twice as great.
LEMMA PowerGrows ==
    ASSUME NEW m \in Nat, NEW n \in Nat, m < n
    PROVE  2 * 2^m <= 2^n
<1> DEFINE k == (n - m) - 1
<1>1. k \in Nat /\ n = (m + 1) + k /\ m + 1 \in Nat
  OBVIOUS
<1> HIDE DEF k
<1>2. 2^n = 2^(m + 1) * 2^k /\ 2^(m + 1) = 2 * 2^m
  BY <1>1, PowerSum, PowerDoubles
<1>3. 2^k \in Nat \ {0} /\ 2^(m + 1) \in Nat
  BY <1>1, PowerPositive
<1>4. \A x \in Nat : \A y \in Nat \ {0} : x <= x * y
  OBVIOUS
<1> QED BY <1>2, <1>3, <1>4

\* The least of a set of numbers.
LEMMA LeastIs ==
    ASSUME NEW S \in SUBSET Nat, NEW x \in S, \A y \in S : x <= y
    PROVE  Min(S) = x
<1> DEFINE c == CHOOSE y \in S : \A z \in S : y <= z
<1>1. c \in S /\ \A z \in S : c <= z
  OBVIOUS
<1>2. Min(S) = c
  BY DEF Min
<1> HIDE DEF c
<1> QED BY <1>1, <1>2

\* A set of numbers that has a member has a least one, which is Min's.
LEMMA LeastOf ==
    ASSUME NEW S \in SUBSET Nat, S # {}
    PROVE  Min(S) \in S /\ \A y \in S : Min(S) <= y
<1>1. PICK x \in S : \A y \in S : x <= y
  BY LeastMember
<1>2. Min(S) = x
  BY <1>1, LeastIs
<1> QED BY <1>1, <1>2

\* What the split of a size that is a word comes to.
Halves(n, e) == e \in 0..(Width - 1) /\ Split(n) = 2^e /\ 2^e < n /\ n <= 2 * 2^e

\* The split of n is a power of two below n, and n at most twice it.
LEMMA SplitHalves ==
    ASSUME NEW n \in Nat, 2 <= n, n <= 2^Width
    PROVE  \E e \in Nat : Halves(n, e)
<1> DEFINE S == {k \in 0..Width : n - 1 < 2^k}
           b == Min(S)
<1>1. Width \in Nat /\ Width # 0 /\ 2^Width \in Nat
  BY WidthAssumption, PowerPositive
<1>2. S \in SUBSET Nat /\ Width \in S
  BY <1>1
<1>3. b \in S /\ \A y \in S : b <= y
  BY <1>2, LeastOf
<1>4. 2^0 = 1
  OBVIOUS
<1>8. Split(n) = 2^(b - 1)
  BY DEF Split, BitLength
<1>3a. b \in 0..Width /\ n - 1 < 2^b
  BY <1>3
<1> HIDE DEF b
<1>5. b # 0 /\ b - 1 \in 0..(Width - 1) /\ (b - 1) + 1 = b /\ b - 1 \in Nat
  <2>1. ASSUME b = 0 PROVE FALSE
    <3>1. n - 1 < 2^0
      BY ONLY <2>1, <1>3a, Zenon
    <3> QED BY <3>1, <1>4
  <2> QED BY <1>1, <1>3a, <2>1
<1>6. ~(n - 1 < 2^(b - 1))
  BY <1>1, <1>3, <1>5
<1>7. 2^b = 2 * 2^(b - 1) /\ 2^(b - 1) \in Nat
  BY <1>5, PowerDoubles, PowerPositive
<1>10. 2^(b - 1) < n /\ n <= 2 * 2^(b - 1)
  BY <1>3a, <1>6, <1>7
<1> QED BY <1>5, <1>8, <1>10 DEF Halves

\* What a quotient is.
LEMMA QuotientIs ==
    ASSUME NEW x \in Nat, NEW d \in Nat \ {0}, NEW q \in Nat, d * q <= x, x < d * q + d
    PROVE  x \div d = q
OBVIOUS

\* What a quotient says of the number it is taken of.
LEMMA QuotientOf ==
    ASSUME NEW x \in Nat, NEW d \in Nat \ {0}
    PROVE  x \div d \in Nat /\ d * (x \div d) <= x /\ x < d * (x \div d) + d
OBVIOUS

\* A multiple more is that many more in the quotient.
LEMMA QuotientMore ==
    ASSUME NEW x \in Nat, NEW d \in Nat \ {0}, NEW q \in Nat
    PROVE  (d * q + x) \div d = q + (x \div d)
<1>1. PICK p \in Nat : p = x \div d /\ d * p <= x /\ x < d * p + d
  BY QuotientOf
<1>2. d * (q + p) = d * q + d * p /\ d * q \in Nat /\ d * p \in Nat
  OBVIOUS
<1>3. d * (q + p) <= d * q + x /\ d * q + x < d * (q + p) + d
  BY <1>1, <1>2
<1>4. (d * q + x) \div d = q + p
  BY <1>2, <1>3, QuotientIs
<1> QED BY <1>1, <1>4

\* Dividing twice is dividing once by the product.
LEMMA QuotientTwice ==
    ASSUME NEW x \in Nat, NEW a \in Nat \ {0}, NEW b \in Nat \ {0}
    PROVE  (x \div a) \div b = x \div (a * b)
<1>1. PICK p \in Nat : p = x \div a /\ a * p <= x /\ x < a * p + a
  BY QuotientOf
<1>2. PICK q \in Nat : q = p \div b /\ b * q <= p /\ p + 1 <= b * q + b
  BY QuotientOf
<1>3. \A k, l \in Nat : k <= l => a * k <= a * l
  OBVIOUS
<1>4. b * q \in Nat /\ b * q + b \in Nat /\ p + 1 \in Nat
  OBVIOUS
<1>5. a * (b * q) <= a * p /\ a * (p + 1) <= a * (b * q + b)
  BY <1>2, <1>3, <1>4
<1>6. a * (b * q) = (a * b) * q /\ a * (b * q + b) = (a * b) * q + a * b /\ a * (p + 1) = a * p + a
  OBVIOUS
<1>7. a * b \in Nat \ {0} /\ (a * b) * q \in Nat /\ a * p \in Nat
  OBVIOUS
<1>8. (a * b) * q <= x /\ x < (a * b) * q + a * b
  BY <1>1, <1>5, <1>6, <1>7
<1>9. x \div (a * b) = q
  BY <1>7, <1>8, QuotientIs
<1> QED BY <1>1, <1>2, <1>9

\* Shifting twice is shifting once, by the sum.
LEMMA ShiftTwice ==
    ASSUME NEW x \in Nat, NEW i \in Nat, NEW j \in Nat
    PROVE  (x \div 2^i) \div 2^j = x \div 2^(i + j)
<1>1. 2^i \in Nat \ {0} /\ 2^j \in Nat \ {0} /\ 2^(i + j) = 2^i * 2^j
  BY PowerPositive, PowerSum
<1>2. (x \div 2^i) \div 2^j = x \div (2^i * 2^j)
  BY <1>1, QuotientTwice
<1> QED BY ONLY <1>1, <1>2, Zenon

\* Shifting a power of two, what is added to it, and all the bits below it.
LEMMA ShiftMore ==
    ASSUME NEW x \in Nat, NEW e \in Nat, NEW i \in 0..e
    PROVE  (2^e + x) \div 2^i = 2^(e - i) + (x \div 2^i)
<1>1. i \in Nat /\ e - i \in Nat /\ i + (e - i) = e
  OBVIOUS
<1>2. 2^e = 2^i * 2^(e - i) /\ 2^i \in Nat \ {0} /\ 2^(e - i) \in Nat
  BY <1>1, PowerSum, PowerPositive
<1>3. (2^i * 2^(e - i) + x) \div 2^i = 2^(e - i) + (x \div 2^i)
  BY ONLY <1>2, x \in Nat, QuotientMore, Zenon
<1> QED BY ONLY <1>2, <1>3, Zenon

\* A number of e bits shifted by e or more leaves nothing.
LEMMA ShiftOut ==
    ASSUME NEW e \in Nat, NEW x \in 0..(2^e - 1), NEW i \in Nat, e <= i
    PROVE  x \div 2^i = 0
<1>1. 2^e <= 2^i /\ 2^e \in Nat /\ 2^i \in Nat \ {0}
  <2>1. CASE e = i
    BY <2>1, PowerPositive
  <2>2. CASE e < i
    <3>1. 2 * 2^e <= 2^i
      BY <2>2, PowerGrows
    <3> QED BY <3>1, PowerPositive
  <2> QED BY <2>1, <2>2
<1>2. x \in Nat /\ 2^i * 0 <= x /\ x < 2^i * 0 + 2^i
  BY <1>1
<1> QED BY <1>1, <1>2, QuotientIs

\* A number of e bits shifted by i has e - i bits left.
LEMMA ShiftWithin ==
    ASSUME NEW e \in Nat, NEW i \in 0..e, NEW x \in 0..(2^e - 1)
    PROVE  x \div 2^i \in 0..(2^(e - i) - 1)
<1>1. i \in Nat /\ e - i \in Nat /\ i + (e - i) = e
  OBVIOUS
<1>2. 2^e = 2^i * 2^(e - i) /\ 2^i \in Nat \ {0} /\ 2^(e - i) \in Nat /\ 2^e \in Nat
  BY <1>1, PowerSum, PowerPositive
<1>3. x \in Nat /\ x < 2^e
  BY <1>2
<1>4. PICK q \in Nat : q = x \div 2^i /\ 2^i * q <= x
  BY <1>2, <1>3, QuotientOf
<1>5. \A d, k, l \in Nat : l <= k => d * l <= d * k
  OBVIOUS
<1>6. ~(2^(e - i) <= q)
  BY <1>2, <1>3, <1>4, <1>5
<1> QED BY <1>2, <1>4, <1>6

\* Ones shifted are ones.
LEMMA ShiftOnes ==
    ASSUME NEW e \in Nat, NEW i \in 0..e
    PROVE  (2^e - 1) \div 2^i = 2^(e - i) - 1
<1>1. i \in Nat /\ e - i \in Nat /\ i + (e - i) = e
  OBVIOUS
<1>2. 2^e = 2^i * 2^(e - i) /\ 2^i \in Nat \ {0} /\ 2^(e - i) \in Nat \ {0} /\ 2^e \in Nat \ {0}
  BY <1>1, PowerSum, PowerPositive
<1> DEFINE d == 2^i
           k == 2^(e - i)
<1>3. d \in Nat \ {0} /\ k \in Nat \ {0} /\ 2^e = d * k
  BY <1>2
<1> HIDE DEF d, k
<1>4. d * (k - 1) = d * k - d /\ d * k \in Nat \ {0} /\ k - 1 \in Nat
  BY <1>3
<1>5. d * (k - 1) <= d * k - 1 /\ d * k - 1 < d * (k - 1) + d /\ d * k - 1 \in Nat
  BY <1>3, <1>4
<1>6. (d * k - 1) \div d = k - 1
  BY <1>3, <1>4, <1>5, QuotientIs
<1> QED BY <1>3, <1>6 DEF d, k

\* The bits of a power of two and of what is less than it, together.
LEMMA ParityMore ==
    ASSUME NEW x \in Nat, NEW k \in Nat \ {0}
    PROVE  (2^k + x) % 2 = x % 2
<1>1. k - 1 \in Nat /\ (k - 1) + 1 = k
  OBVIOUS
<1>2. PICK h \in Nat : 2^k = 2 * h
  BY <1>1, PowerDoubles, PowerPositive
<1>3. (2 * h + x) % 2 = x % 2
  OBVIOUS
<1> QED BY ONLY <1>2, <1>3, Zenon

\* A power of two does not change the bits below it.
LEMMA BitsBelow ==
    ASSUME NEW e \in Nat, NEW x \in Nat, NEW i \in 0..(e - 1)
    PROVE  Bit(2^e + x, i) = Bit(x, i)
<1>1. i \in 0..e /\ e - i \in Nat \ {0} /\ i \in Nat
  OBVIOUS
<1>2. (2^e + x) \div 2^i = 2^(e - i) + (x \div 2^i)
  BY <1>1, ShiftMore
<1>3. x \div 2^i \in Nat
  BY <1>1, PowerPositive, QuotientOf
<1>4. (2^(e - i) + (x \div 2^i)) % 2 = (x \div 2^i) % 2
  BY <1>1, <1>3, ParityMore
<1>5. Bit(2^e + x, i) = (2^(e - i) + (x \div 2^i)) % 2
  BY ONLY <1>2, Zenon DEF Bit
<1> QED BY <1>4, <1>5 DEF Bit

\* A number of e bits and 2^e more has bit e.
LEMMA BitAtTop ==
    ASSUME NEW e \in Nat, NEW x \in 0..(2^e - 1)
    PROVE  Bit(2^e + x, e) = 1
<1>1. x \in Nat /\ e \in 0..e /\ e - e = 0 /\ 2^0 = 1
  BY PowerPositive
<1>2. (2^e + x) \div 2^e = 2^0 + (x \div 2^e)
  <2>1. (2^e + x) \div 2^e = 2^(e - e) + (x \div 2^e)
    BY <1>1, ShiftMore
  <2> QED BY ONLY <1>1, <2>1, Zenon
<1>3. x \div 2^e = 0
  BY ShiftOut
<1>4. (2^e + x) \div 2^e = 1 + 0
  BY ONLY <1>1, <1>2, <1>3, Zenon
<1>5. (1 + 0) % 2 = 1
  OBVIOUS
<1> QED BY ONLY <1>4, <1>5, Zenon DEF Bit

\* A number of e bits has none from e upward.
LEMMA BitsAbove ==
    ASSUME NEW e \in Nat, NEW x \in 0..(2^e - 1), NEW i \in Nat, e <= i
    PROVE  Bit(x, i) = 0
<1>1. x \div 2^i = 0
  BY ShiftOut
<1>2. 0 % 2 = 0
  OBVIOUS
<1> QED BY ONLY <1>1, <1>2, Zenon DEF Bit

\* The number below a power of two is all ones.
LEMMA BitsOfOnes ==
    ASSUME NEW e \in Nat, NEW i \in 0..(e - 1)
    PROVE  Bit(2^e - 1, i) = 1
<1>1. (2^e - 1) \div 2^i = 2^(e - i) - 1
  BY ShiftOnes
<1>2. (e - i) - 1 \in Nat /\ ((e - i) - 1) + 1 = e - i
  OBVIOUS
<1>3. PICK h \in Nat \ {0} : 2^(e - i) = 2 * h
  BY <1>2, PowerDoubles, PowerPositive
<1>4. (2 * h - 1) % 2 = 1
  OBVIOUS
<1> QED BY ONLY <1>1, <1>3, <1>4, Zenon DEF Bit

\* A number that is not 0 has a bit.
LEMMA SomeBit ==
    ASSUME NEW e \in Nat, NEW x \in 1..(2^e - 1)
    PROVE  \E i \in 0..(e - 1) : Bit(x, i) = 1
<1> DEFINE P == {k \in Nat : \A y \in 1..(2^k - 1) : \E i \in 0..(k - 1) : Bit(y, i) = 1}
<1>1. 0 \in P
  <2>1. 2^0 = 1
    OBVIOUS
  <2> QED BY <2>1
<1>2. ASSUME NEW k \in Nat, k \in P PROVE k + 1 \in P
  <2> SUFFICES ASSUME NEW y \in 1..(2^(k + 1) - 1)
               PROVE  \E i \in 0..((k + 1) - 1) : Bit(y, i) = 1
    OBVIOUS
  <2>1. 2^(k + 1) = 2 * 2^k /\ 2^k \in Nat \ {0}
    BY PowerDoubles, PowerPositive
  <2>2. CASE y < 2^k
    <3>1. y \in 1..(2^k - 1)
      BY <2>1, <2>2
    <3>2. PICK i \in 0..(k - 1) : Bit(y, i) = 1
      BY <1>2, <3>1
    <3> QED BY <3>2
  <2>3. CASE ~(y < 2^k)
    <3>1. y - 2^k \in 0..(2^k - 1) /\ 2^k + (y - 2^k) = y
      BY <2>1, <2>3
    <3>2. Bit(2^k + (y - 2^k), k) = 1
      BY <3>1, BitAtTop
    <3>3. Bit(y, k) = 1
      BY ONLY <3>1, <3>2, Zenon
    <3> QED BY <3>3
  <2> QED BY <2>2, <2>3
<1> HIDE DEF P
<1>3. e \in P
  BY <1>1, <1>2, InductionSet
<1> QED BY <1>3 DEF P

\* The places a word has ones at.
Ones(n) == {i \in 0..(Width - 1) : Bit(n, i) = 1}

\* The ones of a number of e bits are below e.
LEMMA OnesWithin ==
    ASSUME NEW e \in Nat, NEW x \in 0..(2^e - 1)
    PROVE  Ones(x) \subseteq 0..(e - 1)
<1> SUFFICES ASSUME NEW i \in Ones(x), ~(i < e) PROVE FALSE
  BY WidthAssumption DEF Ones
<1>1. i \in Nat /\ e <= i /\ Bit(x, i) = 1
  BY WidthAssumption DEF Ones
<1>2. Bit(x, i) = 0
  BY <1>1, BitsAbove
<1> QED BY <1>1, <1>2

\* 2^e more is one more one, at e.
LEMMA OnesMore ==
    ASSUME NEW e \in 0..(Width - 1), NEW x \in 0..(2^e - 1)
    PROVE  Ones(2^e + x) = Ones(x) \cup {e} /\ e \notin Ones(x)
<1>1. e \in Nat /\ Width \in Nat /\ x \in Nat
  BY WidthAssumption, PowerPositive
<1>2. Bit(x, e) = 0 /\ Bit(2^e + x, e) = 1
  BY <1>1, BitsAbove, BitAtTop
<1>3. ASSUME NEW i \in 0..(e - 1) PROVE Bit(2^e + x, i) = Bit(x, i)
  BY <1>1, <1>3, BitsBelow
<1>4. ASSUME NEW i \in Nat, e < i PROVE Bit(2^e + x, i) = 0 /\ Bit(x, i) = 0
  <2>1. 2^(e + 1) = 2 * 2^e /\ 2^e \in Nat
    BY <1>1, PowerDoubles, PowerPositive
  <2>2. 2^e + x \in 0..(2^(e + 1) - 1) /\ e + 1 <= i /\ e + 1 \in Nat
    BY <1>1, <1>4, <2>1
  <2>3. Bit(2^e + x, i) = 0
    BY <2>2, BitsAbove
  <2>4. Bit(x, i) = 0
    BY <1>1, <1>4, BitsAbove
  <2> QED BY <2>3, <2>4
<1>5. ASSUME NEW i \in 0..(Width - 1)
      PROVE  Bit(2^e + x, i) = 1 <=> (Bit(x, i) = 1 \/ i = e)
  <2>1. CASE i < e
    BY <1>1, <1>3, <2>1
  <2>2. CASE i = e
    BY <1>2, <2>2
  <2>3. CASE e < i
    BY <1>1, <1>4, <2>3
  <2> QED BY <1>1, <2>1, <2>2, <2>3
<1>6. 0 # 1
  OBVIOUS
<1> QED BY <1>2, <1>5, <1>6 DEF Ones

\* A power of two has as many trailing zeros as its exponent.
LEMMA ZerosOfPower ==
    ASSUME NEW e \in 0..(Width - 1)
    PROVE  TrailingZeros(2^e) = e
<1>1. e \in Nat /\ Width \in Nat /\ 0 \in 0..(2^e - 1) /\ 2^e + 0 = 2^e /\ 2^0 = 1
  BY WidthAssumption, PowerPositive
<1>2. Ones(2^e + 0) = Ones(0) \cup {e}
  BY <1>1, OnesMore
<1>3. Ones(0) \subseteq 0..(0 - 1)
  <2>1. 0 \in 0..(2^0 - 1)
    BY <1>1
  <2> QED BY <2>1, OnesWithin
<1>4. Ones(2^e) = {e}
  BY <1>1, <1>2, <1>3
<1>5. Min(Ones(2^e)) = e
  BY <1>1, <1>4, LeastIs
<1> QED BY <1>5 DEF TrailingZeros, Ones

\* The zeros below a number's lowest one are fewer than the bits it takes, and
\* no others with more bits above them.
LEMMA ZerosOf ==
    ASSUME NEW e \in Nat, e <= Width, NEW x \in 1..(2^e - 1)
    PROVE  TrailingZeros(x) \in 0..(e - 1) /\ TrailingZeros(x) \in Ones(x)
<1>1. PICK i \in 0..(e - 1) : Bit(x, i) = 1
  BY SomeBit
<1>2. i \in Ones(x) /\ Ones(x) \in SUBSET Nat
  BY <1>1, WidthAssumption DEF Ones
<1>3. Min(Ones(x)) \in Ones(x) /\ Min(Ones(x)) <= i
  BY <1>2, LeastOf
<1>4. TrailingZeros(x) = Min(Ones(x))
  BY DEF TrailingZeros, Ones
<1> QED BY <1>1, <1>2, <1>3, <1>4

\* A power of two above a number leaves its trailing zeros.
LEMMA ZerosOfMore ==
    ASSUME NEW e \in 0..(Width - 1), NEW x \in 1..(2^e - 1)
    PROVE  TrailingZeros(2^e + x) = TrailingZeros(x)
<1>1. e \in Nat /\ e <= Width /\ Width \in Nat /\ x \in 0..(2^e - 1)
  BY WidthAssumption, PowerPositive
<1>2. Ones(2^e + x) = Ones(x) \cup {e} /\ Ones(x) \in SUBSET Nat
  BY <1>1, OnesMore DEF Ones
<1> DEFINE z == TrailingZeros(x)
<1>3. z \in 0..(e - 1) /\ z \in Ones(x) /\ \A y \in Ones(x) : z <= y
  <2>1. Min(Ones(x)) \in Ones(x) /\ \A y \in Ones(x) : Min(Ones(x)) <= y
    <3>1. Ones(x) # {}
      BY <1>1, ZerosOf
    <3> QED BY <1>2, <3>1, LeastOf
  <2>2. z = Min(Ones(x))
    BY DEF TrailingZeros, Ones
  <2> HIDE DEF z
  <2>3. z \in 0..(e - 1)
    BY <1>1, ZerosOf DEF z
  <2> QED BY <2>1, <2>2, <2>3
<1> HIDE DEF z
<1>4. z \in Ones(2^e + x) /\ \A y \in Ones(2^e + x) : z <= y
  BY <1>1, <1>2, <1>3
<1>5. Ones(2^e + x) \in SUBSET Nat
  BY <1>1 DEF Ones
<1>6. Min(Ones(2^e + x)) = z
  BY <1>4, <1>5, LeastIs
<1> QED BY <1>6 DEF z, TrailingZeros, Ones

\* How many ones there are: none in 0, all in one less than a power of two,
\* one more with a bit above the others.
LEMMA CountOf ==
    /\ CountOnes(0) = 0
    /\ \A e \in 0..Width : CountOnes(2^e - 1) = e
    /\ \A e \in 0..(Width - 1) : \A x \in 0..(2^e - 1) :
          CountOnes(2^e + x) = CountOnes(x) + 1 /\ CountOnes(x) \in Nat
<1>1. Width \in Nat /\ \A n : CountOnes(n) = Cardinality(Ones(n))
  BY WidthAssumption DEF CountOnes, Ones
<1>2. ASSUME NEW e \in 0..Width PROVE CountOnes(2^e - 1) = e
  <2>1. e \in Nat /\ 2^e - 1 \in 0..(2^e - 1)
    BY <1>1, PowerPositive
  <2>2. Ones(2^e - 1) \subseteq 0..(e - 1)
    BY <2>1, OnesWithin
  <2>3. \A i \in 0..(e - 1) : Bit(2^e - 1, i) = 1
    BY <2>1, BitsOfOnes
  <2>4. Ones(2^e - 1) = 0..(e - 1)
    BY <1>1, <2>1, <2>2, <2>3 DEF Ones
  <2>5. Cardinality(0..(e - 1)) = e
    BY <2>1, FS_Interval
  <2> QED BY <1>1, <2>4, <2>5
<1>3. CountOnes(0) = 0
  <2>1. CountOnes(2^0 - 1) = 0
    <3>1. 0 \in 0..Width
      BY <1>1
    <3> QED BY ONLY <1>2, <3>1, Zenon
  <2>2. 2^0 - 1 = 0
    OBVIOUS
  <2> QED BY ONLY <2>1, <2>2, Zenon
<1>4. ASSUME NEW e \in 0..(Width - 1), NEW x \in 0..(2^e - 1)
      PROVE  CountOnes(2^e + x) = CountOnes(x) + 1 /\ CountOnes(x) \in Nat
  <2>1. Ones(2^e + x) = Ones(x) \cup {e} /\ e \notin Ones(x)
    BY OnesMore
  <2>2. IsFiniteSet(Ones(x))
    <3>1. IsFiniteSet(0..(Width - 1)) /\ Ones(x) \subseteq 0..(Width - 1)
      BY <1>1, FS_Interval DEF Ones
    <3> QED BY <3>1, FS_Subset
  <2> QED BY <1>1, <2>1, <2>2, FS_AddElement, FS_CardinalityType
<1> QED BY <1>2, <1>3, <1>4

----------------------------------------------------------------------------
(* The parts of a consistency proof's path.                                *)

Agree(a, b, i) == a \div 2^i = b \div 2^i

\* How far two words differ is told by a place from which on they agree and
\* below which they nowhere do.
LEMMA AgreeOn ==
    ASSUME NEW a \in Nat, NEW b \in Nat, NEW i \in Nat, NEW j \in Nat, i <= j,
           Agree(a, b, i)
    PROVE  Agree(a, b, j)
<1>1. j - i \in Nat /\ i + (j - i) = j
  OBVIOUS
<1>2. (a \div 2^i) \div 2^(j - i) = a \div 2^j /\ (b \div 2^i) \div 2^(j - i) = b \div 2^j
  <2>1. /\ (a \div 2^i) \div 2^(j - i) = a \div 2^(i + (j - i))
        /\ (b \div 2^i) \div 2^(j - i) = b \div 2^(i + (j - i))
    BY <1>1, ShiftTwice
  <2> QED BY ONLY <1>1, <2>1, Zenon
<1> QED BY ONLY <1>2, Agree(a, b, i), Zenon DEF Agree

\* How far two words differ, told by where they first agree.
LEMMA DifferIs ==
    ASSUME NEW a \in Nat, NEW b \in Nat, NEW k \in 0..Width, a \div 2^k = b \div 2^k,
           \A j \in 0..(k - 1) : a \div 2^j # b \div 2^j
    PROVE  DifferWithin(a, b) = k
<1> DEFINE S == {i \in 0..Width : a \div 2^i = b \div 2^i}
<1>1. S \in SUBSET Nat /\ k \in S /\ \A y \in S : k <= y
  BY WidthAssumption
<1>2. Min(S) = k
  <2> HIDE DEF S
  <2> QED BY <1>1, LeastIs
<1> QED BY <1>2 DEF DifferWithin

\* Two numbers of e bits agree from e upward, and differ below where they first do.
LEMMA DifferOf ==
    ASSUME NEW e \in 0..Width, NEW a \in 0..(2^e - 1), NEW b \in 0..(2^e - 1)
    PROVE  /\ DifferWithin(a, b) \in 0..e
           /\ a \div 2^DifferWithin(a, b) = b \div 2^DifferWithin(a, b)
           /\ \A j \in 0..(DifferWithin(a, b) - 1) : a \div 2^j # b \div 2^j
<1> DEFINE S == {i \in 0..Width : a \div 2^i = b \div 2^i}
<1>1. Width \in Nat /\ e \in Nat /\ a \in Nat /\ b \in Nat
  BY WidthAssumption, PowerPositive
<1>2. a \div 2^e = 0 /\ b \div 2^e = 0
  BY <1>1, ShiftOut
<1>3. e \in S /\ S \in SUBSET Nat
  BY <1>1, <1>2
<1>4. DifferWithin(a, b) = Min(S)
  BY DEF DifferWithin
<1>5. Min(S) \in S /\ \A y \in S : Min(S) <= y
  <2> HIDE DEF S
  <2> QED BY <1>3, LeastOf
<1> DEFINE d == DifferWithin(a, b)
<1>6. d \in S /\ \A y \in S : d <= y
  BY <1>4, <1>5
<1> HIDE DEF d
<1>7. d \in 0..e /\ a \div 2^d = b \div 2^d /\ \A j \in 0..(d - 1) : a \div 2^j # b \div 2^j
  <2>1. d \in 0..Width /\ a \div 2^d = b \div 2^d /\ d <= e
    BY <1>3, <1>6
  <2>2. ASSUME NEW j \in 0..(d - 1), a \div 2^j = b \div 2^j PROVE FALSE
    <3>1. j \in 0..Width /\ ~(d <= j)
      BY <1>1, <2>1
    <3>2. j \in S
      BY <2>2, <3>1
    <3> QED BY <1>6, <3>1, <3>2
  <2> QED BY <1>1, <2>1, <2>2
<1> QED BY <1>7 DEF d

\* The old size m is within the left part: the path turns at the top.
LEMMA DecomposeLeft ==
    ASSUME NEW e \in 0..(Width - 1), NEW m \in 1..(2^e), NEW n \in Nat, 2^e < n, n <= 2 * 2^e
    PROVE  Decompose(m - 1, n) = [inner |-> e + 1, border |-> 0]
<1> DEFINE a == m - 1
           b == n - 1
<1>1. e \in Nat /\ 2^e \in Nat \ {0} /\ 2^(e + 1) = 2 * 2^e /\ e + 1 \in 0..Width /\ Width \in Nat
  BY WidthAssumption, PowerPositive, PowerDoubles
<1>2. a \in 0..(2^e - 1) /\ b - 2^e \in 0..(2^e - 1) /\ b \in Nat /\ a \in Nat
      /\ 2^e + (b - 2^e) = b /\ a \in 0..(2^(e + 1) - 1) /\ b \in 0..(2^(e + 1) - 1)
  BY <1>1
<1> HIDE DEF a, b
<1>3. a \div 2^(e + 1) = 0 /\ b \div 2^(e + 1) = 0
  BY <1>1, <1>2, ShiftOut
<1>4. a \div 2^e = 0
  BY <1>1, <1>2, ShiftOut
<1>5. b \div 2^e # 0
  <2>1. Bit(2^e + (b - 2^e), e) = 1
    BY <1>1, <1>2, BitAtTop
  <2>2. (b \div 2^e) % 2 = 1
    BY ONLY <1>2, <2>1, Zenon DEF Bit
  <2>3. 0 % 2 = 0
    OBVIOUS
  <2> QED BY <2>2, <2>3
<1>6. ASSUME NEW j \in 0..((e + 1) - 1), a \div 2^j = b \div 2^j PROVE FALSE
  <2>1. j \in Nat /\ j <= e
    BY <1>1
  <2>2. Agree(a, b, j)
    BY ONLY <1>6, Zenon DEF Agree
  <2>3. Agree(a, b, e)
    BY <1>1, <1>2, <2>1, <2>2, AgreeOn
  <2> QED BY ONLY <1>4, <1>5, <2>3, Zenon DEF Agree
<1>7. DifferWithin(a, b) = e + 1
  <2>1. a \div 2^(e + 1) = b \div 2^(e + 1)
    BY <1>3
  <2> QED BY <1>1, <1>2, <1>6, <2>1, DifferIs
<1>8. CountOnes(a \div 2^(e + 1)) = 0
  BY <1>3, CountOf
<1> QED BY ONLY <1>7, <1>8, Zenon DEF Decompose, a, b

\* It reaches into the right part: as in the right part alone, and one fold
\* more.
LEMMA DecomposeRight ==
    ASSUME NEW e \in 0..(Width - 1), NEW m \in Nat, NEW n \in Nat, 2^e < m, m < n, n <= 2 * 2^e
    PROVE  LET part == Decompose((m - 2^e) - 1, n - 2^e)
           IN  /\ part.inner \in 0..e /\ part.border \in Nat
               /\ Decompose(m - 1, n) = [inner |-> part.inner, border |-> part.border + 1]
<1> DEFINE a == (m - 2^e) - 1
           b == (n - 2^e) - 1
           d == DifferWithin(a, b)
<1>1. e \in Nat /\ e \in 0..Width /\ 2^e \in Nat \ {0} /\ Width \in Nat
  BY WidthAssumption, PowerPositive
<1>2. a \in 0..(2^e - 1) /\ b \in 0..(2^e - 1) /\ a \in Nat /\ b \in Nat
      /\ m - 1 = 2^e + a /\ n - 1 = 2^e + b
  BY <1>1
<1> HIDE DEF a, b
<1>3. d \in 0..e /\ a \div 2^d = b \div 2^d /\ \A j \in 0..(d - 1) : a \div 2^j # b \div 2^j
  BY <1>1, <1>2, DifferOf
<1> HIDE DEF d
<1>4. \A j \in 0..e : /\ (2^e + a) \div 2^j = 2^(e - j) + (a \div 2^j)
                      /\ (2^e + b) \div 2^j = 2^(e - j) + (b \div 2^j)
  BY <1>1, <1>2, ShiftMore
<1>5. \A j \in 0..e : a \div 2^j \in Nat /\ b \div 2^j \in Nat /\ 2^(e - j) \in Nat
  <2> SUFFICES ASSUME NEW j \in 0..e
               PROVE  a \div 2^j \in Nat /\ b \div 2^j \in Nat /\ 2^(e - j) \in Nat
    OBVIOUS
  <2>1. j \in Nat /\ e - j \in Nat
    BY <1>1
  <2> QED BY <1>2, <2>1, PowerPositive, QuotientOf
<1>6. \A j \in 0..e : (2^e + a) \div 2^j = (2^e + b) \div 2^j <=> a \div 2^j = b \div 2^j
  <2> SUFFICES ASSUME NEW j \in 0..e
               PROVE  (2^e + a) \div 2^j = (2^e + b) \div 2^j <=> a \div 2^j = b \div 2^j
    OBVIOUS
  <2>1. \A p, x, y \in Nat : p + x = p + y <=> x = y
    OBVIOUS
  <2>2. PICK p \in Nat, x \in Nat, y \in Nat : p = 2^(e - j) /\ x = a \div 2^j /\ y = b \div 2^j
    BY <1>5
  <2>3. p + x = p + y <=> x = y
    BY <2>1
  <2>4. (2^e + a) \div 2^j = p + x /\ (2^e + b) \div 2^j = p + y
    BY ONLY <1>4, <2>2, j \in 0..e, Zenon
  <2> QED BY ONLY <2>2, <2>3, <2>4, Zenon
<1>7. DifferWithin(2^e + a, 2^e + b) = d
  <2>1. (2^e + a) \div 2^d = (2^e + b) \div 2^d
    BY <1>3, <1>6
  <2>2. \A j \in 0..(d - 1) : (2^e + a) \div 2^j # (2^e + b) \div 2^j
    BY <1>1, <1>3, <1>6
  <2>3. d \in 0..Width /\ 2^e + a \in Nat /\ 2^e + b \in Nat
    BY <1>1, <1>2, <1>3
  <2> QED BY <2>1, <2>2, <2>3, DifferIs
<1>8. CountOnes((2^e + a) \div 2^d) = CountOnes(a \div 2^d) + 1 /\ CountOnes(a \div 2^d) \in Nat
  <2>1. a \div 2^d \in 0..(2^(e - d) - 1)
    BY <1>1, <1>2, <1>3, ShiftWithin
  <2>2. e - d \in 0..(Width - 1)
    BY <1>1, <1>3
  <2>3. CountOnes(2^(e - d) + (a \div 2^d)) = CountOnes(a \div 2^d) + 1
        /\ CountOnes(a \div 2^d) \in Nat
    BY <2>1, <2>2, CountOf
  <2>4. (2^e + a) \div 2^d = 2^(e - d) + (a \div 2^d)
    BY <1>3, <1>4
  <2> QED BY ONLY <2>3, <2>4, Zenon
<1>9. Decompose(a, n - 2^e) = [inner |-> d, border |-> CountOnes(a \div 2^d)]
  <2>1. DifferWithin(a, (n - 2^e) - 1) = d
    BY DEF b, d
  <2> QED BY ONLY <2>1, Zenon DEF Decompose
<1>10. Decompose(m - 1, n) = [inner |-> d, border |-> CountOnes(a \div 2^d) + 1]
  <2>1. DifferWithin(m - 1, n - 1) = d
    BY ONLY <1>2, <1>7, Zenon
  <2>2. CountOnes((m - 1) \div 2^d) = CountOnes(a \div 2^d) + 1
    BY ONLY <1>2, <1>8, Zenon
  <2> QED BY ONLY <2>1, <2>2, Zenon DEF Decompose
<1> DEFINE part == Decompose(a, n - 2^e)
<1>11. part.inner = d /\ part.border = CountOnes(a \div 2^d)
  BY <1>9
<1> HIDE DEF part
<1>12. /\ part.inner \in 0..e /\ part.border \in Nat
       /\ Decompose(m - 1, n) = [inner |-> part.inner, border |-> part.border + 1]
  BY ONLY <1>3, <1>8, <1>10, <1>11
<1> QED BY ONLY <1>12 DEF part, a

\* The old size m is less than a whole left part of n = 2^e: where the path
\* no longer turns, all of m - 1's bits are ones.
LEMMA DecomposeWhole ==
    ASSUME NEW e \in 0..Width, NEW m \in 1..(2^e - 1)
    PROVE  LET part == Decompose(m - 1, 2^e)
           IN  /\ part.inner \in 0..e /\ part.border = e - part.inner
               /\ \A j \in part.inner..(e - 1) : Bit(m - 1, j) = 1
<1> DEFINE a == m - 1
           b == 2^e - 1
           d == DifferWithin(a, b)
<1>1. e \in Nat /\ 2^e \in Nat \ {0} /\ Width \in Nat
  BY WidthAssumption, PowerPositive
<1>2. a \in 0..(2^e - 1) /\ b \in 0..(2^e - 1) /\ a \in Nat /\ b \in Nat
  BY <1>1
<1>b. b = 2^e - 1
  OBVIOUS
<1> HIDE DEF a, b
<1>3. d \in 0..e /\ Agree(a, b, d)
  BY <1>2, DifferOf DEF Agree
<1>4. Decompose(a, 2^e) = [inner |-> d, border |-> CountOnes(a \div 2^d)]
  <2>1. DifferWithin(a, 2^e - 1) = d
    BY DEF b
  <2> HIDE DEF d
  <2> QED BY ONLY <2>1, Zenon DEF Decompose
<1> HIDE DEF d
<1>5. CountOnes(a \div 2^d) = e - d
  <2>1. a \div 2^d = 2^(e - d) - 1
    <3>1. (2^e - 1) \div 2^d = 2^(e - d) - 1
      BY <1>1, <1>3, ShiftOnes
    <3> QED BY ONLY <1>b, <1>3, <3>1, Zenon DEF Agree
  <2>2. e - d \in 0..Width
    BY <1>1, <1>3
  <2>3. CountOnes(2^(e - d) - 1) = e - d
    BY <2>2, CountOf
  <2> QED BY ONLY <2>1, <2>3, Zenon
<1>6. ASSUME NEW j \in d..(e - 1) PROVE Bit(a, j) = 1
  <2>1. j \in Nat /\ j \in 0..(e - 1) /\ d \in Nat /\ d <= j
    BY <1>1, <1>3
  <2>2. Agree(a, b, j)
    BY <1>2, <1>3, <2>1, AgreeOn
  <2>3. Bit(2^e - 1, j) = 1
    BY <1>1, <2>1, BitsOfOnes
  <2> QED BY ONLY <1>b, <2>2, <2>3, Zenon DEF Agree, Bit
<1> DEFINE part == Decompose(a, 2^e)
<1>7. part.inner = d /\ part.border = e - d
  BY <1>4, <1>5
<1> HIDE DEF part
<1>8. /\ part.inner \in 0..e /\ part.border = e - part.inner
      /\ \A j \in part.inner..(e - 1) : Bit(a, j) = 1
  BY ONLY <1>3, <1>6, <1>7, Zenon
<1> QED BY ONLY <1>8 DEF part, a

----------------------------------------------------------------------------
(* Roots.                                                                  *)

RootAt(f, leaves, n, before) ==
    CASE n = 0 -> EmptyRoot
      [] n = 1 -> leaves[before + 1]
      [] OTHER -> NodeHash(f[Split(n)][before], f[n - Split(n)][before + Split(n)])

RootsUpTo(f, leaves, N) ==
    [n \in 0..N |-> [before \in 0..(Len(leaves) - n) |-> RootAt(f, leaves, n, before)]]

\* A size of two or more splits in two that are smaller.
LEMMA SplitSmaller ==
    ASSUME NEW n \in Nat, 2 <= n, n <= 2^Width
    PROVE  Split(n) \in 1..(n - 1) /\ n - Split(n) \in 1..(n - 1)
<1>1. PICK e \in Nat : Halves(n, e)
  BY SplitHalves
<1>2. 2^e \in Nat \ {0} /\ Split(n) = 2^e /\ 2^e < n
  BY <1>1, PowerPositive DEF Halves
<1> QED BY <1>2

\* The roots of every part of a log exist and unfold by size.
LEMMA RootsExist ==
    ASSUME NEW leaves, Len(leaves) \in Nat, Len(leaves) <= 2^Width
    PROVE  Roots(leaves) = RootsUpTo(Roots(leaves), leaves, Len(leaves))
<1> DEFINE all == Len(leaves)
           P == {N \in Nat : N <= all => \E f : f = RootsUpTo(f, leaves, N)}
<1>1. 0 \in P
  <2> DEFINE f == [n \in 0..0 |-> [before \in 0..(all - n) |-> EmptyRoot]]
  <2>1. \A before \in 0..(all - 0) : RootAt(f, leaves, 0, before) = EmptyRoot
    BY DEF RootAt
  <2>2. f = RootsUpTo(f, leaves, 0)
    BY <2>1 DEF RootsUpTo
  <2> QED BY <2>2
<1>2. ASSUME NEW N \in Nat, N \in P PROVE N + 1 \in P
  <2> SUFFICES ASSUME N + 1 <= all PROVE \E f : f = RootsUpTo(f, leaves, N + 1)
    OBVIOUS
  <2>1. PICK f : f = RootsUpTo(f, leaves, N)
    BY <1>2
  <2> DEFINE R(h, n) == [before \in 0..(all - n) |-> RootAt(h, leaves, n, before)]
             g == [n \in 0..(N + 1) |-> IF n = N + 1 THEN R(f, N + 1) ELSE f[n]]
  <2>2. \A n \in 0..N : g[n] = f[n]
    OBVIOUS
  <2>3. \A n \in 0..N : f[n] = R(f, n)
    BY <2>1 DEF RootsUpTo
  <2>4. g[N + 1] = R(f, N + 1)
    OBVIOUS
  <2>5. DOMAIN g = 0..(N + 1) /\ g = [n \in 0..(N + 1) |-> g[n]]
    OBVIOUS
  <2> HIDE DEF g
  <2>6. ASSUME NEW n \in 0..(N + 1) PROVE R(g, n) = R(f, n)
    <3>1. CASE n = 0 \/ n = 1
      <4>1. \A before : RootAt(g, leaves, n, before) = RootAt(f, leaves, n, before)
        BY <3>1 DEF RootAt
      <4> QED BY <4>1
    <3>2. CASE 2 <= n
      <4>1. n \in Nat /\ n <= 2^Width
        BY PowerPositive, WidthAssumption
      <4>2. Split(n) \in 1..(n - 1) /\ n - Split(n) \in 1..(n - 1)
        BY <3>2, <4>1, SplitSmaller
      <4>3. Split(n) \in 0..N /\ n - Split(n) \in 0..N
        BY <4>2
      <4>4. g[Split(n)] = f[Split(n)] /\ g[n - Split(n)] = f[n - Split(n)]
        BY <2>2, <4>3
      <4>5. \A before : RootAt(g, leaves, n, before) = RootAt(f, leaves, n, before)
        BY <4>4 DEF RootAt
      <4> QED BY <4>5
    <3> QED BY <3>1, <3>2
  <2> HIDE DEF R
  <2>7. ASSUME NEW n \in 0..(N + 1) PROVE g[n] = R(g, n)
    <3>1. CASE n = N + 1
      BY <2>4, <2>6, <3>1
    <3>2. CASE n # N + 1
      <4>1. n \in 0..N
        BY <3>2
      <4> QED BY <2>2, <2>3, <2>6, <4>1
    <3> QED BY <3>1, <3>2
  <2>8. g = RootsUpTo(g, leaves, N + 1)
    BY <2>5, <2>7 DEF RootsUpTo, R
  <2> QED BY <2>8
<1>3. all \in P
  <2> HIDE DEF P
  <2> QED BY <1>1, <1>2, InductionSet
<1>4. \E f : f = RootsUpTo(f, leaves, all)
  BY <1>3
<1>5. Roots(leaves) = CHOOSE f : f = RootsUpTo(f, leaves, all)
  BY DEF Roots, RootsUpTo, RootAt
<1> QED BY <1>4, <1>5

\* A log of no more leaves than a word can count, a part of it, and its root.
Log(A) ==
    /\ Len(A) \in Nat /\ Len(A) <= 2^Width
    /\ \A i \in 1..Len(A) : \E c : A[i] = LeafHash(c)

Part(A, b, n) == b \in Nat /\ n \in Nat /\ b + n <= Len(A)

RootOf(A, b, n) == Roots(A)[n][b]

\* Hashes are told apart.
LEMMA HashesDiffer ==
    /\ \A a, b, c, d : NodeHash(a, b) = NodeHash(c, d) => a = c /\ b = d
    /\ \A a, b, c : NodeHash(a, b) # LeafHash(c)
    /\ \A c, d : LeafHash(c) = LeafHash(d) => c = d
    /\ \A a, b : NodeHash(a, b) # EmptyRoot
    /\ \A c : LeafHash(c) # EmptyRoot
<1>1. ASSUME NEW a, NEW b, NEW c, NEW d, NodeHash(a, b) = NodeHash(c, d) PROVE a = c /\ b = d
  BY <1>1 DEF NodeHash
<1>2. ASSUME NEW a, NEW b, NEW c PROVE NodeHash(a, b) # LeafHash(c)
  BY DEF NodeHash, LeafHash
<1>3. ASSUME NEW c, NEW d, LeafHash(c) = LeafHash(d) PROVE c = d
  BY <1>3 DEF LeafHash
<1>4. ASSUME NEW a, NEW b PROVE NodeHash(a, b) # EmptyRoot
  BY DEF NodeHash, EmptyRoot
<1>5. ASSUME NEW c PROVE LeafHash(c) # EmptyRoot
  BY DEF LeafHash, EmptyRoot
<1> QED BY <1>1, <1>2, <1>3, <1>4, <1>5

\* The root of a part: of nothing, of one leaf, and of two parts.
LEMMA RootUnfolds ==
    ASSUME NEW A, Log(A), NEW b, NEW n, Part(A, b, n)
    PROVE  RootOf(A, b, n) = RootAt(Roots(A), A, n, b)
<1>1. n \in 0..Len(A) /\ b \in 0..(Len(A) - n) /\ Len(A) \in Nat /\ Len(A) <= 2^Width
  BY DEF Log, Part
<1> DEFINE f == Roots(A)
<1>2. f = RootsUpTo(f, A, Len(A))
  BY <1>1, RootsExist
<1> HIDE DEF f
<1>3. f[n] = [before \in 0..(Len(A) - n) |-> RootAt(f, A, n, before)]
  BY <1>1, <1>2 DEF RootsUpTo
<1>4. f[n][b] = RootAt(f, A, n, b)
  BY <1>1, <1>3
<1> QED BY <1>4 DEF f, RootOf

\* The root of nothing, and of one leaf.
LEMMA RootIs ==
    ASSUME NEW A, Log(A), NEW b, NEW n, Part(A, b, n)
    PROVE  /\ n = 0 => RootOf(A, b, n) = EmptyRoot
           /\ n = 1 => RootOf(A, b, n) = A[b + 1] /\ \E c : A[b + 1] = LeafHash(c)
<1>1. RootOf(A, b, n) = RootAt(Roots(A), A, n, b)
  BY RootUnfolds
<1>2. n = 1 => b + 1 \in 1..Len(A)
  BY DEF Part, Log
<1> QED BY <1>1, <1>2 DEF RootAt, Log

\* The root of a larger part is the node of its two halves' roots.
LEMMA RootOfBoth ==
    ASSUME NEW A, Log(A), NEW b, NEW n, Part(A, b, n), 2 <= n
    PROVE  \E e \in Nat :
              /\ Halves(n, e)
              /\ Part(A, b, 2^e) /\ Part(A, b + 2^e, n - 2^e) /\ 2^e \in 1..(n - 1)
              /\ RootOf(A, b, n) = NodeHash(RootOf(A, b, 2^e), RootOf(A, b + 2^e, n - 2^e))
<1>1. n \in Nat /\ b \in Nat /\ b + n <= Len(A) /\ n # 0 /\ n # 1 /\ n <= 2^Width
  BY PowerPositive, WidthAssumption DEF Log, Part
<1>2. RootOf(A, b, n) = RootAt(Roots(A), A, n, b)
  BY RootUnfolds
<1>3. PICK e \in Nat : Halves(n, e)
  BY <1>1, SplitHalves
<1>4. 2^e \in Nat \ {0} /\ 2^e < n /\ Split(n) = 2^e
  BY <1>3, PowerPositive DEF Halves
<1>5. Part(A, b, 2^e) /\ Part(A, b + 2^e, n - 2^e) /\ 2^e \in 1..(n - 1)
  BY <1>1, <1>4 DEF Part, Log
<1>6. RootOf(A, b, n) = NodeHash(RootOf(A, b, 2^e), RootOf(A, b + 2^e, n - 2^e))
  BY ONLY <1>1, <1>2, <1>4, Zenon DEF RootAt, RootOf
<1> QED BY <1>3, <1>5, <1>6

\* Parts of the same leaves have the same root.
LEMMA SameRoots ==
    ASSUME NEW A, Log(A), NEW B, Log(B), NEW b, NEW c, NEW n, Part(A, b, n), Part(B, c, n),
           \A i \in 1..n : A[b + i] = B[c + i]
    PROVE  RootOf(A, b, n) = RootOf(B, c, n)
<1> DEFINE P == {m \in Nat : \A x, y : /\ Part(A, x, m) /\ Part(B, y, m)
                                       /\ \A i \in 1..m : A[x + i] = B[y + i]
                                       => RootOf(A, x, m) = RootOf(B, y, m)}
<1>1. ASSUME NEW m \in Nat, \A l \in 0..(m - 1) : l \in P PROVE m \in P
  <2> SUFFICES ASSUME NEW x, NEW y, Part(A, x, m), Part(B, y, m),
                      \A i \in 1..m : A[x + i] = B[y + i]
               PROVE  RootOf(A, x, m) = RootOf(B, y, m)
    OBVIOUS
  <2>1. CASE m = 0
    BY <2>1, RootIs
  <2>2. CASE m = 1
    BY <2>2, RootIs
  <2>3. CASE 2 <= m
    <3>1. PICK e \in Nat :
              /\ Halves(m, e)
              /\ Part(A, x, 2^e) /\ Part(A, x + 2^e, m - 2^e) /\ 2^e \in 1..(m - 1)
              /\ RootOf(A, x, m) = NodeHash(RootOf(A, x, 2^e), RootOf(A, x + 2^e, m - 2^e))
      BY <2>3, RootOfBoth
    <3>2. PICK d \in Nat :
              /\ Halves(m, d)
              /\ Part(B, y, 2^d) /\ Part(B, y + 2^d, m - 2^d) /\ 2^d \in 1..(m - 1)
              /\ RootOf(B, y, m) = NodeHash(RootOf(B, y, 2^d), RootOf(B, y + 2^d, m - 2^d))
      BY <2>3, RootOfBoth
    <3>3. 2^d = 2^e
      BY <3>1, <3>2 DEF Halves
    <3> DEFINE k == 2^e
    <3>4. k \in 1..(m - 1) /\ k = 2^d
      BY <3>1, <3>3
    <3>5. /\ Part(A, x, k) /\ Part(A, x + k, m - k) /\ Part(B, y, k) /\ Part(B, y + k, m - k)
          /\ RootOf(A, x, m) = NodeHash(RootOf(A, x, k), RootOf(A, x + k, m - k))
          /\ RootOf(B, y, m) = NodeHash(RootOf(B, y, k), RootOf(B, y + k, m - k))
      BY ONLY <3>1, <3>2, <3>3, Zenon
    <3> HIDE DEF k
    <3>6. k \in P /\ m - k \in P
      BY <1>1, <3>4
    <3>7. x \in Nat /\ y \in Nat
      BY DEF Part
    <3>8. \A i \in 1..k : A[x + i] = B[y + i]
      BY <3>4
    <3>9. \A i \in 1..(m - k) : A[(x + k) + i] = B[(y + k) + i]
      <4> SUFFICES ASSUME NEW i \in 1..(m - k) PROVE A[(x + k) + i] = B[(y + k) + i]
        OBVIOUS
      <4>1. (x + k) + i = x + (k + i) /\ (y + k) + i = y + (k + i) /\ k + i \in 1..m
        BY <3>4, <3>7
      <4> QED BY <4>1
    <3>10. RootOf(A, x, k) = RootOf(B, y, k)
      BY <3>5, <3>6, <3>8
    <3>11. RootOf(A, x + k, m - k) = RootOf(B, y + k, m - k)
      BY <3>5, <3>6, <3>9
    <3> QED BY ONLY <3>5, <3>10, <3>11, Zenon
  <2> QED BY <2>1, <2>2, <2>3
<1> HIDE DEF P
<1>2. Nat \subseteq P
  BY <1>1, FromSmaller
<1>3. n \in P
  BY <1>2 DEF Part
<1> QED BY <1>3 DEF P

\* The root of a part that is not empty tells how many leaves there are, and
\* which.
LEMMA RootsTell ==
    ASSUME NEW A, Log(A), NEW B, Log(B), NEW b, NEW c, NEW n, NEW m,
           Part(A, b, n), Part(B, c, m), n # 0, m # 0, RootOf(A, b, n) = RootOf(B, c, m)
    PROVE  n = m /\ \A i \in 1..n : A[b + i] = B[c + i]
<1> DEFINE Tells(x, y, k, l) ==
              Part(A, x, k) /\ Part(B, y, l) /\ k # 0 /\ l # 0 /\ RootOf(A, x, k) = RootOf(B, y, l)
                  => k = l /\ \A i \in 1..k : A[x + i] = B[y + i]
           P == {k \in Nat : \A x, y, l : Tells(x, y, k, l)}
<1>1. ASSUME NEW k \in Nat, \A j \in 0..(k - 1) : j \in P PROVE k \in P
  <2> SUFFICES ASSUME NEW x, NEW y, NEW l,
                      Part(A, x, k), Part(B, y, l), k # 0, l # 0,
                      RootOf(A, x, k) = RootOf(B, y, l)
               PROVE  k = l /\ \A i \in 1..k : A[x + i] = B[y + i]
    OBVIOUS
  <2>0. l \in Nat /\ x \in Nat /\ y \in Nat
    BY DEF Part
  <2>1. CASE k = 1 /\ l = 1
    BY <2>0, <2>1, RootIs
  <2>2. CASE k = 1 /\ 2 <= l
    <3>1. PICK p, q : RootOf(B, y, l) = NodeHash(p, q)
      BY <2>2, RootOfBoth
    <3>2. PICK r : RootOf(A, x, k) = LeafHash(r)
      BY <2>2, RootIs
    <3> QED BY ONLY <3>1, <3>2, HashesDiffer, RootOf(A, x, k) = RootOf(B, y, l), Zenon
  <2>3. CASE 2 <= k /\ l = 1
    <3>1. PICK p, q : RootOf(A, x, k) = NodeHash(p, q)
      BY <2>3, RootOfBoth
    <3>2. PICK r : RootOf(B, y, l) = LeafHash(r)
      BY <2>3, RootIs
    <3> QED BY ONLY <3>1, <3>2, HashesDiffer, RootOf(A, x, k) = RootOf(B, y, l), Zenon
  <2>4. CASE 2 <= k /\ 2 <= l
    <3>1. PICK e \in Nat :
              /\ Part(A, x, 2^e) /\ Part(A, x + 2^e, k - 2^e) /\ 2^e \in 1..(k - 1)
              /\ RootOf(A, x, k) = NodeHash(RootOf(A, x, 2^e), RootOf(A, x + 2^e, k - 2^e))
      BY <2>4, RootOfBoth
    <3>2. PICK d \in Nat :
              /\ Part(B, y, 2^d) /\ Part(B, y + 2^d, l - 2^d) /\ 2^d \in 1..(l - 1)
              /\ RootOf(B, y, l) = NodeHash(RootOf(B, y, 2^d), RootOf(B, y + 2^d, l - 2^d))
      BY <2>4, RootOfBoth
    <3> DEFINE p == 2^e
               q == 2^d
    <3>3. /\ p \in 1..(k - 1) /\ Part(A, x, p) /\ Part(A, x + p, k - p)
          /\ q \in 1..(l - 1) /\ Part(B, y, q) /\ Part(B, y + q, l - q)
      BY <3>1, <3>2
    <3>4. RootOf(A, x, p) = RootOf(B, y, q) /\ RootOf(A, x + p, k - p) = RootOf(B, y + q, l - q)
      <4>1. NodeHash(RootOf(A, x, p), RootOf(A, x + p, k - p))
             = NodeHash(RootOf(B, y, q), RootOf(B, y + q, l - q))
        BY ONLY <3>1, <3>2, RootOf(A, x, k) = RootOf(B, y, l), Zenon
      <4> HIDE DEF p, q
      <4> QED BY ONLY <4>1, HashesDiffer
    <3> HIDE DEF p, q
    <3>5. p \in P /\ k - p \in P /\ p # 0 /\ q # 0 /\ k - p # 0 /\ l - q # 0
      BY <1>1, <2>0, <3>3
    <3>6. p = q /\ \A i \in 1..p : A[x + i] = B[y + i]
      BY <3>3, <3>4, <3>5
    <3>7. k - p = l - q /\ \A i \in 1..(k - p) : A[(x + p) + i] = B[(y + q) + i]
      BY <3>3, <3>4, <3>5
    <3>8. k = l
      BY <2>0, <3>3, <3>6, <3>7
    <3>9. ASSUME NEW i \in 1..k PROVE A[x + i] = B[y + i]
      <4>1. CASE i <= p
        BY <3>3, <3>6, <4>1
      <4>2. CASE p < i
        <5>1. i - p \in 1..(k - p) /\ (x + p) + (i - p) = x + i /\ (y + q) + (i - p) = y + i
          BY <2>0, <3>3, <3>6, <4>2
        <5>2. A[(x + p) + (i - p)] = B[(y + q) + (i - p)]
          BY <3>7, <5>1
        <5> QED BY ONLY <5>1, <5>2, Zenon
      <4> QED BY <3>3, <4>1, <4>2
    <3> QED BY <3>8, <3>9
  <2> QED BY <2>0, <2>1, <2>2, <2>3, <2>4
<1> HIDE DEF P
<1>2. Nat \subseteq P
  BY <1>1, FromSmaller
<1>3. n \in P
  BY <1>2 DEF Part
<1> QED BY <1>3 DEF P

----------------------------------------------------------------------------
(* Folding a path onto a node.                                             *)

Folded(node, sibling, side) ==
    CASE side = "left"  -> NodeHash(node, sibling)
      [] side = "right" -> NodeHash(sibling, node)
      [] OTHER          -> node

ClimbUpTo(f, seed, path, sides, N) ==
    [i \in 0..N |->
        CASE i = 0 -> seed
          [] i > 0 /\ sides[i] = "left"  -> NodeHash(f[i - 1], path[i])
          [] i > 0 /\ sides[i] = "right" -> NodeHash(path[i], f[i - 1])
          [] OTHER -> f[i - 1]]

\* The nodes on the way up.
ClimbedBy(f, seed, path, sides, N) ==
    f[0] = seed /\ \A i \in 1..N : f[i] = Folded(f[i - 1], path[i], sides[i])

\* What a climb adds up to exists, step by step.
LEMMA ClimbExists ==
    ASSUME NEW seed, NEW path, NEW sides, NEW N \in Nat
    PROVE  \E f : f = ClimbUpTo(f, seed, path, sides, N)
<1> DEFINE P == {n \in Nat : \E f : f = ClimbUpTo(f, seed, path, sides, n)}
           B(h, i) == CASE i = 0 -> seed
                        [] i > 0 /\ sides[i] = "left"  -> NodeHash(h[i - 1], path[i])
                        [] i > 0 /\ sides[i] = "right" -> NodeHash(path[i], h[i - 1])
                        [] OTHER -> h[i - 1]
<1>1. 0 \in P
  <2> DEFINE f == [i \in 0..0 |-> seed]
  <2>1. f = ClimbUpTo(f, seed, path, sides, 0)
    BY DEF ClimbUpTo
  <2> QED BY <2>1
<1>2. ASSUME NEW n \in Nat, n \in P PROVE n + 1 \in P
  <2>1. PICK f : f = ClimbUpTo(f, seed, path, sides, n)
    BY <1>2
  <2> DEFINE g == [i \in 0..(n + 1) |-> IF i = n + 1 THEN B(f, n + 1) ELSE f[i]]
  <2>2. \A i \in 0..n : g[i] = f[i]
    OBVIOUS
  <2>3. g[n + 1] = B(f, n + 1)
    OBVIOUS
  <2>4. \A i \in 0..n : f[i] = B(f, i)
    BY <2>1 DEF ClimbUpTo
  <2>5. DOMAIN g = 0..(n + 1) /\ g = [i \in 0..(n + 1) |-> g[i]]
    OBVIOUS
  <2> HIDE DEF g
  <2>6. ASSUME NEW i \in 0..(n + 1) PROVE B(g, i) = B(f, i)
    <3>1. CASE i = 0
      BY <3>1
    <3>2. CASE i # 0
      <4>1. g[i - 1] = f[i - 1]
        BY <2>2, <3>2
      <4> QED BY <3>2, <4>1
    <3> QED BY <3>1, <3>2
  <2> HIDE DEF B
  <2>7. ASSUME NEW i \in 0..(n + 1) PROVE g[i] = B(g, i)
    <3>1. CASE i = n + 1
      BY <2>3, <2>6, <3>1
    <3>2. CASE i # n + 1
      <4>1. i \in 0..n
        BY <3>2
      <4> QED BY <2>2, <2>4, <2>6, <4>1
    <3> QED BY <3>1, <3>2
  <2>8. g = ClimbUpTo(g, seed, path, sides, n + 1)
    BY <2>5, <2>7 DEF ClimbUpTo, B
  <2> QED BY <2>8
<1> HIDE DEF P
<1>3. N \in P
  BY <1>1, <1>2, InductionSet
<1> QED BY <1>3 DEF P

\* A climb is the last of its steps.
LEMMA Climbed ==
    ASSUME NEW seed, NEW path, NEW sides, Len(path) \in Nat
    PROVE  \E f : ClimbedBy(f, seed, path, sides, Len(path))
                  /\ Climb(seed, path, sides) = f[Len(path)]
<1> DEFINE N == Len(path)
           node == CHOOSE f : f = ClimbUpTo(f, seed, path, sides, N)
<1>1. \E f : f = ClimbUpTo(f, seed, path, sides, N)
  BY ClimbExists
<1>2. node = ClimbUpTo(node, seed, path, sides, N)
  BY <1>1
<1>3. Climb(seed, path, sides) = node[N]
  BY DEF Climb, ClimbUpTo
<1> HIDE DEF node
<1>4. N \in Nat
  OBVIOUS
<1> HIDE DEF N
<1>5. node[0] = seed
  BY <1>2, <1>4 DEF ClimbUpTo
<1>6. ASSUME NEW i \in 1..N PROVE node[i] = Folded(node[i - 1], path[i], sides[i])
  <2>1. i \in 0..N /\ i # 0 /\ i > 0
    BY <1>4
  <2>2. node[i] = CASE i = 0 -> seed
                    [] i > 0 /\ sides[i] = "left"  -> NodeHash(node[i - 1], path[i])
                    [] i > 0 /\ sides[i] = "right" -> NodeHash(path[i], node[i - 1])
                    [] OTHER -> node[i - 1]
    BY <1>2, <2>1 DEF ClimbUpTo
  <2> QED BY <2>1, <2>2 DEF Folded
<1>7. ClimbedBy(node, seed, path, sides, N)
  BY <1>5, <1>6 DEF ClimbedBy
<1> QED BY <1>3, <1>7 DEF N

\* No path leads to the node itself; a path with one sibling more folds that
\* onto where the path without it leads.
LEMMA ClimbNone ==
    ASSUME NEW seed, NEW path, NEW sides, Len(path) = 0
    PROVE  Climb(seed, path, sides) = seed
BY Climbed DEF ClimbedBy

\* A climb of one more step is that step on top of the climb before.
LEMMA ClimbMore ==
    ASSUME NEW seed, NEW p, NEW s, NEW q, NEW t,
           Len(p) \in Nat, Len(q) = Len(p) + 1,
           \A i \in 1..Len(p) : p[i] = q[i] /\ s[i] = t[i]
    PROVE  Climb(seed, q, t) = Folded(Climb(seed, p, s), q[Len(p) + 1], t[Len(p) + 1])
<1> DEFINE N == Len(p)
<1>1. PICK f : ClimbedBy(f, seed, p, s, N) /\ Climb(seed, p, s) = f[N]
  BY Climbed
<1>2. PICK g : ClimbedBy(g, seed, q, t, N + 1) /\ Climb(seed, q, t) = g[N + 1]
  <2>1. Len(q) \in Nat
    OBVIOUS
  <2>2. PICK g : ClimbedBy(g, seed, q, t, Len(q)) /\ Climb(seed, q, t) = g[Len(q)]
    BY <2>1, Climbed
  <2> QED BY <2>2
<1> DEFINE P == {n \in Nat : n <= N => g[n] = f[n]}
<1>3. 0 \in P
  BY <1>1, <1>2 DEF ClimbedBy
<1>4. ASSUME NEW n \in Nat, n \in P PROVE n + 1 \in P
  <2> SUFFICES ASSUME n + 1 <= N PROVE g[n + 1] = f[n + 1]
    OBVIOUS
  <2>1. g[n] = f[n] /\ n + 1 \in 1..N /\ n + 1 \in 1..(N + 1) /\ (n + 1) - 1 = n
    BY <1>4
  <2>2. f[n + 1] = Folded(f[n], p[n + 1], s[n + 1])
    BY <1>1, <2>1 DEF ClimbedBy
  <2>3. g[n + 1] = Folded(g[n], q[n + 1], t[n + 1])
    BY <1>2, <2>1 DEF ClimbedBy
  <2>4. p[n + 1] = q[n + 1] /\ s[n + 1] = t[n + 1]
    BY <2>1
  <2> QED BY ONLY <2>1, <2>2, <2>3, <2>4, Zenon
<1> HIDE DEF P
<1>5. N \in P
  BY <1>3, <1>4, InductionSet
<1>6. g[N] = f[N]
  BY <1>5 DEF P
<1>7. N + 1 \in 1..(N + 1) /\ (N + 1) - 1 = N
  OBVIOUS
<1>8. g[N + 1] = Folded(g[N], q[N + 1], t[N + 1])
  BY <1>2, <1>7 DEF ClimbedBy
<1> QED BY <1>1, <1>2, <1>6, <1>8

\* The same of a path and sides with one more at their ends.
LEMMA ClimbAppend ==
    ASSUME NEW seed, NEW S, NEW q \in Seq(S), NEW h, NEW T, NEW s \in Seq(T), NEW side,
           Len(q) = Len(s)
    PROVE  Climb(seed, Append(q, h), Append(s, side)) = Folded(Climb(seed, q, s), h, side)
<1> DEFINE p == Append(q, h)
           t == Append(s, side)
<1>1. /\ Len(q) \in Nat /\ Len(p) = Len(q) + 1 /\ p[Len(q) + 1] = h /\ t[Len(q) + 1] = side
      /\ \A i \in 1..Len(q) : q[i] = p[i] /\ s[i] = t[i]
  OBVIOUS
<1> HIDE DEF p, t
<1>2. Climb(seed, p, t) = Folded(Climb(seed, q, s), p[Len(q) + 1], t[Len(q) + 1])
  BY <1>1, ClimbMore
<1> QED BY <1>1, <1>2 DEF p, t

----------------------------------------------------------------------------
(* Proofs of inclusion.                                                    *)

SidesAt(f, size, index) ==
    LET k == Split(size)
    IN  CASE size = 1 -> <<>>
          [] size > 1 /\ index < k -> Append(f[k][index], "left")
          [] OTHER -> Append(f[size - k][index - k], "right")

SidesUpTo(f, N) == [size \in 1..N |-> [index \in 0..(size - 1) |-> SidesAt(f, size, index)]]

\* The sides of every position of every size exist and unfold by size.
LEMMA SidesExist == Sides = SidesUpTo(Sides, 2^Width - 1)
<1> DEFINE top == 2^Width - 1
           P == {N \in Nat : N <= top => \E f : f = SidesUpTo(f, N)}
<1>0. top \in Nat /\ 2^Width \in Nat
  BY PowerPositive, WidthAssumption
<1>1. 0 \in P
  <2> DEFINE f == [size \in 1..0 |-> <<>>]
  <2>1. 1..0 = {}
    OBVIOUS
  <2>2. f = SidesUpTo(f, 0)
    BY <2>1 DEF SidesUpTo
  <2> QED BY <2>2
<1>2. ASSUME NEW N \in Nat, N \in P PROVE N + 1 \in P
  <2> SUFFICES ASSUME N + 1 <= top PROVE \E f : f = SidesUpTo(f, N + 1)
    OBVIOUS
  <2>1. PICK f : f = SidesUpTo(f, N)
    BY <1>0, <1>2
  <2> DEFINE R(h, n) == [index \in 0..(n - 1) |-> SidesAt(h, n, index)]
             g == [n \in 1..(N + 1) |-> IF n = N + 1 THEN R(f, N + 1) ELSE f[n]]
  <2>2. \A n \in 1..N : g[n] = f[n]
    OBVIOUS
  <2>3. \A n \in 1..N : f[n] = R(f, n)
    BY <2>1 DEF SidesUpTo
  <2>4. g[N + 1] = R(f, N + 1)
    OBVIOUS
  <2>5. DOMAIN g = 1..(N + 1) /\ g = [n \in 1..(N + 1) |-> g[n]]
    OBVIOUS
  <2> HIDE DEF g
  <2>6. ASSUME NEW n \in 1..(N + 1) PROVE R(g, n) = R(f, n)
    <3>1. CASE n = 1
      <4>1. \A index : SidesAt(g, n, index) = SidesAt(f, n, index)
        BY <3>1 DEF SidesAt
      <4> QED BY <4>1
    <3>2. CASE 2 <= n
      <4>1. n \in Nat /\ n <= 2^Width
        BY <1>0
      <4>2. Split(n) \in 1..(n - 1) /\ n - Split(n) \in 1..(n - 1)
        BY <3>2, <4>1, SplitSmaller
      <4>3. Split(n) \in 1..N /\ n - Split(n) \in 1..N
        BY <4>2
      <4>4. g[Split(n)] = f[Split(n)] /\ g[n - Split(n)] = f[n - Split(n)]
        BY <2>2, <4>3
      <4>5. \A index : SidesAt(g, n, index) = SidesAt(f, n, index)
        BY <4>4 DEF SidesAt
      <4> QED BY <4>5
    <3> QED BY <3>1, <3>2
  <2> HIDE DEF R
  <2>7. ASSUME NEW n \in 1..(N + 1) PROVE g[n] = R(g, n)
    <3>1. CASE n = N + 1
      BY <2>4, <2>6, <3>1
    <3>2. CASE n # N + 1
      <4>1. n \in 1..N
        BY <3>2
      <4> QED BY <2>2, <2>3, <2>6, <4>1
    <3> QED BY <3>1, <3>2
  <2>8. g = SidesUpTo(g, N + 1)
    BY <2>5, <2>7 DEF SidesUpTo, R
  <2> QED BY <2>8
<1>3. top \in P
  <2> HIDE DEF P
  <2> QED BY <1>0, <1>1, <1>2, InductionSet
<1>4. \E f : f = SidesUpTo(f, top)
  BY <1>3
<1>5. Word \ {0} = 1..top
  BY <1>0 DEF Word
<1>6. Sides = CHOOSE f : f = [size \in Word \ {0} |-> [index \in 0..(size - 1) |-> SidesAt(f, size, index)]]
  BY DEF Sides, SidesAt
<1>7. Sides = CHOOSE f : f = SidesUpTo(f, top)
  BY ONLY <1>5, <1>6 DEF SidesUpTo
<1> QED BY <1>4, <1>7

\* The sides of a position in a size: none in a size of one; else those it
\* has in the part it is in, and the side that part is on.
LEMMA SidesIs ==
    ASSUME NEW n \in Word \ {0}, NEW i \in 0..(n - 1)
    PROVE  Sides[n][i] = SidesAt(Sides, n, i)
<1>1. n \in 1..(2^Width - 1)
  BY PowerPositive, WidthAssumption DEF Word
<1> DEFINE f == Sides
<1>2. f = SidesUpTo(f, 2^Width - 1)
  BY SidesExist
<1> HIDE DEF f
<1>3. f[n] = [index \in 0..(n - 1) |-> SidesAt(f, n, index)]
  BY <1>1, <1>2 DEF SidesUpTo
<1>4. f[n][i] = SidesAt(f, n, i)
  BY <1>3
<1> QED BY <1>4 DEF f

\* The sides of a position in a larger tree are those in its half, and that half's.
LEMMA SidesOfBoth ==
    ASSUME NEW n \in Word, 2 <= n, NEW i \in 0..(n - 1)
    PROVE  \E e \in Nat :
              /\ Halves(n, e) /\ 2^e \in Word \ {0} /\ n - 2^e \in Word \ {0}
              /\ 2^e \in 1..(n - 1)
              /\ i < 2^e => Sides[n][i] = Append(Sides[2^e][i], "left")
              /\ ~(i < 2^e) => /\ i - 2^e \in 0..((n - 2^e) - 1)
                               /\ Sides[n][i] = Append(Sides[n - 2^e][i - 2^e], "right")
<1>1. n \in Word \ {0} /\ n \in Nat /\ n <= 2^Width /\ n # 1 /\ n > 1
  BY PowerPositive, WidthAssumption DEF Word
<1>2. PICK e \in Nat : Halves(n, e)
  BY <1>1, SplitHalves
<1>3. 2^e \in Nat \ {0} /\ 2^e < n /\ Split(n) = 2^e
  BY <1>2, PowerPositive DEF Halves
<1>4. 2^e \in Word \ {0} /\ n - 2^e \in Word \ {0} /\ 2^e \in 1..(n - 1)
  BY <1>1, <1>3, PowerPositive, WidthAssumption DEF Word
<1>5. Sides[n][i] = SidesAt(Sides, n, i)
  BY <1>1, SidesIs
<1>6. i < 2^e => Sides[n][i] = Append(Sides[2^e][i], "left")
  BY ONLY <1>1, <1>3, <1>5, Zenon DEF SidesAt
<1>7. ~(i < 2^e) => Sides[n][i] = Append(Sides[n - 2^e][i - 2^e], "right")
  BY ONLY <1>1, <1>3, <1>5, Zenon DEF SidesAt
<1>8. ~(i < 2^e) => i - 2^e \in 0..((n - 2^e) - 1)
  BY <1>1, <1>3
<1> QED BY <1>2, <1>4, <1>6, <1>7, <1>8

\* A position has as many sides as it has siblings; they are a sequence.
LEMMA SidesType ==
    ASSUME NEW n \in Word \ {0}, NEW i \in 0..(n - 1)
    PROVE  Sides[n][i] \in Seq({"left", "right"})
<1> DEFINE P == {m \in Nat : m \in Word \ {0} => \A j \in 0..(m - 1) : Sides[m][j] \in Seq({"left", "right"})}
<1>1. ASSUME NEW m \in Nat, \A l \in 0..(m - 1) : l \in P PROVE m \in P
  <2> SUFFICES ASSUME m \in Word \ {0}, NEW j \in 0..(m - 1)
               PROVE  Sides[m][j] \in Seq({"left", "right"})
    OBVIOUS
  <2>1. CASE m = 1
    <3>1. Sides[m][j] = SidesAt(Sides, m, j)
      BY SidesIs
    <3>2. Sides[m][j] = <<>>
      BY ONLY <2>1, <3>1 DEF SidesAt
    <3> QED BY <3>2
  <2>2. CASE 2 <= m
    <3>1. PICK e \in Nat :
              /\ 2^e \in Word \ {0} /\ m - 2^e \in Word \ {0} /\ 2^e \in 1..(m - 1)
              /\ j < 2^e => Sides[m][j] = Append(Sides[2^e][j], "left")
              /\ ~(j < 2^e) => /\ j - 2^e \in 0..((m - 2^e) - 1)
                               /\ Sides[m][j] = Append(Sides[m - 2^e][j - 2^e], "right")
      <4>1. m \in Word
        OBVIOUS
      <4> QED BY ONLY <2>2, <4>1, j \in 0..(m - 1), SidesOfBoth, Zenon
    <3>2. 2^e \in P /\ m - 2^e \in P
      BY <1>1, <3>1
    <3>a. \A s \in Seq({"left", "right"}) :
             Append(s, "left") \in Seq({"left", "right"}) /\ Append(s, "right") \in Seq({"left", "right"})
      OBVIOUS
    <3>3. CASE j < 2^e
      <4>1. Sides[2^e][j] \in Seq({"left", "right"})
        BY <3>1, <3>2, <3>3
      <4> QED BY <3>1, <3>3, <3>a, <4>1
    <3>4. CASE ~(j < 2^e)
      <4>1. Sides[m - 2^e][j - 2^e] \in Seq({"left", "right"})
        BY <3>1, <3>2, <3>4
      <4> QED BY <3>1, <3>4, <3>a, <4>1
    <3> QED BY <3>3, <3>4
  <2> QED BY <2>1, <2>2
<1> HIDE DEF P
<1>2. n \in P
  BY <1>1, FromSmaller DEF Word
<1> QED BY <1>2 DEF P

\* A path that climbs, one side after another, to a root leads to it from one
\* of the leaves below.
Reaches(leaf, n, i, path, A, b, m) ==
    /\ n \in Word \ {0} /\ i \in 0..(n - 1)
    /\ Len(path) = Len(Sides[n][i])
    /\ Part(A, b, m) /\ m # 0
    /\ Climb(leaf, path, Sides[n][i]) = RootOf(A, b, m)

Stem(path, l) == SubSeq(path, 1, l)

\* The last step of such a path goes to one of the two parts of the log.
LEMMA ReachesPart ==
    ASSUME NEW S, NEW path \in Seq(S), NEW leaf, NEW n, NEW i, NEW A, Log(A), NEW b, NEW m,
           Reaches(leaf, n, i, path, A, b, m), 2 <= n, \E c : leaf = LeafHash(c)
    PROVE  /\ 2 <= m /\ Split(n) \in 1..(n - 1) /\ Split(m) \in 1..(m - 1)
           /\ \E p \in Seq(S) :
                 /\ i < Split(n) => Reaches(leaf, Split(n), i, p, A, b, Split(m))
                 /\ ~(i < Split(n)) => Reaches(leaf, n - Split(n), i - Split(n), p,
                                               A, b + Split(m), m - Split(m))
<1> DEFINE sides == Sides[n][i]
<1>1. /\ n \in Word \ {0} /\ n \in Word /\ i \in 0..(n - 1) /\ Part(A, b, m) /\ m # 0
      /\ Len(path) = Len(sides) /\ Climb(leaf, path, sides) = RootOf(A, b, m)
      /\ m \in Nat /\ b \in Nat
  BY DEF Reaches, Part
<1>2. PICK e \in Nat :
          /\ Halves(n, e) /\ 2^e \in Word \ {0} /\ n - 2^e \in Word \ {0} /\ 2^e \in 1..(n - 1)
          /\ i < 2^e => sides = Append(Sides[2^e][i], "left")
          /\ ~(i < 2^e) => /\ i - 2^e \in 0..((n - 2^e) - 1)
                           /\ sides = Append(Sides[n - 2^e][i - 2^e], "right")
  BY <1>1, SidesOfBoth
<1> HIDE DEF sides
<1> DEFINE D == {"left", "right"}
           below == IF i < 2^e THEN Sides[2^e][i] ELSE Sides[n - 2^e][i - 2^e]
           side  == IF i < 2^e THEN "left" ELSE "right"
<1>3. below \in Seq(D) /\ side \in D /\ sides = Append(below, side)
  <2>1. CASE i < 2^e
    <3>1. i \in 0..(2^e - 1)
      BY <1>1, <1>2, <2>1
    <3>2. Sides[2^e][i] \in Seq(D)
      BY <1>2, <3>1, SidesType
    <3> QED BY <1>2, <2>1, <3>2
  <2>2. CASE ~(i < 2^e)
    <3>1. Sides[n - 2^e][i - 2^e] \in Seq(D)
      BY <1>2, <2>2, SidesType
    <3> QED BY <1>2, <2>2, <3>1
  <2> QED BY <2>1, <2>2
<1>4. (i < 2^e => below = Sides[2^e][i] /\ side = "left")
      /\ (~(i < 2^e) => below = Sides[n - 2^e][i - 2^e] /\ side = "right")
  OBVIOUS
<1> HIDE DEF below, side, D
<1> DEFINE l == Len(below)
           p == Stem(path, l)
<1>5. l \in Nat /\ Len(sides) = l + 1 /\ sides[l + 1] = side
      /\ \A j \in 1..l : below[j] = sides[j]
  BY <1>3
<1>6. p \in Seq(S) /\ Len(p) = l /\ \A j \in 1..l : p[j] = path[j]
  BY <1>1, <1>5 DEF Stem
<1> HIDE DEF l, p
<1>7. Climb(leaf, path, sides) = Folded(Climb(leaf, p, below), path[l + 1], side)
  <2>1. Len(p) \in Nat /\ Len(path) = Len(p) + 1
        /\ \A j \in 1..Len(p) : p[j] = path[j] /\ below[j] = sides[j]
    BY <1>1, <1>5, <1>6
  <2>2. Climb(leaf, path, sides) = Folded(Climb(leaf, p, below), path[Len(p) + 1], sides[Len(p) + 1])
    BY <2>1, ClimbMore
  <2> QED BY <1>5, <1>6, <2>2
<1>8. \E x, y : Folded(Climb(leaf, p, below), path[l + 1], side) = NodeHash(x, y)
  BY <1>4 DEF Folded
<1>9. 2 <= m
  <2> SUFFICES ASSUME m = 1 PROVE FALSE
    BY <1>1
  <2>1. PICK c : RootOf(A, b, m) = LeafHash(c)
    BY <1>1, RootIs
  <2> QED BY ONLY <1>1, <1>7, <1>8, <2>1, HashesDiffer, Zenon
<1>10. PICK d \in Nat :
          /\ Halves(m, d) /\ Part(A, b, 2^d) /\ Part(A, b + 2^d, m - 2^d) /\ 2^d \in 1..(m - 1)
          /\ RootOf(A, b, m) = NodeHash(RootOf(A, b, 2^d), RootOf(A, b + 2^d, m - 2^d))
  <2>1. Log(A) /\ Part(A, b, m) /\ 2 <= m
    BY <1>1, <1>9
  <2> QED BY ONLY <2>1, RootOfBoth, SMTT(30)
<1>13. /\ Split(n) = 2^e /\ Split(m) = 2^d
       /\ 2 <= m /\ Split(n) \in 1..(n - 1) /\ Split(m) \in 1..(m - 1)
  BY <1>2, <1>9, <1>10 DEF Halves
<1>11. CASE i < 2^e
  <2>1. NodeHash(Climb(leaf, p, below), path[l + 1])
           = NodeHash(RootOf(A, b, 2^d), RootOf(A, b + 2^d, m - 2^d))
    BY <1>1, <1>4, <1>7, <1>10, <1>11 DEF Folded
  <2>2. Climb(leaf, p, below) = RootOf(A, b, 2^d)
    BY ONLY <2>1, HashesDiffer
  <2>3. i \in 0..(2^e - 1) /\ 2^d # 0
    BY <1>1, <1>2, <1>10, <1>11
  <2>4. Len(p) = Len(Sides[2^e][i]) /\ Climb(leaf, p, Sides[2^e][i]) = RootOf(A, b, 2^d)
    BY <1>4, <1>6, <1>11, <2>2 DEF l
  <2>5. Reaches(leaf, 2^e, i, p, A, b, 2^d)
    BY ONLY <1>2, <1>10, <2>3, <2>4, Zenon DEF Reaches
  <2> QED BY <1>6, <1>9, <1>10, <1>11, <1>13, <2>5
<1>12. CASE ~(i < 2^e)
  <2>1. NodeHash(path[l + 1], Climb(leaf, p, below))
           = NodeHash(RootOf(A, b, 2^d), RootOf(A, b + 2^d, m - 2^d))
    BY <1>1, <1>4, <1>7, <1>10, <1>12 DEF Folded
  <2>2. Climb(leaf, p, below) = RootOf(A, b + 2^d, m - 2^d)
    BY ONLY <2>1, HashesDiffer
  <2>3. m - 2^d # 0
    BY <1>1, <1>10
  <2>4. Len(p) = Len(Sides[n - 2^e][i - 2^e])
        /\ Climb(leaf, p, Sides[n - 2^e][i - 2^e]) = RootOf(A, b + 2^d, m - 2^d)
    BY <1>4, <1>6, <1>12, <2>2 DEF l
  <2>5. Reaches(leaf, n - 2^e, i - 2^e, p, A, b + 2^d, m - 2^d)
    BY ONLY <1>2, <1>10, <1>12, <2>3, <2>4, Zenon DEF Reaches
  <2> QED BY <1>6, <1>9, <1>10, <1>12, <1>13, <2>5
<1> QED BY <1>11, <1>12

\* A path of one step leads from the one leaf there is.
LEMMA ReachesLeaf ==
    ASSUME NEW path, NEW leaf, NEW i, NEW A, Log(A), NEW b, NEW m,
           Reaches(leaf, 1, i, path, A, b, m), \E c : leaf = LeafHash(c)
    PROVE  i = 0 /\ m = 1 /\ A[b + 1] = leaf
<1>1. /\ 1 \in Word \ {0} /\ i = 0 /\ Part(A, b, m) /\ m # 0 /\ m \in Nat
      /\ Len(path) = Len(Sides[1][0]) /\ Climb(leaf, path, Sides[1][0]) = RootOf(A, b, m)
  BY DEF Reaches, Part
<1>2. Sides[1][0] = <<>>
  <2>1. Sides[1][0] = SidesAt(Sides, 1, 0)
    BY <1>1, SidesIs
  <2> QED BY ONLY <2>1 DEF SidesAt
<1>3. Len(path) = 0
  BY <1>1, <1>2
<1>4. Climb(leaf, path, Sides[1][0]) = leaf
  BY <1>3, ClimbNone
<1>5. RootOf(A, b, m) = leaf
  BY ONLY <1>1, <1>4, Zenon
<1>6. ~(2 <= m)
  <2> SUFFICES ASSUME 2 <= m PROVE FALSE
    OBVIOUS
  <2>1. \E x, y : RootOf(A, b, m) = NodeHash(x, y)
    BY <1>1, RootOfBoth
  <2> QED BY ONLY <1>5, <2>1, HashesDiffer, \E c : leaf = LeafHash(c), Zenon
<1>7. m = 1
  BY <1>1, <1>6
<1>8. A[b + 1] = leaf
  BY <1>1, <1>5, <1>7, RootIs
<1> QED BY <1>1, <1>7, <1>8

\* Whatever position, size and path are claimed, what climbs to the root of a
\* log is a leaf of it; claimed to be the first it is the first, and claimed
\* to be the last it is the last.
LEMMA ReachesFrom ==
    ASSUME NEW S, NEW path \in Seq(S), NEW leaf, NEW n, NEW i, NEW A, Log(A), NEW b, NEW m,
           Reaches(leaf, n, i, path, A, b, m), \E c : leaf = LeafHash(c)
    PROVE  \E j \in 0..(m - 1) : /\ A[b + j + 1] = leaf
                                 /\ i = 0 => j = 0
                                 /\ i = n - 1 => j = m - 1
<1> DEFINE From(k, x, p, y, l) ==
              Reaches(leaf, k, x, p, A, y, l)
                  => \E j \in 0..(l - 1) : /\ A[y + j + 1] = leaf
                                           /\ x = 0 => j = 0
                                           /\ x = k - 1 => j = l - 1
           P == {k \in Nat : \A p \in Seq(S) : \A x, y, l : From(k, x, p, y, l)}
<1>1. ASSUME NEW k \in Nat, \A l \in 0..(k - 1) : l \in P PROVE k \in P
  <2> SUFFICES ASSUME NEW p \in Seq(S), NEW x, NEW y, NEW l, Reaches(leaf, k, x, p, A, y, l)
               PROVE  \E j \in 0..(l - 1) : /\ A[y + j + 1] = leaf
                                            /\ x = 0 => j = 0
                                            /\ x = k - 1 => j = l - 1
    OBVIOUS
  <2>1. k # 0 /\ x \in 0..(k - 1) /\ y \in Nat /\ l \in Nat
    BY DEF Reaches, Part
  <2>2. CASE k = 1
    <3>1. x = 0 /\ l = 1 /\ A[y + 1] = leaf
      BY <2>2, ReachesLeaf
    <3>2. 0 \in 0..(l - 1) /\ y + 0 + 1 = y + 1 /\ 0 = l - 1
      BY <2>1, <3>1
    <3> QED BY <3>1, <3>2
  <2>3. CASE 2 <= k
    <3> DEFINE sn == Split(k)
               sm == Split(l)
    <3>1. /\ 2 <= l /\ sn \in 1..(k - 1) /\ sm \in 1..(l - 1)
          /\ \E q \in Seq(S) : /\ x < sn => Reaches(leaf, sn, x, q, A, y, sm)
                               /\ ~(x < sn) => Reaches(leaf, k - sn, x - sn, q, A, y + sm, l - sm)
      BY <2>3, ReachesPart
    <3> HIDE DEF sn, sm
    <3>2. PICK q \in Seq(S) : /\ x < sn => Reaches(leaf, sn, x, q, A, y, sm)
                              /\ ~(x < sn) => Reaches(leaf, k - sn, x - sn, q, A, y + sm, l - sm)
      BY <3>1
    <3>3. sn \in P /\ k - sn \in P
      BY <1>1, <3>1
    <3>4. CASE x < sn
      <4>1. PICK j \in 0..(sm - 1) : A[y + j + 1] = leaf /\ (x = 0 => j = 0)
        BY <3>2, <3>3, <3>4
      <4>2. j \in 0..(l - 1) /\ x # k - 1
        BY <2>1, <3>1, <3>4
      <4> QED BY <4>1, <4>2
    <3>5. CASE ~(x < sn)
      <4>1. PICK j \in 0..((l - sm) - 1) : /\ A[(y + sm) + j + 1] = leaf
                                           /\ x - sn = (k - sn) - 1 => j = (l - sm) - 1
        BY <3>2, <3>3, <3>5
      <4>2. /\ sm + j \in 0..(l - 1) /\ (y + sm) + j + 1 = y + (sm + j) + 1 /\ x # 0
            /\ x = k - 1 => sm + j = l - 1
        BY <2>1, <3>1, <3>5, <4>1
      <4> QED BY <4>1, <4>2
    <3> QED BY <3>4, <3>5
  <2> QED BY <2>1, <2>2, <2>3
<1> HIDE DEF P
<1>2. n \in P
  <2>1. n \in Nat
    BY DEF Reaches, Word
  <2> QED BY <1>1, <2>1, FromSmaller
<1> QED BY <1>2 DEF P

\* What is claimed to stand at two positions next to each other stands next
\* to each other.
LEMMA ReachesBeside ==
    ASSUME NEW S, NEW path \in Seq(S), NEW beside \in Seq(S), NEW leaf, NEW next,
           NEW n, NEW i, NEW A, Log(A), NEW b, NEW m,
           Reaches(leaf, n, i, path, A, b, m), Reaches(next, n, i + 1, beside, A, b, m),
           \E c : leaf = LeafHash(c), \E c : next = LeafHash(c)
    PROVE  \E j \in 0..(m - 2) : A[b + j + 1] = leaf /\ A[b + j + 2] = next
<1> DEFINE Beside(k, x, p, q, y, l) ==
              Reaches(leaf, k, x, p, A, y, l) /\ Reaches(next, k, x + 1, q, A, y, l)
                  => \E j \in 0..(l - 2) : A[y + j + 1] = leaf /\ A[y + j + 2] = next
           P == {k \in Nat : \A p, q \in Seq(S) : \A x, y, l : Beside(k, x, p, q, y, l)}
<1>1. ASSUME NEW k \in Nat, \A l \in 0..(k - 1) : l \in P PROVE k \in P
  <2> SUFFICES ASSUME NEW p \in Seq(S), NEW q \in Seq(S), NEW x, NEW y, NEW l,
                      Reaches(leaf, k, x, p, A, y, l), Reaches(next, k, x + 1, q, A, y, l)
               PROVE  \E j \in 0..(l - 2) : A[y + j + 1] = leaf /\ A[y + j + 2] = next
    OBVIOUS
  <2>1. x \in 0..(k - 1) /\ x + 1 \in 0..(k - 1) /\ 2 <= k /\ y \in Nat /\ l \in Nat
    BY DEF Reaches, Part
  <2> DEFINE sn == Split(k)
             sm == Split(l)
  <2>2. /\ 2 <= l /\ sn \in 1..(k - 1) /\ sm \in 1..(l - 1)
        /\ \E r \in Seq(S) : /\ x < sn => Reaches(leaf, sn, x, r, A, y, sm)
                             /\ ~(x < sn) => Reaches(leaf, k - sn, x - sn, r, A, y + sm, l - sm)
    BY <2>1, ReachesPart
  <2>3. \E r \in Seq(S) :
            /\ x + 1 < sn => Reaches(next, sn, x + 1, r, A, y, sm)
            /\ ~(x + 1 < sn) => Reaches(next, k - sn, (x + 1) - sn, r, A, y + sm, l - sm)
    BY <2>1, ReachesPart
  <2> HIDE DEF sn, sm
  <2>4. PICK r \in Seq(S) : /\ x < sn => Reaches(leaf, sn, x, r, A, y, sm)
                            /\ ~(x < sn) => Reaches(leaf, k - sn, x - sn, r, A, y + sm, l - sm)
    BY <2>2
  <2>5. PICK t \in Seq(S) :
            /\ x + 1 < sn => Reaches(next, sn, x + 1, t, A, y, sm)
            /\ ~(x + 1 < sn) => Reaches(next, k - sn, (x + 1) - sn, t, A, y + sm, l - sm)
    BY <2>3
  <2>6. sn \in P /\ k - sn \in P
    BY <1>1, <2>2
  <2>7. CASE x + 1 < sn
    <3>1. x < sn
      BY <2>1, <2>2, <2>7
    <3>2. PICK j \in 0..(sm - 2) : A[y + j + 1] = leaf /\ A[y + j + 2] = next
      BY <2>4, <2>5, <2>6, <2>7, <3>1
    <3>3. j \in 0..(l - 2)
      BY <2>1, <2>2
    <3> QED BY <3>2, <3>3
  <2>8. CASE ~(x < sn)
    <3>1. ~(x + 1 < sn) /\ (x + 1) - sn = (x - sn) + 1
      BY <2>1, <2>2, <2>8
    <3>2. PICK j \in 0..((l - sm) - 2) : A[(y + sm) + j + 1] = leaf /\ A[(y + sm) + j + 2] = next
      BY <2>4, <2>5, <2>6, <2>8, <3>1
    <3>3. /\ sm + j \in 0..(l - 2) /\ (y + sm) + j + 1 = y + (sm + j) + 1
          /\ (y + sm) + j + 2 = y + (sm + j) + 2
      BY <2>1, <2>2, <3>2
    <3> QED BY <3>2, <3>3
  <2>9. CASE x < sn /\ ~(x + 1 < sn)
    <3>1. x = sn - 1 /\ (x + 1) - sn = 0
      BY <2>1, <2>2, <2>9
    <3>2. Reaches(leaf, sn, x, r, A, y, sm)
      BY <2>4, <2>9
    <3>3. Reaches(next, k - sn, 0, t, A, y + sm, l - sm)
      BY <2>5, <2>9, <3>1
    <3>4. PICK j \in 0..(sm - 1) : A[y + j + 1] = leaf /\ j = sm - 1
      <4>1. \E j \in 0..(sm - 1) : /\ A[y + j + 1] = leaf
                                   /\ x = 0 => j = 0
                                   /\ x = sn - 1 => j = sm - 1
        BY <3>2, ReachesFrom, SMTT(30)
      <4> QED BY <3>1, <4>1
    <3>5. PICK h \in 0..((l - sm) - 1) : A[(y + sm) + h + 1] = next /\ h = 0
      BY <3>3, ReachesFrom
    <3>6. j \in 0..(l - 2) /\ (y + sm) + h + 1 = y + j + 2
      BY <2>1, <2>2, <3>4, <3>5
    <3> QED BY <3>4, <3>5, <3>6
  <2> QED BY <2>7, <2>8, <2>9
<1> HIDE DEF P
<1>2. n \in P
  <2>1. n \in Nat
    BY DEF Reaches, Word
  <2> QED BY <1>1, <2>1, FromSmaller
<1> QED BY <1>2 DEF P

\* The proof of each position, for each part.
PathAt(f, leaves, n, before, i) ==
    LET k == Split(n)
    IN  CASE n = 1 -> <<>>
          [] n > 1 /\ i < k -> Append(f[k][before][i], Roots(leaves)[n - k][before + k])
          [] OTHER -> Append(f[n - k][before + k][i - k], Roots(leaves)[k][before])

PathsUpTo(f, leaves, N) ==
    [n \in 1..N |-> [before \in 0..(Len(leaves) - n) |->
        [i \in 0..(n - 1) |-> PathAt(f, leaves, n, before, i)]]]

Paths(leaves) == CHOOSE f : f = PathsUpTo(f, leaves, Len(leaves))

\* The audit paths of every part of a log exist and unfold by size.
LEMMA PathsExist ==
    ASSUME NEW leaves, Len(leaves) \in Nat, Len(leaves) <= 2^Width
    PROVE  Paths(leaves) = PathsUpTo(Paths(leaves), leaves, Len(leaves))
<1> DEFINE all == Len(leaves)
           P == {N \in Nat : N <= all => \E f : f = PathsUpTo(f, leaves, N)}
<1>1. 0 \in P
  <2> DEFINE f == [n \in 1..0 |-> <<>>]
  <2>1. 1..0 = {}
    OBVIOUS
  <2>2. f = PathsUpTo(f, leaves, 0)
    BY <2>1 DEF PathsUpTo
  <2> QED BY <2>2
<1>2. ASSUME NEW N \in Nat, N \in P PROVE N + 1 \in P
  <2> SUFFICES ASSUME N + 1 <= all PROVE \E f : f = PathsUpTo(f, leaves, N + 1)
    OBVIOUS
  <2>1. PICK f : f = PathsUpTo(f, leaves, N)
    BY <1>2
  <2> DEFINE R(h, n) == [before \in 0..(all - n) |->
                            [i \in 0..(n - 1) |-> PathAt(h, leaves, n, before, i)]]
             g == [n \in 1..(N + 1) |-> IF n = N + 1 THEN R(f, N + 1) ELSE f[n]]
  <2>2. \A n \in 1..N : g[n] = f[n]
    OBVIOUS
  <2>3. \A n \in 1..N : f[n] = R(f, n)
    BY <2>1 DEF PathsUpTo
  <2>4. g[N + 1] = R(f, N + 1)
    OBVIOUS
  <2>5. DOMAIN g = 1..(N + 1) /\ g = [n \in 1..(N + 1) |-> g[n]]
    OBVIOUS
  <2> HIDE DEF g
  <2>6. ASSUME NEW n \in 1..(N + 1) PROVE R(g, n) = R(f, n)
    <3>1. CASE n = 1
      <4>1. \A before, i : PathAt(g, leaves, n, before, i) = PathAt(f, leaves, n, before, i)
        BY <3>1 DEF PathAt
      <4> QED BY <4>1
    <3>2. CASE 2 <= n
      <4>1. n \in Nat /\ n <= 2^Width
        BY PowerPositive, WidthAssumption
      <4>2. Split(n) \in 1..(n - 1) /\ n - Split(n) \in 1..(n - 1)
        BY <3>2, <4>1, SplitSmaller
      <4>3. Split(n) \in 1..N /\ n - Split(n) \in 1..N
        BY <4>2
      <4>4. g[Split(n)] = f[Split(n)] /\ g[n - Split(n)] = f[n - Split(n)]
        BY <2>2, <4>3
      <4>5. \A before, i : PathAt(g, leaves, n, before, i) = PathAt(f, leaves, n, before, i)
        BY <4>4 DEF PathAt
      <4> QED BY <4>5
    <3> QED BY <3>1, <3>2
  <2> HIDE DEF R
  <2>7. ASSUME NEW n \in 1..(N + 1) PROVE g[n] = R(g, n)
    <3>1. CASE n = N + 1
      BY <2>4, <2>6, <3>1
    <3>2. CASE n # N + 1
      <4>1. n \in 1..N
        BY <3>2
      <4> QED BY <2>2, <2>3, <2>6, <4>1
    <3> QED BY <3>1, <3>2
  <2>8. g = PathsUpTo(g, leaves, N + 1)
    BY <2>5, <2>7 DEF PathsUpTo, R
  <2> QED BY <2>8
<1>3. all \in P
  <2> HIDE DEF P
  <2> QED BY <1>1, <1>2, InductionSet
<1> QED BY <1>3 DEF Paths

\* An inclusion proof is one of these paths.
LEMMA ProofFromPaths ==
    ASSUME NEW leaves, NEW index
    PROVE  InclusionProof(leaves, index) = IF index >= Len(leaves) THEN <<>>
                                           ELSE Paths(leaves)[Len(leaves)][0][index]
BY DEF InclusionProof, Paths, PathsUpTo, PathAt

\* One such path, unfolded.
LEMMA PathUnfolds ==
    ASSUME NEW A, Log(A), NEW b, NEW n, Part(A, b, n), NEW i \in 0..(n - 1)
    PROVE  Paths(A)[n][b][i] = PathAt(Paths(A), A, n, b, i)
<1>1. n \in 1..Len(A) /\ b \in 0..(Len(A) - n) /\ Len(A) \in Nat /\ Len(A) <= 2^Width
  BY DEF Log, Part
<1> DEFINE f == Paths(A)
<1>2. f = PathsUpTo(f, A, Len(A))
  BY <1>1, PathsExist
<1> HIDE DEF f
<1>3. f[n] = [before \in 0..(Len(A) - n) |-> [j \in 0..(n - 1) |-> PathAt(f, A, n, before, j)]]
  BY <1>1, <1>2 DEF PathsUpTo
<1>4. f[n][b] = [j \in 0..(n - 1) |-> PathAt(f, A, n, b, j)]
  BY <1>1, <1>3
<1>5. f[n][b][i] = PathAt(f, A, n, b, i)
  BY <1>4
<1> QED BY <1>5 DEF f

\* What all the roots of a log's parts are among.
Hashes(A) == {RootOf(A, b, n) : b, n \in 0..Len(A)}

\* The proof of a position of a part is a path that climbs from the leaf to
\* the part's root.
LEMMA PathsReach ==
    ASSUME NEW A, Log(A), Len(A) \in Word, NEW b, NEW n, Part(A, b, n), NEW i \in 0..(n - 1)
    PROVE  /\ Paths(A)[n][b][i] \in Seq(Hashes(A))
           /\ Reaches(A[b + i + 1], n, i, Paths(A)[n][b][i], A, b, n)
<1> DEFINE f == Paths(A)
           H == Hashes(A)
           OK(m, x, j) == f[m][x][j] \in Seq(H) /\ Reaches(A[x + j + 1], m, j, f[m][x][j], A, x, m)
           P == {m \in Nat : \A x : Part(A, x, m) => \A j \in 0..(m - 1) : OK(m, x, j)}
<1>1. ASSUME NEW m \in Nat, \A l \in 0..(m - 1) : l \in P PROVE m \in P
  <2> SUFFICES ASSUME NEW x, Part(A, x, m), NEW j \in 0..(m - 1) PROVE OK(m, x, j)
    OBVIOUS
  <2>1. f[m][x][j] = PathAt(f, A, m, x, j)
    BY PathUnfolds
  <2>2. m \in Word \ {0} /\ m # 0 /\ x \in Nat /\ m \in Word /\ m > 0
    BY PowerPositive, WidthAssumption DEF Part, Word
  <2>a. Sides[m][j] \in Seq({"left", "right"})
    BY <2>2, SidesType
  <2>3. CASE m = 1
    <3>1. f[m][x][j] = <<>>
      BY ONLY <2>1, <2>3 DEF PathAt
    <3>2. Sides[m][j] = <<>>
      <4>1. Sides[m][j] = SidesAt(Sides, m, j)
        BY <2>2, SidesIs
      <4> QED BY ONLY <2>3, <4>1 DEF SidesAt
    <3>3. RootOf(A, x, m) = A[x + 1] /\ x + j + 1 = x + 1
      BY <2>2, <2>3, RootIs
    <3>4. Climb(A[x + j + 1], f[m][x][j], Sides[m][j]) = A[x + j + 1]
      <4>1. Len(f[m][x][j]) = 0
        BY <3>1
      <4> QED BY <4>1, ClimbNone
    <3>5. Len(f[m][x][j]) = Len(Sides[m][j]) /\ f[m][x][j] \in Seq(H)
      BY <3>1, <3>2
    <3> HIDE DEF f, H
    <3>6. Reaches(A[x + j + 1], m, j, f[m][x][j], A, x, m)
      BY <2>2, <3>3, <3>4, <3>5 DEF Reaches
    <3> QED BY <3>5, <3>6
  <2>4. CASE 2 <= m
    <3>1. PICK e \in Nat :
              /\ Halves(m, e)
              /\ Part(A, x, 2^e) /\ Part(A, x + 2^e, m - 2^e) /\ 2^e \in 1..(m - 1)
              /\ RootOf(A, x, m) = NodeHash(RootOf(A, x, 2^e), RootOf(A, x + 2^e, m - 2^e))
      BY <2>4, RootOfBoth
    <3>2. PICK d \in Nat :
              /\ Halves(m, d) /\ 2^d \in Word \ {0} /\ m - 2^d \in Word \ {0}
              /\ j < 2^d => Sides[m][j] = Append(Sides[2^d][j], "left")
              /\ ~(j < 2^d) => /\ j - 2^d \in 0..((m - 2^d) - 1)
                               /\ Sides[m][j] = Append(Sides[m - 2^d][j - 2^d], "right")
      BY <2>2, <2>4, SidesOfBoth
    <3> DEFINE k == Split(m)
    <3>3. 2^e = k /\ 2^d = k
      BY <3>1, <3>2 DEF Halves
    <3>4. /\ Part(A, x, k) /\ Part(A, x + k, m - k) /\ k \in 1..(m - 1)
          /\ RootOf(A, x, m) = NodeHash(RootOf(A, x, k), RootOf(A, x + k, m - k))
          /\ k \in Word \ {0} /\ m - k \in Word \ {0}
          /\ j < k => Sides[m][j] = Append(Sides[k][j], "left")
          /\ ~(j < k) => /\ j - k \in 0..((m - k) - 1)
                         /\ Sides[m][j] = Append(Sides[m - k][j - k], "right")
      BY ONLY <3>1, <3>2, <3>3, Zenon
    <3>5. k \in P /\ m - k \in P
      BY <1>1, <3>4
    <3>6. m # 1 /\ m > 1
      BY <2>2, <2>4
    <3>7. PathAt(f, A, m, x, j) = IF j < k THEN Append(f[k][x][j], RootOf(A, x + k, m - k))
                                  ELSE Append(f[m - k][x + k][j - k], RootOf(A, x, k))
      BY ONLY <3>6, Zenon DEF PathAt, RootOf
    <3>8. RootOf(A, x + k, m - k) \in H /\ RootOf(A, x, k) \in H
      <4>1. x \in 0..Len(A) /\ x + k \in 0..Len(A) /\ k \in 0..Len(A) /\ m - k \in 0..Len(A)
        BY <2>2, <3>4, SMTT(30) DEF Part, Log
      <4> QED BY <4>1 DEF Hashes
    <3> HIDE DEF k
    <3>9. CASE j < k
      <4> DEFINE q == f[k][x][j]
                 s == Sides[k][j]
                 h == RootOf(A, x + k, m - k)
      <4>1. j \in 0..(k - 1)
        BY <3>4, <3>9
      <4>2. q \in Seq(H) /\ Reaches(A[x + j + 1], k, j, q, A, x, k)
        BY <3>4, <3>5, <4>1
      <4>3. f[m][x][j] = Append(q, h) /\ Sides[m][j] = Append(s, "left")
        BY ONLY <2>1, <3>4, <3>7, <3>9, Zenon
      <4>4. s \in Seq({"left", "right"})
        BY <3>4, <4>1, SidesType
      <4>5. Len(q) = Len(s) /\ Climb(A[x + j + 1], q, s) = RootOf(A, x, k)
        BY <4>2 DEF Reaches
      <4> HIDE DEF q, s, h
      <4>6. Climb(A[x + j + 1], Append(q, h), Append(s, "left")) = NodeHash(RootOf(A, x, k), h)
        <5>1. Climb(A[x + j + 1], Append(q, h), Append(s, "left"))
                 = Folded(Climb(A[x + j + 1], q, s), h, "left")
          BY <4>2, <4>4, <4>5, ClimbAppend
        <5>2. Folded(RootOf(A, x, k), h, "left") = NodeHash(RootOf(A, x, k), h)
          BY DEF Folded
        <5> QED BY ONLY <4>5, <5>1, <5>2, Zenon
      <4>7. Append(q, h) \in Seq(H) /\ Len(Append(q, h)) = Len(Append(s, "left"))
        BY <3>8, <4>2, <4>4, <4>5 DEF h
      <4>8. Reaches(A[x + j + 1], m, j, f[m][x][j], A, x, m)
        BY ONLY <2>2, <3>4, <4>3, <4>6, <4>7, Part(A, x, m), j \in 0..(m - 1), Zenon DEF Reaches, h
      <4> QED BY <4>3, <4>7, <4>8
    <3>10. CASE ~(j < k)
      <4> DEFINE q == f[m - k][x + k][j - k]
                 s == Sides[m - k][j - k]
                 h == RootOf(A, x, k)
      <4>1. (x + k) + (j - k) + 1 = x + j + 1
        BY <2>2, <3>4
      <4>2. q \in Seq(H) /\ Reaches(A[(x + k) + (j - k) + 1], m - k, j - k, q, A, x + k, m - k)
        BY <3>4, <3>5, <3>10
      <4>3. f[m][x][j] = Append(q, h) /\ Sides[m][j] = Append(s, "right")
        BY ONLY <2>1, <3>4, <3>7, <3>10, Zenon
      <4>4. s \in Seq({"left", "right"})
        BY <3>4, <3>10, SidesType
      <4>5. Len(q) = Len(s) /\ Climb(A[x + j + 1], q, s) = RootOf(A, x + k, m - k)
        BY <4>1, <4>2 DEF Reaches
      <4> HIDE DEF q, s, h
      <4>6. Climb(A[x + j + 1], Append(q, h), Append(s, "right"))
               = NodeHash(h, RootOf(A, x + k, m - k))
        <5>1. Climb(A[x + j + 1], Append(q, h), Append(s, "right"))
                 = Folded(Climb(A[x + j + 1], q, s), h, "right")
          BY <4>2, <4>4, <4>5, ClimbAppend
        <5>2. Folded(RootOf(A, x + k, m - k), h, "right") = NodeHash(h, RootOf(A, x + k, m - k))
          BY DEF Folded
        <5> QED BY ONLY <4>5, <5>1, <5>2, Zenon
      <4>7. Append(q, h) \in Seq(H) /\ Len(Append(q, h)) = Len(Append(s, "right"))
        BY <3>8, <4>2, <4>4, <4>5 DEF h
      <4>8. Reaches(A[x + j + 1], m, j, f[m][x][j], A, x, m)
        BY ONLY <2>2, <3>4, <4>3, <4>6, <4>7, Part(A, x, m), j \in 0..(m - 1), Zenon DEF Reaches, h
      <4> QED BY <4>3, <4>7, <4>8
    <3> QED BY <3>9, <3>10
  <2> QED BY <2>2, <2>3, <2>4
<1> HIDE DEF P
<1>2. n \in P
  <2>1. n \in Nat
    BY DEF Part
  <2> QED BY <1>1, <2>1, FromSmaller
<1> QED BY <1>2 DEF P

\* verify_inclusion accepts what climbs to the root of the whole log.
LEMMA VerifiedReaches ==
    ASSUME NEW A, Log(A), Len(A) # 0, NEW leaf, NEW path, NEW index \in Nat, NEW size \in Word
    PROVE  VerifyInclusion(leaf, index, size, path, Root(A))
              <=> Reaches(leaf, size, index, path, A, 0, Len(A))
<1>1. Part(A, 0, Len(A)) /\ Root(A) = RootOf(A, 0, Len(A))
  BY DEF Part, Log, Root, RootOf
<1>2. index < size <=> size \in Word \ {0} /\ index \in 0..(size - 1)
  BY DEF Word
<1>3. /\ VerifyInclusion(leaf, index, size, path, Root(A))
            <=> /\ index < size /\ Len(Sides[size][index]) = Len(path)
                /\ Climb(leaf, path, Sides[size][index]) = Root(A)
      /\ Reaches(leaf, size, index, path, A, 0, Len(A))
            <=> /\ size \in Word \ {0} /\ index \in 0..(size - 1)
                /\ Len(path) = Len(Sides[size][index])
                /\ Climb(leaf, path, Sides[size][index]) = RootOf(A, 0, Len(A))
  BY ONLY <1>1, Len(A) # 0, Zenon DEF VerifyInclusion, Reaches
<1> QED BY ONLY <1>1, <1>2, <1>3, Zenon

\* log.rs `inclusion_proof' and `verify_inclusion': the proof made of any
\* leaf of a log is accepted.
THEOREM InclusionVerifies ==
    ASSUME NEW A, Log(A), Len(A) \in Word, NEW index \in 0..(Len(A) - 1)
    PROVE  /\ VerifyInclusion(A[index + 1], index, Len(A), InclusionProof(A, index), Root(A))
           /\ InclusionProof(A, index) \in Seq(Hashes(A))
<1>1. Len(A) \in Nat /\ Len(A) # 0 /\ Part(A, 0, Len(A)) /\ ~(index >= Len(A)) /\ index \in Nat
      /\ 0 + index + 1 = index + 1
  BY DEF Log, Part
<1>2. InclusionProof(A, index) = Paths(A)[Len(A)][0][index]
  BY ONLY <1>1, ProofFromPaths, Zenon
<1>3. InclusionProof(A, index) \in Seq(Hashes(A))
      /\ Reaches(A[0 + index + 1], Len(A), index, InclusionProof(A, index), A, 0, Len(A))
  BY <1>1, <1>2, PathsReach
<1> QED BY <1>1, <1>3, VerifiedReaches

\* log.rs `verify_inclusion': whatever position, size and path are claimed,
\* nothing is accepted against a log's root that is not a leaf of it.
THEOREM OnlyLeavesIncluded ==
    ASSUME NEW A, Log(A), Len(A) # 0, NEW S, NEW path \in Seq(S), NEW content,
           NEW index \in Nat, NEW size \in Word,
           VerifyInclusion(LeafHash(content), index, size, path, Root(A))
    PROVE  \E i \in 1..Len(A) : A[i] = LeafHash(content)
<1>1. Reaches(LeafHash(content), size, index, path, A, 0, Len(A))
  BY VerifiedReaches
<1>2. PICK j \in 0..(Len(A) - 1) : A[0 + j + 1] = LeafHash(content)
  BY <1>1, ReachesFrom
<1>3. j + 1 \in 1..Len(A) /\ 0 + j + 1 = j + 1
  BY DEF Log
<1> QED BY <1>2, <1>3

----------------------------------------------------------------------------
(* Proofs of consistency.                                                  *)

SubproofAt(f, leaves, n, before, m, start) ==
    LET k == Split(n)
    IN  CASE m = n -> IF start THEN <<>> ELSE <<Roots(leaves)[n][before]>>
          [] m < n /\ m <= k -> Append(f[k][before][m][start], Roots(leaves)[n - k][before + k])
          [] OTHER -> Append(f[n - k][before + k][m - k][FALSE], Roots(leaves)[k][before])

SubproofsUpTo(f, leaves, N) ==
    [n \in 1..N |-> [before \in 0..(Len(leaves) - n) |-> [m \in 1..n |-> [start \in BOOLEAN |->
        SubproofAt(f, leaves, n, before, m, start)]]]]

\* The subproofs of every part of a log exist and unfold by size.
LEMMA SubproofsExist ==
    ASSUME NEW leaves, Len(leaves) \in Nat, Len(leaves) <= 2^Width
    PROVE  Subproofs(leaves) = SubproofsUpTo(Subproofs(leaves), leaves, Len(leaves))
<1> DEFINE all == Len(leaves)
           P == {N \in Nat : N <= all => \E f : f = SubproofsUpTo(f, leaves, N)}
<1>1. 0 \in P
  <2> DEFINE f == [n \in 1..0 |-> <<>>]
  <2>1. 1..0 = {}
    OBVIOUS
  <2>2. f = SubproofsUpTo(f, leaves, 0)
    BY <2>1 DEF SubproofsUpTo
  <2> QED BY <2>2
<1>2. ASSUME NEW N \in Nat, N \in P PROVE N + 1 \in P
  <2> SUFFICES ASSUME N + 1 <= all PROVE \E f : f = SubproofsUpTo(f, leaves, N + 1)
    OBVIOUS
  <2>1. PICK f : f = SubproofsUpTo(f, leaves, N)
    BY <1>2
  <2> DEFINE R(h, n) == [before \in 0..(all - n) |-> [m \in 1..n |-> [start \in BOOLEAN |->
                            SubproofAt(h, leaves, n, before, m, start)]]]
             g == [n \in 1..(N + 1) |-> IF n = N + 1 THEN R(f, N + 1) ELSE f[n]]
  <2>2. \A n \in 1..N : g[n] = f[n]
    OBVIOUS
  <2>3. \A n \in 1..N : f[n] = R(f, n)
    BY <2>1 DEF SubproofsUpTo
  <2>4. g[N + 1] = R(f, N + 1)
    OBVIOUS
  <2>5. DOMAIN g = 1..(N + 1) /\ g = [n \in 1..(N + 1) |-> g[n]]
    OBVIOUS
  <2> HIDE DEF g
  <2>6. ASSUME NEW n \in 1..(N + 1) PROVE R(g, n) = R(f, n)
    <3>1. CASE n = 1
      <4>1. ASSUME NEW before, NEW m \in 1..n, NEW start \in BOOLEAN
            PROVE  SubproofAt(g, leaves, n, before, m, start)
                      = SubproofAt(f, leaves, n, before, m, start)
        <5>1. m = n /\ ~(m < n)
          BY <3>1
        <5>2. \A h : SubproofAt(h, leaves, n, before, m, start)
                       = IF start THEN <<>> ELSE <<Roots(leaves)[n][before]>>
          BY ONLY <5>1, start \in BOOLEAN DEF SubproofAt
        <5> QED BY ONLY <5>2, Zenon
      <4> QED BY <4>1
    <3>2. CASE 2 <= n
      <4>1. n \in Nat /\ n <= 2^Width
        BY PowerPositive, WidthAssumption
      <4>2. Split(n) \in 1..(n - 1) /\ n - Split(n) \in 1..(n - 1)
        BY <3>2, <4>1, SplitSmaller
      <4>3. Split(n) \in 1..N /\ n - Split(n) \in 1..N
        BY <4>2
      <4>4. g[Split(n)] = f[Split(n)] /\ g[n - Split(n)] = f[n - Split(n)]
        BY <2>2, <4>3
      <4>5. \A before, m, start : SubproofAt(g, leaves, n, before, m, start)
                                     = SubproofAt(f, leaves, n, before, m, start)
        BY <4>4 DEF SubproofAt
      <4> QED BY <4>5
    <3> QED BY <3>1, <3>2
  <2> HIDE DEF R
  <2>7. ASSUME NEW n \in 1..(N + 1) PROVE g[n] = R(g, n)
    <3>1. CASE n = N + 1
      BY <2>4, <2>6, <3>1
    <3>2. CASE n # N + 1
      <4>1. n \in 1..N
        BY <3>2
      <4> QED BY <2>2, <2>3, <2>6, <4>1
    <3> QED BY <3>1, <3>2
  <2>8. g = SubproofsUpTo(g, leaves, N + 1)
    BY <2>5, <2>7 DEF SubproofsUpTo, R
  <2> QED BY <2>8
<1>3. all \in P
  <2> HIDE DEF P
  <2> QED BY <1>1, <1>2, InductionSet
<1>4. \E f : f = SubproofsUpTo(f, leaves, all)
  BY <1>3
<1>5. Subproofs(leaves) = CHOOSE f : f = SubproofsUpTo(f, leaves, all)
  BY DEF Subproofs, SubproofsUpTo, SubproofAt
<1> QED BY <1>4, <1>5

\* One such subproof, unfolded.
LEMMA SubproofUnfolds ==
    ASSUME NEW A, Log(A), NEW b, NEW n, Part(A, b, n), NEW m \in 1..n, NEW start \in BOOLEAN
    PROVE  Subproofs(A)[n][b][m][start] = SubproofAt(Subproofs(A), A, n, b, m, start)
<1>1. n \in 1..Len(A) /\ b \in 0..(Len(A) - n) /\ Len(A) \in Nat /\ Len(A) <= 2^Width
  BY DEF Log, Part
<1> DEFINE f == Subproofs(A)
<1>2. f = SubproofsUpTo(f, A, Len(A))
  BY <1>1, SubproofsExist
<1> HIDE DEF f
<1>3. f[n] = [before \in 0..(Len(A) - n) |-> [l \in 1..n |-> [s \in BOOLEAN |->
                SubproofAt(f, A, n, before, l, s)]]]
  BY <1>1, <1>2 DEF SubproofsUpTo
<1>4. f[n][b] = [l \in 1..n |-> [s \in BOOLEAN |-> SubproofAt(f, A, n, b, l, s)]]
  BY <1>1, <1>3
<1>5. f[n][b][m] = [s \in BOOLEAN |-> SubproofAt(f, A, n, b, m, s)]
  BY <1>4
<1>6. f[n][b][m][start] = SubproofAt(f, A, n, b, m, start)
  BY <1>5
<1> QED BY <1>6 DEF f

\* What is appended behind a first element is appended behind the rest.
LEMMA AppendAfter ==
    ASSUME NEW S, NEW q \in Seq(S), NEW h \in S, NEW seed
    PROVE  Append(<<seed>> \o q, h) = <<seed>> \o Append(q, h)
<1> DEFINE T == S \cup {seed}
<1>1. q \in Seq(T) /\ <<seed>> \in Seq(T) /\ <<h>> \in Seq(T) /\ h \in T
  OBVIOUS
<1>2. <<seed>> \o q \in Seq(T)
  BY <1>1, ConcatProperties
<1>3. Append(<<seed>> \o q, h) = (<<seed>> \o q) \o <<h>>
  BY ONLY <1>1, <1>2, AppendIsConcat, Zenon
<1>4. Append(q, h) = q \o <<h>>
  BY ONLY <1>1, AppendIsConcat, Zenon
<1> HIDE DEF T
<1>5. (<<seed>> \o q) \o <<h>> = <<seed>> \o (q \o <<h>>)
  BY ONLY <1>1, ConcatAssociative
<1> QED BY ONLY <1>3, <1>4, <1>5, Zenon

\* A consistency proof is climbed twice: where the new root's path stays left
\* the old root's does not move.
OnSide(left, turns, N) == [i \in 1..N |-> IF i \in turns THEN left ELSE "right"]

\* A climb that turns at some steps, without its last step.
LEMMA ClimbTurns ==
    ASSUME NEW S, NEW k \in Nat, NEW rest \in Seq(S), Len(rest) = k + 1, NEW turns, NEW left,
           NEW seed
    PROVE  /\ Stem(rest, k) \in Seq(S) /\ Len(Stem(rest, k)) = k
           /\ Climb(seed, rest, OnSide(left, turns, k + 1))
                 = Folded(Climb(seed, Stem(rest, k), OnSide(left, turns, k)), rest[k + 1],
                          IF k + 1 \in turns THEN left ELSE "right")
<1> DEFINE p == Stem(rest, k)
           s == OnSide(left, turns, k)
           t == OnSide(left, turns, k + 1)
<1>1. p \in Seq(S) /\ Len(p) = k /\ \A i \in 1..k : p[i] = rest[i]
  BY DEF Stem
<1>2. \A i \in 1..k : s[i] = t[i]
  BY DEF OnSide
<1>3. t[k + 1] = IF k + 1 \in turns THEN left ELSE "right"
  BY DEF OnSide
<1> HIDE DEF p, s, t
<1>4. Climb(seed, rest, t) = Folded(Climb(seed, p, s), rest[Len(p) + 1], t[Len(p) + 1])
  BY <1>1, <1>2, ClimbMore
<1> QED BY <1>1, <1>3, <1>4 DEF p, s, t

\* One part of a log begins with another of some log.
Begins(A, x, k, B, y, l) == k <= l /\ \A i \in 1..k : A[x + i] = B[y + i]

\* A path leads, from the same node, to the old root of one part and to the
\* new root of another.
LeadsTo(seed, r, turns, A, x, k, B, y, l) ==
    /\ Part(A, x, k) /\ k # 0 /\ Part(B, y, l) /\ l # 0
    /\ Climb(seed, r, OnSide("none", turns, Len(r))) = RootOf(A, x, k)
    /\ Climb(seed, r, OnSide("left", turns, Len(r))) = RootOf(B, y, l)

\* A root with something on both sides is that of two or more leaves.
LEMMA NodeHasTwo ==
    ASSUME NEW A, Log(A), NEW b, NEW n, Part(A, b, n), n # 0, NEW u, NEW v,
           RootOf(A, b, n) = NodeHash(u, v)
    PROVE  \E d \in 1..(n - 1) :
              Part(A, b, d) /\ Part(A, b + d, n - d) /\ u = RootOf(A, b, d)
              /\ v = RootOf(A, b + d, n - d)
<1>1. n \in Nat /\ b \in Nat
  BY DEF Part
<1>2. 2 <= n
  <2> SUFFICES ASSUME n = 1 PROVE FALSE
    BY <1>1
  <2>1. PICK w : RootOf(A, b, n) = LeafHash(w)
    BY RootIs
  <2>2. NodeHash(u, v) = LeafHash(w)
    BY <2>1
  <2> QED BY ONLY <2>2, HashesDiffer, Zenon
<1>3. Log(A) /\ Part(A, b, n) /\ 2 <= n
  BY <1>2
<1>4. \E e \in Nat :
         /\ Halves(n, e)
         /\ Part(A, b, 2^e) /\ Part(A, b + 2^e, n - 2^e) /\ 2^e \in 1..(n - 1)
         /\ RootOf(A, b, n) = NodeHash(RootOf(A, b, 2^e), RootOf(A, b + 2^e, n - 2^e))
  BY ONLY <1>3, RootOfBoth
<1>5. PICK d \in 1..(n - 1) :
         /\ Part(A, b, d) /\ Part(A, b + d, n - d)
         /\ RootOf(A, b, n) = NodeHash(RootOf(A, b, d), RootOf(A, b + d, n - d))
  BY ONLY <1>4, Zenon
<1>6. NodeHash(u, v) = NodeHash(RootOf(A, b, d), RootOf(A, b + d, n - d))
  BY <1>5
<1>7. u = RootOf(A, b, d) /\ v = RootOf(A, b + d, n - d)
  BY ONLY <1>6, HashesDiffer
<1> QED BY <1>5, <1>7

\* Turning one step back leads to parts of those parts.
LEMMA LeadsBack ==
    ASSUME NEW S, NEW j \in Nat, NEW r \in Seq(S), Len(r) = j + 1, NEW turns, NEW seed,
           NEW A, Log(A), NEW B, Log(B), NEW x, NEW k, NEW y, NEW l,
           LeadsTo(seed, r, turns, A, x, k, B, y, l)
    PROVE  \E p \in Seq(S) : \E x1, k1, y1, l1 :
              /\ Len(p) = j /\ LeadsTo(seed, p, turns, A, x1, k1, B, y1, l1)
              /\ Begins(A, x1, k1, B, y1, l1) => Begins(A, x, k, B, y, l)
<1> DEFINE p == Stem(r, j)
           z == r[j + 1]
           old == Climb(seed, p, OnSide("none", turns, j))
           new == Climb(seed, p, OnSide("left", turns, j))
<1>1. /\ p \in Seq(S) /\ Len(p) = j
      /\ RootOf(A, x, k) = Folded(old, z, IF j + 1 \in turns THEN "none" ELSE "right")
      /\ RootOf(B, y, l) = Folded(new, z, IF j + 1 \in turns THEN "left" ELSE "right")
  <2>1. /\ p \in Seq(S) /\ Len(p) = j
        /\ Climb(seed, r, OnSide("none", turns, j + 1))
              = Folded(old, z, IF j + 1 \in turns THEN "none" ELSE "right")
    BY ClimbTurns
  <2>2. Climb(seed, r, OnSide("left", turns, j + 1))
              = Folded(new, z, IF j + 1 \in turns THEN "left" ELSE "right")
    BY ClimbTurns
  <2> QED BY <2>1, <2>2 DEF LeadsTo
<1>2. /\ k \in Nat /\ l \in Nat /\ x \in Nat /\ y \in Nat /\ k # 0 /\ l # 0
      /\ Part(A, x, k) /\ Part(B, y, l)
  BY DEF Part, LeadsTo
<1>3. old = Climb(seed, p, OnSide("none", turns, Len(p)))
      /\ new = Climb(seed, p, OnSide("left", turns, Len(p)))
  BY <1>1
<1> HIDE DEF p, z, old, new
<1>4. CASE j + 1 \in turns
  <2>1. old = RootOf(A, x, k) /\ RootOf(B, y, l) = NodeHash(new, z)
    BY <1>1, <1>4 DEF Folded
  <2>2. PICK q \in 1..(l - 1) : Part(B, y, q) /\ new = RootOf(B, y, q)
    <3>1. \E q \in 1..(l - 1) : Part(B, y, q) /\ Part(B, y + q, l - q) /\ new = RootOf(B, y, q)
                                /\ z = RootOf(B, y + q, l - q)
      BY <1>2, <2>1, NodeHasTwo
    <3> QED BY <3>1
  <2>3. LeadsTo(seed, p, turns, A, x, k, B, y, q)
    BY <1>2, <1>3, <2>1, <2>2 DEF LeadsTo
  <2>4. Begins(A, x, k, B, y, q) => Begins(A, x, k, B, y, l)
    BY <1>2, <2>2 DEF Begins
  <2> QED BY <1>1, <2>3, <2>4
<1>5. CASE j + 1 \notin turns
  <2>1. RootOf(A, x, k) = NodeHash(z, old) /\ RootOf(B, y, l) = NodeHash(z, new)
    BY <1>1, <1>5 DEF Folded
  <2>2. PICK q \in 1..(l - 1) :
           Part(B, y, q) /\ Part(B, y + q, l - q) /\ z = RootOf(B, y, q)
           /\ new = RootOf(B, y + q, l - q)
    <3>1. Log(B) /\ Part(B, y, l) /\ l # 0 /\ RootOf(B, y, l) = NodeHash(z, new)
      BY <1>2, <2>1
    <3> QED BY ONLY <3>1, NodeHasTwo
  <2>3. PICK o \in 1..(k - 1) :
           Part(A, x, o) /\ Part(A, x + o, k - o) /\ z = RootOf(A, x, o)
           /\ old = RootOf(A, x + o, k - o)
    <3>1. Log(A) /\ Part(A, x, k) /\ k # 0 /\ RootOf(A, x, k) = NodeHash(z, old)
      BY <1>2, <2>1
    <3> QED BY ONLY <3>1, NodeHasTwo
  <2>4. o # 0 /\ q # 0 /\ k - o # 0 /\ l - q # 0
    BY <1>2, <2>2, <2>3
  <2>5. RootOf(A, x, o) = RootOf(B, y, q)
    BY ONLY <2>2, <2>3, Zenon
  <2>6. o = q /\ \A i \in 1..o : A[x + i] = B[y + i]
    <3>1. /\ Log(A) /\ Log(B) /\ Part(A, x, o) /\ Part(B, y, q) /\ o # 0 /\ q # 0
          /\ RootOf(A, x, o) = RootOf(B, y, q)
      BY <2>2, <2>3, <2>4, <2>5
    <3> QED BY ONLY <3>1, RootsTell
  <2>7. LeadsTo(seed, p, turns, A, x + o, k - o, B, y + q, l - q)
    BY <1>3, <2>2, <2>3, <2>4 DEF LeadsTo
  <2>8. ASSUME Begins(A, x + o, k - o, B, y + q, l - q)
        PROVE  Begins(A, x, k, B, y, l)
    <3>1. k <= l
      BY <1>2, <2>2, <2>3, <2>6, <2>8 DEF Begins
    <3>2. ASSUME NEW i \in 1..k PROVE A[x + i] = B[y + i]
      <4>1. CASE i <= o
        BY <2>3, <2>6, <4>1
      <4>2. CASE o < i
        <5>1. i - o \in 1..(k - o) /\ (x + o) + (i - o) = x + i /\ (y + q) + (i - o) = y + i
          BY <1>2, <2>3, <2>6, <4>2
        <5>2. A[(x + o) + (i - o)] = B[(y + q) + (i - o)]
          BY <2>8, <5>1 DEF Begins
        <5> QED BY ONLY <5>1, <5>2, Zenon
      <4> QED BY <2>3, <4>1, <4>2
    <3> QED BY <3>1, <3>2 DEF Begins
  <2> QED BY <1>1, <2>7, <2>8
<1> QED BY <1>4, <1>5

\* Whatever proof is climbed, and wherever it turns: if it leads to the roots
\* of two logs, one begins with the other.
LEMMA ClimbsExtend ==
    ASSUME NEW S, NEW rest \in Seq(S), NEW turns, NEW seed, NEW A, Log(A), NEW B, Log(B),
           NEW b, NEW n, NEW c, NEW m, LeadsTo(seed, rest, turns, A, b, n, B, c, m)
    PROVE  Begins(A, b, n, B, c, m)
<1> DEFINE P == {j \in Nat : \A r \in Seq(S) : \A x, k, y, l :
                    Len(r) = j /\ LeadsTo(seed, r, turns, A, x, k, B, y, l)
                       => Begins(A, x, k, B, y, l)}
<1>1. 0 \in P
  <2> SUFFICES ASSUME NEW r \in Seq(S), NEW x, NEW k, NEW y, NEW l, Len(r) = 0,
                      LeadsTo(seed, r, turns, A, x, k, B, y, l)
               PROVE  Begins(A, x, k, B, y, l)
    OBVIOUS
  <2>1. \A s : Climb(seed, r, s) = seed
    BY ClimbNone
  <2>2. RootOf(A, x, k) = RootOf(B, y, l) /\ Part(A, x, k) /\ k # 0 /\ Part(B, y, l) /\ l # 0
    BY <2>1 DEF LeadsTo
  <2>3. k = l /\ \A i \in 1..k : A[x + i] = B[y + i]
    BY <2>2, RootsTell
  <2>4. k \in Nat
    BY <2>2 DEF Part
  <2> QED BY <2>3, <2>4 DEF Begins
<1>2. ASSUME NEW j \in Nat, j \in P PROVE j + 1 \in P
  <2> SUFFICES ASSUME NEW r \in Seq(S), NEW x, NEW k, NEW y, NEW l, Len(r) = j + 1,
                      LeadsTo(seed, r, turns, A, x, k, B, y, l)
               PROVE  Begins(A, x, k, B, y, l)
    OBVIOUS
  <2>1. PICK p, x1, k1, y1, l1 :
           /\ p \in Seq(S)
           /\ Len(p) = j /\ LeadsTo(seed, p, turns, A, x1, k1, B, y1, l1)
           /\ Begins(A, x1, k1, B, y1, l1) => Begins(A, x, k, B, y, l)
    BY LeadsBack
  <2>2. Begins(A, x1, k1, B, y1, l1)
    BY <1>2, <2>1
  <2> QED BY <2>1, <2>2
<1>3. Nat \subseteq P
  <2> HIDE DEF P
  <2> QED BY <1>1, <1>2, InductionSet
<1>4. Len(rest) \in Nat
  OBVIOUS
<1> QED BY <1>3, <1>4

\* The steps of a consistency proof at which the new root's path stays left.
Turns(m, n) == {i \in Nat : StaysLeft(m, n, i)}

\* What a proof is climbed from, and the rest of it.
SeedOf(m, old, proof) == IF m = 2^TrailingZeros(m) THEN old ELSE proof[1]
RestOf(m, proof)      == IF m = 2^TrailingZeros(m) THEN proof ELSE Tail(proof)

\* verify_consistency climbs the rest of a proof twice from its seed.
LEMMA RebuiltClimbs ==
    ASSUME NEW m, NEW n, NEW old, NEW S, NEW proof \in Seq(S), proof # <<>>
    PROVE  LET seed == SeedOf(m, old, proof)
               rest == RestOf(m, proof)
           IN  /\ rest \in Seq(S)
               /\ Rebuilt(m, n, old, proof)
                     = [old |-> Climb(seed, rest, OnSide("none", Turns(m, n), Len(rest))),
                        new |-> Climb(seed, rest, OnSide("left", Turns(m, n), Len(rest)))]
<1> DEFINE seed == SeedOf(m, old, proof)
           rest == RestOf(m, proof)
           sides(left) == [i \in DOMAIN rest |-> IF StaysLeft(m, n, i) THEN left ELSE "right"]
<1>1. rest \in Seq(S)
  BY DEF RestOf
<1>2. Rebuilt(m, n, old, proof) = [old |-> Climb(seed, rest, sides("none")),
                                   new |-> Climb(seed, rest, sides("left"))]
  BY DEF Rebuilt, SeedOf, RestOf
<1>3. ASSUME NEW left PROVE sides(left) = OnSide(left, Turns(m, n), Len(rest))
  <2>1. DOMAIN rest = 1..Len(rest)
    BY <1>1
  <2>2. \A i \in 1..Len(rest) : i \in Turns(m, n) <=> StaysLeft(m, n, i)
    BY <1>1 DEF Turns
  <2> HIDE DEF rest
  <2> QED BY <2>1, <2>2 DEF OnSide
<1> HIDE DEF rest, seed, sides
<1>4. Rebuilt(m, n, old, proof)
         = [old |-> Climb(seed, rest, OnSide("none", Turns(m, n), Len(rest))),
            new |-> Climb(seed, rest, OnSide("left", Turns(m, n), Len(rest)))]
  BY <1>2, <1>3
<1> QED BY <1>1, <1>4 DEF seed, rest

\* Soundness of verify_consistency: whatever the proof, and whatever the size
\* claimed for the new log, a root is accepted only of a log that begins with
\* the old one.
THEOREM AcceptedExtends ==
    ASSUME NEW A, Log(A), Len(A) # 0, NEW B, Log(B), Len(B) # 0, NEW n \in Nat,
           NEW S, NEW proof \in Seq(S),
           VerifyConsistency(Len(A), n, Root(A), Root(B), proof)
    PROVE  Len(A) <= Len(B) /\ \A i \in 1..Len(A) : A[i] = B[i]
<1> DEFINE m == Len(A)
<1>1. /\ m \in Nat /\ Len(B) \in Nat /\ Part(A, 0, m) /\ Part(B, 0, Len(B))
      /\ m # 0 /\ Len(B) # 0
  BY DEF Log, Part
<1>2. Root(A) = RootOf(A, 0, m) /\ Root(B) = RootOf(B, 0, Len(B))
  BY DEF Root, RootOf
<1>3. Begins(A, 0, m, B, 0, Len(B))
  <2>1. CASE m = n
    <3>1. Root(A) = Root(B)
      BY <2>1 DEF VerifyConsistency
    <3>2. /\ Log(A) /\ Log(B) /\ Part(A, 0, m) /\ Part(B, 0, Len(B)) /\ m # 0 /\ Len(B) # 0
          /\ RootOf(A, 0, m) = RootOf(B, 0, Len(B))
      BY <1>1, <1>2, <3>1
    <3>3. m = Len(B) /\ \A i \in 1..m : A[0 + i] = B[0 + i]
      BY ONLY <3>2, RootsTell
    <3> QED BY <1>1, <3>3 DEF Begins
  <2>2. CASE m # n
    <3>1. ~(m > n)
      BY DEF VerifyConsistency
    <3>2. proof # <<>> /\ Rebuilt(m, n, Root(A), proof) = [old |-> Root(A), new |-> Root(B)]
      BY <1>1, <2>2, <3>1 DEF VerifyConsistency
    <3> DEFINE seed == SeedOf(m, Root(A), proof)
               rest == RestOf(m, proof)
    <3>3. /\ rest \in Seq(S)
          /\ Rebuilt(m, n, Root(A), proof)
                = [old |-> Climb(seed, rest, OnSide("none", Turns(m, n), Len(rest))),
                   new |-> Climb(seed, rest, OnSide("left", Turns(m, n), Len(rest)))]
      BY <3>2, RebuiltClimbs
    <3> HIDE DEF seed, rest
    <3>4. /\ Climb(seed, rest, OnSide("none", Turns(m, n), Len(rest))) = Root(A)
          /\ Climb(seed, rest, OnSide("left", Turns(m, n), Len(rest))) = Root(B)
      BY <3>2, <3>3
    <3>5. LeadsTo(seed, rest, Turns(m, n), A, 0, m, B, 0, Len(B))
      BY <1>1, <1>2, <3>4 DEF LeadsTo
    <3> QED BY <3>3, <3>5, ClimbsExtend
  <2> QED BY <2>1, <2>2
<1>4. \A i \in 1..m : A[0 + i] = B[0 + i] /\ 0 + i = i
  BY <1>1, <1>3 DEF Begins
<1>5. \A i \in 1..m : A[i] = B[i]
  BY <1>4
<1> QED BY <1>3, <1>5 DEF Begins

\* A number between a power of two and its double is split at that power.
LEMMA SplitIs ==
    ASSUME NEW e \in 0..(Width - 1), NEW n \in Nat, 2^e < n, n <= 2 * 2^e
    PROVE  Split(n) = 2^e /\ 2 <= n /\ n <= 2^Width
<1> DEFINE d == 2^e
           w == 2^Width
<1>1. d \in Nat \ {0} /\ w \in Nat
  BY PowerPositive, WidthAssumption
<1>2. 2 * d <= w
  BY PowerGrows, WidthAssumption
<1>3. d < n /\ n <= 2 * d
  OBVIOUS
<1> HIDE DEF d, w
<1>4. 2 <= n /\ n <= w
  BY <1>1, <1>2, <1>3
<1>5. PICK f \in 0..(Width - 1) : Split(n) = 2^f /\ 2^f < n /\ n <= 2 * 2^f
  <2>1. \E f \in Nat : Halves(n, f)
    BY <1>4, SplitHalves DEF w
  <2> QED BY <2>1 DEF Halves
<1>6. f \in Nat /\ e \in Nat
  BY WidthAssumption
<1>7. CASE f < e
  <2>1. 2 * 2^f <= d
    BY <1>6, <1>7, PowerGrows DEF d
  <2> QED BY <1>1, <1>3, <1>5, <1>6, <2>1, PowerPositive
<1>8. CASE e < f
  <2>1. 2 * d <= 2^f
    BY <1>6, <1>8, PowerGrows DEF d
  <2> QED BY <1>1, <1>3, <1>5, <1>6, <2>1, PowerPositive
<1>9. CASE e = f
  BY <1>4, <1>5, <1>9 DEF w
<1> QED BY <1>6, <1>7, <1>8, <1>9

\* A step more of a path that is climbed twice.
LEMMA ClimbBeside ==
    ASSUME NEW S, NEW q \in Seq(S), NEW h \in S, NEW turns, NEW more, NEW left, NEW seed,
           \A i \in 1..Len(q) : i \in turns <=> i \in more
    PROVE  /\ Append(q, h) \in Seq(S) /\ Len(Append(q, h)) = Len(q) + 1
           /\ Climb(seed, Append(q, h), OnSide(left, more, Len(q) + 1))
                 = Folded(Climb(seed, q, OnSide(left, turns, Len(q))), h,
                          IF Len(q) + 1 \in more THEN left ELSE "right")
<1> DEFINE k == Len(q)
           r == Append(q, h)
<1>1. k \in Nat /\ r \in Seq(S) /\ Len(r) = k + 1 /\ r[k + 1] = h /\ \A i \in 1..k : r[i] = q[i]
  OBVIOUS
<1> HIDE DEF k, r
<1>2. Stem(r, k) = q
  BY <1>1 DEF Stem, k
<1>3. OnSide(left, more, k) = OnSide(left, turns, k)
  BY DEF OnSide, k
<1>4. Climb(seed, r, OnSide(left, more, k + 1))
         = Folded(Climb(seed, Stem(r, k), OnSide(left, more, k)), r[k + 1],
                  IF k + 1 \in more THEN left ELSE "right")
  BY <1>1, ClimbTurns
<1>5. Climb(seed, r, OnSide(left, more, k + 1))
         = Folded(Climb(seed, q, OnSide(left, turns, k)), h,
                  IF k + 1 \in more THEN left ELSE "right")
  BY ONLY <1>1, <1>2, <1>3, <1>4, Zenon
<1> QED BY <1>1, <1>5 DEF k, r

\* The node a consistency proof of m leaves starts from: the last whole tree.
LastTree(A, b, m) == RootOf(A, b + (m - 2^TrailingZeros(m)), 2^TrailingZeros(m))

\* What follows that node in the proof, and where it leads.
Extending(A, b, n, m, start, rest) ==
    /\ rest \in Seq(Hashes(A)) /\ Len(rest) # 0
    /\ Len(rest) = (Decompose(m - 1, n).inner - TrailingZeros(m)) + Decompose(m - 1, n).border
    /\ Subproofs(A)[n][b][m][start]
          = IF start /\ m = 2^TrailingZeros(m) THEN rest ELSE <<LastTree(A, b, m)>> \o rest
    /\ Climb(LastTree(A, b, m), rest, OnSide("none", Turns(m, n), Len(rest))) = RootOf(A, b, m)
    /\ Climb(LastTree(A, b, m), rest, OnSide("left", Turns(m, n), Len(rest))) = RootOf(A, b, n)

\* How far two words differ, and how many bits are above, are numbers.
LEMMA DecomposeType ==
    ASSUME NEW a \in 0..(2^Width - 1), NEW n, n - 1 \in 0..(2^Width - 1)
    PROVE  Decompose(a, n).inner \in Nat /\ Decompose(a, n).border \in Nat
<1>1. Width \in 0..Width /\ Width \in Nat
  BY WidthAssumption
<1>2. DifferWithin(a, n - 1) \in Nat
  BY <1>1, DifferOf
<1>3. ASSUME NEW x PROVE CountOnes(x) \in Nat
  <2>1. IsFiniteSet(0..(Width - 1))
    BY <1>1, FS_Interval
  <2>2. {i \in 0..(Width - 1) : Bit(x, i) = 1} \subseteq 0..(Width - 1)
    OBVIOUS
  <2>3. IsFiniteSet({i \in 0..(Width - 1) : Bit(x, i) = 1})
    BY ONLY <2>1, <2>2, FS_Subset
  <2> QED BY ONLY <2>3, FS_CardinalityType DEF CountOnes
<1> QED BY <1>2, <1>3 DEF Decompose

\* The last whole tree is within the log.
LEMMA ZerosWithin ==
    ASSUME NEW m \in 1..(2^Width - 1)
    PROVE  TrailingZeros(m) \in Nat /\ 2^TrailingZeros(m) \in Nat /\ 2^TrailingZeros(m) <= m
<1> DEFINE z == TrailingZeros(m)
           d == 2^z
<1>1. z \in Nat /\ Bit(m, z) = 1
  <2>1. Width \in Nat /\ Width <= Width
    BY WidthAssumption
  <2>2. z \in 0..(Width - 1) /\ z \in Ones(m)
    BY <2>1, ZerosOf
  <2> QED BY <2>2 DEF Ones
<1>2. d \in Nat \ {0} /\ (m \div d) % 2 = 1
  BY <1>1, PowerPositive DEF Bit
<1>3. m \in Nat
  OBVIOUS
<1> HIDE DEF d, z
<1>4. m \div d \in Nat /\ d * (m \div d) <= m
  BY <1>2, <1>3, QuotientOf
<1>5. m \div d # 0
  <2>1. 0 % 2 = 0
    OBVIOUS
  <2> QED BY <1>2, <2>1
<1>6. d <= m
  <2>1. \A q \in Nat \ {0} : d <= d * q
    BY <1>2
  <2>2. m \div d \in Nat \ {0}
    BY <1>4, <1>5
  <2>3. d <= d * (m \div d) /\ d * (m \div d) \in Nat
    BY <1>2, <2>1, <2>2
  <2> QED BY <1>2, <1>3, <1>4, <2>3
<1> QED BY <1>1, <1>2, <1>6 DEF d, z

\* A part's root is one of a log's hashes.
LEMMA HashOf ==
    ASSUME NEW A, Log(A), NEW b, NEW n, Part(A, b, n)
    PROVE  RootOf(A, b, n) \in Hashes(A)
<1>1. b \in 0..Len(A) /\ n \in 0..Len(A)
  BY DEF Log, Part
<1> QED BY <1>1 DEF Hashes

\* How a consistency proof unfolds at the whole of the old tree,
LEMMA SubproofWhole ==
    ASSUME NEW f, NEW leaves, NEW n \in Nat, NEW before, NEW start
    PROVE  SubproofAt(f, leaves, n, before, n, start)
              = IF start THEN <<>> ELSE <<Roots(leaves)[n][before]>>
<1> DEFINE k == Split(n)
           none == IF start THEN <<>> ELSE <<Roots(leaves)[n][before]>>
           left == Append(f[k][before][n][start], Roots(leaves)[n - k][before + k])
           right == Append(f[n - k][before + k][n - k][FALSE], Roots(leaves)[k][before])
<1>1. SubproofAt(f, leaves, n, before, n, start)
         = CASE n = n -> none [] n < n /\ n <= k -> left [] OTHER -> right
  BY DEF SubproofAt
<1>2. ~(n < n)
  OBVIOUS
<1> HIDE DEF k, none, left, right
<1>3. SubproofAt(f, leaves, n, before, n, start) = none
  BY ONLY <1>1, <1>2, Zenon
<1> QED BY ONLY <1>3, Zenon DEF none

\* and in the left half.
LEMMA SubproofLeft ==
    ASSUME NEW f, NEW leaves, NEW n, NEW before, NEW m, NEW start, NEW k, k = Split(n),
           m # n, m < n, m <= k
    PROVE  SubproofAt(f, leaves, n, before, m, start)
              = Append(f[k][before][m][start], Roots(leaves)[n - k][before + k])
<1> DEFINE none == IF start THEN <<>> ELSE <<Roots(leaves)[n][before]>>
           left == Append(f[k][before][m][start], Roots(leaves)[n - k][before + k])
           right == Append(f[n - k][before + k][m - k][FALSE], Roots(leaves)[k][before])
<1>1. SubproofAt(f, leaves, n, before, m, start)
         = CASE m = n -> none [] m < n /\ m <= k -> left [] OTHER -> right
  BY DEF SubproofAt
<1> HIDE DEF none, left, right
<1>2. m # n /\ m < n /\ m <= k
  OBVIOUS
<1>3. SubproofAt(f, leaves, n, before, m, start) = left
  BY ONLY <1>1, <1>2, Zenon
<1> QED BY ONLY <1>3, Zenon DEF left

\* The old tree is the left half of the new one.
LEMMA ExtendsHalf ==
    ASSUME NEW A, Log(A), NEW b, NEW n, Part(A, b, n), NEW e \in 0..(Width - 1), Halves(n, e),
           NEW m, m = 2^e, NEW start \in BOOLEAN
    PROVE  \E rest : Extending(A, b, n, m, start, rest)
<1> DEFINE h == RootOf(A, b + m, n - m)
           rest == Append(<<>>, h)
<1>1. e \in Nat /\ m \in Nat \ {0} /\ n \in Nat /\ b \in Nat /\ m < n /\ n <= 2 * m /\ Split(n) = m
  BY PowerPositive, WidthAssumption DEF Halves, Part
<1>2. TrailingZeros(m) = e
  BY ZerosOfPower
<1>3. Part(A, b, m) /\ Part(A, b + m, n - m) /\ m \in 1..n
  BY <1>1 DEF Part, Log
<1>4. h \in Hashes(A) /\ RootOf(A, b, m) \in Hashes(A)
  BY <1>3, HashOf
<1>5. LastTree(A, b, m) = RootOf(A, b, m)
  <2>1. b + (m - m) = b
    BY <1>1
  <2> QED BY <1>2, <2>1 DEF LastTree
<1>6. RootOf(A, b, n) = NodeHash(RootOf(A, b, m), h)
  <2>1. RootOf(A, b, n) = RootAt(Roots(A), A, n, b)
    BY RootUnfolds
  <2>2. n # 0 /\ n # 1
    BY <1>1
  <2> QED BY <1>1, <2>1, <2>2 DEF RootAt, RootOf
<1>7. Decompose(m - 1, n) = [inner |-> e + 1, border |-> 0]
  BY <1>1, DecomposeLeft
<1>8. 1 \in Turns(m, n)
  <2>1. m - 1 \in 0..(2^e - 1)
    BY <1>1
  <2>2. (m - 1) \div 2^e = 0
    BY <1>1, <2>1, ShiftOut
  <2>3. Bit(0, 0) = 0
    <3>1. 2^0 = 1
      OBVIOUS
    <3>2. 0 \div 1 = 0 /\ 0 % 2 = 0
      OBVIOUS
    <3> QED BY ONLY <3>1, <3>2, Zenon DEF Bit
  <2>4. Bit((m - 1) \div 2^e, 1 - 1) = 0
    BY <2>2, <2>3
  <2>5. 1 <= (e + 1) - e
    BY <1>1
  <2> QED BY <1>2, <1>7, <2>4, <2>5 DEF Turns, StaysLeft
<1>9. /\ Subproofs(A)[n][b][m][start] = Append(Subproofs(A)[m][b][m][start], h)
      /\ Subproofs(A)[m][b][m][start] = IF start THEN <<>> ELSE <<RootOf(A, b, m)>>
  <2>1. /\ Subproofs(A)[n][b][m][start] = SubproofAt(Subproofs(A), A, n, b, m, start)
        /\ Subproofs(A)[m][b][m][start] = SubproofAt(Subproofs(A), A, m, b, m, start)
    BY <1>1, <1>3, SubproofUnfolds
  <2>2. m # n /\ m < n /\ m <= m /\ Split(n) = m
    BY <1>1
  <2>3. SubproofAt(Subproofs(A), A, n, b, m, start)
           = Append(Subproofs(A)[m][b][m][start], Roots(A)[n - m][b + m])
    <3>1. m = Split(n) /\ m # n /\ m < n /\ m <= m
      BY <2>2
    <3> QED BY ONLY <3>1, SubproofLeft
  <2>4. SubproofAt(Subproofs(A), A, m, b, m, start)
           = IF start THEN <<>> ELSE <<Roots(A)[m][b]>>
    <3>1. m \in Nat
      BY <1>1
    <3> QED BY ONLY <3>1, SubproofWhole
  <2> QED BY ONLY <2>1, <2>3, <2>4, Zenon DEF RootOf
<1> DEFINE seed == RootOf(A, b, m)
<1>10. ASSUME NEW left
       PROVE  /\ rest \in Seq(Hashes(A)) /\ Len(rest) = 1
              /\ Climb(seed, rest, OnSide(left, Turns(m, n), 1)) = Folded(seed, h, left)
  <2> DEFINE q == <<>>
  <2>1. q \in Seq(Hashes(A)) /\ Len(q) = 0 /\ Len(q) + 1 = 1 /\ rest = Append(q, h)
    OBVIOUS
  <2>2. \A i \in 1..Len(q) : i \in Turns(m, n) <=> i \in Turns(m, n)
    OBVIOUS
  <2> HIDE DEF q, rest
  <2>3. /\ Append(q, h) \in Seq(Hashes(A)) /\ Len(Append(q, h)) = Len(q) + 1
        /\ Climb(seed, Append(q, h), OnSide(left, Turns(m, n), Len(q) + 1))
              = Folded(Climb(seed, q, OnSide(left, Turns(m, n), Len(q))), h,
                       IF Len(q) + 1 \in Turns(m, n) THEN left ELSE "right")
    <3>1. h \in Hashes(A) /\ q \in Seq(Hashes(A))
      BY <1>4, <2>1
    <3> HIDE DEF h
    <3> QED BY ONLY <2>2, <3>1, ClimbBeside
  <2>4. Climb(seed, q, OnSide(left, Turns(m, n), Len(q))) = seed
    BY <2>1, ClimbNone
  <2> QED BY ONLY <1>8, <2>1, <2>3, <2>4, Zenon
<1>11. Folded(seed, h, "none") = seed /\ Folded(seed, h, "left") = NodeHash(seed, h)
  BY DEF Folded
<1>12. Subproofs(A)[n][b][m][start]
          = IF start /\ m = 2^TrailingZeros(m) THEN rest ELSE <<LastTree(A, b, m)>> \o rest
  <2>1. m = 2^TrailingZeros(m)
    BY <1>2
  <2>2. Append(<<seed>>, h) = <<seed>> \o Append(<<>>, h)
    BY <1>4
  <2>3. CASE start
    BY <1>9, <2>1, <2>3
  <2>4. CASE ~start
    BY <1>5, <1>9, <2>2, <2>4
  <2> QED BY <2>3, <2>4
<1>13. Len(rest) = (Decompose(m - 1, n).inner - TrailingZeros(m)) + Decompose(m - 1, n).border
  <2>1. 1 = ((e + 1) - e) + 0
    BY <1>1
  <2> QED BY <1>2, <1>7, <1>10, <2>1
<1> HIDE DEF rest
<1>14. Extending(A, b, n, m, start, rest)
  BY <1>5, <1>6, <1>10, <1>11, <1>12, <1>13 DEF Extending
<1> QED BY <1>14

\* What a whole split says, in numbers.
LEMMA HalvesSay ==
    ASSUME NEW A, Log(A), NEW b, NEW n, Part(A, b, n), NEW e, Halves(n, e), NEW k, k = 2^e
    PROVE  /\ e \in 0..(Width - 1) /\ e \in Nat /\ k \in Nat \ {0} /\ n \in Nat /\ b \in Nat
           /\ k < n /\ n <= 2 * k /\ Split(n) = k /\ n - k \in Nat
           /\ Part(A, b, k) /\ Part(A, b + k, n - k)
           /\ RootOf(A, b, n) = NodeHash(RootOf(A, b, k), RootOf(A, b + k, n - k))
<1>1. /\ e \in 0..(Width - 1) /\ e \in Nat /\ k \in Nat \ {0} /\ n \in Nat /\ b \in Nat
      /\ k < n /\ n <= 2 * k /\ Split(n) = k
  BY PowerPositive, WidthAssumption DEF Halves, Part
<1>2. n - k \in Nat /\ Part(A, b, k) /\ Part(A, b + k, n - k)
  BY <1>1 DEF Part, Log
<1>3. RootOf(A, b, n) = NodeHash(RootOf(A, b, k), RootOf(A, b + k, n - k))
  <2>1. RootOf(A, b, n) = RootAt(Roots(A), A, n, b)
    BY RootUnfolds
  <2>2. n # 0 /\ n # 1 /\ Split(n) = k
    BY <1>1
  <2> QED BY <2>1, <2>2 DEF RootAt, RootOf
<1> QED BY <1>1, <1>2, <1>3

\* A bit of a word shifted down is a higher bit of the word.
LEMMA BitShifted ==
    ASSUME NEW x \in Nat, NEW i \in Nat, NEW j \in Nat
    PROVE  Bit(x \div 2^i, j) = Bit(x, i + j)
BY ShiftTwice DEF Bit

\* One step more on the right, of a new tree whose left half holds the old.
LEMMA ExtendsLeft ==
    ASSUME NEW A, Log(A), NEW b, NEW n, Part(A, b, n), NEW e, Halves(n, e),
           NEW k, k = 2^e, NEW m \in 1..(k - 1), NEW start \in BOOLEAN,
           \E q : Extending(A, b, k, m, start, q)
    PROVE  \E rest : Extending(A, b, n, m, start, rest)
<1>1. /\ e \in 0..(Width - 1) /\ e \in Nat /\ k \in Nat \ {0} /\ n \in Nat /\ b \in Nat
      /\ k < n /\ n <= 2 * k /\ Split(n) = k
      /\ Part(A, b, k) /\ Part(A, b + k, n - k)
      /\ RootOf(A, b, n) = NodeHash(RootOf(A, b, k), RootOf(A, b + k, n - k))
  BY HalvesSay
<1> DEFINE h == RootOf(A, b + k, n - k)
           z == TrailingZeros(m)
           seed == LastTree(A, b, m)
           part == Decompose(m - 1, k)
<1>2. PICK q : Extending(A, b, k, m, start, q)
  OBVIOUS
<1>3. z \in 0..(e - 1)
  <2>1. m \in 1..(2^e - 1) /\ e <= Width
    BY <1>1, WidthAssumption
  <2> QED BY <1>1, <2>1, ZerosOf
<1>4. /\ part.inner \in 0..e /\ part.border = e - part.inner
      /\ \A j \in part.inner..(e - 1) : Bit(m - 1, j) = 1
  <2>1. e \in 0..Width /\ m \in 1..(2^e - 1) /\ k = 2^e
    BY <1>1, WidthAssumption
  <2> QED BY <2>1, DecomposeWhole
<1>5. Decompose(m - 1, n) = [inner |-> e + 1, border |-> 0]
  <2>1. m \in 1..(2^e) /\ 2^e < n /\ n <= 2 * 2^e
    BY <1>1
  <2> QED BY <1>1, <2>1, DecomposeLeft
<1>6. /\ q \in Seq(Hashes(A)) /\ Len(q) = (part.inner - z) + part.border
      /\ Subproofs(A)[k][b][m][start]
            = IF start /\ m = 2^z THEN q ELSE <<seed>> \o q
      /\ Climb(seed, q, OnSide("none", Turns(m, k), Len(q))) = RootOf(A, b, m)
      /\ Climb(seed, q, OnSide("left", Turns(m, k), Len(q))) = RootOf(A, b, k)
  BY <1>2 DEF Extending
<1> DEFINE N == Len(q)
           rest == Append(q, h)
<1> HIDE DEF z, part, N
<1>7. N \in Nat /\ N = e - z
  <2>1. N \in Nat /\ N = (part.inner - z) + part.border /\ part.border = e - part.inner
    BY <1>4, <1>6 DEF N
  <2>2. e \in Nat /\ part.inner \in Nat /\ z \in Nat
    BY <1>1, <1>3, <1>4
  <2> QED BY ONLY <2>1, <2>2, SMT
<1>8. \A i \in Nat \ {0} : Bit((m - 1) \div 2^z, i - 1) = Bit(m - 1, z + (i - 1))
  <2>1. m - 1 \in Nat /\ z \in Nat
    BY <1>3
  <2> QED BY <2>1, BitShifted
<1>9. ASSUME NEW i \in 1..N PROVE i \in Turns(m, k) <=> i \in Turns(m, n)
  <2>1. i \in Turns(m, k) <=> i <= part.inner - z /\ Bit((m - 1) \div 2^z, i - 1) = 0
    BY <1>7 DEF Turns, StaysLeft, part, z
  <2>2. i \in Turns(m, n) <=> i <= (e + 1) - z /\ Bit((m - 1) \div 2^z, i - 1) = 0
    BY <1>5, <1>7 DEF Turns, StaysLeft, z
  <2>3. CASE i <= part.inner - z
    BY <1>1, <1>3, <1>4, <2>1, <2>2, <2>3
  <2>4. CASE ~(i <= part.inner - z)
    <3>1. z + (i - 1) \in part.inner..(e - 1)
      BY <1>1, <1>3, <1>4, <1>7, <2>4
    <3>2. Bit(m - 1, z + (i - 1)) = 1
      BY <1>4, <3>1
    <3>3. Bit((m - 1) \div 2^z, i - 1) = 1
      BY <1>7, <1>8, <3>2
    <3> QED BY <2>1, <2>2, <2>4, <3>3
  <2> QED BY <2>3, <2>4
<1>10. N + 1 \in Turns(m, n)
  <2>1. m - 1 \in 0..(2^e - 1) /\ N + 1 \in Nat \ {0} /\ z + ((N + 1) - 1) = e /\ e <= e
    BY <1>1, <1>3, <1>7
  <2>2. Bit(m - 1, e) = 0
    BY <1>1, <2>1, BitsAbove
  <2>3. Bit((m - 1) \div 2^z, (N + 1) - 1) = 0
    BY <1>8, <2>1, <2>2
  <2>4. N + 1 <= (e + 1) - z
    BY <1>1, <1>3, <1>7
  <2> QED BY <1>5, <2>1, <2>3, <2>4 DEF Turns, StaysLeft, z
<1>11. h \in Hashes(A)
  BY <1>1, HashOf
<1> HIDE DEF seed
<1>12. ASSUME NEW left
       PROVE  /\ rest \in Seq(Hashes(A)) /\ Len(rest) = N + 1
              /\ Climb(seed, rest, OnSide(left, Turns(m, n), N + 1))
                    = Folded(Climb(seed, q, OnSide(left, Turns(m, k), N)), h, left)
  <2>1. /\ q \in Seq(Hashes(A)) /\ h \in Hashes(A)
        /\ \A i \in 1..Len(q) : i \in Turns(m, k) <=> i \in Turns(m, n)
    BY <1>6, <1>9, <1>11 DEF N
  <2> HIDE DEF h
  <2>2. /\ Append(q, h) \in Seq(Hashes(A)) /\ Len(Append(q, h)) = Len(q) + 1
        /\ Climb(seed, Append(q, h), OnSide(left, Turns(m, n), Len(q) + 1))
              = Folded(Climb(seed, q, OnSide(left, Turns(m, k), Len(q))), h,
                       IF Len(q) + 1 \in Turns(m, n) THEN left ELSE "right")
    BY ONLY <2>1, ClimbBeside
  <2> QED BY ONLY <1>10, <2>2, Zenon DEF N
<1>13. \A u, v : Folded(u, v, "none") = u /\ Folded(u, v, "left") = NodeHash(u, v)
  BY DEF Folded
<1>14. /\ Climb(seed, rest, OnSide("none", Turns(m, n), N + 1)) = RootOf(A, b, m)
       /\ Climb(seed, rest, OnSide("left", Turns(m, n), N + 1)) = RootOf(A, b, n)
  BY <1>1, <1>6, <1>12, <1>13 DEF N
<1>15. Subproofs(A)[n][b][m][start] = Append(Subproofs(A)[k][b][m][start], h)
  <2>1. m \in 1..n /\ m # n /\ m < n /\ m <= k
    BY <1>1
  <2>2. Subproofs(A)[n][b][m][start] = SubproofAt(Subproofs(A), A, n, b, m, start)
    BY <2>1, SubproofUnfolds
  <2>3. k = Split(n) /\ m # n /\ m < n /\ m <= k
    BY <1>1, <2>1
  <2>4. SubproofAt(Subproofs(A), A, n, b, m, start)
           = Append(Subproofs(A)[k][b][m][start], Roots(A)[n - k][b + k])
    BY ONLY <2>3, SubproofLeft
  <2> QED BY ONLY <2>2, <2>4, Zenon DEF RootOf
<1>16. Subproofs(A)[n][b][m][start] = IF start /\ m = 2^z THEN rest ELSE <<seed>> \o rest
  <2>1. Append(<<seed>> \o q, h) = <<seed>> \o Append(q, h)
    BY <1>6, <1>11
  <2>2. CASE start /\ m = 2^z
    BY ONLY <1>6, <1>15, <2>2, Zenon
  <2>3. CASE ~(start /\ m = 2^z)
    BY ONLY <1>6, <1>15, <2>1, <2>3, Zenon
  <2> QED BY <2>2, <2>3
<1>17. Len(rest) = (Decompose(m - 1, n).inner - z) + Decompose(m - 1, n).border
  <2>1. Len(rest) = ((e + 1) - z) + 0
    BY <1>1, <1>3, <1>7, <1>12
  <2> QED BY <1>5, <2>1
<1>18. Len(rest) # 0
  BY <1>7, <1>12
<1> HIDE DEF rest
<1>19. Extending(A, b, n, m, start, rest)
  BY <1>12, <1>14, <1>16, <1>17, <1>18 DEF Extending, seed, z
<1> QED BY <1>19

\* One step more on the left, of a new tree whose right half holds the rest
\* of the old.
LEMMA ExtendsRight ==
    ASSUME NEW A, Log(A), NEW b, NEW n, Part(A, b, n), NEW e, Halves(n, e),
           NEW k, k = 2^e, NEW m \in Nat, k < m, m < n, NEW start \in BOOLEAN,
           \A st \in BOOLEAN : \E q : Extending(A, b + k, n - k, m - k, st, q)
    PROVE  \E rest : Extending(A, b, n, m, start, rest)
<1>1. /\ e \in 0..(Width - 1) /\ e \in Nat /\ k \in Nat \ {0} /\ n \in Nat /\ b \in Nat
      /\ k < n /\ n <= 2 * k /\ Split(n) = k
      /\ Part(A, b, k) /\ Part(A, b + k, n - k)
      /\ RootOf(A, b, n) = NodeHash(RootOf(A, b, k), RootOf(A, b + k, n - k))
  BY HalvesSay
<1> DEFINE h == RootOf(A, b, k)
           z == TrailingZeros(m - k)
           seed == LastTree(A, b, m)
           part == Decompose((m - k) - 1, n - k)
<1>2. PICK q : Extending(A, b + k, n - k, m - k, FALSE, q)
  <2>1. FALSE \in BOOLEAN
    OBVIOUS
  <2> QED BY <2>1
<1>3. z \in 0..(e - 1) /\ TrailingZeros(m) = z
  <2>1. m - k \in 1..(2^e - 1) /\ e <= Width /\ m = 2^e + (m - k)
    BY <1>1, WidthAssumption
  <2>2. TrailingZeros(m - k) \in 0..(e - 1)
    BY <1>1, <2>1, ZerosOf
  <2>3. TrailingZeros(2^e + (m - k)) = TrailingZeros(m - k)
    BY <1>1, <2>1, ZerosOfMore
  <2> QED BY ONLY <2>1, <2>2, <2>3, Zenon
<1>4. /\ part.inner \in 0..e /\ part.border \in Nat
      /\ Decompose(m - 1, n) = [inner |-> part.inner, border |-> part.border + 1]
  <2>1. 2^e < m /\ m < n /\ n <= 2 * 2^e
    BY <1>1
  <2>2. LET right == Decompose((m - 2^e) - 1, n - 2^e)
        IN  /\ right.inner \in 0..e /\ right.border \in Nat
            /\ Decompose(m - 1, n) = [inner |-> right.inner, border |-> right.border + 1]
    BY <1>1, <2>1, DecomposeRight
  <2> QED BY ONLY <2>2, k = 2^e, Zenon
<1>5. RootOf(A, b, m) = NodeHash(h, RootOf(A, b + k, m - k))
  <2>1. Split(m) = k
    BY <1>1, SplitIs
  <2>2. Halves(m, e)
    BY <1>1, <2>1 DEF Halves
  <2>3. Part(A, b, m)
    BY <1>1 DEF Part
  <2> QED BY <2>2, <2>3, HalvesSay
<1>6. LastTree(A, b + k, m - k) = seed
  <2>1. 2^z \in Nat
    BY <1>1, <1>3, PowerPositive
  <2>2. (b + k) + ((m - k) - 2^z) = b + (m - 2^z)
    BY <1>1, <2>1
  <2> QED BY <1>3, <2>2 DEF LastTree
<1>7. m # 2^z
  <2>1. 2 * 2^z <= 2^e
    BY <1>1, <1>3, PowerGrows
  <2>2. 2^z \in Nat
    BY <1>1, <1>3, PowerPositive
  <2> QED BY <1>1, <2>1, <2>2
<1>8. /\ q \in Seq(Hashes(A)) /\ Len(q) = (part.inner - z) + part.border
      /\ Subproofs(A)[n - k][b + k][m - k][FALSE] = <<seed>> \o q
      /\ Climb(seed, q, OnSide("none", Turns(m - k, n - k), Len(q))) = RootOf(A, b + k, m - k)
      /\ Climb(seed, q, OnSide("left", Turns(m - k, n - k), Len(q))) = RootOf(A, b + k, n - k)
  <2> HIDE DEF seed
  <2> QED BY <1>2, <1>6 DEF Extending
<1> DEFINE N == Len(q)
           rest == Append(q, h)
<1> HIDE DEF z, part, N
<1>9. N \in Nat /\ N = (part.inner - z) + part.border
  BY <1>8 DEF N
<1>10. ASSUME NEW i \in 1..N PROVE i \in Turns(m - k, n - k) <=> i \in Turns(m, n)
  <2>1. i \in Turns(m - k, n - k)
           <=> i <= part.inner - z /\ Bit(((m - k) - 1) \div 2^z, i - 1) = 0
    <3>1. i \in Nat
      BY <1>9
    <3>2. StaysLeft(m - k, n - k, i)
             <=> i <= part.inner - z /\ Bit(((m - k) - 1) \div 2^z, i - 1) = 0
      BY ONLY Zenon DEF StaysLeft, part, z
    <3> QED BY ONLY <3>1, <3>2, Zenon DEF Turns
  <2>2. i \in Turns(m, n) <=> i <= part.inner - z /\ Bit((m - 1) \div 2^z, i - 1) = 0
    BY <1>3, <1>4, <1>9 DEF Turns, StaysLeft
  <2>3. ASSUME i <= part.inner - z
        PROVE  Bit((m - 1) \div 2^z, i - 1) = Bit(((m - k) - 1) \div 2^z, i - 1)
    <3>1. /\ m - 1 \in Nat /\ (m - k) - 1 \in Nat /\ z \in Nat /\ i - 1 \in Nat
          /\ m - 1 = 2^e + ((m - k) - 1)
      BY <1>1, <1>3
    <3>2. z + (i - 1) \in 0..(e - 1)
      BY <1>1, <1>3, <1>4, <2>3, <3>1
    <3>3. Bit(2^e + ((m - k) - 1), z + (i - 1)) = Bit((m - k) - 1, z + (i - 1))
      BY <1>1, <3>1, <3>2, BitsBelow
    <3>4. /\ Bit((m - 1) \div 2^z, i - 1) = Bit(m - 1, z + (i - 1))
          /\ Bit(((m - k) - 1) \div 2^z, i - 1) = Bit((m - k) - 1, z + (i - 1))
      BY <3>1, BitShifted
    <3> QED BY ONLY <3>1, <3>3, <3>4, Zenon
  <2> QED BY <2>1, <2>2, <2>3
<1>11. N + 1 \notin Turns(m, n)
  <2>1. ~(N + 1 <= part.inner - z)
    BY <1>1, <1>3, <1>4, <1>9
  <2> QED BY <1>3, <1>4, <2>1 DEF Turns, StaysLeft
<1>12. h \in Hashes(A)
  BY <1>1, HashOf
<1> HIDE DEF seed
<1>13. ASSUME NEW left
       PROVE  /\ rest \in Seq(Hashes(A)) /\ Len(rest) = N + 1
              /\ Climb(seed, rest, OnSide(left, Turns(m, n), N + 1))
                    = Folded(Climb(seed, q, OnSide(left, Turns(m - k, n - k), N)), h, "right")
  <2>1. /\ q \in Seq(Hashes(A)) /\ h \in Hashes(A)
        /\ \A i \in 1..Len(q) : i \in Turns(m - k, n - k) <=> i \in Turns(m, n)
    BY <1>8, <1>10, <1>12 DEF N
  <2> HIDE DEF h
  <2>2. /\ Append(q, h) \in Seq(Hashes(A)) /\ Len(Append(q, h)) = Len(q) + 1
        /\ Climb(seed, Append(q, h), OnSide(left, Turns(m, n), Len(q) + 1))
              = Folded(Climb(seed, q, OnSide(left, Turns(m - k, n - k), Len(q))), h,
                       IF Len(q) + 1 \in Turns(m, n) THEN left ELSE "right")
    BY ONLY <2>1, ClimbBeside
  <2> QED BY ONLY <1>11, <2>2, Zenon DEF N
<1>14. \A u, v : Folded(u, v, "right") = NodeHash(v, u)
  BY DEF Folded
<1>15. /\ Climb(seed, rest, OnSide("none", Turns(m, n), N + 1)) = RootOf(A, b, m)
       /\ Climb(seed, rest, OnSide("left", Turns(m, n), N + 1)) = RootOf(A, b, n)
  BY <1>1, <1>5, <1>8, <1>13, <1>14 DEF N
<1>16. Subproofs(A)[n][b][m][start] = Append(Subproofs(A)[n - k][b + k][m - k][FALSE], h)
  <2>1. m \in 1..n /\ m # n /\ ~(m <= k)
    BY <1>1
  <2>2. Subproofs(A)[n][b][m][start] = SubproofAt(Subproofs(A), A, n, b, m, start)
    BY <2>1, SubproofUnfolds
  <2>3. k = Split(n) /\ m # n /\ ~(m <= k)
    BY <1>1, <2>1
  <2> DEFINE f == Subproofs(A)
             none == IF start THEN <<>> ELSE <<Roots(A)[n][b]>>
             left == Append(f[k][b][m][start], Roots(A)[n - k][b + k])
             right == Append(f[n - k][b + k][m - k][FALSE], Roots(A)[k][b])
  <2>4. SubproofAt(f, A, n, b, m, start) = right
    <3>1. SubproofAt(f, A, n, b, m, start)
             = CASE m = n -> none [] m < n /\ m <= k -> left [] OTHER -> right
      BY ONLY <2>3 DEF SubproofAt
    <3> HIDE DEF none, left, right
    <3> QED BY ONLY <2>3, <3>1, Zenon
  <2> QED BY ONLY <2>2, <2>4, Zenon DEF RootOf
<1>17. Subproofs(A)[n][b][m][start] = <<seed>> \o rest
  <2>1. Append(<<seed>> \o q, h) = <<seed>> \o Append(q, h)
    BY ONLY <1>8, <1>12, AppendAfter, Zenon
  <2> QED BY ONLY <1>8, <1>16, <2>1, Zenon
<1>18. Len(rest) = (Decompose(m - 1, n).inner - z) + Decompose(m - 1, n).border
  <2>1. Len(rest) = (part.inner - z) + (part.border + 1)
    <3>1. part.inner \in Int /\ part.border \in Int /\ z \in Int
      BY <1>1, <1>3, <1>4
    <3>2. Len(rest) = N + 1 /\ N = (part.inner - z) + part.border
      BY <1>9, <1>13
    <3> QED BY ONLY <3>1, <3>2, SMT
  <2> QED BY <1>4, <2>1
<1>19. Len(rest) # 0
  BY <1>9, <1>13
<1> HIDE DEF rest
<1>20. Extending(A, b, n, m, start, rest)
  BY <1>3, <1>7, <1>13, <1>15, <1>17, <1>18, <1>19 DEF Extending, seed
<1> QED BY <1>20

\* The proof made of any part extends each shorter part from the same place.
LEMMA ProofsExtend ==
    ASSUME NEW A, Log(A), NEW b, NEW n, Part(A, b, n), NEW m \in 1..(n - 1), NEW start \in BOOLEAN
    PROVE  \E rest : Extending(A, b, n, m, start, rest)
<1> DEFINE P == {s \in Nat : \A x, l : \A st \in BOOLEAN :
                    Part(A, x, s) /\ l \in 1..(s - 1) => \E rest : Extending(A, x, s, l, st, rest)}
<1>1. ASSUME NEW s \in Nat, \A r \in 0..(s - 1) : r \in P PROVE s \in P
  <2> SUFFICES ASSUME NEW x, NEW l, NEW st \in BOOLEAN, Part(A, x, s), l \in 1..(s - 1)
               PROVE  \E rest : Extending(A, x, s, l, st, rest)
    OBVIOUS
  <2>1. l \in Nat /\ l # 0 /\ l < s /\ 2 <= s /\ s <= 2^Width
    <3>1. Len(A) \in Nat /\ Len(A) <= 2^Width /\ s <= Len(A)
      BY DEF Log, Part
    <3>2. 2^Width \in Nat
      BY PowerPositive, WidthAssumption
    <3> QED BY <3>1, <3>2
  <2>2. PICK e \in Nat : Halves(s, e)
    BY <2>1, SplitHalves
  <2> DEFINE k == 2^e
  <2>3. /\ e \in 0..(Width - 1) /\ k \in Nat \ {0} /\ k < s /\ s <= 2 * k
        /\ Part(A, x, k) /\ Part(A, x + k, s - k)
    BY <2>2, HalvesSay
  <2>4. CASE l = k
    BY <2>2, <2>3, <2>4, ExtendsHalf
  <2> HIDE DEF P
  <2>5. CASE l < k
    <3>1. l \in 1..(k - 1) /\ k \in 0..(s - 1)
      BY <2>1, <2>3, <2>5
    <3>2. k \in P
      BY <1>1, <3>1
    <3>3. \E q : Extending(A, x, k, l, st, q)
      BY <2>3, <3>1, <3>2 DEF P
    <3> HIDE DEF k
    <3>4. k = 2^e
      BY DEF k
    <3> QED BY <2>2, <3>1, <3>3, <3>4, ExtendsLeft
  <2>6. CASE k < l
    <3>1. l - k \in 1..((s - k) - 1) /\ s - k \in 0..(s - 1)
      BY <2>1, <2>3, <2>6
    <3>2. s - k \in P
      BY <1>1, <3>1
    <3>3. \A no \in BOOLEAN : \E q : Extending(A, x + k, s - k, l - k, no, q)
      BY <2>3, <3>1, <3>2 DEF P
    <3> HIDE DEF k
    <3>4. k = 2^e
      BY DEF k
    <3>5. /\ Log(A) /\ Part(A, x, s) /\ Halves(s, e) /\ k = 2^e /\ l \in Nat /\ k < l /\ l < s
          /\ \A no \in BOOLEAN : \E q : Extending(A, x + k, s - k, l - k, no, q)
      BY <2>1, <2>2, <2>6, <3>3, <3>4
    <3> QED BY ONLY <3>5, ExtendsRight
  <2> QED BY <2>1, <2>3, <2>4, <2>5, <2>6
<1>2. n \in Nat /\ n \in P
  <2>1. n \in Nat
    BY DEF Part
  <2> HIDE DEF P
  <2>2. Nat \subseteq P
    BY ONLY <1>1, FromSmaller, Zenon
  <2> QED BY <2>1, <2>2
<1> QED BY <1>2

\* Completeness of the consistency proofs: the proof made of a log that
\* begins with another is accepted, at every size up to the last that a word
\* holds.
THEOREM ExtensionAccepted ==
    ASSUME NEW A, Log(A), NEW B, Log(B), Len(A) <= Len(B),
           \A i \in 1..Len(A) : A[i] = B[i]
    PROVE  /\ VerifyConsistency(Len(A), Len(B), Root(A), Root(B), ConsistencyProof(B, Len(A)))
           /\ ConsistencyProof(B, Len(A)) \in Seq(Hashes(B))
<1> DEFINE m == Len(A)
           n == Len(B)
           proof == ConsistencyProof(B, m)
           z == TrailingZeros(m)
<1>1. m \in Nat /\ n \in Nat /\ m <= n /\ Part(A, 0, m) /\ Part(B, 0, m) /\ Part(B, 0, n)
  BY DEF Log, Part
<1>2. Root(A) = RootOf(A, 0, m) /\ Root(B) = RootOf(B, 0, n)
  BY DEF Root, RootOf
<1>3. RootOf(A, 0, m) = RootOf(B, 0, m)
  <2>1. \A i \in 1..m : A[0 + i] = B[0 + i]
    BY <1>1
  <2>2. Log(A) /\ Log(B) /\ Part(A, 0, m) /\ Part(B, 0, m) /\ \A i \in 1..m : A[0 + i] = B[0 + i]
    BY <1>1, <2>1
  <2> QED BY ONLY <2>2, SameRoots
<1> HIDE DEF m, n, proof
<1>4. CASE m = 0 \/ m = n
  <2>1. proof = <<>>
    BY <1>1, <1>4 DEF proof, ConsistencyProof, n
  <2>2. m = n => Root(A) = Root(B)
    BY <1>2, <1>3
  <2>3. VerifyConsistency(m, n, Root(A), Root(B), proof)
    BY <1>1, <1>4, <2>1, <2>2 DEF VerifyConsistency
  <2> QED BY <2>1, <2>3 DEF m, n, proof
<1>5. CASE ~(m = 0 \/ m = n)
  <2>1. m \in 1..(n - 1) /\ ~(m > n) /\ m # n /\ m # 0 /\ ~(m >= n) /\ TRUE \in BOOLEAN
    BY <1>1, <1>5
  <2>2. PICK rest : Extending(B, 0, n, m, TRUE, rest)
    BY <1>1, <2>1, ProofsExtend
  <2>3. proof = Subproofs(B)[n][0][m][TRUE]
    BY <2>1 DEF proof, ConsistencyProof, n
  <2> DEFINE seed == LastTree(B, 0, m)
  <2>4. /\ rest \in Seq(Hashes(B)) /\ Len(rest) # 0
        /\ Len(rest) = (Decompose(m - 1, n).inner - z) + Decompose(m - 1, n).border
        /\ proof = IF m = 2^z THEN rest ELSE <<seed>> \o rest
        /\ Climb(seed, rest, OnSide("none", Turns(m, n), Len(rest))) = RootOf(B, 0, m)
        /\ Climb(seed, rest, OnSide("left", Turns(m, n), Len(rest))) = RootOf(B, 0, n)
    <3>1. Extending(B, 0, n, m, TRUE, rest)
      BY <2>2
    <3> QED BY ONLY <3>1, <2>3 DEF Extending
  <2>5. m = 2^z => seed = Root(A)
    <3> SUFFICES ASSUME m = 2^z PROVE seed = Root(A)
      OBVIOUS
    <3>1. 0 + (m - m) = 0
      BY <1>1
    <3> QED BY <1>2, <1>3, <3>1 DEF LastTree
  <2>6. seed \in Hashes(B)
    <3>1. m \in 1..(2^Width - 1)
      <4>1. n <= 2^Width /\ 2^Width \in Nat
        BY PowerPositive, WidthAssumption DEF Log, n
      <4> QED BY <1>1, <2>1, <4>1
    <3>2. z \in Nat /\ 2^z \in Nat /\ 2^z <= m
      BY <3>1, ZerosWithin
    <3>3. Part(B, 0 + (m - 2^z), 2^z)
      BY <1>1, <2>1, <3>2 DEF Part, n
    <3> QED BY <3>3, HashOf DEF LastTree
  <2> HIDE DEF seed, z
  <2>7. /\ proof \in Seq(Hashes(B)) /\ proof # <<>>
        /\ Len(proof) = (IF m = 2^z THEN 0 ELSE 1) + Len(rest)
        /\ m # 2^z => proof[1] = seed /\ Tail(proof) = rest
    <3>1. CASE m = 2^z
      BY <2>4, <3>1
    <3>2. CASE m # 2^z
      BY <2>4, <2>6, <3>2
    <3> QED BY <3>1, <3>2
  <2>8. SeedOf(m, Root(A), proof) = seed /\ RestOf(m, proof) = rest
    BY <2>4, <2>5, <2>7 DEF SeedOf, RestOf, z
  <2>9. Rebuilt(m, n, Root(A), proof) = [old |-> Root(A), new |-> Root(B)]
    <3>1. Rebuilt(m, n, Root(A), proof)
             = [old |-> Climb(seed, rest, OnSide("none", Turns(m, n), Len(rest))),
                new |-> Climb(seed, rest, OnSide("left", Turns(m, n), Len(rest)))]
      <4>1. proof \in Seq(Hashes(B)) /\ proof # <<>>
        BY <2>7
      <4>2. LET from == SeedOf(m, Root(A), proof)
                beyond == RestOf(m, proof)
            IN  Rebuilt(m, n, Root(A), proof)
                   = [old |-> Climb(from, beyond, OnSide("none", Turns(m, n), Len(beyond))),
                      new |-> Climb(from, beyond, OnSide("left", Turns(m, n), Len(beyond)))]
        BY ONLY <4>1, RebuiltClimbs
      <4> QED BY ONLY <2>8, <4>2, Zenon
    <3> QED BY <1>2, <1>3, <2>4, <3>1
  <2>10. Len(proof) = ProofLength(m, n)
    <3>1. Len(proof) = (IF m = 2^z THEN 0 ELSE 1)
                         + ((Decompose(m - 1, n).inner - z) + Decompose(m - 1, n).border)
      BY <2>4, <2>7
    <3>2. ProofLength(m, n) = (IF m = 2^z THEN 0 ELSE 1) + Decompose(m - 1, n).inner - z
                                + Decompose(m - 1, n).border
      BY DEF ProofLength, z
    <3>3. Decompose(m - 1, n).inner \in Nat /\ Decompose(m - 1, n).border \in Nat
      <4>1. m - 1 \in 0..(2^Width - 1) /\ n - 1 \in 0..(2^Width - 1)
        <5>1. n <= 2^Width /\ 2^Width \in Nat
          BY PowerPositive, WidthAssumption DEF Log, n
        <5> QED BY <1>1, <2>1, <5>1
      <4> QED BY <4>1, DecomposeType
    <3>4. z \in Int
      <4>1. n <= 2^Width /\ 2^Width \in Nat
        BY PowerPositive, WidthAssumption DEF Log, n
      <4>2. m \in 1..(2^Width - 1)
        BY <1>1, <2>1, <4>1
      <4> QED BY <4>2, ZerosWithin DEF z
    <3> QED BY ONLY <3>1, <3>2, <3>3, <3>4, SMT
  <2>11. VerifyConsistency(m, n, Root(A), Root(B), proof)
    BY <2>1, <2>7, <2>9, <2>10 DEF VerifyConsistency
  <2> QED BY <2>7, <2>11 DEF m, n, proof
<1> QED BY <1>4, <1>5

\* The root of no leaves is the root of no others.
LEMMA EmptyRootTells ==
    ASSUME NEW A, Log(A), NEW B, Log(B), NEW b, NEW c, NEW n, NEW m, Part(A, b, n), Part(B, c, m),
           n = 0, RootOf(A, b, n) = RootOf(B, c, m)
    PROVE  m = 0
<1>1. RootOf(A, b, n) = EmptyRoot /\ m \in Nat
  BY RootIs DEF Part
<1>2. CASE m = 1
  <2>1. PICK w : RootOf(B, c, m) = LeafHash(w)
    BY <1>2, RootIs
  <2>2. LeafHash(w) = EmptyRoot
    BY <1>1, <2>1
  <2> QED BY ONLY <2>2, HashesDiffer
<1>3. CASE 2 <= m
  <2>1. \E u, v : RootOf(B, c, m) = NodeHash(u, v)
    <3>1. Log(B) /\ Part(B, c, m) /\ 2 <= m
      BY <1>3
    <3>2. \E e \in Nat :
             /\ Halves(m, e)
             /\ Part(B, c, 2^e) /\ Part(B, c + 2^e, m - 2^e) /\ 2^e \in 1..(m - 1)
             /\ RootOf(B, c, m) = NodeHash(RootOf(B, c, 2^e), RootOf(B, c + 2^e, m - 2^e))
      BY ONLY <3>1, RootOfBoth
    <3> QED BY ONLY <3>2, Zenon
  <2>2. PICK u, v : RootOf(B, c, m) = NodeHash(u, v)
    BY <2>1
  <2>3. NodeHash(u, v) = EmptyRoot
    BY <1>1, <2>2
  <2> QED BY ONLY <2>3, HashesDiffer
<1> QED BY <1>1, <1>2, <1>3

----------------------------------------------------------------------------
(* The sorted membership.                                                  *)

\* What may be a membership: a finite set of identifiers a word can count.
Membership(M) == M \in SUBSET Nat /\ IsFiniteSet(M) /\ Cardinality(M) \in Word

Rank(M, x) == Cardinality({y \in M : y < x})

\* The identifiers below one are fewer than all, and fewer than those below
\* the next.
LEMMA RanksRise ==
    ASSUME NEW M, Membership(M)
    PROVE  /\ Cardinality(M) \in Nat
           /\ \A x \in Nat : Rank(M, x) \in 0..Cardinality(M)
           /\ \A x \in M : Rank(M, x) \in 0..(Cardinality(M) - 1)
           /\ \A x, y \in M : x < y => Rank(M, x) < Rank(M, y)
           /\ \A x \in M, y \in Nat : x < y => Rank(M, x) < Rank(M, y)
           /\ \A x \in M, y \in Nat : ~(x < y) => Rank(M, y) <= Rank(M, x)
<1> DEFINE Below(x) == {y \in M : y < x}
<1>1. M \in SUBSET Nat /\ IsFiniteSet(M) /\ Cardinality(M) \in Nat
  BY FS_CardinalityType DEF Membership
<1>2. \A x : IsFiniteSet(Below(x)) /\ Cardinality(Below(x)) \in Nat
             /\ Cardinality(Below(x)) <= Cardinality(M)
  <2> SUFFICES ASSUME NEW x
               PROVE  IsFiniteSet(Below(x)) /\ Cardinality(Below(x)) \in Nat
                      /\ Cardinality(Below(x)) <= Cardinality(M)
    OBVIOUS
  <2>1. Below(x) \in SUBSET M
    OBVIOUS
  <2> HIDE DEF Below
  <2>2. IsFiniteSet(Below(x)) /\ Cardinality(Below(x)) <= Cardinality(M)
    BY <1>1, <2>1, FS_Subset
  <2> QED BY <2>2, FS_CardinalityType
<1>3. \A x \in M, y \in Nat : x < y => Cardinality(Below(x)) < Cardinality(Below(y))
  <2> SUFFICES ASSUME NEW x \in M, NEW y \in Nat, x < y
               PROVE  Cardinality(Below(x)) < Cardinality(Below(y))
    OBVIOUS
  <2>1. Below(x) \in SUBSET Below(y) /\ x \in Below(y) /\ x \notin Below(x)
    <3>1. \A z \in M : z < x => z < y
      BY <1>1
    <3>2. x \in Nat /\ ~(x < x)
      BY <1>1
    <3> QED BY <3>1, <3>2
  <2>2. IsFiniteSet(Below(y)) /\ Cardinality(Below(x)) \in Nat /\ Cardinality(Below(y)) \in Nat
    BY <1>2
  <2> HIDE DEF Below
  <2>3. /\ Cardinality(Below(x)) <= Cardinality(Below(y))
        /\ Cardinality(Below(y)) = Cardinality(Below(x)) => Below(y) = Below(x)
    BY <2>1, <2>2, FS_Subset
  <2> QED BY <2>1, <2>2, <2>3
<1>4. \A x \in M : Cardinality(Below(x)) < Cardinality(M)
  <2> SUFFICES ASSUME NEW x \in M PROVE Cardinality(Below(x)) < Cardinality(M)
    OBVIOUS
  <2>1. Below(x) \in SUBSET M /\ x \in M /\ x \notin Below(x)
    BY <1>1
  <2>2. Cardinality(Below(x)) \in Nat
    BY <1>2
  <2> HIDE DEF Below
  <2>3. /\ Cardinality(Below(x)) <= Cardinality(M)
        /\ Cardinality(M) = Cardinality(Below(x)) => M = Below(x)
    BY <1>1, <2>1, FS_Subset
  <2> QED BY <1>1, <2>1, <2>2, <2>3
<1>5. \A x \in M, y \in Nat : ~(x < y) => Cardinality(Below(y)) <= Cardinality(Below(x))
  <2> SUFFICES ASSUME NEW x \in M, NEW y \in Nat, ~(x < y)
               PROVE  Cardinality(Below(y)) <= Cardinality(Below(x))
    OBVIOUS
  <2>1. Below(y) \in SUBSET Below(x)
    <3>1. \A z \in M : z < y => z < x
      BY <1>1
    <3> QED BY <3>1
  <2>2. IsFiniteSet(Below(x))
    BY <1>2
  <2> HIDE DEF Below
  <2> QED BY <2>1, <2>2, FS_Subset
<1>6. \A x : Rank(M, x) = Cardinality(Below(x))
  BY DEF Rank
<1> HIDE DEF Below
<1> QED BY <1>1, <1>2, <1>3, <1>4, <1>5, <1>6

\* Sorted lists each member once, in order: a member is where its rank says.
LEMMA SortedIs ==
    ASSUME NEW M, Membership(M)
    PROVE  /\ \A i \in 1..Cardinality(M) :
                 Sorted(M)[i] \in M /\ Rank(M, Sorted(M)[i]) = i - 1
           /\ \A x \in M : /\ Rank(M, x) + 1 \in 1..Cardinality(M)
                           /\ Sorted(M)[Rank(M, x) + 1] = x
<1> DEFINE N == Cardinality(M)
           rank == [x \in M |-> Rank(M, x) + 1]
           Holds(i) == {x \in M : Cardinality({y \in M : y < x}) = i - 1}
<1>1. /\ N \in Nat /\ M \in SUBSET Nat /\ IsFiniteSet(M)
      /\ \A x \in M : Rank(M, x) \in 0..(N - 1)
      /\ \A x, y \in M : x < y => Rank(M, x) < Rank(M, y)
  BY RanksRise DEF Membership
<1>2. \A x, y \in M : Rank(M, x) = Rank(M, y) => x = y
  <2> SUFFICES ASSUME NEW x \in M, NEW y \in M, Rank(M, x) = Rank(M, y), x # y PROVE FALSE
    OBVIOUS
  <2>1. x \in Nat /\ y \in Nat /\ Rank(M, x) \in Int
    BY <1>1
  <2>2. x < y \/ y < x
    BY <2>1
  <2> QED BY <1>1, <2>1, <2>2
<1>3. rank \in [M -> 1..N]
  BY <1>1
<1>4. rank \in Surjection(M, 1..N)
  <2>1. rank \in Injection(M, 1..N)
    <3>1. \A x, y \in M : rank[x] = rank[y] => x = y
      <4> SUFFICES ASSUME NEW x \in M, NEW y \in M, rank[x] = rank[y] PROVE x = y
        OBVIOUS
      <4>1. Rank(M, x) + 1 = Rank(M, y) + 1 /\ Rank(M, x) \in Int /\ Rank(M, y) \in Int
        BY <1>1
      <4> QED BY <1>2, <4>1
    <3> HIDE DEF rank, N
    <3> QED BY <1>3, <3>1, Fun_IsInj
  <2>2. IsFiniteSet(1..N) /\ Cardinality(1..N) = N
    BY <1>1, FS_Interval
  <2> HIDE DEF rank
  <2> QED BY <2>1, <2>2, FS_Injection
<1>5. \A i \in 1..N : \E x \in M : Rank(M, x) = i - 1
  <2> SUFFICES ASSUME NEW i \in 1..N PROVE \E x \in M : Rank(M, x) = i - 1
    OBVIOUS
  <2>1. PICK x \in M : rank[x] = i
    <3> HIDE DEF rank
    <3> QED BY <1>4 DEF Surjection
  <2>2. Rank(M, x) + 1 = i /\ Rank(M, x) \in Int
    BY <1>1, <2>1
  <2> QED BY <2>2
<1>6. \A i \in 1..N : Sorted(M)[i] \in M /\ Rank(M, Sorted(M)[i]) = i - 1
  <2> SUFFICES ASSUME NEW i \in 1..N PROVE Sorted(M)[i] \in M /\ Rank(M, Sorted(M)[i]) = i - 1
    OBVIOUS
  <2>1. Sorted(M)[i] = CHOOSE x \in M : Cardinality({y \in M : y < x}) = i - 1
    BY DEF Sorted
  <2>2. \E x \in M : Cardinality({y \in M : y < x}) = i - 1
    BY <1>5 DEF Rank
  <2>3. Sorted(M)[i] \in M /\ Cardinality({y \in M : y < Sorted(M)[i]}) = i - 1
    BY ONLY <2>1, <2>2, Zenon
  <2> QED BY <2>3 DEF Rank
<1>7. ASSUME NEW x \in M
      PROVE  Rank(M, x) + 1 \in 1..N /\ Sorted(M)[Rank(M, x) + 1] = x
  <2>1. Rank(M, x) + 1 \in 1..N /\ (Rank(M, x) + 1) - 1 = Rank(M, x)
    BY <1>1
  <2>2. Sorted(M)[Rank(M, x) + 1] \in M /\ Rank(M, Sorted(M)[Rank(M, x) + 1]) = Rank(M, x)
    BY <1>6, <2>1
  <2> QED BY <1>2, <2>1, <2>2
<1> QED BY <1>6, <1>7

\* The leaves of a membership are a log, a member each.
LEMMA MembersAreLeaves ==
    ASSUME NEW M, Membership(M)
    PROVE  /\ Log(MemberLeaves(M)) /\ Len(MemberLeaves(M)) = Cardinality(M)
           /\ Len(MemberLeaves(M)) \in Word
           /\ \A i \in 1..Cardinality(M) : MemberLeaves(M)[i] = LeafHash(Sorted(M)[i])
<1>1. Cardinality(M) \in Nat /\ Cardinality(M) \in Word
  BY FS_CardinalityType DEF Membership
<1>2. Cardinality(M) <= 2^Width
  <2>1. 2^Width \in Nat
    BY PowerPositive, WidthAssumption
  <2> QED BY <1>1, <2>1 DEF Word
<1>3. Len(MemberLeaves(M)) = Cardinality(M)
  BY <1>1 DEF MemberLeaves
<1>4. \A i \in 1..Cardinality(M) : MemberLeaves(M)[i] = LeafHash(Sorted(M)[i])
  BY DEF MemberLeaves
<1> QED BY <1>1, <1>2, <1>3, <1>4 DEF Log

\* Memberships of one root are the same.
LEMMA RootTellsMembers ==
    ASSUME NEW M, NEW N, Membership(M), Membership(N), MembershipRoot(M) = MembershipRoot(N)
    PROVE  M = N
<1> DEFINE A == MemberLeaves(M)
           B == MemberLeaves(N)
<1>1. /\ Log(A) /\ Len(A) = Cardinality(M) /\ Log(B) /\ Len(B) = Cardinality(N)
      /\ Cardinality(M) \in Nat /\ Cardinality(N) \in Nat
      /\ \A i \in 1..Cardinality(M) : A[i] = LeafHash(Sorted(M)[i])
      /\ \A i \in 1..Cardinality(N) : B[i] = LeafHash(Sorted(N)[i])
  BY MembersAreLeaves, RanksRise
<1> HIDE DEF A, B
<1>2. Part(A, 0, Len(A)) /\ Part(B, 0, Len(B))
  BY <1>1 DEF Part
<1>3. RootOf(A, 0, Len(A)) = RootOf(B, 0, Len(B))
  BY DEF MembershipRoot, Root, RootOf, A, B
<1>4. Cardinality(M) = Cardinality(N)
      /\ \A i \in 1..Cardinality(M) : A[i] = B[i]
  <2>1. CASE Len(A) # 0 /\ Len(B) # 0
    <3>1. Len(A) = Len(B) /\ \A i \in 1..Len(A) : A[0 + i] = B[0 + i]
      <4>1. /\ Log(A) /\ Log(B) /\ Part(A, 0, Len(A)) /\ Part(B, 0, Len(B)) /\ Len(A) # 0
            /\ Len(B) # 0 /\ RootOf(A, 0, Len(A)) = RootOf(B, 0, Len(B))
        BY <1>1, <1>2, <1>3, <2>1
      <4> QED BY ONLY <4>1, RootsTell
    <3>2. \A i \in 1..Len(A) : 0 + i = i
      BY <1>1
    <3> QED BY <1>1, <3>1, <3>2
  <2>2. CASE Len(A) = 0 \/ Len(B) = 0
    <3>1. Len(A) = 0 /\ Len(B) = 0
      <4>1. Len(A) = 0 => Len(B) = 0
        BY <1>1, <1>2, <1>3, EmptyRootTells
      <4>2. Len(B) = 0 => Len(A) = 0
        BY <1>1, <1>2, <1>3, EmptyRootTells
      <4> QED BY <2>2, <4>1, <4>2
    <3> QED BY <1>1, <3>1
  <2> QED BY <2>1, <2>2
<1>5. \A i \in 1..Cardinality(M) : Sorted(M)[i] = Sorted(N)[i]
  <2> SUFFICES ASSUME NEW i \in 1..Cardinality(M) PROVE Sorted(M)[i] = Sorted(N)[i]
    OBVIOUS
  <2>1. LeafHash(Sorted(M)[i]) = LeafHash(Sorted(N)[i])
    BY <1>1, <1>4
  <2> QED BY ONLY <2>1, HashesDiffer
<1>6. M \subseteq N
  <2> SUFFICES ASSUME NEW x \in M PROVE x \in N
    OBVIOUS
  <2>1. Rank(M, x) + 1 \in 1..Cardinality(M) /\ Sorted(M)[Rank(M, x) + 1] = x
    BY SortedIs
  <2>2. Sorted(N)[Rank(M, x) + 1] \in N
    BY <1>4, <2>1, SortedIs
  <2> QED BY <1>5, <2>1, <2>2
<1>7. N \subseteq M
  <2> SUFFICES ASSUME NEW x \in N PROVE x \in M
    OBVIOUS
  <2>1. Rank(N, x) + 1 \in 1..Cardinality(N) /\ Sorted(N)[Rank(N, x) + 1] = x
    BY SortedIs
  <2>2. Sorted(M)[Rank(N, x) + 1] \in M
    BY <1>4, <2>1, SortedIs
  <2> QED BY <1>4, <1>5, <2>1, <2>2
<1> QED BY <1>6, <1>7

----------------------------------------------------------------------------
(* The auditor.                                                            *)

\* What is published and what was accepted are histories of memberships no
\* longer than what is ever published.
AuditInv ==
    /\ history \in Seq(SUBSET Cid) /\ history # <<>> /\ Len(history) <= MaxGenerations
    /\ seen \in Seq(SUBSET Cid) /\ Len(seen) <= MaxGenerations

\* The histories that occur stay so.
THEOREM HistoriesStay == AuditSpec => []AuditInv
<1>1. AuditInit => AuditInv
  <2> SUFFICES ASSUME AuditInit PROVE AuditInv
    OBVIOUS
  <2>1. PICK genesis \in SUBSET Cid : history = <<genesis>>
    BY DEF AuditInit
  <2>2. MaxGenerations \in Nat \ {0}
    BY AuditingAssumption, PowerPositive, WidthAssumption DEF Word
  <2> QED BY <2>1, <2>2 DEF AuditInit, AuditInv
<1>2. AuditInv /\ [AuditNext]_auditVars => AuditInv'
  <2> SUFFICES ASSUME AuditInv, [AuditNext]_auditVars PROVE AuditInv'
    OBVIOUS
  <2>1. MaxGenerations \in Nat /\ Memberships \subseteq SUBSET Cid
    BY AuditingAssumption, PowerPositive, WidthAssumption DEF Word
  <2>2. CASE \E members \in Memberships : Enter(members)
    <3>1. PICK members \in Memberships : Enter(members)
      BY <2>2
    <3>2. members \in SUBSET Cid
      BY <2>1
    <3> QED BY <2>1, <3>1, <3>2 DEF AuditInv, Enter
  <2>3. CASE \E i \in 1..MaxGenerations, members \in Memberships : Rewrite(i, members)
    <3>1. PICK i \in 1..MaxGenerations, members \in Memberships : Rewrite(i, members)
      BY <2>3
    <3>2. members \in SUBSET Cid
      BY <2>1
    <3>3. history' \in Seq(SUBSET Cid) /\ Len(history') = Len(history)
      <4>1. history' = [history EXCEPT ![i] = members] /\ history \in Seq(SUBSET Cid)
        BY <3>1 DEF AuditInv, Rewrite
      <4>2. i \in 1..Len(history)
        BY <2>1, <3>1, <4>1 DEF AuditInv, Rewrite, IsPrefix
      <4> QED BY <3>2, <4>1, <4>2, ExceptSeq
    <3> QED BY <3>1, <3>3 DEF AuditInv, Rewrite
  <2>4. CASE Audit
    BY <2>4 DEF AuditInv, Audit
  <2>5. CASE UNCHANGED auditVars
    BY <2>5 DEF AuditInv, auditVars
  <2> QED BY <2>2, <2>3, <2>4, <2>5 DEF AuditNext
<1> QED BY <1>1, <1>2, PTL DEF AuditSpec

\* A part of the identifiers is a membership.
LEMMA MembershipsAre ==
    ASSUME NEW M \in SUBSET Cid
    PROVE  Membership(M)
<1>1. M \in SUBSET Nat /\ IsFiniteSet(M) /\ Cardinality(M) <= Cardinality(Cid)
  BY AuditingAssumption, FS_Subset
<1>2. Cardinality(M) \in Nat /\ Cardinality(Cid) \in Word
  BY <1>1, AuditingAssumption, FS_CardinalityType
<1>3. Cardinality(M) \in Word
  <2>1. 2^Width \in Nat
    BY PowerPositive, WidthAssumption
  <2> QED BY <1>1, <1>2, <2>1 DEF Word
<1> QED BY <1>1, <1>3 DEF Membership

\* The leaves of a history are a log.
LEMMA LeavesAre ==
    ASSUME NEW h \in Seq(SUBSET Cid), Len(h) <= MaxGenerations
    PROVE  /\ Log(Leaves(h)) /\ Len(Leaves(h)) = Len(h)
           /\ \A i \in 1..Len(h) : Leaves(h)[i] = LeafHash(MembershipRoot(h[i]))
<1>1. MaxGenerations \in Nat /\ MaxGenerations <= 2^Width
  <2>1. 2^Width \in Nat
    BY PowerPositive, WidthAssumption
  <2> QED BY <2>1, AuditingAssumption DEF Word
<1>2. 2^Width \in Nat
  BY PowerPositive, WidthAssumption
<1>3. Leaves(h) = [i \in 1..Len(h) |-> LeafHash(MembershipRoot(h[i]))]
  BY DEF Leaves
<1>4. Len(Leaves(h)) = Len(h)
  BY <1>3
<1>5. \A i \in 1..Len(h) : Leaves(h)[i] = LeafHash(MembershipRoot(h[i]))
  BY <1>3
<1> QED BY <1>1, <1>2, <1>4, <1>5 DEF Log

\* A consistency proof is made of a log's hashes.
LEMMA ProofOfHashes ==
    ASSUME NEW B, Log(B), NEW m \in Nat
    PROVE  ConsistencyProof(B, m) \in Seq(Hashes(B))
<1>1. Len(B) \in Nat /\ Len(B) <= 2^Width /\ 2^Width \in Nat
  BY PowerPositive, WidthAssumption DEF Log
<1>2. CASE m >= Len(B)
  BY <1>2 DEF ConsistencyProof
<1>3. CASE ~(m >= Len(B))
  <2> DEFINE A == [i \in 1..m |-> B[i]]
  <2>1. Len(A) = m /\ \A i \in 1..m : A[i] = B[i]
    OBVIOUS
  <2>2. m <= Len(B) /\ m <= 2^Width /\ \A i \in 1..m : i \in 1..Len(B)
    BY <1>1, <1>3
  <2> HIDE DEF A
  <2>3. Log(A)
    BY <2>1, <2>2 DEF Log
  <2> QED BY <2>1, <2>2, <2>3, ExtensionAccepted
<1> QED BY <1>2, <1>3

\* Whatever is offered is a sequence of hashes.
LEMMA OfferedAreProofs ==
    ASSUME AuditInv
    PROVE  \E S : Offered \subseteq Seq(S)
<1> DEFINE old == LogRoot(seen)
           new == LogRoot(history)
           spliced == seen \o SubSeq(history, Len(seen) + 1, Len(history))
           honest == {ConsistencyProof(leaves, m) :
                         leaves \in {Leaves(history), Leaves(spliced)}, m \in 0..Len(history)}
           S == (Hashes(Leaves(history)) \cup Hashes(Leaves(spliced))) \cup {old, new}
<1>1. MaxGenerations \in Nat
  BY AuditingAssumption, PowerPositive, WidthAssumption DEF Word
<1>2. spliced \in Seq(SUBSET Cid) /\ Len(spliced) <= MaxGenerations
  <2>1. Len(seen) \in Nat /\ Len(history) \in Nat
    BY DEF AuditInv
  <2>2. CASE Len(seen) < Len(history)
    <3>1. SubSeq(history, Len(seen) + 1, Len(history)) \in Seq(SUBSET Cid)
          /\ Len(SubSeq(history, Len(seen) + 1, Len(history))) = Len(history) - Len(seen)
      BY <2>1, <2>2 DEF AuditInv
    <3> QED BY <1>1, <2>1, <3>1 DEF AuditInv
  <2>3. CASE ~(Len(seen) < Len(history))
    <3>1. SubSeq(history, Len(seen) + 1, Len(history)) = <<>>
      BY <2>1, <2>3 DEF AuditInv
    <3> QED BY <3>1 DEF AuditInv
  <2> QED BY <2>2, <2>3
<1>3. Log(Leaves(history)) /\ Log(Leaves(spliced))
  BY <1>2, LeavesAre DEF AuditInv
<1> HIDE DEF spliced
<1>4. honest \subseteq Seq(S)
  <2> SUFFICES ASSUME NEW leaves \in {Leaves(history), Leaves(spliced)}, NEW m \in 0..Len(history)
               PROVE  ConsistencyProof(leaves, m) \in Seq(S)
    OBVIOUS
  <2>1. Log(leaves) /\ m \in Nat /\ Hashes(leaves) \subseteq S
    BY <1>3 DEF AuditInv
  <2>2. ConsistencyProof(leaves, m) \in Seq(Hashes(leaves))
    BY <2>1, ProofOfHashes
  <2> HIDE DEF S
  <2> QED BY <2>1, <2>2
<1>5. old \in S /\ new \in S
  OBVIOUS
<1>6. Offered = honest \cup {Tail(p) : p \in honest \ {<<>>}}
                       \cup {<<old>> \o p : p \in honest} \cup {Append(p, new) : p \in honest}
  BY DEF Offered, spliced
<1> HIDE DEF honest, S, old, new
<1>7. \A p \in Seq(S) : /\ p # <<>> => Tail(p) \in Seq(S)
                        /\ <<old>> \o p \in Seq(S) /\ Append(p, new) \in Seq(S)
  BY <1>5
<1>8. ASSUME NEW p \in Offered PROVE p \in Seq(S)
  <2>1. CASE p \in honest
    BY <1>4, <2>1
  <2>2. CASE \E q \in honest \ {<<>>} : p = Tail(q)
    BY <1>4, <1>7, <2>2
  <2>3. CASE \E q \in honest : p = <<old>> \o q
    BY <1>4, <1>7, <2>3
  <2>4. CASE \E q \in honest : p = Append(q, new)
    BY <1>4, <1>7, <2>4
  <2> QED BY <1>6, <2>1, <2>2, <2>3, <2>4
<1> QED BY <1>8

\* The proofs made of a history are accepted of all that came before.
LEMMA HistoryVerifies == AuditInv => ConsistencyVerifies
<1> SUFFICES ASSUME AuditInv, NEW m \in 0..Len(history)
             PROVE  VerifyConsistency(m, Len(history), LogRoot(SubSeq(history, 1, m)),
                                      LogRoot(history), ConsistencyProof(Leaves(history), m))
  BY DEF ConsistencyVerifies
<1> DEFINE h == SubSeq(history, 1, m)
           A == Leaves(h)
           B == Leaves(history)
<1>1. h \in Seq(SUBSET Cid) /\ Len(h) = m /\ \A i \in 1..m : h[i] = history[i]
  BY DEF AuditInv
<1>2. MaxGenerations \in Nat /\ m <= MaxGenerations /\ m <= Len(history) /\ Len(history) \in Nat
      /\ m \in Nat /\ history \in Seq(SUBSET Cid) /\ Len(history) <= MaxGenerations
  BY AuditingAssumption, PowerPositive, WidthAssumption DEF Word, AuditInv
<1> HIDE DEF h
<1>3. /\ Log(A) /\ Len(A) = m /\ Log(B) /\ Len(B) = Len(history)
      /\ \A i \in 1..m : A[i] = LeafHash(MembershipRoot(h[i]))
      /\ \A i \in 1..Len(history) : B[i] = LeafHash(MembershipRoot(history[i]))
  BY <1>1, <1>2, LeavesAre
<1> HIDE DEF A, B
<1>4. \A i \in 1..m : A[i] = B[i]
  BY <1>1, <1>2, <1>3
<1>5. Log(A) /\ Log(B) /\ Len(A) <= Len(B) /\ \A i \in 1..Len(A) : A[i] = B[i]
  BY <1>2, <1>3, <1>4
<1>6. VerifyConsistency(Len(A), Len(B), Root(A), Root(B), ConsistencyProof(B, Len(A)))
  BY ONLY <1>5, ExtensionAccepted
<1> QED BY ONLY <1>3, <1>6, Zenon DEF A, B, h, LogRoot

\* Whatever proof is offered, only a history that begins with what was seen
\* is accepted.
LEMMA HistorySound == AuditInv => ConsistencySound
<1> SUFFICES ASSUME AuditInv, NEW n \in Word, NEW proof \in Offered, seen # <<>>,
                    VerifyConsistency(Len(seen), n, LogRoot(seen), LogRoot(history), proof)
             PROVE  IsPrefix(seen, history)
  BY DEF ConsistencySound
<1> DEFINE A == Leaves(seen)
           B == Leaves(history)
<1>1. /\ Log(A) /\ Len(A) = Len(seen) /\ Log(B) /\ Len(B) = Len(history)
      /\ \A i \in 1..Len(seen) : A[i] = LeafHash(MembershipRoot(seen[i]))
      /\ \A i \in 1..Len(history) : B[i] = LeafHash(MembershipRoot(history[i]))
  BY LeavesAre DEF AuditInv
<1>2. PICK S : proof \in Seq(S)
  BY OfferedAreProofs
<1>3. /\ seen \in Seq(SUBSET Cid) /\ history \in Seq(SUBSET Cid)
      /\ Len(seen) \in Nat \ {0} /\ Len(history) \in Nat \ {0} /\ n \in Nat
  BY PowerPositive, WidthAssumption DEF AuditInv, Word
<1>4. LogRoot(seen) = Root(A) /\ LogRoot(history) = Root(B)
  BY DEF LogRoot
<1> HIDE DEF A, B
<1>5. /\ Log(A) /\ Len(A) # 0 /\ Log(B) /\ Len(B) # 0 /\ n \in Nat /\ proof \in Seq(S)
      /\ VerifyConsistency(Len(A), n, Root(A), Root(B), proof)
  BY <1>1, <1>2, <1>3, <1>4
<1>6. Len(A) <= Len(B) /\ \A i \in 1..Len(A) : A[i] = B[i]
  BY ONLY <1>5, AcceptedExtends
<1>7. ASSUME NEW i \in 1..Len(seen) PROVE seen[i] = history[i]
  <2>1. i \in 1..Len(history) /\ seen[i] \in SUBSET Cid /\ history[i] \in SUBSET Cid
    BY <1>1, <1>3, <1>6
  <2>2. LeafHash(MembershipRoot(seen[i])) = LeafHash(MembershipRoot(history[i]))
    BY <1>1, <1>6, <2>1
  <2>3. MembershipRoot(seen[i]) = MembershipRoot(history[i])
    BY ONLY <2>2, HashesDiffer
  <2> QED BY <2>1, <2>3, MembershipsAre, RootTellsMembers
<1>8. Len(seen) <= Len(history)
  BY <1>1, <1>6
<1>9. SubSeq(seen, 1, Len(seen)) = SubSeq(history, 1, Len(seen))
  BY <1>3, <1>7, <1>8
<1> QED BY <1>8, <1>9 DEF IsPrefix

\* An auditor accepts a log that extends what it has seen, and no other.
THEOREM AuditsConsistent == AuditSpec => []ConsistencyExact
<1>1. AuditInv => ConsistencyExact
  BY HistoryVerifies, HistorySound DEF ConsistencyExact
<1> QED BY <1>1, HistoriesStay, PTL

----------------------------------------------------------------------------
(* Answers about membership.                                               *)

\* A member is shown with a path that verifies.
LEMMA EntryVerifies ==
    ASSUME NEW M, Membership(M), NEW i \in 0..(Cardinality(M) - 1)
    PROVE  LET e == Entry(M, i)
           IN  /\ e.index = i /\ e.value = Sorted(M)[i + 1] /\ e.value \in M /\ Rank(M, e.value) = i
               /\ e.path \in Seq(Hashes(MemberLeaves(M)))
               /\ VerifyInclusion(LeafHash(e.value), e.index, Cardinality(M), e.path,
                                  MembershipRoot(M))
<1> DEFINE A == MemberLeaves(M)
           p == InclusionProof(A, i)
<1>1. /\ Log(A) /\ Len(A) = Cardinality(M) /\ Len(A) \in Word /\ Cardinality(M) \in Nat
      /\ \A j \in 1..Cardinality(M) : A[j] = LeafHash(Sorted(M)[j])
  BY MembersAreLeaves, RanksRise
<1>2. i + 1 \in 1..Cardinality(M) /\ (i + 1) - 1 = i
  BY <1>1
<1>3. Sorted(M)[i + 1] \in M /\ Rank(M, Sorted(M)[i + 1]) = i /\ A[i + 1] = LeafHash(Sorted(M)[i + 1])
  BY <1>1, <1>2, SortedIs
<1> HIDE DEF A
<1>4. Log(A) /\ Len(A) \in Word /\ i \in 0..(Len(A) - 1)
  BY <1>1
<1>5. /\ VerifyInclusion(A[i + 1], i, Len(A), p, Root(A))
      /\ p \in Seq(Hashes(A))
  BY ONLY <1>4, InclusionVerifies
<1>6. VerifyInclusion(LeafHash(Sorted(M)[i + 1]), i, Cardinality(M), p, MembershipRoot(M))
  BY ONLY <1>1, <1>3, <1>5, Zenon DEF MembershipRoot, A
<1>7. Entry(M, i) = [index |-> i, value |-> Sorted(M)[i + 1], path |-> p]
  BY DEF Entry, A
<1> HIDE DEF p
<1> QED BY <1>3, <1>5, <1>6, <1>7 DEF A

\* A member is proved present,
LEMMA PresentVerifies ==
    ASSUME NEW M, Membership(M), NEW x \in M
    PROVE  Report(M, x) = [finding |-> "present", verified |-> TRUE]
<1> DEFINE r == Rank(M, x)
           p == InclusionProof(MemberLeaves(M), r)
           proof == Present(r, Cardinality(M), p)
<1>1. r \in 0..(Cardinality(M) - 1) /\ Sorted(M)[r + 1] = x
  BY RanksRise, SortedIs
<1>2. Entry(M, r) = [index |-> r, value |-> x, path |-> p]
  BY <1>1 DEF Entry
<1>3. VerifyInclusion(LeafHash(x), r, Cardinality(M), p, MembershipRoot(M))
  <2> HIDE DEF r, p
  <2>1. VerifyInclusion(LeafHash(Entry(M, r).value), Entry(M, r).index, Cardinality(M),
                        Entry(M, r).path, MembershipRoot(M))
    BY <1>1, EntryVerifies
  <2> QED BY <1>2, <2>1
<1>4. Prove(M, x) = proof
  BY DEF Prove, Rank
<1>5. /\ proof.finding = "present" /\ proof.index = r /\ proof.size = Cardinality(M)
      /\ proof.path = p
  BY DEF Present
<1> HIDE DEF r, p, proof
<1>6. Verify(x, proof, MembershipRoot(M)) = TRUE
  <2>1. Verify(x, proof, MembershipRoot(M))
    BY <1>3, <1>5 DEF Verify
  <2>2. Verify(x, proof, MembershipRoot(M)) \in BOOLEAN
    BY <1>5 DEF Verify, VerifyInclusion
  <2> QED BY <2>1, <2>2
<1>7. Report(M, x) = [finding |-> proof.finding,
                      verified |-> Verify(x, proof, MembershipRoot(M))]
  BY <1>4 DEF Report
<1> QED BY ONLY <1>5, <1>6, <1>7, Zenon

\* and what is no member absent, by the neighbours it would stand between.
LEMMA AbsentVerifies ==
    ASSUME NEW M, Membership(M), NEW x \in Nat, x \notin M
    PROVE  Report(M, x) = [finding |-> "absent", verified |-> TRUE]
<1> DEFINE r == Rank(M, x)
           size == Cardinality(M)
           before == Neighbour(M, r - 1)
           after == Neighbour(M, r)
           proof == Absent(before, after, size)
           root == MembershipRoot(M)
<1>1. /\ size \in Nat /\ r \in 0..size /\ M \in SUBSET Nat
      /\ \A y \in M : y < x => Rank(M, y) < r
      /\ \A y \in M : ~(y < x) => r <= Rank(M, y)
  BY RanksRise DEF Membership
<1>2. Prove(M, x) = proof
  BY DEF Prove, Rank
<1>3. /\ proof.finding = "absent" /\ proof.before = before /\ proof.after = after
      /\ proof.size = size
  BY DEF Absent
<1>4. ASSUME NEW i \in 0..(size - 1)
      PROVE  /\ Entry(M, i).index = i /\ Entry(M, i).value \in M
             /\ Rank(M, Entry(M, i).value) = i
             /\ VerifyInclusion(LeafHash(Entry(M, i).value), Entry(M, i).index, size,
                                Entry(M, i).path, root)
  BY EntryVerifies
<1>5. \A e \in before : r - 1 \in 0..(size - 1) /\ e = Entry(M, r - 1)
  BY DEF Neighbour
<1>6. \A e \in after : r \in 0..(size - 1) /\ e = Entry(M, r)
  BY DEF Neighbour
<1>7. /\ r - 1 \in 0..(size - 1) => before # {}
      /\ r \in 0..(size - 1) => after # {}
  BY DEF Neighbour
<1>8. size = 0 => root = EmptyRoot
  <2> SUFFICES ASSUME size = 0 PROVE root = EmptyRoot
    OBVIOUS
  <2>1. Log(MemberLeaves(M)) /\ Len(MemberLeaves(M)) = 0
    BY MembersAreLeaves
  <2>2. Part(MemberLeaves(M), 0, 0)
    BY <2>1 DEF Part
  <2>3. RootOf(MemberLeaves(M), 0, 0) = EmptyRoot
    BY <2>1, <2>2, RootIs
  <2> QED BY <2>1, <2>3 DEF MembershipRoot, Root, RootOf
<1> HIDE DEF r, size, before, after, proof, root
<1>9. Verify(x, proof, root)
  <2>1. CASE size = 0
    <3>1. before = {} /\ after = {}
      BY <1>5, <1>6, <2>1
    <3>2. proof.finding # "present"
      BY <1>3
    <3> QED BY <1>3, <1>8, <2>1, <3>1, <3>2 DEF Verify
  <2>2. CASE size # 0
    <3>1. \A e \in before \cup after :
             VerifyInclusion(LeafHash(e.value), e.index, size, e.path, root)
      BY <1>4, <1>5, <1>6
    <3>2. before # {} \/ after # {}
      BY <1>1, <1>7, <2>2
    <3>3. \A b \in before, a \in after : a.index = b.index + 1
      BY <1>1, <1>4, <1>5, <1>6
    <3>4. ASSUME NEW b \in before
          PROVE  b.value < x /\ (after = {} => b.index + 1 = size)
      <4>1. b.index = r - 1 /\ b.value \in M /\ Rank(M, b.value) = r - 1 /\ r - 1 \in 0..(size - 1)
        BY <1>4, <1>5
      <4>2. ~(r <= r - 1)
        BY <1>1
      <4>3. b.value < x
        BY <1>1, <4>1, <4>2
      <4>4. after = {} => r = size
        BY <1>1, <1>7, <4>1
      <4> QED BY <1>1, <4>1, <4>3, <4>4
    <3>5. ASSUME NEW a \in after
          PROVE  x < a.value /\ (before = {} => a.index = 0)
      <4>1. a.index = r /\ a.value \in M /\ Rank(M, a.value) = r /\ r \in 0..(size - 1)
        BY <1>4, <1>6
      <4>2. ~(r < r)
        BY <1>1
      <4>3. ~(a.value < x) /\ a.value # x /\ a.value \in Nat
        BY <1>1, <4>1, <4>2
      <4>4. before = {} => r = 0
        BY <1>1, <1>7, <4>1
      <4> QED BY <4>1, <4>3, <4>4
    <3>6. Brackets(before, after, size, x)
      BY <3>2, <3>3, <3>4, <3>5 DEF Brackets
    <3>7. proof.finding # "present"
      BY <1>3
    <3> QED BY <1>3, <2>2, <3>1, <3>6, <3>7 DEF Verify
  <2> QED BY <2>1, <2>2
<1>10. Verify(x, proof, root) = TRUE
  <2>1. Verify(x, proof, root) \in BOOLEAN
    BY <1>3 DEF Verify, Brackets
  <2> QED BY <1>9, <2>1
<1>11. Report(M, x) = [finding |-> proof.finding, verified |-> Verify(x, proof, root)]
  BY <1>2 DEF Report, root
<1> QED BY ONLY <1>3, <1>10, <1>11, Zenon

\* A claim is of a member, and reaches one from where it is claimed.
LEMMA ClaimReaches ==
    ASSUME NEW M, Membership(M), NEW size \in Word \ {0}, NEW e \in Claims(M, size)
    PROVE  /\ e.index \in 0..(size - 1) /\ e.value \in M
           /\ e.path \in Seq(Hashes(MemberLeaves(M)))
           /\ Reaches(LeafHash(e.value), size, e.index, e.path, MemberLeaves(M), 0,
                      Cardinality(M))
<1>1. PICK j \in 0..(Cardinality(M) - 1), i \in 0..(size - 1) :
         /\ e = [Entry(M, j) EXCEPT !.index = i]
         /\ VerifyInclusion(LeafHash(e.value), e.index, size, e.path, MembershipRoot(M))
  BY DEF Claims, Shown
<1>2. e.index = i /\ e.value = Entry(M, j).value /\ e.path = Entry(M, j).path
  BY <1>1 DEF Entry
<1>3. e.value \in M /\ e.path \in Seq(Hashes(MemberLeaves(M)))
  BY <1>2, EntryVerifies
<1> DEFINE A == MemberLeaves(M)
<1>4. Log(A) /\ Len(A) = Cardinality(M) /\ Cardinality(M) \in Nat
  BY MembersAreLeaves, RanksRise
<1>5. Len(A) # 0 /\ e.index \in Nat /\ size \in Word
  BY <1>2, <1>4
<1> HIDE DEF A
<1>6. VerifyInclusion(LeafHash(e.value), e.index, size, e.path, Root(A))
         <=> Reaches(LeafHash(e.value), size, e.index, e.path, A, 0, Len(A))
  BY <1>4, <1>5, VerifiedReaches
<1>7. Reaches(LeafHash(e.value), size, e.index, e.path, A, 0, Cardinality(M))
  BY ONLY <1>1, <1>4, <1>6, Zenon DEF MembershipRoot, A
<1> QED BY <1>2, <1>3, <1>7 DEF A

\* The leaf at a place tells the member of that rank.
LEMMA LeafTells ==
    ASSUME NEW M, Membership(M), NEW j \in 0..(Cardinality(M) - 1), NEW x,
           MemberLeaves(M)[0 + j + 1] = LeafHash(x)
    PROVE  x \in M /\ Rank(M, x) = j
<1>1. Cardinality(M) \in Nat /\ j + 1 \in 1..Cardinality(M) /\ 0 + j + 1 = j + 1 /\ (j + 1) - 1 = j
  BY RanksRise
<1>2. LeafHash(Sorted(M)[j + 1]) = LeafHash(x)
  BY <1>1, MembersAreLeaves
<1>3. Sorted(M)[j + 1] = x
  BY ONLY <1>2, HashesDiffer
<1> QED BY <1>1, <1>3, SortedIs

\* No claims bracket a member.
LEMMA MembersNotBracketed ==
    ASSUME NEW M, Membership(M), NEW size \in Word \ {0}, NEW x \in M,
           NEW b \in {{}} \cup {{e} : e \in Claims(M, size)},
           NEW a \in {{}} \cup {{e} : e \in Claims(M, size)}
    PROVE  ~Brackets(b, a, size, x)
<1> SUFFICES ASSUME Brackets(b, a, size, x) PROVE FALSE
  OBVIOUS
<1> DEFINE A == MemberLeaves(M)
           m == Cardinality(M)
           S == Hashes(A)
<1>1. /\ m \in Nat /\ Log(A) /\ Len(A) = m /\ m # 0 /\ M \in SUBSET Nat /\ size \in Int
      /\ Rank(M, x) \in 0..(m - 1)
      /\ \A y \in M : Rank(M, y) \in 0..(m - 1)
      /\ \A y, z \in M : y < z => Rank(M, y) < Rank(M, z)
  <2>1. m # 0
    BY FS_EmptySet DEF Membership
  <2>2. size \in Int
    BY PowerPositive, WidthAssumption DEF Word
  <2> QED BY <2>1, <2>2, RanksRise, MembersAreLeaves DEF Membership
<1>2. ASSUME NEW e \in b \cup a
      PROVE  /\ e \in Claims(M, size)
             /\ e.index \in 0..(size - 1) /\ e.value \in M /\ e.path \in Seq(S)
             /\ Reaches(LeafHash(e.value), size, e.index, e.path, A, 0, m)
  <2>1. e \in Claims(M, size)
    OBVIOUS
  <2> QED BY <2>1, ClaimReaches
<1>3. ASSUME NEW j \in 0..(m - 1), NEW y, A[0 + j + 1] = LeafHash(y)
      PROVE  y \in M /\ Rank(M, y) = j
  BY <1>3, LeafTells
<1>4. \A e : \E c : LeafHash(e) = LeafHash(c)
  OBVIOUS
<1> HIDE DEF A, m, S
<1>5. CASE b # {} /\ a # {}
  <2>1. PICK l \in b, n \in a : TRUE
    BY <1>5
  <2>2. n.index = l.index + 1 /\ l.value < x /\ x < n.value
    BY <2>1 DEF Brackets
  <2> DEFINE leaf == LeafHash(l.value)
             next == LeafHash(n.value)
  <2>3. /\ l.path \in Seq(S) /\ n.path \in Seq(S) /\ Log(A)
        /\ Reaches(leaf, size, l.index, l.path, A, 0, m)
        /\ Reaches(next, size, l.index + 1, n.path, A, 0, m)
        /\ \E c : leaf = LeafHash(c)
        /\ \E c : next = LeafHash(c)
    BY <1>1, <1>2, <2>1, <2>2
  <2>4. PICK j \in 0..(m - 2) : A[0 + j + 1] = leaf /\ A[0 + j + 2] = next
    <3> HIDE DEF leaf, next
    <3> QED BY ONLY <2>3, ReachesBeside
  <2>5. j \in 0..(m - 1) /\ j + 1 \in 0..(m - 1) /\ 0 + (j + 1) + 1 = 0 + j + 2
    BY <1>1
  <2>6. l.value \in M /\ Rank(M, l.value) = j
    BY <1>3, <2>4, <2>5
  <2>7. A[0 + (j + 1) + 1] = LeafHash(n.value)
    BY ONLY <2>4, <2>5, Zenon
  <2>8. n.value \in M /\ Rank(M, n.value) = j + 1
    BY <1>3, <2>5, <2>7
  <2>9. Rank(M, l.value) < Rank(M, x) /\ Rank(M, x) < Rank(M, n.value) /\ Rank(M, x) \in Int
    <3>1. l.value \in M /\ n.value \in M /\ x \in M /\ l.value < x /\ x < n.value
      BY ONLY <2>2, <2>6, <2>8, x \in M
    <3>2. Rank(M, l.value) < Rank(M, x)
      BY <1>1, <3>1
    <3>3. Rank(M, x) < Rank(M, n.value)
      BY <1>1, <3>1
    <3> QED BY <1>1, <3>2, <3>3
  <2>10. j < Rank(M, x) /\ Rank(M, x) < j + 1 /\ Rank(M, x) \in Int /\ j \in Int
    BY <2>5, <2>6, <2>8, <2>9
  <2> HIDE DEF leaf, next
  <2> QED BY ONLY <2>10, SMT
<1>6. CASE b # {} /\ a = {}
  <2>1. PICK l \in b : TRUE
    BY <1>6
  <2>2. l.index + 1 = size /\ l.value < x /\ l.index \in Int
    BY <1>2, <1>6, <2>1 DEF Brackets
  <2> DEFINE leaf == LeafHash(l.value)
  <2>3. /\ l.path \in Seq(S) /\ Log(A) /\ Reaches(leaf, size, l.index, l.path, A, 0, m)
        /\ \E c : leaf = LeafHash(c)
    BY <1>1, <1>2, <2>1
  <2>4. PICK j \in 0..(m - 1) : A[0 + j + 1] = leaf /\ (l.index = size - 1 => j = m - 1)
    <3> HIDE DEF leaf
    <3>1. \E j \in 0..(m - 1) : /\ A[0 + j + 1] = leaf
                                /\ l.index = 0 => j = 0
                                /\ l.index = size - 1 => j = m - 1
      BY ONLY <2>3, ReachesFrom
    <3> QED BY <3>1
  <2>5. l.value \in M /\ Rank(M, l.value) = j /\ j = m - 1
    BY <1>1, <1>3, <2>2, <2>4
  <2>6. Rank(M, l.value) < Rank(M, x) /\ Rank(M, x) \in 0..(m - 1)
    BY <1>1, <2>2, <2>5
  <2>7. m - 1 < Rank(M, x) /\ Rank(M, x) \in 0..(m - 1) /\ m \in Int
    BY <1>1, <2>5, <2>6
  <2> QED BY ONLY <2>7, SMT
<1>7. CASE b = {} /\ a # {}
  <2>1. PICK n \in a : TRUE
    BY <1>7
  <2>2. n.index = 0 /\ x < n.value
    BY <1>7, <2>1 DEF Brackets
  <2> DEFINE leaf == LeafHash(n.value)
  <2>3. /\ n.path \in Seq(S) /\ Log(A) /\ Reaches(leaf, size, n.index, n.path, A, 0, m)
        /\ \E c : leaf = LeafHash(c)
    BY <1>1, <1>2, <2>1
  <2>4. PICK j \in 0..(m - 1) : A[0 + j + 1] = leaf /\ (n.index = 0 => j = 0)
    <3> HIDE DEF leaf
    <3>1. \E j \in 0..(m - 1) : /\ A[0 + j + 1] = leaf
                                /\ n.index = 0 => j = 0
                                /\ n.index = size - 1 => j = m - 1
      BY ONLY <2>3, ReachesFrom
    <3> QED BY <3>1
  <2>5. n.value \in M /\ Rank(M, n.value) = 0
    BY <1>3, <2>2, <2>4
  <2>6. Rank(M, x) < Rank(M, n.value) /\ Rank(M, x) \in 0..(m - 1)
    BY <1>1, <2>2, <2>5
  <2>7. Rank(M, x) < 0 /\ Rank(M, x) \in 0..(m - 1) /\ m \in Int
    BY <1>1, <2>5, <2>6
  <2> QED BY ONLY <2>7, SMT
<1>8. b # {} \/ a # {}
  BY DEF Brackets
<1> QED BY <1>5, <1>6, <1>7, <1>8

\* Right answers come with proofs that verify,
LEMMA RightAnswers == AuditInv => AnswersVerify
<1> SUFFICES ASSUME AuditInv, NEW x \in Cid
             PROVE  \A M \in {Last(history), Head(history)} :
                       Report(M, x) = [finding |-> IF x \in M THEN "present" ELSE "absent",
                                       verified |-> TRUE]
  BY DEF AnswersVerify, Answer
<1>1. TAKE M \in {Last(history), Head(history)}
<1>2. M \in SUBSET Cid
  BY DEF AuditInv, Last
<1>3. Membership(M) /\ x \in Nat
  BY <1>2, MembershipsAre, AuditingAssumption
<1>4. CASE x \in M
  BY <1>3, <1>4, PresentVerifies
<1>5. CASE x \notin M
  BY <1>3, <1>5, AbsentVerifies
<1> QED BY <1>4, <1>5

\* and wrong ones with none.
LEMMA NoWrongAnswers == AuditInv => AnswersSound
<1> SUFFICES ASSUME AuditInv PROVE AnswersSound
  OBVIOUS
<1> DEFINE M == Last(history)
           root == MembershipRoot(M)
           shown == Shown(M)
           A == MemberLeaves(M)
<1>1. M \in SUBSET Cid
  BY DEF AuditInv, Last
<1>2. Membership(M)
  BY <1>1, MembershipsAre
<1>3. /\ Log(A) /\ Len(A) = Cardinality(M) /\ Cardinality(M) \in Nat
      /\ \A i \in 1..Cardinality(M) : A[i] = LeafHash(Sorted(M)[i])
  BY <1>2, MembersAreLeaves, RanksRise
<1> HIDE DEF M
<1>4. ASSUME NEW size \in Word \ {0}, NEW x \in Cid \ M, NEW i \in 0..(size - 1), NEW e \in shown
      PROVE  ~Verify(x, Present(i, size, e.path), root)
  <2> SUFFICES ASSUME Verify(x, Present(i, size, e.path), root) PROVE FALSE
    OBVIOUS
  <2>1. PICK j \in 0..(Cardinality(M) - 1) : e = Entry(M, j)
    BY DEF Shown
  <2>2. e.path \in Seq(Hashes(A)) /\ Cardinality(M) # 0
    BY <1>2, <1>3, <2>1, EntryVerifies
  <2>3. VerifyInclusion(LeafHash(x), i, size, e.path, Root(A))
    <3>1. VerifyInclusion(LeafHash(x), i, size, e.path, root)
      BY DEF Verify, Present
    <3> QED BY <3>1 DEF MembershipRoot
  <2> HIDE DEF A
  <2>4. \E k \in 1..Len(A) : A[k] = LeafHash(x)
    <3>1. /\ Log(A) /\ Len(A) # 0 /\ e.path \in Seq(Hashes(A)) /\ i \in Nat /\ size \in Word
          /\ VerifyInclusion(LeafHash(x), i, size, e.path, Root(A))
      BY <1>3, <2>2, <2>3
    <3> QED BY ONLY <3>1, OnlyLeavesIncluded
  <2>5. PICK k \in 1..Cardinality(M) : LeafHash(Sorted(M)[k]) = LeafHash(x)
    BY <1>3, <2>4
  <2>6. Sorted(M)[k] = x
    BY ONLY <2>5, HashesDiffer
  <2> QED BY <1>2, <2>6, SortedIs
<1>5. ASSUME NEW size \in Word \ {0}, NEW x \in M,
             NEW b \in {{}} \cup {{e} : e \in Claims(M, size)},
             NEW a \in {{}} \cup {{e} : e \in Claims(M, size)}
      PROVE  ~Verify(x, Absent(b, a, size), root)
  <2>1. ~Brackets(b, a, size, x)
    BY <1>2, MembersNotBracketed
  <2>2. /\ Absent(b, a, size).finding = "absent" /\ Absent(b, a, size).before = b
        /\ Absent(b, a, size).after = a /\ Absent(b, a, size).size = size
    BY DEF Absent
  <2>3. size # 0 /\ Absent(b, a, size).finding # "present"
    BY <2>2
  <2> QED BY <2>1, <2>2, <2>3 DEF Verify
<1>6. \A size \in Word \ {0} :
         LET options == {{}} \cup {{e} : e \in Claims(M, size)}
         IN  /\ \A x \in Cid \ M, i \in 0..(size - 1), e \in shown :
                  ~Verify(x, Present(i, size, e.path), root)
             /\ \A x \in M, b, a \in options : ~Verify(x, Absent(b, a, size), root)
  <2> HIDE DEF shown, root
  <2> QED BY <1>4, <1>5
<1> QED BY ONLY <1>6, Zenon DEF AnswersSound, M, shown, root

\* Whoever asks about membership is answered rightly, with a proof; no proof
\* of a wrong answer verifies.
THEOREM AnswersRight == AuditSpec => []AnswersExact
<1>1. AuditInv => AnswersExact
  BY RightAnswers, NoWrongAnswers DEF AnswersExact
<1> QED BY <1>1, HistoriesStay, PTL

----------------------------------------------------------------------------
(* Checkpoints.                                                            *)

\* The step after k doublings: the power of two, as far as a word holds it.
Capped(k) == IF k < Width THEN 2^k ELSE 2^Width - 1

\* Doubling, saturating, goes from each of them to the next.
LEMMA CappedNext ==
    ASSUME NEW k \in Nat
    PROVE  /\ Capped(0) = 1 /\ Capped(k) \in Nat /\ Capped(k) <= 2^Width - 1
           /\ Capped(k + 1) = NextStep(Capped(k))
<1> DEFINE w == 2^Width
           p == 2^k
           q == 2^(k + 1)
<1>1. Width \in Nat \ {0} /\ w \in Nat \ {0} /\ p \in Nat \ {0} /\ q = 2 * p
  BY WidthAssumption, PowerPositive, PowerDoubles
<1>2. /\ k < Width => 2 * p <= w
      /\ k + 1 < Width => 2 * q <= w
      /\ k + 1 = Width => q = w
  BY <1>1, PowerGrows
<1>3. w - 1 \in Nat /\ (k < Width => p <= w - 1) /\ (k + 1 < Width => q <= w - 1)
  BY <1>1, <1>2
<1>4. Capped(0) = 1
  <2>1. 2^0 = 1
    OBVIOUS
  <2> QED BY <1>1, <2>1 DEF Capped
<1>5. Capped(k) = (IF k < Width THEN p ELSE w - 1)
      /\ Capped(k + 1) = (IF k + 1 < Width THEN q ELSE w - 1)
  BY DEF Capped
<1>6. NextStep(Capped(k)) = Min({Capped(k) * 2, w - 1})
  BY DEF NextStep
<1> HIDE DEF p, q, w
<1>7. Capped(k) \in Nat /\ Capped(k) <= w - 1
  BY <1>1, <1>3, <1>5
<1> DEFINE S == {Capped(k) * 2, w - 1}
<1>8. Capped(k + 1) \in S
  <2>1. CASE k + 1 < Width
    <3>1. Capped(k) = p /\ Capped(k + 1) = q
      BY <1>1, <1>5, <2>1
    <3>2. q = p * 2
      BY <1>1
    <3> QED BY <3>1, <3>2
  <2>2. CASE ~(k + 1 < Width)
    BY <1>5, <2>2
  <2> QED BY <2>1, <2>2
<1>9. Capped(k + 1) <= w - 1 /\ Capped(k + 1) <= Capped(k) * 2
  <2>1. CASE k + 1 < Width
    <3>1. Capped(k) = p /\ Capped(k + 1) = q /\ q = p * 2
      BY <1>1, <1>5, <2>1
    <3> QED BY <1>1, <1>3, <2>1, <3>1
  <2>2. CASE k + 1 = Width
    <3>1. Capped(k) = p /\ Capped(k + 1) = w - 1 /\ w = p * 2
      BY <1>1, <1>2, <1>5, <2>2
    <3> QED BY <1>1, <1>3, <3>1
  <2>3. CASE Width <= k
    <3>1. Capped(k) = w - 1 /\ Capped(k + 1) = w - 1
      BY <1>1, <1>5, <2>3
    <3> QED BY <1>1, <1>3, <3>1
  <2> QED BY <1>1, <2>1, <2>2, <2>3
<1>10. S \in SUBSET Nat
  BY <1>3, <1>7
<1>11. \A y \in S : Capped(k + 1) <= y
  BY <1>9
<1> HIDE DEF S
<1>12. Min(S) = Capped(k + 1)
  BY <1>8, <1>10, <1>11, LeastIs
<1> QED BY <1>4, <1>6, <1>7, <1>12 DEF S, w

\* The loop that collects the checkpoints up to a head ends exactly if the
\* head is not the last number a word holds.
THEOREM CheckpointLoopEndsBelow ==
    ASSUME NEW head \in Word
    PROVE  CheckpointLoopEnds(head) <=> head < 2^Width - 1
<1> DEFINE Steps(f) == [k \in Nat |-> IF k = 0 THEN 1 ELSE NextStep(f[k - 1])]
           g == [k \in Nat |-> Capped(k)]
           steps == CHOOSE f : f = Steps(f)
<1>1. g = Steps(g)
  <2>1. ASSUME NEW k \in Nat PROVE Capped(k) = IF k = 0 THEN 1 ELSE NextStep(g[k - 1])
    <3>1. CASE k = 0
      BY <3>1, CappedNext
    <3>2. CASE k # 0
      <4>1. k - 1 \in Nat /\ (k - 1) + 1 = k
        BY <3>2
      <4>2. Capped((k - 1) + 1) = NextStep(Capped(k - 1))
        BY <4>1, CappedNext
      <4>3. g[k - 1] = Capped(k - 1)
        BY <4>1
      <4> QED BY ONLY <3>2, <4>1, <4>2, <4>3, Zenon
    <3> QED BY <3>1, <3>2
  <2> QED BY <2>1
<1>2. steps = Steps(steps)
  <2>1. \E f : f = Steps(f)
    BY <1>1
  <2> HIDE DEF Steps
  <2> QED BY <2>1
<1>3. CheckpointLoopEnds(head) <=> \E k \in 0..Width : steps[k] > head
  BY DEF CheckpointLoopEnds
<1> HIDE DEF steps
<1> DEFINE P == {k \in Nat : steps[k] = Capped(k)}
<1>4. \A k \in Nat : steps[k] = IF k = 0 THEN 1 ELSE NextStep(steps[k - 1])
  BY <1>2
<1>5. 0 \in P
  BY <1>4, CappedNext
<1>6. ASSUME NEW k \in Nat, k \in P PROVE k + 1 \in P
  <2>1. k + 1 \in Nat /\ k + 1 # 0 /\ (k + 1) - 1 = k
    OBVIOUS
  <2>2. steps[k + 1] = NextStep(steps[k])
    BY <1>4, <2>1
  <2>3. steps[k] = Capped(k) /\ Capped(k + 1) = NextStep(Capped(k))
    BY <1>6, CappedNext
  <2> QED BY <2>1, <2>2, <2>3
<1>7. Nat \subseteq P
  <2> HIDE DEF P
  <2> QED BY <1>5, <1>6, InductionSet
<1>8. Width \in Nat /\ 2^Width \in Nat
  BY WidthAssumption, PowerPositive
<1>9. \A k \in 0..Width : steps[k] = Capped(k) /\ Capped(k) \in Nat /\ Capped(k) <= 2^Width - 1
  BY <1>7, CappedNext
<1>10. Width \in 0..Width /\ Capped(Width) = 2^Width - 1
  BY <1>8 DEF Capped
<1>11. head \in Nat
  BY DEF Word
<1> QED BY <1>3, <1>8, <1>9, <1>10, <1>11

\* Below the end of the word, a reader that asks for checkpoints is answered.
THEOREM CheckpointsAnswered ==
    ASSUME MaxGenerations < 2^Width - 1
    PROVE  AuditSpec => []CheckpointsEnd
<1>1. AuditInv => CheckpointsEnd
  <2> SUFFICES ASSUME AuditInv, NEW head \in 0..Len(history) PROVE CheckpointLoopEnds(head)
    BY DEF CheckpointsEnd
  <2>1. MaxGenerations \in Nat /\ Len(history) \in Nat /\ Len(history) <= MaxGenerations
    BY AuditingAssumption, PowerPositive, WidthAssumption DEF Word, AuditInv
  <2>2. head \in Word /\ head < 2^Width - 1
    <3>1. 2^Width \in Nat
      BY WidthAssumption, PowerPositive
    <3> QED BY <2>1, <3>1 DEF Word
  <2> QED BY <2>2, CheckpointLoopEndsBelow
<1> QED BY <1>1, HistoriesStay, PTL

=============================================================================
