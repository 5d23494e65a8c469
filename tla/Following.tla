------------------------------ MODULE Following ------------------------------
(***************************************************************************)
(* Following a domain: generation records and delta application            *)
(* (crates/publet-domain/src/generation.rs, delta.rs, bin/pub-delta) and   *)
(* the witnessing of what was reached (witness.rs, `pub witness').         *)
(*                                                                         *)
(* A publisher advances a domain one generation at a time.  It should show *)
(* one history to everyone and may show each reader another; the genesis   *)
(* is in the manifest, and so the same for all.  A reader advances by runs *)
(* of records some peer hands over, keeping only the index and the         *)
(* membership it has reached, and witnesses the root of it.  pub-delta     *)
(* checks that a record is what its file name says, not who made it: a     *)
(* peer may hand over any run of records, the last snapshot included.      *)
(* Anyone compares the witnesses.                                          *)
(*                                                                         *)
(* A membership root is collision-free: it stands for the set.             *)
(***************************************************************************)
EXTENDS Naturals, Sequences, SequencesExt, FiniteSets

CONSTANTS
    Member,         \* identifiers a generation may list
    Reader,         \* who follows and witnesses
    MaxIndex,       \* the last generation published
    MaxWitnesses,   \* how many witnesses are compared
    Forged          \* records the publisher made for nobody

Records == [index : Nat, snapshot : SUBSET Member,
            added : SUBSET Member, removed : SUBSET Member]

ASSUME FollowingAssumption ==
    MaxIndex \in Nat /\ MaxWitnesses \in Nat /\ Forged \subseteq Records

VARIABLES
    chain,      \* the records shown to each reader; chain[r][i] has index i - 1
    reader,     \* the generation and the membership each has reached
    told,       \* the records its runs ended in, the genesis first
    witnesses,  \* the witness annotations published
    manner      \* what they say: the root "reached", or the one "printed"

vars == <<chain, reader, told, witnesses, manner>>

Generation(index, snapshot, added, removed) ==
    [index |-> index, snapshot |-> snapshot, added |-> added, removed |-> removed]

Init ==
    \E genesis \in SUBSET Member :
        /\ chain = [r \in Reader |-> <<Generation(0, genesis, genesis, {})>>]
        /\ reader = [r \in Reader |-> [index |-> 0, members |-> genesis]]
        /\ told = [r \in Reader |-> {Generation(0, genesis, genesis, {})}]
        /\ witnesses = {}
        /\ manner \in {"reached", "printed"}

----------------------------------------------------------------------------
(* The publisher.                                                          *)

\* membership::diff
DiffAdded(previous, next)   == next \ previous
DiffRemoved(previous, next) == previous \ next

\* Generation::follows; every record after the genesis names its parent.
Follows(record, previous) == record.index = previous.index + 1

\* Generation::check_against: no addition the change does not imply, and no
\* implied removal left undeclared.
CheckAgainst(record, previous, next) ==
    /\ record.added \subseteq DiffAdded(previous, next)
    /\ DiffRemoved(previous, next) \subseteq record.removed

\* The record that takes `previous' to the membership `next'.  A corpus only
\* grows, and its records remove nothing; a publisher of another kind of
\* domain declares what it removes.
Record(previous, next) ==
    Generation(previous.index + 1, next,
               DiffAdded(previous.snapshot, next), DiffRemoved(previous.snapshot, next))

\* advance, as far as `to' is shown it: the next generation of its history,
\* held to `follows' and `check_against' before it is written.
Publish(to, next) ==
    LET previous == Last(chain[to])
        record   == Record(previous, next)
    IN  /\ previous.index < MaxIndex
        /\ next # previous.snapshot
        /\ Follows(record, previous)
        /\ CheckAgainst(record, previous.snapshot, next)
        /\ chain' = [chain EXCEPT ![to] = Append(@, record)]
        /\ UNCHANGED <<reader, told, witnesses, manner>>

----------------------------------------------------------------------------
(* delta::apply                                                            *)

\* Mutant: removals are passed over.
StepAddedOnly(members, record) == members \cup record.added

Step(members, record) == (members \cup record.added) \ record.removed

Contiguous(start, records) ==
    \A i \in DOMAIN records : records[i].index = start + i

Applied(start, records) == FoldLeft(Step, start, records)

\* Mutant: the root is not compared.
AcceptsUnverified(start, index, records) ==
    records # <<>> /\ Contiguous(index, records)

\* Not empty, contiguous, and the root comes out as the last record says.
Accepts(start, index, records) ==
    /\ records # <<>>
    /\ Contiguous(index, records)
    /\ Applied(start, records) = Last(records).snapshot

----------------------------------------------------------------------------
(* The peer.  It has what the publisher showed anyone and what was forged. *)

AtHand == Forged \cup UNION {ToSet(chain[r]) : r \in Reader}

\* Any of it, in any order and with any of it left out or repeated.
Handed == BoundedSeq(AtHand, MaxIndex)

\* pub-delta: what was found is put in order of index and applied.  A run
\* that repeats an index or passes one over is refused in any order.
Receive(r) ==
    /\ \E given \in Handed :
         /\ Accepts(reader[r].members, reader[r].index, given)
         /\ reader' = [reader EXCEPT ![r] = [ index   |-> Last(given).index,
                                              members |-> Applied(@.members, given) ]]
         /\ told' = [told EXCEPT ![r] = @ \cup {Last(given)}]
    /\ UNCHANGED <<chain, witnesses, manner>>

----------------------------------------------------------------------------
(* Witnesses.                                                              *)

Attested(r, generation, root) ==
    [observer |-> r, generation |-> generation, root |-> root]

\* An annotation as Witness::from_object reads it, of what the reader reached.
Annotate(r) ==
    /\ manner = "reached"
    /\ Cardinality(witnesses) < MaxWitnesses
    /\ witnesses' = witnesses \cup {Attested(r, reader[r].index, reader[r].members)}
    /\ UNCHANGED <<chain, reader, told, manner>>

HeadGeneration(r) == Last(chain[r]).index

\* An annotation of what `pub witness' prints: the root of the members
\* declared, which are the manifest's, beside the index of the last
\* generation.
WitnessCommand(r) ==
    /\ manner = "printed"
    /\ Cardinality(witnesses) < MaxWitnesses
    /\ witnesses' = witnesses \cup {Attested(r, HeadGeneration(r), chain[r][1].snapshot)}
    /\ UNCHANGED <<chain, reader, told, manner>>

\* Mutants: roots are compared across generations; only witnesses of one
\* observer are.
DetectAcross(ws) ==
    {w.generation : w \in {x \in ws : \E y \in ws : y.root # x.root}}
DetectWithin(ws) ==
    {w.generation : w \in {x \in ws : \E y \in ws :
        y.observer = x.observer /\ y.generation = x.generation /\ y.root # x.root}}

\* detect_split_views: the generations with more than one root.
DetectSplitViews(ws) ==
    {g \in {w.generation : w \in ws} :
        Cardinality({w.root : w \in {x \in ws : x.generation = g}}) > 1}

Next ==
    \E r \in Reader :
        \/ \E next \in SUBSET Member : Publish(r, next)
        \/ Receive(r)
        \/ Annotate(r)
        \/ WitnessCommand(r)

Spec == Init /\ [][Next]_vars

----------------------------------------------------------------------------
(* Properties.                                                             *)

\* The records of a history after one index, up to another.
Run(history, from, to) == SubSeq(history, from + 2, to + 1)

\* What a run names to be fetched.
AddedBy(run) == UNION {run[i].added : i \in DOMAIN run}

\* A reader's last run ended in a record the publisher showed it.
Guided(r) == \E t \in told[r] \cap ToSet(chain[r]) : t.index = reader[r].index

OnHistory(r) ==
    /\ reader[r].index + 1 \in DOMAIN chain[r]
    /\ reader[r].members = chain[r][reader[r].index + 1].snapshot

\* The last record decides: a reader whose run ended in the publisher's own
\* record is on the publisher's history, whatever the records before it said
\* and wherever earlier runs had led the reader.
LastRecordDecides == \A r \in Reader : Guided(r) => OnHistory(r)

\* No run is accepted that leaves out of what it adds something the reader
\* does not have and the last snapshot does.
NothingOmitted ==
    \A r \in Reader : \A given \in Handed :
        Accepts(reader[r].members, reader[r].index, given)
            => Last(given).snapshot \subseteq reader[r].members \cup AddedBy(given)

\* What was published, handed over as it is, is accepted from any generation
\* to any later one.
HistoryApplies ==
    \A r \in Reader : \A from \in DOMAIN chain[r], to \in DOMAIN chain[r] :
        from < to => Accepts(chain[r][from].snapshot, from - 1,
                             Run(chain[r], from - 1, to - 1))

\* Following is exact, as far as the last record is the publisher's: what was
\* published applies, from anywhere to anywhere later, nothing a reader needs
\* goes unnamed, and it ends where the publisher was.
HistoryFollowed == LastRecordDecides /\ NothingOmitted /\ HistoryApplies

\* What the publisher's own guidance leaves a peer, where delta.rs:8 says a
\* run that adds or omits anything fails: a reader on the publisher's history
\* accepts only runs up to a record of the publisher's that add what the
\* publisher's run to it adds.
AlteredRefused ==
    \A r \in Reader : \A given \in Handed :
        (/\ told[r] \subseteq ToSet(chain[r])
         /\ Accepts(reader[r].members, reader[r].index, given)
         /\ Last(given) \in ToSet(chain[r]))
            => AddedBy(given) = AddedBy(Run(chain[r], reader[r].index, Last(given).index))

\* Whatever peer served it, a reader is where the publisher was: the client
\* "need not trust the peer" (delta.rs:10).
ReadersOnHistory == \A r \in Reader : OnHistory(r)

\* A publisher that shows everyone one history is not reported, unless some
\* reader's run ended in a record it never showed.
NoFalseAlarm ==
    (/\ \A r, q \in Reader : \A i \in DOMAIN chain[r] \cap DOMAIN chain[q] :
           chain[r][i].snapshot = chain[q][i].snapshot
     /\ \A r \in Reader : told[r] \subseteq ToSet(chain[r]))
    => DetectSplitViews(witnesses) = {}

\* What a reader was told of a generation.
Told(r, generation) == {t.snapshot : t \in {u \in told[r] : u.index = generation}}

\* Two readers who were told different memberships of a generation, by the
\* publisher or by anyone, and witnessed what they reached, are reported.
SplitViewsShow ==
    manner = "reached" =>
        \A v, w \in witnesses :
            (/\ v.generation = w.generation
             /\ Told(v.observer, v.generation) # Told(w.observer, v.generation))
                => v.generation \in DetectSplitViews(witnesses)

\* Witnesses of what readers reached raise the alarm where readers were told
\* two histories, and nowhere else.
AlarmIffSplit == NoFalseAlarm /\ SplitViewsShow

\* Witnesses of what `pub witness' prints show that the publisher showed two
\* memberships at a generation (README.md:191: "the generation and log root
\* you hold").
PrintedSplitsShow ==
    manner = "printed" =>
        \A v, w \in witnesses :
            LET g == v.generation
            IN  (w.generation = g /\
                 chain[v.observer][g + 1].snapshot # chain[w.observer][g + 1].snapshot)
                    => g \in DetectSplitViews(witnesses)

=============================================================================
