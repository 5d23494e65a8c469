------------------------------ MODULE DeskProofs ------------------------------
(***************************************************************************)
(* What a workspace's keys and the commands that write under them promise, *)
(* for any number of commands at once and wherever they die.               *)
(***************************************************************************)
EXTENDS Desk, Induction

Pcs == {"idle", "generate", "file", "author", "rotate", "retire", "publish"}
Holding == {"file", "author", "retire"}

\* Who changes the key file and `author' has the store open, and knows the
\* key it is about.
ProcSound ==
    \A p \in Proc :
        /\ proc[p].pc \in Pcs
        /\ proc[p].pc \in Holding => holder = p /\ proc[p].new \in 1..drawn
        /\ proc[p].pc \in {"file", "author"} =>
              proc[p] = [pc |-> proc[p].pc, new |-> proc[p].new]
        /\ proc[p].pc = "rotate" => proc[p].old \in authors \cup {Placeholder}
        /\ proc[p].pc = "retire" => proc[p].old \in authors

\* A key file is written where there is none, but for a first key.
FileFree ==
    \A p \in Proc : proc[p].pc = "file" =>
        secret = None \/ KeyObject(proc[p].new, None) \in objects

KeysSound ==
    /\ proc \in [Proc -> {proc[p] : p \in Proc}]
    /\ drawn \in 0..MaxKeys
    /\ authors \subseteq 1..drawn
    /\ author \in {None, Placeholder} \cup authors
    /\ ProcSound
    /\ FileFree

Generated == {o \in objects : o.type = "key" /\ o.rotates = None}
Retired(k) == \E r \in retired : r.key = k

\* A key object states a secret that was drawn.
KeysDrawn == \A o \in objects : o.type = "key" => o.key \in 1..drawn

\* What the objects of a store say of its keys.
ObjectsSound ==
    /\ IsFiniteSet(Generated)
    /\ KeysDrawn
    /\ \A o \in objects :
          /\ o.type \in {"prose", "doc"} /\ o.by \in Key => o.by \in authors
          /\ o.type = "annotation" => o.to.type \in {"prose", "doc"}

\* The key that wrote last continues every other, and they are retired.
LatestContinues ==
    authors # {} =>
        \E last \in authors :
            /\ \A k \in authors : Continues(k, last)
            /\ \A k \in authors \ {last} : Retired(k)
            /\ author \in Key => author = last

\* A key on its way to be the author continues all that were; and was
\* generated, or rotated from one that was an author.
NextContinues ==
    \A p \in Proc :
        /\ proc[p].pc = "retire" => RotatedBy(proc[p].old, proc[p].new)
        /\ proc[p].pc \in {"file", "author"} =>
              \A k \in authors : Continues(k, proc[p].new) /\ Retired(k)

\* Some key was generated before any wrote.
FirstGenerated ==
    /\ authors # {} => Generated # {}
    /\ \A p \in Proc : proc[p].pc \in {"file", "author"} => Generated # {}

KeyInv ==
    /\ KeysSound
    /\ ObjectsSound
    /\ FirstGenerated
    /\ ~Afresh => LatestContinues /\ NextContinues /\ RevisionsCarryOn


----------------------------------------------------------------------------
(* The keys.                                                               *)

\* What one process changes of itself leaves the others as they were.
LEMMA OneProc ==
    ASSUME proc \in [Proc -> {proc[q] : q \in Proc}], NEW p \in Proc, NEW x,
           proc' = [proc EXCEPT ![p] = x]
    PROVE  /\ proc' \in [Proc -> {proc'[q] : q \in Proc}]
           /\ proc'[p] = x
           /\ \A q \in Proc : q # p => proc'[q] = proc[q]
OBVIOUS

\* The commands that write one object at a time.
Writing(p) ==
    \/ Compose(p) \/ StoreDocument(p) \/ Relate(p) \/ Annotate(p)
    \/ Delegate(p) \/ Revise(p) \/ ReviseCutShort(p)

\* A command that writes objects leaves the keys, and what is said of them, alone.
LEMMA WritingLeavesKeys ==
    ASSUME NEW p \in Proc, Writing(p)
    PROVE  /\ UNCHANGED <<files, holder, proc, drawn, authors>>
           /\ \A o : o.type \in {"key", "sig"} => (o \in objects' <=> o \in objects)
<1>1. UNCHANGED <<files, holder, proc, drawn, authors>>
  BY DEF Writing, AtDesk, Compose, StoreDocument, Relate, Annotate, Delegate,
         Revise, ReviseCutShort
<1>2. CASE Compose(p)
  BY <1>1, <1>2 DEF Compose, Claim
<1>3. CASE StoreDocument(p)
  BY <1>1, <1>3 DEF StoreDocument, OfferThenStore, Document
<1>4. CASE Relate(p)
  BY <1>1, <1>4 DEF Relate, OfferThenStore, Relation
<1>5. CASE Annotate(p)
  BY <1>1, <1>5 DEF Annotate, OfferThenStore, Verdict
<1>6. CASE Delegate(p)
  BY <1>1, <1>6 DEF Delegate, OfferThenStore, Delegation
<1>7. \A old \in Works : \A new \in Revisable(old) : new.type \in {"prose", "doc"}
  BY DEF Revisable, Work, Claim, Document
<1>8. CASE Revise(p)
  BY <1>1, <1>7, <1>8 DEF Revise, Revised, Relation
<1>9. CASE ReviseCutShort(p)
  BY <1>1, <1>7, <1>9 DEF ReviseCutShort, OfferThenStore
<1> QED BY <1>2, <1>3, <1>4, <1>5, <1>6, <1>8, <1>9 DEF Writing

\* A fresh workspace is sound.
LEMMA KeysInit == DeskInit => KeysSound
<1> SUFFICES ASSUME DeskInit PROVE KeysSound
  OBVIOUS
<1>1. proc = [p \in Proc |-> Idle] /\ drawn = 0 /\ authors = {} /\ author = Placeholder
  BY DEF DeskInit, Init
<1>2. \A p \in Proc : proc[p].pc = "idle"
  BY <1>1 DEF Idle
<1>3. proc \in [Proc -> {proc[p] : p \in Proc}]
  BY <1>1
<1>4. drawn \in 0..MaxKeys
  BY <1>1, KeysAssumption
<1> QED BY <1>1, <1>2, <1>3, <1>4 DEF KeysSound, ProcSound, FileFree, Pcs, Holding

\* What the keys promise, a step of a key command keeps.
LEMMA KeysStep ==
    ASSUME KeysSound, KeysDrawn, NEW p \in Proc, Step(p)
    PROVE  KeysSound'
<1> USE DEF Idle
<1>0. /\ proc \in [Proc -> {proc[q] : q \in Proc}]
      /\ drawn \in 0..MaxKeys /\ MaxKeys \in Nat
      /\ authors \subseteq 1..drawn
      /\ author \in {None, Placeholder} \cup authors
      /\ ProcSound /\ FileFree
  BY KeysAssumption DEF KeysSound
<1>a. ASSUME NEW x, proc' = [proc EXCEPT ![p] = x]
      PROVE  /\ proc' \in [Proc -> {proc'[q] : q \in Proc}]
             /\ proc'[p] = x
             /\ \A q \in Proc : q # p => proc'[q] = proc[q]
  BY <1>0, <1>a, OneProc
<1>1. CASE Generate(p)
  <2>1. PICK x : x = [pc |-> "generate"] /\ proc' = [proc EXCEPT ![p] = x]
    BY <1>1 DEF Generate
  <2> QED BY <1>0, <1>1, <1>a, <2>1
          DEF Generate, KeysSound, ProcSound, FileFree, Pcs, Holding, files
<1>2. CASE PutKey(p)
  <2>1. PICK x : x = [pc |-> "file", new |-> drawn'] /\ proc' = [proc EXCEPT ![p] = x]
    BY <1>2 DEF PutKey
  <2>2. drawn' \in 0..MaxKeys /\ drawn' = drawn + 1 /\ 1..drawn \subseteq 1..drawn'
        /\ drawn' \in 1..drawn'
    BY <1>0, <1>2 DEF PutKey
  <2>3. \A q \in Proc : proc[q].pc \notin Holding
    BY <1>0, <1>2, KeysAssumption DEF PutKey, ProcSound
  <2>4. ProcSound'
    BY <1>0, <1>2, <1>a, <2>1, <2>2, <2>3 DEF PutKey, ProcSound, Pcs, Holding, files
  <2>5. FileFree'
    BY <1>0, <1>2, <1>a, <2>1, <2>3 DEF PutKey, FileFree, Holding, files
  <2> QED BY <1>0, <1>2, <1>a, <2>1, <2>2, <2>4, <2>5 DEF PutKey, KeysSound, files
<1>3. CASE WriteKeyFile(p)
  <2>1. PICK x : x = [proc[p] EXCEPT !.pc = "author"] /\ proc' = [proc EXCEPT ![p] = x]
    BY <1>0, <1>3 DEF WriteKeyFile
  <2>2. proc[p] = [pc |-> "file", new |-> proc[p].new] /\ holder = p
        /\ proc[p].new \in 1..drawn
    BY <1>0, <1>3 DEF WriteKeyFile, ProcSound, Holding
  <2>3. x = [pc |-> "author", new |-> proc[p].new]
    BY <2>1, <2>2
  <2>4. \A q \in Proc : q # p => proc[q].pc # "file"
    BY <1>0, <2>2 DEF ProcSound, Holding
  <2>5. ProcSound'
    BY <1>0, <1>3, <1>a, <2>1, <2>2, <2>3 DEF WriteKeyFile, ProcSound, Pcs, Holding
  <2>6. FileFree'
    BY <1>3, <1>a, <2>1, <2>3, <2>4 DEF FileFree
  <2> QED BY <1>0, <1>3, <1>a, <2>1, <2>5, <2>6 DEF WriteKeyFile, KeysSound
<1>4. CASE SetAuthor(p)
  <2>1. proc' = [proc EXCEPT ![p] = Idle] /\ holder = p /\ proc[p].new \in 1..drawn
    BY <1>0, <1>4 DEF SetAuthor, End, ProcSound, Holding
  <2>2. \A q \in Proc : q # p => proc[q].pc \notin Holding
    BY <1>0, <2>1 DEF ProcSound
  <2> QED BY <1>0, <1>4, <1>a, <2>1, <2>2
          DEF SetAuthor, KeysSound, ProcSound, FileFree, Pcs, Holding
<1>5. CASE Rotate(p)
  <2>1. PICK x : x = [pc |-> "rotate", old |-> author, with |-> secret]
                 /\ proc' = [proc EXCEPT ![p] = x]
    BY <1>5 DEF Rotate
  <2> QED BY <1>0, <1>5, <1>a, <2>1
          DEF Rotate, KeysSound, ProcSound, FileFree, Pcs, Holding, files
<1>6. CASE PutRotation(p)
  <2>1. PICK x : x = [pc |-> "retire", old |-> proc[p].old, new |-> drawn']
                 /\ proc' = [proc EXCEPT ![p] = x]
    BY <1>6 DEF PutRotation
  <2>2. drawn' \in 0..MaxKeys /\ drawn' = drawn + 1 /\ 1..drawn \subseteq 1..drawn'
        /\ drawn' \in 1..drawn'
    BY <1>0, <1>6 DEF PutRotation
  <2>3. \A q \in Proc : proc[q].pc \notin Holding
    BY <1>0, <1>6, KeysAssumption DEF PutRotation, ProcSound
  <2>4. proc[p].old \in authors
    <3>1. proc[p].old \in authors \cup {Placeholder}
      BY <1>0, <1>6 DEF PutRotation, ProcSound
    <3>2. proc[p].old # Placeholder
      BY <1>6, <1>0 DEF PutRotation, MayRotate, Placeholder, KeysDrawn
    <3> QED BY <3>1, <3>2
  <2>5. ProcSound'
    BY <1>0, <1>6, <1>a, <2>1, <2>2, <2>3, <2>4 DEF PutRotation, ProcSound, Pcs, Holding, files
  <2>6. FileFree'
    BY <1>0, <1>6, <1>a, <2>1, <2>3 DEF PutRotation, FileFree, Holding, files
  <2> QED BY <1>0, <1>6, <1>a, <2>1, <2>2, <2>5, <2>6 DEF PutRotation, KeysSound, files
<1>7. CASE Retire(p)
  <2>1. PICK x : x = [pc |-> "file", new |-> proc[p].new] /\ proc' = [proc EXCEPT ![p] = x]
    BY <1>7 DEF Retire
  <2>2. holder = p /\ proc[p].new \in 1..drawn
    BY <1>0, <1>7 DEF Retire, ProcSound, Holding
  <2>3. ProcSound'
    BY <1>0, <1>7, <1>a, <2>1, <2>2 DEF Retire, ProcSound, Pcs, Holding
  <2>4. FileFree'
    BY <1>7 DEF Retire, FileFree
  <2> QED BY <1>0, <1>7, <1>a, <2>1, <2>3, <2>4 DEF Retire, KeysSound
<1>8. CASE SignTarget(p)
  <2>1. objects \subseteq objects' /\ UNCHANGED <<files, holder, proc, drawn, authors>>
    BY <1>8 DEF SignTarget
  <2> QED BY <1>0, <2>1 DEF KeysSound, ProcSound, FileFree, files
<1>9. CASE Publish(p)
  <2>1. PICK x : x = [pc |-> "publish", by |-> author] /\ proc' = [proc EXCEPT ![p] = x]
    BY <1>9 DEF Publish
  <2> QED BY <1>0, <1>9, <1>a, <2>1
          DEF Publish, KeysSound, ProcSound, FileFree, Pcs, Holding, files
<1>10. CASE SignEach(p)
  <2>1. \A q \in Proc : proc[q].pc \notin Holding
    BY <1>0, <1>10, KeysAssumption DEF SignEach, ProcSound
  <2> QED BY <1>0, <1>10, <1>a, <2>1
          DEF SignEach, End, KeysSound, ProcSound, FileFree, Pcs, Holding, files
<1>b. ASSUME proc' = [proc EXCEPT ![p] = Idle],
             holder' = IF holder = p THEN None ELSE holder,
             drawn' \in drawn..MaxKeys, objects \subseteq objects',
             UNCHANGED authors, author' \in {author, None},
             UNCHANGED secret \/ holder = p
      PROVE  KeysSound'
  <2>1. 1..drawn \subseteq 1..drawn' /\ drawn' \in 0..MaxKeys
    BY <1>0, <1>b
  <2>2. \A q \in Proc : q # p /\ proc[q].pc \in Holding => holder = q /\ holder' = q
    BY <1>0, <1>b DEF ProcSound
  <2>3. ProcSound'
    BY <1>0, <1>b, <1>a, <2>1, <2>2 DEF ProcSound, Pcs, Holding
  <2>4. FileFree'
    BY <1>0, <1>b, <1>a, <2>2 DEF FileFree, Holding
  <2> QED BY <1>0, <1>a, <1>b, <2>1, <2>3, <2>4 DEF KeysSound
<1>11. CASE InitAgain(p)
  <2>1. UNCHANGED <<secret, objects, holder, proc, drawn, authors>> /\ author' = Placeholder
    BY <1>11 DEF InitAgain
  <2> QED BY <1>0, <2>1 DEF KeysSound, ProcSound, FileFree
<1>12. CASE Refused(p)
  <2>1. UNCHANGED <<secret, author, objects, drawn, authors>> /\ drawn' \in drawn..MaxKeys
    BY <1>0, <1>12 DEF Refused, files
  <2>2. /\ proc' = [proc EXCEPT ![p] = Idle]
        /\ holder' = IF holder = p THEN None ELSE holder
    BY <1>12 DEF Refused, End
  <2> QED BY <1>b, <2>1, <2>2
<1>13. CASE Crash(p)
  <2>1. /\ proc' = [proc EXCEPT ![p] = Idle]
        /\ holder' = IF holder = p THEN None ELSE holder
        /\ UNCHANGED authors
    BY <1>13 DEF Crash, End
  <2>2. drawn \in drawn..MaxKeys /\ (drawn < MaxKeys => drawn + 1 \in drawn..MaxKeys)
    BY <1>0
  <2>3. proc[p].pc = "file" => holder = p
    BY <1>0 DEF ProcSound, Holding
  <2>4. /\ drawn' \in drawn..MaxKeys /\ objects \subseteq objects'
        /\ author' \in {author, None} /\ (UNCHANGED secret \/ holder = p)
    BY <1>13, <2>2, <2>3 DEF Crash, files
  <2> QED BY <1>b, <2>1, <2>4
<1> QED BY <1>1, <1>2, <1>3, <1>4, <1>5, <1>6, <1>7, <1>8, <1>9, <1>10, <1>11, <1>12, <1>13
        DEF Step

----------------------------------------------------------------------------
(* What the store holds.                                                   *)

\* The puts of a rotation: a key that rotates, and signatures with the secret
\* of the key they are by.
LEMMA RotationPuts ==
    ASSUME NEW old, NEW with, NEW new, NEW n \in 1..3, old # None, with = old,
           NEW o \in Rotation(old, with, new, n)
    PROVE  \/ o.type = "key" /\ o.key = new /\ o.rotates # None
           \/ o.type = "sig" /\ o.with = o.by
<1> DEFINE puts == << KeyObject(new, old),
                      Signature(new, new, "rotates", new),
                      Signature(old, with, "rotates", new) >>
<1>1. PICK i \in 1..n : o = puts[i]
  BY DEF Rotation
<1>2. i = 1 \/ i = 2 \/ i = 3
  BY <1>1
<1> QED BY <1>1, <1>2 DEF KeyObject, Signature

\* All the puts of a rotation are both signatures on the key that continues.
LEMMA RotationWhole ==
    ASSUME NEW old, NEW new, Rotation(old, old, new, 3) \subseteq objects'
    PROVE  RotatedBy(old, new)'
<1> DEFINE puts == << KeyObject(new, old),
                      Signature(new, new, "rotates", new),
                      Signature(old, old, "rotates", new) >>
<1>1. puts[1] \in objects' /\ puts[2] \in objects' /\ puts[3] \in objects'
  BY DEF Rotation
<1> QED BY <1>1 DEF RotatedBy

\* The key commands only add to the store, and what they add is the key
\* drawn last and signatures.
LEMMA KeyPuts ==
    ASSUME KeysSound, KeysDrawn, NEW p \in Proc, Step(p)
    PROVE  /\ objects \subseteq objects'
           /\ drawn \in Nat /\ drawn' \in {drawn, drawn + 1}
           /\ \A o \in objects' \ objects :
                \/ /\ o.type = "key" /\ o.key = drawn + 1 /\ drawn' = drawn + 1
                   /\ o.rotates = None => PutKey(p) /\ o = KeyObject(drawn + 1, None)
                \/ o.type = "sig" /\ (o.purpose = "rotates" => o.with = o.by)
<1>0. drawn \in Nat
  BY KeysAssumption DEF KeysSound
<1>1. CASE PutKey(p)
  BY <1>0, <1>1 DEF PutKey, KeyObject
<1>a. ASSUME MayRotate(proc[p].old, proc[p].with)
      PROVE  proc[p].old # None /\ proc[p].with = proc[p].old
  BY <1>0, <1>a, KeysAssumption DEF MayRotate, KeysDrawn
<1>2. CASE PutRotation(p)
  <2>1. /\ MayRotate(proc[p].old, proc[p].with) /\ drawn' = drawn + 1
        /\ objects' = objects \cup Rotation(proc[p].old, proc[p].with, drawn + 1, 3)
    BY <1>2 DEF PutRotation
  <2>2. 3 \in 1..3
    OBVIOUS
  <2> QED BY <1>0, <1>a, <2>1, <2>2, RotationPuts
<1>3. CASE SignTarget(p)
  BY <1>0, <1>3 DEF SignTarget, Signature
<1>4. CASE SignEach(p)
  BY <1>0, <1>4 DEF SignEach, Signature
<1>5. CASE Crash(p)
  <2>1. CASE UNCHANGED <<objects, drawn>>
    BY <1>0, <2>1
  <2>2. CASE /\ MayRotate(proc[p].old, proc[p].with) /\ drawn' = drawn + 1
             /\ \E n \in 1..3 : objects' =
                  objects \cup Rotation(proc[p].old, proc[p].with, drawn + 1, n)
    BY <1>0, <1>a, <2>2, RotationPuts
  <2> QED BY <1>5, <2>1, <2>2 DEF Crash
<1>6. CASE Generate(p) \/ WriteKeyFile(p) \/ SetAuthor(p) \/ Rotate(p) \/ Retire(p)
           \/ Publish(p) \/ InitAgain(p) \/ Refused(p)
  BY <1>0, <1>6
     DEF Generate, WriteKeyFile, SetAuthor, Rotate, Retire, Publish, InitAgain, Refused
<1> QED BY <1>1, <1>2, <1>3, <1>4, <1>5, <1>6 DEF Step

\* The key commands leave what is said of the objects in the store sound.
LEMMA ObjectsStep ==
    ASSUME KeysSound, ObjectsSound, NEW p \in Proc, Step(p)
    PROVE  ObjectsSound'
<1>1. /\ objects \subseteq objects' /\ drawn \in Nat /\ drawn' \in {drawn, drawn + 1}
      /\ \A o \in objects' \ objects :
            \/ o.type = "key" /\ o.key = drawn + 1 /\ drawn' = drawn + 1
               /\ (o.rotates = None => o = KeyObject(drawn + 1, None))
            \/ o.type = "sig"
  BY KeyPuts DEF ObjectsSound
<1>2. authors \subseteq authors'
  BY DEF Step, Generate, PutKey, WriteKeyFile, SetAuthor, Rotate, PutRotation, Retire,
         SignTarget, Publish, SignEach, InitAgain, Refused, Crash, files
<1>3. IsFiniteSet(Generated')
  <2>1. Generated' \subseteq Generated \cup {KeyObject(drawn + 1, None)}
    BY <1>1 DEF Generated
  <2>2. IsFiniteSet(Generated \cup {KeyObject(drawn + 1, None)})
    BY FS_AddElement DEF ObjectsSound
  <2> QED BY <2>1, <2>2, FS_Subset
<1>4. KeysDrawn'
  <2>1. drawn + 1 \in 1..(drawn + 1) /\ 1..drawn \subseteq 1..(drawn + 1)
    BY <1>1
  <2> QED BY <1>1, <2>1 DEF KeysDrawn, ObjectsSound
<1> QED BY <1>1, <1>2, <1>3, <1>4 DEF ObjectsSound

\* What a new version says and who by.
LEMMA WorkIs ==
    ASSUME NEW by, NEW text
    PROVE  /\ Work(by, text).type \in {"prose", "doc"}
           /\ Work(by, text).by = by /\ Work(by, text).text = text
BY DEF Work, Claim, Document

\* What may be named by an author that is a key is the work of an author.
LEMMA NamedIs ==
    ASSUME KeysSound, ObjectsSound, NEW o \in Named
    PROVE  o.type \in {"prose", "doc"} /\ (o.by \in Key => o.by \in authors)
<1>1. author \in Key => author \in authors
  BY KeysAssumption DEF KeysSound, Key, Placeholder
<1> QED BY <1>1, WorkIs DEF Named, Works, ObjectsSound

\* What the commands that write objects add is work, or names it.
LEMMA Written ==
    ASSUME KeysSound, ObjectsSound, NEW p \in Proc, Writing(p)
    PROVE  \A o \in objects' \ objects :
              \/ o.type \in {"prose", "doc"} /\ o.by = author
              \/ o.type = "annotation" /\ o.to \in Named
              \/ /\ o.type = "relation" /\ o.by = author
                 /\ o.from \in Named /\ o.to \in Named
              \/ o.type = "delegates"
<1>1. CASE Compose(p)
  BY <1>1 DEF Compose, Claim
<1>2. CASE StoreDocument(p)
  BY <1>2 DEF StoreDocument, OfferThenStore, Document
<1>3. CASE Relate(p)
  BY <1>3 DEF Relate, OfferThenStore, Relation
<1>4. CASE Annotate(p)
  BY <1>4 DEF Annotate, OfferThenStore, Verdict
<1>5. CASE Delegate(p)
  BY <1>5 DEF Delegate, OfferThenStore, Delegation
<1>a. \A old \in Works : \A new \in Revisable(old) :
         /\ new.type \in {"prose", "doc"} /\ new.by = author
         /\ old \in Named /\ new \in Named
  BY WorkIs DEF Revisable, Named
<1>6. CASE Revise(p)
  <2>1. PICK old \in Works : \E new \in Revisable(old) : objects' = Revised(old, new)
    BY <1>6 DEF Revise
  <2>3. PICK new \in Revisable(old) : objects' = Revised(old, new)
    BY <2>1
  <2>2. \A o \in objects' \ objects :
           o = new \/ o = Relation(author, "supersedes", new, old)
    BY <2>3 DEF Revised
  <2> QED BY <1>a, <2>2 DEF Relation
<1>7. CASE ReviseCutShort(p)
  BY <1>a, <1>7 DEF ReviseCutShort, OfferThenStore
<1> QED BY <1>1, <1>2, <1>3, <1>4, <1>5, <1>6, <1>7 DEF Writing

\* So do the commands that write objects.
LEMMA ObjectsWriting ==
    ASSUME KeysSound, ObjectsSound, NEW p \in Proc, Writing(p)
    PROVE  KeysSound' /\ ObjectsSound' /\ Generated' = Generated
<1>1. UNCHANGED <<files, holder, proc, drawn, authors>>
      /\ \A o : o.type \in {"key", "sig"} => (o \in objects' <=> o \in objects)
  BY WritingLeavesKeys
<1>2. \A k, l : KeyObject(k, l) \in objects' <=> KeyObject(k, l) \in objects
  BY <1>1 DEF KeyObject
<1>3. KeysSound'
  BY <1>1, <1>2 DEF KeysSound, ProcSound, FileFree, files
<1>4. Generated' = Generated
  BY <1>1 DEF Generated
<1>5. KeysDrawn'
  BY <1>1 DEF KeysDrawn, ObjectsSound
<1>6. author \in Key => author \in authors
  BY KeysAssumption DEF KeysSound, Key, Placeholder
<1>7. \A o \in objects' :
          /\ o.type \in {"prose", "doc"} /\ o.by \in Key => o.by \in authors'
          /\ o.type = "annotation" => o.to.type \in {"prose", "doc"}
  <2>1. \A o \in objects' \ objects :
           \/ o.type \in {"prose", "doc"} /\ o.by = author
           \/ o.type = "annotation" /\ o.to \in Named
           \/ o.type = "relation" \/ o.type = "delegates"
    BY Written
  <2> QED BY <1>1, <1>6, <2>1, NamedIs DEF ObjectsSound
<1> QED BY <1>3, <1>4, <1>5, <1>7 DEF ObjectsSound


----------------------------------------------------------------------------
(* What loads.                                                             *)

\* Objects that relate nothing and judge nothing make no difference to what
\* loads.
LEMMA LoadsWith ==
    ASSUME NEW S, NEW T, S \subseteq T,
           \A o \in T \ S : o.type \in {"key", "sig"},
           \A a \in S : a.type = "annotation" => a.to.type \in {"prose", "doc"}
    PROVE  Loads(S) => Loads(T)
<1>1. Supersedes(T) = Supersedes(S)
  <2>1. {r \in T : r.type = "relation" /\ r.kind = "supersedes"}
          = {r \in S : r.type = "relation" /\ r.kind = "supersedes"}
    OBVIOUS
  <2> QED BY <2>1 DEF Supersedes
<1> QED BY <1>1 DEF Loads

\* An edge that would close a cycle leads out of what an edge leads to.
LEMMA CycleThrough ==
    ASSUME NEW E, NEW a, NEW b, a # b, Acyclic(E), ~Acyclic(E \cup {<<a, b>>})
    PROVE  \E e \in E : e[2] = a
<1> SUFFICES ASSUME \A e \in E : e[2] # a PROVE FALSE
  OBVIOUS
<1> DEFINE F == E \cup {<<a, b>>}
<1>1. PICK S \in SUBSET {e[1] : e \in F} :
         S # {} /\ \A c \in S : \E e \in F : e[1] = c /\ e[2] \in S
  BY DEF Acyclic
<1> DEFINE R == S \ {a}
<1>2. \A c \in R : \E e \in E : e[1] = c /\ e[2] \in R
  BY <1>1
<1>3. R \in SUBSET {e[1] : e \in E}
  BY <1>2
<1>4. R # {}
  <2>1. PICK c \in S : TRUE
    BY <1>1
  <2>2. PICK e \in F : e[1] = c /\ e[2] \in S
    BY <1>1
  <2> QED BY <2>2
<1> HIDE DEF R
<1>5. \E c \in R : \A e \in E : e[1] = c => e[2] \notin R
  BY <1>3, <1>4 DEF Acyclic
<1> QED BY <1>2, <1>5

\* Where the edge to a version that is there already is refused, the version
\* has been superseded.
LEMMA RefusedIsSuperseded ==
    ASSUME ObjectsSound, NEW old \in Works, NEW new \in Revisable(old),
           Loads(objects), new \in objects,
           ~Loads(objects \cup {new, Relation(author, "supersedes", new, old)})
    PROVE  \E e \in Supersedes(objects) : e[2] = new
<1> DEFINE edge == Relation(author, "supersedes", new, old)
           both == objects \cup {new, edge}
<1>1. /\ edge.type = "relation" /\ edge.kind = "supersedes"
      /\ edge.from = new /\ edge.to = old
  BY DEF Relation
<1> HIDE DEF edge
<1>2. both = objects \cup {edge}
  OBVIOUS
<1>3. Supersedes(both) = Supersedes(objects) \cup {<<new, old>>}
  BY <1>1, <1>2 DEF Supersedes
<1>4. \A r \in both : r.type = "relation" /\ r.kind = "disputes" => r.from \in both
  BY <1>1, <1>2 DEF Loads
<1>5. \A a \in both : a.type = "annotation" /\ a.to \in both => a.to.text \notin Normative
  BY <1>1, <1>2 DEF Loads, ObjectsSound
<1>6. ~Acyclic(Supersedes(both))
  BY <1>4, <1>5 DEF Loads, edge
<1>7. new # old
  BY WorkIs DEF Revisable
<1>8. Acyclic(Supersedes(objects)) /\ ~Acyclic(Supersedes(objects) \cup {<<new, old>>})
  BY <1>3, <1>6 DEF Loads
<1> HIDE DEF both
<1> QED BY <1>7, <1>8, CycleThrough

\* The edges, of which the store loses none to any step.
LEMMA EdgesStay ==
    ASSUME NEW new, new.type \in {"prose", "doc"}, NEW S, NEW T, S \ {new} \subseteq T
    PROVE  Supersedes(S) \subseteq Supersedes(T)
BY DEF Supersedes

\* The workspace loads or mends, each version has its edge, and each rotation is
\* signed with the secret of the key that rotates.
DeskInv ==
    /\ KeysSound /\ ObjectsSound
    /\ DeskMends
    /\ \A v \in versions \cup undone : v.type \in {"prose", "doc"}
    /\ VersionsLed
    /\ RotationsVerify

\* `revise' leaves them so: it writes both, or takes the version back.
LEMMA ReviseStep ==
    ASSUME DeskInv, NEW p \in Proc, Revise(p)
    PROVE  /\ DeskMends'
           /\ \A v \in versions' \cup undone' : v.type \in {"prose", "doc"}
           /\ VersionsLed'
           /\ \A o \in objects \ objects' : \E e \in Supersedes(objects) : e[2] = o
<1>1. PICK old \in Works : \E new \in Revisable(old) :
         /\ Loads(objects \cup {new})
         /\ objects' = Revised(old, new)
         /\ versions' = versions \cup {new}
         /\ undone' = undone \cup (objects \ objects')
  BY DEF Revise
<1>2. PICK new \in Revisable(old) :
         /\ Loads(objects \cup {new})
         /\ objects' = Revised(old, new)
         /\ versions' = versions \cup {new}
         /\ undone' = undone \cup (objects \ objects')
  BY <1>1
<1>3. new.type \in {"prose", "doc"}
  BY WorkIs DEF Revisable
<1> DEFINE edge == Relation(author, "supersedes", new, old)
           both == objects \cup {new, edge}
<1>4. /\ edge.type = "relation" /\ edge.kind = "supersedes"
      /\ edge.from = new /\ edge.to = old
  BY DEF Relation
<1> HIDE DEF edge
<1>5. objects' = IF Loads(both) THEN both ELSE objects \ {new}
  BY <1>2 DEF Revised, edge
<1>6. Supersedes(objects) \subseteq Supersedes(objects')
  BY <1>3, <1>5, EdgesStay
<1>7. CASE Loads(both)
  <2>1. <<new, old>> \in Supersedes(both)
    BY <1>4 DEF Supersedes
  <2>2. <<new, old>>[1] = new
    OBVIOUS
  <2>3. \A v \in versions' \cap objects' : v = new \/ v \in versions \cap objects
    BY <1>2, <1>4, <1>5, <1>7 DEF DeskInv
  <2>4. VersionsLed'
    BY <1>5, <1>6, <1>7, <2>1, <2>2, <2>3 DEF VersionsLed, DeskInv
  <2>5. objects' = both /\ undone' = undone
    BY <1>2, <1>5, <1>7
  <2>6. DeskMends'
    BY <1>7, <2>5 DEF DeskMends
  <2> QED BY <1>2, <1>3, <2>4, <2>5, <2>6 DEF DeskInv
<1>8. CASE ~Loads(both)
  <2>1. objects' = objects \ {new}
    BY <1>5, <1>8
  <2>2. DeskMends'
    <3>1. CASE new \in objects
      <4>1. new \in undone' /\ objects' \cup {new} = objects \cup {new}
        BY <1>2, <2>1, <3>1
      <4> QED BY <1>2, <4>1 DEF DeskMends
    <3>2. CASE new \notin objects
      <4>1. objects' = objects /\ undone' = undone
        BY <1>2, <2>1, <3>2
      <4> QED BY <4>1 DEF DeskMends, DeskInv
    <3> QED BY <3>1, <3>2
  <2>3. VersionsLed'
    BY <1>2, <1>6, <2>1 DEF VersionsLed, DeskInv
  <2>4. ASSUME NEW o \in objects \ objects'
        PROVE  \E e \in Supersedes(objects) : e[2] = o
    <3>1. o = new /\ new \in objects /\ objects \cup {new} = objects
      BY <2>1, <2>4
    <3> QED BY <1>2, <1>8, <3>1, RefusedIsSuperseded DEF DeskInv, edge
  <2>5. undone' \subseteq undone \cup {new}
    BY <1>2, <2>1
  <2> QED BY <1>2, <1>3, <2>2, <2>3, <2>4, <2>5 DEF DeskInv
<1> QED BY <1>7, <1>8

\* The other commands that write objects only add: what loads, and no
\* version without its edge.
LEMMA AddStep ==
    ASSUME DeskInv, NEW p \in Proc, Writing(p), ~Revise(p)
    PROVE  /\ DeskMends'
           /\ \A v \in versions' \cup undone' : v.type \in {"prose", "doc"}
           /\ VersionsLed'
           /\ objects \subseteq objects'
<1>1. /\ undone' = undone
      /\ objects \subseteq objects' /\ Loads(objects') /\ versions' \subseteq versions
      /\ \A o \in objects' \ objects : o.type \in {"prose", "doc"} => o \notin versions'
  <2>1. CASE Compose(p)
    BY <2>1 DEF Compose, CheckQuantities
  <2>2. CASE StoreDocument(p)
    BY <2>2 DEF StoreDocument, OfferThenStore
  <2>3. CASE Relate(p)
    BY <2>3 DEF Relate, OfferThenStore, Relation
  <2>4. CASE Annotate(p)
    BY <2>4 DEF Annotate, OfferThenStore, Verdict
  <2>5. CASE Delegate(p)
    BY <2>5 DEF Delegate, OfferThenStore, Delegation
  <2>6. CASE ReviseCutShort(p)
    BY <2>6 DEF ReviseCutShort, OfferThenStore
  <2> QED BY <2>1, <2>2, <2>3, <2>4, <2>5, <2>6 DEF Writing
<1>2. Supersedes(objects) \subseteq Supersedes(objects')
  BY <1>1 DEF Supersedes
<1>3. \A v \in versions' \cap objects' : v \in versions \cap objects
  BY <1>1 DEF DeskInv
<1>4. VersionsLed'
  BY <1>2, <1>3 DEF VersionsLed, DeskInv
<1> QED BY <1>1, <1>4 DEF DeskMends, DeskInv


\* Every step keeps them.
LEMMA DeskStep ==
    ASSUME DeskInv, DeskNext
    PROVE  DeskInv'
<1>1. ASSUME NEW p \in Proc, Step(p), UNCHANGED desk PROVE DeskInv'
  <2>1. KeysSound' /\ ObjectsSound'
    BY <1>1, KeysStep, ObjectsStep DEF DeskInv, ObjectsSound
  <2>2. /\ objects \subseteq objects'
        /\ \A o \in objects' \ objects :
              /\ o.type \in {"key", "sig"}
              /\ o.type = "sig" /\ o.purpose = "rotates" => o.with = o.by
    BY <1>1, KeyPuts DEF DeskInv, ObjectsSound
  <2>3. DeskMends'
    <3>1. \A a \in objects : a.type = "annotation" => a.to.type \in {"prose", "doc"}
      BY DEF DeskInv, ObjectsSound
    <3>2. CASE Loads(objects)
      BY <2>2, <3>1, <3>2, LoadsWith DEF DeskMends
    <3>3. ASSUME NEW o \in undone, Loads(objects \cup {o}) PROVE DeskMends'
      <4>1. o.type \in {"prose", "doc"} /\ o \in undone'
        BY <1>1 DEF DeskInv, desk
      <4> DEFINE S == objects \cup {o}
                 T == objects' \cup {o}
      <4>2. /\ S \subseteq T /\ Loads(S)
            /\ \A x \in T \ S : x.type \in {"key", "sig"}
            /\ \A a \in S : a.type = "annotation" => a.to.type \in {"prose", "doc"}
        BY <2>2, <3>1, <3>3, <4>1
      <4> HIDE DEF S, T
      <4>3. Loads(T)
        BY <4>2, LoadsWith
      <4> QED BY <4>1, <4>3 DEF DeskMends, T
    <3> QED BY <3>2, <3>3 DEF DeskInv, DeskMends
  <2>4. Supersedes(objects) \subseteq Supersedes(objects')
    BY <2>2 DEF Supersedes
  <2>5. \A v \in versions' \cap objects' : v \in versions \cap objects
    BY <1>1, <2>2 DEF DeskInv, desk
  <2>6. VersionsLed'
    BY <2>4, <2>5 DEF VersionsLed, DeskInv
  <2>7. RotationsVerify'
    BY <2>2 DEF RotationsVerify, DeskInv
  <2> QED BY <1>1, <2>1, <2>3, <2>6, <2>7 DEF DeskInv, desk
<1>2. ASSUME NEW p \in Proc, Writing(p) PROVE DeskInv'
  <2>1. KeysSound' /\ ObjectsSound'
    BY <1>2, ObjectsWriting DEF DeskInv
  <2>2. RotationsVerify'
    BY <1>2, WritingLeavesKeys DEF RotationsVerify, DeskInv
  <2>3. CASE Revise(p)
    BY <2>1, <2>2, <2>3, ReviseStep DEF DeskInv
  <2>4. CASE ~Revise(p)
    BY <1>2, <2>1, <2>2, <2>4, AddStep DEF DeskInv
  <2> QED BY <2>3, <2>4
<1> QED BY <1>1, <1>2 DEF DeskNext, Next, Writing

\* A fresh workspace loads.
LEMMA DeskInitSound == DeskInit => DeskInv
<1> SUFFICES ASSUME DeskInit PROVE DeskInv
  OBVIOUS
<1>1. objects = {} /\ versions = {} /\ undone = {}
  BY DEF DeskInit, Init
<1>2. KeysSound
  BY KeysInit
<1>3. ObjectsSound
  <2>1. Generated = {}
    BY <1>1 DEF Generated
  <2> QED BY <1>1, <2>1, FS_EmptySet DEF ObjectsSound, KeysDrawn
<1>4. DeskMends
  <2>1. Supersedes(objects) = {}
    BY <1>1 DEF Supersedes
  <2>2. Acyclic({})
    BY DEF Acyclic
  <2> QED BY <1>1, <2>1, <2>2 DEF DeskMends, Loads
<1> QED BY <1>1, <1>2, <1>3, <1>4 DEF DeskInv, VersionsLed, RotationsVerify

\* Every reachable state of a workspace is sound in this way.
THEOREM DeskInvariance == DeskSpec => []DeskInv
<1>1. DeskInv /\ [DeskNext]_deskVars => DeskInv'
  <2> SUFFICES ASSUME DeskInv, [DeskNext]_deskVars PROVE DeskInv'
    OBVIOUS
  <2>1. CASE DeskNext
    BY <2>1, DeskStep
  <2>2. CASE UNCHANGED deskVars
    BY <2>2 DEF deskVars, desk, vars, budget, files, DeskInv, KeysSound, ProcSound, FileFree,
                Generated, ObjectsSound, KeysDrawn, DeskMends, VersionsLed, RotationsVerify
  <2> QED BY <2>1, <2>2
<1> QED BY <1>1, DeskInitSound, PTL DEF DeskSpec

\* Whatever the commands write, by whichever of them and however they end,
\* what is held still loads, or loads again with one object put back that
\* `revise' took away.
THEOREM WorkspaceMends == DeskSpec => []DeskMends
BY DeskInvariance, PTL DEF DeskInv

----------------------------------------------------------------------------
(* What is never lost.                                                     *)

\* The secret of a key that wrote is kept by the steps of key commands.
LEMMA SecretStep ==
    ASSUME KeysSound, NEW p \in Proc, Step(p), NEW k \in authors, Recoverable(k)
    PROVE  \/ Recoverable(k)'
           \/ k = secret /\ FirstKeyWritten(p)
<1>1. k # None /\ k # Torn
  BY KeysAssumption DEF KeysSound
<1>2. retired \subseteq retired'
  BY DEF Step, Generate, PutKey, WriteKeyFile, SetAuthor, Rotate, PutRotation, Retire, Kept,
         SignTarget, Publish, SignEach, InitAgain, Refused, Crash, files
<1>3. CASE Retire(p)
  <2>1. [key |-> proc[p].old, secret |-> secret] \in retired'
    BY <1>3 DEF Retire, Kept
  <2>2. secret = k => \E r \in retired' : r.secret = k
    BY <2>1
  <2> QED BY <1>2, <2>2 DEF Recoverable
<1>4. CASE proc[p].pc = "file"
  <2>1. secret = None \/ KeyObject(proc[p].new, None) \in objects
    BY <1>4 DEF KeysSound, FileFree
  <2>2. secret' = secret \/ proc'[p].pc # "file"
    <3>1. CASE WriteKeyFile(p)
      BY <3>1 DEF WriteKeyFile, KeysSound
    <3>2. CASE Crash(p)
      BY <3>2 DEF Crash, End, Idle, KeysSound
    <3>3. CASE ~WriteKeyFile(p) /\ ~Crash(p)
      BY <1>4, <3>3 DEF Step, Generate, PutKey, SetAuthor, Rotate, PutRotation, Retire,
                SignTarget, Publish, SignEach, InitAgain, Refused, files
    <3> QED BY <3>1, <3>2, <3>3
  <2> QED BY <1>1, <1>2, <1>4, <2>1, <2>2 DEF Recoverable, FirstKeyWritten
<1>5. CASE ~Retire(p) /\ proc[p].pc # "file"
  <2>1. secret' = secret
    BY <1>5 DEF Step, Generate, PutKey, WriteKeyFile, SetAuthor, Rotate, PutRotation,
                SignTarget, Publish, SignEach, InitAgain, Refused, Crash, files
  <2> QED BY <1>2, <2>1 DEF Recoverable
<1> QED BY <1>3, <1>4, <1>5

\* No command loses a secret the workspace wrote under, but to a first key
\* whose file another command has written since it was looked for, nor an
\* object, but to a `revise' back to an earlier version of its own lineage:
\* wherever any of them dies.
THEOREM NothingIsLost == DeskSpec => NothingLost
<1>1. ASSUME DeskInv, [DeskNext]_deskVars
      PROVE  [\A k \in authors : Recoverable(k) =>
                \/ Recoverable(k)'
                \/ k = secret /\ \E p \in Proc : FirstKeyWritten(p)]_vars
  <2>1. CASE \E p \in Proc : Step(p)
    BY <1>1, <2>1, SecretStep DEF DeskInv
  <2>2. CASE \E p \in Proc : Writing(p)
    <3>1. UNCHANGED <<secret, retired>>
      BY <2>2, WritingLeavesKeys DEF files
    <3> QED BY <3>1 DEF Recoverable
  <2>3. CASE UNCHANGED deskVars
    BY <2>3 DEF deskVars
  <2> QED BY <1>1, <2>1, <2>2, <2>3 DEF DeskNext, Next, Writing
<1>2. ASSUME DeskInv, [DeskNext]_deskVars
      PROVE  [\A o \in objects \ objects' : \E e \in Supersedes(objects) : e[2] = o]_deskVars
  <2>1. CASE \E p \in Proc : Step(p)
    BY <1>2, <2>1, KeyPuts DEF DeskInv, ObjectsSound
  <2>2. CASE \E p \in Proc : Writing(p)
    <3>1. PICK p \in Proc : Writing(p)
      BY <2>2
    <3>2. CASE Revise(p)
      BY <1>2, <3>2, ReviseStep
    <3>3. CASE ~Revise(p)
      BY <1>2, <3>1, <3>3, AddStep
    <3> QED BY <3>2, <3>3
  <2>3. CASE UNCHANGED deskVars
    BY <2>3
  <2> QED BY <1>2, <2>1, <2>2, <2>3 DEF DeskNext, Next, Writing
<1>3. DeskSpec => SecretsKept
  BY <1>1, DeskInvariance, PTL DEF DeskSpec, SecretsKept
<1>4. DeskSpec => OnlyReversionsUndo
  BY <1>2, DeskInvariance, PTL DEF DeskSpec, OnlyReversionsUndo
<1> QED BY <1>3, <1>4 DEF NothingLost


----------------------------------------------------------------------------
(* Which key continues which.                                              *)

\* A key continues itself.
LEMMA ContinuesSelf == ASSUME NEW k PROVE Continues(k, k)
BY DEF Continues

\* A key rotated from another, with both signatures, continues what that did.
LEMMA ContinuesNext ==
    ASSUME NEW k, NEW l \in Key, NEW m \in Key, Continues(k, l), RotatedBy(l, m)
    PROVE  Continues(k, m)
BY DEF Continues

\* What the store gains leaves what continues what.
LEMMA ContinuesStays ==
    ASSUME \A o \in objects : o.type \in {"key", "sig"} => o \in objects'
    PROVE  /\ \A k, l : RotatedBy(k, l) => RotatedBy(k, l)'
           /\ \A k, l : Continues(k, l) => Continues(k, l)'
<1>1. \A k, l : RotatedBy(k, l) => RotatedBy(k, l)'
  BY DEF RotatedBy, KeyObject, Signature
<1>2. ASSUME NEW k, NEW l, Continues(k, l) PROVE Continues(k, l)'
  <2> SUFFICES ASSUME NEW K \in SUBSET Key, k \in K,
                      \A i \in K, j \in Key : RotatedBy(i, j)' => j \in K
               PROVE  l \in K
    BY DEF Continues
  <2> QED BY <1>1, <1>2 DEF Continues
<1> QED BY <1>1, <1>2

\* Once several keys were generated, they stay several.
LEMMA AfreshStays ==
    ASSUME IsFiniteSet(Generated'), Generated \subseteq Generated', Afresh
    PROVE  Afresh'
<1>1. Cardinality(Generated) <= Cardinality(Generated')
      /\ Cardinality(Generated) \in Nat /\ Cardinality(Generated') \in Nat
  BY FS_Subset, FS_CardinalityType
<1>2. (Afresh <=> Cardinality(Generated) > 1) /\ (Afresh' <=> Cardinality(Generated') > 1)
  BY DEF Afresh, Generated
<1> QED BY <1>1, <1>2

\* The key commands keep it so that the key that writes continues all that did.
LEMMA KeyStep ==
    ASSUME KeyInv, NEW p \in Proc, Step(p)
    PROVE  KeyInv'
<1>0. KeysSound /\ ObjectsSound /\ FirstGenerated
  BY DEF KeyInv
<1>1. KeysSound' /\ ObjectsSound'
  BY <1>0, KeysStep, ObjectsStep DEF ObjectsSound
<1>2. /\ objects \subseteq objects' /\ drawn \in Nat
      /\ \A o \in objects' \ objects :
           \/ /\ o.type = "key"
              /\ o.rotates = None => PutKey(p) /\ o = KeyObject(drawn + 1, None)
           \/ o.type = "sig"
  BY <1>0, KeyPuts DEF ObjectsSound
<1>3. Generated \subseteq Generated' /\ IsFiniteSet(Generated')
  BY <1>1, <1>2 DEF Generated, ObjectsSound
<1>4. /\ proc \in [Proc -> {proc[q] : q \in Proc}]
      /\ authors \subseteq Key /\ MaxKeys \in Nat
      /\ ProcSound
      /\ \A q \in Proc : proc[q].pc \in Holding => proc[q].new \in Key
  BY <1>0, KeysAssumption DEF KeysSound, ProcSound, Key
<1>a. ASSUME NEW x, proc' = [proc EXCEPT ![p] = x]
      PROVE  proc'[p] = x /\ \A q \in Proc : q # p => proc'[q] = proc[q]
  BY <1>4, <1>a, OneProc
<1>5. /\ \A k, l : RotatedBy(k, l) => RotatedBy(k, l)'
      /\ \A k, l : Continues(k, l) => Continues(k, l)'
  BY <1>2, ContinuesStays
<1>6. RevisionsCarryOn /\ ~Afresh => RevisionsCarryOn'
  BY <1>2, <1>5 DEF RevisionsCarryOn
<1>7. FirstGenerated'
  <2>1. CASE PutKey(p)
    <3>1. KeyObject(drawn', None) \in Generated'
      BY <2>1 DEF PutKey, Generated, KeyObject
    <3> QED BY <3>1 DEF FirstGenerated
  <2>2. CASE Generated # {}
    BY <1>3, <2>2 DEF FirstGenerated
  <2>3. CASE ~PutKey(p) /\ Generated = {}
    <3>1. authors = {} /\ \A q \in Proc : proc[q].pc \notin Holding
      BY <1>0, <2>3 DEF FirstGenerated, KeysSound, ProcSound, Holding
    <3> QED BY <1>a, <2>3, <3>1
            DEF FirstGenerated, Holding, Idle, Step, Generate, WriteKeyFile, SetAuthor, Rotate,
                PutRotation, Retire, SignTarget, Publish, SignEach, InitAgain, Refused, Crash,
                End
  <2> QED BY <2>1, <2>2, <2>3
<1>8. SUFFICES ASSUME ~Afresh' PROVE LatestContinues' /\ NextContinues' /\ RevisionsCarryOn'
  BY <1>1, <1>7 DEF KeyInv
<1>9. ~Afresh /\ LatestContinues /\ NextContinues /\ RevisionsCarryOn
  BY <1>3, <1>8, AfreshStays DEF KeyInv
<1>10. RevisionsCarryOn'
  BY <1>6, <1>9
\* A step that neither moves a command on its way to `author' nor changes who
\* wrote keeps the rest.
<1>b. ASSUME NEW x, x.pc \notin Holding, proc' = [proc EXCEPT ![p] = x],
             UNCHANGED authors, retired \subseteq retired', author' \in Key => author' = author
      PROVE  LatestContinues' /\ NextContinues'
  <2>1. \A k : Retired(k) => Retired(k)'
    BY <1>b DEF Retired
  <2>2. LatestContinues'
    BY <1>5, <1>9, <1>b, <2>1 DEF LatestContinues
  <2>3. NextContinues'
    BY <1>5, <1>9, <1>a, <1>b, <2>1 DEF NextContinues, Holding
  <2> QED BY <2>2, <2>3
<1>11. CASE Generate(p)
  <2>1. PICK x : x = [pc |-> "generate"] /\ proc' = [proc EXCEPT ![p] = x]
    BY <1>11 DEF Generate
  <2> QED BY <1>10, <1>11, <1>b, <2>1 DEF Generate, Holding, files
<1>12. CASE PutKey(p)
  <2>1. PICK x : x = [pc |-> "file", new |-> drawn'] /\ proc' = [proc EXCEPT ![p] = x]
    BY <1>12 DEF PutKey
  <2>2. authors = {}
    <3> SUFFICES ASSUME authors # {} PROVE FALSE
      OBVIOUS
    <3>1. PICK first \in Generated : TRUE
      BY <1>0 DEF FirstGenerated
    <3>2. first \in Generated' /\ KeyObject(drawn + 1, None) \in Generated'
      BY <1>3, <1>12 DEF PutKey, Generated, KeyObject
    <3>3. first.key \in 1..drawn /\ KeyObject(drawn + 1, None).key = drawn + 1
      BY <1>0 DEF ObjectsSound, KeysDrawn, Generated, KeyObject
    <3>4. first # KeyObject(drawn + 1, None)
      BY <1>2, <3>3
    <3>5. Cardinality(Generated') > 1
      BY <1>3, <3>2, <3>4, TwoCount
    <3> QED BY <1>8, <3>5 DEF Afresh, Generated
  <2>3. authors' = {} /\ \A q \in Proc : proc[q].pc # "retire"
    BY <1>4, <1>12, <2>2 DEF PutKey, ProcSound
  <2>4. \A q \in Proc : proc'[q].pc # "retire"
    BY <1>a, <2>1, <2>3
  <2> QED BY <1>10, <2>3, <2>4 DEF LatestContinues, NextContinues
<1>13. CASE WriteKeyFile(p)
  <2>1. PICK x : x = [proc[p] EXCEPT !.pc = "author"] /\ proc' = [proc EXCEPT ![p] = x]
    BY <1>4, <1>13 DEF WriteKeyFile
  <2>2. x = [pc |-> "author", new |-> proc[p].new] /\ proc[p].pc = "file"
    BY <1>4, <1>13, <2>1 DEF WriteKeyFile, ProcSound
  <2>3. UNCHANGED <<authors, author, retired>>
    BY <1>13 DEF WriteKeyFile
  <2>4. LatestContinues'
    BY <1>5, <1>9, <2>3 DEF LatestContinues, Retired
  <2>5. NextContinues'
    BY <1>5, <1>9, <1>a, <2>1, <2>2, <2>3 DEF NextContinues, Retired
  <2> QED BY <1>10, <2>4, <2>5
<1>14. CASE SetAuthor(p)
  <2>0. PICK new : new = proc[p].new
    OBVIOUS
  <2>1. /\ proc[p].pc = "author" /\ holder = p
        /\ author' = new /\ authors' = authors \cup {new}
        /\ proc' = [proc EXCEPT ![p] = Idle] /\ UNCHANGED retired
    BY <1>4, <1>14, <2>0 DEF SetAuthor, End, ProcSound, Holding
  <2>2. \A q \in Proc : proc'[q].pc \notin Holding
    BY <1>4, <1>a, <2>1 DEF ProcSound, Holding, Idle
  <2>3. NextContinues'
    BY <2>2 DEF NextContinues, Holding
  <2>4. \A k \in authors : Continues(k, new) /\ Retired(k)
    BY <1>9, <2>0, <2>1 DEF NextContinues
  <2>5. \A k \in authors' : Continues(k, new)'
    BY <1>5, <2>1, <2>4, ContinuesSelf
  <2>6. LatestContinues'
    <3>1. new \in authors'
      BY <2>1
    <3>2. \A k \in authors' \ {new} : Retired(k)'
      BY <2>1, <2>4 DEF Retired
    <3> QED BY <2>1, <2>5, <3>1, <3>2 DEF LatestContinues
  <2> QED BY <1>10, <2>3, <2>6
<1>15. CASE Rotate(p)
  <2>1. PICK x : x = [pc |-> "rotate", old |-> author, with |-> secret]
                 /\ proc' = [proc EXCEPT ![p] = x]
    BY <1>15 DEF Rotate
  <2> QED BY <1>10, <1>15, <1>b, <2>1 DEF Rotate, Holding, files
<1>16. CASE PutRotation(p)
  <2>0. PICK old, new : old = proc[p].old /\ new = drawn'
    OBVIOUS
  <2>1. PICK x : x = [pc |-> "retire", old |-> old, new |-> new]
                 /\ proc' = [proc EXCEPT ![p] = x]
    BY <1>16, <2>0 DEF PutRotation
  <2>2. proc[p].with = proc[p].old
    BY <1>16 DEF PutRotation, MayRotate
  <2>3. Rotation(old, old, new, 3) \subseteq objects'
    BY <1>16, <2>0, <2>2 DEF PutRotation
  <2>4. RotatedBy(old, new)'
    BY <2>3, RotationWhole
  <2>5. UNCHANGED <<authors, author, retired>>
    BY <1>16 DEF PutRotation, files
  <2>6. LatestContinues'
    BY <1>5, <1>9, <2>5 DEF LatestContinues, Retired
  <2>7. NextContinues'
    BY <1>5, <1>9, <1>a, <2>1, <2>4, <2>5 DEF NextContinues, Retired
  <2> QED BY <1>10, <2>6, <2>7
<1>17. CASE Retire(p)
  <2>0. PICK old, new : old = proc[p].old /\ new = proc[p].new
    OBVIOUS
  <2>1. /\ proc[p].pc = "retire" /\ holder = p /\ ~Retired(old)
        /\ old \in authors /\ new \in Key /\ RotatedBy(old, new)
        /\ UNCHANGED <<authors, author>>
        /\ retired \subseteq retired' /\ [key |-> old, secret |-> secret] \in retired'
    BY <1>4, <1>9, <1>17, <2>0 DEF NextContinues, Retire, Kept, Retired, ProcSound, Holding
  <2>2. PICK x : x = [pc |-> "file", new |-> new] /\ proc' = [proc EXCEPT ![p] = x]
    BY <1>17, <2>0 DEF Retire
  <2>3. PICK last \in authors :
           /\ \A k \in authors : Continues(k, last)
           /\ \A k \in authors \ {last} : Retired(k)
    BY <1>9, <2>1 DEF LatestContinues
  <2>4. last = old
    BY <2>1, <2>3
  <2>5. \A k \in authors : Continues(k, new)
    BY <1>4, <2>1, <2>3, <2>4, ContinuesNext
  <2>6. Retired(old)' /\ \A k : Retired(k) => Retired(k)'
    BY <2>1 DEF Retired
  <2>7. \A q \in Proc : q # p => proc'[q].pc \notin Holding
    BY <1>4, <1>a, <2>1, <2>2 DEF ProcSound
  <2>8. NextContinues'
    <3>1. \A k \in authors' : Continues(k, new)' /\ Retired(k)'
      BY <1>5, <2>1, <2>3, <2>4, <2>5, <2>6
    <3>2. proc'[p].pc = "file" /\ proc'[p].new = new
      BY <1>a, <2>2
    <3>3. \A q \in Proc : proc'[q].pc \in Holding => q = p
      BY <2>7
    <3> QED BY <3>1, <3>2, <3>3 DEF NextContinues, Holding
  <2>9. LatestContinues'
    BY <1>5, <1>9, <2>1, <2>6 DEF LatestContinues
  <2> QED BY <1>10, <2>8, <2>9
<1>c. ASSUME UNCHANGED <<proc, authors, retired>>, author' \in Key => author' = author
      PROVE  LatestContinues' /\ NextContinues'
  BY <1>5, <1>9, <1>c DEF LatestContinues, NextContinues, Retired
<1>18. CASE SignTarget(p)
  BY <1>10, <1>18, <1>c DEF SignTarget, files
<1>19. CASE Publish(p)
  <2>1. PICK x : x = [pc |-> "publish", by |-> author] /\ proc' = [proc EXCEPT ![p] = x]
    BY <1>19 DEF Publish
  <2> QED BY <1>10, <1>19, <1>b, <2>1 DEF Publish, Holding, files
<1>d. Idle.pc \notin Holding /\ None \notin Key /\ Placeholder \notin Key
  BY KeysAssumption DEF Idle, Holding, Key, Placeholder
<1>20. CASE SignEach(p)
  BY <1>10, <1>20, <1>b, <1>d DEF SignEach, End, files
<1>21. CASE InitAgain(p)
  BY <1>10, <1>21, <1>c, <1>d DEF InitAgain
<1>22. CASE Refused(p)
  BY <1>10, <1>22, <1>b, <1>d DEF Refused, End, files
<1>23. CASE Crash(p)
  <2>1. /\ proc' = [proc EXCEPT ![p] = Idle] /\ UNCHANGED <<authors, retired>>
        /\ author' \in {author, None}
    BY <1>23 DEF Crash, End, files
  <2> QED BY <1>10, <1>b, <1>d, <2>1
<1> QED BY <1>11, <1>12, <1>13, <1>14, <1>15, <1>16, <1>17, <1>18, <1>19, <1>20, <1>21, <1>22,
           <1>23 DEF Step

\* A command that writes under the key writes revisions that carry on.
LEMMA KeyWriting ==
    ASSUME KeyInv, NEW p \in Proc, Writing(p)
    PROVE  KeyInv'
<1>0. KeysSound /\ ObjectsSound /\ FirstGenerated
  BY DEF KeyInv
<1>1. KeysSound' /\ ObjectsSound' /\ Generated' = Generated
  BY <1>0, ObjectsWriting
<1>2. /\ UNCHANGED <<files, holder, proc, drawn, authors>>
      /\ \A o : o.type \in {"key", "sig"} => (o \in objects' <=> o \in objects)
  BY WritingLeavesKeys
<1>3. /\ \A k, l : RotatedBy(k, l) => RotatedBy(k, l)'
      /\ \A k, l : Continues(k, l) => Continues(k, l)'
  BY <1>2, ContinuesStays
<1>4. FirstGenerated'
  BY <1>0, <1>1, <1>2 DEF FirstGenerated
<1>5. SUFFICES ASSUME ~Afresh' PROVE LatestContinues' /\ NextContinues' /\ RevisionsCarryOn'
  BY <1>1, <1>4 DEF KeyInv
<1>6. ~Afresh /\ LatestContinues /\ NextContinues /\ RevisionsCarryOn
  BY <1>1, <1>5 DEF KeyInv, Afresh, Generated
<1>7. LatestContinues' /\ NextContinues'
  BY <1>2, <1>3, <1>6 DEF LatestContinues, NextContinues, Retired, files
<1>8. ASSUME NEW r \in objects', r.type = "relation", r.kind = "supersedes",
             {r.by, r.to.by} \subseteq Key
      PROVE  Continues(r.to.by, r.by)'
  <2>1. CASE r \in objects
    BY <1>3, <1>6, <1>8, <2>1 DEF RevisionsCarryOn
  <2>2. CASE r \notin objects
    <3>1. r.by = author /\ r.to \in Named
      BY <1>0, <1>8, <2>2, Written
    <3>2. r.to.by \in authors
      BY <1>0, <1>8, <3>1, NamedIs
    <3>3. PICK last \in authors :
             (\A k \in authors : Continues(k, last)) /\ (author \in Key => author = last)
      BY <1>6, <3>2 DEF LatestContinues
    <3> QED BY <1>3, <1>8, <3>1, <3>2, <3>3
  <2> QED BY <2>1, <2>2
<1> QED BY <1>7, <1>8 DEF RevisionsCarryOn

\* The key that writes continues, in every reachable state, all that wrote
\* before it, as long as one key was generated and the others rotated from it.
THEOREM KeyInvariance == DeskSpec => []KeyInv
<1>1. DeskInit => KeyInv
  <2> SUFFICES ASSUME DeskInit PROVE KeyInv
    OBVIOUS
  <2>1. authors = {} /\ objects = {} /\ \A p \in Proc : proc[p].pc = "idle"
    BY DEF DeskInit, Init, Idle
  <2>2. KeysSound /\ ObjectsSound
    BY DeskInitSound DEF DeskInv
  <2> QED BY <2>1, <2>2
          DEF KeyInv, FirstGenerated, LatestContinues, NextContinues, RevisionsCarryOn
<1>2. KeyInv /\ [DeskNext]_deskVars => KeyInv'
  <2> SUFFICES ASSUME KeyInv, [DeskNext]_deskVars PROVE KeyInv'
    OBVIOUS
  <2>1. CASE DeskNext
    BY <2>1, KeyStep, KeyWriting DEF DeskNext, Next, Writing
  <2>2. CASE UNCHANGED deskVars
    BY <2>2 DEF deskVars, desk, vars, budget, files, KeyInv, KeysSound, ProcSound, FileFree,
                Generated, ObjectsSound, KeysDrawn, FirstGenerated, Afresh, LatestContinues,
                NextContinues, RevisionsCarryOn, Continues, RotatedBy, Retired
  <2> QED BY <2>1, <2>2
<1> QED BY <1>1, <1>2, PTL DEF DeskSpec

\* What `revise' makes reads as a revision, whoever rotated keys in between
\* and wherever that died: the edge is there, each rotation behind it can be
\* checked, and a single generated key leads to whatever key wrote it.
THEOREM RevisionsRead == DeskSpec => []RevisionsLead
<1>1. Afresh => RevisionsCarryOn
  BY DEF RevisionsCarryOn
<1>2. DeskInv /\ KeyInv => RevisionsLead
  BY <1>1 DEF DeskInv, KeyInv, RevisionsLead
<1> QED BY <1>2, DeskInvariance, KeyInvariance, PTL


================================================================================
