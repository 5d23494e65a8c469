--------------------------------- MODULE Keys --------------------------------
(***************************************************************************)
(* A workspace's signing key: porcelain/src/sign.rs.                       *)
(*                                                                         *)
(* The secret is in .publet/signing.key, the key object that states its    *)
(* public half in the store, and `author' in .publet/config says which key *)
(* object this workspace writes as.  Generating, rotating and signing each *)
(* read and write these three one at a time.  Only the store is locked,    *)
(* from where a command opens it to its end, and a command that finds it   *)
(* locked fails; what was read before may be old by then.                  *)
(*                                                                         *)
(* A key is the number of its secret: two secrets never coincide, and a    *)
(* key object states one.                                                  *)
(***************************************************************************)
EXTENDS Naturals, Sequences

CONSTANTS
    Proc,       \* the commands that may run at once
    None,       \* no file, or no line in it
    Torn,       \* a key file cut short
    MaxKeys,    \* how many secrets are drawn
    MaxInits,   \* how often `pub init' is run again
    MaxCrashes  \* how often a process dies

ASSUME KeysAssumption ==
    /\ {MaxKeys, MaxInits, MaxCrashes} \subseteq Nat
    /\ None \notin Proc \cup Nat /\ Torn \notin Nat

Key == 1..MaxKeys

\* `pub init' seeds `author' with an identifier no key backs.
Placeholder == 0

VARIABLES
    secret,     \* .publet/signing.key
    retired,    \* .publet/retired/: the key and the secret kept under its name
    author,     \* `author' in .publet/config
    objects,    \* the store: keys and signatures
    holder,     \* who has the store open
    proc,       \* the commands
    drawn,      \* how many secrets there have been
    authors,    \* history: every key `author' has named
    inits, crashes

vars == <<secret, retired, author, objects, holder, proc, drawn, authors, inits, crashes>>
budget == <<inits, crashes>>
files == <<secret, retired, author>>

Idle == [pc |-> "idle"]

KeyObject(k, rotates) == [type |-> "key", key |-> k, rotates |-> rotates]

\* sig_with: a signature names its author and was made with some secret.
Signature(by, with, purpose, target) ==
    [type |-> "sig", by |-> by, with |-> with, purpose |-> purpose, target |-> target]

Init ==
    /\ secret = None
    /\ retired = {}
    /\ author = Placeholder
    /\ objects = {}
    /\ holder = None
    /\ proc = [p \in Proc |-> Idle]
    /\ drawn = 0
    /\ authors = {}
    /\ inits = 0 /\ crashes = 0

\* A command ends, and with it its hold on the store.
End(p) ==
    /\ proc' = [proc EXCEPT ![p] = Idle]
    /\ holder' = IF holder = p THEN None ELSE holder

\* read_key_file: a file that is not whole is malformed.
Held(k) == k \in Key

----------------------------------------------------------------------------
(* pub sign --generate-key                                                 *)

\* It will not overwrite a key file.
Generate(p) ==
    /\ proc[p] = Idle
    /\ secret = None
    /\ proc' = [proc EXCEPT ![p] = [pc |-> "generate"]]
    /\ UNCHANGED <<files, objects, holder, drawn, authors, budget>>

\* A new secret is drawn, the store opened and the key object put.
PutKey(p) ==
    /\ proc[p].pc = "generate"
    /\ holder = None /\ holder' = p
    /\ drawn < MaxKeys /\ drawn' = drawn + 1
    /\ objects' = objects \cup {KeyObject(drawn', None)}
    /\ proc' = [proc EXCEPT ![p] = [pc |-> "file", new |-> drawn']]
    /\ UNCHANGED <<files, authors, budget>>

WriteKeyFile(p) ==
    /\ proc[p].pc = "file"
    /\ secret' = proc[p].new
    /\ proc' = [proc EXCEPT ![p].pc = "author"]
    /\ UNCHANGED <<retired, author, objects, holder, drawn, authors, budget>>

SetAuthor(p) ==
    /\ proc[p].pc = "author"
    /\ author' = proc[p].new
    /\ authors' = authors \cup {author'}
    /\ End(p)
    /\ UNCHANGED <<secret, retired, objects, drawn, budget>>

----------------------------------------------------------------------------
(* pub sign --rotate                                                       *)

\* The secret and the author are read before the store is opened.
Rotate(p) ==
    /\ proc[p] = Idle
    /\ Held(secret) /\ author # None
    /\ proc' = [proc EXCEPT ![p] = [pc |-> "rotate", old |-> author, with |-> secret]]
    /\ UNCHANGED <<files, objects, holder, drawn, authors, budget>>

\* Mutant: the secret is not compared with what the key object states.
MayRotateUnchecked(old, with) == \E o \in objects : o.type = "key" /\ o.key = old

\* The current key's object is held and states the public half of the secret.
MayRotate(old, with) ==
    \E o \in objects : o.type = "key" /\ o.key = old /\ o.key = with

\* Mutant: the old key does not sign the new one.
RotationOneSided(old, with, new, n) ==
    LET puts == << KeyObject(new, old), Signature(new, new, "rotates", new) >>
    IN  {puts[i] : i \in 1..(IF n > 2 THEN 2 ELSE n)}

\* The new key's object and then the signatures of both keys on it, as far
\* as the first `n' puts got.
Rotation(old, with, new, n) ==
    LET puts == << KeyObject(new, old),
                   Signature(new, new, "rotates", new),
                   Signature(old, with, "rotates", new) >>
    IN  {puts[i] : i \in 1..n}

PutRotation(p) ==
    /\ proc[p].pc = "rotate"
    /\ holder = None /\ holder' = p
    /\ MayRotate(proc[p].old, proc[p].with)
    /\ drawn < MaxKeys /\ drawn' = drawn + 1
    /\ objects' = objects \cup Rotation(proc[p].old, proc[p].with, drawn', 3)
    /\ proc' = [proc EXCEPT ![p] = [pc |-> "retire", old |-> proc[p].old, new |-> drawn']]
    /\ UNCHANGED <<files, authors, budget>>

\* Mutant: the old secret is not kept.
KeptNothing(old) == retired

\* The old secret is kept under the old key's name.
Kept(old) == retired \cup {[key |-> old, secret |-> secret]}

\* The old key file is renamed, unless one is kept under that name already.
Retire(p) ==
    /\ proc[p].pc = "retire"
    /\ \A r \in retired : r.key # proc[p].old
    /\ secret # None
    /\ retired' = Kept(proc[p].old)
    /\ secret' = None
    /\ proc' = [proc EXCEPT ![p] = [pc |-> "file", new |-> proc[p].new]]
    /\ UNCHANGED <<author, objects, holder, drawn, authors, budget>>

----------------------------------------------------------------------------
(* Signing                                                                 *)

\* sign_target: the store is open before anything is read.
SignTarget(p) ==
    /\ proc[p] = Idle
    /\ holder = None
    /\ author # None /\ Held(secret)
    /\ objects' = objects \cup {Signature(author, secret, "authored", None)}
    /\ UNCHANGED <<files, holder, proc, drawn, authors, budget>>

\* Session::open: the author is read first, then the store is opened.
Publish(p) ==
    /\ proc[p] = Idle
    /\ author # None
    /\ proc' = [proc EXCEPT ![p] = [pc |-> "publish", by |-> author]]
    /\ UNCHANGED <<files, objects, holder, drawn, authors, budget>>

\* sign_each: the key file is read as each signature is made.
SignEach(p) ==
    /\ proc[p].pc = "publish"
    /\ holder = None
    /\ Held(secret)
    /\ objects' = objects \cup {Signature(proc[p].by, secret, "authored", None)}
    /\ End(p)
    /\ UNCHANGED <<files, drawn, authors, budget>>

----------------------------------------------------------------------------

\* A command that finds the store locked, no key, another key's secret or a
\* kept file under the old key's name fails.
Refused(p) ==
    /\ \/ proc[p].pc \in {"generate", "rotate", "publish"} /\ holder # None
       \/ proc[p].pc = "rotate" /\ ~MayRotate(proc[p].old, proc[p].with)
       \/ proc[p].pc = "publish" /\ ~Held(secret)
       \/ /\ proc[p].pc = "retire"
          /\ secret = None \/ \E r \in retired : r.key = proc[p].old
    /\ End(p)
    /\ UNCHANGED <<files, objects, drawn, authors, budget>>

\* A process dies: between two steps, among the puts of one, or while it
\* writes a file, which is then cut short.
Crash(p) ==
    /\ proc[p] # Idle
    /\ crashes < MaxCrashes /\ crashes' = crashes + 1
    /\ End(p)
    /\ \/ UNCHANGED <<files, objects, drawn>>
       \/ /\ proc[p].pc = "file" /\ secret' = Torn
          /\ UNCHANGED <<retired, author, objects, drawn>>
       \/ /\ proc[p].pc = "author" /\ author' = None
          /\ UNCHANGED <<secret, retired, objects, drawn>>
       \/ /\ proc[p].pc = "rotate" /\ holder = None
          /\ MayRotate(proc[p].old, proc[p].with)
          /\ drawn < MaxKeys /\ drawn' = drawn + 1
          /\ \E n \in 1..3 : objects' =
                objects \cup Rotation(proc[p].old, proc[p].with, drawn', n)
          /\ UNCHANGED files
    /\ UNCHANGED <<authors, inits>>

\* `pub init' in a workspace that is there already: `author' names another
\* placeholder, and the key file stays.
InitAgain(p) ==
    /\ proc[p] = Idle
    /\ holder = None
    /\ inits < MaxInits /\ inits' = inits + 1
    /\ author' = Placeholder
    /\ UNCHANGED <<secret, retired, objects, holder, proc, drawn, authors, crashes>>

Step(p) ==
    \/ Generate(p) \/ PutKey(p) \/ WriteKeyFile(p) \/ SetAuthor(p)
    \/ Rotate(p) \/ PutRotation(p) \/ Retire(p)
    \/ SignTarget(p) \/ Publish(p) \/ SignEach(p)
    \/ InitAgain(p) \/ Refused(p) \/ Crash(p)

Next == \E p \in Proc : Step(p)

Spec == Init /\ [][Next]_vars

----------------------------------------------------------------------------
(* Properties.                                                             *)

\* The key file holds k's secret, or retired/ does.
Recoverable(k) == secret = k \/ \E r \in retired : r.secret = k

\* `p' writes the key file of a generated key: it was not there when p looked,
\* before it had the store open.
FirstKeyWritten(p) ==
    /\ proc[p].pc = "file" /\ proc'[p].pc # "file"
    /\ KeyObject(proc[p].new, None) \in objects

\* No secret this workspace ever wrote as is lost, wherever a command dies and
\* whatever runs beside it, in any step but one: a `--generate-key' writes its
\* key over the file that another command, generating or in the middle of a
\* rotation, has written since it found none.
SecretsKept ==
    [][\A k \in authors : Recoverable(k) =>
         \/ Recoverable(k)'
         \/ k = secret /\ \E p \in Proc : FirstKeyWritten(p)
      ]_vars

\* The secret of every key this workspace wrote as is at hand: a generated key
\* "will not overwrite a signing key" (sign.rs:119).
SecretsAtHand == \A k \in authors : Recoverable(k)

\* A rotation is signed by the key it rotates with that key's own secret,
\* whatever crashed or ran beside it: a reader can check the continuity.
RotationsVerify ==
    \A s \in objects : s.type = "sig" /\ s.purpose = "rotates" => s.with = s.by

\* Every signature can be checked: it was made with the secret of the key
\* it names as its author.
SignaturesVerify == \A s \in objects : s.type = "sig" => s.with = s.by

=============================================================================
