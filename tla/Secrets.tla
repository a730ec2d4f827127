------------------------------ MODULE Secrets ------------------------------
(***************************************************************************)
(* config.LoadAutoEncrypt and `cms-ha secrets`: every command first        *)
(* encrypts the plaintext secrets of config.yaml in place, under an        *)
(* identity it creates or migrates when there is none, then decrypts them. *)
(*                                                                         *)
(* Commands run concurrently and may be killed between any two system      *)
(* calls.  A file is an inode, so that two processes that open the one     *)
(* temporary name, config.yaml.tmp, are seen to share it.                  *)
(***************************************************************************)
EXTENDS Naturals, FiniteSets

CONSTANTS
  Procs,    \* the commands that may run at the same time
  Fields,   \* the secret fields of the configuration
  Keys,     \* age identities
  OldKey,   \* the identity in a project-local private.key, if there is one
  OtherKey, \* the one another project left in ~/.config/cms-ha/age.key
  MaxFaults \* bound on kills and failing writes

ASSUME ProcsAssumption == IsFiniteSet(Procs)
ASSUME KeysAssumption == {OldKey, OtherKey} \subseteq Keys
ASSUME NoKeyAssumption == Keys \cap {"none", "torn", "plain", "lost"} = {}
ASSUME SecretsFaultsAssumption == MaxFaults \in Nat

Inodes == 0..Cardinality(Procs) + 1

VARIABLES
  age,     \* ~/.config/cms-ha/age.key: "none", "torn" (truncated) or an identity
  legacy,  \* ~/.config/cms-ha/legacy.age.key
  private, \* private.key in the project
  public,  \* public.key beside it, which no migration removes
  content, \* the document in each inode: per field "plain", "lost" or a key
  config,  \* the inode of config.yaml
  tmp,     \* the inodes that config.yaml.tmp names: at most one
  proc,    \* the running commands
  fresh,   \* identities not generated yet
  overlap, \* two commands have run at the same time
  halved,  \* generate-key died between its two files
  faults

pair == <<public, halved>>
vars == <<age, legacy, private, pair, content, config, tmp, proc, fresh, overlap,
          faults>>
keyFiles == <<age, legacy, private, pair>>

Files == Keys \cup {"none", "torn"}
Docs == [Fields -> Keys \cup {"plain", "lost"}]
Lost == [f \in Fields |-> "lost"]

\* A command: its step, the identity it works with, the step that follows a
\* migration, the document it is about to write and the file it has open.
Idle == [pc |-> "idle", key |-> "none", file |-> "age", then |-> "decrypt",
         doc |-> Lost, fd |-> 0, ok |-> FALSE]

Steps == {"idle", "load", "fallback", "identity", "create", "store", "migrate",
          "move", "remove", "encrypt", "open", "write", "rename", "decrypt"}

TypeOK ==
  /\ {age, legacy, private, public} \subseteq Files
  /\ content \in [Inodes -> Docs]
  /\ config \in Inodes /\ tmp \subseteq Inodes \ {config} /\ Cardinality(tmp) < 2
  /\ proc \in [Procs -> [pc : Steps, key : Files, file : {"age", "legacy"},
                         then : {"encrypt", "decrypt"}, doc : Docs, fd : Inodes, ok : BOOLEAN]]
  /\ fresh \subseteq Keys /\ {overlap, halved} \subseteq BOOLEAN
  /\ faults \in 0..MaxFaults

\* A new installation; or one of an older release, whose private.key may have
\* encrypted some fields, on a machine that may have another project's key.
Init ==
  /\ age \in {"none", OtherKey}
  /\ private \in {"none", OldKey} /\ public = private /\ halved = FALSE
  /\ legacy = "none"
  /\ \E doc \in [Fields -> {"plain", private} \ {"none"}] :
       content = [i \in Inodes |-> IF i = 0 THEN doc ELSE Lost]
  /\ config = 0 /\ tmp = {}
  /\ proc = [p \in Procs |-> Idle]
  /\ fresh = Keys \ {OldKey, OtherKey}
  /\ overlap = FALSE /\ faults = 0

(***************************************************************************)
(* Control.                                                                *)
(***************************************************************************)
At(p, s) == proc[p].pc = s
Goto(p, s) == proc' = [proc EXCEPT ![p].pc = s]
GotoWith(p, s, key) == proc' = [proc EXCEPT ![p].pc = s, ![p].key = key]
Return(p, ok) == proc' = [proc EXCEPT ![p] = [Idle EXCEPT !.ok = ok]]
Migrate(p, key, then) ==
  proc' = [proc EXCEPT ![p].pc = "migrate", ![p].key = key, ![p].then = then]
Fault == faults < MaxFaults /\ faults' = faults + 1
Nobody == \A p \in Procs : At(p, "idle")
OnlyReads == UNCHANGED <<keyFiles, content, config, tmp, fresh, overlap, faults>>

Doc == content[config]
HasPlaintext == \E f \in Fields : Doc[f] = "plain"

\* LoadWithKey: one identity for all fields, read only if one is encrypted; a
\* truncated document does not pass Validate.
Loads(key) == \A f \in Fields : Doc[f] \in {key, "plain"}

\* The identity Load takes by default.
DefaultKey == IF age # "none" THEN age ELSE private

\* A legacy identity is migrated by one command at a time: see README.
Begin(p) ==
  /\ At(p, "idle") /\ (private # "none" => Nobody)
  /\ Goto(p, IF HasPlaintext THEN "identity" ELSE "load")
  /\ overlap' = (overlap \/ ~Nobody)
  /\ UNCHANGED <<keyFiles, content, config, tmp, fresh, faults>>

(***************************************************************************)
(* A configuration without plaintext.                                      *)
(***************************************************************************)
LoadEncrypted(p) ==
  /\ At(p, "load")
  /\ IF ~Loads(DefaultKey) THEN Goto(p, "fallback")
     ELSE IF age = "none" /\ private # "none" THEN Migrate(p, private, "decrypt")
     ELSE Return(p, TRUE)
  /\ OnlyReads

Fallback(p) ==
  /\ At(p, "fallback")
  /\ CASE legacy # "none" /\ Loads(legacy) -> Return(p, TRUE)
       [] (legacy = "none" \/ ~Loads(legacy)) /\ private # "none" /\ Loads(private) ->
            Migrate(p, private, "decrypt")
       [] OTHER -> Return(p, FALSE)
  /\ OnlyReads

(***************************************************************************)
(* ensureAgeKeyPair: read the identity, migrate an old one, or create one. *)
(***************************************************************************)
ReadIdentity(p) ==
  /\ At(p, "identity")
  /\ CASE age \in Keys -> GotoWith(p, "encrypt", age)
       [] age = "torn" -> Return(p, FALSE)
       [] age = "none" /\ private = "none" -> Goto(p, "create")
       [] OTHER -> Migrate(p, private, "encrypt")
  /\ OnlyReads

\* Mutant: no O_EXCL, the second process truncates the first one's identity.
CreateShared(p) ==
  /\ At(p, "create")
  /\ age' = "torn"
  /\ \E k \in fresh : fresh' = fresh \ {k} /\ GotoWith(p, "store", k)
  /\ UNCHANGED <<legacy, private, pair, content, config, tmp, faults, overlap>>

\* O_EXCL; who loses the race adopts the identity it finds, if it is whole.
CreateIdentity(p) ==
  /\ At(p, "create")
  /\ IF age = "none"
     THEN /\ age' = "torn"
          /\ \E k \in fresh : fresh' = fresh \ {k} /\ GotoWith(p, "store", k)
     ELSE /\ UNCHANGED <<age, fresh>>
          /\ IF age = "torn" THEN Return(p, FALSE) ELSE GotoWith(p, "encrypt", age)
  /\ UNCHANGED <<legacy, private, pair, content, config, tmp, faults, overlap>>

StoreIdentity(p) ==
  /\ At(p, "store")
  /\ \/ age' = proc[p].key /\ Goto(p, "encrypt") /\ UNCHANGED faults
     \/ Fault /\ Return(p, FALSE) /\ UNCHANGED age
  /\ UNCHANGED <<legacy, private, pair, content, config, tmp, fresh, overlap>>

(***************************************************************************)
(* migrateLegacyIdentity: private.key becomes age.key, or legacy.age.key   *)
(* when another identity is in use.                                        *)
(***************************************************************************)
Target(key) == IF age \in {"none", key} THEN "age" ELSE "legacy"
Write(file, value) ==
  /\ age' = IF file = "age" THEN value ELSE age
  /\ legacy' = IF file = "legacy" THEN value ELSE legacy

\* Mutant: the old file is removed before its copy is complete.
MigrateByRemoving(p) ==
  /\ At(p, "migrate")
  /\ LET file == Target(proc[p].key)
     IN /\ Write(file, "torn")
        /\ proc' = [proc EXCEPT ![p].pc = "move", ![p].file = file]
  /\ private' = "none"
  /\ UNCHANGED <<pair, content, config, tmp, fresh, faults, overlap>>

\* Mutant: whatever age.key holds is overwritten.
MigrateOver(p) ==
  /\ At(p, "migrate")
  /\ Write("age", "torn")
  /\ proc' = [proc EXCEPT ![p].pc = "move", ![p].file = "age"]
  /\ UNCHANGED <<private, pair, content, config, tmp, fresh, faults, overlap>>

MigrateIdentity(p) ==
  /\ At(p, "migrate")
  /\ LET key == proc[p].key
         file == Target(key)
         there == IF file = "age" THEN age ELSE legacy
     IN CASE there = "none" -> /\ Write(file, "torn")
                              /\ proc' = [proc EXCEPT ![p].pc = "move", ![p].file = file]
          [] there = key -> UNCHANGED <<age, legacy>> /\ Goto(p, "remove")
          [] OTHER -> UNCHANGED <<age, legacy>> /\ Return(p, FALSE)
  /\ UNCHANGED <<private, pair, content, config, tmp, fresh, faults, overlap>>

\* The write of the file MigrateIdentity created.
MoveIdentity(p) ==
  /\ At(p, "move")
  /\ \/ Write(proc[p].file, proc[p].key) /\ Goto(p, "remove") /\ UNCHANGED faults
     \/ Fault /\ Return(p, FALSE) /\ UNCHANGED <<age, legacy>>
  /\ UNCHANGED <<private, pair, content, config, tmp, fresh, overlap>>

RemoveLegacy(p) ==
  /\ At(p, "remove")
  /\ private' = "none"
  /\ Goto(p, proc[p].then)
  /\ UNCHANGED <<age, legacy, pair, content, config, tmp, fresh, faults, overlap>>

(***************************************************************************)
(* EncryptConfig.                                                          *)
(***************************************************************************)
Encrypted(doc, key) ==
  [f \in Fields |-> IF doc[f] = "plain" THEN key ELSE doc[f]]

ReadConfig(p) ==
  /\ At(p, "encrypt")
  /\ proc' = [proc EXCEPT ![p].pc = "open", ![p].doc = Encrypted(Doc, proc[p].key)]
  /\ OnlyReads

\* Mutant: the configuration is written in place.
OpenInPlace(p) ==
  /\ At(p, "open")
  /\ content' = [content EXCEPT ![config] = Lost]
  /\ proc' = [proc EXCEPT ![p].pc = "write", ![p].fd = config]
  /\ UNCHANGED <<keyFiles, config, tmp, fresh, faults, overlap>>

\* O_TRUNC: empties the file another command may have just written.
OpenTmp(p) ==
  /\ At(p, "open")
  /\ \E i \in IF tmp # {} THEN tmp
             ELSE Inodes \ ({config} \cup {proc[q].fd : q \in Procs}) :
       /\ tmp' = {i}
       /\ content' = [content EXCEPT ![i] = Lost]
       /\ proc' = [proc EXCEPT ![p].pc = "write", ![p].fd = i]
  /\ UNCHANGED <<keyFiles, config, fresh, faults, overlap>>

\* The write and its fsync; on an error the temporary name is removed.
WriteTmp(p) ==
  /\ At(p, "write")
  /\ \/ /\ content' = [content EXCEPT ![proc[p].fd] = proc[p].doc]
        /\ Goto(p, "rename") /\ UNCHANGED <<tmp, faults>>
     \/ Fault /\ tmp' = {} /\ Return(p, FALSE) /\ UNCHANGED content
  /\ UNCHANGED <<keyFiles, config, fresh, overlap>>

\* Mutant: the temporary name stays, as after a link.
RenameKeeps(p) ==
  /\ At(p, "rename")
  /\ tmp # {} /\ config' \in tmp /\ Goto(p, "decrypt")
  /\ UNCHANGED <<keyFiles, content, tmp, fresh, faults, overlap>>

\* An inode that has no name and that nobody has open is gone.
RenameTmp(p) ==
  /\ At(p, "rename")
  /\ IF tmp = {} THEN Return(p, FALSE) /\ UNCHANGED config
     ELSE config' \in tmp /\ Goto(p, "decrypt")
  /\ tmp' = {}
  /\ content' = [i \in Inodes |-> IF i = config' \/ \E q \in Procs : proc[q].fd = i
                                THEN content[i] ELSE Lost]
  /\ UNCHANGED <<keyFiles, fresh, faults, overlap>>

\* The final LoadWithKey.
Decrypt(p) ==
  /\ At(p, "decrypt")
  /\ Return(p, Loads(proc[p].key))
  /\ OnlyReads

(***************************************************************************)
(* The operator.  Between commands secrets are replaced by new plaintext   *)
(* and, with `secrets generate-key`, a project-local identity is made.     *)
(***************************************************************************)
Edit ==
  /\ Nobody
  /\ \E f \in Fields : content' = [content EXCEPT ![config][f] = "plain"]
  /\ UNCHANGED <<keyFiles, config, tmp, proc, fresh, faults, overlap>>

\* public.key is written first; it is not overwritten without --force.
GenerateKey ==
  /\ Nobody /\ private = "none" /\ public = "none"
  /\ \E k \in fresh :
       /\ public' = k /\ fresh' = fresh \ {k}
       /\ \/ private' = k /\ UNCHANGED <<halved, faults>>
          \/ Fault /\ halved' = TRUE /\ UNCHANGED private
  /\ UNCHANGED <<age, legacy, content, config, tmp, proc, overlap>>

\* `secrets encrypt`, with the project's public.key.
EncryptSecrets(p) ==
  /\ Nobody /\ public # "none"
  /\ GotoWith(p, "encrypt", public)
  /\ OnlyReads

\* Kill -9, or the machine.
Killed(p) ==
  /\ ~At(p, "idle")
  /\ Fault
  /\ Return(p, FALSE)
  /\ UNCHANGED <<keyFiles, content, config, tmp, fresh, overlap>>

Runs(p) ==
  \/ LoadEncrypted(p) \/ Fallback(p) \/ ReadIdentity(p) \/ CreateIdentity(p)
  \/ StoreIdentity(p) \/ MigrateIdentity(p) \/ MoveIdentity(p)
  \/ RemoveLegacy(p) \/ ReadConfig(p) \/ OpenTmp(p) \/ WriteTmp(p)
  \/ RenameTmp(p) \/ Decrypt(p)

Next ==
  \/ \E p \in Procs : Begin(p) \/ EncryptSecrets(p) \/ Runs(p) \/ Killed(p)
  \/ Edit \/ GenerateKey

Spec == Init /\ [][Next]_vars

(***************************************************************************)
(* Properties.                                                             *)
(***************************************************************************)
\* No secret is encrypted under an identity that no file holds: the identity
\* is on disk before the first use of it and survives every migration.  (A
\* generate-key that dies after public.key leaves one nobody has: see README.)
Stored == {age, legacy, private} \cap Keys
Recoverable ==
  ~halved => \A f \in Fields : Doc[f] \in Keys => Doc[f] \in Stored

\* Commands that start together on a new machine end with one identity, where
\* nobody encrypts with a project's own public.key.
OneIdentity ==
  public = "none" => \A p, q \in Procs :
    At(p, "encrypt") /\ At(q, "encrypt") => proc[p].key = proc[q].key

\* Once nobody writes it the configuration has every secret: after a kill or a
\* failing write of a command that ran alone, and after commands that shared
\* the temporary file but all finished.
Whole == \A f \in Fields : Doc[f] # "lost"
ConfigWhole == Nobody /\ (overlap => faults = 0) => Whole

\* EncryptConfig's comment: "a crash right after the swap cannot leave the
\* configuration encrypted-under-partially-written or truncated".
NeverTruncated == Nobody => Whole

\* An identity that was stored once stays stored until its file is moved.
IdentitiesKept ==
  [][\A k \in Keys : k \in Stored => k \in Stored']_vars

(***************************************************************************)
(* The inductive invariant: who may write which key file, and that every   *)
(* identity in use is on disk.                                             *)
(***************************************************************************)
KeysTyped ==
  /\ {age, legacy} \subseteq Files /\ {private, public} \subseteq Keys \cup {"none"}
  /\ content \in [Inodes -> Docs] /\ config \in Inodes /\ tmp \subseteq Inodes
  /\ proc \in [Procs -> [pc : Steps, key : Files, file : {"age", "legacy"},
                         then : {"encrypt", "decrypt"}, doc : Docs, fd : Inodes, ok : BOOLEAN]]
  /\ fresh \subseteq Keys
  /\ \A p \in Procs : At(p, "encrypt") => proc[p].key \in Keys

\* A project's own identity has one command to itself.
LegacyAlone ==
  private # "none" =>
    \A p, q \in Procs : ~At(p, "idle") /\ ~At(q, "idle") => p = q

\* Who has created age.key and not written it yet is the only one; who migrates
\* works on private.key, and removes it only once its copy is complete.
Creating(p) ==
  At(p, "store") =>
    /\ age = "torn" /\ proc[p].key \in Keys
    /\ \A q \in Procs : At(q, "store") => q = p
Migrating(p) ==
  /\ At(p, "migrate") \/ At(p, "move") \/ At(p, "remove") =>
       private # "none" /\ proc[p].key = private
  /\ At(p, "move") => (IF proc[p].file = "age" THEN age ELSE legacy) = "torn"
  /\ At(p, "remove") => private \in {age, legacy}
WritersApart == \A p \in Procs : Creating(p) /\ Migrating(p)

\* Every identity that some document, some command or public.key names is held
\* by a key file.
DocKeys == {content[i][f] : i \in Inodes, f \in Fields}
             \cup {proc[p].doc[f] : p \in Procs, f \in Fields}
InUse == DocKeys \cup {proc[p].key : p \in {q \in Procs : At(q, "encrypt")}} \cup {public}
UsedStored == ~halved => InUse \cap Keys \subseteq Stored

\* Without a project's own identity there is only age.key.
OnlyAge ==
  public = "none" =>
    /\ private = "none"
    /\ \A p \in Procs : At(p, "encrypt") => age \in Keys /\ proc[p].key = age

SecretsInv == KeysTyped /\ LegacyAlone /\ WritersApart /\ UsedStored /\ OnlyAge

\* Of two commands: the configuration is a whole document, or all of it is lost
\* and the other one is about to write it.  Meanwhile nobody is on the way to
\* reading it for another encryption.
WholeDoc(doc) == \A f \in Fields : doc[f] # "lost"
Writing(i) == \E p \in Procs : At(p, "write") /\ proc[p].fd = i
WillEncrypt(p) ==
  \/ proc[p].pc \in {"identity", "create", "store", "encrypt"}
  \/ proc[p].pc \in {"migrate", "move", "remove"} /\ proc[p].then = "encrypt"
SharedWhole ==
  faults = 0 =>
    /\ \A i \in Inodes : WholeDoc(content[i]) \/ content[i] = Lost
    /\ \A i \in tmp \cup {config} : WholeDoc(content[i]) \/ Writing(i)
    /\ Whole \/ \A p \in Procs : ~WillEncrypt(p)

\* A command that runs alone writes a file of its own.
AloneWhole ==
  ~overlap =>
    /\ Whole
    /\ \A p, q \in Procs : ~At(p, "idle") /\ ~At(q, "idle") => p = q
    /\ \A p \in Procs : At(p, "write") \/ At(p, "rename") => tmp = {proc[p].fd}
    /\ \A p \in Procs : At(p, "rename") => WholeDoc(content[proc[p].fd])

DocsWhole ==
  (overlap => faults = 0) =>
    \A p \in Procs :
      proc[p].pc \in {"open", "write", "rename"} => WholeDoc(proc[p].doc)

WholeInv == DocsWhole /\ SharedWhole /\ AloneWhole

=============================================================================
