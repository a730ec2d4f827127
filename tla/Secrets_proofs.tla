--------------------------- MODULE Secrets_proofs ---------------------------
(***************************************************************************)
(* Identities are never lost and nothing is encrypted under one that is    *)
(* not on disk, for any set of concurrent commands, fields and identities. *)
(* Two commands that share config.yaml.tmp leave the configuration whole.  *)
(***************************************************************************)
EXTENDS Secrets, FiniteSetTheorems, TLAPS

Proc == [pc : Steps, key : Files, file : {"age", "legacy"},
         then : {"encrypt", "decrypt"}, doc : Docs, fd : Inodes, ok : BOOLEAN]

LEMMA InodesFacts == 0 \in Inodes
  BY ProcsAssumption, FS_CardinalityType DEF Inodes

LEMMA IdleTyped == Lost \in Docs /\ \A ok \in BOOLEAN : [Idle EXCEPT !.ok = ok] \in Proc
  <1>1. Lost \in Docs
    BY DEF Lost, Docs
  <1> QED BY <1>1, InodesFacts DEF Idle, Proc, Steps, Files

LEMMA DocTyped == ASSUME KeysTyped PROVE Doc \in Docs
  BY DEF KeysTyped, Doc

\* The private key file and the keys are told apart from the other values.
LEMMA KeysApart == "none" \notin Keys /\ "torn" \notin Keys /\ "plain" \notin Keys /\ "lost" \notin Keys
  BY NoKeyAssumption

LEMMA InitTyped == Init => KeysTyped
  <1> SUFFICES ASSUME Init PROVE KeysTyped
    OBVIOUS
  <1>1. {age, legacy} \subseteq Files /\ {private, public} \subseteq Keys \cup {"none"}
    BY KeysAssumption DEF Init, Files
  <1>2. content \in [Inodes -> Docs]
    <2>1. PICK doc \in [Fields -> {"plain", private} \ {"none"}] :
            content = [i \in Inodes |-> IF i = 0 THEN doc ELSE Lost]
      BY DEF Init
    <2>2. doc \in Docs
      BY <1>1 DEF Docs
    <2> QED BY <2>1, <2>2, IdleTyped
  <1>3. config \in Inodes /\ tmp \subseteq Inodes
    BY InodesFacts DEF Init
  <1>4. proc \in [Procs -> Proc]
    <2>1. Idle \in Proc
      BY IdleTyped, InodesFacts DEF Idle, Proc, Steps, Files
    <2> QED BY <2>1 DEF Init
  <1>5. \A p \in Procs : ~At(p, "encrypt")
    BY DEF Init, At, Idle
  <1> QED BY <1>1, <1>2, <1>3, <1>4, <1>5 DEF KeysTyped, Init, Proc

LEMMA InitInv == Init => SecretsInv
  <1> SUFFICES ASSUME Init PROVE SecretsInv
    OBVIOUS
  <1>1. KeysTyped
    BY InitTyped
  <1>2. \A p \in Procs : At(p, "idle") /\ proc[p].doc = Lost
    BY DEF Init, At, Idle
  <1>3. LegacyAlone /\ WritersApart
    BY <1>2 DEF LegacyAlone, WritersApart, Creating, Migrating, At
  <1>4. UsedStored
    <2> SUFFICES ASSUME NEW k \in InUse, k \in Keys PROVE k \in Stored
      BY DEF UsedStored
    <2>1. PICK doc \in [Fields -> {"plain", private} \ {"none"}] :
            content = [i \in Inodes |-> IF i = 0 THEN doc ELSE Lost]
      BY DEF Init
    <2>2. CASE k \in DocKeys
      <3>1. \A p \in Procs, f \in Fields : proc[p].doc[f] # k
        BY <1>2, KeysApart DEF Lost
      <3>2. PICK i \in Inodes, f \in Fields : content[i][f] = k
        BY <2>2, <3>1 DEF DocKeys
      <3>3. k = private
        BY <3>2, <2>1, KeysApart DEF Lost
      <3> QED BY <3>3 DEF Stored
    <2>3. CASE k = public
      BY <2>3 DEF Init, Stored
    <2>4. ~\E p \in Procs : At(p, "encrypt")
      BY <1>2 DEF At
    <2> QED BY <2>2, <2>3, <2>4 DEF InUse
  <1>5. OnlyAge
    BY <1>2 DEF OnlyAge, Init, At
  <1> QED BY <1>1, <1>3, <1>4, <1>5 DEF SecretsInv

\* How each step leaves the process that takes it.
Kept(p) ==
  /\ proc'[p].file = proc[p].file /\ proc'[p].doc = proc[p].doc /\ proc'[p].fd = proc[p].fd

LEMMA Control ==
  ASSUME KeysTyped, NEW p \in Procs
  PROVE  /\ proc[p].key \in Files /\ proc[p].then \in {"encrypt", "decrypt"}
         /\ \A s \in Steps : Goto(p, s) =>
              /\ proc' \in [Procs -> Proc] /\ Kept(p)
              /\ proc'[p].pc = s /\ proc'[p].key = proc[p].key /\ proc'[p].then = proc[p].then
         /\ \A s \in Steps, k \in Files : GotoWith(p, s, k) =>
              /\ proc' \in [Procs -> Proc] /\ Kept(p)
              /\ proc'[p].pc = s /\ proc'[p].key = k /\ proc'[p].then = proc[p].then
         /\ \A k \in Files, then \in {"encrypt", "decrypt"} : Migrate(p, k, then) =>
              /\ proc' \in [Procs -> Proc] /\ Kept(p)
              /\ proc'[p].pc = "migrate" /\ proc'[p].key = k /\ proc'[p].then = then
         /\ \A ok \in BOOLEAN : Return(p, ok) =>
              proc' \in [Procs -> Proc] /\ proc'[p].pc = "idle" /\ proc'[p].doc = Lost
  <1>1. proc \in [Procs -> Proc]
    BY DEF KeysTyped, Proc
  <1>2. proc[p] \in Proc /\ proc[p].key \in Files /\ proc[p].then \in {"encrypt", "decrypt"}
    BY <1>1 DEF Proc
  <1>3. ASSUME NEW s \in Steps, Goto(p, s)
        PROVE  /\ proc' \in [Procs -> Proc] /\ Kept(p)
               /\ proc'[p].pc = s /\ proc'[p].key = proc[p].key /\ proc'[p].then = proc[p].then
    BY <1>1, <1>2, <1>3 DEF Goto, Proc, Kept
  <1>4. ASSUME NEW s \in Steps, NEW k \in Files, GotoWith(p, s, k)
        PROVE  /\ proc' \in [Procs -> Proc] /\ Kept(p)
               /\ proc'[p].pc = s /\ proc'[p].key = k /\ proc'[p].then = proc[p].then
    <2> DEFINE r == [proc[p] EXCEPT !.pc = s, !.key = k]
    <2>1. r \in Proc /\ r.pc = s /\ r.key = k /\ r.file = proc[p].file /\ r.doc = proc[p].doc
            /\ r.fd = proc[p].fd /\ r.then = proc[p].then
      BY <1>2 DEF Proc
    <2>2. proc' = [proc EXCEPT ![p] = r]
      BY <1>1, <1>4 DEF GotoWith
    <2> QED BY <1>1, <2>1, <2>2 DEF Kept
  <1>5. ASSUME NEW k \in Files, NEW then \in {"encrypt", "decrypt"}, Migrate(p, k, then)
        PROVE  /\ proc' \in [Procs -> Proc] /\ Kept(p)
               /\ proc'[p].pc = "migrate" /\ proc'[p].key = k /\ proc'[p].then = then
    <2> DEFINE r == [proc[p] EXCEPT !.pc = "migrate", !.key = k, !.then = then]
    <2>1. r \in Proc /\ r.pc = "migrate" /\ r.key = k /\ r.file = proc[p].file
            /\ r.doc = proc[p].doc /\ r.fd = proc[p].fd /\ r.then = then
      BY <1>2 DEF Proc, Steps
    <2>2. proc' = [proc EXCEPT ![p] = r]
      BY <1>1, <1>5 DEF Migrate
    <2> QED BY <1>1, <2>1, <2>2 DEF Kept
  <1>6. ASSUME NEW ok \in BOOLEAN, Return(p, ok)
        PROVE  proc' \in [Procs -> Proc] /\ proc'[p].pc = "idle" /\ proc'[p].doc = Lost
    <2> DEFINE idle == [Idle EXCEPT !.ok = ok]
    <2>1. idle \in Proc
      BY IdleTyped
    <2>2. idle.pc = "idle" /\ idle.doc = Lost
      BY DEF Idle
    <2>3. proc' = [proc EXCEPT ![p] = idle]
      BY <1>6 DEF Return
    <2> HIDE DEF idle
    <2> QED BY <1>1, <2>1, <2>2, <2>3
  <1> QED BY <1>2, <1>3, <1>4, <1>5, <1>6

LEMMA ControlFiles ==
  ASSUME KeysTyped, NEW p \in Procs
  PROVE  /\ \A file \in {"age", "legacy"} :
              proc' = [proc EXCEPT ![p].pc = "move", ![p].file = file] =>
                /\ proc' \in [Procs -> Proc] /\ proc'[p].pc = "move" /\ proc'[p].file = file
                /\ proc'[p].key = proc[p].key /\ proc'[p].doc = proc[p].doc
         /\ \A doc \in Docs :
              proc' = [proc EXCEPT ![p].pc = "open", ![p].doc = doc] =>
                proc' \in [Procs -> Proc] /\ proc'[p].pc = "open" /\ proc'[p].doc = doc
         /\ \A i \in Inodes :
              proc' = [proc EXCEPT ![p].pc = "write", ![p].fd = i] =>
                /\ proc' \in [Procs -> Proc] /\ proc'[p].pc = "write"
                /\ proc'[p].doc = proc[p].doc
  <1>1. proc \in [Procs -> Proc] /\ proc[p] \in Proc
    BY DEF KeysTyped, Proc
  <1>2. ASSUME NEW file \in {"age", "legacy"},
               proc' = [proc EXCEPT ![p].pc = "move", ![p].file = file]
        PROVE  /\ proc' \in [Procs -> Proc] /\ proc'[p].pc = "move" /\ proc'[p].file = file
               /\ proc'[p].key = proc[p].key /\ proc'[p].doc = proc[p].doc
    <2> DEFINE r == [proc[p] EXCEPT !.pc = "move", !.file = file]
    <2>1. r \in Proc /\ r.pc = "move" /\ r.file = file /\ r.key = proc[p].key /\ r.doc = proc[p].doc
      BY <1>1 DEF Proc, Steps
    <2>2. proc' = [proc EXCEPT ![p] = r]
      BY <1>1, <1>2
    <2> QED BY <1>1, <2>1, <2>2
  <1>3. ASSUME NEW doc \in Docs, proc' = [proc EXCEPT ![p].pc = "open", ![p].doc = doc]
        PROVE  proc' \in [Procs -> Proc] /\ proc'[p].pc = "open" /\ proc'[p].doc = doc
    <2> DEFINE r == [proc[p] EXCEPT !.pc = "open", !.doc = doc]
    <2>1. r \in Proc /\ r.pc = "open" /\ r.doc = doc
      BY <1>1 DEF Proc, Steps
    <2>2. proc' = [proc EXCEPT ![p] = r]
      BY <1>1, <1>3
    <2> QED BY <1>1, <2>1, <2>2
  <1>4. ASSUME NEW i \in Inodes, proc' = [proc EXCEPT ![p].pc = "write", ![p].fd = i]
        PROVE  proc' \in [Procs -> Proc] /\ proc'[p].pc = "write" /\ proc'[p].doc = proc[p].doc
    <2> DEFINE r == [proc[p] EXCEPT !.pc = "write", !.fd = i]
    <2>1. r \in Proc /\ r.pc = "write" /\ r.doc = proc[p].doc
      BY <1>1 DEF Proc, Steps
    <2>2. proc' = [proc EXCEPT ![p] = r]
      BY <1>1, <1>4
    <2> QED BY <1>1, <2>1, <2>2
  <1> QED BY <1>2, <1>3, <1>4

\* Where the steps that migrate a legacy identity leave the process: none of
\* them goes to encrypt, and none takes up another document.
LEMMA MigrateGoes ==
  ASSUME NEW p \in Procs, MigrateIdentity(p)
  PROVE  \/ \E file \in {"age", "legacy"} : proc' = [proc EXCEPT ![p].pc = "move", ![p].file = file]
         \/ Goto(p, "remove")
         \/ Return(p, FALSE)
  <1>1. Target(proc[p].key) \in {"age", "legacy"}
    BY DEF Target
  <1> QED BY <1>1 DEF MigrateIdentity

LEMMA MigrateLeaves ==
  ASSUME KeysTyped, NEW p \in Procs, MigrateIdentity(p)
  PROVE  /\ proc' \in [Procs -> Proc] /\ proc'[p].pc # "encrypt"
         /\ proc'[p].doc \in {proc[p].doc, Lost}
  <1>1. ASSUME NEW file \in {"age", "legacy"}, proc' = [proc EXCEPT ![p].pc = "move", ![p].file = file]
        PROVE  /\ proc' \in [Procs -> Proc] /\ proc'[p].pc # "encrypt"
               /\ proc'[p].doc \in {proc[p].doc, Lost}
    BY <1>1, ControlFiles
  <1>2. CASE Goto(p, "remove")
    BY <1>2, Control DEF Kept, Steps
  <1>3. CASE Return(p, FALSE)
    BY <1>3, Control
  <1> QED BY <1>1, <1>2, <1>3, MigrateGoes

LEMMA MoveLeaves ==
  ASSUME KeysTyped, NEW p \in Procs, MoveIdentity(p)
  PROVE  /\ proc' \in [Procs -> Proc] /\ proc'[p].pc # "encrypt"
         /\ proc'[p].doc \in {proc[p].doc, Lost}
  <1>1. Goto(p, "remove") \/ Return(p, FALSE)
    BY DEF MoveIdentity
  <1>2. CASE Goto(p, "remove")
    BY <1>2, Control DEF Kept, Steps
  <1>3. CASE Return(p, FALSE)
    BY <1>3, Control
  <1> QED BY <1>1, <1>2, <1>3

\* A step is one process's or the operator's: the other processes do not move.
LEMMA OthersStay ==
  ASSUME NEW p \in Procs,
         Begin(p) \/ EncryptSecrets(p) \/ Runs(p) \/ Killed(p), KeysTyped
  PROVE  \A q \in Procs \ {p} : proc'[q] = proc[q]
  BY DEF KeysTyped, Begin, EncryptSecrets, Runs, Killed, LoadEncrypted, Fallback,
         ReadIdentity, CreateIdentity, StoreIdentity, MigrateIdentity, MoveIdentity,
         RemoveLegacy, ReadConfig, OpenTmp, WriteTmp, RenameTmp, Decrypt, Goto, GotoWith,
         Migrate, Return

LEMMA TypeStep == SecretsInv /\ [Next]_vars => KeysTyped'
  <1> SUFFICES ASSUME SecretsInv, [Next]_vars PROVE KeysTyped'
    OBVIOUS
  <1> USE KeysApart DEF SecretsInv
  <1>1. CASE UNCHANGED vars
    BY <1>1 DEF vars, pair, KeysTyped, At
  <1>2. ASSUME NEW p \in Procs, Begin(p) \/ EncryptSecrets(p) \/ Runs(p) \/ Killed(p),
               proc' \in [Procs -> Proc], At(p, "encrypt")' => proc'[p].key \in Keys
        PROVE  /\ proc' \in [Procs -> [pc : Steps, key : Files, file : {"age", "legacy"},
                         then : {"encrypt", "decrypt"}, doc : Docs, fd : Inodes, ok : BOOLEAN]]
               /\ \A q \in Procs : At(q, "encrypt")' => proc'[q].key \in Keys
    BY <1>2, OthersStay DEF KeysTyped, At, Proc
  <1>3. ASSUME NEW p \in Procs, Begin(p) PROVE KeysTyped'
    <2>1. proc' \in [Procs -> Proc] /\ proc'[p].pc # "encrypt"
      BY <1>3, Control DEF Begin, Steps
    <2> QED BY <1>2, <1>3, <2>1 DEF Begin, KeysTyped, keyFiles, pair, At
  <1>4. ASSUME NEW p \in Procs, EncryptSecrets(p) PROVE KeysTyped'
    <2>1. public \in Files /\ public \in Keys
      BY <1>4 DEF EncryptSecrets, KeysTyped, Files
    <2>2. proc' \in [Procs -> Proc] /\ proc'[p].key \in Keys
      BY <1>4, <2>1, Control DEF EncryptSecrets, Steps, KeysTyped
    <2> QED BY <1>2, <1>4, <2>2 DEF EncryptSecrets, KeysTyped, OnlyReads, keyFiles, pair, At
  <1>5. ASSUME NEW p \in Procs, LoadEncrypted(p) \/ Fallback(p) \/ ReadIdentity(p) \/ Decrypt(p)
        PROVE KeysTyped'
    <2> USE DEF KeysTyped, OnlyReads, keyFiles, pair, Steps, Files, At
    <2>1. UNCHANGED <<keyFiles, content, config, tmp, fresh>>
      BY <1>5 DEF LoadEncrypted, Fallback, ReadIdentity, Decrypt
    <2>2. proc' \in [Procs -> Proc] /\ (At(p, "encrypt")' => proc'[p].key \in Keys)
      <3>1. CASE LoadEncrypted(p)
        BY <3>1, Control DEF LoadEncrypted
      <3>2. CASE Fallback(p)
        BY <3>2, Control DEF Fallback
      <3>3. CASE ReadIdentity(p)
        BY <3>3, Control DEF ReadIdentity
      <3>4. CASE Decrypt(p)
        BY <3>4, Control DEF Decrypt, Loads
      <3> QED BY <1>5, <3>1, <3>2, <3>3, <3>4
    <2> QED BY <1>2, <1>5, <2>1, <2>2 DEF Runs
  <1>6. ASSUME NEW p \in Procs,
               CreateIdentity(p) \/ StoreIdentity(p) \/ MigrateIdentity(p) \/ MoveIdentity(p)
                 \/ RemoveLegacy(p)
        PROVE KeysTyped'
    <2> USE DEF KeysTyped, pair, Steps, Files
    <2>1. CASE CreateIdentity(p)
      <3>1. proc' \in [Procs -> Proc] /\ (At(p, "encrypt")' => proc'[p].key \in Keys)
        BY <2>1, Control DEF CreateIdentity, At
      <3>2. age' \in Files /\ fresh' \subseteq Keys
        BY <2>1 DEF CreateIdentity
      <3> QED BY <1>2, <2>1, <3>1, <3>2 DEF CreateIdentity, Runs
    <2>2. CASE StoreIdentity(p)
      <3>1. proc[p].key \in Keys
        BY <2>2 DEF StoreIdentity, WritersApart, Creating
      <3>2. proc' \in [Procs -> Proc] /\ (At(p, "encrypt")' => proc'[p].key \in Keys)
        BY <2>2, <3>1, Control DEF StoreIdentity, At
      <3>3. age' \in Files
        BY <2>2, <3>1 DEF StoreIdentity
      <3> QED BY <1>2, <2>2, <3>2, <3>3 DEF StoreIdentity, Runs
    <2>3. CASE MigrateIdentity(p)
      <3>1. {age', legacy'} \subseteq Files
        BY <2>3 DEF MigrateIdentity, Target, Write
      <3>2. proc' \in [Procs -> Proc] /\ ~At(p, "encrypt")'
        BY <2>3, MigrateLeaves DEF At
      <3> QED BY <1>2, <2>3, <3>1, <3>2 DEF MigrateIdentity, Runs
    <2>4. CASE MoveIdentity(p)
      <3>1. {age', legacy'} \subseteq {age, legacy, proc[p].key}
        BY <2>4 DEF MoveIdentity, Write
      <3>2. proc[p].key \in Files
        BY Control
      <3>3. {age', legacy'} \subseteq Files
        BY <3>1, <3>2 DEF KeysTyped
      <3>4. proc' \in [Procs -> Proc] /\ ~At(p, "encrypt")'
        BY <2>4, MoveLeaves DEF At
      <3> QED BY <1>2, <2>4, <3>3, <3>4 DEF MoveIdentity, Runs
    <2>5. CASE RemoveLegacy(p)
      <3>1. proc[p].key \in Keys /\ proc[p].then \in Steps
        BY <2>5 DEF RemoveLegacy, WritersApart, Migrating
      <3>2. proc' \in [Procs -> Proc] /\ proc'[p].key \in Keys
        BY <2>5, <3>1, Control DEF RemoveLegacy, At
      <3> QED BY <1>2, <2>5, <3>2 DEF RemoveLegacy, Runs
    <2> QED BY <1>6, <2>1, <2>2, <2>3, <2>4, <2>5
  <1>7. ASSUME NEW p \in Procs, ReadConfig(p) PROVE KeysTyped'
    <2>1. Encrypted(Doc, proc[p].key) \in Docs
      BY <1>7, DocTyped DEF Encrypted, Docs, ReadConfig, KeysTyped
    <2>2. proc' \in [Procs -> Proc] /\ proc'[p].pc # "encrypt"
      BY <1>7, <2>1, ControlFiles DEF ReadConfig
    <2> QED BY <1>2, <1>7, <2>2 DEF ReadConfig, KeysTyped, OnlyReads, keyFiles, pair, At, Runs
  <1>8. ASSUME NEW p \in Procs, OpenTmp(p) PROVE KeysTyped'
    <2>1. PICK i \in Inodes : /\ tmp' = {i} /\ content' = [content EXCEPT ![i] = Lost]
                              /\ proc' = [proc EXCEPT ![p].pc = "write", ![p].fd = i]
      BY <1>8 DEF OpenTmp, KeysTyped
    <2>2. proc' \in [Procs -> Proc] /\ proc'[p].pc # "encrypt"
      BY <2>1, ControlFiles
    <2>3. content' \in [Inodes -> Docs]
      BY <2>1, IdleTyped DEF KeysTyped
    <2> QED BY <1>2, <1>8, <2>1, <2>2, <2>3 DEF OpenTmp, KeysTyped, keyFiles, pair, At, Runs
  <1>9. ASSUME NEW p \in Procs, WriteTmp(p) PROVE KeysTyped'
    <2>1. proc' \in [Procs -> Proc] /\ proc'[p].pc # "encrypt"
      BY <1>9, Control DEF WriteTmp, Steps, KeysTyped
    <2>2. content' \in [Inodes -> Docs]
      BY <1>9 DEF WriteTmp, KeysTyped
    <2> QED BY <1>2, <1>9, <2>1, <2>2 DEF WriteTmp, KeysTyped, keyFiles, pair, At, Runs
  <1>10. ASSUME NEW p \in Procs, RenameTmp(p) PROVE KeysTyped'
    <2>1. proc' \in [Procs -> Proc] /\ proc'[p].pc # "encrypt"
      BY <1>10, Control DEF RenameTmp, Steps, KeysTyped
    <2>2. content' \in [Inodes -> Docs]
      BY <1>10, IdleTyped DEF RenameTmp, KeysTyped
    <2> QED BY <1>2, <1>10, <2>1, <2>2 DEF RenameTmp, KeysTyped, keyFiles, pair, At, Runs
  <1>11. ASSUME NEW p \in Procs, Killed(p) PROVE KeysTyped'
    <2>1. proc' \in [Procs -> Proc] /\ proc'[p].pc # "encrypt"
      BY <1>11, Control DEF Killed
    <2> QED BY <1>2, <1>11, <2>1 DEF Killed, KeysTyped, keyFiles, pair, At
  <1>12. CASE Edit
    <2>1. PICK f \in Fields : content' = [content EXCEPT ![config][f] = "plain"]
      BY <1>12 DEF Edit
    <2>2. content' \in [Inodes -> Docs]
      BY <2>1 DEF KeysTyped, Docs
    <2> QED BY <1>12, <2>2 DEF Edit, KeysTyped, keyFiles, pair, At
  <1>13. CASE GenerateKey
    BY <1>13 DEF GenerateKey, KeysTyped, At
  <1> QED BY <1>1, <1>3, <1>4, <1>5, <1>6, <1>7, <1>8, <1>9, <1>10, <1>11, <1>12, <1>13
          DEF Next, Runs

\* The actions that touch a key file, or where something in use may change.
LEMMA KeyFilesFrame ==
  ASSUME NEW p \in Procs,
         \/ Begin(p) \/ EncryptSecrets(p) \/ LoadEncrypted(p) \/ Fallback(p) \/ ReadIdentity(p)
         \/ ReadConfig(p) \/ OpenTmp(p) \/ WriteTmp(p) \/ RenameTmp(p) \/ Decrypt(p) \/ Killed(p)
  PROVE  UNCHANGED <<age, legacy, private, public, halved>>
  BY DEF Begin, EncryptSecrets, LoadEncrypted, Fallback, ReadIdentity, ReadConfig, OpenTmp,
         WriteTmp, RenameTmp, Decrypt, Killed, OnlyReads, keyFiles, pair

\* An identity that a file holds goes on being held by one.
LEMMA StoredKept == SecretsInv /\ [Next]_vars => Stored \subseteq Stored'
  <1> SUFFICES ASSUME SecretsInv, [Next]_vars PROVE Stored \subseteq Stored'
    OBVIOUS
  <1> USE KeysApart DEF Stored, SecretsInv
  <1>1. CASE UNCHANGED <<age, legacy, private>>
    BY <1>1
  <1>2. ASSUME NEW p \in Procs, CreateIdentity(p) PROVE Stored \subseteq Stored'
    BY <1>2 DEF CreateIdentity
  <1>3. ASSUME NEW p \in Procs, StoreIdentity(p) PROVE Stored \subseteq Stored'
    BY <1>3 DEF StoreIdentity, WritersApart, Creating
  <1>4. ASSUME NEW p \in Procs, MigrateIdentity(p) PROVE Stored \subseteq Stored'
    BY <1>4 DEF MigrateIdentity, Target, Write
  <1>5. ASSUME NEW p \in Procs, MoveIdentity(p) PROVE Stored \subseteq Stored'
    BY <1>5 DEF MoveIdentity, Write, WritersApart, Migrating
  <1>6. ASSUME NEW p \in Procs, RemoveLegacy(p) PROVE Stored \subseteq Stored'
    BY <1>6 DEF RemoveLegacy, WritersApart, Migrating
  <1>7. CASE GenerateKey
    BY <1>7 DEF GenerateKey
  <1>8. CASE Edit \/ UNCHANGED vars
    BY <1>8 DEF Edit, keyFiles, vars
  <1> QED BY <1>1, <1>2, <1>3, <1>4, <1>5, <1>6, <1>7, <1>8, KeyFilesFrame DEF Next, Runs

LEMMA AloneStep == SecretsInv /\ [Next]_vars => LegacyAlone'
  <1> SUFFICES ASSUME SecretsInv, [Next]_vars, private' # "none" PROVE
                 \A p, q \in Procs : ~At(p, "idle")' /\ ~At(q, "idle")' => p = q
    BY DEF LegacyAlone
  <1> USE DEF SecretsInv, At
  <1>1. CASE UNCHANGED vars
    BY <1>1 DEF vars, LegacyAlone
  <1>2. CASE Edit \/ GenerateKey
    BY <1>2 DEF Edit, GenerateKey, Nobody
  <1>3. ASSUME NEW p \in Procs, Begin(p) \/ EncryptSecrets(p) PROVE private # "none" => Nobody
    BY <1>3 DEF Begin, EncryptSecrets
  <1>4. ASSUME NEW p \in Procs, Runs(p) \/ Killed(p) PROVE ~At(p, "idle") /\ private # "none"
    <2>1. CASE Killed(p)
      BY <2>1 DEF Killed, keyFiles
    <2>2. CASE Runs(p)
      BY <2>2 DEF Runs, LoadEncrypted, Fallback, ReadIdentity, CreateIdentity, StoreIdentity,
              MigrateIdentity, MoveIdentity, RemoveLegacy, ReadConfig, OpenTmp, WriteTmp,
              RenameTmp, Decrypt, OnlyReads, keyFiles
    <2> QED BY <1>4, <2>1, <2>2
  <1>5. ASSUME NEW p \in Procs, Begin(p) \/ EncryptSecrets(p) \/ Runs(p) \/ Killed(p)
        PROVE  \A q \in Procs \ {p} : At(q, "idle")'
    <2>1. \A q \in Procs \ {p} : proc'[q] = proc[q]
      BY <1>5, OthersStay
    <2>2. private # "none"
      BY <1>3, <1>4, <1>5 DEF Begin, EncryptSecrets, OnlyReads, keyFiles
    <2>3. CASE Begin(p) \/ EncryptSecrets(p)
      BY <2>1, <2>2, <2>3, <1>3 DEF Nobody
    <2>4. CASE Runs(p) \/ Killed(p)
      BY <2>1, <2>4, <1>4 DEF LegacyAlone
    <2> QED BY <1>5, <2>3, <2>4
  <1> QED BY <1>1, <1>2, <1>5 DEF Next

LEMMA WritersStep == SecretsInv /\ [Next]_vars => WritersApart'
  <1> SUFFICES ASSUME SecretsInv, [Next]_vars PROVE WritersApart'
    OBVIOUS
  <1> USE KeysApart DEF SecretsInv, WritersApart, At
  <1>1. CASE UNCHANGED vars
    BY <1>1 DEF vars, Creating, Migrating
  <1>2. CASE Edit \/ GenerateKey
    BY <1>2 DEF Edit, GenerateKey, Nobody, Creating, Migrating
  \* Nobody else is under way while some process migrates.
  <1>3. ASSUME NEW p \in Procs, Begin(p) \/ EncryptSecrets(p) \/ Runs(p) \/ Killed(p),
               private # "none"
        PROVE  \A q \in Procs \ {p} : At(q, "idle")
    <2>1. CASE Begin(p) \/ EncryptSecrets(p)
      BY <2>1, <1>3 DEF Begin, EncryptSecrets, Nobody
    <2>2. CASE Runs(p) \/ Killed(p)
      <3>1. ~At(p, "idle")
        BY <2>2 DEF Killed, Runs, LoadEncrypted, Fallback, ReadIdentity, CreateIdentity,
                StoreIdentity, MigrateIdentity, MoveIdentity, RemoveLegacy, ReadConfig, OpenTmp,
                WriteTmp, RenameTmp, Decrypt
      <3> QED BY <3>1, <1>3 DEF LegacyAlone
    <2> QED BY <1>3, <2>1, <2>2
  \* What the process that moves owes.
  <1>4. ASSUME NEW p \in Procs, Begin(p) \/ EncryptSecrets(p) \/ Runs(p) \/ Killed(p),
               proc'[p].pc = "store" =>
                 /\ age' = "torn" /\ proc'[p].key \in Keys
                 /\ \A q \in Procs \ {p} : ~At(q, "store"),
               (\E q \in Procs \ {p} : At(q, "store")) => age' = age \/ age' = "torn",
               Migrating(p)'
        PROVE  WritersApart'
    <2>1. \A q \in Procs \ {p} : proc'[q] = proc[q]
      BY <1>4, OthersStay
    <2>2. ASSUME NEW q \in Procs \ {p} PROVE Migrating(q)'
      <3>1. ~At(q, "migrate") /\ ~At(q, "move") /\ ~At(q, "remove")
        BY <1>3, <1>4 DEF Migrating
      <3> QED BY <2>1, <3>1 DEF Migrating
    <2>3. ASSUME NEW q \in Procs PROVE Creating(q)'
      BY <1>4, <2>1 DEF Creating
    <2> QED BY <1>4, <2>2, <2>3
  <1>5. ASSUME NEW p \in Procs, Begin(p) \/ EncryptSecrets(p) PROVE WritersApart'
    <2>1. CASE Begin(p)
      <3>1. proc'[p].pc \in {"identity", "load"}
        BY <2>1, Control DEF Begin, Steps
      <3> QED BY <1>4, <2>1, <3>1 DEF Begin, keyFiles, Migrating
    <2>2. CASE EncryptSecrets(p)
      <3>1. proc'[p].pc = "encrypt"
        BY <2>2, Control DEF EncryptSecrets, Steps, KeysTyped, Files
      <3> QED BY <1>4, <2>2, <3>1 DEF EncryptSecrets, OnlyReads, keyFiles, Migrating
    <2> QED BY <1>5, <2>1, <2>2
  <1>6. ASSUME NEW p \in Procs,
               \/ LoadEncrypted(p) \/ Fallback(p) \/ ReadIdentity(p) \/ ReadConfig(p) \/ OpenTmp(p)
               \/ WriteTmp(p) \/ RenameTmp(p) \/ Decrypt(p) \/ Killed(p)
        PROVE  WritersApart'
    <2>1. UNCHANGED <<age, legacy, private>>
      BY <1>6, KeyFilesFrame
    <2>2. \/ proc'[p].pc \notin {"store", "migrate", "move", "remove"}
          \/ proc'[p].pc = "migrate" /\ private # "none" /\ proc'[p].key = private
      <3> USE DEF Steps, Files
      <3>1. CASE LoadEncrypted(p)
        BY <3>1, Control DEF LoadEncrypted, KeysTyped
      <3>2. CASE Fallback(p)
        BY <3>2, Control DEF Fallback, KeysTyped
      <3>3. CASE ReadIdentity(p)
        BY <3>3, Control DEF ReadIdentity, KeysTyped
      <3>4. CASE ReadConfig(p) \/ OpenTmp(p)
        BY <3>4 DEF ReadConfig, OpenTmp, KeysTyped
      <3>5. CASE WriteTmp(p) \/ RenameTmp(p)
        BY <3>5, Control DEF WriteTmp, RenameTmp
      <3>6. CASE Decrypt(p) \/ Killed(p)
        BY <3>6, Control DEF Decrypt, Killed, Loads
      <3> QED BY <1>6, <3>1, <3>2, <3>3, <3>4, <3>5, <3>6
    <2> QED BY <1>4, <1>6, <2>1, <2>2 DEF Migrating, Runs
  <1>7. ASSUME NEW p \in Procs, CreateIdentity(p) PROVE WritersApart'
    <2>1. CASE age = "none"
      <3>1. proc'[p].pc = "store" /\ proc'[p].key \in Keys /\ age' = "torn"
        BY <1>7, <2>1, Control DEF CreateIdentity, KeysTyped, Steps, Files
      <3>2. \A q \in Procs : ~At(q, "store")
        BY <2>1 DEF Creating
      <3> QED BY <1>4, <1>7, <3>1, <3>2 DEF Runs, Migrating
    <2>2. CASE age # "none"
      <3>1. proc'[p].pc \in {"idle", "encrypt"} /\ age' = age
        BY <1>7, <2>2, Control DEF CreateIdentity, KeysTyped, Steps
      <3> QED BY <1>4, <1>7, <3>1 DEF Runs, Migrating
    <2> QED BY <2>1, <2>2
  <1>8. ASSUME NEW p \in Procs, StoreIdentity(p) PROVE WritersApart'
    <2>1. proc'[p].pc \in {"encrypt", "idle"}
      BY <1>8, Control DEF StoreIdentity, Steps
    <2>2. \A q \in Procs \ {p} : ~At(q, "store")
      BY <1>8 DEF StoreIdentity, Creating
    <2> QED BY <1>4, <1>8, <2>1, <2>2 DEF Runs, Migrating
  <1>9. ASSUME NEW p \in Procs, MigrateIdentity(p) \/ MoveIdentity(p) \/ RemoveLegacy(p)
        PROVE  WritersApart'
    <2>1. private # "none" /\ proc[p].key = private
      BY <1>9 DEF MigrateIdentity, MoveIdentity, RemoveLegacy, Migrating
    <2>2. \A q \in Procs \ {p} : ~At(q, "store")
      BY <1>3, <1>9, <2>1 DEF Runs
    <2>3. CASE MigrateIdentity(p)
      <3> DEFINE file == Target(proc[p].key)
                 there == IF file = "age" THEN age ELSE legacy
      <3>1. CASE there = "none"
        <4>1. file \in {"age", "legacy"} /\ Write(file, "torn") /\ private' = private
                /\ proc' = [proc EXCEPT ![p].pc = "move", ![p].file = file]
          <5>1. file \in {"age", "legacy"}
            BY DEF Target
          <5>2. there = "none"
            BY <3>1
          <5> HIDE DEF there
          <5> QED BY <2>1, <2>3, <5>1, <5>2 DEF MigrateIdentity, there
        <4>2. proc'[p].pc = "move" /\ proc'[p].file = file /\ proc'[p].key = private
          BY <4>1, <2>1, ControlFiles
        <4>3. Migrating(p)'
          BY <2>1, <4>1, <4>2 DEF Migrating, Write
        <4> QED BY <1>4, <1>9, <2>2, <4>2, <4>3 DEF Runs
      <3>2. CASE there = proc[p].key /\ there # "none"
        <4>1. UNCHANGED <<age, legacy, private>> /\ Goto(p, "remove")
          BY <2>3, <3>2 DEF MigrateIdentity
        <4>2. proc'[p].pc = "remove" /\ proc'[p].key = private
          BY <2>1, <4>1, Control DEF Steps
        <4>3. Migrating(p)'
          BY <2>1, <3>2, <4>1, <4>2 DEF Migrating
        <4> QED BY <1>4, <1>9, <2>2, <4>2, <4>3 DEF Runs
      <3>3. CASE there # proc[p].key /\ there # "none"
        <4>1. Return(p, FALSE)
          BY <2>3, <3>3 DEF MigrateIdentity
        <4>2. proc'[p].pc = "idle"
          BY <4>1, Control
        <4> QED BY <1>4, <1>9, <2>2, <4>2 DEF Runs, Migrating
      <3> QED BY <3>1, <3>2, <3>3
    <2>4. CASE MoveIdentity(p)
      <3>1. CASE Goto(p, "remove") /\ Write(proc[p].file, proc[p].key)
        <4>1. proc'[p].pc = "remove" /\ proc'[p].key = private /\ private' = private
          BY <2>1, <2>4, <3>1, Control DEF Steps, MoveIdentity
        <4>2. proc[p].file \in {"age", "legacy"}
          BY DEF KeysTyped
        <4>3. Migrating(p)'
          BY <2>1, <3>1, <4>1, <4>2 DEF Migrating, Write
        <4> QED BY <1>4, <1>9, <2>2, <4>1, <4>3 DEF Runs
      <3>2. CASE Return(p, FALSE)
        <4>1. proc'[p].pc = "idle"
          BY <3>2, Control
        <4> QED BY <1>4, <1>9, <2>2, <4>1 DEF Runs, Migrating
      <3> QED BY <2>4, <3>1, <3>2 DEF MoveIdentity
    <2>5. CASE RemoveLegacy(p)
      <3>1. proc'[p].pc \in {"encrypt", "decrypt"}
        BY <2>5, Control DEF RemoveLegacy, Steps
      <3> QED BY <1>4, <1>9, <2>2, <3>1 DEF Runs, Migrating
    <2> QED BY <1>9, <2>3, <2>4, <2>5
  <1> QED BY <1>1, <1>2, <1>5, <1>6, <1>7, <1>8, <1>9 DEF Next, Runs

\* What a step may bring into use: nothing that no file holds.
LEMMA UsedStep == SecretsInv /\ [Next]_vars => UsedStored'
  <1> SUFFICES ASSUME SecretsInv, [Next]_vars, ~halved' PROVE InUse' \cap Keys \subseteq Stored'
    BY DEF UsedStored
  <1> USE KeysApart DEF SecretsInv
  <1>1. ~halved
    BY DEF Next, Runs, Begin, EncryptSecrets, LoadEncrypted, Fallback, ReadIdentity,
           CreateIdentity, StoreIdentity, MigrateIdentity, MoveIdentity, RemoveLegacy, ReadConfig,
           OpenTmp, WriteTmp, RenameTmp, Decrypt, Killed, Edit, GenerateKey, OnlyReads, keyFiles,
           pair, vars
  <1>2. InUse \cap Keys \subseteq Stored'
    BY <1>1, StoredKept DEF UsedStored
  <1> DEFINE Fine(k) == k \in Keys => k \in Stored'
  <1>3. /\ \A i \in Inodes, f \in Fields : Fine(content[i][f])
        /\ \A q \in Procs, f \in Fields : Fine(proc[q].doc[f])
        /\ \A q \in Procs : At(q, "encrypt") => Fine(proc[q].key)
        /\ Fine(public)
    BY <1>2 DEF InUse, DocKeys
  <1>4. ASSUME public' = public \/ Fine(public'),
               \A i \in Inodes, f \in Fields : Fine(content'[i][f]),
               \A q \in Procs, f \in Fields : Fine(proc'[q].doc[f]),
               \A q \in Procs : At(q, "encrypt")' => Fine(proc'[q].key)
        PROVE  InUse' \cap Keys \subseteq Stored'
    BY <1>3, <1>4 DEF InUse, DocKeys
  <1>5. \A f \in Fields : Fine(Lost[f])
    BY DEF Lost
  <1> HIDE DEF Fine
  <1>6. ASSUME NEW p \in Procs, Begin(p) \/ EncryptSecrets(p) \/ Runs(p) \/ Killed(p),
               \A i \in Inodes, f \in Fields : Fine(content'[i][f]),
               \A f \in Fields : Fine(proc'[p].doc[f]),
               At(p, "encrypt")' => Fine(proc'[p].key)
        PROVE  InUse' \cap Keys \subseteq Stored'
    <2>1. \A q \in Procs \ {p} : proc'[q] = proc[q]
      BY <1>6, OthersStay
    <2>2. public' = public
      BY <1>6, KeyFilesFrame DEF Runs, CreateIdentity, StoreIdentity, MigrateIdentity,
         MoveIdentity, RemoveLegacy, pair
    <2> QED BY <1>3, <1>4, <1>6, <2>1, <2>2 DEF At
  <1>7. CASE UNCHANGED vars
    BY <1>3, <1>4, <1>7 DEF vars, pair, At
  <1>8. ASSUME NEW p \in Procs,
               \/ Begin(p) \/ EncryptSecrets(p) \/ LoadEncrypted(p) \/ Fallback(p)
               \/ ReadIdentity(p) \/ Decrypt(p) \/ Killed(p)
        PROVE  InUse' \cap Keys \subseteq Stored'
    <2> USE DEF Steps, Files
    <2>1. content' = content
      BY <1>8 DEF Begin, EncryptSecrets, LoadEncrypted, Fallback, ReadIdentity, Decrypt, Killed,
                  OnlyReads
    <2>2. proc'[p].doc \in {proc[p].doc, Lost}
      <3>1. CASE Begin(p) \/ EncryptSecrets(p)
        BY <3>1, Control DEF Begin, EncryptSecrets, KeysTyped, Kept
      <3>2. CASE LoadEncrypted(p) \/ Fallback(p)
        BY <3>2, Control DEF LoadEncrypted, Fallback, KeysTyped, Kept
      <3>3. CASE ReadIdentity(p)
        BY <3>3, Control DEF ReadIdentity, KeysTyped, Kept
      <3>4. CASE Decrypt(p) \/ Killed(p)
        BY <3>4, Control DEF Decrypt, Killed, Loads
      <3> QED BY <1>8, <3>1, <3>2, <3>3, <3>4
    <2>3. At(p, "encrypt")' => proc'[p].key \in {age, public}
      <3>1. CASE Begin(p)
        BY <3>1, Control DEF Begin, At
      <3>2. CASE EncryptSecrets(p)
        BY <3>2, Control DEF EncryptSecrets, KeysTyped
      <3>3. CASE LoadEncrypted(p) \/ Fallback(p)
        BY <3>3, Control DEF LoadEncrypted, Fallback, KeysTyped, At
      <3>4. CASE ReadIdentity(p)
        BY <3>4, Control DEF ReadIdentity, KeysTyped, At
      <3>5. CASE Decrypt(p) \/ Killed(p)
        BY <3>5, Control DEF Decrypt, Killed, Loads, At
      <3> QED BY <1>8, <3>1, <3>2, <3>3, <3>4, <3>5
    <2>4. Fine(age)
      BY StoredKept DEF Fine, Stored
    <2> QED BY <1>3, <1>5, <1>6, <1>8, <2>1, <2>2, <2>3, <2>4 DEF Runs
  <1>9. ASSUME NEW p \in Procs, CreateIdentity(p) \/ StoreIdentity(p) PROVE InUse' \cap Keys \subseteq Stored'
    <2> USE DEF Steps, Files
    <2>1. content' = content
      BY <1>9 DEF CreateIdentity, StoreIdentity
    <2>2. proc'[p].doc \in {proc[p].doc, Lost}
      BY <1>9, Control DEF CreateIdentity, StoreIdentity, KeysTyped, Kept
    <2>3. At(p, "encrypt")' => proc'[p].key = age'
      <3>1. CASE CreateIdentity(p)
        BY <3>1, Control DEF CreateIdentity, KeysTyped, At
      <3>2. CASE StoreIdentity(p)
        BY <3>2, Control DEF StoreIdentity, At
      <3> QED BY <1>9, <3>1, <3>2
    <2>4. Fine(age')
      BY DEF Fine, Stored
    <2> QED BY <1>3, <1>5, <1>6, <1>9, <2>1, <2>2, <2>3, <2>4 DEF Runs
  <1>10. ASSUME NEW p \in Procs, MigrateIdentity(p) \/ MoveIdentity(p) \/ RemoveLegacy(p)
         PROVE  InUse' \cap Keys \subseteq Stored'
    <2> USE DEF Steps
    <2>1. content' = content
      BY <1>10 DEF MigrateIdentity, MoveIdentity, RemoveLegacy
    <2>2. proc'[p].doc \in {proc[p].doc, Lost}
      <3>1. CASE MigrateIdentity(p) \/ MoveIdentity(p)
        BY <3>1, MigrateLeaves, MoveLeaves
      <3>2. CASE RemoveLegacy(p)
        <4>1. proc[p].then \in Steps
          BY Control
        <4> QED BY <3>2, <4>1, Control DEF RemoveLegacy, Kept
      <3> QED BY <1>10, <3>1, <3>2
    <2>3. At(p, "encrypt")' => proc'[p].key = private /\ private \in {age, legacy}
      <3>1. CASE MigrateIdentity(p) \/ MoveIdentity(p)
        BY <3>1, MigrateLeaves, MoveLeaves DEF At
      <3>2. CASE RemoveLegacy(p)
        BY <3>2, Control DEF RemoveLegacy, WritersApart, Migrating
      <3> QED BY <1>10, <3>1, <3>2
    <2>4. Fine(private)
      BY StoredKept DEF Fine, Stored
    <2> QED BY <1>3, <1>5, <1>6, <1>10, <2>1, <2>2, <2>3, <2>4 DEF Runs
  <1>11. ASSUME NEW p \in Procs, ReadConfig(p) PROVE InUse' \cap Keys \subseteq Stored'
    <2> DEFINE doc == Encrypted(Doc, proc[p].key)
    <2>1. doc \in Docs
      BY <1>11, DocTyped DEF Encrypted, Docs, ReadConfig, KeysTyped
    <2>2. proc'[p].pc = "open" /\ proc'[p].doc = doc /\ content' = content
      BY <1>11, <2>1, ControlFiles DEF ReadConfig, OnlyReads
    <2>3. \A f \in Fields : doc[f] \in {proc[p].key, content[config][f]}
      BY DEF Encrypted, Doc
    <2>4. Fine(proc[p].key)
      BY <1>3, <1>11 DEF ReadConfig
    <2> QED BY <1>3, <1>6, <1>11, <2>2, <2>3, <2>4 DEF Runs, At, KeysTyped
  <1>12. ASSUME NEW p \in Procs, OpenTmp(p) PROVE InUse' \cap Keys \subseteq Stored'
    <2>1. PICK i \in Inodes : /\ content' = [content EXCEPT ![i] = Lost]
                              /\ proc' = [proc EXCEPT ![p].pc = "write", ![p].fd = i]
      BY <1>12 DEF OpenTmp, KeysTyped
    <2>2. proc'[p].pc = "write" /\ proc'[p].doc = proc[p].doc
      BY <2>1, ControlFiles
    <2>3. \A j \in Inodes : content'[j] \in {content[j], Lost}
      BY <2>1 DEF KeysTyped
    <2>4. \A j \in Inodes, f \in Fields : Fine(content'[j][f])
      BY <1>3, <1>5, <2>3
    <2> QED BY <1>3, <1>6, <1>12, <2>2, <2>4 DEF Runs, At
  <1>13. ASSUME NEW p \in Procs, WriteTmp(p) \/ RenameTmp(p) PROVE InUse' \cap Keys \subseteq Stored'
    <2>1. proc'[p].pc # "encrypt" /\ proc'[p].doc \in {proc[p].doc, Lost}
      BY <1>13, Control DEF WriteTmp, RenameTmp, Steps, Kept
    <2>2. \A j \in Inodes : content'[j] \in {content[j], Lost, proc[p].doc}
      BY <1>13 DEF WriteTmp, RenameTmp, KeysTyped
    <2>3. \A j \in Inodes, f \in Fields : Fine(content'[j][f])
      BY <1>3, <1>5, <2>2
    <2>4. \A f \in Fields : Fine(proc'[p].doc[f])
      BY <1>3, <1>5, <2>1
    <2> QED BY <1>6, <1>13, <2>1, <2>3, <2>4 DEF Runs, At
  <1>14. CASE Edit
    <2>1. PICK g \in Fields : content' = [content EXCEPT ![config][g] = "plain"]
      BY <1>14 DEF Edit
    <2>2. \A i \in Inodes, f \in Fields : content'[i][f] \in {content[i][f], "plain"}
      BY <2>1 DEF KeysTyped, Docs
    <2>3. Fine("plain")
      BY DEF Fine
    <2>4. \A i \in Inodes, f \in Fields : Fine(content'[i][f])
      BY <1>3, <2>2, <2>3
    <2> QED BY <1>3, <1>4, <1>14, <2>4 DEF Edit, keyFiles, pair, At
  <1>15. CASE GenerateKey
    <2>1. public' \in Stored'
      BY <1>1, <1>15 DEF GenerateKey, Stored, KeysTyped
    <2> QED BY <1>3, <1>4, <1>15, <2>1 DEF GenerateKey, At, Fine
  <1> QED BY <1>7, <1>8, <1>9, <1>10, <1>11, <1>12, <1>13, <1>14, <1>15 DEF Next, Runs

LEMMA OnlyAgeStep == SecretsInv /\ [Next]_vars => OnlyAge'
  <1> SUFFICES ASSUME SecretsInv, [Next]_vars, public' = "none"
               PROVE  /\ private' = "none"
                      /\ \A q \in Procs : At(q, "encrypt")' => age' \in Keys /\ proc'[q].key = age'
    BY DEF OnlyAge
  <1> USE KeysApart DEF SecretsInv
  <1>1. ~GenerateKey /\ \A p \in Procs : ~EncryptSecrets(p)
    BY DEF GenerateKey, EncryptSecrets, OnlyReads, keyFiles, pair, KeysTyped
  <1>2. public = "none"
    BY <1>1, KeyFilesFrame
    DEF Next, Runs, CreateIdentity, StoreIdentity, MigrateIdentity, MoveIdentity, RemoveLegacy,
        Edit, keyFiles, pair, vars
  <1>3. /\ private = "none"
        /\ \A q \in Procs : At(q, "encrypt") => age \in Keys /\ proc[q].key = age
        /\ \A q \in Procs : ~At(q, "migrate") /\ ~At(q, "move") /\ ~At(q, "remove")
    BY <1>2 DEF OnlyAge, WritersApart, Migrating
  <1>4. CASE UNCHANGED vars \/ Edit
    BY <1>3, <1>4 DEF vars, Edit, keyFiles, At
  <1>5. ASSUME NEW p \in Procs, Begin(p) \/ Runs(p) \/ Killed(p)
        PROVE  /\ private' = "none"
               /\ \A q \in Procs : At(q, "encrypt")' => age' \in Keys /\ proc'[q].key = age'
    <2> USE DEF Steps, Files, At
    <2>1. \A q \in Procs \ {p} : proc'[q] = proc[q]
      BY <1>5, OthersStay
    <2>2. ~MigrateIdentity(p) /\ ~MoveIdentity(p) /\ ~RemoveLegacy(p)
      BY <1>3 DEF MigrateIdentity, MoveIdentity, RemoveLegacy
    <2>3. CASE StoreIdentity(p)
      <3>1. age = "torn" /\ proc[p].key \in Keys
        BY <2>3 DEF StoreIdentity, WritersApart, Creating
      <3>2. At(p, "encrypt")' => age' = proc[p].key /\ proc'[p].key = proc[p].key
        BY <2>3, Control DEF StoreIdentity
      <3> QED BY <1>3, <2>1, <2>3, <3>1, <3>2 DEF StoreIdentity
    <2>4. CASE CreateIdentity(p)
      <3>1. At(p, "encrypt")' => age' = age /\ age \in Keys /\ proc'[p].key = age
        BY <2>4, Control DEF CreateIdentity, KeysTyped
      <3>2. age = "none" \/ age' = age
        BY <2>4 DEF CreateIdentity
      <3> QED BY <1>3, <2>1, <2>4, <3>1, <3>2 DEF CreateIdentity
    <2>5. ASSUME UNCHANGED <<age, private>>, At(p, "encrypt")' => age \in Keys /\ proc'[p].key = age
          PROVE  /\ private' = "none"
                 /\ \A q \in Procs : At(q, "encrypt")' => age' \in Keys /\ proc'[q].key = age'
      BY <1>3, <2>1, <2>5
    <2>6. CASE ReadIdentity(p)
      <3>1. At(p, "encrypt")' => age \in Keys /\ proc'[p].key = age
        BY <1>3, <2>6, Control DEF ReadIdentity, KeysTyped
      <3> QED BY <2>5, <2>6, <3>1, KeyFilesFrame
    <2>7. CASE Begin(p) \/ LoadEncrypted(p) \/ Fallback(p) \/ Decrypt(p) \/ Killed(p)
      <3>1. ~At(p, "encrypt")'
        BY <2>7, Control DEF Begin, LoadEncrypted, Fallback, Decrypt, Killed, Loads, KeysTyped
      <3> QED BY <2>5, <2>7, <3>1, KeyFilesFrame
    <2>8. CASE ReadConfig(p) \/ OpenTmp(p) \/ WriteTmp(p) \/ RenameTmp(p)
      <3>1. ~At(p, "encrypt")'
        <4>1. CASE ReadConfig(p) \/ OpenTmp(p)
          BY <4>1 DEF ReadConfig, OpenTmp, KeysTyped
        <4>2. CASE WriteTmp(p) \/ RenameTmp(p)
          BY <4>2, Control DEF WriteTmp, RenameTmp
        <4> QED BY <2>8, <4>1, <4>2
      <3> QED BY <2>5, <2>8, <3>1, KeyFilesFrame
    <2> QED BY <1>5, <2>2, <2>3, <2>4, <2>6, <2>7, <2>8 DEF Runs
  <1> QED BY <1>1, <1>4, <1>5 DEF Next

LEMMA InvStep == SecretsInv /\ [Next]_vars => SecretsInv'
  BY TypeStep, AloneStep, WritersStep, UsedStep, OnlyAgeStep DEF SecretsInv

\* Who may write which key file, at every step of any number of commands.
THEOREM SecretsInvariant == Spec => []SecretsInv
  BY InitInv, InvStep, PTL DEF Spec

\* No secret of config.yaml is encrypted under an identity that no file holds:
\* ensureAgeKeyPair stores an identity before EncryptConfig uses it, and
\* migrateLegacyIdentity removes the old file only once the copy is complete.
THEOREM SecretsRecoverable == Spec => []Recoverable
  <1>1. SecretsInv => Recoverable
    <2> SUFFICES ASSUME SecretsInv, ~halved, NEW f \in Fields, Doc[f] \in Keys PROVE Doc[f] \in Stored
      BY DEF Recoverable
    <2>1. config \in Inodes
      BY DEF SecretsInv, KeysTyped
    <2>2. Doc[f] \in InUse
      BY <2>1 DEF Doc, InUse, DocKeys
    <2> QED BY <2>2 DEF SecretsInv, UsedStored
  <1> QED BY <1>1, SecretsInvariant, PTL

\* Commands that create the identity at once encrypt with the same one: O_EXCL
\* lets one create it, and the others adopt it or fail.
THEOREM IdentityAgreed == Spec => []OneIdentity
  <1>1. SecretsInv => OneIdentity
    BY DEF SecretsInv, OnlyAge, OneIdentity
  <1> QED BY <1>1, SecretsInvariant, PTL

\* No step of any command, kill or migration loses an identity a file holds.
THEOREM StoredIdentitiesKept == Spec => IdentitiesKept
  <1>1. SecretsInv /\ [Next]_vars => [\A k \in Keys : k \in Stored => k \in Stored']_vars
    BY StoredKept
  <1> QED BY <1>1, SecretsInvariant, PTL DEF Spec, IdentitiesKept

\* The one temporary name never names config.yaml itself.
TmpTyped ==
  /\ tmp \subseteq Inodes \ {config} /\ Cardinality(tmp) < 2
  /\ {overlap, halved} \subseteq BOOLEAN /\ faults \in 0..MaxFaults

LEMMA TmpStep == SecretsInv /\ TmpTyped /\ [Next]_vars => TmpTyped'
  <1> SUFFICES ASSUME SecretsInv, TmpTyped, [Next]_vars PROVE TmpTyped'
    OBVIOUS
  <1>1. Cardinality({}) = 0 /\ \A i \in Inodes : Cardinality({i}) = 1
    BY FS_EmptySet, FS_Singleton
  <1>2. /\ UNCHANGED faults \/ (faults < MaxFaults /\ faults' = faults + 1)
        /\ UNCHANGED halved \/ halved' = TRUE
        /\ UNCHANGED overlap \/ overlap' = (overlap \/ ~Nobody)
    BY DEF Next, Runs, Begin, EncryptSecrets, LoadEncrypted, Fallback, ReadIdentity,
           CreateIdentity, StoreIdentity, MigrateIdentity, MoveIdentity, RemoveLegacy, ReadConfig,
           OpenTmp, WriteTmp, RenameTmp, Decrypt, Killed, Edit, GenerateKey, OnlyReads, keyFiles,
           pair, vars, Fault
  <1>3. {overlap', halved'} \subseteq BOOLEAN
    BY <1>2 DEF TmpTyped
  <1>4. faults' \in 0..MaxFaults
    BY <1>2, SecretsFaultsAssumption DEF TmpTyped
  <1>5. CASE UNCHANGED <<tmp, config>>
    BY <1>3, <1>4, <1>5 DEF TmpTyped
  <1>6. ASSUME NEW p \in Procs, OpenTmp(p) PROVE TmpTyped'
    <2>1. PICK i \in Inodes \ {config} : tmp' = {i}
      BY <1>6 DEF OpenTmp, TmpTyped
    <2> QED BY <1>1, <1>3, <1>4, <1>6, <2>1 DEF OpenTmp, TmpTyped
  <1>7. ASSUME NEW p \in Procs, WriteTmp(p) \/ RenameTmp(p) PROVE TmpTyped'
    <2>1. tmp' = {} \/ UNCHANGED <<tmp, config>>
      BY <1>7 DEF WriteTmp, RenameTmp
    <2> QED BY <1>1, <1>3, <1>4, <1>5, <2>1 DEF TmpTyped
  <1>8. UNCHANGED <<tmp, config>> \/ \E p \in Procs : OpenTmp(p) \/ WriteTmp(p) \/ RenameTmp(p)
    BY DEF Next, Runs, Begin, EncryptSecrets, LoadEncrypted, Fallback, ReadIdentity,
           CreateIdentity, StoreIdentity, MigrateIdentity, MoveIdentity, RemoveLegacy, ReadConfig,
           Decrypt, Killed, Edit, GenerateKey, OnlyReads, vars
  <1> QED BY <1>5, <1>6, <1>7, <1>8

LEMMA InitTmp == Init => TmpTyped
  <1> SUFFICES ASSUME Init PROVE TmpTyped
    OBVIOUS
  <1>1. tmp \subseteq Inodes \ {config} /\ Cardinality(tmp) < 2
    <2>1. Cardinality(tmp) = 0
      BY FS_EmptySet DEF Init
    <2> QED BY <2>1 DEF Init
  <1>2. overlap = FALSE /\ halved = FALSE
    BY DEF Init
  <1>3. {overlap, halved} \subseteq BOOLEAN
    BY <1>2
  <1>4. faults \in 0..MaxFaults
    BY SecretsFaultsAssumption DEF Init
  <1> QED BY <1>1, <1>3, <1>4 DEF TmpTyped

\* Every state of the commands and their files is well typed; config.yaml.tmp
\* names at most one file, and never the configuration.
THEOREM SecretsTypeCorrect == Spec => []TypeOK
  <1>1. SecretsInv /\ TmpTyped => TypeOK
    BY DEF SecretsInv, KeysTyped, TmpTyped, TypeOK, Files
  <1> QED BY <1>1, InitTmp, TmpStep, SecretsInvariant, PTL DEF Spec

(***************************************************************************)
(* Two commands and the one temporary file.                                *)
(***************************************************************************)
\* A step of one command that leaves the documents as they are.
Aside(p) ==
  /\ UNCHANGED <<content, config, tmp>>
  /\ \A q \in Procs \ {p} : proc'[q] = proc[q]
  /\ proc'[p].pc \notin {"write", "rename"}
  /\ proc'[p].pc = "open" => At(p, "encrypt") /\ (Whole => WholeDoc(proc'[p].doc))
  /\ At(p, "write") => faults' # 0
  /\ WillEncrypt(p)' => WillEncrypt(p) \/ HasPlaintext \/ Nobody
  /\ At(p, "idle") /\ ~overlap' => Nobody \/ proc'[p].pc = "idle"
  /\ overlap => overlap'
  /\ faults' = 0 => faults = 0

LEMMA LostIsNotWhole ==
  ASSUME KeysTyped, SharedWhole, faults = 0, ~Whole
  PROVE  ~HasPlaintext /\ Doc = Lost /\ Writing(config)
  <1>1. config \in Inodes /\ ~WholeDoc(content[config])
    BY DEF KeysTyped, Whole, WholeDoc, Doc
  <1>2. Doc = Lost /\ Writing(config)
    BY <1>1 DEF SharedWhole, Doc
  <1>3. \A f \in Fields : Lost[f] # "plain"
    BY DEF Lost
  <1> QED BY <1>2, <1>3 DEF HasPlaintext

LEMMA AsideKeeps ==
  ASSUME KeysTyped, WholeInv, NEW p \in Procs, Aside(p)
  PROVE  WholeInv'
  <1>1. Whole' = Whole /\ (\A i : WholeDoc(content'[i]) <=> WholeDoc(content[i]))
    BY DEF Aside, Whole, Doc, WholeDoc
  <1>2. DocsWhole'
    <2> SUFFICES ASSUME overlap' => faults' = 0, NEW q \in Procs,
                        proc'[q].pc \in {"open", "write", "rename"}
                 PROVE  WholeDoc(proc'[q].doc)
      BY DEF DocsWhole, WholeDoc
    <2>1. overlap => faults = 0
      BY DEF Aside
    <2>2. CASE q = p
      <3>1. At(p, "encrypt") /\ (Whole => WholeDoc(proc'[p].doc))
        BY <2>2 DEF Aside
      <3>2. WillEncrypt(p)
        BY <3>1 DEF WillEncrypt, At
      <3>3. Whole
        BY <2>1, <3>2 DEF WholeInv, SharedWhole, AloneWhole
      <3> QED BY <2>2, <3>1, <3>3
    <2>3. CASE q # p
      BY <2>1, <2>3 DEF Aside, WholeInv, DocsWhole
    <2> QED BY <2>2, <2>3
  <1>3. SharedWhole'
    <2> SUFFICES ASSUME faults' = 0 PROVE SharedWhole'
      BY DEF SharedWhole
    <2>1. faults = 0 /\ ~At(p, "write")
      BY DEF Aside
    <2>2. \A i : Writing(i) => Writing(i)'
      BY <2>1 DEF Aside, Writing, At
    <2>3. ASSUME ~Whole, NEW q \in Procs PROVE ~WillEncrypt(q)'
      <3>1. ~HasPlaintext /\ ~Nobody
        BY <2>1, <2>3, LostIsNotWhole DEF WholeInv, Writing, Nobody, At
      <3>2. ~WillEncrypt(q)
        BY <2>1, <2>3 DEF WholeInv, SharedWhole
      <3> QED BY <3>1, <3>2 DEF Aside, WillEncrypt
    <2>4. /\ \A i \in Inodes : WholeDoc(content[i]) \/ content[i] = Lost
          /\ \A i \in tmp \cup {config} : WholeDoc(content[i]) \/ Writing(i)
      BY <2>1 DEF WholeInv, SharedWhole
    <2>5. UNCHANGED <<content, config, tmp>>
      BY DEF Aside
    <2> QED BY <1>1, <2>2, <2>3, <2>4, <2>5 DEF SharedWhole, WholeDoc
  <1>4. AloneWhole'
    <2> SUFFICES ASSUME ~overlap' PROVE AloneWhole'
      BY DEF AloneWhole
    <2>1. ~overlap /\ AloneWhole
      BY DEF Aside, WholeInv
    <2>2. \A q, r \in Procs : ~At(q, "idle")' /\ ~At(r, "idle")' => q = r
      BY <2>1 DEF Aside, AloneWhole, At, Nobody
    <2>3. \A q \in Procs : At(q, "write")' \/ At(q, "rename")' =>
            q # p /\ proc'[q] = proc[q] /\ (At(q, "write") \/ At(q, "rename"))
      BY DEF Aside, At
    <2>4. /\ \A q \in Procs : At(q, "write")' \/ At(q, "rename")' => tmp' = {proc'[q].fd}
          /\ \A q \in Procs : At(q, "rename")' => WholeDoc(content'[proc'[q].fd])
      BY <2>1, <2>3 DEF AloneWhole, Aside, At
    <2> QED BY <1>1, <2>1, <2>2, <2>4 DEF AloneWhole, WholeDoc
  <1> QED BY <1>2, <1>3, <1>4 DEF WholeInv

LEMMA StepsAside ==
  ASSUME SecretsInv, NEW p \in Procs, TmpTyped,
         Begin(p) \/ EncryptSecrets(p) \/ Runs(p) \/ Killed(p),
         ~OpenTmp(p), ~WriteTmp(p), ~RenameTmp(p)
  PROVE  Aside(p)
  <1> USE DEF SecretsInv
  <1>1. \A q \in Procs \ {p} : proc'[q] = proc[q]
    BY OthersStay
  <1>2. faults \in Nat
    BY SecretsFaultsAssumption DEF TmpTyped
  <1>3. Fault => faults' # 0
    BY <1>2 DEF Fault
  <1>4. ASSUME UNCHANGED <<content, config, tmp>>, faults' = faults \/ Fault,
               overlap' = overlap \/ (overlap' = (overlap \/ ~Nobody)),
               ~At(p, "write") \/ Fault,
               proc'[p].pc \notin {"write", "rename"},
               proc'[p].pc = "open" => At(p, "encrypt") /\ (Whole => WholeDoc(proc'[p].doc)),
               WillEncrypt(p)' => WillEncrypt(p) \/ HasPlaintext \/ Nobody,
               At(p, "idle") /\ ~overlap' => Nobody \/ proc'[p].pc = "idle"
        PROVE  Aside(p)
    <2>1. faults' = 0 => faults = 0
      BY <1>3, <1>4
    <2>2. overlap => overlap'
      BY Zenon, <1>4
    <2> QED BY <1>1, <1>3, <1>4, <2>1, <2>2 DEF Aside
  <1> USE DEF Steps, Files, At
  <1>5. CASE Begin(p)
    <2>1. proc'[p].pc = (IF HasPlaintext THEN "identity" ELSE "load") /\ proc'[p].then = proc[p].then
      BY <1>5, Control DEF Begin
    <2>2. WillEncrypt(p)' => HasPlaintext
      BY <2>1 DEF WillEncrypt
    <2>3. ~overlap' => Nobody
      BY <1>5 DEF Begin
    <2> QED BY <1>4, <1>5, <2>1, <2>2, <2>3 DEF Begin
  <1>6. CASE EncryptSecrets(p)
    <2>1. proc'[p].pc = "encrypt"
      BY <1>6, Control DEF EncryptSecrets, KeysTyped
    <2>2. Nobody /\ ~At(p, "write") /\ UNCHANGED <<content, config, tmp, faults, overlap>>
      BY <1>6 DEF EncryptSecrets, OnlyReads, Nobody
    <2> QED BY <1>4, <2>1, <2>2
  <1>7. ASSUME UNCHANGED <<content, config, tmp, overlap, faults>>,
               ~At(p, "idle"), ~At(p, "write"),
               proc'[p].pc \notin {"write", "rename", "open"},
               WillEncrypt(p)' => WillEncrypt(p)
        PROVE  Aside(p)
    BY <1>4, <1>7
  <1>8. CASE LoadEncrypted(p) \/ Fallback(p) \/ Decrypt(p)
    <2>1. proc'[p].pc \in {"idle", "fallback", "migrate"} /\ (proc'[p].pc = "migrate" => proc'[p].then = "decrypt")
      <3>1. CASE LoadEncrypted(p)
        BY <3>1, Control DEF LoadEncrypted, KeysTyped
      <3>2. CASE Fallback(p)
        BY <3>2, Control DEF Fallback, KeysTyped
      <3>3. CASE Decrypt(p)
        BY <3>3, Control DEF Decrypt, Loads
      <3> QED BY <1>8, <3>1, <3>2, <3>3
    <2>2. ~WillEncrypt(p)'
      BY <2>1 DEF WillEncrypt
    <2>3. UNCHANGED <<content, config, tmp, overlap, faults>> /\ ~At(p, "idle") /\ ~At(p, "write")
      BY <1>8 DEF LoadEncrypted, Fallback, Decrypt, OnlyReads
    <2> QED BY <1>7, <2>1, <2>2, <2>3
  <1>9. CASE ReadIdentity(p)
    <2>1. proc'[p].pc \in {"idle", "create", "encrypt", "migrate"}
      BY <1>9, Control DEF ReadIdentity, KeysTyped
    <2>2. WillEncrypt(p) /\ ~At(p, "idle") /\ ~At(p, "write")
      BY <1>9 DEF ReadIdentity, WillEncrypt
    <2> QED BY <1>7, <1>9, <2>1, <2>2 DEF ReadIdentity, OnlyReads
  <1>10. ASSUME UNCHANGED <<content, config, tmp, overlap>>, faults' = faults \/ Fault,
                ~At(p, "idle"), ~At(p, "write"),
                proc'[p].pc \notin {"write", "rename", "open"},
                WillEncrypt(p)' => WillEncrypt(p)
         PROVE  Aside(p)
    BY <1>4, <1>10
  <1>11. CASE CreateIdentity(p) \/ StoreIdentity(p)
    <2>1. proc'[p].pc \in {"idle", "store", "encrypt"}
      <3>1. CASE CreateIdentity(p)
        BY <3>1, Control DEF CreateIdentity, KeysTyped
      <3>2. CASE StoreIdentity(p)
        BY <3>2, Control DEF StoreIdentity
      <3> QED BY <1>11, <3>1, <3>2
    <2>2. WillEncrypt(p) /\ ~At(p, "idle") /\ ~At(p, "write")
      BY <1>11 DEF CreateIdentity, StoreIdentity, WillEncrypt
    <2>3. UNCHANGED <<content, config, tmp, overlap>> /\ (faults' = faults \/ Fault)
      BY <1>11 DEF CreateIdentity, StoreIdentity
    <2> QED BY <1>10, <2>1, <2>2, <2>3
  <1>12. CASE MigrateIdentity(p) \/ MoveIdentity(p) \/ RemoveLegacy(p)
    <2>1. /\ proc'[p].pc \in {"idle", "move", "remove", proc[p].then}
          /\ proc'[p].pc \in {"move", "remove"} => proc'[p].then = proc[p].then
          /\ proc'[p].pc \in {"move", "remove"} \/ RemoveLegacy(p) \/ proc'[p].pc = "idle"
      <3>1. CASE MigrateIdentity(p)
        <4>1. Target(proc[p].key) \in {"age", "legacy"}
          BY DEF Target
        <4>2. proc' = [proc EXCEPT ![p].pc = "move", ![p].file = Target(proc[p].key)]
                => proc'[p].pc = "move" /\ proc'[p].then = proc[p].then
          BY DEF KeysTyped
        <4> QED BY <3>1, <4>2, Control DEF MigrateIdentity
      <3>2. CASE MoveIdentity(p)
        BY <3>2, Control DEF MoveIdentity
      <3>3. CASE RemoveLegacy(p)
        BY <3>3, Control DEF RemoveLegacy
      <3> QED BY <1>12, <3>1, <3>2, <3>3
    <2>2. proc[p].then \in {"encrypt", "decrypt"} /\ proc[p].pc \in {"migrate", "move", "remove"}
      BY <1>12, Control DEF MigrateIdentity, MoveIdentity, RemoveLegacy
    <2>3. UNCHANGED <<content, config, tmp, overlap>> /\ (faults' = faults \/ Fault)
      BY <1>12 DEF MigrateIdentity, MoveIdentity, RemoveLegacy
    <2>4. WillEncrypt(p)' => WillEncrypt(p)
      BY <2>1, <2>2 DEF WillEncrypt
    <2> QED BY <1>10, <2>1, <2>2, <2>3, <2>4
  <1>13. CASE ReadConfig(p)
    <2> DEFINE doc == Encrypted(Doc, proc[p].key)
    <2>1. doc \in Docs /\ proc[p].key \in Keys
      BY <1>13, DocTyped DEF Encrypted, Docs, ReadConfig, KeysTyped
    <2>2. proc'[p].pc = "open" /\ proc'[p].doc = doc
      BY <1>13, <2>1, ControlFiles DEF ReadConfig
    <2>3. Whole => WholeDoc(doc)
      BY <2>1, KeysApart DEF Encrypted, Whole, WholeDoc
    <2>4. ~WillEncrypt(p)'
      BY <2>2 DEF WillEncrypt
    <2> QED BY <1>4, <1>13, <2>2, <2>3, <2>4 DEF ReadConfig, OnlyReads
  <1>14. CASE Killed(p)
    <2>1. proc'[p].pc = "idle"
      BY <1>14, Control DEF Killed
    <2>2. ~WillEncrypt(p)'
      BY <2>1 DEF WillEncrypt
    <2> QED BY <1>4, <1>14, <2>1, <2>2 DEF Killed
  <1> QED BY <1>5, <1>6, <1>8, <1>9, <1>11, <1>12, <1>13, <1>14 DEF Runs

LEMMA OpenKeepsWhole ==
  ASSUME SecretsInv, TmpTyped, WholeInv, NEW p \in Procs, OpenTmp(p)
  PROVE  WholeInv'
  <1> USE DEF SecretsInv
  <1>1. PICK i \in Inodes \ {config} :
               /\ tmp' = {i} /\ content' = [content EXCEPT ![i] = Lost]
               /\ proc' = [proc EXCEPT ![p].pc = "write", ![p].fd = i]
    BY DEF OpenTmp, TmpTyped
  <1>2. /\ proc'[p].pc = "write" /\ proc'[p].fd = i /\ proc'[p].doc = proc[p].doc
        /\ \A q \in Procs \ {p} : proc'[q] = proc[q]
        /\ content'[i] = Lost /\ \A j \in Inodes \ {i} : content'[j] = content[j]
        /\ UNCHANGED <<config, faults, overlap>> /\ proc[p].pc = "open"
    BY <1>1 DEF KeysTyped, OpenTmp, At
  <1>3. DocsWhole'
    BY <1>2 DEF WholeInv, DocsWhole, WholeDoc
  <1>4. Whole' = Whole
    BY <1>1, <1>2 DEF Whole, Doc, KeysTyped
  <1>5. SharedWhole'
    <2> SUFFICES ASSUME faults' = 0 PROVE SharedWhole'
      BY DEF SharedWhole
    <2>1. /\ \A j \in Inodes : WholeDoc(content[j]) \/ content[j] = Lost
          /\ WholeDoc(content[config]) \/ Writing(config)
          /\ Whole \/ \A q \in Procs : ~WillEncrypt(q)
      BY <1>2 DEF WholeInv, SharedWhole
    <2>2. \A j \in Inodes : WholeDoc(content'[j]) \/ content'[j] = Lost
      BY <1>2, <2>1
    <2>3. Writing(i)'
      BY <1>2 DEF Writing, At
    <2>4. Writing(config) => Writing(config)'
      BY <1>2 DEF Writing, At
    <2>5. WholeDoc(content'[config]) \/ Writing(config)'
      BY <1>1, <1>2, <2>1, <2>4 DEF KeysTyped
    <2>6. \A q \in Procs : WillEncrypt(q)' => WillEncrypt(q)
      BY <1>2 DEF WillEncrypt
    <2> QED BY <1>1, <1>2, <1>4, <2>1, <2>2, <2>3, <2>5, <2>6 DEF SharedWhole, WholeDoc
  <1>6. AloneWhole'
    <2> SUFFICES ASSUME ~overlap' PROVE AloneWhole'
      BY DEF AloneWhole
    <2>1. AloneWhole /\ ~overlap
      BY <1>2 DEF WholeInv
    <2>2. \A q \in Procs \ {p} : At(q, "idle") /\ At(q, "idle")'
      BY <1>2, <2>1 DEF AloneWhole, At
    <2> QED BY <1>1, <1>2, <1>4, <2>1, <2>2 DEF AloneWhole, At
  <1> QED BY <1>3, <1>5, <1>6 DEF WholeInv

LEMMA WriteKeepsWhole ==
  ASSUME SecretsInv, TmpTyped, WholeInv, NEW p \in Procs, WriteTmp(p)
  PROVE  WholeInv'
  <1> USE DEF SecretsInv
  <1>1. /\ \A q \in Procs \ {p} : proc'[q] = proc[q]
        /\ proc[p].pc = "write" /\ UNCHANGED <<config, overlap>>
    BY OthersStay DEF WriteTmp, At, Runs
  <1>2. CASE Fault /\ tmp' = {} /\ Return(p, FALSE) /\ UNCHANGED content
    <2>1. faults' # 0
      BY <1>2, SecretsFaultsAssumption DEF Fault, TmpTyped
    <2>2. proc'[p].pc = "idle"
      BY <1>2, Control
    <2>3. (overlap => faults = 0) => ~overlap \/ faults # faults'
      BY <2>1
    <2>4. DocsWhole' /\ SharedWhole'
      BY <1>1, <2>1, <2>2 DEF WholeInv, DocsWhole, SharedWhole, WholeDoc
    <2>5. AloneWhole'
      <3> SUFFICES ASSUME ~overlap' PROVE AloneWhole'
        BY DEF AloneWhole
      <3>1. AloneWhole /\ ~overlap
        BY <1>1 DEF WholeInv
      <3>2. \A q \in Procs : At(q, "idle")'
        BY <1>1, <2>2, <3>1 DEF AloneWhole, At
      <3>3. Whole'
        BY <1>1, <1>2, <3>1 DEF AloneWhole, Whole, Doc
      <3> QED BY <3>2, <3>3 DEF AloneWhole, At
    <2> QED BY <2>4, <2>5 DEF WholeInv
  <1>3. CASE /\ content' = [content EXCEPT ![proc[p].fd] = proc[p].doc]
             /\ Goto(p, "rename") /\ UNCHANGED <<tmp, faults>>
    <2>0. CASE overlap /\ faults # 0
      BY <1>1, <1>3, <2>0 DEF WholeInv, DocsWhole, SharedWhole, AloneWhole
    <2>1. CASE overlap => faults = 0
      <3>1. proc'[p].pc = "rename" /\ proc'[p].doc = proc[p].doc /\ proc'[p].fd = proc[p].fd
        BY <1>3, Control DEF Steps, Kept
      <3>2. WholeDoc(proc[p].doc)
        BY <1>1, <2>1 DEF WholeInv, DocsWhole
      <3>3. /\ proc[p].fd \in Inodes /\ content'[proc[p].fd] = proc[p].doc
            /\ \A j \in Inodes \ {proc[p].fd} : content'[j] = content[j]
        BY <1>3 DEF KeysTyped
      <3>4. DocsWhole'
        BY <1>1, <1>3, <2>1, <3>1, <3>2 DEF WholeInv, DocsWhole, WholeDoc
      <3>5. Whole => Whole'
        BY <1>1, <3>2, <3>3 DEF Whole, Doc, WholeDoc, KeysTyped
      <3>6. SharedWhole'
        <4> SUFFICES ASSUME faults' = 0 PROVE SharedWhole'
          BY DEF SharedWhole
        <4>1. /\ \A j \in Inodes : WholeDoc(content[j]) \/ content[j] = Lost
              /\ \A j \in tmp \cup {config} : WholeDoc(content[j]) \/ Writing(j)
              /\ Whole \/ \A q \in Procs : ~WillEncrypt(q)
          BY <1>3 DEF WholeInv, SharedWhole
        <4>2. \A j \in Inodes : WholeDoc(content'[j]) \/ content'[j] = Lost
          BY <3>2, <3>3, <4>1
        <4>3. \A j : j # proc[p].fd /\ Writing(j) => Writing(j)'
          BY <1>1 DEF Writing, At
        <4>4. \A j \in tmp \cup {config} : WholeDoc(content'[j]) \/ Writing(j)'
          BY <3>2, <3>3, <4>1, <4>3 DEF KeysTyped
        <4>5. \A q \in Procs : WillEncrypt(q)' => WillEncrypt(q)
          BY <1>1, <3>1 DEF WillEncrypt
        <4> QED BY <1>1, <1>3, <3>5, <4>1, <4>2, <4>4, <4>5 DEF SharedWhole, WholeDoc
      <3>7. AloneWhole'
        <4> SUFFICES ASSUME ~overlap' PROVE AloneWhole'
          BY DEF AloneWhole
        <4>1. AloneWhole /\ ~overlap
          BY <1>1 DEF WholeInv
        <4>2. \A q \in Procs \ {p} : At(q, "idle") /\ At(q, "idle")'
          BY <1>1, <4>1 DEF AloneWhole, At
        <4> QED BY <1>1, <1>3, <3>1, <3>2, <3>3, <3>5, <4>1, <4>2 DEF AloneWhole, At, WholeDoc
      <3> QED BY <3>4, <3>6, <3>7 DEF WholeInv
    <2> QED BY <2>0, <2>1
  <1> QED BY <1>2, <1>3 DEF WriteTmp

LEMMA RenameKeepsWhole ==
  ASSUME SecretsInv, TmpTyped, WholeInv, NEW p \in Procs, RenameTmp(p),
         \A q, r \in Procs : p = q \/ p = r \/ q = r
  PROVE  WholeInv'
  <1> USE DEF SecretsInv
  <1>c. PICK c : c = config'
    OBVIOUS
  <1>1. /\ \A q \in Procs \ {p} : proc'[q] = proc[q]
        /\ proc[p].pc = "rename" /\ UNCHANGED <<overlap, faults>> /\ tmp' = {}
    BY OthersStay DEF RenameTmp, At, Runs
  <1>2. proc'[p].pc = (IF tmp = {} THEN "idle" ELSE "decrypt")
    BY Control DEF RenameTmp, Steps
  <1>3. config' \in tmp \cup {config} /\ config' \in Inodes
        /\ (tmp = {} => config' = config) /\ (tmp # {} => config' \in tmp)
    BY DEF RenameTmp, KeysTyped
  <1>4. /\ \A j \in Inodes : content'[j] \in {content[j], Lost}
        /\ content'[config'] = content[config']
    BY <1>3 DEF RenameTmp, KeysTyped
  <1>5. DocsWhole'
    BY <1>1, <1>2 DEF WholeInv, DocsWhole, WholeDoc
  <1>6. SharedWhole'
    <2> SUFFICES ASSUME faults' = 0 PROVE SharedWhole'
      BY DEF SharedWhole
    <2>1. /\ \A j \in Inodes : WholeDoc(content[j]) \/ content[j] = Lost
          /\ \A j \in tmp \cup {config} : WholeDoc(content[j]) \/ Writing(j)
      BY <1>1 DEF WholeInv, SharedWhole
    <2>2. \A j \in Inodes : WholeDoc(content'[j]) \/ content'[j] = Lost
      BY <1>4, <2>1
    <2>3. \A j : Writing(j) => Writing(j)'
      BY <1>1 DEF Writing, At
    <2>4. WholeDoc(content'[config']) \/ Writing(c)'
      BY <1>c, <1>3, <1>4, <2>1, <2>3
    <2>5. ASSUME ~Whole' PROVE \A q \in Procs : ~WillEncrypt(q)'
      <3>1. ~WholeDoc(content'[config'])
        BY <2>5 DEF Whole, WholeDoc, Doc
      <3>2. PICK q \in Procs : At(q, "write") /\ proc[q].fd = config'
        BY <1>3, <1>4, <2>1, <3>1 DEF Writing
      <3>3. q # p /\ ~WillEncrypt(q)'
        BY <1>1, <3>2 DEF At, WillEncrypt
      <3>4. ~WillEncrypt(p)'
        BY <1>2 DEF WillEncrypt
      <3> QED BY <3>3, <3>4
    <2>6. \A j \in {c} : WholeDoc(content'[j]) \/ Writing(j)'
      BY <1>c, <2>4
    <2> QED BY <1>c, <1>1, <2>2, <2>5, <2>6 DEF SharedWhole, WholeDoc
  <1>7. AloneWhole'
    <2> SUFFICES ASSUME ~overlap' PROVE AloneWhole'
      BY DEF AloneWhole
    <2>1. AloneWhole /\ ~overlap
      BY <1>1 DEF WholeInv
    <2>2. \A q \in Procs \ {p} : At(q, "idle") /\ At(q, "idle")'
      BY <1>1, <2>1 DEF AloneWhole, At
    <2>3. tmp = {proc[p].fd} /\ WholeDoc(content[proc[p].fd])
      BY <1>1, <2>1 DEF AloneWhole, At
    <2>4. Whole'
      BY <1>3, <1>4, <2>3 DEF Whole, WholeDoc, Doc
    <2> QED BY <1>1, <1>2, <2>2, <2>4 DEF AloneWhole, At
  <1> QED BY <1>5, <1>6, <1>7 DEF WholeInv

\* Between commands: what an operator edits is whole.
LEMMA OperatorKeepsWhole ==
  ASSUME SecretsInv, TmpTyped, WholeInv, Edit \/ GenerateKey \/ UNCHANGED vars
  PROVE  WholeInv'
  <1> USE DEF SecretsInv
  <1>1. CASE UNCHANGED <<content, config, tmp, proc, faults, overlap>>
    BY <1>1 DEF WholeInv, DocsWhole, SharedWhole, AloneWhole, WholeDoc, Writing, Whole, Doc,
                WillEncrypt, At
  <1>2. CASE GenerateKey
    <2>1. Nobody /\ UNCHANGED <<content, config, tmp, proc, overlap>>
      BY <1>2 DEF GenerateKey
    <2>2. faults' = 0 => faults = 0
      BY <1>2, SecretsFaultsAssumption DEF GenerateKey, Fault, TmpTyped
    <2>3. DocsWhole' /\ AloneWhole'
      BY <2>1 DEF WholeInv, DocsWhole, AloneWhole, WholeDoc, Whole, Doc, Nobody, At
    <2>4. SharedWhole'
      BY <2>1, <2>2 DEF WholeInv, SharedWhole, WholeDoc, Whole, Doc, Writing, WillEncrypt, At
    <2> QED BY <2>3, <2>4 DEF WholeInv
  <1>3. CASE Edit
    <2>1. PICK f \in Fields : content' = [content EXCEPT ![config][f] = "plain"]
      BY <1>3 DEF Edit
    <2>2. Nobody /\ UNCHANGED <<config, tmp, proc, faults, overlap>>
      BY <1>3 DEF Edit
    <2>3. /\ \A j \in Inodes \ {config} : content'[j] = content[j]
          /\ \A g \in Fields : content'[config][g] \in {content[config][g], "plain"}
      BY <2>1 DEF KeysTyped, Docs
    <2>4. WholeDoc(content[config]) => WholeDoc(content'[config]) /\ Whole'
      BY <2>2, <2>3 DEF WholeDoc, Whole, Doc
    <2>5. \A i : ~Writing(i)
      BY <2>2 DEF Nobody, Writing, At
    <2>6. DocsWhole'
      BY <2>2 DEF DocsWhole, Nobody, At
    <2>7. SharedWhole'
      <3> SUFFICES ASSUME faults = 0 PROVE SharedWhole'
        BY <2>2 DEF SharedWhole
      <3>1. /\ \A j \in Inodes : WholeDoc(content[j]) \/ content[j] = Lost
            /\ \A j \in tmp \cup {config} : WholeDoc(content[j])
        BY <2>5 DEF WholeInv, SharedWhole
      <3>2. /\ \A j \in Inodes : WholeDoc(content'[j]) \/ content'[j] = Lost
            /\ \A j \in tmp \cup {config} : WholeDoc(content'[j])
        BY <2>3, <2>4, <3>1 DEF TmpTyped, KeysTyped
      <3> QED BY <2>2, <2>4, <3>1, <3>2 DEF SharedWhole, WholeDoc
    <2>8. AloneWhole'
      <3> SUFFICES ASSUME ~overlap PROVE AloneWhole'
        BY <2>2 DEF AloneWhole
      <3>1. WholeDoc(content[config])
        BY DEF WholeInv, AloneWhole, Whole, WholeDoc, Doc
      <3> QED BY <2>2, <2>4, <3>1 DEF AloneWhole, Nobody, At
    <2> QED BY <2>6, <2>7, <2>8 DEF WholeInv
  <1> QED BY <1>1, <1>2, <1>3 DEF vars

LEMMA InitWhole == Init => WholeInv
  <1> SUFFICES ASSUME Init PROVE WholeInv
    OBVIOUS
  <1>1. PICK doc \in [Fields -> {"plain", private} \ {"none"}] :
          content = [i \in Inodes |-> IF i = 0 THEN doc ELSE Lost]
    BY DEF Init
  <1>2. private \in Keys \cup {"none"}
    BY KeysAssumption DEF Init
  <1>3. WholeDoc(doc)
    BY <1>2, KeysApart DEF WholeDoc
  <1>4. config = 0 /\ 0 \in Inodes /\ tmp = {} /\ \A p \in Procs : At(p, "idle")
    BY InodesFacts DEF Init, At, Idle
  <1>5. Whole /\ WholeDoc(content[config])
    BY <1>1, <1>3, <1>4 DEF Whole, WholeDoc, Doc
  <1> QED BY <1>1, <1>3, <1>4, <1>5 DEF WholeInv, DocsWhole, SharedWhole, AloneWhole, At

LEMMA OneOfThree ==
  ASSUME Cardinality(Procs) <= 2, NEW p \in Procs, NEW q \in Procs, NEW r \in Procs
  PROVE  p = q \/ p = r \/ q = r
  <1> SUFFICES ASSUME p # q, p # r, q # r PROVE FALSE
    OBVIOUS
  <1>1. IsFiniteSet({p}) /\ Cardinality({p}) = 1
    BY FS_Singleton
  <1>2. IsFiniteSet({p} \cup {q}) /\ Cardinality({p} \cup {q}) = 2
    BY <1>1, FS_AddElement
  <1>3. Cardinality({p} \cup {q} \cup {r}) = 3
    BY <1>2, FS_AddElement
  <1>4. Cardinality({p} \cup {q} \cup {r}) <= Cardinality(Procs) /\ Cardinality(Procs) \in Nat
    BY FS_Subset, FS_CardinalityType, ProcsAssumption
  <1> QED BY <1>3, <1>4

\* Two commands that write config.yaml.tmp at once, and one that is killed or
\* whose write fails while it runs alone, leave every secret in config.yaml: a
\* file that was renamed while the other command had it truncated is written by
\* that one, and nobody encrypts what is read in between.
THEOREM TwoKeepConfig ==
  ASSUME Cardinality(Procs) <= 2
  PROVE  Spec => []ConfigWhole
  <1>1. \A p, q, r \in Procs : p = q \/ p = r \/ q = r
    BY OneOfThree
  <1>2. SecretsInv /\ TmpTyped /\ WholeInv /\ [Next]_vars => WholeInv'
    <2> SUFFICES ASSUME SecretsInv, TmpTyped, WholeInv, [Next]_vars PROVE WholeInv'
      OBVIOUS
    <2>1. ASSUME NEW p \in Procs, Begin(p) \/ EncryptSecrets(p) \/ Runs(p) \/ Killed(p)
          PROVE  WholeInv'
      <3>1. CASE OpenTmp(p) \/ WriteTmp(p) \/ RenameTmp(p)
        BY <1>1, <3>1, OpenKeepsWhole, WriteKeepsWhole, RenameKeepsWhole
      <3>2. CASE ~OpenTmp(p) /\ ~WriteTmp(p) /\ ~RenameTmp(p)
        BY <2>1, <3>2, StepsAside, AsideKeeps DEF SecretsInv
      <3> QED BY <3>1, <3>2
    <2> QED BY <2>1, OperatorKeepsWhole DEF Next
  <1>3. WholeInv => ConfigWhole
    <2> SUFFICES ASSUME WholeInv, Nobody, overlap => faults = 0 PROVE Whole
      BY DEF ConfigWhole
    <2>1. \A i : ~Writing(i)
      BY DEF Nobody, Writing, At
    <2>2. faults = 0 => WholeDoc(content[config])
      BY <2>1 DEF WholeInv, SharedWhole
    <2> QED BY <2>2 DEF WholeInv, AloneWhole, Whole, WholeDoc, Doc
  <1> QED BY <1>2, <1>3, InitWhole, InitTmp, TmpStep, SecretsInvariant, PTL DEF Spec

=============================================================================
