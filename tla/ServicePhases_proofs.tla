------------------------ MODULE ServicePhases_proofs ------------------------
(***************************************************************************)
(* Proofs about ServicePhases, for any balancers, lists of phases and      *)
(* number of faults: healing never takes a good identity, the router keeps *)
(* its NAT table unless its script was left alone, after a rollout every   *)
(* balancer serves the new pair, the store keeps its secrets, and the      *)
(* types are right.                                                        *)
(***************************************************************************)
EXTENDS ServicePhases, Counting, TLAPS

TaskStates == {"no", "run", "clean", "wipe", "again", "ok", "bad"}

\* Where the run is; the script belongs to a run that waits for it.
RunInv ==
  /\ order \in Orders
  /\ phase \in 0..Len(order)
  /\ phase = 0 => pc = "idle"
  /\ own # "none" => pc = "wait"

\* Only an agent whose identity is not good is being healed, in the first catalog.
HealInv ==
  /\ at \in [Agents -> TaskStates]
  /\ key \in [Agents -> 0..2] /\ signed \in [Agents -> 0..2]
  /\ \A n \in Agents :
       at[n] \in {"clean", "wipe"} => pc = "catalog" /\ ~GoodIdentity(n)

\* Unless a script was left alone: none runs that has lost its client, and once
\* the NAT table is loaded it is in before.rules, or in the copy of the script
\* that is at work on it.
NatSafe ==
  /\ orphan = "none"
  /\ pc = "reload" => rules = "nat"
  /\ loaded = "nat" =>
       /\ own \in {"none", "cp"} => rules = "nat"
       /\ own \notin {"none", "cp"} => scratch.bak = "nat"

NatInv ==
  /\ scratch \in [nat : BOOLEAN, bak : Rules \cup {"none"}, new : Rules \cup {"none"}]
  /\ rules \in Rules
  /\ own \in ScriptAt
  /\ Router \in cut \/ NatSafe

PhasesInv == RunInv /\ HealInv /\ NatInv

\* The first step of a phase is none of the steps in its middle.
LEMMA FirstSteps ==
  ASSUME RunInv, NEW i \in 1..Len(order)
  PROVE  /\ FirstStep[order[i]] \in {"sign", "toml", "converge", "router", "ca"}
         /\ FirstStep[order[i]] \notin {"idle", "wait", "reload"}
<1>1. order \in Seq({"puppet", "backup", "nginx", "ufw", "pki"})
  BY OrdersAssumption DEF RunInv
<1>2. order[i] \in {"puppet", "backup", "nginx", "ufw", "pki"}
  BY <1>1
<1> QED
  BY <1>2 DEF FirstStep

LEMMA InitPhases == Init => PhasesInv
<1> SUFFICES ASSUME Init PROVE PhasesInv
  OBVIOUS
<1>1. order \in Orders /\ Len(order) \in Nat
  BY OrdersAssumption DEF Init
<1>2. RunInv
  BY <1>1 DEF Init, RunInv
<1>3. HealInv
  BY DEF Init, HealInv, GoodIdentity, TaskStates
<1>4. NatInv
  BY DEF Init, NatInv, NatSafe, NoScratch, Rules, ScriptAt
<1> QED
  BY <1>2, <1>3, <1>4 DEF PhasesInv

-----------------------------------------------------------------------------
(***************************************************************************)
(* Where the run goes: every step of the program but a task's enters a     *)
(* step of a phase, whose tasks start anew, or ends the run.               *)
(***************************************************************************)
LEMMA Entering ==
  ASSUME NEW s, Enter(s)
  PROVE  /\ pc' = s
         /\ at' \in [Agents -> TaskStates]
         /\ \A n \in Agents : at'[n] \notin {"clean", "wipe"}
BY DEF Enter, TaskStates

\* What Goto, EndRun and PhaseDone have in common.
Arrives ==
  /\ order' = order /\ phase' \in 0..Len(order)
  /\ phase' = 0 => pc' = "idle"
  /\ at' \in [Agents -> TaskStates]
  /\ \A n \in Agents : at'[n] \notin {"clean", "wipe"}

LEMMA GotoArrives ==
  ASSUME RunInv, NEW s, Goto(s), phase # 0
  PROVE  Arrives /\ pc' = s
BY Entering DEF RunInv, Goto, Arrives

LEMMA EndArrives ==
  ASSUME RunInv, EndRun
  PROVE  Arrives /\ pc' = "idle"
<1>1. Len(order) \in Nat
  BY OrdersAssumption DEF RunInv
<1> QED
  BY <1>1, Entering DEF RunInv, EndRun, Arrives

LEMMA DoneArrives ==
  ASSUME RunInv, PhaseDone
  PROVE  Arrives /\ pc' \notin {"wait", "reload"}
<1>1. Len(order) \in Nat
  BY OrdersAssumption DEF RunInv
<1>2. CASE phase = Len(order)
  BY <1>1, <1>2, Entering DEF RunInv, PhaseDone, Arrives
<1>3. CASE phase # Len(order)
  <2>1. phase + 1 \in 1..Len(order)
    BY <1>1, <1>3 DEF RunInv
  <2>2. Enter(FirstStep[order[phase + 1]]) /\ phase' = phase + 1 /\ order' = order
    BY <1>3 DEF PhaseDone
  <2> QED
    BY <2>1, <2>2, Entering, FirstSteps DEF Arrives
<1> QED
  BY <1>2, <1>3

LEMMA StartArrives ==
  ASSUME RunInv, NEW i, NEW resume, Start(i, resume)
  PROVE  Arrives /\ pc' \notin {"wait", "reload"}
<1>1. i \in 1..Len(order) /\ phase' = i /\ order' = order /\ Enter(FirstStep[order[i]])
  <2>1. Len(order) \in Nat
    BY OrdersAssumption DEF RunInv
  <2> QED
    BY <2>1 DEF Start
<1>2. pc' = FirstStep[order[i]]
  BY <1>1, Entering
<1> QED
  BY <1>1, <1>2, Entering, FirstSteps DEF Arrives

-----------------------------------------------------------------------------
(***************************************************************************)
(* Steps that touch neither the agents' identities nor the router.         *)
(***************************************************************************)
QuietStep ==
  /\ \/ Arrives /\ pc # "wait" /\ pc' \notin {"wait", "reload"}
     \/ UNCHANGED <<order, phase, pc, at>>
  /\ UNCHANGED <<key, signed, router>>
  /\ Router \in cut => Router \in cut'

LEMMA QuietKeeps == PhasesInv /\ QuietStep => PhasesInv'
<1> SUFFICES ASSUME PhasesInv, QuietStep PROVE PhasesInv'
  OBVIOUS
<1> USE DEF PhasesInv
<1>1. RunInv'
  BY DEF RunInv, QuietStep, Arrives, router
<1>2. HealInv'
  BY DEF HealInv, QuietStep, Arrives, GoodIdentity
<1>3. NatInv'
  BY DEF NatInv, NatSafe, QuietStep, router
<1> QED
  BY <1>1, <1>2, <1>3

LEMMA StoreQuiet ==
  ASSUME RunInv, WriteGarageConfig \/ EnsureContainer \/ WaitForS3 \/ EnsureBucket \/ StoreChanges
  PROVE  QuietStep
<1> USE DEF agent, router, hist
<1>1. CASE WriteGarageConfig
  BY <1>1, GotoArrives DEF WriteGarageConfig, QuietStep, RunInv
<1>2. CASE EnsureContainer
  BY <1>2, GotoArrives DEF EnsureContainer, QuietStep, RunInv
<1>3. CASE WaitForS3
  BY <1>3, GotoArrives, EndArrives DEF WaitForS3, QuietStep, RunInv
<1>4. CASE EnsureBucket
  BY <1>4, DoneArrives DEF EnsureBucket, QuietStep
<1>5. CASE StoreChanges
  BY <1>5 DEF StoreChanges, QuietStep, run
<1> QED
  BY <1>1, <1>2, <1>3, <1>4, <1>5

LEMMA TlsQuiet ==
  ASSUME RunInv,
         \/ VerifyNginx \/ InitCA \/ HealthOfCA \/ Issue \/ CopyCertificate \/ CopyKey
         \/ ReloadNginx
         \/ \E n \in Balancers : RenewStart(n) \/ RenewWrite(n) \/ BalancerReboots(n)
  PROVE  QuietStep
<1> USE DEF agent, router, hist
<1>1. CASE VerifyNginx
  BY <1>1, DoneArrives, EndArrives DEF VerifyNginx, QuietStep
<1>2. CASE InitCA
  BY <1>2, GotoArrives DEF InitCA, QuietStep, RunInv
<1>3. CASE HealthOfCA
  BY <1>3, GotoArrives, EndArrives DEF HealthOfCA, QuietStep, RunInv
<1>4. CASE Issue
  BY <1>4, Entering DEF Issue, QuietStep, RunInv, Arrives
<1>5. CASE CopyCertificate
  BY <1>5, GotoArrives DEF CopyCertificate, QuietStep, RunInv
<1>6. CASE CopyKey
  BY <1>6, GotoArrives DEF CopyKey, QuietStep, RunInv
<1>7. CASE ReloadNginx
  <2>1. pc = "nginx" /\ UNCHANGED <<key, signed, router, cut>>
    BY <1>7 DEF ReloadNginx
  <2>2. EndRun \/ PhaseDone \/ (Enter("crt") /\ UNCHANGED <<order, phase>>)
    BY <1>7 DEF ReloadNginx
  <2> QED
    BY <2>1, <2>2, DoneArrives, EndArrives, Entering DEF QuietStep, RunInv, Arrives
<1>8. ASSUME NEW n \in Balancers, RenewStart(n) \/ RenewWrite(n) \/ BalancerReboots(n)
      PROVE  QuietStep
  BY <1>8 DEF RenewStart, RenewWrite, BalancerReboots, QuietStep, run
<1> QED
  BY <1>1, <1>2, <1>3, <1>4, <1>5, <1>6, <1>7, <1>8

-----------------------------------------------------------------------------
(***************************************************************************)
(* The agents' steps.                                                      *)
(***************************************************************************)
LEMMA AgentKeys ==
  ASSUME HealInv, NEW n \in Agents
  PROVE  OwnKey(n) \in 1..2 /\ (~Mismatch(n) => signed[n] \in {0, OwnKey(n)})
<1>1. \E k \in {1, 2} : k # signed[n]
  OBVIOUS
<1>2. NewKey(n) \in {1, 2}
  BY <1>1 DEF NewKey
<1> QED
  BY <1>2 DEF OwnKey, Mismatch, HealInv

\* A task's step moves only its node; its node is in the first catalog when it
\* is being healed.
LEMMA TaskMoves ==
  ASSUME PhasesInv, NEW n \in Agents, NEW s \in TaskStates, TaskIs(n, s),
         UNCHANGED <<router, cut>>
  PROVE  /\ RunInv' /\ NatInv' /\ pc' = pc
         /\ at' \in [Agents -> TaskStates] /\ at' = [at EXCEPT ![n] = s]
<1> USE DEF PhasesInv, TaskIs
<1>1. RunInv'
  BY DEF RunInv, router
<1>2. NatInv'
  BY DEF NatInv, NatSafe, router
<1> QED
  BY <1>1, <1>2 DEF HealInv

LEMMA TaskKeeps ==
  ASSUME PhasesInv, NEW n \in Agents, Task(n) \/ TaskFails(n)
  PROVE  PhasesInv'
<1> USE DEF PhasesInv, TaskStates, hist, agent
<1>1. CASE AgentConverges(n)
  <2>1. /\ \E s \in {"ok", "bad"} : TaskIs(n, s)
        /\ ~Mismatch(n) /\ UNCHANGED <<router, cut>>
        /\ key' = [key EXCEPT ![n] = OwnKey(n)] /\ signed' = [signed EXCEPT ![n] = OwnKey(n)]
    BY <1>1 DEF AgentConverges, Catalog
  <2>2. HealInv'
    BY <2>1, TaskMoves, AgentKeys DEF HealInv, GoodIdentity
  <2> QED
    BY <2>1, <2>2, TaskMoves
<1>2. CASE AgentMismatch(n)
  <2>1. /\ \E s \in {"clean", "bad"} : TaskIs(n, s) /\ (s = "clean" => pc = "catalog")
        /\ Mismatch(n) /\ UNCHANGED <<router, cut, signed>>
        /\ key' = [key EXCEPT ![n] = OwnKey(n)]
    BY <1>2 DEF AgentMismatch
  <2>2. HealInv'
    BY <2>1, TaskMoves, AgentKeys DEF HealInv, GoodIdentity, Mismatch
  <2> QED
    BY <2>1, <2>2, TaskMoves
<1>3. CASE CleanCertificate(n)
  <2>1. /\ TaskIs(n, "wipe") /\ at[n] = "clean" /\ UNCHANGED <<router, cut, key>>
        /\ signed' \in {signed, [signed EXCEPT ![n] = 0]}
    BY <1>3 DEF CleanCertificate
  <2>2. HealInv'
    BY <2>1, TaskMoves DEF HealInv, GoodIdentity
  <2> QED
    BY <2>1, <2>2, TaskMoves
<1>4. CASE WipeSsl(n)
  <2>1. /\ TaskIs(n, "again") /\ UNCHANGED <<router, cut, signed>>
        /\ key' \in {key, [key EXCEPT ![n] = 0]}
    BY <1>4 DEF WipeSsl
  <2>2. HealInv'
    BY <2>1, TaskMoves DEF HealInv, GoodIdentity
  <2> QED
    BY <2>1, <2>2, TaskMoves
<1>5. CASE TrustRoot(n) \/ TaskFails(n)
  <2>1. /\ \E s \in {"ok", "bad"} : TaskIs(n, s)
        /\ UNCHANGED <<router, cut, key, signed>>
    BY <1>5 DEF TrustRoot, TaskFails
  <2>2. HealInv'
    BY <2>1, TaskMoves DEF HealInv, GoodIdentity
  <2> QED
    BY <2>1, <2>2, TaskMoves
<1> QED
  BY <1>1, <1>2, <1>3, <1>4, <1>5 DEF Task

LEMMA IdentitiesElsewhere ==
  ASSUME PhasesInv,
         SignPending \/ (\E n \in Agents : DaemonRun(n)) \/ (\E n \in Balancers : Recreate(n))
  PROVE  PhasesInv'
<1> USE DEF PhasesInv, hist
<1>1. CASE SignPending
  <2>1. /\ Arrives /\ pc = "sign" /\ pc' = "catalog" /\ UNCHANGED <<router, cut, key>>
        /\ signed' = [n \in Agents |-> IF signed[n] = 0 THEN key[n] ELSE signed[n]]
    BY <1>1, GotoArrives DEF SignPending, RunInv
  <2>2. RunInv' /\ NatInv'
    BY <2>1 DEF RunInv, NatInv, NatSafe, Arrives, router
  <2>3. HealInv'
    BY <2>1 DEF HealInv, Arrives
  <2> QED
    BY <2>2, <2>3
<1>2. ASSUME NEW n \in Agents, DaemonRun(n) PROVE PhasesInv'
  <2>1. /\ UNCHANGED <<run, router, cut>> /\ ~Mismatch(n) /\ (pc = "catalog" => ~Working(n))
        /\ key' = [key EXCEPT ![n] = OwnKey(n)] /\ signed' = [signed EXCEPT ![n] = OwnKey(n)]
    BY <1>2 DEF DaemonRun, Catalog
  <2>2. RunInv' /\ NatInv'
    BY <2>1 DEF RunInv, NatInv, NatSafe, router, run
  <2>3. HealInv'
    BY <2>1, AgentKeys DEF HealInv, GoodIdentity, Working, run
  <2> QED
    BY <2>2, <2>3
<1>3. ASSUME NEW n \in Balancers, Recreate(n) PROVE PhasesInv'
  <2>1. /\ UNCHANGED <<order, phase, pc, at, router, signed>>
        /\ key' = [key EXCEPT ![n] = 0] /\ cut' = cut \ {n} /\ n # Router
    BY <1>3, NodesAssumption DEF Recreate
  <2>2. RunInv' /\ NatInv'
    BY <2>1 DEF RunInv, NatInv, NatSafe, router
  <2>3. HealInv'
    BY <2>1 DEF HealInv, GoodIdentity, Agents
  <2> QED
    BY <2>2, <2>3
<1> QED
  BY <1>1, <1>2, <1>3

-----------------------------------------------------------------------------
(***************************************************************************)
(* The router's steps, and those that clean up in its /tmp.                *)
(***************************************************************************)
ScratchFiles == [nat : BOOLEAN, bak : Rules \cup {"none"}, new : Rules \cup {"none"}]

\* The identities and the tasks, where the router's steps leave them.
LEMMA AgentsQuiet ==
  ASSUME HealInv, UNCHANGED <<key, signed>>, Arrives \/ UNCHANGED <<pc, at>>
  PROVE  HealInv'
BY DEF HealInv, GoodIdentity, Arrives

LEMMA Scratch ==
  ASSUME NatInv
  PROVE  /\ CleanedUp \in ScratchFiles /\ NoScratch \in ScratchFiles
         /\ Restored \in Rules
         /\ scratch.bak = "nat" => Restored = "nat"
BY DEF NatInv, ScratchFiles, CleanedUp, NoScratch, Restored, Rules

\* A script that goes on keeps its own copy, and puts it back when it fails.
LEMMA ScriptGoesOn ==
  ASSUME NatInv, NEW s \in ScriptAt, NEW to, ScriptStep(s, to)
  PROVE  /\ to \in {"strip", "awk", "mv", "check", "ok", "failed"}
         /\ rules' \in Rules
         /\ to # "failed" => scratch' \in ScratchFiles
         /\ to = "ok" => rules' = "nat"
         /\ to = "failed" => s \in {"mv", "check"} /\ rules' = Restored
         /\ to \notin {"ok", "failed"} =>
              scratch'.bak = IF s = "cp" THEN rules ELSE scratch.bak
BY Scratch DEF ScriptStep, NatInv, ScratchFiles, Rules

LEMMA ScriptKeeps ==
  ASSUME PhasesInv, NatScript \/ NatScriptFails \/ OrphanScript
  PROVE  PhasesInv'
<1> USE DEF PhasesInv, hist, agent
<1>0. phase # 0 \/ own = "none"
  BY DEF RunInv
<1>1. CASE NatScript
  <2>1. PICK to \in {"strip", "awk", "mv", "check", "ok", "failed"} :
          /\ ScriptStep(own, to)
          /\ CASE to = "ok"     -> own' = "none" /\ Goto("reload")
               [] to = "failed" -> own' = "none" /\ EndRun /\ scratch' = CleanedUp
               [] OTHER         -> own' = to /\ UNCHANGED run
    BY <1>1 DEF NatScript
  <2>2. own # "none" /\ pc = "wait" /\ UNCHANGED <<key, signed, loaded, orphan, cut>>
    BY <1>1 DEF NatScript
  <2>3. own \in ScriptAt
    BY DEF NatInv
  <2>4. CASE to = "ok"
    <3>1. Arrives /\ pc' = "reload" /\ own' = "none"
      BY <2>1, <2>2, <2>4, <1>0, GotoArrives
    <3>2. rules' = "nat" /\ scratch' \in ScratchFiles
      BY <2>1, <2>3, <2>4, ScriptGoesOn
    <3>3. RunInv' /\ HealInv'
      BY <3>1, <2>2, AgentsQuiet DEF RunInv, Arrives
    <3>4. NatInv'
      BY <2>2, <3>1, <3>2 DEF NatInv, NatSafe, ScratchFiles, Rules, ScriptAt
    <3> QED
      BY <3>3, <3>4
  <2>5. CASE to = "failed"
    <3>1. Arrives /\ pc' = "idle" /\ own' = "none" /\ scratch' = CleanedUp
      BY <2>1, <2>5, EndArrives
    <3>2. rules' = Restored /\ own \in {"mv", "check"}
      BY <2>1, <2>3, <2>5, ScriptGoesOn
    <3>3. RunInv' /\ HealInv'
      BY <3>1, <2>2, AgentsQuiet DEF RunInv, Arrives
    <3>4. NatInv'
      BY <2>2, <3>1, <3>2, Scratch DEF NatInv, NatSafe, ScratchFiles, ScriptAt
    <3> QED
      BY <3>3, <3>4
  <2>6. CASE to \notin {"ok", "failed"}
    <3>1. own' = to /\ UNCHANGED run
      BY <2>1, <2>6
    <3>2. /\ rules' \in Rules /\ scratch' \in ScratchFiles
          /\ scratch'.bak = IF own = "cp" THEN rules ELSE scratch.bak
      BY <2>1, <2>3, <2>6, ScriptGoesOn
    <3>3. RunInv' /\ HealInv'
      BY <3>1, <2>2, AgentsQuiet DEF RunInv, run
    <3>4. to \in ScriptAt \ {"none", "cp"}
      BY <2>1, <2>6 DEF ScriptAt
    <3>5. NatInv'
      BY <2>2, <3>1, <3>2, <3>4 DEF NatInv, NatSafe, ScratchFiles, run
    <3> QED
      BY <3>3, <3>5
  <2> QED
    BY <2>4, <2>5, <2>6
<1>2. CASE NatScriptFails
  <2>1. /\ own \in {"strip", "awk", "mv"} /\ rules' = Restored /\ scratch' = CleanedUp
        /\ own' = "none" /\ EndRun
        /\ UNCHANGED <<key, signed, loaded, orphan, cut>>
    BY <1>2 DEF NatScriptFails, ScriptAborts
  <2>2. Arrives /\ pc' = "idle"
    BY <2>1, EndArrives
  <2>3. RunInv' /\ HealInv'
    BY <2>1, <2>2, AgentsQuiet DEF RunInv, Arrives
  <2>4. NatInv'
    BY <2>1, <2>2, Scratch DEF NatInv, NatSafe, ScratchFiles, ScriptAt
  <2> QED
    BY <2>3, <2>4
<1>3. CASE OrphanScript
  <2>1. PICK to \in {"strip", "awk", "mv", "check", "ok", "failed"} :
          ScriptStep(orphan, to) /\ (to = "failed" => UNCHANGED scratch)
    BY <1>3 DEF OrphanScript
  <2>2. orphan # "none" /\ UNCHANGED <<run, key, signed, own, cut>>
    BY <1>3 DEF OrphanScript
  <2>3. Router \in cut
    BY <2>2 DEF NatInv, NatSafe
  <2>4. RunInv' /\ HealInv'
    BY <2>2, AgentsQuiet DEF RunInv, run
  <2>5. rules' \in Rules /\ scratch' \in ScratchFiles
    BY <2>1, Scratch DEF ScriptStep, NatInv, ScratchFiles, Rules
  <2>6. NatInv'
    BY <2>2, <2>3, <2>5 DEF NatInv, ScratchFiles
  <2> QED
    BY <2>4, <2>6
<1> QED
  BY <1>1, <1>2, <1>3

LEMMA RouterKeeps ==
  ASSUME PhasesInv, UploadNatRules \/ ReloadUfw \/ RouterReboots
  PROVE  PhasesInv'
<1> USE DEF PhasesInv, hist, agent
<1>1. CASE UploadNatRules
  <2>1. /\ own' = "cp" /\ pc = "upload" /\ Arrives /\ pc' = "wait"
        /\ scratch' = [scratch EXCEPT !.nat = TRUE]
        /\ UNCHANGED <<key, signed, rules, loaded, orphan, cut>>
    BY <1>1, GotoArrives DEF UploadNatRules, RunInv
  <2>2. RunInv' /\ HealInv'
    BY <2>1, AgentsQuiet DEF RunInv, Arrives
  <2>3. phase' # 0 /\ own = "none"
    BY <1>1 DEF UploadNatRules, Goto, RunInv
  <2>4. NatInv'
    BY <2>1, <2>3 DEF NatInv, NatSafe, ScriptAt
  <2> QED
    BY <2>2, <2>4
<1>2. CASE ReloadUfw
  <2>1. /\ pc = "reload" /\ Arrives /\ pc' = "others" /\ loaded' = rules
        /\ UNCHANGED <<key, signed, rules, own, scratch, orphan, cut>>
    BY <1>2, GotoArrives DEF ReloadUfw, RunInv
  <2>2. own = "none"
    BY <2>1 DEF RunInv
  <2>3. RunInv' /\ HealInv'
    BY <2>1, <2>2, AgentsQuiet DEF RunInv, Arrives
  <2>4. NatInv'
    BY <2>1, <2>2 DEF NatInv, NatSafe
  <2> QED
    BY <2>3, <2>4
<1>3. CASE RouterReboots
  <2>1. /\ own' = "none" /\ orphan' = "none" /\ scratch' = NoScratch /\ loaded' = rules
        /\ cut' = IF own # "none" THEN cut \cup {Router} ELSE cut
        /\ UNCHANGED <<key, signed, rules>>
    BY <1>3 DEF RouterReboots
  <2>2. (Arrives /\ pc' = "idle") \/ UNCHANGED run
    BY <1>3, EndArrives DEF RouterReboots
  <2>3. RunInv' /\ HealInv'
    BY <2>1, <2>2, AgentsQuiet DEF RunInv, Arrives, run
  <2>4. NatInv'
    BY <2>1, <2>2, Scratch DEF NatInv, NatSafe, ScratchFiles, ScriptAt, run
  <2> QED
    BY <2>3, <2>4
<1> QED
  BY <1>1, <1>2, <1>3

\* No script of the run is at work while tasks are, and a run that fails or is
\* killed leaves a script alone or none.
LEMMA EndsKeep ==
  ASSUME PhasesInv, GatherAll \/ RunFails \/ KilledInStep
  PROVE  PhasesInv'
<1> USE DEF PhasesInv, hist, agent
<1>0. TasksOf("wait") = {}
  BY DEF TasksOf
<1>1. CASE GatherAll
  <2>1. TasksOf(pc) # {} /\ UNCHANGED <<key, signed, rules, loaded, own, orphan, cut>>
    BY <1>1 DEF GatherAll, Gathered
  <2>2. own = "none" /\ pc # "wait" /\ pc # "idle"
    BY <1>0, <2>1 DEF RunInv, TasksOf
  <2>3. scratch' \in {scratch, CleanedUp}
    BY <1>1 DEF GatherAll
  <2>4. EndRun \/ PhaseDone \/ \E s \in {"verify", "upload", "issue"} : Goto(s)
    <3>1. pc \in {"catalog", "others", "converge", "router", "trust"}
      BY <2>1 DEF TasksOf
    <3> QED
      BY <1>1, <3>1 DEF GatherAll
  <2>5. Arrives /\ pc' \notin {"wait", "reload"}
    BY <2>2, <2>4, EndArrives, DoneArrives, GotoArrives DEF RunInv
  <2>6. RunInv' /\ HealInv'
    BY <2>1, <2>2, <2>5, AgentsQuiet DEF RunInv, Arrives
  <2>7. NatInv'
    BY <2>1, <2>2, <2>3, <2>5, Scratch DEF NatInv, NatSafe, ScratchFiles
  <2> QED
    BY <2>6, <2>7
<1>2. CASE RunFails
  <2>1. /\ EndRun /\ own' = "none" /\ UNCHANGED <<key, signed, rules, loaded>>
        /\ scratch' \in {scratch, CleanedUp}
        /\ own = "none" => UNCHANGED <<orphan, cut>>
        /\ own # "none" => cut' = cut \cup {Router}
    BY <1>2 DEF RunFails, Deferred
  <2>2. Arrives /\ pc' = "idle"
    BY <2>1, EndArrives
  <2>3. RunInv' /\ HealInv'
    BY <2>1, <2>2, AgentsQuiet DEF RunInv, Arrives
  <2>4. NatInv'
    BY <2>1, <2>2, Scratch DEF NatInv, NatSafe, ScratchFiles, ScriptAt
  <2> QED
    BY <2>3, <2>4
<1>3. CASE KilledInStep
  <2>1. /\ EndRun /\ TasksOf(pc) # {} /\ scratch' \in {scratch, CleanedUp}
        /\ UNCHANGED <<key, signed, rules, loaded, own, orphan, cut>>
    BY <1>3 DEF KilledInStep, Deferred
  <2>2. Arrives /\ pc' = "idle" /\ own = "none"
    BY <1>0, <2>1, EndArrives DEF RunInv
  <2>3. RunInv' /\ HealInv'
    BY <2>1, <2>2, AgentsQuiet DEF RunInv, Arrives
  <2>4. NatInv'
    BY <2>1, <2>2, Scratch DEF NatInv, NatSafe, ScratchFiles
  <2> QED
    BY <2>3, <2>4
<1> QED
  BY <1>1, <1>2, <1>3

LEMMA StartKeeps ==
  ASSUME PhasesInv, NEW i, NEW resume, Start(i, resume)
  PROVE  PhasesInv'
<1>1. phase = 0 /\ UNCHANGED <<key, signed, router, cut>>
  BY DEF Start, agent, hist
<1>2. pc # "wait"
  BY <1>1 DEF PhasesInv, RunInv
<1>3. QuietStep
  BY <1>1, <1>2, StartArrives DEF PhasesInv, QuietStep
<1> QED
  BY <1>3, QuietKeeps

-----------------------------------------------------------------------------
LEMMA PhasesStep == PhasesInv /\ [Next]_vars => PhasesInv'
<1> SUFFICES ASSUME PhasesInv, [Next]_vars PROVE PhasesInv'
  OBVIOUS
<1>1. ASSUME NEW i \in 1..Len(order), NEW resume \in BOOLEAN, Start(i, resume)
      PROVE  PhasesInv'
  BY <1>1, StartKeeps
<1>2. CASE Program
  BY <1>2, QuietKeeps, StoreQuiet, TlsQuiet, TaskKeeps, IdentitiesElsewhere, ScriptKeeps,
     RouterKeeps, EndsKeep DEF Program, PhasesInv
<1>3. CASE NatScriptFails \/ OrphanScript
  BY <1>3, ScriptKeeps
<1>4. CASE RunFails \/ KilledInStep
  BY <1>4, EndsKeep
<1>5. CASE RouterReboots
  BY <1>5, RouterKeeps
<1>6. CASE StoreChanges
  BY <1>6, StoreQuiet, QuietKeeps DEF PhasesInv
<1>7. ASSUME NEW n \in Agents, TaskFails(n) \/ DaemonRun(n)
      PROVE  PhasesInv'
  BY <1>7, TaskKeeps, IdentitiesElsewhere
<1>8. ASSUME NEW n \in Balancers,
             RenewStart(n) \/ RenewWrite(n) \/ BalancerReboots(n) \/ Recreate(n)
      PROVE  PhasesInv'
  BY <1>8, TlsQuiet, QuietKeeps, IdentitiesElsewhere DEF PhasesInv
<1>9. CASE UNCHANGED vars
  <2>1. QuietStep
    BY <1>9 DEF vars, run, agent, hist, QuietStep
  <2> QED
    BY <2>1, QuietKeeps
<1> QED
  BY <1>1, <1>2, <1>3, <1>4, <1>5, <1>6, <1>7, <1>8, <1>9 DEF Next

-----------------------------------------------------------------------------
(***************************************************************************)
(* Which steps touch what the three properties speak of.                   *)
(***************************************************************************)
Frame ==
  /\ \/ UNCHANGED <<key, signed>> \/ SignPending
     \/ \E n \in Agents : \/ AgentConverges(n) \/ AgentMismatch(n) \/ CleanCertificate(n)
                          \/ WipeSsl(n) \/ DaemonRun(n)
     \/ \E n \in Balancers : Recreate(n)
  /\ UNCHANGED loaded \/ ReloadUfw \/ RouterReboots
  /\ UNCHANGED toml \/ WriteGarageConfig

LEMMA Frames == [Next]_vars => Frame
<1> SUFFICES ASSUME [Next]_vars PROVE Frame
  OBVIOUS
<1> USE DEF Frame, agent, router, store
<1>1. ASSUME NEW i \in 1..Len(order), NEW resume \in BOOLEAN, Start(i, resume) PROVE Frame
  BY <1>1 DEF Start
<1>2. CASE SignPending \/ GatherAll \/ VerifyNginx \/ InitCA \/ HealthOfCA
  BY <1>2 DEF SignPending, GatherAll, VerifyNginx, InitCA, HealthOfCA
<1>3. CASE WriteGarageConfig \/ EnsureContainer \/ WaitForS3 \/ EnsureBucket \/ StoreChanges
  BY <1>3 DEF WriteGarageConfig, EnsureContainer, WaitForS3, EnsureBucket, StoreChanges
<1>4. CASE UploadNatRules \/ NatScript \/ ReloadUfw \/ NatScriptFails \/ OrphanScript
  BY <1>4 DEF UploadNatRules, NatScript, ReloadUfw, NatScriptFails, OrphanScript
<1>5. CASE Issue \/ CopyCertificate \/ CopyKey \/ ReloadNginx
  BY <1>5 DEF Issue, CopyCertificate, CopyKey, ReloadNginx
<1>6. CASE RunFails \/ KilledInStep \/ RouterReboots
  BY <1>6 DEF RunFails, KilledInStep, RouterReboots
<1>7. ASSUME NEW n \in Agents, Task(n) \/ TaskFails(n) \/ DaemonRun(n) PROVE Frame
  BY <1>7 DEF Task, AgentConverges, AgentMismatch, CleanCertificate, WipeSsl, TrustRoot,
              TaskFails, DaemonRun
<1>8. ASSUME NEW n \in Balancers,
             RenewStart(n) \/ RenewWrite(n) \/ BalancerReboots(n) \/ Recreate(n)
      PROVE  Frame
  BY <1>8 DEF RenewStart, RenewWrite, BalancerReboots, Recreate
<1>9. CASE UNCHANGED vars
  BY <1>9 DEF vars
<1> QED
  BY <1>1, <1>2, <1>3, <1>4, <1>5, <1>6, <1>7, <1>8, <1>9 DEF Next, Program

\* An identity the CA has signed stays, unless its machine is created anew.
IdentityStays(n) == GoodIdentity(n)' \/ (phase = 0 /\ key'[n] = 0)

LEMMA HealthyStep ==
  ASSUME PhasesInv, [Next]_vars, NEW n \in Agents, GoodIdentity(n)
  PROVE  IdentityStays(n)
<1> USE DEF PhasesInv, HealInv, GoodIdentity, IdentityStays
<1>1. CASE UNCHANGED <<key, signed>>
  BY <1>1
<1>2. CASE SignPending
  BY <1>2 DEF SignPending
<1>3. ASSUME NEW m \in Agents, AgentConverges(m) \/ DaemonRun(m) PROVE IdentityStays(n)
  <2>1. key' = [key EXCEPT ![m] = OwnKey(m)] /\ signed' = [signed EXCEPT ![m] = OwnKey(m)]
    BY <1>3 DEF AgentConverges, DaemonRun, Catalog
  <2>2. n = m => OwnKey(m) = key[m]
    BY DEF OwnKey
  <2> QED
    BY <2>1, <2>2
<1>4. ASSUME NEW m \in Agents, AgentMismatch(m) PROVE IdentityStays(n)
  <2>1. key' = [key EXCEPT ![m] = OwnKey(m)] /\ signed' = signed /\ Mismatch(m)
    BY <1>4 DEF AgentMismatch
  <2>2. n # m
    BY <2>1 DEF Mismatch, OwnKey
  <2> QED
    BY <2>1, <2>2
<1>5. ASSUME NEW m \in Agents, CleanCertificate(m) \/ WipeSsl(m) PROVE IdentityStays(n)
  <2>1. at[m] \in {"clean", "wipe"}
    BY <1>5 DEF CleanCertificate, WipeSsl
  <2>2. n # m
    BY <2>1
  <2>3. /\ key' \in {key, [key EXCEPT ![m] = 0]}
        /\ signed' \in {signed, [signed EXCEPT ![m] = 0]}
    BY <1>5 DEF CleanCertificate, WipeSsl
  <2> QED
    BY <2>2, <2>3
<1>6. ASSUME NEW m \in Balancers, Recreate(m) PROVE IdentityStays(n)
  BY <1>6 DEF Recreate, Agents
<1> QED
  BY <1>1, <1>2, <1>3, <1>4, <1>5, <1>6, Frames DEF Frame

LEMMA NatStep ==
  ASSUME PhasesInv, [Next]_vars, loaded = "nat"
  PROVE  loaded' = "nat" \/ Router \in cut'
<1> USE DEF PhasesInv, NatInv, NatSafe
<1>1. CASE UNCHANGED loaded
  BY <1>1
<1>2. CASE ReloadUfw
  BY <1>2 DEF ReloadUfw, hist
<1>3. CASE RouterReboots
  BY <1>3 DEF RouterReboots
<1> QED
  BY <1>1, <1>2, <1>3, Frames DEF Frame

-----------------------------------------------------------------------------
(***************************************************************************)
(* After a rollout every balancer serves the new pair.                     *)
(***************************************************************************)
\* The steps that replace the pair of a balancer.
Rolling == {"crt", "key", "nginx"}
Serves(n, p) == crt[n] = p /\ tkey[n] = p /\ served[n] = p

\* While the pair is copied nothing counts as rolled out; the balancers before
\* lb serve the new pair, and the one at lb has what was copied to it.  After
\* the rollout all of them do, but those that a renewal met.
RolloutInv ==
  /\ DOMAIN crt = Balancers /\ DOMAIN tkey = Balancers
  /\ DOMAIN served = Balancers /\ DOMAIN renew = Balancers
  /\ lb \in DOMAIN LBs
  /\ last # None => \A n \in Balancers : n \in cut \/ Serves(n, last)
  /\ pc \in Rolling =>
       /\ last = None
       /\ bundle # None =>
            /\ \A i \in 1..lb - 1 : LBs[i] \in cut \/ Serves(LBs[i], bundle)
            /\ pc \in {"key", "nginx"} => LBs[lb] \in cut \/ crt[LBs[lb]] = bundle
            /\ pc = "nginx" => LBs[lb] \in cut \/ tkey[LBs[lb]] = bundle

\* A step that is none of the rollout's and touches no pair.
Aside ==
  /\ UNCHANGED <<crt, tkey, served, last>> /\ DOMAIN renew' = Balancers
  /\ cut \subseteq cut' /\ lb' \in DOMAIN LBs
  /\ pc' \notin Rolling \/ UNCHANGED <<pc, lb, bundle>>

LEMMA AsideKeeps == RolloutInv /\ Aside => RolloutInv'
<1> SUFFICES ASSUME RolloutInv, Aside PROVE RolloutInv'
  OBVIOUS
<1>1. \A n, p : Serves(n, p) => Serves(n, p)'
  BY DEF Aside, Serves
<1> QED
  BY <1>1 DEF RolloutInv, Aside, Rolling

LEMMA FirstBalancer == 1 \in DOMAIN LBs /\ \A i \in DOMAIN LBs : LBs[i] \in Balancers
<1>1. LBs \in Seq(Agents) /\ LBs # <<>>
  BY NodesAssumption
<1>2. Len(LBs) \in Nat /\ DOMAIN LBs = 1..Len(LBs) /\ Len(LBs) # 0
  BY <1>1
<1> QED
  BY <1>2 DEF Balancers

\* Where the run goes, as far as the rollout is concerned.
LEMMA RunAside ==
  ASSUME RunInv, lb \in DOMAIN LBs
  PROVE  /\ EndRun => lb' \in DOMAIN LBs /\ pc' \notin Rolling
         /\ PhaseDone => lb' \in DOMAIN LBs /\ pc' \notin Rolling
         /\ \A s : s \notin Rolling /\ Goto(s) => lb' \in DOMAIN LBs /\ pc' \notin Rolling
         /\ \A n, s : TaskIs(n, s) => UNCHANGED <<pc, lb, bundle>>
         /\ \A i \in 1..Len(order) : \A resume : Start(i, resume) => lb' \in DOMAIN LBs /\ pc' \notin Rolling
<1>1. EndRun => lb' \in DOMAIN LBs /\ pc' \notin Rolling
  BY FirstBalancer DEF EndRun, Enter, Rolling
<1>2. ASSUME PhaseDone PROVE lb' \in DOMAIN LBs /\ pc' \notin Rolling
  <2>1. Len(order) \in Nat /\ (phase # Len(order) => phase + 1 \in 1..Len(order))
    BY OrdersAssumption DEF RunInv
  <2>2. CASE phase = Len(order)
    BY <1>2, <2>2, FirstBalancer DEF PhaseDone, Enter, Rolling
  <2>3. CASE phase # Len(order)
    <3>1. pc' = FirstStep[order[phase + 1]]
      BY <1>2, <2>3 DEF PhaseDone, Enter
    <3>2. pc' \notin Rolling
      BY <2>1, <2>3, <3>1, FirstSteps DEF Rolling
    <3> QED
      BY <1>2, <3>2, FirstBalancer DEF PhaseDone
  <2> QED
    BY <2>2, <2>3
<1>3. \A s : s \notin Rolling /\ Goto(s) => lb' \in DOMAIN LBs /\ pc' \notin Rolling
  BY DEF Goto, Enter
<1>4. \A n, s : TaskIs(n, s) => UNCHANGED <<pc, lb, bundle>>
  BY DEF TaskIs
<1>5. ASSUME NEW i \in 1..Len(order), NEW resume, Start(i, resume)
      PROVE  lb' \in DOMAIN LBs /\ pc' \notin Rolling
  <2>1. pc' = FirstStep[order[i]] /\ lb' = lb
    BY <1>5 DEF Start, Enter
  <2> QED
    BY <2>1, FirstSteps DEF Rolling
<1> QED
  BY <1>1, <1>2, <1>3, <1>4, <1>5

\* Everything but the rollout itself, the agents, the renewals and the machines.
LEMMA OthersAside ==
  ASSUME RunInv, RolloutInv,
         \/ \E i \in 1..Len(order), resume \in BOOLEAN : Start(i, resume)
         \/ SignPending \/ GatherAll \/ VerifyNginx
         \/ WriteGarageConfig \/ EnsureContainer \/ WaitForS3 \/ EnsureBucket \/ StoreChanges
         \/ UploadNatRules \/ NatScript \/ ReloadUfw \/ InitCA \/ HealthOfCA
         \/ NatScriptFails \/ RunFails \/ KilledInStep \/ OrphanScript \/ RouterReboots
         \/ UNCHANGED vars
         \/ \E n \in Agents : \/ AgentMismatch(n) \/ CleanCertificate(n) \/ WipeSsl(n)
                              \/ TrustRoot(n) \/ TaskFails(n)
         \/ \E n \in Balancers : RenewStart(n)
  PROVE  Aside
<1>1. lb \in DOMAIN LBs /\ DOMAIN renew = Balancers
  BY DEF RolloutInv
<1>2. /\ "catalog" \notin Rolling /\ "fill" \notin Rolling /\ "box" \notin Rolling /\ "s3" \notin Rolling
      /\ "bucket" \notin Rolling /\ "verify" \notin Rolling /\ "upload" \notin Rolling
      /\ "wait" \notin Rolling /\ "reload" \notin Rolling /\ "others" \notin Rolling
      /\ "init" \notin Rolling /\ "health" \notin Rolling /\ "trust" \notin Rolling
      /\ "issue" \notin Rolling
  BY DEF Rolling
<1>3. UNCHANGED run => UNCHANGED <<pc, lb, bundle>>
  BY DEF run
<1> USE <1>1, <1>2, <1>3, RunAside DEF tls, hist, Aside
<1>4. ASSUME NEW i \in 1..Len(order), NEW resume \in BOOLEAN, Start(i, resume) PROVE Aside
  <2>1. lb' \in DOMAIN LBs /\ pc' \notin Rolling
    BY <1>4
  <2> QED
    BY <1>4, <2>1 DEF Start
<1>5. CASE SignPending \/ GatherAll \/ VerifyNginx
  <2>1. CASE GatherAll
    <3>1. \/ EndRun \/ PhaseDone \/ Goto("verify") \/ Goto("upload") \/ Goto("issue")
          \/ ~(pc \in {"catalog", "others", "converge", "router", "trust"})
      BY <2>1 DEF GatherAll
    <3>2. pc \in {"catalog", "others", "converge", "router", "trust"}
      BY <2>1 DEF GatherAll, Gathered, TasksOf
    <3>3. lb' \in DOMAIN LBs /\ pc' \notin Rolling
      BY <3>1, <3>2
    <3> QED
      BY <2>1, <3>3 DEF GatherAll
  <2> QED
    BY <1>5, <2>1 DEF SignPending, VerifyNginx
<1>6. CASE WriteGarageConfig \/ EnsureContainer \/ WaitForS3 \/ EnsureBucket \/ StoreChanges
  BY <1>6 DEF WriteGarageConfig, EnsureContainer, WaitForS3, EnsureBucket, StoreChanges
<1>7. CASE UploadNatRules \/ ReloadUfw \/ InitCA \/ HealthOfCA
  BY <1>7 DEF UploadNatRules, ReloadUfw, InitCA, HealthOfCA
<1>8. CASE NatScript \/ NatScriptFails \/ OrphanScript
  BY <1>8 DEF NatScript, NatScriptFails, ScriptAborts, OrphanScript
<1>9. CASE RunFails \/ KilledInStep
  BY <1>9 DEF RunFails, KilledInStep
<1>10. CASE RouterReboots
  BY <1>10 DEF RouterReboots
<1>11. CASE UNCHANGED vars
  BY <1>11 DEF vars
<1>12. ASSUME NEW n \in Agents,
              AgentMismatch(n) \/ CleanCertificate(n) \/ WipeSsl(n) \/ TrustRoot(n) \/ TaskFails(n)
       PROVE  Aside
  BY <1>12 DEF AgentMismatch, CleanCertificate, WipeSsl, TrustRoot, TaskFails
<1>13. ASSUME NEW n \in Balancers, RenewStart(n) PROVE Aside
  BY <1>13 DEF RenewStart
<1> QED
  BY <1>4, <1>5, <1>6, <1>7, <1>8, <1>9, <1>10, <1>11, <1>12, <1>13

\* A step beside the rollout that keeps what the balancers have of the new pair.
LEMMA PairsKept ==
  ASSUME RolloutInv, UNCHANGED <<pc, lb, bundle, last>>, cut \subseteq cut',
         DOMAIN crt' = Balancers /\ DOMAIN tkey' = Balancers,
         DOMAIN served' = Balancers /\ DOMAIN renew' = Balancers,
         \A m \in Balancers : \A p : p # None =>
           \/ m \in cut'
           \/ /\ Serves(m, p) => Serves(m, p)'
              /\ crt[m] = p => crt'[m] = p
              /\ crt[m] = p /\ tkey[m] = p => tkey'[m] = p
  PROVE  RolloutInv'
<1>1. last # None => \A n \in Balancers : n \in cut' \/ Serves(n, last)'
  <2>1. ASSUME NEW p, p = last, p # None PROVE \A n \in Balancers : n \in cut' \/ Serves(n, p)'
    BY <2>1 DEF RolloutInv
  <2> QED
    BY <2>1 DEF Serves
<1>2. ASSUME pc \in Rolling, bundle # None
      PROVE  /\ \A i \in 1..lb - 1 : LBs[i] \in cut' \/ Serves(LBs[i], bundle)'
             /\ pc \in {"key", "nginx"} => LBs[lb] \in cut' \/ crt'[LBs[lb]] = bundle
             /\ pc = "nginx" => LBs[lb] \in cut' \/ tkey'[LBs[lb]] = bundle
  <2>1. \A i \in 1..lb : LBs[i] \in Balancers
    <3>1. lb \in 1..Len(LBs) /\ Len(LBs) \in Nat /\ DOMAIN LBs = 1..Len(LBs)
      BY NodesAssumption DEF RolloutInv
    <3> QED
      BY <3>1, FirstBalancer
  <2>2. lb \in Nat /\ lb \in 1..lb
    BY NodesAssumption DEF RolloutInv
  <2>3. ASSUME NEW i \in 1..lb - 1 PROVE LBs[i] \in cut' \/ Serves(LBs[i], bundle)'
    <3>1. LBs[i] \in Balancers
      BY <2>1, <2>2
    <3> QED
      BY <1>2, <3>1 DEF RolloutInv
  <2>4. LBs[lb] \in Balancers
    BY <2>1, <2>2
  <2>5. pc \in {"key", "nginx"} => LBs[lb] \in cut' \/ crt'[LBs[lb]] = bundle
    BY <1>2, <2>4 DEF RolloutInv
  <2>6. pc = "nginx" => LBs[lb] \in cut' \/ tkey'[LBs[lb]] = bundle
    BY <1>2, <2>4 DEF RolloutInv
  <2> QED
    BY <2>3, <2>5, <2>6
<1> QED
  BY <1>1, <1>2 DEF RolloutInv

\* Puppet makes a pair only where there is none, and starts nginx with the one
\* that is there.
LEMMA CatalogKeeps ==
  ASSUME RolloutInv, NEW n \in Agents, Catalog(n), UNCHANGED <<pc, lb, bundle, last, cut, renew>>
  PROVE  RolloutInv'
<1>1. CASE n = Router
  BY <1>1, AsideKeeps DEF Catalog, tls, Aside, RolloutInv
<1>2. CASE n # Router
  <2>1. n \in Balancers
    BY <1>2 DEF Agents
  <2>2. LET pair == IF crt[n] = None THEN SelfSigned ELSE crt[n]
        IN  /\ crt' = [crt EXCEPT ![n] = pair]
            /\ tkey' = [tkey EXCEPT ![n] = IF crt[n] = None THEN pair ELSE @]
            /\ served' = [served EXCEPT ![n] = IF @ = None /\ (crt[n] = None \/ ~Mixed(n)) THEN pair ELSE @]
    BY <1>2 DEF Catalog
  <2>3. \A m \in Balancers : \A p : p # None =>
          /\ Serves(m, p) => Serves(m, p)'
          /\ crt[m] = p => crt'[m] = p
          /\ crt[m] = p /\ tkey[m] = p => tkey'[m] = p
    BY <2>1, <2>2 DEF RolloutInv, Serves
  <2>4. /\ DOMAIN crt' = Balancers /\ DOMAIN tkey' = Balancers
        /\ DOMAIN served' = Balancers /\ DOMAIN renew' = Balancers
    BY <2>1, <2>2 DEF RolloutInv
  <2> QED
    BY <2>3, <2>4, PairsKept
<1> QED
  BY <1>1, <1>2

\* A renewal that writes over another pair than it read is one that met the
\* phase; a reboot starts nginx with the pair that is there.
LEMMA RenewalsKeep ==
  ASSUME RunInv, RolloutInv, NEW n \in Balancers,
         RenewWrite(n) \/ BalancerReboots(n) \/ Recreate(n)
  PROVE  RolloutInv'
<1>1. CASE RenewWrite(n)
  <2>1. /\ crt' = [crt EXCEPT ![n] = renew[n]] /\ tkey' = tkey
        /\ served' = [served EXCEPT ![n] = IF @ # None /\ tkey[n] = renew[n] THEN renew[n] ELSE @]
        /\ renew' = [renew EXCEPT ![n] = None]
        /\ crt[n] # renew[n] \/ tkey[n] # renew[n] => n \in cut'
        /\ cut \subseteq cut' /\ UNCHANGED <<pc, lb, bundle, last>>
    BY <1>1 DEF RenewWrite, run
  <2>2. /\ DOMAIN crt' = Balancers /\ DOMAIN tkey' = Balancers
        /\ DOMAIN served' = Balancers /\ DOMAIN renew' = Balancers
    BY <2>1 DEF RolloutInv
  <2>3. \A m \in Balancers : \A p : p # None =>
          \/ m \in cut'
          \/ /\ Serves(m, p) => Serves(m, p)'
             /\ crt[m] = p => crt'[m] = p
             /\ crt[m] = p /\ tkey[m] = p => tkey'[m] = p
    BY <2>1 DEF RolloutInv, Serves
  <2> QED
    BY <2>1, <2>2, <2>3, PairsKept
<1>2. CASE BalancerReboots(n)
  <2>1. /\ served' = [served EXCEPT ![n] = IF Mixed(n) THEN None ELSE crt[n]]
        /\ renew' = [renew EXCEPT ![n] = None]
        /\ UNCHANGED <<crt, tkey, pc, lb, bundle, last, cut>>
    BY <1>2 DEF BalancerReboots, run, hist
  <2>2. DOMAIN served' = Balancers /\ DOMAIN renew' = Balancers
    BY <2>1 DEF RolloutInv
  <2>3. \A m \in Balancers : \A p : Serves(m, p) => Serves(m, p)'
    BY <2>1 DEF RolloutInv, Serves, Mixed
  <2> QED
    BY <2>1, <2>2, <2>3, PairsKept DEF RolloutInv
<1>3. CASE Recreate(n)
  <2>1. pc' = "idle" /\ last' = None /\ lb' = lb
    BY <1>3 DEF Recreate, RunInv
  <2>2. /\ DOMAIN crt' = Balancers /\ DOMAIN tkey' = Balancers
        /\ DOMAIN served' = Balancers /\ DOMAIN renew' = Balancers
    BY <1>3 DEF Recreate, RolloutInv
  <2> QED
    BY <2>1, <2>2 DEF RolloutInv, Rolling
<1> QED
  BY <1>1, <1>2, <1>3

\* The copies to one balancer after the other.
LEMMA CopiesKeep ==
  ASSUME RunInv, RolloutInv, Issue \/ CopyCertificate \/ CopyKey
  PROVE  RolloutInv'
<1>1. lb \in 1..Len(LBs) /\ Len(LBs) \in Nat /\ DOMAIN LBs = 1..Len(LBs)
  BY NodesAssumption DEF RolloutInv
<1>2. \A i \in 1..lb : LBs[i] \in Balancers
  BY <1>1, FirstBalancer
<1>3. CASE Issue
  <2>1. lb' = 1 /\ last' = None /\ pc' = "crt" /\ UNCHANGED <<crt, tkey, served, renew>>
    BY <1>3 DEF Issue, Enter, tls
  <2> QED
    BY <2>1, FirstBalancer DEF RolloutInv
<1>4. CASE CopyCertificate
  <2>1. /\ crt' = [crt EXCEPT ![LBs[lb]] = bundle] /\ pc = "crt" /\ pc' = "key"
        /\ UNCHANGED <<lb, bundle, last, tkey, served, renew, cut>>
    BY <1>4 DEF CopyCertificate, Goto, Enter, hist
  <2>2. LBs[lb] \in Balancers
    BY <1>1, <1>2
  <2>3. DOMAIN crt' = Balancers /\ crt'[LBs[lb]] = bundle
    BY <2>1, <2>2 DEF RolloutInv
  <2>4. last = None
    BY <2>1 DEF RolloutInv, Rolling
  <2>5. bundle # None => \A i \in 1..lb - 1 : LBs[i] \in cut \/ Serves(LBs[i], bundle)'
    <3>1. SUFFICES ASSUME bundle # None, NEW i \in 1..lb - 1, LBs[i] \notin cut
                   PROVE  Serves(LBs[i], bundle)'
      OBVIOUS
    <3>2. Serves(LBs[i], bundle) /\ LBs[i] \in Balancers
      BY <1>1, <1>2, <2>1, <3>1 DEF RolloutInv, Rolling
    <3> QED
      BY <2>1, <3>2 DEF Serves, RolloutInv
  <2> QED
    BY <2>1, <2>3, <2>4, <2>5 DEF RolloutInv
<1>5. CASE CopyKey
  <2>1. /\ tkey' = [tkey EXCEPT ![LBs[lb]] = bundle] /\ pc = "key" /\ pc' = "nginx"
        /\ UNCHANGED <<lb, bundle, last, crt, served, renew, cut>>
    BY <1>5 DEF CopyKey, Goto, Enter, hist
  <2>2. LBs[lb] \in Balancers
    BY <1>1, <1>2
  <2>3. DOMAIN tkey' = Balancers /\ tkey'[LBs[lb]] = bundle
    BY <2>1, <2>2 DEF RolloutInv
  <2>4. last = None
    BY <2>1 DEF RolloutInv, Rolling
  <2>5. bundle # None => /\ \A i \in 1..lb - 1 : LBs[i] \in cut \/ Serves(LBs[i], bundle)'
                         /\ LBs[lb] \in cut \/ crt[LBs[lb]] = bundle
    <3>1. SUFFICES ASSUME bundle # None
                   PROVE  /\ \A i \in 1..lb - 1 : LBs[i] \in cut \/ Serves(LBs[i], bundle)'
                          /\ LBs[lb] \in cut \/ crt[LBs[lb]] = bundle
      OBVIOUS
    <3>2. \A i \in 1..lb - 1 : LBs[i] \in cut \/ Serves(LBs[i], bundle)
      BY <2>1, <3>1 DEF RolloutInv, Rolling
    <3>3. \A i \in 1..lb - 1 : LBs[i] \in Balancers
      BY <1>1, <1>2
    <3>4. \A i \in 1..lb - 1 : LBs[i] \in cut \/ Serves(LBs[i], bundle)'
      BY <2>1, <3>2, <3>3 DEF Serves, RolloutInv
    <3> QED
      BY <2>1, <3>1, <3>4 DEF RolloutInv, Rolling
  <2> QED
    BY <2>1, <2>3, <2>4, <2>5 DEF RolloutInv
<1> QED
  BY <1>3, <1>4, <1>5

\* nginx loads the pair, and after the last balancer the rollout counts.
LEMMA ReloadKeeps ==
  ASSUME RunInv, RolloutInv, ReloadNginx PROVE RolloutInv'
<1>1. lb \in 1..Len(LBs) /\ Len(LBs) \in Nat /\ DOMAIN LBs = 1..Len(LBs)
  BY NodesAssumption DEF RolloutInv
<1>2. \A i \in 1..Len(LBs) : LBs[i] \in Balancers
  BY <1>1, FirstBalancer
<1>3. /\ pc = "nginx" /\ UNCHANGED <<crt, tkey, renew, cut>>
      /\ served' = [served EXCEPT ![LBs[lb]] = Reloaded(LBs[lb])]
  BY DEF ReloadNginx
<1>4. DOMAIN served' = Balancers /\ last = None
  BY <1>1, <1>2, <1>3 DEF RolloutInv, Rolling
<1>5. CASE EndRun /\ UNCHANGED last
  BY <1>3, <1>4, <1>5, RunAside DEF RolloutInv
<1>6. ASSUME NEW p, p = bundle, p # None, ~Mixed(LBs[lb]), served[LBs[lb]] # None
      PROVE  \A i \in 1..lb : LBs[i] \in cut \/ Serves(LBs[i], p)'
  <2>1. /\ \A i \in 1..lb - 1 : LBs[i] \in cut \/ Serves(LBs[i], p)
        /\ LBs[lb] \in cut \/ (crt[LBs[lb]] = p /\ tkey[LBs[lb]] = p)
    BY <1>3, <1>6 DEF RolloutInv, Rolling
  <2>2. served'[LBs[lb]] = crt[LBs[lb]]
    BY <1>1, <1>2, <1>3, <1>6 DEF Reloaded, RolloutInv
  <2>3. \A m \in Balancers : m # LBs[lb] => served'[m] = served[m]
    BY <1>3 DEF RolloutInv
  <2>4. ASSUME NEW i \in 1..lb - 1 PROVE LBs[i] \in cut \/ Serves(LBs[i], p)'
    <3>1. LBs[i] \in Balancers
      BY <1>1, <1>2
    <3> QED
      BY <1>3, <2>1, <2>2, <2>3, <3>1 DEF Serves
  <2>5. ASSUME NEW i, i = lb PROVE LBs[i] \in cut \/ Serves(LBs[i], p)'
    BY <1>3, <2>1, <2>2, <2>5 DEF Serves
  <2>6. \A i \in 1..lb : i = lb \/ i \in 1..lb - 1
    BY <1>1
  <2> QED
    BY <2>4, <2>5, <2>6
<1>7. CASE /\ ~Mixed(LBs[lb]) /\ served[LBs[lb]] # None /\ lb = Len(LBs)
           /\ PhaseDone /\ last' = bundle
  <2>1. pc' \notin Rolling /\ lb' \in DOMAIN LBs
    BY <1>1, <1>7, RunAside
  <2>2. \A n \in Balancers : \E i \in 1..lb : LBs[i] = n
    BY <1>1, <1>7 DEF Balancers
  <2>3. ASSUME NEW p, p = bundle, p # None PROVE \A n \in Balancers : n \in cut \/ Serves(n, p)'
    BY <1>6, <1>7, <2>2, <2>3
  <2>4. last' # None => \A n \in Balancers : n \in cut' \/ Serves(n, last)'
    BY <1>3, <1>7, <2>3 DEF Serves
  <2> QED
    BY <1>3, <1>4, <2>1, <2>4 DEF RolloutInv
<1>8. CASE /\ ~Mixed(LBs[lb]) /\ served[LBs[lb]] # None /\ lb # Len(LBs)
           /\ lb' = lb + 1 /\ Enter("crt") /\ UNCHANGED <<bundle, last>>
  <2>1. pc' = "crt" /\ lb' = lb + 1 /\ lb # Len(LBs)
    BY <1>8 DEF Enter
  <2>2. /\ lb' \in 1..Len(LBs)
        /\ lb' - 1 = lb
    <3>1. \A k \in Nat : \A i \in 1..k : i # k => i + 1 \in 1..k /\ (i + 1) - 1 = i
      OBVIOUS
    <3>2. lb + 1 \in 1..Len(LBs) /\ (lb + 1) - 1 = lb
      BY <1>1, <2>1, <3>1, Zenon
    <3>3. ASSUME NEW i, i = lb + 1 PROVE i \in 1..Len(LBs) /\ i - 1 = lb
      BY <3>2, <3>3
    <3> QED
      BY <2>1, <3>3
  <2>3. ASSUME NEW p, p = bundle, p # None
        PROVE  \A i \in 1..lb' - 1 : LBs[i] \in cut' \/ Serves(LBs[i], p)'
    BY <1>3, <1>6, <1>8, <2>2, <2>3
  <2>4. bundle' # None => \A i \in 1..lb' - 1 : LBs[i] \in cut' \/ Serves(LBs[i], bundle)'
    BY <1>8, <2>3 DEF Serves
  <2> QED
    BY <1>1, <1>3, <1>4, <1>8, <2>1, <2>4 DEF RolloutInv
<1> QED
  BY <1>5, <1>7, <1>8 DEF ReloadNginx

LEMMA RolloutStep == RunInv /\ RolloutInv /\ [Next]_vars => RolloutInv'
<1> SUFFICES ASSUME RunInv, RolloutInv, [Next]_vars PROVE RolloutInv'
  OBVIOUS
<1>1. CASE Aside
  BY <1>1, AsideKeeps
<1>2. ASSUME NEW n \in Agents, AgentConverges(n) \/ DaemonRun(n) PROVE RolloutInv'
  BY <1>2, CatalogKeeps DEF AgentConverges, DaemonRun, TaskIs, run, hist
<1>3. ASSUME NEW n \in Balancers, RenewWrite(n) \/ BalancerReboots(n) \/ Recreate(n)
      PROVE  RolloutInv'
  BY <1>3, RenewalsKeep
<1>4. CASE Issue \/ CopyCertificate \/ CopyKey
  BY <1>4, CopiesKeep
<1>5. CASE ReloadNginx
  BY <1>5, ReloadKeeps
<1> QED
  BY <1>1, <1>2, <1>3, <1>4, <1>5, OthersAside DEF Next, Program, Task

LEMMA RolloutInit == Init => RolloutInv
BY FirstBalancer DEF Init, RolloutInv, Rolling

-----------------------------------------------------------------------------
(***************************************************************************)
(* A fault costs at most one balancer.                                     *)
(***************************************************************************)
Down == {n \in Balancers : served[n] = None}

\* What counts as recorded: the phases before next, which no running phase is
\* beyond; the nginx phase has two steps of its own and ends with its check.
ProgressInv ==
  /\ next \in 1..Len(order) + 1 /\ phase <= next
  /\ phase # 0 /\ order[phase] = "nginx" => pc \in {"converge", "verify"}

\* nginx is never asked to load a pair that is not there.
PairThere ==
  /\ pc \in Rolling => bundle # None
  /\ pc \in {"key", "nginx"} => crt[LBs[lb]] # None

UpInv ==
  /\ ProgressInv /\ PairThere
  /\ faults \in Nat
  /\ Recorded("nginx") => AtMost(Down, faults)

AllUp == \A n \in Balancers : served[n] # None

\* nginx counts as recorded only since it was, or was checked just now.
Earned == ProgressInv' /\ (Recorded("nginx")' => Recorded("nginx") \/ AllUp)

LEMMA InitUp == Init => UpInv
<1> SUFFICES ASSUME Init PROVE UpInv
  OBVIOUS
<1>1. Len(order) \in Nat
  BY OrdersAssumption DEF Init
<1> QED
  BY <1>1 DEF Init, UpInv, ProgressInv, PairThere, Rolling, Recorded

\* Where a run goes, as far as the checkpoint is concerned.
LEMMA RunEarned ==
  ASSUME RunInv, ProgressInv
  PROVE  /\ EndRun => Earned
         /\ UNCHANGED <<order, phase, pc, next>> => Earned
         /\ \A s : Goto(s) /\ (pc \in {"converge", "verify"} => s = "verify") => Earned
         /\ \A n, s : TaskIs(n, s) => Earned
         /\ \A i \in 1..Len(order) : \A resume : Start(i, resume) => Earned
         /\ PhaseDone /\ phase # 0 /\ (order[phase] = "nginx" => AllUp) => Earned
<1> USE DEF Earned, ProgressInv
<1>0. Len(order) \in Nat /\ phase \in 0..Len(order) /\ next \in 1..Len(order) + 1
  BY OrdersAssumption DEF RunInv
<1>1. EndRun => Earned
  BY <1>0 DEF EndRun, Recorded
<1>2. UNCHANGED <<order, phase, pc, next>> => Earned
  BY DEF Recorded
<1>3. ASSUME NEW s, Goto(s), pc \in {"converge", "verify"} => s = "verify" PROVE Earned
  BY <1>3 DEF Goto, Enter, Recorded
<1>4. \A n, s : TaskIs(n, s) => Earned
  BY <1>2 DEF TaskIs
<1>5. ASSUME NEW i \in 1..Len(order), NEW resume, Start(i, resume) PROVE Earned
  <2>1. phase' = i /\ order' = order /\ next' \in {1, next} /\ i <= next' /\ pc' = FirstStep[order[i]]
    BY <1>0, <1>5 DEF Start, Enter
  <2>2. order'[phase'] = "nginx" => pc' = "converge"
    BY <2>1 DEF FirstStep
  <2>3. ProgressInv'
    BY <1>0, <2>1, <2>2
  <2>4. \A k \in 1..next' - 1 : k \in 1..next - 1
    <3>1. \A q \in {1, next} : \A k \in 1..q - 1 : k \in 1..next - 1
      BY <1>0
    <3> QED
      BY <2>1, <3>1, Zenon
  <2>5. Recorded("nginx")' => Recorded("nginx")
    BY <2>1, <2>4 DEF Recorded
  <2> QED
    BY <2>3, <2>5
<1>6. ASSUME PhaseDone, phase # 0, order[phase] = "nginx" => AllUp PROVE Earned
  <2>1. order' = order /\ next' = IF next > phase THEN next ELSE phase + 1
    BY <1>6 DEF PhaseDone
  <2>2. next' \in 1..Len(order) + 1 /\ next <= next'
        /\ \A i \in 1..next' - 1 : i \in 1..next - 1 \/ i = phase
    BY <1>0, <1>6, <2>1
  <2>3. Recorded("nginx")' => Recorded("nginx") \/ AllUp
    BY <1>6, <2>1, <2>2 DEF Recorded
  <2>4. CASE phase = Len(order)
    BY <1>0, <1>6, <2>1, <2>2, <2>3, <2>4 DEF PhaseDone
  <2>5. CASE phase # Len(order)
    <3>1. phase' = phase + 1 /\ pc' = FirstStep[order[phase + 1]]
      BY <1>6, <2>5 DEF PhaseDone, Enter
    <3>2. phase' <= next'
      BY <1>0, <2>1, <3>1
    <3>3. order[phase'] = "nginx" => pc' = "converge"
      BY <3>1 DEF FirstStep
    <3> QED
      BY <2>1, <2>2, <2>3, <3>2, <3>3
  <2> QED
    BY <2>4, <2>5
<1> QED
  BY <1>1, <1>2, <1>3, <1>4, <1>5, <1>6

LEMMA EveryStepEarns == ASSUME RunInv, ProgressInv, [Next]_vars PROVE Earned
<1> USE RunEarned
<1>0. pc # "idle" => phase # 0
  BY DEF RunInv
<1>1. ASSUME NEW i \in 1..Len(order), NEW resume \in BOOLEAN, Start(i, resume) PROVE Earned
  BY <1>1
<1>2. CASE GatherAll
  <2>1. \/ EndRun \/ Goto("verify")
        \/ PhaseDone /\ pc \in {"catalog", "others"}
        \/ Goto("upload") /\ pc = "router"
        \/ Goto("issue") /\ pc = "trust"
        \/ ~(pc \in {"catalog", "others", "converge", "router", "trust"})
    BY <1>2 DEF GatherAll
  <2>2. pc \in {"catalog", "others", "converge", "router", "trust"}
    BY <1>2 DEF GatherAll, Gathered, TasksOf
  <2> QED
    BY <1>0, <2>1, <2>2 DEF ProgressInv
<1>3. CASE VerifyNginx
  <2>1. EndRun \/ (PhaseDone /\ AllUp)
    BY <1>3 DEF VerifyNginx, AllUp
  <2> QED
    BY <1>0, <1>3, <2>1 DEF VerifyNginx
<1>4. CASE SignPending \/ WriteGarageConfig \/ EnsureContainer \/ WaitForS3
  BY <1>4 DEF SignPending, WriteGarageConfig, EnsureContainer, WaitForS3
<1>5. CASE EnsureBucket
  BY <1>0, <1>5 DEF EnsureBucket, ProgressInv
<1>6. CASE UploadNatRules \/ ReloadUfw \/ InitCA \/ HealthOfCA \/ CopyCertificate \/ CopyKey
  BY <1>6 DEF UploadNatRules, ReloadUfw, InitCA, HealthOfCA, CopyCertificate, CopyKey
<1>7. CASE NatScript
  <2>1. pc = "wait" /\ (EndRun \/ Goto("reload") \/ UNCHANGED run)
    BY <1>7 DEF NatScript
  <2> QED
    BY <2>1 DEF run
<1>8. CASE Issue
  BY <1>8 DEF Issue, Enter, Earned, ProgressInv, Recorded
<1>9. CASE ReloadNginx
  <2>1. pc = "nginx"
        /\ (EndRun \/ PhaseDone \/ (Enter("crt") /\ UNCHANGED <<order, phase, next>>))
    BY <1>9 DEF ReloadNginx
  <2>2. Enter("crt") /\ UNCHANGED <<order, phase, next>> => Earned
    BY <2>1 DEF Enter, Earned, ProgressInv, Recorded
  <2> QED
    BY <1>0, <2>1, <2>2 DEF ProgressInv
<1>10. CASE NatScriptFails \/ RunFails \/ KilledInStep
  BY <1>10 DEF NatScriptFails, ScriptAborts, RunFails, KilledInStep
<1>11. CASE OrphanScript \/ RouterReboots \/ StoreChanges
  BY <1>11 DEF OrphanScript, RouterReboots, StoreChanges, run
<1>12. ASSUME NEW n \in Agents, Task(n) \/ TaskFails(n) \/ DaemonRun(n) PROVE Earned
  BY <1>12 DEF Task, AgentConverges, AgentMismatch, CleanCertificate, WipeSsl, TrustRoot,
               TaskFails, DaemonRun, run
<1>13. ASSUME NEW n \in Balancers, RenewStart(n) \/ RenewWrite(n) \/ BalancerReboots(n) PROVE Earned
  BY <1>13 DEF RenewStart, RenewWrite, BalancerReboots, run
<1>14. ASSUME NEW n \in Balancers, Recreate(n) PROVE Earned
  <2>1. Len(order) \in Nat
    BY OrdersAssumption DEF RunInv
  <2> QED
    BY <1>14, <2>1 DEF Recreate, Earned, ProgressInv, Recorded
<1>15. CASE UNCHANGED vars
  BY <1>15 DEF vars, run
<1> QED
  BY <1>1, <1>2, <1>3, <1>4, <1>5, <1>6, <1>7, <1>8, <1>9, <1>10, <1>11, <1>12, <1>13,
     <1>14, <1>15 DEF Next, Program

\* Nothing but a reboot or a new machine stops nginx on a balancer.
NothingStops ==
  /\ PairThere' /\ DOMAIN served' = Balancers
  /\ \A n \in Balancers : served[n] # None => served'[n] # None

LEMMA FaultsGrow ==
  ASSUME [Next]_vars
  PROVE  faults' = faults \/ Fault
<1>1. ASSUME NEW i \in 1..Len(order), NEW resume \in BOOLEAN, Start(i, resume)
      PROVE  faults' = faults
  BY <1>1 DEF Start
<1>2. CASE SignPending \/ GatherAll \/ VerifyNginx \/ InitCA \/ HealthOfCA
  BY <1>2 DEF SignPending, GatherAll, VerifyNginx, InitCA, HealthOfCA
<1>3. CASE WriteGarageConfig \/ EnsureContainer \/ WaitForS3 \/ EnsureBucket \/ StoreChanges
  BY <1>3 DEF WriteGarageConfig, EnsureContainer, WaitForS3, EnsureBucket, StoreChanges
<1>4. CASE UploadNatRules \/ NatScript \/ ReloadUfw \/ NatScriptFails \/ OrphanScript
  BY <1>4 DEF UploadNatRules, NatScript, ReloadUfw, NatScriptFails, OrphanScript
<1>5. CASE Issue \/ CopyCertificate \/ CopyKey \/ ReloadNginx
  BY <1>5 DEF Issue, CopyCertificate, CopyKey, ReloadNginx
<1>6. CASE RunFails \/ KilledInStep \/ RouterReboots
  BY <1>6 DEF RunFails, KilledInStep, RouterReboots
<1>7. ASSUME NEW n \in Agents, Task(n) \/ TaskFails(n) \/ DaemonRun(n)
      PROVE  faults' = faults \/ Fault
  BY <1>7 DEF Task, AgentConverges, AgentMismatch, CleanCertificate, WipeSsl, TrustRoot,
              TaskFails, DaemonRun
<1>8. ASSUME NEW n \in Balancers,
             RenewStart(n) \/ RenewWrite(n) \/ BalancerReboots(n) \/ Recreate(n)
      PROVE  faults' = faults \/ Fault
  BY <1>8 DEF RenewStart, RenewWrite, BalancerReboots, Recreate
<1>9. CASE UNCHANGED vars
  BY <1>9 DEF vars
<1> QED
  BY <1>1, <1>2, <1>3, <1>4, <1>5, <1>6, <1>7, <1>8, <1>9 DEF Next, Program

LEMMA AsideStopsNothing ==
  ASSUME RolloutInv, PairThere, Aside
  PROVE  NothingStops
BY DEF Aside, NothingStops, PairThere, Rolling, RolloutInv

\* An agent makes a pair only where there is none.
LEMMA CatalogStopsNothing ==
  ASSUME RolloutInv, PairThere, NEW n \in Agents, Catalog(n), UNCHANGED <<pc, lb, bundle>>
  PROVE  NothingStops
<1>1. CASE n = Router
  BY <1>1 DEF Catalog, tls, NothingStops, PairThere, RolloutInv
<1>2. CASE n # Router
  <2>1. n \in Balancers /\ LBs[lb] \in Balancers
    BY <1>2, FirstBalancer DEF Agents, RolloutInv
  <2>2. LET pair == IF crt[n] = None THEN SelfSigned ELSE crt[n]
        IN  /\ crt' = [crt EXCEPT ![n] = pair]
            /\ served' = [served EXCEPT ![n] = IF @ = None /\ (crt[n] = None \/ ~Mixed(n)) THEN pair ELSE @]
    BY <1>2 DEF Catalog
  <2>3. \A m \in Balancers : /\ served[m] # None => served'[m] # None
                             /\ crt[m] # None => crt'[m] # None
    BY <2>1, <2>2 DEF RolloutInv
  <2>4. DOMAIN served' = Balancers
    BY <2>2 DEF RolloutInv
  <2> QED
    BY <2>1, <2>3, <2>4 DEF NothingStops, PairThere
<1> QED
  BY <1>1, <1>2

LEMMA RenewalStopsNothing ==
  ASSUME RolloutInv, PairThere, NEW n \in Balancers, RenewWrite(n)
  PROVE  NothingStops
<1>1. LBs[lb] \in Balancers
  BY FirstBalancer DEF RolloutInv
<1>2. /\ crt' = [crt EXCEPT ![n] = renew[n]] /\ renew[n] # None
      /\ served' = [served EXCEPT ![n] = IF @ # None /\ tkey[n] = renew[n] THEN renew[n] ELSE @]
      /\ UNCHANGED <<pc, lb, bundle>>
  BY DEF RenewWrite, run
<1>3. \A m \in Balancers : /\ served[m] # None => served'[m] # None
                           /\ crt[m] # None => crt'[m] # None
  BY <1>2 DEF RolloutInv
<1>4. DOMAIN served' = Balancers
  BY <1>2 DEF RolloutInv
<1> QED
  BY <1>1, <1>2, <1>3, <1>4 DEF NothingStops, PairThere

\* The rollout itself: it issues a pair before it copies one.
LEMMA RolloutStopsNothing ==
  ASSUME RunInv, RolloutInv, PairThere, Issue \/ CopyCertificate \/ CopyKey \/ ReloadNginx
  PROVE  NothingStops
<1>1. LBs[lb] \in Balancers /\ lb \in DOMAIN LBs
  BY FirstBalancer DEF RolloutInv
<1>2. CASE Issue
  <2>1. bundle' = (CHOOSE p \in Issues : p \notin InUse) /\ \E p \in Issues : p \notin InUse
    BY <1>2 DEF Issue
  <2>2. bundle' \in Issues
    BY <2>1
  <2>3. bundle' # None
    BY <2>2, IssuesAssumption DEF None
  <2>4. pc' = "crt" /\ UNCHANGED served
    BY <1>2 DEF Issue, Enter, tls
  <2> QED
    BY <2>3, <2>4 DEF NothingStops, PairThere, RolloutInv
<1>3. CASE CopyCertificate
  <2>1. /\ crt' = [crt EXCEPT ![LBs[lb]] = bundle] /\ bundle # None /\ pc' = "key"
        /\ UNCHANGED <<served, lb, bundle>>
    BY <1>3 DEF CopyCertificate, Goto, Enter, PairThere, Rolling
  <2>2. crt'[LBs[lb]] = bundle
    BY <1>1, <2>1 DEF RolloutInv
  <2> QED
    BY <2>1, <2>2 DEF NothingStops, PairThere, RolloutInv
<1>4. CASE CopyKey
  BY <1>4 DEF CopyKey, Goto, Enter, NothingStops, PairThere, RolloutInv, Rolling
<1>5. CASE ReloadNginx
  <2>1. /\ pc = "nginx" /\ served' = [served EXCEPT ![LBs[lb]] = Reloaded(LBs[lb])]
        /\ EndRun \/ PhaseDone \/ (Enter("crt") /\ UNCHANGED bundle)
    BY <1>5 DEF ReloadNginx
  <2>2. served[LBs[lb]] # None => Reloaded(LBs[lb]) # None
    BY <2>1 DEF Reloaded, PairThere
  <2>3. pc' \notin Rolling \/ (pc' = "crt" /\ UNCHANGED bundle)
    BY <1>1, <2>1, RunAside DEF Enter
  <2>4. PairThere'
    BY <2>1, <2>3 DEF PairThere, Rolling
  <2> QED
    BY <1>1, <2>1, <2>2, <2>4 DEF NothingStops, RolloutInv
<1> QED
  BY <1>2, <1>3, <1>4, <1>5

LEMMA StopsNothing ==
  ASSUME RunInv, RolloutInv, PairThere, [Next]_vars,
         \A n \in Balancers : ~BalancerReboots(n) /\ ~Recreate(n)
  PROVE  NothingStops
<1>1. CASE Aside
  BY <1>1, AsideStopsNothing
<1>2. ASSUME NEW n \in Agents, AgentConverges(n) \/ DaemonRun(n) PROVE NothingStops
  BY <1>2, CatalogStopsNothing DEF AgentConverges, DaemonRun, TaskIs, run
<1>3. ASSUME NEW n \in Balancers, RenewWrite(n) PROVE NothingStops
  BY <1>3, RenewalStopsNothing
<1>4. CASE Issue \/ CopyCertificate \/ CopyKey \/ ReloadNginx
  BY <1>4, RolloutStopsNothing
<1> QED
  BY <1>1, <1>2, <1>3, <1>4, OthersAside DEF Next, Program, Task

LEMMA UpStep == RunInv /\ RolloutInv /\ UpInv /\ [Next]_vars => UpInv'
<1> SUFFICES ASSUME RunInv, RolloutInv, UpInv, [Next]_vars PROVE UpInv'
  OBVIOUS
<1>1. Earned /\ (faults' = faults \/ faults' = faults + 1) /\ faults \in Nat
  BY EveryStepEarns, FaultsGrow DEF UpInv, Fault
<1>2. \A k \in Nat : k + 1 \in Nat /\ k <= k + 1 /\ k <= k
  OBVIOUS
<1>3. faults' \in Nat /\ faults <= faults'
  BY <1>1, <1>2, Zenon
<1>4. CASE NothingStops
  <2>1. Down' \subseteq Down
    BY <1>4 DEF NothingStops, Down
  <2>2. AtMost(Down, faults) => AtMost(Down', faults')
    BY <1>1, <1>3, <2>1, SubsetAtMost
  <2>3. AllUp => Down = {}
    BY DEF AllUp, Down
  <2>4. Recorded("nginx")' => AtMost(Down', faults')
    BY <1>1, <2>2, <2>3, EmptyAtMost DEF Earned, UpInv
  <2> QED
    BY <1>1, <1>3, <1>4, <2>4 DEF Earned, NothingStops, UpInv
<1>5. ASSUME NEW n \in Balancers, BalancerReboots(n) PROVE UpInv'
  <2>1. /\ served' = [served EXCEPT ![n] = IF Mixed(n) THEN None ELSE crt[n]]
        /\ UNCHANGED <<order, phase, pc, lb, bundle, next, crt>> /\ faults' = faults + 1
    BY <1>5 DEF BalancerReboots, Fault, run
  <2>2. Down' \subseteq Down \cup {n}
    BY <2>1 DEF Down, RolloutInv
  <2>3. AtMost(Down, faults) => AtMost(Down \cup {n}, faults')
    BY <1>1, <2>1, OneMore
  <2>4. AtMost(Down, faults) => AtMost(Down', faults')
    BY <1>2, <1>3, <2>2, <2>3, SubsetAtMost
  <2>5. PairThere' /\ ProgressInv' /\ (Recorded("nginx")' => Recorded("nginx"))
    BY <2>1 DEF UpInv, PairThere, ProgressInv, Recorded
  <2> QED
    BY <1>3, <2>4, <2>5 DEF UpInv
<1>6. ASSUME NEW n \in Balancers, Recreate(n) PROVE UpInv'
  <2>1. pc' = "idle" /\ next' = 1
    BY <1>6 DEF Recreate, RunInv
  <2>2. PairThere' /\ ~Recorded("nginx")'
    BY <2>1 DEF PairThere, Rolling, Recorded
  <2> QED
    BY <1>1, <1>3, <2>2 DEF Earned, UpInv
<1> QED
  BY <1>4, <1>5, <1>6, StopsNothing DEF UpInv

-----------------------------------------------------------------------------
(***************************************************************************)
(* The type invariant: where the run is, what the nodes have, and the rest.*)
(***************************************************************************)
RunTyped ==
  /\ pc \in Steps \cup {"idle"} /\ (phase = 0 <=> pc = "idle")
  /\ resumed \in BOOLEAN /\ bundle \in Pairs

\* What Goto, EndRun, PhaseDone and Start have in common.
Lands ==
  /\ pc' \in Steps \cup {"idle"} /\ (phase' = 0 <=> pc' = "idle")
  /\ resumed' \in BOOLEAN /\ bundle' \in {bundle, None}

LEMMA RunLands ==
  ASSUME RunInv, RunTyped
  PROVE  /\ EndRun => Lands
         /\ UNCHANGED <<phase, pc, resumed, bundle>> => Lands
         /\ \A s \in Steps : Goto(s) /\ phase # 0 => Lands
         /\ \A n, s : TaskIs(n, s) => Lands
         /\ \A i \in 1..Len(order) : \A resume \in BOOLEAN : Start(i, resume) => Lands
         /\ PhaseDone => Lands
<1> USE DEF Lands, RunTyped
<1>0. Len(order) \in Nat /\ phase \in 0..Len(order) /\ "idle" \notin Steps
  BY OrdersAssumption DEF RunInv, Steps
<1>1. EndRun => Lands
  BY DEF EndRun, Enter
<1>2. UNCHANGED <<phase, pc, resumed, bundle>> => Lands
  OBVIOUS
<1>3. \A s \in Steps : Goto(s) /\ phase # 0 => Lands
  BY <1>0 DEF Goto, Enter
<1>4. \A n, s : TaskIs(n, s) => Lands
  BY <1>2 DEF TaskIs
<1>5. \A i \in 1..Len(order) : FirstStep[order[i]] \in Steps
  BY FirstSteps DEF Steps
<1>6. ASSUME NEW i \in 1..Len(order), NEW resume \in BOOLEAN, Start(i, resume) PROVE Lands
  <2>1. phase' = i /\ pc' = FirstStep[order[i]] /\ UNCHANGED bundle /\ i # 0
    BY <1>0, <1>6 DEF Start, Enter
  <2>2. resumed' = resume
    BY <1>6 DEF Start
  <2> QED
    BY <1>0, <1>5, <2>1, <2>2
<1>7. ASSUME PhaseDone PROVE Lands
  <2>1. bundle' = None /\ UNCHANGED resumed
    BY <1>7 DEF PhaseDone
  <2>2. CASE phase = Len(order)
    BY <1>7, <2>1, <2>2 DEF PhaseDone, Enter
  <2>3. CASE phase # Len(order)
    <3>1. phase' = phase + 1 /\ pc' = FirstStep[order[phase + 1]]
      BY <1>7, <2>3 DEF PhaseDone, Enter
    <3>2. phase + 1 \in 1..Len(order) /\ phase' # 0
      BY <1>0, <2>3, <3>1
    <3> QED
      BY <1>0, <1>5, <2>1, <3>1, <3>2
  <2> QED
    BY <2>2, <2>3
<1> QED
  BY <1>1, <1>2, <1>3, <1>4, <1>6, <1>7

\* The pair that pki issues; every other step drops it or leaves it.
LEMMA IssueTyped ==
  ASSUME RunInv, RunTyped, Issue
  PROVE  RunTyped' /\ bundle' \in Issues
<1>1. bundle' = (CHOOSE p \in Issues : p \notin InUse) /\ \E p \in Issues : p \notin InUse
  BY DEF Issue
<1>2. bundle' \in Issues
  BY <1>1
<1>3. pc = "issue" /\ pc' = "crt" /\ UNCHANGED <<phase, resumed>>
  BY DEF Issue, Enter
<1> QED
  BY <1>2, <1>3 DEF RunTyped, Pairs, Steps

LEMMA EveryStepLands == ASSUME RunInv, RunTyped, [Next]_vars PROVE Lands \/ Issue
<1> USE RunLands
<1>1. ASSUME NEW i \in 1..Len(order), NEW resume \in BOOLEAN, Start(i, resume) PROVE Lands
  BY <1>1
<1>2. pc # "idle" => phase # 0
  BY DEF RunInv
<1>3. /\ "catalog" \in Steps /\ "fill" \in Steps /\ "box" \in Steps /\ "s3" \in Steps
      /\ "bucket" \in Steps /\ "verify" \in Steps /\ "upload" \in Steps /\ "wait" \in Steps
      /\ "reload" \in Steps /\ "others" \in Steps /\ "init" \in Steps /\ "health" \in Steps
      /\ "trust" \in Steps /\ "issue" \in Steps /\ "crt" \in Steps /\ "key" \in Steps
      /\ "nginx" \in Steps
  BY DEF Steps
<1>4. CASE GatherAll
  <2>1. pc \in {"catalog", "others", "converge", "router", "trust"}
    BY <1>4 DEF GatherAll, Gathered, TasksOf
  <2>2. EndRun \/ PhaseDone \/ Goto("verify") \/ Goto("upload") \/ Goto("issue")
    BY <1>4, <2>1 DEF GatherAll
  <2> QED
    BY <1>2, <1>3, <2>1, <2>2
<1>5. CASE VerifyNginx
  BY <1>5 DEF VerifyNginx
<1>6. CASE SignPending \/ WriteGarageConfig \/ EnsureContainer
  BY <1>2, <1>3, <1>6 DEF SignPending, WriteGarageConfig, EnsureContainer
<1>7. CASE WaitForS3 \/ EnsureBucket
  BY <1>2, <1>3, <1>7 DEF WaitForS3, EnsureBucket
<1>8. CASE UploadNatRules \/ ReloadUfw \/ InitCA
  BY <1>2, <1>3, <1>8 DEF UploadNatRules, ReloadUfw, InitCA
<1>9. CASE HealthOfCA \/ CopyCertificate \/ CopyKey
  BY <1>2, <1>3, <1>9 DEF HealthOfCA, CopyCertificate, CopyKey
<1>10. CASE NatScript
  <2>1. pc = "wait" /\ (EndRun \/ Goto("reload") \/ UNCHANGED run)
    BY <1>10 DEF NatScript
  <2> QED
    BY <1>2, <1>3, <2>1 DEF run
<1>11. CASE ReloadNginx
  <2>1. pc = "nginx" /\ (EndRun \/ PhaseDone \/ (Enter("crt") /\ UNCHANGED <<phase, bundle, resumed>>))
    BY <1>11 DEF ReloadNginx
  <2>2. Enter("crt") /\ UNCHANGED <<phase, bundle, resumed>> => Lands
    BY <1>3, <2>1 DEF Enter, Lands, RunTyped
  <2> QED
    BY <2>1, <2>2
<1>12. CASE NatScriptFails \/ RunFails \/ KilledInStep
  BY <1>12 DEF NatScriptFails, ScriptAborts, RunFails, KilledInStep
<1>13. CASE OrphanScript \/ RouterReboots \/ StoreChanges
  BY <1>13 DEF OrphanScript, RouterReboots, StoreChanges, run
<1>14. ASSUME NEW n \in Agents, Task(n) \/ TaskFails(n) \/ DaemonRun(n) PROVE Lands
  BY <1>14 DEF Task, AgentConverges, AgentMismatch, CleanCertificate, WipeSsl, TrustRoot,
               TaskFails, DaemonRun, run
<1>15. ASSUME NEW n \in Balancers,
              RenewStart(n) \/ RenewWrite(n) \/ BalancerReboots(n) \/ Recreate(n)
       PROVE  Lands
  BY <1>15 DEF RenewStart, RenewWrite, BalancerReboots, Recreate, run
<1>16. CASE UNCHANGED vars
  BY <1>16 DEF vars, run
<1> QED
  BY <1>1, <1>4, <1>5, <1>6, <1>7, <1>8, <1>9, <1>10, <1>11, <1>12, <1>13, <1>14,
     <1>15, <1>16 DEF Next, Program

LEMMA RunTypedStep == RunInv /\ RunTyped /\ [Next]_vars => RunTyped'
<1> SUFFICES ASSUME RunInv, RunTyped, [Next]_vars PROVE RunTyped'
  OBVIOUS
<1>1. Lands => RunTyped'
  BY DEF Lands, RunTyped, Pairs
<1> QED
  BY <1>1, EveryStepLands, IssueTyped

-----------------------------------------------------------------------------
NodesTyped ==
  /\ crt \in [Balancers -> Pairs] /\ tkey \in [Balancers -> Pairs]
  /\ served \in [Balancers -> Pairs] /\ renew \in [Balancers -> Pairs] /\ last \in Pairs
  /\ daemon \subseteq Agents /\ trust \subseteq Agents /\ cut \subseteq Agents

\* A step that touches no pair.
NoPair ==
  /\ UNCHANGED <<crt, tkey, served, renew, last>>
  /\ daemon' \subseteq Agents /\ trust' \subseteq Agents /\ cut' \subseteq Agents

LEMMA NoPairSteps ==
  ASSUME NodesTyped,
         \/ \E i \in 1..Len(order), resume \in BOOLEAN : Start(i, resume)
         \/ SignPending \/ GatherAll \/ VerifyNginx
         \/ WriteGarageConfig \/ EnsureContainer \/ WaitForS3 \/ EnsureBucket \/ StoreChanges
         \/ UploadNatRules \/ NatScript \/ ReloadUfw \/ InitCA \/ HealthOfCA
         \/ NatScriptFails \/ RunFails \/ KilledInStep \/ OrphanScript \/ RouterReboots
         \/ UNCHANGED vars
         \/ \E n \in Agents : \/ AgentMismatch(n) \/ CleanCertificate(n) \/ WipeSsl(n)
                              \/ TrustRoot(n) \/ TaskFails(n)
  PROVE  NoPair
<1> USE DEF NodesTyped, NoPair, agent, tls, ca, hist
<1>1. ASSUME NEW i \in 1..Len(order), NEW resume \in BOOLEAN, Start(i, resume) PROVE NoPair
  BY <1>1 DEF Start
<1>2. CASE SignPending \/ GatherAll \/ VerifyNginx \/ InitCA \/ HealthOfCA
  BY <1>2 DEF SignPending, GatherAll, VerifyNginx, InitCA, HealthOfCA
<1>3. CASE WriteGarageConfig \/ EnsureContainer \/ WaitForS3 \/ EnsureBucket \/ StoreChanges
  BY <1>3 DEF WriteGarageConfig, EnsureContainer, WaitForS3, EnsureBucket, StoreChanges
<1>4. CASE UploadNatRules \/ NatScript \/ ReloadUfw \/ NatScriptFails \/ OrphanScript
  BY <1>4 DEF UploadNatRules, NatScript, ReloadUfw, NatScriptFails, OrphanScript
<1>5. Router \in Agents
  BY DEF Agents
<1>6. CASE RunFails \/ RouterReboots
  BY <1>5, <1>6 DEF RunFails, RouterReboots
<1>7. CASE KilledInStep
  BY <1>7 DEF KilledInStep, DaemonLeft
<1>8. CASE UNCHANGED vars
  BY <1>8 DEF vars
<1>9. ASSUME NEW n \in Agents,
             AgentMismatch(n) \/ CleanCertificate(n) \/ WipeSsl(n) \/ TrustRoot(n) \/ TaskFails(n)
      PROVE  NoPair
  BY <1>9 DEF AgentMismatch, CleanCertificate, WipeSsl, TrustRoot, TaskFails, DaemonLeft
<1> QED
  BY <1>1, <1>2, <1>3, <1>4, <1>6, <1>7, <1>8, <1>9

LEMMA CatalogTyped ==
  ASSUME NodesTyped, NEW n \in Agents, AgentConverges(n) \/ DaemonRun(n)
  PROVE  NodesTyped'
<1>1. Catalog(n) /\ UNCHANGED <<renew, trust, last, cut>> /\ daemon' \subseteq Agents
  BY DEF AgentConverges, DaemonRun, NodesTyped, ca, hist
<1>2. CASE n = Router
  BY <1>1, <1>2 DEF Catalog, tls, NodesTyped
<1>3. CASE n # Router
  <2>1. n \in Balancers
    BY <1>3 DEF Agents
  <2>2. PICK pair \in Pairs :
          /\ crt' = [crt EXCEPT ![n] = pair]
          /\ tkey' = [tkey EXCEPT ![n] = IF crt[n] = None THEN pair ELSE @]
          /\ served' = [served EXCEPT ![n] =
               IF @ = None /\ (crt[n] = None \/ ~Mixed(n)) THEN pair ELSE @]
    BY <1>1, <1>3, <2>1 DEF Catalog, NodesTyped, Pairs
  <2> QED
    BY <1>1, <2>1, <2>2 DEF NodesTyped
<1> QED
  BY <1>2, <1>3

LEMMA RolloutTyped ==
  ASSUME RunInv, RunTyped, NodesTyped, lb \in DOMAIN LBs,
         Issue \/ CopyCertificate \/ CopyKey \/ ReloadNginx
  PROVE  NodesTyped'
<1>1. LBs[lb] \in Balancers /\ bundle \in Pairs
  BY FirstBalancer DEF RunTyped
<1> USE DEF NodesTyped, agent, tls, ca, hist
<1>2. CASE Issue
  BY <1>2 DEF Issue, Pairs
<1>3. CASE CopyCertificate
  BY <1>1, <1>3 DEF CopyCertificate
<1>4. CASE CopyKey
  BY <1>1, <1>4 DEF CopyKey
<1>5. CASE ReloadNginx
  <2>1. /\ served' = [served EXCEPT ![LBs[lb]] = Reloaded(LBs[lb])]
        /\ last' \in {last, bundle}
        /\ UNCHANGED <<crt, tkey, daemon, renew, trust, cut>>
    BY <1>5 DEF ReloadNginx
  <2>2. Reloaded(LBs[lb]) \in Pairs
    BY <1>1 DEF Reloaded
  <2> QED
    BY <1>1, <2>1, <2>2
<1> QED
  BY <1>2, <1>3, <1>4, <1>5

LEMMA MachinesTyped ==
  ASSUME NodesTyped, NEW n \in Balancers,
         RenewStart(n) \/ RenewWrite(n) \/ BalancerReboots(n) \/ Recreate(n)
  PROVE  NodesTyped'
<1>1. n \in Agents /\ None \in Pairs
  BY DEF Agents, Pairs
<1> USE DEF NodesTyped, agent, tls, ca, hist
<1>2. CASE RenewStart(n)
  BY <1>1, <1>2 DEF RenewStart
<1>3. CASE RenewWrite(n)
  BY <1>1, <1>3 DEF RenewWrite
<1>4. CASE BalancerReboots(n)
  BY <1>1, <1>4 DEF BalancerReboots
<1>5. CASE Recreate(n)
  BY <1>1, <1>5 DEF Recreate
<1> QED
  BY <1>2, <1>3, <1>4, <1>5

LEMMA NodesTypedStep ==
  RunInv /\ RunTyped /\ RolloutInv /\ NodesTyped /\ [Next]_vars => NodesTyped'
<1> SUFFICES ASSUME RunInv, RunTyped, RolloutInv, NodesTyped, [Next]_vars PROVE NodesTyped'
  OBVIOUS
<1>1. CASE NoPair
  BY <1>1 DEF NoPair, NodesTyped
<1>2. lb \in DOMAIN LBs
  BY DEF RolloutInv
<1> QED
  BY <1>1, <1>2, NoPairSteps, CatalogTyped, RolloutTyped, MachinesTyped DEF Next, Program, Task

-----------------------------------------------------------------------------
RestTyped ==
  /\ stepca \in {"none", "half", "whole"} /\ toml \in {"none", "part", "whole"}
  /\ box \in {"none", "stopped", "running"} /\ stale \in BOOLEAN
  /\ loaded \in Rules /\ orphan \in ScriptAt /\ faults \in 0..MaxFaults

\* Which steps touch the store, the CA and the script without a client.
RestFrame ==
  /\ UNCHANGED stepca \/ InitCA
  /\ UNCHANGED <<toml, box, stale>> \/ WriteGarageConfig \/ EnsureContainer \/ StoreChanges
  /\ UNCHANGED orphan \/ OrphanScript \/ RouterReboots \/ RunFails

LEMMA RestFrames == ASSUME [Next]_vars PROVE RestFrame
<1> USE DEF RestFrame, router, store, ca
<1>1. ASSUME NEW i \in 1..Len(order), NEW resume \in BOOLEAN, Start(i, resume) PROVE RestFrame
  BY <1>1 DEF Start
<1>2. CASE SignPending \/ GatherAll \/ VerifyNginx \/ InitCA \/ HealthOfCA
  BY <1>2 DEF SignPending, GatherAll, VerifyNginx, InitCA, HealthOfCA
<1>3. CASE WriteGarageConfig \/ EnsureContainer \/ WaitForS3 \/ EnsureBucket \/ StoreChanges
  BY <1>3 DEF WriteGarageConfig, EnsureContainer, WaitForS3, EnsureBucket, StoreChanges
<1>4. CASE UploadNatRules \/ NatScript \/ ReloadUfw \/ NatScriptFails \/ OrphanScript
  BY <1>4 DEF UploadNatRules, NatScript, ReloadUfw, NatScriptFails, OrphanScript
<1>5. CASE Issue \/ CopyCertificate \/ CopyKey \/ ReloadNginx
  BY <1>5 DEF Issue, CopyCertificate, CopyKey, ReloadNginx
<1>6. CASE RunFails \/ KilledInStep \/ RouterReboots
  BY <1>6 DEF RunFails, KilledInStep, RouterReboots
<1>7. ASSUME NEW n \in Agents, Task(n) \/ TaskFails(n) \/ DaemonRun(n) PROVE RestFrame
  BY <1>7 DEF Task, AgentConverges, AgentMismatch, CleanCertificate, WipeSsl, TrustRoot,
              TaskFails, DaemonRun
<1>8. ASSUME NEW n \in Balancers,
             RenewStart(n) \/ RenewWrite(n) \/ BalancerReboots(n) \/ Recreate(n)
      PROVE  RestFrame
  BY <1>8 DEF RenewStart, RenewWrite, BalancerReboots, Recreate
<1>9. CASE UNCHANGED vars
  BY <1>9 DEF vars
<1> QED
  BY <1>1, <1>2, <1>3, <1>4, <1>5, <1>6, <1>7, <1>8, <1>9 DEF Next, Program

LEMMA RestTypedStep == NatInv /\ RestTyped /\ [Next]_vars => RestTyped'
<1> SUFFICES ASSUME NatInv, RestTyped, [Next]_vars PROVE RestTyped'
  OBVIOUS
<1>1. stepca' \in {"none", "half", "whole"}
  BY RestFrames DEF RestFrame, RestTyped, InitCA
<1>2. toml' \in {"none", "part", "whole"} /\ box' \in {"none", "stopped", "running"}
  BY RestFrames DEF RestFrame, RestTyped, WriteGarageConfig, EnsureContainer, StoreChanges
<1>3. stale' \in BOOLEAN
  <2>1. stale' = stale \/ stale' = TRUE \/ stale' = (stale /\ box # "none")
    BY RestFrames DEF RestFrame, WriteGarageConfig, EnsureContainer, StoreChanges
  <2> QED
    BY <2>1 DEF RestTyped
<1>4. loaded' \in Rules
  BY Frames DEF Frame, RestTyped, NatInv, ReloadUfw, RouterReboots
<1>5. orphan' \in ScriptAt
  BY RestFrames DEF RestFrame, RestTyped, NatInv, OrphanScript, RouterReboots, RunFails, ScriptAt
<1>6. faults' \in 0..MaxFaults
  BY FaultsGrow, IssuesAssumption DEF Fault, RestTyped
<1> QED
  BY <1>1, <1>2, <1>3, <1>4, <1>5, <1>6 DEF RestTyped

LEMMA InitTyped == Init => RunTyped /\ NodesTyped /\ RestTyped
<1> SUFFICES ASSUME Init PROVE RunTyped /\ NodesTyped /\ RestTyped
  OBVIOUS
<1>1. RunTyped
  BY DEF Init, RunTyped, Pairs
<1>2. NodesTyped
  BY DEF Init, NodesTyped, Pairs
<1>3. RestTyped
  <2>1. 0 \in 0..MaxFaults
    BY IssuesAssumption
  <2>2. faults = 0 /\ stale = FALSE
    BY DEF Init
  <2> QED
    BY <2>1, <2>2 DEF Init, RestTyped, Rules, ScriptAt
<1> QED
  BY <1>1, <1>2, <1>3

-----------------------------------------------------------------------------
\* The invariant the theorems rest on.
THEOREM PhasesInvariant == Spec => []PhasesInv
<1> QED
  BY InitPhases, PhasesStep, PTL DEF Spec

\* runFirstCatalog's self-healing (puppet.go:386) never takes away an identity
\* that the agent and the CA agree on.
THEOREM HealthyAgentsKept == Spec => HealthyKept
<1>1. PhasesInv /\ [Next]_vars
        => [\A n \in Agents : GoodIdentity(n) => GoodIdentity(n)' \/ (phase = 0 /\ key'[n] = 0)]_vars
  BY HealthyStep DEF IdentityStays
<1> QED
  BY <1>1, PhasesInvariant, PTL DEF Spec, HealthyKept

\* The script that injects the NAT rules (ufw.go:90), its trap and its backup
\* never let the router lose its NAT table, unless a script lost its client.
THEOREM NatTableKept == Spec => NatKept
<1>1. PhasesInv /\ [Next]_vars => [loaded = "nat" => loaded' = "nat" \/ Router \in cut']_vars
  BY NatStep
<1> QED
  BY <1>1, PhasesInvariant, PTL DEF Spec, NatKept

\* After a rollout that pki reported as done every balancer serves the new
\* pair, whatever agents, daemons, reboots and other runs do; a renewal that
\* met the phase is the only exception (cms-tls-renew.sh:39).
THEOREM RolloutsServed == Spec => []RolloutServed
<1>1. PhasesInv => RunInv
  BY DEF PhasesInv
<1>2. RolloutInv => RolloutServed
  BY DEF RolloutInv, RolloutServed, Serves
<1> QED
  BY <1>1, <1>2, RolloutInit, RolloutStep, PhasesInvariant, PTL DEF Spec

\* Of the balancers that the nginx phase has checked no more are down than
\* faults have happened: a rollout that replaces their pairs one after the
\* other (pki.go:262) never stops nginx by itself.
THEOREM OneFaultOneBalancer == Spec => []FaultCostsOneBalancer
<1>1. PhasesInv => RunInv
  BY DEF PhasesInv
<1>2. UpInv => FaultCostsOneBalancer
  BY DEF UpInv, AtMost, Down, FaultCostsOneBalancer
<1> QED
  BY <1>1, <1>2, InitUp, UpStep, RolloutInit, RolloutStep, PhasesInvariant, PTL DEF Spec

\* The values the phases work with: a run is idle or at a step of its phase, a
\* script of the router (ufw.go:90) belongs to a run that waits for it, and the
\* balancers hold pairs that puppet made or pki issued (pki.go:262).
THEOREM ServicesTypeCorrect == Spec => []TypeOK
<1>1. PhasesInv => RunInv /\ NatInv
  BY DEF PhasesInv
<1>2. PhasesInv /\ RolloutInv /\ UpInv /\ RunTyped /\ NodesTyped /\ RestTyped => TypeOK
  <2> SUFFICES ASSUME PhasesInv, RolloutInv, UpInv, RunTyped, NodesTyped, RestTyped
               PROVE  TypeOK
    OBVIOUS
  <2> USE DEF PhasesInv, TaskStates
  <2>1. /\ phase \in 0..Len(order) /\ pc \in Steps \cup {"idle"} /\ (phase = 0 <=> pc = "idle")
        /\ at \in [Agents -> {"no", "run", "clean", "wipe", "again", "ok", "bad"}]
        /\ own # "none" => pc = "wait"
    BY DEF RunInv, HealInv, RunTyped
  <2>2. lb \in DOMAIN LBs /\ bundle \in Pairs /\ next \in 1..Len(order) + 1
    BY DEF RolloutInv, RunTyped, UpInv, ProgressInv
  <2>3. {key[n] : n \in Agents} \cup {signed[n] : n \in Agents} \subseteq 0..2
    BY DEF HealInv
  <2>4. {daemon, trust, cut} \subseteq SUBSET Agents /\ last \in Pairs
        /\ {crt, tkey, served, renew} \subseteq [Balancers -> Pairs]
    BY DEF NodesTyped
  <2>5. {resumed, stale} \subseteq BOOLEAN
    BY DEF RunTyped, RestTyped
  <2>6. /\ stepca \in {"none", "half", "whole"} /\ toml \in {"none", "part", "whole"}
        /\ {rules, loaded} \subseteq Rules /\ {own, orphan} \subseteq ScriptAt
        /\ scratch \in [nat : BOOLEAN, bak : Rules \cup {"none"}, new : Rules \cup {"none"}]
        /\ box \in {"none", "stopped", "running"} /\ faults \in 0..MaxFaults
    BY DEF NatInv, RestTyped
  <2> QED
    BY <2>1, <2>2, <2>3, <2>4, <2>5, <2>6 DEF TypeOK
<1> QED
  BY <1>1, <1>2, InitTyped, RunTypedStep, NodesTypedStep, RestTypedStep, InitUp, UpStep,
     RolloutInit, RolloutStep, PhasesInvariant, PTL DEF Spec

=============================================================================
