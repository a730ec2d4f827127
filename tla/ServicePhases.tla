--------------------------- MODULE ServicePhases ---------------------------
(***************************************************************************)
(* The phases that configure services on the nodes: puppet, backup, nginx, *)
(* ufw and pki, run again and again by an operator, with sessions that are *)
(* lost, processes that are killed, and what goes on without them: puppet  *)
(* daemons, certificate renewal, a script whose client is gone, reboots.   *)
(* A deployment runs all of them; a behaviour follows the phases of one of *)
(* the lists in Orders, whose other phases touch nothing of theirs.        *)
(*                                                                         *)
(* Only commands that leave something another step depends on are steps;   *)
(* installations and uploads that are repeated whole by every run are      *)
(* part of the step they prepare.                                          *)
(***************************************************************************)
EXTENDS Naturals, Sequences, FiniteSets

CONSTANTS
  LBs,         \* the load balancers, in the order of the configuration
  Router,
  Orders,      \* lists of phases
  Concurrency, \* PUPPET_CONCURRENCY
  Issues,      \* the identities pki may issue: more than can be in use
  MaxFaults    \* bound on failures, lost sessions, kills, reboots, recreations

Balancers == {LBs[i] : i \in DOMAIN LBs}
Agents == Balancers \cup {Router}

ASSUME NodesAssumption == LBs \in Seq(Agents) /\ LBs # <<>> /\ Router \notin Balancers
ASSUME OrdersAssumption ==
  Orders \subseteq Seq({"puppet", "backup", "nginx", "ufw", "pki"}) \ {<<>>}
ASSUME IssuesAssumption == Issues \subseteq Nat \ {0, 1} /\ MaxFaults \in Nat

None == 0       \* no key, or nginx is not running
SelfSigned == 1 \* the pair puppet makes for a new balancer
Pairs == Issues \cup {None, SelfSigned}
Rules == {"bare", "nat", "twice"}

VARIABLES
  \* The run.
  order,    \* the phases
  phase,    \* 0, or the running phase
  pc, at,   \* its step, and the task of each node in a parallel step
  lb,       \* the balancer pki is at
  bundle,   \* the pair pki has issued
  next,     \* the checkpoint: the first phase not recorded
  resumed,  \* the last run was a --resume
  \* Puppet: a key is known by a number, 0 when there is none.
  key,      \* the agent's own key
  signed,   \* the one the CA has signed for its name
  daemon,   \* agents whose daemon runs
  \* The balancers: cms.crt and cms.key by the pair they belong to.
  crt, tkey,
  served,   \* the pair nginx has loaded; None when it is down
  renew,    \* the pair a running cms-tls-renew.sh has read
  trust,    \* nodes with the root certificate
  stepca,   \* the internal CA: "none", "half" or "whole"
  \* The router: /etc/ufw/before.rules and what is loaded.
  rules, loaded,
  scratch,  \* its files in /tmp: nat.rules, before.rules.bak and .new
  own,      \* where the phase's script is
  orphan,   \* where the one is that has lost its client
  \* The backup store.
  toml,     \* garage.toml: "none", "part" or "whole"
  box,      \* the container
  stale,    \* it has another image than configured
  faults,
  \* History.
  last,     \* the pair of the last rollout, until the next one starts
  cut       \* balancers where a renewal met the phase; Router: a script left alone

run == <<order, phase, pc, at, lb, bundle, next, resumed>>
agent == <<key, signed, daemon>>
tls == <<crt, tkey, served>>
router == <<rules, loaded, scratch, own, orphan>>
store == <<toml, box, stale>>
ca == <<trust, stepca>>
hist == <<last, cut>>
vars == <<run, agent, tls, renew, router, store, ca, faults, hist>>

Fault == faults < MaxFaults /\ faults' = faults + 1
Mixed(n) == crt[n] # tkey[n]

Recorded(p) == \E i \in 1..next - 1 : order[i] = p
FirstStep == [puppet |-> "sign", backup |-> "toml", nginx |-> "converge",
              ufw |-> "router", pki |-> "ca"]

\* The nodes of a parallel step.
TasksOf(s) ==
  CASE s \in {"catalog", "trust"}   -> Agents
    [] s \in {"converge", "others"} -> Balancers
    [] s = "router"                 -> {Router}
    [] OTHER                        -> {}

CleanedUp == [scratch EXCEPT !.nat = FALSE, !.bak = "none"]
NoScratch == [nat |-> FALSE, bak |-> "none", new |-> "none"]

\* What init-vms has just created.
Init ==
  /\ order \in Orders
  /\ phase = 0 /\ pc = "idle" /\ at = [n \in Agents |-> "no"]
  /\ lb = 1 /\ bundle = None /\ next = 1 /\ resumed = FALSE
  /\ key = [n \in Agents |-> 0] /\ signed = [n \in Agents |-> 0] /\ daemon = {}
  /\ crt = [n \in Balancers |-> None] /\ tkey = crt /\ served = crt
  /\ renew = crt /\ trust = {} /\ stepca = "none"
  /\ rules = "bare" /\ loaded = "bare" /\ scratch = NoScratch
  /\ own = "none" /\ orphan = "none"
  /\ toml = "none" /\ box = "none" /\ stale = FALSE
  /\ faults = 0 /\ last = None /\ cut = {}

(***************************************************************************)
(* The run.                                                                *)
(***************************************************************************)
Enter(s) ==
  /\ pc' = s
  /\ at' = [n \in Agents |-> IF n \in TasksOf(s) THEN "run" ELSE "no"]

\* A fresh run, which forgets the checkpoint, a --resume, or --from-phase with
\* one that has been reached, which keeps it.
Start(i, resume) ==
  /\ phase = 0 /\ i \in 1..next /\ i <= Len(order) /\ (resume => i = next)
  /\ phase' = i /\ Enter(FirstStep[order[i]])
  /\ \/ UNCHANGED next
     \/ i = 1 /\ ~resume /\ next' = 1
  /\ resumed' = resume
  /\ UNCHANGED <<order, lb, bundle, agent, tls, renew, router, store, ca, faults, hist>>

\* The last command of a phase has succeeded.
PhaseDone ==
  /\ next' = IF next > phase THEN next ELSE phase + 1
  /\ IF phase = Len(order)
       THEN phase' = 0 /\ Enter("idle")
       ELSE phase' = phase + 1 /\ Enter(FirstStep[order[phase + 1]])
  /\ lb' = 1 /\ bundle' = None /\ UNCHANGED <<order, resumed>>

Goto(s) == Enter(s) /\ UNCHANGED <<order, phase, lb, bundle, next, resumed>>
EndRun ==
  /\ phase' = 0 /\ Enter("idle") /\ lb' = 1 /\ bundle' = None
  /\ UNCHANGED <<order, next, resumed>>
TaskIs(n, s) ==
  /\ at' = [at EXCEPT ![n] = s]
  /\ UNCHANGED <<order, phase, pc, lb, bundle, next, resumed>>

\* wg.Wait: every task of the step has ended.
Working(n) == at[n] \in {"run", "clean", "wipe", "again"}
Gathered == TasksOf(pc) # {} /\ \A n \in Agents : ~Working(n)

(***************************************************************************)
(* A puppet agent run.                                                     *)
(***************************************************************************)
NewKey(n) == CHOOSE k \in {1, 2} : k # signed[n]
OwnKey(n) == IF key[n] = 0 THEN NewKey(n) ELSE key[n]
Mismatch(n) == signed[n] \notin {0, OwnKey(n)}

\* The CA signs what it is asked to (autosign); role::loadbalancer makes a
\* first pair if there is none, and starts nginx, which needs one that fits.
Catalog(n) ==
  /\ key' = [key EXCEPT ![n] = OwnKey(n)]
  /\ signed' = [signed EXCEPT ![n] = OwnKey(n)]
  /\ IF n = Router THEN UNCHANGED tls
       ELSE LET first == crt[n] = None
                pair == IF first THEN SelfSigned ELSE crt[n]
            IN /\ crt' = [crt EXCEPT ![n] = pair]
               /\ tkey' = [tkey EXCEPT ![n] = IF first THEN pair ELSE @]
               /\ served' = [served EXCEPT ![n] =
                    IF @ = None /\ (first \/ ~Mixed(n)) THEN pair ELSE @]

\* runFirstCatalog's semaphore; RunParallel's own is larger than the instance.
MayRun(n) ==
  /\ at[n] \in {"run", "again"} /\ pc # "trust"
  /\ pc = "catalog" =>
       Cardinality({m \in Agents : at[m] \in {"clean", "wipe", "again"}} \ {n})
         < Concurrency

AgentConverges(n) ==
  /\ MayRun(n) /\ ~Mismatch(n)
  /\ Catalog(n)
  /\ daemon' = IF pc = "catalog" THEN daemon \cup {n} ELSE daemon
  /\ TaskIs(n, IF n \in Balancers /\ served'[n] = None THEN "bad" ELSE "ok")
  /\ UNCHANGED <<renew, router, store, ca, faults, hist>>

\* The first catalog stops the daemon, and starts it when the agent has converged.
DaemonLeft(n) == IF pc = "catalog" THEN daemon \ {n} ELSE daemon

\* "does not match its private key": the first catalog heals that, once.
AgentMismatch(n) ==
  /\ MayRun(n) /\ Mismatch(n)
  /\ key' = [key EXCEPT ![n] = OwnKey(n)]
  /\ TaskIs(n, IF pc = "catalog" /\ at[n] = "run" THEN "clean" ELSE "bad")
  /\ daemon' = DaemonLeft(n)
  /\ UNCHANGED <<signed, tls, renew, router, store, ca, faults, hist>>

\* Mutant: any failure starts the healing.
HealOnAnyFailure(n) ==
  /\ MayRun(n) /\ Fault
  /\ TaskIs(n, IF pc = "catalog" /\ at[n] = "run" THEN "clean" ELSE "bad")
  /\ UNCHANGED <<agent, tls, renew, router, store, ca, hist>>

\* Any other failure of the agent, the connection or the context.
TaskFails(n) ==
  /\ Working(n) /\ at[n] \notin {"clean", "wipe"} /\ Fault
  /\ TaskIs(n, "bad")
  /\ daemon' \in {daemon, DaemonLeft(n)}
  /\ UNCHANGED <<key, signed, tls, renew, router, store, ca, hist>>

\* puppetserver ca clean, then rm -rf ssl: neither result is looked at.
CleanCertificate(n) ==
  /\ at[n] = "clean"
  /\ \/ signed' = [signed EXCEPT ![n] = 0] /\ UNCHANGED faults
     \/ Fault /\ UNCHANGED signed
  /\ TaskIs(n, "wipe")
  /\ UNCHANGED <<key, daemon, tls, renew, router, store, ca, hist>>

WipeSsl(n) ==
  /\ at[n] = "wipe"
  /\ \/ key' = [key EXCEPT ![n] = 0] /\ UNCHANGED faults
     \/ Fault /\ UNCHANGED key
  /\ TaskIs(n, "again")
  /\ UNCHANGED <<signed, daemon, tls, renew, router, store, ca, hist>>

\* The daemon's run, every 30 minutes.
DaemonRun(n) ==
  /\ n \in daemon /\ ~Mismatch(n) /\ (pc = "catalog" => ~Working(n))
  /\ Catalog(n)
  /\ UNCHANGED <<run, daemon, renew, router, store, ca, faults, hist>>

(***************************************************************************)
(* puppet.                                                                 *)
(***************************************************************************)
\* puppetserver ca sign --all, after the servers and agents are installed.
SignPending ==
  /\ pc = "sign"
  /\ signed' = [n \in Agents |-> IF signed[n] = 0 THEN key[n] ELSE signed[n]]
  /\ Goto("catalog")
  /\ UNCHANGED <<key, daemon, tls, renew, router, store, ca, faults, hist>>

(***************************************************************************)
(* backup.                                                                 *)
(***************************************************************************)
\* os.WriteFile truncates, then writes; a file that exists is reused.
WriteGarageConfig ==
  /\ \/ pc = "toml" /\ toml = "none" /\ toml' = "part" /\ Goto("fill")
     \/ pc = "toml" /\ toml # "none" /\ UNCHANGED toml /\ Goto("box")
     \/ pc = "fill" /\ toml' = "whole" /\ Goto("box")
  /\ UNCHANGED <<agent, tls, renew, router, box, stale, ca, faults, hist>>

\* Mutant: a container with the pinned image is reused, running or not.
ReuseStopped ==
  /\ pc = "box"
  /\ \/ box # "none" /\ ~stale /\ UNCHANGED box /\ Goto("s3")
     \/ box # "none" /\ stale /\ box' = "none" /\ Goto("box")
     \/ box = "none" /\ box' = "running" /\ Goto("s3")
  /\ stale' = (stale /\ box # "none")
  /\ UNCHANGED <<toml, agent, tls, renew, router, ca, faults, hist>>

\* Reused with the pinned image, started if stopped, else removed and created.
EnsureContainer ==
  /\ pc = "box"
  /\ \/ box # "none" /\ ~stale /\ box' = "running" /\ Goto("s3")
     \/ box # "none" /\ stale /\ box' = "none" /\ Goto("box")
     \/ box = "none" /\ box' = "running" /\ Goto("s3")
  /\ stale' = (stale /\ box # "none")
  /\ UNCHANGED <<toml, agent, tls, renew, router, ca, faults, hist>>

\* With half a configuration the container restarts for ever.
Answers == box = "running" /\ toml = "whole"

WaitForS3 ==
  /\ pc = "s3"
  /\ IF Answers THEN Goto("bucket") ELSE EndRun
  /\ UNCHANGED <<agent, tls, renew, router, store, ca, faults, hist>>

EnsureBucket ==
  /\ pc = "bucket"
  /\ PhaseDone
  /\ UNCHANGED <<store, agent, tls, renew, router, ca, faults, hist>>

\* Between runs the operator configures another image, or stops the container.
StoreChanges ==
  /\ phase = 0 /\ box # "none"
  /\ \/ stale' = TRUE /\ UNCHANGED <<box, faults>>
     \/ Fault /\ box' = "stopped" /\ UNCHANGED stale
  /\ UNCHANGED <<toml, run, agent, tls, renew, router, ca, hist>>

(***************************************************************************)
(* The end of a parallel step, in any phase; nginx.                        *)
(***************************************************************************)
\* ufw goes on whatever the agents of the other nodes answer.
GatherAll ==
  /\ Gathered
  /\ \/ pc # "others" /\ \E n \in Agents : at[n] = "bad" /\ EndRun
     \/ /\ pc = "others" \/ \A n \in Agents : at[n] # "bad"
        /\ CASE pc \in {"catalog", "others"} -> PhaseDone
             [] pc = "converge" -> Goto("verify")
             [] pc = "router"   -> Goto("upload")
             [] pc = "trust"    -> Goto("issue")
  /\ scratch' = IF pc = "others" THEN CleanedUp ELSE scratch
  /\ UNCHANGED <<agent, tls, renew, rules, loaded, own, orphan, store, ca,
                 faults, hist>>

\* nginx -t && systemctl is-active nginx, on every balancer.
VerifyNginx ==
  /\ pc = "verify"
  /\ IF \A n \in Balancers : ~Mixed(n) /\ served[n] # None THEN PhaseDone
       ELSE EndRun
  /\ UNCHANGED <<agent, tls, renew, router, store, ca, faults, hist>>

(***************************************************************************)
(* ufw: a script on the router strips the NAT tables of before.rules and   *)
(* puts in those of the file uploaded before.                              *)
(***************************************************************************)
UploadNatRules ==
  /\ pc = "upload"
  /\ scratch' = [scratch EXCEPT !.nat = TRUE]
  /\ own' = "cp" /\ Goto("wait")
  /\ UNCHANGED <<agent, tls, renew, rules, loaded, orphan, store, ca, faults, hist>>

Restored == IF scratch.bak = "none" THEN rules ELSE scratch.bak

\* The script at step s goes to "ok" or "failed", or on to the next step.
ScriptStep(s, to) ==
  \/ /\ s = "cp" /\ to = "strip"
     /\ scratch' = [scratch EXCEPT !.bak = rules] /\ UNCHANGED rules
  \/ /\ s = "strip" /\ to = "awk"
     /\ rules' = "bare" /\ UNCHANGED scratch
  \/ /\ s = "awk" /\ to = "mv"
     /\ scratch' = [scratch EXCEPT !.new =
          IF ~scratch.nat THEN rules ELSE IF rules = "bare" THEN "nat" ELSE "twice"]
     /\ UNCHANGED rules
  \/ /\ s = "mv" /\ scratch.new # "none" /\ to = "check"
     /\ rules' = scratch.new /\ scratch' = [scratch EXCEPT !.new = "none"]
  \/ /\ s = "mv" /\ scratch.new = "none" /\ to = "failed"
     /\ rules' = Restored
  \/ /\ s = "check" /\ rules = "nat" /\ to = "ok"
     /\ scratch' = [scratch EXCEPT !.bak = "none"] /\ UNCHANGED rules
  \/ /\ s = "check" /\ rules # "nat" /\ to = "failed"
     /\ rules' = Restored

NatScript ==
  /\ own # "none" /\ pc = "wait"
  /\ \E to \in {"strip", "awk", "mv", "check", "ok", "failed"} :
       /\ ScriptStep(own, to)
       /\ CASE to = "ok"     -> own' = "none" /\ Goto("reload")
            [] to = "failed" -> own' = "none" /\ EndRun /\ scratch' = CleanedUp
            [] OTHER         -> own' = to /\ UNCHANGED run
  /\ UNCHANGED <<agent, tls, renew, loaded, orphan, store, ca, faults, hist>>

\* A command of the script fails, as on a full disk: the trap restores.
ScriptAborts == own' = "none" /\ EndRun
\* Mutant: no trap.
NatScriptFailsBare ==
  /\ own \in {"strip", "awk", "mv"} /\ pc = "wait" /\ Fault
  /\ ScriptAborts
  /\ UNCHANGED <<rules, scratch, agent, tls, renew, loaded, orphan, store, ca, hist>>

NatScriptFails ==
  /\ own \in {"strip", "awk", "mv"} /\ pc = "wait" /\ Fault
  /\ rules' = Restored
  /\ scratch' = CleanedUp
  /\ ScriptAborts
  /\ UNCHANGED <<agent, tls, renew, loaded, orphan, store, ca, hist>>

OrphanScript ==
  /\ orphan # "none"
  /\ \E to \in {"strip", "awk", "mv", "check", "ok", "failed"} :
       /\ ScriptStep(orphan, to)
       /\ orphan' = IF to \in {"ok", "failed"} THEN "none" ELSE to
       /\ to = "failed" => UNCHANGED scratch
  /\ UNCHANGED <<run, agent, tls, renew, loaded, own, store, ca, faults, hist>>

ReloadUfw ==
  /\ pc = "reload"
  /\ loaded' = rules
  /\ Goto("others")
  /\ UNCHANGED <<agent, tls, renew, rules, scratch, own, orphan, store, ca,
                 faults, hist>>

\* The machine restarts: /tmp is emptied, its scripts are gone.
RouterReboots ==
  /\ Fault
  /\ own' = "none" /\ orphan' = "none" /\ scratch' = NoScratch
  /\ loaded' = rules
  /\ daemon' = IF key[Router] = 0 THEN daemon ELSE daemon \cup {Router}
  /\ cut' = IF own # "none" THEN cut \cup {Router} ELSE cut
  /\ IF pc = "wait" THEN EndRun ELSE UNCHANGED run
  /\ UNCHANGED <<key, signed, tls, renew, rules, store, ca, last>>

(***************************************************************************)
(* pki.                                                                    *)
(***************************************************************************)
\* step ca init, unless root_ca.crt exists.
InitCA ==
  /\ \/ pc = "ca" /\ stepca = "none" /\ stepca' = "half" /\ Goto("init")
     \/ pc = "ca" /\ stepca # "none" /\ UNCHANGED stepca /\ Goto("health")
     \/ pc = "init" /\ stepca' = "whole" /\ Goto("health")
  /\ UNCHANGED <<trust, agent, tls, renew, router, store, faults, hist>>

\* The service is installed; without its configuration it never answers.
HealthOfCA ==
  /\ pc = "health"
  /\ IF stepca = "whole" THEN Goto("trust") ELSE EndRun
  /\ UNCHANGED <<agent, tls, renew, router, store, ca, faults, hist>>

TrustRoot(n) ==
  /\ pc = "trust" /\ at[n] = "run"
  /\ trust' = trust \cup {n}
  /\ TaskIs(n, "ok")
  /\ UNCHANGED <<agent, tls, renew, router, store, stepca, faults, hist>>

InUse == {bundle} \cup UNION {{crt[n], tkey[n], served[n], renew[n]} : n \in Balancers}

Issue ==
  /\ pc = "issue" /\ Issues \ InUse # {}  \* bound: an identity is left
  /\ bundle' = CHOOSE p \in Issues : p \notin InUse
  /\ lb' = 1 /\ last' = None /\ Enter("crt")
  /\ UNCHANGED <<order, phase, next, resumed, agent, tls, renew, router, store, ca,
                 faults, cut>>

\* Mutant: nginx is restarted as soon as the certificate is there.
RestartAfterCertificate ==
  /\ pc = "crt"
  /\ crt' = [crt EXCEPT ![LBs[lb]] = bundle]
  /\ served' = [served EXCEPT ![LBs[lb]] = None]
  /\ Goto("key")
  /\ UNCHANGED <<tkey, agent, renew, router, store, ca, faults, hist>>

CopyCertificate ==
  /\ pc = "crt"
  /\ crt' = [crt EXCEPT ![LBs[lb]] = bundle]
  /\ Goto("key")
  /\ UNCHANGED <<tkey, served, agent, renew, router, store, ca, faults, hist>>

CopyKey ==
  /\ pc = "key"
  /\ tkey' = [tkey EXCEPT ![LBs[lb]] = bundle]
  /\ Goto("nginx")
  /\ UNCHANGED <<crt, served, agent, renew, router, store, ca, faults, hist>>

\* systemctl reload nginx: an inactive unit is not reloaded, and a pair that
\* does not fit leaves nginx with the one it has.
Reloaded(n) == IF served[n] = None \/ Mixed(n) THEN served[n] ELSE crt[n]

\* Mutant: the loop over the balancers goes one too far.
OneBalancerTooFar ==
  /\ pc = "nginx"
  /\ LET n == LBs[lb]
     IN /\ served' = [served EXCEPT ![n] = Reloaded(n)]
        /\ IF Mixed(n) \/ served[n] = None THEN EndRun
           ELSE /\ lb' = lb + 1 /\ Enter("crt")
                /\ UNCHANGED <<order, phase, bundle, next, resumed>>
  /\ UNCHANGED <<crt, tkey, agent, renew, router, store, ca, faults, hist>>

\* Mutant: the new pair is copied, nginx keeps the old one.
ReloadForgotten ==
  /\ pc = "nginx"
  /\ IF lb = Len(LBs) THEN PhaseDone /\ last' = bundle
       ELSE /\ lb' = lb + 1 /\ Enter("crt")
            /\ UNCHANGED <<order, phase, bundle, next, resumed, last>>
  /\ UNCHANGED <<tls, agent, renew, router, store, ca, faults, cut>>

\* nginx -t && systemctl reload nginx, then the next balancer.
ReloadNginx ==
  /\ pc = "nginx"
  /\ LET n == LBs[lb]
     IN /\ served' = [served EXCEPT ![n] = Reloaded(n)]
        /\ IF Mixed(n) \/ served[n] = None THEN EndRun /\ UNCHANGED last
           ELSE IF lb = Len(LBs) THEN PhaseDone /\ last' = bundle
           ELSE /\ lb' = lb + 1 /\ Enter("crt")
                /\ UNCHANGED <<order, phase, bundle, next, resumed, last>>
  /\ UNCHANGED <<crt, tkey, agent, renew, router, store, ca, faults, cut>>

(***************************************************************************)
(* cms-tls-renew.sh, by its timer, and what else happens.                  *)
(***************************************************************************)
RenewStart(n) ==
  /\ n \in trust /\ stepca = "whole"
  /\ \A m \in Balancers : renew[m] = None
  /\ cut \cap Balancers = {}  \* bound: one renewal meets the phase
  /\ crt[n] \in Issues /\ ~Mixed(n)
  /\ renew' = [renew EXCEPT ![n] = crt[n]]
  /\ UNCHANGED <<run, agent, tls, router, store, ca, faults, hist>>

\* step ca renew writes the certificate and reloads nginx.
RenewWrite(n) ==
  /\ renew[n] # None
  /\ crt' = [crt EXCEPT ![n] = renew[n]]
  /\ served' = [served EXCEPT ![n] =
       IF @ # None /\ tkey[n] = renew[n] THEN renew[n] ELSE @]
  /\ renew' = [renew EXCEPT ![n] = None]
  /\ cut' = IF <<crt[n], tkey[n]>> # <<renew[n], renew[n]>> THEN cut \cup {n} ELSE cut
  /\ UNCHANGED <<run, tkey, agent, router, store, ca, faults, last>>

\* The balancer reboots: the daemon starts, and nginx if the pair fits.
BalancerReboots(n) ==
  /\ crt[n] # None /\ Fault
  /\ served' = [served EXCEPT ![n] = IF Mixed(n) THEN None ELSE crt[n]]
  /\ renew' = [renew EXCEPT ![n] = None] /\ daemon' = daemon \cup {n}
  /\ UNCHANGED <<run, crt, tkey, key, signed, router, store, ca, hist>>

\* The machine is created anew and the operator deploys it.
Recreate(n) ==
  /\ phase = 0 /\ Fault
  /\ key' = [key EXCEPT ![n] = 0] /\ daemon' = daemon \ {n}
  /\ crt' = [crt EXCEPT ![n] = None] /\ tkey' = [tkey EXCEPT ![n] = None]
  /\ served' = [served EXCEPT ![n] = None] /\ renew' = [renew EXCEPT ![n] = None]
  /\ trust' = trust \ {n} /\ cut' = cut \ {n} /\ last' = None
  /\ next' = 1
  /\ UNCHANGED <<order, phase, pc, at, lb, bundle, resumed, signed, router, store, stepca>>

\* A run that returns does its deferred clean-up, one that is killed does not.
Deferred ==
  \/ UNCHANGED scratch
  \/ order[phase] = "ufw" /\ scratch' = CleanedUp

\* The session is lost, the context cancelled or the command fails: the run
\* ends, or is killed.
RunFails ==
  /\ phase # 0 /\ TasksOf(pc) = {} /\ Fault
  /\ EndRun
  /\ own' = "none"
  /\ IF own = "none" THEN UNCHANGED <<orphan, cut>>
       ELSE /\ cut' = cut \cup {Router}
            /\ \/ UNCHANGED orphan
               \/ orphan = "none" /\ orphan' = own
  /\ Deferred
  /\ UNCHANGED <<agent, tls, renew, rules, loaded, store, ca, last>>

KilledInStep ==
  /\ TasksOf(pc) # {} /\ Fault
  /\ EndRun
  /\ daemon' \in {daemon} \cup {DaemonLeft(n) : n \in {m \in Agents : Working(m)}}
  /\ Deferred
  /\ UNCHANGED <<key, signed, tls, renew, rules, loaded, own, orphan, store, ca, hist>>

Task(n) ==
  \/ AgentConverges(n) \/ AgentMismatch(n) \/ CleanCertificate(n) \/ WipeSsl(n)
  \/ TrustRoot(n)

Program ==
  \/ SignPending \/ GatherAll \/ VerifyNginx
  \/ WriteGarageConfig \/ EnsureContainer \/ WaitForS3 \/ EnsureBucket
  \/ UploadNatRules \/ NatScript \/ ReloadUfw
  \/ InitCA \/ HealthOfCA \/ Issue \/ CopyCertificate \/ CopyKey \/ ReloadNginx
  \/ \E n \in Agents : Task(n)

Next ==
  \/ \E i \in 1..Len(order), resume \in BOOLEAN : Start(i, resume)
  \/ Program \/ NatScriptFails \/ RunFails \/ KilledInStep
  \/ OrphanScript \/ RouterReboots \/ StoreChanges
  \/ \E n \in Agents : TaskFails(n) \/ DaemonRun(n)
  \/ \E n \in Balancers : RenewStart(n) \/ RenewWrite(n) \/ BalancerReboots(n) \/ Recreate(n)

Spec == Init /\ [][Next]_vars

\* A run goes on, an operator starts the next, and the puppet daemons come by
\* at times that the runs do not choose.
FairSpec ==
  /\ Spec
  /\ WF_vars(Program) /\ WF_vars(OrphanScript)
  /\ WF_vars(\E i \in 1..Len(order), resume \in BOOLEAN : Start(i, resume))
  /\ \A n \in Balancers : SF_vars(DaemonRun(n)) /\ WF_vars(RenewWrite(n))

(***************************************************************************)
(* Properties.                                                             *)
(***************************************************************************)
Steps == {"sign", "catalog", "toml", "fill", "box", "s3", "bucket", "converge",
  "verify", "router", "upload", "wait", "reload", "others", "ca", "init", "health",
  "trust", "issue", "crt", "key", "nginx"}
ScriptAt == {"none", "cp", "strip", "awk", "mv", "check"}

TypeOK ==
  /\ phase \in 0..Len(order) /\ pc \in Steps \cup {"idle"} /\ (phase = 0 <=> pc = "idle")
  /\ at \in [Agents -> {"no", "run", "clean", "wipe", "again", "ok", "bad"}]
  /\ lb \in DOMAIN LBs /\ bundle \in Pairs /\ next \in 1..Len(order) + 1
  /\ {key[n] : n \in Agents} \cup {signed[n] : n \in Agents} \subseteq 0..2
  /\ {daemon, trust, cut} \subseteq SUBSET Agents /\ {resumed, stale} \subseteq BOOLEAN
  /\ {crt, tkey, served, renew} \subseteq [Balancers -> Pairs] /\ last \in Pairs
  /\ stepca \in {"none", "half", "whole"} /\ toml \in {"none", "part", "whole"}
  /\ {rules, loaded} \subseteq Rules /\ {own, orphan} \subseteq ScriptAt
  /\ scratch \in [nat : BOOLEAN, bak : Rules \cup {"none"}, new : Rules \cup {"none"}]
  /\ (own # "none" => pc = "wait") /\ box \in {"none", "stopped", "running"}
  /\ faults \in 0..MaxFaults

\* The pair is replaced on one balancer after the other, and a failed reload
\* ends the run: of the balancers that the nginx phase has checked no more are
\* down than faults have happened, so that no single fault takes TLS from the VIP.
FaultCostsOneBalancer ==
  Recorded("nginx") => Cardinality({n \in Balancers : served[n] = None}) <= faults

\* After a rollout that was reported as done every balancer serves the new pair,
\* through reboots, daemons and renewals.
RolloutServed ==
  last # None => \A n \in Balancers : served[n] \in {last} \/ n \in cut

\* The router never loses its NAT table, unless a script was left alone.
NatKept == [][loaded = "nat" => loaded' = "nat" \/ Router \in cut']_vars

\* Self-healing never takes a good identity from an agent.
GoodIdentity(n) == key[n] # 0 /\ signed[n] = key[n]
HealthyKept ==
  [][\A n \in Agents : GoodIdentity(n) => GoodIdentity(n)' \/ (phase = 0 /\ key'[n] = 0)]_vars

\* Repeated resumes complete; the only dead ends are those that faults
\* at the wrong moment make: half a garage.toml, half a CA, a pair that does not
\* fit while the nginx phase is still to come, and a balancer whose nginx is down
\* and whose puppet daemon a failed catalog has left stopped.
DeadEnd ==
  \/ toml = "part" \/ stepca = "half"
  \/ Recorded("nginx") /\ \E n \in Balancers : served[n] = None /\ n \notin daemon
  \/ ~Recorded("nginx") /\ \E n \in Balancers : Mixed(n)
ResumeCompletes == <>[]resumed => <>[](next > Len(order)) \/ <>[]DeadEnd

=============================================================================
