---------------------------- MODULE DrbdFailover ----------------------------
(***************************************************************************)
(* The replicated MariaDB volume of the two masters (templates/drbd and    *)
(* internal/phases/drbd): on each, drbd-watchdog.sh polls DRBD, fences a   *)
(* dead peer with fence-peer.sh and promotes with drbd-failover.sh, which  *)
(* an operator may run too.  Their sleeps are left out: a step may happen  *)
(* at any time.                                                            *)
(*                                                                         *)
(* External, modelled from how the scripts use them: the DRBD kernel with  *)
(* the policies of cms-data.res, the hypervisor, the network, Kubernetes.  *)
(***************************************************************************)
EXTENDS Naturals, FiniteSets

CONSTANTS
  Master1, Master2,
  FailThreshold,  \* FAIL_THRESHOLD
  FenceRequired,  \* FENCE_REQUIRED = 1 (drbd.fencing in the configuration)
  BootPrimary,    \* drbd-cms-primary.service is installed on master 1
  KubeReady,      \* K3s is installed: kubectl and its KUBECONFIG exist
  FaultKinds,     \* which faults and operator commands happen
  MaxFaults       \* bound on their number

Kinds == {"crash", "poweron", "repl", "icmp", "gateway", "hypervisor", "api",
          "restart", "operator"}

ASSUME MastersAssumption == Master1 # Master2
ASSUME ThresholdAssumption == FailThreshold \in Nat \ {0}
ASSUME SettingsAssumption ==
  /\ {FenceRequired, BootPrimary, KubeReady} \subseteq BOOLEAN
  /\ FaultKinds \subseteq Kinds
  /\ MaxFaults \in Nat

Node == {Master1, Master2}
Peer(n) == IF n = Master1 THEN Master2 ELSE Master1

\* The pod runs nowhere.
NoNode == "no-node"

\* Who runs drbd-failover.sh on a node: at most one process of each.
Caller == {"watchdog", "operator"}

VARIABLES
  \* Hypervisor and network.
  power,      \* the domain of the node runs
  shot,       \* a `virsh destroy` of the node is on its way
  repl,       \* the masters' DRBD ports reach each other
  icmp,       \* the masters' pings reach each other
  gateway,    \* the node reaches its default gateway
  hypervisor, \* the node reaches the hypervisor by ssh
  faults,     \* faults so far
  \* DRBD.
  role, disk, conn,
  standAlone, \* DRBD gave up connecting after a split brain
  ahead,      \* the node's generation has changes its peer never saw
  mounted,    \* the volume is mounted on the node
  missing,    \* history: the node lacks a write MariaDB acknowledged
  \* Processes.
  wd,         \* where the watchdog of a node is
  healthy,    \* its CSTATE is one of the connected states
  strikes,    \* its STRIKE_COUNT
  script,     \* where each drbd-failover.sh of a node is
  boot,       \* where drbd-cms-primary.service of a node is
  \* Kubernetes.
  api,        \* `kubectl` is answered
  label,      \* nodes labelled drbd-status=primary
  pod,        \* the node mariadb-0 is bound to
  deleting,   \* mariadb-0 is being deleted
  replicas    \* of the mariadb StatefulSet

net == <<repl, icmp, gateway, hypervisor>>
drbd == <<role, disk, conn, standAlone, ahead, mounted, missing>>
procs == <<wd, healthy, strikes, script, boot>>
kube == <<label, pod, deleting, replicas>>
vars == <<power, shot, net, faults, drbd, procs, api, kube>>

Fault(kind) ==
  kind \in FaultKinds /\ faults < MaxFaults /\ faults' = faults + 1

(***************************************************************************)
(* The kernel: what drbdadm and mount may do, and the connection.          *)
(***************************************************************************)
CanPromote(n, force) ==
  /\ role[n] # "Unknown"
  /\ conn # "Down" => role[Peer(n)] # "Primary"
  /\ force \/ disk[n] = "UpToDate" \/ conn = "Syncing"

\* A node that turns Primary on its own starts a generation of its own.
BecomePrimary(n) ==
  /\ role' = [role EXCEPT ![n] = "Primary"]
  /\ ahead' = [ahead EXCEPT ![n] = @ \/ conn = "Down"]
  /\ disk' = [disk EXCEPT ![n] = IF conn = "Down" THEN "UpToDate" ELSE @]
  /\ UNCHANGED <<conn, standAlone, mounted, missing>>

Busy(n) == KubeReady /\ pod = n

\* MariaDB commits alone: Protocol C waits for the peer only while it is
\* connected.  A write that both nodes store changes nothing recorded here.
Write(n) ==
  /\ role[n] = "Primary" /\ mounted[n] /\ disk[n] = "UpToDate"
  /\ KubeReady => pod = n
  /\ conn = "Down"
  /\ ahead' = [ahead EXCEPT ![n] = TRUE]
  /\ missing' = [missing EXCEPT ![Peer(n)] = TRUE]
  /\ UNCHANGED <<power, shot, net, faults, role, disk, conn, standAlone,
                 mounted, procs, api, kube>>

SyncFrom(s) ==
  /\ conn' = "Syncing"
  /\ disk' = [disk EXCEPT ![Peer(s)] = "Inconsistent"]
  /\ ahead' = [n \in Node |-> FALSE]
  /\ UNCHANGED standAlone

GiveUpConnecting ==
  /\ standAlone' = [n \in Node |-> TRUE]
  /\ UNCHANGED <<conn, disk, ahead>>

\* The side after-sb-0pri discard-zero-changes, after-sb-1pri discard-secondary
\* and after-sb-2pri disconnect make the source; a Primary is never a target.
Sources ==
  {s \in Node :
     LET t == Peer(s) IN
       /\ role[t] # "Primary"
       /\ disk[s] = "UpToDate"
       /\ \/ ahead[s] /\ (ahead[t] => role[s] = "Primary")
          \/ ~ahead[t] /\ disk[t] = "Inconsistent"}

InStep == \A n \in Node : ~ahead[n] /\ disk[n] = "UpToDate"

Connectable ==
  repl /\ \A n \in Node : role[n] # "Unknown" /\ ~standAlone[n]

Connect ==
  /\ conn = "Down" /\ Connectable
  /\ \/ /\ InStep
        /\ conn' = "Connected"
        /\ UNCHANGED <<disk, ahead, standAlone>>
     \/ ~InStep /\ \E s \in Sources : SyncFrom(s)
     \/ ~InStep /\ Sources = {} /\ GiveUpConnecting
  /\ UNCHANGED <<power, shot, net, faults, role, mounted, missing, procs, api,
                 kube>>

SyncDone ==
  /\ conn = "Syncing"
  /\ conn' = "Connected"
  /\ \E s \in Node : /\ disk[s] = "UpToDate"
                     /\ missing' = [n \in Node |-> missing[s]]
  /\ disk' = [n \in Node |-> "UpToDate"]
  /\ UNCHANGED <<power, shot, net, faults, role, standAlone, ahead, mounted,
                 procs, api, kube>>

Disconnect ==
  /\ conn # "Down" /\ ~repl
  /\ conn' = "Down"
  /\ UNCHANGED <<power, shot, net, faults, role, disk, standAlone, ahead,
                 mounted, missing, procs, api, kube>>

(***************************************************************************)
(* Machines.                                                               *)
(***************************************************************************)
PowerOff(n) ==
  /\ power' = [power EXCEPT ![n] = FALSE]
  /\ role' = [role EXCEPT ![n] = "Unknown"]
  /\ conn' = "Down"
  /\ standAlone' = [standAlone EXCEPT ![n] = FALSE]
  /\ mounted' = [mounted EXCEPT ![n] = FALSE]
  /\ wd' = [wd EXCEPT ![n] = "off"]
  /\ healthy' = [healthy EXCEPT ![n] = FALSE]
  /\ strikes' = [strikes EXCEPT ![n] = 0]
  /\ script' = [script EXCEPT ![n] = [c \in Caller |-> "off"]]
  /\ boot' = [boot EXCEPT ![n] = "off"]
  /\ UNCHANGED <<net, disk, ahead, missing, api, kube>>

Crash(n) == power[n] /\ Fault("crash") /\ PowerOff(n) /\ UNCHANGED shot

\* The hypervisor executes a `virsh destroy`, maybe after its sender gave up;
\* on a domain that is off it only fails.
Destroyed(n) ==
  /\ shot[n]
  /\ shot' = [shot EXCEPT ![n] = FALSE]
  /\ \/ power[n] /\ PowerOff(n)
     \/ ~power[n] /\ UNCHANGED <<power, net, drbd, procs, api, kube>>
  /\ UNCHANGED faults

\* Someone starts the domain again; systemd starts the services of the node.
PowerOn(n) ==
  /\ "poweron" \in FaultKinds
  /\ ~power[n]
  /\ power' = [power EXCEPT ![n] = TRUE]
  /\ wd' = [wd EXCEPT ![n] = "sample"]
  /\ boot' = [boot EXCEPT ![n] = IF n = Master1 /\ BootPrimary
                                   THEN "up" ELSE "off"]
  /\ UNCHANGED <<shot, net, faults, drbd, healthy, strikes, script, api,
                 kube>>

\* Restart=always with KillMode=process: a new watchdog, with no strikes, and a
\* running drbd-failover.sh or fence-peer.sh goes on without its parent.
WatchdogRestart(n) ==
  /\ wd[n] # "off"
  /\ Fault("restart")
  /\ wd' = [wd EXCEPT ![n] = "sample"]
  /\ healthy' = [healthy EXCEPT ![n] = FALSE]
  /\ strikes' = [strikes EXCEPT ![n] = 0]
  /\ \/ UNCHANGED shot
     \/ /\ wd[n] = "shoot" /\ hypervisor[n]
        /\ shot' = [shot EXCEPT ![Peer(n)] = TRUE]
  /\ UNCHANGED <<power, net, drbd, script, boot, api, kube>>

LinkFault ==
  /\ \/ Fault("repl") /\ repl' = FALSE /\ UNCHANGED <<icmp, gateway, hypervisor>>
     \/ Fault("icmp") /\ icmp' = FALSE /\ UNCHANGED <<repl, gateway, hypervisor>>
     \/ /\ Fault("gateway")
        /\ \E n \in Node : gateway' = [gateway EXCEPT ![n] = FALSE]
        /\ UNCHANGED <<repl, icmp, hypervisor>>
     \/ /\ Fault("hypervisor")
        /\ \E n \in Node : hypervisor' = [hypervisor EXCEPT ![n] = FALSE]
        /\ UNCHANGED <<repl, icmp, gateway>>
  /\ UNCHANGED <<power, shot, drbd, procs, api, kube>>

LinkRepaired ==
  /\ repl' \in {repl, TRUE} /\ icmp' \in {icmp, TRUE}
  /\ gateway' \in {gateway, [n \in Node |-> TRUE]}
  /\ hypervisor' \in {hypervisor, [n \in Node |-> TRUE]}
  /\ net' # net
  /\ UNCHANGED <<power, shot, faults, drbd, procs, api, kube>>

\* kubectl stops being answered, or is answered again.
ApiChanges ==
  /\ \/ api /\ Fault("api") /\ api' = FALSE
     \/ KubeReady /\ ~api /\ api' = TRUE /\ UNCHANGED faults
  /\ UNCHANGED <<power, shot, net, drbd, procs, kube>>

(***************************************************************************)
(* drbd-watchdog.sh, one action per command whose result can be stale.     *)
(***************************************************************************)
Goto(n, from, to) == wd[n] = from /\ wd' = [wd EXCEPT ![n] = to]

\* `sleep; continue`: the loop starts over with so many strikes.
LoopAgain(n, from, count) ==
  /\ Goto(n, from, "sample")
  /\ strikes' = [strikes EXCEPT ![n] = count]

\* `drbdadm up`, then LOCAL_ROLE and CSTATE are read.
Up(n) ==
  role' = [role EXCEPT ![n] = IF @ = "Unknown" THEN "Secondary" ELSE @]

SampleIgnoresPrimary(n) ==
  /\ Up(n)
  /\ Goto(n, "sample", "umount")
  /\ healthy' = [healthy EXCEPT ![n] = conn # "Down"]
  /\ UNCHANGED <<power, shot, net, faults, disk, conn, standAlone, ahead,
                 mounted, missing, strikes, script, boot, api, kube>>

Sample(n) ==
  /\ Up(n)
  /\ \/ /\ role[n] = "Primary"
        /\ Goto(n, "sample", "mount")
        /\ strikes' = [strikes EXCEPT ![n] = 0]
        /\ UNCHANGED healthy
     \/ /\ role[n] # "Primary"
        /\ Goto(n, "sample", "umount")
        /\ healthy' = [healthy EXCEPT ![n] = conn # "Down"]
        /\ UNCHANGED strikes
  /\ UNCHANGED <<power, shot, net, faults, disk, conn, standAlone, ahead,
                 mounted, missing, script, boot, api, kube>>

\* CASE 1: mount, ignoring a failure, then label and move the pod here.
MountPrimary(n) ==
  /\ Goto(n, "mount", "label")
  /\ mounted' = [mounted EXCEPT ![n] = @ \/ role[n] = "Primary"]
  /\ UNCHANGED <<power, shot, net, faults, role, disk, conn, standAlone, ahead,
                 missing, healthy, strikes, script, boot, api, kube>>

LabelPrimary(n) ==
  /\ Goto(n, "label", "sample")
  /\ label' = IF api THEN label \cup {n} ELSE label
  /\ deleting' = (deleting \/ (api /\ pod \notin {NoNode, n}))
  /\ UNCHANGED <<power, shot, net, faults, drbd, healthy, strikes, script, boot,
                 api, pod, replicas>>

\* CASE 2: unmount, ignoring a failure, and drop a label left behind.
UnmountSecondary(n) ==
  /\ Goto(n, "umount", "unlabel")
  /\ mounted' = [mounted EXCEPT ![n] = @ /\ Busy(n)]
  /\ UNCHANGED <<power, shot, net, faults, role, disk, conn, standAlone, ahead,
                 missing, healthy, strikes, script, boot, api, kube>>

KeepStaleLabel(n) ==
  /\ \/ healthy[n] /\ LoopAgain(n, "unlabel", 0)
     \/ ~healthy[n] /\ Goto(n, "unlabel", "gateway") /\ UNCHANGED strikes
  /\ healthy' = [healthy EXCEPT ![n] = FALSE]
  /\ UNCHANGED <<power, shot, net, faults, drbd, script, boot, api, kube>>

UnlabelSecondary(n) ==
  /\ label' = IF api THEN label \ {n} ELSE label
  /\ \/ healthy[n] /\ LoopAgain(n, "unlabel", 0)
     \/ ~healthy[n] /\ Goto(n, "unlabel", "gateway") /\ UNCHANGED strikes
  /\ healthy' = [healthy EXCEPT ![n] = FALSE]
  /\ UNCHANGED <<power, shot, net, faults, drbd, script, boot, api, pod,
                 deleting, replicas>>

\* Quorum check 1: an isolated node never fails over.
PingGateway(n) ==
  /\ \/ gateway[n] /\ Goto(n, "gateway", "peer") /\ UNCHANGED strikes
     \/ ~gateway[n] /\ LoopAgain(n, "gateway", 0)
  /\ UNCHANGED <<power, shot, net, faults, drbd, healthy, script, boot, api,
                 kube>>

PeerReplicates(n) == repl /\ power[Peer(n)]

PeerAnswers(n) == icmp /\ power[Peer(n)]

StrikeOnceMore(n) ==
  /\ \/ PeerAnswers(n) /\ LoopAgain(n, "peer", 0)
     \/ /\ ~PeerAnswers(n) /\ strikes[n] < FailThreshold
        /\ LoopAgain(n, "peer", strikes[n] + 1)
     \/ /\ ~PeerAnswers(n) /\ strikes[n] >= FailThreshold
        /\ Goto(n, "peer", "fence") /\ UNCHANGED strikes
  /\ UNCHANGED <<power, shot, net, faults, drbd, healthy, script, boot, api,
                 kube>>

\* Quorum check 2: strike a peer that does not answer.
PingPeer(n) ==
  /\ \/ PeerAnswers(n) /\ LoopAgain(n, "peer", 0)
     \/ /\ ~PeerAnswers(n) /\ strikes[n] + 1 < FailThreshold
        /\ LoopAgain(n, "peer", strikes[n] + 1)
     \/ /\ ~PeerAnswers(n) /\ strikes[n] + 1 >= FailThreshold
        /\ Goto(n, "peer", "fence") /\ UNCHANGED strikes
  /\ UNCHANGED <<power, shot, net, faults, drbd, healthy, script, boot, api,
                 kube>>

(***************************************************************************)
(* fence-peer.sh, called by the watchdog.                                  *)
(***************************************************************************)
is_off(n) == hypervisor[n] /\ ~power[Peer(n)]

Fenced(n, from) == Goto(n, from, "launch") /\ UNCHANGED strikes

NeverUnfenced(n, from) == LoopAgain(n, from, 0)

NotFenced(n, from) ==
  IF FenceRequired
    THEN LoopAgain(n, from, 0)
    ELSE Goto(n, from, "launch") /\ UNCHANGED strikes

FenceStart(n) ==
  /\ \/ is_off(n) /\ Fenced(n, "fence")
     \/ ~is_off(n) /\ Goto(n, "fence", "shoot") /\ UNCHANGED strikes
  /\ UNCHANGED <<power, shot, net, faults, drbd, healthy, script, boot, api,
                 kube>>

\* FENCE_COMMAND under `timeout`; whether it worked is not known yet.
Shoot(n) ==
  /\ Goto(n, "shoot", "confirm")
  /\ shot' = [shot EXCEPT ![Peer(n)] = @ \/ hypervisor[n]]
  /\ UNCHANGED <<power, net, faults, drbd, healthy, strikes, script, boot, api,
                 kube>>

TrustShot(n) ==
  /\ Fenced(n, "confirm")
  /\ UNCHANGED <<power, shot, net, faults, drbd, healthy, script, boot, api,
                 kube>>

\* is_off is asked up to ten times; the last answer may still be no.
Confirm(n) ==
  /\ \/ is_off(n) /\ Fenced(n, "confirm")
     \/ ~is_off(n) /\ NotFenced(n, "confirm")
  /\ UNCHANGED <<power, shot, net, faults, drbd, healthy, script, boot, api,
                 kube>>

Call(n, c, command) ==
  /\ script[n][c] = "off"
  /\ script' = [script EXCEPT ![n][c] = command]

LaunchPromote(n) ==
  /\ Goto(n, "launch", "wait")
  /\ Call(n, "watchdog", "promote")
  /\ UNCHANGED <<power, shot, net, faults, drbd, healthy, strikes, boot, api,
                 kube>>

PromoteReturns(n) ==
  /\ script[n]["watchdog"] = "off"
  /\ LoopAgain(n, "wait", 0)
  /\ UNCHANGED <<power, shot, net, faults, drbd, healthy, script, boot, api,
                 kube>>

(***************************************************************************)
(* drbd-failover.sh, run by caller c on node n.                            *)
(***************************************************************************)
Step(n, c, from, to) ==
  /\ script[n][c] = from
  /\ script' = [script EXCEPT ![n][c] = to]

scriptOnly == <<power, shot, net, faults, wd, healthy, strikes, boot>>

\* The documented use: promote by hand when the other master is down.
OperatorPromote(n) ==
  /\ power[n] /\ ~power[Peer(n)]
  /\ Fault("operator")
  /\ Call(n, "operator", "promote")
  /\ UNCHANGED <<power, shot, net, drbd, wd, healthy, strikes, boot, api, kube>>

OperatorDemote(n) ==
  /\ power[n]
  /\ Fault("operator")
  /\ Call(n, "operator", "demote")
  /\ UNCHANGED <<power, shot, net, drbd, wd, healthy, strikes, boot, api, kube>>

\* `drbdadm status`: the resource must be active.
CheckActive(n, c) ==
  /\ Step(n, c, "promote", IF role[n] = "Unknown" THEN "off" ELSE "primary")
  /\ UNCHANGED <<scriptOnly, drbd, api, kube>>

PromoteOnce(n, c) ==
  /\ \/ CanPromote(n, FALSE) /\ Step(n, c, "primary", "mount")
        /\ BecomePrimary(n)
     \/ ~CanPromote(n, FALSE) /\ Step(n, c, "primary", "off")
        /\ UNCHANGED drbd
  /\ UNCHANGED <<scriptOnly, api, kube>>

\* `drbdadm primary`, and after a refusal `drbdadm primary --force`.
Promote(n, c) ==
  /\ \/ CanPromote(n, FALSE) /\ Step(n, c, "primary", "mount")
        /\ BecomePrimary(n)
     \/ ~CanPromote(n, FALSE) /\ Step(n, c, "primary", "force")
        /\ UNCHANGED drbd
  /\ UNCHANGED <<scriptOnly, api, kube>>

PromoteForce(n, c) ==
  /\ \/ CanPromote(n, TRUE) /\ Step(n, c, "force", "mount")
        /\ BecomePrimary(n)
     \/ ~CanPromote(n, TRUE) /\ Step(n, c, "force", "off") /\ UNCHANGED drbd
  /\ UNCHANGED <<scriptOnly, api, kube>>

MountPromoted(n, c) ==
  /\ \/ /\ role[n] = "Primary" \/ mounted[n]
        /\ Step(n, c, "mount", "label")
        /\ mounted' = [mounted EXCEPT ![n] = TRUE]
     \/ /\ role[n] # "Primary" /\ ~mounted[n]
        /\ Step(n, c, "mount", "off")
        /\ UNCHANGED mounted
  /\ UNCHANGED <<scriptOnly, role, disk, conn, standAlone, ahead, missing, api,
                 kube>>

\* Without K3s the script ends here.
MoveLabel(n, c) ==
  /\ Step(n, c, "label", IF KubeReady THEN "delete" ELSE "off")
  /\ label' = IF api THEN (label \cup {n}) \ {Peer(n)} ELSE label
  /\ UNCHANGED <<scriptOnly, drbd, api, pod, deleting, replicas>>

\* `kubectl delete pod` asks for the deletion and waits until the pod is gone.
DeletePod(n, c) ==
  /\ Step(n, c, "delete", IF api /\ pod # NoNode THEN "gone" ELSE "scale")
  /\ deleting' = (deleting \/ (api /\ pod # NoNode))
  /\ UNCHANGED <<scriptOnly, drbd, api, label, pod, replicas>>

PodGone(n, c) ==
  /\ ~deleting \/ ~api
  /\ Step(n, c, "gone", "scale")
  /\ UNCHANGED <<scriptOnly, drbd, api, kube>>

ScaleUp(n, c) ==
  /\ Step(n, c, "scale", "off")
  /\ replicas' = IF api THEN 1 ELSE replicas
  /\ UNCHANGED <<scriptOnly, drbd, api, label, pod, deleting>>

ScaleDown(n, c) ==
  /\ Step(n, c, "demote", "unlabel")
  /\ replicas' = IF api THEN 0 ELSE replicas
  /\ UNCHANGED <<scriptOnly, drbd, api, label, pod, deleting>>

DropLabel(n, c) ==
  /\ Step(n, c, "unlabel", "umount")
  /\ label' = IF api THEN label \ {n} ELSE label
  /\ UNCHANGED <<scriptOnly, drbd, api, pod, deleting, replicas>>

\* `set -e`: a busy volume ends the script with the node still Primary.
Unmount(n, c) ==
  /\ \/ /\ mounted[n] /\ Busy(n)
        /\ Step(n, c, "umount", "off")
        /\ UNCHANGED mounted
     \/ /\ ~(mounted[n] /\ Busy(n))
        /\ Step(n, c, "umount", "secondary")
        /\ mounted' = [mounted EXCEPT ![n] = FALSE]
  /\ UNCHANGED <<scriptOnly, role, disk, conn, standAlone, ahead, missing, api,
                 kube>>

\* The kernel refuses while the volume is mounted (again).
Demote(n, c) ==
  /\ Step(n, c, "secondary", "off")
  /\ role' = [role EXCEPT ![n] = IF mounted[n] \/ @ = "Unknown"
                                   THEN @ ELSE "Secondary"]
  /\ UNCHANGED <<scriptOnly, disk, conn, standAlone, ahead, mounted, missing,
                 api, kube>>

(***************************************************************************)
(* drbd-cms-primary.service: `up; sleep 3; drbdadm primary || true`.       *)
(***************************************************************************)
BootUp(n) ==
  /\ boot[n] = "up"
  /\ boot' = [boot EXCEPT ![n] = "promote"]
  /\ Up(n)
  /\ UNCHANGED <<power, shot, net, faults, disk, conn, standAlone, ahead, mounted,
                 missing, wd, healthy, strikes, script, api, kube>>

BootPromoteAtOnce(n) ==
  /\ boot[n] = "promote"
  /\ boot' = [boot EXCEPT ![n] = "off"]
  /\ IF CanPromote(n, FALSE) THEN BecomePrimary(n) ELSE UNCHANGED drbd
  /\ UNCHANGED <<power, shot, net, faults, wd, healthy, strikes, script, api,
                 kube>>

\* The sleep is taken to be enough to connect to a peer that can be reached.
BootPromote(n) ==
  /\ boot[n] = "promote"
  /\ ~(conn = "Down" /\ Connectable)
  /\ boot' = [boot EXCEPT ![n] = "off"]
  /\ IF CanPromote(n, FALSE) THEN BecomePrimary(n) ELSE UNCHANGED drbd
  /\ UNCHANGED <<power, shot, net, faults, wd, healthy, strikes, script, api,
                 kube>>

(***************************************************************************)
(* Kubernetes: node affinity on the label, one pod of a StatefulSet at a   *)
(* time, and a deletion that only the kubelet of the pod's node completes. *)
(***************************************************************************)
SchedulePod ==
  /\ KubeReady /\ pod = NoNode /\ replicas = 1
  /\ \E n \in label : power[n] /\ pod' = n
  /\ UNCHANGED <<power, shot, net, faults, drbd, procs, api, label, deleting,
                 replicas>>

ScalePodAway ==
  /\ replicas = 0 /\ pod # NoNode /\ ~deleting
  /\ deleting' = TRUE
  /\ UNCHANGED <<power, shot, net, faults, drbd, procs, api, label, pod,
                 replicas>>

KubeletStopsPod ==
  /\ deleting /\ \E n \in Node : pod = n /\ power[n]
  /\ pod' = NoNode /\ deleting' = FALSE
  /\ UNCHANGED <<power, shot, net, faults, drbd, procs, api, label, replicas>>

(***************************************************************************)
(* The specification.  It starts where the drbd phase and the K3s phase    *)
(* leave the pair: master 1 Primary, mounted and labelled, and in sync.    *)
(***************************************************************************)
Init ==
  /\ power = [n \in Node |-> TRUE] /\ shot = [n \in Node |-> FALSE]
  /\ repl = TRUE /\ icmp = TRUE
  /\ gateway = [n \in Node |-> TRUE] /\ hypervisor = [n \in Node |-> TRUE]
  /\ faults = 0
  /\ role = [n \in Node |-> IF n = Master1 THEN "Primary" ELSE "Secondary"]
  /\ disk = [n \in Node |-> "UpToDate"] /\ conn = "Connected"
  /\ standAlone = [n \in Node |-> FALSE] /\ ahead = [n \in Node |-> FALSE]
  /\ mounted = [n \in Node |-> n = Master1]
  /\ missing = [n \in Node |-> FALSE]
  /\ wd = [n \in Node |-> "sample"] /\ healthy = [n \in Node |-> FALSE]
  /\ strikes = [n \in Node |-> 0]
  /\ script = [n \in Node |-> [c \in Caller |-> "off"]]
  /\ boot = [n \in Node |-> "off"]
  /\ api = KubeReady /\ deleting = FALSE /\ replicas = 1
  /\ label = IF KubeReady THEN {Master1} ELSE {}
  /\ pod = IF KubeReady THEN Master1 ELSE NoNode

Watchdog(n) ==
  \/ Sample(n) \/ MountPrimary(n) \/ LabelPrimary(n)
  \/ UnmountSecondary(n) \/ UnlabelSecondary(n)
  \/ PingGateway(n) \/ PingPeer(n)
  \/ FenceStart(n) \/ Shoot(n) \/ Confirm(n)
  \/ LaunchPromote(n) \/ PromoteReturns(n)

Failover(n, c) ==
  \/ CheckActive(n, c) \/ Promote(n, c) \/ PromoteForce(n, c)
  \/ MountPromoted(n, c) \/ MoveLabel(n, c) \/ DeletePod(n, c)
  \/ PodGone(n, c) \/ ScaleUp(n, c)
  \/ ScaleDown(n, c) \/ DropLabel(n, c) \/ Unmount(n, c) \/ Demote(n, c)

Boot(n) == BootUp(n) \/ BootPromote(n)

Kernel == Connect \/ SyncDone \/ Disconnect \/ \E n \in Node : Write(n)

Kubernetes == SchedulePod \/ ScalePodAway \/ KubeletStopsPod

Environment ==
  \/ \E n \in Node : \/ Crash(n) \/ PowerOn(n) \/ WatchdogRestart(n)
                      \/ Destroyed(n) \/ OperatorPromote(n) \/ OperatorDemote(n)
  \/ LinkFault \/ LinkRepaired \/ ApiChanges

Next ==
  \/ \E n \in Node : Watchdog(n) \/ Boot(n)
                       \/ \E c \in Caller : Failover(n, c)
  \/ Kernel \/ Kubernetes \/ Environment

Spec == Init /\ [][Next]_vars

\* Running processes go on, the kernel connects what can connect, a destroy on
\* its way arrives.  Nothing forces a fault, a repair or a power-on.
Fairness ==
  /\ \A n \in Node : /\ WF_vars(Watchdog(n)) /\ WF_vars(Boot(n))
                      /\ WF_vars(Destroyed(n))
                      /\ \A c \in Caller : WF_vars(Failover(n, c))
  /\ WF_vars(Connect) /\ WF_vars(SyncDone) /\ WF_vars(Disconnect)
  /\ WF_vars(Kubernetes)

FairSpec == Spec /\ Fairness

(***************************************************************************)
(* Properties.                                                             *)
(***************************************************************************)
WatchdogPlaces == {"off", "sample", "mount", "label", "umount", "unlabel",
                   "gateway", "peer", "fence", "shoot", "confirm", "launch",
                   "wait"}
ScriptPlaces == {"off", "promote", "primary", "force", "mount", "label",
                 "delete", "gone", "scale", "demote", "unlabel", "umount",
                 "secondary"}

TypeOK ==
  /\ power \in [Node -> BOOLEAN] /\ shot \in [Node -> BOOLEAN]
  /\ repl \in BOOLEAN /\ icmp \in BOOLEAN /\ api \in BOOLEAN
  /\ gateway \in [Node -> BOOLEAN] /\ hypervisor \in [Node -> BOOLEAN]
  /\ faults \in 0..MaxFaults
  /\ role \in [Node -> {"Unknown", "Secondary", "Primary"}]
  /\ disk \in [Node -> {"UpToDate", "Inconsistent"}]
  /\ conn \in {"Down", "Connected", "Syncing"}
  /\ standAlone \in [Node -> BOOLEAN] /\ ahead \in [Node -> BOOLEAN]
  /\ mounted \in [Node -> BOOLEAN] /\ missing \in [Node -> BOOLEAN]
  /\ wd \in [Node -> WatchdogPlaces] /\ healthy \in [Node -> BOOLEAN]
  /\ strikes \in [Node -> 0..(FailThreshold - 1)]
  /\ script \in [Node -> [Caller -> ScriptPlaces]]
  /\ boot \in [Node -> {"off", "up", "promote"}]
  /\ label \in SUBSET Node /\ pod \in Node \cup {NoNode}
  /\ deleting \in BOOLEAN /\ replicas \in {0, 1}

\* drbd-watchdog.sh: "both nodes can never write the replicated volume".
NoDualPrimary == ~ \A n \in Node : role[n] = "Primary"

(* The inductive invariant behind NoDualPrimary. *)
\* The node is Primary or is about to try: its fence has been confirmed, or it
\* was told to promote while its peer was down.
Claims(n) ==
  \/ role[n] = "Primary"
  \/ wd[n] = "launch"
  \/ \E c \in Caller : script[n][c] \in {"promote", "primary", "force"}

OffIsOff ==
  \A n \in Node : ~power[n] =>
    /\ role[n] = "Unknown" /\ wd[n] = "off" /\ boot[n] = "off"
    /\ \A c \in Caller : script[n][c] = "off"

OneClaim == ~ \A n \in Node : Claims(n)

NoBootService == \A n \in Node : boot[n] = "off"

SafeInv == TypeOK /\ OffIsOff /\ OneClaim /\ NoBootService

\* Required fencing makes a FencedVolume of the pair: nobody claims the volume
\* while its peer runs or another claim stands, whichever scripts, services and
\* operators promote, demote, restart or race ("never promote without a
\* confirmed fence").
Holder == IF \E n \in Node : Claims(n) THEN CHOOSE n \in Node : Claims(n) ELSE NoNode

FV == INSTANCE FencedVolume WITH
  Masters <- Node, Nobody <- NoNode, up <- power, holder <- Holder

VolumeIsFenced == FV!Spec

\* While pings between the masters never fail no watchdog has its living peer
\* powered off, however the replication link, the gateways or the hypervisor
\* flap: drbd-watchdog.sh, "prevents false positives".
AlivePeerNotFenced == []icmp => [](\A n \in Node : power[n])

\* README, "zero data loss": the node that serves the volume holds every write
\* MariaDB acknowledged.  It does after any one fault or command; during a
\* replication outage the Primary goes on acknowledging, so two can break it.
ServesEveryWrite ==
  \A n \in Node : role[n] = "Primary" /\ mounted[n] => ~missing[n]

OneFaultLosesNothing == faults <= 1 => ServesEveryWrite

\* Losing links never costs both masters: the watchdogs of a pair that was
\* healthy do not shoot each other.
OneMasterSurvives == \E n \in Node : power[n]

\* Master 2 takes over when master 1 is gone for good and master 2 can see its
\* gateway and, to confirm the fence, the hypervisor: Primary, volume mounted.
SurvivorServes ==
  <>[](/\ power[Master2] /\ ~power[Master1] /\ gateway[Master2]
       /\ FenceRequired => hypervisor[Master2])
    => <>[](role[Master2] = "Primary" /\ mounted[Master2])

\* Once kubectl answers and both nodes stay up, the label that binds MariaDB
\* ends up on exactly the Primary, whatever took over, demoted or crashed before.
LabelFollowsPrimary ==
  <>[](api /\ \A n \in Node : power[n])
    => <>[](label = {n \in Node : role[n] = "Primary"})

\* drbd-watchdog.sh: "reschedules MariaDB when the peer master goes down".
MariaDBRescheduled ==
  <>[](~power[Master1] /\ power[Master2]) => <>(pod = Master2)

=============================================================================
