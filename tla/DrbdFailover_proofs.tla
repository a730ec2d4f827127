------------------------- MODULE DrbdFailover_proofs -------------------------
(***************************************************************************)
(* Proofs about DrbdFailover, for any strike threshold, any settings, and  *)
(* any kinds and number of faults.  Its parts: types, OnePrimary, one      *)
(* fault loses nothing, and what broken links alone can cost.              *)
(***************************************************************************)
EXTENDS DrbdFailover, TLAPS

LEMMA PeerType == ASSUME NEW n \in Node PROVE Peer(n) \in Node /\ Peer(n) # n
BY MastersAssumption DEF Node, Peer

LEMMA InitTypeOK == Init => TypeOK
<1> SUFFICES ASSUME Init PROVE TypeOK
  OBVIOUS
<1>1. /\ power \in [Node -> BOOLEAN] /\ shot \in [Node -> BOOLEAN]
      /\ gateway \in [Node -> BOOLEAN] /\ hypervisor \in [Node -> BOOLEAN]
      /\ standAlone \in [Node -> BOOLEAN] /\ ahead \in [Node -> BOOLEAN]
      /\ missing \in [Node -> BOOLEAN] /\ healthy \in [Node -> BOOLEAN]
      /\ boot \in [Node -> {"off", "up", "promote"}]
      /\ disk \in [Node -> {"UpToDate", "Inconsistent"}]
  BY DEF Init
<1>2. role \in [Node -> {"Unknown", "Secondary", "Primary"}]
  BY DEF Init
<1>3. mounted \in [Node -> BOOLEAN]
  BY DEF Init
<1>4. wd \in [Node -> WatchdogPlaces]
  BY DEF Init, WatchdogPlaces
<1>5. strikes \in [Node -> 0..(FailThreshold - 1)]
  BY ThresholdAssumption DEF Init
<1>6. script \in [Node -> [Caller -> ScriptPlaces]]
  BY DEF Init, ScriptPlaces
<1>7. /\ faults \in 0..MaxFaults
      /\ repl \in BOOLEAN /\ icmp \in BOOLEAN /\ api \in BOOLEAN
      /\ conn \in {"Down", "Connected", "Syncing"}
      /\ deleting \in BOOLEAN /\ replicas \in {0, 1}
  <2>1. KubeReady \in BOOLEAN
    BY SettingsAssumption, Zenon
  <2>2. faults \in 0..MaxFaults
    BY SettingsAssumption DEF Init
  <2> QED
    BY <2>1, <2>2 DEF Init
<1>8. label \in SUBSET Node /\ pod \in Node \cup {NoNode}
  <2>1. Master1 \in Node
    BY DEF Node
  <2>2. label = {Master1} \/ label = {}
    BY DEF Init
  <2>3. pod = Master1 \/ pod = NoNode
    BY DEF Init
  <2> QED
    BY <2>1, <2>2, <2>3
<1> QED
  BY <1>1, <1>2, <1>3, <1>4, <1>5, <1>6, <1>7, <1>8 DEF TypeOK

LEMMA GotoType ==
  ASSUME TypeOK, NEW n \in Node, NEW from, NEW to \in WatchdogPlaces,
         Goto(n, from, to)
  PROVE  wd' \in [Node -> WatchdogPlaces]
BY DEF Goto, TypeOK

LEMMA LoopAgainType ==
  ASSUME TypeOK, NEW n \in Node, NEW from, NEW count \in 0..(FailThreshold - 1),
         LoopAgain(n, from, count)
  PROVE  /\ wd' \in [Node -> WatchdogPlaces]
         /\ strikes' \in [Node -> 0..(FailThreshold - 1)]
BY GotoType DEF LoopAgain, TypeOK, WatchdogPlaces

LEMMA StepType ==
  ASSUME TypeOK, NEW n \in Node, NEW c \in Caller, NEW from,
         NEW to \in ScriptPlaces, Step(n, c, from, to)
  PROVE  script' \in [Node -> [Caller -> ScriptPlaces]]
BY DEF Step, TypeOK

\* Where the watchdog may go, and that zero is a number of strikes.
LEMMA Places ==
  /\ {"sample", "mount", "label", "umount", "unlabel", "gateway", "peer",
      "fence", "shoot", "confirm", "launch", "wait"} \subseteq WatchdogPlaces
  /\ {"off", "promote", "primary", "force", "mount", "label", "delete", "gone",
      "scale", "unlabel", "umount", "secondary"} \subseteq ScriptPlaces
  /\ 0 \in 0..(FailThreshold - 1)
BY ThresholdAssumption DEF WatchdogPlaces, ScriptPlaces

LEMMA WatchdogType ==
  ASSUME TypeOK, NEW n \in Node, Watchdog(n)
  PROVE  TypeOK'
<1> USE DEF net, drbd, kube
<1>1. CASE Sample(n)
  <2>1. wd' \in [Node -> WatchdogPlaces]
    BY <1>1, GotoType, Places DEF Sample
  <2>2. role' \in [Node -> {"Unknown", "Secondary", "Primary"}]
    BY <1>1 DEF Sample, Up, TypeOK
  <2>3. /\ strikes' \in [Node -> 0..(FailThreshold - 1)]
        /\ healthy' \in [Node -> BOOLEAN]
    BY <1>1, Places DEF Sample, TypeOK
  <2> QED
    BY <1>1, <2>1, <2>2, <2>3 DEF Sample, TypeOK
<1>2. CASE MountPrimary(n)
  BY <1>2, GotoType, Places DEF MountPrimary, TypeOK
<1>3. CASE LabelPrimary(n)
  BY <1>3, GotoType, Places DEF LabelPrimary, TypeOK
<1>4. CASE UnmountSecondary(n)
  BY <1>4, GotoType, Places DEF UnmountSecondary, Busy, TypeOK
<1>5. CASE UnlabelSecondary(n)
  <2>1. /\ wd' \in [Node -> WatchdogPlaces]
        /\ strikes' \in [Node -> 0..(FailThreshold - 1)]
    BY <1>5, GotoType, LoopAgainType, Places DEF UnlabelSecondary, TypeOK
  <2> QED
    BY <1>5, <2>1 DEF UnlabelSecondary, TypeOK
<1>6. CASE PingGateway(n)
  <2>1. /\ wd' \in [Node -> WatchdogPlaces]
        /\ strikes' \in [Node -> 0..(FailThreshold - 1)]
    BY <1>6, GotoType, LoopAgainType, Places DEF PingGateway, TypeOK
  <2> QED
    BY <1>6, <2>1 DEF PingGateway, TypeOK
<1>7. CASE PingPeer(n)
  <2>1. strikes[n] + 1 < FailThreshold =>
          strikes[n] + 1 \in 0..(FailThreshold - 1)
    BY ThresholdAssumption DEF TypeOK
  <2>2. /\ wd' \in [Node -> WatchdogPlaces]
        /\ strikes' \in [Node -> 0..(FailThreshold - 1)]
    BY <1>7, <2>1, GotoType, LoopAgainType, Places DEF PingPeer, TypeOK
  <2> QED
    BY <1>7, <2>2 DEF PingPeer, TypeOK
<1>8. CASE FenceStart(n)
  <2>1. /\ wd' \in [Node -> WatchdogPlaces]
        /\ strikes' \in [Node -> 0..(FailThreshold - 1)]
    BY <1>8, GotoType, Places DEF FenceStart, Fenced, TypeOK
  <2> QED
    BY <1>8, <2>1 DEF FenceStart, TypeOK
<1>9. CASE Shoot(n)
  BY <1>9, GotoType, PeerType, Places DEF Shoot, TypeOK
<1>10. CASE Confirm(n)
  <2>1. /\ wd' \in [Node -> WatchdogPlaces]
        /\ strikes' \in [Node -> 0..(FailThreshold - 1)]
    BY <1>10, GotoType, LoopAgainType, Places
       DEF Confirm, Fenced, NotFenced, TypeOK
  <2> QED
    BY <1>10, <2>1 DEF Confirm, TypeOK
<1>11. CASE LaunchPromote(n)
  <2>1. wd' \in [Node -> WatchdogPlaces]
    BY <1>11, GotoType, Places DEF LaunchPromote
  <2>2. script' \in [Node -> [Caller -> ScriptPlaces]]
    BY <1>11, Places DEF LaunchPromote, Call, TypeOK
  <2> QED
    BY <1>11, <2>1, <2>2 DEF LaunchPromote, TypeOK
<1>12. CASE PromoteReturns(n)
  <2>1. /\ wd' \in [Node -> WatchdogPlaces]
        /\ strikes' \in [Node -> 0..(FailThreshold - 1)]
    BY <1>12, LoopAgainType, Places DEF PromoteReturns
  <2> QED
    BY <1>12, <2>1 DEF PromoteReturns, TypeOK
<1> QED
  BY <1>1, <1>2, <1>3, <1>4, <1>5, <1>6, <1>7, <1>8, <1>9, <1>10, <1>11,
     <1>12 DEF Watchdog

LEMMA BecomePrimaryType ==
  ASSUME TypeOK, NEW n \in Node, BecomePrimary(n) \/ UNCHANGED drbd
  PROVE  /\ role' \in [Node -> {"Unknown", "Secondary", "Primary"}]
         /\ ahead' \in [Node -> BOOLEAN]
         /\ disk' \in [Node -> {"UpToDate", "Inconsistent"}]
         /\ UNCHANGED <<conn, standAlone, mounted, missing>>
<1>1. /\ role \in [Node -> {"Unknown", "Secondary", "Primary"}]
      /\ ahead \in [Node -> BOOLEAN]
      /\ disk \in [Node -> {"UpToDate", "Inconsistent"}]
  BY DEF TypeOK
<1>2. CASE UNCHANGED drbd
  BY <1>1, <1>2 DEF drbd
<1>3. CASE BecomePrimary(n)
  <2>1. role' \in [Node -> {"Unknown", "Secondary", "Primary"}]
    BY <1>1, <1>3 DEF BecomePrimary
  <2>2. (ahead[n] \/ conn = "Down") \in BOOLEAN
    OBVIOUS
  <2>3. ahead' \in [Node -> BOOLEAN]
    BY <1>1, <1>3, <2>2 DEF BecomePrimary
  <2>4. disk' \in [Node -> {"UpToDate", "Inconsistent"}]
    BY <1>1, <1>3 DEF BecomePrimary
  <2> QED
    BY <1>3, <2>1, <2>3, <2>4 DEF BecomePrimary
<1> QED
  BY <1>2, <1>3

LEMMA FailoverType ==
  ASSUME TypeOK, NEW n \in Node, NEW c \in Caller, Failover(n, c)
  PROVE  TypeOK'
<1> USE DEF net, kube, scriptOnly
<1>1. CASE CheckActive(n, c)
  BY <1>1, StepType, Places DEF CheckActive, TypeOK, drbd
<1>2. CASE Promote(n, c)
  <2>1. script' \in [Node -> [Caller -> ScriptPlaces]]
    BY <1>2, StepType, Places DEF Promote
  <2>2. BecomePrimary(n) \/ UNCHANGED drbd
    BY <1>2 DEF Promote
  <2> QED
    BY <1>2, <2>1, <2>2, BecomePrimaryType DEF Promote, TypeOK
<1>3. CASE PromoteForce(n, c)
  <2>1. script' \in [Node -> [Caller -> ScriptPlaces]]
    BY <1>3, StepType, Places DEF PromoteForce
  <2>2. BecomePrimary(n) \/ UNCHANGED drbd
    BY <1>3 DEF PromoteForce
  <2> QED
    BY <1>3, <2>1, <2>2, BecomePrimaryType DEF PromoteForce, TypeOK
<1>4. CASE MountPromoted(n, c)
  <2>1. script' \in [Node -> [Caller -> ScriptPlaces]]
    BY <1>4, StepType, Places DEF MountPromoted
  <2>2. mounted' \in [Node -> BOOLEAN]
    BY <1>4 DEF MountPromoted, TypeOK
  <2> QED
    BY <1>4, <2>1, <2>2 DEF MountPromoted, TypeOK
<1>5. CASE MoveLabel(n, c)
  BY <1>5, StepType, Places DEF MoveLabel, TypeOK, drbd
<1>6. CASE DeletePod(n, c)
  BY <1>6, StepType, Places DEF DeletePod, TypeOK, drbd
<1>7. CASE PodGone(n, c)
  BY <1>7, StepType, Places DEF PodGone, TypeOK, drbd
<1>8. CASE ScaleUp(n, c)
  BY <1>8, StepType, Places DEF ScaleUp, TypeOK, drbd
<1>9. CASE ScaleDown(n, c)
  BY <1>9, StepType, Places DEF ScaleDown, TypeOK, drbd
<1>10. CASE DropLabel(n, c)
  BY <1>10, StepType, Places DEF DropLabel, TypeOK, drbd
<1>11. CASE Unmount(n, c)
  <2>1. script' \in [Node -> [Caller -> ScriptPlaces]]
    BY <1>11, StepType, Places DEF Unmount
  <2>2. mounted' \in [Node -> BOOLEAN]
    BY <1>11 DEF Unmount, TypeOK
  <2> QED
    BY <1>11, <2>1, <2>2 DEF Unmount, TypeOK
<1>12. CASE Demote(n, c)
  BY <1>12, StepType, Places DEF Demote, TypeOK
<1> QED
  BY <1>1, <1>2, <1>3, <1>4, <1>5, <1>6, <1>7, <1>8, <1>9, <1>10, <1>11,
     <1>12 DEF Failover

LEMMA PowerOffType ==
  ASSUME TypeOK, NEW n \in Node, PowerOff(n), shot' \in [Node -> BOOLEAN],
         faults' \in 0..MaxFaults
  PROVE  TypeOK'
<1>1. /\ power' \in [Node -> BOOLEAN] /\ standAlone' \in [Node -> BOOLEAN]
      /\ mounted' \in [Node -> BOOLEAN] /\ healthy' \in [Node -> BOOLEAN]
      /\ boot' \in [Node -> {"off", "up", "promote"}]
      /\ role' \in [Node -> {"Unknown", "Secondary", "Primary"}]
  BY DEF PowerOff, TypeOK
<1>2. /\ wd' \in [Node -> WatchdogPlaces]
      /\ strikes' \in [Node -> 0..(FailThreshold - 1)]
  BY Places DEF PowerOff, TypeOK, WatchdogPlaces
<1>3. script' \in [Node -> [Caller -> ScriptPlaces]]
  BY Places DEF PowerOff, TypeOK
<1> QED
  BY <1>1, <1>2, <1>3 DEF PowerOff, TypeOK, net, kube

LEMMA FaultType ==
  ASSUME TypeOK, NEW kind, Fault(kind)
  PROVE  faults' \in 0..MaxFaults
BY SettingsAssumption DEF Fault, TypeOK

LEMMA EnvironmentType ==
  ASSUME TypeOK, Environment
  PROVE  TypeOK'
<1> USE DEF net, drbd, kube, procs
<1>1. ASSUME NEW n \in Node, Crash(n) PROVE TypeOK'
  BY <1>1, PowerOffType, FaultType DEF Crash, TypeOK
<1>2. ASSUME NEW n \in Node, PowerOn(n) PROVE TypeOK'
  <2>1. wd' \in [Node -> WatchdogPlaces]
    BY <1>2, Places DEF PowerOn, TypeOK
  <2> QED
    BY <1>2, <2>1 DEF PowerOn, TypeOK
<1>3. ASSUME NEW n \in Node, WatchdogRestart(n) PROVE TypeOK'
  <2>1. /\ wd' \in [Node -> WatchdogPlaces]
        /\ strikes' \in [Node -> 0..(FailThreshold - 1)]
        /\ healthy' \in [Node -> BOOLEAN]
    BY <1>3, Places DEF WatchdogRestart, TypeOK
  <2>2. shot' \in [Node -> BOOLEAN]
    BY <1>3 DEF WatchdogRestart, TypeOK
  <2>3. faults' \in 0..MaxFaults
    BY <1>3, FaultType DEF WatchdogRestart
  <2> QED
    BY <1>3, <2>1, <2>2, <2>3 DEF WatchdogRestart, TypeOK
<1>4. ASSUME NEW n \in Node, Destroyed(n) PROVE TypeOK'
  <2>1. shot' \in [Node -> BOOLEAN] /\ faults' \in 0..MaxFaults
    BY <1>4 DEF Destroyed, TypeOK
  <2>2. CASE power[n] /\ PowerOff(n)
    BY <2>1, <2>2, PowerOffType
  <2>3. CASE UNCHANGED <<power, net, drbd, procs, api, kube>>
    BY <2>1, <2>3 DEF TypeOK
  <2> QED
    BY <1>4, <2>2, <2>3 DEF Destroyed
<1>5. ASSUME NEW n \in Node, OperatorPromote(n) \/ OperatorDemote(n)
      PROVE  TypeOK'
  <2>1. script' \in [Node -> [Caller -> ScriptPlaces]]
    BY <1>5 DEF OperatorPromote, OperatorDemote, Call, TypeOK, ScriptPlaces,
                Caller
  <2>2. faults' \in 0..MaxFaults
    BY <1>5, FaultType DEF OperatorPromote, OperatorDemote
  <2> QED
    BY <1>5, <2>1, <2>2 DEF OperatorPromote, OperatorDemote, TypeOK
<1>6. CASE LinkFault
  <2>1. faults' \in 0..MaxFaults
    BY <1>6, FaultType DEF LinkFault
  <2>2. /\ repl' \in BOOLEAN /\ icmp' \in BOOLEAN
        /\ gateway' \in [Node -> BOOLEAN] /\ hypervisor' \in [Node -> BOOLEAN]
    BY <1>6 DEF LinkFault, TypeOK
  <2> QED
    BY <1>6, <2>1, <2>2 DEF LinkFault, TypeOK
<1>7. CASE LinkRepaired
  <2>1. /\ repl' \in BOOLEAN /\ icmp' \in BOOLEAN
        /\ gateway' \in [Node -> BOOLEAN] /\ hypervisor' \in [Node -> BOOLEAN]
    BY <1>7 DEF LinkRepaired, TypeOK
  <2> QED
    BY <1>7, <2>1 DEF LinkRepaired, TypeOK
<1>8. CASE ApiChanges
  <2>1. faults' \in 0..MaxFaults
    BY <1>8, FaultType DEF ApiChanges, TypeOK
  <2> QED
    BY <1>8, <2>1 DEF ApiChanges, TypeOK
<1> QED
  BY <1>1, <1>2, <1>3, <1>4, <1>5, <1>6, <1>7, <1>8 DEF Environment

LEMMA KernelType ==
  ASSUME TypeOK, Kernel \/ Kubernetes \/ \E n \in Node : Boot(n)
  PROVE  TypeOK'
<1> USE DEF net, drbd, kube, procs
<1>1. CASE Connect
  <2>1. /\ disk \in [Node -> {"UpToDate", "Inconsistent"}]
        /\ conn \in {"Down", "Connected", "Syncing"}
        /\ ahead \in [Node -> BOOLEAN] /\ standAlone \in [Node -> BOOLEAN]
    BY DEF TypeOK
  <2>2. CASE conn' = "Connected" /\ UNCHANGED <<disk, ahead, standAlone>>
    BY <1>1, <2>1, <2>2 DEF Connect, TypeOK
  <2>3. ASSUME NEW s \in Sources, SyncFrom(s) PROVE TypeOK'
    <3>1. disk' \in [Node -> {"UpToDate", "Inconsistent"}]
      BY <2>1, <2>3 DEF SyncFrom
    <3>2. ahead' \in [Node -> BOOLEAN]
      BY <2>3 DEF SyncFrom
    <3>3. conn' = "Syncing" /\ standAlone' = standAlone
      BY <2>3 DEF SyncFrom
    <3> QED
      BY <1>1, <2>1, <3>1, <3>2, <3>3 DEF Connect, TypeOK
  <2>4. CASE GiveUpConnecting
    <3>1. standAlone' \in [Node -> BOOLEAN] /\ UNCHANGED <<conn, disk, ahead>>
      BY <2>4 DEF GiveUpConnecting
    <3> QED
      BY <1>1, <2>1, <3>1 DEF Connect, TypeOK
  <2> QED
    BY <1>1, <2>2, <2>3, <2>4 DEF Connect
<1>2. CASE SyncDone
  BY <1>2 DEF SyncDone, TypeOK
<1>3. CASE Disconnect
  BY <1>3 DEF Disconnect, TypeOK
<1>4. ASSUME NEW n \in Node, Write(n) PROVE TypeOK'
  BY <1>4, PeerType DEF Write, TypeOK
<1>5. CASE SchedulePod
  <2>1. pod' \in Node \cup {NoNode}
    BY <1>5 DEF SchedulePod, TypeOK
  <2> QED
    BY <1>5, <2>1 DEF SchedulePod, TypeOK
<1>6. CASE ScalePodAway \/ KubeletStopsPod
  <2>1. /\ pod' \in Node \cup {NoNode} /\ deleting' \in BOOLEAN
        /\ UNCHANGED <<label, replicas>>
    BY <1>6 DEF ScalePodAway, KubeletStopsPod, TypeOK
  <2>2. UNCHANGED <<power, shot, net, faults, drbd, procs, api>>
    BY <1>6 DEF ScalePodAway, KubeletStopsPod
  <2> QED
    BY <2>1, <2>2 DEF TypeOK
<1>7. ASSUME NEW n \in Node, BootUp(n) PROVE TypeOK'
  BY <1>7 DEF BootUp, Up, TypeOK
<1>8. ASSUME NEW n \in Node, BootPromote(n) PROVE TypeOK'
  <2>1. boot' \in [Node -> {"off", "up", "promote"}]
    BY <1>8 DEF BootPromote, TypeOK
  <2>2. BecomePrimary(n) \/ UNCHANGED drbd
    BY <1>8 DEF BootPromote
  <2> QED
    BY <1>8, <2>1, <2>2, BecomePrimaryType DEF BootPromote, TypeOK
<1> QED
  BY <1>1, <1>2, <1>3, <1>4, <1>5, <1>6, <1>7, <1>8
     DEF Kernel, Kubernetes, Boot

LEMMA NextTypeOK == TypeOK /\ [Next]_vars => TypeOK'
<1>1. CASE UNCHANGED vars
  BY <1>1 DEF TypeOK, vars, net, drbd, procs, kube
<1> QED
  BY <1>1, WatchdogType, FailoverType, KernelType, EnvironmentType DEF Next

\* Every variable keeps its type, for any threshold, settings and faults.
THEOREM FailoverTypeCorrect == Spec => []TypeOK
BY InitTypeOK, NextTypeOK, PTL DEF Spec

(***************************************************************************)
(* One Primary.  With fencing required and without the boot service, a node *)
(* starts to claim the volume only while its peer is off, and an off node   *)
(* claims nothing.                                                          *)
(***************************************************************************)

\* What every step keeps: who is off does nothing, and a new claim is made
\* only while the peer is off.
Kept ==
  /\ OffIsOff'
  /\ \A n \in Node : Claims(n)' => Claims(n) \/ ~power'[Peer(n)]

LEMMA OffClaimsNothing ==
  ASSUME OffIsOff, NEW n \in Node, ~power[n]
  PROVE  ~Claims(n)
BY DEF OffIsOff, Claims

LEMMA KeptIsEnough ==
  ASSUME OneClaim, Kept
  PROVE  OneClaim'
<1> SUFFICES ASSUME \A n \in Node : Claims(n)'
             PROVE  FALSE
  BY DEF OneClaim
<1>1. ASSUME NEW n \in Node PROVE power'[n]
  BY DEF Kept, OffIsOff, Claims
<1>2. ASSUME NEW n \in Node PROVE Claims(n)
  BY <1>1, PeerType DEF Kept
<1> QED
  BY <1>2 DEF OneClaim

\* A watchdog moves only on a running node, and everything else that the
\* invariant speaks of stays as it is.
LEMMA WatchdogMoveKept ==
  ASSUME SafeInv, NEW n \in Node, NEW from, NEW to, Goto(n, from, to),
         from # "off", to = "launch" => ~power[Peer(n)],
         UNCHANGED <<power, script, boot>>,
         \A m \in Node : role'[m] = "Primary" => role[m] = "Primary",
         \A m \in Node : ~power[m] => role'[m] = role[m]
  PROVE  Kept
<1>1. \A m \in Node : wd'[m] = IF m = n THEN to ELSE wd[m]
  BY DEF Goto, SafeInv, TypeOK
<1>2. power[n]
  BY DEF Goto, SafeInv, OffIsOff
<1>3. OffIsOff'
  BY <1>1, <1>2 DEF SafeInv, OffIsOff
<1>4. ASSUME NEW m \in Node, Claims(m)'
      PROVE  Claims(m) \/ ~power'[Peer(m)]
  BY <1>1, <1>4 DEF Claims
<1> QED
  BY <1>3, <1>4 DEF Kept

LEMMA WatchdogKept ==
  ASSUME SafeInv, FenceRequired, NEW n \in Node, Watchdog(n)
  PROVE  Kept
<1> USE DEF LoopAgain, drbd
<1>1. CASE Sample(n)
  <2>1. power[n]
    BY <1>1 DEF Sample, Goto, SafeInv, OffIsOff
  <2>2. /\ \A m \in Node : role'[m] = "Primary" => role[m] = "Primary"
        /\ \A m \in Node : ~power[m] => role'[m] = role[m]
    BY <1>1, <2>1 DEF Sample, Up, SafeInv, TypeOK
  <2> QED
    BY <1>1, <2>2, WatchdogMoveKept DEF Sample
<1>2. CASE MountPrimary(n)
  BY <1>2, WatchdogMoveKept DEF MountPrimary
<1>3. CASE LabelPrimary(n)
  BY <1>3, WatchdogMoveKept DEF LabelPrimary
<1>4. CASE UnmountSecondary(n)
  BY <1>4, WatchdogMoveKept DEF UnmountSecondary
<1>5. CASE UnlabelSecondary(n)
  BY <1>5, WatchdogMoveKept DEF UnlabelSecondary
<1>6. CASE PingGateway(n)
  BY <1>6, WatchdogMoveKept DEF PingGateway
<1>7. CASE PingPeer(n)
  BY <1>7, WatchdogMoveKept DEF PingPeer
<1>8. CASE FenceStart(n)
  BY <1>8, WatchdogMoveKept DEF FenceStart, Fenced, is_off
<1>9. CASE Shoot(n)
  BY <1>9, WatchdogMoveKept DEF Shoot
<1>10. CASE Confirm(n)
  BY <1>10, WatchdogMoveKept DEF Confirm, Fenced, NotFenced, is_off
<1>11. CASE LaunchPromote(n)
  <2>1. power[n]
    BY <1>11 DEF LaunchPromote, Goto, SafeInv, OffIsOff
  <2>2. /\ \A m \in Node : m # n => wd'[m] = wd[m] /\ script'[m] = script[m]
        /\ wd'[n] = "wait"
    BY <1>11 DEF LaunchPromote, Goto, Call, SafeInv, TypeOK
  <2>3. Claims(n)
    BY <1>11 DEF LaunchPromote, Goto, Claims
  <2>4. OffIsOff'
    BY <1>11, <2>1, <2>2 DEF LaunchPromote, SafeInv, OffIsOff
  <2>5. ASSUME NEW m \in Node, m # n, Claims(m)' PROVE Claims(m)
    BY <1>11, <2>2, <2>5 DEF LaunchPromote, Claims
  <2> QED
    BY <2>3, <2>4, <2>5 DEF Kept
<1>12. CASE PromoteReturns(n)
  BY <1>12, WatchdogMoveKept DEF PromoteReturns
<1> QED
  BY <1>1, <1>2, <1>3, <1>4, <1>5, <1>6, <1>7, <1>8, <1>9, <1>10, <1>11,
     <1>12 DEF Watchdog

\* drbd-failover.sh moves only on a running node, and it is already the
\* claim of the node that lets it turn Primary.
LEMMA ScriptMoveKept ==
  ASSUME SafeInv, NEW n \in Node, NEW c \in Caller, NEW from, NEW to,
         Step(n, c, from, to), from # "off",
         to \in {"promote", "primary", "force"} => Claims(n),
         UNCHANGED <<power, wd, boot>>,
         \A m \in Node : m # n => role'[m] = role[m],
         role'[n] = "Primary" => Claims(n)
  PROVE  Kept
<1>1. /\ \A m \in Node : m # n => script'[m] = script[m]
      /\ \A d \in Caller : script'[n][d] = IF d = c THEN to ELSE script[n][d]
  BY DEF Step, SafeInv, TypeOK
<1>2. power[n]
  BY DEF Step, SafeInv, OffIsOff
<1>3. OffIsOff'
  BY <1>1, <1>2 DEF SafeInv, OffIsOff
<1>4. ASSUME NEW m \in Node, m # n, Claims(m)' PROVE Claims(m)
  BY <1>1, <1>4 DEF Claims
<1>5. ASSUME Claims(n)' PROVE Claims(n)
  BY <1>1, <1>5 DEF Claims
<1> QED
  BY <1>3, <1>4, <1>5 DEF Kept

LEMMA FailoverKept ==
  ASSUME SafeInv, NEW n \in Node, NEW c \in Caller, Failover(n, c)
  PROVE  Kept
<1> USE DEF scriptOnly, drbd
<1>1. ASSUME script[n][c] \in {"promote", "primary", "force"}
      PROVE  Claims(n)
  BY <1>1 DEF Claims
<1>2. role[n] = "Primary" => Claims(n)
  BY DEF Claims
<1>3. ASSUME BecomePrimary(n) \/ UNCHANGED drbd
      PROVE  \A m \in Node : m # n => role'[m] = role[m]
  BY <1>3 DEF BecomePrimary, SafeInv, TypeOK
<1>4. CASE CheckActive(n, c)
  BY <1>1, <1>2, <1>4, ScriptMoveKept DEF CheckActive, Step
<1>5. CASE Promote(n, c)
  <2>1. Claims(n)
    BY <1>1, <1>5 DEF Promote, Step
  <2>2. /\ Step(n, c, "primary", "mount") \/ Step(n, c, "primary", "force")
        /\ UNCHANGED <<power, wd, boot>>
        /\ BecomePrimary(n) \/ UNCHANGED drbd
    BY <1>5 DEF Promote
  <2>3. \A m \in Node : m # n => role'[m] = role[m]
    BY <1>3, <2>2
  <2> QED
    BY <2>1, <2>2, <2>3, ScriptMoveKept
<1>6. CASE PromoteForce(n, c)
  <2>1. Claims(n)
    BY <1>1, <1>6 DEF PromoteForce, Step
  <2>2. /\ Step(n, c, "force", "mount") \/ Step(n, c, "force", "off")
        /\ UNCHANGED <<power, wd, boot>>
        /\ BecomePrimary(n) \/ UNCHANGED drbd
    BY <1>6 DEF PromoteForce
  <2>3. \A m \in Node : m # n => role'[m] = role[m]
    BY <1>3, <2>2
  <2> QED
    BY <2>1, <2>2, <2>3, ScriptMoveKept
<1>7. CASE MountPromoted(n, c)
  BY <1>2, <1>7, ScriptMoveKept DEF MountPromoted
<1>8. CASE MoveLabel(n, c)
  BY <1>2, <1>8, ScriptMoveKept DEF MoveLabel
<1>9. CASE DeletePod(n, c)
  BY <1>2, <1>9, ScriptMoveKept DEF DeletePod
<1>10. CASE PodGone(n, c)
  BY <1>2, <1>10, ScriptMoveKept DEF PodGone
<1>11. CASE ScaleUp(n, c)
  BY <1>2, <1>11, ScriptMoveKept DEF ScaleUp
<1>12. CASE ScaleDown(n, c)
  BY <1>2, <1>12, ScriptMoveKept DEF ScaleDown
<1>13. CASE DropLabel(n, c)
  BY <1>2, <1>13, ScriptMoveKept DEF DropLabel
<1>14. CASE Unmount(n, c)
  BY <1>2, <1>14, ScriptMoveKept DEF Unmount
<1>15. CASE Demote(n, c)
  <2>1. /\ \A m \in Node : m # n => role'[m] = role[m]
        /\ role'[n] = "Primary" => role[n] = "Primary"
    BY <1>15 DEF Demote, SafeInv, TypeOK
  <2> QED
    BY <1>2, <1>15, <2>1, ScriptMoveKept DEF Demote
<1> QED
  BY <1>4, <1>5, <1>6, <1>7, <1>8, <1>9, <1>10, <1>11, <1>12, <1>13, <1>14,
     <1>15 DEF Failover

\* A step that leaves the processes, the power and the roles alone.
LEMMA IdleKept ==
  ASSUME SafeInv, UNCHANGED <<power, role, wd, script, boot>>
  PROVE  Kept
BY DEF Kept, SafeInv, OffIsOff, Claims

LEMMA PowerOffKept ==
  ASSUME SafeInv, NEW n \in Node, PowerOff(n)
  PROVE  Kept /\ NoBootService'
<1>1. /\ \A m \in Node : m # n =>
           /\ power'[m] = power[m] /\ role'[m] = role[m] /\ wd'[m] = wd[m]
           /\ boot'[m] = boot[m] /\ script'[m] = script[m]
      /\ role'[n] = "Unknown" /\ wd'[n] = "off" /\ boot'[n] = "off"
      /\ script'[n] = [c \in Caller |-> "off"]
  BY DEF PowerOff, SafeInv, TypeOK
<1>2. OffIsOff' /\ NoBootService'
  BY <1>1 DEF SafeInv, OffIsOff, NoBootService
<1>3. ASSUME NEW m \in Node, Claims(m)' PROVE Claims(m)
  BY <1>1, <1>3 DEF Claims
<1> QED
  BY <1>2, <1>3 DEF Kept

LEMMA EnvironmentKept ==
  ASSUME SafeInv, ~BootPrimary, Environment
  PROVE  Kept /\ NoBootService'
<1> USE DEF drbd, procs, kube
<1>1. ASSUME NEW n \in Node, Crash(n) \/ Destroyed(n)
      PROVE  Kept /\ NoBootService'
  BY <1>1, PowerOffKept, IdleKept
     DEF Crash, Destroyed, SafeInv, NoBootService
<1>2. ASSUME NEW n \in Node, PowerOn(n) PROVE Kept /\ NoBootService'
  <2>1. /\ \A m \in Node : m # n => power'[m] = power[m] /\ wd'[m] = wd[m]
        /\ power'[n] /\ wd'[n] = "sample"
        /\ \A m \in Node : boot'[m] = "off"
        /\ UNCHANGED <<role, script>>
    BY <1>2 DEF PowerOn, SafeInv, NoBootService, TypeOK
  <2>2. OffIsOff' /\ NoBootService'
    BY <2>1 DEF SafeInv, OffIsOff, NoBootService
  <2>3. ASSUME NEW m \in Node, Claims(m)' PROVE Claims(m)
    BY <2>1, <2>3 DEF Claims
  <2> QED
    BY <2>2, <2>3 DEF Kept
<1>3. ASSUME NEW n \in Node, WatchdogRestart(n) PROVE Kept /\ NoBootService'
  <2>1. /\ \A m \in Node : m # n => wd'[m] = wd[m]
        /\ wd'[n] = "sample" /\ wd[n] # "off"
        /\ UNCHANGED <<power, role, script, boot>>
    BY <1>3 DEF WatchdogRestart, SafeInv, TypeOK
  <2>2. OffIsOff' /\ NoBootService'
    BY <2>1 DEF SafeInv, OffIsOff, NoBootService
  <2>3. ASSUME NEW m \in Node, Claims(m)' PROVE Claims(m)
    BY <2>1, <2>3 DEF Claims
  <2> QED
    BY <2>2, <2>3 DEF Kept
<1>4. ASSUME NEW n \in Node, OperatorPromote(n) \/ OperatorDemote(n)
      PROVE  Kept /\ NoBootService'
  <2>1. /\ \A m \in Node : m # n => script'[m] = script[m]
        /\ power[n]
        /\ UNCHANGED <<power, role, wd, boot>>
    BY <1>4 DEF OperatorPromote, OperatorDemote, Call, SafeInv, TypeOK
  <2>2. OffIsOff' /\ NoBootService'
    BY <2>1 DEF SafeInv, OffIsOff, NoBootService
  <2>3. ASSUME NEW m \in Node, m # n, Claims(m)' PROVE Claims(m)
    BY <2>1, <2>3 DEF Claims
  <2>4. CASE OperatorPromote(n)
    BY <2>1, <2>2, <2>3, <2>4 DEF OperatorPromote, Kept
  <2>5. CASE OperatorDemote(n)
    <3>1. \A c \in Caller : script'[n][c] \in {script[n][c], "demote"}
      BY <2>5 DEF OperatorDemote, Call, SafeInv, TypeOK
    <3>2. Claims(n)' => Claims(n)
      BY <2>1, <3>1 DEF Claims
    <3> QED
      BY <2>2, <2>3, <3>2 DEF Kept
  <2> QED
    BY <1>4, <2>4, <2>5, <2>2
<1>5. CASE LinkFault \/ LinkRepaired \/ ApiChanges
  BY <1>5, IdleKept
     DEF LinkFault, LinkRepaired, ApiChanges, SafeInv, NoBootService
<1> QED
  BY <1>1, <1>2, <1>3, <1>4, <1>5 DEF Environment

\* No step makes a claim while the peer is on.
LEMMA StepKept ==
  ASSUME FenceRequired, ~BootPrimary, SafeInv, [Next]_vars
  PROVE  Kept /\ NoBootService'
<1>1. CASE UNCHANGED vars
  BY <1>1, IdleKept DEF vars, drbd, procs, SafeInv, NoBootService
<1>2. ASSUME NEW n \in Node, Watchdog(n) PROVE Kept /\ NoBootService'
  <2>1. UNCHANGED boot
    BY <1>2 DEF Watchdog, Sample, MountPrimary, LabelPrimary,
       UnmountSecondary, UnlabelSecondary, PingGateway, PingPeer, FenceStart,
       Shoot, Confirm, LaunchPromote, PromoteReturns
  <2> QED
    BY <1>2, <2>1, WatchdogKept DEF SafeInv, NoBootService
<1>3. ASSUME NEW n \in Node, NEW c \in Caller, Failover(n, c)
      PROVE  Kept /\ NoBootService'
  <2>1. UNCHANGED boot
    BY <1>3 DEF Failover, CheckActive, Promote, PromoteForce, MountPromoted,
       MoveLabel, DeletePod, PodGone, ScaleUp, ScaleDown, DropLabel, Unmount,
       Demote, scriptOnly
  <2> QED
    BY <1>3, <2>1, FailoverKept DEF SafeInv, NoBootService
<1>4. ASSUME NEW n \in Node PROVE ~Boot(n)
  BY <1>4 DEF Boot, BootUp, BootPromote, SafeInv, NoBootService
<1>5. CASE Kernel \/ Kubernetes
  BY <1>5, IdleKept DEF Kernel, Connect, SyncDone, Disconnect, Write,
     Kubernetes, SchedulePod, ScalePodAway, KubeletStopsPod, drbd, procs,
     SafeInv, NoBootService
<1> QED
  BY <1>1, <1>2, <1>3, <1>4, <1>5, EnvironmentKept DEF Next

LEMMA SafeInvKept ==
  ASSUME FenceRequired, ~BootPrimary
  PROVE  SafeInv /\ [Next]_vars => SafeInv'
<1> SUFFICES ASSUME SafeInv, [Next]_vars PROVE SafeInv'
  OBVIOUS
<1>1. TypeOK'
  BY NextTypeOK DEF SafeInv
<1>2. Kept /\ NoBootService'
  BY StepKept
<1> QED
  BY <1>1, <1>2, KeptIsEnough DEF SafeInv, Kept

LEMMA InitSafe == Init => SafeInv
<1> SUFFICES ASSUME Init PROVE SafeInv
  OBVIOUS
<1>1. OffIsOff /\ NoBootService
  BY DEF Init, OffIsOff, NoBootService
<1>2. ~Claims(Master2)
  BY MastersAssumption DEF Init, Claims, Node
<1> QED
  BY <1>1, <1>2, InitTypeOK DEF SafeInv, OneClaim, Node

\* "Both nodes can never write the replicated volume": where fencing is
\* required and the boot service is not installed, never two Primaries.
THEOREM OnePrimary ==
  ASSUME FenceRequired, ~BootPrimary
  PROVE  Spec => []NoDualPrimary
<1>1. SafeInv => NoDualPrimary
  BY DEF SafeInv, OneClaim, Claims, NoDualPrimary
<1> QED
  BY <1>1, InitSafe, SafeInvKept, PTL DEF Spec

-----------------------------------------------------------------------------
(***************************************************************************)
(* One fault loses nothing.  After it the pair is either still connected   *)
(* and in step, or has a survivor: a node the fault did not touch, which   *)
(* holds every write, whatever its peer and the other watchdog do.         *)
(***************************************************************************)
Fencing == {"fence", "shoot", "confirm", "launch", "wait"}
Demoting == {"demote", "unlabel", "umount", "secondary"}

\* Master 1 serves the volume, and its watchdog only keeps it mounted.
ServedBy1 ==
  /\ role[Master1] = "Primary" /\ wd[Master1] \in {"sample", "mount", "label"}
  /\ role[Master2] # "Primary"
  /\ \A n \in Node : boot[n] = "off" /\ \A c \in Caller : script[n][c] = "off"

InStepNow == \A n \in Node : disk[n] = "UpToDate" /\ ~ahead[n] /\ ~missing[n]

\* Nobody has fallen and the masters are connected: no watchdog is worried.
Quiet ==
  /\ repl /\ conn = "Connected" /\ InStepNow
  /\ \A n \in Node :
       /\ power[n] /\ ~shot[n] /\ ~standAlone[n] /\ role[n] # "Unknown"
       /\ boot[n] = "off"
       /\ wd[n] \in {"sample", "mount", "label", "umount", "unlabel"}
       /\ wd[n] \in {"umount", "unlabel"} => healthy[n]
       /\ \A c \in Caller : script[n][c] \in Demoting \cup {"off"}
  /\ faults = 0 => icmp /\ ServedBy1

\* The survivor s is on, with peer o.  Only master 2 ever has to take over.
Standing(s, o) ==
  /\ icmp /\ power[s] /\ ~shot[s] /\ boot[s] = "off"
  /\ role[s] # "Unknown"
  /\ boot[o] = "promote" => role[o] # "Unknown"
  /\ s = Master1 => ServedBy1
  /\ s = Master2 => repl

\* The peer never fences nor promotes, and nobody demotes the survivor.
PeerPassive(s, o) ==
  /\ wd[o] \notin Fencing /\ \A c \in Caller : script[o][c] = "off"
  /\ script[s]["operator"] = "off" /\ script[s]["watchdog"] \notin Demoting

\* The survivor has every write.  The peer serves only while it is connected,
\* and what it lacks it can get from the survivor.
HasAll(s, o) ==
  /\ disk[s] = "UpToDate" /\ ~missing[s]
  /\ ~standAlone[s] /\ ~standAlone[o] /\ ~ahead[o]
  /\ conn # "Down" => ~ahead[s]
  /\ conn = "Connected" => disk[o] = "UpToDate" /\ ~missing[o]
  /\ conn = "Syncing" => disk[o] = "Inconsistent"
  /\ role[o] = "Primary" => conn # "Down" /\ role[s] # "Primary"
  /\ ahead[s] \/ disk[o] = "Inconsistent" => role[s] = "Primary"
  /\ missing[o] => ahead[s] \/ disk[o] = "Inconsistent"

Survivor(s) ==
  Standing(s, Peer(s)) /\ PeerPassive(s, Peer(s)) /\ HasAll(s, Peer(s))

LossInv == faults <= 1 => Quiet \/ \E s \in Node : faults = 1 /\ Survivor(s)

\* A node and its peer, after one fault.
Pair(s, o) ==
  /\ s \in Node /\ o \in Node /\ o # s /\ Peer(s) = o /\ Peer(o) = s
  /\ \A n \in Node : n = s \/ n = o

Survives(s, o) ==
  TypeOK /\ Pair(s, o) /\ Standing(s, o) /\ PeerPassive(s, o) /\ HasAll(s, o)

LEMMA PairOf == ASSUME NEW s \in Node PROVE Pair(s, Peer(s))
BY MastersAssumption DEF Node, Peer, Pair

\* A counted fault is the second one.
LEMMA NoMoreFaults ==
  ASSUME TypeOK, faults = 1, faults' <= 1, NEW kind PROVE ~Fault(kind)
BY DEF Fault, TypeOK

data == <<disk, conn, standAlone, ahead, missing>>
Stands(s, o) == Standing(s, o)' /\ PeerPassive(s, o)' /\ HasAll(s, o)'

\* A watchdog goes on: the peer's never to a fence, master 1's around its loop.
LEMMA SurvivorWatchdogMove ==
  ASSUME NEW s, NEW o, Survives(s, o), NEW n \in Node, NEW from, NEW to, Goto(n, from, to),
         n = o /\ to \in Fencing => from \in Fencing,
         n = Master1 /\ from \in {"sample", "mount", "label"} => to \in {"sample", "mount", "label"},
         UNCHANGED <<icmp, repl, power, boot, script, role, data>>, shot'[s] = shot[s]
  PROVE  Stands(s, o)
<1>1. /\ \A m \in Node : wd'[m] = IF m = n THEN to ELSE wd[m]
      /\ wd[n] = from
  BY DEF Goto, Survives, TypeOK
<1>2. Standing(s, o)'
  BY <1>1 DEF Survives, Pair, Standing, ServedBy1, Node
<1>3. PeerPassive(s, o)'
  BY <1>1 DEF Survives, Pair, PeerPassive
<1>4. HasAll(s, o)'
  BY DEF Survives, HasAll, data
<1> QED
  BY <1>2, <1>3, <1>4 DEF Stands

LEMMA SurvivorWatchdog ==
  ASSUME NEW s, NEW o, Survives(s, o), NEW n \in Node, Watchdog(n)
  PROVE  Stands(s, o)
<1> USE DEF LoopAgain, drbd, net, data, Fencing
<1>1. CASE Sample(n)
  <2>1. /\ \A m \in Node : role'[m] = role[m] \/ (m = o /\ role[m] = "Unknown" /\ role'[m] = "Secondary")
        /\ \A m \in Node : wd'[m] = wd[m] \/ (m = n /\ wd'[m] \in {"mount", "umount"})
        /\ n = Master1 /\ role[n] = "Primary" => wd'[n] = "mount"
        /\ UNCHANGED <<icmp, repl, power, shot, boot, script, disk, conn, standAlone, ahead, missing>>
    BY <1>1 DEF Sample, Up, Goto, Survives, TypeOK, Pair, Standing
  <2>2. Standing(s, o)'
    BY <2>1 DEF Survives, Pair, Standing, ServedBy1, Node
  <2>3. PeerPassive(s, o)'
    BY <2>1 DEF Survives, Pair, PeerPassive
  <2>4. HasAll(s, o)'
    BY <2>1 DEF Survives, Pair, HasAll
  <2> QED
    BY <2>2, <2>3, <2>4 DEF Stands
<1>2. CASE MountPrimary(n)
  BY <1>2, SurvivorWatchdogMove DEF MountPrimary
<1>3. CASE LabelPrimary(n)
  BY <1>3, SurvivorWatchdogMove DEF LabelPrimary
<1>4. CASE UnmountSecondary(n)
  BY <1>4, SurvivorWatchdogMove DEF UnmountSecondary
<1>5. CASE UnlabelSecondary(n)
  BY <1>5, SurvivorWatchdogMove DEF UnlabelSecondary
<1>6. CASE PingGateway(n)
  BY <1>6, SurvivorWatchdogMove DEF PingGateway
<1>7. CASE PingPeer(n)
  <2>1. n = o => PeerAnswers(n)
    BY DEF Survives, Pair, Standing, PeerAnswers
  <2> QED
    BY <1>7, <2>1, SurvivorWatchdogMove DEF PingPeer
<1>8. CASE FenceStart(n)
  BY <1>8, SurvivorWatchdogMove DEF FenceStart, Fenced
<1>9. CASE Shoot(n)
  <2>1. shot'[s] = shot[s]
    BY <1>9 DEF Shoot, Goto, Survives, TypeOK, Pair, PeerPassive
  <2> QED
    BY <1>9, <2>1, SurvivorWatchdogMove DEF Shoot
<1>10. CASE Confirm(n)
  BY <1>10, SurvivorWatchdogMove DEF Confirm, Fenced, NotFenced
<1>11. CASE LaunchPromote(n)
  <2>1. n = s /\ wd[n] = "launch"
    BY <1>11 DEF LaunchPromote, Goto, Survives, Pair, PeerPassive
  <2>2. /\ s # Master1
        /\ \A m \in Node : wd'[m] = IF m = s THEN "wait" ELSE wd[m]
        /\ script'[o] = script[o] /\ script'[s]["operator"] = script[s]["operator"]
        /\ script'[s]["watchdog"] = "promote"
        /\ UNCHANGED <<icmp, repl, power, shot, boot, role, disk, conn, standAlone, ahead, missing>>
    BY <1>11, <2>1
       DEF LaunchPromote, Goto, Call, Survives, TypeOK, Pair, Standing, ServedBy1, Caller
  <2>3. Standing(s, o)'
    BY <2>2 DEF Survives, Pair, Standing
  <2>4. PeerPassive(s, o)'
    BY <2>2 DEF Survives, Pair, PeerPassive, Demoting
  <2>5. HasAll(s, o)'
    BY <2>2 DEF Survives, HasAll
  <2> QED
    BY <2>3, <2>4, <2>5 DEF Stands
<1>12. CASE PromoteReturns(n)
  BY <1>12, SurvivorWatchdogMove DEF PromoteReturns
<1> QED
  BY <1>1, <1>2, <1>3, <1>4, <1>5, <1>6, <1>7, <1>8, <1>9, <1>10, <1>11, <1>12 DEF Watchdog

\* drbd-failover.sh runs on the survivor only, for its watchdog, on master 2.
LEMMA SurvivorScriptMove ==
  ASSUME NEW s, NEW o, Survives(s, o), NEW n \in Node, NEW c \in Caller, NEW from, NEW to,
         Step(n, c, from, to), from # "off", to \notin Demoting,
         UNCHANGED <<icmp, repl, power, shot, boot, wd>>,
         \/ UNCHANGED <<role, data>>
         \/ n = s /\ s # Master1 => role'[o] = role[o] /\ role'[s] # "Unknown" /\ HasAll(s, o)'
  PROVE  Stands(s, o)
<1>1. n = s /\ c = "watchdog" /\ s # Master1
  BY DEF Step, Survives, Pair, PeerPassive, Standing, ServedBy1, Caller
<1>2. script'[o] = script[o] /\ script'[s]["operator"] = script[s]["operator"]
      /\ script'[s]["watchdog"] = to
  BY <1>1 DEF Step, Survives, TypeOK, Pair, Caller
<1>3. /\ role'[o] = role[o] /\ role'[s] # "Unknown"
      /\ HasAll(s, o)'
  BY <1>1 DEF Survives, HasAll, data, Standing
<1>4. Standing(s, o)'
  BY <1>1, <1>2, <1>3 DEF Survives, Standing
<1>5. PeerPassive(s, o)'
  BY <1>2 DEF Survives, PeerPassive
<1> QED
  BY <1>3, <1>4, <1>5 DEF Stands

\* Whoever may turn Primary beside a survivor keeps its data together.
LEMMA SurvivorPromotes ==
  ASSUME NEW s, NEW o, Survives(s, o), NEW n \in Node, NEW force,
         CanPromote(n, force), BecomePrimary(n), n = o => conn # "Down"
  PROVE  HasAll(s, o)' /\ role'[n] = "Primary" /\ \A m \in Node : m # n => role'[m] = role[m]
<1>1. /\ \A m \in Node : role'[m] = IF m = n THEN "Primary" ELSE role[m]
      /\ \A m \in Node : ahead'[m] = (ahead[m] \/ (m = n /\ conn = "Down"))
      /\ \A m \in Node : disk'[m] = IF m = n /\ conn = "Down" THEN "UpToDate" ELSE disk[m]
      /\ UNCHANGED <<conn, standAlone, missing>>
  BY DEF BecomePrimary, Survives, TypeOK
<1>2. /\ conn # "Down" => role[Peer(n)] # "Primary"
      /\ role[n] # "Unknown"
  BY DEF CanPromote
<1> QED
  BY <1>1, <1>2 DEF Survives, Pair, HasAll

LEMMA SurvivorFailover ==
  ASSUME NEW s, NEW o, Survives(s, o), NEW n \in Node, NEW c \in Caller, Failover(n, c)
  PROVE  Stands(s, o)
<1> USE DEF scriptOnly, drbd, net, data, Demoting
<1>1. CASE CheckActive(n, c)
  BY <1>1, SurvivorScriptMove DEF CheckActive
<1>2. CASE Promote(n, c)
  <2>1. CASE CanPromote(n, FALSE) /\ Step(n, c, "primary", "mount") /\ BecomePrimary(n)
    <3>1. ASSUME n = s PROVE role'[o] = role[o] /\ role'[s] # "Unknown" /\ HasAll(s, o)'
      <4>1. o \in Node /\ o # n
        BY <3>1 DEF Survives, Pair
      <4>2. HasAll(s, o)' /\ role'[n] = "Primary" /\ \A m \in Node : m # n => role'[m] = role[m]
        BY <2>1, <4>1, SurvivorPromotes
      <4> QED
        BY <3>1, <4>1, <4>2
    <3> QED
      BY <1>2, <2>1, <3>1, SurvivorScriptMove DEF Promote
  <2> QED
    BY <1>2, <2>1, SurvivorScriptMove DEF Promote
<1>3. CASE PromoteForce(n, c)
  <2>1. CASE CanPromote(n, TRUE) /\ Step(n, c, "force", "mount") /\ BecomePrimary(n)
    <3>1. ASSUME n = s PROVE role'[o] = role[o] /\ role'[s] # "Unknown" /\ HasAll(s, o)'
      <4>1. o \in Node /\ o # n
        BY <3>1 DEF Survives, Pair
      <4>2. HasAll(s, o)' /\ role'[n] = "Primary" /\ \A m \in Node : m # n => role'[m] = role[m]
        BY <2>1, <4>1, SurvivorPromotes
      <4> QED
        BY <3>1, <4>1, <4>2
    <3> QED
      BY <1>3, <2>1, <3>1, SurvivorScriptMove DEF PromoteForce
  <2> QED
    BY <1>3, <2>1, SurvivorScriptMove DEF PromoteForce
<1>4. CASE MountPromoted(n, c)
  BY <1>4, SurvivorScriptMove DEF MountPromoted
<1>5. CASE MoveLabel(n, c)
  BY <1>5, SurvivorScriptMove DEF MoveLabel
<1>6. CASE DeletePod(n, c)
  BY <1>6, SurvivorScriptMove DEF DeletePod
<1>7. CASE PodGone(n, c)
  BY <1>7, SurvivorScriptMove DEF PodGone
<1>8. CASE ScaleUp(n, c)
  BY <1>8, SurvivorScriptMove DEF ScaleUp
<1>9. CASE ScaleDown(n, c) \/ DropLabel(n, c) \/ Unmount(n, c) \/ Demote(n, c)
  <2>1. script[n][c] \in Demoting
    BY <1>9 DEF ScaleDown, DropLabel, Unmount, Demote, Step
  <2>2. script[n][c] \notin Demoting
    BY DEF Survives, Pair, PeerPassive, Caller
  <2> QED
    BY <2>1, <2>2
<1> QED
  BY <1>1, <1>2, <1>3, <1>4, <1>5, <1>6, <1>7, <1>8, <1>9 DEF Failover

\* A step that leaves the processes alone.
LEMMA SurvivorAlone ==
  ASSUME NEW s, NEW o, Survives(s, o), UNCHANGED <<role, wd, script, boot>>,
         UNCHANGED icmp \/ icmp', UNCHANGED repl \/ repl', power'[s], ~shot'[s], HasAll(s, o)'
  PROVE  Stands(s, o)
<1>1. Standing(s, o)'
  BY DEF Survives, Standing, ServedBy1
<1>2. PeerPassive(s, o)'
  BY DEF Survives, PeerPassive
<1> QED
  BY <1>1, <1>2 DEF Stands

\* The kernel only ever takes the survivor for the source.
LEMMA SurvivorKernel ==
  ASSUME NEW s, NEW o, Survives(s, o), Kernel
  PROVE  Stands(s, o)
<1> USE DEF net, procs, Survives, Pair, Standing
<1>1. CASE Connect
  <2>1. role[o] # "Primary" /\ conn = "Down"
    BY <1>1 DEF Connect, HasAll
  <2>2. Sources \subseteq {s} /\ (~InStep => s \in Sources)
    BY <2>1 DEF Sources, InStep, HasAll, TypeOK
  <2>3. CASE InStep /\ conn' = "Connected" /\ UNCHANGED <<disk, ahead, standAlone>>
    <3>1. HasAll(s, o)'
      BY <1>1, <2>1, <2>3 DEF Connect, InStep, HasAll
    <3> QED
      BY <1>1, <3>1, SurvivorAlone DEF Connect
  <2>4. CASE ~InStep /\ SyncFrom(s)
    <3>1. /\ conn' = "Syncing" /\ ~ahead'[s] /\ ~ahead'[o] /\ UNCHANGED standAlone
          /\ disk'[o] = "Inconsistent" /\ disk'[s] = disk[s]
      BY <2>4 DEF SyncFrom, TypeOK
    <3>2. ahead[s] \/ disk[o] = "Inconsistent"
      <4>1. disk[o] \in {"UpToDate", "Inconsistent"} /\ disk[s] = "UpToDate" /\ ~ahead[o]
        BY DEF HasAll, TypeOK
      <4> QED
        BY <2>4, <4>1 DEF InStep
    <3>3. HasAll(s, o)'
      BY <1>1, <2>1, <3>1, <3>2 DEF Connect, HasAll
    <3> QED
      BY <1>1, <3>3, SurvivorAlone DEF Connect
  <2> QED
    BY <1>1, <2>2, <2>3, <2>4 DEF Connect
<1>2. CASE SyncDone
  <2>1. \A n \in Node : disk[n] = "UpToDate" => n = s
    BY <1>2 DEF SyncDone, HasAll
  <2>2. /\ conn' = "Connected" /\ ~missing'[s] /\ ~missing'[o]
        /\ disk'[s] = "UpToDate" /\ disk'[o] = "UpToDate"
        /\ UNCHANGED <<standAlone, ahead>>
    BY <1>2, <2>1 DEF SyncDone, HasAll
  <2>3. ~ahead[s] /\ ~ahead[o]
    BY <1>2 DEF SyncDone, HasAll
  <2>4. HasAll(s, o)'
    BY <1>2, <2>2, <2>3 DEF SyncDone, HasAll
  <2> QED
    BY <1>2, <2>4, SurvivorAlone DEF SyncDone
<1>3. CASE Disconnect
  <2>1. s = Master1
    BY <1>3 DEF Disconnect, Node
  <2>2. role[s] = "Primary"
    BY <2>1 DEF ServedBy1
  <2>3. HasAll(s, o)'
    BY <1>3, <2>2 DEF Disconnect, HasAll
  <2> QED
    BY <1>3, <2>3, SurvivorAlone DEF Disconnect
<1>4. ASSUME NEW n \in Node, Write(n) PROVE Stands(s, o)
  <2>1. n = s
    BY <1>4 DEF Write, HasAll
  <2>2. /\ ahead'[s] /\ ahead'[o] = ahead[o] /\ missing'[o] /\ missing'[s] = missing[s]
        /\ conn = "Down" /\ role[s] = "Primary"
    BY <1>4, <2>1 DEF Write, TypeOK
  <2>3. HasAll(s, o)'
    BY <1>4, <2>2 DEF Write, HasAll
  <2> QED
    BY <1>4, <2>3, SurvivorAlone DEF Write
<1> QED
  BY <1>1, <1>2, <1>3, <1>4 DEF Kernel

\* The boot service of master 1 promotes it only once it is connected.
LEMMA SurvivorBoot ==
  ASSUME NEW s, NEW o, Survives(s, o), NEW n \in Node, Boot(n)
  PROVE  Stands(s, o)
<1>1. n = o /\ s = Master2 /\ s # Master1
  BY MastersAssumption DEF Boot, BootUp, BootPromote, Survives, Pair, Standing, ServedBy1, Node
<1> USE DEF net, drbd, data, Survives, Pair
<1>2. CASE BootUp(n)
  <2>1. /\ role'[s] = role[s] /\ role'[o] # "Unknown"
        /\ role'[o] = "Primary" => role[o] = "Primary"
        /\ boot'[s] = boot[s]
    BY <1>1, <1>2 DEF BootUp, Up, TypeOK
  <2>2. Standing(s, o)'
    BY <1>1, <1>2, <2>1 DEF BootUp, Standing
  <2>3. PeerPassive(s, o)'
    BY <1>2 DEF BootUp, PeerPassive
  <2>4. HasAll(s, o)'
    BY <1>2, <2>1 DEF BootUp, HasAll
  <2> QED
    BY <2>2, <2>3, <2>4 DEF Stands
<1>3. CASE BootPromote(n)
  <2>1. conn # "Down"
    BY <1>1, <1>3 DEF BootPromote, Connectable, Standing, HasAll
  <2>2. boot'[s] = boot[s] /\ boot'[o] = "off"
    BY <1>1, <1>3 DEF BootPromote, TypeOK
  <2>3. /\ role'[s] = role[s]
        /\ HasAll(s, o)'
    <3>1. CASE CanPromote(n, FALSE) /\ BecomePrimary(n)
      <4>1. HasAll(s, o)' /\ \A m \in Node : m # n => role'[m] = role[m]
        BY <2>1, <3>1, SurvivorPromotes
      <4> QED
        BY <1>1, <4>1
    <3>2. CASE UNCHANGED drbd
      BY <3>2 DEF HasAll
    <3> QED
      BY <1>3, <3>1, <3>2 DEF BootPromote
  <2>4. Standing(s, o)'
    BY <1>1, <1>3, <2>2, <2>3 DEF BootPromote, Standing
  <2>5. PeerPassive(s, o)'
    BY <1>3 DEF BootPromote, PeerPassive
  <2> QED
    BY <2>3, <2>4, <2>5 DEF Stands
<1> QED
  BY <1>2, <1>3 DEF Boot

\* A node goes off: what its peer and DRBD see of it.
OnlyOff(s, o) ==
  /\ power'[s] = power[s] /\ role'[s] = role[s] /\ wd'[s] = wd[s] /\ boot'[s] = boot[s]
  /\ script'[s] = script[s] /\ standAlone'[s] = standAlone[s] /\ ~standAlone'[o]
  /\ role'[o] = "Unknown" /\ wd'[o] = "off" /\ boot'[o] = "off" /\ conn' = "Down"
  /\ \A c \in Caller : script'[o][c] = "off"

LEMMA PowerOffEffect ==
  ASSUME TypeOK, NEW s, NEW o, Pair(s, o), PowerOff(o)
  PROVE  OnlyOff(s, o)
<1>1. s \in Node /\ o \in Node /\ o # s
  BY DEF Pair
<1>2. power'[s] = power[s] /\ standAlone'[s] = standAlone[s] /\ ~standAlone'[o]
  BY <1>1 DEF PowerOff, TypeOK
<1>3. role'[s] = role[s] /\ role'[o] = "Unknown" /\ conn' = "Down"
  BY <1>1 DEF PowerOff, TypeOK
<1>4. wd'[s] = wd[s] /\ wd'[o] = "off" /\ boot'[s] = boot[s] /\ boot'[o] = "off"
  BY <1>1 DEF PowerOff, TypeOK
<1>5. script'[s] = script[s] /\ script'[o] = [c \in Caller |-> "off"]
  BY <1>1 DEF PowerOff, TypeOK
<1> QED
  BY <1>2, <1>3, <1>4, <1>5 DEF OnlyOff

\* The peer falls again, to a destroy that was on its way.
LEMMA SurvivorPeerFalls ==
  ASSUME NEW s, NEW o, Survives(s, o), PowerOff(o), shot'[s] = shot[s]
  PROVE  Stands(s, o)
<1> USE DEF Survives, Pair, net
<1>1. OnlyOff(s, o) /\ UNCHANGED <<icmp, repl, disk, ahead, missing>>
  <2>1. OnlyOff(s, o)
    BY PowerOffEffect
  <2> QED
    BY <2>1 DEF PowerOff
<1>2. Standing(s, o)'
  BY <1>1 DEF OnlyOff, Standing, ServedBy1, Node
<1>3. PeerPassive(s, o)'
  BY <1>1 DEF OnlyOff, PeerPassive, Fencing
<1>4. HasAll(s, o)'
  BY <1>1 DEF OnlyOff, HasAll
<1> QED
  BY <1>2, <1>3, <1>4 DEF Stands

\* What the environment still does when its one fault is spent.
LEMMA SurvivorEnvironment ==
  ASSUME NEW s, NEW o, Survives(s, o), faults = 1, faults' <= 1, Environment
  PROVE  Stands(s, o)
<1>1. \A kind : ~Fault(kind)
  BY NoMoreFaults DEF Survives
<1> USE DEF net, drbd, procs, kube
<1>2. ASSUME UNCHANGED drbd PROVE HasAll(s, o)'
  BY <1>2 DEF Survives, HasAll
<1>3. ASSUME NEW n \in Node, Destroyed(n) PROVE Stands(s, o)
  <2>1. n = o /\ shot'[s] = shot[s]
    BY <1>3 DEF Destroyed, Survives, Pair, Standing, TypeOK
  <2>2. CASE PowerOff(n)
    BY <2>1, <2>2, SurvivorPeerFalls
  <2>3. CASE UNCHANGED <<power, net, drbd, procs, api, kube>>
    BY <1>2, <2>1, <2>3, SurvivorAlone DEF Survives, Standing
  <2> QED
    BY <1>3, <2>2, <2>3 DEF Destroyed
<1>4. ASSUME NEW n \in Node, PowerOn(n) PROVE Stands(s, o)
  <2>1. n = o
    BY <1>4 DEF PowerOn, Survives, Pair, Standing
  <2>2. /\ power'[s] = power[s] /\ wd'[s] = wd[s] /\ boot'[s] = boot[s] /\ wd'[o] = "sample"
        /\ boot'[o] \in {"up", "off"} /\ (o = Master2 => boot'[o] = "off")
    BY <1>4, <2>1, MastersAssumption DEF PowerOn, Survives, Pair, TypeOK
  <2>3. Standing(s, o)'
    BY <1>4, <2>2 DEF PowerOn, Survives, Pair, Standing, ServedBy1, Node
  <2>4. PeerPassive(s, o)'
    BY <1>4, <2>2 DEF PowerOn, Survives, PeerPassive, Fencing
  <2> QED
    BY <1>2, <1>4, <2>3, <2>4 DEF PowerOn, Stands
<1>5. CASE LinkRepaired
  BY <1>2, <1>5, SurvivorAlone DEF LinkRepaired, Survives, Standing
<1>6. CASE ApiChanges
  BY <1>2, <1>6, SurvivorAlone DEF ApiChanges, Survives, Standing
<1> QED
  BY <1>1, <1>3, <1>4, <1>5, <1>6
     DEF Environment, Crash, WatchdogRestart, OperatorPromote, OperatorDemote, LinkFault

LEMMA SurvivorStep ==
  ASSUME NEW s, NEW o, Survives(s, o), faults = 1, faults' <= 1, [Next]_vars
  PROVE  Stands(s, o)
<1>1. CASE UNCHANGED vars \/ Kubernetes
  BY <1>1, SurvivorAlone
     DEF vars, Kubernetes, SchedulePod, ScalePodAway, KubeletStopsPod, net, drbd, procs, Survives,
         Standing, HasAll
<1> QED
  BY <1>1, SurvivorWatchdog, SurvivorFailover, SurvivorKernel, SurvivorBoot, SurvivorEnvironment
     DEF Next

LEMMA QuietWatchdog ==
  ASSUME TypeOK, Quiet, NEW n \in Node, Watchdog(n)
  PROVE  Quiet'
<1>1. wd[n] \in {"sample", "mount", "label", "umount", "unlabel"}
  BY DEF Quiet
<1>2. Sample(n) \/ MountPrimary(n) \/ LabelPrimary(n) \/ UnmountSecondary(n) \/ UnlabelSecondary(n)
  BY <1>1 DEF Watchdog, PingGateway, PingPeer, FenceStart, Shoot, Confirm, LaunchPromote,
              PromoteReturns, Fenced, NotFenced, LoopAgain, Goto
<1>3. UNCHANGED <<power, shot, repl, icmp, faults, disk, conn, standAlone, ahead, missing, script, boot>>
  BY <1>2 DEF Sample, MountPrimary, LabelPrimary, UnmountSecondary, UnlabelSecondary, net, drbd
<1>4. UNCHANGED role
  BY <1>2 DEF Sample, Up, MountPrimary, LabelPrimary, UnmountSecondary, UnlabelSecondary, drbd,
              Quiet, TypeOK
<1>5. /\ \A m \in Node : m # n => wd'[m] = wd[m] /\ healthy'[m] = healthy[m]
      /\ wd'[n] \in {"sample", "mount", "label", "umount", "unlabel"}
      /\ wd'[n] \in {"umount", "unlabel"} => healthy'[n]
      /\ role[n] = "Primary" /\ wd[n] \in {"sample", "mount", "label"} => wd'[n] \in {"sample", "mount", "label"}
  BY <1>2 DEF Sample, MountPrimary, LabelPrimary, UnmountSecondary, UnlabelSecondary, LoopAgain, Goto,
              Quiet, TypeOK
<1>6. faults' = 0 => icmp' /\ ServedBy1'
  BY <1>3, <1>4, <1>5 DEF Quiet, ServedBy1, Node
<1> QED
  BY <1>3, <1>4, <1>5, <1>6 DEF Quiet, InStepNow

\* The only scripts that run are an operator's demotions.
LEMMA QuietFailover ==
  ASSUME TypeOK, Quiet, NEW n \in Node, NEW c \in Caller, Failover(n, c)
  PROVE  Quiet'
<1>1. script[n][c] \in Demoting \cup {"off"}
  BY DEF Quiet
<1>2. ScaleDown(n, c) \/ DropLabel(n, c) \/ Unmount(n, c) \/ Demote(n, c)
  BY <1>1 DEF Failover, CheckActive, Promote, PromoteForce, MountPromoted, MoveLabel, DeletePod,
              PodGone, ScaleUp, Step, Demoting
<1>3. /\ UNCHANGED <<power, shot, repl, icmp, faults, disk, conn, standAlone, ahead, missing, wd,
                     healthy, boot>>
      /\ \A m \in Node : role[m] # "Unknown" => role'[m] # "Unknown"
  BY <1>2 DEF ScaleDown, DropLabel, Unmount, Demote, scriptOnly, net, drbd, TypeOK
<1>4. \A m \in Node : \A d \in Caller : script'[m][d] \in {script[m][d]} \cup Demoting \cup {"off"}
  <2>1. \E from : \E to \in Demoting \cup {"off"} : Step(n, c, from, to)
    BY <1>2 DEF ScaleDown, DropLabel, Unmount, Demote, Demoting
  <2> QED
    BY <2>1 DEF Step, TypeOK
<1>5. faults # 0
  BY <1>2 DEF Quiet, ServedBy1, ScaleDown, DropLabel, Unmount, Demote, Step
<1> QED
  BY <1>3, <1>4, <1>5 DEF Quiet, InStepNow

\* The first fault: a crash or a broken replication link leaves a survivor.
LEMMA QuietEnvironment ==
  ASSUME TypeOK, Quiet, faults' <= 1, Environment
  PROVE  Quiet' \/ \E s \in Node : faults' = 1 /\ Survivor(s)'
<1>1. ASSUME NEW kind, Fault(kind) PROVE faults = 0 /\ faults' = 1 /\ icmp /\ ServedBy1
  BY <1>1 DEF Fault, TypeOK, Quiet
<1> USE DEF net, drbd, procs, kube, Quiet, InStepNow
<1>2. ASSUME NEW o \in Node, Crash(o) PROVE faults' = 1 /\ Survivor(Peer(o))'
  <2> DEFINE s == Peer(o)
  <2>1. Pair(s, o)
    BY PairOf DEF Pair
  <2> HIDE DEF s
  <2>2. faults' = 1 /\ icmp /\ ServedBy1
    BY <1>1, <1>2 DEF Crash
  <2>3. OnlyOff(s, o)
    BY <1>2, <2>1, PowerOffEffect DEF Crash
  <2>8. UNCHANGED <<icmp, repl, disk, ahead, missing, shot>>
    BY <1>2 DEF Crash, PowerOff
  <2>4. Standing(s, o)'
    BY <2>1, <2>2, <2>3, <2>8 DEF OnlyOff, Standing, ServedBy1, Node, Pair
  <2>5. PeerPassive(s, o)'
    BY <2>1, <2>2, <2>3 DEF OnlyOff, PeerPassive, ServedBy1, Fencing, Demoting, Caller, Pair
  <2>6. HasAll(s, o)'
    BY <2>1, <2>3, <2>8 DEF OnlyOff, HasAll, Pair
  <2>7. Survivor(s)'
    BY <2>1, <2>4, <2>5, <2>6 DEF Survivor, Pair
  <2> QED
    BY <2>2, <2>7 DEF s
<1>3. ASSUME Fault("repl"), repl' = FALSE, UNCHANGED <<icmp, gateway, hypervisor>>,
             UNCHANGED <<power, shot, drbd, procs, api, kube>>
      PROVE  faults' = 1 /\ Survivor(Master1)'
  <2>1. Pair(Master1, Peer(Master1)) /\ Master1 # Master2
    BY PairOf, MastersAssumption DEF Node
  <2>2. faults' = 1 /\ icmp /\ ServedBy1
    BY <1>1, <1>3
  <2>3. Standing(Master1, Peer(Master1))'
    BY <1>3, <2>1, <2>2 DEF Standing, ServedBy1, Pair
  <2>4. PeerPassive(Master1, Peer(Master1))'
    BY <1>3, <2>1, <2>2 DEF PeerPassive, ServedBy1, Fencing, Demoting, Caller, Pair
  <2>5. HasAll(Master1, Peer(Master1))'
    BY <1>3, <2>1, <2>2 DEF HasAll, Pair, ServedBy1, Peer
  <2> QED
    BY <2>2, <2>3, <2>4, <2>5 DEF Survivor
<1>4. ASSUME NEW n \in Node, WatchdogRestart(n) PROVE Quiet'
  <2>1. faults' = 1
    BY <1>1, <1>4 DEF WatchdogRestart
  <2>2. /\ \A m \in Node : m # n => wd'[m] = wd[m] /\ healthy'[m] = healthy[m]
        /\ wd'[n] = "sample"
    BY <1>4 DEF WatchdogRestart, TypeOK
  <2>3. wd[n] # "shoot"
    OBVIOUS
  <2>4. UNCHANGED <<shot, power, repl, role, script, boot, conn, disk, ahead, missing, standAlone>>
    BY <1>4, <2>3 DEF WatchdogRestart
  <2> QED
    BY <2>1, <2>2, <2>4
<1>5. ASSUME NEW n \in Node, OperatorDemote(n) PROVE Quiet'
  <2>1. faults' = 1
    BY <1>1, <1>5 DEF OperatorDemote
  <2>2. \A m \in Node : \A d \in Caller : script'[m][d] \in {script[m][d], "demote"}
    BY <1>5 DEF OperatorDemote, Call, TypeOK
  <2> QED
    BY <1>5, <2>1, <2>2 DEF OperatorDemote, Demoting
<1>6. ASSUME UNCHANGED <<power, shot, drbd, procs>>, repl',
             \/ \E kind : Fault(kind)
             \/ UNCHANGED faults /\ (icmp => icmp')
      PROVE  Quiet'
  <2>1. faults' = 0 => icmp' /\ ServedBy1'
    BY <1>1, <1>6 DEF ServedBy1
  <2> QED
    BY <1>6, <2>1
<1>7. CASE LinkFault
  BY <1>3, <1>6, <1>7, MastersAssumption DEF LinkFault, Node
<1>8. CASE LinkRepaired
  <2>1. repl' \in {repl, TRUE} /\ icmp' \in {icmp, TRUE}
    BY <1>8, Zenon DEF LinkRepaired
  <2>3. repl
    OBVIOUS
  <2>4. repl'
    BY <2>1, <2>3, Zenon
  <2>5. ASSUME icmp PROVE icmp'
    BY <2>1, <2>5, Zenon
  <2>2. UNCHANGED <<power, shot, drbd, procs, faults>>
    BY <1>8 DEF LinkRepaired
  <2> QED
    BY <1>6, <2>2, <2>4, <2>5
<1>9. CASE ApiChanges
  BY <1>6, <1>9 DEF ApiChanges
<1>10. \A n \in Node : power[Peer(n)] /\ power[n] /\ ~shot[n]
  BY PairOf DEF Pair
<1>11. \A n \in Node : ~PowerOn(n) /\ ~Destroyed(n) /\ ~OperatorPromote(n)
  BY <1>10 DEF PowerOn, Destroyed, OperatorPromote
<1>12. ASSUME NEW n \in Node, Crash(n) PROVE \E s \in Node : faults' = 1 /\ Survivor(s)'
  BY <1>2, <1>12, PairOf DEF Pair
<1> QED
  BY <1>12, <1>4, <1>5, <1>7, <1>8, <1>9, <1>11 DEF Environment

LEMMA InitQuiet == Init => Quiet
<1> SUFFICES ASSUME Init PROVE Quiet
  OBVIOUS
<1>1. ServedBy1 /\ icmp
  BY MastersAssumption DEF Init, ServedBy1, Node
<1> QED
  BY <1>1 DEF Init, Quiet, InStepNow

LEMMA LossInvKept == TypeOK /\ LossInv /\ [Next]_vars => LossInv'
<1> SUFFICES ASSUME TypeOK, LossInv, [Next]_vars, faults' <= 1
             PROVE  Quiet' \/ \E s \in Node : faults' = 1 /\ Survivor(s)'
  BY DEF LossInv
<1>1. faults \in Nat /\ faults' \in Nat /\ faults <= faults'
  <2>1. faults \in Nat
    BY DEF TypeOK
  <2>2. ASSUME NEW n \in Node, Watchdog(n) \/ Boot(n) PROVE UNCHANGED faults
    <3>1. Sample(n) \/ MountPrimary(n) \/ LabelPrimary(n) => UNCHANGED faults
      BY DEF Sample, MountPrimary, LabelPrimary
    <3>2. UnmountSecondary(n) \/ UnlabelSecondary(n) \/ PingGateway(n) => UNCHANGED faults
      BY DEF UnmountSecondary, UnlabelSecondary, PingGateway
    <3>3. PingPeer(n) \/ FenceStart(n) \/ Shoot(n) => UNCHANGED faults
      BY DEF PingPeer, FenceStart, Shoot
    <3>4. Confirm(n) \/ LaunchPromote(n) \/ PromoteReturns(n) => UNCHANGED faults
      BY DEF Confirm, LaunchPromote, PromoteReturns
    <3>5. Boot(n) => UNCHANGED faults
      BY DEF Boot, BootUp, BootPromote
    <3> QED
      BY <2>2, <3>1, <3>2, <3>3, <3>4, <3>5 DEF Watchdog
  <2>3. ASSUME NEW n \in Node, NEW c \in Caller, Failover(n, c) PROVE UNCHANGED faults
    <3>1. CheckActive(n, c) \/ Promote(n, c) \/ PromoteForce(n, c) => UNCHANGED faults
      BY DEF CheckActive, Promote, PromoteForce, scriptOnly
    <3>2. MountPromoted(n, c) \/ MoveLabel(n, c) \/ DeletePod(n, c) => UNCHANGED faults
      BY DEF MountPromoted, MoveLabel, DeletePod, scriptOnly
    <3>3. PodGone(n, c) \/ ScaleUp(n, c) \/ ScaleDown(n, c) => UNCHANGED faults
      BY DEF PodGone, ScaleUp, ScaleDown, scriptOnly
    <3>4. DropLabel(n, c) \/ Unmount(n, c) \/ Demote(n, c) => UNCHANGED faults
      BY DEF DropLabel, Unmount, Demote, scriptOnly
    <3> QED
      BY <2>3, <3>1, <3>2, <3>3, <3>4 DEF Failover
  <2>4. Kernel \/ Kubernetes \/ UNCHANGED vars => UNCHANGED faults
    BY DEF Kernel, Connect, SyncDone, Disconnect, Write, Kubernetes, SchedulePod, ScalePodAway,
       KubeletStopsPod, vars
  <2>5. Environment => UNCHANGED faults \/ faults' = faults + 1
    BY DEF Environment, Crash, PowerOn, WatchdogRestart, Destroyed, OperatorPromote, OperatorDemote,
       LinkFault, LinkRepaired, ApiChanges, Fault
  <2>6. UNCHANGED faults \/ faults' = faults + 1
    BY <2>2, <2>3, <2>4, <2>5 DEF Next
  <2> QED
    BY <2>1, <2>6
<1>2. ASSUME NEW s \in Node, faults = 1, Survivor(s)
      PROVE  faults' = 1 /\ Survivor(s)'
  <2>1. Survives(s, Peer(s))
    BY <1>2, PairOf DEF Survivor, Survives
  <2> QED
    BY <1>1, <1>2, <2>1, SurvivorStep DEF Stands, Survivor
<1>3. CASE Quiet
  <2>1. CASE UNCHANGED vars \/ Kubernetes
    <3>1. UNCHANGED <<power, shot, net, faults, drbd, procs>>
      BY <2>1 DEF vars, Kubernetes, SchedulePod, ScalePodAway, KubeletStopsPod
    <3> QED
      BY <1>3, <3>1 DEF net, drbd, procs, Quiet, InStepNow, ServedBy1
  <2>2. ~Kernel /\ \A n \in Node : ~Boot(n)
    <3>1. ~Connect /\ ~SyncDone /\ ~Disconnect /\ \A n \in Node : ~Write(n)
      BY <1>3 DEF Connect, SyncDone, Disconnect, Write, Quiet
    <3>2. \A n \in Node : ~BootUp(n) /\ ~BootPromote(n)
      BY <1>3 DEF BootUp, BootPromote, Quiet
    <3> QED
      BY <3>1, <3>2 DEF Kernel, Boot
  <2> QED
    BY <1>3, <2>1, <2>2, QuietWatchdog, QuietFailover, QuietEnvironment DEF Next
<1> QED
  BY <1>1, <1>2, <1>3 DEF LossInv

\* "Zero data loss" after any one fault or command, in every configuration: a
\* node that serves the volume holds every write MariaDB acknowledged.
THEOREM OneFaultIsSafe == Spec => []OneFaultLosesNothing
<1>1. Init => TypeOK /\ LossInv
  BY InitTypeOK, InitQuiet DEF LossInv
<1>2. TypeOK /\ LossInv /\ [Next]_vars => (TypeOK /\ LossInv)'
  BY NextTypeOK, LossInvKept
<1>3. TypeOK /\ LossInv => OneFaultLosesNothing
  <2> SUFFICES ASSUME TypeOK, LossInv, faults <= 1, NEW n \in Node, role[n] = "Primary"
               PROVE  ~missing[n]
    BY DEF OneFaultLosesNothing, ServesEveryWrite
  <2>1. CASE Quiet
    BY <2>1 DEF Quiet, InStepNow
  <2>2. ASSUME NEW s \in Node, Survivor(s) PROVE ~missing[n]
    BY <2>2, PairOf DEF Survivor, HasAll, Pair
  <2> QED
    BY <2>1, <2>2 DEF LossInv
<1> QED
  BY <1>1, <1>2, <1>3, PTL DEF Spec

-----------------------------------------------------------------------------
(***************************************************************************)
(* What broken links alone can cost.                                       *)
(***************************************************************************)
\* No watchdog has come to believe that its peer is dead.
NoSuspicion ==
  \A n \in Node : power[n] /\ ~shot[n] /\ wd[n] \notin Fencing

LEMMA NoSuspicionKept ==
  ASSUME "crash" \notin FaultKinds, TypeOK, NoSuspicion, icmp, [Next]_vars
  PROVE  NoSuspicion'
<1> USE DEF net, drbd, procs, kube, scriptOnly
<1>1. \A n \in Node : Peer(n) \in Node /\ power[Peer(n)]
  BY PairOf DEF Pair, NoSuspicion
<1>2. ASSUME UNCHANGED <<power, shot, wd>> PROVE NoSuspicion'
  BY <1>2 DEF NoSuspicion
<1>3. ASSUME NEW n \in Node, NEW from, NEW to, Goto(n, from, to), to \notin Fencing,
             UNCHANGED <<power, shot>>
      PROVE  NoSuspicion'
  BY <1>3 DEF Goto, TypeOK, NoSuspicion
<1>4. ASSUME NEW n \in Node, Watchdog(n) PROVE NoSuspicion'
  <2>1. wd[n] \notin Fencing /\ PeerAnswers(n)
    BY <1>1 DEF NoSuspicion, PeerAnswers
  <2>2. \/ Sample(n) \/ MountPrimary(n) \/ LabelPrimary(n) \/ UnmountSecondary(n)
        \/ UnlabelSecondary(n) \/ PingGateway(n) \/ PingPeer(n)
    BY <1>4, <2>1 DEF Watchdog, FenceStart, Shoot, Confirm, LaunchPromote, PromoteReturns, Fenced,
                      NotFenced, LoopAgain, Goto, Fencing
  <2> QED
    BY <1>3, <2>1, <2>2 DEF Sample, MountPrimary, LabelPrimary, UnmountSecondary, UnlabelSecondary,
                            PingGateway, PingPeer, LoopAgain, Fencing
<1>5. ASSUME NEW n \in Node, WatchdogRestart(n) PROVE NoSuspicion'
  BY <1>5 DEF WatchdogRestart, NoSuspicion, Fencing, TypeOK
<1>6. \A n \in Node : ~Crash(n) /\ ~PowerOn(n) /\ ~Destroyed(n) /\ ~OperatorPromote(n)
  BY <1>1 DEF Crash, Fault, PowerOn, Destroyed, OperatorPromote, NoSuspicion
<1>7. ASSUME NEW n \in Node, NEW c \in Caller, Failover(n, c) PROVE NoSuspicion'
  BY <1>2, <1>7 DEF Failover, CheckActive, Promote, PromoteForce, MountPromoted, MoveLabel, DeletePod,
     PodGone, ScaleUp, ScaleDown, DropLabel, Unmount, Demote
<1>8. ASSUME NEW n \in Node, Boot(n) \/ OperatorDemote(n) PROVE NoSuspicion'
  BY <1>2, <1>8 DEF Boot, BootUp, BootPromote, OperatorDemote
<1>9. CASE Kernel \/ Kubernetes \/ UNCHANGED vars
  BY <1>2, <1>9 DEF Kernel, Connect, SyncDone, Disconnect, Write, Kubernetes, SchedulePod,
     ScalePodAway, KubeletStopsPod, vars
<1>10. CASE LinkFault \/ LinkRepaired \/ ApiChanges
  BY <1>2, <1>10 DEF LinkFault, LinkRepaired, ApiChanges
<1> QED
  BY <1>4, <1>5, <1>6, <1>7, <1>8, <1>9, <1>10 DEF Next, Environment

\* "Prevents false positives": as long as no machine crashes by itself and the
\* pings between the masters get through, no watchdog has its peer powered off,
\* whatever other links, restarts and commands do.
THEOREM NoFalsePositive ==
  ASSUME "crash" \notin FaultKinds
  PROVE  Spec => AlivePeerNotFenced
<1>1. Init => TypeOK /\ NoSuspicion
  BY InitTypeOK DEF Init, NoSuspicion, Fencing
<1>2. TypeOK /\ NoSuspicion /\ icmp /\ [Next]_vars => (TypeOK /\ NoSuspicion)'
  BY NextTypeOK, NoSuspicionKept
<1>3. NoSuspicion => \A n \in Node : power[n]
  BY DEF NoSuspicion
<1> QED
  BY <1>1, <1>2, <1>3, PTL DEF Spec, AlivePeerNotFenced

\* Master 1 is Primary for as long as it is on, so that it fences nobody.
OnlyMaster2Fences ==
  /\ power[Master2] /\ ~shot[Master2]
  /\ \A n \in Node : boot[n] = "off"
  /\ \A c \in Caller : script[Master1][c] = "off"
  /\ power[Master1] => role[Master1] = "Primary" /\ wd[Master1] \in {"sample", "mount", "label"}
  /\ ~power[Master1] => wd[Master1] = "off"

LEMMA OnlyMaster2FencesKept ==
  ASSUME FaultKinds \cap {"crash", "poweron", "operator"} = {},
         TypeOK, OnlyMaster2Fences, [Next]_vars
  PROVE  OnlyMaster2Fences'
<1> USE DEF net, drbd, procs, kube, scriptOnly
<1>1. Pair(Master1, Master2)
  BY MastersAssumption DEF Pair, Node, Peer
<1>2. ASSUME UNCHANGED <<power, shot, boot, wd>>, script'[Master1] = script[Master1],
             role[Master1] = "Primary" => role'[Master1] = "Primary"
      PROVE  OnlyMaster2Fences'
  BY <1>2 DEF OnlyMaster2Fences
<1>3. ASSUME NEW n \in Node, Watchdog(n) PROVE OnlyMaster2Fences'
  <2>1. CASE n = Master1
    <3>1. /\ wd[n] \in {"sample", "mount", "label"} \/ wd[n] = "off"
          /\ wd[n] # "off" => power[n] /\ role[n] = "Primary"
      BY <2>1 DEF OnlyMaster2Fences
    <3>2. wd[n] \in {"sample", "mount", "label", "umount", "unlabel", "gateway", "peer", "fence",
                     "shoot", "confirm", "launch", "wait"}
      BY <1>3 DEF Watchdog, Sample, MountPrimary, LabelPrimary, UnmountSecondary, UnlabelSecondary,
         PingGateway, PingPeer, FenceStart, Shoot, Confirm, LaunchPromote, PromoteReturns, Fenced,
         NotFenced, LoopAgain, Goto
    <3>3. wd[n] \in {"sample", "mount", "label"} /\ role[n] = "Primary" /\ power[n]
      BY <3>1, <3>2
    <3>4. Sample(n) \/ MountPrimary(n) \/ LabelPrimary(n)
      BY <1>3, <3>3 DEF Watchdog, UnmountSecondary, UnlabelSecondary, PingGateway, PingPeer,
         FenceStart, Shoot, Confirm, LaunchPromote, PromoteReturns, Fenced, NotFenced, LoopAgain, Goto
    <3>5. /\ wd'[n] \in {"sample", "mount", "label"} /\ role'[n] = "Primary"
          /\ UNCHANGED <<power, shot, boot, script>>
      BY <3>3, <3>4 DEF Sample, Up, MountPrimary, LabelPrimary, Goto, TypeOK
    <3> QED
      BY <2>1, <3>3, <3>5 DEF OnlyMaster2Fences
  <2>2. CASE n = Master2
    <3>1. /\ UNCHANGED <<power, boot>> /\ wd'[Master1] = wd[Master1]
          /\ role'[Master1] = role[Master1]
      BY <1>1, <1>3, <2>2 DEF Pair, Watchdog, Sample, Up, MountPrimary, LabelPrimary, UnmountSecondary,
         UnlabelSecondary, PingGateway, PingPeer, FenceStart, Shoot, Confirm, LaunchPromote,
         PromoteReturns, Fenced, NotFenced, LoopAgain, Goto, TypeOK
    <3>2. shot'[Master2] = shot[Master2] /\ script'[Master1] = script[Master1]
      BY <1>1, <1>3, <2>2 DEF Pair, Watchdog, Sample, MountPrimary, LabelPrimary, UnmountSecondary,
         UnlabelSecondary, PingGateway, PingPeer, FenceStart, Shoot, Confirm, LaunchPromote, Call,
         PromoteReturns, TypeOK
    <3> QED
      BY <3>1, <3>2 DEF OnlyMaster2Fences
  <2> QED
    BY <2>1, <2>2 DEF Node
<1>4. ASSUME NEW n \in Node, NEW c \in Caller, Failover(n, c) PROVE OnlyMaster2Fences'
  <2>1. n = Master2
    BY <1>4 DEF Node, OnlyMaster2Fences, Failover, CheckActive, Promote, PromoteForce, MountPromoted,
       MoveLabel, DeletePod, PodGone, ScaleUp, ScaleDown, DropLabel, Unmount, Demote, Step
  <2>2. UNCHANGED <<power, shot, boot, wd>>
    BY <1>4 DEF Failover, CheckActive, Promote, PromoteForce, MountPromoted,
       MoveLabel, DeletePod, PodGone, ScaleUp, ScaleDown, DropLabel, Unmount, Demote
  <2>3. script'[Master1] = script[Master1] /\ role'[Master1] = role[Master1]
    BY <1>1, <1>4, <2>1 DEF Pair, Failover, CheckActive, Promote, PromoteForce, MountPromoted,
       BecomePrimary, MoveLabel, DeletePod, PodGone, ScaleUp, ScaleDown, DropLabel, Unmount, Demote,
       Step, TypeOK
  <2> QED
    BY <1>2, <2>2, <2>3
<1>5. ASSUME NEW n \in Node, WatchdogRestart(n) PROVE OnlyMaster2Fences'
  <2>1. /\ wd'[n] = "sample" /\ wd[n] # "off" /\ \A m \in Node : m # n => wd'[m] = wd[m]
        /\ UNCHANGED <<power, boot, script, role>>
    BY <1>5 DEF WatchdogRestart, TypeOK
  <2>2. shot'[Master2] = shot[Master2]
    BY <1>1, <1>5 DEF WatchdogRestart, OnlyMaster2Fences, Pair, TypeOK
  <2> QED
    BY <1>1, <2>1, <2>2 DEF OnlyMaster2Fences, Pair
<1>6. ASSUME NEW n \in Node, Destroyed(n) PROVE OnlyMaster2Fences'
  <2>1. n = Master1 /\ shot'[Master2] = shot[Master2]
    BY <1>1, <1>6 DEF Destroyed, OnlyMaster2Fences, Pair, Node, TypeOK
  <2>2. CASE PowerOff(n)
    <3>1. Pair(Master2, Master1)
      BY <1>1 DEF Pair
    <3>2. OnlyOff(Master2, Master1)
      BY <2>1, <2>2, <3>1, PowerOffEffect
    <3>3. ~power'[Master1] /\ wd'[Master1] = "off"
      BY <1>1, <2>1, <2>2 DEF Pair, PowerOff, TypeOK
    <3>4. \A c \in Caller : script'[Master1][c] = "off"
      BY <1>1, <2>1, <2>2 DEF Pair, PowerOff, TypeOK
    <3>5. \A m \in Node : boot'[m] = "off"
      BY <2>1, <2>2 DEF PowerOff, OnlyMaster2Fences, TypeOK
    <3> QED
      BY <1>1, <2>1, <3>2, <3>3, <3>4, <3>5 DEF OnlyMaster2Fences, OnlyOff, Pair
  <2> QED
    BY <1>6, <2>1, <2>2 DEF Destroyed, OnlyMaster2Fences
<1>7. \A n \in Node : ~Crash(n) /\ ~PowerOn(n) /\ ~OperatorPromote(n) /\ ~OperatorDemote(n)
  BY DEF Crash, PowerOn, OperatorPromote, OperatorDemote, Fault
<1>8. \A n \in Node : ~Boot(n)
  BY DEF Boot, BootUp, BootPromote, OnlyMaster2Fences
<1>9. CASE Kernel \/ Kubernetes \/ UNCHANGED vars
  BY <1>2, <1>9 DEF Kernel, Connect, SyncDone, Disconnect, Write, Kubernetes, SchedulePod,
     ScalePodAway, KubeletStopsPod, vars
<1>10. CASE LinkFault \/ LinkRepaired \/ ApiChanges
  BY <1>2, <1>10 DEF LinkFault, LinkRepaired, ApiChanges
<1> QED
  BY <1>3, <1>4, <1>5, <1>6, <1>7, <1>8, <1>9, <1>10 DEF Next, Environment

\* The watchdogs of a pair that was healthy never shoot each other: while no
\* machine fails and nobody intervenes, broken links leave one master on.
THEOREM NeverBothShot ==
  ASSUME FaultKinds \cap {"crash", "poweron", "operator"} = {}
  PROVE  Spec => []OneMasterSurvives
<1>1. Init => TypeOK /\ OnlyMaster2Fences
  BY InitTypeOK DEF Init, OnlyMaster2Fences, Node
<1>2. TypeOK /\ OnlyMaster2Fences /\ [Next]_vars => (TypeOK /\ OnlyMaster2Fences)'
  BY NextTypeOK, OnlyMaster2FencesKept
<1>3. OnlyMaster2Fences => OneMasterSurvives
  BY DEF OnlyMaster2Fences, OneMasterSurvives, Node
<1> QED
  BY <1>1, <1>2, <1>3, PTL DEF Spec
-----------------------------------------------------------------------------
(***************************************************************************)
(* The pair implements FencedVolume.                                       *)
(***************************************************************************)
HolderIsClaimant ==
  /\ \A n \in Node : Claims(n) => Holder = n
  /\ (\A n \in Node : ~Claims(n)) => Holder = NoNode

LEMMA HolderClaims == OneClaim => HolderIsClaimant
<1> SUFFICES ASSUME OneClaim PROVE HolderIsClaimant
  OBVIOUS
<1>1. ASSUME NEW n \in Node, Claims(n) PROVE Holder = n
  <2>1. \A m \in Node : Claims(m) => m = n
    BY <1>1 DEF OneClaim, Node
  <2>2. Holder = CHOOSE m \in Node : Claims(m)
    BY <1>1 DEF Holder
  <2> QED
    BY <1>1, <2>1, <2>2
<1>2. (\A n \in Node : ~Claims(n)) => Holder = NoNode
  BY DEF Holder
<1> QED
  BY <1>1, <1>2 DEF HolderIsClaimant

LEMMA HolderKept ==
  ASSUME OneClaim, OneClaim', \A n \in Node : Claims(n)' <=> Claims(n)
  PROVE  Holder' = Holder
<1>1. HolderIsClaimant /\ HolderIsClaimant'
  BY HolderClaims, PTL
<1> QED
  BY <1>1 DEF HolderIsClaimant

\* Only a crash, a destroy that arrives and a power-on change which masters run.
LEMMA PowerMoves ==
  ASSUME [Next]_vars
  PROVE  \/ UNCHANGED power
         \/ \E n \in Node : power[n] /\ PowerOff(n)
         \/ \E n \in Node : PowerOn(n)
<1>1. CASE UNCHANGED vars
  BY <1>1 DEF vars
<1>2. ASSUME NEW n \in Node, Watchdog(n) PROVE UNCHANGED power
  BY <1>2 DEF Watchdog, Sample, MountPrimary, LabelPrimary, UnmountSecondary,
     UnlabelSecondary, PingGateway, PingPeer, FenceStart, Shoot, Confirm,
     LaunchPromote, PromoteReturns
<1>3. ASSUME NEW n \in Node, NEW c \in Caller, Failover(n, c)
      PROVE  UNCHANGED power
  BY <1>3 DEF Failover, CheckActive, Promote, PromoteForce, MountPromoted,
     MoveLabel, DeletePod, PodGone, ScaleUp, ScaleDown, DropLabel, Unmount,
     Demote, scriptOnly
<1>4. ASSUME NEW n \in Node, Boot(n) PROVE UNCHANGED power
  BY <1>4 DEF Boot, BootUp, BootPromote
<1>5. CASE Kernel \/ Kubernetes
  BY <1>5 DEF Kernel, Connect, SyncDone, Disconnect, Write, Kubernetes,
     SchedulePod, ScalePodAway, KubeletStopsPod
<1>6. CASE Environment
  BY <1>6 DEF Environment, Crash, Destroyed, WatchdogRestart, OperatorPromote,
     OperatorDemote, LinkFault, LinkRepaired, ApiChanges
<1> QED
  BY <1>1, <1>2, <1>3, <1>4, <1>5, <1>6 DEF Next

LEMMA StepIsFenced ==
  ASSUME FenceRequired, ~BootPrimary, SafeInv, SafeInv', [Next]_vars
  PROVE  [FV!Next]_(FV!vars)
<1> USE DEF FV!vars, FV!Next
<1>0. OneClaim /\ OneClaim'
  BY DEF SafeInv
<1>1. HolderIsClaimant /\ HolderIsClaimant'
  BY <1>0, HolderClaims, PTL
<1>2. CASE UNCHANGED power
  <2>1. CASE \A n \in Node : ~Claims(n)'
    BY <1>1, <1>2, <2>1 DEF FV!GiveUp, HolderIsClaimant
  <2>2. ASSUME NEW n \in Node, Claims(n)' PROVE [FV!Next]_(FV!vars)
    <3>1. CASE Claims(n)
      BY <1>1, <1>2, <2>2, <3>1 DEF HolderIsClaimant
    <3>2. CASE ~Claims(n)
      <4>1. ~power[Peer(n)]
        BY <1>2, <2>2, <3>2, StepKept DEF Kept
      <4>2. ~Claims(Peer(n))
        BY <4>1, PeerType, OffClaimsNothing DEF SafeInv
      <4>3. \A m \in Node : m = n \/ m = Peer(n)
        BY PairOf DEF Pair
      <4>4. Holder = NoNode
        BY <1>1, <3>2, <4>2, <4>3 DEF HolderIsClaimant
      <4>5. power[n]
        <5>1. power'[n]
          BY <2>2 DEF SafeInv, OffIsOff, Claims
        <5> QED
          BY <5>1, <1>2
      <4>6. FV!Take(n)
        BY <1>1, <1>2, <2>2, <4>1, <4>3, <4>4, <4>5 DEF FV!Take, HolderIsClaimant
      <4> QED
        BY <4>6
    <3> QED
      BY <3>1, <3>2
  <2> QED
    BY <2>1, <2>2
<1>3. ASSUME NEW n \in Node, power[n], PowerOff(n) PROVE FV!Stop(n)
  <2>1. /\ \A m \in Node : m # n =>
             role'[m] = role[m] /\ wd'[m] = wd[m] /\ script'[m] = script[m]
        /\ role'[n] = "Unknown" /\ wd'[n] = "off"
        /\ script'[n] = [c \in Caller |-> "off"]
        /\ power' = [power EXCEPT ![n] = FALSE]
    BY <1>3 DEF PowerOff, SafeInv, TypeOK
  <2>2. ~Claims(n)' /\ \A m \in Node : m # n => (Claims(m)' <=> Claims(m))
    BY <2>1 DEF Claims
  <2>3. Holder' = IF Holder = n THEN NoNode ELSE Holder
    <3>1. CASE Claims(n)
      <4>1. \A m \in Node : ~Claims(m)'
        BY <1>0, <2>2, <3>1 DEF OneClaim, Node
      <4> QED
        BY <1>1, <3>1, <4>1 DEF HolderIsClaimant
    <3>2. CASE ~Claims(n)
      <4>1. \A m \in Node : Claims(m)' <=> Claims(m)
        BY <2>2, <3>2
      <4>2. Holder' = Holder
        BY <1>0, <4>1, HolderKept
      <4>3. Holder = n => Holder = NoNode
        BY <1>1, <3>2 DEF HolderIsClaimant
      <4> QED
        BY <4>2, <4>3
    <3> QED
      BY <3>1, <3>2
  <2> QED
    BY <1>3, <2>1, <2>3 DEF FV!Stop
<1>4. ASSUME NEW n \in Node, PowerOn(n) PROVE FV!Start(n)
  <2>1. /\ \A m \in Node : m # n => wd'[m] = wd[m]
        /\ wd'[n] = "sample" /\ ~power[n]
        /\ power' = [power EXCEPT ![n] = TRUE]
        /\ UNCHANGED <<role, script>>
    BY <1>4 DEF PowerOn, SafeInv, TypeOK, drbd
  <2>2. ~Claims(n)
    BY <2>1, OffClaimsNothing DEF SafeInv
  <2>3. \A m \in Node : Claims(m)' <=> Claims(m)
    BY <2>1, <2>2 DEF Claims
  <2> QED
    BY <1>0, <2>1, <2>3, HolderKept DEF FV!Start
<1> QED
  BY <1>2, <1>3, <1>4, PowerMoves

\* "Never promote without a confirmed fence": with required fencing and without
\* the boot service every step of the scripts, the kernel, the operators and
\* the faults is a step of FencedVolume or none, so that the volume passes from
\* one master to the other only while the one that loses it is off.
THEOREM FailoverIsFenced ==
  ASSUME FenceRequired, ~BootPrimary
  PROVE  Spec => VolumeIsFenced
<1>1. Init => FV!Init
  <2> SUFFICES ASSUME Init PROVE FV!Init
    OBVIOUS
  <2>1. Claims(Master1) /\ OneClaim
    BY InitSafe DEF Init, Claims, Node, SafeInv
  <2>2. Holder = Master1
    BY <2>1, HolderClaims DEF HolderIsClaimant, Node
  <2> QED
    BY <2>2 DEF Init, FV!Init, Node
<1>2. SafeInv /\ SafeInv' /\ [Next]_vars => [FV!Next]_(FV!vars)
  BY StepIsFenced
<1> QED
  BY <1>1, <1>2, InitSafe, SafeInvKept, PTL DEF Spec, VolumeIsFenced, FV!Spec
=============================================================================
