------------------------------ MODULE Libvirt ------------------------------
(***************************************************************************)
(* The hypervisor as internal/libvirt drives it: domains, their disks and  *)
(* their networks, what virsh does to them, and what they do on their own. *)
(*                                                                         *)
(* virt-install defines domains with on_crash=destroy, so that a crashed   *)
(* guest is "shut off"; libvirt never lists them as "crashed".             *)
(***************************************************************************)
EXTENDS Naturals, FiniteSets, SequencesExt

CONSTANTS
  Jumpstart,  \* the provisioning server
  Batches,    \* the client nodes: a sequence of sequences of names
  Replicated, \* the clients with a second disk, for DRBD
  Nets,       \* the virtual networks, in order
  MaxFaults   \* bound on failing calls, guests that stop by themselves, kills

\* The order deployClientNodes creates them in: batch after batch.
Clients == FlattenSeq(Batches)
VMs == {Jumpstart} \cup {Clients[k] : k \in DOMAIN Clients}
Networks == {Nets[k] : k \in DOMAIN Nets}

DisksOf(v) == {<<v, "os">>} \cup (IF v \in Replicated THEN {<<v, "drbd">>} ELSE {})
Disks == UNION {DisksOf(v) : v \in VMs}

ASSUME VMsAssumption ==
  /\ Batches \in Seq(Seq(STRING))
  /\ Jumpstart \in STRING /\ \A k \in DOMAIN Clients : Clients[k] # Jumpstart
ASSUME NetsAssumption == Nets \in Seq(STRING)
ASSUME VmFaultsAssumption == MaxFaults \in Nat

VARIABLES
  dom,       \* the state of each domain
  memory,    \* its configured memory
  disk,      \* what each disk image holds; "setup": a server being installed
  net,       \* the state of each network
  asked,     \* domains with an ACPI shutdown they have not obeyed
  cancelled, \* Ctrl-C reached the command: its context is done
  faults

hostVars == <<dom, memory, disk, net, asked>>

HostTypeOK ==
  /\ dom \in [VMs -> {"absent", "shut off", "running", "paused"}]
  /\ memory \in [VMs -> {"install", "final"}]
  /\ disk \in [Disks -> {"none", "blank", "setup", "data"}]
  /\ net \in [Networks -> {"absent", "inactive", "active", "transient"}]
  /\ asked \subseteq VMs
  /\ cancelled \in BOOLEAN
  /\ faults \in 0..MaxFaults

HostInit ==
  /\ dom = [v \in VMs |-> "absent"]
  /\ memory = [v \in VMs |-> "install"]
  /\ disk = [d \in Disks |-> "none"]
  /\ net = [n \in Networks |-> "absent"]
  /\ asked = {}
  /\ cancelled = FALSE
  /\ faults = 0

Fault == faults < MaxFaults /\ faults' = faults + 1

Defined(v) == dom[v] # "absent"

\* A trivial ssh session can be opened: the guest runs an installed system.
Reachable(v) == dom[v] = "running" /\ disk[<<v, "os">>] = "data"

(***************************************************************************)
(* virsh.  Called[op] is what a domain state becomes; "refused" when virsh *)
(* reports an error and changes nothing.                                   *)
(***************************************************************************)
Called(op, s) ==
  CASE op = "start"    /\ s = "shut off"               -> "running"
    [] op = "shutdown" /\ s \in {"running", "paused"}  -> s
    [] op = "resume"   /\ s = "paused"                 -> "running"
    [] op = "destroy"  /\ s \in {"running", "paused"}  -> "shut off"
    [] op = "undefine" /\ s # "absent" -> IF s = "shut off" THEN "absent" ELSE s
    [] op \in {"setmaxmem", "setmem", "define"} /\ s # "absent" -> s
    [] OTHER -> "refused"

\* The jumpstart's installer does not survive a power off.
Interrupted(v) ==
  [d \in Disks |-> IF d \in DisksOf(v) /\ disk[d] = "setup" THEN "blank"
                   ELSE disk[d]]

\* A call that works continues with Then, one that fails with Else.
Virsh(op, v, Then, Else) ==
  LET s == Called(op, dom[v]) IN
  \/ /\ ~cancelled /\ s # "refused"
     /\ dom' = [dom EXCEPT ![v] = s]
     /\ asked' = CASE op = "shutdown" -> asked \cup {v}
                   [] op \in {"start", "destroy"} -> asked \ {v}
                   [] OTHER -> asked
     /\ memory' = IF op = "setmem" THEN [memory EXCEPT ![v] = "final"]
                  ELSE memory
     /\ disk' = IF op = "destroy" THEN Interrupted(v) ELSE disk
     /\ UNCHANGED <<net, faults>>
     /\ Then
  \/ /\ IF cancelled \/ s = "refused" THEN UNCHANGED faults ELSE Fault
     /\ UNCHANGED hostVars
     /\ Else

\* DomainStates, NetExistsChecked, DomainExistsChecked: read or fail.
Query(Then, Else) ==
  /\ UNCHANGED hostVars
  /\ \/ ~cancelled /\ UNCHANGED faults /\ Then
     \/ (IF cancelled THEN UNCHANGED faults ELSE Fault) /\ Else

NetCalled(op, s) ==
  CASE op = "net-define"   /\ s = "absent"    -> "inactive"
    [] op = "net-start"    /\ s = "inactive"  -> "active"
    [] op = "net-destroy"  /\ s = "active"    -> "inactive"
    [] op = "net-destroy"  /\ s = "transient" -> "absent"
    [] op = "net-undefine" /\ s = "active"    -> "transient"
    [] op = "net-undefine" /\ s = "inactive"  -> "absent"
    [] OTHER -> "refused"

VirshNet(op, n, Then, Else) ==
  LET s == NetCalled(op, net[n]) IN
  \/ /\ ~cancelled /\ s # "refused"
     /\ net' = [net EXCEPT ![n] = s]
     /\ UNCHANGED <<dom, memory, disk, asked, faults>>
     /\ Then
  \/ /\ IF cancelled \/ s = "refused" THEN UNCHANGED faults ELSE Fault
     /\ UNCHANGED hostVars
     /\ Else

\* virt-install registers the domain and boots its installer.
VirtInstall(v, Then, Else) ==
  \/ /\ ~cancelled /\ ~Defined(v)
     /\ dom' = [dom EXCEPT ![v] = "running"]
     /\ memory' = [memory EXCEPT ![v] = "install"]
     /\ disk' = [d \in Disks |-> IF d = <<Jumpstart, "os">> /\ v = Jumpstart
                                 THEN "setup" ELSE disk[d]]
     /\ UNCHANGED <<net, asked, faults>>
     /\ Then
  \/ /\ IF cancelled \/ Defined(v) THEN UNCHANGED faults ELSE Fault
     /\ UNCHANGED hostVars
     /\ Else

(***************************************************************************)
(* The guests.                                                             *)
(***************************************************************************)
\* A client's installer comes over the network each time it boots an empty
\* disk; the jumpstart's only in the boot virt-install makes (--noreboot).
Installs(v) ==
  /\ dom[v] = "running"
  /\ disk[<<v, "os">>] = IF v = Jumpstart THEN "setup" ELSE "blank"
  /\ disk' = [d \in Disks |-> IF d \in DisksOf(v) THEN "data" ELSE disk[d]]
  /\ dom' = [dom EXCEPT ![v] = IF v = Jumpstart THEN "shut off" ELSE @]
  /\ asked' = IF v = Jumpstart THEN asked \ {v} ELSE asked
  /\ UNCHANGED <<memory, net, faults>>

Off(v) ==
  /\ dom' = [dom EXCEPT ![v] = "shut off"]
  /\ asked' = asked \ {v}
  /\ disk' = Interrupted(v)

PowersOff(v) ==
  /\ dom[v] = "running" /\ v \in asked
  /\ Off(v)
  /\ UNCHANGED <<memory, net, faults>>

\* A guest crashes, or is powered off from inside.
Crashes(v) ==
  /\ dom[v] = "running" /\ Fault
  /\ Off(v)
  /\ UNCHANGED <<memory, net>>

\* libvirt pauses a guest whose disk image cannot grow.
Pauses(v) ==
  /\ dom[v] = "running" /\ Fault
  /\ dom' = [dom EXCEPT ![v] = "paused"]
  /\ UNCHANGED <<memory, disk, net, asked>>

\* Somebody makes room and resumes it.
Unpauses(v) ==
  /\ dom[v] = "paused"
  /\ dom' = [dom EXCEPT ![v] = "running"]
  /\ UNCHANGED <<memory, disk, net, asked, faults>>

Guests(v) ==
  Installs(v) \/ PowersOff(v) \/ Crashes(v) \/ Pauses(v) \/ Unpauses(v)
=============================================================================
