---------------------------- MODULE MCVmCommands ----------------------------
(* A small instance of VmCommands: the jumpstart and one client, a master   *)
(* with a DRBD disk.                                                         *)
EXTENDS VmCommands

MCBatches == <<<<"master">>>>
MCNets == <<"internal">>
MCVictims == <<"master">>

C(name, flags) == [name |-> name, flags |-> flags]
AllCommands ==
  {C("start", {}), C("stop", {}), C("stop", {"force"}), C("shrink", {}),
   C("fix-boot-order", {}), C("install-batches", {}), C("recreate-failed", {}),
   C("cleanup", {}), C("cleanup", {"vms-only"}), C("cleanup", {"networks-only"}),
   C("init-vms", {"recreate"}), C("init-vms", {}), C("init-vms", {"nodes-only"}),
   C("init-vms", {"jumpstart-only"}), C("test-failover", {}),
   C("test-failover", {"skip-restore"})}
=============================================================================
