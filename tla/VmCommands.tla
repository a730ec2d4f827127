----------------------------- MODULE VmCommands -----------------------------
(***************************************************************************)
(* The commands that create, start, stop, resize, test and remove the VMs: *)
(* internal/utils/vmops.go and failover.go, internal/phases/initvms.       *)
(*                                                                         *)
(* One command runs at a time; between any two of its calls the guests     *)
(* change state by themselves, a call may fail, the user may press Ctrl-C  *)
(* (the context is done: every later virsh call fails, the command goes on *)
(* as its code says) and the process may be killed.  A deadline passes     *)
(* whenever what is waited for is not there yet.                           *)
(***************************************************************************)
EXTENDS Libvirt

CONSTANTS
  Requests, \* the commands an operator gives, each with its flags
  Victims   \* the VMs the chaos test stops, in order: a master, a worker...

FlagsOf(name) ==
  CASE name = "stop" -> {"force"}
    [] name = "cleanup" -> {"vms-only", "networks-only"}
    [] name = "init-vms" -> {"recreate", "jumpstart-only", "nodes-only"}
    [] name = "test-failover" -> {"skip-restore"}
    [] OTHER -> {}

ASSUME RequestsAssumption ==
  \A c \in Requests :
    /\ c \in [name : {"start", "stop", "shrink", "fix-boot-order",
                      "install-batches", "recreate-failed", "cleanup",
                      "init-vms", "test-failover"},
              flags : SUBSET STRING]
    /\ c.flags \subseteq FlagsOf(c.name)
ASSUME VictimsAssumption == Victims \in Seq(VMs)

VARIABLES
  cmd, \* the command that runs, or that ran last
  run  \* where it is, with its local variables

vars == <<dom, memory, disk, net, asked, cancelled, faults, cmd, run>>

\* Router and jumpstart first; StopAllVMs goes the other way.
StartOrder == <<Jumpstart>> \o Clients
StopOrder == [k \in DOMAIN StartOrder |-> StartOrder[Len(StartOrder) + 1 - k]]

\* The VMs of a sequence that are in S, in its order.
Only(s, S) == FlattenSeq([k \in DOMAIN s |-> IF s[k] \in S THEN <<s[k]>> ELSE <<>>])

NoStates == [v \in VMs |-> "absent"]

Finished(ok) ==
  [step |-> "done", ok |-> ok, \* the command returned, with ok = no error
   todo |-> <<>>,              \* what the current loop has left
   states |-> NoStates,        \* the last DomainStates snapshot it keeps
   targets |-> <<>>,           \* the VMs of a batch that are not off yet
   batch |-> 1,
   jobs |-> {},                \* <<vm, call>> of the goroutines that run
   group |-> "define",         \* the call the last ones started with
   errs |-> FALSE]             \* an error was collected

Steps == {"done", "query", "boot", "stagger", "signal", "shutdown", "poll",
          "wait", "force", "resize", "setmem", "boot-batch", "wg", "down-query",
          "down", "poll-batch", "wait-batch", "force-batch", "failed",
          "undefine-failed", "remove", "remove-failed", "clean-query", "clean",
          "undefine", "nets", "net-destroy", "net-undefine", "preflight",
          "net-check", "net-define", "net-start", "jump-query", "jump-start",
          "jump-ssh", "jump-disk", "jump-install", "jump-wait", "jump-boot",
          "node-query", "node", "node-install", "scenario", "off-yet", "restore"}

Calls == {"ssh", "define", "setmaxmem", "setmem", "start"}

TypeOK ==
  /\ HostTypeOK
  /\ cmd \in Requests
  /\ run.step \in Steps /\ run.ok \in BOOLEAN /\ run.errs \in BOOLEAN
  /\ run.todo \in Seq(VMs \cup Networks) /\ run.targets \in Seq(VMs)
  /\ \A v \in VMs : run.states[v] \in {"absent", "shut off", "running", "paused"}
  /\ run.batch \in 1..Len(Batches) + 1 /\ run.group \in Calls
  /\ run.jobs \subseteq VMs \X Calls

Init ==
  /\ HostInit
  /\ cmd \in Requests
  /\ run = Finished(FALSE)

(***************************************************************************)
(* Control.                                                                *)
(***************************************************************************)
At(s) == run.step = s
Has(flag) == flag \in cmd.flags
Current == Head(run.todo)
NoMore == run.todo = <<>>

Goto(s) == run' = [run EXCEPT !.step = s]
Walk(s, q) == run' = [run EXCEPT !.step = s, !.todo = q]
WalkStates(s, q) == run' = [run EXCEPT !.step = s, !.todo = q, !.states = dom]
Skip(s) == Walk(s, Tail(run.todo))
SkipFailed(s) == run' = [run EXCEPT !.step = s, !.todo = Tail(@), !.errs = TRUE]
Return(ok) == run' = Finished(ok)
Untouched == UNCHANGED <<dom, memory, disk, net, asked, faults>>

FirstStep(c) ==
  CASE c.name = "init-vms" -> "preflight"
    [] c.name = "cleanup" -> "clean-query"
    [] c.name = "test-failover" -> "scenario"
    [] c.name = "fix-boot-order" -> "wg"
    [] OTHER -> "query"

Begin(c) ==
  /\ At("done")
  /\ cmd' = c
  /\ run' = [Finished(FALSE) EXCEPT
               !.step = FirstStep(c),
               !.todo = IF c.name = "test-failover" THEN Victims ELSE <<>>,
               !.jobs = IF c.name = "fix-boot-order" THEN VMs \X {"define"}
                        ELSE {}]
  /\ cancelled' = FALSE
  /\ Untouched

Cancel ==
  /\ ~At("done") /\ ~cancelled /\ Fault
  /\ cancelled' = TRUE
  /\ UNCHANGED <<hostVars, cmd, run>>

Killed ==
  /\ ~At("done") /\ Fault
  /\ Return(FALSE)
  /\ UNCHANGED <<hostVars, cancelled, cmd>>

(***************************************************************************)
(* vm start, stop, shrink.                                                 *)
(***************************************************************************)
StartAllVMs ==
  \/ /\ At("query") /\ cmd.name = "start"
     /\ Query(WalkStates("boot", StartOrder), Return(FALSE))
  \/ /\ At("boot") /\ NoMore /\ Return(TRUE) /\ Untouched
  \/ /\ At("boot") /\ ~NoMore
     /\ IF run.states[Current] \in {"absent", "running"}
        THEN Skip("boot") /\ Untouched
        ELSE Virsh("start", Current, Skip("stagger"), Return(FALSE))
  \/ /\ At("stagger") /\ Untouched
     /\ IF cancelled THEN Return(FALSE) ELSE Goto("boot")

Up == {"running", "paused"}
IsUp(v) == dom[v] \in Up

\* Warnings only: an unheard signal shows when the wait ends.
Signal ==
  \/ /\ At("query") /\ cmd.name = "stop"
     /\ LET up == {v \in VMs : IsUp(v)} IN
        Query(IF up = {} THEN Return(TRUE)
              ELSE WalkStates("signal", Only(StopOrder, up)),
              Return(FALSE))
  \/ /\ At("signal") /\ NoMore /\ Goto("poll") /\ Untouched
  \/ /\ At("signal") /\ ~NoMore
     /\ IF run.states[Current] = "paused"
        THEN Virsh("resume", Current, Goto("shutdown"), Goto("shutdown"))
        ELSE Goto("shutdown") /\ Untouched
  \/ /\ At("shutdown")
     /\ Virsh("shutdown", Current, Skip("signal"), Skip("signal"))

\* Mutant: a domain that a failed poll does not name counts as stopped.
PollForgets ==
  LET Polled(states) ==
        LET remaining == {v \in VMs : run.states[v] \in Up /\ states[v] \in Up}
        IN IF remaining = {} THEN Return(TRUE)
           ELSE Walk("wait", Only(StopOrder, remaining))
  IN At("poll") /\ Query(Polled(dom), Polled(NoStates))

\* The VMs that were up at the query and are not off.  A failed poll has no
\* states: it counts every one of them as remaining.
PollStopped ==
  LET Polled(states) ==
        LET remaining == {v \in VMs : run.states[v] \in Up /\ states[v] # "shut off"}
        IN IF remaining = {} THEN Return(TRUE)
           ELSE Walk("wait", Only(StopOrder, remaining))
  IN At("poll") /\ Query(Polled(dom), Polled(NoStates))

WaitStopped ==
  /\ At("wait") /\ Untouched
  /\ \/ cancelled /\ Return(FALSE)
     \/ ~cancelled /\ Goto("poll")

\* --force: a domain that cannot be destroyed is only a warning.
ForceOff ==
  \/ /\ At("force") /\ NoMore /\ Return(TRUE) /\ Untouched
  \/ /\ At("force") /\ ~NoMore
     /\ Virsh("destroy", Current, Skip("force"), Skip("force"))

ShrinkVMRAM ==
  \/ /\ At("query") /\ cmd.name = "shrink"
     /\ Query(IF \E v \in VMs : dom[v] = "running" THEN Return(FALSE)
              ELSE WalkStates("resize", StartOrder),
              Return(FALSE))
  \/ /\ At("resize") /\ NoMore /\ Return(~run.errs) /\ Untouched
  \/ /\ At("resize") /\ ~NoMore
     /\ IF run.states[Current] = "absent" THEN Skip("resize") /\ Untouched
        ELSE Virsh("setmaxmem", Current, Goto("setmem"), SkipFailed("resize"))
  \/ /\ At("setmem")
     /\ Virsh("setmem", Current, Skip("resize"), SkipFailed("resize"))

(***************************************************************************)
(* Goroutines, one per VM, that the caller waits for: ssh waits, FixBoot-  *)
(* Order (its exists, dumpxml, define rewrite what createClientVM defines  *)
(* the domain with already) and the resize of a batch.                     *)
(***************************************************************************)
Jobs(call) == {<<Batches[run.batch][k], call>> : k \in DOMAIN Batches[run.batch]}

Spawn(call) == run' = [run EXCEPT !.step = "wg", !.jobs = Jobs(call),
                                  !.group = call, !.errs = FALSE]

JobEnds(j, failed) ==
  run' = [run EXCEPT !.jobs = @ \ {j}, !.errs = @ \/ failed]
JobGoesOn(j, call) == run' = [run EXCEPT !.jobs = (@ \ {j}) \cup {<<j[1], call>>}]

Job(j) ==
  /\ At("wg")
  /\ CASE j[2] = "ssh" -> Untouched /\ JobEnds(j, ~Reachable(j[1]))
       [] j[2] = "define" /\ ~Defined(j[1]) -> Untouched /\ JobEnds(j, FALSE)
       [] j[2] = "setmaxmem" ->
            Virsh("setmaxmem", j[1], JobGoesOn(j, "setmem"), JobEnds(j, TRUE))
       [] j[2] = "setmem" ->
            Virsh("setmem", j[1], JobGoesOn(j, "start"), JobEnds(j, TRUE))
       [] OTHER -> Virsh(j[2], j[1], JobEnds(j, FALSE), JobEnds(j, TRUE))

(***************************************************************************)
(* vm install-batches.                                                     *)
(***************************************************************************)
BootBatch ==
  \/ /\ At("query") /\ cmd.name = "install-batches"
     /\ IF run.batch > Len(Batches) THEN Return(TRUE) /\ Untouched
        ELSE Query(WalkStates("boot-batch", Batches[run.batch]), Return(FALSE))
  \/ /\ At("boot-batch") /\ NoMore /\ Spawn("ssh") /\ Untouched
  \/ /\ At("boot-batch") /\ ~NoMore
     /\ CASE run.states[Current] = "absent" -> Return(FALSE) /\ Untouched
          [] run.states[Current] = "running" -> Skip("boot-batch") /\ Untouched
          [] OTHER -> Virsh("start", Current, Skip("boot-batch"), Return(FALSE))

\* Mutant: a batch is skipped.
JoinedSkips ==
  /\ At("wg") /\ run.jobs = {} /\ Untouched
  /\ IF run.group = "define" THEN Goto("down-query")
     ELSE IF run.group = "ssh" THEN Spawn("define")
     ELSE run' = [run EXCEPT !.step = "query", !.batch = @ + 2]

\* What the caller does once the goroutines are done.
Joined ==
  /\ At("wg") /\ run.jobs = {} /\ Untouched
  /\ IF run.group = "define"
     THEN IF cmd.name = "fix-boot-order" THEN Return(~run.errs)
          ELSE Goto("down-query")
     ELSE IF run.errs THEN Return(FALSE)
     ELSE IF run.group = "ssh" THEN Spawn("define")
     ELSE run' = [run EXCEPT !.step = "query", !.batch = @ + 1]

ShutDownBatch ==
  \/ /\ At("down-query")
     /\ Query(WalkStates("down", Batches[run.batch]), Return(FALSE))
  \/ /\ At("down") /\ NoMore /\ Untouched
     /\ run' = [run EXCEPT !.step = "poll-batch", !.targets = Batches[run.batch]]
  \/ /\ At("down") /\ ~NoMore
     /\ IF run.states[Current] = "shut off" THEN Skip("down") /\ Untouched
        ELSE Virsh("shutdown", Current, Skip("down"), Return(FALSE))
  \/ /\ At("poll-batch")
     /\ LET pending == Only(run.targets, {v \in VMs : dom[v] # "shut off"}) IN
        Query(run' = [run EXCEPT !.targets = pending, !.todo = pending, !.errs = FALSE,
                                 !.step = IF pending = <<>> THEN "force-batch"
                                          ELSE "wait-batch"],
              Return(FALSE))
  \/ /\ At("wait-batch") /\ Untouched
     /\ \/ cancelled /\ Return(FALSE)
        \/ ~cancelled /\ Goto("poll-batch")
  \/ /\ At("force-batch") /\ ~NoMore
     /\ Virsh("destroy", Current, Skip("force-batch"), SkipFailed("force-batch"))
  \/ /\ At("force-batch") /\ NoMore /\ Untouched
     /\ IF run.errs \/ cancelled THEN Return(FALSE) ELSE Spawn("setmaxmem")

(***************************************************************************)
(* Removal: vm recreate-failed, cleanup, the cleanup of init-vms           *)
(* --recreate.                                                             *)
(***************************************************************************)
RemoveDisks(v) ==
  /\ disk' = [d \in Disks |-> IF d \in DisksOf(v) THEN "none" ELSE disk[d]]
  /\ UNCHANGED <<dom, memory, net, asked, faults>>

\* os.Remove of an image fails; the one before it may be gone.
RemoveFails(v) ==
  /\ Fault
  /\ \E D \in SUBSET DisksOf(v) :
       disk' = [d \in Disks |-> IF d \in D THEN "none" ELSE disk[d]]
  /\ UNCHANGED <<dom, memory, net, asked>>

\* libvirt refuses to destroy a domain that is off, so no call gets further.
RecreateFailedVMs ==
  \/ /\ At("query") /\ cmd.name = "recreate-failed"
     /\ Query(WalkStates("failed", Clients), Return(FALSE))
  \/ /\ At("failed") /\ NoMore /\ Return(~run.errs) /\ Untouched
  \/ /\ At("failed") /\ ~NoMore
     /\ IF run.states[Current] # "shut off" THEN Skip("failed") /\ Untouched
        ELSE Virsh("destroy", Current, Goto("undefine-failed"),
                   SkipFailed("failed"))
  \/ /\ At("undefine-failed")
     /\ Virsh("undefine", Current, Goto("remove-failed"), SkipFailed("failed"))
  \/ /\ At("remove-failed")
     /\ \/ RemoveDisks(Current) /\ Skip("failed")
        \/ RemoveFails(Current) /\ SkipFailed("failed")

\* A failed query is no evidence that a domain is absent: no VM is touched.
ToNets == run' = [run EXCEPT !.step = "nets", !.todo = Nets]
CleanupVMs ==
  \/ /\ At("clean-query") /\ Has("networks-only") /\ ToNets /\ Untouched
  \/ /\ At("clean-query") /\ ~Has("networks-only")
     /\ Query(WalkStates("clean", StartOrder),
              run' = [run EXCEPT !.step = "clean", !.errs = TRUE])
  \/ /\ At("clean") /\ NoMore /\ Untouched
     /\ IF Has("vms-only") THEN Return(~run.errs) ELSE ToNets

\* Mutant: destroys whatever its state, as RecreateFailedVMs does.
DestroyAlways ==
  \/ /\ At("clean") /\ ~NoMore
     /\ IF run.states[Current] = "absent" THEN Goto("remove") /\ Untouched
        ELSE Virsh("destroy", Current, Goto("undefine"), SkipFailed("clean"))
  \/ /\ At("remove")
     /\ \/ RemoveDisks(Current) /\ Skip("clean")
        \/ RemoveFails(Current) /\ SkipFailed("clean")

DestroyVM ==
  \/ /\ At("clean") /\ ~NoMore
     /\ CASE run.states[Current] = "absent" -> Goto("remove") /\ Untouched
          [] run.states[Current] = "shut off" -> Goto("undefine") /\ Untouched
          [] OTHER -> Virsh("destroy", Current, Goto("undefine"),
                            SkipFailed("clean"))
  \/ /\ At("remove")
     /\ \/ RemoveDisks(Current) /\ Skip("clean")
        \/ RemoveFails(Current) /\ SkipFailed("clean")

\* Mutant: goes on to the disks when the domain could not be undefined.
UndefineOrNot ==
  At("undefine") /\ Virsh("undefine", Current, Goto("remove"), Goto("remove"))

UndefineVM ==
  At("undefine") /\ Virsh("undefine", Current, Goto("remove"), SkipFailed("clean"))

CleanupNetworks ==
  \/ /\ At("nets") /\ NoMore /\ Untouched
     /\ IF cmd.name = "cleanup" \/ run.errs THEN Return(~run.errs)
        ELSE Walk("net-check", Nets)
  \/ /\ At("nets") /\ ~NoMore
     /\ Query(IF net[Current] = "absent" THEN Skip("nets") ELSE Goto("net-destroy"),
              SkipFailed("nets"))
  \/ /\ At("net-destroy")
     /\ VirshNet("net-destroy", Current, Goto("net-undefine"), Goto("net-undefine"))
  \/ /\ At("net-undefine")
     /\ VirshNet("net-undefine", Current, Skip("nets"), SkipFailed("nets"))

(***************************************************************************)
(* phase init-vms.                                                         *)
(***************************************************************************)
WantsJumpstart == ~Has("nodes-only")
WantsNodes == ~Has("jumpstart-only")

PreflightChecks ==
  /\ At("preflight") /\ UNCHANGED hostVars
  /\ \/ Fault /\ Return(FALSE)
     \/ /\ UNCHANGED faults
        /\ IF Has("recreate") THEN Goto("clean-query") ELSE Walk("net-check", Nets)

\* NetExists and NetIsActive take a failed query for "no".
SetupNetworks ==
  \/ /\ At("net-check") /\ NoMore /\ Untouched
     /\ Goto(IF WantsJumpstart THEN "jump-query" ELSE "node-query")
  \/ /\ At("net-check") /\ ~NoMore
     /\ LET status == net[Current] IN
        Query(CASE status = "absent" -> Goto("net-define")
                [] status = "inactive" -> Goto("net-start")
                [] OTHER -> Skip("net-check"),
              IF status = "absent" THEN Goto("net-define")
              ELSE Goto("net-define") \/ Goto("net-start"))
  \/ /\ At("net-define")
     /\ VirshNet("net-define", Current, Goto("net-start"), Return(FALSE))
  \/ /\ At("net-start")
     /\ VirshNet("net-start", Current, Skip("net-check"), Return(FALSE))

JumpstartDone == IF WantsNodes THEN Goto("node-query") ELSE Return(TRUE)

ExistingJumpstart ==
  \/ /\ At("jump-query")
     /\ Query(CASE ~Defined(Jumpstart) -> Goto("jump-disk")
                [] dom[Jumpstart] = "running" -> Goto("jump-ssh")
                [] OTHER -> Goto("jump-start"),
              Return(FALSE))
  \/ /\ At("jump-start")
     /\ Virsh("start", Jumpstart, Goto("jump-ssh"), Return(FALSE))
  \/ /\ At("jump-ssh") /\ Untouched
     /\ IF Reachable(Jumpstart) THEN JumpstartDone ELSE Return(FALSE)

\* Mutant: no check for an image that is already there.
DiskAssumed(v) == TRUE

DiskAvailable(v) == \A d \in DisksOf(v) : disk[d] = "none"
CreateDisks(v) ==
  /\ disk' = [d \in Disks |-> IF d \in DisksOf(v) THEN "blank" ELSE disk[d]]
  /\ UNCHANGED <<dom, memory, net, asked, faults>>

\* Before the disk: the ssh key, the password hash, the seed and the ISO.
NewJumpstart ==
  \/ /\ At("jump-disk")
     /\ \/ Fault /\ UNCHANGED hostVars /\ Return(FALSE)
        \/ cancelled /\ Untouched /\ Return(FALSE)
        \/ ~DiskAvailable(Jumpstart) /\ Untouched /\ Return(FALSE)
        \/ ~cancelled /\ DiskAvailable(Jumpstart)
             /\ CreateDisks(Jumpstart) /\ Goto("jump-install")
  \/ /\ At("jump-install")
     /\ VirtInstall(Jumpstart, Goto("jump-wait"), Return(FALSE))
  \/ /\ At("jump-wait") /\ Untouched \* virt-install --wait -1
     /\ \/ cancelled /\ Return(FALSE)
        \/ ~cancelled /\ dom[Jumpstart] = "shut off" /\ Goto("jump-boot")
  \/ /\ At("jump-boot") \* an error, or no ssh afterwards, is a warning
     /\ Virsh("start", Jumpstart, JumpstartDone, JumpstartDone)

DeployClientNodes ==
  \/ /\ At("node-query") /\ Query(WalkStates("node", Clients), Return(FALSE))
  \/ /\ At("node") /\ NoMore /\ Return(TRUE) /\ Untouched
  \/ /\ At("node") /\ ~NoMore
     /\ IF run.states[Current] # "absent" THEN Skip("node") /\ Untouched
        ELSE \/ ~DiskAvailable(Current) /\ Return(FALSE) /\ Untouched
             \/ cancelled /\ Return(FALSE) /\ Untouched
             \/ /\ ~cancelled /\ DiskAvailable(Current)
                /\ CreateDisks(Current) /\ Goto("node-install")

InstallClient ==
  At("node-install") /\ VirtInstall(Current, Skip("node"), Return(FALSE))

(***************************************************************************)
(* test failover.  The verdict of a scenario is only printed.              *)
(***************************************************************************)
\* Run looks at its context after each scenario but the skipped rest.
Verdict == IF cancelled THEN Return(FALSE) ELSE Skip("scenario")

TestFailover ==
  \/ /\ At("scenario") /\ NoMore /\ Return(~cancelled) /\ Untouched
  \/ /\ At("scenario") /\ ~NoMore
     /\ Virsh("shutdown", Current, Goto("off-yet"), Verdict)
  \/ /\ At("off-yet")
     /\ LET off == dom[Current] = "shut off" IN
        Query(IF off THEN Goto("restore") ELSE Goto("off-yet"), Verdict)
  \/ /\ At("restore")
     /\ IF Has("skip-restore") THEN Verdict /\ Untouched
        ELSE Virsh("start", Current, Verdict, Verdict)

\* Mutant: the scenario goes on although the VM is still up.
TimesOutOptimist ==
  /\ ~cancelled /\ Untouched /\ UNCHANGED <<cancelled, cmd>>
  /\ \/ At("wait") /\ IF Has("force") THEN Goto("force") ELSE Return(FALSE)
     \/ At("wait-batch") /\ Goto("force-batch")
     \/ At("off-yet") /\ dom[Current] # "shut off" /\ Goto("restore")

\* The deadlines of StopAllVMs, InstallByBatches and shutdownForTest.
TimesOut ==
  /\ ~cancelled /\ Untouched /\ UNCHANGED <<cancelled, cmd>>
  /\ \/ At("wait") /\ IF Has("force") THEN Goto("force") ELSE Return(FALSE)
     \/ At("wait-batch") /\ Goto("force-batch")
     \/ At("off-yet") /\ dom[Current] # "shut off" /\ Verdict

(***************************************************************************)
(* The specification.                                                      *)
(***************************************************************************)
Command ==
  /\ \/ StartAllVMs \/ Signal \/ PollStopped \/ WaitStopped \/ ForceOff
     \/ ShrinkVMRAM \/ BootBatch \/ ShutDownBatch \/ Joined
     \/ \E j \in run.jobs : Job(j)
     \/ RecreateFailedVMs \/ CleanupVMs \/ DestroyVM \/ UndefineVM
     \/ CleanupNetworks
     \/ PreflightChecks \/ SetupNetworks \/ ExistingJumpstart \/ NewJumpstart
     \/ DeployClientNodes \/ InstallClient \/ TestFailover
  /\ UNCHANGED <<cancelled, cmd>>

Guest(v) == Guests(v) /\ UNCHANGED <<cancelled, cmd, run>>
GoesOn(v) == (Installs(v) \/ Unpauses(v)) /\ UNCHANGED <<cancelled, cmd, run>>

Next ==
  \/ \E c \in Requests : Begin(c)
  \/ Command \/ TimesOut \/ Cancel \/ Killed
  \/ \E v \in VMs : Guest(v)

Spec == Init /\ [][Next]_vars

\* The steps of a command are not withheld and its deadlines pass, a guest
\* that can go on does, and the operator does not stop giving commands.
RecreateAll == [name |-> "init-vms", flags |-> {"recreate"}]
FairSpec ==
  /\ Spec /\ WF_vars(Command) /\ \A v \in VMs : WF_vars(GoesOn(v))
  /\ SF_vars(TimesOut) /\ WF_vars(\E c \in Requests : Begin(c))

(***************************************************************************)
(* Properties.                                                             *)
(***************************************************************************)
\* A registered domain has its disks: whatever call of a removal fails, and
\* whichever state its snapshot named, images go only after the domain.
DefinedHasDisks == \A v \in VMs : Defined(v) => \A d \in DisksOf(v) : disk[d] # "none"

\* What is on a disk is lost only to a removal: no creation, retried after
\* whatever was interrupted, overwrites it.
Removes == \/ cmd.name \in {"cleanup", "recreate-failed"}
           \/ cmd.name = "init-vms" /\ Has("recreate")
OnlyRemovalsDestroy ==
  [][\A d \in Disks : disk[d] = "data" /\ disk'[d] # "data" =>
       Removes /\ dom[d[1]] = "absent" /\ run.step \in {"remove", "remove-failed"}]_vars

\* A command that says it succeeded has done what it says.  `vm stop` without
\* --force: nothing is up, even if polls failed in between.
StopStops ==
  At("done") /\ run.ok /\ cmd.name = "stop" /\ ~Has("force") =>
    \A v \in VMs : ~IsUp(v)

\* `vm install-batches`: every VM has its final size, and no batch is begun
\* before every VM of the earlier ones has.
BatchesSized ==
  cmd.name = "install-batches" =>
    \A b \in DOMAIN Batches : \A k \in DOMAIN Batches[b] :
      run.batch > b \/ (At("done") /\ run.ok) => memory[Batches[b][k]] = "final"

\* `init-vms`: all it was asked for is registered, after whatever earlier
\* commands and interruptions left behind.
InitComplete ==
  At("done") /\ run.ok /\ cmd.name = "init-vms" =>
    /\ \A n \in Networks : net[n] \in {"active", "transient"}
    /\ WantsJumpstart => Defined(Jumpstart)
    /\ WantsNodes => \A k \in DOMAIN Clients : Defined(Clients[k])

\* The three together: errors of polls, goroutines and earlier commands are not
\* lost on the way to the exit status.
SuccessIsTrue == StopStops /\ BatchesSized /\ InitComplete

\* A failover is judged only while the VM is really off.
JudgedWhileOff == At("restore") => dom[Current] = "shut off"

\* An operator who in the end only repeats init-vms --recreate gets it through,
\* in whichever states other commands, faults and kills left the domains.
RecreateConverges ==
  <>[](cmd = RecreateAll) => []<>(At("done") /\ run.ok)

(***************************************************************************)
(* The inductive invariant of the disks: what the steps of a removal and   *)
(* of a creation know of the domain they work on.                          *)
(***************************************************************************)
Removing == {"clean", "undefine", "remove", "failed", "undefine-failed", "remove-failed"}
Creating == {"node", "node-install"}
OnOne == {"undefine", "remove", "undefine-failed", "remove-failed", "node-install"}

DomainsTyped ==
  /\ dom \in [VMs -> {"absent", "shut off", "running", "paused"}]
  /\ disk \in [Disks -> {"none", "blank", "setup", "data"}]
  /\ DOMAIN run = DOMAIN Finished(FALSE)

\* The loops over VMs, and the step that is at one of them.
VMsLeft ==
  /\ run.step \in Removing => run.todo \in Seq(VMs)
  /\ run.step \in Creating => run.todo \in Seq(VMs \ {Jumpstart})
  /\ run.step \in OnOne => run.todo # <<>>
  /\ run.step \in {"preflight", "clean-query"} => run.todo = <<>>

\* The snapshot a clean-up decides by: what was absent or off stays so.
SnapshotHolds ==
  run.step \in {"clean", "undefine", "remove"} /\ run.todo # <<>> =>
    \A v \in VMs :
      /\ run.states[v] = "absent" => dom[v] = "absent"
      /\ run.states[v] = "shut off" => dom[v] \in {"absent", "shut off"}

\* Off, then undefined, then its disks; disks, then the domain.
InOrder ==
  /\ run.step \in {"undefine", "undefine-failed"} => dom[Current] \in {"absent", "shut off"}
  /\ run.step \in {"remove", "remove-failed"} => ~Defined(Current)
  /\ run.step \in {"jump-disk", "jump-install"} => ~Defined(Jumpstart)
  /\ run.step = "jump-install" =>
       \A d \in DisksOf(Jumpstart) : disk[d] \notin {"none", "data"}
  /\ run.step = "node-install" => \A d \in DisksOf(Current) : disk[d] # "none"

RemovalAsked ==
  /\ run.step = "preflight" => cmd.name = "init-vms"
  /\ run.step \in {"clean-query", "clean", "undefine", "remove"} => Removes
  /\ run.step \in {"failed", "undefine-failed", "remove-failed"} => Removes

DisksInv == DomainsTyped /\ DefinedHasDisks /\ VMsLeft /\ SnapshotHolds /\ InOrder /\ RemovalAsked

\* What the chaos test knows of the VM it stops.
Judging == {"scenario", "off-yet", "restore"}
OneJudged ==
  /\ run.step \in Judging => run.todo \in Seq(VMs)
  /\ run.step \in {"off-yet", "restore"} => run.todo # <<>>
  /\ JudgedWhileOff
=============================================================================
