-------------------------- MODULE VmCommands_proofs --------------------------
(***************************************************************************)
(* A domain has its disks, nothing but a removal loses what is on one, a   *)
(* failover is judged while its VM is off, and a command that says it      *)
(* succeeded has done its work: for any VMs, batches, networks, sequence   *)
(* of commands and faults.  The values keep their types.                   *)
(*                                                                         *)
(* Most commands neither create nor remove (Ordinary): their calls keep    *)
(* Calm (DoneCalm) and lead to steps of which the invariant says nothing   *)
(* (PlainSteps, JudgeSteps).  The removals and creations follow one by one.*)
(* SuccessInv goes command by command: what each leaves behind when it     *)
(* goes on to its next step.  The types come last, for they rest on both.  *)
(***************************************************************************)
EXTENDS VmCommands, Flattening, TLAPS

States == {"absent", "shut off", "running", "paused"}
Contents == {"none", "blank", "setup", "data"}

\* The steps of which the invariant says something.
Watched == Removing \cup Creating \cup {"preflight", "clean-query", "jump-disk", "jump-install"}

\* What every call and guest but a creation or a removal leaves as it is.
Calm ==
  /\ dom' \in [VMs -> States] /\ disk' \in [Disks -> Contents]
  /\ \A v \in VMs : dom[v] = "absent" => dom'[v] = "absent"
  /\ \A d \in Disks : disk'[d] = "none" <=> disk[d] = "none"
  /\ \A d \in Disks : disk[d] = "data" => disk'[d] = "data"

\* What is off stays off, and its disks as they are.
Quiet ==
  /\ \A v \in VMs : dom[v] = "shut off" => dom'[v] = "shut off"
  /\ \A v \in VMs : dom[v] = "absent" => \A d \in DisksOf(v) : disk'[d] = disk[d]

Destroys ==
  \E d \in Disks : disk[d] = "data" /\ disk'[d] # "data" /\
    ~(Removes /\ dom[d[1]] = "absent" /\ run.step \in {"remove", "remove-failed"})

\* The nodes in the order deployClientNodes takes them, batch after batch.
LEMMA ClientsSeq ==
  /\ Clients \in Seq(STRING)
  /\ \A b \in DOMAIN Batches : Within(Batches[b], Clients)
  BY VMsAssumption, FlattenFacts DEF Clients

LEMMA ClientsTyped == Clients \in Seq(VMs \ {Jumpstart}) /\ StartOrder \in Seq(VMs) /\ Jumpstart \in VMs
  <1>1. Clients \in Seq(VMs \ {Jumpstart})
    <2>1. /\ Len(Clients) \in Nat /\ DOMAIN Clients = 1..Len(Clients)
          /\ Clients = [k \in DOMAIN Clients |-> Clients[k]]
      BY ClientsSeq
    <2>2. \A k \in DOMAIN Clients : Clients[k] \in VMs \ {Jumpstart}
      BY VMsAssumption DEF VMs
    <2>3. Clients \in [1..Len(Clients) -> VMs \ {Jumpstart}]
      BY <2>1, <2>2
    <2> QED BY <2>1, <2>3
  <1>2. Jumpstart \in VMs
    BY DEF VMs
  <1> QED BY <1>1, <1>2 DEF StartOrder

LEMMA DisksFacts ==
  \A v \in VMs : /\ <<v, "os">> \in DisksOf(v)
                 /\ \A d \in DisksOf(v) : d \in Disks /\ d[1] = v
                 /\ \A w \in VMs : w # v => DisksOf(v) \cap DisksOf(w) = {}
  BY DEF Disks, DisksOf

LEMMA InterruptedFacts ==
  ASSUME DomainsTyped, NEW v
  PROVE  /\ Interrupted(v) \in [Disks -> Contents]
         /\ \A d \in Disks : /\ Interrupted(v)[d] = "none" <=> disk[d] = "none"
                             /\ disk[d] = "data" => Interrupted(v)[d] = "data"
                             /\ d \notin DisksOf(v) => Interrupted(v)[d] = disk[d]
  BY DEF Interrupted, DomainsTyped, Contents

\* A virsh call that works.
Done(op, v) ==
  /\ Called(op, dom[v]) # "refused"
  /\ dom' = [dom EXCEPT ![v] = Called(op, dom[v])]
  /\ disk' = IF op = "destroy" THEN Interrupted(v) ELSE disk

LEMMA DoneCalm ==
  ASSUME DomainsTyped, NEW op, NEW v, Done(op, v)
  PROVE  Calm
  <1>1. ASSUME v \in VMs PROVE Called(op, dom[v]) \in States /\ (dom[v] = "absent" => FALSE)
    BY <1>1 DEF Done, Called, DomainsTyped, States
  <1>2. dom' \in [VMs -> States] /\ \A u \in VMs : dom[u] = "absent" => dom'[u] = "absent"
    BY <1>1 DEF Done, DomainsTyped, States
  <1>3. /\ disk' \in [Disks -> Contents]
        /\ \A d \in Disks : /\ disk'[d] = "none" <=> disk[d] = "none"
                            /\ disk[d] = "data" => disk'[d] = "data"
    BY InterruptedFacts DEF Done, DomainsTyped, Contents
  <1> QED BY <1>2, <1>3 DEF Calm

\* The domain a call is about, and the others.
LEMMA DoneFacts ==
  ASSUME DomainsTyped, NEW v \in VMs
  PROVE  /\ \A op : Done(op, v) => \A u \in VMs \ {v} : dom'[u] = dom[u]
         /\ Done("destroy", v) => dom'[v] = "shut off"
         /\ Done("undefine", v) /\ dom[v] \in {"absent", "shut off"} => dom'[v] = "absent"
         /\ Done("undefine", v) => disk' = disk
  BY DEF Done, Called, DomainsTyped

LEMMA StillCalm == DomainsTyped /\ UNCHANGED <<dom, disk>> => Calm /\ Quiet
  BY DEF DomainsTyped, Calm, Quiet, States, Contents

LEMMA GuestsQuiet ==
  ASSUME DomainsTyped, DefinedHasDisks, NEW v \in VMs, Guests(v)
  PROVE  Calm /\ Quiet
  <1> USE DEF DomainsTyped, States, Contents
  <1>1. CASE Installs(v)
    <2>1. dom[v] = "running" /\ disk[<<v, "os">>] \in {"setup", "blank"}
      BY <1>1 DEF Installs
    <2>2. dom' = [dom EXCEPT ![v] = IF v = Jumpstart THEN "shut off" ELSE @]
      BY <1>1 DEF Installs
    <2>3. disk' = [d \in Disks |-> IF d \in DisksOf(v) THEN "data" ELSE disk[d]]
      BY <1>1 DEF Installs
    <2>4. Calm
      BY <2>1, <2>2, <2>3, DisksFacts DEF Calm, DefinedHasDisks, Defined
    <2> QED BY <2>1, <2>2, <2>3, <2>4, DisksFacts DEF Quiet
  <1>2. CASE PowersOff(v) \/ Crashes(v)
    <2>1. dom[v] = "running" /\ dom' = [dom EXCEPT ![v] = "shut off"] /\ disk' = Interrupted(v)
      BY <1>2 DEF PowersOff, Crashes, Off
    <2> QED BY <2>1, InterruptedFacts, DisksFacts DEF Calm, Quiet
  <1>3. CASE Pauses(v) \/ Unpauses(v)
    BY <1>3 DEF Pauses, Unpauses, Calm, Quiet
  <1> QED BY <1>1, <1>2, <1>3 DEF Guests

Fields == {"step", "ok", "todo", "states", "targets", "batch", "jobs", "group", "errs"}

LEMMA FinishedFields == \A ok : DOMAIN Finished(ok) = Fields /\ Finished(ok).step = "done"
  BY DEF Finished, Fields

\* How a step leaves the command.
LEMMA RunFacts ==
  ASSUME DomainsTyped
  PROVE  /\ \A s : Goto(s) => /\ DOMAIN run' = DOMAIN run /\ run'.step = s
                              /\ run'.todo = run.todo /\ run'.states = run.states
         /\ \A s, q : Walk(s, q) => /\ DOMAIN run' = DOMAIN run /\ run'.step = s
                                    /\ run'.todo = q /\ run'.states = run.states
         /\ \A s, q : WalkStates(s, q) => /\ DOMAIN run' = DOMAIN run /\ run'.step = s
                                          /\ run'.todo = q /\ run'.states = dom
         /\ \A s : Skip(s) => /\ DOMAIN run' = DOMAIN run /\ run'.step = s
                              /\ run'.todo = Tail(run.todo) /\ run'.states = run.states
         /\ \A s : SkipFailed(s) => /\ DOMAIN run' = DOMAIN run /\ run'.step = s
                                    /\ run'.todo = Tail(run.todo) /\ run'.states = run.states
         /\ \A ok : Return(ok) => DOMAIN run' = DOMAIN run /\ run'.step = "done"
  <1>1. DOMAIN run = Fields
    BY FinishedFields DEF DomainsTyped
  <1> USE <1>1
  <1>2. \A s : Goto(s) => /\ DOMAIN run' = DOMAIN run /\ run'.step = s
                          /\ run'.todo = run.todo /\ run'.states = run.states
    BY DEF Goto, Fields
  <1>3. \A s, q : Walk(s, q) => /\ DOMAIN run' = DOMAIN run /\ run'.step = s
                                /\ run'.todo = q /\ run'.states = run.states
    BY DEF Walk, Fields
  <1>4. \A s, q : WalkStates(s, q) => /\ DOMAIN run' = DOMAIN run /\ run'.step = s
                                      /\ run'.todo = q /\ run'.states = dom
    BY DEF WalkStates, Fields
  <1>5. \A s : Skip(s) => /\ DOMAIN run' = DOMAIN run /\ run'.step = s
                          /\ run'.todo = Tail(run.todo) /\ run'.states = run.states
    BY <1>3 DEF Skip
  <1>6. \A s : SkipFailed(s) => /\ DOMAIN run' = DOMAIN run /\ run'.step = s
                                /\ run'.todo = Tail(run.todo) /\ run'.states = run.states
    BY DEF SkipFailed, Fields
  <1>7. \A ok : Return(ok) => DOMAIN run' = DOMAIN run /\ run'.step = "done"
    BY FinishedFields DEF Return
  <1> QED BY <1>2, <1>3, <1>4, <1>5, <1>6, <1>7

\* A step of a part of a command that neither creates nor removes.
Elsewhere == Calm /\ DOMAIN run' = DOMAIN run /\ run'.step \notin Watched

LEMMA ElsewhereKeeps ==
  ASSUME DisksInv, Elsewhere PROVE DisksInv' /\ ~Destroys
  <1>1. DomainsTyped'
    BY DEF Elsewhere, Calm, DisksInv, DomainsTyped, States, Contents, Finished
  <1>2. DefinedHasDisks'
    BY DisksFacts DEF Elsewhere, Calm, DisksInv, DefinedHasDisks, Defined
  <1>3. VMsLeft' /\ SnapshotHolds' /\ InOrder' /\ RemovalAsked'
    BY DEF Elsewhere, Watched, Removing, Creating, OnOne, VMsLeft, SnapshotHolds, InOrder,
           RemovalAsked, Current
  <1>4. ~Destroys
    BY DEF Elsewhere, Calm, Destroys
  <1> QED BY <1>1, <1>2, <1>3, <1>4 DEF DisksInv


\* The parts of the commands that neither create nor remove, and their steps.
Judges == TestFailover \/ (At("off-yet") /\ TimesOut)
Plainly ==
  \/ StartAllVMs \/ Signal \/ PollStopped \/ WaitStopped \/ ForceOff
  \/ ShrinkVMRAM \/ BootBatch \/ ShutDownBatch \/ Joined
  \/ \E j \in run.jobs : Job(j)
  \/ CleanupNetworks \/ SetupNetworks \/ (~At("off-yet") /\ TimesOut) \/ Killed
Ordinary == Plainly \/ Judges

Plain == {"done", "boot", "stagger", "signal", "shutdown", "poll", "wait",
          "force", "resize", "setmem", "boot-batch", "wg", "query", "down-query",
          "down", "poll-batch", "wait-batch", "force-batch", "nets",
          "net-destroy", "net-undefine", "net-check", "net-define", "net-start",
          "jump-query", "node-query"}

LEMMA OrdinaryCalm == ASSUME DomainsTyped, Ordinary PROVE Calm
  <1>1. \A op, v : Done(op, v) => Calm
    BY DoneCalm
  <1>2. UNCHANGED dom /\ UNCHANGED disk => Calm
    BY StillCalm
  <1> USE <1>1, <1>2 DEF Done, Virsh, Query, Untouched, hostVars
  <1>3. CASE StartAllVMs
    BY <1>3 DEF StartAllVMs
  <1>4. CASE Signal \/ PollStopped \/ WaitStopped \/ ForceOff
    BY <1>4 DEF Signal, PollStopped, WaitStopped, ForceOff
  <1>5. CASE ShrinkVMRAM
    BY <1>5 DEF ShrinkVMRAM
  <1>6. CASE BootBatch \/ Joined
    BY <1>6 DEF BootBatch, Joined
  <1>7. CASE ShutDownBatch
    BY <1>7 DEF ShutDownBatch
  <1>8. ASSUME NEW j \in run.jobs, Job(j) PROVE Calm
    BY <1>8 DEF Job
  <1>9. CASE CleanupNetworks \/ SetupNetworks
    BY <1>9 DEF CleanupNetworks, SetupNetworks, VirshNet
  <1>10. CASE TestFailover
    BY <1>10 DEF TestFailover
  <1>11. CASE TimesOut \/ Killed
    BY <1>11 DEF TimesOut, Killed
  <1> QED BY <1>3, <1>4, <1>5, <1>6, <1>7, <1>8, <1>9, <1>10, <1>11 DEF Ordinary, Plainly, Judges


LEMMA PlainSteps ==
  ASSUME DomainsTyped, Plainly PROVE DOMAIN run' = DOMAIN run /\ run'.step \in Plain
  <1> DEFINE Away == DOMAIN run' = DOMAIN run /\ run'.step \in Plain
  <1>1. /\ \A s : s \in Plain /\ Goto(s) => Away
        /\ \A s, q : s \in Plain /\ Walk(s, q) => Away
        /\ \A s, q : s \in Plain /\ WalkStates(s, q) => Away
        /\ \A s : s \in Plain /\ Skip(s) => Away
        /\ \A s : s \in Plain /\ SkipFailed(s) => Away
        /\ \A ok : Return(ok) => Away
    BY RunFacts DEF Plain
  <1>2. DOMAIN run = Fields
    BY FinishedFields DEF DomainsTyped
  <1>3. \A s : s \in Plain /\ run' = [run EXCEPT !.step = s] => Away
    BY <1>2 DEF Fields
  <1>4. \A call : Spawn(call) => Away
    BY <1>2 DEF Spawn, Fields, Plain
  <1>5. \A j, call : /\ JobEnds(j, TRUE) => DOMAIN run' = DOMAIN run /\ run'.step = run.step
                     /\ JobEnds(j, FALSE) => DOMAIN run' = DOMAIN run /\ run'.step = run.step
                     /\ JobEnds(j, ~Reachable(j[1])) => DOMAIN run' = DOMAIN run /\ run'.step = run.step
                     /\ JobGoesOn(j, call) => DOMAIN run' = DOMAIN run /\ run'.step = run.step
    BY <1>2 DEF JobEnds, JobGoesOn, Fields
  <1>6. /\ "done" \in Plain /\ "boot" \in Plain /\ "stagger" \in Plain /\ "signal" \in Plain
        /\ "shutdown" \in Plain /\ "poll" \in Plain /\ "wait" \in Plain /\ "force" \in Plain
        /\ "resize" \in Plain /\ "setmem" \in Plain /\ "boot-batch" \in Plain
        /\ "wg" \in Plain /\ "query" \in Plain /\ "down-query" \in Plain /\ "down" \in Plain
        /\ "poll-batch" \in Plain /\ "wait-batch" \in Plain /\ "force-batch" \in Plain
        /\ "nets" \in Plain /\ "net-destroy" \in Plain /\ "net-undefine" \in Plain
        /\ "net-check" \in Plain /\ "net-define" \in Plain /\ "net-start" \in Plain
        /\ "jump-query" \in Plain /\ "node-query" \in Plain
    BY DEF Plain
  <1> SUFFICES Away
    OBVIOUS
  <1> HIDE DEF Away
  <1> USE <1>1, <1>6 DEF Virsh, Query
  <1>7. CASE StartAllVMs
    BY <1>7 DEF StartAllVMs
  <1>8. CASE Signal
    BY <1>8 DEF Signal
  <1>9. CASE PollStopped \/ WaitStopped \/ ForceOff
    BY <1>9 DEF PollStopped, WaitStopped, ForceOff
  <1>10. CASE ShrinkVMRAM
    BY <1>10 DEF ShrinkVMRAM
  <1>11. CASE BootBatch
    BY <1>11, <1>4 DEF BootBatch
  <1>12. CASE Joined
    <2>1. run' = [run EXCEPT !.step = "query", !.batch = @ + 1] => Away
      BY <1>2 DEF Away, Fields
    <2> QED BY <1>12, <2>1, <1>4 DEF Joined
  <1>13. CASE ShutDownBatch
    <2>1. ASSUME NEW q, NEW s, s \in Plain
          PROVE  /\ run' = [run EXCEPT !.step = s, !.targets = q] => Away
                 /\ run' = [run EXCEPT !.targets = q, !.todo = q, !.errs = FALSE, !.step = s] => Away
      BY <1>2, <2>1 DEF Away, Fields
    <2> QED BY <1>13, <2>1, <1>4 DEF ShutDownBatch
  <1>14. ASSUME NEW j \in run.jobs, Job(j) PROVE Away
    <2>1. run.step = "wg"
      BY <1>14 DEF Job, At
    <2> QED BY <1>14, <2>1, <1>5 DEF Job, Away
  <1>15. CASE CleanupNetworks \/ SetupNetworks
    BY <1>15 DEF CleanupNetworks, SetupNetworks, VirshNet
  <1>16. CASE (~At("off-yet") /\ TimesOut) \/ Killed
    BY <1>16 DEF TimesOut, Killed, At
  <1> QED BY <1>7, <1>8, <1>9, <1>10, <1>11, <1>12, <1>13, <1>14, <1>15, <1>16
          DEF Plainly


LEMMA JudgeSteps ==
  ASSUME DomainsTyped, Judges PROVE DOMAIN run' = DOMAIN run /\ run'.step \in Judging \cup {"done"}
  <1>1. /\ \A s : s \in Judging /\ (Goto(s) \/ Skip(s)) =>
             DOMAIN run' = DOMAIN run /\ run'.step \in Judging
        /\ \A ok : Return(ok) => DOMAIN run' = DOMAIN run /\ run'.step = "done"
    BY RunFacts
  <1>2. "scenario" \in Judging /\ "off-yet" \in Judging /\ "restore" \in Judging
    BY DEF Judging
  <1> QED BY <1>1, <1>2 DEF Judges, TestFailover, TimesOut, Verdict, Virsh, Query, At

LEMMA OrdinaryElsewhere == ASSUME DomainsTyped, Ordinary PROVE Elsewhere
  <1>1. DOMAIN run' = DOMAIN run /\ run'.step \in Plain \cup Judging
    BY PlainSteps, JudgeSteps DEF Ordinary, Plain
  <1>2. run'.step \notin Watched
    BY <1>1 DEF Plain, Judging, Watched, Removing, Creating
  <1> QED BY <1>1, <1>2, OrdinaryCalm DEF Elsewhere

LEMMA HeadTail ==
  /\ \A q \in Seq(VMs) : q # <<>> => Head(q) \in VMs /\ Tail(q) \in Seq(VMs)
  /\ \A q \in Seq(VMs \ {Jumpstart}) :
       q # <<>> => Head(q) \in VMs /\ Head(q) # Jumpstart /\ Tail(q) \in Seq(VMs \ {Jumpstart})
  <1>1. \A S : \A q \in Seq(S) : q # <<>> => Head(q) \in S /\ Tail(q) \in Seq(S)
    OBVIOUS
  <1> QED BY <1>1

\* The VM a step is at.
LEMMA CurrentFacts ==
  ASSUME VMsLeft
  PROVE  /\ run.step \in OnOne => Current \in VMs
         /\ run.step \in Removing /\ ~NoMore => Current \in VMs /\ Tail(run.todo) \in Seq(VMs)
         /\ run.step \in Creating /\ ~NoMore =>
              Current \in VMs /\ Current # Jumpstart /\ Tail(run.todo) \in Seq(VMs \ {Jumpstart})
  BY HeadTail DEF VMsLeft, OnOne, Removing, Creating, Current, NoMore

LEMMA QuietKeeps ==
  ASSUME DisksInv, Calm, Quiet, UNCHANGED <<cmd, run>>
  PROVE  DisksInv' /\ ~Destroys
  <1> USE DEF DisksInv, DomainsTyped
  <1>1. DomainsTyped'
    BY DEF Calm, States, Contents, Finished
  <1>2. DefinedHasDisks'
    BY DisksFacts DEF Calm, DefinedHasDisks, Defined
  <1>3. run.step \in OnOne => Current \in VMs
    BY CurrentFacts
  <1>4. VMsLeft' /\ RemovalAsked'
    BY DEF VMsLeft, RemovalAsked, Removes, Has
  <1>5. SnapshotHolds'
    BY DEF SnapshotHolds, Calm, Quiet
  <1>6. run.step \in OnOne => Current' = Current
    BY DEF Current
  <1>7. InOrder'
    <2> USE DEF Calm, Quiet, InOrder, OnOne, Defined
    <2>1. (run.step \in {"undefine", "undefine-failed"} => dom[Current] \in {"absent", "shut off"})'
      BY <1>3, <1>6
    <2>2. (run.step \in {"remove", "remove-failed"} => ~Defined(Current))'
      BY <1>3, <1>6
    <2>3. (run.step \in {"jump-disk", "jump-install"} => ~Defined(Jumpstart))'
      BY ClientsTyped
    <2>4. (run.step = "jump-install" =>
            \A d \in DisksOf(Jumpstart) : disk[d] \notin {"none", "data"})'
      <3>1. SUFFICES ASSUME run.step = "jump-install", NEW d \in DisksOf(Jumpstart)
                     PROVE  disk'[d] \notin {"none", "data"}
        OBVIOUS
      <3>2. disk'[d] = disk[d]
        BY <3>1, ClientsTyped
      <3> QED BY <3>1, <3>2
    <2>5. (run.step = "node-install" => \A d \in DisksOf(Current) : disk[d] # "none")'
      BY <1>3, <1>6, DisksFacts
    <2> QED BY <2>1, <2>2, <2>3, <2>4, <2>5
  <1>8. ~Destroys
    BY DEF Calm, Destroys
  <1> QED BY <1>1, <1>2, <1>4, <1>5, <1>7, <1>8

\* A step that changes no domain and no disk.
LEMMA ReadKeeps ==
  ASSUME DisksInv, UNCHANGED <<dom, disk>>, DOMAIN run' = DOMAIN run,
         VMsLeft', SnapshotHolds', InOrder', RemovalAsked'
  PROVE  DisksInv' /\ ~Destroys
  <1>1. DomainsTyped'
    BY DEF DisksInv, DomainsTyped, Finished
  <1>2. DefinedHasDisks'
    BY DEF DisksInv, DefinedHasDisks, Defined
  <1>3. ~Destroys
    BY DEF Destroys
  <1> QED BY <1>1, <1>2, <1>3 DEF DisksInv

LEMMA BeginKeeps ==
  ASSUME DisksInv, NEW c \in Requests, Begin(c) PROVE DisksInv' /\ ~Destroys
  <1>1. dom' = dom /\ disk' = disk /\ cmd' = c
    BY DEF Begin, Untouched
  <1>2. DOMAIN run' = Fields /\ run'.step = FirstStep(c)
    BY DEF Begin, Finished, Fields
  <1>3. run'.step \in {"preflight", "clean-query"} => run'.todo = <<>>
    BY DEF Begin, Finished, FirstStep
  <1>4. run'.step \in {"preflight", "clean-query", "scenario", "wg", "query"}
    BY <1>2 DEF FirstStep
  <1>5. VMsLeft' /\ SnapshotHolds' /\ InOrder'
    BY <1>3, <1>4 DEF VMsLeft, Removing, Creating, OnOne, SnapshotHolds, InOrder
  <1>6. RemovalAsked'
    BY <1>1, <1>2, <1>4 DEF RemovalAsked, Removes, FirstStep
  <1>7. DOMAIN run' = DOMAIN run
    BY <1>2, FinishedFields DEF DisksInv, DomainsTyped
  <1> QED BY <1>1, <1>5, <1>6, <1>7, ReadKeeps


\* A step that creates and removes nothing.
LEMMA CalmKeeps ==
  ASSUME DisksInv, Calm, DOMAIN run' = DOMAIN run,
         VMsLeft', SnapshotHolds', InOrder', RemovalAsked'
  PROVE  DisksInv' /\ ~Destroys
  <1>1. DomainsTyped'
    BY DEF DisksInv, DomainsTyped, Calm, States, Contents, Finished
  <1>2. DefinedHasDisks'
    BY DisksFacts DEF DisksInv, Calm, DefinedHasDisks, Defined
  <1>3. ~Destroys
    BY DEF Calm, Destroys
  <1> QED BY <1>1, <1>2, <1>3 DEF DisksInv

LEMMA CleanupKeeps ==
  ASSUME DisksInv, CleanupVMs, UNCHANGED cmd PROVE DisksInv' /\ ~Destroys
  <1> USE DEF DisksInv, At
  <1>1. dom' = dom /\ disk' = disk
    BY DEF CleanupVMs, Query, Untouched, hostVars
  <1>2. CASE run'.step \notin Watched /\ DOMAIN run' = DOMAIN run
    BY <1>1, <1>2, StillCalm, ElsewhereKeeps DEF Elsewhere
  <1>3. CASE At("clean-query") /\ WalkStates("clean", StartOrder)
    <2>1. /\ DOMAIN run' = DOMAIN run /\ run'.step = "clean"
          /\ run'.todo = StartOrder /\ run'.states = dom
      BY <1>3, RunFacts
    <2>2. VMsLeft' /\ InOrder' /\ RemovalAsked'
      BY <1>3, <2>1, ClientsTyped
         DEF VMsLeft, Removing, Creating, OnOne, InOrder, RemovalAsked, Removes, Has
    <2>3. SnapshotHolds'
      BY <1>1, <2>1 DEF SnapshotHolds
    <2> QED BY <1>1, <2>1, <2>2, <2>3, ReadKeeps
  <1>4. CASE At("clean-query") /\ run' = [run EXCEPT !.step = "clean", !.errs = TRUE]
    <2>1. DOMAIN run' = DOMAIN run /\ run'.step = "clean" /\ run'.todo = run.todo
      BY <1>4, FinishedFields DEF DomainsTyped, Fields
    <2>2. run.todo = <<>> /\ Removes
      BY <1>4 DEF VMsLeft, RemovalAsked
    <2>3. VMsLeft' /\ SnapshotHolds'
      BY <2>1, <2>2 DEF VMsLeft, Removing, Creating, OnOne, SnapshotHolds
    <2>4. InOrder' /\ RemovalAsked'
      BY <2>1, <2>2 DEF InOrder, RemovalAsked, Removes, Has
    <2> QED BY <1>1, <2>1, <2>3, <2>4, ReadKeeps
  <1>5. ASSUME NEW ok, ToNets \/ Return(ok) PROVE run'.step \notin Watched /\ DOMAIN run' = DOMAIN run
    <2>0. DOMAIN run = Fields
      BY FinishedFields DEF DomainsTyped
    <2>1. ToNets => DOMAIN run' = DOMAIN run /\ run'.step = "nets"
      BY <2>0 DEF ToNets, Fields
    <2> QED BY <1>5, <2>1, RunFacts DEF Watched, Removing, Creating
  <1> QED BY <1>2, <1>3, <1>4, <1>5 DEF CleanupVMs, Query

LEMMA DestroyKeeps ==
  ASSUME DisksInv, UNCHANGED cmd, At("clean"), ~NoMore,
         CASE run.states[Current] = "absent" -> Goto("remove") /\ Untouched
           [] run.states[Current] = "shut off" -> Goto("undefine") /\ Untouched
           [] OTHER -> Virsh("destroy", Current, Goto("undefine"), SkipFailed("clean"))
  PROVE  DisksInv' /\ ~Destroys
  <1> USE DEF DisksInv, At
  <1>1. run.step = "clean" /\ run.todo # <<>> /\ Removes /\ Current \in VMs /\ Tail(run.todo) \in Seq(VMs)
    BY CurrentFacts DEF NoMore, Removing, RemovalAsked
  <1>2. CASE UNCHANGED <<dom, disk>> /\ Goto("remove") /\ run.states[Current] = "absent"
    <2>1. DOMAIN run' = DOMAIN run /\ run'.step = "remove" /\ run'.todo = run.todo /\ run'.states = run.states
      BY <1>2, RunFacts
    <2>2. dom[Current] = "absent"
      BY <1>1, <1>2 DEF SnapshotHolds
    <2>3. VMsLeft' /\ InOrder' /\ RemovalAsked' /\ SnapshotHolds'
      BY <1>1, <1>2, <2>1, <2>2
         DEF VMsLeft, Removing, Creating, OnOne, InOrder, RemovalAsked, Removes, Has, SnapshotHolds,
             Current, Defined
    <2> QED BY <1>2, <2>1, <2>3, ReadKeeps
  <1>3. CASE UNCHANGED <<dom, disk>> /\ Goto("undefine") /\ run.states[Current] = "shut off"
    <2>1. DOMAIN run' = DOMAIN run /\ run'.step = "undefine" /\ run'.todo = run.todo /\ run'.states = run.states
      BY <1>3, RunFacts
    <2>2. dom[Current] \in {"absent", "shut off"}
      BY <1>1, <1>3 DEF SnapshotHolds
    <2>3. VMsLeft' /\ InOrder' /\ RemovalAsked' /\ SnapshotHolds'
      BY <1>1, <1>3, <2>1, <2>2
         DEF VMsLeft, Removing, Creating, OnOne, InOrder, RemovalAsked, Removes, Has, SnapshotHolds,
             Current, Defined
    <2> QED BY <1>3, <2>1, <2>3, ReadKeeps
  <1>4. CASE UNCHANGED <<dom, disk>> /\ SkipFailed("clean")
    <2>1. /\ DOMAIN run' = DOMAIN run /\ run'.step = "clean" /\ run'.todo = Tail(run.todo)
          /\ run'.states = run.states
      BY <1>4, RunFacts
    <2>2. VMsLeft' /\ InOrder' /\ RemovalAsked' /\ SnapshotHolds'
      BY <1>1, <1>4, <2>1
         DEF VMsLeft, Removing, Creating, OnOne, InOrder, RemovalAsked, Removes, Has, SnapshotHolds
    <2> QED BY <1>4, <2>1, <2>2, ReadKeeps
  <1>5. CASE /\ Done("destroy", Current) /\ Goto("undefine")
             /\ run.states[Current] \notin {"absent", "shut off"}
    <2>1. DOMAIN run' = DOMAIN run /\ run'.step = "undefine" /\ run'.todo = run.todo /\ run'.states = run.states
      BY <1>5, RunFacts
    <2>2. Calm
      BY <1>5, DoneCalm
    <2>3. dom'[Current] = "shut off" /\ \A u \in VMs \ {Current} : dom'[u] = dom[u]
      BY <1>1, <1>5, DoneFacts
    <2>4. SnapshotHolds'
      BY <1>1, <1>5, <2>1, <2>3 DEF SnapshotHolds
    <2>5. VMsLeft' /\ InOrder' /\ RemovalAsked'
      BY <1>1, <2>1, <2>3
         DEF VMsLeft, Removing, Creating, OnOne, InOrder, RemovalAsked, Removes, Has, Current
    <2> QED BY <2>1, <2>2, <2>4, <2>5, CalmKeeps
  <1> QED BY <1>2, <1>3, <1>4, <1>5 DEF Virsh, Done, Untouched, hostVars


\* The disks of an undefined domain go, all or some of them.
LEMMA RemoveFacts ==
  ASSUME DisksInv, NEW v \in VMs, dom[v] = "absent", RemoveDisks(v) \/ RemoveFails(v)
  PROVE  /\ dom' = dom /\ DefinedHasDisks'
         /\ disk' \in [Disks -> Contents]
         /\ \A d \in Disks : disk'[d] # disk[d] => dom[d[1]] = "absent"
  <1>1. PICK D \in SUBSET DisksOf(v) : disk' = [d \in Disks |-> IF d \in D THEN "none" ELSE disk[d]]
    BY DEF RemoveDisks, RemoveFails
  <1>2. dom' = dom
    BY DEF RemoveDisks, RemoveFails
  <1>3. \A u \in VMs \ {v} : \A d \in DisksOf(u) : d \in Disks /\ disk'[d] = disk[d]
    BY <1>1, DisksFacts
  <1>4. DefinedHasDisks'
    BY <1>2, <1>3 DEF DisksInv, DefinedHasDisks, Defined
  <1>5. disk' \in [Disks -> Contents]
    BY <1>1 DEF DisksInv, DomainsTyped, Contents
  <1>6. \A d \in Disks : disk'[d] # disk[d] => dom[d[1]] = "absent"
    BY <1>1, DisksFacts
  <1> QED BY <1>2, <1>4, <1>5, <1>6

LEMMA RemoveKeeps ==
  ASSUME DisksInv, NEW v \in VMs, dom[v] = "absent", RemoveDisks(v) \/ RemoveFails(v),
         Removes, run.step \in {"remove", "remove-failed"}, DOMAIN run' = DOMAIN run,
         VMsLeft', SnapshotHolds', InOrder', RemovalAsked'
  PROVE  DisksInv' /\ ~Destroys
  <1>1. DomainsTyped'
    BY RemoveFacts DEF DisksInv, DomainsTyped, Contents, Finished
  <1>2. ~Destroys
    BY RemoveFacts DEF Destroys
  <1> QED BY <1>1, <1>2, RemoveFacts DEF DisksInv

LEMMA CleanKeeps ==
  ASSUME DisksInv, UNCHANGED cmd, DestroyVM \/ UndefineVM PROVE DisksInv' /\ ~Destroys
  <1> USE DEF DisksInv, At
  <1>1. CASE At("clean")
    <2>1. \/ DisksInv' /\ ~Destroys
          \/ At("clean") /\ ~NoMore /\
             CASE run.states[Current] = "absent" -> Goto("remove") /\ Untouched
               [] run.states[Current] = "shut off" -> Goto("undefine") /\ Untouched
               [] OTHER -> Virsh("destroy", Current, Goto("undefine"), SkipFailed("clean"))
      BY <1>1 DEF DestroyVM, UndefineVM
    <2> QED BY <2>1, DestroyKeeps
  <1>2. CASE run.step \in {"undefine", "remove"}
    <2>1. /\ run.todo # <<>> /\ Removes /\ Current \in VMs
          /\ Tail(run.todo) \in Seq(VMs)
      BY <1>2, CurrentFacts DEF Removing, OnOne, RemovalAsked, VMsLeft, NoMore
    <2>2. CASE run.step = "remove"
      <3>1. /\ Skip("clean") \/ SkipFailed("clean")
            /\ RemoveDisks(Current) \/ RemoveFails(Current)
            /\ dom[Current] = "absent" /\ dom' = dom
        BY <2>2 DEF DestroyVM, UndefineVM, InOrder, Defined, RemoveDisks, RemoveFails
      <3>2. /\ DOMAIN run' = DOMAIN run /\ run'.step = "clean" /\ run'.todo = Tail(run.todo)
            /\ run'.states = run.states
        BY <3>1, RunFacts
      <3>3. VMsLeft' /\ InOrder' /\ RemovalAsked' /\ SnapshotHolds'
        BY <2>1, <2>2, <3>1, <3>2
           DEF VMsLeft, Removing, Creating, OnOne, InOrder, RemovalAsked, Removes, Has, SnapshotHolds
      <3> QED BY <2>1, <2>2, <3>1, <3>2, <3>3, RemoveKeeps
    <2>3. CASE /\ run.step = "undefine" /\ UNCHANGED <<dom, disk>> /\ SkipFailed("clean")
      <3>1. /\ DOMAIN run' = DOMAIN run /\ run'.step = "clean" /\ run'.todo = Tail(run.todo)
            /\ run'.states = run.states
        BY <2>3, RunFacts
      <3>2. VMsLeft' /\ InOrder' /\ RemovalAsked' /\ SnapshotHolds'
        BY <2>1, <2>3, <3>1
           DEF VMsLeft, Removing, Creating, OnOne, InOrder, RemovalAsked, Removes, Has, SnapshotHolds
      <3> QED BY <2>3, <3>1, <3>2, ReadKeeps
    <2>4. CASE run.step = "undefine" /\ Done("undefine", Current) /\ Goto("remove")
      <3>1. /\ DOMAIN run' = DOMAIN run /\ run'.step = "remove" /\ run'.todo = run.todo
            /\ run'.states = run.states
        BY <2>4, RunFacts
      <3>2. dom[Current] \in {"absent", "shut off"}
        BY <2>4 DEF InOrder
      <3>3. dom'[Current] = "absent" /\ \A u \in VMs \ {Current} : dom'[u] = dom[u]
        BY <2>1, <2>4, <3>2, DoneFacts
      <3>4. SnapshotHolds'
        BY <2>1, <2>4, <3>1, <3>3 DEF SnapshotHolds
      <3>5. VMsLeft' /\ InOrder' /\ RemovalAsked'
        BY <2>1, <2>4, <3>1, <3>3
           DEF VMsLeft, Removing, Creating, OnOne, InOrder, RemovalAsked, Removes, Has, Current, Defined
      <3>6. Calm
        BY <2>4, DoneCalm
      <3> QED BY <3>1, <3>4, <3>5, <3>6, CalmKeeps
    <2> QED BY <1>2, <2>2, <2>3, <2>4 DEF DestroyVM, UndefineVM, Virsh, Done, hostVars
  <1> QED BY <1>1, <1>2 DEF DestroyVM, UndefineVM


LEMMA RecreateKeeps ==
  ASSUME DisksInv, UNCHANGED cmd, RecreateFailedVMs PROVE DisksInv' /\ ~Destroys
  <1> USE DEF DisksInv, At
  <1>1. CASE At("query")
    <2>1. UNCHANGED <<dom, disk>> /\ cmd.name = "recreate-failed"
      BY <1>1 DEF RecreateFailedVMs, Query, hostVars
    <2>2. CASE WalkStates("failed", Clients)
      <3>1. DOMAIN run' = DOMAIN run /\ run'.step = "failed" /\ run'.todo = Clients
        BY <2>2, RunFacts
      <3>2. Clients \in Seq(VMs)
        BY ClientsTyped
      <3>3. VMsLeft' /\ InOrder' /\ RemovalAsked' /\ SnapshotHolds'
        BY <2>1, <3>1, <3>2
           DEF VMsLeft, Removing, Creating, OnOne, InOrder, RemovalAsked, Removes, Has, SnapshotHolds
      <3> QED BY <2>1, <3>1, <3>3, ReadKeeps
    <2>3. CASE Return(FALSE)
      BY <2>1, <2>3, StillCalm, RunFacts, ElsewhereKeeps DEF Elsewhere, Watched, Removing, Creating
    <2> QED BY <1>1, <2>2, <2>3 DEF RecreateFailedVMs, Query
  <1>2. CASE run.step \in {"failed", "undefine-failed", "remove-failed"} /\ ~NoMore
    <2>1. Removes /\ Current \in VMs /\ Tail(run.todo) \in Seq(VMs) /\ run.todo \in Seq(VMs) /\ run.todo # <<>>
      BY <1>2, CurrentFacts DEF Removing, RemovalAsked, VMsLeft, NoMore
    <2>2. ASSUME Skip("failed") \/ SkipFailed("failed")
          PROVE  DOMAIN run' = DOMAIN run /\ VMsLeft' /\ SnapshotHolds' /\ InOrder' /\ RemovalAsked'
      <3>1. DOMAIN run' = DOMAIN run /\ run'.step = "failed" /\ run'.todo = Tail(run.todo)
        BY <2>2, RunFacts
      <3> QED BY <2>1, <3>1
              DEF VMsLeft, Removing, Creating, OnOne, InOrder, RemovalAsked, Removes, Has, SnapshotHolds
    <2>3. CASE UNCHANGED <<dom, disk>> /\ (Skip("failed") \/ SkipFailed("failed"))
      BY <2>2, <2>3, ReadKeeps
    <2>4. CASE run.step = "failed" /\ Done("destroy", Current) /\ Goto("undefine-failed")
      <3>1. DOMAIN run' = DOMAIN run /\ run'.step = "undefine-failed" /\ run'.todo = run.todo
        BY <2>4, RunFacts
      <3>2. dom'[Current] = "shut off"
        BY <2>1, <2>4, DoneFacts
      <3>3. VMsLeft' /\ SnapshotHolds' /\ InOrder' /\ RemovalAsked'
        BY <2>1, <3>1, <3>2
           DEF VMsLeft, Removing, Creating, OnOne, InOrder, RemovalAsked, Removes, Has, SnapshotHolds, Current
      <3> QED BY <2>4, <3>1, <3>3, DoneCalm, CalmKeeps
    <2>5. CASE run.step = "undefine-failed" /\ Done("undefine", Current) /\ Goto("remove-failed")
      <3>1. DOMAIN run' = DOMAIN run /\ run'.step = "remove-failed" /\ run'.todo = run.todo
        BY <2>5, RunFacts
      <3>2. dom[Current] \in {"absent", "shut off"}
        BY <2>5 DEF InOrder
      <3>3. dom'[Current] = "absent"
        BY <2>1, <2>5, <3>2, DoneFacts
      <3>4. VMsLeft' /\ SnapshotHolds' /\ InOrder' /\ RemovalAsked'
        BY <2>1, <3>1, <3>3
           DEF VMsLeft, Removing, Creating, OnOne, InOrder, RemovalAsked, Removes, Has, SnapshotHolds,
               Current, Defined
      <3> QED BY <2>5, <3>1, <3>4, DoneCalm, CalmKeeps
    <2>6. CASE /\ run.step = "remove-failed" /\ (RemoveDisks(Current) \/ RemoveFails(Current))
               /\ (Skip("failed") \/ SkipFailed("failed"))
      <3>1. dom[Current] = "absent"
        BY <2>6 DEF InOrder, Defined
      <3> QED BY <2>1, <2>2, <2>6, <3>1, RemoveKeeps
    <2> QED BY <1>2, <2>3, <2>4, <2>5, <2>6
            DEF RecreateFailedVMs, Virsh, Done, Untouched, hostVars
  <1>3. CASE At("failed") /\ NoMore
    <2>1. UNCHANGED <<dom, disk>> /\ Return(~run.errs)
      BY <1>3 DEF RecreateFailedVMs, Untouched
    <2> QED BY <2>1, StillCalm, RunFacts, ElsewhereKeeps DEF Elsewhere, Watched, Removing, Creating
  <1>4. run.step \in {"undefine-failed", "remove-failed"} => ~NoMore
    BY DEF VMsLeft, OnOne, NoMore
  <1> QED BY <1>1, <1>2, <1>3, <1>4 DEF RecreateFailedVMs

LEMMA PreflightKeeps ==
  ASSUME DisksInv, UNCHANGED cmd, PreflightChecks PROVE DisksInv' /\ ~Destroys
  <1> USE DEF DisksInv, At
  <1>1. UNCHANGED <<dom, disk>> /\ run.step = "preflight"
    BY DEF PreflightChecks, hostVars
  <1>2. CASE Return(FALSE) \/ Walk("net-check", Nets)
    <2>1. DOMAIN run' = DOMAIN run /\ run'.step \in {"done", "net-check"}
      BY <1>2, RunFacts
    <2> QED BY <1>1, <2>1, StillCalm, ElsewhereKeeps DEF Elsewhere, Watched, Removing, Creating
  <1>3. CASE Has("recreate") /\ Goto("clean-query")
    <2>1. DOMAIN run' = DOMAIN run /\ run'.step = "clean-query" /\ run'.todo = run.todo
      BY <1>3, RunFacts
    <2>2. VMsLeft' /\ SnapshotHolds' /\ InOrder' /\ RemovalAsked'
      BY <1>1, <1>3, <2>1
         DEF VMsLeft, Removing, Creating, OnOne, InOrder, RemovalAsked, Removes, Has, SnapshotHolds
    <2> QED BY <1>1, <2>1, <2>2, ReadKeeps
  <1> QED BY <1>2, <1>3 DEF PreflightChecks


\* A step that makes disks where there were none, or takes their domain up.
LEMMA MakeKeeps ==
  ASSUME DisksInv, DOMAIN run' = DOMAIN run,
         dom' \in [VMs -> States], disk' \in [Disks -> Contents],
         \A v \in VMs : Defined(v)' /\ ~Defined(v) => \A d \in DisksOf(v) : disk[d] # "none",
         \A d \in Disks : disk[d] # "none" => disk'[d] # "none",
         \A d \in Disks : disk[d] = "data" => disk'[d] = "data",
         VMsLeft', SnapshotHolds', InOrder', RemovalAsked'
  PROVE  DisksInv' /\ ~Destroys
  <1>1. DomainsTyped'
    BY DEF DisksInv, DomainsTyped, States, Contents, Finished
  <1>2. DefinedHasDisks'
    BY DisksFacts DEF DisksInv, DefinedHasDisks, Defined
  <1>3. ~Destroys
    BY DEF Destroys
  <1> QED BY <1>1, <1>2, <1>3 DEF DisksInv

LEMMA CreateFacts ==
  ASSUME DisksInv, NEW v \in VMs, DiskAvailable(v), CreateDisks(v)
  PROVE  /\ dom' = dom /\ disk' \in [Disks -> Contents]
         /\ \A d \in Disks : disk[d] # "none" => disk'[d] = disk[d]
         /\ \A d \in DisksOf(v) : disk'[d] = "blank"
  BY DisksFacts DEF DisksInv, DomainsTyped, DiskAvailable, CreateDisks, Contents

LEMMA ExistingKeeps ==
  ASSUME DisksInv, UNCHANGED cmd, ExistingJumpstart PROVE DisksInv' /\ ~Destroys
  <1> USE DEF DisksInv, At
  <1>1. \A op, v : Done(op, v) => Calm
    BY DoneCalm
  <1>2. UNCHANGED dom /\ UNCHANGED disk => Calm
    BY StillCalm
  <1>3. Calm
    BY <1>1, <1>2 DEF ExistingJumpstart, Virsh, Query, Done, Untouched, hostVars
  <1>4. CASE /\ Goto("jump-ssh") \/ Goto("jump-start") \/ Return(FALSE) \/ Return(TRUE) \/ Goto("node-query")
    <2>1. DOMAIN run' = DOMAIN run /\ run'.step \in {"jump-ssh", "jump-start", "done", "node-query"}
      BY <1>4, RunFacts
    <2> QED BY <1>3, <2>1, ElsewhereKeeps DEF Elsewhere, Watched, Removing, Creating
  <1>5. CASE UNCHANGED <<dom, disk>> /\ ~Defined(Jumpstart) /\ Goto("jump-disk")
    <2>1. DOMAIN run' = DOMAIN run /\ run'.step = "jump-disk"
      BY <1>5, RunFacts
    <2>2. VMsLeft' /\ SnapshotHolds' /\ InOrder' /\ RemovalAsked'
      BY <1>5, <2>1 DEF VMsLeft, Removing, Creating, OnOne, InOrder, RemovalAsked, SnapshotHolds, Defined
    <2> QED BY <1>5, <2>1, <2>2, ReadKeeps
  <1> QED BY <1>4, <1>5 DEF ExistingJumpstart, JumpstartDone, Virsh, Query, Untouched, hostVars

LEMMA JumpstartKeeps ==
  ASSUME DisksInv, UNCHANGED cmd, NewJumpstart PROVE DisksInv' /\ ~Destroys
  <1> USE DEF DisksInv, At
  <1>1. CASE /\ Calm
             /\ Goto("jump-wait") \/ Goto("jump-boot") \/ Return(FALSE) \/ Return(TRUE) \/ Goto("node-query")
    <2>1. DOMAIN run' = DOMAIN run /\ run'.step \in {"jump-wait", "jump-boot", "done", "node-query"}
      BY <1>1, RunFacts
    <2> QED BY <1>1, <2>1, ElsewhereKeeps DEF Elsewhere, Watched, Removing, Creating
  <1>2. CASE At("jump-disk")
    <2>1. \/ UNCHANGED <<dom, disk>> /\ Return(FALSE)
          \/ DiskAvailable(Jumpstart) /\ CreateDisks(Jumpstart) /\ Goto("jump-install")
      BY <1>2 DEF NewJumpstart, Untouched, hostVars
    <2>2. CASE DiskAvailable(Jumpstart) /\ CreateDisks(Jumpstart) /\ Goto("jump-install")
      <3>1. DOMAIN run' = DOMAIN run /\ run'.step = "jump-install"
        BY <2>2, RunFacts
      <3>2. ~Defined(Jumpstart)
        BY <1>2 DEF InOrder
      <3>3. /\ dom' = dom /\ disk' \in [Disks -> Contents]
            /\ \A d \in Disks : disk[d] # "none" => disk'[d] = disk[d]
            /\ \A d \in DisksOf(Jumpstart) : disk'[d] = "blank"
        BY <2>2, ClientsTyped, CreateFacts
      <3>4. VMsLeft' /\ SnapshotHolds' /\ InOrder' /\ RemovalAsked'
        BY <3>1, <3>2, <3>3
           DEF VMsLeft, Removing, Creating, OnOne, InOrder, RemovalAsked, SnapshotHolds, Defined
      <3> QED BY <3>1, <3>3, <3>4, MakeKeeps DEF DomainsTyped, States, Defined
    <2> QED BY <1>1, <2>1, <2>2, StillCalm
  <1>3. CASE At("jump-install")
    <2>1. ~Defined(Jumpstart) /\ \A d \in DisksOf(Jumpstart) : disk[d] \notin {"none", "data"}
      BY <1>3 DEF InOrder
    <2>2. CASE UNCHANGED <<dom, disk>> /\ Return(FALSE)
      BY <1>1, <2>2, StillCalm
    <2>3. CASE /\ dom' = [dom EXCEPT ![Jumpstart] = "running"] /\ Goto("jump-wait")
               /\ disk' = [d \in Disks |-> IF d = <<Jumpstart, "os">> THEN "setup" ELSE disk[d]]
      <3>1. DOMAIN run' = DOMAIN run /\ run'.step = "jump-wait"
        BY <2>3, RunFacts
      <3>2. dom' \in [VMs -> States] /\ \A v \in VMs \ {Jumpstart} : dom'[v] = dom[v]
        BY <2>3, ClientsTyped DEF DomainsTyped, States
      <3>3. <<Jumpstart, "os">> \in DisksOf(Jumpstart)
        BY DEF DisksOf
      <3>4. /\ disk' \in [Disks -> Contents]
            /\ \A d \in Disks : /\ disk[d] # "none" => disk'[d] # "none"
                                /\ disk[d] = "data" => disk'[d] = "data"
        BY <2>1, <2>3, <3>3 DEF DomainsTyped, Contents
      <3>5. \A v \in VMs : Defined(v)' /\ ~Defined(v) => \A d \in DisksOf(v) : disk[d] # "none"
        BY <2>1, <3>2 DEF Defined
      <3>6. VMsLeft' /\ SnapshotHolds' /\ InOrder' /\ RemovalAsked'
        BY <3>1 DEF VMsLeft, Removing, Creating, OnOne, InOrder, RemovalAsked, SnapshotHolds
      <3> QED BY <3>1, <3>2, <3>4, <3>5, <3>6, MakeKeeps
    <2> QED BY <1>3, <2>2, <2>3 DEF NewJumpstart, VirtInstall, hostVars
  <1>4. CASE At("jump-wait") \/ At("jump-boot")
    <2>1. \A op, v : Done(op, v) => Calm
      BY DoneCalm
    <2>2. UNCHANGED dom /\ UNCHANGED disk => Calm
      BY StillCalm
    <2> QED BY <1>1, <1>4, <2>1, <2>2 DEF NewJumpstart, JumpstartDone, Virsh, Done, Untouched, hostVars
  <1> QED BY <1>2, <1>3, <1>4 DEF NewJumpstart


LEMMA ClientNodesKeep ==
  ASSUME DisksInv, UNCHANGED cmd, DeployClientNodes \/ InstallClient PROVE DisksInv' /\ ~Destroys
  <1> USE DEF DisksInv, At
  <1>1. CASE UNCHANGED <<dom, disk>> /\ (Return(FALSE) \/ Return(TRUE))
    <2>1. DOMAIN run' = DOMAIN run /\ run'.step = "done"
      BY <1>1, RunFacts
    <2> QED BY <1>1, <2>1, StillCalm, ElsewhereKeeps DEF Elsewhere, Watched, Removing, Creating
  <1>2. CASE At("node-query") /\ UNCHANGED <<dom, disk>> /\ WalkStates("node", Clients)
    <2>1. DOMAIN run' = DOMAIN run /\ run'.step = "node" /\ run'.todo = Clients
      BY <1>2, RunFacts
    <2>2. VMsLeft' /\ SnapshotHolds' /\ InOrder' /\ RemovalAsked'
      BY <2>1, ClientsTyped
         DEF VMsLeft, Removing, Creating, OnOne, InOrder, RemovalAsked, SnapshotHolds
    <2> QED BY <1>2, <2>1, <2>2, ReadKeeps
  <1>3. CASE run.step \in Creating /\ ~NoMore
    <2>1. /\ Current \in VMs /\ Current # Jumpstart /\ run.todo # <<>>
          /\ run.todo \in Seq(VMs \ {Jumpstart}) /\ Tail(run.todo) \in Seq(VMs \ {Jumpstart})
      BY <1>3, CurrentFacts DEF VMsLeft, NoMore
    <2>2. ASSUME Skip("node")
          PROVE  DOMAIN run' = DOMAIN run /\ VMsLeft' /\ SnapshotHolds' /\ InOrder' /\ RemovalAsked'
      <3>1. DOMAIN run' = DOMAIN run /\ run'.step = "node" /\ run'.todo = Tail(run.todo)
        BY <2>2, RunFacts
      <3> QED BY <2>1, <3>1
              DEF VMsLeft, Removing, Creating, OnOne, InOrder, RemovalAsked, SnapshotHolds
    <2>3. CASE UNCHANGED <<dom, disk>> /\ Skip("node")
      BY <2>2, <2>3, ReadKeeps
    <2>4. CASE DiskAvailable(Current) /\ CreateDisks(Current) /\ Goto("node-install")
      <3>1. DOMAIN run' = DOMAIN run /\ run'.step = "node-install" /\ run'.todo = run.todo
        BY <2>4, RunFacts
      <3>2. /\ dom' = dom /\ disk' \in [Disks -> Contents]
            /\ \A d \in Disks : disk[d] # "none" => disk'[d] = disk[d]
            /\ \A d \in DisksOf(Current) : disk'[d] = "blank"
        BY <2>1, <2>4, CreateFacts
      <3>3. VMsLeft' /\ SnapshotHolds' /\ InOrder' /\ RemovalAsked'
        BY <2>1, <3>1, <3>2
           DEF VMsLeft, Removing, Creating, OnOne, InOrder, RemovalAsked, SnapshotHolds, Current
      <3> QED BY <3>1, <3>2, <3>3, MakeKeeps DEF DomainsTyped, States, Defined
    <2>5. CASE /\ run.step = "node-install" /\ dom' = [dom EXCEPT ![Current] = "running"]
               /\ disk' = [d \in Disks |-> IF d = <<Jumpstart, "os">> /\ Current = Jumpstart
                                           THEN "setup" ELSE disk[d]]
               /\ Skip("node")
      <3>1. \A d \in DisksOf(Current) : disk[d] # "none"
        BY <2>5 DEF InOrder
      <3>2. dom' \in [VMs -> States] /\ \A v \in VMs \ {Current} : dom'[v] = dom[v]
        BY <2>1, <2>5 DEF DomainsTyped, States
      <3>3. disk' \in [Disks -> Contents] /\ \A d \in Disks : disk'[d] = disk[d]
        BY <2>1, <2>5 DEF DomainsTyped, Contents
      <3>4. \A v \in VMs : Defined(v)' /\ ~Defined(v) => \A d \in DisksOf(v) : disk[d] # "none"
        BY <3>1, <3>2 DEF Defined
      <3> QED BY <2>2, <2>5, <3>2, <3>3, <3>4, MakeKeeps
    <2> QED BY <1>1, <1>3, <2>3, <2>4, <2>5
            DEF DeployClientNodes, InstallClient, VirtInstall, Untouched, hostVars, Creating
  <1>4. run.step = "node-install" => ~NoMore
    BY DEF VMsLeft, OnOne, NoMore
  <1> QED BY <1>1, <1>2, <1>3, <1>4
          DEF DeployClientNodes, InstallClient, Query, Untouched, hostVars, Creating

\* The inductive invariant holds at first and is kept by every step.
LEMMA DisksInit == Init => DisksInv
  <1> SUFFICES ASSUME Init PROVE DisksInv
    OBVIOUS
  <1>1. DomainsTyped /\ DefinedHasDisks
    BY FinishedFields DEF Init, HostInit, DomainsTyped, DefinedHasDisks, Defined
  <1>2. run.step = "done"
    BY FinishedFields DEF Init
  <1>3. VMsLeft /\ SnapshotHolds /\ InOrder /\ RemovalAsked
    BY <1>2 DEF VMsLeft, Removing, Creating, OnOne, SnapshotHolds, InOrder, RemovalAsked
  <1> QED BY <1>1, <1>3 DEF DisksInv

LEMMA DisksStep == DisksInv /\ [Next]_vars => DisksInv' /\ ~Destroys
  <1> SUFFICES ASSUME DisksInv, [Next]_vars PROVE DisksInv' /\ ~Destroys
    OBVIOUS
  <1>1. UNCHANGED <<dom, disk>> => Calm /\ Quiet
    BY StillCalm DEF DisksInv
  <1>2. CASE UNCHANGED vars \/ Cancel
    BY <1>1, <1>2, QuietKeeps DEF vars, Cancel, hostVars
  <1>3. CASE \E c \in Requests : Begin(c)
    BY <1>3, BeginKeeps
  <1>4. CASE \E v \in VMs : Guest(v)
    BY <1>4, GuestsQuiet, QuietKeeps DEF Guest, DisksInv
  <1>5. CASE Ordinary
    BY <1>5, OrdinaryElsewhere, ElsewhereKeeps DEF DisksInv
  <1>6. CASE Command /\ ~Ordinary
    BY <1>6, RecreateKeeps, CleanupKeeps, CleanKeeps, PreflightKeeps, ExistingKeeps,
       JumpstartKeeps, ClientNodesKeep
       DEF Command, Ordinary, Plainly, Judges
  <1> QED BY <1>2, <1>3, <1>4, <1>5, <1>6 DEF Next, Ordinary, Plainly, Judges

\* What a removal and a creation rely on, whatever calls fail or are killed.
THEOREM DisksInvariant == Spec => []DisksInv
  <1>1. DisksInv /\ [Next]_vars => DisksInv'
    BY DisksStep
  <1> QED BY <1>1, DisksInit, PTL DEF Spec

\* A registered domain has all its disks: DestroyVM and RecreateFailedVMs
\* remove an image only once the domain is undefined, and virt-install runs
\* only after qemu-img.
THEOREM DomainsKeepDisks == Spec => []DefinedHasDisks
  <1>1. DisksInv => DefinedHasDisks
    BY DEF DisksInv
  <1> QED BY <1>1, DisksInvariant, PTL

\* Data is lost to a removal the operator asked for, and to nothing else: a
\* creation refuses images that exist, an installer boots on blank ones.
THEOREM DataKept == Spec => OnlyRemovalsDestroy
  <1>1. DisksInv /\ [Next]_vars =>
          [\A d \in Disks : disk[d] = "data" /\ disk'[d] # "data" =>
             Removes /\ dom[d[1]] = "absent" /\ run.step \in {"remove", "remove-failed"}]_vars
    BY DisksStep DEF Destroys
  <1> QED BY <1>1, DisksInvariant, PTL DEF Spec, OnlyRemovalsDestroy


\* No other command comes to a step of the chaos test.
LEMMA OthersElsewhere ==
  ASSUME DomainsTyped, Command, ~TestFailover PROVE run'.step \notin Judging
  <1> DEFINE Away == run'.step \notin Judging
  <1>1. /\ \A s : s \notin Judging /\ Goto(s) => Away
        /\ \A s, q : s \notin Judging /\ Walk(s, q) => Away
        /\ \A s, q : s \notin Judging /\ WalkStates(s, q) => Away
        /\ \A s : s \notin Judging /\ Skip(s) => Away
        /\ \A s : s \notin Judging /\ SkipFailed(s) => Away
        /\ \A ok : Return(ok) => Away
    BY RunFacts DEF Judging
  <1>2. DOMAIN run = Fields
    BY FinishedFields DEF DomainsTyped
  <1>3. /\ ToNets => Away
        /\ run' = [run EXCEPT !.step = "clean", !.errs = TRUE] => Away
    BY <1>2 DEF ToNets, Fields, Judging
  <1>4. /\ "failed" \notin Judging /\ "undefine-failed" \notin Judging
        /\ "remove-failed" \notin Judging /\ "clean" \notin Judging /\ "remove" \notin Judging
        /\ "undefine" \notin Judging /\ "clean-query" \notin Judging /\ "net-check" \notin Judging
        /\ "node" \notin Judging /\ "node-install" \notin Judging /\ "node-query" \notin Judging
        /\ "jump-disk" \notin Judging /\ "jump-ssh" \notin Judging /\ "jump-start" \notin Judging
        /\ "jump-install" \notin Judging /\ "jump-wait" \notin Judging /\ "jump-boot" \notin Judging
    BY DEF Judging
  <1>5. Plainly => Away
    BY PlainSteps DEF Plain, Judging
  <1> HIDE DEF Away
  <1> SUFFICES Away
    BY DEF Away
  <1> USE <1>1, <1>4 DEF Virsh, Query
  <1>6. CASE RecreateFailedVMs
    BY <1>6 DEF RecreateFailedVMs
  <1>7. CASE CleanupVMs
    BY <1>7, <1>3 DEF CleanupVMs
  <1>8. CASE DestroyVM \/ UndefineVM
    BY <1>8 DEF DestroyVM, UndefineVM
  <1>9. CASE PreflightChecks
    BY <1>9 DEF PreflightChecks
  <1>10. CASE ExistingJumpstart
    BY <1>10 DEF ExistingJumpstart, JumpstartDone
  <1>11. CASE NewJumpstart
    BY <1>11 DEF NewJumpstart, JumpstartDone, VirtInstall
  <1>12. CASE DeployClientNodes \/ InstallClient
    BY <1>12 DEF DeployClientNodes, InstallClient, VirtInstall
  <1> QED BY <1>5, <1>6, <1>7, <1>8, <1>9, <1>10, <1>11, <1>12 DEF Command, Plainly

LEMMA JudgeKeeps ==
  ASSUME DisksInv, OneJudged, Judges, UNCHANGED cmd PROVE OneJudged'
  <1> USE DEF DisksInv, At, OneJudged, Judging, JudgedWhileOff
  <1>1. run.step \in Judging /\ run.todo \in Seq(VMs)
    BY DEF Judges, TestFailover, TimesOut
  <1>2. CASE Skip("scenario") /\ run.todo # <<>>
    <2>1. run'.step = "scenario" /\ run'.todo = Tail(run.todo)
      BY <1>2, RunFacts
    <2>2. run'.todo \in Seq(VMs)
      BY <1>1, <1>2, <2>1, HeadTail
    <2> QED BY <2>1, <2>2
  <1>3. CASE \E ok \in BOOLEAN : Return(ok)
    BY <1>3, RunFacts
  <1>4. CASE Goto("off-yet") /\ run.todo # <<>>
    <2>1. run'.step = "off-yet" /\ run'.todo = run.todo
      BY <1>4, RunFacts
    <2> QED BY <1>1, <1>4, <2>1
  <1>5. CASE Goto("restore") /\ UNCHANGED dom /\ dom[Current] = "shut off" /\ run.todo # <<>>
    BY <1>1, <1>5, RunFacts DEF Current
  <1> QED BY <1>1, <1>2, <1>3, <1>4, <1>5
          DEF Judges, TestFailover, TimesOut, Verdict, Virsh, Query, hostVars, NoMore

LEMMA JudgedStep == DisksInv /\ OneJudged /\ [Next]_vars => OneJudged'
  <1> SUFFICES ASSUME DisksInv, OneJudged, [Next]_vars PROVE OneJudged'
    OBVIOUS
  <1>1. CASE run'.step \notin Judging
    BY <1>1 DEF OneJudged, Judging, JudgedWhileOff, At
  <1>2. ASSUME Quiet, UNCHANGED run PROVE OneJudged'
    <2>1. Current' = Current
      BY <1>2 DEF Current
    <2>2. run.step \in {"off-yet", "restore"} => Current \in VMs
      BY HeadTail DEF OneJudged, Judging, Current
    <2> QED BY <1>2, <2>1, <2>2 DEF OneJudged, Quiet, JudgedWhileOff, At
  <1>3. CASE UNCHANGED vars \/ Cancel
    BY <1>2, <1>3, StillCalm DEF vars, Cancel, hostVars, DisksInv
  <1>4. CASE \E v \in VMs : Guest(v)
    BY <1>2, <1>4, GuestsQuiet DEF Guest, DisksInv
  <1>5. ASSUME NEW c \in Requests, Begin(c) PROVE OneJudged'
    <2>1. run'.step = FirstStep(c) /\ (c.name = "test-failover" => run'.todo = Victims)
      BY <1>5 DEF Begin, Finished
    <2>2. run'.step \in Judging => run'.step = "scenario" /\ run'.todo \in Seq(VMs)
      BY <2>1, VictimsAssumption DEF FirstStep, Judging
    <2> QED BY <2>2 DEF OneJudged, Judging, JudgedWhileOff, At
  <1>6. CASE Judges /\ UNCHANGED cmd
    BY <1>6, JudgeKeeps
  <1>7. CASE Command /\ ~TestFailover
    BY <1>1, <1>7, OthersElsewhere DEF DisksInv
  <1>8. CASE Killed \/ (TimesOut /\ ~At("off-yet"))
    BY <1>1, <1>8, PlainSteps DEF Plainly, Plain, Judging, DisksInv
  <1> QED BY <1>3, <1>4, <1>5, <1>6, <1>7, <1>8 DEF Next, Command, Judges, TimesOut

\* The chaos test looks for the failover only while it keeps the VM off:
\* whatever a poll, a deadline or an interrupt did before, and although the
\* snapshot it acts on is a step old.
THEOREM FailoverJudged == Spec => []JudgedWhileOff
  <1>1. Init => OneJudged
    BY FinishedFields DEF Init, OneJudged, Judging, JudgedWhileOff, At
  <1>2. OneJudged => JudgedWhileOff
    BY DEF OneJudged
  <1> QED BY <1>1, <1>2, JudgedStep, DisksInvariant, PTL DEF Spec

(***************************************************************************)
(* A command that says it succeeded has done what it says.                 *)
(***************************************************************************)
\* The steps of each command.
CleanSteps == {"clean-query", "clean", "undefine", "remove", "nets", "net-destroy", "net-undefine"}
JumpSteps == {"jump-query", "jump-start", "jump-ssh", "jump-disk", "jump-install",
              "jump-wait", "jump-boot"}
NodeSteps == {"node-query", "node", "node-install"}
NetSteps == {"net-check", "net-define", "net-start"}
StopSteps == {"query", "signal", "shutdown", "poll", "wait", "force"}
BatchSteps == {"query", "boot-batch", "wg", "down-query", "down", "poll-batch",
               "wait-batch", "force-batch"}
StepsOf(name) ==
  CASE name = "start" -> {"query", "boot", "stagger"}
    [] name = "stop" -> StopSteps
    [] name = "shrink" -> {"query", "resize", "setmem"}
    [] name = "fix-boot-order" -> {"wg"}
    [] name = "install-batches" -> BatchSteps
    [] name = "recreate-failed" -> {"query", "failed", "undefine-failed", "remove-failed"}
    [] name = "cleanup" -> CleanSteps
    [] name = "init-vms" -> CleanSteps \cup {"preflight"} \cup NetSteps \cup JumpSteps \cup NodeSteps
    [] name = "test-failover" -> Judging

InCommand ==
  /\ run.step # "done" => run.step \in StepsOf(cmd.name)
  /\ cmd.name = "fix-boot-order" => run.group = "define"

HostTyped ==
  /\ cmd \in Requests
  /\ memory \in [VMs -> {"install", "final"}]
  /\ net \in [Networks -> {"absent", "inactive", "active", "transient"}]

\* vm stop: no guest is up that was not when the command began.
StopInv ==
  cmd.name = "stop" =>
    /\ run.step \in {"signal", "shutdown", "poll", "wait"} =>
         \A v \in VMs : IsUp(v) => run.states[v] \in Up
    /\ run.step = "force" => Has("force")
    /\ StopStops

\* vm install-batches: a VM that a resize without errors has not reached yet
\* has a goroutine.
Sized(b) == \A k \in DOMAIN Batches[b] : memory[Batches[b][k]] = "final"
Pending(v) == <<v, "setmaxmem">> \in run.jobs \/ <<v, "setmem">> \in run.jobs

BatchInv ==
  cmd.name = "install-batches" =>
    /\ run.batch \in Nat \ {0}
    /\ run.step \notin {"query", "done"} => run.batch \in DOMAIN Batches
    /\ run.step = "wg" => run.group \in {"ssh", "define", "setmaxmem"}
    /\ run.step = "wg" /\ run.group = "setmaxmem" /\ ~run.errs =>
         \A k \in DOMAIN Batches[run.batch] :
           memory[Batches[run.batch][k]] = "final" \/ Pending(Batches[run.batch][k])
    /\ \A b \in DOMAIN Batches : run.batch > b \/ (At("done") /\ run.ok) => Sized(b)

\* init-vms: what its loops have left behind is there.
NetUp(n) == net[n] \in {"active", "transient"}
Listed(x, q) == \E k \in DOMAIN q : q[k] = x

InitInv ==
  cmd.name = "init-vms" =>
    /\ run.step \in NetSteps =>
         /\ run.todo \in Seq(Networks)
         /\ \A n \in Networks : NetUp(n) \/ Listed(n, run.todo)
    /\ run.step \in {"net-define", "net-start"} => run.todo # <<>>
    /\ run.step \in JumpSteps \cup NodeSteps => \A n \in Networks : NetUp(n)
    /\ run.step \in {"jump-start", "jump-ssh", "jump-wait", "jump-boot"} => Defined(Jumpstart)
    /\ run.step \in NodeSteps /\ WantsJumpstart => Defined(Jumpstart)
    /\ run.step \in {"node", "node-install"} =>
         /\ \A v \in VMs : run.states[v] # "absent" => Defined(v)
         /\ \A k \in DOMAIN Clients : Defined(Clients[k]) \/ Listed(Clients[k], run.todo)
    /\ InitComplete

SuccessInv == HostTyped /\ InCommand /\ StopInv /\ BatchInv /\ InitInv

\* Every field a step leaves or sets.
SameBut(F) == DOMAIN run' = Fields /\ \A x \in Fields \ F : run'[x] = run[x]

LEMMA RunChanges ==
  ASSUME DomainsTyped
  PROVE  /\ \A s : Goto(s) => SameBut({"step"}) /\ run'.step = s
         /\ \A s, q : Walk(s, q) => SameBut({"step", "todo"}) /\ run'.step = s /\ run'.todo = q
         /\ \A s, q : WalkStates(s, q) => /\ SameBut({"step", "todo", "states"})
                                          /\ run'.step = s /\ run'.todo = q /\ run'.states = dom
         /\ \A s : Skip(s) => /\ SameBut({"step", "todo"})
                              /\ run'.step = s /\ run'.todo = Tail(run.todo)
         /\ \A s : SkipFailed(s) => /\ SameBut({"step", "todo", "errs"})
                                    /\ run'.step = s /\ run'.todo = Tail(run.todo)
         /\ \A ok : Return(ok) => run'.step = "done" /\ run'.ok = ok /\ run'.batch = 1
  <1>1. DOMAIN run = Fields
    BY FinishedFields DEF DomainsTyped
  <1> USE <1>1
  <1>2. \A s : Goto(s) => SameBut({"step"}) /\ run'.step = s
    BY DEF Goto, Fields, SameBut
  <1>3. \A s, q : Walk(s, q) => SameBut({"step", "todo"}) /\ run'.step = s /\ run'.todo = q
    BY DEF Walk, Fields, SameBut
  <1>4. \A s, q : WalkStates(s, q) => /\ SameBut({"step", "todo", "states"})
                                      /\ run'.step = s /\ run'.todo = q /\ run'.states = dom
    BY DEF WalkStates, Fields, SameBut
  <1>5. \A s : Skip(s) => /\ SameBut({"step", "todo"})
                          /\ run'.step = s /\ run'.todo = Tail(run.todo)
    BY <1>3 DEF Skip
  <1>6. \A s : SkipFailed(s) => /\ SameBut({"step", "todo", "errs"})
                                /\ run'.step = s /\ run'.todo = Tail(run.todo)
    BY DEF SkipFailed, Fields, SameBut
  <1>7. \A ok : Return(ok) => run'.step = "done" /\ run'.ok = ok /\ run'.batch = 1
    BY DEF Return, Finished
  <1> QED BY <1>2, <1>3, <1>4, <1>5, <1>6, <1>7

\* A virsh call that works, with what it does to the memory.
Did(op, v) ==
  /\ Done(op, v)
  /\ memory' = IF op = "setmem" THEN [memory EXCEPT ![v] = "final"] ELSE memory
  /\ net' = net

\* What no call but some takes away.
FinalKept == \A v \in VMs : memory[v] = "final" => memory'[v] = "final"
DefinedKept == \A v \in VMs : Defined(v) => Defined(v)'
NoneWakes == \A v \in VMs : IsUp(v)' => IsUp(v)
Steady == HostTyped' /\ FinalKept /\ net' = net

LEMMA DidFacts ==
  ASSUME DomainsTyped, HostTyped, UNCHANGED cmd, NEW op, NEW v, Did(op, v)
  PROVE  /\ Steady
         /\ op = "setmem" /\ v \in VMs => memory'[v] = "final"
         /\ op # "undefine" => DefinedKept
         /\ op # "start" => NoneWakes
  <1>1. Steady /\ (op = "setmem" /\ v \in VMs => memory'[v] = "final")
    BY DEF Did, HostTyped, Steady, FinalKept
  <1>2. CASE v \in VMs
    <2>1. dom' = [dom EXCEPT ![v] = Called(op, dom[v])] /\ Called(op, dom[v]) # "refused"
      BY DEF Did, Done
    <2>2. op # "undefine" => DefinedKept
      BY <1>2, <2>1 DEF Called, DomainsTyped, DefinedKept, Defined
    <2>3. op # "start" => NoneWakes
      BY <1>2, <2>1 DEF Called, DomainsTyped, NoneWakes, IsUp, Up
    <2> QED BY <2>2, <2>3, <1>1
  <1>3. CASE v \notin VMs
    <2>1. \A u \in VMs : dom'[u] = dom[u]
      BY <1>3 DEF Did, Done, DomainsTyped
    <2> QED BY <2>1, <1>1 DEF DefinedKept, Defined, NoneWakes, IsUp
  <1> QED BY <1>2, <1>3

LEMMA StillSteady ==
  ASSUME HostTyped, UNCHANGED <<dom, memory, net, cmd>>
  PROVE  Steady /\ DefinedKept /\ NoneWakes
  BY DEF HostTyped, Steady, FinalKept, DefinedKept, Defined, NoneWakes, IsUp

LEMMA GuestsSteady ==
  ASSUME DomainsTyped, HostTyped, NEW v \in VMs, Guests(v), UNCHANGED cmd
  PROVE  Steady /\ DefinedKept /\ NoneWakes
  <1>1. memory' = memory /\ net' = net
    BY DEF Guests, Installs, PowersOff, Crashes, Pauses, Unpauses
  <1>2. Steady
    BY <1>1 DEF HostTyped, Steady, FinalKept
  <1>3. /\ dom[v] \in Up
        /\ \E s \in {"shut off", "running", "paused"} : dom' = [dom EXCEPT ![v] = s]
    <2>1. CASE Installs(v)
      BY <2>1 DEF Installs, Up, DomainsTyped
    <2>2. CASE PowersOff(v) \/ Crashes(v)
      BY <2>2 DEF PowersOff, Crashes, Off, Up
    <2>3. CASE Pauses(v) \/ Unpauses(v)
      BY <2>3 DEF Pauses, Unpauses, Up
    <2> QED BY <2>1, <2>2, <2>3 DEF Guests
  <1> QED BY <1>2, <1>3 DEF DomainsTyped, DefinedKept, Defined, NoneWakes, IsUp

\* Which command a step belongs to.
LEMMA Owners ==
  ASSUME HostTyped, InCommand
  PROVE  /\ run.step \in StopSteps \ {"query"} => cmd.name = "stop"
         /\ run.step \in BatchSteps \ {"query", "wg"} => cmd.name = "install-batches"
         /\ run.step = "wg" => cmd.name \in {"install-batches", "fix-boot-order"}
         /\ run.step \in CleanSteps => cmd.name \in {"cleanup", "init-vms"}
         /\ run.step \in {"preflight"} \cup NetSteps \cup JumpSteps \cup NodeSteps => cmd.name = "init-vms"
         /\ run.step \in {"boot", "stagger"} => cmd.name = "start"
         /\ run.step \in {"resize", "setmem"} => cmd.name = "shrink"
         /\ run.step \in {"failed", "undefine-failed", "remove-failed"} => cmd.name = "recreate-failed"
         /\ run.step \in Judging => cmd.name = "test-failover"
  <1>1. cmd.name \in {"start", "stop", "shrink", "fix-boot-order", "install-batches",
                      "recreate-failed", "cleanup", "init-vms", "test-failover"}
    BY RequestsAssumption DEF HostTyped
  <1> QED BY <1>1 DEF InCommand, StepsOf, StopSteps, BatchSteps, CleanSteps, NetSteps, JumpSteps,
                      NodeSteps, Judging

(***************************************************************************)
(* vm stop.                                                                *)
(***************************************************************************)
Stopping ==
  \/ cmd.name = "stop" /\ Signal
  \/ PollStopped \/ WaitStopped \/ ForceOff
  \/ At("wait") /\ TimesOut

\* How one of its steps leaves it.
StopMoves ==
  \/ /\ run'.step \in {"signal", "shutdown", "poll", "wait"}
     /\ NoneWakes
     /\ \/ run'.states = run.states /\ run.step \in {"signal", "shutdown", "poll", "wait"}
        \/ run'.states = dom
  \/ run'.step = "force" /\ Has("force")
  \/ run'.step = "done" /\ ~run'.ok
  \/ run'.step = "done" /\ (Has("force") \/ \A v \in VMs : ~IsUp(v)')

LEMMA SignalMoves ==
  ASSUME DomainsTyped, HostTyped, InCommand, StopInv, cmd.name = "stop", UNCHANGED cmd, Signal
  PROVE  Steady /\ StopMoves
  <1>1. UNCHANGED hostVars => Steady /\ DefinedKept /\ NoneWakes
    BY StillSteady DEF hostVars
  <1>2. \A op, v : Did(op, v) => Steady /\ (op # "start" => NoneWakes)
    BY DidFacts
  <1>3. CASE At("query") /\ Query(IF {v \in VMs : IsUp(v)} = {} THEN Return(TRUE)
                                  ELSE WalkStates("signal", Only(StopOrder, {v \in VMs : IsUp(v)})),
                                  Return(FALSE))
    <2>1. Steady /\ NoneWakes
      BY <1>1, <1>3 DEF Query
    <2>2. \A q : WalkStates("signal", q) => StopMoves
      BY <2>1, RunChanges DEF StopMoves
    <2>3. Return(FALSE) => StopMoves
      BY RunChanges DEF StopMoves
    <2>4. Return(TRUE) /\ (\A v \in VMs : ~IsUp(v)) => StopMoves
      BY <2>1, RunChanges DEF StopMoves, NoneWakes
    <2> QED BY <1>3, <2>1, <2>2, <2>3, <2>4 DEF Query
  <1>4. CASE At("signal") \/ At("shutdown")
    <2>1. \A s : s \in {"signal", "shutdown", "poll"} /\ (Goto(s) \/ Skip(s)) =>
            run'.step = s /\ run'.states = run.states
      BY RunChanges DEF SameBut, Fields
    <2>2. /\ \A s : s \in {"signal", "shutdown", "poll"} /\ Goto(s) =>
               run'.step \in {"signal", "shutdown", "poll", "wait"} /\ run'.states = run.states
          /\ Skip("signal") => run'.step \in {"signal", "shutdown", "poll", "wait"} /\ run'.states = run.states
      BY <2>1
    <2>3. run'.step \in {"signal", "shutdown", "poll", "wait"} /\ run'.states = run.states
      BY <1>4, <2>2 DEF Signal, At, Virsh
    <2>4. Steady /\ NoneWakes
      <3>1. ASSUME NEW op, op # "start", NEW v, NEW Then, NEW Else, Virsh(op, v, Then, Else)
            PROVE  Steady /\ NoneWakes
        <4>1. Did(op, v) \/ UNCHANGED hostVars
          BY <3>1 DEF Virsh, Did, Done, Untouched, hostVars
        <4> QED BY <1>1, <1>2, <3>1, <4>1
      <3>2. Untouched => Steady /\ NoneWakes
        BY <1>1 DEF Untouched, hostVars
      <3>3. CASE At("signal")
        BY <3>1, <3>2, <3>3 DEF Signal, At
      <3>4. CASE At("shutdown")
        BY <3>1, <3>4 DEF Signal, At
      <3> QED BY <1>4, <3>3, <3>4
    <2> QED BY <1>4, <2>3, <2>4 DEF StopMoves, At
  <1> QED BY <1>3, <1>4 DEF Signal, At

LEMMA PollMoves ==
  ASSUME DomainsTyped, HostTyped, InCommand, StopInv, UNCHANGED cmd, PollStopped
  PROVE  Steady /\ StopMoves
  <1>0. cmd.name = "stop" /\ run.step = "poll"
    BY Owners DEF PollStopped, At, StopSteps
  <1>1. UNCHANGED hostVars
    BY DEF PollStopped, Query
  <1>2. Steady /\ NoneWakes
    BY <1>1, StillSteady DEF hostVars
  <1>3. \A q : Walk("wait", q) => StopMoves
    <2>1. \A q : Walk("wait", q) => run'.states = run.states /\ run'.step = "wait"
      BY RunChanges DEF SameBut, Fields
    <2> QED BY <1>0, <1>2, <2>1 DEF StopMoves
  <1>4. \A v \in VMs : IsUp(v) => run.states[v] \in Up
    BY <1>0 DEF StopInv
  <1>5. ASSUME Return(TRUE), \A v \in VMs : ~(run.states[v] \in Up /\ dom[v] # "shut off")
        PROVE  StopMoves
    <2>1. \A v \in VMs : ~IsUp(v)
      BY <1>4, <1>5 DEF IsUp, Up
    <2> QED BY <1>2, <1>5, <2>1, RunChanges DEF StopMoves, NoneWakes
  <1>6. ASSUME Return(TRUE), \A v \in VMs : ~(run.states[v] \in Up /\ NoStates[v] # "shut off")
        PROVE  StopMoves
    <2>1. \A v \in VMs : ~IsUp(v)
      BY <1>4, <1>6 DEF NoStates
    <2> QED BY <1>2, <1>6, <2>1, RunChanges DEF StopMoves, NoneWakes
  <1> QED BY <1>2, <1>3, <1>5, <1>6 DEF PollStopped, Query

LEMMA StoppingMoves ==
  ASSUME DomainsTyped, HostTyped, InCommand, StopInv, UNCHANGED cmd, Stopping
  PROVE  cmd.name = "stop" /\ Steady /\ StopMoves
  <1>1. cmd.name = "stop"
    BY Owners DEF Stopping, PollStopped, WaitStopped, ForceOff, At, StopSteps
  <1>2. UNCHANGED hostVars => Steady /\ DefinedKept /\ NoneWakes
    BY StillSteady DEF hostVars
  <1>3. CASE WaitStopped
    <2>1. Steady /\ NoneWakes
      BY <1>2, <1>3 DEF WaitStopped, Untouched, hostVars
    <2>2. Goto("poll") => run'.states = run.states /\ run'.step = "poll"
      BY RunChanges DEF SameBut, Fields
    <2> QED BY <1>1, <1>3, <2>1, <2>2, RunChanges DEF WaitStopped, StopMoves, At
  <1>4. CASE ForceOff
    <2>1. Has("force")
      BY <1>1, <1>4 DEF ForceOff, At, StopInv
    <2>2. Steady
      BY <1>2, <1>4, DidFacts DEF ForceOff, Virsh, Did, Done, Untouched, hostVars
    <2>3. run'.step = "force" \/ run'.step = "done"
      BY <1>4, RunChanges DEF ForceOff, Virsh
    <2> QED BY <1>1, <2>1, <2>2, <2>3 DEF StopMoves
  <1>5. CASE At("wait") /\ TimesOut
    <2>1. Steady
      BY <1>2, <1>5 DEF TimesOut, Untouched, hostVars
    <2>2. (Goto("force") /\ Has("force")) \/ Return(FALSE)
      BY <1>5 DEF TimesOut, At
    <2> QED BY <1>1, <2>1, <2>2, RunChanges DEF StopMoves
  <1> QED BY <1>1, <1>3, <1>4, <1>5, SignalMoves, PollMoves DEF Stopping

LEMMA StoppingKeeps ==
  ASSUME DomainsTyped, SuccessInv, UNCHANGED cmd, Stopping
  PROVE  SuccessInv'
  <1> USE DEF SuccessInv
  <1>1. cmd.name = "stop" /\ Steady /\ StopMoves
    BY StoppingMoves
  <1>2. HostTyped' /\ InCommand' /\ BatchInv' /\ InitInv'
    BY <1>1 DEF Steady, StopMoves, InCommand, StepsOf, StopSteps, BatchInv, InitInv
  <1>3. StopInv'
    <2>1. CASE run'.step \in {"signal", "shutdown", "poll", "wait"}
      BY <1>1, <2>1 DEF StopMoves, StopInv, StopStops, At, NoneWakes, IsUp, Has
    <2>2. CASE run'.step = "force"
      BY <1>1, <2>2 DEF StopMoves, StopInv, StopStops, At, Has
    <2>3. CASE run'.step = "done"
      BY <1>1, <2>3 DEF StopMoves, StopInv, StopStops, At, Has
    <2> QED BY <1>1, <2>1, <2>2, <2>3 DEF StopMoves
  <1> QED BY <1>2, <1>3

(***************************************************************************)
(* vm install-batches, and vm fix-boot-order with its goroutines.          *)
(***************************************************************************)
Batching ==
  \/ BootBatch \/ ShutDownBatch \/ Joined
  \/ \E j \in run.jobs : Job(j)
  \/ At("wait-batch") /\ TimesOut

\* How a step leaves the work of the batches.
BatchMoves ==
  \/ run'.step = "done" /\ run'.batch = 1 /\ ~run'.ok
  \/ run'.step = "done" /\ run'.batch = 1 /\ run.step = "query" /\ run.batch > Len(Batches)
  \/ /\ run'.step \in BatchSteps \ {"query", "wg"} /\ run'.batch = run.batch
     /\ run.batch \in DOMAIN Batches
  \/ /\ run'.step = "wg" /\ run'.batch = run.batch /\ run.batch \in DOMAIN Batches
     /\ run'.group \in {"ssh", "define"}
  \/ /\ run'.step = "wg" /\ run'.batch = run.batch /\ run.batch \in DOMAIN Batches
     /\ run'.group = "setmaxmem" /\ run'.jobs = Jobs("setmaxmem")
  \/ /\ run.step = "wg" /\ run'.step = "wg" /\ run'.batch = run.batch /\ run'.group = run.group
     /\ run.batch \in DOMAIN Batches
     /\ \/ run'.errs
        \/ /\ ~run.errs
           /\ \A v \in VMs : Pending(v) => Pending(v)' \/ memory'[v] = "final"
  \/ /\ run.step = "wg" /\ run.group = "setmaxmem" /\ ~run.errs /\ run.jobs = {}
     /\ run'.step = "query" /\ run'.batch = run.batch + 1

LEMMA BatchVMs == \A b \in DOMAIN Batches : \A k \in DOMAIN Batches[b] : Batches[b][k] \in VMs
  <1>1. \A b \in DOMAIN Batches : Within(Batches[b], Clients)
    BY ClientsSeq
  <1> QED BY Zenon, <1>1 DEF Within, VMs

LEMMA SpawnFacts ==
  ASSUME DomainsTyped, NEW call, Spawn(call)
  PROVE  /\ run'.step = "wg" /\ run'.batch = run.batch
         /\ run'.group = call /\ run'.jobs = Jobs(call)
  <1>1. DOMAIN run = Fields
    BY FinishedFields DEF DomainsTyped
  <1> QED BY <1>1 DEF Spawn, Fields

LEMMA BatchLoopMoves ==
  ASSUME DomainsTyped, HostTyped, InCommand, BatchInv, cmd.name = "install-batches",
         BootBatch \/ ShutDownBatch \/ (At("wait-batch") /\ TimesOut)
  PROVE  BatchMoves
  <1>0. DOMAIN run = Fields
    BY FinishedFields DEF DomainsTyped
  <1>1. Return(FALSE) => BatchMoves
    BY RunChanges DEF BatchMoves
  <1>2. run.step \notin {"query", "done"} => run.batch \in DOMAIN Batches
    BY DEF BatchInv
  <1>3. /\ \A s, q : s \in BatchSteps \ {"query", "wg"} /\ run.batch \in DOMAIN Batches
             /\ (Goto(s) \/ Skip(s) \/ SkipFailed(s) \/ WalkStates(s, q)) => BatchMoves
        /\ \A call : call \in {"ssh", "define", "setmaxmem"} /\ run.batch \in DOMAIN Batches
             /\ Spawn(call) => BatchMoves
    <2>1. \A s, q : Goto(s) \/ Skip(s) \/ SkipFailed(s) \/ WalkStates(s, q) =>
                      run'.step = s /\ run'.batch = run.batch
      BY RunChanges DEF SameBut, Fields
    <2> QED BY <2>1, SpawnFacts DEF BatchMoves
  <1>4. CASE BootBatch
    <2>1. CASE At("query")
      <3>1. run.batch \in Nat \ {0} /\ run.step = "query" /\ Len(Batches) \in Nat
            /\ DOMAIN Batches = 1..Len(Batches)
        BY <2>1, VMsAssumption DEF BatchInv, At
      <3>2. run.batch > Len(Batches) /\ Return(TRUE) => BatchMoves
        BY <3>1, RunChanges DEF BatchMoves
      <3>3. ~(run.batch > Len(Batches)) => run.batch \in DOMAIN Batches
        BY <3>1
      <3> QED BY <1>4, <2>1, <3>1, <3>2, <3>3, <1>1, <1>3 DEF BootBatch, Query, At, BatchSteps
    <2>2. CASE At("boot-batch")
      BY <1>4, <2>2, <1>1, <1>2, <1>3 DEF BootBatch, Virsh, At, BatchSteps
    <2> QED BY <1>4, <2>1, <2>2 DEF BootBatch
  <1>5. CASE ShutDownBatch
    <2>1. run.step \notin {"query", "done"}
      BY <1>5 DEF ShutDownBatch, At
    <2>2. ASSUME NEW q, NEW s, s \in BatchSteps \ {"query", "wg"}
          PROVE  /\ run' = [run EXCEPT !.step = s, !.targets = q] => BatchMoves
                 /\ run' = [run EXCEPT !.targets = q, !.todo = q, !.errs = FALSE, !.step = s] => BatchMoves
      BY <1>0, <1>2, <2>1, <2>2 DEF BatchMoves, Fields
    <2>3. /\ "down" \in BatchSteps \ {"query", "wg"} /\ "poll-batch" \in BatchSteps \ {"query", "wg"}
          /\ "wait-batch" \in BatchSteps \ {"query", "wg"} /\ "force-batch" \in BatchSteps \ {"query", "wg"}
      BY DEF BatchSteps
    <2> HIDE DEF BatchMoves
    <2>4. CASE At("down-query")
      BY <1>5, <2>1, <2>3, <2>4, <1>1, <1>2, <1>3 DEF ShutDownBatch, Query, At
    <2>5. CASE At("down") \/ At("force-batch") \/ At("wait-batch")
      BY <1>5, <2>1, <2>2, <2>3, <2>5, <1>1, <1>2, <1>3 DEF ShutDownBatch, Virsh, At
    <2>6. CASE At("poll-batch")
      BY <1>5, <2>2, <2>3, <2>6, <1>1 DEF ShutDownBatch, Query, At
    <2> QED BY <1>5, <2>4, <2>5, <2>6 DEF ShutDownBatch
  <1>6. CASE At("wait-batch") /\ TimesOut
    BY <1>6, <1>2, <1>3 DEF TimesOut, At, BatchSteps
  <1> QED BY <1>4, <1>5, <1>6

LEMMA JoinedMoves ==
  ASSUME DomainsTyped, HostTyped, InCommand, BatchInv, cmd.name = "install-batches", Joined
  PROVE  BatchMoves
  <1>0. DOMAIN run = Fields
    BY FinishedFields DEF DomainsTyped
  <1>1. run.step = "wg" /\ run.jobs = {} /\ run.batch \in DOMAIN Batches
    BY DEF Joined, At, BatchInv
  <1>2. Return(FALSE) => BatchMoves
    BY RunChanges DEF BatchMoves
  <1>3. Goto("down-query") => BatchMoves
    <2>1. Goto("down-query") => run'.step = "down-query" /\ run'.batch = run.batch
      BY RunChanges DEF SameBut, Fields
    <2> QED BY <1>1, <2>1 DEF BatchMoves, BatchSteps
  <1>4. Spawn("define") => BatchMoves
    BY <1>1, SpawnFacts DEF BatchMoves
  <1>5. run.group \notin {"define", "ssh"} /\ ~run.errs
          /\ run' = [run EXCEPT !.step = "query", !.batch = @ + 1] => BatchMoves
    BY <1>0, <1>1 DEF BatchMoves, BatchInv, Fields
  <1> QED BY <1>2, <1>3, <1>4, <1>5 DEF Joined

LEMMA JobMoves ==
  ASSUME DomainsTyped, HostTyped, InCommand, BatchInv, cmd.name = "install-batches",
         UNCHANGED cmd, NEW j \in run.jobs, Job(j)
  PROVE  BatchMoves
  <1>0. DOMAIN run = Fields
    BY FinishedFields DEF DomainsTyped
  <1>1. run.step = "wg" /\ run.batch \in DOMAIN Batches
    BY DEF Job, At, BatchInv
  <1>2. \A failed \in BOOLEAN : JobEnds(j, failed) =>
          /\ run'.step = "wg" /\ run'.batch = run.batch /\ run'.group = run.group
          /\ run'.jobs = run.jobs \ {j} /\ run'.errs = (run.errs \/ failed)
    BY <1>0, <1>1 DEF JobEnds, Fields
  <1>3. \A call : JobGoesOn(j, call) =>
          /\ run'.step = "wg" /\ run'.batch = run.batch /\ run'.group = run.group
          /\ run'.jobs = (run.jobs \ {j}) \cup {<<j[1], call>>} /\ run'.errs = run.errs
    BY <1>0, <1>1 DEF JobGoesOn, Fields
  <1>4. JobEnds(j, TRUE) => BatchMoves
    BY <1>1, <1>2 DEF BatchMoves
  <1>5. ASSUME JobEnds(j, FALSE), j[2] \notin {"setmaxmem", "setmem"} PROVE BatchMoves
    <2>1. run.errs => run'.errs
      BY <1>2, <1>5
    <2>2. \A v \in VMs : j # <<v, "setmaxmem">> /\ j # <<v, "setmem">>
      BY <1>5
    <2>3. \A v \in VMs : Pending(v) => Pending(v)'
      BY <1>2, <1>5, <2>2 DEF Pending
    <2> QED BY <1>1, <1>2, <1>5, <2>1, <2>3 DEF BatchMoves
  <1>6. ASSUME j[2] = "ssh", JobEnds(j, ~Reachable(j[1])) PROVE BatchMoves
    <2>1. Reachable(j[1]) \in BOOLEAN
      BY DEF Reachable
    <2> QED BY <1>4, <1>5, <1>6
  <1>7. ASSUME j[2] = "setmaxmem", JobGoesOn(j, "setmem") PROVE BatchMoves
    <2>0. run.errs => run'.errs
      BY <1>3, <1>7
    <2>1. \A v \in VMs : Pending(v) => Pending(v)'
      BY <1>3, <1>7 DEF Pending
    <2> QED BY <1>1, <1>3, <1>7, <2>0, <2>1 DEF BatchMoves
  <1>8. ASSUME j[2] = "setmem", Did("setmem", j[1]), JobGoesOn(j, "start") PROVE BatchMoves
    <2>0. run.errs => run'.errs
      BY <1>3, <1>8
    <2>1. ASSUME NEW v \in VMs, Pending(v) PROVE Pending(v)' \/ memory'[v] = "final"
      <3>1. CASE j = <<v, "setmem">>
        BY <1>8, <3>1, DidFacts
      <3>2. CASE j # <<v, "setmem">> /\ j # <<v, "setmaxmem">>
        BY <1>3, <1>8, <2>1, <3>2 DEF Pending
      <3> QED BY <1>8, <3>1, <3>2
    <2> QED BY <1>1, <1>3, <1>8, <2>0, <2>1 DEF BatchMoves
  <1> HIDE DEF BatchMoves
  <1> QED
    <2>1. CASE j[2] = "ssh"
      BY <2>1, <1>6 DEF Job
    <2>2. CASE j[2] = "define" /\ ~Defined(j[1])
      BY <2>2, <1>5 DEF Job
    <2>3. CASE j[2] = "setmaxmem"
      BY <2>3, <1>4, <1>7 DEF Job, Virsh
    <2>4. CASE j[2] = "setmem"
      BY <2>4, <1>4, <1>8 DEF Job, Virsh, Did, Done
    <2>5. CASE j[2] \notin {"ssh", "setmaxmem", "setmem"} /\ ~(j[2] = "define" /\ ~Defined(j[1]))
      BY <2>5, <1>4, <1>5 DEF Job, Virsh
    <2> QED BY <2>1, <2>2, <2>3, <2>4, <2>5

LEMMA BatchingSteady ==
  ASSUME DomainsTyped, HostTyped, UNCHANGED cmd, Batching
  PROVE  Steady
  <1>1. UNCHANGED hostVars => Steady
    BY StillSteady DEF hostVars
  <1>2. \A op, v : Did(op, v) => Steady
    BY DidFacts
  <1> USE <1>1, <1>2 DEF Virsh, Query, Did, Done, Untouched, hostVars
  <1>3. CASE BootBatch
    BY <1>3 DEF BootBatch
  <1>4. CASE ShutDownBatch
    BY <1>4 DEF ShutDownBatch
  <1>5. CASE Joined
    BY <1>5 DEF Joined
  <1>6. ASSUME NEW j \in run.jobs, Job(j) PROVE Steady
    BY <1>6 DEF Job
  <1>7. CASE TimesOut
    BY <1>7 DEF TimesOut
  <1> QED BY <1>3, <1>4, <1>5, <1>6, <1>7 DEF Batching

\* The goroutines of fix-boot-order stay in it.
LEMMA FixBootMoves ==
  ASSUME DomainsTyped, HostTyped, InCommand, cmd.name = "fix-boot-order", Batching
  PROVE  run'.step \in {"wg", "done"} /\ run'.group = "define"
  <1>0. DOMAIN run = Fields
    BY FinishedFields DEF DomainsTyped
  <1>1. run.step \in {"wg", "done"} /\ run.group = "define"
    BY DEF InCommand, StepsOf
  <1>2. Joined \/ \E j \in run.jobs : Job(j)
    BY <1>1 DEF Batching, BootBatch, ShutDownBatch, At
  <1>3. CASE Joined
    <2>1. \A ok : Return(ok) => run'.step = "done" /\ run'.group = "define"
      BY DEF Return, Finished
    <2> QED BY <1>1, <1>3, <2>1 DEF Joined
  <1>4. ASSUME NEW j \in run.jobs, Job(j) PROVE run'.step = "wg" /\ run'.group = "define"
    <2>1. run.step = "wg"
      BY <1>4 DEF Job, At
    <2>2. \A failed : JobEnds(j, failed) => run'.step = "wg" /\ run'.group = "define"
      BY <1>0, <1>1, <2>1 DEF JobEnds, Fields
    <2>3. \A call : JobGoesOn(j, call) => run'.step = "wg" /\ run'.group = "define"
      BY <1>0, <1>1, <2>1 DEF JobGoesOn, Fields
    <2> QED BY <1>4, <2>2, <2>3 DEF Job, Virsh
  <1> QED BY <1>2, <1>3, <1>4

LEMMA BatchingKeeps ==
  ASSUME DomainsTyped, SuccessInv, UNCHANGED cmd, Batching
  PROVE  SuccessInv'
  <1> USE DEF SuccessInv
  <1>1. Steady
    BY BatchingSteady
  <1>2. CASE cmd.name = "fix-boot-order"
    BY <1>1, <1>2, FixBootMoves DEF Steady, InCommand, StepsOf, StopInv, BatchInv, InitInv
  <1>3. CASE cmd.name = "install-batches"
    <2>1. BatchMoves
      BY <1>3, BatchLoopMoves, JoinedMoves, JobMoves DEF Batching
    <2>2. InCommand'
      BY <1>3, <2>1 DEF BatchMoves, InCommand, StepsOf, BatchSteps
    <2>3. \A b \in DOMAIN Batches : Sized(b) => Sized(b)'
      BY <1>1, BatchVMs DEF Sized, Steady, FinalKept
    <2>4. /\ run.batch \in Nat \ {0} /\ Len(Batches) \in Nat /\ DOMAIN Batches = 1..Len(Batches)
          /\ \A b \in DOMAIN Batches : run.batch > b => Sized(b)
      BY <1>3, VMsAssumption DEF BatchInv
    <2>5. BatchInv'
      <3> USE <1>3 DEF BatchInv
      <3>1. CASE run'.step = "done" /\ ~run'.ok /\ run'.batch = 1
        BY <2>4, <3>1 DEF At
      <3>2. CASE run'.step = "done" /\ run'.batch = 1 /\ run.step = "query" /\ run.batch > Len(Batches)
        <4>1. \A b \in DOMAIN Batches : run.batch > b
          BY <2>4, <3>2
        <4> QED BY <2>3, <2>4, <3>2, <4>1
      <3>3. CASE /\ run'.step \in BatchSteps \ {"query", "wg"} /\ run'.batch = run.batch
                 /\ run.batch \in DOMAIN Batches
        BY <2>3, <2>4, <3>3 DEF BatchSteps, At
      <3>4. CASE /\ run'.step = "wg" /\ run'.batch = run.batch /\ run.batch \in DOMAIN Batches
                 /\ run'.group \in {"ssh", "define"}
        BY <2>3, <2>4, <3>4 DEF At
      <3>5. CASE /\ run'.step = "wg" /\ run'.batch = run.batch /\ run.batch \in DOMAIN Batches
                 /\ run'.group = "setmaxmem" /\ run'.jobs = Jobs("setmaxmem")
        <4>1. \A k \in DOMAIN Batches[run.batch] : Pending(Batches[run.batch][k])'
          BY <3>5 DEF Jobs, Pending
        <4> QED BY <2>3, <2>4, <3>5, <4>1 DEF At
      <3>6. CASE /\ run.step = "wg" /\ run'.step = "wg" /\ run'.batch = run.batch
                 /\ run'.group = run.group /\ run.batch \in DOMAIN Batches
                 /\ \/ run'.errs
                    \/ /\ ~run.errs
                       /\ \A v \in VMs : Pending(v) => Pending(v)' \/ memory'[v] = "final"
        <4>1. ASSUME run.group = "setmaxmem", ~run'.errs, NEW k \in DOMAIN Batches[run.batch]
              PROVE  memory'[Batches[run.batch][k]] = "final" \/ Pending(Batches[run.batch][k])'
          <5>1. Batches[run.batch][k] \in VMs
            BY <3>6, <4>1, BatchVMs
          <5>2. memory[Batches[run.batch][k]] = "final" \/ Pending(Batches[run.batch][k])
            BY <3>6, <4>1
          <5> QED BY <1>1, <3>6, <4>1, <5>1, <5>2 DEF Steady, FinalKept
        <4> QED BY <2>3, <2>4, <3>6, <4>1 DEF At
      <3>7. CASE /\ run.step = "wg" /\ run.group = "setmaxmem" /\ ~run.errs /\ run.jobs = {}
                 /\ run'.step = "query" /\ run'.batch = run.batch + 1
        <4>1. Sized(run.batch)
          BY <3>7 DEF Sized, Pending
        <4>2. \A b \in DOMAIN Batches : run'.batch > b => run.batch > b \/ b = run.batch
          BY <2>4, <3>7
        <4>3. \A b \in DOMAIN Batches : run'.batch > b => Sized(b)'
          BY <2>3, <2>4, <4>1, <4>2
        <4> QED BY <2>4, <3>7, <4>3 DEF At
      <3> QED BY <2>1, <3>1, <3>2, <3>3, <3>4, <3>5, <3>6, <3>7 DEF BatchMoves
    <2> QED BY <1>1, <1>3, <2>2, <2>5 DEF Steady, StopInv, InitInv
  <1>4. cmd.name \in {"install-batches", "fix-boot-order"}
    <2>1. run.step \in BatchSteps
      BY DEF Batching, BootBatch, ShutDownBatch, Joined, Job, TimesOut, At, BatchSteps
    <2> QED BY <2>1, Owners DEF Batching, BootBatch, ShutDownBatch, Joined, Job, TimesOut, At, BatchSteps
  <1> QED BY <1>2, <1>3, <1>4

(***************************************************************************)
(* cleanup and phase init-vms.                                             *)
(***************************************************************************)
NetStates == {"absent", "inactive", "active", "transient"}

\* A virsh net- call that works.
NetDid(op, n) ==
  /\ NetCalled(op, net[n]) # "refused"
  /\ net' = [net EXCEPT ![n] = NetCalled(op, net[n])]
  /\ UNCHANGED <<dom, memory>>

LEMMA NetDidFacts ==
  ASSUME HostTyped, UNCHANGED cmd, NEW op, NEW n, NetDid(op, n)
  PROVE  /\ HostTyped'
         /\ op \in {"net-define", "net-start"} => \A m \in Networks : NetUp(m) => NetUp(m)'
         /\ op = "net-start" /\ n \in Networks => NetUp(n)'
  <1>1. CASE n \in Networks
    BY <1>1 DEF NetDid, HostTyped, NetCalled, NetUp
  <1>2. CASE n \notin Networks
    <2>1. net' = net
      BY <1>2 DEF NetDid, HostTyped
    <2> QED BY <1>2, <2>1 DEF NetDid, HostTyped, NetUp
  <1> QED BY <1>1, <1>2

\* The networks in the order setupNetworks takes them.
LEMMA NetsListed == Nets \in Seq(Networks) /\ \A n \in Networks : Listed(n, Nets)
  <1>1. /\ Len(Nets) \in Nat /\ DOMAIN Nets = 1..Len(Nets)
        /\ Nets = [k \in DOMAIN Nets |-> Nets[k]]
    BY NetsAssumption
  <1>2. Nets \in [1..Len(Nets) -> Networks]
    BY <1>1 DEF Networks
  <1> QED BY <1>1, <1>2 DEF Listed, Networks

\* What is not the first of a list is in the rest.
LEMMA ListedTail ==
  ASSUME NEW S, NEW q \in Seq(S), q # <<>>
  PROVE  /\ Head(q) \in S /\ Tail(q) \in Seq(S)
         /\ \A x : Listed(x, q) => x = Head(q) \/ Listed(x, Tail(q))
  <1>1. ASSUME NEW k \in DOMAIN q, k # 1
        PROVE  k - 1 \in DOMAIN Tail(q) /\ Tail(q)[k - 1] = q[k]
    BY <1>1
  <1>2. \A x : Listed(x, q) => x = q[1] \/ Listed(x, Tail(q))
    BY Zenon, <1>1 DEF Listed
  <1>3. Head(q) = q[1] /\ Head(q) \in S /\ Tail(q) \in Seq(S)
    OBVIOUS
  <1> QED BY <1>2, <1>3

Cleaning == CleanupVMs \/ DestroyVM \/ UndefineVM \/ CleanupNetworks \/ PreflightChecks

CleanMoves ==
  \/ run'.step \in CleanSteps
  \/ run'.step = "done" /\ (~run'.ok \/ cmd.name = "cleanup")
  \/ cmd.name = "init-vms" /\ run'.step = "net-check" /\ run'.todo = Nets

LEMMA CleaningTyped ==
  ASSUME DomainsTyped, HostTyped, UNCHANGED cmd, Cleaning
  PROVE  HostTyped'
  <1>1. UNCHANGED <<memory, net>> => HostTyped'
    BY DEF HostTyped
  <1>2. \A op, v : Did(op, v) => HostTyped'
    BY DidFacts DEF Steady
  <1>3. \A op, n : NetDid(op, n) => HostTyped'
    BY NetDidFacts
  <1> USE DEF Virsh, VirshNet, Query, Did, Done, NetDid, Untouched, hostVars
  <1>4. CASE CleanupVMs
    BY <1>1, <1>4 DEF CleanupVMs
  <1>5. CASE DestroyVM
    BY <1>1, <1>2, <1>5 DEF DestroyVM, RemoveDisks, RemoveFails
  <1>6. CASE UndefineVM
    BY <1>1, <1>2, <1>6 DEF UndefineVM
  <1>7. CASE CleanupNetworks
    BY <1>1, <1>3, <1>7 DEF CleanupNetworks
  <1>8. CASE PreflightChecks
    BY <1>1, <1>8 DEF PreflightChecks
  <1> QED BY <1>4, <1>5, <1>6, <1>7, <1>8 DEF Cleaning

LEMMA CleaningMoves ==
  ASSUME DomainsTyped, HostTyped, InCommand, Cleaning
  PROVE  CleanMoves /\ cmd.name \in {"cleanup", "init-vms"}
  <1>0. DOMAIN run = Fields
    BY FinishedFields DEF DomainsTyped
  <1>1. cmd.name \in {"cleanup", "init-vms"}
    BY Owners DEF Cleaning, CleanupVMs, DestroyVM, UndefineVM, CleanupNetworks, PreflightChecks,
                  At, CleanSteps
  <1>2. /\ \A s : s \in CleanSteps /\ Goto(s) => CleanMoves
        /\ \A s, q : s \in CleanSteps /\ WalkStates(s, q) => CleanMoves
        /\ \A s : s \in CleanSteps /\ Skip(s) => CleanMoves
        /\ \A s : s \in CleanSteps /\ SkipFailed(s) => CleanMoves
        /\ Return(FALSE) => CleanMoves
        /\ \A ok : Return(ok) /\ cmd.name = "cleanup" => CleanMoves
        /\ cmd.name = "init-vms" /\ Walk("net-check", Nets) => CleanMoves
    BY RunChanges DEF CleanMoves
  <1>3. /\ ToNets => CleanMoves
        /\ run' = [run EXCEPT !.step = "clean", !.errs = TRUE] => CleanMoves
    BY <1>0 DEF CleanMoves, ToNets, Fields, CleanSteps
  <1>4. /\ "clean" \in CleanSteps /\ "undefine" \in CleanSteps /\ "remove" \in CleanSteps
        /\ "nets" \in CleanSteps /\ "net-destroy" \in CleanSteps /\ "net-undefine" \in CleanSteps
        /\ "clean-query" \in CleanSteps
    BY DEF CleanSteps
  <1>5. cmd.name # "cleanup" => ~Has("vms-only")
    BY <1>1, RequestsAssumption DEF HostTyped, Has, FlagsOf
  <1> HIDE DEF CleanMoves
  <1>6. CASE CleanupVMs
    BY <1>1, <1>2, <1>3, <1>4, <1>5, <1>6 DEF CleanupVMs, Query
  <1>7. CASE DestroyVM \/ UndefineVM
    BY <1>1, <1>2, <1>4, <1>7 DEF DestroyVM, UndefineVM, Virsh
  <1>8. CASE CleanupNetworks
    <2>2. CASE At("nets") /\ NoMore
      <3>1. run.errs => (Return(~run.errs) => Return(FALSE))
        BY DEF Return
      <3> QED BY <1>1, <1>2, <1>8, <2>2, <3>1 DEF CleanupNetworks, At
    <2> QED BY <1>1, <1>2, <1>4, <1>8, <2>2 DEF CleanupNetworks, Query, VirshNet
  <1>9. CASE PreflightChecks
    <2>1. cmd.name = "init-vms"
      BY <1>9, Owners DEF PreflightChecks, At
    <2> QED BY <1>2, <1>4, <1>9, <2>1 DEF PreflightChecks
  <1> QED BY <1>1, <1>6, <1>7, <1>8, <1>9 DEF Cleaning

LEMMA CleaningKeeps ==
  ASSUME DomainsTyped, SuccessInv, UNCHANGED cmd, Cleaning
  PROVE  SuccessInv'
  <1>1. HostTyped' /\ CleanMoves /\ cmd.name \in {"cleanup", "init-vms"}
    BY CleaningTyped, CleaningMoves DEF SuccessInv
  <1>2. InCommand'
    BY <1>1 DEF CleanMoves, InCommand, StepsOf, NetSteps
  <1>3. InitInv'
    BY <1>1, NetsListed
       DEF CleanMoves, InitInv, InitComplete, CleanSteps, NetSteps, JumpSteps, NodeSteps, At
  <1> QED BY <1>1, <1>2, <1>3 DEF SuccessInv, StopInv, BatchInv

\* virt-install, when it works.
Created(v) ==
  /\ dom' = [dom EXCEPT ![v] = "running"]
  /\ memory' = [memory EXCEPT ![v] = "install"]
  /\ net' = net

LEMMA CreatedFacts ==
  ASSUME DomainsTyped, HostTyped, UNCHANGED cmd, NEW v, Created(v)
  PROVE  /\ HostTyped' /\ net' = net /\ DefinedKept
         /\ v \in VMs => Defined(v)'
  BY DEF Created, DomainsTyped, HostTyped, DefinedKept, Defined

\* A step of init-vms that a lemma below takes care of.
Creates ==
  SetupNetworks \/ ExistingJumpstart \/ NewJumpstart \/ DeployClientNodes \/ InstallClient

LEMMA CreatesHost ==
  ASSUME DomainsTyped, HostTyped, UNCHANGED cmd, Creates
  PROVE  /\ HostTyped' /\ DefinedKept
         /\ ~SetupNetworks => net' = net
  <1>1. UNCHANGED <<dom, memory, net>> => HostTyped' /\ DefinedKept
    BY DEF HostTyped, DefinedKept, Defined
  <1>2. \A v : Did("start", v) => HostTyped' /\ DefinedKept /\ net' = net
    BY DidFacts DEF Steady
  <1>3. \A v : Created(v) => HostTyped' /\ DefinedKept /\ net' = net
    BY CreatedFacts
  <1>4. \A op, n : NetDid(op, n) => HostTyped' /\ DefinedKept
    BY NetDidFacts DEF NetDid, DefinedKept, Defined
  <1>5. CASE SetupNetworks
    BY <1>1, <1>4, <1>5 DEF SetupNetworks, Query, VirshNet, NetDid, Untouched, hostVars
  <1>6. CASE ExistingJumpstart
    BY <1>1, <1>2, <1>6 DEF ExistingJumpstart, Query, Virsh, Did, Done, Untouched, hostVars
  <1>7. CASE NewJumpstart
    BY <1>1, <1>2, <1>3, <1>7
       DEF NewJumpstart, CreateDisks, Virsh, Did, Done, VirtInstall, Created, Untouched, hostVars
  <1>8. CASE DeployClientNodes \/ InstallClient
    BY <1>1, <1>3, <1>8
       DEF DeployClientNodes, InstallClient, CreateDisks, Query, VirtInstall, Created, Untouched, hostVars
  <1> QED BY <1>5, <1>6, <1>7, <1>8 DEF Creates

NetsLeft ==
  /\ run.todo \in Seq(Networks)
  /\ \A n \in Networks : NetUp(n) \/ Listed(n, run.todo)
AllUp == \A n \in Networks : NetUp(n)
NodesLeft ==
  /\ \A v \in VMs : run.states[v] # "absent" => Defined(v)
  /\ \A k \in DOMAIN Clients : Defined(Clients[k]) \/ Listed(Clients[k], run.todo)
JumpstartThere == WantsJumpstart => Defined(Jumpstart)

\* How a step of a creation leaves it.
CreateMoves ==
  \/ run'.step = "done" /\ ~run'.ok
  \/ run'.step = "net-check" /\ NetsLeft'
  \/ run'.step \in {"net-define", "net-start"} /\ NetsLeft' /\ run'.todo # <<>>
  \/ run'.step \in {"jump-query", "jump-disk", "jump-install"} /\ AllUp'
  \/ run'.step \in {"jump-start", "jump-ssh", "jump-wait", "jump-boot"} /\ AllUp' /\ Defined(Jumpstart)'
  \/ run'.step = "node-query" /\ AllUp' /\ JumpstartThere'
  \/ run'.step \in {"node", "node-install"} /\ AllUp' /\ JumpstartThere' /\ NodesLeft'
  \/ /\ run'.step = "done" /\ AllUp' /\ JumpstartThere'
     /\ WantsNodes => \A k \in DOMAIN Clients : Defined(Clients[k])'

LEMMA CreateMovesKeep ==
  ASSUME SuccessInv, UNCHANGED cmd, cmd.name = "init-vms", HostTyped', CreateMoves
  PROVE  SuccessInv'
  <1>1. InCommand'
    BY DEF CreateMoves, InCommand, StepsOf, NetSteps, JumpSteps, NodeSteps
  <1>2. InitInv'
    <2> USE DEF InitInv, InitComplete, NetSteps, JumpSteps, NodeSteps, At, WantsJumpstart, WantsNodes, Has
    <2>1. CASE run'.step = "done" /\ ~run'.ok
      BY <2>1
    <2>2. CASE run'.step \in NetSteps /\ NetsLeft' /\ (run'.step # "net-check" => run'.todo # <<>>)
      BY <2>2 DEF NetsLeft
    <2>3. CASE run'.step \in JumpSteps /\ AllUp'
               /\ (run'.step \in {"jump-start", "jump-ssh", "jump-wait", "jump-boot"} => Defined(Jumpstart)')
      BY <2>3 DEF AllUp
    <2>4. CASE run'.step = "node-query" /\ AllUp' /\ JumpstartThere'
      BY <2>4 DEF AllUp, JumpstartThere
    <2>5. CASE run'.step \in {"node", "node-install"} /\ AllUp' /\ JumpstartThere' /\ NodesLeft'
      BY <2>5 DEF AllUp, JumpstartThere, NodesLeft
    <2>6. CASE /\ run'.step = "done" /\ AllUp' /\ JumpstartThere'
               /\ WantsNodes => \A k \in DOMAIN Clients : Defined(Clients[k])'
      BY <2>6 DEF AllUp, NetUp, JumpstartThere
    <2> QED BY <2>1, <2>2, <2>3, <2>4, <2>5, <2>6 DEF CreateMoves
  <1> QED BY <1>1, <1>2 DEF SuccessInv, StopInv, BatchInv

LEMMA NetworksMove ==
  ASSUME DomainsTyped, SuccessInv, UNCHANGED cmd, cmd.name = "init-vms", SetupNetworks
  PROVE  CreateMoves
  <1> USE DEF SuccessInv
  <1>1. /\ run.step \in NetSteps
        /\ NetsLeft
        /\ run.step \in {"net-define", "net-start"} => ~NoMore
    BY DEF SetupNetworks, At, NetSteps, InitInv, NetsLeft, NoMore
  <1>2. Return(FALSE) => CreateMoves
    BY RunChanges DEF CreateMoves
  <1>3. ASSUME \A n \in Networks : NetUp(n) => NetUp(n)', ~NoMore,
               Goto("net-define") \/ Goto("net-start")
        PROVE  CreateMoves
    <2>1. run'.step \in {"net-define", "net-start"} /\ run'.todo = run.todo
      BY <1>3, RunChanges DEF SameBut, Fields
    <2>2. NetsLeft'
      BY <1>1, <1>3, <2>1 DEF NetsLeft, NetUp
    <2> QED BY <1>3, <2>1, <2>2 DEF CreateMoves, NoMore
  <1>4. ASSUME Skip("net-check"), ~NoMore, NEW c, c = Current, NetUp(c)',
               \A n \in Networks : NetUp(n) => NetUp(n)'
        PROVE  CreateMoves
    <2>1. run'.step = "net-check" /\ run'.todo = Tail(run.todo)
      BY <1>4, RunChanges
    <2>2. /\ Tail(run.todo) \in Seq(Networks)
          /\ \A x : Listed(x, run.todo) => x = c \/ Listed(x, Tail(run.todo))
      BY <1>1, <1>4, ListedTail DEF NetsLeft, NoMore, Current
    <2>3. \A n \in Networks : NetUp(n)' \/ Listed(n, Tail(run.todo))
      BY Zenon, <1>1, <1>4, <2>2 DEF NetsLeft
    <2>4. NetsLeft'
      BY <2>1, <2>2, <2>3 DEF NetsLeft, Listed
    <2> QED BY <2>1, <2>4 DEF CreateMoves
  <1>c. PICK c : c = Current
    OBVIOUS
  <1>5. ~NoMore => c \in Networks
    BY <1>1, <1>c, ListedTail DEF NetsLeft, NoMore, Current
  <1>6. CASE At("net-check") /\ NoMore
    <2>1. AllUp
      <3>1. \A n : ~Listed(n, run.todo)
        BY <1>6 DEF NoMore, Listed
      <3> QED BY <1>1, <3>1 DEF NetsLeft, AllUp
    <2>2. AllUp' /\ (Goto("jump-query") \/ (~WantsJumpstart /\ Goto("node-query")))
      BY <1>6, <2>1 DEF SetupNetworks, Untouched, At, AllUp, NetUp
    <2>3. ~WantsJumpstart => JumpstartThere'
      BY DEF JumpstartThere, WantsJumpstart, Has
    <2> QED BY <2>2, <2>3, RunChanges DEF CreateMoves
  <1>7. CASE At("net-check") /\ ~NoMore
    <2>1. net' = net
      BY <1>7 DEF SetupNetworks, Query, hostVars, At
    <2>2. net[c] \in NetStates
      BY <1>5, <1>7 DEF HostTyped, NetStates
    <2>3. \A n : NetUp(n) => NetUp(n)'
      BY <2>1 DEF NetUp
    <2>4. net[c] \notin {"absent", "inactive"} => NetUp(c)
      BY <2>2 DEF NetUp, NetStates
    <2>5. \/ Goto("net-define") \/ Goto("net-start")
          \/ net[c] \notin {"absent", "inactive"} /\ Skip("net-check")
      BY <1>7, <1>c DEF SetupNetworks, Query, At
    <2>6. net[c] \notin {"absent", "inactive"} => NetUp(c)'
      BY <2>3, <2>4
    <2> QED BY <1>3, <1>4, <1>7, <1>c, <2>3, <2>5, <2>6
  <1>8. CASE At("net-define") \/ At("net-start")
    <2>1. ~NoMore
      BY <1>1, <1>8 DEF At
    <2>2. \/ NetDid("net-define", c) /\ Goto("net-start")
          \/ NetDid("net-start", c) /\ Skip("net-check")
          \/ Return(FALSE)
      BY <1>8, <1>c DEF SetupNetworks, VirshNet, NetDid, At
    <2>3. NetDid("net-start", c) => NetUp(c)'
      BY <2>1, <1>5, NetDidFacts
    <2>4. NetDid("net-define", c) \/ NetDid("net-start", c) => \A n \in Networks : NetUp(n) => NetUp(n)'
      BY NetDidFacts
    <2> QED BY <1>2, <1>3, <1>4, <1>c, <2>1, <2>2, <2>3, <2>4
  <1> QED BY <1>1, <1>6, <1>7, <1>8 DEF NetSteps, At

\* The jumpstart is there, or was not asked for: on to the nodes, or done.
LEMMA JumpstartDoneMoves ==
  ASSUME DomainsTyped, AllUp', JumpstartThere', UNCHANGED cmd, JumpstartDone
  PROVE  CreateMoves
  <1>1. WantsNodes' = WantsNodes
    BY DEF WantsNodes, Has
  <1> QED BY <1>1, RunChanges DEF JumpstartDone, CreateMoves

LEMMA JumpstartMoves ==
  ASSUME DomainsTyped, SuccessInv, UNCHANGED cmd, cmd.name = "init-vms",
         ExistingJumpstart \/ NewJumpstart
  PROVE  CreateMoves
  <1> USE DEF SuccessInv
  <1>1. run.step \in JumpSteps
    BY DEF ExistingJumpstart, NewJumpstart, At, JumpSteps
  <1>2. HostTyped' /\ DefinedKept /\ net' = net
    BY CreatesHost DEF Creates, ExistingJumpstart, NewJumpstart, SetupNetworks, At
  <1>3. AllUp'
    BY <1>1, <1>2 DEF InitInv, AllUp, NetUp
  <1>4. Return(FALSE) => CreateMoves
    BY RunChanges DEF CreateMoves
  <1>5. /\ \A s : s \in {"jump-disk", "jump-install"} /\ Goto(s) => CreateMoves
        /\ \A s : s \in {"jump-start", "jump-ssh", "jump-wait", "jump-boot"} /\ Goto(s)
                    /\ Defined(Jumpstart)' => CreateMoves
    BY <1>3, RunChanges DEF CreateMoves
  <1>6. JumpstartDone /\ Defined(Jumpstart)' => CreateMoves
    BY <1>3, JumpstartDoneMoves DEF JumpstartThere
  <1>7. Jumpstart \in VMs
    BY ClientsTyped
  <1>8. Defined(Jumpstart) => Defined(Jumpstart)'
    BY <1>2, <1>7 DEF DefinedKept
  <1>9. run.step \in {"jump-start", "jump-ssh", "jump-wait", "jump-boot"} => Defined(Jumpstart)'
    BY <1>8 DEF InitInv
  <1> HIDE DEF SuccessInv, CreateMoves
  <1>10. CASE ExistingJumpstart
    <2>1. CASE At("jump-query")
      <3>1. CASE ~Defined(Jumpstart)
        <4>1. Goto("jump-disk") \/ Return(FALSE)
          BY <1>10, <2>1, <3>1 DEF ExistingJumpstart, Query, At, Defined
        <4>2. "jump-disk" \in {"jump-disk", "jump-install"}
          OBVIOUS
        <4> QED BY <1>4, <1>5, <4>1, <4>2
      <3>2. CASE Defined(Jumpstart)
        BY <1>4, <1>5, <1>8, <1>10, <2>1, <3>2 DEF ExistingJumpstart, Query, At
      <3> QED BY <3>1, <3>2
    <2>2. CASE At("jump-start") \/ At("jump-ssh")
      BY <1>4, <1>5, <1>6, <1>9, <1>10, <2>2 DEF ExistingJumpstart, Virsh, At
    <2> QED BY <1>10, <2>1, <2>2 DEF ExistingJumpstart
  <1>11. CASE NewJumpstart
    <2>1. CASE At("jump-disk")
      BY <1>4, <1>5, <1>11, <2>1 DEF NewJumpstart, At
    <2>2. CASE At("jump-install")
      <3>1. Created(Jumpstart) => Defined(Jumpstart)'
        BY <1>7, CreatedFacts DEF SuccessInv
      <3> QED BY <1>4, <1>5, <1>11, <2>2, <3>1 DEF NewJumpstart, VirtInstall, Created, At
    <2>3. CASE At("jump-wait") \/ At("jump-boot")
      BY <1>4, <1>5, <1>6, <1>9, <1>11, <2>3 DEF NewJumpstart, Virsh, At
    <2> QED BY <1>11, <2>1, <2>2, <2>3 DEF NewJumpstart
  <1> QED BY <1>10, <1>11

\* The VMs of a list are the clients'.
LEMMA ClientsListed == \A k \in DOMAIN Clients : Clients[k] \in VMs /\ Listed(Clients[k], Clients)
  BY DEF VMs, Listed

LEMMA NodesMove ==
  ASSUME DisksInv, SuccessInv, UNCHANGED cmd, cmd.name = "init-vms",
         DeployClientNodes \/ InstallClient
  PROVE  CreateMoves
  <1> USE DEF SuccessInv
  <1>0. DomainsTyped /\ VMsLeft
    BY DEF DisksInv
  <1>1. run.step \in NodeSteps
    BY DEF DeployClientNodes, InstallClient, At, NodeSteps
  <1>2. HostTyped' /\ DefinedKept /\ net' = net
    BY <1>0, CreatesHost DEF Creates, DeployClientNodes, InstallClient, SetupNetworks, At
  <1>3. AllUp'
    BY <1>1, <1>2 DEF InitInv, AllUp, NetUp
  <1>4. Return(FALSE) => CreateMoves
    BY <1>0, RunChanges DEF CreateMoves
  <1>5. JumpstartThere'
    BY <1>1, <1>2, ClientsTyped DEF InitInv, DefinedKept, JumpstartThere, WantsJumpstart, Has
  <1>6. CASE At("node-query")
    <2>1. ASSUME WalkStates("node", Clients), UNCHANGED dom PROVE CreateMoves
      <3>1. run'.step = "node" /\ run'.todo = Clients /\ run'.states = dom
        BY <1>0, <2>1, RunChanges
      <3>2. NodesLeft'
        BY <2>1, <3>1, ClientsListed DEF NodesLeft, Defined, Listed
      <3> QED BY <1>3, <1>5, <3>1, <3>2 DEF CreateMoves
    <2> QED BY <1>4, <1>6, <2>1 DEF DeployClientNodes, InstallClient, Query, hostVars, At
  <1>7. run.step \in {"node", "node-install"} => NodesLeft
    BY DEF InitInv, NodesLeft
  <1>8. CASE At("node") /\ NoMore
    <2>1. \A k \in DOMAIN Clients : Defined(Clients[k])
      BY <1>7, <1>8 DEF At, NoMore, NodesLeft, Listed
    <2>2. \A k \in DOMAIN Clients : Defined(Clients[k])'
      BY <1>2, <2>1, ClientsListed DEF DefinedKept
    <2>3. Return(TRUE)
      BY <1>8 DEF DeployClientNodes, InstallClient, At
    <2> QED BY <1>0, <1>3, <1>5, <2>2, <2>3, RunChanges DEF CreateMoves
  <1>c. PICK c : c = Current
    OBVIOUS
  <1>9. ASSUME Skip("node"), run.step \in {"node", "node-install"}, ~NoMore, Defined(c)'
        PROVE  CreateMoves
    <2>1. run'.step = "node" /\ run'.todo = Tail(run.todo) /\ run'.states = run.states
      BY <1>0, <1>9, RunChanges DEF SameBut, Fields
    <2>2. \A x : Listed(x, run.todo) => x = c \/ Listed(x, Tail(run.todo))
      <3>1. run.todo \in Seq(VMs \ {Jumpstart}) /\ run.todo # <<>>
        BY <1>0, <1>9 DEF VMsLeft, Creating, NoMore
      <3> QED BY <3>1, <1>c, ListedTail DEF Current
    <2>3. \A k \in DOMAIN Clients : Defined(Clients[k]) => Defined(Clients[k])'
      BY <1>2, ClientsListed DEF DefinedKept
    <2>4. \A k \in DOMAIN Clients : Defined(Clients[k])' \/ Listed(Clients[k], Tail(run.todo))
      BY Zenon, <1>7, <1>9, <2>2, <2>3 DEF NodesLeft
    <2>5. \A v \in VMs : run.states[v] # "absent" => Defined(v)'
      BY <1>2, <1>7, <1>9 DEF NodesLeft, DefinedKept
    <2>6. NodesLeft'
      BY <2>1, <2>4, <2>5 DEF NodesLeft, Listed
    <2> QED BY <1>3, <1>5, <2>1, <2>6 DEF CreateMoves
  <1>10. ASSUME Goto("node-install"), At("node"), UNCHANGED dom PROVE CreateMoves
    <2>1. run'.step = "node-install" /\ run'.todo = run.todo /\ run'.states = run.states
      BY <1>0, <1>10, RunChanges DEF SameBut, Fields
    <2>2. NodesLeft'
      BY <1>7, <1>10, <2>1 DEF NodesLeft, At, Defined, Listed
    <2> QED BY <1>3, <1>5, <2>1, <2>2 DEF CreateMoves
  <1>11. (At("node") /\ ~NoMore) \/ At("node-install") => c \in VMs /\ ~NoMore
    <2>1. At("node-install") => ~NoMore
      BY <1>0 DEF At, VMsLeft, OnOne, NoMore
    <2> QED BY <1>0, <1>c, <2>1, CurrentFacts DEF At, Creating
  <1>12. CASE At("node") /\ ~NoMore
    <2>1. run.states[c] # "absent" => Defined(c)'
      BY <1>2, <1>7, <1>11, <1>12 DEF NodesLeft, DefinedKept, At
    <2> QED BY <1>4, <1>9, <1>10, <1>12, <1>c, <2>1
            DEF DeployClientNodes, InstallClient, CreateDisks, At
  <1>13. CASE At("node-install")
    <2>1. Created(c) => Defined(c)'
      BY <1>0, <1>11, <1>13, CreatedFacts
    <2> QED BY <1>4, <1>9, <1>11, <1>13, <1>c, <2>1
            DEF DeployClientNodes, InstallClient, VirtInstall, Created, At
  <1> QED BY <1>6, <1>8, <1>12, <1>13 DEF DeployClientNodes, InstallClient

LEMMA CreatesKeep ==
  ASSUME DisksInv, SuccessInv, UNCHANGED cmd, Creates
  PROVE  SuccessInv'
  <1>1. cmd.name = "init-vms"
    BY Owners DEF SuccessInv, Creates, SetupNetworks, ExistingJumpstart, NewJumpstart,
         DeployClientNodes, InstallClient, At, NetSteps, JumpSteps, NodeSteps
  <1>2. DomainsTyped
    BY DEF DisksInv
  <1>3. HostTyped'
    BY <1>2, CreatesHost DEF SuccessInv
  <1>4. CreateMoves
    BY <1>1, <1>2, NetworksMove, JumpstartMoves, NodesMove DEF Creates
  <1> QED BY <1>1, <1>3, <1>4, CreateMovesKeep

(***************************************************************************)
(* The other commands, and all together.                                   *)
(***************************************************************************)
Others == StartAllVMs \/ ShrinkVMRAM \/ RecreateFailedVMs \/ TestFailover \/ (At("off-yet") /\ TimesOut)

LEMMA OthersKeep ==
  ASSUME DomainsTyped, SuccessInv, UNCHANGED cmd, Others
  PROVE  SuccessInv'
  <1> USE DEF SuccessInv
  <1>1. HostTyped'
    <2>1. UNCHANGED <<memory, net>> => HostTyped'
      BY DEF HostTyped
    <2>2. \A op, v : Did(op, v) => HostTyped'
      BY DidFacts DEF Steady
    <2> USE <2>1, <2>2 DEF Virsh, Query, Did, Done, Untouched, hostVars
    <2>3. CASE StartAllVMs \/ ShrinkVMRAM
      BY <2>3 DEF StartAllVMs, ShrinkVMRAM
    <2>4. CASE RecreateFailedVMs
      BY <2>4 DEF RecreateFailedVMs, RemoveDisks, RemoveFails
    <2>5. CASE TestFailover \/ TimesOut
      BY <2>5 DEF TestFailover, TimesOut
    <2> QED BY <2>3, <2>4, <2>5 DEF Others
  <1>2. \/ cmd.name = "start" /\ run'.step \in {"boot", "stagger", "done"}
        \/ cmd.name = "shrink" /\ run'.step \in {"resize", "setmem", "done"}
        \/ cmd.name = "recreate-failed" /\ run'.step \in {"failed", "undefine-failed", "remove-failed", "done"}
        \/ cmd.name = "test-failover" /\ run'.step \in Judging \cup {"done"}
    <2>1. CASE StartAllVMs
      <3>1. cmd.name = "start"
        BY <2>1, Owners DEF StartAllVMs, At
      <3> QED BY <2>1, <3>1, RunChanges DEF StartAllVMs, Query, Virsh
    <2>2. CASE ShrinkVMRAM
      <3>1. cmd.name = "shrink"
        BY <2>2, Owners DEF ShrinkVMRAM, At
      <3> QED BY <2>2, <3>1, RunChanges DEF ShrinkVMRAM, Query, Virsh
    <2>3. CASE RecreateFailedVMs
      <3>1. cmd.name = "recreate-failed"
        BY <2>3, Owners DEF RecreateFailedVMs, At
      <3> QED BY <2>3, <3>1, RunChanges DEF RecreateFailedVMs, Query, Virsh
    <2>4. CASE TestFailover \/ (At("off-yet") /\ TimesOut)
      <3>1. cmd.name = "test-failover"
        BY <2>4, Owners DEF TestFailover, At, Judging
      <3> QED BY <2>4, <3>1, JudgeSteps DEF Judges
    <2> QED BY <2>1, <2>2, <2>3, <2>4 DEF Others
  <1>3. InCommand'
    BY <1>2 DEF InCommand, StepsOf
  <1> QED BY <1>1, <1>2, <1>3 DEF StopInv, BatchInv, InitInv

LEMMA BeginSucceeds ==
  ASSUME SuccessInv, NEW c \in Requests, Begin(c) PROVE SuccessInv'
  <1>1. HostTyped' /\ cmd' = c
    BY DEF SuccessInv, HostTyped, Begin, Untouched
  <1>2. run'.step = FirstStep(c) /\ run'.batch = 1 /\ run'.group = "define"
    BY DEF Begin, Finished
  <1>3. c.name \in {"start", "stop", "shrink", "fix-boot-order", "install-batches",
                    "recreate-failed", "cleanup", "init-vms", "test-failover"}
    BY RequestsAssumption
  <1>4. InCommand'
    BY <1>1, <1>2, <1>3 DEF InCommand, StepsOf, FirstStep, StopSteps, BatchSteps, CleanSteps, Judging
  <1>5. StopInv' /\ InitInv'
    BY <1>1, <1>2, <1>3
       DEF StopInv, StopStops, InitInv, InitComplete, FirstStep, At, NetSteps, JumpSteps, NodeSteps
  <1>6. BatchInv'
    BY <1>1, <1>2, <1>3, VMsAssumption DEF BatchInv, FirstStep, At
  <1> QED BY <1>1, <1>4, <1>5, <1>6 DEF SuccessInv

\* A command that is killed, and the guests.
LEMMA KilledSucceeds ==
  ASSUME SuccessInv, Killed PROVE SuccessInv'
  <1>1. HostTyped' /\ cmd' = cmd
    BY DEF SuccessInv, HostTyped, Killed, hostVars
  <1>2. run'.step = "done" /\ ~run'.ok /\ run'.batch = 1 /\ run'.group = "define"
    BY DEF Killed, Return, Finished
  <1> QED BY <1>1, <1>2, VMsAssumption
          DEF SuccessInv, InCommand, StopInv, StopStops, BatchInv, InitInv, InitComplete, At,
              NetSteps, JumpSteps, NodeSteps

LEMMA SteadySucceeds ==
  ASSUME SuccessInv, Steady, DefinedKept, NoneWakes, UNCHANGED <<cmd, run>>
  PROVE  SuccessInv'
  <1> USE DEF SuccessInv
  <1>1. HostTyped' /\ InCommand'
    BY DEF Steady, InCommand
  <1>2. StopInv'
    BY DEF StopInv, StopStops, NoneWakes, IsUp, At, Has
  <1>3. BatchInv'
    <2>1. \A b \in DOMAIN Batches : \A k \in DOMAIN Batches[b] :
            memory[Batches[b][k]] = "final" => memory'[Batches[b][k]] = "final"
      BY BatchVMs DEF Steady, FinalKept
    <2> QED BY <2>1 DEF BatchInv, Sized, Pending, At
  <1>4. InitInv'
    <2>1. /\ \A n \in Networks : NetUp(n) => NetUp(n)'
          /\ Defined(Jumpstart) => Defined(Jumpstart)'
          /\ \A v \in VMs : Defined(v) => Defined(v)'
          /\ \A k \in DOMAIN Clients : Defined(Clients[k]) => Defined(Clients[k])'
      BY ClientsTyped, ClientsListed DEF Steady, NetUp, DefinedKept
    <2>2. InitComplete => InitComplete'
      BY <2>1 DEF InitComplete, NetUp, At, WantsJumpstart, WantsNodes, Has
    <2> QED BY <2>1, <2>2 DEF InitInv, Listed, WantsJumpstart, Has
  <1> QED BY <1>1, <1>2, <1>3, <1>4

LEMMA InitSucceeds == Init => SuccessInv
  <1> SUFFICES ASSUME Init PROVE SuccessInv
    OBVIOUS
  <1>1. HostTyped
    BY DEF Init, HostInit, HostTyped
  <1>2. run.step = "done" /\ ~run.ok /\ run.batch = 1 /\ run.group = "define"
    BY DEF Init, Finished
  <1> QED BY <1>1, <1>2, VMsAssumption
          DEF SuccessInv, InCommand, StopInv, StopStops, BatchInv, InitInv, InitComplete, At,
              NetSteps, JumpSteps, NodeSteps

LEMMA SuccessStep == DisksInv /\ SuccessInv /\ [Next]_vars => SuccessInv'
  <1> SUFFICES ASSUME DisksInv, SuccessInv, [Next]_vars PROVE SuccessInv'
    OBVIOUS
  <1>0. DomainsTyped /\ DefinedHasDisks /\ HostTyped
    BY DEF DisksInv, SuccessInv
  <1>1. CASE UNCHANGED vars \/ Cancel
    <2>1. UNCHANGED <<dom, memory, net, cmd, run>>
      BY <1>1 DEF vars, Cancel, hostVars
    <2> QED BY <1>0, <2>1, StillSteady, SteadySucceeds
  <1>2. CASE \E c \in Requests : Begin(c)
    BY <1>2, BeginSucceeds
  <1>3. CASE \E v \in VMs : Guest(v)
    BY <1>0, <1>3, GuestsSteady, SteadySucceeds DEF Guest
  <1>4. CASE Killed
    BY <1>4, KilledSucceeds
  <1>5. CASE TimesOut
    <2>1. UNCHANGED cmd /\ (At("wait") \/ At("wait-batch") \/ At("off-yet"))
      BY <1>5 DEF TimesOut
    <2> QED BY <1>0, <1>5, <2>1, StoppingKeeps, BatchingKeeps, OthersKeep DEF Stopping, Batching, Others
  <1>6. CASE Command
    <2>1. UNCHANGED cmd
      BY <1>6 DEF Command
    <2>2. Signal => cmd.name = "stop"
      <3>1. At("query") \/ ~At("query")
        OBVIOUS
      <3> QED BY Owners DEF Signal, At, SuccessInv, StopSteps
    <2> QED BY <1>0, <1>6, <2>1, <2>2, StoppingKeeps, BatchingKeeps, CleaningKeeps, CreatesKeep, OthersKeep
            DEF Command, Stopping, Batching, Cleaning, Creates, Others
  <1> QED BY <1>1, <1>2, <1>3, <1>4, <1>5, <1>6 DEF Next

\* A command that reports success has done its work, whatever calls failed,
\* guests did and earlier commands left: vm stop leaves nothing up, a batch is
\* begun only after every VM of the earlier ones has its final size, init-vms
\* leaves all it was asked for registered.
THEOREM SuccessMeansDone == Spec => []SuccessIsTrue
  <1>1. SuccessInv => SuccessIsTrue
    BY DEF SuccessInv, StopInv, BatchInv, InitInv, SuccessIsTrue, StopStops, BatchesSized,
           InitComplete, Sized
  <1>2. DisksInv /\ SuccessInv /\ [Next]_vars => SuccessInv'
    BY SuccessStep
  <1> QED BY <1>1, <1>2, InitSucceeds, DisksInvariant, PTL DEF Spec

(***************************************************************************)
(* Types.  A sequence loses its head only where it has one, and a guest    *)
(* that is asked to shut down is a VM: TypedInv adds what the loops have   *)
(* left at the steps that rely on it.                                      *)
(***************************************************************************)
Lists == Seq(VMs \cup Networks)
OverVMs == {"signal", "shutdown", "down"}
AtOne == {"shutdown", "setmem", "net-destroy", "net-undefine"}
Fits(s, q) == (s \in OverVMs => q \in Seq(VMs)) /\ (s \in AtOne => q # <<>>)

RunTyped ==
  /\ run.step \in Steps /\ run.ok \in BOOLEAN /\ run.errs \in BOOLEAN
  /\ run.todo \in Lists /\ run.targets \in Seq(VMs)
  /\ \A v \in VMs : run.states[v] \in States
  /\ run.batch \in 1..Len(Batches) + 1 /\ run.group \in Calls
  /\ run.jobs \subseteq VMs \X Calls
  /\ Fits(run.step, run.todo)
CallsTyped == asked \subseteq VMs /\ cancelled \in BOOLEAN /\ faults \in 0..MaxFaults
TypedInv == RunTyped /\ CallsTyped

\* The steps of which Fits says nothing.
Loose == Steps \ (OverVMs \cup AtOne)

LEMMA ListFacts ==
  /\ \A q \in Seq(VMs) : q \in Lists
  /\ \A q \in Lists : q # <<>> => Tail(q) \in Lists
  /\ \A q \in Seq(VMs) : q # <<>> => Head(q) \in VMs /\ Tail(q) \in Seq(VMs)
  /\ <<>> \in Lists /\ <<>> \in Seq(VMs) /\ Nets \in Lists
  <1>1. \A q \in Seq(VMs) : q \in Lists
    BY DEF Lists
  <1>2. \A S : \A q \in Seq(S) : q # <<>> => Head(q) \in S /\ Tail(q) \in Seq(S)
    OBVIOUS
  <1>3. \A S : <<>> \in Seq(S)
    OBVIOUS
  <1>4. Nets \in Lists
    BY NetsListed DEF Lists
  <1> QED BY <1>1, <1>2, <1>3, <1>4 DEF Lists

LEMMA OnlyTyped ==
  ASSUME NEW S, NEW s \in Seq(VMs) PROVE Only(s, S) \in Seq(VMs)
  <1> DEFINE ss == [k \in DOMAIN s |-> IF s[k] \in S THEN <<s[k]>> ELSE <<>>]
  <1>1. \A k \in DOMAIN s : s[k] \in VMs
    OBVIOUS
  <1>2. \A x \in VMs : <<x>> \in Seq(VMs)
    OBVIOUS
  <1>3. <<>> \in Seq(VMs)
    OBVIOUS
  <1>4. DOMAIN s = 1..Len(s) /\ Len(s) \in Nat
    OBVIOUS
  <1>5. ss \in [1..Len(s) -> Seq(VMs)]
    BY <1>1, <1>2, <1>3, <1>4
  <1>6. ss \in Seq(Seq(VMs))
    <2> HIDE DEF ss
    <2> QED BY <1>4, <1>5
  <1>7. FlattenSeq(ss) \in Seq(VMs)
    <2> HIDE DEF ss
    <2> QED BY <1>6, FlattenFacts
  <1> QED BY <1>7 DEF Only

LEMMA StopOrderTyped == StopOrder \in Seq(VMs)
  <1>1. StartOrder \in Seq(VMs)
    BY ClientsTyped
  <1>2. DOMAIN StartOrder = 1..Len(StartOrder) /\ Len(StartOrder) \in Nat
    BY <1>1
  <1>3. \A k \in 1..Len(StartOrder) : Len(StartOrder) + 1 - k \in 1..Len(StartOrder)
    BY <1>2
  <1>4. \A k \in 1..Len(StartOrder) : StartOrder[k] \in VMs
    BY <1>1
  <1>5. StopOrder \in [1..Len(StartOrder) -> VMs]
    BY <1>2, <1>3, <1>4 DEF StopOrder
  <1> QED BY <1>2, <1>5

\* How a step leaves the types of the command.
LEMMA RunStaysTyped ==
  ASSUME DomainsTyped, RunTyped
  PROVE  /\ \A s \in Steps : Goto(s) /\ Fits(s, run.todo) => RunTyped'
         /\ \A s \in Steps, q \in Lists : Walk(s, q) /\ Fits(s, q) => RunTyped'
         /\ \A s \in Steps, q \in Lists : WalkStates(s, q) /\ Fits(s, q) => RunTyped'
         /\ \A s \in Steps : Skip(s) /\ ~NoMore /\ Fits(s, Tail(run.todo)) => RunTyped'
         /\ \A s \in Steps : SkipFailed(s) /\ ~NoMore /\ Fits(s, Tail(run.todo)) => RunTyped'
         /\ \A ok \in BOOLEAN : Return(ok) => RunTyped'
  <1>0. DOMAIN run = Fields
    BY FinishedFields DEF DomainsTyped
  <1>1. ~NoMore => Tail(run.todo) \in Lists
    BY ListFacts DEF NoMore, RunTyped
  <1>2. \A v \in VMs : dom[v] \in States
    BY DEF DomainsTyped, States
  <1>3. \A s \in Steps : Goto(s) /\ Fits(s, run.todo) => RunTyped'
    BY <1>0 DEF Goto, RunTyped, Fields
  <1>4. \A s \in Steps, q \in Lists : Walk(s, q) /\ Fits(s, q) => RunTyped'
    BY <1>0 DEF Walk, RunTyped, Fields
  <1>5. \A s \in Steps, q \in Lists : WalkStates(s, q) /\ Fits(s, q) => RunTyped'
    BY <1>0, <1>2 DEF WalkStates, RunTyped, Fields
  <1>6. \A s \in Steps : Skip(s) /\ ~NoMore /\ Fits(s, Tail(run.todo)) => RunTyped'
    BY <1>1, <1>4 DEF Skip
  <1>7. \A s \in Steps : SkipFailed(s) /\ ~NoMore /\ Fits(s, Tail(run.todo)) => RunTyped'
    BY <1>0, <1>1 DEF SkipFailed, RunTyped, Fields
  <1>8. \A ok \in BOOLEAN : Return(ok) => RunTyped'
    <2> SUFFICES ASSUME NEW ok \in BOOLEAN, Return(ok) PROVE RunTyped'
      OBVIOUS
    <2>1. /\ run'.step = "done" /\ run'.ok = ok /\ run'.errs = FALSE
          /\ run'.todo = <<>> /\ run'.targets = <<>> /\ run'.states = NoStates
          /\ run'.batch = 1 /\ run'.group = "define" /\ run'.jobs = {}
      BY DEF Return, Finished
    <2>2. /\ "done" \in Steps /\ "define" \in Calls /\ Fits("done", <<>>)
          /\ \A v \in VMs : NoStates[v] \in States
      BY DEF Steps, Calls, Fits, OverVMs, AtOne, NoStates, States
    <2>3. 1 \in 1..Len(Batches) + 1
      BY VMsAssumption
    <2> QED BY <2>1, <2>2, <2>3, ListFacts DEF RunTyped
  <1> QED BY <1>3, <1>4, <1>5, <1>6, <1>7, <1>8

\* The same, for the steps of which Fits says nothing.
LEMMA LooseTyped ==
  ASSUME DomainsTyped, RunTyped
  PROVE  /\ \A s \in Loose : Goto(s) => RunTyped'
         /\ \A s \in Loose, q \in Lists : Walk(s, q) \/ WalkStates(s, q) => RunTyped'
         /\ \A s \in Loose : ~NoMore /\ (Skip(s) \/ SkipFailed(s)) => RunTyped'
         /\ Return(TRUE) \/ Return(FALSE) => RunTyped'
  <1>1. \A s \in Loose : s \in Steps /\ \A q : Fits(s, q)
    BY DEF Loose, Fits
  <1> QED BY <1>1, RunStaysTyped

\* The calls a command makes and the faults among them.
LEMMA CommandCalls ==
  ASSUME DisksInv, SuccessInv, OneJudged, TypedInv, Command
  PROVE  asked' \subseteq VMs /\ (faults' = faults \/ Fault)
  <1>1. asked \subseteq VMs
    BY DEF TypedInv, CallsTyped
  <1>2. At("shutdown") \/ (At("down") /\ ~NoMore) \/ (At("scenario") /\ ~NoMore) => Current \in VMs
    BY ListFacts DEF TypedInv, RunTyped, Fits, OverVMs, AtOne, OneJudged, Judging, At, NoMore, Current
  <1> USE <1>1, <1>2 DEF Virsh, Query, Untouched, hostVars
  <1>3. CASE StartAllVMs \/ PollStopped \/ WaitStopped \/ ForceOff \/ ShrinkVMRAM
    BY <1>3 DEF StartAllVMs, PollStopped, WaitStopped, ForceOff, ShrinkVMRAM
  <1>4. CASE Signal
    BY <1>4 DEF Signal
  <1>5. CASE BootBatch \/ Joined
    BY <1>5 DEF BootBatch, Joined
  <1>6. CASE ShutDownBatch
    BY <1>6 DEF ShutDownBatch
  <1>7. ASSUME NEW j \in run.jobs, Job(j) PROVE asked' \subseteq VMs /\ (faults' = faults \/ Fault)
    <2>1. j[2] # "shutdown"
      BY DEF TypedInv, RunTyped, Calls
    <2> QED BY <1>7, <2>1 DEF Job
  <1>8. CASE RecreateFailedVMs
    BY <1>8 DEF RecreateFailedVMs, RemoveDisks, RemoveFails
  <1>9. CASE CleanupVMs \/ DestroyVM \/ UndefineVM
    BY <1>9 DEF CleanupVMs, DestroyVM, UndefineVM, RemoveDisks, RemoveFails
  <1>10. CASE CleanupNetworks \/ PreflightChecks \/ SetupNetworks
    BY <1>10 DEF CleanupNetworks, PreflightChecks, SetupNetworks, VirshNet
  <1>11. CASE ExistingJumpstart \/ NewJumpstart
    BY <1>11 DEF ExistingJumpstart, NewJumpstart, CreateDisks, VirtInstall
  <1>12. CASE DeployClientNodes \/ InstallClient
    BY <1>12 DEF DeployClientNodes, InstallClient, CreateDisks, VirtInstall
  <1>13. CASE TestFailover
    BY <1>13 DEF TestFailover
  <1> QED BY <1>3, <1>4, <1>5, <1>6, <1>7, <1>8, <1>9, <1>10, <1>11, <1>12, <1>13 DEF Command

LEMMA CallsStayTyped ==
  ASSUME DisksInv, SuccessInv, OneJudged, TypedInv, [Next]_vars
  PROVE  CallsTyped'
  <1>0. asked \subseteq VMs /\ cancelled \in BOOLEAN /\ faults \in 0..MaxFaults
    BY DEF TypedInv, CallsTyped
  <1>1. faults' = faults \/ Fault => faults' \in 0..MaxFaults
    BY <1>0, VmFaultsAssumption DEF Fault
  <1>2. CASE Command
    BY <1>0, <1>1, <1>2, CommandCalls DEF Command, CallsTyped
  <1>3. CASE \E c \in Requests : Begin(c)
    BY <1>0, <1>3 DEF Begin, Untouched, CallsTyped
  <1>4. CASE TimesOut \/ Cancel \/ Killed
    BY <1>0, <1>1, <1>4 DEF TimesOut, Cancel, Killed, Untouched, hostVars, CallsTyped
  <1>5. ASSUME NEW v \in VMs, Guest(v) PROVE CallsTyped'
    BY <1>0, <1>1, <1>5 DEF Guest, Guests, Installs, PowersOff, Crashes, Pauses, Unpauses, Off, CallsTyped
  <1>6. CASE UNCHANGED vars
    BY <1>0, <1>6 DEF vars, CallsTyped
  <1> QED BY <1>2, <1>3, <1>4, <1>5, <1>6 DEF Next

\* The loops over sequences of VMs, and the steps of Steps they are at.
LEMMA OrdersTyped ==
  /\ Clients \in Lists /\ StartOrder \in Lists /\ Victims \in Lists
  /\ \A b \in DOMAIN Batches : Batches[b] \in Seq(VMs) /\ Batches[b] \in Lists
  <1>1. \A b \in DOMAIN Batches : Batches[b] \in Seq(VMs)
    <2> SUFFICES ASSUME NEW b \in DOMAIN Batches PROVE Batches[b] \in Seq(VMs)
      OBVIOUS
    <2>1. Batches[b] \in Seq(STRING)
      BY VMsAssumption
    <2>2. /\ Len(Batches[b]) \in Nat /\ DOMAIN Batches[b] = 1..Len(Batches[b])
          /\ Batches[b] = [k \in DOMAIN Batches[b] |-> Batches[b][k]]
      BY <2>1
    <2>3. Batches[b] \in [1..Len(Batches[b]) -> VMs]
      BY <2>2, BatchVMs
    <2> QED BY <2>2, <2>3
  <1>2. Clients \in Seq(VMs)
    <2>1. \A q \in Seq(VMs \ {Jumpstart}) : q \in Seq(VMs)
      OBVIOUS
    <2> QED BY <2>1, ClientsTyped
  <1> QED BY <1>1, <1>2, ClientsTyped, VictimsAssumption, ListFacts

\* vm start, stop, shrink, recreate-failed.
LEMMA LoopsStayTyped ==
  ASSUME DisksInv, SuccessInv, TypedInv,
         StartAllVMs \/ Signal \/ PollStopped \/ WaitStopped \/ ForceOff \/ ShrinkVMRAM \/ RecreateFailedVMs
  PROVE  RunTyped'
  <1>1. DomainsTyped /\ RunTyped
    BY DEF DisksInv, TypedInv
  <1>2. /\ {"boot", "stagger", "poll", "wait", "force", "resize", "failed", "undefine-failed",
            "remove-failed"} \subseteq Loose
        /\ {"signal", "shutdown", "setmem"} \subseteq Steps
    BY DEF Loose, Steps, OverVMs, AtOne
  <1>3. \A S : Only(StopOrder, S) \in Seq(VMs) /\ Only(StopOrder, S) \in Lists
    BY OnlyTyped, StopOrderTyped, ListFacts
  <1>4. CASE StartAllVMs
    BY <1>1, <1>2, <1>4, LooseTyped, OrdersTyped DEF StartAllVMs, Query, Virsh
  <1>5. CASE Signal
    <2>1. \A q \in Seq(VMs) : Fits("signal", q)
      BY DEF Fits, AtOne
    <2>2. At("query") => RunTyped'
      BY <1>1, <1>3, <1>5, <2>1, <1>2, RunStaysTyped, LooseTyped DEF Signal, Query, At
    <2>3. At("signal") \/ At("shutdown") => run.todo \in Seq(VMs)
      BY <1>1 DEF RunTyped, Fits, OverVMs, At
    <2>4. At("signal") /\ ~NoMore => Fits("shutdown", run.todo)
      BY <2>3 DEF Fits, NoMore
    <2>5. At("signal") => RunTyped'
      BY <1>1, <1>2, <1>5, <2>4, RunStaysTyped, LooseTyped DEF Signal, Virsh, At
    <2>6. At("shutdown") => ~NoMore
      BY <1>1 DEF RunTyped, Fits, AtOne, At, NoMore
    <2>7. At("shutdown") => Fits("signal", Tail(run.todo))
      BY <2>1, <2>3, <2>6, ListFacts DEF NoMore
    <2>8. At("shutdown") => RunTyped'
      BY <1>1, <1>2, <1>5, <2>6, <2>7, RunStaysTyped DEF Signal, Virsh, At
    <2> QED BY <1>5, <2>2, <2>5, <2>8 DEF Signal
  <1>6. CASE PollStopped
    BY <1>1, <1>2, <1>3, <1>6, LooseTyped DEF PollStopped, Query
  <1>7. CASE WaitStopped \/ ForceOff
    BY <1>1, <1>2, <1>7, LooseTyped DEF WaitStopped, ForceOff, Virsh
  <1>8. CASE ShrinkVMRAM
    <2>1. ~NoMore => Fits("setmem", run.todo)
      BY DEF Fits, OverVMs, NoMore
    <2>2. At("setmem") => ~NoMore
      BY <1>1 DEF RunTyped, Fits, AtOne, At, NoMore
    <2>3. Return(~run.errs) => RunTyped'
      BY <1>1, RunStaysTyped DEF RunTyped
    <2> QED BY <1>1, <1>2, <1>8, <2>1, <2>2, <2>3, LooseTyped, RunStaysTyped, OrdersTyped
            DEF ShrinkVMRAM, Query, Virsh
  <1>9. CASE RecreateFailedVMs
    <2>1. At("undefine-failed") \/ At("remove-failed") => ~NoMore
      BY DEF DisksInv, VMsLeft, OnOne, At, NoMore
    <2>2. Return(~run.errs) => RunTyped'
      BY <1>1, RunStaysTyped DEF RunTyped
    <2> QED BY <1>1, <1>2, <1>9, <2>1, <2>2, LooseTyped, OrdersTyped DEF RecreateFailedVMs, Query, Virsh
  <1> QED BY <1>4, <1>5, <1>6, <1>7, <1>8, <1>9

\* vm install-batches, and the goroutines.
LEMMA BatchesStayTyped ==
  ASSUME DisksInv, SuccessInv, TypedInv,
         BootBatch \/ ShutDownBatch \/ Joined \/ \E j \in run.jobs : Job(j)
  PROVE  RunTyped'
  <1>0. DomainsTyped /\ RunTyped /\ DOMAIN run = Fields /\ HostTyped /\ InCommand /\ BatchInv
    BY FinishedFields DEF DisksInv, TypedInv, DomainsTyped, SuccessInv
  <1>1. /\ {"boot-batch", "wg", "query", "down-query", "poll-batch", "wait-batch", "force-batch"} \subseteq Loose
        /\ "down" \in Steps
    BY DEF Loose, Steps, OverVMs, AtOne
  <1>2. run.step \in BatchSteps \ {"query", "wg"} => run.batch \in DOMAIN Batches
    BY <1>0, Owners DEF BatchInv, BatchSteps
  <1>3. Len(Batches) \in Nat /\ DOMAIN Batches = 1..Len(Batches)
    BY VMsAssumption
  <1>4. \A call \in Calls : run.batch \in DOMAIN Batches /\ Spawn(call) => RunTyped'
    <2> SUFFICES ASSUME NEW call \in Calls, run.batch \in DOMAIN Batches, Spawn(call) PROVE RunTyped'
      OBVIOUS
    <2>1. Jobs(call) \subseteq VMs \X Calls
      BY BatchVMs DEF Jobs
    <2>2. "wg" \in Steps /\ \A q : Fits("wg", q)
      BY DEF Steps, Fits, OverVMs, AtOne
    <2> QED BY <1>0, <2>1, <2>2 DEF Spawn, RunTyped, Fields
  <1>5. {"ssh", "define", "setmaxmem", "setmem", "start"} = Calls
    BY DEF Calls
  <1>6. CASE BootBatch
    <2>1. At("query") /\ ~(run.batch > Len(Batches)) => run.batch \in DOMAIN Batches
      BY <1>0, <1>3 DEF RunTyped
    <2>2. At("query") => RunTyped'
      BY <1>0, <1>1, <1>6, <2>1, LooseTyped, OrdersTyped DEF BootBatch, Query, At
    <2>3. At("boot-batch") => RunTyped'
      BY <1>0, <1>1, <1>2, <1>4, <1>5, <1>6, LooseTyped DEF BootBatch, Virsh, At, BatchSteps
    <2> QED BY <1>6, <2>2, <2>3 DEF BootBatch
  <1>7. CASE ShutDownBatch
    <2>0. run.batch \in DOMAIN Batches
      BY <1>2, <1>7 DEF ShutDownBatch, At, BatchSteps
    <2>1. Batches[run.batch] \in Seq(VMs) /\ Batches[run.batch] \in Lists
      BY <2>0, OrdersTyped
    <2>2. \A q \in Seq(VMs) : Fits("down", q)
      BY DEF Fits, AtOne
    <2>3. CASE At("down-query")
      BY <1>0, <1>1, <1>7, <2>1, <2>2, <2>3, RunStaysTyped, LooseTyped DEF ShutDownBatch, Query, At
    <2>4. CASE At("down")
      <3>1. run.todo \in Seq(VMs)
        BY <1>0, <2>4 DEF RunTyped, Fits, OverVMs, At
      <3>2. ~NoMore => Fits("down", Tail(run.todo))
        BY <2>2, <3>1, ListFacts DEF NoMore
      <3>3. run' = [run EXCEPT !.step = "poll-batch", !.targets = Batches[run.batch]] => RunTyped'
        BY <1>0, <2>1 DEF RunTyped, Fields, Steps, Fits, OverVMs, AtOne
      <3> QED BY <1>0, <1>1, <1>7, <2>4, <3>2, <3>3, RunStaysTyped, LooseTyped DEF ShutDownBatch, Virsh, At
    <2>5. CASE At("poll-batch")
      <3> DEFINE pending == Only(run.targets, {v \in VMs : dom[v] # "shut off"})
      <3>1. pending \in Seq(VMs) /\ pending \in Lists
        BY <1>0, OnlyTyped, ListFacts DEF RunTyped
      <3>2. \/ run' = [run EXCEPT !.targets = pending, !.todo = pending, !.errs = FALSE,
                                  !.step = IF pending = <<>> THEN "force-batch" ELSE "wait-batch"]
            \/ Return(FALSE)
        BY <1>7, <2>5 DEF ShutDownBatch, Query, At
      <3> HIDE DEF pending
      <3>3. CASE run' = [run EXCEPT !.targets = pending, !.todo = pending, !.errs = FALSE,
                                    !.step = IF pending = <<>> THEN "force-batch" ELSE "wait-batch"]
        BY <1>0, <3>1, <3>3 DEF RunTyped, Fields, Steps, Fits, OverVMs, AtOne
      <3> QED BY <1>0, <3>2, <3>3, LooseTyped
    <2>6. CASE At("wait-batch") \/ At("force-batch")
      BY <1>0, <1>1, <1>4, <1>5, <1>7, <2>0, <2>6, LooseTyped DEF ShutDownBatch, Virsh, At
    <2> QED BY <1>7, <2>3, <2>4, <2>5, <2>6 DEF ShutDownBatch
  <1>8. CASE Joined
    <2>1. Return(~run.errs) => RunTyped'
      BY <1>0, RunStaysTyped DEF RunTyped
    <2>2. cmd.name \in {"install-batches", "fix-boot-order"}
      BY <1>0, <1>8, Owners DEF Joined, At
    <2>3. run.group # "define" => run.batch \in DOMAIN Batches
      BY <1>0, <1>8, <2>2 DEF Joined, At, BatchInv, InCommand
    <2>4. run.batch \in DOMAIN Batches /\ run' = [run EXCEPT !.step = "query", !.batch = @ + 1] => RunTyped'
      <3>1. run.batch \in DOMAIN Batches => run.batch + 1 \in 1..Len(Batches) + 1
        BY <1>3
      <3>2. "query" \in Steps /\ \A q : Fits("query", q)
        BY DEF Steps, Fits, OverVMs, AtOne
      <3> QED BY <1>0, <3>1, <3>2 DEF RunTyped, Fields
    <2> QED BY <1>0, <1>1, <1>4, <1>5, <1>8, <2>1, <2>3, <2>4, LooseTyped DEF Joined
  <1>9. ASSUME NEW j \in run.jobs, Job(j) PROVE RunTyped'
    <2>1. j[1] \in VMs
      BY <1>0 DEF RunTyped
    <2>2. \A failed \in BOOLEAN : JobEnds(j, failed) => RunTyped'
      BY <1>0 DEF JobEnds, RunTyped, Fields
    <2>3. \A call \in Calls : JobGoesOn(j, call) => RunTyped'
      BY <1>0, <2>1 DEF JobGoesOn, RunTyped, Fields
    <2>4. (~Reachable(j[1])) \in BOOLEAN
      OBVIOUS
    <2> QED BY <1>5, <1>9, <2>2, <2>3, <2>4 DEF Job, Virsh
  <1> QED BY <1>6, <1>7, <1>8, <1>9

\* cleanup, and the cleanup of init-vms --recreate.
LEMMA CleaningStaysTyped ==
  ASSUME DisksInv, SuccessInv, TypedInv,
         CleanupVMs \/ DestroyVM \/ UndefineVM \/ CleanupNetworks
  PROVE  RunTyped'
  <1>0. DomainsTyped /\ RunTyped /\ DOMAIN run = Fields
    BY FinishedFields DEF DisksInv, TypedInv, DomainsTyped
  <1>1. /\ {"clean", "undefine", "remove", "nets", "net-check"} \subseteq Loose
        /\ {"net-destroy", "net-undefine"} \subseteq Steps
    BY DEF Loose, Steps, OverVMs, AtOne
  <1>2. ToNets => RunTyped'
    BY <1>0, ListFacts DEF ToNets, RunTyped, Fields, Steps, Fits, OverVMs, AtOne
  <1>3. Return(~run.errs) => RunTyped'
    BY <1>0, RunStaysTyped DEF RunTyped
  <1>4. At("undefine") \/ At("remove") => ~NoMore
    BY DEF DisksInv, VMsLeft, OnOne, At, NoMore
  <1>5. CASE CleanupVMs
    <2>1. run' = [run EXCEPT !.step = "clean", !.errs = TRUE] => RunTyped'
      BY <1>0 DEF RunTyped, Fields, Steps, Fits, OverVMs, AtOne
    <2> QED BY <1>0, <1>1, <1>2, <1>3, <1>5, <2>1, LooseTyped, OrdersTyped DEF CleanupVMs, Query
  <1>6. CASE DestroyVM \/ UndefineVM
    BY <1>0, <1>1, <1>4, <1>6, LooseTyped DEF DestroyVM, UndefineVM, Virsh
  <1>7. CASE CleanupNetworks
    <2>1. ~NoMore => Fits("net-destroy", run.todo) /\ Fits("net-undefine", run.todo)
      BY DEF Fits, OverVMs, NoMore
    <2>2. At("net-destroy") \/ At("net-undefine") => ~NoMore
      BY <1>0 DEF RunTyped, Fits, AtOne, At, NoMore
    <2>3. ~NoMore /\ (Goto("net-destroy") \/ Goto("net-undefine")) => RunTyped'
      BY <1>0, <1>1, <2>1, RunStaysTyped
    <2> QED BY <1>0, <1>1, <1>3, <1>7, <2>2, <2>3, LooseTyped, ListFacts DEF CleanupNetworks, Query, VirshNet
  <1> QED BY <1>5, <1>6, <1>7

\* phase init-vms.
LEMMA CreatingStaysTyped ==
  ASSUME DisksInv, SuccessInv, TypedInv,
         \/ PreflightChecks \/ SetupNetworks \/ ExistingJumpstart \/ NewJumpstart
         \/ DeployClientNodes \/ InstallClient
  PROVE  RunTyped'
  <1>0. DomainsTyped /\ RunTyped /\ HostTyped /\ InCommand /\ InitInv
    BY DEF DisksInv, TypedInv, SuccessInv
  <1>1. {"clean-query", "net-check", "jump-query", "node-query", "net-define", "net-start", "jump-disk",
         "jump-ssh", "jump-start", "jump-install", "jump-wait", "jump-boot", "node",
         "node-install"} \subseteq Loose
    BY DEF Loose, Steps, OverVMs, AtOne
  <1>2. At("net-define") \/ At("net-start") => ~NoMore
    BY <1>0, Owners DEF InitInv, NetSteps, At, NoMore
  <1>3. JumpstartDone => RunTyped'
    BY <1>0, <1>1, LooseTyped DEF JumpstartDone
  <1>4. CASE PreflightChecks
    BY <1>0, <1>1, <1>4, LooseTyped, ListFacts DEF PreflightChecks
  <1>5. CASE SetupNetworks
    <2>1. \A s \in Loose : Goto(s) => RunTyped'
      BY <1>0, LooseTyped
    <2>2. At("net-check") /\ NoMore => RunTyped'
      BY <1>1, <1>5, <2>1 DEF SetupNetworks, At
    <2>3. At("net-check") /\ ~NoMore => RunTyped'
      BY <1>0, <1>1, <1>5, LooseTyped DEF SetupNetworks, At, Query
    <2>4. At("net-define") \/ At("net-start") => RunTyped'
      BY <1>0, <1>1, <1>2, <1>5, LooseTyped DEF SetupNetworks, At, VirshNet
    <2> QED BY <1>5, <2>2, <2>3, <2>4 DEF SetupNetworks
  <1>6. CASE ExistingJumpstart
    BY <1>0, <1>1, <1>3, <1>6, LooseTyped DEF ExistingJumpstart, Query, Virsh
  <1>7. CASE NewJumpstart
    BY <1>0, <1>1, <1>3, <1>7, LooseTyped DEF NewJumpstart, Virsh, VirtInstall
  <1>8. CASE DeployClientNodes
    BY <1>0, <1>1, <1>8, LooseTyped, OrdersTyped DEF DeployClientNodes, Query
  <1>9. CASE InstallClient
    <2>1. ~NoMore
      BY <1>9 DEF InstallClient, DisksInv, VMsLeft, OnOne, At, NoMore
    <2> QED BY <1>0, <1>1, <1>9, <2>1, LooseTyped DEF InstallClient, VirtInstall
  <1> QED BY <1>4, <1>5, <1>6, <1>7, <1>8, <1>9

\* test failover, and the deadlines.
LEMMA JudgingStaysTyped ==
  ASSUME DisksInv, OneJudged, TypedInv, TestFailover \/ TimesOut
  PROVE  RunTyped'
  <1>0. DomainsTyped /\ RunTyped
    BY DEF DisksInv, TypedInv
  <1>1. {"scenario", "off-yet", "restore", "force", "force-batch"} \subseteq Loose
    BY DEF Loose, Steps, OverVMs, AtOne
  <1>2. At("off-yet") \/ At("restore") => ~NoMore
    BY DEF OneJudged, At, NoMore
  <1>3. ~NoMore /\ Verdict => RunTyped'
    BY <1>0, <1>1, LooseTyped DEF Verdict
  <1>4. CASE TestFailover
    <2>1. Return(~cancelled) => RunTyped'
      BY <1>0, RunStaysTyped DEF TypedInv, CallsTyped
    <2> QED BY <1>0, <1>1, <1>2, <1>3, <1>4, <2>1, LooseTyped DEF TestFailover, Query, Virsh
  <1>5. CASE TimesOut
    BY <1>0, <1>1, <1>2, <1>3, <1>5, LooseTyped DEF TimesOut
  <1> QED BY <1>4, <1>5

LEMMA BeginTyped ==
  ASSUME NEW c \in Requests, Begin(c) PROVE RunTyped'
  <1>1. /\ run'.step = FirstStep(c) /\ run'.ok = FALSE /\ run'.errs = FALSE
        /\ run'.todo = (IF c.name = "test-failover" THEN Victims ELSE <<>>)
        /\ run'.targets = <<>> /\ run'.states = NoStates
        /\ run'.batch = 1 /\ run'.group = "define"
        /\ run'.jobs = (IF c.name = "fix-boot-order" THEN VMs \X {"define"} ELSE {})
    BY DEF Begin, Finished
  <1>2. /\ FirstStep(c) \in Steps /\ (\A q : Fits(FirstStep(c), q)) /\ "define" \in Calls
        /\ \A v \in VMs : NoStates[v] \in States
    BY DEF FirstStep, Steps, Calls, Fits, OverVMs, AtOne, NoStates, States
  <1>3. 1 \in 1..Len(Batches) + 1
    BY VMsAssumption
  <1>4. run'.jobs \subseteq VMs \X Calls
    BY <1>1, <1>2
  <1>5. run'.todo \in Lists
    BY <1>1, OrdersTyped, ListFacts
  <1> QED BY <1>1, <1>2, <1>3, <1>4, <1>5, ListFacts DEF RunTyped

LEMMA InitTyped == Init => TypedInv
  <1> SUFFICES ASSUME Init PROVE TypedInv
    OBVIOUS
  <1>1. /\ run.step = "done" /\ run.ok = FALSE /\ run.errs = FALSE
        /\ run.todo = <<>> /\ run.targets = <<>> /\ run.states = NoStates
        /\ run.batch = 1 /\ run.group = "define" /\ run.jobs = {}
    BY DEF Init, Finished
  <1>2. /\ "done" \in Steps /\ "define" \in Calls /\ Fits("done", <<>>)
        /\ \A v \in VMs : NoStates[v] \in States
    BY DEF Steps, Calls, Fits, OverVMs, AtOne, NoStates, States
  <1>3. 1 \in 1..Len(Batches) + 1
    BY VMsAssumption
  <1>4. RunTyped
    BY <1>1, <1>2, <1>3, ListFacts DEF RunTyped
  <1>5. CallsTyped
    <2>1. asked = {} /\ cancelled = FALSE /\ faults = 0
      BY DEF Init, HostInit
    <2>2. 0 \in 0..MaxFaults
      BY VmFaultsAssumption
    <2>3. asked \subseteq VMs /\ cancelled \in BOOLEAN
      BY <2>1
    <2> QED BY <2>1, <2>2, <2>3, Zenon DEF CallsTyped
  <1> QED BY <1>4, <1>5 DEF TypedInv

LEMMA TypedStep ==
  DisksInv /\ SuccessInv /\ OneJudged /\ TypedInv /\ [Next]_vars => TypedInv'
  <1> SUFFICES ASSUME DisksInv, SuccessInv, OneJudged, TypedInv, [Next]_vars PROVE RunTyped'
    BY CallsStayTyped DEF TypedInv
  <1>1. DomainsTyped /\ RunTyped
    BY DEF DisksInv, TypedInv
  <1>2. CASE UNCHANGED run
    BY <1>1, <1>2 DEF RunTyped
  <1>3. CASE \E c \in Requests : Begin(c)
    BY <1>3, BeginTyped
  <1>4. CASE Killed
    BY <1>1, <1>4, LooseTyped DEF Killed
  <1>5. CASE Command
    BY <1>5, LoopsStayTyped, BatchesStayTyped, CleaningStaysTyped, CreatingStaysTyped, JudgingStaysTyped
       DEF Command
  <1>6. UNCHANGED vars \/ Cancel \/ (\E v \in VMs : Guest(v)) => UNCHANGED run
    BY DEF vars, Cancel, Guest
  <1> QED BY <1>2, <1>3, <1>4, <1>5, <1>6, JudgingStaysTyped DEF Next

LEMMA TypesHold == DisksInv /\ HostTyped /\ TypedInv => TypeOK
  BY DEF DisksInv, DomainsTyped, HostTyped, TypedInv, RunTyped, CallsTyped, TypeOK, HostTypeOK, Lists, States

\* Every value stays in its range, for any VMs, batches and commands: a loop
\* never runs past its end, no batch is read beyond the last one, and only
\* VMs are asked to shut down or have goroutines.
THEOREM VmTypeCorrect == Spec => []TypeOK
  <1>1. DisksInv /\ SuccessInv /\ [Next]_vars => SuccessInv'
    BY SuccessStep
  <1>2. DisksInv /\ OneJudged /\ [Next]_vars => OneJudged'
    BY JudgedStep
  <1>3. Init => OneJudged
    BY DEF Init, Finished, OneJudged, JudgedWhileOff, At, Judging
  <1>4. DisksInv /\ SuccessInv /\ OneJudged /\ TypedInv /\ [Next]_vars => TypedInv'
    BY TypedStep
  <1>5. DisksInv /\ SuccessInv /\ TypedInv => TypeOK
    BY TypesHold DEF SuccessInv
  <1> QED BY <1>1, <1>2, <1>3, <1>4, <1>5, InitSucceeds, InitTyped, DisksInvariant, PTL DEF Spec
=============================================================================
