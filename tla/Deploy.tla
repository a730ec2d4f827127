------------------------------- MODULE Deploy -------------------------------
(***************************************************************************)
(* `cms-ha deploy` (internal/deploy): an operator starts one invocation    *)
(* after another; each runs an ordered list of phases and records the      *)
(* finished ones in a checkpoint file that --resume and --from-phase read. *)
(*                                                                         *)
(* A phase body is one step whose outcome is chosen; the phases have       *)
(* modules of their own.  A phase is known by a job, the work it does; the *)
(* checkpoint knows it by a key, and two jobs share one key.               *)
(* The process may be killed between any two steps.                        *)
(***************************************************************************)
EXTENDS Naturals, Sequences, FiniteSets

CONSTANTS
  LaterPhases, \* the jobs after the optional node creation, in order
  Requests,    \* the command lines the operator may use
  Stagger,     \* BOOLEAN: deploy.stagger_delay is positive
  MaxFaults    \* bound on failing calls and kills in a behaviour

(***************************************************************************)
(* Phases.                                                                 *)
(***************************************************************************)
NoPhase == "no-phase"           \* no --from-phase argument
UnknownPhase == "unknown-phase" \* an argument that names no phase
InitVMsKey == "00-init-vms"

Jobs == {"jumpstart", "setup-cobbler", "register-nodes", "nodes"}
          \cup {LaterPhases[k] : k \in DOMAIN LaterPhases}

\* Name() of both init-vms phases is "00-init-vms", whatever their Options.
phaseKey(job) == IF job \in {"jumpstart", "nodes"} THEN InitVMsKey ELSE job

Keys == {phaseKey(j) : j \in Jobs}

DeployOpts == [skipVM : BOOLEAN, dryRun : BOOLEAN, resume : BOOLEAN,
               from : Keys \cup {NoPhase, UnknownPhase}]

ASSUME LaterPhasesAssumption == LaterPhases \in Seq(STRING)
ASSUME RequestsAssumption == Requests \subseteq DeployOpts
ASSUME FaultsAssumption == MaxFaults \in Nat /\ Stagger \in BOOLEAN

BuildPhaseList(o) ==
  (IF o.skipVM THEN <<>> ELSE <<"jumpstart">>)
    \o <<"setup-cobbler", "register-nodes">>
    \o (IF o.skipVM THEN <<>> ELSE <<"nodes">>)
    \o LaterPhases

(***************************************************************************)
(* The checkpoint.  A missing file loads as the fresh state, so the two    *)
(* are one value; completed_phases is only searched, so it is a set.       *)
(***************************************************************************)
State == [status : {"", "running", "failed", "completed"},
          completed : SUBSET Keys]

FreshState == [status |-> "", completed |-> {}]

VARIABLES
  file,       \* the checkpoint on disk
  state,      \* the State of the running invocation
  opts,       \* its DeployOpts
  skip,       \* the keys planRun told it to skip
  pc,         \* where Deploy is
  i,          \* the index of the phase loop
  faults,     \* failing calls and kills so far
  \* History, never read by the program:
  result,     \* how the last invocation ended
  done,       \* jobs that succeeded since the last reset checkpoint
  outcome,    \* how the last execution of each job ended
  ran,        \* jobs the current invocation has started
  lostSaves   \* checkpoint writes that failed since the last reset

histVars == <<result, done, outcome, ran, lostSaves>>
vars == <<file, state, opts, skip, pc, i, faults,
          result, done, outcome, ran, lostSaves>>

phaseList == BuildPhaseList(opts)

StatusOnly(s, key) == [s EXCEPT !.status = "running"]

MarkCompleted(s, key) ==
  [status |-> "running", completed |-> s.completed \cup {key}]

ForgetOnFailure(s) == [s EXCEPT !.status = "failed", !.completed = {}]

MarkFailed(s) == [s EXCEPT !.status = "failed"]

KeepOnReset(s) == [s EXCEPT !.status = "running"]

Reset(s) == [s EXCEPT !.status = "running", !.completed = {}]

NamesBefore(list, from) ==
  {list[m] : m \in {m \in DOMAIN list :
                      \A n \in 1..m : phaseKey(list[n]) # from}}

\* The keys of the phases ahead of the first one named `from`.
KeysBefore(list, from) ==
  {phaseKey(list[m]) : m \in {m \in DOMAIN list :
                                \A n \in 1..m : phaseKey(list[n]) # from}}

PlanError(list, o) ==
  \/ o.resume /\ o.from # NoPhase
  \/ o.from # NoPhase /\ ~ \E m \in DOMAIN list : phaseKey(list[m]) = o.from

PlanSkip(list, o, prior) ==
  IF o.resume
    THEN IF o.dryRun THEN {} ELSE prior.completed
    ELSE IF o.from # NoPhase THEN KeysBefore(list, o.from) ELSE {}

PlanReset(o) == ~o.resume /\ o.from = NoPhase

(***************************************************************************)
(* Save writes a temporary file and renames it: the checkpoint is replaced *)
(* whole or, when a call fails, kept whole.                                *)
(***************************************************************************)
Fault == faults < MaxFaults /\ faults' = faults + 1
NoFault == UNCHANGED faults

Saved(s) == state' = s /\ file' = s /\ NoFault
SaveFailed(s) == state' = s /\ UNCHANGED file /\ Fault

Return(how) ==
  /\ pc' = "idle"
  /\ result' = how

\* `return` before anything was changed.
ReturnEarly(how) ==
  /\ Return(how)
  /\ UNCHANGED <<file, state, opts, skip, i, done, outcome, ran, lostSaves>>

Init ==
  /\ file = FreshState /\ state = FreshState
  /\ opts = [skipVM |-> TRUE, dryRun |-> TRUE, resume |-> FALSE,
             from |-> NoPhase]
  /\ skip = {} /\ pc = "idle" /\ i = 1 /\ faults = 0
  /\ result = "none" /\ done = {} /\ ran = {} /\ lostSaves = 0
  /\ outcome = [j \in Jobs |-> "never"]

\* The operator runs `cms-ha deploy`; LoadState reads the checkpoint.
Start(o) ==
  /\ pc = "idle"
  /\ opts' = o
  /\ state' = IF o.dryRun THEN FreshState ELSE file
  /\ pc' = IF o.dryRun THEN "plan" ELSE "preflight"
  /\ i' = 1 /\ skip' = {} /\ ran' = {} /\ result' = "none"
  /\ UNCHANGED <<file, faults, done, outcome, lostSaves>>

preflightChecks ==
  /\ pc = "preflight"
  /\ pc' = "plan"
  /\ UNCHANGED <<file, state, opts, skip, i, faults, histVars>>

\* A check fails, or the checkpoint cannot be read or parsed.
PreflightFails ==
  /\ pc = "preflight"
  /\ Fault
  /\ ReturnEarly("error")

PlanRefused ==
  /\ pc = "plan"
  /\ PlanError(phaseList, opts)
  /\ NoFault
  /\ ReturnEarly("error")

\* planRun, the reset of the checkpoint, and its first Save.
PlanAccepted ==
  /\ pc = "plan"
  /\ ~PlanError(phaseList, opts)
  /\ skip' = PlanSkip(phaseList, opts, state)
  /\ LET planned == IF PlanReset(opts) THEN Reset(state) ELSE state
     IN \/ /\ opts.dryRun
           /\ pc' = "loop"
           /\ UNCHANGED <<file, state, faults, result, done, lostSaves>>
        \/ /\ ~opts.dryRun
           /\ Saved(planned)
           /\ pc' = "loop"
           /\ done' = IF PlanReset(opts) THEN {} ELSE done
           /\ lostSaves' = IF PlanReset(opts) THEN 0 ELSE lostSaves
           /\ UNCHANGED result
        \/ /\ ~opts.dryRun
           /\ SaveFailed(planned)
           /\ Return("error")
           /\ UNCHANGED <<done, lostSaves>>
  /\ UNCHANGED <<opts, i, outcome, ran>>

SkipPhase ==
  /\ pc = "loop" /\ i \in DOMAIN phaseList
  /\ opts.dryRun \/ phaseKey(phaseList[i]) \in skip
  /\ i' = i + 1
  /\ UNCHANGED <<file, state, opts, skip, pc, faults, histVars>>

BeginPhase ==
  /\ pc = "loop" /\ i \in DOMAIN phaseList
  /\ ~opts.dryRun /\ phaseKey(phaseList[i]) \notin skip
  /\ pc' = "run"
  /\ ran' = ran \cup {phaseList[i]}
  /\ outcome' = [outcome EXCEPT ![phaseList[i]] = "partial"]
  /\ UNCHANGED <<file, state, opts, skip, i, faults, result, done, lostSaves>>

PhaseSucceeds ==
  /\ pc = "run"
  /\ pc' = "mark"
  /\ done' = done \cup {phaseList[i]}
  /\ outcome' = [outcome EXCEPT ![phaseList[i]] = "ok"]
  /\ UNCHANGED <<file, state, opts, skip, i, faults, result, ran, lostSaves>>

PhaseFailsGoesOn ==
  /\ pc = "run" /\ Fault
  /\ outcome' = [outcome EXCEPT ![phaseList[i]] = "failed"]
  /\ pc' = "loop" /\ i' = i + 1
  /\ UNCHANGED <<file, state, opts, skip, result, done, ran, lostSaves>>

\* Run returned an error: record the failure, if that can be saved, and stop.
PhaseFails ==
  /\ pc = "run"
  /\ faults < MaxFaults
  /\ outcome' = [outcome EXCEPT ![phaseList[i]] = "failed"]
  /\ faults' = faults + 1
  /\ state' = MarkFailed(state)
  /\ \/ file' = state' /\ UNCHANGED lostSaves
     \/ UNCHANGED file /\ lostSaves' = lostSaves + 1
  /\ Return("error")
  /\ UNCHANGED <<opts, skip, i, done, ran>>

RecordInMemory ==
  /\ pc = "mark"
  /\ state' = MarkCompleted(state, phaseKey(phaseList[i]))
  /\ pc' = "loop" /\ i' = i + 1
  /\ UNCHANGED <<file, opts, skip, faults, histVars>>

\* A checkpoint that cannot be written after a phase is only a warning.
RecordPhase ==
  /\ pc = "mark"
  /\ LET s == MarkCompleted(state, phaseKey(phaseList[i]))
     IN \/ Saved(s) /\ UNCHANGED lostSaves
        \/ SaveFailed(s) /\ lostSaves' = lostSaves + 1
  /\ pc' = IF Stagger /\ i < Len(phaseList) THEN "stagger" ELSE "loop"
  /\ i' = i + 1
  /\ UNCHANGED <<opts, skip, result, done, outcome, ran>>

StaggerElapses ==
  /\ pc = "stagger"
  /\ pc' = "loop"
  /\ UNCHANGED <<file, state, opts, skip, i, faults, histVars>>

\* SIGINT or SIGTERM cancels ctx during the delay: the checkpoint stays.
StaggerCancelled ==
  /\ pc = "stagger"
  /\ Fault
  /\ ReturnEarly("error")

Finish ==
  /\ pc = "loop" /\ i \notin DOMAIN phaseList
  /\ IF opts.dryRun
       THEN UNCHANGED <<file, state, faults, lostSaves>>
       ELSE LET s == [state EXCEPT !.status = "completed"]
            IN \/ Saved(s) /\ UNCHANGED lostSaves
               \/ SaveFailed(s) /\ lostSaves' = lostSaves + 1
  /\ Return("ok")
  /\ UNCHANGED <<opts, skip, i, done, outcome, ran>>

\* The process is killed: only the disk and the infrastructure remain.
Killed ==
  /\ pc # "idle"
  /\ Fault
  /\ ReturnEarly("killed")

Program ==
  \/ preflightChecks \/ PreflightFails \/ PlanRefused \/ PlanAccepted
  \/ SkipPhase \/ BeginPhase \/ PhaseSucceeds \/ PhaseFails \/ RecordPhase
  \/ StaggerElapses \/ StaggerCancelled \/ Finish

Next ==
  \/ \E o \in Requests : Start(o)
  \/ Program
  \/ Killed

Spec == Init /\ [][Next]_vars

\* A started process keeps running; phases end by their own timeouts.
FairSpec == Spec /\ WF_vars(Program)

(***************************************************************************)
(* Properties.                                                             *)
(***************************************************************************)
TypeOK ==
  /\ file \in State /\ state \in State
  /\ opts \in DeployOpts
  /\ skip \in SUBSET Keys
  /\ pc \in {"idle", "preflight", "plan", "loop", "run", "mark", "stagger"}
  /\ i \in 1..(Len(phaseList) + 1)
  /\ pc \in {"run", "mark"} => i \in DOMAIN phaseList
  /\ faults \in Nat /\ lostSaves \in Nat
  /\ result \in {"none", "ok", "error", "killed"}
  /\ done \in SUBSET Jobs /\ ran \in SUBSET Jobs
  /\ outcome \in [Jobs -> {"never", "partial", "ok", "failed"}]

Succeeded(key) == \E j \in done : phaseKey(j) = key

\* The checkpoint never lists a phase that has not succeeded since the last
\* fresh start, whatever fails or is killed: --resume trusts it blindly.
RecordedPhaseSucceeded ==
  \A key \in file.completed : Succeeded(key)

Covered(m) ==
  /\ Succeeded(phaseKey(phaseList[m]))
  /\ PlanReset(opts) => phaseList[m] \in done \cap ran

\* When Deploy returns nil the plan it was asked for is done: a fresh run has
\* run every phase itself, a resumed one can name a success for every phase.
SuccessCoversPlan ==
  result = "ok" /\ opts.from = NoPhase /\ ~opts.dryRun =>
    \A m \in DOMAIN phaseList : Covered(m)

(* The inductive invariant behind the safety properties. *)
Planned == pc \in {"loop", "run", "mark", "stagger"}

\* What is recorded, on disk or in memory, and what --resume skips succeeded.
RecordsSound ==
  /\ RecordedPhaseSucceeded
  /\ \A key \in state.completed : Succeeded(key)
  /\ Planned /\ opts.resume => \A key \in skip : Succeeded(key)
  /\ Planned /\ PlanReset(opts) => skip = {}

\* The running invocation's record extends the one on disk.
MemoryAhead ==
  pc # "idle" /\ ~opts.dryRun => file.completed \subseteq state.completed

\* The loop has left only covered phases behind it.
LoopCovers ==
  /\ Planned /\ ~opts.dryRun /\ opts.from = NoPhase =>
       \A m \in 1..(i - 1) : Covered(m)
  /\ pc \in {"run", "mark"} => ~opts.dryRun /\ phaseList[i] \in ran
  /\ pc = "mark" => phaseList[i] \in done
  /\ pc # "idle" => result = "none"
  /\ pc \in {"preflight", "plan"} => i = 1

DeployInv == RecordsSound /\ MemoryAhead /\ LoopCovers /\ SuccessCoversPlan

\* Without --from-phase no phase body starts before every phase listed ahead
\* of it has succeeded: each phase builds on what the earlier ones set up.
PhaseOrderKept ==
  [][BeginPhase /\ opts.from = NoPhase =>
       \A m \in 1..(i - 1) : Succeeded(phaseKey(phaseList[m]))]_vars

\* The checkpoint is a PhaseRecord: it names only phases that succeeded and
\* forgets them only when a fresh run forgets their success too, whatever fails
\* or is killed, and in whichever order runs of either kind follow one another.
SucceededKeys == {phaseKey(j) : j \in done}

PR == INSTANCE PhaseRecord WITH
  fresh <- PlanReset(opts) /\ ~opts.dryRun,
  succeeded <- SucceededKeys, recorded <- file.completed

CheckpointRecords == PR!Spec

\* The operator created the VMs elsewhere, so that every phase has a key of its
\* own, and never uses --from-phase.
OwnKeys == opts.skipVM /\ opts.from = NoPhase

\* What a crash can cost: of the phases that succeeded, the checkpoint misses
\* at most the last one and one more for each checkpoint write that failed
\* with no later write to make up for it.
CheckpointLag ==
  []OwnKeys =>
    [](Cardinality(SucceededKeys \ file.completed) <= 1 + lostSaves)

\* An operator who, after whatever failed or was killed, goes on starting
\* --resume reaches a completed checkpoint with every phase's last execution a
\* success, and no later resume undoes it.
ResumeConverges ==
  []OwnKeys /\ <>[](opts.resume /\ ~opts.dryRun) /\ []<>(pc # "idle") =>
    <>[](/\ file.status = "completed"
         /\ \A m \in DOMAIN phaseList : outcome[phaseList[m]] = "ok")

(***************************************************************************)
(* What the documentation says and the code does not do.                   *)
(***************************************************************************)
\* MANUAL: --resume skips "phases already completed".
ResumeSkipsCompletedOnly ==
  pc = "loop" /\ opts.resume /\ ~opts.dryRun /\ i \in DOMAIN phaseList
    /\ phaseKey(phaseList[i]) \in skip => phaseList[i] \in done

=============================================================================
