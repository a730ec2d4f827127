---------------------------- MODULE Deploy_proofs ----------------------------
(***************************************************************************)
(* Proofs about Deploy, for any later phases, command lines and number of  *)
(* failures.                                                               *)
(***************************************************************************)
EXTENDS Deploy, Counting, TLAPS

\* Every phase of a plan is one of the jobs.
LEMMA PhaseListType ==
  ASSUME NEW o \in DeployOpts
  PROVE  BuildPhaseList(o) \in Seq(Jobs)
<1>1. LaterPhases \in Seq(Jobs)
  BY LaterPhasesAssumption DEF Jobs
<1>2. {"jumpstart", "setup-cobbler", "register-nodes", "nodes"} \subseteq Jobs
  BY DEF Jobs
<1>3. <<"setup-cobbler", "register-nodes">> \in Seq(Jobs)
  BY <1>2
<1>4. /\ (IF o.skipVM THEN <<>> ELSE <<"jumpstart">>) \in Seq(Jobs)
      /\ (IF o.skipVM THEN <<>> ELSE <<"nodes">>) \in Seq(Jobs)
  BY <1>2
<1> QED
  BY <1>1, <1>3, <1>4 DEF BuildPhaseList

LEMMA KeyOfPhase ==
  ASSUME NEW o \in DeployOpts, NEW m \in DOMAIN BuildPhaseList(o)
  PROVE  /\ BuildPhaseList(o)[m] \in Jobs
         /\ phaseKey(BuildPhaseList(o)[m]) \in Keys
BY PhaseListType DEF Keys

\* Every update of the checkpoint yields a checkpoint.
LEMMA StateUpdates ==
  ASSUME NEW s \in State, NEW key \in Keys
  PROVE  /\ FreshState \in State
         /\ MarkCompleted(s, key) \in State
         /\ MarkFailed(s) \in State
         /\ Reset(s) \in State
         /\ [s EXCEPT !.status = "completed"] \in State
<1>1. FreshState \in State
  BY DEF FreshState, State
<1>2. MarkCompleted(s, key) \in State
  BY DEF MarkCompleted, State
<1>3. MarkFailed(s) \in State
  BY DEF MarkFailed, State
<1>4. Reset(s) \in State
  BY DEF Reset, State
<1>5. [s EXCEPT !.status = "completed"] \in State
  BY DEF State
<1> QED
  BY <1>1, <1>2, <1>3, <1>4, <1>5

\* What each update does to the recorded phases.
LEMMA RecordedAfter ==
  ASSUME NEW s \in State, NEW key
  PROVE  /\ FreshState.completed = {}
         /\ MarkCompleted(s, key).completed = s.completed \cup {key}
         /\ MarkFailed(s).completed = s.completed
         /\ Reset(s).completed = {}
         /\ [s EXCEPT !.status = "completed"].completed = s.completed
BY DEF FreshState, MarkCompleted, MarkFailed, Reset, State

LEMMA KeysBeforeType ==
  ASSUME NEW o \in DeployOpts, NEW from
  PROVE  KeysBefore(BuildPhaseList(o), from) \subseteq Keys
BY KeyOfPhase DEF KeysBefore

\* The initial state has the declared types.
LEMMA InitTypeOK == Init => TypeOK
<1> SUFFICES ASSUME Init PROVE TypeOK
  OBVIOUS
<1>1. opts \in DeployOpts
  BY DEF Init, DeployOpts, NoPhase
<1>2. Len(phaseList) \in Nat
  BY <1>1, PhaseListType DEF phaseList
<1>3. file \in State /\ state \in State
  BY DEF Init, State, FreshState
<1>4. i \in 1..(Len(phaseList) + 1)
  BY <1>2 DEF Init
<1>5. outcome \in [Jobs -> {"never", "partial", "ok", "failed"}]
  BY DEF Init
<1> QED
  BY <1>1, <1>3, <1>4, <1>5 DEF Init, TypeOK

\* No step leaves the declared types.
LEMMA NextTypeOK == TypeOK /\ [Next]_vars => TypeOK'
<1> SUFFICES ASSUME TypeOK, [Next]_vars PROVE TypeOK'
  OBVIOUS
<1> USE FaultsAssumption DEF TypeOK
<1>a. /\ phaseList \in Seq(Jobs) /\ Len(phaseList) \in Nat
      /\ DOMAIN phaseList = 1..Len(phaseList)
  BY PhaseListType DEF phaseList
<1>c. /\ FreshState \in State /\ Reset(state) \in State
      /\ MarkFailed(state) \in State
      /\ [state EXCEPT !.status = "completed"] \in State
      /\ \A key \in Keys : MarkCompleted(state, key) \in State
  <2>1. InitVMsKey \in Keys
    BY DEF Keys, Jobs, phaseKey
  <2> QED
    BY <2>1, StateUpdates
<1>b. opts' = opts => phaseList' = phaseList
  BY DEF phaseList
<1>1. ASSUME NEW o \in Requests, Start(o) PROVE TypeOK'
  <2>1. opts' \in DeployOpts
    BY <1>1, RequestsAssumption DEF Start
  <2>2. Len(phaseList') \in Nat
    BY <2>1, PhaseListType DEF phaseList
  <2> QED
    BY <1>1, <1>c, <2>1, <2>2 DEF Start
<1>2. CASE preflightChecks
  BY <1>a, <1>b, <1>2 DEF preflightChecks, histVars
<1>3. CASE PreflightFails
  BY <1>a, <1>b, <1>3 DEF PreflightFails, Fault, ReturnEarly, Return
<1>4. CASE PlanRefused
  BY <1>a, <1>b, <1>4 DEF PlanRefused, NoFault, ReturnEarly, Return
<1>5. CASE PlanAccepted
  <2>1. PlanSkip(phaseList, opts, state) \in SUBSET Keys
    BY KeysBeforeType DEF PlanSkip, State, phaseList
  <2> QED
    BY <1>a, <1>b, <1>c, <1>5, <2>1
       DEF PlanAccepted, Saved, SaveFailed, Fault, NoFault, Return
<1>6. CASE SkipPhase
  BY <1>a, <1>b, <1>6 DEF SkipPhase, histVars
<1>7. CASE BeginPhase
  BY <1>a, <1>b, <1>7 DEF BeginPhase
<1>8. CASE PhaseSucceeds
  BY <1>a, <1>b, <1>8 DEF PhaseSucceeds
<1>9. CASE PhaseFails
  BY <1>a, <1>b, <1>c, <1>9 DEF PhaseFails, Return
<1>10. CASE RecordPhase
  <2>1. phaseKey(phaseList[i]) \in Keys
    BY <1>a, <1>10, KeyOfPhase DEF RecordPhase, phaseList
  <2>2. MarkCompleted(state, phaseKey(phaseList[i])) \in State
    BY <1>c, <2>1
  <2> QED
    BY <1>a, <1>b, <1>10, <2>2
       DEF RecordPhase, Saved, SaveFailed, Fault, NoFault
<1>11. CASE StaggerElapses
  BY <1>a, <1>b, <1>11 DEF StaggerElapses, histVars
<1>12. CASE StaggerCancelled
  BY <1>a, <1>b, <1>12 DEF StaggerCancelled, Fault, ReturnEarly, Return
<1>13. CASE Finish
  BY <1>a, <1>b, <1>c, <1>13
     DEF Finish, Saved, SaveFailed, Fault, NoFault, Return
<1>14. CASE Killed
  BY <1>a, <1>b, <1>14 DEF Killed, Fault, ReturnEarly, Return
<1>15. CASE UNCHANGED vars
  BY <1>a, <1>b, <1>15 DEF vars
<1> QED
  BY <1>1, <1>2, <1>3, <1>4, <1>5, <1>6, <1>7, <1>8, <1>9, <1>10, <1>11,
     <1>12, <1>13, <1>14, <1>15 DEF Next, Program

\* Deploy keeps every variable in its type, for any phases and requests.
THEOREM DeployTypeCorrect == Spec => []TypeOK
BY InitTypeOK, NextTypeOK, PTL DEF Spec

LEMMA InitDeployInv == Init => DeployInv
<1> SUFFICES ASSUME Init PROVE DeployInv
  OBVIOUS
<1>1. file.completed = {} /\ state.completed = {}
  BY DEF Init, FreshState
<1>2. pc = "idle" /\ result = "none"
  BY DEF Init
<1> QED
  BY <1>1, <1>2 DEF DeployInv, RecordsSound, RecordedPhaseSucceeded,
     Planned, MemoryAhead, LoopCovers, SuccessCoversPlan

\* A step that keeps the plan and forgets no success keeps what was covered.
LEMMA CoveredStays ==
  ASSUME UNCHANGED opts, done \subseteq done', ran \subseteq ran'
  PROVE  /\ \A key : Succeeded(key) => Succeeded(key)'
         /\ \A m : Covered(m) => Covered(m)'
         /\ phaseList' = phaseList
<1>1. phaseList' = phaseList
  BY DEF phaseList
<1>2. ASSUME NEW key, Succeeded(key) PROVE Succeeded(key)'
  BY <1>2 DEF Succeeded
<1>3. ASSUME NEW m, Covered(m) PROVE Covered(m)'
  BY <1>1, <1>3, <1>2 DEF Covered, Succeeded, PlanReset
<1> QED
  BY <1>1, <1>2, <1>3

\* The inductive step: one case per action.
LEMMA NextDeployInv == TypeOK /\ DeployInv /\ [Next]_vars => DeployInv'
<1> SUFFICES ASSUME TypeOK, DeployInv, [Next]_vars PROVE DeployInv'
  OBVIOUS
<1> USE DEF DeployInv, RecordsSound, RecordedPhaseSucceeded, MemoryAhead,
            LoopCovers, SuccessCoversPlan, Planned
<1>a. /\ DOMAIN phaseList = 1..Len(phaseList) /\ Len(phaseList) \in Nat
      /\ i \in 1..(Len(phaseList) + 1)
  BY PhaseListType DEF phaseList, TypeOK
<1>1. ASSUME NEW o \in Requests, Start(o) PROVE DeployInv'
  BY <1>1 DEF Start, FreshState, Succeeded
<1>2. CASE preflightChecks
  BY <1>2, CoveredStays DEF preflightChecks, histVars
<1>3. CASE PreflightFails
  BY <1>3, CoveredStays DEF PreflightFails, ReturnEarly, Return
<1>4. CASE PlanRefused
  BY <1>4, CoveredStays DEF PlanRefused, ReturnEarly, Return
<1>5. CASE PlanAccepted
  <2>1. i' = 1 /\ result = "none" /\ opts' = opts
    BY <1>5 DEF PlanAccepted
  <2>2. Reset(state).completed = {}
    BY RecordedAfter DEF TypeOK
  <2>3. ~opts.dryRun => file.completed \subseteq state.completed
    BY <1>5 DEF PlanAccepted
  <2>4. /\ \A key \in file'.completed : Succeeded(key)'
        /\ \A key \in state'.completed : Succeeded(key)'
    BY <1>5, <2>2 DEF PlanAccepted, Saved, SaveFailed, Succeeded
  <2>5. MemoryAhead'
    BY <1>5, <2>2, <2>3 DEF PlanAccepted, Saved, SaveFailed, Return
  <2>6. Planned' => done' = IF PlanReset(opts) /\ ~opts.dryRun
                             THEN {} ELSE done
    BY <1>5 DEF PlanAccepted, Return
  <2>7. Planned' /\ opts.resume => \A key \in skip' : Succeeded(key)'
    BY <1>5, <2>6 DEF PlanAccepted, PlanSkip, PlanReset, Succeeded
  <2>8. Planned' /\ PlanReset(opts) => skip' = {}
    BY <1>5 DEF PlanAccepted, PlanSkip, PlanReset
  <2>9. pc' \in {"loop", "idle"} /\ result' # "ok"
        /\ (pc' # "idle" => result' = "none")
    BY <1>5, <2>1 DEF PlanAccepted, Return
  <2> QED
    BY <2>1, <2>4, <2>5, <2>7, <2>8, <2>9 DEF PlanReset
<1>6. CASE SkipPhase
  BY <1>6, <1>a, CoveredStays DEF SkipPhase, histVars, Covered, PlanReset
<1>7. CASE BeginPhase
  BY <1>7, <1>a, CoveredStays DEF BeginPhase
<1>8. CASE PhaseSucceeds
  BY <1>8, <1>a, CoveredStays DEF PhaseSucceeds
<1>9. CASE PhaseFails
  BY <1>9, CoveredStays DEF PhaseFails, MarkFailed, Return, TypeOK, State
<1>10. CASE RecordPhase
  BY <1>10, <1>a, CoveredStays
     DEF RecordPhase, MarkCompleted, Saved, SaveFailed, Covered, Succeeded
<1>11. CASE StaggerElapses
  BY <1>11, CoveredStays DEF StaggerElapses, histVars
<1>12. CASE StaggerCancelled
  BY <1>12, CoveredStays DEF StaggerCancelled, ReturnEarly, Return
<1>13. CASE Finish
  <2>1. [state EXCEPT !.status = "completed"].completed = state.completed
    BY RecordedAfter DEF TypeOK
  <2>2. ~(i \in DOMAIN phaseList) => i - 1 = Len(phaseList)
    BY <1>a
  <2> QED
    BY <1>13, <1>a, <2>1, <2>2, CoveredStays
       DEF Finish, Saved, SaveFailed, Return
<1>14. CASE Killed
  BY <1>14, CoveredStays DEF Killed, ReturnEarly, Return
<1>15. CASE UNCHANGED vars
  BY <1>15, CoveredStays DEF vars
<1> QED
  BY <1>1, <1>2, <1>3, <1>4, <1>5, <1>6, <1>7, <1>8, <1>9, <1>10, <1>11,
     <1>12, <1>13, <1>14, <1>15 DEF Next, Program

\* The inductive invariant holds throughout.
LEMMA DeployInvHolds == Spec => []DeployInv
BY InitTypeOK, NextTypeOK, InitDeployInv, NextDeployInv, PTL DEF Spec

\* The checkpoint file never lists a phase that has not succeeded since the
\* last fresh start, for any phases, command lines, failures and kills.
THEOREM CheckpointSound == Spec => []RecordedPhaseSucceeded
BY DeployInvHolds, PTL DEF DeployInv, RecordsSound

\* A Deploy that returned nil without --from-phase has covered its plan.
THEOREM SuccessIsComplete == Spec => []SuccessCoversPlan
BY DeployInvHolds, PTL DEF DeployInv

\* Without --from-phase a phase starts only after every earlier one succeeded.
THEOREM OrderIsKept == Spec => PhaseOrderKept
<1>1. DeployInv /\ [Next]_vars =>
        [BeginPhase /\ opts.from = NoPhase =>
           \A m \in 1..(i - 1) : Succeeded(phaseKey(phaseList[m]))]_vars
  BY DEF DeployInv, LoopCovers, Covered, Planned, BeginPhase
<1> QED
  BY <1>1, DeployInvHolds, PTL DEF Spec, PhaseOrderKept

-----------------------------------------------------------------------------
(***************************************************************************)
(* The checkpoint implements PhaseRecord.                                  *)
(***************************************************************************)
\* Whatever is saved extends the file, but for the first save of a fresh run.
LEMMA FileGrows ==
  ASSUME TypeOK, DeployInv, [Next]_vars, ~(PlanAccepted /\ PlanReset(opts))
  PROVE  file.completed \subseteq file'.completed
<1>1. pc # "idle" /\ ~opts.dryRun => file.completed \subseteq state.completed
  BY DEF DeployInv, MemoryAhead
<1>2. CASE PlanAccepted
  BY <1>1, <1>2 DEF PlanAccepted, Saved, SaveFailed
<1>3. CASE PhaseFails
  BY <1>1, <1>3, RecordedAfter DEF DeployInv, LoopCovers, TypeOK, PhaseFails
<1>4. CASE RecordPhase
  <2>1. MarkCompleted(state, phaseKey(phaseList[i])).completed
          = state.completed \cup {phaseKey(phaseList[i])}
    BY RecordedAfter DEF TypeOK
  <2> QED
    BY <1>1, <1>4, <2>1 DEF DeployInv, LoopCovers, RecordPhase, Saved, SaveFailed
<1>5. CASE Finish
  <2>1. [state EXCEPT !.status = "completed"].completed = state.completed
    BY RecordedAfter DEF TypeOK
  <2> QED
    BY <1>1, <1>5, <2>1 DEF Finish, Saved, SaveFailed
<1> QED
  BY <1>2, <1>3, <1>4, <1>5
     DEF Next, Program, Start, preflightChecks, PreflightFails, PlanRefused,
         SkipPhase, BeginPhase, PhaseSucceeds, StaggerElapses,
         StaggerCancelled, Killed, ReturnEarly, vars

\* Only a success and the first save of a fresh run change what succeeded, and
\* only the operator changes the command line.
LEMMA SuccessesMove ==
  ASSUME [Next]_vars, ~PhaseSucceeds, ~PlanAccepted, \A o \in Requests : ~Start(o)
  PROVE  UNCHANGED <<opts, done>>
BY DEF Next, Program, preflightChecks, PreflightFails, PlanRefused, SkipPhase,
   BeginPhase, PhaseFails, RecordPhase, StaggerElapses, StaggerCancelled, Finish,
   Killed, ReturnEarly, histVars, vars

\* A step that leaves the successes alone and extends the file is a Record.
LEMMA RecordRefines ==
  ASSUME DeployInv', UNCHANGED <<opts, done>>, file.completed \subseteq file'.completed
  PROVE  PR!Record
<1>1. SucceededKeys' = SucceededKeys /\ PlanReset(opts)' = PlanReset(opts)
  BY DEF SucceededKeys, PlanReset
<1>2. file'.completed \subseteq SucceededKeys'
  BY DEF DeployInv, RecordsSound, RecordedPhaseSucceeded, Succeeded, SucceededKeys
<1> QED
  BY <1>1, <1>2 DEF PR!Record

LEMMA RecordStep ==
  ASSUME TypeOK, DeployInv, DeployInv', [Next]_vars
  PROVE  PR!Next
<1> USE DEF PR!Next
<1>1. CASE \E o \in Requests : Start(o)
  <2>1. UNCHANGED <<SucceededKeys, file>>
    BY <1>1 DEF Start, SucceededKeys
  <2>2. (PlanReset(opts) /\ ~opts.dryRun)' \in BOOLEAN
    OBVIOUS
  <2> QED
    BY <2>1, <2>2 DEF PR!Ask
<1>2. CASE PhaseSucceeds
  <2>1. phaseList[i] \in Jobs
    BY <1>2, PhaseListType DEF PhaseSucceeds, TypeOK, phaseList
  <2>2. SucceededKeys' = SucceededKeys \cup {phaseKey(phaseList[i])}
    BY <1>2 DEF PhaseSucceeds, SucceededKeys
  <2>3. phaseKey(phaseList[i]) \in Keys
    BY <2>1 DEF Keys
  <2> QED
    BY <1>2, <2>2, <2>3 DEF PR!Succeed, PhaseSucceeds, PlanReset
<1>3. CASE PlanAccepted /\ PlanReset(opts) /\ ~opts.dryRun /\ Saved(Reset(state))
             /\ done' = {}
  <2>1. file'.completed = {}
    BY <1>3, RecordedAfter DEF Saved, TypeOK
  <2> QED
    BY <1>3, <2>1 DEF PR!StartOver, PlanAccepted, PlanReset, SucceededKeys
<1>4. CASE PlanAccepted /\ ~(PlanReset(opts) /\ ~opts.dryRun /\ Saved(Reset(state))
                              /\ done' = {})
  <2>1. UNCHANGED <<opts, done>>
    BY <1>4 DEF PlanAccepted
  <2>2. file.completed \subseteq file'.completed
    <3>1. CASE PlanReset(opts)
      BY <1>4, <3>1 DEF PlanAccepted, SaveFailed
    <3>2. CASE ~PlanReset(opts)
      BY <3>2, FileGrows
    <3> QED
      BY <3>1, <3>2
  <2> QED
    BY <2>1, <2>2, RecordRefines
<1>5. CASE ~PhaseSucceeds /\ ~PlanAccepted /\ \A o \in Requests : ~Start(o)
  BY <1>5, FileGrows, SuccessesMove, RecordRefines
<1> QED
  BY <1>1, <1>2, <1>3, <1>4, <1>5

\* The checkpoint file never forgets what it recorded, nor names what has not
\* succeeded: every step of Deploy (orchestrator.go:51) is one of PhaseRecord or
\* none, for any list of phases, command lines, failed writes and kills.
THEOREM CheckpointIsRecord == Spec => CheckpointRecords
<1>1. Init => PR!Init
  <2>1. (PlanReset(opts) /\ ~opts.dryRun) \in BOOLEAN
    OBVIOUS
  <2>2. Init => SucceededKeys = {} /\ file.completed = {}
    <3>1. Init => done = {} /\ file = FreshState
      BY DEF Init
    <3>2. FreshState.completed = {}
      BY DEF FreshState
    <3> QED
      BY <3>1, <3>2 DEF SucceededKeys
  <2> QED
    BY <2>1, <2>2 DEF PR!Init
<1>2. TypeOK /\ DeployInv /\ DeployInv' /\ [Next]_vars => [PR!Next]_(PR!vars)
  BY RecordStep
<1> QED
  BY <1>1, <1>2, DeployInvHolds, DeployTypeCorrect, PTL
     DEF Spec, CheckpointRecords, PR!Spec

-----------------------------------------------------------------------------
(***************************************************************************)
(* What a crash can cost.  The phases that succeeded are the first p of    *)
(* the plan for some p.  A phase adds a key that had not succeeded only    *)
(* when all that did are in memory, and memory is ahead of the file by no  *)
(* more than the writes that failed.                                       *)
(***************************************************************************)
OwnList == BuildPhaseList([skipVM |-> TRUE, dryRun |-> FALSE,
                           resume |-> FALSE, from |-> NoPhase])

FirstKeys(p) == {phaseKey(OwnList[m]) : m \in 1..p}

InOrder == \E p \in 0..Len(OwnList) : SucceededKeys = FirstKeys(p)

FileBehind == AtMost(SucceededKeys \ file.completed, 1 + lostSaves)

MemoryUnsaved ==
  pc # "idle" /\ ~opts.dryRun
    => AtMost(state.completed \ file.completed, lostSaves)

LoopRecorded ==
  Planned /\ ~opts.dryRun =>
    /\ skip \subseteq state.completed
    /\ \A m \in 1..(i - 1) : phaseKey(phaseList[m]) \in state.completed

LagInv == InOrder /\ FileBehind /\ MemoryUnsaved /\ LoopRecorded

LEMMA OwnListIsPlan ==
  ASSUME OwnKeys
  PROVE  phaseList = OwnList
BY DEF OwnKeys, phaseList, OwnList, BuildPhaseList

LEMMA OwnListType == Len(OwnList) \in Nat /\ DOMAIN OwnList = 1..Len(OwnList)
<1> DEFINE o == [skipVM |-> TRUE, dryRun |-> FALSE, resume |-> FALSE, from |-> NoPhase]
<1>1. o \in DeployOpts
  BY DEF DeployOpts
<1>2. OwnList \in Seq(Jobs)
  BY <1>1, PhaseListType DEF OwnList
<1> QED
  BY <1>2

LEMMA InitLagInv == Init => LagInv
<1> SUFFICES ASSUME Init PROVE LagInv
  OBVIOUS
<1>1. SucceededKeys = {} /\ FirstKeys(0) = {}
  BY DEF Init, SucceededKeys, FirstKeys
<1>2. FileBehind
  BY <1>1, EmptyAtMost DEF FileBehind, Init
<1>3. InOrder
  BY <1>1, OwnListType DEF InOrder
<1> QED
  BY <1>2, <1>3 DEF LagInv, MemoryUnsaved, LoopRecorded, Planned, Init

\* A file that only grows, or a save that failed, leaves no more behind.
LEMMA NotFurtherBehind ==
  ASSUME TypeOK, LagInv, done' = done, file.completed \subseteq file'.completed,
         lostSaves' \in Nat, lostSaves <= lostSaves'
  PROVE  InOrder' /\ FileBehind'
<1>1. SucceededKeys' = SucceededKeys
  BY DEF SucceededKeys
<1>2. SucceededKeys \ file'.completed \subseteq SucceededKeys \ file.completed
  OBVIOUS
<1> lostSaves \in Nat
  BY DEF TypeOK
<1>3. \A m, n \in Nat : m <= n => 1 + m \in Nat /\ 1 + n \in Nat /\ 1 + m <= 1 + n
  OBVIOUS
<1>4. 1 + lostSaves \in Nat /\ 1 + lostSaves' \in Nat /\ 1 + lostSaves <= 1 + lostSaves'
  BY <1>3, Zenon
<1>5. FileBehind'
  BY <1>1, <1>2, <1>4, SubsetAtMost DEF LagInv, FileBehind
<1> QED
  BY <1>1, <1>5 DEF LagInv, InOrder

\* A success that is new is that of the phase after all those that succeeded.
LEMMA NewSuccess ==
  ASSUME TypeOK, DeployInv, LagInv, OwnKeys, PhaseSucceeds
  PROVE  InOrder' /\ FileBehind'
<1> DEFINE key == phaseKey(phaseList[i])
<1>1. SucceededKeys' = SucceededKeys \cup {key}
  BY DEF SucceededKeys, PhaseSucceeds
<1>2. /\ pc = "run" /\ ~opts.dryRun /\ Planned /\ i \in 1..Len(OwnList)
      /\ phaseList = OwnList /\ i \in Nat
  BY OwnListIsPlan, OwnListType DEF PhaseSucceeds, DeployInv, LoopCovers, Planned, TypeOK
<1>3. \A m \in 1..(i - 1) : phaseKey(OwnList[m]) \in SucceededKeys
  BY <1>2 DEF DeployInv, LoopCovers, Covered, Succeeded, SucceededKeys, OwnKeys
<1>4. CASE key \in SucceededKeys
  <2>1. SucceededKeys' = SucceededKeys
    BY <1>1, <1>4
  <2> QED
    BY <2>1 DEF LagInv, InOrder, FileBehind, PhaseSucceeds
<1>5. CASE key \notin SucceededKeys
  <2>1. PICK p \in 0..Len(OwnList) : SucceededKeys = FirstKeys(p)
    BY DEF LagInv, InOrder
  <2>2. p < i
    BY <1>2, <1>5, <2>1, OwnListType DEF FirstKeys
  <2>3. SucceededKeys = FirstKeys(i - 1)
    BY <1>2, <1>3, <2>1, <2>2, OwnListType DEF FirstKeys
  <2>4. FirstKeys(i) = FirstKeys(i - 1) \cup {key}
    BY <1>2 DEF FirstKeys
  <2>5. InOrder'
    BY <1>1, <1>2, <2>3, <2>4, OwnListType DEF InOrder
  <2>6. SucceededKeys \subseteq state.completed
    BY <1>2, <2>3 DEF FirstKeys, LagInv, LoopRecorded
  <2>7. AtMost(state.completed \ file.completed, lostSaves) /\ lostSaves \in Nat
    BY <1>2 DEF LagInv, MemoryUnsaved, TypeOK
  <2>8. AtMost((state.completed \ file.completed) \cup {key}, lostSaves + 1)
    BY <2>7, OneMore
  <2>9. SucceededKeys' \ file.completed \subseteq (state.completed \ file.completed) \cup {key}
    BY <1>1, <2>6
  <2>10. AtMost(SucceededKeys' \ file.completed, lostSaves + 1)
    BY <2>7, <2>8, <2>9, SubsetAtMost
  <2> QED
    BY <2>5, <2>7, <2>10 DEF FileBehind, PhaseSucceeds
<1> QED
  BY <1>4, <1>5

LEMMA NextLagInv ==
  ASSUME TypeOK, TypeOK', DeployInv, LagInv, OwnKeys, OwnKeys', [Next]_vars
  PROVE  LagInv'
<1>a. /\ phaseList = OwnList /\ phaseList' = OwnList
      /\ i \in Nat /\ lostSaves \in Nat /\ lostSaves' \in Nat
  <2>1. phaseList = OwnList
    BY OwnListIsPlan
  <2>2. phaseList' = OwnList
    BY DEF OwnKeys, phaseList, OwnList, BuildPhaseList
  <2> QED
    BY <2>1, <2>2, OwnListType DEF TypeOK
<1>b. pc # "idle" /\ ~opts.dryRun => file.completed \subseteq state.completed
  BY DEF DeployInv, MemoryAhead
<1>c. UNCHANGED <<done, file, lostSaves>> => InOrder' /\ FileBehind'
  BY <1>a, NotFurtherBehind
<1>d. ASSUME UNCHANGED <<done, file, lostSaves>>, pc' = "idle" PROVE LagInv'
  BY <1>c, <1>d DEF LagInv, MemoryUnsaved, LoopRecorded, Planned
<1>1. ASSUME NEW o \in Requests, Start(o) PROVE LagInv'
  <2>1. pc' \in {"plan", "preflight"} /\ (~opts'.dryRun => state' = file')
        /\ UNCHANGED <<done, file, lostSaves>>
    BY <1>1 DEF Start
  <2>2. MemoryUnsaved'
    BY <1>a, <2>1, EmptyAtMost DEF MemoryUnsaved
  <2> QED
    BY <1>c, <2>1, <2>2 DEF LagInv, LoopRecorded, Planned
<1>2. CASE preflightChecks \/ StaggerElapses \/ BeginPhase \/ UNCHANGED vars
  <2>1. UNCHANGED <<file, state, opts, skip, done, lostSaves, i>>
    BY <1>2 DEF preflightChecks, StaggerElapses, BeginPhase, vars, histVars
  <2>2. Planned' => Planned
    BY <1>2 DEF preflightChecks, StaggerElapses, BeginPhase, Planned, vars
  <2>3. pc' # "idle" => pc # "idle"
    BY <1>2 DEF preflightChecks, StaggerElapses, BeginPhase, vars
  <2> QED
    BY <1>a, <1>c, <2>1, <2>2, <2>3 DEF LagInv, MemoryUnsaved, LoopRecorded
<1>3. CASE PreflightFails \/ PlanRefused \/ StaggerCancelled \/ Killed
  BY <1>3, <1>d DEF PreflightFails, PlanRefused, StaggerCancelled, Killed, ReturnEarly, Return
<1>4. CASE PlanAccepted
  <2>1. CASE pc' = "idle"
    BY <1>d, <1>4, <2>1 DEF PlanAccepted, SaveFailed
  <2>2. CASE pc' # "idle" /\ opts.dryRun
    <3>1. UNCHANGED <<done, file, lostSaves, opts>>
      BY <1>4, <2>2 DEF PlanAccepted
    <3> QED
      BY <1>c, <2>2, <3>1 DEF LagInv, MemoryUnsaved, LoopRecorded
  <2>3. CASE pc' # "idle" /\ ~opts.dryRun
    <3>1. /\ file' = state' /\ i' = 1
          /\ state' = IF PlanReset(opts) THEN Reset(state) ELSE state
          /\ done' = (IF PlanReset(opts) THEN {} ELSE done)
          /\ lostSaves' = (IF PlanReset(opts) THEN 0 ELSE lostSaves)
      BY <1>4, <2>3, <1>a DEF PlanAccepted, Saved, SaveFailed, Return, DeployInv, LoopCovers
    <3>2. InOrder' /\ FileBehind'
      <4>1. CASE PlanReset(opts)
        <5>1. SucceededKeys' = {} /\ FirstKeys(0) = {}
          BY <3>1, <4>1 DEF SucceededKeys, FirstKeys
        <5> QED
          BY <1>a, <5>1, EmptyAtMost, OwnListType DEF InOrder, FileBehind
      <4>2. CASE ~PlanReset(opts)
        BY <1>a, <1>b, <1>4, <2>3, <3>1, <4>2, NotFurtherBehind DEF PlanAccepted
      <4> QED
        BY <4>1, <4>2
    <3>3. MemoryUnsaved'
      BY <1>a, <3>1, EmptyAtMost DEF MemoryUnsaved
    <3>4. skip' \subseteq state'.completed
      BY <1>4, <2>3, <3>1 DEF PlanAccepted, PlanSkip, PlanReset, OwnKeys
    <3> QED
      BY <3>1, <3>2, <3>3, <3>4 DEF LagInv, LoopRecorded
  <2> QED
    BY <2>1, <2>2, <2>3
<1>5. CASE SkipPhase
  <2>1. /\ UNCHANGED <<file, state, opts, skip, pc, done, lostSaves>> /\ i' = i + 1
        /\ pc = "loop" /\ ~opts.dryRun => phaseKey(phaseList[i]) \in skip
    BY <1>5 DEF SkipPhase, histVars
  <2>2. LoopRecorded'
    <3>1. \A m \in 1..(i' - 1) : m \in 1..(i - 1) \/ m = i
      BY <1>a, <2>1
    <3> QED
      BY <1>5, <1>a, <2>1, <3>1 DEF LagInv, LoopRecorded, Planned, SkipPhase
  <2> QED
    BY <1>c, <2>1, <2>2 DEF LagInv, MemoryUnsaved
<1>6. CASE PhaseSucceeds
  BY <1>6, <1>a, NewSuccess DEF PhaseSucceeds, LagInv, MemoryUnsaved, LoopRecorded, Planned
<1>7. CASE PhaseFails
  <2>1. MarkFailed(state).completed = state.completed
    BY RecordedAfter DEF TypeOK
  <2>2. /\ file.completed \subseteq file'.completed /\ lostSaves <= lostSaves'
        /\ done' = done /\ pc' = "idle"
    BY <1>a, <1>b, <1>7, <2>1 DEF PhaseFails, Return, DeployInv, LoopCovers
  <2> QED
    BY <1>a, <2>2, NotFurtherBehind DEF LagInv, MemoryUnsaved, LoopRecorded, Planned
<1>8. CASE RecordPhase
  <2> DEFINE key == phaseKey(phaseList[i])
  <2>1. state'.completed = state.completed \cup {key}
    BY <1>8, RecordedAfter DEF RecordPhase, Saved, SaveFailed, TypeOK
  <2>2. /\ pc = "mark" /\ ~opts.dryRun /\ Planned
        /\ UNCHANGED <<opts, skip, done>> /\ i' = i + 1
    BY <1>8 DEF RecordPhase, DeployInv, LoopCovers, Planned
  <2>3. \/ file' = state' /\ lostSaves' = lostSaves
        \/ file' = file /\ lostSaves' = lostSaves + 1
    BY <1>8 DEF RecordPhase, Saved, SaveFailed
  <2>4. file.completed \subseteq state.completed
    BY <1>b, <2>2
  <2>5. InOrder' /\ FileBehind'
    BY <1>a, <2>1, <2>2, <2>3, <2>4, NotFurtherBehind
  <2>6. AtMost(state.completed \ file.completed, lostSaves)
    BY <2>2 DEF LagInv, MemoryUnsaved
  <2>7. AtMost((state.completed \ file.completed) \cup {key}, lostSaves + 1)
    BY <1>a, <2>6, OneMore
  <2>8. AtMost(state'.completed \ file'.completed, lostSaves')
    <3>1. CASE file' = state'
      BY <1>a, <3>1, EmptyAtMost
    <3>2. CASE file' = file /\ lostSaves' = lostSaves + 1
      <4>1. state'.completed \ file'.completed
              \subseteq (state.completed \ file.completed) \cup {key}
        BY <2>1, <3>2
      <4> QED
        BY <1>a, <2>7, <3>2, <4>1, SubsetAtMost
    <3> QED
      BY <2>3, <3>1, <3>2
  <2>9. LoopRecorded'
    <3>1. \A m \in 1..(i' - 1) : m \in 1..(i - 1) \/ m = i
      BY <1>a, <2>2
    <3> QED
      BY <1>a, <2>1, <2>2, <3>1 DEF LagInv, LoopRecorded
  <2> QED
    BY <2>5, <2>8, <2>9 DEF LagInv, MemoryUnsaved
<1>9. CASE Finish
  <2>1. [state EXCEPT !.status = "completed"].completed = state.completed
    BY RecordedAfter DEF TypeOK
  <2>2. /\ file.completed \subseteq file'.completed /\ lostSaves <= lostSaves'
        /\ done' = done /\ pc' = "idle"
    <3>1. CASE opts.dryRun
      BY <1>a, <1>9, <3>1 DEF Finish, Return
    <3>2. CASE ~opts.dryRun
      <4>1. /\ pc # "idle" /\ done' = done /\ pc' = "idle"
            /\ \/ file' = [state EXCEPT !.status = "completed"] /\ lostSaves' = lostSaves
               \/ file' = file /\ lostSaves' = lostSaves + 1
        BY <1>9, <3>2 DEF Finish, Saved, SaveFailed, Return
      <4>2. file.completed \subseteq state.completed
        BY <1>b, <3>2, <4>1
      <4>3. file'.completed = state.completed \/ file' = file
        BY <2>1, <4>1, Zenon
      <4>4. lostSaves <= lostSaves'
        BY <1>a, <4>1
      <4> QED
        BY <4>1, <4>2, <4>3, <4>4
    <3> QED
      BY <3>1, <3>2
  <2> QED
    BY <1>a, <2>2, NotFurtherBehind DEF LagInv, MemoryUnsaved, LoopRecorded, Planned
<1> QED
  BY <1>1, <1>2, <1>3, <1>4, <1>5, <1>6, <1>7, <1>8, <1>9 DEF Next, Program

\* While every phase has a key of its own, the checkpoint lacks of the phases
\* that succeeded at most the last and one for each write that failed.
THEOREM LagBounded == Spec => CheckpointLag
<1>1. LagInv => Cardinality(SucceededKeys \ file.completed) <= 1 + lostSaves
  BY DEF LagInv, FileBehind, AtMost, SucceededKeys
<1>2. TypeOK /\ TypeOK' /\ DeployInv /\ LagInv /\ OwnKeys /\ OwnKeys' /\ [Next]_vars => LagInv'
  BY NextLagInv
<1> QED
  BY <1>1, <1>2, InitLagInv, DeployTypeCorrect, DeployInvHolds, PTL DEF Spec, CheckpointLag

=============================================================================
