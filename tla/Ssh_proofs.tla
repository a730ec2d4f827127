----------------------------- MODULE Ssh_proofs -----------------------------
(***************************************************************************)
(* Proofs about Ssh, for any hosts, accounts, programs, size of the        *)
(* semaphore and number of failures.                                       *)
(***************************************************************************)
EXTENDS Ssh, FiniteSetTheorems, SequenceTheorems, TLAPS

(***************************************************************************)
(* Where the goroutines are.                                               *)
(***************************************************************************)
Working == {"get", "dial", "store", "session", "poll", "exec", "shell",
            "upload", "open", "stream", "rename"}

\* The owner of an upload shell in ss waits for it, and for no other.
OwnersWait(ss) ==
  /\ ss \subseteq Script
  /\ \A s \in ss : s.owner # "nobody" =>
       /\ s.owner \in Hosts /\ pc[s.owner] = "upload"
       /\ \A s2 \in ss : s2.owner = s.owner => s2 = s

\* Only the tasks of the step under way have a goroutine.
ControlInv ==
  /\ pc \in [Hosts -> Working \cup {"idle", "slot", "report", "done"}]
  /\ \A t \in Hosts : pc[t] # "idle" =>
       t \in TasksOf(round) /\ round \notin {"none", "clean"}
  /\ OwnersWait(scripts)

\* One goroutine works on, or has a result.
Works(t) ==
  /\ pc[t] \in Working
  /\ \E to \in Working \cup {"report"} : pc' = [pc EXCEPT ![t] = to]
  /\ UNCHANGED <<prog, at>>

\* Every step of a goroutine that has its slot, and Report aside.
LEMMA GoroutineWorks ==
  ASSUME NEW t \in Hosts,
         \/ Lookup(t) \/ Dial(t) \/ KeyMismatch(t)
         \/ DialFails(t) \/ Store(t) \/ OpenSession(t) \/ StaleSession(t)
         \/ PollAgain(t) \/ CommandEnds(t) \/ CommandFails(t)
         \/ SftpOpen(t) \/ SftpStream(t) \/ SftpRename(t) \/ SftpFails(t)
         \/ StartShell(t) \/ UploadFails(t) \/ PollTimeout(t)
  PROVE  Works(t)
<1> USE DEF Works, Working, Becomes, LetsGo, Returns, Fails, NoConnection,
            process
<1>1. CASE Lookup(t)
  BY <1>1 DEF Lookup
<1>2. CASE Dial(t)
  BY <1>2 DEF Dial
<1>3. CASE KeyMismatch(t)
  BY <1>3 DEF KeyMismatch
<1>4. CASE DialFails(t)
  BY <1>4 DEF DialFails
<1>5. CASE Store(t)
  BY <1>5 DEF Store
<1>6. CASE OpenSession(t)
  BY <1>6 DEF OpenSession
<1>7. CASE StaleSession(t)
  BY <1>7 DEF StaleSession
<1>8. CASE PollAgain(t)
  BY <1>8 DEF PollAgain
<1>9. CASE CommandEnds(t)
  BY <1>9 DEF CommandEnds
<1>10. CASE CommandFails(t)
  BY <1>10 DEF CommandFails
<1>11. CASE SftpOpen(t)
  BY <1>11 DEF SftpOpen
<1>12. CASE SftpStream(t)
  BY <1>12 DEF SftpStream
<1>13. CASE SftpRename(t)
  BY <1>13 DEF SftpRename
<1>14. CASE SftpFails(t)
  BY <1>14 DEF SftpFails
<1>15. CASE StartShell(t)
  BY <1>15 DEF StartShell
<1>16. CASE UploadFails(t)
  BY <1>16 DEF UploadFails
<1>17. CASE PollTimeout(t)
  BY <1>17 DEF PollTimeout
<1> QED
  BY <1>1, <1>2, <1>3, <1>4, <1>5, <1>6, <1>7, <1>8, <1>9, <1>10, <1>11,
     <1>12, <1>13, <1>14, <1>15, <1>16, <1>17

\* Only UploadFails takes a goroutine away from its upload shell.
LEMMA OthersHaveNoShell ==
  ASSUME NEW t \in Hosts,
         \/ Lookup(t) \/ Dial(t) \/ KeyMismatch(t)
         \/ DialFails(t) \/ Store(t) \/ OpenSession(t) \/ StaleSession(t)
         \/ PollAgain(t) \/ CommandEnds(t) \/ CommandFails(t)
         \/ SftpOpen(t) \/ SftpStream(t) \/ SftpRename(t) \/ SftpFails(t)
         \/ StartShell(t) \/ PollTimeout(t) \/ Acquire(t) \/ Report(t)
  PROVE  pc[t] # "upload"
BY DEF Lookup, Dial, KeyMismatch, DialFails, Store, OpenSession, StaleSession,
       PollAgain, CommandEnds, CommandFails, SftpOpen, SftpStream, SftpRename,
       SftpFails, StartShell, PollTimeout, Acquire, Report

LEMMA TargetIsHost == ASSUME NEW t \in Hosts PROVE Target(t) \in Hosts
BY HostsAssumption DEF Target

(***************************************************************************)
(* What becomes of the shells.                                             *)
(***************************************************************************)
LEMMA FewerWait ==
  ASSUME NEW ss, OwnersWait(ss), NEW rr \in SUBSET ss PROVE OwnersWait(rr)
BY DEF OwnersWait

LEMMA RenamedWait ==
  ASSUME NEW ss, OwnersWait(ss), NEW h PROVE OwnersWait(Renamed(ss, h))
<1> DEFINE F(s) == IF s.host # h THEN s
                     ELSE [s EXCEPT !.on = CASE s.on = "tmp"  -> "file"
                                             [] s.on = "file" -> "gone"
                                             [] OTHER         -> s.on]
<1>1. \A s \in ss : F(s) \in Script /\ F(s).owner = s.owner
  BY DEF OwnersWait, Script
<1>2. Renamed(ss, h) = {F(s) : s \in ss}
  BY DEF Renamed
<1> HIDE DEF F
<1> QED
  BY <1>1, <1>2 DEF OwnersWait

LEMMA SwapWaits ==
  ASSUME OwnersWait(scripts), NEW s \in scripts, NEW s2 \in Script,
         s2.owner = s.owner, Swap(s, s2), pc' = pc
  PROVE  OwnersWait(scripts)'
BY DEF OwnersWait, Swap

\* The clients of S are gone or give up; nobody else's shell is touched.
LEMMA OrphanedWait ==
  ASSUME OwnersWait(scripts), NEW S \in SUBSET scripts,
         scripts' = Orphaned(S),
         \A s \in scripts \ S :
           s.owner # "nobody" => pc'[s.owner] = pc[s.owner]
  PROVE  OwnersWait(scripts)'
<1> DEFINE F(s) == IF s \notin S THEN s
                     ELSE [s EXCEPT !.owner = "nobody",
                                    !.input = IF @ = "open" THEN "cut" ELSE @]
<1>1. \A s \in scripts : /\ F(s) \in Script
                         /\ s \in S => F(s).owner = "nobody"
                         /\ s \notin S => F(s) = s
  BY DEF OwnersWait, Script
<1>2. scripts' = {F(s) : s \in scripts}
  BY DEF Orphaned
<1> HIDE DEF F
<1> QED
  BY <1>1, <1>2 DEF OwnersWait

(***************************************************************************)
(* The control invariant.                                                  *)
(***************************************************************************)
LEMMA InitControl == Init => ControlInv
BY DEF Init, ControlInv, OwnersWait

\* A goroutine moves on, and the shells that wait for others are untouched.
LEMMA WorksControl ==
  ASSUME ControlInv, NEW t \in Hosts, Works(t), OwnersWait(scripts)'
  PROVE  ControlInv'
<1>1. pc[t] # "idle"
  BY DEF Works, Working
<1>2. round' = round
  BY DEF Works, round
<1>3. pc' \in [Hosts -> Working \cup {"idle", "slot", "report", "done"}]
  BY DEF Works, ControlInv
<1>4. \A u \in Hosts : pc'[u] # "idle" => pc[u] # "idle"
  BY <1>1 DEF Works, ControlInv
<1>5. \A u \in Hosts : pc'[u] # "idle" =>
        u \in TasksOf(round') /\ round' \notin {"none", "clean"}
  BY <1>2, <1>4 DEF ControlInv
<1>6. TasksOf(round)' = TasksOf(round')
  BY DEF TasksOf
<1> QED
  BY <1>3, <1>5, <1>6 DEF ControlInv

LEMMA ElsewhereWaits ==
  ASSUME ControlInv, NEW t \in Hosts, pc[t] # "upload",
         \E to : pc' = [pc EXCEPT ![t] = to], OwnersWait(scripts),
         UNCHANGED scripts
  PROVE  OwnersWait(scripts)'
BY DEF OwnersWait, ControlInv

LEMMA GoroutineControl ==
  ASSUME ControlInv, NEW t \in Hosts, Goroutine(t) \/ PollTimeout(t)
  PROVE  ControlInv'
<1> USE DEF ControlInv
<1>1. CASE Acquire(t)
  <2>1. OwnersWait(scripts)'
    BY <1>1, ElsewhereWaits DEF Acquire, remote
  <2>2. round' = round
    BY <1>1 DEF Acquire, process, round
  <2> QED
    BY <1>1, <2>1, <2>2 DEF Acquire, Working, TasksOf
<1>2. CASE Report(t)
  <2>1. OwnersWait(scripts)'
    BY <1>2, ElsewhereWaits DEF Report, remote
  <2>2. round' = round
    BY <1>2 DEF Report, process, round
  <2> QED
    BY <1>2, <2>1, <2>2 DEF Report, Working, TasksOf
<1>3. CASE SftpRename(t)
  <2>1. Works(t) /\ pc[t] # "upload"
    BY <1>3, GoroutineWorks, OthersHaveNoShell
  <2>2. \E to : pc' = [pc EXCEPT ![t] = to]
    BY <2>1 DEF Works
  <2>3. scripts' = Renamed(scripts, Target(t))
    BY <1>3 DEF SftpRename
  <2>4. OwnersWait(Renamed(scripts, Target(t)))
    BY RenamedWait
  <2>5. OwnersWait(scripts)'
    BY <2>1, <2>2, <2>3, <2>4 DEF OwnersWait
  <2> QED
    BY <2>1, <2>5, WorksControl
<1>4. CASE StartShell(t)
  <2>1. Works(t)
    BY <1>4, GoroutineWorks
  <2>2. pc[t] = "shell" /\ pc' = [pc EXCEPT ![t] = "upload"]
    BY <1>4 DEF StartShell, Becomes
  <2> DEFINE s == [host |-> Target(t), owner |-> t, at |-> "start",
                   on |-> "none", input |-> "open"]
  <2>3. scripts' = scripts \cup {s}
    BY <1>4 DEF StartShell
  <2>4. s \in Script /\ s.owner = t
    BY TargetIsHost DEF Script
  <2>5. \A r \in scripts : r.owner # t \/ t = "nobody"
    BY <2>2 DEF OwnersWait
  <2> HIDE DEF s
  <2>6. OwnersWait(scripts)'
    BY <2>2, <2>3, <2>4, <2>5 DEF OwnersWait
  <2> QED
    BY <2>1, <2>6, WorksControl
<1>5. CASE UploadFails(t)
  <2>1. Works(t)
    BY <1>5, GoroutineWorks
  <2>2. \E to : pc' = [pc EXCEPT ![t] = to]
    BY <2>1 DEF Works
  <2> DEFINE mine == {s \in scripts : s.owner = t}
  <2>3. \A s \in scripts \ mine : s.owner # "nobody" => pc'[s.owner] = pc[s.owner]
    BY <2>2 DEF OwnersWait
  <2>4. CASE scripts' = Orphaned(mine)
    <3>1. OwnersWait(scripts)'
      BY <2>3, <2>4, OrphanedWait
    <3> QED
      BY <2>1, <3>1, WorksControl
  <2>5. CASE scripts' = scripts \ mine
    <3>1. OwnersWait(scripts)'
      BY <2>3, <2>5 DEF OwnersWait
    <3> QED
      BY <2>1, <3>1, WorksControl
  <2> QED
    BY <1>5, <2>4, <2>5 DEF UploadFails
<1>6. CASE \/ Lookup(t) \/ Dial(t) \/ KeyMismatch(t)
           \/ DialFails(t) \/ Store(t) \/ OpenSession(t) \/ StaleSession(t)
           \/ PollAgain(t) \/ CommandEnds(t) \/ CommandFails(t)
           \/ SftpOpen(t) \/ SftpStream(t) \/ SftpFails(t) \/ PollTimeout(t)
  <2>1. Works(t) /\ pc[t] # "upload"
    BY <1>6, GoroutineWorks, OthersHaveNoShell
  <2>2. UNCHANGED scripts
    BY <1>6 DEF Lookup, Dial, KeyMismatch, DialFails, Store, OpenSession,
                StaleSession, PollAgain, CommandEnds, CommandFails, SftpOpen,
                SftpStream, SftpFails, PollTimeout, remote
  <2>3. OwnersWait(scripts)'
    BY <2>1, <2>2, ElsewhereWaits DEF Works
  <2> QED
    BY <2>1, <2>3, WorksControl
<1> QED
  BY <1>1, <1>2, <1>3, <1>4, <1>5, <1>6 DEF Goroutine

\* The process is gone, or between two of its steps.
LEMMA IdleControl ==
  ASSUME pc' = [t \in Hosts |-> "idle"], OwnersWait(scripts)'
  PROVE  ControlInv'
BY DEF ControlInv

\* The reports are in, so no shell has a client left.
LEMMA ReportedWaits ==
  ASSUME ControlInv, Reported, UNCHANGED scripts
  PROVE  OwnersWait(scripts)'
<1>1. \A s \in scripts : s.owner = "nobody"
  BY DEF ControlInv, OwnersWait, Reported
<1> QED
  BY <1>1 DEF ControlInv, OwnersWait

LEMMA NoneControl ==
  ASSUME ControlInv, round \in {"none", "clean"}
  PROVE  /\ pc = [t \in Hosts |-> "idle"]
         /\ \A s \in scripts : s.owner = "nobody"
BY DEF ControlInv, OwnersWait

LEMMA CallerControl == ASSUME ControlInv, Caller PROVE ControlInv'
<1>1. CASE cleanKnownHosts
  <2>1. pc' = [t \in Hosts |-> "idle"] /\ \A s \in scripts : s.owner = "nobody"
    BY <1>1, NoneControl DEF cleanKnownHosts, work
  <2>2. OwnersWait(scripts)'
    BY <1>1, <2>1 DEF ControlInv, OwnersWait, cleanKnownHosts, remote
  <2> QED
    BY <2>1, <2>2, IdleControl
<1>2. CASE Spawn
  <2>1. \A s \in scripts : s.owner = "nobody"
    BY <1>2 DEF Spawn, ControlInv, OwnersWait
  <2>2. OwnersWait(scripts)'
    BY <1>2, <2>1 DEF ControlInv, OwnersWait, Spawn, remote
  <2>3. round' = round /\ TasksOf(round)' = TasksOf(round)
    BY <1>2 DEF Spawn, process, round, TasksOf
  <2> QED
    BY <1>2, <2>2, <2>3 DEF Spawn, ControlInv, Working
<1>3. CASE NextRound
  BY <1>3, IdleControl, ReportedWaits DEF NextRound, NoGoroutines, remote
<1>4. CASE Exit
  <2>1. OwnersWait(scripts)'
    <3>1. CASE round = "none"
      BY <1>4, <3>1, NoneControl DEF ControlInv, OwnersWait, Exit, remote
    <3>2. CASE Reported
      BY <1>4, <3>2, ReportedWaits DEF Exit, remote
    <3> QED
      BY <1>4, <3>1, <3>2 DEF Exit
  <2> QED
    BY <1>4, <2>1, IdleControl DEF Exit, NoGoroutines
<1> QED
  BY <1>1, <1>2, <1>3, <1>4 DEF Caller

\* A shell moves; its client learns of it when the upload ends.
LEMMA ShellControl ==
  ASSUME ControlInv, NEW s \in scripts, Shell(s) PROVE ControlInv'
<1>1. s \in Script
  BY DEF ControlInv, OwnersWait
<1>2. round' = round /\ TasksOf(round)' = TasksOf(round)
  BY DEF Shell, SendAll, ShellOpen, Cat, Move, process, round, TasksOf
<1>3. CASE SendAll(s) \/ ShellOpen(s) \/ Cat(s)
  <2>1. pc' = pc
    BY <1>3 DEF SendAll, ShellOpen, Cat, work
  <2>2. \E s2 \in Script : s2.owner = s.owner /\ Swap(s, s2)
    <3>1. CASE SendAll(s)
      <4>1. [s EXCEPT !.input = "full"] \in Script
        BY <1>1 DEF Script
      <4> QED
        BY <1>1, <3>1, <4>1 DEF SendAll, Script
    <3>2. CASE ShellOpen(s)
      <4>1. [s EXCEPT !.at = "cat", !.on = "tmp"] \in Script
        BY <1>1 DEF Script
      <4> QED
        BY <1>1, <3>2, <4>1 DEF ShellOpen, Script
    <3>3. CASE Cat(s)
      <4>1. [s EXCEPT !.at = "mv"] \in Script
        BY <1>1 DEF Script
      <4> QED
        BY <1>1, <3>3, <4>1 DEF Cat, Script
    <3> QED
      BY <1>3, <3>1, <3>2, <3>3
  <2>3. OwnersWait(scripts)'
    BY <2>1, <2>2, SwapWaits DEF ControlInv
  <2> QED
    BY <1>2, <2>1, <2>3 DEF ControlInv
<1>4. CASE Move(s)
  <2>1. OwnersWait(scripts \ {s}) /\ OwnersWait(Renamed(scripts \ {s}, s.host))
    BY FewerWait, RenamedWait DEF ControlInv
  <2>2. \/ scripts' = scripts \ {s}
        \/ scripts' = Renamed(scripts \ {s}, s.host)
    BY <1>4 DEF Move
  <2>3. CASE UNCHANGED pc
    <3>1. OwnersWait(scripts)'
      BY <2>1, <2>2, <2>3 DEF OwnersWait
    <3> QED
      BY <1>2, <2>3, <3>1 DEF ControlInv
  <2>4. CASE s.owner # "nobody" /\ pc' = [pc EXCEPT ![s.owner] = "report"]
    <3>1. s.owner \in Hosts /\ pc[s.owner] = "upload"
      BY <2>4 DEF ControlInv, OwnersWait
    <3>2. \A r \in scripts \ {s} : r.owner # s.owner
      BY <2>4 DEF ControlInv, OwnersWait
    <3>3. \A r \in Renamed(scripts \ {s}, s.host) : r.owner # s.owner
      BY <3>2 DEF Renamed, ControlInv, OwnersWait, Script
    <3>4. OwnersWait(scripts)'
      BY <2>1, <2>2, <2>4, <3>2, <3>3 DEF OwnersWait, ControlInv
    <3>5. Works(s.owner)
      BY <1>4, <2>4, <3>1 DEF Works, Working, Move, process
    <3> QED
      BY <3>1, <3>4, <3>5, WorksControl
  <2> QED
    BY <1>4, <2>3, <2>4 DEF Move, Fails, Returns, LetsGo, Becomes
<1> QED
  BY <1>3, <1>4 DEF Shell

\* Machines and links change, or the run is cancelled: no goroutine moves.
LEMMA EnvironmentControl ==
  ASSUME ControlInv, UNCHANGED <<pc, prog, at>>, scripts' \subseteq scripts
  PROVE  ControlInv'
<1>1. OwnersWait(scripts)'
  BY FewerWait DEF ControlInv, OwnersWait
<1>2. round' = round /\ TasksOf(round)' = TasksOf(round)
  BY DEF round, TasksOf
<1> QED
  BY <1>1, <1>2 DEF ControlInv

LEMMA KilledControl == ASSUME ControlInv, Killed PROVE ControlInv'
<1>1. scripts' = Orphaned(scripts)
  BY DEF Killed
<1>2. OwnersWait(scripts)'
  BY <1>1, OrphanedWait DEF ControlInv
<1> QED
  BY <1>2, IdleControl DEF Killed, NoGoroutines

LEMMA StartControl ==
  ASSUME ControlInv, NEW p \in Programs, Start(p) PROVE ControlInv'
<1>1. round = "none"
  <2>1. prog \notin {"phase", "deploy", "verify"} \/ prog = "none"
    BY DEF Start
  <2> QED
    BY <2>1 DEF Start, round, Rounds
<1>2. pc = [t \in Hosts |-> "idle"] /\ \A s \in scripts : s.owner = "nobody"
  BY <1>1, NoneControl
<1>3. OwnersWait(scripts)'
  BY <1>2 DEF ControlInv, OwnersWait, Start, remote
<1> QED
  BY <1>2, <1>3, IdleControl DEF Start, work

LEMMA ControlStep == ASSUME ControlInv, [Next]_vars PROVE ControlInv'
<1>1. CASE \E p \in Programs : Start(p)
  BY <1>1, StartControl
<1>2. CASE Caller
  BY <1>2, CallerControl
<1>3. CASE \E t \in Hosts : Goroutine(t) \/ PollTimeout(t)
  BY <1>3, GoroutineControl
<1>4. CASE \E s \in scripts : Shell(s)
  BY <1>4, ShellControl
<1>5. CASE \E h \in Hosts : Drop(h) \/ Down(h) \/ Up(h)
  BY <1>5, EnvironmentControl DEF Drop, Down, Up, remote, process, work
<1>6. CASE \E h \in Hosts : Recreate(h)
  BY <1>6, EnvironmentControl DEF Recreate, process, work
<1>7. CASE Cancel \/ UNCHANGED vars
  BY <1>7, EnvironmentControl DEF Cancel, remote, work, vars
<1>8. CASE Killed
  BY <1>8, KilledControl
<1> QED
  BY <1>1, <1>2, <1>3, <1>4, <1>5, <1>6, <1>7, <1>8 DEF Next

THEOREM ControlHolds == Spec => []ControlInv
<1>1. Init => ControlInv
  BY InitControl
<1>2. ControlInv /\ [Next]_vars => ControlInv'
  BY ControlStep
<1> QED
  BY <1>1, <1>2, PTL DEF Spec

(***************************************************************************)
(* Parallel calls implement HostTasks.                                     *)
(***************************************************************************)
Asked == {t \in Hosts : TaskStatus(t) # "none"}
Status == [t \in Hosts |-> TaskStatus(t)]

LEMMA NotAsked ==
  ASSUME round \notin Parallel, NEW t \in Hosts PROVE TaskStatus(t) = "none"
BY DEF TaskStatus

LEMMA SameTasks ==
  ASSUME ControlInv, ControlInv',
         \A t \in Hosts : TaskStatus(t)' = TaskStatus(t)
  PROVE  UNCHANGED HT!vars
BY DEF HT!vars

\* One task goes from one status to another.
LEMMA TaskMoves ==
  ASSUME NEW t \in Hosts, NEW from, NEW to, from # "none", to # "none",
         TaskStatus(t) = from, TaskStatus(t)' = to,
         \A u \in Hosts \ {t} : TaskStatus(u)' = TaskStatus(u)
  PROVE  HT!Move(t, from, to)
BY DEF HT!Move

LEMMA WorksRefines ==
  ASSUME ControlInv, ControlInv', NEW t \in Hosts, Works(t)
  PROVE  HT!Next \/ UNCHANGED HT!vars
<1>1. round' = round
  BY DEF Works, round
<1>2. CASE round \notin Parallel
  BY <1>1, <1>2, SameTasks DEF TaskStatus
<1>3. CASE round \in Parallel
  <2>1. TaskStatus(t) = "running" /\ TaskStatus(t)' \in {"running", "ended"}
    BY <1>1, <1>3 DEF Works, Working, TaskStatus, ControlInv
  <2>2. \A u \in Hosts \ {t} : TaskStatus(u)' = TaskStatus(u)
    BY <1>1 DEF Works, TaskStatus, ControlInv
  <2>3. CASE TaskStatus(t)' = "running"
    BY <2>1, <2>2, <2>3, SameTasks
  <2>4. CASE TaskStatus(t)' = "ended"
    BY <2>1, <2>2, <2>4, TaskMoves DEF HT!Next, HT!Work, HT!End
  <2> QED
    BY <2>1, <2>3, <2>4
<1> QED
  BY <1>2, <1>3

LEMMA ShellRefines ==
  ASSUME ControlInv, ControlInv', NEW s \in scripts, Shell(s)
  PROVE  HT!Next \/ UNCHANGED HT!vars
<1>1. UNCHANGED <<prog, at>>
  BY DEF Shell, SendAll, ShellOpen, Cat, Move, process
<1>2. CASE UNCHANGED pc
  <2>1. \A t \in Hosts : TaskStatus(t)' = TaskStatus(t)
    BY <1>1, <1>2 DEF TaskStatus, round
  <2> QED
    BY <2>1, SameTasks
<1>3. CASE s.owner # "nobody" /\ pc' = [pc EXCEPT ![s.owner] = "report"]
  <2>1. s.owner \in Hosts /\ pc[s.owner] = "upload"
    BY <1>3 DEF ControlInv, OwnersWait
  <2>2. Works(s.owner)
    BY <1>1, <1>3, <2>1 DEF Works, Working
  <2> QED
    BY <2>1, <2>2, WorksRefines
<1> QED
  BY <1>2, <1>3 DEF Shell, SendAll, ShellOpen, Cat, Move, work, Fails, Returns,
                    LetsGo, Becomes

LEMMA SameCardinality == \A S : HT!Cardinality(S) = Cardinality(S)
BY DEF HT!Cardinality, Cardinality

\* A free slot of the semaphore is a task HostTasks may begin.
LEMMA AcquireRefines ==
  ASSUME ControlInv, ControlInv', NEW t \in Hosts, Acquire(t)
  PROVE  HT!Next \/ UNCHANGED HT!vars
<1>1. round' = round
  BY DEF Acquire, process, round
<1>2. CASE round \notin Parallel
  BY <1>1, <1>2, SameTasks DEF TaskStatus
<1>3. CASE round \in Parallel
  <2>1. TaskStatus(t) = "queued" /\ TaskStatus(t)' = "running"
    BY <1>1, <1>3 DEF Acquire, TaskStatus, ControlInv
  <2>2. \A u \in Hosts \ {t} : TaskStatus(u)' = TaskStatus(u)
    BY <1>1 DEF Acquire, TaskStatus, ControlInv
  <2>3. HT!With("running") = {u \in Hosts : Holding(u)}
    <3>1. \A u \in Hosts : TaskStatus(u) = "running" <=> Holding(u)
      BY <1>3 DEF TaskStatus, Holding
    <3> QED
      BY <3>1 DEF HT!With
  <2>4. HT!Move(t, "queued", "running")
    BY <2>1, <2>2, TaskMoves
  <2>5. Cardinality(HT!With("running")) < maxParallelHosts
    BY <2>3, Zenon DEF Acquire
  <2>6. HT!Begin(t)
    BY <2>4, <2>5, SameCardinality DEF HT!Begin
  <2> QED
    BY <2>6 DEF HT!Next, HT!Work
<1> QED
  BY <1>2, <1>3

LEMMA ReportRefines ==
  ASSUME ControlInv, ControlInv', NEW t \in Hosts, Report(t)
  PROVE  HT!Next \/ UNCHANGED HT!vars
<1>1. round' = round
  BY DEF Report, process, round
<1>2. CASE round \notin Parallel
  BY <1>1, <1>2, SameTasks DEF TaskStatus
<1>3. CASE round \in Parallel
  <2>1. TaskStatus(t) = "ended" /\ TaskStatus(t)' = "reported"
    BY <1>1, <1>3 DEF Report, TaskStatus, ControlInv
  <2>2. \A u \in Hosts \ {t} : TaskStatus(u)' = TaskStatus(u)
    BY <1>1 DEF Report, TaskStatus, ControlInv
  <2>3. HT!Move(t, "ended", "reported")
    BY <2>1, <2>2, TaskMoves
  <2> QED
    BY <2>3 DEF HT!Next, HT!Work, HT!Report
<1> QED
  BY <1>2, <1>3

LEMMA SpawnRefines ==
  ASSUME ControlInv, ControlInv', Spawn
  PROVE  HT!Next \/ UNCHANGED HT!vars
<1>1. round' = round
  BY DEF Spawn, process, round
<1>2. CASE round \notin Parallel
  BY <1>1, <1>2, SameTasks DEF TaskStatus
<1>3. CASE round \in Parallel
  <2>1. \A t \in Hosts : TaskStatus(t) = "none"
    BY DEF Spawn, TaskStatus
  <2>2. \A t \in Hosts : TaskStatus(t)' = IF t \in TasksOf(round) THEN "queued"
                                            ELSE "none"
    BY <1>1, <1>3 DEF Spawn, TaskStatus
  <2>3. CASE TasksOf(round) = {}
    BY <2>1, <2>2, <2>3, SameTasks
  <2>4. CASE TasksOf(round) # {}
    <3>1. TasksOf(round) \subseteq Hosts
      BY HostsAssumption DEF TasksOf
    <3>2. Asked = {} /\ Asked' = TasksOf(round)
      BY <2>1, <2>2, <3>1 DEF Asked
    <3>3. Asked' \in (SUBSET Hosts) \ {{}}
      BY <2>4, <3>1, <3>2
    <3>4. \A t \in Hosts : TaskStatus(t)' = IF t \in Asked' THEN "queued"
                                              ELSE "none"
      BY <2>2, <3>2
    <3>5. Status' = [t \in Hosts |-> IF t \in Asked' THEN "queued" ELSE "none"]
      BY <3>4 DEF Status
    <3>6. HT!Call
      BY <3>2, <3>3, <3>5 DEF HT!Call, Asked, Status
    <3> QED
      BY <3>6 DEF HT!Next
  <2> QED
    BY <2>3, <2>4
<1> QED
  BY <1>2, <1>3

\* The goroutines are gone: all have reported, or the process died.
LEMMA IdleRefines ==
  ASSUME pc' = [t \in Hosts |-> "idle"]
  PROVE  /\ Asked = {} => UNCHANGED HT!vars
         /\ Asked # {} => HT!Die
         /\ Asked # {} /\ (\A t \in Asked : TaskStatus(t) = "reported")
              => HT!Return
<1>1. \A t \in Hosts : TaskStatus(t)' = "none"
  BY DEF TaskStatus
<1>2. Asked' = {} /\ HT!Idle
  BY <1>1 DEF Asked, HT!Idle
<1>3. ASSUME Asked = {} PROVE UNCHANGED HT!vars
  <2>1. \A t \in Hosts : TaskStatus(t)' = TaskStatus(t)
    BY <1>1, <1>3 DEF Asked
  <2> QED
    BY <2>1 DEF HT!vars
<1>4. Asked # {} => HT!Die
  BY <1>2 DEF HT!Die, Asked
<1>5. ASSUME Asked # {}, \A t \in Asked : TaskStatus(t) = "reported"
      PROVE  HT!Return
  <2>1. HT!With("reported") = Asked
    BY <1>5 DEF HT!With, Asked
  <2> QED
    BY <1>2, <1>5, <2>1 DEF HT!Return, Asked
<1> QED
  BY <1>3, <1>4, <1>5

LEMMA AskedTasks ==
  ASSUME ControlInv
  PROVE  \A t \in Asked : t \in TasksOf(round) /\ round \in Parallel
BY DEF Asked, TaskStatus, ControlInv

LEMMA ReportedTasks ==
  ASSUME ControlInv, Reported
  PROVE  \A t \in Asked : TaskStatus(t) = "reported"
BY AskedTasks DEF Asked, Reported, TaskStatus

LEMMA CallerRefines ==
  ASSUME ControlInv, ControlInv', Caller
  PROVE  HT!Next \/ UNCHANGED HT!vars
<1>1. CASE cleanKnownHosts
  <2>1. Asked = {} /\ pc' = [t \in Hosts |-> "idle"]
    BY <1>1, NoneControl DEF cleanKnownHosts, Asked, TaskStatus, work
  <2> QED
    BY <2>1, IdleRefines
<1>2. CASE Spawn
  BY <1>2, SpawnRefines
<1>3. CASE NextRound
  BY <1>3, IdleRefines, ReportedTasks DEF NextRound, NoGoroutines, HT!Next,
                                          HT!Work
<1>4. CASE Exit
  BY <1>4, IdleRefines DEF Exit, NoGoroutines, HT!Next
<1> QED
  BY <1>1, <1>2, <1>3, <1>4 DEF Caller

LEMMA StepRefines ==
  ASSUME ControlInv, ControlInv', [Next]_vars
  PROVE  HT!Next \/ UNCHANGED HT!vars
<1>1. CASE \E p \in Programs : Start(p)
  <2>1. round = "none"
    BY <1>1, ProgramsAssumption DEF Start, round, Rounds
  <2>2. Asked = {} /\ pc' = [t \in Hosts |-> "idle"]
    BY <1>1, <2>1, NoneControl DEF Start, Asked, TaskStatus, work
  <2> QED
    BY <2>2, IdleRefines
<1>2. CASE Caller
  BY <1>2, CallerRefines
<1>3. ASSUME NEW t \in Hosts, Goroutine(t) \/ PollTimeout(t)
      PROVE  HT!Next \/ UNCHANGED HT!vars
  <2>1. CASE Acquire(t)
    BY <2>1, AcquireRefines
  <2>2. CASE Report(t)
    BY <2>2, ReportRefines
  <2>3. CASE Works(t)
    BY <2>3, WorksRefines
  <2> QED
    BY <1>3, <2>1, <2>2, <2>3, GoroutineWorks DEF Goroutine
<1>4. CASE \E s \in scripts : Shell(s)
  BY <1>4, ShellRefines
<1>5. CASE UNCHANGED <<pc, prog, at>>
  <2>1. \A t \in Hosts : TaskStatus(t)' = TaskStatus(t)
    BY <1>5 DEF TaskStatus, round
  <2> QED
    BY <2>1, SameTasks
<1>6. CASE Killed
  BY <1>6, IdleRefines DEF Killed, NoGoroutines, HT!Next
<1>7. CASE \/ \E h \in Hosts : Drop(h) \/ Down(h) \/ Up(h) \/ Recreate(h)
           \/ Cancel
           \/ UNCHANGED vars
  <2>1. UNCHANGED <<pc, prog, at>>
    BY <1>7 DEF Drop, Down, Up, Recreate, Cancel, process, work, vars
  <2> QED
    BY <1>5, <2>1
<1> QED
  BY <1>1, <1>2, <1>3, <1>4, <1>6, <1>7 DEF Next

\* The calls of RunParallel and RunParallelFunc (parallel.go) run every task
\* once, no more than the semaphore lets in, and return when all have reported,
\* whatever fails, is cancelled or killed: each step of Ssh is one of HostTasks
\* or none.
THEOREM ParallelCallsRefine == Spec => ParallelCalls
<1>1. Init => HT!Init
  BY DEF Init, HT!Init, TaskStatus, round, Rounds
<1>2. ControlInv /\ ControlInv' /\ [Next]_vars => [HT!Next]_(HT!vars)
  BY StepRefines
<1>3. Init => ControlInv
  BY InitControl
<1>4. ControlInv /\ [Next]_vars => ControlInv'
  BY ControlStep
<1> QED
  BY <1>1, <1>2, <1>3, <1>4, PTL DEF Spec, ParallelCalls, HT!Spec

(***************************************************************************)
(* The host keys on record.                                                *)
(***************************************************************************)
\* Whatever verifier the process holds knows at least the store's keys.
TrustInv ==
  /\ known \in [Hosts -> SUBSET HostKeys] /\ hostKey \in [Hosts -> HostKeys]
  /\ \A h \in Hosts : \A k1, k2 \in known[h] : k1 = k2
  /\ verifier = NoVerifier \/ \A h \in Hosts : known[h] \subseteq verifier[h]

LEMMA VerifierKnows ==
  ASSUME TrustInv, NEW h \in Hosts PROVE known[h] \subseteq Verifier[h]
BY DEF TrustInv, Verifier

LEMMA DialTrust ==
  ASSUME TrustInv, NEW t \in Hosts, Dial(t) PROVE TrustInv'
<1> DEFINE h == Target(t)
<1>1. h \in Hosts /\ verifyHostKey(h) /\ UNCHANGED hostKey
  BY TargetIsHost DEF Dial, machine
<1> HIDE DEF h
<1>2. CASE Unknown(h)
  <2>1. known[h] = {}
    BY <1>1, <1>2, VerifierKnows DEF Unknown
  <2>2. known' = [known EXCEPT ![h] = @ \cup {hostKey[h]}] /\ verifier' = known'
    BY <1>1, <1>2 DEF verifyHostKey
  <2> QED
    BY <1>1, <2>1, <2>2 DEF TrustInv
<1>3. CASE ~Unknown(h)
  <2>1. known' = known /\ verifier' = Verifier
    BY <1>1, <1>3 DEF verifyHostKey
  <2> QED
    BY <1>1, <2>1, VerifierKnows DEF TrustInv
<1> QED
  BY <1>2, <1>3

LEMMA TrustStep == ASSUME TrustInv, [Next]_vars PROVE TrustInv'
<1>1. CASE UNCHANGED <<hostKey, known, verifier>>
  BY <1>1 DEF TrustInv
<1>2. CASE verifier' = NoVerifier /\ UNCHANGED <<hostKey, known>>
  BY <1>2 DEF TrustInv
<1>3. ASSUME NEW t \in Hosts, Goroutine(t) \/ PollTimeout(t) PROVE TrustInv'
  <2>1. CASE Dial(t)
    BY <2>1, DialTrust
  <2>2. CASE KeyMismatch(t)
    BY <2>2, VerifierKnows DEF KeyMismatch, machine, TrustInv
  <2> QED
    BY <1>1, <1>3, <2>1, <2>2
       DEF Goroutine, PollTimeout, Acquire, Report, Lookup, DialFails, Store,
           OpenSession, StaleSession, PollAgain, CommandEnds, CommandFails,
           SftpOpen, SftpStream, SftpRename, SftpFails, StartShell,
           UploadFails, machine, trust
<1>4. CASE Caller
  <2>1. CASE cleanKnownHosts
    <3>1. CASE known' = [h \in Hosts |-> {}]
      BY <2>1, <3>1 DEF cleanKnownHosts, machine, TrustInv
    <3>2. CASE UNCHANGED known
      BY <1>1, <2>1, <3>2 DEF cleanKnownHosts, machine
    <3> QED
      BY <2>1, <3>1, <3>2 DEF cleanKnownHosts
  <2> QED
    BY <1>1, <1>2, <1>4, <2>1
       DEF Caller, Spawn, NextRound, Exit, Gone, machine, trust
<1>5. CASE \E h \in Hosts : Recreate(h)
  <2>1. PICK h \in Hosts : Recreate(h)
    BY <1>5
  <2>2. hostKey' \in [Hosts -> HostKeys]
    BY <2>1 DEF Recreate, TrustInv, HostKeys
  <2> QED
    BY <2>1, <2>2 DEF Recreate, trust, TrustInv
<1>6. CASE \/ \E p \in Programs : Start(p)
           \/ \E s \in scripts : Shell(s)
           \/ \E h \in Hosts : Drop(h) \/ Down(h) \/ Up(h)
           \/ Cancel
           \/ UNCHANGED vars
  BY <1>1, <1>6 DEF Start, Shell, SendAll, ShellOpen, Cat, Move, Drop, Down,
                    Up, Cancel, machine, trust, vars
<1>7. CASE Killed
  BY <1>2, <1>7 DEF Killed, Gone, machine
<1> QED
  BY <1>3, <1>4, <1>5, <1>6, <1>7 DEF Next

LEMMA TrustHolds == Spec => []TrustInv
<1>1. Init => TrustInv
  BY DEF Init, TrustInv, HostKeys
<1>2. TrustInv /\ [Next]_vars => TrustInv'
  BY TrustStep
<1> QED
  BY <1>1, <1>2, PTL DEF Spec

\* verifyHostKey, trustHostKey and cleanKnownHosts (client.go, repair.go): no
\* order of concurrent handshakes, stale verifiers, cleaned stores and machines
\* created anew makes the store trust two keys of one host.
THEOREM OneKey == Spec => []OneKeyPinned
<1>1. TrustInv => OneKeyPinned
  <2> SUFFICES ASSUME TrustInv, NEW h \in Hosts
               PROVE  Cardinality(known[h]) <= 1
    BY DEF OneKeyPinned
  <2>1. CASE known[h] = {}
    BY <2>1, FS_EmptySet
  <2>2. CASE known[h] # {}
    <3>1. PICK k \in known[h] : known[h] = {k}
      BY <2>2 DEF TrustInv
    <3>2. Cardinality(known[h]) = 1
      BY <3>1, FS_Singleton, Zenon
    <3> QED
      BY <3>2
  <2> QED
    BY <2>1, <2>2
<1> QED
  BY <1>1, TrustHolds, PTL

(***************************************************************************)
(* The connections.                                                        *)
(***************************************************************************)
Pooled(c) == clients[c[1]] = c \/ c \in evicted

\* What a goroutine works with is in the pool or evicted; what it has dialled
\* and not yet stored is its own.
PoolInv ==
  /\ clients \in [Hosts -> Clients \cup {NoClient}] /\ evicted \subseteq Clients
  /\ cl \in [Hosts -> Clients \cup {NoClient}]
  /\ conn \in [Clients -> {"free", "up", "dead"}]
  /\ \A h \in Hosts : clients[h] # NoClient => clients[h][1] = h
  /\ \A c \in Clients : Pooled(c) => conn[c] # "free"
  /\ \A t \in Hosts : InUse(t) =>
       /\ cl[t] \in Clients
       /\ pc[t] # "store" => Pooled(cl[t])
       /\ pc[t] = "store" =>
            /\ cl[t][1] = Target(t) /\ conn[cl[t]] # "free" /\ ~Pooled(cl[t])
            /\ \A u \in Hosts : pc[u] = "store" /\ cl[u] = cl[t] => u = t
  /\ EveryConnectionTracked

LEMMA ClientFacts ==
  /\ \A c \in Clients : c[1] \in Hosts
  /\ NoClient \notin Clients
<1>1. \A c \in Clients : c[1] \in Hosts /\ c[2] \in 1..Dials
  BY DEF Clients
<1>2. NoClient[2] = 0 /\ 0 \notin 1..Dials
  BY DEF NoClient
<1> QED
  BY <1>1, <1>2

LEMMA InitPool == Init => PoolInv
BY ClientFacts DEF Init, PoolInv, Pooled, InUse, EveryConnectionTracked

\* No goroutine holds a connection, and nothing else of the pool changes.
LEMMA IdlePool ==
  ASSUME PoolInv, \A t \in Hosts : pc[t] # "store",
         NoGoroutines, UNCHANGED <<clients, evicted, conn>>
  PROVE  PoolInv'
<1>1. \A t \in Hosts : ~InUse(t)'
  BY DEF NoGoroutines, InUse
<1>2. cl' \in [Hosts -> Clients \cup {NoClient}]
  BY DEF NoGoroutines
<1>3. EveryConnectionTracked'
  BY DEF PoolInv, EveryConnectionTracked
<1> QED
  BY <1>1, <1>2, <1>3 DEF PoolInv, Pooled

\* Every connection is closed: Close, or the end of the process.
LEMMA EmptyPool ==
  ASSUME NoGoroutines, conn' = [c \in Clients |-> "free"],
         clients' = [h \in Hosts |-> NoClient], evicted' = {}
  PROVE  PoolInv'
<1>1. \A t \in Hosts : ~InUse(t)'
  BY DEF NoGoroutines, InUse
<1>2. \A c \in Clients : ~Pooled(c)'
  BY ClientFacts DEF Pooled
<1> QED
  BY <1>1, <1>2 DEF PoolInv, NoGoroutines, EveryConnectionTracked

\* A step that leaves the connections and who holds which as they are.
LEMMA QuietPool ==
  ASSUME PoolInv, UNCHANGED <<clients, evicted, pc, cl, round>>,
         conn' \in [Clients -> {"free", "up", "dead"}],
         \A c \in Clients : conn'[c] = "free" <=> conn[c] = "free"
  PROVE  PoolInv'
<1>1. \A t \in Hosts : InUse(t)' = InUse(t) /\ Target(t)' = Target(t)
  BY DEF InUse, Target
<1>2. \A c \in Clients : Pooled(c)' = Pooled(c)
  BY DEF Pooled
<1> QED
  BY <1>1, <1>2 DEF PoolInv, EveryConnectionTracked

\* Goroutine t goes on with the connection it has, or lets it go.
LEMMA KeepsPool ==
  ASSUME PoolInv, ControlInv, NEW t \in Hosts, pc[t] # "store",
         UNCHANGED <<clients, evicted, conn, round>>,
         NEW to \in Working \cup {"report", "done"}, to # "store",
         pc' = [pc EXCEPT ![t] = to],
         \/ cl' = [cl EXCEPT ![t] = NoClient] /\ ~InUse(t)'
         \/ cl' = cl /\ (InUse(t)' => InUse(t))
  PROVE  PoolInv'
<1>1. \A u \in Hosts : Target(u)' = Target(u)
  BY DEF Target
<1>2. \A c \in Clients : Pooled(c)' = Pooled(c)
  BY DEF Pooled
<1>3. \A u \in Hosts \ {t} : pc'[u] = pc[u] /\ cl'[u] = cl[u]
                             /\ InUse(u)' = InUse(u)
  BY DEF InUse, ControlInv, PoolInv
<1>4. pc'[t] = to
  BY DEF ControlInv
<1>5. cl' \in [Hosts -> Clients \cup {NoClient}]
  BY DEF PoolInv
<1>6. EveryConnectionTracked'
  BY <1>2, <1>3 DEF PoolInv, EveryConnectionTracked, Pooled
<1>7. \A u \in Hosts : InUse(u)' =>
        /\ cl'[u] \in Clients
        /\ pc'[u] # "store" => Pooled(cl'[u])
        /\ pc'[u] = "store" =>
             /\ cl'[u][1] = Target(u) /\ conn[cl'[u]] # "free"
             /\ ~Pooled(cl'[u])
             /\ \A v \in Hosts : pc'[v] = "store" /\ cl'[v] = cl'[u] => v = u
  BY <1>3, <1>4 DEF PoolInv
<1> QED
  BY <1>1, <1>2, <1>5, <1>6, <1>7 DEF PoolInv, Pooled

\* Dial: the new connection is nobody else's.
LEMMA DialPool ==
  ASSUME PoolInv, ControlInv, NEW t \in Hosts, Dial(t) PROVE PoolInv'
<1> DEFINE h == Target(t)
           new == FreshClient(h)
<1>1. h \in Hosts
  BY TargetIsHost
<1>2. new \in Clients /\ new[1] = h /\ conn[new] = "free"
  <2>1. PICK n \in 1..Dials : conn[<<h, n>>] = "free"
    BY DEF Dial
  <2>2. \E c \in {h} \X (1..Dials) : conn[c] = "free"
    BY <2>1
  <2>3. new \in {h} \X (1..Dials) /\ conn[new] = "free"
    BY <2>2 DEF FreshClient
  <2> QED
    BY <1>1, <2>3 DEF Clients
<1>3. /\ conn' = [conn EXCEPT ![new] = "up"]
      /\ cl' = [cl EXCEPT ![t] = new]
      /\ pc' = [pc EXCEPT ![t] = "store"]
      /\ UNCHANGED <<clients, evicted, round>>
  BY DEF Dial, Becomes, process, round
<1>4. h = Target(t) /\ \A u \in Hosts : Target(u)' = Target(u)
  BY <1>3 DEF Target
<1> HIDE DEF h, new
<1>5. ~Pooled(new) /\ \A u \in Hosts : InUse(u) => cl[u] # new
  BY <1>2 DEF PoolInv
<1>6. \A c \in Clients : Pooled(c)' = Pooled(c)
  BY <1>3 DEF Pooled
<1>7. \A u \in Hosts \ {t} : pc'[u] = pc[u] /\ cl'[u] = cl[u]
                             /\ InUse(u)' = InUse(u)
  BY <1>3 DEF InUse, ControlInv, PoolInv
<1>8. pc'[t] = "store" /\ cl'[t] = new /\ conn'[new] = "up"
      /\ \A c \in Clients \ {new} : conn'[c] = conn[c]
  BY <1>2, <1>3 DEF ControlInv, PoolInv
<1>9. \A u \in Hosts : InUse(u)' =>
        /\ cl'[u] \in Clients
        /\ pc'[u] # "store" => Pooled(cl'[u])
        /\ pc'[u] = "store" =>
             /\ cl'[u][1] = Target(u) /\ conn'[cl'[u]] # "free"
             /\ ~Pooled(cl'[u])
             /\ \A v \in Hosts : pc'[v] = "store" /\ cl'[v] = cl'[u] => v = u
  <2>1. ASSUME NEW u \in Hosts \ {t}, InUse(u)'
        PROVE  /\ cl'[u] \in Clients
               /\ pc'[u] # "store" => Pooled(cl'[u])
               /\ pc'[u] = "store" =>
                    /\ cl'[u][1] = Target(u) /\ conn'[cl'[u]] # "free"
                    /\ ~Pooled(cl'[u])
                    /\ \A v \in Hosts :
                         pc'[v] = "store" /\ cl'[v] = cl'[u] => v = u
    BY <2>1, <1>5, <1>7, <1>8 DEF PoolInv
  <2>2. \A v \in Hosts : pc'[v] = "store" /\ cl'[v] = new => v = t
    <3>1. \A v \in Hosts : pc[v] = "store" => InUse(v)
      BY DEF InUse
    <3> QED
      BY <1>5, <1>7, <3>1
  <2> QED
    BY <2>1, <2>2, <1>2, <1>4, <1>5, <1>8
<1>10. EveryConnectionTracked'
  <2>1. pc[t] = "dial"
    BY DEF Dial
  <2>2. ASSUME NEW c \in Clients \ {new}, conn'[c] # "free"
        PROVE  \/ clients'[c[1]] = c \/ c \in evicted'
               \/ \E u \in Hosts : pc'[u] = "store" /\ cl'[u] = c
    <3>1. CASE Pooled(c)
      BY <1>3, <3>1 DEF Pooled
    <3>2. CASE \E u \in Hosts : pc[u] = "store" /\ cl[u] = c
      BY <1>7, <2>1, <3>2
    <3> QED
      BY <1>8, <2>2, <3>1, <3>2 DEF PoolInv, EveryConnectionTracked, Pooled
  <2> QED
    BY <1>8, <2>2 DEF EveryConnectionTracked
<1>11. /\ cl' \in [Hosts -> Clients \cup {NoClient}]
       /\ conn' \in [Clients -> {"free", "up", "dead"}]
  BY <1>2, <1>3 DEF PoolInv
<1> QED
  BY <1>3, <1>4, <1>6, <1>8, <1>9, <1>10, <1>11 DEF PoolInv, Pooled

\* Store, when the pool has no connection: the new one is there from now on.
LEMMA StoreNewPool ==
  ASSUME PoolInv, ControlInv, NEW t \in Hosts, Store(t),
         clients[Target(t)] = NoClient
  PROVE  PoolInv'
<1> DEFINE h == Target(t)
           new == cl[t]
<1>1. h \in Hosts /\ clients[h] = NoClient /\ pc[t] = "store"
  BY TargetIsHost DEF Store
<1>2. /\ clients' = [clients EXCEPT ![h] = new]
      /\ pc' = [pc EXCEPT ![t] = "session"]
      /\ UNCHANGED <<cl, conn, evicted, round>>
  BY <1>1 DEF Store, Becomes, process, round
<1>3. /\ new \in Clients /\ new[1] = h /\ conn[new] # "free"
      /\ \A u \in Hosts : pc[u] = "store" /\ cl[u] = new => u = t
  <2>1. InUse(t)
    BY <1>1 DEF InUse
  <2> QED
    BY <1>1, <2>1 DEF PoolInv
<1>4. h = Target(t) /\ \A u \in Hosts : Target(u)' = Target(u)
  BY <1>2 DEF Target
<1> HIDE DEF h, new
<1>5. \A c \in Clients : Pooled(c)' <=> Pooled(c) \/ c = new
  <2>1. \A c \in Clients : clients[c[1]] = c => c[1] # h
    BY <1>1, ClientFacts
  <2> QED
    BY <1>1, <1>2, <1>3, <2>1, ClientFacts DEF Pooled, PoolInv
<1>6. \A u \in Hosts \ {t} : pc'[u] = pc[u] /\ InUse(u)' = InUse(u)
  BY <1>2 DEF InUse, ControlInv
<1>7. pc'[t] = "session" /\ cl'[t] = new
  BY <1>2 DEF ControlInv, new
<1>8. \A u \in Hosts : InUse(u)' =>
        /\ cl[u] \in Clients
        /\ pc'[u] # "store" => Pooled(cl[u]) \/ cl[u] = new
        /\ pc'[u] = "store" =>
             /\ cl[u][1] = Target(u) /\ conn[cl[u]] # "free"
             /\ ~Pooled(cl[u]) /\ cl[u] # new
             /\ \A v \in Hosts : pc'[v] = "store" /\ cl[v] = cl[u] => v = u
  BY <1>2, <1>3, <1>6, <1>7 DEF PoolInv
<1>9. EveryConnectionTracked'
  <2> SUFFICES ASSUME NEW c \in Clients, conn[c] # "free"
               PROVE  Pooled(c)' \/ \E u \in Hosts : pc'[u] = "store" /\ cl[u] = c
    BY <1>2 DEF EveryConnectionTracked, Pooled
  <2>1. Pooled(c) \/ \E u \in Hosts : pc[u] = "store" /\ cl[u] = c
    BY DEF PoolInv, EveryConnectionTracked, Pooled
  <2> QED
    BY <1>5, <1>6, <2>1 DEF new
<1>10. /\ clients' \in [Hosts -> Clients \cup {NoClient}]
       /\ \A g \in Hosts : clients'[g] # NoClient => clients'[g][1] = g
  BY <1>1, <1>2, <1>3 DEF PoolInv
<1> QED
  BY <1>2, <1>3, <1>4, <1>5, <1>8, <1>9, <1>10 DEF PoolInv

\* Store, when another goroutine came first: its connection is shared and the
\* new one closed, which nobody else has seen.
LEMMA StoreLatePool ==
  ASSUME PoolInv, ControlInv, NEW t \in Hosts, Store(t),
         clients[Target(t)] # NoClient
  PROVE  PoolInv'
<1> DEFINE h == Target(t)
           new == cl[t]
           old == clients[h]
<1>1. h \in Hosts /\ old # NoClient /\ pc[t] = "store"
  BY TargetIsHost DEF Store
<1>2. /\ cl' = [cl EXCEPT ![t] = old] /\ conn' = [conn EXCEPT ![new] = "free"]
      /\ pc' = [pc EXCEPT ![t] = "session"]
      /\ UNCHANGED <<clients, evicted, round>>
  BY <1>1 DEF Store, Becomes, process, round
<1>3. /\ new \in Clients /\ ~Pooled(new)
      /\ \A u \in Hosts : pc[u] = "store" /\ cl[u] = new => u = t
  <2>1. InUse(t)
    BY <1>1 DEF InUse
  <2> QED
    BY <1>1, <2>1 DEF PoolInv
<1>4. old \in Clients /\ Pooled(old)
  BY <1>1 DEF PoolInv, Pooled
<1>5. \A u \in Hosts : Target(u)' = Target(u)
  BY <1>2 DEF Target
<1> HIDE DEF h, new, old
<1>6. \A c \in Clients : Pooled(c)' = Pooled(c)
  BY <1>2 DEF Pooled
<1>7. \A u \in Hosts \ {t} : pc'[u] = pc[u] /\ cl'[u] = cl[u]
                             /\ InUse(u)' = InUse(u)
  BY <1>2 DEF InUse, ControlInv, PoolInv
<1>8. pc'[t] = "session" /\ cl'[t] = old /\ conn'[new] = "free"
      /\ \A c \in Clients \ {new} : conn'[c] = conn[c]
  BY <1>2, <1>3 DEF ControlInv, PoolInv
<1>9. \A u \in Hosts : InUse(u)' =>
        /\ cl'[u] \in Clients
        /\ pc'[u] # "store" => Pooled(cl'[u])
        /\ pc'[u] = "store" =>
             /\ cl'[u][1] = Target(u) /\ conn'[cl'[u]] # "free"
             /\ ~Pooled(cl'[u])
             /\ \A v \in Hosts : pc'[v] = "store" /\ cl'[v] = cl'[u] => v = u
  BY <1>3, <1>4, <1>7, <1>8 DEF PoolInv
<1>10. EveryConnectionTracked'
  <2> SUFFICES ASSUME NEW c \in Clients, conn'[c] # "free"
               PROVE  Pooled(c)' \/ \E u \in Hosts : pc'[u] = "store" /\ cl'[u] = c
    BY DEF EveryConnectionTracked, Pooled
  <2>1. c # new /\ conn[c] # "free"
    BY <1>8
  <2>2. Pooled(c) \/ \E u \in Hosts : pc[u] = "store" /\ cl[u] = c
    BY <2>1 DEF PoolInv, EveryConnectionTracked, Pooled
  <2> QED
    BY <1>6, <1>7, <2>1, <2>2 DEF new
<1>11. /\ cl' \in [Hosts -> Clients \cup {NoClient}]
       /\ conn' \in [Clients -> {"free", "up", "dead"}]
  BY <1>2, <1>4 DEF PoolInv
<1>12. \A c \in Clients : Pooled(c)' => conn'[c] # "free"
  BY <1>3, <1>6, <1>8 DEF PoolInv
<1> QED
  BY <1>2, <1>5, <1>6, <1>9, <1>10, <1>11, <1>12 DEF PoolInv

\* invalidateClient: the connection changes from cached to evicted, so whoever
\* works with it still may.
LEMMA InvalidatePool ==
  ASSUME PoolInv, ControlInv, NEW t \in Hosts, pc[t] = "session",
         NEW h \in Hosts, invalidateClient(h),
         NEW to \in {"poll", "get"}, LetsGo(t, to), UNCHANGED round
  PROVE  PoolInv'
<1>1. /\ evicted' = evicted \cup ({clients[h]} \ {NoClient})
      /\ clients' = [clients EXCEPT ![h] = NoClient] /\ conn' = conn
      /\ pc' = [pc EXCEPT ![t] = to] /\ cl' = [cl EXCEPT ![t] = NoClient]
  BY DEF invalidateClient, LetsGo, Becomes
<1>2. \A u \in Hosts : Target(u)' = Target(u)
  BY DEF Target
<1>3. \A c \in Clients : Pooled(c)' = Pooled(c)
  <2> TAKE c \in Clients
  <2>1. CASE c[1] = h
    BY <1>1, <2>1, ClientFacts DEF Pooled, PoolInv
  <2>2. CASE c[1] # h
    <3>1. clients[h] # c
      BY <2>2, ClientFacts DEF PoolInv
    <3> QED
      BY <1>1, <2>2, <3>1, ClientFacts DEF Pooled, PoolInv
  <2> QED
    BY <2>1, <2>2
<1>4. \A u \in Hosts \ {t} : pc'[u] = pc[u] /\ cl'[u] = cl[u]
                             /\ InUse(u)' = InUse(u)
  BY <1>1 DEF InUse, ControlInv, PoolInv
<1>5. pc'[t] = to /\ ~InUse(t)'
  BY <1>1 DEF InUse, ControlInv
<1>6. \A u \in Hosts : InUse(u)' =>
        /\ cl'[u] \in Clients
        /\ pc'[u] # "store" => Pooled(cl'[u])
        /\ pc'[u] = "store" =>
             /\ cl'[u][1] = Target(u) /\ conn[cl'[u]] # "free"
             /\ ~Pooled(cl'[u])
             /\ \A v \in Hosts : pc'[v] = "store" /\ cl'[v] = cl'[u] => v = u
  BY <1>4, <1>5 DEF PoolInv
<1>7. EveryConnectionTracked'
  <2> SUFFICES ASSUME NEW c \in Clients, conn[c] # "free"
               PROVE  Pooled(c)' \/ \E u \in Hosts : pc'[u] = "store" /\ cl'[u] = c
    BY <1>1 DEF EveryConnectionTracked, Pooled
  <2>1. Pooled(c) \/ \E u \in Hosts : pc[u] = "store" /\ cl[u] = c
    BY DEF PoolInv, EveryConnectionTracked, Pooled
  <2> QED
    BY <1>3, <1>4, <2>1
<1>8. /\ clients' \in [Hosts -> Clients \cup {NoClient}]
      /\ evicted' \subseteq Clients
      /\ cl' \in [Hosts -> Clients \cup {NoClient}]
      /\ \A g \in Hosts : clients'[g] # NoClient => clients'[g][1] = g
  BY <1>1 DEF PoolInv
<1> QED
  BY <1>1, <1>2, <1>3, <1>6, <1>7, <1>8 DEF PoolInv

LEMMA LookupPool ==
  ASSUME PoolInv, ControlInv, NEW t \in Hosts, Lookup(t) PROVE PoolInv'
<1> DEFINE h == Target(t)
<1>1. h \in Hosts /\ pc[t] = "get" /\ ~InUse(t)
  BY TargetIsHost DEF Lookup, InUse
<1>2. /\ cl' = [cl EXCEPT ![t] = clients[h]]
      /\ pc' = [pc EXCEPT ![t] = IF clients[h] = NoClient THEN "dial"
                                 ELSE "session"]
      /\ UNCHANGED <<clients, evicted, conn, round>>
  BY DEF Lookup, Becomes, pool, process, round
<1> HIDE DEF h
<1>3. \A u \in Hosts : Target(u)' = Target(u)
  BY <1>2 DEF Target
<1>4. \A c \in Clients : Pooled(c)' = Pooled(c)
  BY <1>2 DEF Pooled
<1>5. \A u \in Hosts \ {t} : pc'[u] = pc[u] /\ cl'[u] = cl[u]
                             /\ InUse(u)' = InUse(u)
  BY <1>2 DEF InUse, ControlInv, PoolInv
<1>6. /\ pc'[t] # "store" /\ cl'[t] = clients[h]
      /\ InUse(t)' => cl'[t] \in Clients /\ Pooled(cl'[t])
  BY <1>1, <1>2 DEF InUse, ControlInv, PoolInv, Pooled
<1>7. \A u \in Hosts : InUse(u)' =>
        /\ cl'[u] \in Clients
        /\ pc'[u] # "store" => Pooled(cl'[u])
        /\ pc'[u] = "store" =>
             /\ cl'[u][1] = Target(u) /\ conn[cl'[u]] # "free"
             /\ ~Pooled(cl'[u])
             /\ \A v \in Hosts : pc'[v] = "store" /\ cl'[v] = cl'[u] => v = u
  BY <1>5, <1>6 DEF PoolInv
<1>8. EveryConnectionTracked'
  BY <1>1, <1>2, <1>5 DEF PoolInv, EveryConnectionTracked
<1>9. cl' \in [Hosts -> Clients \cup {NoClient}]
  BY <1>1, <1>2 DEF PoolInv
<1> QED
  BY <1>2, <1>3, <1>4, <1>7, <1>8, <1>9 DEF PoolInv

LEMMA GoroutinePool ==
  ASSUME PoolInv, ControlInv, NEW t \in Hosts, Goroutine(t) \/ PollTimeout(t)
  PROVE  PoolInv'
<1>1. UNCHANGED round
  BY DEF Goroutine, PollTimeout, Acquire, Report, Lookup, Dial, KeyMismatch,
         DialFails, Store, OpenSession, StaleSession, PollAgain, CommandEnds,
         CommandFails, SftpOpen, SftpStream, SftpRename, SftpFails,
         StartShell, UploadFails, process, round
<1>2. CASE Lookup(t)
  BY <1>2, LookupPool
<1>3. CASE Dial(t)
  BY <1>3, DialPool
<1>4. CASE Store(t)
  BY <1>4, StoreNewPool, StoreLatePool
<1>5. CASE /\ pc[t] = "session" /\ invalidateClient(Target(t))
           /\ LetsGo(t, "poll") \/ LetsGo(t, "get")
  BY <1>1, <1>5, InvalidatePool, TargetIsHost
<1>6. CASE /\ pc[t] # "store" /\ UNCHANGED pool
           /\ \E to \in Working \cup {"report", "done"} :
                /\ to # "store" /\ pc' = [pc EXCEPT ![t] = to]
                /\ \/ cl' = [cl EXCEPT ![t] = NoClient]
                      /\ to \in {"poll", "get", "report"}
                   \/ cl' = cl /\ (to \in {"get", "done"} \/ InUse(t))
  <2>1. PICK to \in Working \cup {"report", "done"} :
          /\ to # "store" /\ pc' = [pc EXCEPT ![t] = to]
          /\ \/ cl' = [cl EXCEPT ![t] = NoClient]
                /\ to \in {"poll", "get", "report"}
             \/ cl' = cl /\ (to \in {"get", "done"} \/ InUse(t))
    BY <1>6
  <2>2. to \in {"get", "poll", "report", "done"} => ~InUse(t)'
    BY <2>1 DEF InUse, ControlInv
  <2> QED
    BY <1>1, <1>6, <2>1, <2>2, KeepsPool DEF pool
<1>7. CASE \/ OpenSession(t) \/ StartShell(t) \/ SftpOpen(t) \/ SftpStream(t)
           \/ Acquire(t) \/ Report(t) \/ PollAgain(t)
  <2>1. CASE OpenSession(t)
    BY <1>6, <2>1 DEF OpenSession, Becomes, LetsGo, Returns, Working, InUse
  <2>2. CASE StartShell(t) \/ SftpOpen(t) \/ SftpStream(t)
    BY <1>6, <2>2 DEF StartShell, SftpOpen, SftpStream, Becomes, Working, InUse
  <2>3. CASE Acquire(t) \/ Report(t) \/ PollAgain(t)
    BY <1>6, <2>3 DEF Acquire, Report, PollAgain, Becomes, Working
  <2> QED
    BY <1>7, <2>1, <2>2, <2>3
<1>8. CASE \/ KeyMismatch(t) \/ DialFails(t) \/ PollTimeout(t)
           \/ CommandEnds(t) \/ CommandFails(t) \/ SftpRename(t)
           \/ SftpFails(t) \/ UploadFails(t)
  BY <1>6, <1>8 DEF KeyMismatch, DialFails, PollTimeout, CommandEnds,
                    CommandFails, SftpRename, SftpFails, UploadFails,
                    NoConnection, Fails, Returns, LetsGo, Becomes, Working
<1>9. CASE StaleSession(t) /\ Fails(t) /\ UNCHANGED pool
  BY <1>6, <1>9 DEF StaleSession, Fails, LetsGo, Becomes, Working
<1> QED
  BY <1>2, <1>3, <1>4, <1>5, <1>7, <1>8, <1>9 DEF Goroutine, StaleSession

LEMMA ShellPool ==
  ASSUME PoolInv, ControlInv, NEW s \in scripts, Shell(s) PROVE PoolInv'
<1>1. UNCHANGED <<pool, round>>
  BY DEF Shell, SendAll, ShellOpen, Cat, Move, process, round
<1>2. CASE UNCHANGED <<pc, cl>>
  BY <1>1, <1>2, QuietPool DEF pool, PoolInv
<1>3. CASE s.owner # "nobody" /\ LetsGo(s.owner, "report")
  <2>1. s.owner \in Hosts /\ pc[s.owner] = "upload"
    BY <1>3 DEF ControlInv, OwnersWait
  <2>2. ~InUse(s.owner)' /\ "report" # "store"
    BY <1>3, <2>1 DEF LetsGo, Becomes, InUse, ControlInv
  <2> QED
    BY <1>1, <1>3, <2>1, <2>2, KeepsPool DEF pool, LetsGo, Becomes
<1> QED
  BY <1>2, <1>3 DEF Shell, SendAll, ShellOpen, Cat, Move, work, Fails, Returns

LEMMA ExitPool == ASSUME PoolInv, ControlInv, Exit PROVE PoolInv'
<1>1. \A t \in Hosts : pc[t] # "store"
  BY DEF Exit, Reported, ControlInv
<1>2. \A c \in Clients : conn[c] # "free" => Pooled(c)
  BY <1>1 DEF PoolInv, EveryConnectionTracked, Pooled
<1>3. \A c \in Clients : conn'[c] = "free"
  BY <1>2, ClientFacts DEF Exit, Close, Pooled
<1>4. conn' = [c \in Clients |-> "free"]
  BY <1>3 DEF Exit, Close
<1> QED
  BY <1>4, EmptyPool DEF Exit, Close

LEMMA PoolStep ==
  ASSUME PoolInv, ControlInv, [Next]_vars PROVE PoolInv'
<1>1. CASE \E p \in Programs : Start(p)
  <2>1. pc = [t \in Hosts |-> "idle"]
    BY <1>1, NoneControl, ProgramsAssumption DEF Start, round, Rounds
  <2>2. UNCHANGED <<pc, cl, clients, evicted, conn>>
    BY <1>1 DEF Start, pool, work
  <2>3. \A t \in Hosts : ~InUse(t) /\ ~InUse(t)'
    BY <2>1, <2>2 DEF InUse
  <2> QED
    BY <2>2, <2>3 DEF PoolInv, EveryConnectionTracked, Pooled
<1>2. CASE cleanKnownHosts
  <2>1. \A t \in Hosts : ~InUse(t)
    BY <1>2, NoneControl DEF cleanKnownHosts, InUse
  <2>2. UNCHANGED <<pc, cl, clients, evicted, conn>>
    BY <1>2 DEF cleanKnownHosts, pool, work
  <2>3. \A t \in Hosts : ~InUse(t)'
    BY <2>1, <2>2 DEF InUse
  <2> QED
    BY <2>2, <2>3 DEF PoolInv, EveryConnectionTracked, Pooled
<1>3. CASE Spawn
  <2>1. \A t \in Hosts : ~InUse(t)
    BY <1>3 DEF Spawn, InUse
  <2>2. \A t \in Hosts : ~InUse(t)' /\ pc[t] # "store"
    BY <1>3 DEF Spawn, InUse
  <2>3. UNCHANGED <<cl, clients, evicted, conn>>
    BY <1>3 DEF Spawn, pool
  <2>4. EveryConnectionTracked'
    BY <2>2, <2>3 DEF PoolInv, EveryConnectionTracked
  <2> QED
    BY <2>2, <2>3, <2>4 DEF PoolInv, Pooled
<1>4. CASE NextRound
  <2>1. \A t \in Hosts : pc[t] # "store"
    BY <1>4 DEF NextRound, Reported, ControlInv
  <2> QED
    BY <1>4, <2>1, IdlePool DEF NextRound, pool
<1>5. CASE Exit
  BY <1>5, ExitPool
<1>6. CASE \E t \in Hosts : Goroutine(t) \/ PollTimeout(t)
  BY <1>6, GoroutinePool
<1>7. CASE \E s \in scripts : Shell(s)
  BY <1>7, ShellPool
<1>8. ASSUME NEW h \in Hosts, Drop(h) \/ Down(h) PROVE PoolInv'
  <2>1. UNCHANGED <<clients, evicted, pc, cl, round>> /\ LinksDie({h})
    BY <1>8 DEF Drop, Down, process, work, round
  <2>2. conn' \in [Clients -> {"free", "up", "dead"}]
    BY <2>1 DEF LinksDie, PoolInv
  <2>3. \A c \in Clients : conn'[c] = "free" <=> conn[c] = "free"
    BY <2>1 DEF LinksDie
  <2> QED
    BY <2>1, <2>2, <2>3, QuietPool
<1>9. CASE (\E h \in Hosts : Up(h) \/ Recreate(h)) \/ Cancel \/ UNCHANGED vars
  <2>1. UNCHANGED <<clients, evicted, conn, pc, cl, round>>
    BY <1>9 DEF Up, Recreate, Cancel, process, work, pool, round, vars
  <2> QED
    BY <2>1, QuietPool DEF PoolInv
<1>10. CASE Killed
  BY <1>10, EmptyPool DEF Killed
<1> QED
  BY <1>1, <1>2, <1>3, <1>4, <1>5, <1>6, <1>7, <1>8, <1>9, <1>10
     DEF Next, Caller

THEOREM PoolHolds == Spec => []PoolInv
<1>1. Init => PoolInv
  BY InitPool
<1>2. PoolInv /\ ControlInv /\ [Next]_vars => PoolInv'
  BY PoolStep
<1> QED
  BY <1>1, <1>2, ControlHolds, PTL DEF Spec

\* getClient, invalidateClient and Close (client.go): a connection is never
\* closed under a goroutine that works with it, however many share it and
\* whoever evicts it.
THEOREM NoneClosedInUse == Spec => []NoClosedConnectionInUse
<1>1. PoolInv => NoClosedConnectionInUse
  BY DEF PoolInv, NoClosedConnectionInUse
<1> QED
  BY <1>1, PoolHolds, PTL

\* The same functions never lose sight of an open connection, so that Close
\* leaves none behind.
THEOREM AllTracked == Spec => []EveryConnectionTracked
<1>1. PoolInv => EveryConnectionTracked
  BY DEF PoolInv
<1> QED
  BY <1>1, PoolHolds, PTL

(***************************************************************************)
(* Uploads as root.                                                        *)
(***************************************************************************)
Streaming == {"open", "stream", "rename"}

\* As root there are no upload shells, each sidecar has one writer, and it is
\* whole when it is renamed.
SftpInv ==
  /\ file \in [Hosts -> {"old", "part", "new"}]
  /\ tmp \in [Hosts -> {"none", "part", "new"}]
  /\ \A t \in Hosts : pc[t] \in Streaming => round = "hosts" /\ ~elevated
  /\ ~elevated =>
       /\ scripts = {}
       /\ \A t \in Hosts : /\ pc[t] \notin {"shell", "upload"}
                           /\ pc[t] = "rename" => tmp[t] = "new"
       /\ \A h \in Hosts : file[h] # "part"

LEMMA HostsTarget ==
  ASSUME round = "hosts", NEW t \in Hosts PROVE Target(t) = t
BY DEF Target

\* A goroutine that neither opens, writes nor renames a file.
LEMMA IdleSftp ==
  ASSUME SftpInv, ControlInv, NEW t \in Hosts,
         UNCHANGED <<file, tmp, elevated, round>>,
         scripts' \subseteq scripts \/ elevated,
         NEW to, pc' = [pc EXCEPT ![t] = to],
         to \in Streaming \cup {"shell", "upload"} =>
           /\ round = "hosts"
           /\ elevated <=> to \in {"shell", "upload"}
           /\ to # "rename"
  PROVE  SftpInv'
BY DEF SftpInv, ControlInv, Streaming

LEMMA UploadSftp ==
  ASSUME SftpInv, ControlInv, NEW t \in Hosts,
         SftpOpen(t) \/ SftpStream(t) \/ SftpRename(t) \/ SftpFails(t)
  PROVE  SftpInv'
<1>1. pc[t] \in Streaming /\ round = "hosts" /\ Target(t) = t
  BY HostsTarget DEF SftpOpen, SftpStream, SftpRename, SftpFails, Streaming,
                     SftpInv
<1>2. UNCHANGED <<elevated, round>> /\ (~elevated => scripts' = {})
  BY DEF SftpOpen, SftpStream, SftpRename, SftpFails, process, round, SftpInv,
         Renamed
<1>3. CASE SftpOpen(t) \/ SftpStream(t)
  BY <1>1, <1>2, <1>3 DEF SftpOpen, SftpStream, SetTmp, Becomes, SftpInv,
                          ControlInv, Streaming
<1>4. CASE SftpRename(t)
  BY <1>1, <1>2, <1>4 DEF SftpRename, SetTmp, SetFile, Returns, LetsGo,
                          Becomes, SftpInv, ControlInv, Streaming
<1>5. CASE SftpFails(t)
  <2>1. /\ UNCHANGED file /\ pc' = [pc EXCEPT ![t] = "report"]
        /\ tmp' = tmp \/ tmp' = [tmp EXCEPT ![t] = "none"]
    BY <1>1, <1>5 DEF SftpFails, SetTmp, Fails, LetsGo, Becomes
  <2> QED
    BY <1>1, <1>2, <2>1 DEF SftpInv, ControlInv, Streaming
<1> QED
  BY <1>3, <1>4, <1>5

LEMMA GoroutineSftp ==
  ASSUME SftpInv, ControlInv, NEW t \in Hosts, Goroutine(t) \/ PollTimeout(t)
  PROVE  SftpInv'
<1>1. UNCHANGED <<elevated, round>>
  BY DEF Goroutine, PollTimeout, Acquire, Report, Lookup, Dial, KeyMismatch,
         DialFails, Store, OpenSession, StaleSession, PollAgain, CommandEnds,
         CommandFails, SftpOpen, SftpStream, SftpRename, SftpFails,
         StartShell, UploadFails, process, round
<1>2. CASE SftpOpen(t) \/ SftpStream(t) \/ SftpRename(t) \/ SftpFails(t)
  BY <1>2, UploadSftp
<1>3. CASE OpenSession(t)
  <2>1. PICK to \in {"report", "exec", "shell", "open"} :
          /\ pc' = [pc EXCEPT ![t] = to]
          /\ to \in {"shell", "open"} => round = "hosts"
          /\ to = "shell" => elevated
          /\ to = "open" => ~elevated
    BY <1>3 DEF OpenSession, Returns, LetsGo, Becomes
  <2> QED
    BY <1>1, <1>3, <2>1, IdleSftp DEF OpenSession, remote, Streaming
<1>4. CASE StartShell(t)
  <2>1. elevated /\ pc' = [pc EXCEPT ![t] = "upload"] /\ UNCHANGED <<file, tmp>>
    BY <1>4 DEF StartShell, Becomes, SftpInv
  <2> QED
    BY <1>1, <2>1 DEF SftpInv, ControlInv, Streaming
<1>5. CASE UploadFails(t)
  <2>1. elevated /\ UNCHANGED <<file, tmp>> /\ pc' = [pc EXCEPT ![t] = "report"]
    BY <1>5 DEF UploadFails, Fails, LetsGo, Becomes, SftpInv
  <2> QED
    BY <1>1, <2>1, IdleSftp DEF Streaming
<1>6. CASE \/ Acquire(t) \/ Report(t) \/ Lookup(t) \/ Dial(t)
           \/ KeyMismatch(t) \/ DialFails(t) \/ Store(t) \/ StaleSession(t)
           \/ PollAgain(t) \/ CommandEnds(t) \/ CommandFails(t)
           \/ PollTimeout(t)
  <2>1. UNCHANGED <<file, tmp, scripts>>
    BY <1>6 DEF Acquire, Report, Lookup, Dial, KeyMismatch, DialFails, Store,
                StaleSession, PollAgain, CommandEnds, CommandFails,
                PollTimeout, remote
  <2>2. PICK to \in {"get", "done", "dial", "session", "store", "poll",
                     "report"} : pc' = [pc EXCEPT ![t] = to]
    BY <1>6 DEF Acquire, Report, Lookup, Dial, KeyMismatch, DialFails, Store,
                StaleSession, PollAgain, CommandEnds, CommandFails,
                PollTimeout, NoConnection, Becomes, LetsGo, Returns, Fails
  <2> QED
    BY <1>1, <2>1, <2>2, IdleSftp DEF Streaming
<1> QED
  BY <1>2, <1>3, <1>4, <1>5, <1>6 DEF Goroutine

\* All goroutines are idle or have reported, before and after the step.
LEMMA RestSftp ==
  ASSUME SftpInv, UNCHANGED elevated, ~elevated => scripts' = {},
         \A t \in Hosts : pc'[t] \in {"idle", "slot", "get"},
         file' \in [Hosts -> {"old", "part", "new"}],
         tmp' \in [Hosts -> {"none", "part", "new"}],
         \A h \in Hosts : file'[h] = "part" => file[h] = "part"
  PROVE  SftpInv'
BY DEF SftpInv, Streaming

LEMMA SftpStep ==
  ASSUME SftpInv, ControlInv, [Next]_vars PROVE SftpInv'
<1>1. CASE Caller \/ \E p \in Programs : Start(p)
  <2>1. UNCHANGED <<elevated, file, tmp, scripts>>
    BY <1>1 DEF Caller, cleanKnownHosts, Spawn, NextRound, Exit, Start,
                process, remote
  <2>2. \A t \in Hosts : pc'[t] \in {"idle", "slot", "get"}
    <3>1. CASE cleanKnownHosts
      BY <3>1, NoneControl DEF cleanKnownHosts, work
    <3>2. CASE Spawn \/ NextRound \/ Exit
      BY <3>2 DEF Spawn, NextRound, Exit, NoGoroutines
    <3>3. ASSUME NEW p \in Programs, Start(p)
          PROVE  \A t \in Hosts : pc'[t] \in {"idle", "slot", "get"}
      BY <3>3, NoneControl, ProgramsAssumption DEF Start, round, Rounds, work
    <3> QED
      BY <1>1, <3>1, <3>2, <3>3 DEF Caller
  <2> QED
    BY <2>1, <2>2, RestSftp DEF SftpInv
<1>2. CASE \E t \in Hosts : Goroutine(t) \/ PollTimeout(t)
  BY <1>2, GoroutineSftp
<1>3. ASSUME NEW s \in scripts, Shell(s) PROVE SftpInv'
  <2>1. elevated /\ UNCHANGED <<elevated, round>>
    BY <1>3 DEF SftpInv, Shell, SendAll, ShellOpen, Cat, Move, process, round
  <2>2. /\ file' \in [Hosts -> {"old", "part", "new"}]
        /\ tmp' \in [Hosts -> {"none", "part", "new"}]
    BY <1>3 DEF SftpInv, Shell, SendAll, ShellOpen, Cat, Move, SetTmp, SetFile
  <2>3. \A t \in Hosts : pc'[t] \in Streaming => pc[t] \in Streaming
    BY <1>3 DEF Shell, SendAll, ShellOpen, Cat, Move, work, Fails, Returns,
                LetsGo, Becomes, ControlInv, Streaming
  <2> QED
    BY <2>1, <2>2, <2>3 DEF SftpInv
<1>4. ASSUME NEW h \in Hosts, Recreate(h) PROVE SftpInv'
  <2>1. pc = [t \in Hosts |-> "idle"] /\ UNCHANGED <<pc, elevated>>
    BY <1>4, NoneControl, ProgramsAssumption
       DEF Recreate, round, Rounds, process, work
  <2>2. /\ file' = [file EXCEPT ![h] = "old"]
        /\ tmp' = [tmp EXCEPT ![h] = "none"]
        /\ scripts' \subseteq scripts
    BY <1>4 DEF Recreate, SetFile, SetTmp
  <2> QED
    BY <2>1, <2>2, RestSftp DEF SftpInv
<1>5. CASE Killed
  <2>1. ~elevated => scripts' = {}
    BY <1>5 DEF Killed, Orphaned, SftpInv
  <2> QED
    BY <1>5, <2>1, RestSftp DEF Killed, NoGoroutines, SftpInv
<1>6. CASE \/ \E h \in Hosts : Drop(h) \/ Down(h) \/ Up(h)
           \/ Cancel \/ UNCHANGED vars
  <2>1. UNCHANGED <<file, tmp, elevated, pc, round>> /\ scripts' \subseteq scripts
    BY <1>6 DEF Drop, Down, Up, Cancel, remote, process, work, round, vars
  <2> QED
    BY <2>1 DEF SftpInv
<1> QED
  BY <1>1, <1>2, <1>3, <1>4, <1>5, <1>6 DEF Next

LEMMA SftpHolds == Spec => []SftpInv
<1>1. Init => SftpInv
  BY DEF Init, SftpInv, Streaming
<1>2. SftpInv /\ ControlInv /\ [Next]_vars => SftpInv'
  BY SftpStep
<1> QED
  BY <1>1, <1>2, ControlHolds, PTL DEF Spec

\* copyContent (client.go), as root: whatever call of an upload fails, drops or
\* is cancelled, or if the process is killed, /etc/hosts is the old file or the
\* new one.
THEOREM SftpWhole == Spec => []SftpNeverHalf
<1>1. SftpInv => SftpNeverHalf
  BY DEF SftpInv, SftpNeverHalf
<1> QED
  BY <1>1, SftpHolds, PTL

(***************************************************************************)
(* Uploads as another user.                                                *)
(***************************************************************************)
\* On a host where no shell has outlived its client there is at most one, that
\* of the goroutine whose host it is; it has the sidecar to itself.
ShellInv ==
  /\ \A t \in Hosts : pc[t] \in {"shell", "upload"} => round = "hosts"
  /\ \A s \in scripts : s.host \notin lost =>
       /\ s.owner = s.host /\ s.input # "cut"
       /\ s.at = "cat" => s.on = "tmp"
       /\ s.at = "mv" => tmp[s.host] = "new"
  /\ HalfOnlyFromOrphans

LEMMA OneShell ==
  ASSUME ControlInv, ShellInv, NEW s \in scripts, NEW r \in scripts,
         s.host \notin lost, r.host = s.host
  PROVE  r = s
BY HostsAssumption DEF ControlInv, OwnersWait, ShellInv, Script

LEMMA GoroutineShell ==
  ASSUME ShellInv, SftpInv, ControlInv, SftpInv', NEW t \in Hosts,
         Goroutine(t) \/ PollTimeout(t)
  PROVE  ShellInv'
<1>1. UNCHANGED <<elevated, round>>
  BY DEF Goroutine, PollTimeout, Acquire, Report, Lookup, Dial, KeyMismatch,
         DialFails, Store, OpenSession, StaleSession, PollAgain, CommandEnds,
         CommandFails, SftpOpen, SftpStream, SftpRename, SftpFails,
         StartShell, UploadFails, process, round
<1>2. CASE SftpOpen(t) \/ SftpStream(t) \/ SftpRename(t) \/ SftpFails(t)
  <2>1. ~elevated /\ scripts' = {} /\ UNCHANGED lost
    BY <1>2 DEF SftpInv, Streaming, SftpOpen, SftpStream, SftpRename,
                SftpFails, Renamed
  <2> QED
    BY <1>1, <2>1 DEF SftpInv, ShellInv, HalfOnlyFromOrphans
<1>3. CASE StartShell(t)
  <2>1. round = "hosts" /\ Target(t) = t
    BY <1>3, HostsTarget DEF StartShell, ShellInv
  <2>2. /\ scripts' = scripts \cup {[host |-> t, owner |-> t, at |-> "start",
                                     on |-> "none", input |-> "open"]}
        /\ UNCHANGED <<file, tmp, lost>>
    BY <1>3, <2>1 DEF StartShell
  <2> QED
    BY <1>1, <2>1, <2>2 DEF ShellInv, HalfOnlyFromOrphans
<1>4. CASE UploadFails(t)
  <2> DEFINE mine == {s \in scripts : s.owner = t}
  <2>1. /\ UNCHANGED <<file, tmp>> /\ pc' = [pc EXCEPT ![t] = "report"]
        /\ \/ scripts' = Orphaned(mine) /\ lost' = lost \cup HostsOf(mine)
           \/ scripts' = scripts \ mine /\ UNCHANGED lost
    BY <1>4 DEF UploadFails, Fails, LetsGo, Becomes
  <2>2. ASSUME NEW s \in Orphaned(mine) PROVE s.host \in HostsOf(mine) \/ s \in scripts
    <3>1. PICK r \in scripts :
            s = IF r \notin mine THEN r
                ELSE [r EXCEPT !.owner = "nobody", !.input = IF @ = "open" THEN "cut" ELSE @]
      BY DEF Orphaned
    <3> HIDE DEF mine
    <3>2. CASE r \notin mine
      BY <3>1, <3>2
    <3>3. CASE r \in mine
      <4>1. r \in Script
        BY DEF ControlInv, OwnersWait
      <4>2. s.host = r.host
        BY <3>1, <3>3, <4>1 DEF Script
      <4> QED
        BY <3>3, <4>2 DEF HostsOf
    <3> QED
      BY <3>2, <3>3
  <2> HIDE DEF mine
  <2>3. \A s \in scripts' : s.host \in lost' \/ s \in scripts
    BY <2>1, <2>2 DEF mine
  <2>4. lost \subseteq lost'
    BY <2>1
  <2>5. \A u \in Hosts : pc'[u] \in {"shell", "upload"} => pc[u] = pc'[u]
    BY <2>1 DEF ControlInv
  <2> QED
    BY <1>1, <2>1, <2>3, <2>4, <2>5 DEF ShellInv, HalfOnlyFromOrphans
<1>5. CASE \/ Acquire(t) \/ Report(t) \/ Lookup(t) \/ Dial(t)
           \/ KeyMismatch(t) \/ DialFails(t) \/ Store(t) \/ StaleSession(t)
           \/ PollAgain(t) \/ CommandEnds(t) \/ CommandFails(t)
           \/ PollTimeout(t) \/ OpenSession(t)
  <2>1. UNCHANGED <<file, tmp, scripts, lost>>
    BY <1>5 DEF Acquire, Report, Lookup, Dial, KeyMismatch, DialFails, Store,
                StaleSession, PollAgain, CommandEnds, CommandFails,
                PollTimeout, OpenSession, remote
  <2>2. \A u \in Hosts : pc'[u] \in {"shell", "upload"} =>
          pc[u] = pc'[u] \/ round = "hosts"
    BY <1>5 DEF Acquire, Report, Lookup, Dial, KeyMismatch, DialFails, Store,
                StaleSession, PollAgain, CommandEnds, CommandFails,
                PollTimeout, OpenSession, NoConnection, Becomes, LetsGo,
                Returns, Fails, ControlInv
  <2> QED
    BY <1>1, <2>1, <2>2 DEF ShellInv, HalfOnlyFromOrphans
<1> QED
  BY <1>2, <1>3, <1>4, <1>5 DEF Goroutine

LEMMA ShellShell ==
  ASSUME ShellInv, SftpInv, ControlInv, NEW s \in scripts, Shell(s)
  PROVE  ShellInv'
<1> DEFINE h == s.host
<1>1. UNCHANGED <<round, lost>> /\ h \in Hosts /\ s \in Script
  BY DEF Shell, SendAll, ShellOpen, Cat, Move, process, round, ControlInv,
         OwnersWait, Script
<1>2. \A u \in Hosts : pc'[u] \in {"shell", "upload"} => pc[u] = pc'[u]
  BY DEF Shell, SendAll, ShellOpen, Cat, Move, work, Fails, Returns, LetsGo,
         Becomes, ControlInv
<1>3. \A g \in Hosts \ {h} : file'[g] = file[g] /\ tmp'[g] = tmp[g]
  BY DEF Shell, SendAll, ShellOpen, Cat, Move, SetFile, SetTmp, SftpInv
<1>4. \A r \in scripts' : r.host = h \/ r \in scripts
  <2>1. ASSUME NEW s2, Swap(s, s2), s2.host = h
        PROVE  \A r \in scripts' : r.host = h \/ r \in scripts
    BY <2>1 DEF Swap
  <2>3. CASE SendAll(s)
    <3>1. [s EXCEPT !.input = "full"].host = h
      BY <1>1 DEF Script
    <3> QED
      BY <2>1, <2>3, <3>1 DEF SendAll
  <2>4. CASE ShellOpen(s)
    <3>1. [s EXCEPT !.at = "cat", !.on = "tmp"].host = h
      BY <1>1 DEF Script
    <3> QED
      BY <2>1, <2>4, <3>1 DEF ShellOpen
  <2>5. CASE Cat(s)
    <3>1. [s EXCEPT !.at = "mv"].host = h
      BY <1>1 DEF Script
    <3> QED
      BY <2>1, <2>5, <3>1 DEF Cat
  <2>2. CASE Move(s)
    BY <2>2 DEF Move, Renamed, ControlInv, OwnersWait, Script
  <2> QED
    BY <2>2, <2>3, <2>4, <2>5 DEF Shell
<1>5. ASSUME h \notin lost
      PROVE  /\ file'[h] = "part" => file[h] = "part"
             /\ \A r \in scripts' : r.host = h =>
                  /\ r.owner = h /\ r.input # "cut"
                  /\ r.at = "cat" => r.on = "tmp"
                  /\ r.at = "mv" => tmp'[h] = "new"
  <2>1. \A r \in scripts \ {s} : r.host # h
    BY <1>5, OneShell
  <2>2. /\ s.owner = h /\ s.input # "cut"
        /\ s.at = "cat" => s.on = "tmp"
        /\ s.at = "mv" => tmp[h] = "new"
    BY <1>5 DEF ShellInv
  <2>3. CASE SendAll(s)
    BY <1>1, <2>1, <2>2, <2>3 DEF SendAll, Swap, Script
  <2>4. CASE ShellOpen(s)
    BY <1>1, <2>1, <2>2, <2>4 DEF ShellOpen, Swap, Script
  <2>5. CASE Cat(s)
    <3>1. s.input = "full" /\ s.on = "tmp"
      BY <1>1, <2>2, <2>5 DEF Cat, Script
    <3>2. tmp' = [tmp EXCEPT ![h] = "new"] /\ file' = file
          /\ Swap(s, [s EXCEPT !.at = "mv"])
      BY <2>5, <3>1 DEF Cat, SetTmp
    <3> QED
      BY <1>1, <2>1, <2>2, <3>2 DEF Swap, Script, SftpInv
  <2>6. CASE Move(s)
    <3>1. \A r \in scripts' : r.host # h
      BY <2>1, <2>6 DEF Move, Renamed, ControlInv, OwnersWait, Script
    <3>2. file'[h] \in {file[h], "new"}
      BY <1>1, <2>2, <2>6 DEF Move, SetFile, SftpInv
    <3> QED
      BY <3>1, <3>2
  <2> QED
    BY <2>3, <2>4, <2>5, <2>6 DEF Shell
<1> HIDE DEF h
<1>6. \A r \in scripts : r.host \in Hosts
  BY DEF ControlInv, OwnersWait, Script
<1> QED
  BY <1>1, <1>2, <1>3, <1>4, <1>5, <1>6 DEF ShellInv, HalfOnlyFromOrphans

\* The goroutines start afresh, or stay where they are, and no file changes.
LEMMA RestShell ==
  ASSUME ShellInv, UNCHANGED <<file, tmp>>, lost \subseteq lost',
         \A s \in scripts' : s.host \in lost' \/ s \in scripts,
         \A t \in Hosts : pc'[t] \notin {"shell", "upload"}
  PROVE  ShellInv'
BY DEF ShellInv, HalfOnlyFromOrphans

LEMMA ShellStep ==
  ASSUME ShellInv, SftpInv, SftpInv', ControlInv, [Next]_vars PROVE ShellInv'
<1>1. CASE Caller \/ \E p \in Programs : Start(p)
  <2>1. UNCHANGED <<file, tmp, scripts, lost>>
    BY <1>1 DEF Caller, cleanKnownHosts, Spawn, NextRound, Exit, Start, remote
  <2>2. \A t \in Hosts : pc'[t] \in {"idle", "slot", "get"}
    <3>1. CASE cleanKnownHosts
      BY <3>1, NoneControl DEF cleanKnownHosts, work
    <3>2. CASE Spawn \/ NextRound \/ Exit
      BY <3>2 DEF Spawn, NextRound, Exit, NoGoroutines
    <3>3. ASSUME NEW p \in Programs, Start(p)
          PROVE  \A t \in Hosts : pc'[t] \in {"idle", "slot", "get"}
      BY <3>3, NoneControl, ProgramsAssumption DEF Start, round, Rounds, work
    <3> QED
      BY <1>1, <3>1, <3>2, <3>3 DEF Caller
  <2> QED
    BY <2>1, <2>2, RestShell
<1>2. CASE \E t \in Hosts : Goroutine(t) \/ PollTimeout(t)
  BY <1>2, GoroutineShell
<1>3. CASE \E s \in scripts : Shell(s)
  BY <1>3, ShellShell
<1>4. ASSUME NEW h \in Hosts, Recreate(h) PROVE ShellInv'
  <2>1. pc = [t \in Hosts |-> "idle"] /\ UNCHANGED pc
    BY <1>4, NoneControl, ProgramsAssumption
       DEF Recreate, round, Rounds, process, work
  <2>2. /\ file' = [file EXCEPT ![h] = "old"]
        /\ tmp' = [tmp EXCEPT ![h] = "none"]
        /\ scripts' = {s \in scripts : s.host # h} /\ lost' = lost \ {h}
    BY <1>4 DEF Recreate, SetFile, SetTmp
  <2>3. \A s \in scripts : s.host \in Hosts
    BY DEF ControlInv, OwnersWait, Script
  <2> QED
    BY <2>1, <2>2, <2>3 DEF ShellInv, HalfOnlyFromOrphans, SftpInv
<1>5. CASE Killed
  <2>1. \A s \in Orphaned(scripts) : s.host \in HostsOf(scripts)
    <3>1. scripts \subseteq Script
      BY DEF ControlInv, OwnersWait
    <3>2. \A s \in Orphaned(scripts) : \E r \in scripts : s.host = r.host
      BY <3>1 DEF Orphaned, Script
    <3> QED
      BY <3>2 DEF HostsOf
  <2>2. \A s \in scripts' : s.host \in lost'
    BY <1>5, <2>1 DEF Killed
  <2> QED
    BY <1>5, <2>2, RestShell DEF Killed, NoGoroutines
<1>6. CASE \/ \E h \in Hosts : Drop(h) \/ Down(h) \/ Up(h)
           \/ Cancel \/ UNCHANGED vars
  <2>1. /\ UNCHANGED <<file, tmp, pc, round, lost>>
        /\ scripts' \subseteq scripts
    BY <1>6 DEF Drop, Down, Up, Cancel, remote, process, work, round, vars
  <2> QED
    BY <2>1 DEF ShellInv, HalfOnlyFromOrphans
<1> QED
  BY <1>1, <1>2, <1>3, <1>4, <1>5, <1>6 DEF Next

\* copyContentElevated (client.go), as another user: the shell of a client that
\* still waits for it cannot leave half of /etc/hosts; only one that was left
\* behind can, whose input is cut off or whose sidecar another one truncates.
THEOREM OrphansOnly == Spec => []HalfOnlyFromOrphans
<1>1. Init => ShellInv
  BY DEF Init, ShellInv, HalfOnlyFromOrphans
<1>2. ShellInv /\ SftpInv /\ SftpInv' /\ ControlInv /\ [Next]_vars => ShellInv'
  BY ShellStep
<1>3. ShellInv => HalfOnlyFromOrphans
  BY DEF ShellInv
<1> QED
  BY <1>1, <1>2, <1>3, SftpHolds, ControlHolds, PTL DEF Spec

(***************************************************************************)
(* The type invariant: what the other invariants leave to it.              *)
(***************************************************************************)
RestTyped ==
  /\ up \subseteq Hosts /\ lost \subseteq Hosts
  /\ again \subseteq Hosts /\ failed \subseteq Hosts
  /\ prog \in Programs \cup {"none"} /\ at \in 1..8 /\ faults \in Nat
  /\ elevated \in BOOLEAN /\ ctxDone \in BOOLEAN
  /\ verifier \in [Hosts -> SUBSET HostKeys] \cup {NoVerifier}

\* A deployment is the longest command: the cobbler phase, then repair-ssh.
LEMMA SevenSteps ==
  ASSUME NEW p, NEW i \in DOMAIN Rounds(p) PROVE i \in 1..7
<1>1. RepairRun \in Seq(RoundNames) /\ Len(RepairRun) = 6
  <2>1. \A k \in 1..6 : RepairRun[k] \in RoundNames
    BY DEF RoundNames
  <2>2. DOMAIN RepairRun = 1..6 /\ Len(RepairRun) = 6
    BY DEF RepairRun
  <2>3. RepairRun = [k \in 1..6 |-> RepairRun[k]]
    BY <2>2 DEF RepairRun
  <2> QED
    BY <2>1, <2>2, <2>3
<1>2. <<"cobbler">> \in Seq(RoundNames) /\ Len(<<"cobbler">>) = 1
  BY DEF RoundNames
<1>3. DOMAIN (<<"cobbler">> \o RepairRun) = 1..7
  <2>1. \A a, b \in Seq(RoundNames) :
          a \o b \in Seq(RoundNames) /\ Len(a \o b) = Len(a) + Len(b)
    BY ConcatProperties
  <2>2. /\ <<"cobbler">> \o RepairRun \in Seq(RoundNames)
        /\ Len(<<"cobbler">> \o RepairRun) = 1 + 6
    <3>1. Len(<<"cobbler">> \o RepairRun) = Len(<<"cobbler">>) + Len(RepairRun)
      BY <1>1, <1>2, <2>1, Zenon
    <3> QED
      BY <1>1, <1>2, <2>1, <3>1, Zenon
  <2>3. \A s \in Seq(RoundNames) : Len(s) = 1 + 6 => DOMAIN s = 1..7
    OBVIOUS
  <2> QED
    BY <2>2, <2>3, Zenon
<1>4. CASE p = "phase"
  BY <1>4 DEF Rounds, RepairRun
<1>5. CASE p = "deploy"
  BY <1>3, <1>5 DEF Rounds
<1>6. CASE p \notin {"phase", "deploy"}
  BY <1>6 DEF Rounds
<1> QED
  BY <1>4, <1>5, <1>6

\* at stays within the steps of a command, or just behind them.
LEMMA NextStep == round # "none" /\ at \in 1..8 => at + 1 \in 1..8
BY SevenSteps DEF round

\* A goroutine's step, as far as this is concerned.
Adds ==
  /\ UNCHANGED <<up, prog, at, elevated, ctxDone>>
  /\ lost' \subseteq Hosts /\ again' \subseteq Hosts /\ failed' \subseteq Hosts
  /\ faults' = faults \/ Fault
  /\ verifier' \in {verifier, Verifier, known'}

LEMMA GoroutineAdds ==
  ASSUME RestTyped, ControlInv, NEW t \in Hosts, Goroutine(t) \/ PollTimeout(t)
  PROVE  Adds
<1> USE DEF RestTyped, Adds, machine, process, trust, Fails, Returns, NoConnection
<1>1. CASE Acquire(t) \/ Report(t) \/ Lookup(t) \/ Store(t) \/ PollAgain(t)
  BY <1>1 DEF Acquire, Report, Lookup, Store, PollAgain
<1>2. CASE Dial(t)
  BY <1>2 DEF Dial, verifyHostKey
<1>3. CASE KeyMismatch(t) \/ DialFails(t) \/ PollTimeout(t)
  BY <1>3 DEF KeyMismatch, DialFails, PollTimeout
<1>4. CASE OpenSession(t) \/ StaleSession(t)
  BY <1>4 DEF OpenSession, StaleSession
<1>5. CASE CommandEnds(t) \/ CommandFails(t)
  BY <1>5 DEF CommandEnds, CommandFails
<1>6. CASE SftpOpen(t) \/ SftpStream(t) \/ SftpRename(t) \/ SftpFails(t)
  BY <1>6 DEF SftpOpen, SftpStream, SftpRename, SftpFails
<1>7. CASE StartShell(t)
  BY <1>7 DEF StartShell
<1>8. CASE UploadFails(t)
  <2>1. HostsOf({s \in scripts : s.owner = t}) \subseteq Hosts
    BY DEF HostsOf, ControlInv, OwnersWait, Script
  <2> QED
    BY <1>8, <2>1 DEF UploadFails
<1> QED
  BY <1>1, <1>2, <1>3, <1>4, <1>5, <1>6, <1>7, <1>8 DEF Goroutine

LEMMA ShellAdds ==
  ASSUME RestTyped, ControlInv, NEW s \in scripts, Shell(s)
  PROVE  Adds
<1>1. s.owner # "nobody" => s.owner \in Hosts
  BY DEF ControlInv, OwnersWait
<1>2. UNCHANGED <<machine, trust, process, again, faults, lost>>
  BY DEF Shell, SendAll, ShellOpen, Cat, Move, work
<1>3. failed' \in {failed, failed \cup {s.owner}} /\ (failed' = failed \/ s.owner # "nobody")
  BY DEF Shell, SendAll, ShellOpen, Cat, Move, work, Fails, Returns
<1> QED
  BY <1>1, <1>2, <1>3 DEF RestTyped, Adds, machine, process, trust

LEMMA AddsTyped == ASSUME TrustInv, TrustInv', RestTyped, Adds PROVE RestTyped'
<1>1. verifier' \in [Hosts -> SUBSET HostKeys] \cup {NoVerifier}
  BY DEF RestTyped, TrustInv, Adds, Verifier
<1>2. faults' \in Nat
  BY DEF RestTyped, Adds, Fault
<1>3. elevated' \in BOOLEAN /\ ctxDone' \in BOOLEAN
  BY DEF RestTyped, Adds
<1> QED
  BY <1>1, <1>2, <1>3 DEF RestTyped, Adds

LEMMA CallerTyped ==
  ASSUME RestTyped, Caller \/ \E p \in Programs : Start(p)
  PROVE  RestTyped'
<1> USE DEF RestTyped, machine, process, trust, work
<1>1. CASE cleanKnownHosts
  <2>1. at' = at + 1 /\ round # "none" /\ (faults' = faults \/ Fault)
        /\ UNCHANGED <<up, lost, again, failed, prog, verifier>>
    BY <1>1 DEF cleanKnownHosts
  <2>2. UNCHANGED <<elevated, ctxDone>>
    BY <1>1 DEF cleanKnownHosts
  <2>3. at' \in 1..8 /\ faults' \in Nat
    BY <2>1, NextStep DEF Fault
  <2> QED
    BY <2>1, <2>2, <2>3
<1>2. CASE Spawn
  BY <1>2 DEF Spawn
<1>3. CASE NextRound
  <2>1. at' = at + 1 /\ round # "none" /\ again' = {} /\ failed' = {}
        /\ UNCHANGED <<up, lost, faults, prog, verifier>>
    BY <1>3 DEF NextRound, NoGoroutines
  <2>2. UNCHANGED <<elevated, ctxDone>>
    BY <1>3 DEF NextRound
  <2>3. at' \in 1..8
    BY <2>1, NextStep
  <2> QED
    BY <2>1, <2>2, <2>3
<1>4. CASE Exit
  <2>1. ctxDone' = FALSE /\ at' = 1 /\ UNCHANGED elevated
    BY <1>4 DEF Exit, Gone
  <2>2. ctxDone' \in BOOLEAN /\ elevated' \in BOOLEAN
    BY <2>1
  <2> QED
    BY <1>4, <2>1, <2>2 DEF Exit, Gone, NoGoroutines
<1>5. ASSUME NEW p \in Programs, Start(p) PROVE RestTyped'
  BY <1>5 DEF Start
<1> QED
  BY <1>1, <1>2, <1>3, <1>4, <1>5 DEF Caller

LEMMA AroundTyped ==
  ASSUME RestTyped, ControlInv,
         \/ \E h \in Hosts : Drop(h) \/ Down(h) \/ Up(h) \/ Recreate(h)
         \/ Cancel \/ Killed \/ UNCHANGED vars
  PROVE  RestTyped'
<1> USE DEF RestTyped, machine, process, trust, work
<1>1. Fault => faults' \in Nat
  BY DEF Fault
<1>2. ASSUME NEW h \in Hosts, Drop(h) \/ Down(h) \/ Up(h) \/ Recreate(h) PROVE RestTyped'
  BY <1>1, <1>2 DEF Drop, Down, Up, Recreate
<1>3. CASE Cancel
  BY <1>1, <1>3 DEF Cancel
<1>4. CASE Killed
  <2>1. HostsOf(scripts) \subseteq Hosts
    BY DEF HostsOf, ControlInv, OwnersWait, Script
  <2>2. ctxDone' = FALSE /\ at' = 1 /\ UNCHANGED elevated
    BY <1>4 DEF Killed, Gone
  <2>3. ctxDone' \in BOOLEAN /\ elevated' \in BOOLEAN
    BY <2>2
  <2> QED
    BY <1>1, <1>4, <2>1, <2>2, <2>3 DEF Killed, Gone, NoGoroutines
<1>5. CASE UNCHANGED vars
  BY <1>5 DEF vars
<1> QED
  BY <1>2, <1>3, <1>4, <1>5

LEMMA RestTypedStep ==
  TrustInv /\ TrustInv' /\ ControlInv /\ RestTyped /\ [Next]_vars => RestTyped'
BY GoroutineAdds, ShellAdds, AddsTyped, CallerTyped, AroundTyped DEF Next

\* The values the pool (client.go) works with: a goroutine is at one step of
\* getClient or of its work, a cached connection is one that was dialled, and an
\* upload shell is of a host.
THEOREM SshTypeCorrect == Spec => []TypeOK
<1>1. Init => RestTyped
  <2>1. elevated \in Accounts => elevated \in BOOLEAN
    BY ProgramsAssumption
  <2>2. Init => ctxDone \in BOOLEAN
    BY DEF Init
  <2> QED
    BY <2>1, <2>2 DEF Init, RestTyped
<1>2. TrustInv /\ ControlInv /\ PoolInv /\ SftpInv /\ RestTyped => TypeOK
  BY DEF TrustInv, ControlInv, OwnersWait, PoolInv, SftpInv, RestTyped, TypeOK, Working
<1> QED
  BY <1>1, <1>2, RestTypedStep, TrustHolds, ControlHolds, PoolHolds, SftpHolds, PTL DEF Spec
=============================================================================
