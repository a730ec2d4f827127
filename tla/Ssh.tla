-------------------------------- MODULE Ssh --------------------------------
(***************************************************************************)
(* The SSH pool (internal/ssh): cached connections, trust on first use,    *)
(* commands, uploads and parallel calls, driven by repair-ssh, alone or    *)
(* inside a deployment, and by the concurrent checks of `cms-ha verify`.   *)
(*                                                                         *)
(* A process starts with an empty pool and may be cancelled or killed;     *)
(* machines reboot or are created anew with another host key.  The remote  *)
(* side of an elevated upload is a shell that goes on without its client.  *)
(***************************************************************************)
EXTENDS Naturals, FiniteSets, Sequences

CONSTANTS
  Hosts,            \* the nodes; the tasks of a call are named after them
  Jump,             \* the jumpstart node
  maxParallelHosts, \* size of the semaphore
  Accounts,         \* values of Elevated: TRUE when the account is not root
  Programs,         \* the commands the operator runs
  Dials,            \* bound on open connections per host
  MaxFaults         \* bound on failures, recreated machines and kills, for
                    \* each account: the shells of one make it the larger model

ASSUME HostsAssumption ==
  Jump \in Hosts /\ IsFiniteSet(Hosts) /\ "nobody" \notin Hosts
ASSUME BoundsAssumption ==
  /\ maxParallelHosts \in Nat \ {0} /\ Dials \in Nat \ {0}
  /\ MaxFaults \in [BOOLEAN -> Nat]
ASSUME ProgramsAssumption ==
  Accounts \subseteq BOOLEAN /\ Programs \subseteq {"phase", "deploy", "verify"}

NoClient == <<"no client", 0>>
Clients == Hosts \X (1..Dials)
HostKeys == Nat \* a machine gets the next one each time it is created
NoVerifier == <<>>

\* The steps of each command that use the pool, in order.
RepairRun == <<"clean", "wait", "hostnames", "hosts", "jumpkey", "keys">>
Rounds(p) ==
  CASE p = "phase"  -> RepairRun
    [] p = "deploy" -> <<"cobbler">> \o RepairRun
    [] p = "verify" -> <<"checks">>
    [] OTHER        -> <<>>

RoundNames == {"checks", "cobbler"} \cup {RepairRun[k] : k \in 1..6}

\* Which goroutines a step starts, and with which kind of work.
TasksOf(r) ==
  CASE r \in {"cobbler", "jumpkey"} -> {Jump}
    [] r = "keys"                   -> Hosts \ {Jump}
    [] OTHER                        -> Hosts

Polls == {"cobbler", "wait"}                          \* WaitForSSH
Parallel == {"wait", "hostnames", "hosts", "keys"}    \* RunParallelFunc

VARIABLES
  \* The machines.
  up,       \* the ones that answer
  hostKey,  \* the key each presents
  file,     \* /etc/hosts: "old", "part" or "new"
  tmp,      \* /etc/hosts.cms-tmp: "none", "part" or "new"
  scripts,  \* running upload shells
  \* The operator's disk.
  known,    \* the keys pinned in the known_hosts store
  \* The process.
  elevated, \* p.elevated()
  prog, at, \* the command, and the index of its step
  ctxDone,  \* the run context is cancelled
  clients,  \* p.clients: the cached connection of each host
  evicted,  \* p.evicted
  conn,     \* every connection: "free" (never opened, or closed), "up", "dead"
  verifier, \* p.knownHostsCallback: the keys it was built from
  pc, cl,   \* each goroutine: where it is, the client it holds
  again,    \* goroutines that have already replaced a stale client
  failed,   \* goroutines whose result is an error
  faults,
  \* History.
  lost      \* hosts on which an upload shell has outlived its client

machine == <<up, hostKey>>
remote == <<file, tmp, scripts>>
pool == <<clients, evicted, conn>>
trust == <<known, verifier>>
process == <<elevated, prog, at, ctxDone>>
work == <<pc, cl, again, failed>>
vars == <<up, hostKey, file, tmp, scripts, known, elevated, prog, at, ctxDone,
          clients, evicted, conn, verifier, pc, cl, again, failed, faults, lost>>

round == IF at \in DOMAIN Rounds(prog) THEN Rounds(prog)[at] ELSE "none"

\* The checks of verify all ask the jumpstart node.
Target(t) == IF round = "checks" THEN Jump ELSE t

Holding(t) == pc[t] \notin {"idle", "slot", "report", "done"}

Fault == faults < MaxFaults[elevated] /\ faults' = faults + 1

Script == [host : Hosts, owner : Hosts \cup {"nobody"},
           at : {"start", "cat", "mv"}, on : {"none", "tmp", "file", "gone"},
           input : {"open", "full", "cut"}]

Init ==
  /\ up = Hosts /\ hostKey = [h \in Hosts |-> 0]
  /\ file = [h \in Hosts |-> "old"] /\ tmp = [h \in Hosts |-> "none"]
  /\ scripts = {}
  /\ known = [h \in Hosts |-> {}]
  /\ elevated \in Accounts
  /\ prog = "none" /\ at = 1 /\ ctxDone = FALSE
  /\ clients = [h \in Hosts |-> NoClient] /\ evicted = {}
  /\ conn = [c \in Clients |-> "free"] /\ verifier = NoVerifier
  /\ pc = [t \in Hosts |-> "idle"] /\ cl = [t \in Hosts |-> NoClient]
  /\ again = {} /\ failed = {} /\ faults = 0 /\ lost = {}

(***************************************************************************)
(* The process and its steps.                                              *)
(***************************************************************************)
NoGoroutines ==
  /\ pc' = [t \in Hosts |-> "idle"] /\ cl' = [t \in Hosts |-> NoClient]
  /\ again' = {} /\ failed' = {}

Close ==
  /\ conn' = [c \in Clients |->
               IF c \in evicted \/ \E h \in Hosts : clients[h] = c
                 THEN "free" ELSE conn[c]]
  /\ clients' = [h \in Hosts |-> NoClient] /\ evicted' = {}

\* The process is gone, and with it all it kept in memory.
Gone == prog' = "none" /\ at' = 1 /\ ctxDone' = FALSE /\ verifier' = NoVerifier

\* A new process: NewPoolWithOptions.
Start(p) ==
  /\ prog = "none"
  /\ prog' = p
  /\ UNCHANGED <<machine, remote, trust, elevated, at, ctxDone, pool, work,
                 faults, lost>>

\* Removes the lines of all nodes from the store; failing is only a warning.
cleanKnownHosts ==
  /\ round = "clean"
  /\ \/ known' = [h \in Hosts |-> {}] /\ UNCHANGED faults
     \/ Fault /\ UNCHANGED known
  /\ at' = at + 1
  /\ UNCHANGED <<machine, remote, elevated, prog, ctxDone, pool, verifier,
                 work, lost>>

Spawn ==
  /\ round \notin {"none", "clean"}
  /\ \A t \in Hosts : pc[t] = "idle"
  /\ pc' = [t \in Hosts |->
             IF t \notin TasksOf(round) THEN "idle"
               ELSE IF round \in Parallel THEN "slot" ELSE "get"]
  /\ UNCHANGED <<machine, remote, trust, process, pool, cl, again, failed,
                 faults, lost>>

AcquireUnbounded(t) ==
  /\ pc[t] = "slot"
  /\ pc' = [pc EXCEPT ![t] = "get"]
  /\ UNCHANGED <<machine, remote, trust, process, pool, cl, again, failed,
                 faults, lost>>

\* sem <- struct{}{}: it does not watch the context.
Acquire(t) ==
  /\ pc[t] = "slot"
  /\ Cardinality({u \in Hosts : Holding(u)}) < maxParallelHosts
  /\ pc' = [pc EXCEPT ![t] = "get"]
  /\ UNCHANGED <<machine, remote, trust, process, pool, cl, again, failed,
                 faults, lost>>

\* results = append(results, ...)
Report(t) ==
  /\ pc[t] = "report"
  /\ pc' = [pc EXCEPT ![t] = "done"]
  /\ UNCHANGED <<machine, remote, trust, process, pool, cl, again, failed,
                 faults, lost>>

Reported == \A t \in TasksOf(round) : pc[t] = "done"

\* wg.Wait returns and every result is nil.
NextRound ==
  /\ round \notin {"none", "clean"} /\ Reported /\ failed = {}
  /\ NoGoroutines
  /\ at' = at + 1
  /\ UNCHANGED <<machine, remote, trust, elevated, prog, ctxDone, pool,
                 faults, lost>>

\* The command returns, with an error or after its last step; pool.Close().
Exit ==
  /\ prog # "none"
  /\ \/ round = "none"
     \/ round # "clean" /\ Reported /\ failed # {}
  /\ NoGoroutines
  /\ Close
  /\ Gone
  /\ UNCHANGED <<machine, remote, known, elevated, faults, lost>>

(***************************************************************************)
(* One goroutine: getClient, a session, the work.                          *)
(***************************************************************************)
Becomes(t, s) == pc' = [pc EXCEPT ![t] = s]
LetsGo(t, s) == Becomes(t, s) /\ cl' = [cl EXCEPT ![t] = NoClient]
Returns(t) == LetsGo(t, "report") /\ UNCHANGED failed
Fails(t) == LetsGo(t, "report") /\ failed' = failed \cup {t}

\* The error of getClient ends the operation; WaitForSSH tries again.
NoConnection(t) ==
  IF round \in Polls THEN LetsGo(t, "poll") /\ UNCHANGED failed ELSE Fails(t)

\* getClient, up to the first unlock.
Lookup(t) ==
  /\ pc[t] = "get"
  /\ cl' = [cl EXCEPT ![t] = clients[Target(t)]]
  /\ Becomes(t, IF clients[Target(t)] = NoClient THEN "dial" ELSE "session")
  /\ UNCHANGED <<machine, remote, trust, process, pool, again, failed, faults,
                 lost>>

\* loadKnownHostsCallback, on the first handshake of the process.
Verifier == IF verifier = NoVerifier THEN known ELSE verifier
UnknownOrChanged(h) == hostKey[h] \notin Verifier[h]

Unknown(h) == Verifier[h] = {}
KeyAccepted(h) == Unknown(h) \/ hostKey[h] \in Verifier[h]

\* The verdict's effect: an unknown host is pinned and the store read again.
verifyHostKey(h) ==
  IF Unknown(h)
    THEN /\ known' = [known EXCEPT ![h] = @ \cup {hostKey[h]}]
         /\ verifier' = known'
    ELSE verifier' = Verifier /\ UNCHANGED known

FreshClient(h) == CHOOSE c \in {h} \X (1..Dials) : conn[c] = "free"

\* ssh.Dial succeeds; the connection is not yet in the pool.
Dial(t) ==
  LET h == Target(t)
  IN /\ pc[t] = "dial" /\ h \in up /\ KeyAccepted(h)
     /\ \E n \in 1..Dials : conn[<<h, n>>] = "free"
     /\ verifyHostKey(h)
     /\ conn' = [conn EXCEPT ![FreshClient(h)] = "up"]
     /\ cl' = [cl EXCEPT ![t] = FreshClient(h)]
     /\ Becomes(t, "store")
     /\ UNCHANGED <<machine, remote, process, clients, evicted, again, failed,
                    faults, lost>>

KeyMismatch(t) ==
  /\ pc[t] = "dial" /\ Target(t) \in up /\ ~KeyAccepted(Target(t))
  /\ verifier' = Verifier
  /\ NoConnection(t)
  /\ UNCHANGED <<machine, remote, known, process, pool, again, faults, lost>>

DialFails(t) ==
  /\ pc[t] = "dial" /\ Target(t) \notin up
  /\ NoConnection(t)
  /\ UNCHANGED <<machine, remote, trust, process, pool, again, faults, lost>>

StoreOver(t) ==
  /\ pc[t] = "store"
  /\ clients' = [clients EXCEPT ![Target(t)] = cl[t]]
  /\ Becomes(t, "session")
  /\ UNCHANGED <<machine, remote, trust, process, evicted, conn, cl, again,
                 failed, faults, lost>>

\* Another goroutine may have stored a connection since the lookup.
Store(t) ==
  LET h == Target(t)
      existing == clients[h]
  IN /\ pc[t] = "store"
     /\ IF existing = NoClient
          THEN /\ clients' = [clients EXCEPT ![h] = cl[t]]
               /\ UNCHANGED <<cl, conn>>
          ELSE /\ cl' = [cl EXCEPT ![t] = existing]
               /\ conn' = [conn EXCEPT ![cl[t]] = "free"]
               /\ UNCHANGED clients
     /\ Becomes(t, "session")
     /\ UNCHANGED <<machine, remote, trust, process, evicted, again, failed,
                    faults, lost>>

invalidateAndClose(h) ==
  /\ conn' = [c \in Clients |-> IF c = clients[h] THEN "free" ELSE conn[c]]
  /\ clients' = [clients EXCEPT ![h] = NoClient]
  /\ UNCHANGED evicted

invalidateUnchecked(h) ==
  /\ evicted' = evicted \cup {clients[h]}
  /\ clients' = [clients EXCEPT ![h] = NoClient]
  /\ UNCHANGED conn

\* Removes whatever connection the host has now, without closing it.
invalidateClient(h) ==
  /\ evicted' = evicted \cup ({clients[h]} \ {NoClient})
  /\ clients' = [clients EXCEPT ![h] = NoClient]
  /\ UNCHANGED conn

\* NewSession on a live connection; for WaitForSSH that is all.
OpenSession(t) ==
  /\ pc[t] = "session" /\ conn[cl[t]] = "up"
  /\ IF round \in Polls THEN Returns(t)
       ELSE /\ Becomes(t, IF round # "hosts" THEN "exec"
                            ELSE IF elevated THEN "shell" ELSE "open")
            /\ UNCHANGED <<cl, failed>>
  /\ UNCHANGED <<machine, remote, trust, process, pool, again, faults, lost>>

\* NewSession fails: evict and connect again, once.
StaleSession(t) ==
  /\ pc[t] = "session" /\ conn[cl[t]] # "up"
  /\ IF round \in Polls
       THEN /\ invalidateClient(Target(t)) /\ LetsGo(t, "poll")
            /\ UNCHANGED <<again, failed>>
       ELSE IF t \in again
         THEN Fails(t) /\ UNCHANGED <<pool, again>>
         ELSE /\ invalidateClient(Target(t))
              /\ again' = again \cup {t}
              /\ LetsGo(t, "get") /\ UNCHANGED failed
  /\ UNCHANGED <<machine, remote, trust, process, faults, lost>>

\* The select of WaitForSSH: the interval ends ...
PollAgain(t) ==
  /\ pc[t] = "poll" /\ ~ctxDone
  /\ Becomes(t, "get")
  /\ UNCHANGED <<machine, remote, trust, process, pool, cl, again, failed,
                 faults, lost>>

PollForever(t) ==
  /\ pc[t] = "poll" /\ ctxDone
  /\ Fails(t)
  /\ UNCHANGED <<machine, remote, trust, process, pool, again, faults, lost>>

\* ... or its own timeout or the run context does.
PollTimeout(t) ==
  /\ pc[t] = "poll"
  /\ Fails(t)
  /\ UNCHANGED <<machine, remote, trust, process, pool, again, faults, lost>>

\* RunCommand: the command ends with exit code 0 ...
CommandEnds(t) ==
  /\ pc[t] = "exec" /\ conn[cl[t]] = "up"
  /\ Returns(t)
  /\ UNCHANGED <<machine, remote, trust, process, pool, again, faults, lost>>

\* ... with another one, or its connection is lost or the context cancelled.
CommandFails(t) ==
  /\ pc[t] = "exec"
  /\ IF conn[cl[t]] = "up" /\ ~ctxDone THEN Fault ELSE UNCHANGED faults
  /\ Fails(t)
  /\ UNCHANGED <<machine, remote, trust, process, pool, again, lost>>

(***************************************************************************)
(* /etc/hosts is uploaded.  As root: SFTP into a sidecar, then a rename.   *)
(***************************************************************************)
SetFile(h, v) == file' = [file EXCEPT ![h] = v]
SetTmp(h, v) == tmp' = [tmp EXCEPT ![h] = v]

\* A file that was open under the sidecar's name is the target after a rename.
Renamed(ss, h) ==
  {IF s.host # h THEN s
     ELSE [s EXCEPT !.on = CASE s.on = "tmp"  -> "file"
                             [] s.on = "file" -> "gone"
                             [] OTHER         -> s.on] : s \in ss}

SftpOpenTarget(t) ==
  /\ pc[t] = "open" /\ conn[cl[t]] = "up" /\ ~ctxDone
  /\ SetFile(Target(t), "part")
  /\ Becomes(t, "stream")
  /\ UNCHANGED <<machine, tmp, scripts, trust, process, pool, cl, again,
                 failed, faults, lost>>

\* writeRemoteFileAt: open and truncate, then stream.
SftpOpen(t) ==
  /\ pc[t] = "open" /\ conn[cl[t]] = "up" /\ ~ctxDone
  /\ SetTmp(Target(t), "part")
  /\ Becomes(t, "stream")
  /\ UNCHANGED <<machine, file, scripts, trust, process, pool, cl, again,
                 failed, faults, lost>>

SftpStream(t) ==
  /\ pc[t] = "stream" /\ conn[cl[t]] = "up"
  /\ SetTmp(Target(t), "new")
  /\ Becomes(t, "rename")
  /\ UNCHANGED <<machine, file, scripts, trust, process, pool, cl, again,
                 failed, faults, lost>>

SftpRename(t) ==
  /\ pc[t] = "rename" /\ conn[cl[t]] = "up"
  /\ SetFile(Target(t), tmp[Target(t)])
  /\ SetTmp(Target(t), "none")
  /\ scripts' = Renamed(scripts, Target(t))
  /\ Returns(t)
  /\ UNCHANGED <<machine, trust, process, pool, again, faults, lost>>

\* Any of these calls fails: the sidecar is removed, if that still works.
SftpFails(t) ==
  /\ pc[t] \in {"open", "stream", "rename"}
  /\ IF conn[cl[t]] # "up" \/ (pc[t] = "open" /\ ctxDone)
       THEN UNCHANGED <<faults, tmp>>
       ELSE Fault /\ IF pc[t] = "open" THEN UNCHANGED tmp
                       ELSE SetTmp(Target(t), "none")
  /\ Fails(t)
  /\ UNCHANGED <<machine, file, scripts, trust, process, pool, again, lost>>

(***************************************************************************)
(* As another user: `cat > tmp; chmod tmp; mv tmp path` in a root shell,   *)
(* which takes the loss of its session for the end of its input.           *)
(***************************************************************************)
StartShell(t) ==
  /\ pc[t] = "shell" /\ conn[cl[t]] = "up"
  /\ scripts' = scripts \cup {[host |-> Target(t), owner |-> t,
                               at |-> "start", on |-> "none", input |-> "open"]}
  /\ Becomes(t, "upload")
  /\ UNCHANGED <<machine, file, tmp, trust, process, pool, cl, again, failed,
                 faults, lost>>

Swap(s, s2) == scripts' = (scripts \ {s}) \cup {s2}

\* The client's goroutine has sent everything and closed the stream.
SendAll(s) ==
  /\ s.input = "open" /\ conn[cl[s.owner]] = "up"
  /\ Swap(s, [s EXCEPT !.input = "full"])
  /\ UNCHANGED <<machine, file, tmp, trust, process, pool, work, faults, lost>>

\* The shell opens the sidecar, truncating what is there.
ShellOpen(s) ==
  /\ s.at = "start"
  /\ SetTmp(s.host, "part")
  /\ Swap(s, [s EXCEPT !.at = "cat", !.on = "tmp"])
  /\ UNCHANGED <<machine, file, trust, process, pool, work, faults, lost>>

CatInBackground(s) ==
  /\ s.at = "cat"
  /\ IF s.input = "full" /\ s.on = "tmp" THEN SetTmp(s.host, "new")
       ELSE UNCHANGED tmp
  /\ IF s.input = "full" /\ s.on = "file" THEN SetFile(s.host, "new")
       ELSE UNCHANGED file
  /\ Swap(s, [s EXCEPT !.at = "mv"])
  /\ UNCHANGED <<machine, trust, process, pool, work, faults, lost>>

\* cat reads to the end of what it gets.
Cat(s) ==
  /\ s.at = "cat" /\ s.input # "open"
  /\ IF s.input = "full" /\ s.on = "tmp" THEN SetTmp(s.host, "new")
       ELSE UNCHANGED tmp
  /\ IF s.input = "full" /\ s.on = "file" THEN SetFile(s.host, "new")
       ELSE UNCHANGED file
  /\ Swap(s, [s EXCEPT !.at = "mv"])
  /\ UNCHANGED <<machine, trust, process, pool, work, faults, lost>>

\* chmod and mv; the exit status goes to whoever still hears it.
Move(s) ==
  /\ s.at = "mv"
  /\ IF tmp[s.host] = "none"
       THEN scripts' = scripts \ {s} /\ UNCHANGED <<file, tmp>>
       ELSE /\ SetFile(s.host, tmp[s.host])
            /\ SetTmp(s.host, "none")
            /\ scripts' = Renamed(scripts \ {s}, s.host)
  /\ IF s.owner = "nobody" \/ conn[cl[s.owner]] # "up"
       THEN UNCHANGED <<pc, cl, failed>>
       ELSE IF tmp[s.host] = "none" THEN Fails(s.owner) ELSE Returns(s.owner)
  /\ UNCHANGED <<machine, trust, process, pool, again, faults, lost>>

\* The scripts of S lose their client: input that was not sent is cut off.
Orphaned(S) ==
  {IF s \notin S THEN s
     ELSE [s EXCEPT !.owner = "nobody",
                    !.input = IF @ = "open" THEN "cut" ELSE @] : s \in scripts}

HostsOf(S) == {s.host : s \in S}

\* RunCommandStdin gives up on a lost connection or a cancelled context; the
\* kill signal may or may not reach the shell.
UploadFails(t) ==
  LET mine == {s \in scripts : s.owner = t}
  IN /\ pc[t] = "upload" \/ pc[t] = "shell"
     /\ conn[cl[t]] # "up" \/ ctxDone
     /\ \/ scripts' = Orphaned(mine) /\ lost' = lost \cup HostsOf(mine)
        \/ ctxDone /\ scripts' = scripts \ mine /\ UNCHANGED lost
     /\ Fails(t)
     /\ UNCHANGED <<machine, file, tmp, trust, process, pool, again, faults>>

(***************************************************************************)
(* What happens around the process.                                        *)
(***************************************************************************)
LinksDie(S) ==
  conn' = [c \in Clients |->
            IF c[1] \in S /\ conn[c] = "up" THEN "dead" ELSE conn[c]]

\* sshd or the network drops the sessions of h; its shells see it later.
Drop(h) ==
  /\ \E n \in 1..Dials : conn[<<h, n>>] = "up"
  /\ Fault
  /\ LinksDie({h})
  /\ UNCHANGED <<machine, remote, trust, process, clients, evicted, work, lost>>

\* h goes down, with its shells; their owners learn it as a lost connection.
Down(h) ==
  /\ h \in up
  /\ Fault
  /\ up' = up \ {h}
  /\ LinksDie({h})
  /\ scripts' = {s \in scripts : s.host # h}
  /\ UNCHANGED <<hostKey, file, tmp, trust, process, clients, evicted, work,
                 lost>>

Up(h) ==
  /\ h \notin up
  /\ up' = up \cup {h}
  /\ UNCHANGED <<hostKey, remote, trust, process, pool, work, faults, lost>>

\* The machine is created anew (init-vms --recreate), between two commands.
Recreate(h) ==
  /\ prog = "none"
  /\ Fault
  /\ hostKey' = [hostKey EXCEPT ![h] = @ + 1]
  /\ SetFile(h, "old") /\ SetTmp(h, "none")
  /\ scripts' = {s \in scripts : s.host # h}
  /\ lost' = lost \ {h}
  /\ UNCHANGED <<up, trust, process, pool, work>>

Cancel ==
  /\ prog # "none" /\ ~ctxDone
  /\ Fault
  /\ ctxDone' = TRUE
  /\ UNCHANGED <<machine, remote, trust, elevated, prog, at, pool, work, lost>>

Killed ==
  /\ prog # "none"
  /\ Fault
  /\ Gone /\ NoGoroutines
  /\ conn' = [c \in Clients |-> "free"]
  /\ clients' = [h \in Hosts |-> NoClient] /\ evicted' = {}
  /\ scripts' = Orphaned(scripts) /\ lost' = lost \cup HostsOf(scripts)
  /\ UNCHANGED <<machine, file, tmp, known, elevated>>

Goroutine(t) ==
  \/ Acquire(t) \/ Report(t) \/ Lookup(t) \/ Dial(t) \/ KeyMismatch(t)
  \/ DialFails(t) \/ Store(t) \/ OpenSession(t) \/ StaleSession(t)
  \/ PollAgain(t) \/ CommandEnds(t) \/ CommandFails(t)
  \/ SftpOpen(t) \/ SftpStream(t) \/ SftpRename(t) \/ SftpFails(t)
  \/ StartShell(t) \/ UploadFails(t)

Shell(s) == SendAll(s) \/ ShellOpen(s) \/ Cat(s) \/ Move(s)

Caller == cleanKnownHosts \/ Spawn \/ NextRound \/ Exit

Next ==
  \/ \E p \in Programs : Start(p)
  \/ Caller
  \/ \E t \in Hosts : Goroutine(t) \/ PollTimeout(t)
  \/ \E s \in scripts : Shell(s)
  \/ \E h \in Hosts : Drop(h) \/ Down(h) \/ Up(h) \/ Recreate(h)
  \/ Cancel \/ Killed

Spec == Init /\ [][Next]_vars

\* Goroutines and shells are scheduled; the timeout of a poll comes.
FairSpec ==
  /\ Spec
  /\ WF_vars(Caller) /\ WF_vars(\E s \in scripts : Shell(s))
  /\ \A t \in Hosts : WF_vars(Goroutine(t)) /\ SF_vars(PollTimeout(t))

(***************************************************************************)
(* Properties.                                                             *)
(***************************************************************************)
TypeOK ==
  /\ up \in SUBSET Hosts /\ hostKey \in [Hosts -> HostKeys]
  /\ file \in [Hosts -> {"old", "part", "new"}]
  /\ tmp \in [Hosts -> {"none", "part", "new"}]
  /\ scripts \in SUBSET Script
  /\ known \in [Hosts -> SUBSET HostKeys]
  /\ elevated \in BOOLEAN /\ ctxDone \in BOOLEAN
  /\ prog \in Programs \cup {"none"} /\ at \in 1..8
  /\ clients \in [Hosts -> Clients \cup {NoClient}]
  /\ evicted \in SUBSET Clients
  /\ conn \in [Clients -> {"free", "up", "dead"}]
  /\ verifier \in [Hosts -> SUBSET HostKeys] \cup {NoVerifier}
  /\ pc \in [Hosts -> {"idle", "slot", "get", "dial", "store", "session",
                       "poll", "exec", "shell", "upload", "open", "stream",
                       "rename", "report", "done"}]
  /\ cl \in [Hosts -> Clients \cup {NoClient}]
  /\ again \in SUBSET Hosts /\ failed \in SUBSET Hosts
  /\ faults \in Nat /\ lost \in SUBSET Hosts

\* A connection is never closed under a goroutine that works with it, however
\* many share it and whoever evicts it: "another goroutine may still be using".
InUse(t) ==
  pc[t] \notin {"idle", "slot", "get", "dial", "poll", "report", "done"}
NoClosedConnectionInUse == \A t \in Hosts : InUse(t) => conn[cl[t]] # "free"

\* Every open connection is in the pool, evicted, or newly dialled by one
\* goroutine, so that Close leaves none behind.
EveryConnectionTracked ==
  \A c \in Clients : conn[c] # "free" =>
    \/ clients[c[1]] = c \/ c \in evicted
    \/ \E t \in Hosts : pc[t] = "store" /\ cl[t] = c

\* Trust on first use: whatever is cached, cleaned or created anew between the
\* processes, the store never trusts two keys of one host.
OneKeyPinned == \A h \in Hosts : Cardinality(known[h]) <= 1

\* As root, no failure at any point leaves half of /etc/hosts in place.
SftpNeverHalf == ~elevated => \A h \in Hosts : file[h] # "part"

\* As another user, half a file appears only where an upload shell has outlived
\* its client: a lost or cancelled session or a killed process, never otherwise.
HalfOnlyFromOrphans == \A h \in Hosts : file[h] = "part" => h \in lost

\* The command ends, whatever is lost, cancelled or never answers.
CommandReturns == prog # "none" ~> prog = "none"

\* The calls of RunParallelFunc do what HostTasks says.
TaskStatus(t) ==
  IF round \notin Parallel THEN "none"
    ELSE CASE pc[t] = "idle"   -> "none"
           [] pc[t] = "slot"   -> "queued"
           [] pc[t] = "report" -> "ended"
           [] pc[t] = "done"   -> "reported"
           [] OTHER            -> "running"

HT == INSTANCE HostTasks WITH
  Tasks <- Hosts, Limit <- maxParallelHosts,
  asked <- {t \in Hosts : TaskStatus(t) # "none"},
  status <- [t \in Hosts |-> TaskStatus(t)]

ParallelCalls == HT!Spec

=============================================================================
