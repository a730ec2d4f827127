------------------------------ MODULE MCDeploy ------------------------------
(* Small instances of Deploy: two phases stand for the nine of the tail.    *)
EXTENDS Deploy

MCLaterPhases == <<"repair-ssh", "drbd">>

Request(skipVM, resume, from) ==
  [skipVM |-> skipVM, dryRun |-> FALSE, resume |-> resume, from |-> from]

Fresh == {Request(v, FALSE, NoPhase) : v \in BOOLEAN}
Resume == {Request(v, TRUE, NoPhase) : v \in BOOLEAN}
From == {Request(v, FALSE, f) : v \in BOOLEAN,
                                f \in {InitVMsKey, "setup-cobbler", "drbd"}}

\* Every kind of command line, the refused ones and a dry run included.
AllRequests ==
  Fresh \cup Resume \cup From
    \cup {Request(TRUE, TRUE, "drbd"), Request(TRUE, FALSE, UnknownPhase),
          [Request(FALSE, FALSE, NoPhase) EXCEPT !.dryRun = TRUE]}

\* VMs created by this deployment, never --from-phase.
FreshOrResume == {Request(FALSE, r, NoPhase) : r \in BOOLEAN}
=============================================================================
