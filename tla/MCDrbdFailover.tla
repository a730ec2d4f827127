--------------------------- MODULE MCDrbdFailover ---------------------------
(* Small instances of DrbdFailover: the two masters and a few faults.       *)
EXTENDS DrbdFailover

\* Everything that can go wrong around the storage.
StorageFaults == {"crash", "poweron", "repl", "icmp", "gateway", "hypervisor",
                  "restart", "operator"}

\* Links of any kind fail and watchdogs restart, machines do not fail.
LinkFaults == {"repl", "icmp", "gateway", "hypervisor", "restart"}

Crashes == {"crash", "poweron"}
CrashAndRepl == Crashes \cup {"repl"}
KubeFaults == {"crash", "poweron", "api", "operator"}
=============================================================================
