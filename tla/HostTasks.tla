----------------------------- MODULE HostTasks -----------------------------
(***************************************************************************)
(* What RunParallel and RunParallelFunc promise their callers              *)
(* (internal/ssh/parallel.go): a call works on a set of tasks, never more  *)
(* than Limit at a time; every task is run once and its result reported    *)
(* once; the call returns when all are reported.  The process may die.     *)
(* That a call ends is the callers' property (Ssh, CommandReturns).        *)
(***************************************************************************)
EXTENDS Naturals, FiniteSets

CONSTANTS Tasks, Limit

VARIABLES
  asked,  \* the tasks of the call under way, {} when there is none
  status  \* what has become of each of them

vars == <<asked, status>>

With(s) == {t \in Tasks : status[t] = s}

Move(t, from, to) ==
  /\ status[t] = from
  /\ status' = [status EXCEPT ![t] = to]
  /\ UNCHANGED asked

Init == asked = {} /\ status = [t \in Tasks |-> "none"]

Call ==
  /\ asked = {}
  /\ asked' \in (SUBSET Tasks) \ {{}}
  /\ status' = [t \in Tasks |-> IF t \in asked' THEN "queued" ELSE "none"]

Begin(t) == Cardinality(With("running")) < Limit /\ Move(t, "queued", "running")
End(t) == Move(t, "running", "ended")
Report(t) == Move(t, "ended", "reported")

Idle == asked' = {} /\ status' = [t \in Tasks |-> "none"]
Return == asked # {} /\ With("reported") = asked /\ Idle
Die == asked # {} /\ Idle

Work == Return \/ \E t \in Tasks : Begin(t) \/ End(t) \/ Report(t)

Next == Call \/ Work \/ Die

Spec == Init /\ [][Next]_vars
=============================================================================
