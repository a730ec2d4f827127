----------------------------- MODULE PhaseRecord -----------------------------
(***************************************************************************)
(* What the checkpoint of `cms-ha deploy` promises the runs that trust it  *)
(* (internal/deploy): a record of phases that succeeded, never of others;  *)
(* it may lag, and a crash or a failed write changes nothing else; what    *)
(* succeeded and what is recorded are forgotten together, by a fresh run   *)
(* only.  How far it may lag is Deploy's CheckpointLag.                    *)
(***************************************************************************)
CONSTANT Keys

VARIABLES
  fresh,     \* the operator asked for a fresh run
  succeeded, \* the phases that succeeded since the last one
  recorded   \* those a --resume would not run again

vars == <<fresh, succeeded, recorded>>

Init == fresh \in BOOLEAN /\ succeeded = {} /\ recorded = {}

Ask == fresh' \in BOOLEAN /\ UNCHANGED <<succeeded, recorded>>

Succeed(key) ==
  /\ succeeded' = succeeded \cup {key}
  /\ UNCHANGED <<fresh, recorded>>

Record ==
  /\ recorded \subseteq recorded' /\ recorded' \subseteq succeeded
  /\ UNCHANGED <<fresh, succeeded>>

StartOver ==
  /\ fresh
  /\ succeeded' = {} /\ recorded' = {}
  /\ UNCHANGED fresh

Next == Ask \/ Record \/ StartOver \/ \E key \in Keys : Succeed(key)

Spec == Init /\ [][Next]_vars
=============================================================================
