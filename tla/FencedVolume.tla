---------------------------- MODULE FencedVolume ----------------------------
(***************************************************************************)
(* What required fencing promises of the replicated volume                 *)
(* (templates/drbd/drbd-watchdog.sh, fence-peer.sh, drbd-failover.sh): at  *)
(* most one master holds it, and it changes hands through nobody's: a      *)
(* master takes it only when nobody holds it and every other master is     *)
(* off.  What keeps holding it is up to its holder, also when others are   *)
(* started again.  That somebody takes it is not promised here             *)
(* (DrbdFailover, SurvivorServes).                                         *)
(***************************************************************************)
CONSTANTS Masters, Nobody

VARIABLES
  up,    \* which masters run
  holder \* the one that is Primary or may promote itself, or Nobody

vars == <<up, holder>>

Init == up = [m \in Masters |-> TRUE] /\ holder \in Masters

Take(m) ==
  /\ holder = Nobody /\ up[m] /\ \A o \in Masters \ {m} : ~up[o]
  /\ holder' = m
  /\ UNCHANGED up

GiveUp == holder' = Nobody /\ UNCHANGED up

Stop(m) ==
  /\ up[m]
  /\ up' = [up EXCEPT ![m] = FALSE]
  /\ holder' = IF holder = m THEN Nobody ELSE holder

Start(m) ==
  /\ ~up[m]
  /\ up' = [up EXCEPT ![m] = TRUE]
  /\ UNCHANGED holder

Next == GiveUp \/ \E m \in Masters : Take(m) \/ Stop(m) \/ Start(m)

Spec == Init /\ [][Next]_vars
=============================================================================
