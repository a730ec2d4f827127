-------------------------- MODULE MCServicePhases --------------------------
(* Two balancers and the router. *)
EXTENDS ServicePhases

MCLBs == <<"lb1", "lb2">>
MCIssues == 2..8
MCOrders == {<<"puppet", "nginx", "pki">>, <<"puppet", "ufw">>, <<"backup">>}
=============================================================================
