----------------------------- MODULE MCSecrets -----------------------------
(* A small instance of Secrets: two commands, two fields.                   *)
EXTENDS Secrets
=============================================================================
