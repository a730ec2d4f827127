------------------------------- MODULE MCSsh -------------------------------
(* Small instances of Ssh: the jumpstart and another node.                  *)
EXTENDS Ssh

\* repair-ssh alone is the same without the step that comes before it.
DeployAndVerify == {"deploy", "verify"}

\* Two failures as root, one with another account.
FaultBound == [other \in BOOLEAN |-> IF other THEN 1 ELSE 2]
=============================================================================
