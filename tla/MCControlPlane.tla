--------------------------- MODULE MCControlPlane ---------------------------
(***************************************************************************)
(* Small instances of ControlPlane for TLC: what a process may write.      *)
(***************************************************************************)
EXTENDS ControlPlane

\* One line on stdout and one on stderr: the collectors race.
BothFds == [fd \in Fds |-> 1]

\* One line on stdout.
OneLine == [fd \in Fds |-> IF fd = "stdout" THEN 1 ELSE 0]
=============================================================================
