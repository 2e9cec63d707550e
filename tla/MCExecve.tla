------------------------------ MODULE MCExecve ------------------------------
(* Three threads of one process call execve, for TLC.                      *)
EXTENDS Execve, TLC

CONSTANTS m1
MCRegistered == <<m1>>
=============================================================================
