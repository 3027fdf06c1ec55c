------------------------------- MODULE MCSched -------------------------------
(* Instances of Sched for TLC.                                             *)
EXTENDS Sched

CONSTANTS kern, idle, root, a, b

TwoUsers == {kern, idle, root, a}
AnyState == TS
AsRootDoes == {"INACTIVE", "SVC_BLOCKED"}
=============================================================================
