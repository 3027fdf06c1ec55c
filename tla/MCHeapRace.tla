----------------------------- MODULE MCHeapRace -----------------------------
(* Instances of HeapRace for TLC.                                          *)
EXTENDS HeapRace

CONSTANTS kern, idle, root, a

Four == {kern, idle, root, a}
=============================================================================
