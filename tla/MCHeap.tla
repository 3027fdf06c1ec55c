------------------------------- MODULE MCHeap -------------------------------
(* Instances of Heap for TLC.                                              *)
EXTENDS Heap

CONSTANTS kern, idle, a, b

MCThread == {kern, idle, a, b}
=============================================================================
