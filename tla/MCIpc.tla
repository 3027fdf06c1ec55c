-------------------------------- MODULE MCIpc --------------------------------
(* Instances of Ipc for TLC.                                               *)
EXTENDS Ipc

CONSTANTS a, b, c

Three == {a, b, c}
\* a and b share an address space, and a is the pager of the others.
Spaces == [t \in Thread |-> IF t = c THEN 2 ELSE 1]
OnlyB == {b}
Pagers == [t \in Thread |-> IF t = a THEN NIL ELSE a]
=============================================================================
