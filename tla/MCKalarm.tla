------------------------------ MODULE MCKalarm ------------------------------
(* Instances of Kalarm for TLC.                                            *)
EXTENDS Kalarm

CONSTANTS a, b

TwoThreads == {a, b}
\* Two threads that only yield and call, and one that uses timeouts.
MCPrograms == {[threads |-> {a, b}, timeouts |-> {}],
               [threads |-> {a}, timeouts |-> {0, 2, 10}]}
=============================================================================
