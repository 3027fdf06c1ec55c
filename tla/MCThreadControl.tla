-------------------------- MODULE MCThreadControl --------------------------
(* Few blocks, spaces and numbers, for TLC.                                 *)
EXTENDS ThreadControl
=============================================================================
