------------------------------ MODULE MCPl011 ------------------------------
(* Instances of Pl011 for TLC.                                             *)
EXTENDS Pl011

SomeTexts == {<<"nl">>, <<"x", "nl">>, <<"nl", "x", "nl">>}
SomeSizes == {0, 1, 2, 9}
=============================================================================
