----------------------------- MODULE MCTerminal -----------------------------
(* Texts for TLC: two pieces of a file, and the prompt of the shell.       *)
EXTENDS Terminal

MCMotd == <<"hel", "lo", "!">>
MCPrompt == <<">", " ">>
=============================================================================
