----------------------------- MODULE LossyQueue -----------------------------
(***************************************************************************)
(* What the receive buffer of the PL011 driver promises: a queue of at     *)
(* most N bytes that forgets its oldest byte when one more arrives.        *)
(***************************************************************************)
EXTENDS Naturals, Sequences

CONSTANTS Byte, N

VARIABLE q

LQInit == q = << >>

LQPut(b) == q' = Append(IF Len(q) = N THEN Tail(q) ELSE q, b)

LQGet == q # << >> /\ q' = Tail(q)

LQNext == (\E b \in Byte : LQPut(b)) \/ LQGet

LQSpec == LQInit /\ [][LQNext]_q
=============================================================================
