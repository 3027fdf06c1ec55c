------------------------------ MODULE PagePool ------------------------------
(***************************************************************************)
(* What an allocator of pages promises that never joins the blocks that     *)
(* are given back: a set of free blocks.  A request is served from the      *)
(* front of a block that is large enough, and refused only if there is     *)
(* none.                                                                    *)
(***************************************************************************)
EXTENDS Naturals

CONSTANTS
  PageCount,   \* the pages of the pool end before this one
  NULL

VARIABLES
  blocks,   \* the free blocks, each with its first page and its length
  asked,    \* the length of the last request
  base      \* its answer, NULL if it was refused

Block(first, num) == [base |-> first, num |-> num]

PPInit == blocks = {} /\ asked = 0 /\ base = NULL

(* The pool gets its memory before the first request.                       *)
PPSetUp ==
  /\ blocks = {} /\ asked = 0
  /\ \E first \in 0 .. PageCount - 1 : blocks' = {Block(first, PageCount - first)}
  /\ UNCHANGED <<asked, base>>

(* Any number of pages may be asked for.                                    *)
PPAsk == asked' \in Nat \ {0}

PPAlloc ==
  \E b \in blocks :
    /\ b.num >= asked'
    /\ base' = b.base
    /\ blocks' = (blocks \ {b}) \cup
         IF b.num = asked' THEN {}
         ELSE {Block(b.base + asked', b.num - asked')}

PPRefuse ==
  /\ \A b \in blocks : b.num < asked'
  /\ base' = NULL
  /\ UNCHANGED blocks

(* Only pages of no free block may be given back.                           *)
PPFree(first, num_pages) ==
  /\ \A b \in blocks : first + num_pages <= b.base \/ b.base + b.num <= first
  /\ blocks' = blocks \cup {Block(first, num_pages)}
  /\ UNCHANGED <<asked, base>>

PPNext ==
  \/ PPSetUp
  \/ PPAsk /\ (PPAlloc \/ PPRefuse)
  \/ \E n \in 1 .. PageCount : \E p \in 0 .. PageCount - n : PPFree(p, n)

PPSpec == PPInit /\ [][PPNext]_<<blocks, asked, base>>
=============================================================================
