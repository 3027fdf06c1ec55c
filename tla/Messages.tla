------------------------------ MODULE Messages ------------------------------
(***************************************************************************)
(* Messages as include/l4/ipc.h lays them out and copy_payload in          *)
(* kern/syscall/ipc.c carries them from one UTCB to the other: a label,    *)
(* untyped words and typed items of two words each.  A receiver accepts    *)
(* strings or not, and has given the kernel one buffer for them.           *)
(***************************************************************************)
EXTENDS Naturals, Sequences, SequencesExt

CONSTANT L4_MR_COUNT

ASSUME MessagesAssumption == L4_MR_COUNT \in Nat

Message(label, words, items) == [label |-> label, words |-> words, items |-> items]
MapItem == [kind |-> "map", text |-> << >>]
StringItem(text) == [kind |-> "string", text |-> text]

Acceptor(s, length) == [s |-> s, length |-> length]
NoStrings == Acceptor(FALSE, 0)

\* What becomes of one item; an error ends the copying.  A grant or a control
\* transfer item is never passed: the loop stays where it is.
CopyItem(acceptor, done, item) ==
  CASE done.error # "none" -> done
    [] done.error = "none" /\ item.kind \in {"grant", "ctrl_xfer"} -> [done EXCEPT !.error = "stuck"]
    [] done.error = "none" /\ item.kind = "map" -> [done EXCEPT !.items = Append(@, item)]
    [] done.error = "none" /\ item.kind = "string" ->
         IF acceptor.s /\ Len(item.text) <= acceptor.length
           THEN [done EXCEPT !.items = Append(@, item)]
           ELSE [done EXCEPT !.error = "message_overflow"]

\* What the receiver finds in its message registers.
copy_payload(m, acceptor) ==
  IF Len(m.words) + 2 * Len(m.items) > L4_MR_COUNT
    THEN [error |-> "message_overflow", items |-> << >>]
    ELSE FoldLeft(LAMBDA done, item : CopyItem(acceptor, done, item),
                  [error |-> "none", items |-> << >>], m.items)
=============================================================================
