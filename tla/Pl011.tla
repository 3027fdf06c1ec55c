------------------------------- MODULE Pl011 -------------------------------
(***************************************************************************)
(* usr/pl011/pl011.c: the UART driver, one thread that serves one request  *)
(* after the other, between a UART that receives and transmits on its own  *)
(* and a client that reads and writes as usr/bsh does (term_write repeats  *)
(* what was not taken).  One step is one access to the UART and what       *)
(* follows until the next one.  The driver starts on what Clocks and Uart  *)
(* prepare; the client may have a text to write from the beginning on.     *)
(*                                                                         *)
(* A received byte is the number of its arrival; a written one is only a   *)
(* newline or not.                                                         *)
(***************************************************************************)
EXTENDS Uart, Naturals, Sequences, SequencesExt

CONSTANTS
  RX_RING_CAP,  \* slots of the ring, 128 in the code
  FIFO,         \* bytes a FIFO of the UART holds
  Texts,        \* what the client writes
  Sizes,        \* how much it reads at once
  MaxIn, MaxOut \* bounds: bytes that arrive, bytes the client writes

ASSUME Pl011Assumption ==
  /\ RX_RING_CAP \in Nat \ {0, 1} /\ FIFO \in Nat \ {0}
  /\ Sizes \subseteq Nat /\ Texts \subseteq Seq({"x", "nl"})
  /\ MaxIn \in Nat /\ MaxOut \in Nat

Slots == 0 .. RX_RING_CAP - 1

Received == 1 .. MaxIn

VARIABLES
  arrived,      \* bytes received by the UART so far
  rxfifo,       \* its receive FIFO
  txcount,      \* bytes in its transmit FIFO
  out,          \* everything written to the transmit FIFO so far
  buf, head, tail,  \* rxrb
  pending_nl,
  pc,           \* where the driver is
  size,         \* bytes still to read
  left,         \* the text still to write
  taken,        \* bytes of the current read so far
  text,         \* what the client still wants to write, its request first
  accepted,     \* what the driver said it has written
  reading       \* what the client got from its reads

uart == <<arrived, rxfifo, txcount, out>>
rxrb == <<buf, head, tail>>
client == <<text, accepted, reading>>
driver == <<uart, rxrb, pending_nl, pc, size, left, taken, client>>
hardware == <<clock_vars, uart_regs>>
vars == <<hardware, driver>>

Init ==
  /\ ClocksInit /\ UartInit
  /\ arrived = 0 /\ rxfifo = << >> /\ txcount = 0 /\ out = << >>
  /\ buf = [i \in Slots |-> 0] /\ head = 0 /\ tail = 0
  /\ pending_nl = FALSE
  /\ pc = "init" /\ size = 0 /\ left = << >> /\ taken = << >>
  /\ text \in Texts \cup {<< >>} /\ accepted = << >> /\ reading = << >>
-----------------------------------------------------------------------------
(* The UART.                                                               *)

\* A byte that finds the FIFO full is lost.
Receive ==
  /\ cr /\ arrived < MaxIn
  /\ arrived' = arrived + 1
  /\ rxfifo' = IF Len(rxfifo) < FIFO THEN Append(rxfifo, arrived + 1) ELSE rxfifo
  /\ UNCHANGED <<txcount, out, rxrb, pending_nl, pc, size, left, taken, client>>

Transmit ==
  /\ txcount > 0
  /\ txcount' = txcount - 1
  /\ UNCHANGED <<arrived, rxfifo, out, rxrb, pending_nl, pc, size, left, taken, client>>

Writable == txcount < FIFO

Put(s) == txcount' = txcount + Len(s) /\ out' = out \o s
-----------------------------------------------------------------------------
(* The ring.                                                               *)

\* The next index of the ring.
After(i) == (i + 1) % RX_RING_CAP

rxrb_len == IF head >= tail THEN head - tail ELSE RX_RING_CAP - (tail - head)

Contents == [i \in 1 .. rxrb_len |-> buf[(tail + i - 1) % RX_RING_CAP]]

\* The mutated forms each change one operation the way a slip in the code
\* would; they are used only to show that the properties can fail.
\* A full ring does not give up its oldest byte.
PushOver(c) ==
  /\ buf' = [buf EXCEPT ![head] = c]
  /\ head' = After(head)
  /\ UNCHANGED tail

\* rxrb_push
Push(c) ==
  /\ tail' = IF After(head) = tail THEN After(tail) ELSE tail
  /\ buf' = [buf EXCEPT ![head] = c]
  /\ head' = After(head)
-----------------------------------------------------------------------------
(* The driver.                                                             *)

At(l) == pc = l

\* register_service: the client can find the driver (Services).
Registered ==
  /\ At("init") /\ Waits("driver", "main")
  /\ pc' = "drain"
  /\ UNCHANGED <<uart, rxrb, pending_nl, size, left, taken, client>>

\* uart_drain_hw_rx_to_ring, before the driver waits and in a read: a byte
\* with an error is acknowledged and ignored.
Drain ==
  /\ At("drain") \/ At("read drain")
  /\ rxfifo # << >>
  /\ rxfifo' = Tail(rxfifo)
  /\ \/ Push(Head(rxfifo))
     \/ UNCHANGED rxrb
  /\ UNCHANGED <<arrived, txcount, out, pending_nl, pc, size, left, taken, client>>

Drained ==
  /\ At("drain") \/ At("read drain")
  /\ rxfifo = << >>
  /\ pc' = IF pc = "drain" THEN "wait" ELSE "read"
  /\ UNCHANGED <<uart, rxrb, pending_nl, size, left, taken, client>>

\* The bytes are handed over in the reverse order.
ReadReversed ==
  /\ At("read")
  /\ IF size > 0 /\ head # tail
       THEN /\ taken' = <<buf[tail]>> \o taken /\ tail' = After(tail)
            /\ size' = size - 1
            /\ UNCHANGED <<pc, reading>>
       ELSE /\ pc' = "drain" /\ reading' = reading \o taken /\ taken' = << >> /\ size' = 0
            /\ UNCHANGED tail
  /\ UNCHANGED <<uart, buf, head, pending_nl, left, text, accepted>>

\* uart_read_from_ring, and the reply.
Read ==
  /\ At("read")
  /\ IF size > 0 /\ head # tail
       THEN /\ taken' = Append(taken, buf[tail]) /\ tail' = After(tail)
            /\ size' = size - 1
            /\ UNCHANGED <<pc, reading>>
       ELSE /\ pc' = "drain" /\ reading' = reading \o taken /\ taken' = << >> /\ size' = 0
            /\ UNCHANGED tail
  /\ UNCHANGED <<uart, buf, head, pending_nl, left, text, accepted>>

\* The reply to a write: the client goes on with what was not taken.
WriteReplies(rest) ==
  /\ pc' = "reply" /\ left' = rest
  /\ accepted' = accepted \o SubSeq(text, 1, Len(text) - Len(rest))
  /\ text' = rest

Reply ==
  /\ At("reply")
  /\ pc' = "drain" /\ left' = << >>
  /\ UNCHANGED <<uart, rxrb, pending_nl, size, taken, client>>

\* The newline that did not fit the last time.
WritePending ==
  /\ At("write pending")
  /\ IF ~ pending_nl THEN pc' = "write" /\ UNCHANGED <<txcount, out, pending_nl, left, text, accepted>>
     ELSE IF Writable THEN Put(<<"nl">>) /\ pending_nl' = FALSE /\ pc' = "write"
                           /\ UNCHANGED <<left, text, accepted>>
     ELSE WriteReplies(left) /\ UNCHANGED <<txcount, out, pending_nl>>
  /\ UNCHANGED <<arrived, rxfifo, rxrb, size, taken, reading>>

\* The test of PL011_FR_TXFF turned round.
WriteWhenFull ==
  /\ At("write")
  /\ IF left = << >> \/ Writable
       THEN WriteReplies(left) /\ UNCHANGED <<txcount, out>>
       ELSE /\ UNCHANGED <<text, accepted>>
            /\ IF Head(left) = "nl" THEN Put(<<"cr">>) /\ pc' = "write nl" /\ UNCHANGED left
                                    ELSE Put(<<"x">>) /\ left' = Tail(left) /\ UNCHANGED pc
  /\ UNCHANGED <<arrived, rxfifo, rxrb, pending_nl, size, taken, reading>>

\* uart_write_nonblocking, up to the second access of a newline.
Write ==
  /\ At("write")
  /\ IF left = << >> \/ ~ Writable
       THEN WriteReplies(left) /\ UNCHANGED <<txcount, out>>
       ELSE /\ UNCHANGED <<text, accepted>>
            /\ IF Head(left) = "nl" THEN Put(<<"cr">>) /\ pc' = "write nl" /\ UNCHANGED left
                                    ELSE Put(<<"x">>) /\ left' = Tail(left) /\ UNCHANGED pc
  /\ UNCHANGED <<arrived, rxfifo, rxrb, pending_nl, size, taken, reading>>

\* The newline is not counted when it did not fit.
WriteNewlineUncounted ==
  /\ At("write nl")
  /\ IF Writable
       THEN /\ Put(<<"nl">>) /\ left' = Tail(left) /\ pc' = "write"
            /\ UNCHANGED <<pending_nl, text, accepted>>
       ELSE /\ pending_nl' = TRUE
            /\ WriteReplies(left)
            /\ UNCHANGED <<txcount, out>>
  /\ UNCHANGED <<arrived, rxfifo, rxrb, size, taken, reading>>

WriteNewline ==
  /\ At("write nl")
  /\ IF Writable
       THEN /\ Put(<<"nl">>) /\ left' = Tail(left) /\ pc' = "write"
            /\ UNCHANGED <<pending_nl, text, accepted>>
       ELSE /\ pending_nl' = TRUE
            /\ WriteReplies(Tail(left))
            /\ UNCHANGED <<txcount, out>>
  /\ UNCHANGED <<arrived, rxfifo, rxrb, size, taken, reading>>
-----------------------------------------------------------------------------
(* The client.                                                             *)

\* A read of nothing is answered at once.
RequestRead(len) ==
  /\ At("wait") /\ text = << >>
  /\ pc' = IF len = 0 THEN "drain" ELSE "read drain"
  /\ size' = len
  /\ UNCHANGED <<uart, rxrb, pending_nl, left, taken, client>>

BeginWrite(s) ==
  /\ At("wait") /\ text = << >>
  /\ Len(accepted) + Len(s) <= MaxOut
  /\ text' = s
  /\ UNCHANGED <<uart, rxrb, pending_nl, pc, size, left, taken, accepted, reading>>

RequestWrite ==
  /\ At("wait") /\ text # << >>
  /\ pc' = "write pending" /\ left' = text
  /\ UNCHANGED <<uart, rxrb, pending_nl, size, taken, client>>
-----------------------------------------------------------------------------
Driver ==
  \/ Registered
  \/ Drain
  \/ Drained
  \/ Read
  \/ Reply
  \/ WritePending
  \/ Write
  \/ WriteNewline

Serves ==
  \/ Receive
  \/ Transmit
  \/ Driver
  \/ \E len \in Sizes : RequestRead(len)
  \/ \E s \in Texts : BeginWrite(s)
  \/ RequestWrite

StartsUp ==
  \/ ClockHardware /\ UNCHANGED uart_regs
  \/ setup_clocks /\ UNCHANGED uart_regs
  \/ PrepareUart

Next ==
  \/ StartsUp /\ UNCHANGED driver
  \/ Serves /\ UNCHANGED hardware

Spec == Init /\ [][Next]_vars

\* The hardware answers, the root task and the driver are scheduled, the UART
\* transmits, and term_write tries again.
FairSpec ==
  /\ Spec
  /\ WF_vars(StartsUp /\ UNCHANGED driver)
  /\ WF_vars(Transmit /\ UNCHANGED hardware)
  /\ WF_vars(Driver /\ UNCHANGED hardware)
  /\ WF_vars(RequestWrite /\ UNCHANGED hardware)
-----------------------------------------------------------------------------
\* Every variable keeps its type; the ring never holds more than one byte less
\* than its slots, so a read of any size fits into ipc_buffer.
TypeOK ==
  /\ arrived \in 0 .. MaxIn /\ rxfifo \in Seq(Received) /\ Len(rxfifo) <= FIFO
  /\ txcount \in 0 .. FIFO /\ out \in Seq({"x", "cr", "nl"})
  /\ buf \in [Slots -> 0 .. MaxIn] /\ head \in Slots /\ tail \in Slots
  /\ pending_nl \in BOOLEAN
  /\ pc \in {"init", "drain", "wait", "read drain", "read", "reply", "write pending", "write", "write nl"}
  /\ size \in Nat /\ left \in Seq({"x", "nl"})
  /\ taken \in Seq(Received) /\ reading \in Seq(Received)
  /\ text \in Seq({"x", "nl"}) /\ accepted \in Seq({"x", "nl"})

\* The ring is a queue that forgets its oldest byte when it is full.
LQ == INSTANCE LossyQueue WITH Byte <- Received, N <- RX_RING_CAP - 1, q <- Contents
ImplementsLossyQueue == LQ!LQSpec

\* What the client has read, holds in its current answer, and what waits in
\* ring and FIFO, is in the order of arrival, no byte twice: across wrapped
\* indices, dropped bytes and a FIFO that fills while the driver drains it.
InOrder ==
  LET all == reading \o taken \o Contents \o rxfifo
  IN \A i \in 1 .. Len(all) - 1 : all[i] < all[i + 1]

\* The ring between rxrb_push and rxrb_pop: well-typed and in order.
RingInv == TypeOK /\ InOrder

Expand(s) == FlattenSeq([i \in DOMAIN s |-> IF s[i] = "nl" THEN <<"cr", "nl">> ELSE <<s[i]>>])

\* The wire shows the text the client was told is written, every newline behind
\* exactly one carriage return, but for a last newline that is still pending:
\* whatever the FIFO had room for when.  A comment in uart_write_nonblocking
\* says otherwise, "that '\r' might be sent multiple times for one '\n'"
\* (pl011.c:384-386).  The code around it is right and the comment is not: the
\* newline is counted as written before its carriage return is sent, and the
\* next call sends it alone because of pending_nl.
Faithful ==
  pc \in {"drain", "wait", "reply"} =>
    Expand(accepted) = out \o (IF pending_nl THEN <<"nl">> ELSE << >>)

\* The start-up ends and term_write returns: hardware that answers in any order,
\* a driver that never waits for the FIFO, and a client that repeats, get every
\* text out.
Written == text # << >> ~> text = << >>
=============================================================================
