------------------------------ MODULE Terminal ------------------------------
(***************************************************************************)
(* The shell (usr/bsh/bsh.c) and the terminal it talks to: the PL011       *)
(* driver's side of the protocol of include/term.h, or the terminal on     *)
(* semihosting (usr/shterm/shterm.c), which the image holds and does not   *)
(* start.  Every call is one message to the terminal and one back, both    *)
(* carried by copy_payload; another program calls the terminal too.        *)
(*                                                                         *)
(* A byte is a character, "nl" for either line ending, or "bs" for either  *)
(* code that erases.  How the driver takes and hands over bytes is in      *)
(* Pl011; here it takes as many as it likes.                               *)
(***************************************************************************)
EXTENDS Messages, FiniteSets

CONSTANTS
  Characters, Motd, Prompt,
  Foreign,          \* what the other program writes
  SHELL_LINE_MAX, IPC_BUFFER_SIZE,
  CHUNK,            \* bytes write_buffer writes at once, 64 in the code
  MaxTyped, MaxCalls, MaxShown
                    \* bounds: bytes typed, calls of the other program, and
                    \* bytes the terminal on semihosting shows

ASSUME TerminalAssumption ==
  /\ {"nl", "bs"} \cap Characters = {}
  /\ Foreign \notin Characters \cup {"nl", "bs"} \cup Range(Motd) \cup Range(Prompt)
  /\ SHELL_LINE_MAX \in Nat /\ SHELL_LINE_MAX >= 4
  /\ IPC_BUFFER_SIZE \in Nat /\ CHUNK \in 1 .. IPC_BUFFER_SIZE
  /\ IPC_BUFFER_SIZE >= SHELL_LINE_MAX - 2 /\ IPC_BUFFER_SIZE >= Len(Prompt)
  /\ MaxTyped \in Nat /\ MaxCalls \in Nat /\ MaxShown \in Nat
  /\ Motd \in Seq(STRING) /\ Prompt \in Seq(STRING)

Bytes == Characters \cup {"nl", "bs"}
Clients == {"bsh", "other"}

\* enum term_ops and enum term_answer_ops: the same numbers, two meanings.
TERM_READ == 0
TERM_WRITE == 1
TERM_ERROR == 0
TERM_READ_RET == 1
TERM_WRITE_RET == 2

EINVAL == 22

VARIABLES
  server,        \* the terminal that is registered
  typed,         \* how many bytes were typed
  waiting,       \* the bytes the terminal has
  calls,         \* how often the other program has called
  call,          \* the message each client has sent, << >> if none
  from, answer,  \* whom the terminal answers, "nobody" while it waits, and what
  told,          \* the answer the shell has received, << >> if none
  pc,            \* what the shell is doing
  received,      \* the bytes of the last read that are still to be processed
  line,          \* line_buffer[0 .. line_pos - 1]
  left, size,    \* the text still to write, and how much of it term_write has
  out,           \* everything the terminal has shown
  processed      \* history: the bytes the shell has processed

terminal == <<server, waiting, from, answer, out>>
shell == <<pc, received, line, left, size, processed>>
vars == <<terminal, shell, typed, calls, call, told>>

Least(m, n) == IF m < n THEN m ELSE n
Drop(s, n) == SubSeq(s, n + 1, Len(s))

\* write_buffer cuts the files it shows into pieces.
Piece(text) == Least(CHUNK, Len(text))

Quiet == Message(TERM_ERROR, <<EINVAL>>, << >>)

\* startup, if the files it shows exist.
Init ==
  /\ server \in {"pl011", "shterm"}
  /\ typed = 0 /\ waiting = << >> /\ calls = 0
  /\ call = [c \in Clients |-> << >>] /\ told = << >>
  /\ from = "nobody" /\ answer = Quiet
  /\ pc = "startup" /\ left \in {Motd, << >>} /\ size = Piece(left)
  /\ received = << >> /\ line = << >> /\ out = << >> /\ processed = << >>
-----------------------------------------------------------------------------
(* The user, and the other program: a write like the shell's, and calls     *)
(* that the terminal refuses, or that cannot be carried or answered.        *)

Type(b) ==
  /\ typed < MaxTyped
  /\ typed' = typed + 1 /\ waiting' = Append(waiting, b)
  /\ UNCHANGED <<server, from, answer, out, shell, calls, call, told>>

Calls(c, m, acceptor) ==
  /\ call[c] = << >>
  /\ call' = [call EXCEPT ![c] = <<[m |-> m, acceptor |-> acceptor]>>]

\* The buffer of the terminal, and the shell's.
Buffer == Acceptor(TRUE, IPC_BUFFER_SIZE)

Requests ==
  {<<Message(TERM_WRITE, <<0>>, <<StringItem(<<Foreign>>)>>), NoStrings>>,
   <<Message(TERM_WRITE, << >>, << >>), NoStrings>>,
   <<Message(TERM_WRITE, <<0>>, <<StringItem([i \in 1 .. IPC_BUFFER_SIZE + 1 |-> "nl"])>>), NoStrings>>,
   <<Message(TERM_WRITE, [i \in 1 .. L4_MR_COUNT |-> 0], <<MapItem>>), NoStrings>>,
   <<Message(TERM_READ, <<IPC_BUFFER_SIZE>>, << >>), Buffer>>,
   <<Message(TERM_READ, <<0, IPC_BUFFER_SIZE>>, << >>), Buffer>>,
   <<Message(TERM_READ, <<0, IPC_BUFFER_SIZE>>, << >>), NoStrings>>,
   <<Message(TERM_WRITE_RET, << >>, << >>), Buffer>>}

OtherCalls ==
  /\ calls < MaxCalls /\ calls' = calls + 1
  /\ \E request \in Requests : Calls("other", request[1], request[2])
  /\ UNCHANGED <<terminal, shell, typed, told>>
-----------------------------------------------------------------------------
(* The terminal.                                                           *)

\* How many bytes of a text are taken, and what the client is told of it:
\* pl011_handle_write counts what was written, shterm_handle_write passes on
\* the answer of SYS_WRITE, the number of bytes that were not.
Taken(text) == IF server = "pl011" THEN 0 .. Len(text) ELSE {Len(text)}
Count(text, n) == IF server = "pl011" THEN n ELSE Len(text) - n

handle_write(m) ==
  IF Len(m.words) # 1 \/ Len(m.items) # 1 THEN answer' = Quiet /\ UNCHANGED out
  ELSE LET text == m.items[1].text
       IN \E n \in Taken(text) :
            /\ server = "shterm" => Len(out) + n <= MaxShown
            /\ out' = out \o SubSeq(text, 1, n)
            /\ answer' = Message(TERM_WRITE_RET, <<Count(text, n)>>, << >>)

\* pl011_handle_read hands over what has arrived; the debugger that answers
\* SYS_READ may have less.
handle_read(m) ==
  IF Len(m.words) # 2 \/ m.items # << >> THEN answer' = Quiet /\ UNCHANGED waiting
  ELSE LET most == Least(Len(waiting), m.words[2])
       IN \E n \in IF server = "pl011" THEN {most} ELSE 0 .. most :
            /\ answer' = Message(TERM_READ_RET, << >>, <<StringItem(SubSeq(waiting, 1, n))>>)
            /\ waiting' = Drop(waiting, n)

\* Neither side learns more than that it failed: the tag is still its own.
Fails(c) ==
  /\ call' = [call EXCEPT ![c] = << >>]
  /\ told' = IF c = "bsh" THEN <<[failed |-> TRUE, m |-> call[c][1].m]>> ELSE told

\* One turn of the loop of the terminal, up to the answer.
Receive(c) ==
  /\ from = "nobody" /\ call[c] # << >>
  /\ LET m == call[c][1].m
         carried == copy_payload(m, Buffer)
     IN IF carried.error # "none"
          THEN Fails(c) /\ UNCHANGED <<from, answer, out, waiting>>
          ELSE /\ from' = c
               /\ CASE m.label = TERM_READ -> handle_read(m) /\ UNCHANGED out
                    [] m.label = TERM_WRITE -> handle_write(m) /\ UNCHANGED waiting
                    [] OTHER -> answer' = Quiet /\ UNCHANGED <<out, waiting>>
               /\ UNCHANGED <<call, told>>
  /\ UNCHANGED <<server, shell, typed, calls>>

\* What was read for a client that cannot take it is gone.
Reply ==
  /\ from # "nobody" /\ from' = "nobody"
  /\ IF copy_payload(answer, call[from][1].acceptor).error # "none" THEN Fails(from)
     ELSE /\ call' = [call EXCEPT ![from] = << >>]
          /\ told' = IF from = "bsh" THEN <<[failed |-> FALSE, m |-> answer]>> ELSE told
  /\ answer' = Quiet
  /\ UNCHANGED <<server, waiting, out, shell, typed, calls>>
-----------------------------------------------------------------------------
(* The shell's calls.                                                      *)

Idle == call["bsh"] = << >> /\ told = << >>

\* One call of term_write's loop.
Writes ==
  /\ Idle /\ size > 0
  /\ Calls("bsh", Message(TERM_WRITE, <<0>>, <<StringItem(SubSeq(left, 1, size))>>), NoStrings)
  /\ UNCHANGED <<terminal, shell, typed, calls, told>>

\* Mutated form: what the terminal did not take is written no more.
Written_no_more ==
  /\ told # << >> /\ size > 0 /\ told' = << >>
  /\ left' = Drop(left, size) /\ size' = Piece(left') /\ UNCHANGED pc
  /\ UNCHANGED <<terminal, received, line, processed, typed, calls, call>>

\* And with its answer.  A failure ends term_write and is ignored by its
\* callers; a terminal that reports more than was sent, an error for instance,
\* makes the length wrap around.
Written ==
  /\ told # << >> /\ size > 0 /\ told' = << >>
  /\ LET m == told[1].m
         failed == told[1].failed /\ m.label # TERM_WRITE_RET
         n == IF failed THEN size ELSE m.words[1]
     IN /\ left' = Drop(left, n)
        /\ size' = IF n < size THEN size - n ELSE Piece(left')
        /\ pc' = IF n > size THEN "beyond" ELSE pc
  /\ UNCHANGED <<terminal, received, line, processed, typed, calls, call>>

\* The call of readline.
Reads ==
  /\ Idle /\ pc = "read"
  /\ Calls("bsh", Message(TERM_READ, <<0, IPC_BUFFER_SIZE>>, << >>), Buffer)
  /\ UNCHANGED <<terminal, shell, typed, calls, told>>

Read ==
  /\ told # << >> /\ pc = "read" /\ told' = << >>
  /\ IF told[1].failed \/ told[1].m.label # TERM_READ_RET THEN UNCHANGED <<pc, received>>
     ELSE pc' = "process" /\ received' = told[1].m.items[1].text
  /\ UNCHANGED <<terminal, line, left, size, processed, typed, calls, call>>
-----------------------------------------------------------------------------
(* main, when term_write has returned.                                     *)

others == <<terminal, typed, calls, call, told>>

WriteNext(text, n) == left' = text /\ size' = n

Prompts ==
  /\ Idle /\ pc \in {"startup", "echo"} /\ left = << >>
  /\ pc' = "prompt" /\ WriteNext(Prompt, Len(Prompt))
  /\ UNCHANGED <<received, line, processed, others>>

BeginsLine ==
  /\ Idle /\ pc = "prompt" /\ left = << >>
  /\ pc' = "read" /\ line' = << >>
  /\ UNCHANGED <<received, left, size, processed, others>>

Takes(b) ==
  /\ pc = "process" /\ received # << >> /\ Head(received) = b
  /\ processed' = Append(processed, b)

\* A line is complete: what is left of the bytes received is forgotten.
Newline ==
  /\ Takes("nl")
  /\ IF Len(line) < SHELL_LINE_MAX - 2
       THEN /\ line' = Append(line, "nl") /\ WriteNext(line', Len(line'))
            /\ pc' = "echo" /\ received' = << >>
       ELSE received' = Tail(received) /\ UNCHANGED <<line, left, size, pc>>
  /\ UNCHANGED others

Backspace ==
  /\ Takes("bs")
  /\ line' = SubSeq(line, 1, Len(line) - 1)
  /\ received' = Tail(received)
  /\ UNCHANGED <<pc, left, size, others>>

\* Mutated form: the limit of the newline.
CharacterOneMore(b) ==
  /\ Takes(b)
  /\ line' = IF Len(line) < SHELL_LINE_MAX - 2 THEN Append(line, b) ELSE line
  /\ received' = Tail(received)
  /\ UNCHANGED <<pc, left, size, others>>

Character(b) ==
  /\ Takes(b)
  /\ line' = IF Len(line) < SHELL_LINE_MAX - 3 THEN Append(line, b) ELSE line
  /\ received' = Tail(received)
  /\ UNCHANGED <<pc, left, size, others>>

\* No line yet: main yields and reads again.
Incomplete ==
  /\ pc = "process" /\ received = << >>
  /\ pc' = "read"
  /\ UNCHANGED <<received, line, left, size, processed, others>>

Shell ==
  \/ Writes \/ Written \/ Reads \/ Read
  \/ Prompts \/ BeginsLine
  \/ Newline \/ Backspace \/ Incomplete
  \/ \E b \in Characters : Character(b)

Server == Reply \/ \E c \in Clients : Receive(c)

Next ==
  \/ \E b \in Bytes : Type(b)
  \/ OtherCalls
  \/ Server
  \/ Shell

Spec == Init /\ [][Next]_vars

\* Shell and terminal are threads that are scheduled, and the terminal takes
\* some of a text in the end (Pl011!Written).
FairSpec ==
  /\ Spec
  /\ WF_vars(Shell) /\ WF_vars(Server)
  /\ SF_vars(Receive("bsh") /\ out' # out)
-----------------------------------------------------------------------------
\* A line and the zero behind it fit into line_buffer; the shell never runs
\* beyond the text it writes.
TypeOK ==
  /\ typed \in 0 .. MaxTyped /\ calls \in 0 .. MaxCalls
  /\ waiting \in Seq(Bytes) /\ received \in Seq(Bytes) /\ processed \in Seq(Bytes)
  /\ from \in Clients \cup {"nobody"}
  /\ Len(received) <= IPC_BUFFER_SIZE
  /\ pc \in {"startup", "prompt", "read", "process", "echo"}
  /\ line \in Seq(Characters \cup {"nl"}) /\ Len(line) < SHELL_LINE_MAX
  /\ left \in Seq(STRING) /\ size \in 0 .. Len(left) /\ out \in Seq(STRING)

HowMany(s, B) == Len(SelectSeq(s, LAMBDA b : b \in B))

\* What an editor leaves of a line: the characters that no later run of
\* erasures reaches back to.
Edited(s) ==
  LET erased(i) == \E j \in i + 1 .. Len(s) :
        HowMany(SubSeq(s, i + 1, j), {"bs"}) > HowMany(SubSeq(s, i + 1, j), Characters)
      kept == SetToSortSeq({i \in DOMAIN s : s[i] \in Characters /\ ~ erased(i)}, <)
  IN [k \in DOMAIN kept |-> s[kept[k]]]

\* The bytes processed, cut at the line endings.
Ends == {i \in DOMAIN processed : processed[i] = "nl"}
LineOf(e) ==
  LET before == {i \in Ends : i < e}
      start  == IF before = {} THEN 1 ELSE CHOOSE i \in 1 .. e : i - 1 \in before /\ \A k \in before : k < i
  IN SubSeq(processed, start, e - 1)

Short(s) == HowMany(s, Characters) <= SHELL_LINE_MAX - 3

\* What the terminal has taken and the shell does not know of yet.
Unreported ==
  LET m == IF told # << >> THEN told[1].m ELSE answer
  IN IF size > 0 /\ (told # << >> \/ from = "bsh") /\ m.label = TERM_WRITE_RET
       THEN m.words[1] ELSE 0

\* On the driver's terminal the screen shows, between what another program
\* writes, prompts, and after each prompt the line as edited, in the order of
\* typing and nothing twice, however the terminal cuts what is read and
\* written, and although the other program writes, or sends what the terminal
\* refuses or cannot answer, between any two calls: readline, term_write,
\* pl011_handle_read and pl011_handle_write.  (Bytes the other program reads,
\* and those readline forgets behind a line end, are not part of a line; lines
\* longer than the buffer are left out here.)
EchoesLines ==
  /\ TypeOK
  /\ LET lines == SetToSortSeq(Ends, <)
         all == FlattenSeq([k \in DOMAIN lines |-> Prompt \o Edited(LineOf(lines[k])) \o <<"nl">>])
         own == SelectSeq(out, LAMBDA b : b # Foreign)
         screen == own \o Drop(left, Unreported)
     IN server = "pl011" /\ (\A e \in Ends : Short(LineOf(e))) =>
          \E motd \in {Motd, << >>} :
            screen = motd \o all \o (IF pc \in {"read", "process", "prompt"} THEN Prompt ELSE << >>)

\* On the driver's terminal a read that brings the shell a line end leads to
\* the echo of a line, however long the line is and whoever else calls the
\* terminal: the limits of readline leave room for the newline.  One echo for
\* the read, not one for each line end in it: readline returns at the first
\* and forgets the bytes behind it, line ends included.
Answers ==
  (server = "pl011" /\ \E i \in DOMAIN received : received[i] = "nl") ~> pc = "echo"
=============================================================================
