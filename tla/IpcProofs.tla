------------------------------ MODULE IpcProofs ------------------------------
(***************************************************************************)
(* Proofs about Ipc, for every set of threads, address spaces and pagers:  *)
(* do_ipc never runs twice for one thread at a time (IpcSafe), a blocked   *)
(* sender and its blocked receiver have found each other (IpcMet), and     *)
(* what a step copies and which error it sets (IpcAddressed,               *)
(* IpcErrorsTrue).                                                         *)
(*                                                                         *)
(* The inductive invariant IInv says why the recursion of do_ipc ends: all *)
(* threads of the stack but the first one wait for the thread below them,  *)
(* as their saved arguments say, so whoever is found as a blocked sender   *)
(* to the thread at the top is not in the stack yet (FoundIsNew).          *)
(***************************************************************************)
EXTENDS Ipc, SequenceTheorems, TLAPS

Depth == Len(stack)

(* Who takes part in a call exists, and nobody sends to itself; the partner  *)
(* is known only while it is to be released.                                 *)
Participants ==
  /\ \A i \in 1 .. Depth : stack[i] \in alive
  /\ partner # NIL <=> pc \in {"release", "abort"}
  /\ partner # NIL => partner \in alive
  /\ \A t \in Thread : to[t] # t

(* A thread that was deleted has forgotten its call.                         *)
Forgotten ==
  \A t \in Thread \ alive :
    to[t] = NIL /\ from[t] = NIL /\ ipc_from[t] = NIL /\ ~sent[t] /\ got[t] = NIL

(* A blocked thread waits for the partner its call names; only the last      *)
(* thread may have begun to wait for another one before its state says so.   *)
SendsTo ==
  /\ \A t \in alive : state[t] = "SEND_BLOCKED" /\ ~ (pc = "block recv" /\ t = top) =>
       ipc_from[t] = to[t] /\ to[t] \in Thread
  /\ pc = "block send" => ipc_from[top] = to[top] /\ to[top] \in Thread
ReceivesFrom ==
  /\ \A t \in alive : state[t] = "RECV_BLOCKED" => ipc_from[t] = from[t]
  /\ pc = "block recv" => ipc_from[top] = from[top]

(* The send phase is that of the caller, which is not blocked as a sender    *)
(* before its receive phase is over; nobody below the top is a receiver.     *)
CallerFirst ==
  /\ pc \in {"send", "release", "block send"} => Depth = 1
  /\ pc \in {"send", "release", "recv"} => state[stack[1]] # "SEND_BLOCKED"
ReceiverLast ==
  \A i \in 1 .. Depth : state[stack[i]] = "RECV_BLOCKED" => i = Depth /\ pc = "block recv"

(* While receive phases are entered, every thread of the stack but the       *)
(* caller waits for the one below it.                                        *)
Chain ==
  pc = "recv" => \A i \in 2 .. Depth : ipc_from[stack[i]] = stack[i - 1]

(* No sender and its receiver are both blocked, nor will be when the last    *)
(* thread, which has not found the other one, blocks.                        *)
Waiting(s, r) ==
  state[s] = "SEND_BLOCKED" /\ to[s] = r /\ state[r] = "RECV_BLOCKED" /\ Accepts(from[r], s, r)
NoneWaits == \A s, r \in alive : ~ Waiting(s, r)
NoReceiver ==
  pc = "block send" =>
    \A r \in alive : ~ (to[top] = r /\ state[r] = "RECV_BLOCKED" /\ Accepts(from[r], top, r))
NoSender ==
  pc = "block recv" =>
    \A s \in alive : s # top =>
      ~ (state[s] = "SEND_BLOCKED" /\ to[s] = top /\ Accepts(from[top], s, top))

(* What was copied is remembered only until the call is over.                *)
GotKept ==
  \A t \in Thread : got[t] # NIL =>
    \/ t = partner /\ pc = "release"
    \/ \E i \in 1 .. Depth : stack[i] = t /\ (i < Depth \/ pc = "done")
SentKept ==
  \A t \in Thread : sent[t] =>
    \/ state[t] = "RECV_BLOCKED"
    \/ t = partner /\ state[t] # "SEND_BLOCKED"
    \/ pc \notin {"send", "block send"} /\ \E i \in 1 .. Depth : stack[i] = t

IInv ==
  /\ TypeOK /\ NoReentry /\ Participants /\ Forgotten /\ SendsTo /\ ReceivesFrom
  /\ CallerFirst /\ ReceiverLast /\ Chain /\ NoneWaits /\ NoReceiver /\ NoSender
  /\ GotKept /\ SentKept

-----------------------------------------------------------------------------
(* What the proofs use of TypeOK: the types of the variables, and that a call *)
(* in progress has a thread at the top of its stack.                         *)
Typing ==
  /\ state \in [Thread -> States] /\ alive \subseteq Thread /\ partner \in Someone
  /\ to \in [Thread -> Someone] /\ from \in [Thread -> Specifier] /\ ipc_from \in [Thread -> Specifier]
  /\ sent \in [Thread -> BOOLEAN] /\ got \in [Thread -> Someone]
  /\ alarm \in [Thread -> BOOLEAN]

OnStack ==
  /\ Depth \in Nat /\ \A i \in 1 .. Depth : stack[i] \in Thread
  /\ pc = "idle" <=> Depth = 0
  /\ pc # "idle" => Depth \in 1 .. Depth /\ top \in Thread /\ top = stack[Depth]

LEMMA TopOfStack == ASSUME TypeOK PROVE stack \in Seq(Thread) /\ OnStack
<1>1. stack \in Seq(Thread) /\ (pc = "idle" <=> stack = << >>)
  BY DEF TypeOK
<1>2. Depth \in Nat /\ (Depth = 0 <=> stack = << >>)
  BY <1>1, EmptySeq DEF Depth
<1>3. \A i \in 1 .. Depth : stack[i] \in Thread
  BY <1>1, ElementOfSeq DEF Depth
<1> QED BY <1>1, <1>2, <1>3 DEF OnStack, top, Depth

(* Leaving do_ipc shortens the stack by its last thread.                     *)
LEMMA PopStack ==
  ASSUME TypeOK, pc # "idle", Pop
  PROVE  /\ stack' \in Seq(Thread) /\ Depth' = Depth - 1
         /\ \A i \in 1 .. Depth' : stack'[i] = stack[i]
         /\ pc' = "idle" <=> Depth = 1
         /\ pc' = "idle" <=> stack' = << >>
         /\ pc' \in {"idle", "done"}
<1>1. stack \in Seq(Thread) /\ Depth \in Nat \ {0}
  BY TopOfStack DEF OnStack
<1>2. \A i \in 1 .. Depth - 1 : stack[i] \in Thread
  BY <1>1 DEF Depth
<1>3. /\ SubSeq(stack, 1, Depth - 1) \in Seq(Thread)
      /\ Len(SubSeq(stack, 1, Depth - 1)) = Depth - 1
      /\ \A i \in 1 .. Depth - 1 : SubSeq(stack, 1, Depth - 1)[i] = stack[i]
  BY <1>1, <1>2, SubSeqProperties, Z3
<1>4. stack' = SubSeq(stack, 1, Depth - 1) /\ pc' = IF Depth = 1 THEN "idle" ELSE "done"
  BY DEF Pop, Depth
<1>5. Depth' = Depth - 1
  BY <1>3, <1>4 DEF Depth
<1>6. stack' = << >> <=> Depth' = 0
  BY <1>3, <1>4, EmptySeq DEF Depth
<1> QED BY <1>1, <1>3, <1>4, <1>5, <1>6

(* A receive phase that is entered is put on top of the stack.               *)
LEMMA PushStack ==
  ASSUME TypeOK, pc # "idle", NEW p \in Thread, stack' = Append(stack, p)
  PROVE  /\ stack' \in Seq(Thread) /\ Depth' = Depth + 1 /\ stack' # << >>
         /\ \A i \in 1 .. Depth : stack'[i] = stack[i]
         /\ stack'[Depth'] = p /\ top' = p
<1>1. stack \in Seq(Thread) /\ Depth \in Nat \ {0}
  BY TopOfStack DEF OnStack
<1> QED BY <1>1, AppendProperties DEF Depth, top

(* Whom a receiver finds is not in the midst of a call: the caller is not a  *)
(* blocked sender, and the others wait for the thread below them, which is   *)
(* another one than the receiver at the top.                                 *)
LEMMA FoundIsNew ==
  ASSUME IInv, pc = "recv", NEW p \in alive, Finds(top, from[top], "SEND_BLOCKED", p)
  PROVE  /\ state[p] = "SEND_BLOCKED" /\ ipc_from[p] = top /\ to[p] = top /\ p # top
         /\ \A i \in 1 .. Depth : stack[i] # p
         /\ ~ sent[p]
<1> USE IpcAssumption DEF IInv
<1>1. Depth \in 1 .. Depth /\ Depth \in Nat /\ top \in Thread /\ top = stack[Depth]
  BY TopOfStack DEF OnStack
<1>2. state[p] = "SEND_BLOCKED" /\ Accepts(ipc_from[p], top, p)
  BY DEF Finds, Viable
<1>3. ipc_from[p] = to[p] /\ to[p] \in Thread
  BY <1>2 DEF SendsTo
<1>4. ipc_from[p] = top /\ to[p] = top
  BY <1>2, <1>3 DEF Accepts
<1>5. p \in Thread /\ p # top
  BY <1>4 DEF TypeOK, Participants
<1>6. ASSUME NEW i \in 1 .. Depth, stack[i] = p PROVE FALSE
  <2>1. i # 1
    BY <1>2, <1>6 DEF CallerFirst
  <2>2. i - 1 \in 1 .. Depth /\ i \in 2 .. Depth
    BY <1>1, <2>1
  <2>3. stack[i - 1] = stack[Depth]
    BY <1>1, <1>4, <1>6, <2>2 DEF Chain
  <2>4. i - 1 = Depth
    BY <1>1, <2>2, <2>3 DEF NoReentry, Depth
  <2> QED BY <1>1, <2>4
<1>7. ~ sent[p]
  <2>1. p # partner
    BY <1>5 DEF Participants
  <2> QED BY <1>2, <1>5, <1>6, <2>1 DEF SentKept
<1> QED BY <1>2, <1>4, <1>5, <1>6, <1>7

-----------------------------------------------------------------------------
(* A system call starts with an empty stack.                                 *)
LEMMA IpcCall ==
  ASSUME IInv, NEW t \in Thread, NEW dest \in Someone,
         NEW source \in Specifier, NEW tmo \in BOOLEAN, t # dest,
         Call(t, dest, source, tmo)
  PROVE  IInv'
<1> USE IpcAssumption DEF IInv, Typing, OnStack
<1>0. /\ Depth = 0 /\ stack' = <<t>> /\ Depth' = 1 /\ stack'[1] = t /\ top' = t
      /\ stack' \in Seq(Thread) /\ stack' # << >>
  <2>1. Depth = 0
    BY TopOfStack DEF Call, At
  <2>2. stack' = <<t>>
    BY DEF Call
  <2> QED BY <2>1, <2>2 DEF Depth, top
<1>a. Typing /\ OnStack
  BY TopOfStack DEF TypeOK
<1>b. /\ pc = "idle" /\ pc' = "send"
      /\ t \in alive /\ state[t] = "RUNNABLE"
      /\ state' = [state EXCEPT ![t] = "SVC_BLOCKED"]
      /\ to' = [to EXCEPT ![t] = dest] /\ from' = [from EXCEPT ![t] = source]
      /\ timed' = [timed EXCEPT ![t] = tmo]
      /\ fail' = [fail EXCEPT ![t] = "none"]
      /\ UNCHANGED <<alive, ipc_from, alarm, partner, sent, got>>
  BY DEF Call, At, args, kernel, result
<1>1. TypeOK'
  BY <1>0, <1>a, <1>b DEF TypeOK, States, Someone, Specifier
<1>2. NoReentry' /\ Participants' /\ Forgotten'
  BY <1>0, <1>a, <1>b DEF NoReentry, Participants, Someone, Forgotten
<1>3. SendsTo' /\ ReceivesFrom'
  BY <1>0, <1>a, <1>b DEF SendsTo, ReceivesFrom
<1>4. CallerFirst' /\ ReceiverLast' /\ Chain'
  BY <1>0, <1>a, <1>b DEF CallerFirst, ReceiverLast, Chain
<1>5. NoneWaits' /\ NoReceiver' /\ NoSender'
  BY <1>0, <1>a, <1>b DEF NoneWaits, Waiting, NoReceiver, NoSender
<1>6. GotKept' /\ SentKept'
  BY <1>0, <1>a, <1>b DEF GotKept, Participants, SentKept
<1> QED BY <1>1, <1>2, <1>3, <1>4, <1>5, <1>6

(* A call without a send phase goes on with its receive phase.               *)
LEMMA IpcSendSkipped == ASSUME IInv, SendSkipped PROVE IInv'
<1> USE IpcAssumption DEF IInv, Typing, OnStack
<1>0. stack' = stack /\ top' = top /\ Depth' = Depth
  BY DEF SendSkipped, kernel, top, Depth
<1>a. Typing /\ OnStack
  BY TopOfStack DEF TypeOK
<1>b. /\ pc = "send" /\ pc' = "recv"
      /\ UNCHANGED <<alive, state, to, from, timed, ipc_from, alarm, partner, sent, got, fail>>
  BY DEF SendSkipped, At, args, kernel, result
<1>1. TypeOK'
  BY <1>0, <1>a, <1>b DEF TypeOK, States, Someone, Specifier
<1>2. NoReentry' /\ Participants' /\ Forgotten'
  BY <1>0, <1>a, <1>b DEF NoReentry, Participants, Someone, Forgotten
<1>3. SendsTo' /\ ReceivesFrom'
  BY <1>0, <1>a, <1>b DEF SendsTo, CallerFirst, ReceivesFrom
<1>4. CallerFirst' /\ ReceiverLast' /\ Chain'
  BY <1>0, <1>a, <1>b DEF CallerFirst, ReceiverLast, Chain
<1>5. NoneWaits' /\ NoReceiver' /\ NoSender'
  BY <1>0, <1>a, <1>b DEF NoneWaits, Waiting, NoReceiver, NoSender
<1>6. GotKept' /\ SentKept'
  BY <1>0, <1>a, <1>b DEF GotKept, SentKept
<1> QED BY <1>1, <1>2, <1>3, <1>4, <1>5, <1>6

(* The receiver that is found is blocked, so it is not in the stack.         *)
LEMMA IpcSendFound == ASSUME IInv, NEW p \in Thread, SendFound(p) PROVE IInv'
<1> USE IpcAssumption DEF IInv, Typing, OnStack
<1>0. stack' = stack /\ top' = top /\ Depth' = Depth
  BY DEF SendFound, Finds, Viable, Accepts, kernel, top, Depth
<1>a. Typing /\ OnStack
  BY TopOfStack DEF TypeOK
<1>b. /\ pc = "send" /\ pc' \in {"release", "abort"} /\ partner' = p
      /\ p \in alive /\ state[p] = "RECV_BLOCKED"
      /\ sent' = sent \/ sent' = [sent EXCEPT ![top] = TRUE]
      /\ got' = got \/ (pc' = "release" /\ got' = [got EXCEPT ![p] = top])
      /\ fail' = fail \/ fail' = [fail EXCEPT ![top] = "send", ![p] = "recv"]
      /\ UNCHANGED <<alive, state, to, from, timed, ipc_from, alarm>>
  <2>1. pc = "send" /\ pc' \in {"release", "abort"} /\ partner' = p
    BY <1>a, Zenon DEF SendFound, Finds, Viable, Accepts, At, args, kernel, result
  <2>2. p \in alive /\ state[p] = "RECV_BLOCKED"
    BY <1>a, Zenon DEF SendFound, Finds, Viable, Accepts, At, args, kernel, result
  <2>3. sent' = sent \/ sent' = [sent EXCEPT ![top] = TRUE]
    BY <1>a, Zenon DEF SendFound, Finds, Viable, Accepts, At, args, kernel, result
  <2>4. got' = got \/ (pc' = "release" /\ got' = [got EXCEPT ![p] = top])
    BY <1>a, Zenon DEF SendFound, Finds, Viable, Accepts, At, args, kernel, result
  <2>5. fail' = fail \/ fail' = [fail EXCEPT ![top] = "send", ![p] = "recv"]
    BY <1>a, Zenon DEF SendFound, Finds, Viable, Accepts, At, args, kernel, result
  <2>6. UNCHANGED <<alive, state, to, from, timed, ipc_from, alarm>>
    BY <1>a, Zenon DEF SendFound, Finds, Viable, Accepts, At, args, kernel, result
  <2> QED BY <2>1, <2>2, <2>3, <2>4, <2>5, <2>6
<1>1. TypeOK'
  <2>1. fail' \in [Thread -> {"none", "send", "recv"}]
    BY <1>b DEF TypeOK
  <2>2. top \in Someone
    BY <1>a, <1>b DEF Someone
  <2>3. got' \in [Thread -> Someone]
    BY <1>a, <1>b, <2>2
  <2>4. sent' \in [Thread -> BOOLEAN]
    BY <1>a, <1>b
  <2> QED BY <1>0, <1>b, <2>1, <2>3, <2>4 DEF TypeOK, Someone
<1>2. NoReentry' /\ Participants' /\ Forgotten'
  BY <1>0, <1>a, <1>b DEF NoReentry, Participants, Someone, Forgotten
<1>3. SendsTo' /\ ReceivesFrom'
  BY <1>0, <1>a, <1>b DEF SendsTo, ReceivesFrom
<1>4. CallerFirst' /\ ReceiverLast' /\ Chain'
  BY <1>0, <1>a, <1>b DEF CallerFirst, ReceiverLast, Chain
<1>5. NoneWaits' /\ NoReceiver' /\ NoSender'
  BY <1>0, <1>a, <1>b DEF NoneWaits, Waiting, NoReceiver, NoSender
<1>6. GotKept'
  BY <1>0, <1>a, <1>b DEF GotKept
<1>7. SentKept'
  <2> SUFFICES ASSUME NEW t \in Thread, sent'[t],
                      ~ (t = partner' /\ state'[t] # "SEND_BLOCKED"), state'[t] # "RECV_BLOCKED"
               PROVE  pc' \notin {"send", "block send"} /\ \E i \in 1 .. Depth' : stack'[i] = t
    BY DEF SentKept
  <2>1. t = top \/ sent[t]
    BY <1>b, <1>a
  <2>2. t # partner /\ state[t] # "RECV_BLOCKED"
    BY <1>b, <1>a DEF Participants
  <2>3. t = top
    BY <1>b, <2>1, <2>2 DEF SentKept
  <2>4. Depth \in 1 .. Depth' /\ stack'[Depth] = t
    BY <1>0, <1>a, <1>b, <2>3
  <2> QED BY <1>b, <2>4
<1> QED BY <1>1, <1>2, <1>3, <1>4, <1>5, <1>6, <1>7

(* The partner that is made runnable has no call any more.                   *)
LEMMA IpcRelease == ASSUME IInv, Release PROVE IInv'
<1> USE IpcAssumption DEF IInv, Typing, OnStack
<1>0. stack' = stack /\ top' = top /\ Depth' = Depth
  BY DEF Release, Leaves, Forget, kernel, top, Depth
<1>a. Typing /\ OnStack
  BY TopOfStack DEF TypeOK
<1>b. /\ pc \in {"release", "abort"} /\ pc' = IF pc = "release" THEN "recv" ELSE "done"
      /\ partner' = NIL
      /\ state' = [state EXCEPT ![partner] = "RUNNABLE"]
      /\ to' = [to EXCEPT ![partner] = NIL] /\ from' = [from EXCEPT ![partner] = NIL]
      /\ timed' = [timed EXCEPT ![partner] = FALSE] /\ ipc_from' = [ipc_from EXCEPT ![partner] = NIL]
      /\ sent' = [sent EXCEPT ![partner] = FALSE] /\ got' = [got EXCEPT ![partner] = NIL]
      /\ UNCHANGED <<alive, alarm, fail>>
  BY DEF Release, Leaves, Forget, At, args, kernel, result
<1>1. TypeOK'
  BY <1>0, <1>a, <1>b DEF TypeOK, States, Someone, Specifier, Participants
<1>2. NoReentry' /\ Participants' /\ Forgotten'
  BY <1>0, <1>a, <1>b DEF NoReentry, Participants, Someone, Forgotten
<1>3. SendsTo' /\ ReceivesFrom'
  BY <1>0, <1>a, <1>b DEF SendsTo, Participants, ReceivesFrom
<1>4. CallerFirst'
  <2>1. CASE pc = "abort"
    BY <1>b, <2>1 DEF CallerFirst
  <2>2. CASE pc = "release"
    <3>1. Depth = 1 /\ stack[1] \in Thread /\ state[stack[1]] # "SEND_BLOCKED"
      BY <1>a, <2>2 DEF CallerFirst
    <3>2. state'[stack[1]] # "SEND_BLOCKED"
      BY <1>b, <1>a, <3>1
    <3> QED BY <1>0, <1>b, <2>2, <3>1, <3>2 DEF CallerFirst
  <2> QED BY <1>b, <2>1, <2>2
<1>5. ReceiverLast'
  BY <1>0, <1>a, <1>b DEF ReceiverLast
<1>6. Chain'
  <2>1. CASE pc = "abort"
    BY <1>b, <2>1 DEF Chain
  <2>2. CASE pc = "release"
    BY <1>0, <2>2 DEF Chain, CallerFirst
  <2> QED BY <1>b, <2>1, <2>2
<1>7. NoneWaits' /\ NoReceiver' /\ NoSender'
  BY <1>0, <1>a, <1>b DEF NoneWaits, Waiting, Participants, NoReceiver, NoSender
<1>8. GotKept' /\ SentKept'
  BY <1>0, <1>a, <1>b DEF GotKept, Participants, SentKept
<1> QED BY <1>1, <1>2, <1>3, <1>4, <1>5, <1>6, <1>7, <1>8

(* A start message: the thread it is for becomes runnable, and was not blocked. *)
LEMMA IpcSendStart == ASSUME IInv, SendStart PROVE IInv'
<1> USE IpcAssumption DEF IInv, Typing, OnStack
<1>0. stack' = stack /\ top' = top /\ Depth' = Depth
  BY DEF SendStart, Starts, kernel, top, Depth
<1>a. Typing /\ OnStack
  BY TopOfStack DEF TypeOK
<1>b. /\ pc = "send" /\ pc' \in {"recv", "done"}
      /\ state' = state \/ (to[top] \in alive /\ state[to[top]] = "ACTIVE" /\ state' = [state EXCEPT ![to[top]] = "RUNNABLE"])
      /\ sent' = sent \/ sent' = [sent EXCEPT ![top] = TRUE]
      /\ fail' = fail \/ fail' = [fail EXCEPT ![top] = "send"]
      /\ UNCHANGED <<alive, to, from, timed, ipc_from, alarm, partner, got>>
  <2>1. pc = "send" /\ pc' \in {"recv", "done"}
    BY <1>a, Zenon DEF SendStart, Starts, At, args, kernel, result
  <2>2. state' = state \/ (to[top] \in alive /\ state[to[top]] = "ACTIVE" /\ state' = [state EXCEPT ![to[top]] = "RUNNABLE"])
    BY <1>a, Zenon DEF SendStart, Starts, At, args, kernel, result
  <2>3. sent' = sent \/ sent' = [sent EXCEPT ![top] = TRUE]
    BY <1>a, Zenon DEF SendStart, Starts, At, args, kernel, result
  <2>4. fail' = fail \/ fail' = [fail EXCEPT ![top] = "send"]
    BY <1>a, Zenon DEF SendStart, Starts, At, args, kernel, result
  <2>5. UNCHANGED <<alive, to, from, timed, ipc_from, alarm, partner, got>>
    BY <1>a, Zenon DEF SendStart, Starts, At, args, kernel, result
  <2> QED BY <2>1, <2>2, <2>3, <2>4, <2>5
<1>1. TypeOK'
  <2>1. to[top] \in alive => to[top] \in Thread
    BY <1>a
  <2>2. state' \in [Thread -> States]
    BY <1>b, <1>a, <2>1 DEF States
  <2>3. fail' \in [Thread -> {"none", "send", "recv"}]
    BY <1>b DEF TypeOK
  <2>4. sent' \in [Thread -> BOOLEAN]
    BY <1>b, <1>a
  <2> QED BY <1>0, <1>b, <2>2, <2>3, <2>4 DEF TypeOK
<1>2. NoReentry' /\ Participants' /\ Forgotten'
  BY <1>0, <1>a, <1>b DEF NoReentry, Participants, Someone, Forgotten
<1>3. SendsTo'
  BY <1>0, <1>a, <1>b DEF SendsTo
<1>4. ReceivesFrom'
  BY <1>0, <1>a, <1>b DEF ReceivesFrom
<1>5. CallerFirst'
  BY <1>0, <1>a, <1>b DEF CallerFirst
<1>6. ReceiverLast'
  BY <1>0, <1>a, <1>b DEF ReceiverLast
<1>7. Chain'
  BY <1>0, <1>a, <1>b DEF Chain, CallerFirst
<1>8. NoneWaits' /\ NoReceiver' /\ NoSender'
  BY <1>0, <1>a, <1>b DEF NoneWaits, Waiting, NoReceiver, NoSender
<1>9. GotKept'
  BY <1>0, <1>a, <1>b DEF GotKept
<1>10. SentKept'
  <2> SUFFICES ASSUME NEW t \in Thread, sent'[t],
                      ~ (t = partner' /\ state'[t] # "SEND_BLOCKED"), state'[t] # "RECV_BLOCKED"
               PROVE  pc' \notin {"send", "block send"} /\ \E i \in 1 .. Depth' : stack'[i] = t
    BY DEF SentKept
  <2>1. t = top \/ sent[t]
    BY <1>b, <1>a
  <2>2. t # partner /\ state[t] # "RECV_BLOCKED"
    BY <1>b, <1>a DEF Participants
  <2>3. t = top
    BY <1>b, <2>1, <2>2 DEF SentKept
  <2>4. Depth \in 1 .. Depth' /\ stack'[Depth] = t
    BY <1>0, <1>a, <1>b, <2>3
  <2> QED BY <1>b, <2>4
<1> QED BY <1>1, <1>2, <1>3, <1>4, <1>5, <1>6, <1>7, <1>8, <1>9, <1>10

(* The error of a send phase ends the call.                                  *)
LEMMA IpcSendNonexistent == ASSUME IInv, SendNonexistent PROVE IInv'
<1> USE IpcAssumption DEF IInv, Typing, OnStack
<1>0. stack' = stack /\ top' = top /\ Depth' = Depth
  BY DEF SendNonexistent, Nonexistent, kernel, top, Depth
<1>a. Typing /\ OnStack
  BY TopOfStack DEF TypeOK
<1>b. /\ pc = "send" /\ pc' = "done"
      /\ fail' = [fail EXCEPT ![top] = "send"]
      /\ UNCHANGED <<alive, state, to, from, timed, ipc_from, alarm, partner, sent, got>>
  BY DEF SendNonexistent, Nonexistent, At, args, kernel, result
<1>1. TypeOK'
  BY <1>0, <1>a, <1>b DEF TypeOK, States, Someone, Specifier
<1>2. NoReentry' /\ Participants' /\ Forgotten'
  BY <1>0, <1>a, <1>b DEF NoReentry, Participants, Someone, Forgotten
<1>3. SendsTo' /\ ReceivesFrom'
  BY <1>0, <1>a, <1>b DEF SendsTo, ReceivesFrom
<1>4. CallerFirst' /\ ReceiverLast' /\ Chain'
  BY <1>0, <1>a, <1>b DEF CallerFirst, ReceiverLast, Chain
<1>5. NoneWaits' /\ NoReceiver' /\ NoSender'
  BY <1>0, <1>a, <1>b DEF NoneWaits, Waiting, NoReceiver, NoSender
<1>6. GotKept'
  BY <1>0, <1>a, <1>b DEF GotKept
<1>7. SentKept'
  <2> SUFFICES ASSUME NEW t \in Thread, sent'[t],
                      ~ (t = partner' /\ state'[t] # "SEND_BLOCKED"), state'[t] # "RECV_BLOCKED"
               PROVE  pc' \notin {"send", "block send"} /\ \E i \in 1 .. Depth' : stack'[i] = t
    BY DEF SentKept
  <2>1. sent[t] /\ t # partner
    BY <1>b DEF Participants
  <2>2. FALSE
    BY <1>b, <2>1 DEF SentKept
  <2> QED BY <2>2
<1> QED BY <1>1, <1>2, <1>3, <1>4, <1>5, <1>6, <1>7

(* Nobody waits for the caller, which is about to block as a sender.         *)
LEMMA IpcSendWait == ASSUME IInv, SendWait PROVE IInv'
<1> USE IpcAssumption DEF IInv, Typing, OnStack
<1>0. stack' = stack /\ top' = top /\ Depth' = Depth
  BY DEF SendWait, Wait, kernel, top, Depth
<1>a. Typing /\ OnStack
  BY TopOfStack DEF TypeOK
<1>b. /\ pc = "send" /\ pc' = "block send"
      /\ to[top] # NIL
      /\ ipc_from' = [ipc_from EXCEPT ![top] = to[top]]
      /\ state' = state \/ state' = [state EXCEPT ![top] = "SEND_BLOCKED"]
      /\ alarm' = alarm \/ alarm' = [alarm EXCEPT ![top] = TRUE]
      /\ ~ FindsSomeone(top, to[top], "RECV_BLOCKED")
      /\ UNCHANGED <<alive, to, from, timed, partner, sent, got, fail>>
  <2>1. pc = "send" /\ pc' = "block send"
    BY <1>a, Zenon DEF SendWait, Wait, At, args, kernel, result
  <2>2. to[top] # NIL
    BY <1>a, Zenon DEF SendWait, Wait, At, args, kernel, result
  <2>3. ipc_from' = [ipc_from EXCEPT ![top] = to[top]]
    BY <1>a, Zenon DEF SendWait, Wait, At, args, kernel, result
  <2>4. state' = state \/ state' = [state EXCEPT ![top] = "SEND_BLOCKED"]
    BY <1>a, Zenon DEF SendWait, Wait, At, args, kernel, result
  <2>5. alarm' = alarm \/ alarm' = [alarm EXCEPT ![top] = TRUE]
    BY <1>a, Zenon DEF SendWait, Wait, At, args, kernel, result
  <2>6. ~ FindsSomeone(top, to[top], "RECV_BLOCKED")
    BY <1>a, Zenon DEF SendWait, Wait, At, args, kernel, result
  <2>7. UNCHANGED <<alive, to, from, timed, partner, sent, got, fail>>
    BY <1>a, Zenon DEF SendWait, Wait, At, args, kernel, result
  <2> QED BY <2>1, <2>2, <2>3, <2>4, <2>5, <2>6, <2>7
<1>1. TypeOK'
  BY <1>0, <1>a, <1>b DEF TypeOK, States, Someone, Specifier
<1>2. NoReentry'
  BY <1>0 DEF NoReentry
<1>3. Participants'
  BY <1>0, <1>a, <1>b DEF Participants, Someone
<1>4. Forgotten'
  BY <1>0, <1>a, <1>b DEF Forgotten, Participants
<1>5. SendsTo'
  <2>1. ASSUME NEW t \in alive, state'[t] = "SEND_BLOCKED" PROVE ipc_from'[t] = to[t] /\ to[t] \in Thread
    <3>1. CASE t = top
      BY <1>a, <1>b, <3>1 DEF Someone
    <3>2. CASE t # top
      <4>1. state[t] = "SEND_BLOCKED" /\ ipc_from'[t] = ipc_from[t] /\ t \in Thread
        BY <1>a, <1>b, <2>1, <3>2
      <4> QED BY <1>b, <4>1 DEF SendsTo
    <3> QED BY <3>1, <3>2
  <2>2. ipc_from'[top] = to[top] /\ to[top] \in Thread
    BY <1>a, <1>b DEF Someone
  <2> QED BY <1>0, <1>b, <2>1, <2>2 DEF SendsTo
<1>6. ReceivesFrom'
  BY <1>0, <1>a, <1>b DEF ReceivesFrom, ReceiverLast
<1>7. CallerFirst' /\ ReceiverLast' /\ Chain'
  BY <1>0, <1>a, <1>b DEF CallerFirst, ReceiverLast, Chain
<1>8. NoneWaits'
  <2>1. ASSUME NEW r \in alive, to[top] = r, state[r] = "RECV_BLOCKED", Accepts(from[r], top, r) PROVE FALSE
    <3>1. Accepts(ipc_from[r], top, r)
      BY <2>1 DEF ReceivesFrom
    <3>2. Finds(top, to[top], "RECV_BLOCKED", r)
      BY <2>1, <3>1 DEF Finds, Viable, Accepts
    <3> QED BY <1>b, <1>a, <3>2 DEF FindsSomeone
  <2> SUFFICES ASSUME NEW s \in alive, NEW r \in alive, state'[s] = "SEND_BLOCKED", to[s] = r,
                      state'[r] = "RECV_BLOCKED", Accepts(from[r], s, r)
               PROVE  FALSE
    BY <1>b DEF NoneWaits, Waiting
  <2>2. ~ Waiting(s, r)
    BY DEF NoneWaits
  <2>3. s = top /\ state[r] = "RECV_BLOCKED" /\ r # top
    BY <1>b, <1>a, <2>2 DEF Waiting
  <2> QED BY <2>1, <2>3
<1>9. NoReceiver'
  <2> SUFFICES ASSUME NEW r \in alive, to[top] = r, state[r] = "RECV_BLOCKED", Accepts(from[r], top, r),
                      state' = state \/ r # top
               PROVE  FALSE
    BY <1>0, <1>b, <1>a DEF NoReceiver
  <2>1. Accepts(ipc_from[r], top, r)
    BY DEF ReceivesFrom
  <2>2. Finds(top, to[top], "RECV_BLOCKED", r)
    BY <2>1 DEF Finds, Viable, Accepts
  <2> QED BY <1>b, <1>a, <2>2 DEF FindsSomeone
<1>10. NoSender'
  BY <1>0, <1>a, <1>b DEF NoSender
<1>11. GotKept'
  BY <1>0, <1>a, <1>b DEF GotKept
<1>12. SentKept'
  <2>1. ~ sent[top]
    <3>1. state[top] # "RECV_BLOCKED"
      BY <1>a, <1>b DEF ReceiverLast
    <3>2. partner = NIL /\ top # NIL
      BY <1>a, <1>b DEF Participants
    <3> QED BY <1>a, <1>b, <3>1, <3>2 DEF SentKept
  <2>2. ASSUME NEW t \in Thread, sent[t] PROVE state[t] = "RECV_BLOCKED" /\ t # top
    BY <1>b, <2>1, <2>2 DEF SentKept, Participants
  <2> QED BY <1>b, <1>a, <2>2 DEF SentKept
<1> QED BY <1>1, <1>2, <1>3, <1>4, <1>5, <1>6, <1>7, <1>8, <1>9, <1>10, <1>11, <1>12

(* A call without a receive phase is over.                                   *)
LEMMA IpcRecvSkipped == ASSUME IInv, RecvSkipped PROVE IInv'
<1> USE IpcAssumption DEF IInv, Typing, OnStack
<1>0. stack' = stack /\ top' = top /\ Depth' = Depth
  BY DEF RecvSkipped, kernel, top, Depth
<1>a. Typing /\ OnStack
  BY TopOfStack DEF TypeOK
<1>b. /\ pc = "recv" /\ pc' = "done"
      /\ UNCHANGED <<alive, state, to, from, timed, ipc_from, alarm, partner, sent, got, fail>>
  BY DEF RecvSkipped, At, args, kernel, result
<1>1. TypeOK'
  BY <1>0, <1>a, <1>b DEF TypeOK, States, Someone, Specifier
<1>2. NoReentry' /\ Participants' /\ Forgotten'
  BY <1>0, <1>a, <1>b DEF NoReentry, Participants, Someone, Forgotten
<1>3. SendsTo' /\ ReceivesFrom'
  BY <1>0, <1>a, <1>b DEF SendsTo, ReceivesFrom
<1>4. CallerFirst' /\ ReceiverLast' /\ Chain'
  BY <1>0, <1>a, <1>b DEF CallerFirst, ReceiverLast, Chain
<1>5. NoneWaits' /\ NoReceiver' /\ NoSender'
  BY <1>0, <1>a, <1>b DEF NoneWaits, Waiting, NoReceiver, NoSender
<1>6. GotKept' /\ SentKept'
  BY <1>0, <1>a, <1>b DEF GotKept, SentKept
<1> QED BY <1>1, <1>2, <1>3, <1>4, <1>5, <1>6

(* The payload of the sender that is found is refused.                       *)
LEMMA IpcRecvRefused ==
  ASSUME IInv, NEW p \in Thread, RecvFound(p), pc' = "abort"
  PROVE  IInv'
<1> USE IpcAssumption DEF IInv, Typing, OnStack
<1>0. stack' = stack /\ top' = top /\ Depth' = Depth
  BY DEF RecvFound, At, kernel, top, Depth
<1>a. Typing /\ OnStack
  BY TopOfStack DEF TypeOK
<1>f. /\ state[p] = "SEND_BLOCKED" /\ ipc_from[p] = top /\ to[p] = top /\ p # top
      /\ \A i \in 1 .. Depth : stack[i] # p
      /\ ~ sent[p] /\ p \in alive /\ pc = "recv"
  BY FoundIsNew DEF RecvFound, Finds, At
<1>b. /\ pc = "recv" /\ pc' = "abort" /\ partner' = p
      /\ fail' = [fail EXCEPT ![top] = "recv", ![p] = "send"]
      /\ UNCHANGED <<alive, state, to, from, timed, ipc_from, alarm, sent, got>>
  <2>1. pc = "recv" /\ pc' = "abort" /\ partner' = p
    BY <1>a, Zenon DEF RecvFound, Finds, At, args, kernel, result
  <2>2. fail' = [fail EXCEPT ![top] = "recv", ![p] = "send"]
    BY <1>a, Zenon DEF RecvFound, Finds, At, args, kernel, result
  <2>3. UNCHANGED <<alive, state, to, from, timed, ipc_from, alarm, sent, got>>
    BY <1>a, Zenon DEF RecvFound, Finds, At, args, kernel, result
  <2> QED BY <2>1, <2>2, <2>3
<1>1. TypeOK'
  BY <1>0, <1>a, <1>f, <1>b DEF TypeOK, States, Someone, Specifier
<1>2. NoReentry' /\ Participants' /\ Forgotten'
  BY <1>0, <1>a, <1>f, <1>b DEF NoReentry, Participants, Someone, Forgotten
<1>3. SendsTo' /\ ReceivesFrom'
  BY <1>0, <1>a, <1>f, <1>b DEF SendsTo, ReceivesFrom
<1>4. CallerFirst' /\ ReceiverLast' /\ Chain'
  BY <1>0, <1>a, <1>f, <1>b DEF CallerFirst, ReceiverLast, Chain
<1>5. NoneWaits' /\ NoReceiver' /\ NoSender'
  BY <1>0, <1>a, <1>f, <1>b DEF NoneWaits, Waiting, NoReceiver, NoSender
<1>6. GotKept'
  BY <1>0, <1>a, <1>f, <1>b DEF GotKept
<1>7. SentKept'
  <2> SUFFICES ASSUME NEW t \in Thread, sent'[t],
                      ~ (t = partner' /\ state'[t] # "SEND_BLOCKED"), state'[t] # "RECV_BLOCKED"
               PROVE  pc' \notin {"send", "block send"} /\ \E i \in 1 .. Depth' : stack'[i] = t
    BY DEF SentKept
  <2>1. sent[t] /\ state[t] # "RECV_BLOCKED" /\ t # partner
    BY <1>b, <1>f DEF Participants
  <2>2. \E i \in 1 .. Depth : stack[i] = t
    BY <1>b, <2>1 DEF SentKept
  <2> QED BY <1>0, <1>b, <2>2
<1> QED BY <1>1, <1>2, <1>3, <1>4, <1>5, <1>6, <1>7

(* The sender that is found is put on the stack, where it was not before.    *)
LEMMA IpcRecvCopied ==
  ASSUME IInv, NEW p \in Thread, RecvFound(p), pc' # "abort"
  PROVE  IInv'
<1> USE IpcAssumption DEF IInv, Typing, OnStack
<1>0. /\ stack' \in Seq(Thread) /\ Depth' = Depth + 1 /\ stack' # << >>
      /\ \A i \in 1 .. Depth : stack'[i] = stack[i]
      /\ stack'[Depth'] = p /\ top' = p
  BY PushStack DEF RecvFound, At
<1>a. Typing /\ OnStack
  BY TopOfStack DEF TypeOK
<1>f. /\ state[p] = "SEND_BLOCKED" /\ ipc_from[p] = top /\ to[p] = top /\ p # top
      /\ \A i \in 1 .. Depth : stack[i] # p
      /\ ~ sent[p] /\ p \in alive /\ pc = "recv"
  BY FoundIsNew DEF RecvFound, Finds, At
<1>b. /\ pc = "recv" /\ pc' = "recv"
      /\ sent' = [sent EXCEPT ![p] = TRUE]
      /\ got' = [got EXCEPT ![top] = p]
      /\ UNCHANGED <<alive, state, to, from, timed, ipc_from, alarm, partner, fail>>
  <2>1. pc = "recv" /\ pc' = "recv"
    BY <1>a, Zenon DEF RecvFound, Finds, At, args, kernel, result
  <2>2. sent' = [sent EXCEPT ![p] = TRUE]
    BY <1>a, Zenon DEF RecvFound, Finds, At, args, kernel, result
  <2>3. got' = [got EXCEPT ![top] = p]
    BY <1>a, Zenon DEF RecvFound, Finds, At, args, kernel, result
  <2>4. UNCHANGED <<alive, state, to, from, timed, ipc_from, alarm, partner, fail>>
    BY <1>a, Zenon DEF RecvFound, Finds, At, args, kernel, result
  <2> QED BY <2>1, <2>2, <2>3, <2>4
<1>1. TypeOK'
  BY <1>0, <1>a, <1>f, <1>b DEF TypeOK, States, Someone, Specifier
<1>2. NoReentry'
  <2>1. \A i, j \in 1 .. Depth : stack'[i] = stack'[j] => i = j
    BY <1>0 DEF NoReentry, Depth
  <2>2. \A i \in 1 .. Depth : stack'[i] # stack'[Depth']
    BY <1>0, <1>f
  <2>3. \A i \in 1 .. Depth' : i \in 1 .. Depth \/ i = Depth'
    BY <1>0, <1>a
  <2>4. \A i, j \in 1 .. Depth' : stack'[i] = stack'[j] => i = j
    BY <2>1, <2>2, <2>3
  <2> QED BY <2>4 DEF NoReentry, Depth
<1>3. Participants'
  BY <1>0, <1>a, <1>f, <1>b DEF Participants, Someone
<1>4. Forgotten'
  <2>1. top \in alive /\ p \in alive
    BY <1>a, <1>f DEF Participants
  <2> QED BY <1>b, <1>a, <2>1 DEF Forgotten
<1>5. SendsTo' /\ ReceivesFrom'
  BY <1>0, <1>a, <1>f, <1>b DEF SendsTo, ReceivesFrom
<1>6. CallerFirst' /\ ReceiverLast'
  BY <1>0, <1>a, <1>f, <1>b DEF CallerFirst, ReceiverLast
<1>7. Chain'
  <2> SUFFICES ASSUME NEW i \in 2 .. Depth' PROVE ipc_from[stack'[i]] = stack'[i - 1]
    BY <1>b DEF Chain
  <2>1. CASE i \in 2 .. Depth
    <3>1. i - 1 \in 1 .. Depth /\ i \in 1 .. Depth
      BY <1>a, <2>1
    <3> QED BY <1>0, <1>b, <2>1, <3>1 DEF Chain
  <2>2. CASE i = Depth'
    <3>1. i - 1 = Depth
      BY <1>0, <1>a, <2>2
    <3> QED BY <1>0, <1>a, <1>b, <1>f, <2>2, <3>1
  <2>3. i \in 2 .. Depth \/ i = Depth'
    BY <1>0, <1>a
  <2> QED BY <2>1, <2>2, <2>3
<1>8. NoneWaits' /\ NoReceiver' /\ NoSender'
  BY <1>0, <1>a, <1>f, <1>b DEF NoneWaits, Waiting, NoReceiver, NoSender
<1>9. GotKept'
  <2>1. \A i \in 1 .. Depth : i \in 1 .. Depth' /\ i < Depth' /\ stack'[i] = stack[i]
    BY <1>0, <1>a
  <2>2. got'[top] # NIL /\ \E i \in 1 .. Depth' : stack'[i] = top /\ i < Depth'
    BY <1>a, <1>b, <1>f, <2>1
  <2> SUFFICES ASSUME NEW t \in Thread, t # top, got[t] # NIL
               PROVE  \E i \in 1 .. Depth' : stack'[i] = t /\ i < Depth'
    BY <1>b, <1>a, <2>2 DEF GotKept
  <2>3. PICK i \in 1 .. Depth : stack[i] = t
    BY <1>b DEF GotKept
  <2> QED BY <2>1, <2>3
<1>10. SentKept'
  BY <1>0, <1>a, <1>f, <1>b DEF SentKept
<1> QED BY <1>1, <1>2, <1>3, <1>4, <1>5, <1>6, <1>7, <1>8, <1>9, <1>10

(* The error of a receive phase ends the call.                               *)
LEMMA IpcRecvNonexistent == ASSUME IInv, RecvNonexistent PROVE IInv'
<1> USE IpcAssumption DEF IInv, Typing, OnStack
<1>0. stack' = stack /\ top' = top /\ Depth' = Depth
  BY DEF RecvNonexistent, Nonexistent, kernel, top, Depth
<1>a. Typing /\ OnStack
  BY TopOfStack DEF TypeOK
<1>b. /\ pc = "recv" /\ pc' = "done"
      /\ fail' = [fail EXCEPT ![top] = "recv"]
      /\ UNCHANGED <<alive, state, to, from, timed, ipc_from, alarm, partner, sent, got>>
  BY DEF RecvNonexistent, Nonexistent, At, args, kernel, result
<1>1. TypeOK'
  BY <1>0, <1>a, <1>b DEF TypeOK, States, Someone, Specifier
<1>2. NoReentry' /\ Participants' /\ Forgotten'
  BY <1>0, <1>a, <1>b DEF NoReentry, Participants, Someone, Forgotten
<1>3. SendsTo' /\ ReceivesFrom'
  BY <1>0, <1>a, <1>b DEF SendsTo, ReceivesFrom
<1>4. CallerFirst' /\ ReceiverLast' /\ Chain'
  BY <1>0, <1>a, <1>b DEF CallerFirst, ReceiverLast, Chain
<1>5. NoneWaits' /\ NoReceiver' /\ NoSender'
  BY <1>0, <1>a, <1>b DEF NoneWaits, Waiting, NoReceiver, NoSender
<1>6. GotKept' /\ SentKept'
  BY <1>0, <1>a, <1>b DEF GotKept, SentKept
<1> QED BY <1>1, <1>2, <1>3, <1>4, <1>5, <1>6

(* Nobody whom the thread at the top accepts is blocked as a sender to it.   *)
LEMMA IpcRecvWait == ASSUME IInv, RecvWait PROVE IInv'
<1> USE IpcAssumption DEF IInv, Typing, OnStack
<1>0. stack' = stack /\ top' = top /\ Depth' = Depth
  BY DEF RecvWait, Wait, kernel, top, Depth
<1>a. Typing /\ OnStack
  BY TopOfStack DEF TypeOK
<1>b. /\ pc = "recv" /\ pc' = "block recv"
      /\ from[top] # NIL
      /\ ipc_from' = [ipc_from EXCEPT ![top] = from[top]]
      /\ state' = state \/ state' = [state EXCEPT ![top] = "RECV_BLOCKED"]
      /\ alarm' = alarm \/ alarm' = [alarm EXCEPT ![top] = TRUE]
      /\ ~ FindsSomeone(top, from[top], "SEND_BLOCKED")
      /\ UNCHANGED <<alive, to, from, timed, partner, sent, got, fail>>
  <2>1. pc = "recv" /\ pc' = "block recv"
    BY <1>a, Zenon DEF RecvWait, Wait, At, args, kernel, result
  <2>2. from[top] # NIL
    BY <1>a, Zenon DEF RecvWait, Wait, At, args, kernel, result
  <2>3. ipc_from' = [ipc_from EXCEPT ![top] = from[top]]
    BY <1>a, Zenon DEF RecvWait, Wait, At, args, kernel, result
  <2>4. state' = state \/ state' = [state EXCEPT ![top] = "RECV_BLOCKED"]
    BY <1>a, Zenon DEF RecvWait, Wait, At, args, kernel, result
  <2>5. alarm' = alarm \/ alarm' = [alarm EXCEPT ![top] = TRUE]
    BY <1>a, Zenon DEF RecvWait, Wait, At, args, kernel, result
  <2>6. ~ FindsSomeone(top, from[top], "SEND_BLOCKED")
    BY <1>a, Zenon DEF RecvWait, Wait, At, args, kernel, result
  <2>7. UNCHANGED <<alive, to, from, timed, partner, sent, got, fail>>
    BY <1>a, Zenon DEF RecvWait, Wait, At, args, kernel, result
  <2> QED BY <2>1, <2>2, <2>3, <2>4, <2>5, <2>6, <2>7
<1>1. TypeOK'
  <2>1. ipc_from' \in [Thread -> Specifier] /\ alarm' \in [Thread -> BOOLEAN]
    BY <1>b, <1>a
  <2>2. state' \in [Thread -> States]
    BY <1>b, <1>a DEF States
  <2> QED BY <1>0, <1>b, <2>1, <2>2 DEF TypeOK
<1>2. NoReentry'
  BY <1>0 DEF NoReentry
<1>3. Participants'
  BY <1>0, <1>a, <1>b DEF Participants, Someone
<1>4. Forgotten'
  BY <1>0, <1>a, <1>b DEF Forgotten, Participants
<1>5. SendsTo' /\ ReceivesFrom'
  BY <1>0, <1>a, <1>b DEF SendsTo, ReceivesFrom
<1>6. CallerFirst' /\ ReceiverLast' /\ Chain'
  BY <1>0, <1>a, <1>b DEF CallerFirst, ReceiverLast, NoReentry, Depth, Chain
<1>7. NoneWaits'
  <2>1. ASSUME NEW s \in alive, s # top, state[s] = "SEND_BLOCKED", to[s] = top, Accepts(from[top], s, top)
        PROVE  FALSE
    <3>1. Accepts(ipc_from[s], top, s)
      BY <1>b, <2>1 DEF SendsTo, Accepts
    <3>2. Finds(top, from[top], "SEND_BLOCKED", s)
      BY <2>1, <3>1 DEF Finds, Viable
    <3> QED BY <1>b, <1>a, <3>2 DEF FindsSomeone
  <2> SUFFICES ASSUME NEW s \in alive, NEW r \in alive, state'[s] = "SEND_BLOCKED", to[s] = r,
                      state'[r] = "RECV_BLOCKED", Accepts(from[r], s, r)
               PROVE  FALSE
    BY <1>b DEF NoneWaits, Waiting
  <2>2. ~ Waiting(s, r)
    BY DEF NoneWaits
  <2>3. r = top /\ state[s] = "SEND_BLOCKED" /\ s # top
    BY <1>b, <1>a, <2>2 DEF Waiting
  <2> QED BY <2>1, <2>3
<1>8. NoReceiver'
  BY <1>0, <1>a, <1>b DEF NoReceiver
<1>9. NoSender'
  <2> SUFFICES ASSUME NEW s \in alive, s # top, state[s] = "SEND_BLOCKED", to[s] = top, Accepts(from[top], s, top)
               PROVE  FALSE
    BY <1>0, <1>b, <1>a DEF NoSender
  <2>1. Accepts(ipc_from[s], top, s)
    BY <1>b DEF SendsTo, Accepts
  <2>2. Finds(top, from[top], "SEND_BLOCKED", s)
    BY <2>1 DEF Finds, Viable
  <2> QED BY <1>b, <1>a, <2>2 DEF FindsSomeone
<1>10. GotKept' /\ SentKept'
  BY <1>0, <1>a, <1>b DEF GotKept, SentKept
<1> QED BY <1>1, <1>2, <1>3, <1>4, <1>5, <1>6, <1>7, <1>8, <1>9, <1>10

(* The state of the thread at the top says at last that it waits.            *)
LEMMA IpcBlock == ASSUME IInv, Block PROVE IInv'
<1> USE IpcAssumption DEF IInv, Typing, OnStack
<1>0. /\ stack' \in Seq(Thread) /\ Depth' = Depth - 1
      /\ \A i \in 1 .. Depth' : stack'[i] = stack[i]
      /\ pc' = "idle" <=> Depth = 1
      /\ pc' = "idle" <=> stack' = << >>
      /\ pc' \in {"idle", "done"}
  BY PopStack DEF Block, At
<1>a. Typing /\ OnStack
  BY TopOfStack DEF TypeOK
<1>b. /\ pc \in {"block send", "block recv"}
      /\ state' = [state EXCEPT ![top] = IF pc = "block send" THEN "SEND_BLOCKED" ELSE "RECV_BLOCKED"]
      /\ UNCHANGED <<alive, to, from, timed, ipc_from, alarm, partner, sent, got, fail>>
  BY DEF Block, At, args, kernel, result
<1>1. TypeOK'
  BY <1>0, <1>a, <1>b DEF TypeOK, States, Someone, Specifier
<1>2. NoReentry'
  <2> SUFFICES ASSUME NEW i \in 1 .. Depth', NEW j \in 1 .. Depth', stack'[i] = stack'[j]
               PROVE  i = j
    BY DEF NoReentry, Depth
  <2>1. i \in 1 .. Depth /\ j \in 1 .. Depth /\ stack[i] = stack[j]
    BY <1>0, <1>a
  <2> QED BY <2>1 DEF NoReentry, Depth
<1>3. Participants'
  <2>1. partner = NIL /\ partner' = NIL
    BY <1>b DEF Participants
  <2>2. ASSUME NEW i \in 1 .. Depth' PROVE stack'[i] \in alive'
    <3>1. i \in 1 .. Depth /\ stack'[i] = stack[i]
      BY <1>0, <1>a
    <3> QED BY <1>b, <3>1 DEF Participants
  <2> QED BY <1>0, <1>b, <2>1, <2>2 DEF Participants
<1>4. Forgotten'
  BY <1>0, <1>a, <1>b DEF Forgotten
<1>5. SendsTo' /\ ReceivesFrom'
  BY <1>0, <1>a, <1>b DEF SendsTo, ReceivesFrom
<1>6. CallerFirst' /\ Chain'
  BY <1>0, <1>a, <1>b DEF CallerFirst, Chain
<1>7. ReceiverLast'
  <2> SUFFICES ASSUME NEW i \in 1 .. Depth', state'[stack'[i]] = "RECV_BLOCKED"
               PROVE  FALSE
    BY DEF ReceiverLast
  <2>1. i \in 1 .. Depth /\ i # Depth /\ stack'[i] = stack[i]
    BY <1>0, <1>a
  <2>2. stack[i] # top
    BY <1>a, <1>b, <2>1 DEF NoReentry, Depth
  <2> QED BY <1>b, <1>a, <2>1, <2>2 DEF ReceiverLast
<1>8. NoReceiver' /\ NoSender'
  BY <1>0, <1>a, <1>b DEF NoReceiver, NoSender
<1>9. NoneWaits'
  <2> SUFFICES ASSUME NEW s \in alive, NEW r \in alive, Waiting(s, r)' PROVE FALSE
    BY <1>b DEF NoneWaits
  <2>1. ~ Waiting(s, r)
    BY DEF NoneWaits
  <2>2. s # r
    BY <1>b DEF Waiting
  <2>3. CASE pc = "block send"
    BY <1>a, <1>b, <2>1, <2>2, <2>3 DEF Waiting, NoReceiver
  <2>4. CASE pc = "block recv"
    BY <1>a, <1>b, <2>1, <2>2, <2>4 DEF Waiting, NoSender
  <2> QED BY <1>b, <2>3, <2>4
<1>10. GotKept'
  <2> SUFFICES ASSUME NEW t \in Thread, got[t] # NIL
               PROVE  \E i \in 1 .. Depth' : stack'[i] = t /\ pc' = "done"
    BY <1>b DEF GotKept
  <2>1. PICK i \in 1 .. Depth : stack[i] = t /\ i < Depth
    BY <1>b DEF GotKept
  <2> QED BY <1>0, <1>a, <2>1
<1>11. SentKept'
  <2>0. ASSUME NEW i \in 1 .. Depth, i < Depth
        PROVE  i \in 1 .. Depth' /\ stack'[i] = stack[i] /\ pc' = "done"
    BY <1>0, <1>a, <2>0
  <2> SUFFICES ASSUME NEW t \in Thread, sent[t], state'[t] # "RECV_BLOCKED"
               PROVE  \E i \in 1 .. Depth' : stack'[i] = t /\ pc' = "done"
    BY <1>0, <1>b DEF SentKept
  <2>1. t # partner
    BY <1>b DEF Participants
  <2>2. state[t] # "RECV_BLOCKED"
    BY <1>b, <1>a DEF ReceiverLast
  <2>3. PICK i \in 1 .. Depth : stack[i] = t /\ pc = "block recv"
    BY <1>b, <2>1, <2>2 DEF SentKept
  <2>4. i # Depth
    BY <1>b, <1>a, <2>3
  <2>5. i < Depth
    BY <1>a, <2>4
  <2> QED BY <2>0, <2>3, <2>5
<1> QED BY <1>1, <1>2, <1>3, <1>4, <1>5, <1>6, <1>7, <1>8, <1>9, <1>10, <1>11

(* The thread at the top returns to user mode.                               *)
LEMMA IpcDone == ASSUME IInv, Done PROVE IInv'
<1> USE IpcAssumption DEF IInv, Typing, OnStack
<1>0. /\ stack' \in Seq(Thread) /\ Depth' = Depth - 1
      /\ \A i \in 1 .. Depth' : stack'[i] = stack[i]
      /\ pc' = "idle" <=> Depth = 1
      /\ pc' = "idle" <=> stack' = << >>
      /\ pc' \in {"idle", "done"}
  BY PopStack DEF Done, At
<1>a. Typing /\ OnStack
  BY TopOfStack DEF TypeOK
<1>b. /\ pc = "done"
      /\ state' = [state EXCEPT ![top] = "RUNNABLE"]
      /\ to' = [to EXCEPT ![top] = NIL] /\ from' = [from EXCEPT ![top] = NIL]
      /\ timed' = [timed EXCEPT ![top] = FALSE] /\ ipc_from' = [ipc_from EXCEPT ![top] = NIL]
      /\ sent' = [sent EXCEPT ![top] = FALSE] /\ got' = [got EXCEPT ![top] = NIL]
      /\ UNCHANGED <<alive, alarm, partner, fail>>
  BY DEF Done, Leaves, Forget, At, args, kernel, result
<1>1. TypeOK'
  BY <1>0, <1>a, <1>b DEF TypeOK, States, Someone, Specifier, Participants
<1>2. Participants' /\ Forgotten'
  BY <1>0, <1>a, <1>b DEF Participants, Someone, Forgotten
<1>3. NoReentry'
  <2> SUFFICES ASSUME NEW i \in 1 .. Depth', NEW j \in 1 .. Depth', stack'[i] = stack'[j]
               PROVE  i = j
    BY DEF NoReentry, Depth
  <2>1. i \in 1 .. Depth /\ j \in 1 .. Depth /\ stack[i] = stack[j]
    BY <1>0, <1>a
  <2> QED BY <2>1 DEF NoReentry, Depth
<1>4. SendsTo' /\ ReceivesFrom'
  BY <1>0, <1>a, <1>b DEF SendsTo, ReceivesFrom
<1>5. CallerFirst' /\ Chain'
  BY <1>0, <1>a, <1>b DEF CallerFirst, Chain
<1>6. ReceiverLast'
  <2> SUFFICES ASSUME NEW i \in 1 .. Depth', state'[stack'[i]] = "RECV_BLOCKED"
               PROVE  FALSE
    BY DEF ReceiverLast
  <2>1. i \in 1 .. Depth /\ i # Depth /\ stack'[i] = stack[i]
    BY <1>0, <1>a
  <2>2. stack[i] # top
    BY <1>a, <1>b, <2>1 DEF NoReentry, Depth
  <2> QED BY <1>b, <1>a, <2>1, <2>2 DEF ReceiverLast
<1>7. NoneWaits' /\ NoReceiver' /\ NoSender'
  BY <1>0, <1>a, <1>b DEF NoneWaits, Waiting, NoReceiver, NoSender
<1>8. GotKept'
  BY <1>0, <1>a, <1>b DEF GotKept, Participants
<1>9. SentKept'
  <2> SUFFICES ASSUME NEW t \in Thread, sent'[t], state'[t] # "RECV_BLOCKED"
               PROVE  \E i \in 1 .. Depth' : stack'[i] = t /\ pc' = "done"
    BY <1>0, <1>b DEF SentKept
  <2>1. t # partner /\ t # top /\ sent[t] /\ state[t] # "RECV_BLOCKED"
    BY <1>b, <1>a DEF Participants
  <2>2. PICK i \in 1 .. Depth : stack[i] = t
    BY <2>1 DEF SentKept
  <2>3. i # Depth
    BY <1>a, <1>b, <2>1, <2>2
  <2> QED BY <1>0, <1>a, <2>2, <2>3
<1> QED BY <1>1, <1>2, <1>3, <1>4, <1>5, <1>6, <1>7, <1>8, <1>9

(* An alarm of a thread that is not blocked changes nothing else.            *)
LEMMA IpcTimeoutIgnored ==
  ASSUME IInv, NEW t \in Thread, Timeout(t),
         ~ (t \in alive /\ state[t] \in {"RECV_BLOCKED", "SEND_BLOCKED"})
  PROVE  IInv'
<1> USE IpcAssumption DEF IInv, Typing, OnStack
<1>0. stack' = stack /\ top' = top /\ Depth' = Depth
  BY DEF Timeout, kernel, top, Depth
<1>a. Typing /\ OnStack
  BY TopOfStack DEF TypeOK
<1>b. /\ pc' = pc
      /\ alarm' = [alarm EXCEPT ![t] = FALSE]
      /\ UNCHANGED <<alive, state, to, from, timed, ipc_from, partner, sent, got, fail>>
  BY DEF Timeout, At, args, kernel, result
<1>1. TypeOK'
  BY <1>0, <1>a, <1>b DEF TypeOK, States, Someone, Specifier
<1>2. NoReentry' /\ Participants' /\ Forgotten'
  BY <1>0, <1>a, <1>b DEF NoReentry, Participants, Someone, Forgotten
<1>3. SendsTo' /\ ReceivesFrom'
  BY <1>0, <1>a, <1>b DEF SendsTo, ReceivesFrom
<1>4. CallerFirst' /\ ReceiverLast' /\ Chain'
  BY <1>0, <1>a, <1>b DEF CallerFirst, ReceiverLast, Chain
<1>5. NoneWaits' /\ NoReceiver' /\ NoSender'
  BY <1>0, <1>a, <1>b DEF NoneWaits, Waiting, NoReceiver, NoSender
<1>6. GotKept' /\ SentKept'
  BY <1>0, <1>a, <1>b DEF GotKept, SentKept
<1> QED BY <1>1, <1>2, <1>3, <1>4, <1>5, <1>6

(* An alarm of a thread whose call goes on only makes it runnable.           *)
LEMMA IpcTimeoutInCall ==
  ASSUME IInv, NEW t \in alive, Timeout(t),
         state[t] \in {"RECV_BLOCKED", "SEND_BLOCKED"},
         t \in Range(stack) \cup {partner}
  PROVE  IInv'
<1> USE IpcAssumption DEF IInv, Typing, OnStack
<1>0. stack' = stack /\ top' = top /\ Depth' = Depth
  BY DEF Timeout, kernel, top, Depth
<1>a. Typing /\ OnStack
  BY TopOfStack DEF TypeOK
<1>s. t = partner \/ \E i \in 1 .. Depth : stack[i] = t
  <2>1. DOMAIN stack = 1 .. Depth
    BY LenProperties DEF TypeOK, Depth
  <2> QED BY <2>1 DEF Range
<1>b. /\ pc' = pc
      /\ alarm' = [alarm EXCEPT ![t] = FALSE]
      /\ state' = [state EXCEPT ![t] = "RUNNABLE"]
      /\ fail' = [fail EXCEPT ![t] = "recv"] \/ fail' = [fail EXCEPT ![t] = "send"]
      /\ UNCHANGED <<alive, to, from, timed, ipc_from, partner, sent, got>>
  BY DEF Timeout, At, args, kernel, result
<1>1. TypeOK'
  <2>1. fail' \in [Thread -> {"none", "send", "recv"}]
    BY <1>b DEF TypeOK
  <2>2. state' \in [Thread -> States]
    BY <1>b, <1>a DEF States
  <2> QED BY <1>0, <1>b, <2>1, <2>2 DEF TypeOK, Someone, Specifier
<1>2. NoReentry' /\ Participants' /\ Forgotten'
  BY <1>0, <1>a, <1>s, <1>b DEF NoReentry, Participants, Someone, Forgotten
<1>3. SendsTo' /\ ReceivesFrom'
  BY <1>0, <1>a, <1>s, <1>b DEF SendsTo, ReceivesFrom
<1>4. ReceiverLast' /\ Chain'
  BY <1>0, <1>a, <1>s, <1>b DEF ReceiverLast, Chain
<1>5. CallerFirst'
  <2>1. pc \in {"send", "release", "recv"} => 1 \in 1 .. Depth /\ stack[1] \in Thread
    BY <1>a
  <2>2. pc \in {"send", "release", "recv"} => state'[stack[1]] # "SEND_BLOCKED"
    BY <1>b, <1>a, <2>1 DEF CallerFirst
  <2> QED BY <1>0, <1>b, <2>1, <2>2 DEF CallerFirst
<1>6. NoneWaits' /\ NoReceiver' /\ NoSender'
  BY <1>0, <1>a, <1>s, <1>b DEF NoneWaits, Waiting, NoReceiver, NoSender
<1>7. GotKept'
  BY <1>0, <1>a, <1>s, <1>b DEF GotKept
<1>8. SentKept'

  <2> SUFFICES ASSUME NEW u \in Thread, sent[u], u # partner, state'[u] # "RECV_BLOCKED"
               PROVE  pc \notin {"send", "block send"} /\ \E i \in 1 .. Depth : stack[i] = u
    BY <1>0, <1>b, <1>a DEF SentKept
  <2>1. CASE u # t
    BY <1>b, <1>a, <2>1 DEF SentKept
  <2>2. CASE u = t /\ state[u] = "RECV_BLOCKED"
    BY <1>a, <1>s, <2>2 DEF ReceiverLast
  <2>3. CASE u = t /\ state[u] # "RECV_BLOCKED"
    BY <1>s, <2>3 DEF SentKept
  <2> QED BY <2>1, <2>2, <2>3
<1> QED BY <1>1, <1>2, <1>3, <1>4, <1>5, <1>6, <1>7, <1>8

(* An alarm ends the call of a thread that only waits.                       *)
LEMMA IpcTimeoutTold ==
  ASSUME IInv, NEW t \in alive, Timeout(t),
         state[t] \in {"RECV_BLOCKED", "SEND_BLOCKED"},
         t \notin Range(stack) \cup {partner}
  PROVE  IInv'
<1> USE IpcAssumption DEF IInv, Typing, OnStack
<1>0. stack' = stack /\ top' = top /\ Depth' = Depth
  BY DEF Timeout, kernel, top, Depth
<1>a. Typing /\ OnStack
  BY TopOfStack DEF TypeOK
<1>s. t # partner /\ \A i \in 1 .. Depth : stack[i] # t
  <2>1. DOMAIN stack = 1 .. Depth
    BY LenProperties DEF TypeOK, Depth
  <2> QED BY <2>1 DEF Range
<1>b. /\ pc' = pc
      /\ alarm' = [alarm EXCEPT ![t] = FALSE]
      /\ state' = [state EXCEPT ![t] = "RUNNABLE"]
      /\ fail' = [fail EXCEPT ![t] = "recv"] \/ fail' = [fail EXCEPT ![t] = "send"]
      /\ to' = [to EXCEPT ![t] = NIL] /\ from' = [from EXCEPT ![t] = NIL]
      /\ timed' = [timed EXCEPT ![t] = FALSE] /\ ipc_from' = [ipc_from EXCEPT ![t] = NIL]
      /\ sent' = [sent EXCEPT ![t] = FALSE] /\ got' = [got EXCEPT ![t] = NIL]
      /\ UNCHANGED <<alive, partner>>
  BY DEF Timeout, Leaves, Forget, At, args, kernel, result
<1>1. TypeOK'
  <2>1. fail' \in [Thread -> {"none", "send", "recv"}]
    BY <1>b DEF TypeOK
  <2>2. state' \in [Thread -> States]
    BY <1>b, <1>a DEF States
  <2> QED BY <1>0, <1>b, <2>1, <2>2 DEF TypeOK, Someone, Specifier
<1>2. NoReentry' /\ Participants' /\ Forgotten'
  BY <1>0, <1>a, <1>s, <1>b DEF NoReentry, Participants, Someone, Forgotten
<1>3. SendsTo' /\ ReceivesFrom'
  BY <1>0, <1>a, <1>s, <1>b DEF SendsTo, ReceivesFrom
<1>4. CallerFirst'
  <2>1. pc \in {"send", "release", "recv"} => 1 \in 1 .. Depth /\ stack[1] \in Thread
    BY <1>a
  <2>2. pc \in {"send", "release", "recv"} => state'[stack[1]] # "SEND_BLOCKED"
    BY <1>b, <1>a, <2>1 DEF CallerFirst
  <2> QED BY <1>0, <1>b, <2>1, <2>2 DEF CallerFirst
<1>5. ReceiverLast'
  BY <1>0, <1>a, <1>s, <1>b DEF ReceiverLast
<1>6. Chain'
  BY <1>0, <1>a, <1>s, <1>b DEF Chain
<1>7. NoneWaits' /\ NoReceiver' /\ NoSender'
  BY <1>0, <1>a, <1>s, <1>b DEF NoneWaits, Waiting, NoReceiver, NoSender
<1>8. GotKept' /\ SentKept'
  BY <1>0, <1>a, <1>s, <1>b DEF GotKept, SentKept
<1> QED BY <1>1, <1>2, <1>3, <1>4, <1>5, <1>6, <1>7, <1>8

(* A thread that is deleted forgets its call.                                *)
LEMMA IpcDelete == ASSUME IInv, NEW t \in Thread, Delete(t) PROVE IInv'
<1> USE IpcAssumption DEF IInv, Typing, OnStack
<1>0. stack' = stack /\ top' = top /\ Depth' = Depth
  BY DEF Delete, Forget, kernel, top, Depth
<1>a. Typing /\ OnStack
  BY TopOfStack DEF TypeOK
<1>b. /\ pc = "idle" /\ pc' = "idle"
      /\ t \in alive /\ alive' = alive \ {t}
      /\ to' = [to EXCEPT ![t] = NIL] /\ from' = [from EXCEPT ![t] = NIL]
      /\ timed' = [timed EXCEPT ![t] = FALSE] /\ ipc_from' = [ipc_from EXCEPT ![t] = NIL]
      /\ sent' = [sent EXCEPT ![t] = FALSE] /\ got' = [got EXCEPT ![t] = NIL]
      /\ fail' = [fail EXCEPT ![t] = "none"]
      /\ UNCHANGED <<state, alarm, partner>>
  BY DEF Delete, Forget, At, args, kernel, result
<1>1. TypeOK'
  BY <1>0, <1>a, <1>b DEF TypeOK, States, Someone, Specifier
<1>2. NoReentry' /\ Participants' /\ Forgotten'
  BY <1>0, <1>a, <1>b DEF NoReentry, Participants, Someone, Forgotten
<1>3. SendsTo' /\ ReceivesFrom'
  BY <1>0, <1>a, <1>b DEF SendsTo, ReceivesFrom
<1>4. CallerFirst' /\ ReceiverLast' /\ Chain'
  BY <1>0, <1>a, <1>b DEF CallerFirst, ReceiverLast, Chain
<1>5. NoneWaits' /\ NoReceiver' /\ NoSender'
  BY <1>0, <1>a, <1>b DEF NoneWaits, Waiting, NoReceiver, NoSender
<1>6. GotKept' /\ SentKept'
  BY <1>0, <1>a, <1>b DEF GotKept, SentKept, Participants
<1> QED BY <1>1, <1>2, <1>3, <1>4, <1>5, <1>6

(* A thread that is created has no call.                                     *)
LEMMA IpcCreate == ASSUME IInv, NEW t \in Thread, Create(t) PROVE IInv'
<1> USE IpcAssumption DEF IInv, Typing, OnStack
<1>0. stack' = stack /\ top' = top /\ Depth' = Depth
  BY DEF Create, kernel, top, Depth
<1>a. Typing /\ OnStack
  BY TopOfStack DEF TypeOK
<1>b. /\ pc = "idle" /\ pc' = "idle"
      /\ t \notin alive /\ alive' = alive \cup {t}
      /\ state' = [state EXCEPT ![t] = IF pager[t] = NIL THEN "INACTIVE" ELSE "ACTIVE"]
      /\ UNCHANGED <<to, from, timed, ipc_from, alarm, partner, sent, got, fail>>
  BY DEF Create, At, args, kernel, result
<1>1. TypeOK'
  BY <1>0, <1>a, <1>b DEF TypeOK, States, Someone, Specifier
<1>2. NoReentry' /\ Participants' /\ Forgotten'
  BY <1>0, <1>a, <1>b DEF NoReentry, Participants, Someone, Forgotten
<1>3. SendsTo' /\ ReceivesFrom'
  BY <1>0, <1>a, <1>b DEF SendsTo, ReceivesFrom
<1>4. CallerFirst' /\ ReceiverLast' /\ Chain'
  BY <1>0, <1>a, <1>b DEF CallerFirst, ReceiverLast, Chain
<1>5. NoneWaits' /\ NoReceiver' /\ NoSender'
  BY <1>0, <1>a, <1>b DEF NoneWaits, Waiting, NoReceiver, NoSender
<1>6. GotKept' /\ SentKept'
  BY <1>0, <1>a, <1>b DEF GotKept, SentKept, Participants, Forgotten
<1> QED BY <1>1, <1>2, <1>3, <1>4, <1>5, <1>6
-----------------------------------------------------------------------------
(* A call is in progress only later, and nobody waits.                       *)
LEMMA IpcInit == Init => IInv
<1> SUFFICES ASSUME Init PROVE IInv
  OBVIOUS
<1> USE IpcAssumption DEF Init
<1>1. Depth = 0
  BY DEF Depth
<1>2. TypeOK
  BY DEF TypeOK, States, Someone, Specifier
<1>3. \A t \in Thread : state[t] \notin {"SEND_BLOCKED", "RECV_BLOCKED"}
  OBVIOUS
<1>4. NoReentry
  BY <1>1 DEF NoReentry, Depth
<1>5. Participants /\ Forgotten
  BY <1>1 DEF Participants, Forgotten
<1>6. SendsTo /\ ReceivesFrom /\ NoneWaits
  BY <1>3 DEF SendsTo, ReceivesFrom, NoneWaits, Waiting
<1>7. CallerFirst /\ ReceiverLast /\ Chain /\ NoReceiver /\ NoSender
  BY <1>1 DEF CallerFirst, ReceiverLast, Chain, NoReceiver, NoSender
<1>8. GotKept /\ SentKept
  BY DEF GotKept, SentKept
<1> QED BY <1>2, <1>4, <1>5, <1>6, <1>7, <1>8 DEF IInv

(* The two ends of a receive phase that finds a sender.                      *)
LEMMA IpcRecvFound == ASSUME IInv, NEW p \in Thread, RecvFound(p) PROVE IInv'
BY IpcRecvRefused, IpcRecvCopied

(* do_ipc_timeout, whatever the thread it is for does.                       *)
LEMMA IpcTimeout == ASSUME IInv, NEW t \in Thread, Timeout(t) PROVE IInv'
BY IpcTimeoutIgnored, IpcTimeoutInCall, IpcTimeoutTold

(* One step per action.                                                      *)
LEMMA IpcNext == IInv /\ [Next]_vars => IInv'
<1> SUFFICES ASSUME IInv, [Next]_vars PROVE IInv'
  OBVIOUS
<1>1. CASE UNCHANGED vars
  <2> USE <1>1 DEF vars, args, kernel, result, top, Depth
  <2>1. TypeOK' /\ NoReentry' /\ Participants' /\ Forgotten'
    BY DEF IInv, TypeOK, NoReentry, Participants, Forgotten
  <2>2. SendsTo' /\ ReceivesFrom' /\ CallerFirst' /\ ReceiverLast' /\ Chain'
    BY DEF IInv, SendsTo, ReceivesFrom, CallerFirst, ReceiverLast, Chain
  <2>3. NoneWaits' /\ NoReceiver' /\ NoSender'
    BY DEF IInv, NoneWaits, Waiting, NoReceiver, NoSender
  <2>4. GotKept' /\ SentKept'
    BY DEF IInv, GotKept, SentKept
  <2> QED BY <2>1, <2>2, <2>3, <2>4 DEF IInv
<1>2. CASE \E t \in Thread, dest \in Someone, source \in Specifier, tmo \in BOOLEAN :
             t # dest /\ t # source /\ (tmo => t \in Timed) /\ Call(t, dest, source, tmo)
  BY <1>2, IpcCall
<1>3. CASE Kernel
  BY <1>3, IpcSendSkipped, IpcSendFound, IpcRelease, IpcSendStart, IpcSendNonexistent, IpcSendWait,
     IpcRecvSkipped, IpcRecvFound, IpcRecvNonexistent, IpcRecvWait, IpcBlock, IpcDone DEF Kernel
<1>4. CASE \E t \in Thread : Timeout(t) \/ Delete(t) \/ Create(t)
  BY <1>4, IpcTimeout, IpcDelete, IpcCreate
<1> QED BY <1>1, <1>2, <1>3, <1>4 DEF Next

(* Whatever the order of system calls, timeouts and deletions is, do_ipc     *)
(* runs at most once for every thread, however deep it calls itself through  *)
(* the receive phases of blocked senders.                                    *)
THEOREM IpcSafe == Spec => []IpcInv
<1>1. IInv => IpcInv
  BY DEF IInv, IpcInv
<1> QED BY <1>1, IpcInit, IpcNext, PTL DEF Spec

(* No thread is left blocked as a sender to one that is blocked as its       *)
(* receiver: is_viable_ipc_partner and find_ipc_partner miss nobody.         *)
THEOREM IpcMet == Spec => []Met
<1>1. IInv => Met
  BY DEF IInv, Met, NoneWaits, Waiting
<1> QED BY <1>1, IpcInit, IpcNext, PTL DEF Spec

(* copy_payload delivers only to the thread the sender's call names, which   *)
(* waits for a message of that sender.                                       *)
THEOREM IpcAddressed == Spec => Addressed
<1>1. ASSUME IInv, [Next]_vars, NEW t \in Thread, NEW p \in Thread, got'[t] = p, got[t] # p
      PROVE  to[p] = t /\ Accepts(from[t], p, t)
  <2> USE <1>1, IpcAssumption DEF IInv, Typing, OnStack
  <2>a. Typing /\ OnStack
    BY TopOfStack DEF TypeOK
  <2>1. CASE \E q \in Thread : SendFound(q)
    <3>1. PICK q \in Thread : SendFound(q)
      BY <2>1
    <3>2. pc = "send" /\ Finds(top, to[top], "RECV_BLOCKED", q) /\ to[top] # NIL
      BY <3>1, Zenon DEF SendFound, At
    <3>3. got' = got \/ got' = [got EXCEPT ![q] = top]
      BY <3>1, Zenon DEF SendFound
    <3>4. t = q /\ p = top
      BY <2>a, <3>3
    <3>5. to[top] \in Thread
      BY <2>a, <3>2 DEF Someone
    <3>6. to[top] = q
      BY <3>2, <3>5 DEF Finds, Accepts
    <3> QED BY <3>2, <3>4, <3>6 DEF Finds, Viable, ReceivesFrom
  <2>2. CASE \E q \in Thread : RecvFound(q)
    <3>1. PICK q \in Thread : RecvFound(q)
      BY <2>2
    <3>2. pc = "recv" /\ Finds(top, from[top], "SEND_BLOCKED", q)
      BY <3>1, Zenon DEF RecvFound, At
    <3>3. got' = got \/ got' = [got EXCEPT ![top] = q]
      BY <3>1, Zenon DEF RecvFound
    <3>4. t = top /\ p = q
      BY <2>a, <3>2, <3>3
    <3>5. to[q] = top
      BY <3>2, FoundIsNew DEF Finds
    <3> QED BY <3>2, <3>4, <3>5 DEF Finds
  <2>3. CASE ~ (\E q \in Thread : SendFound(q)) /\ ~ (\E q \in Thread : RecvFound(q))
    <3>1. got' = got \/ \E q \in Someone : got' = [got EXCEPT ![q] = NIL]
      BY <2>a, <2>3 DEF Next, Kernel, vars, result, Call, SendSkipped, Release, SendStart, SendNonexistent,
         SendWait, Wait, RecvSkipped, RecvNonexistent, RecvWait, Block, Done, Timeout, Delete,
         Create, Leaves, Forget, Someone
    <3> QED BY <2>a, <3>1
  <2> QED BY <2>1, <2>2, <2>3
<1>2. IInv /\ [Next]_vars =>
        [\A t, p \in Thread : got'[t] = p /\ got[t] # p => to[p] = t /\ Accepts(from[t], p, t)]_vars
  BY <1>1
<1> QED BY <1>2, IpcInit, IpcNext, PTL DEF Spec, Addressed

(* A system call that is told that a phase failed did not complete it, at    *)
(* each of the places where do_ipc calls set_ipc_error.                      *)
THEOREM IpcErrorsTrue == Spec => ErrorsTrue
<1>1. ASSUME IInv, [Next]_vars, NEW t \in Thread, fail'[t] # fail[t], ~ alarm[t]
      PROVE  (fail'[t] = "send" => ~ sent[t]) /\ (fail'[t] = "recv" => got[t] = NIL)
  <2> USE <1>1, IpcAssumption DEF IInv, Typing, OnStack
  <2>a. Typing /\ OnStack /\ fail \in [Thread -> {"none", "send", "recv"}]
    BY TopOfStack DEF TypeOK
  <2>b. pc \in {"send", "recv"} => partner = NIL /\ top # NIL
    BY <2>a DEF Participants
  <2>c. pc = "send" => ~ sent[top]
    <3>1. pc = "send" => state[top] # "RECV_BLOCKED"
      BY <2>a DEF ReceiverLast
    <3> QED BY <2>a, <2>b, <3>1 DEF SentKept
  <2>d. pc = "recv" => got[top] = NIL
    <3>1. \A i \in 1 .. Depth : pc = "recv" /\ stack[i] = top => i = Depth
      BY <2>a DEF NoReentry, Depth
    <3> QED BY <2>a, <2>b, <3>1 DEF GotKept
  <2>1. CASE \E q \in Thread : SendFound(q)
    <3>1. PICK q \in Thread : SendFound(q)
      BY <2>1
    <3>2. pc = "send" /\ state[q] = "RECV_BLOCKED"
      BY <3>1, Zenon DEF SendFound, At, Finds
    <3>3. fail' = fail \/ fail' = [fail EXCEPT ![top] = "send", ![q] = "recv"]
      BY <3>1, Zenon DEF SendFound
    <3>4. got[q] = NIL
      <4>1. \A i \in 1 .. Depth : stack[i] # q
        BY <2>a, <3>2 DEF ReceiverLast
      <4> QED BY <2>b, <3>2, <4>1 DEF GotKept
    <3> QED BY <2>a, <2>c, <3>2, <3>3, <3>4
  <2>2. CASE \E q \in Thread : RecvFound(q)
    <3>1. PICK q \in Thread : RecvFound(q)
      BY <2>2
    <3>2. pc = "recv" /\ Finds(top, from[top], "SEND_BLOCKED", q)
      BY <3>1, Zenon DEF RecvFound, At
    <3>3. fail' = fail \/ fail' = [fail EXCEPT ![top] = "recv", ![q] = "send"]
      BY <3>1, Zenon DEF RecvFound
    <3>4. ~ sent[q] /\ q # top
      BY <3>2, FoundIsNew DEF Finds
    <3> QED BY <2>a, <2>d, <3>2, <3>3, <3>4
  <2>3. CASE SendStart \/ SendNonexistent
    <3>1. pc = "send" /\ (fail' = fail \/ fail' = [fail EXCEPT ![top] = "send"])
      BY <2>3 DEF SendStart, SendNonexistent, At
    <3> QED BY <2>a, <2>c, <3>1
  <2>4. CASE RecvNonexistent
    <3>1. pc = "recv" /\ fail' = [fail EXCEPT ![top] = "recv"]
      BY <2>4 DEF RecvNonexistent, At
    <3> QED BY <2>a, <2>d, <3>1
  <2>5. CASE \E q \in Thread : Timeout(q)
    <3>1. PICK q \in Thread : Timeout(q)
      BY <2>5
    <3>2. fail' = fail \/ \E e \in {"recv", "send"} : fail' = [fail EXCEPT ![q] = e]
      BY <3>1 DEF Timeout, result
    <3> QED BY <2>a, <3>1, <3>2 DEF Timeout
  <2>6. CASE fail' = fail \/ \E q \in Thread : fail' = [fail EXCEPT ![q] = "none"]
    BY <2>a, <2>6
  <2>7. \/ \E q \in Thread : SendFound(q) \/ RecvFound(q) \/ Timeout(q)
        \/ SendStart \/ SendNonexistent \/ RecvNonexistent
        \/ fail' = fail \/ \E q \in Thread : fail' = [fail EXCEPT ![q] = "none"]
    BY DEF Next, Kernel, vars, result, Call, SendSkipped, Release, SendWait, Wait, RecvSkipped,
       RecvWait, Block, Done, Delete, Create
  <2> QED BY <2>1, <2>2, <2>3, <2>4, <2>5, <2>6, <2>7
<1>2. IInv /\ [Next]_vars =>
        [\A t \in Thread : fail'[t] # fail[t] /\ ~ alarm[t] =>
           /\ fail'[t] = "send" => ~ sent[t]
           /\ fail'[t] = "recv" => got[t] = NIL]_vars
  BY <1>1
<1> QED BY <1>2, IpcInit, IpcNext, PTL DEF Spec, ErrorsTrue
=============================================================================
