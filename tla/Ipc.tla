-------------------------------- MODULE Ipc --------------------------------
(***************************************************************************)
(* kern/syscall/ipc.c: how the kernel thread executes one IPC after the    *)
(* other.  A receiver that finds a blocked sender runs the receive phase   *)
(* of that sender, which may find another one: do_ipc calls itself, and    *)
(* the threads whose do_ipc is active form a stack.                        *)
(*                                                                         *)
(* The kernel thread is interrupted only by SysTick, which may fire an IPC *)
(* timeout wherever interrupts are enabled; that no other thread executes  *)
(* meanwhile is Sched!NoOvertake, until the heap is torn.  A message is    *)
(* only its two ends, and whether copy_payload accepts it.  Threads have   *)
(* global ids.                                                             *)
(***************************************************************************)
EXTENDS Integers, Sequences, Functions

CONSTANTS
  Thread,
  as,           \* the address space of every thread
  pager,        \* the pager of every thread, NIL for none
  NIL,          \* L4_NILTHREAD
  ANY, ANYLOCAL,   \* L4_ANYTHREAD, L4_ANYLOCALTHREAD
  Timed         \* the threads that use timeouts other than never

Someone == Thread \cup {NIL}
Specifier == Thread \cup {NIL, ANY, ANYLOCAL}

ASSUME IpcAssumption ==
  /\ NIL \notin Thread /\ ANY \notin Thread /\ ANYLOCAL \notin Thread
  /\ NIL # ANY /\ NIL # ANYLOCAL /\ ANY # ANYLOCAL
  /\ pager \in [Thread -> Someone]
  /\ Timed \subseteq Thread

VARIABLES
  alive,        \* the threads of thread_list
  state,        \* tcb->state
  to, from,     \* the arguments of the system call in the saved registers
  timed,        \* whether its timeouts are finite
  ipc_from,     \* tcb->ipc_from: the partner a blocked thread waits for
  alarm,        \* whether tcb->kevent is registered as KALARM_TIMEOUT
  stack,        \* the threads whose do_ipc is active, the latest last
  pc,           \* where the last of them is
  partner,      \* its to_tcb, while it is to be released
  sent, got,    \* the message of the current call was copied; from whom one came
  fail          \* the phase the last system call was told has failed

\* What only a thread in a system call has a use for is NIL or FALSE otherwise.

args == <<to, from, timed>>
kernel == <<stack, pc, partner>>
result == <<sent, got, fail>>
vars == <<alive, state, args, ipc_from, alarm, kernel, result>>

States == {"INACTIVE", "ACTIVE", "RUNNABLE", "SVC_BLOCKED", "RECV_BLOCKED", "SEND_BLOCKED"}

Init ==
  /\ alive = Thread
  /\ state = [t \in Thread |-> IF pager[t] = NIL THEN "RUNNABLE" ELSE "ACTIVE"]
  /\ to = [t \in Thread |-> NIL] /\ from = [t \in Thread |-> NIL]
  /\ timed = [t \in Thread |-> FALSE]
  /\ ipc_from = [t \in Thread |-> NIL]
  /\ alarm = [t \in Thread |-> FALSE]
  /\ stack = << >> /\ pc = "idle" /\ partner = NIL
  /\ sent = [t \in Thread |-> FALSE]
  /\ got = [t \in Thread |-> NIL]
  /\ fail = [t \in Thread |-> "none"]
-----------------------------------------------------------------------------
\* Does a thread t that waits for who wait for p?
Accepts(who, p, t) == who \in {p, ANY} \/ (who = ANYLOCAL /\ as[p] = as[t])

\* The mutated forms each change one operation the way a slip in the code
\* would; they are used only to show that the properties can fail.
\* The partner's own specifier not looked at, or not its wildcards.
ViableAlways(t, p) == TRUE
ViableExact(t, p) == ipc_from[p] = t

\* is_viable_ipc_partner
Viable(t, p) == Accepts(ipc_from[p], t, p)

\* find_ipc_partner finds p.
Finds(t, who, wanted, p) ==
  /\ p \in alive
  /\ Accepts(who, p, t)
  /\ state[p] = wanted
  /\ Viable(t, p)

FindsSomeone(t, who, wanted) == \E p \in Thread : Finds(t, who, wanted, p)

\* The partner is a thread that waits to be started, and the sender belongs
\* to the address space of its pager.
Starts(t, who) ==
  /\ who \in alive /\ state[who] = "ACTIVE"
  /\ pager[who] \in alive /\ as[pager[who]] = as[t]

Nonexistent(who) == who \in Thread \ alive
-----------------------------------------------------------------------------
top == stack[Len(stack)]

\* t's system call is over: nobody reads its arguments, ipc_from and progress
\* again before the next one has set them.
Forget(t) ==
  /\ to' = [to EXCEPT ![t] = NIL] /\ from' = [from EXCEPT ![t] = NIL]
  /\ timed' = [timed EXCEPT ![t] = FALSE]
  /\ ipc_from' = [ipc_from EXCEPT ![t] = NIL]
  /\ sent' = [sent EXCEPT ![t] = FALSE] /\ got' = [got EXCEPT ![t] = NIL]

Leaves(t) == state' = [state EXCEPT ![t] = "RUNNABLE"] /\ Forget(t)

At(l) == pc = l

\* The thread at the top leaves do_ipc; the one below goes on after its
\* ipc_recv, which is done.
Pop ==
  /\ stack' = SubSeq(stack, 1, Len(stack) - 1)
  /\ pc' = IF Len(stack) = 1 THEN "idle" ELSE "done"

\* SVC: any thread that runs, while the kernel thread has nothing to do.
Call(t, dest, source, tmo) ==
  /\ At("idle")
  /\ t \in alive /\ state[t] = "RUNNABLE"
  /\ state' = [state EXCEPT ![t] = "SVC_BLOCKED"]
  /\ to' = [to EXCEPT ![t] = dest] /\ from' = [from EXCEPT ![t] = source]
  /\ timed' = [timed EXCEPT ![t] = tmo]
  /\ stack' = <<t>> /\ pc' = "send"
  /\ fail' = [fail EXCEPT ![t] = "none"]
  /\ UNCHANGED <<alive, ipc_from, alarm, partner, sent, got>>

SendSkipped ==
  /\ At("send") /\ to[top] = NIL
  /\ pc' = "recv"
  /\ UNCHANGED <<alive, state, args, ipc_from, alarm, stack, partner, result>>

\* copy_payload to a waiting receiver, or an error for both.
SendFound(p) ==
  /\ At("send") /\ to[top] # NIL
  /\ Finds(top, to[top], "RECV_BLOCKED", p)
  /\ partner' = p
  /\ \/ /\ sent' = [sent EXCEPT ![top] = TRUE]
        /\ got' = [got EXCEPT ![p] = top]
        /\ pc' = "release"
        /\ UNCHANGED fail
     \/ /\ fail' = [fail EXCEPT ![top] = "send", ![p] = "recv"]
        /\ pc' = "abort"
        /\ UNCHANGED <<sent, got>>
  /\ UNCHANGED <<alive, state, args, ipc_from, alarm, stack>>

\* The masked set_thread_state(to_tcb, TS_RUNNABLE) or, after a receive that
\* failed, of from_tcb.
Release ==
  /\ At("release") \/ At("abort")
  /\ Leaves(partner)
  /\ partner' = NIL
  /\ pc' = IF pc = "release" THEN "recv" ELSE "done"
  /\ UNCHANGED <<alive, alarm, stack, fail>>

\* The start message of a pager, or a message copied to a thread that has
\* not started.
SendStart ==
  /\ At("send")
  /\ ~ FindsSomeone(top, to[top], "RECV_BLOCKED")
  /\ Starts(top, to[top])
  /\ \/ /\ state' = [state EXCEPT ![to[top]] = "RUNNABLE"]
        /\ sent' = [sent EXCEPT ![top] = TRUE]
        /\ pc' = "recv"
        /\ UNCHANGED fail
     \/ /\ sent' = [sent EXCEPT ![top] = TRUE]
        /\ pc' = "recv"
        /\ UNCHANGED <<state, fail>>
     \/ /\ fail' = [fail EXCEPT ![top] = "send"]
        /\ pc' = "done"
        /\ UNCHANGED <<state, sent>>
  /\ UNCHANGED <<alive, args, ipc_from, alarm, stack, partner, got>>

SendNonexistent ==
  /\ At("send") /\ Nonexistent(to[top])
  /\ fail' = [fail EXCEPT ![top] = "send"]
  /\ pc' = "done"
  /\ UNCHANGED <<alive, state, args, ipc_from, alarm, stack, partner, sent, got>>

\* set_thread_timeout and the change of ipc_from.  A finite timeout sets the
\* state at once; do_ipc sets it (again) when interrupts are enabled.
Wait(who, blocked, l) ==
  /\ ipc_from' = [ipc_from EXCEPT ![top] = who]
  /\ IF timed[top]
       THEN /\ alarm' = [alarm EXCEPT ![top] = TRUE]
            /\ state' = [state EXCEPT ![top] = blocked]
       ELSE UNCHANGED <<alarm, state>>
  /\ pc' = l
  /\ UNCHANGED <<alive, args, stack, partner, result>>

SendWait ==
  /\ At("send") /\ to[top] # NIL
  /\ ~ Nonexistent(to[top])
  /\ ~ FindsSomeone(top, to[top], "RECV_BLOCKED")
  /\ ~ Starts(top, to[top])
  /\ Wait(to[top], "SEND_BLOCKED", "block send")

\* The search repeated instead of blocking the receiver.
RecvWaitPolls ==
  /\ At("recv") /\ from[top] # NIL
  /\ ~ Nonexistent(from[top])
  /\ ~ FindsSomeone(top, from[top], "SEND_BLOCKED")
  /\ Wait(from[top], "RECV_BLOCKED", "recv")

RecvWait ==
  /\ At("recv") /\ from[top] # NIL
  /\ ~ Nonexistent(from[top])
  /\ ~ FindsSomeone(top, from[top], "SEND_BLOCKED")
  /\ Wait(from[top], "RECV_BLOCKED", "block recv")

Block ==
  /\ At("block send") \/ At("block recv")
  /\ state' = [state EXCEPT ![top] =
                 IF pc = "block send" THEN "SEND_BLOCKED" ELSE "RECV_BLOCKED"]
  /\ Pop
  /\ UNCHANGED <<alive, args, ipc_from, alarm, partner, result>>

RecvSkipped ==
  /\ At("recv") /\ from[top] = NIL
  /\ pc' = "done"
  /\ UNCHANGED <<alive, state, args, ipc_from, alarm, stack, partner, result>>

\* do_ipc(from_tcb, false): the sender would send once more.
RecvFoundResends(p) ==
  /\ At("recv") /\ from[top] # NIL
  /\ Finds(top, from[top], "SEND_BLOCKED", p)
  /\ \/ /\ sent' = [sent EXCEPT ![p] = TRUE]
        /\ got' = [got EXCEPT ![top] = p]
        /\ stack' = Append(stack, p)
        /\ pc' = "send"
        /\ UNCHANGED <<partner, fail>>
     \/ /\ fail' = [fail EXCEPT ![top] = "recv", ![p] = "send"]
        /\ partner' = p
        /\ pc' = "abort"
        /\ UNCHANGED <<stack, sent, got>>
  /\ UNCHANGED <<alive, state, args, ipc_from, alarm>>

\* A blocked sender's message is copied and its receive phase begins; or the
\* payload is refused and both are told.
RecvFound(p) ==
  /\ At("recv") /\ from[top] # NIL
  /\ Finds(top, from[top], "SEND_BLOCKED", p)
  /\ \/ /\ sent' = [sent EXCEPT ![p] = TRUE]
        /\ got' = [got EXCEPT ![top] = p]
        /\ stack' = Append(stack, p)
        /\ UNCHANGED <<pc, partner, fail>>
     \/ /\ fail' = [fail EXCEPT ![top] = "recv", ![p] = "send"]
        /\ partner' = p
        /\ pc' = "abort"
        /\ UNCHANGED <<stack, sent, got>>
  /\ UNCHANGED <<alive, state, args, ipc_from, alarm>>

RecvNonexistent ==
  /\ At("recv") /\ Nonexistent(from[top])
  /\ fail' = [fail EXCEPT ![top] = "recv"]
  /\ pc' = "done"
  /\ UNCHANGED <<alive, state, args, ipc_from, alarm, stack, partner, sent, got>>

\* Both phases are over.
Done ==
  /\ At("done")
  /\ Leaves(top)
  /\ Pop
  /\ UNCHANGED <<alive, alarm, partner, fail>>
-----------------------------------------------------------------------------
\* do_ipc_timeout: only a thread that is still blocked is told.
Timeout(t) ==
  /\ alarm[t]
  /\ alarm' = [alarm EXCEPT ![t] = FALSE]
  /\ IF t \in alive /\ state[t] \in {"RECV_BLOCKED", "SEND_BLOCKED"}
       THEN /\ fail' = [fail EXCEPT ![t] = IF state[t] = "RECV_BLOCKED" THEN "recv" ELSE "send"]
            /\ IF t \in Range(stack) \cup {partner}
                 THEN /\ state' = [state EXCEPT ![t] = "RUNNABLE"]
                      /\ UNCHANGED <<args, ipc_from, sent, got>>
                 ELSE Leaves(t)
       ELSE UNCHANGED <<state, args, ipc_from, result>>
  /\ UNCHANGED <<alive, kernel>>

\* Thread control, called by another thread: the alarm stays, and whoever
\* waits for the thread is not told.
Delete(t) ==
  /\ At("idle") /\ t \in alive
  /\ \E c \in alive \ {t} : state[c] = "RUNNABLE"
  /\ alive' = alive \ {t}
  /\ Forget(t) /\ fail' = [fail EXCEPT ![t] = "none"]
  /\ UNCHANGED <<state, alarm, kernel>>

Create(t) ==
  /\ At("idle") /\ t \notin alive
  /\ \E c \in alive : state[c] = "RUNNABLE"
  /\ alive' = alive \cup {t}
  /\ state' = [state EXCEPT ![t] = IF pager[t] = NIL THEN "INACTIVE" ELSE "ACTIVE"]
  /\ UNCHANGED <<args, ipc_from, alarm, kernel, result>>
-----------------------------------------------------------------------------
Kernel ==
  \/ SendSkipped
  \/ \E p \in Thread : SendFound(p)
  \/ Release
  \/ SendStart
  \/ SendNonexistent
  \/ SendWait
  \/ RecvSkipped
  \/ \E p \in Thread : RecvFound(p)
  \/ RecvNonexistent
  \/ RecvWait
  \/ Block
  \/ Done

Next ==
  \/ \E t \in Thread, dest \in Someone, source \in Specifier, tmo \in BOOLEAN :
       t # dest /\ t # source /\ (tmo => t \in Timed) /\ Call(t, dest, source, tmo)
  \/ Kernel
  \/ \E t \in Thread : Timeout(t)
  \/ \E t \in Thread : Delete(t)
  \/ \E t \in Thread : Create(t)

Spec == Init /\ [][Next]_vars

\* The kernel thread goes on handling a system call.
FairSpec == Spec /\ WF_vars(Kernel)
-----------------------------------------------------------------------------
\* Every variable keeps its type, and the kernel thread is between two calls
\* exactly when no do_ipc is active.
TypeOK ==
  /\ alive \subseteq Thread
  /\ state \in [Thread -> States]
  /\ to \in [Thread -> Someone] /\ from \in [Thread -> Specifier]
  /\ timed \in [Thread -> BOOLEAN]
  /\ ipc_from \in [Thread -> Specifier]
  /\ alarm \in [Thread -> BOOLEAN]
  /\ stack \in Seq(Thread)
  /\ pc \in {"idle", "send", "release", "abort", "recv", "block send", "block recv", "done"}
  /\ pc = "idle" <=> stack = << >>
  /\ partner \in Someone
  /\ sent \in [Thread -> BOOLEAN] /\ got \in [Thread -> Someone]
  /\ fail \in [Thread -> {"none", "send", "recv"}]

\* do_ipc never runs twice for one thread at the same time: the recursion
\* through the receive phases of blocked senders ends, and is at most as deep
\* as there are threads.
NoReentry ==
  \A i, j \in 1 .. Len(stack) : stack[i] = stack[j] => i = j

\* The state of the kernel thread in do_ipc: well-typed, and the stack of
\* active calls bounded by the number of threads.
IpcInv == TypeOK /\ NoReentry

\* A message reaches only the thread it was sent to, and only when that thread
\* waits for its sender.
Addressed ==
  [][\A t, p \in Thread :
       got'[t] = p /\ got[t] # p =>
         to[p] = t /\ Accepts(from[t], p, t)]_vars

\* Between two system calls no two threads wait for each other: when a sender
\* and its receiver are both blocked, one of their calls has found the other.
Met ==
  pc = "idle" =>
    \A s, r \in alive :
      ~ (/\ state[s] = "SEND_BLOCKED" /\ to[s] = r
         /\ state[r] = "RECV_BLOCKED" /\ Accepts(from[r], s, r))

\* Who is told that a phase failed did not complete it: a sender's message was
\* not copied, a receiver got none.  Only an alarm, also one left of an earlier
\* IPC, may tell it otherwise between copy_payload and the release.
ErrorsTrue ==
  [][\A t \in Thread : fail'[t] # fail[t] /\ ~ alarm[t] =>
       /\ fail'[t] = "send" => ~ sent[t]
       /\ fail'[t] = "recv" => got[t] = NIL]_vars

\* Every IPC system call is handled: the chain of receive phases comes to its
\* end.
Handled == pc # "idle" ~> pc = "idle"
=============================================================================
