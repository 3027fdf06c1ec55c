------------------------------ MODULE RunQueue ------------------------------
(***************************************************************************)
(* What the scheduler may rely on from its run queue: as many entries of a *)
(* thread as were inserted and not taken out again, and a pick that        *)
(* returns the kernel thread whenever it waits and the idle thread only    *)
(* when nothing else waits.  The order among user threads is left open,    *)
(* because the binary heap of lib/heap does not keep it: sink takes the    *)
(* right child without looking at the left one, and delete never moves an  *)
(* element up.  So is the number of entries of a user thread, because the  *)
(* scheduler may queue one twice (see Sched!TargetRunnable).               *)
(***************************************************************************)
EXTENDS Naturals

CONSTANTS
  Thread,       \* the thread control blocks
  Kernel,       \* kern_tcb, priority 0
  Idle          \* idle_tcb, priority ~0

VARIABLES
  queue,        \* the number of entries of every thread
  picked        \* the thread the last pick returned

rqvars == <<queue, picked>>

\* A pick returns a waiting thread; the kernel thread goes first, idle last.
MayPick(q, t) ==
  /\ q[t] > 0
  /\ q[Kernel] > 0 => t = Kernel
  /\ t = Idle => \A u \in Thread : q[u] > 0 => u = Idle

RQInit == queue = [t \in Thread |-> 0] /\ picked \in Thread

RQInsert(t) ==
  /\ t \in {Kernel, Idle} => queue[t] = 0
  /\ queue' = [queue EXCEPT ![t] = @ + 1]
  /\ UNCHANGED picked

RQDelete(t) ==
  /\ queue[t] > 0
  /\ queue' = [queue EXCEPT ![t] = @ - 1]
  /\ UNCHANGED picked

RQPop(t) ==
  /\ MayPick(queue, t)
  /\ queue' = [queue EXCEPT ![t] = @ - 1]
  /\ picked' = t

RQNext == \E t \in Thread : RQInsert(t) \/ RQDelete(t) \/ RQPop(t)

RQSpec == RQInit /\ [][RQNext]_rqvars
=============================================================================
