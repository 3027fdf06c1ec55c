------------------------------ MODULE HeapRace ------------------------------
(***************************************************************************)
(* The run queue while its operations interrupt each other.  PendSV        *)
(* inserts the current thread with interrupts enabled (kern/thread.c), and *)
(* the kernel thread, in do_ipc, inserts and deletes with interrupts       *)
(* enabled; SysTick inserts the threads it wakes, and may request a PendSV *)
(* that interrupts the kernel thread.                                      *)
(*                                                                         *)
(* The operation that can be interrupted is cut into its accesses to       *)
(* memory: step says which one is next, and at, n, tmp are the registers   *)
(* of the thread that executes it.  Operations that nothing interrupts     *)
(* use the loops of Heap, one iteration a step.                            *)
(*                                                                         *)
(* Around the heap there is as much of the scheduler as decides when it is *)
(* used: who is runnable, and who runs.  User threads are woken by alarms, *)
(* and stop by calling the kernel.                                         *)
(***************************************************************************)
EXTENDS Integers

CONSTANTS Thread, Kernel, Idle, UserPrio, IdlePrio, HEAP_SIZE,
          Root,         \* the thread that runs first
          MaxStrikes    \* bound: how often operations are interrupted

VARIABLES
  size, data, prio, op, idx, picked,    \* as in Heap; op runs uninterrupted
  runnable,     \* the threads in state TS_RUNNABLE
  running,      \* current_thread_idx
  stage,        \* a thread executes, or PendSV picks the next one
  call,         \* what the interruptible operation is for: none, preempt, wake, block
  who,          \* the thread it inserts or deletes
  step,         \* its next access to memory
  at, n, tmp,   \* idx, the loaded size or last_parent_idx, tmp of swap
  inner,        \* a PendSV inside an operation of the kernel thread
  strikes       \* how many insertions struck in the middle of an operation

hvars == <<size, data, prio, op, idx, picked>>
regs == <<call, who, step, at, n, tmp>>
vars == <<hvars, runnable, running, stage, regs, inner, strikes>>

H == INSTANCE Heap

User == Thread \ {Kernel, Idle}

\* After the first PendSV: the root thread runs, the idle thread waits.
Init ==
  /\ size = 1
  /\ data = [i \in H!Slots |-> IF i = 0 THEN Idle ELSE Kernel]
  /\ prio \in [Thread -> UserPrio \cup {0, IdlePrio}]
  /\ prio[Kernel] = 0 /\ prio[Idle] = IdlePrio /\ \A t \in User : prio[t] \in UserPrio
  /\ op = "none" /\ idx = 0 /\ picked = Root
  /\ runnable = {Idle, Root}
  /\ running = Root /\ stage = "run"
  /\ call = "none" /\ who = Root /\ step = "none"
  /\ at = 0 /\ n = 0 /\ tmp = Root
  /\ inner = "no" /\ strikes = 0

\* No handler is in the middle of an operation of its own.
Free == op = "none" /\ inner = "no"
-----------------------------------------------------------------------------
(* Operations that nothing interrupts.                                     *)

Loops == (H!Swim \/ H!Sink) /\ UNCHANGED <<runnable, running, stage, regs, inner, strikes>>

\* thread_schedule_insert, up to the call of swim.
Inserts(t) ==
  IF size = HEAP_SIZE
    THEN UNCHANGED hvars
    ELSE /\ data' = [data EXCEPT ![size] = t]
         /\ size' = size + 1
         /\ op' = "swim" /\ idx' = size
         /\ UNCHANGED <<prio, picked>>

Struck ==
  /\ step # "none" => strikes < MaxStrikes
  /\ strikes' = (IF step = "none" THEN strikes ELSE strikes + 1)

\* unpause_thread and do_ipc_timeout, in the middle of another operation too.
Tick(t) ==
  /\ Free
  /\ t \notin runnable
  /\ Inserts(t)
  /\ runnable' = runnable \cup {t}
  /\ Struck
  /\ UNCHANGED <<running, stage, regs, inner>>

\* __isr_svcall: the caller is blocked, the kernel thread woken.
SvcCall ==
  /\ Free /\ step = "none" /\ stage = "run" /\ running \in User
  /\ IF Kernel \in runnable THEN UNCHANGED hvars ELSE Inserts(Kernel)
  /\ runnable' = (runnable \ {running}) \cup {Kernel}
  /\ stage' = "pick"
  /\ UNCHANGED <<running, regs, inner, strikes>>

\* The tail of softirq_execute, and L4_yield.
KernelSleeps ==
  /\ Free /\ step = "none" /\ stage = "run" /\ running = Kernel
  /\ H!Delete(Kernel) \/ (~H!InHeap(Kernel) /\ UNCHANGED hvars)
  /\ runnable' = runnable \ {Kernel}
  /\ stage' = "pick"
  /\ UNCHANGED <<running, regs, inner, strikes>>

\* find_thread_idx_to_schedule; the empty heap is a panic.
Pick ==
  /\ Free /\ step = "none" /\ stage = "pick"
  /\ H!Pop
  /\ running' = picked'
  /\ stage' = "run"
  /\ UNCHANGED <<runnable, regs, inner, strikes>>

NothingToPick == Free /\ step = "none" /\ stage = "pick" /\ size = 0 /\ UNCHANGED vars

\* A tick requests a PendSV inside an operation of the kernel thread:
\* schedule_next_thread inserts that thread ...
PendSVInside ==
  /\ Free /\ call \in {"wake", "block"} /\ running = Kernel /\ Kernel \in runnable
  /\ Inserts(Kernel)
  /\ inner' = (IF size = HEAP_SIZE THEN "dropped" ELSE "inserted")
  /\ Struck
  /\ UNCHANGED <<runnable, running, stage, regs>>

\* ... and takes the first one.
PickInside ==
  /\ inner \in {"inserted", "dropped"}
  /\ H!Pop
  /\ inner' = (IF inner = "inserted" THEN "picked" ELSE "other")
  /\ UNCHANGED <<runnable, running, stage, regs, strikes>>

\* The handler returns to the thread that it picked.
ReturnInside ==
  /\ inner \in {"picked", "other"} /\ op = "none"
  /\ inner' = "no"
  /\ running' = picked
  /\ UNCHANGED <<hvars, runnable, stage, regs, strikes>>

\* The kernel thread lost the processor in the middle of its operation.  What
\* becomes of the machine then is not followed.
Unfollowed == step # "none" /\ call # "preempt" /\ running # Kernel /\ UNCHANGED vars
-----------------------------------------------------------------------------
(* Operations that can be interrupted.                                     *)

Begins(c, t, s) ==
  /\ Free /\ step = "none" /\ stage = "run"
  /\ call' = c /\ who' = t /\ step' = s
  /\ UNCHANGED <<hvars, runnable, running, stage, at, n, tmp, inner, strikes>>

\* schedule_next_thread inserts the current thread; do_ipc wakes a thread;
\* delete_thread, space_control, and do_ipc after a timeout, take one away.
Preempt == running \in runnable /\ Begins("preempt", running, "load")
Wake(t) == running = Kernel /\ t \notin runnable /\ Begins("wake", t, "load")
Block(t) == running = Kernel /\ t \in runnable /\ Begins("block", t, "find")

At(s) == Free /\ step = s /\ (call # "preempt" => running = Kernel)

Ends ==
  /\ step' = "none" /\ call' = "none"
  /\ runnable' = (IF call = "wake" THEN runnable \cup {who}
                  ELSE IF call = "block" THEN runnable \ {who} ELSE runnable)
  /\ stage' = (IF call = "preempt" THEN "pick" ELSE stage)

Goes(s) == step' = s /\ UNCHANGED <<call, runnable, stage>>

Same == UNCHANGED <<prio, op, idx, picked, running, who, inner, strikes>>

\* heap_insert: the size is read,
Load ==
  /\ At("load")
  /\ n' = size
  /\ IF size = HEAP_SIZE THEN Ends ELSE Goes("count")
  /\ UNCHANGED <<size, data, at, tmp>> /\ Same

\* written,
Count == At("count") /\ size' = n + 1 /\ Goes("put") /\ UNCHANGED <<data, at, n, tmp>> /\ Same

\* and the value stored at the place that was free when it was read.
Put ==
  /\ At("put")
  /\ data' = [data EXCEPT ![n] = who]
  /\ at' = n
  /\ Goes("swim")
  /\ UNCHANGED <<size, n, tmp>> /\ Same

parent == (at - 1) \div 2

\* swim: the condition of the loop, with the first read of swap.
Climb ==
  /\ At("swim")
  /\ IF at > 0 /\ H!HEAP_COMPARE(data[at], data[parent])
       THEN tmp' = data[at] /\ Goes("swim1")
       ELSE UNCHANGED tmp /\ Ends
  /\ UNCHANGED <<size, data, at, n>> /\ Same

Climb1 ==
  /\ At("swim1")
  /\ data' = [data EXCEPT ![at] = data[parent]]
  /\ Goes("swim2")
  /\ UNCHANGED <<size, at, n, tmp>> /\ Same

Climb2 ==
  /\ At("swim2")
  /\ data' = [data EXCEPT ![parent] = tmp]
  /\ at' = parent
  /\ Goes("swim")
  /\ UNCHANGED <<size, n, tmp>> /\ Same

\* find_idx_in_heap, one step.
Find ==
  /\ At("find")
  /\ \/ ~H!InHeap(who) /\ UNCHANGED at /\ Ends
     \/ /\ \E i \in H!Places(who) : (\A j \in H!Places(who) : i <= j) /\ at' = i
        /\ Goes("dload")
  /\ UNCHANGED <<size, data, n, tmp>> /\ Same

\* heap_delete: the size is read and written,
DLoad == At("dload") /\ n' = size - 1 /\ Goes("dcount") /\ UNCHANGED <<size, data, at, tmp>> /\ Same
DCount == At("dcount") /\ size' = n /\ Goes("dput") /\ UNCHANGED <<data, at, n, tmp>> /\ Same

\* the last element moved,
DPut ==
  /\ At("dput")
  /\ data' = [data EXCEPT ![at] = data[n]]
  /\ Goes("depth")
  /\ UNCHANGED <<size, at, n, tmp>> /\ Same

\* and sunk: last_parent_idx is computed once.
Depth ==
  /\ At("depth")
  /\ IF size < 2 THEN UNCHANGED n /\ Ends ELSE n' = (size - 2) \div 2 /\ Goes("sink")
  /\ UNCHANGED <<size, data, at, tmp>> /\ Same

left == 2 * at + 1
right == 2 * at + 2

Child ==
  IF right < size /\ H!HEAP_COMPARE(data[right], data[at]) THEN right
  ELSE IF H!HEAP_COMPARE(data[left], data[at]) THEN left ELSE at

Descend ==
  /\ At("sink")
  /\ IF at <= n /\ Child # at
       THEN tmp' = data[Child] /\ Goes(IF Child = right THEN "right" ELSE "left")
       ELSE UNCHANGED tmp /\ Ends
  /\ UNCHANGED <<size, data, at, n>> /\ Same

Descend1(child, s, s2) ==
  /\ At(s)
  /\ data' = [data EXCEPT ![child] = data[at]]
  /\ Goes(s2)
  /\ UNCHANGED <<size, at, n, tmp>> /\ Same

Descend2(child, s) ==
  /\ At(s)
  /\ data' = [data EXCEPT ![at] = tmp]
  /\ at' = child
  /\ Goes("sink")
  /\ UNCHANGED <<size, n, tmp>> /\ Same

Unmasked ==
  \/ Load \/ Count \/ Put \/ Climb \/ Climb1 \/ Climb2
  \/ Find \/ DLoad \/ DCount \/ DPut \/ Depth \/ Descend
  \/ Descend1(left, "left", "left2") \/ Descend2(left, "left2")
  \/ Descend1(right, "right", "right2") \/ Descend2(right, "right2")

Next ==
  \/ Loops
  \/ \E t \in User : Tick(t)
  \/ SvcCall \/ KernelSleeps \/ Pick \/ NothingToPick
  \/ PendSVInside \/ PickInside \/ ReturnInside \/ Unfollowed
  \/ Preempt
  \/ \E t \in User : Wake(t) \/ Block(t)
  \/ Unmasked

Spec == Init /\ [][Next]_vars
-----------------------------------------------------------------------------
\* find_thread_idx_to_schedule finds a thread and does not panic with "No task
\* can be scheduled!", since the idle thread is always runnable.
TaskFound == stage = "pick" /\ step = "none" /\ Free => size > 0
=============================================================================
