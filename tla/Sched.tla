-------------------------------- MODULE Sched --------------------------------
(***************************************************************************)
(* The scheduling core of the kernel: the SVCall, SysTick and PendSV       *)
(* handlers, the run queue, the softirq flag and the kernel thread that    *)
(* executes system calls (kern/thread.c, syscall.c, softirq.c, kalarm.c,   *)
(* systhread.c).                                                           *)
(*                                                                         *)
(* SVCall preempts SysTick, which preempts PendSV, which preempts threads  *)
(* (interrupts.c).  So a thread executes only in mode "thread" while no    *)
(* PendSV is pending, an SVC is one step, and SysTick may strike in every  *)
(* state, between the two halves of PendSV too.                            *)
(*                                                                         *)
(* Time is abstract: a registered alarm may fire at any tick, or never.    *)
(* The body of a system call is the set of thread-state changes it can     *)
(* make; the heap picks by RunQueue's rule.                                *)
(*                                                                         *)
(* Some operations on the heap are not masked: the insertion of PendSV,    *)
(* and in the kernel thread those of do_ipc, space_control and             *)
(* delete_thread.  They are one step here when no tick changes the heap in *)
(* their middle.  When one does (HeapTorn), entries may be lost or doubled *)
(* (HeapRace has the accesses one by one), and the machine is not followed *)
(* any further: every property is about executions until then.             *)
(***************************************************************************)
EXTENDS Naturals

CONSTANTS
  Thread,       \* the slots of tcb_store
  Kernel, Idle, Root,
  NULL,
  Respaced      \* the states of threads that SpaceControl is called for

TS == {"INACTIVE", "ACTIVE", "RUNNABLE", "SVC_BLOCKED", "RECV_BLOCKED",
       "SEND_BLOCKED", "PAUSED"}

ASSUME SchedAssumption ==
  /\ Respaced \subseteq TS
  /\ Kernel \in Thread /\ Idle \in Thread /\ Root \in Thread
  /\ Kernel # Idle /\ Kernel # Root /\ Idle # Root
  /\ NULL \notin Thread

VARIABLES
  allocated,    \* tcb_store_allocated
  state,        \* tcb->state
  queued,       \* how often a thread is in thread_schedule_state
  alarm,        \* tcb->kevent: not registered, or its type
  current,      \* current_thread_idx
  target,       \* schedule_target
  pendsv,       \* ICSR_PENDSVSET
  mode,         \* thread mode, or where in PendSV the processor is
  softirq,      \* softirq_pending (SIRQ_SVC_CALL is the only bit)
  kpc, kbuf,    \* the kernel thread in softirq_execute, its local copy
  caller,       \* caller
  waiter,       \* the thread do_ipc is about to block, while kpc is send or recv
  panic,        \* the panic that stopped the machine
  torn          \* a tick struck an unmasked operation on the heap

vars == <<allocated, state, queued, alarm, current, target, pendsv, mode,
          softirq, kpc, kbuf, caller, waiter, panic, torn>>

User == Thread \ {Kernel, Idle}

RQ == INSTANCE RunQueue WITH queue <- queued, picked <- current

\* The machine is followed until it panics or its heap is torn.
Runs == panic = "no" /\ ~torn

Blocked(phase) == IF phase = "send" THEN "SEND_BLOCKED" ELSE "RECV_BLOCKED"

\* The mutated forms each change one operation the way a slip in the code
\* would; they are used only to show that the properties can fail.
\* find_idx_in_heap used without the test of its result.
RequeueUnchecked(q, st, t, s) ==
  [q EXCEPT ![t] = IF s = "RUNNABLE" /\ st[t] # "RUNNABLE" THEN @ + 1
                   ELSE IF s # "RUNNABLE" /\ st[t] = "RUNNABLE" THEN @ - 1
                   ELSE @]

\* The heap after set_thread_state(t, s), called with heap q and states st.
Requeue(q, st, t, s) ==
  [q EXCEPT ![t] = IF s = "RUNNABLE" /\ st[t] # "RUNNABLE" THEN @ + 1
                   ELSE IF s # "RUNNABLE" /\ st[t] = "RUNNABLE" /\ @ > 0 THEN @ - 1
                   ELSE @]

set_thread_state(t, s) ==
  /\ state' = [state EXCEPT ![t] = s]
  /\ queued' = Requeue(queued, state, t, s)

\* The heap after delete_thread(t).
Dequeue(q, t) ==
  IF state[t] = "RUNNABLE" /\ q[t] > 0 THEN [q EXCEPT ![t] = @ - 1] ELSE q

request_reschedule(t) == target' = t /\ pendsv' = TRUE

proc == <<current, target, pendsv, mode>>
kvars == <<softirq, kpc, kbuf, caller, waiter>>

\* main: kern_tcb inactive, idle and root runnable, then start_scheduling.
Init ==
  /\ allocated = {Kernel, Idle, Root}
  /\ state = [t \in Thread |-> IF t \in {Idle, Root} THEN "RUNNABLE" ELSE "INACTIVE"]
  /\ queued = [t \in Thread |-> IF t \in {Idle, Root} THEN 1 ELSE 0]
  /\ alarm = [t \in Thread |-> "none"]
  /\ current = NULL
  /\ target = NULL /\ pendsv = TRUE
  /\ mode = "thread"
  /\ softirq = FALSE
  /\ kpc = "read" /\ kbuf = FALSE
  /\ caller = NULL /\ waiter = NULL
  /\ panic = "no" /\ torn = FALSE
-----------------------------------------------------------------------------
(* SVCall and HardFault, caused by the thread that executes.               *)

Executes(t) == Runs /\ mode = "thread" /\ ~pendsv /\ current = t

\* softirq_schedule without waking the kernel thread.
SvcCallNoWake(t) ==
  /\ Executes(t)
  /\ caller' = t
  /\ softirq' = TRUE
  /\ set_thread_state(t, "SVC_BLOCKED")
  /\ request_reschedule(Kernel)
  /\ UNCHANGED <<allocated, alarm, current, mode, kpc, kbuf, waiter, panic, torn>>

\* The default branch: park the caller, wake the kernel thread, switch.
SvcCall(t) ==
  /\ Executes(t)
  /\ caller' = t
  /\ softirq' = TRUE
  /\ LET st == [state EXCEPT ![t] = "SVC_BLOCKED"] IN
     /\ state' = [st EXCEPT ![Kernel] = "RUNNABLE"]
     /\ queued' = Requeue(Requeue(queued, state, t, "SVC_BLOCKED"), st, Kernel, "RUNNABLE")
  /\ request_reschedule(Kernel)
  /\ UNCHANGED <<allocated, alarm, current, mode, kpc, kbuf, waiter, panic, torn>>

\* SYS_THREAD_SWITCH of a user thread: it sleeps until the next tick.  An
\* alarm that is still linked trips the assertion of pause_thread when it
\* has neighbours in the list, and is overwritten otherwise.
SvcYield(t, to) ==
  /\ Executes(t)
  /\ to \in allocated \cup {NULL}
  /\ alarm' = [alarm EXCEPT ![t] = "unpause"]
  /\ set_thread_state(t, "PAUSED")
  /\ request_reschedule(to)
  /\ UNCHANGED <<allocated, current, mode, kvars, panic, torn>>

SvcYieldAsserts(t) ==
  /\ Executes(t)
  /\ alarm[t] # "none"
  /\ panic' = "kassert"
  /\ UNCHANGED <<allocated, state, queued, alarm, proc, kvars, torn>>

\* __isr_hardfault: a user thread that faults is deleted and PendSV requested;
\* its state stays, so PendSV will queue it again and it may run on.
HardFault(t) ==
  /\ Executes(t)
  /\ IF t = Root
       THEN /\ panic' = "root"
            /\ UNCHANGED <<allocated, queued, target, pendsv>>
       ELSE /\ allocated' = allocated \ {t}
            /\ queued' = Dequeue(queued, t)
            /\ request_reschedule(NULL)
            /\ UNCHANGED panic
  /\ UNCHANGED <<state, alarm, current, mode, kvars, torn>>
-----------------------------------------------------------------------------
(* SysTick, one due alarm at a time.                                       *)

TickReschedule ==
  /\ Runs
  /\ request_reschedule(NULL)
  /\ UNCHANGED <<allocated, state, queued, alarm, current, mode, kvars, panic, torn>>

\* unpause_thread does not look at the state the thread is in; it panics when
\* the thread is gone.
TickUnpause(t) ==
  /\ Runs
  /\ alarm[t] \in {"unpause", "orphan"}
  /\ alarm' = [alarm EXCEPT ![t] = "none"]
  /\ IF t \in allocated /\ alarm[t] = "unpause"
       THEN /\ set_thread_state(t, "RUNNABLE")
            /\ request_reschedule(NULL)
            /\ UNCHANGED panic
       ELSE /\ panic' = "unpause"
            /\ UNCHANGED <<state, queued, target, pendsv>>
  /\ UNCHANGED <<allocated, current, mode, kvars, torn>>

\* do_ipc_timeout: only a thread that is still blocked is released.
TickTimeout(t) ==
  /\ Runs
  /\ alarm[t] = "timeout"
  /\ alarm' = [alarm EXCEPT ![t] = "none"]
  /\ IF t \in allocated /\ state[t] \in {"RECV_BLOCKED", "SEND_BLOCKED"}
       THEN set_thread_state(t, "RUNNABLE")
       ELSE UNCHANGED <<state, queued>>
  /\ UNCHANGED <<allocated, proc, kvars, panic, torn>>
-----------------------------------------------------------------------------
(* PendSV: schedule_next_thread in two halves, SysTick may come between.   *)

PendSVEnter ==
  /\ Runs /\ mode = "thread" /\ pendsv
  /\ pendsv' = FALSE
  /\ mode' = "insert"
  /\ UNCHANGED <<allocated, state, queued, alarm, current, target, kvars, panic, torn>>

\* The idle thread is taken to be in the heap always.
PendSVInsertNotIdle ==
  /\ Runs /\ mode = "insert"
  /\ queued' = IF current # NULL /\ current # Idle /\ state[current] = "RUNNABLE"
                 THEN [queued EXCEPT ![current] = @ + 1]
                 ELSE queued
  /\ mode' = "pick"
  /\ UNCHANGED <<allocated, state, alarm, current, target, pendsv, kvars, panic, torn>>

CurrentRunnable == current # NULL /\ state[current] = "RUNNABLE"

\* Interrupts are masked only behind it; see HeapTorn.
PendSVInsert ==
  /\ Runs /\ mode = "insert"
  /\ queued' = IF CurrentRunnable
                 THEN [queued EXCEPT ![current] = @ + 1]
                 ELSE queued
  /\ mode' = "pick"
  /\ UNCHANGED <<allocated, state, alarm, current, target, pendsv, kvars, panic, torn>>

\* An order of its own: any queued thread may be picked.
MayRunAny(t) == queued[t] > 0

\* find_thread_idx_to_schedule_from_target and ..._to_schedule, masked.
MayRun(t) ==
  IF target # NULL /\ queued[target] > 0 THEN t = target
                                         ELSE RQ!MayPick(queued, t)

TargetBlocked == target # NULL /\ queued[target] > 0 /\ state[target] # "RUNNABLE"

PendSVPick(t) ==
  /\ Runs /\ mode = "pick"
  /\ MayRun(t)
  /\ ~TargetBlocked
  /\ queued' = [queued EXCEPT ![t] = @ - 1]
  /\ current' = t
  /\ mode' = "thread"
  /\ UNCHANGED <<allocated, state, alarm, target, pendsv, kvars, panic, torn>>

PendSVPanics ==
  /\ Runs /\ mode = "pick"
  /\ TargetBlocked
  /\ queued' = [queued EXCEPT ![target] = @ - 1]
  /\ panic' = "target"
  /\ UNCHANGED <<allocated, state, alarm, proc, kvars, torn>>
-----------------------------------------------------------------------------
(* The kernel thread: softirq_execute, then L4_yield.                      *)

KernelAt(l) == Executes(Kernel) /\ kpc = l

KernelRead ==
  /\ KernelAt("read")
  /\ kbuf' = softirq
  /\ kpc' = IF softirq THEN "svc" ELSE "clear"
  /\ UNCHANGED <<allocated, state, queued, alarm, proc, softirq, caller, waiter, panic, torn>>

\* The inactive state set, the flag left: the order of the two forgotten.
KernelClearKeepsFlag ==
  /\ KernelAt("clear")
  /\ kpc' = "yield" /\ set_thread_state(Kernel, "INACTIVE")
  /\ UNCHANGED <<allocated, alarm, proc, softirq, kbuf, caller, waiter, panic, torn>>

\* Masked: clear what was handled, go inactive when nothing is left.
KernelClear ==
  /\ KernelAt("clear")
  /\ softirq' = (softirq /\ ~kbuf)
  /\ IF softirq'
       THEN kpc' = "read" /\ UNCHANGED <<state, queued>>
       ELSE kpc' = "yield" /\ set_thread_state(Kernel, "INACTIVE")
  /\ UNCHANGED <<allocated, alarm, proc, kbuf, caller, waiter, panic, torn>>

\* SYS_THREAD_SWITCH of the kernel thread: it is not paused.
KernelYield ==
  /\ KernelAt("yield")
  /\ kpc' = "read"
  /\ request_reschedule(NULL)
  /\ UNCHANGED <<allocated, state, queued, alarm, current, mode, softirq, kbuf, caller, waiter, panic, torn>>

-----------------------------------------------------------------------------
(* softirq_svc: what the system calls do to thread states.  A call other     *)
(* than an IPC changes at most one thread before it returns to its caller.   *)

\* A partner is released: ipc_send, the error path of ipc_recv, the receive
\* phase do_ipc runs for a sender, pager_start_thread.
SvcWake(t) ==
  /\ KernelAt("svc") \/ KernelAt("ipc")
  /\ t \in allocated /\ state[t] \in {"RECV_BLOCKED", "SEND_BLOCKED", "ACTIVE"}
  /\ set_thread_state(t, "RUNNABLE")
  /\ kpc' = "ipc"
  /\ UNCHANGED <<allocated, alarm, proc, softirq, kbuf, caller, waiter, panic, torn>>

\* A phase of do_ipc has to wait: the caller's, or the receive phase that
\* do_ipc(from_tcb, true) runs for a sender that was served.  With a finite
\* timeout set_thread_timeout blocks the thread already.
SvcWaits(t, phase) ==
  /\ KernelAt("svc") \/ KernelAt("ipc")
  /\ t = caller \/ (t \in allocated /\ state[t] = "SEND_BLOCKED" /\ phase = "recv")
  /\ kpc' = phase /\ waiter' = t
  /\ \/ UNCHANGED <<alarm, state, queued>>
     \/ alarm' = [alarm EXCEPT ![t] = "timeout"] /\ set_thread_state(t, Blocked(phase))
  /\ UNCHANGED <<allocated, proc, softirq, kbuf, caller, panic, torn>>

\* ... and do_ipc blocks it again, whatever a tick did in between (unmasked).
KernelBlocks ==
  /\ KernelAt("send") \/ KernelAt("recv")
  /\ set_thread_state(waiter, Blocked(kpc))
  /\ kpc' = (IF waiter = caller THEN "clear" ELSE "ipc")
  /\ waiter' = NULL
  /\ UNCHANGED <<allocated, alarm, proc, softirq, kbuf, caller, panic, torn>>

\* syscall_space_control activates a thread in whatever state it is; the
\* callers decide which ones (root: a fresh thread, or itself).  Unmasked.
SvcActivate(t) ==
  /\ KernelAt("svc")
  /\ t \in allocated \ {Kernel, Idle} /\ state[t] \in Respaced
  /\ set_thread_state(t, "ACTIVE")
  /\ kpc' = "return"
  /\ UNCHANGED <<allocated, alarm, proc, softirq, kbuf, caller, waiter, panic, torn>>

\* create_thread in a free slot; kevent keeps what the former owner left,
\* which may name a thread that does not exist any more.
SvcCreate(t) ==
  /\ KernelAt("svc")
  /\ t \notin allocated
  /\ allocated' = allocated \cup {t}
  /\ \E s \in {"INACTIVE", "ACTIVE"} : state' = [state EXCEPT ![t] = s]
  /\ \/ UNCHANGED alarm
     \/ alarm[t] = "unpause" /\ alarm' = [alarm EXCEPT ![t] = "orphan"]
  /\ kpc' = "return"
  /\ UNCHANGED <<queued, proc, softirq, kbuf, caller, waiter, panic, torn>>

\* delete_thread, unmasked, for another thread, or for the caller, which then
\* stays.
SvcDelete(t) ==
  /\ KernelAt("svc")
  /\ t \in allocated \ {Kernel, Idle, Root}
  /\ allocated' = allocated \ {t}
  /\ queued' = Dequeue(queued, t)
  /\ kpc' = (IF t = caller THEN "clear" ELSE "return")
  /\ UNCHANGED <<state, alarm, proc, softirq, kbuf, caller, waiter, panic, torn>>

\* The state assigned directly, as syscall_thread_control_create does.
SvcReturnAssigns ==
  /\ KernelAt("svc") \/ KernelAt("ipc") \/ KernelAt("return")
  /\ state' = [state EXCEPT ![caller] = "RUNNABLE"]
  /\ kpc' = "clear"
  /\ UNCHANGED <<allocated, queued, alarm, proc, softirq, kbuf, caller, waiter, panic, torn>>

\* unblock_caller, unblock_svc_caller, and, unmasked, do_ipc when both phases
\* are over.
SvcReturn ==
  /\ KernelAt("svc") \/ KernelAt("ipc") \/ KernelAt("return")
  /\ set_thread_state(caller, "RUNNABLE")
  /\ kpc' = "clear"
  /\ UNCHANGED <<allocated, alarm, proc, softirq, kbuf, caller, waiter, panic, torn>>

\* syscall_thread_control returns for a system thread without unblocking.
SvcNoPrivilege ==
  /\ KernelAt("svc")
  /\ kpc' = "clear"
  /\ UNCHANGED <<allocated, state, queued, alarm, proc, softirq, kbuf, caller, waiter, panic, torn>>

\* A tick in the middle of thread_list_insert or thread_list_delete may not
\* find a thread that exists: a timeout is lost, an unpause event panics.
TickMisses(t) ==
  /\ KernelAt("svc")
  /\ alarm[t] \in {"unpause", "timeout"}
  /\ alarm' = [alarm EXCEPT ![t] = "none"]
  /\ panic' = (IF alarm[t] = "unpause" THEN "unpause" ELSE panic)
  /\ UNCHANGED <<allocated, state, queued, proc, kvars, torn>>

\* The threads that a tick would put into the heap now.
Due(t) ==
  /\ t \in allocated
  /\ \/ alarm[t] = "unpause" /\ state[t] # "RUNNABLE"
     \/ alarm[t] = "timeout" /\ state[t] \in {"RECV_BLOCKED", "SEND_BLOCKED"}

\* A tick strikes in the middle of an unmasked operation on the heap: a due
\* thread is inserted inside PendSV's insertion, or inside an operation of
\* the kernel thread (do_ipc, space_control, delete_thread), where the PendSV
\* that any tick may request inserts and takes threads, too.
HeapTorn ==
  /\ \/ Runs /\ mode = "insert" /\ CurrentRunnable /\ \E t \in Thread : Due(t)
     \/ \E l \in {"svc", "ipc", "send", "recv"} : KernelAt(l)
  /\ torn' = TRUE
  /\ UNCHANGED <<allocated, state, queued, alarm, proc, kvars, panic>>

\* A call that is not implemented, the deletion of the root thread, a full
\* tcb_store, an alarm that is still linked.
SvcPanics ==
  /\ KernelAt("svc") \/ KernelAt("ipc")
  /\ panic' = "svc"
  /\ UNCHANGED <<allocated, state, queued, alarm, proc, kvars, torn>>

SvcEnds ==
  \/ SvcReturn
  \/ SvcNoPrivilege
  \/ SvcPanics
-----------------------------------------------------------------------------
Stopped == ~Runs /\ UNCHANGED vars

PendSV ==
  \/ PendSVEnter
  \/ PendSVInsert
  \/ \E t \in Thread : PendSVPick(t)
  \/ PendSVPanics

KernelThread ==
  \/ KernelRead
  \/ KernelBlocks
  \/ KernelClear
  \/ KernelYield

Next ==
  \/ \E t \in User : SvcCall(t)
  \/ \E t \in User, to \in Thread \cup {NULL} : SvcYield(t, to)
  \/ \E t \in User : SvcYieldAsserts(t)
  \/ \E t \in User : HardFault(t)
  \/ TickReschedule
  \/ \E t \in Thread : TickUnpause(t)
  \/ \E t \in Thread : TickTimeout(t)
  \/ \E t \in Thread : TickMisses(t)
  \/ PendSV
  \/ KernelThread
  \/ \E t \in Thread : SvcWake(t)
  \/ \E t \in Thread, phase \in {"send", "recv"} : SvcWaits(t, phase)
  \/ \E t \in Thread : SvcActivate(t)
  \/ \E t \in Thread : SvcCreate(t)
  \/ \E t \in Thread : SvcDelete(t)
  \/ SvcEnds
  \/ HeapTorn
  \/ Stopped

Spec == Init /\ [][Next]_vars

\* A pending PendSV is taken; SysTick does not strike in every PendSV and
\* between every two steps of the kernel thread (an unpause alarm needs a
\* thread that ran, and the reschedule alarm is set ten ticks ahead by every
\* pick); and a system call terminates.  Nothing is assumed of user threads.
Fairness ==
  /\ WF_vars(PendSV)
  /\ SF_vars(~pendsv /\ PendSVInsert)
  /\ SF_vars(~pendsv /\ \E t \in Thread : PendSVPick(t))
  /\ SF_vars(KernelThread)
  /\ SF_vars(SvcEnds)

FairSpec == Spec /\ Fairness
-----------------------------------------------------------------------------
TypeOK ==
  /\ allocated \subseteq Thread
  /\ state \in [Thread -> TS]
  /\ queued \in [Thread -> Nat]
  /\ alarm \in [Thread -> {"none", "unpause", "timeout", "orphan"}]
  /\ current \in Thread \cup {NULL}
  /\ target \in Thread \cup {NULL}
  /\ pendsv \in BOOLEAN
  /\ mode \in {"thread", "insert", "pick"}
  /\ softirq \in BOOLEAN
  /\ kpc \in {"read", "svc", "ipc", "send", "recv", "return", "clear", "yield"}
  /\ kbuf \in BOOLEAN
  /\ caller \in User \cup {NULL}
  /\ waiter \in User \cup {NULL}
  /\ panic \in {"no", "kassert", "root", "unpause", "target", "svc"}
  /\ torn \in BOOLEAN

\* As long as no tick strikes in the middle of an unmasked operation on the
\* heap, no runnable thread is lost: it is on the processor or has an entry in
\* the heap, wherever else an interrupt strikes.
OffProcessor(t) == t # current \/ mode = "pick"
NeverLost ==
  ~torn => \A t \in allocated : state[t] = "RUNNABLE" /\ OffProcessor(t) => queued[t] > 0

\* As long as the heap is not torn, the kernel and idle threads have an entry
\* exactly while they are runnable and off the processor, never two: what
\* Heap!Insert assumes of its callers.
SystemOnce ==
  ~torn => \A t \in {Kernel, Idle} :
             queued[t] = (IF state[t] = "RUNNABLE" /\ OffProcessor(t) THEN 1 ELSE 0)

\* No wakeup of the kernel thread is lost and none is spurious: it is
\* runnable exactly while a softirq is pending, through every interleaving of
\* softirq_schedule with the masked tail of softirq_execute.
KernelRunnableIffPending == state[Kernel] = "RUNNABLE" <=> softirq

\* From the SVC to the end of its handler nobody but the kernel thread
\* executes, although systick may overwrite schedule_target in between; the
\* heap that PendSV picks from must not be torn.
NoOvertake == softirq /\ mode = "thread" /\ ~pendsv /\ ~torn => current = Kernel

\* The global variable caller is never overwritten while the system call it
\* belongs to is unanswered, as long as the heap is not torn.
SingleCaller == [][caller' # caller => ~softirq]_caller

\* What makes these inductive: the system threads never sleep, a pending
\* softirq leaves no other target to PendSV, and the kernel thread handles a
\* call only while its bit is still set.
SystemAwake ==
  /\ {Kernel, Idle, Root} \subseteq allocated
  /\ state[Idle] = "RUNNABLE"
  /\ alarm[Kernel] = "none" /\ alarm[Idle] = "none"

KernelTarget == softirq /\ (pendsv \/ mode # "thread") => target \in {NULL, Kernel}

CallInProgress ==
  /\ kpc \in {"svc", "ipc", "send", "recv", "return"} => softirq
  /\ softirq => caller \in User
  /\ kpc \in {"send", "recv"} => waiter \in User

\* The inductive invariant of the scheduler, the named parts above together:
\* true wherever an interrupt can strike until one tears the heap.
SchedInv ==
  /\ TypeOK
  /\ SystemAwake
  /\ NeverLost
  /\ SystemOnce
  /\ KernelRunnableIffPending
  /\ NoOvertake
  /\ KernelTarget
  /\ CallInProgress

\* The panic "No task can be scheduled" is unreachable as long as the heap is
\* not torn: when PendSV looks for a thread it finds one.  In a torn heap it
\* may not (HeapRace!TaskFound).
SomeTask == mode = "pick" /\ ~torn => \E t \in Thread : queued[t] > 0

\* The check in find_thread_idx_to_schedule_from_target: a requested target
\* that is found in the heap is runnable, even in a heap that is not torn.
TargetRunnable ==
  mode = "pick" /\ ~torn => ~TargetBlocked

\* Every system call is taken up and finished by the kernel thread, unless the
\* machine panics or its heap is torn.
SyscallsHandled == Runs /\ softirq ~> ~Runs \/ ~softirq
=============================================================================
