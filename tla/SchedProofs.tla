----------------------------- MODULE SchedProofs -----------------------------
(***************************************************************************)
(* Proofs about the scheduling core, for every set of thread slots.        *)
(***************************************************************************)
EXTENDS Sched, TLAPS

\* What set_thread_state does to the state and the heap entries of a thread,
\* and that it leaves every other thread alone.
LEMMA SetThreadState ==
  ASSUME TypeOK, NEW t \in Thread, NEW s \in TS, set_thread_state(t, s)
  PROVE  /\ state' \in [Thread -> TS] /\ queued' \in [Thread -> Nat]
         /\ state'[t] = s
         /\ \A u \in Thread \ {t} : state'[u] = state[u] /\ queued'[u] = queued[u]
         /\ s = "RUNNABLE" /\ state[t] # "RUNNABLE" => queued'[t] = queued[t] + 1
         /\ s # "RUNNABLE" /\ state[t] = "RUNNABLE" /\ queued[t] > 0
              => queued'[t] = queued[t] - 1
         /\ s # "RUNNABLE" /\ state[t] = "RUNNABLE" /\ queued[t] = 0
              => queued'[t] = 0
         /\ (s = "RUNNABLE" <=> state[t] = "RUNNABLE") => queued'[t] = queued[t]
  BY DEF TypeOK, set_thread_state, Requeue

\* The parts of the invariant that speak about threads survive when the state
\* of a user thread is set and nobody is switched.
LEMMA UserStateSet ==
  ASSUME SchedInv, NEW t \in User, NEW s \in TS, set_thread_state(t, s),
         UNCHANGED <<current, mode>>, UNCHANGED <<allocated, softirq, torn>>
  PROVE  /\ state' \in [Thread -> TS] /\ queued' \in [Thread -> Nat]
         /\ NeverLost' /\ SystemOnce' /\ KernelRunnableIffPending'
         /\ state'[Idle] = "RUNNABLE" /\ state'[Kernel] = state[Kernel]
<1> USE SchedAssumption DEF SchedInv
<1>1. t \in Thread /\ t # Kernel /\ t # Idle
  BY DEF User
<1>2. /\ state' \in [Thread -> TS] /\ queued' \in [Thread -> Nat]
      /\ state'[t] = s
      /\ \A u \in Thread \ {t} : state'[u] = state[u] /\ queued'[u] = queued[u]
      /\ s = "RUNNABLE" /\ state[t] # "RUNNABLE" => queued'[t] = queued[t] + 1
      /\ (s = "RUNNABLE" <=> state[t] = "RUNNABLE") => queued'[t] = queued[t]
  BY <1>1, SetThreadState
<1>3. NeverLost'
  BY <1>1, <1>2 DEF NeverLost, OffProcessor, TypeOK
<1>4. SystemOnce' /\ KernelRunnableIffPending' /\ state'[Idle] = "RUNNABLE"
      /\ state'[Kernel] = state[Kernel]
  BY <1>1, <1>2 DEF SystemOnce, KernelRunnableIffPending, OffProcessor, SystemAwake
<1> QED BY <1>2, <1>3, <1>4

LEMMA SchedInit == Init => SchedInv
<1> SUFFICES ASSUME Init PROVE SchedInv
  OBVIOUS
<1> USE SchedAssumption DEF Init
<1>1. TypeOK
  BY DEF TypeOK, TS
<1>2. SystemAwake /\ NeverLost /\ SystemOnce
  BY DEF SystemAwake, NeverLost, SystemOnce, OffProcessor
<1>3. KernelRunnableIffPending /\ NoOvertake /\ KernelTarget /\ CallInProgress
  BY DEF KernelRunnableIffPending, NoOvertake, KernelTarget, CallInProgress
<1> QED BY <1>1, <1>2, <1>3 DEF SchedInv

\* An SVC: only a user thread executes, so no softirq is pending, the kernel
\* thread is inactive, and it is the one that gets an entry.
LEMMA SvcCallInv ==
  ASSUME SchedInv, NEW t \in User, SvcCall(t)
  PROVE  SchedInv'
<1> USE SchedAssumption DEF SchedInv
<1>1. t \in Thread /\ t # Kernel /\ t # Idle
  BY DEF User
<1>2. /\ ~torn /\ ~softirq /\ state[Kernel] # "RUNNABLE"
      /\ current = t /\ mode = "thread" /\ queued[Kernel] = 0
  BY <1>1 DEF SvcCall, Executes, Runs, NoOvertake, KernelRunnableIffPending, SystemOnce
<1>3. /\ state' = [[state EXCEPT ![t] = "SVC_BLOCKED"] EXCEPT ![Kernel] = "RUNNABLE"]
      /\ \A u \in Thread \ {t, Kernel} : queued'[u] = queued[u]
      /\ queued'[Kernel] = 1 /\ queued' \in [Thread -> Nat]
  BY <1>1, <1>2 DEF SvcCall, Requeue, TypeOK
<1>31. /\ state' \in [Thread -> TS]
       /\ state'[t] = "SVC_BLOCKED" /\ state'[Kernel] = "RUNNABLE"
       /\ \A u \in Thread \ {t, Kernel} : state'[u] = state[u]
  BY <1>1, <1>3 DEF TypeOK, TS
<1>32. /\ UNCHANGED <<allocated, alarm, current, mode, kpc, kbuf, waiter, panic, torn>>
       /\ caller' = t /\ softirq' = TRUE /\ target' = Kernel /\ pendsv' = TRUE
  BY DEF SvcCall, request_reschedule
<1>4. TypeOK'
  BY <1>1, <1>3, <1>31, <1>32 DEF TypeOK
<1>5. NeverLost'
  BY <1>1, <1>2, <1>3, <1>31, <1>32 DEF TypeOK, NeverLost, OffProcessor
<1>6. SystemOnce'
  <2>1. queued'[Kernel] = 1 /\ state'[Kernel] = "RUNNABLE" /\ OffProcessor(Kernel)'
    BY <1>1, <1>2, <1>3, <1>31, <1>32 DEF OffProcessor
  <2>2. queued'[Idle] = queued[Idle] /\ state'[Idle] = state[Idle]
        /\ OffProcessor(Idle)' = OffProcessor(Idle)
    BY <1>1, <1>3, <1>31, <1>32 DEF OffProcessor
  <2>3. queued[Idle] = IF state[Idle] = "RUNNABLE" /\ OffProcessor(Idle) THEN 1 ELSE 0
    BY <1>2 DEF SystemOnce
  <2> HIDE DEF SchedInv
  <2> QED BY <2>1, <2>2, <2>3 DEF SystemOnce
<1>7. SystemAwake'
  BY <1>1, <1>3 DEF SvcCall, TypeOK, SystemAwake
<1>8. KernelRunnableIffPending' /\ NoOvertake' /\ KernelTarget' /\ CallInProgress'
  BY <1>1, <1>3 DEF SvcCall, TypeOK, KernelRunnableIffPending, NoOvertake, KernelTarget,
                    CallInProgress, request_reschedule
<1> QED BY <1>4, <1>5, <1>6, <1>7, <1>8

\* thread_switch of a user thread cannot happen while a softirq is pending.
LEMMA SvcYieldInv ==
  ASSUME SchedInv, NEW t \in User, NEW to \in Thread \cup {NULL},
         SvcYield(t, to) \/ SvcYieldAsserts(t)
  PROVE  SchedInv'
<1> USE SchedAssumption DEF SchedInv
<1>1. t \in Thread /\ t # Kernel /\ t # Idle /\ "PAUSED" \in TS
  BY DEF User, TS
<1>2. ~softirq
  BY <1>1 DEF SvcYield, SvcYieldAsserts, Executes, Runs, NoOvertake
<1>3. CASE SvcYield(t, to)
  <2>1. /\ state' \in [Thread -> TS] /\ queued' \in [Thread -> Nat]
        /\ NeverLost' /\ SystemOnce' /\ KernelRunnableIffPending'
        /\ state'[Idle] = "RUNNABLE"
    BY <1>1, <1>3, UserStateSet DEF SvcYield, kvars
  <2>11. /\ UNCHANGED <<allocated, current, mode, softirq, kpc, kbuf, caller, waiter, panic, torn>>
         /\ target' = to /\ pendsv' = TRUE
         /\ alarm' \in [Thread -> {"none", "unpause", "timeout", "orphan"}]
    BY <1>1, <1>3 DEF SvcYield, request_reschedule, kvars, TypeOK
  <2>2. TypeOK'
    BY <2>1, <2>11 DEF TypeOK
  <2>3. SystemAwake'
    BY <1>1, <1>3, <2>1 DEF SvcYield, SystemAwake, TypeOK
  <2>4. NoOvertake' /\ KernelTarget' /\ CallInProgress'
    BY <1>2, <1>3 DEF SvcYield, NoOvertake, KernelTarget, CallInProgress, kvars
  <2> QED BY <2>1, <2>2, <2>3, <2>4
<1>4. CASE SvcYieldAsserts(t)
  <2>1. TypeOK' /\ SystemAwake'
    BY <1>4 DEF SvcYieldAsserts, TypeOK, SystemAwake, kvars, proc
  <2>2. NeverLost' /\ SystemOnce' /\ KernelRunnableIffPending'
    BY <1>4 DEF SvcYieldAsserts, NeverLost, SystemOnce, OffProcessor,
                KernelRunnableIffPending, kvars, proc
  <2>3. NoOvertake' /\ KernelTarget' /\ CallInProgress'
    BY <1>4 DEF SvcYieldAsserts, NoOvertake, KernelTarget, CallInProgress, kvars, proc
  <2> QED BY <2>1, <2>2, <2>3
<1> QED BY <1>3, <1>4

\* A hard fault of a user thread cannot happen while a softirq is pending, and
\* takes away only what the thread itself has in the heap.
LEMMA HardFaultInv ==
  ASSUME SchedInv, NEW t \in User, HardFault(t)
  PROVE  SchedInv'
<1> USE SchedAssumption DEF SchedInv
<1>1. t \in Thread /\ t # Kernel /\ t # Idle
  BY DEF User
<1>2. ~softirq
  BY <1>1 DEF HardFault, Executes, Runs, NoOvertake
<1>3. UNCHANGED <<state, alarm, current, mode, softirq, kpc, kbuf, caller, waiter, torn>>
  BY DEF HardFault, kvars
<1>4. CASE t = Root
  <2>1. UNCHANGED <<allocated, queued, target, pendsv>> /\ panic' = "root"
    BY <1>4 DEF HardFault
  <2>2. TypeOK' /\ SystemAwake'
    BY <1>3, <2>1 DEF TypeOK, SystemAwake
  <2>3. NeverLost' /\ SystemOnce' /\ KernelRunnableIffPending'
    BY <1>3, <2>1 DEF NeverLost, SystemOnce, OffProcessor, KernelRunnableIffPending
  <2>4. NoOvertake' /\ KernelTarget' /\ CallInProgress'
    BY <1>3, <2>1 DEF NoOvertake, KernelTarget, CallInProgress
  <2> QED BY <2>2, <2>3, <2>4
<1>5. CASE t # Root
  <2>1. /\ allocated' = allocated \ {t} /\ queued' = Dequeue(queued, t)
        /\ target' = NULL /\ pendsv' = TRUE /\ panic' = panic
    BY <1>5 DEF HardFault, request_reschedule
  <2>2. /\ queued' \in [Thread -> Nat]
        /\ \A u \in Thread \ {t} : queued'[u] = queued[u]
    BY <1>1, <2>1 DEF Dequeue, TypeOK
  <2>3. TypeOK'
    BY <1>3, <2>1, <2>2 DEF TypeOK
  <2>4. SystemAwake' /\ NeverLost'
    BY <1>1, <1>3, <1>5, <2>1, <2>2 DEF SystemAwake, NeverLost, OffProcessor, TypeOK
  <2>5. SystemOnce' /\ KernelRunnableIffPending'
    BY <1>1, <1>3, <2>1, <2>2 DEF SystemOnce, OffProcessor, KernelRunnableIffPending
  <2>6. NoOvertake' /\ KernelTarget' /\ CallInProgress'
    BY <1>2, <1>3, <2>1 DEF NoOvertake, KernelTarget, CallInProgress
  <2> QED BY <2>3, <2>4, <2>5, <2>6
<1> QED BY <1>4, <1>5

\* A tick: it may only name NULL as the next target, and the threads it wakes
\* are never the kernel or the idle thread, which have no alarms.
LEMMA TickInv ==
  ASSUME SchedInv, NEW t \in Thread, TickReschedule \/ TickUnpause(t) \/ TickTimeout(t)
  PROVE  SchedInv'
<1> USE SchedAssumption DEF SchedInv
<1>1. CASE TickReschedule
  <2>1. TypeOK' /\ SystemAwake'
    BY <1>1 DEF TickReschedule, TypeOK, SystemAwake, kvars, request_reschedule
  <2>2. NeverLost' /\ SystemOnce' /\ KernelRunnableIffPending'
    BY <1>1 DEF TickReschedule, NeverLost, SystemOnce, OffProcessor,
                KernelRunnableIffPending, kvars
  <2>3. NoOvertake' /\ KernelTarget' /\ CallInProgress'
    BY <1>1 DEF TickReschedule, request_reschedule, NoOvertake, KernelTarget,
                CallInProgress, kvars
  <2> QED BY <2>1, <2>2, <2>3
<1>2. CASE (TickUnpause(t) \/ TickTimeout(t)) /\ UNCHANGED <<state, queued>>
  <2>1. /\ UNCHANGED <<state, queued, allocated, current, mode, softirq, kpc, kbuf,
                       caller, waiter, torn>>
        /\ alarm' = [alarm EXCEPT ![t] = "none"]
        /\ alarm' \in [Thread -> {"none", "unpause", "timeout", "orphan"}]
        /\ \/ target' = target /\ pendsv' = pendsv
           \/ target' = NULL /\ pendsv' = TRUE
        /\ panic' \in {"no", "kassert", "unpause", "target", "svc"}
        /\ target' \in Thread \cup {NULL} /\ pendsv' \in BOOLEAN
    BY <1>2 DEF TickUnpause, TickTimeout, Runs, kvars, proc, request_reschedule, TypeOK
  <2>2. TypeOK'
    BY <2>1 DEF TypeOK
  <2>21. SystemAwake'
    BY <2>1 DEF SystemAwake, TypeOK
  <2>3. NeverLost' /\ SystemOnce' /\ KernelRunnableIffPending'
    BY <2>1 DEF NeverLost, SystemOnce, OffProcessor, KernelRunnableIffPending
  <2>4. NoOvertake' /\ KernelTarget' /\ CallInProgress'
    BY <2>1 DEF NoOvertake, KernelTarget, CallInProgress
  <2> QED BY <2>2, <2>21, <2>3, <2>4
<1>3. CASE (TickUnpause(t) \/ TickTimeout(t)) /\ set_thread_state(t, "RUNNABLE")
  <2>1. /\ UNCHANGED <<allocated, current, mode, softirq, kpc, kbuf, caller, waiter, torn>>
        /\ alarm' = [alarm EXCEPT ![t] = "none"]
        /\ alarm' \in [Thread -> {"none", "unpause", "timeout", "orphan"}]
        /\ \/ target' = target /\ pendsv' = pendsv
           \/ target' = NULL /\ pendsv' = TRUE
        /\ panic' \in {"no", "kassert", "unpause", "target", "svc"}
        /\ target' \in Thread \cup {NULL} /\ pendsv' \in BOOLEAN
        /\ alarm[t] # "none"
    BY <1>3 DEF TickUnpause, TickTimeout, Runs, kvars, proc, request_reschedule, TypeOK
  <2>2. t \in User /\ "RUNNABLE" \in TS
    BY <2>1 DEF SystemAwake, User, TS
  <2>3. /\ state' \in [Thread -> TS] /\ queued' \in [Thread -> Nat]
        /\ NeverLost' /\ SystemOnce' /\ KernelRunnableIffPending'
        /\ state'[Idle] = "RUNNABLE"
    <3>1. UNCHANGED <<current, mode>> /\ UNCHANGED <<allocated, softirq, torn>>
      BY <2>1
    <3> HIDE SchedAssumption DEF SchedInv
    <3> QED BY <1>3, <2>2, <3>1, UserStateSet
  <2>4. TypeOK'
    <3>1. TypeOK /\ state' \in [Thread -> TS] /\ queued' \in [Thread -> Nat]
      BY <2>3
    <3> HIDE DEF SchedInv
    <3> QED BY <2>1, <3>1 DEF TypeOK
  <2>41. SystemAwake'
    BY <2>1, <2>3 DEF SystemAwake, TypeOK
  <2>5. NoOvertake' /\ KernelTarget' /\ CallInProgress'
    BY <2>1 DEF NoOvertake, KernelTarget, CallInProgress
  <2> QED BY <2>3, <2>4, <2>41, <2>5
<1>4. QED
  <2>1. ASSUME TickUnpause(t) \/ TickTimeout(t)
        PROVE  UNCHANGED <<state, queued>> \/ set_thread_state(t, "RUNNABLE")
    BY <2>1 DEF TickUnpause, TickTimeout
  <2> QED BY <1>1, <1>2, <1>3, <2>1

\* PendSV: the thread it inserts was on the processor and had no entry if it
\* is a system thread; the thread it picks is the kernel thread whenever a
\* softirq is pending.
LEMMA PendSVInv ==
  ASSUME SchedInv, PendSV
  PROVE  SchedInv'
<1> USE SchedAssumption DEF SchedInv
<1>1. CASE PendSVEnter
  <2>1. TypeOK' /\ SystemAwake'
    BY <1>1 DEF PendSVEnter, Runs, TypeOK, SystemAwake, kvars
  <2>2. NeverLost' /\ SystemOnce' /\ KernelRunnableIffPending'
    BY <1>1 DEF PendSVEnter, NeverLost, SystemOnce, OffProcessor,
                KernelRunnableIffPending, kvars
  <2>3. NoOvertake' /\ KernelTarget' /\ CallInProgress'
    BY <1>1 DEF PendSVEnter, NoOvertake, KernelTarget, CallInProgress, kvars
  <2> QED BY <2>1, <2>2, <2>3
<1>2. CASE PendSVInsert
  <2>1. /\ UNCHANGED <<allocated, state, alarm, current, target, pendsv, softirq, kpc,
                       kbuf, caller, waiter, panic, torn>>
        /\ mode = "insert" /\ mode' = "pick"
        /\ queued' = IF CurrentRunnable
                       THEN [queued EXCEPT ![current] = @ + 1] ELSE queued
    BY <1>2 DEF PendSVInsert, kvars
  <2>2. /\ queued' \in [Thread -> Nat]
        /\ \A u \in Thread : u # current \/ state[u] # "RUNNABLE" => queued'[u] = queued[u]
        /\ \A u \in Thread : u = current /\ state[u] = "RUNNABLE"
                               => queued'[u] = queued[u] + 1
    BY <2>1, SchedAssumption DEF TypeOK, CurrentRunnable
  <2>3. TypeOK' /\ SystemAwake'
    BY <2>1, <2>2 DEF TypeOK, SystemAwake
  <2>4. NeverLost'
    BY <2>1, <2>2 DEF NeverLost, OffProcessor, TypeOK
  <2>5. SystemOnce' /\ KernelRunnableIffPending'
    BY <2>1, <2>2 DEF SystemOnce, OffProcessor, KernelRunnableIffPending
  <2>6. NoOvertake' /\ KernelTarget' /\ CallInProgress'
    BY <2>1 DEF NoOvertake, KernelTarget, CallInProgress
  <2> QED BY <2>3, <2>4, <2>5, <2>6
<1>3. ASSUME NEW t \in Thread, PendSVPick(t)
      PROVE  SchedInv'
  <2>1. /\ UNCHANGED <<allocated, state, alarm, target, pendsv, softirq, kpc,
                       kbuf, caller, waiter, panic, torn>>
        /\ ~torn /\ mode = "pick" /\ mode' = "thread" /\ current' = t
        /\ queued' = [queued EXCEPT ![t] = @ - 1]
        /\ MayRun(t)
    BY <1>3 DEF PendSVPick, Runs, kvars
  <2>2. queued[t] > 0 /\ (softirq => t = Kernel)
    BY <2>1 DEF MayRun, RQ!MayPick, KernelTarget, KernelRunnableIffPending, SystemOnce,
                OffProcessor
  <2>3. queued' \in [Thread -> Nat] /\ queued'[t] = queued[t] - 1
        /\ \A u \in Thread \ {t} : queued'[u] = queued[u]
    BY <2>1, <2>2 DEF TypeOK
  <2>4. TypeOK' /\ SystemAwake'
    BY <2>1, <2>3 DEF TypeOK, SystemAwake
  <2>5. NeverLost'
    BY <2>1, <2>3 DEF NeverLost, OffProcessor, TypeOK
  <2>6. SystemOnce' /\ KernelRunnableIffPending'
    BY <2>1, <2>2, <2>3 DEF SystemOnce, OffProcessor, KernelRunnableIffPending
  <2>7. NoOvertake' /\ KernelTarget' /\ CallInProgress'
    BY <2>1, <2>2 DEF NoOvertake, KernelTarget, CallInProgress
  <2> QED BY <2>4, <2>5, <2>6, <2>7
<1>4. CASE PendSVPanics
  <2>1. /\ UNCHANGED <<allocated, state, alarm, current, mode, target, pendsv, softirq,
                       kpc, kbuf, caller, waiter, torn>>
        /\ ~torn /\ target \in Thread /\ queued[target] > 0 /\ state[target] # "RUNNABLE"
        /\ queued' = [queued EXCEPT ![target] = @ - 1]
        /\ panic' = "target"
    BY <1>4 DEF PendSVPanics, TargetBlocked, Runs, TypeOK, proc, kvars
  <2>2. queued' \in [Thread -> Nat]
        /\ \A u \in Thread : state[u] = "RUNNABLE" => queued'[u] = queued[u]
    BY <2>1 DEF TypeOK
  <2>3. target # Kernel /\ target # Idle
    BY <2>1 DEF SystemOnce, SystemAwake
  <2>4. TypeOK' /\ SystemAwake' /\ NeverLost'
    BY <2>1, <2>2 DEF TypeOK, SystemAwake, NeverLost, OffProcessor
  <2>5. SystemOnce' /\ KernelRunnableIffPending'
    BY <2>1, <2>2, <2>3 DEF SystemOnce, OffProcessor, KernelRunnableIffPending, TypeOK
  <2>6. NoOvertake' /\ KernelTarget' /\ CallInProgress'
    BY <2>1 DEF NoOvertake, KernelTarget, CallInProgress
  <2> QED BY <2>4, <2>5, <2>6
<1> QED BY <1>1, <1>2, <1>3, <1>4 DEF PendSV

\* The kernel thread outside the system calls.  Only it clears the softirq
\* bit, and it goes inactive in the same masked section.
LEMMA KernelThreadInv ==
  ASSUME SchedInv, KernelThread
  PROVE  SchedInv'
<1> USE SchedAssumption DEF SchedInv
<1>1. CASE KernelRead
  <2>1. /\ UNCHANGED <<allocated, state, queued, alarm, current, target, pendsv, mode,
                       softirq, caller, waiter, panic, torn>>
        /\ kbuf' = softirq /\ kpc' = (IF softirq THEN "svc" ELSE "clear")
    BY <1>1 DEF KernelRead, proc
  <2>2. TypeOK' /\ SystemAwake'
    BY <2>1 DEF TypeOK, SystemAwake
  <2>3. NeverLost' /\ SystemOnce' /\ KernelRunnableIffPending'
    BY <2>1 DEF NeverLost, SystemOnce, OffProcessor, KernelRunnableIffPending
  <2>4. NoOvertake' /\ KernelTarget' /\ CallInProgress'
    BY <2>1 DEF NoOvertake, KernelTarget, CallInProgress
  <2> QED BY <2>2, <2>3, <2>4
<1>2. CASE KernelBlocks
  <2>1. /\ UNCHANGED <<allocated, alarm, current, target, pendsv, mode,
                       softirq, kbuf, caller, panic, torn>>
        /\ kpc \in {"send", "recv"} /\ kpc' \in {"clear", "ipc"} /\ waiter' = NULL
        /\ set_thread_state(waiter, Blocked(kpc))
    BY <1>2 DEF KernelBlocks, KernelAt, proc
  <2>2. waiter \in User /\ softirq /\ Blocked(kpc) \in TS
    BY <2>1 DEF CallInProgress, Blocked, TS
  <2>3. /\ state' \in [Thread -> TS] /\ queued' \in [Thread -> Nat]
        /\ NeverLost' /\ SystemOnce' /\ KernelRunnableIffPending'
        /\ state'[Idle] = "RUNNABLE"
    BY <2>1, <2>2, UserStateSet
  <2>4. TypeOK' /\ SystemAwake'
    BY <2>1, <2>3 DEF TypeOK, SystemAwake
  <2>5. NoOvertake' /\ KernelTarget' /\ CallInProgress'
    BY <2>1, <2>2 DEF NoOvertake, KernelTarget, CallInProgress
  <2> QED BY <2>3, <2>4, <2>5
<1>3. CASE KernelClear
  <2>1. /\ UNCHANGED <<allocated, alarm, current, target, pendsv, mode, kbuf, caller,
                       waiter, panic, torn>>
        /\ current = Kernel /\ mode = "thread" /\ ~pendsv /\ ~torn /\ kpc = "clear"
        /\ softirq' = (softirq /\ ~kbuf)
    BY <1>3 DEF KernelClear, KernelAt, Executes, Runs, proc
  <2>2. CASE softirq'
    <3>1. UNCHANGED <<state, queued, softirq>> /\ kpc' = "read"
      BY <1>3, <2>1, <2>2 DEF KernelClear, TypeOK
    <3>2. TypeOK' /\ SystemAwake'
      BY <2>1, <3>1 DEF TypeOK, SystemAwake
    <3>3. NeverLost' /\ SystemOnce' /\ KernelRunnableIffPending'
      BY <2>1, <3>1 DEF NeverLost, SystemOnce, OffProcessor, KernelRunnableIffPending
    <3>4. NoOvertake' /\ KernelTarget' /\ CallInProgress'
      BY <2>1, <3>1 DEF NoOvertake, KernelTarget, CallInProgress
    <3> QED BY <3>2, <3>3, <3>4
  <2>3. CASE ~softirq'
    <3>1. kpc' = "yield" /\ set_thread_state(Kernel, "INACTIVE") /\ softirq' = FALSE
      BY <1>3, <2>1, <2>3 DEF KernelClear
    <3>2. queued[Kernel] = 0
      BY <2>1 DEF SystemOnce, OffProcessor
    <3>3. /\ state' \in [Thread -> TS] /\ queued' \in [Thread -> Nat]
          /\ state'[Kernel] = "INACTIVE" /\ queued'[Kernel] = 0
          /\ \A u \in Thread \ {Kernel} : state'[u] = state[u] /\ queued'[u] = queued[u]
      <4>1. "INACTIVE" \in TS
        BY DEF TS
      <4> QED BY <3>1, <3>2, <4>1, SetThreadState
    <3>4. TypeOK'
      BY <2>1, <3>1, <3>3 DEF TypeOK
    <3>5. SystemAwake' /\ NeverLost'
      BY <2>1, <3>3 DEF SystemAwake, NeverLost, OffProcessor, TypeOK
    <3>6. SystemOnce' /\ KernelRunnableIffPending'
      BY <2>1, <3>1, <3>3 DEF SystemOnce, OffProcessor, KernelRunnableIffPending
    <3>7. NoOvertake' /\ KernelTarget' /\ CallInProgress'
      BY <2>1, <3>1 DEF NoOvertake, KernelTarget, CallInProgress
    <3> QED BY <3>4, <3>5, <3>6, <3>7
  <2> QED BY <2>2, <2>3
<1>4. CASE KernelYield
  <2>1. /\ UNCHANGED <<allocated, state, queued, alarm, current, mode, softirq, kbuf,
                       caller, waiter, panic, torn>>
        /\ kpc' = "read" /\ target' = NULL /\ pendsv' = TRUE
    BY <1>4 DEF KernelYield, request_reschedule
  <2>2. TypeOK' /\ SystemAwake'
    BY <2>1 DEF TypeOK, SystemAwake
  <2>3. NeverLost' /\ SystemOnce' /\ KernelRunnableIffPending'
    BY <2>1 DEF NeverLost, SystemOnce, OffProcessor, KernelRunnableIffPending
  <2>4. NoOvertake' /\ KernelTarget' /\ CallInProgress'
    BY <2>1 DEF NoOvertake, KernelTarget, CallInProgress
  <2> QED BY <2>2, <2>3, <2>4
<1> QED BY <1>1, <1>2, <1>3, <1>4 DEF KernelThread

\* An alarm that does not find its thread, and a tick inside an unmasked
\* operation on the heap.
LEMMA TornInv ==
  ASSUME SchedInv, (\E t \in Thread : TickMisses(t)) \/ HeapTorn
  PROVE  SchedInv'
<1> USE SchedAssumption DEF SchedInv
<1>1. ASSUME NEW t \in Thread, TickMisses(t)
      PROVE  SchedInv'
  <2>1. /\ UNCHANGED <<allocated, state, queued, current, target, pendsv, mode, softirq,
                       kpc, kbuf, caller, waiter, torn>>
        /\ alarm' = [alarm EXCEPT ![t] = "none"]
        /\ panic' \in {panic, "unpause"}
    BY <1>1 DEF TickMisses, proc, kvars
  <2>2. TypeOK'
    BY <2>1 DEF TypeOK
  <2>3. SystemAwake'
    BY <2>1 DEF TypeOK, SystemAwake
  <2>4. NeverLost' /\ SystemOnce' /\ KernelRunnableIffPending'
    BY <2>1 DEF NeverLost, SystemOnce, OffProcessor, KernelRunnableIffPending
  <2>5. NoOvertake' /\ KernelTarget' /\ CallInProgress'
    BY <2>1 DEF NoOvertake, KernelTarget, CallInProgress
  <2> QED BY <2>2, <2>3, <2>4, <2>5
<1>2. CASE HeapTorn
  <2>1. /\ UNCHANGED <<allocated, state, queued, alarm, current, target, pendsv, mode,
                       softirq, kpc, kbuf, caller, waiter, panic>>
        /\ torn' = TRUE
    BY <1>2 DEF HeapTorn, proc, kvars
  <2>2. TypeOK' /\ SystemAwake'
    BY <2>1 DEF TypeOK, SystemAwake
  <2>3. NeverLost' /\ SystemOnce' /\ KernelRunnableIffPending'
    BY <2>1 DEF NeverLost, SystemOnce, KernelRunnableIffPending
  <2>4. NoOvertake' /\ KernelTarget' /\ CallInProgress'
    BY <2>1 DEF NoOvertake, KernelTarget, CallInProgress
  <2> QED BY <2>2, <2>3, <2>4
<1> QED BY <1>1, <1>2

\* A step of a system call that sets the state of a user thread.
LEMMA SvcStateInv ==
  ASSUME SchedInv, NEW t \in User, NEW s \in TS, set_thread_state(t, s), softirq,
         UNCHANGED <<allocated, proc, softirq, kbuf, caller, panic, torn>>,
         alarm' \in [Thread -> {"none", "unpause", "timeout", "orphan"}],
         alarm'[Kernel] = "none", alarm'[Idle] = "none",
         kpc' \in {"ipc", "send", "recv", "return", "clear"},
         waiter' \in User \cup {NULL}, kpc' \in {"send", "recv"} => waiter' \in User
  PROVE  SchedInv'
<1> USE SchedAssumption DEF SchedInv
<1>1. UNCHANGED <<current, mode, target, pendsv>>
  BY DEF proc
<1>2. /\ state' \in [Thread -> TS] /\ queued' \in [Thread -> Nat]
      /\ NeverLost' /\ SystemOnce' /\ KernelRunnableIffPending'
      /\ state'[Idle] = "RUNNABLE"
  BY <1>1, UserStateSet
<1>3. TypeOK' /\ SystemAwake'
  BY <1>1, <1>2 DEF TypeOK, SystemAwake
<1>4. NoOvertake' /\ KernelTarget' /\ CallInProgress'
  BY <1>1 DEF NoOvertake, KernelTarget, CallInProgress
<1> QED BY <1>2, <1>3, <1>4

\* The system calls: while one is handled the softirq is pending, so the
\* kernel thread is runnable, and neither it nor idle is in a state that makes
\* it a partner or the caller.
LEMMA SvcInv ==
  ASSUME SchedInv, NEW t \in Thread, NEW phase \in {"send", "recv"},
         \/ SvcWake(t) \/ SvcWaits(t, phase) \/ SvcActivate(t)
         \/ SvcCreate(t) \/ SvcDelete(t) \/ SvcEnds
  PROVE  SchedInv'
<1> USE SchedAssumption DEF SchedInv
<1>1. /\ softirq /\ caller \in User
      /\ state[Kernel] = "RUNNABLE" /\ state[Idle] = "RUNNABLE"
      /\ current = Kernel /\ mode = "thread" /\ ~pendsv /\ ~torn
  BY DEF SvcWake, SvcWaits, SvcActivate, SvcCreate, SvcDelete, SvcEnds, SvcReturn,
         SvcNoPrivilege, SvcPanics, KernelAt, Executes, Runs, CallInProgress,
         KernelRunnableIffPending, SystemAwake
<1>2. {"RUNNABLE", "ACTIVE", "SEND_BLOCKED", "RECV_BLOCKED"} \subseteq TS
  BY DEF TS
<1>3. alarm \in [Thread -> {"none", "unpause", "timeout", "orphan"}]
  BY DEF TypeOK
<1>4. CASE SvcWake(t)
  <2>1. t \in User
    BY <1>1, <1>4 DEF SvcWake, User
  <2>2. UNCHANGED <<allocated, alarm, proc, softirq, kbuf, caller, waiter, panic, torn>>
        /\ kpc' = "ipc" /\ set_thread_state(t, "RUNNABLE")
    BY <1>4 DEF SvcWake
  <2> QED BY <1>1, <1>2, <1>3, <2>1, <2>2, SvcStateInv DEF SystemAwake, TypeOK
<1>5. CASE SvcWaits(t, phase)
  <2>1. t \in User
    BY <1>1, <1>5 DEF SvcWaits, User
  <2>2. /\ UNCHANGED <<allocated, proc, softirq, kbuf, caller, panic, torn>>
        /\ kpc' = phase /\ waiter' = t
        /\ \/ UNCHANGED <<alarm, state, queued>>
           \/ alarm' = [alarm EXCEPT ![t] = "timeout"] /\ set_thread_state(t, Blocked(phase))
    BY <1>5 DEF SvcWaits
  <2>3. CASE UNCHANGED <<alarm, state, queued>>
    <3>1. TypeOK' /\ SystemAwake'
      BY <2>1, <2>2, <2>3 DEF TypeOK, SystemAwake, proc
    <3>2. NeverLost' /\ SystemOnce' /\ KernelRunnableIffPending'
      BY <2>2, <2>3 DEF NeverLost, SystemOnce, OffProcessor, KernelRunnableIffPending, proc
    <3>3. NoOvertake' /\ KernelTarget' /\ CallInProgress'
      BY <1>1, <2>1, <2>2 DEF NoOvertake, KernelTarget, CallInProgress, proc
    <3> QED BY <3>1, <3>2, <3>3
  <2>4. CASE /\ alarm' = [alarm EXCEPT ![t] = "timeout"]
             /\ set_thread_state(t, Blocked(phase))
    <3>1. /\ alarm' \in [Thread -> {"none", "unpause", "timeout", "orphan"}]
          /\ alarm'[Kernel] = "none" /\ alarm'[Idle] = "none"
      BY <1>3, <2>1, <2>4 DEF User, SystemAwake
    <3>2. Blocked(phase) \in TS
      BY <1>2 DEF Blocked
    <3> QED BY <1>1, <2>1, <2>2, <2>4, <3>1, <3>2, SvcStateInv
  <2> QED BY <2>2, <2>3, <2>4
<1>6. CASE SvcActivate(t)
  <2>1. t \in User
    BY <1>6 DEF SvcActivate, User
  <2>2. UNCHANGED <<allocated, alarm, proc, softirq, kbuf, caller, waiter, panic, torn>>
        /\ kpc' = "return" /\ set_thread_state(t, "ACTIVE")
    BY <1>6 DEF SvcActivate
  <2> QED BY <1>1, <1>2, <1>3, <2>1, <2>2, SvcStateInv DEF SystemAwake, TypeOK
<1>7. CASE SvcCreate(t)
  <2>1. /\ t \in User /\ t \notin allocated /\ allocated' = allocated \cup {t}
        /\ UNCHANGED <<queued, proc, softirq, kbuf, caller, waiter, panic, torn>>
        /\ kpc' = "return"
    BY <1>7 DEF SvcCreate, User, SystemAwake
  <2>2. /\ state' \in [Thread -> TS] /\ state'[t] # "RUNNABLE"
        /\ \A u \in Thread \ {t} : state'[u] = state[u]
    BY <1>7 DEF SvcCreate, TypeOK, TS
  <2>3. /\ alarm' \in [Thread -> {"none", "unpause", "timeout", "orphan"}]
        /\ alarm'[Kernel] = "none" /\ alarm'[Idle] = "none"
    BY <1>7, <2>1 DEF SvcCreate, TypeOK, SystemAwake, User
  <2>4. TypeOK'
    BY <2>1, <2>2, <2>3 DEF TypeOK, proc
  <2>5. SystemAwake' /\ NeverLost'
    BY <1>1, <2>1, <2>2, <2>3 DEF SystemAwake, NeverLost, OffProcessor, User, proc, TypeOK
  <2>6. SystemOnce' /\ KernelRunnableIffPending'
    BY <1>1, <2>1, <2>2 DEF SystemOnce, OffProcessor, KernelRunnableIffPending, User, proc
  <2>7. NoOvertake' /\ KernelTarget' /\ CallInProgress'
    BY <1>1, <2>1 DEF NoOvertake, KernelTarget, CallInProgress, proc
  <2> QED BY <2>4, <2>5, <2>6, <2>7
<1>8. CASE SvcDelete(t)
  <2>1. /\ t \in User /\ t \in allocated \ {Kernel, Idle, Root}
        /\ allocated' = allocated \ {t}
        /\ UNCHANGED <<state, alarm, proc, softirq, kbuf, caller, waiter, panic, torn>>
        /\ kpc' \in {"clear", "return"} /\ queued' = Dequeue(queued, t)
    BY <1>8 DEF SvcDelete, User
  <2>2. /\ queued' \in [Thread -> Nat]
        /\ \A u \in Thread \ {t} : queued'[u] = queued[u]
    BY <2>1 DEF Dequeue, TypeOK
  <2>3. TypeOK'
    BY <2>1, <2>2 DEF TypeOK, proc
  <2>4. SystemAwake' /\ NeverLost'
    BY <2>1, <2>2 DEF SystemAwake, NeverLost, OffProcessor, proc, TypeOK
  <2>5. SystemOnce' /\ KernelRunnableIffPending'
    BY <2>1, <2>2 DEF SystemOnce, OffProcessor, KernelRunnableIffPending, User, proc
  <2>6. NoOvertake' /\ KernelTarget' /\ CallInProgress'
    BY <1>1, <2>1 DEF NoOvertake, KernelTarget, CallInProgress, proc
  <2> QED BY <2>3, <2>4, <2>5, <2>6
<1>9. CASE SvcReturn
  <2>1. UNCHANGED <<allocated, alarm, proc, softirq, kbuf, caller, waiter, panic, torn>>
        /\ kpc' = "clear" /\ set_thread_state(caller, "RUNNABLE")
    BY <1>9 DEF SvcReturn
  <2> QED BY <1>1, <1>2, <1>3, <2>1, SvcStateInv DEF SystemAwake, TypeOK
<1>10. CASE SvcNoPrivilege \/ SvcPanics
  <2>1. /\ UNCHANGED <<allocated, state, queued, alarm, current, target, pendsv, mode,
                       softirq, kbuf, caller, waiter, torn>>
        /\ kpc' \in {kpc, "clear"} /\ panic' \in {panic, "svc"}
    BY <1>10 DEF SvcNoPrivilege, SvcPanics, proc, kvars
  <2>2. TypeOK'
    BY <2>1 DEF TypeOK
  <2>3. SystemAwake' /\ NeverLost' /\ SystemOnce' /\ KernelRunnableIffPending'
    BY <2>1 DEF SystemAwake, NeverLost, SystemOnce, OffProcessor, KernelRunnableIffPending
  <2>4. NoOvertake' /\ KernelTarget' /\ CallInProgress'
    BY <2>1 DEF NoOvertake, KernelTarget, CallInProgress
  <2> QED BY <2>2, <2>3, <2>4
<1> QED BY <1>4, <1>5, <1>6, <1>7, <1>8, <1>9, <1>10 DEF SvcEnds

LEMMA SchedStep ==
  ASSUME SchedInv, [Next]_vars
  PROVE  SchedInv'
<1>1. ASSUME Stopped \/ UNCHANGED vars PROVE SchedInv'
  <2>1. UNCHANGED vars
    BY <1>1 DEF Stopped
  <2> QED BY <2>1 DEF vars, SchedInv, TypeOK, SystemAwake, NeverLost, SystemOnce,
             OffProcessor, KernelRunnableIffPending, NoOvertake, KernelTarget,
             CallInProgress
<1>2. ASSUME NEW t \in User, NEW to \in Thread \cup {NULL},
             SvcCall(t) \/ SvcYield(t, to) \/ SvcYieldAsserts(t) \/ HardFault(t)
      PROVE  SchedInv'
  BY <1>2, SvcCallInv, SvcYieldInv, HardFaultInv
<1>3. ASSUME NEW t \in Thread, TickReschedule \/ TickUnpause(t) \/ TickTimeout(t)
      PROVE  SchedInv'
  BY <1>3, TickInv
<1>4. ASSUME NEW t \in Thread, NEW phase \in {"send", "recv"},
             \/ SvcWake(t) \/ SvcWaits(t, phase) \/ SvcActivate(t)
             \/ SvcCreate(t) \/ SvcDelete(t) \/ SvcEnds
      PROVE  SchedInv'
  BY <1>4, SvcInv
<1>5. Kernel \in Thread /\ NULL \in Thread \cup {NULL}
  BY SchedAssumption
<1> QED BY <1>1, <1>2, <1>3, <1>4, <1>5, PendSVInv, KernelThreadInv, TornInv DEF Next

\* In every reachable state of the scheduler its inductive invariant holds,
\* which excepts a heap that a tick has torn in the middle of an unmasked
\* operation.
THEOREM SchedInvariant == Spec => []SchedInv
  BY SchedInit, SchedStep, PTL DEF Spec

\* Every variable of the kernel keeps its type; in particular caller is never
\* the kernel or the idle thread.
THEOREM SchedTypeCorrect == Spec => []TypeOK
<1>1. SchedInv => TypeOK
  BY DEF SchedInv
<1> QED BY <1>1, SchedInvariant, PTL

\* Until a tick strikes in the middle of an unmasked operation on the heap, a
\* runnable thread is on the processor or in the heap, between the two halves
\* of PendSV and after every tick too.
THEOREM SchedNeverLost == Spec => []NeverLost
<1>1. SchedInv => NeverLost
  BY DEF SchedInv
<1> QED BY <1>1, SchedInvariant, PTL

\* set_thread_state and schedule_next_thread never queue the kernel or the
\* idle thread twice, and lose neither, until a tick strikes in the middle of
\* an unmasked operation: the guard Heap!Insert assumes.
THEOREM SchedSystemOnce == Spec => []SystemOnce
<1>1. SchedInv => SystemOnce
  BY DEF SchedInv
<1> QED BY <1>1, SchedInvariant, PTL

\* softirq_schedule and the masked tail of softirq_execute lose no wakeup.
THEOREM SchedKernelWakeup == Spec => []KernelRunnableIffPending
<1>1. SchedInv => KernelRunnableIffPending
  BY DEF SchedInv
<1> QED BY <1>1, SchedInvariant, PTL

\* No thread but the kernel thread executes while a system call is pending and
\* the heap is not torn.
THEOREM SchedNoOvertake == Spec => []NoOvertake
<1>1. SchedInv => NoOvertake
  BY DEF SchedInv
<1> QED BY <1>1, SchedInvariant, PTL

\* find_thread_idx_to_schedule panics in a torn heap at most: otherwise the
\* idle thread is in the heap whenever PendSV picks.
THEOREM SchedSomeTask == Spec => []SomeTask
<1>1. SchedInv => SomeTask
  BY SchedAssumption DEF SchedInv, SomeTask, SystemOnce, SystemAwake, OffProcessor
<1> QED BY <1>1, SchedInvariant, PTL

\* The global caller is written by the SVC handler only, and only when the
\* system call of the former caller has been handled (in executions whose
\* heap is not torn).
THEOREM SchedSingleCaller == Spec => SingleCaller
<1>1. ASSUME SchedInv, [Next]_vars, caller' # caller
      PROVE  ~softirq
  <2>1. PICK t \in User : SvcCall(t)
    BY <1>1 DEF Next, vars, kvars, proc, SvcYield, SvcYieldAsserts, HardFault, TickReschedule,
       TickUnpause, TickTimeout, PendSV, PendSVEnter, PendSVInsert, PendSVPick,
       PendSVPanics, KernelThread, KernelRead, KernelBlocks, KernelClear, KernelYield,
       SvcWake, SvcWaits, SvcActivate, SvcCreate, SvcDelete, SvcEnds, SvcReturn,
       SvcNoPrivilege, SvcPanics, TickMisses, HeapTorn, Stopped
  <2> QED BY <1>1, <2>1, SchedAssumption DEF SvcCall, Executes, Runs, SchedInv, NoOvertake, User
<1>2. SchedInv /\ [Next]_vars => [caller' # caller => ~softirq]_caller
  BY <1>1
<1> QED BY <1>2, SchedInvariant, PTL DEF Spec, SingleCaller
=============================================================================
