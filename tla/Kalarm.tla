------------------------------- MODULE Kalarm -------------------------------
(***************************************************************************)
(* kern/kalarm.c: the list of alarms, at the level of its prev and next    *)
(* pointers, and the places of the kernel that use it: thread_switch       *)
(* (pause_thread), IPC timeouts (set_thread_timeout), every PendSV, which  *)
(* moves the reschedule alarm, and SysTick, which fires the due alarms.    *)
(*                                                                         *)
(* Every change of the list is masked or made by a handler that nothing    *)
(* preempts which uses the list, so each is one step.  kassert is enabled. *)
(* Times are kept relative to current_time; an event that is due stays at  *)
(* 0 or -1, which find_insertion_point and has_pending_kalarm do not tell  *)
(* from earlier ones as long as every new time lies in the future.         *)
(***************************************************************************)
EXTENDS Integers, FiniteSets

CONSTANTS
  Thread,       \* every thread has one event, kevent
  Resched,      \* reschedule_event
  NULL,
  QUANTUM,      \* ticks to the next reschedule, 10 in the code
  Programs      \* what may run: the threads, and the finite IPC timeouts
                \* in ticks that they use

ASSUME KalarmAssumption ==
  /\ IsFiniteSet(Thread)
  /\ Resched \notin Thread /\ NULL \notin Thread /\ NULL # Resched
  /\ QUANTUM \in Nat \ {0, 1}
  /\ Programs \subseteq [threads : SUBSET Thread, timeouts : SUBSET (0 .. QUANTUM)]

Event == Thread \cup {Resched}

VARIABLES
  program,      \* the one of Programs that runs
  head,         \* next_event
  prev, next,   \* the links of every event
  left,         \* when - current_time, not below -1
  state,        \* of every thread: awake, paused or waiting for a partner
  runs,         \* user code, or the kernel thread handling a system call
  blocks,       \* the thread do_ipc is about to block, or NULL
  pendsv,       \* a switch is pending
  tick,         \* SysTick executes
  panic         \* an assertion that failed, or an endless loop

list == <<head, prev, next, left>>
vars == <<program, list, state, runs, blocks, pendsv, tick, panic>>

Init ==
  /\ program \in Programs
  /\ head = NULL
  /\ prev = [e \in Event |-> NULL] /\ next = [e \in Event |-> NULL]
  /\ left = [e \in Event |-> 0]
  /\ state = [t \in Thread |-> "awake"]
  /\ runs = "user" /\ blocks = NULL /\ pendsv = TRUE
  /\ tick = FALSE
  /\ panic = "no"
-----------------------------------------------------------------------------
\* The event n links behind the head.
Node[n \in 0 .. Cardinality(Event)] ==
  IF n = 0 THEN head
  ELSE IF Node[n - 1] = NULL THEN NULL ELSE next[Node[n - 1]]

Listed == {Node[n] : n \in DOMAIN Node} \ {NULL}

\* The mutated forms each change one operation the way a slip in the code
\* would; they are used only to show that the properties can fail.
\* The comparison of find_insertion_point turned round.
StopsReversed(due, w) == {n \in DOMAIN Node : Node[n] = NULL \/ due[Node[n]] < w}

\* Where find_insertion_point may stop; nowhere when the list is a cycle of
\* earlier events.
Stops(due, w) == {n \in DOMAIN Node : Node[n] = NULL \/ due[Node[n]] >= w}

First(S) == CHOOSE n \in S : \A k \in S : n <= k

Set(f, p, v) == IF p = NULL THEN f ELSE [f EXCEPT ![p] = v]

\* register_kalarm_event: ev is linked in front of old, but its own next
\* pointer is not set.
Register(ev, w) ==
  LET due == [left EXCEPT ![ev] = w]
      stops == Stops(due, w)
      n == First(stops)
      old == Node[n]
      linked == IF n = 0 THEN next ELSE [next EXCEPT ![Node[n - 1]] = ev]
  IN IF stops = {} THEN panic' = "loop" /\ UNCHANGED list
     ELSE IF old = ev THEN panic' = "register" /\ UNCHANGED list
     ELSE /\ left' = due
          /\ head' = IF n = 0 THEN ev ELSE head
          /\ prev' = LET p == [prev EXCEPT ![ev] = old]
                     IN IF old = NULL THEN p ELSE Set(p, linked[old], ev)
          /\ next' = Set(linked, old, ev)
          /\ UNCHANGED panic

\* update_kalarm_event: the insertion point is found before the event is
\* unlinked, and may be the event's own next pointer.
Update(ev, w) ==
  LET stops == Stops(left, w)
      at == IF First(stops) = 0 THEN NULL ELSE Node[First(stops) - 1]
      p1 == Set(prev, next[ev], prev[ev])
      n1 == Set(next, p1[ev], next[ev])
      h1 == IF head = ev THEN n1[ev] ELSE head
      old == IF at = NULL THEN h1 ELSE n1[at]
      p2 == [p1 EXCEPT ![ev] = old]
      n2 == [n1 EXCEPT ![ev] = IF old = NULL THEN NULL ELSE n1[old]]
  IN IF stops = {} THEN panic' = "loop" /\ UNCHANGED list
     ELSE /\ left' = [left EXCEPT ![ev] = w]
          /\ prev' = Set(p2, old, ev)
          /\ next' = Set(n2, at, ev)
          /\ head' = IF at = NULL THEN ev ELSE h1
          /\ UNCHANGED panic
-----------------------------------------------------------------------------
Executes(who) == panic = "no" /\ ~tick /\ ~pendsv /\ runs = who

\* thread_switch: pause_thread until the next tick, behind its assertion.
Pause(t) ==
  /\ Executes("user") /\ state[t] = "awake"
  /\ IF prev[t] = NULL /\ next[t] = NULL
       THEN /\ Register(t, 1)
            /\ state' = [state EXCEPT ![t] = "paused"]
       ELSE /\ panic' = "pause"
            /\ UNCHANGED <<list, state>>
  /\ pendsv' = TRUE
  /\ UNCHANGED <<program, runs, blocks, tick>>

\* Any other system call, and the end of its handling.
Call ==
  /\ Executes("user")
  /\ runs' = "kernel" /\ pendsv' = TRUE
  /\ UNCHANGED <<program, list, state, blocks, tick, panic>>

Return ==
  /\ Executes("kernel") /\ blocks = NULL
  /\ runs' = "user" /\ pendsv' = TRUE
  /\ UNCHANGED <<program, list, state, blocks, tick, panic>>

\* set_thread_timeout: data, type and when are overwritten, the links kept.
Timeout(t, d) ==
  /\ Executes("kernel") /\ blocks = NULL /\ state[t] = "awake"
  /\ Register(t, d)
  /\ state' = [state EXCEPT ![t] = "waits"]
  /\ blocks' = t
  /\ UNCHANGED <<program, runs, pendsv, tick>>

\* do_ipc sets the state again, after interrupts were enabled.
Block ==
  /\ Executes("kernel") /\ blocks # NULL
  /\ state' = [state EXCEPT ![blocks] = "waits"]
  /\ blocks' = NULL
  /\ UNCHANGED <<program, list, runs, pendsv, tick, panic>>

\* A partner releases the thread; its alarm stays.
Answer(t) ==
  /\ Executes("kernel") /\ blocks = NULL /\ state[t] = "waits"
  /\ state' = [state EXCEPT ![t] = "awake"]
  /\ UNCHANGED <<program, list, runs, blocks, pendsv, tick, panic>>

\* The masked part of schedule_next_thread.
PendSV ==
  /\ panic = "no" /\ ~tick /\ pendsv
  /\ Update(Resched, QUANTUM)
  /\ pendsv' = FALSE
  /\ UNCHANGED <<program, state, runs, blocks, tick>>
-----------------------------------------------------------------------------
\* __isr_systick
Tick ==
  /\ panic = "no" /\ ~tick
  /\ left' = [e \in Event |-> IF left[e] > -1 THEN left[e] - 1 ELSE -1]
  /\ tick' = TRUE
  /\ UNCHANGED <<program, head, prev, next, state, runs, blocks, pendsv, panic>>

Due == head # NULL /\ left[head] <= 0

\* The popped event keeps its links.
FireKeepsLinks ==
  /\ panic = "no" /\ tick /\ Due
  /\ prev' = Set(prev, next[head], NULL)
  /\ head' = next[head]
  /\ state' = [t \in Thread |-> IF t = head THEN "awake" ELSE state[t]]
  /\ pendsv' = (pendsv \/ head = Resched \/ state[head] = "paused")
  /\ UNCHANGED <<program, next, left, runs, blocks, tick, panic>>


\* pop_kalarm_event and the handler of the event.
Fire ==
  /\ panic = "no" /\ tick /\ Due
  /\ LET rest == next[head]
         p == Set(prev, rest, NULL)
     IN /\ prev' = [p EXCEPT ![head] = NULL]
        /\ next' = [next EXCEPT ![head] = NULL]
        /\ head' = rest
  /\ state' = [t \in Thread |-> IF t = head THEN "awake" ELSE state[t]]
  /\ pendsv' = (pendsv \/ head = Resched \/ state[head] = "paused")
  /\ UNCHANGED <<program, left, runs, blocks, tick, panic>>

TickEnds ==
  /\ panic = "no" /\ tick /\ ~Due
  /\ tick' = FALSE
  /\ UNCHANGED <<program, list, state, runs, blocks, pendsv, panic>>

Panicked == panic # "no" /\ UNCHANGED vars

Next ==
  \/ \E t \in program.threads : Pause(t)
  \/ Call
  \/ Return
  \/ \E t \in program.threads, d \in program.timeouts : Timeout(t, d)
  \/ Block
  \/ \E t \in Thread : Answer(t)
  \/ PendSV
  \/ Tick
  \/ Fire
  \/ TickEnds
  \/ Panicked

Spec == Init /\ [][Next]_vars

\* SysTick keeps coming and each of its steps is executed.
FairSpec ==
  Spec /\ WF_vars(Tick) /\ WF_vars(Fire) /\ WF_vars(TickEnds)
-----------------------------------------------------------------------------
\* Every variable keeps its type: the links are events, alarms lie at most
\* QUANTUM ticks ahead, and one of three assertions or loops is the only way
\* the list operations stop the machine.
TypeOK ==
  /\ program \in Programs
  /\ head \in Event \cup {NULL}
  /\ prev \in [Event -> Event \cup {NULL}]
  /\ next \in [Event -> Event \cup {NULL}]
  /\ left \in [Event -> -1 .. QUANTUM]
  /\ state \in [Thread -> {"awake", "paused", "waits"}]
  /\ runs \in {"user", "kernel"}
  /\ blocks \in Thread \cup {NULL}
  /\ pendsv \in BOOLEAN /\ tick \in BOOLEAN
  /\ panic \in {"no", "pause", "register", "loop"}

\* When only one thread yields, it is in the list of alarms while it is paused,
\* so a tick will call unpause_thread for it, whatever its IPC timeouts and the
\* moves of the reschedule alarm did to the links meanwhile.
Alone == Cardinality(program.threads) = 1
SleepersListed ==
  Alone /\ panic = "no" => \A t \in Thread : state[t] = "paused" => t \in Listed

\* Without timeouts, which leave the events of answered calls behind, neither
\* the assertion of pause_thread nor the one of register_kalarm_event fails,
\* and find_insertion_point always returns: kassert(*ins_ptr != ev).
NoAssertion == program.timeouts = {} => panic = "no"

\* The walk of find_insertion_point from next_event ends, and meets the events
\* in the order of their times: what has_pending_kalarm relies on when it
\* looks at the first event only.
Sorted ==
  program.timeouts = {} =>
    /\ \E n \in DOMAIN Node : Node[n] = NULL
    /\ \A n \in 1 .. Cardinality(Event) :
         Node[n] # NULL => left[Node[n - 1]] <= left[Node[n]]

\* The list of alarms at every step of its users: well-typed; without a cycle
\* and in order when there are no timeouts; and holding a lone sleeper.
ListInv == TypeOK /\ Sorted /\ SleepersListed

=============================================================================
