--------------------------- MODULE ThreadControl ---------------------------
(***************************************************************************)
(* The system calls that make threads what they are: thread_control,        *)
(* space_control and schedule (kern/syscall), with the pool of address      *)
(* spaces of kern/memory.c and the list of the threads of a space that      *)
(* searches for local partners walk along (kern/syscall/ipc.c).  The        *)
(* kernel thread runs a handler to its end before the next, which           *)
(* Sched!NoOvertake shows until the heap is torn; of a thread's state there *)
(* is only whether it was made active.                                      *)
(*                                                                          *)
(* The calls are those of the programs of the repository: the root task     *)
(* (usr/root/root.c, exec.c) makes a second thread in its own space and     *)
(* threads for programs in theirs; any thread may ask for priorities, and   *)
(* die.  A flexpage has the number of the thread it is meant for.           *)
(***************************************************************************)
EXTENDS ThreadTable, Sequences, Functions

CONSTANTS
  MAX_ADDRESS_SPACES,
  Priorities        \* that programs ask for

Root == 3           \* the root task's number
NILTHREAD == 0
nilpage == 0
NoSlot == THREAD_MAX_COUNT
NoSpace == MAX_ADDRESS_SPACES
Spaces == 0 .. MAX_ADDRESS_SPACES - 1
IdlePriority == 255

ASSUME ControlAssumption ==
  /\ MAX_ADDRESS_SPACES \in Nat \ {0}
  /\ Priorities \subseteq 0 .. IdlePriority

(* Where UTCBs are put: in a page, at a multiple of UTCB_ALIGN.             *)
Locations == [page : Numbers, place : Nat]
Nowhere   == [page |-> nilpage, place |-> 0]

VARIABLES
  \* of each block: whether it was made active, its pager, its scheduler and
  \* its priority, where its UTCB is, its space and its neighbours there
  active, pager, scheduler, priority, utcb, as, next_sibling, prev_sibling,
  written,        \* what write_utcb left in its UTCB: its number and its pager
  as_allocated,   \* how many spaces are used; none is ever given back
  utcb_page, first_thread,   \* of each space
  answer,         \* the outcome of the last call: "ok" or its error
  halted          \* the kernel panicked

thread_vars == <<active, pager, scheduler, priority, utcb, as, next_sibling, prev_sibling, written>>
space_vars  == <<as_allocated, utcb_page, first_thread>>
vars == <<table_vars, thread_vars, space_vars, answer, halted>>

(* create_sys_threads: the root task has a UTCB and a pager, but no space.  *)
Init ==
  /\ TableInit
  /\ active = [s \in Slots |-> s <= RootSlot]
  /\ pager = [s \in Slots |-> IF s <= RootSlot THEN 1 ELSE NILTHREAD]
  /\ scheduler = pager
  /\ priority = [s \in Slots |-> CASE s = 1 -> IdlePriority [] s = RootSlot -> 42 [] OTHER -> 0]
  /\ utcb = [s \in Slots |-> IF s = RootSlot THEN [page |-> Root, place |-> 0] ELSE Nowhere]
  /\ as = [s \in Slots |-> NoSpace]
  /\ next_sibling = [s \in Slots |-> NoSlot] /\ prev_sibling = next_sibling
  /\ written = [s \in Slots |-> <<>>]
  /\ as_allocated = 0
  /\ utcb_page = [a \in Spaces |-> nilpage] /\ first_thread = [a \in Spaces |-> NoSlot]
  /\ answer = "ok"
  /\ halted = FALSE

-----------------------------------------------------------------------------
(* fpage_contains_object for a UTCB and a page of 512 bytes.                *)
fpage_contains_object(page, location) ==
  location.page = page /\ (location.place * 160) + 160 < 512

Lookup(no) == thread_map_find(no) \cap allocated
Exists(no) == Lookup(no) # {}
Block(no)  == CHOOSE s \in Lookup(no) : TRUE

(* The error returns of all handlers: nothing but the result changes.       *)
Refuse(code) ==
  /\ answer' = code
  /\ UNCHANGED <<table_vars, thread_vars, space_vars, halted>>

Panic == halted' = TRUE /\ UNCHANGED <<table_vars, thread_vars, space_vars, answer>>

Succeeds == answer' = "ok" /\ UNCHANGED halted

BadScheduler(no) == no # NILTHREAD /\ ~Exists(no)

(* A mutated form: the thread is made before the scheduler is looked at.    *)
Create_early(dest, space, sched, pgr, location) ==
  LET t == FreeSlot IN
  /\ create_thread(dest)
  /\ as' = [as EXCEPT ![t] = IF Exists(space) THEN as[Block(space)] ELSE NoSpace]
  /\ active' = [active EXCEPT ![t] = FALSE]
  /\ IF BadScheduler(sched) THEN answer' = "invalid_scheduler" /\ UNCHANGED halted
     ELSE Succeeds
  /\ UNCHANGED <<pager, scheduler, priority, utcb, next_sibling, prev_sibling, written, space_vars>>

(* syscall_thread_control_create, for a thread in a new space (space is     *)
(* dest) or in the one of another thread.  The thread behind the other one  *)
(* is not told of its new neighbour.                                        *)
Create(dest, space, sched, pgr, location) ==
  LET owner == IF Exists(space) THEN Block(space) ELSE NoSlot
      t     == FreeSlot
      own   == owner = NoSlot
  IN
  IF (own /\ space # dest) \/ (~own /\ as[owner] = NoSpace) THEN Refuse("invalid_space")
  ELSE IF BadScheduler(sched) THEN Refuse("invalid_scheduler")
  ELSE IF ~own /\ ~fpage_contains_object(utcb_page[as[owner]], location) THEN Refuse("kip_area")
  ELSE IF thread_count < THREAD_MAX_COUNT /\ allocated # Slots /\ ~NotPresent(dest) THEN Panic
  ELSE
    /\ create_thread(dest)
    /\ active' = [active EXCEPT ![t] = pgr # NILTHREAD /\ ~own]
    /\ pager' = [pager EXCEPT ![t] = pgr]
    /\ scheduler' = [scheduler EXCEPT ![t] = sched]
    /\ priority' = [priority EXCEPT ![t] = 42]
    /\ utcb' = [utcb EXCEPT ![t] = location]
    /\ written' = [written EXCEPT ![t] = <<>>]
    /\ as' = [as EXCEPT ![t] = IF own THEN NoSpace ELSE as[owner]]
    /\ IF own THEN UNCHANGED <<next_sibling, prev_sibling>>
       ELSE /\ next_sibling' = [next_sibling EXCEPT ![t] = next_sibling[owner], ![owner] = t]
            /\ prev_sibling' = [prev_sibling EXCEPT ![t] = owner]
    /\ Succeeds
    /\ UNCHANGED space_vars

(* write_utcb, for a thread with these values.                              *)
Written(no, pgr) == <<no, pgr>>

(* syscall_thread_control_modify.  A UTCB that is to stay where it is fails *)
(* the check, like any other place outside the page.                        *)
Modify(dest, space, sched, pgr, location) ==
  IF ~Exists(space) THEN Refuse("invalid_space")
  ELSE IF BadScheduler(sched) THEN Refuse("invalid_scheduler")
  ELSE IF ~fpage_contains_object(utcb_page[as[Block(space)]], location) THEN Refuse("utcb_area")
  ELSE
    LET t == Block(dest)
        p == IF pgr # NILTHREAD THEN pgr ELSE pager[t]
    IN
    /\ as' = [as EXCEPT ![t] = as[Block(space)]]
    /\ scheduler' = IF sched # NILTHREAD THEN [scheduler EXCEPT ![t] = sched] ELSE scheduler
    /\ pager' = [pager EXCEPT ![t] = p]
    /\ utcb' = [utcb EXCEPT ![t] = location]
    /\ written' = [written EXCEPT ![t] = Written(dest, p)]
    /\ Succeeds
    /\ UNCHANGED <<table_vars, active, priority, next_sibling, prev_sibling, space_vars>>

(* A mutated form: the thread before the deleted one keeps its neighbour.   *)
delete_thread_kept(t) ==
  /\ thread_list_delete(t)
  /\ UNCHANGED next_sibling
  /\ prev_sibling' = IF next_sibling[t] # NoSlot
                     THEN [prev_sibling EXCEPT ![next_sibling[t]] = prev_sibling[t]] ELSE prev_sibling
  /\ UNCHANGED <<active, pager, scheduler, priority, utcb, as, written, space_vars>>

(* delete_thread: the space stays allocated, also without threads, and      *)
(* first_thread stays what it is.                                           *)
delete_thread(t) ==
  /\ thread_list_delete(t)
  /\ prev_sibling' = IF next_sibling[t] # NoSlot
                     THEN [prev_sibling EXCEPT ![next_sibling[t]] = prev_sibling[t]] ELSE prev_sibling
  /\ next_sibling' = IF prev_sibling[t] # NoSlot
                     THEN [next_sibling EXCEPT ![prev_sibling[t]] = next_sibling[t]] ELSE next_sibling
  /\ UNCHANGED <<active, pager, scheduler, priority, utcb, as, written, space_vars>>

(* syscall_thread_control_delete *)
Delete(dest) ==
  IF Block(dest) = RootSlot THEN Panic ELSE delete_thread(Block(dest)) /\ Succeeds

syscall_thread_control(dest, space, sched, pgr, location) ==
  CASE dest # NILTHREAD /\ dest < Root      -> Refuse("no_privilege")
    [] dest >= Root /\ Exists(dest)         ->
         IF space = NILTHREAD THEN Delete(dest) ELSE Modify(dest, space, sched, pgr, location)
    [] OTHER                                ->
         IF space = NILTHREAD THEN Refuse("invalid_space") ELSE Create(dest, space, sched, pgr, location)

-----------------------------------------------------------------------------
(* create_as and alloc_as: the next space, which begins with this thread.   *)
create_as(t) ==
  /\ as_allocated' = as_allocated + 1
  /\ first_thread' = [first_thread EXCEPT ![as_allocated] = t]
  /\ as' = [as EXCEPT ![t] = as_allocated]
  /\ next_sibling' = [next_sibling EXCEPT ![t] = NoSlot]
  /\ prev_sibling' = [prev_sibling EXCEPT ![t] = NoSlot]

(* A mutated form: a thread is active wherever its UTCB is.                 *)
Activate_anyway(t, area) ==
  /\ written' = [written EXCEPT ![t] = Written(global_id[t], pager[t])]
  /\ active' = [active EXCEPT ![t] = TRUE]

(* The end of syscall_space_control: a thread with a pager and with its     *)
(* UTCB in the area is made active.                                         *)
Activate(t, area) ==
  IF area # nilpage /\ fpage_contains_object(area, utcb[t]) /\ pager[t] # NILTHREAD
  THEN /\ written' = [written EXCEPT ![t] = Written(global_id[t], pager[t])]
       /\ active' = [active EXCEPT ![t] = TRUE]
  ELSE UNCHANGED <<written, active>>

(* syscall_space_control.  In a space that has a page already the error is  *)
(* set, but the page is changed all the same and the call succeeds.         *)
syscall_space_control(space, kip_ok, area) ==
  IF ~Exists(space) THEN Refuse("invalid_space")
  ELSE IF ~kip_ok THEN Refuse("kip_area")
  ELSE
    LET t == Block(space)
        a == IF as[t] = NoSpace THEN as_allocated ELSE as[t]
    IN
    IF a = NoSpace THEN Panic
    ELSE
      /\ IF as[t] = NoSpace THEN create_as(t)
         ELSE UNCHANGED <<as_allocated, first_thread, as, next_sibling, prev_sibling>>
      /\ utcb_page' = [utcb_page EXCEPT ![a] = area]
      /\ Activate(t, area)
      /\ Succeeds
      /\ UNCHANGED <<table_vars, pager, scheduler, priority, utcb>>

(* A mutated form: any scheduler will do.                                   *)
MaySchedule_any(c, dest) == Exists(dest) /\ Exists(scheduler[Block(dest)])

(* The caller's space must be that of the thread's scheduler.               *)
MaySchedule(c, dest) ==
  /\ Exists(dest)
  /\ Exists(scheduler[Block(dest)]) /\ as[Block(scheduler[Block(dest)])] = as[c]

(* syscall_schedule by the thread in block c.                               *)
syscall_schedule(c, dest, processor_ok, prio) ==
  IF ~Exists(dest) THEN Refuse("invalid_thread")
  ELSE IF ~MaySchedule(c, dest) THEN Refuse("no_privilege")
  ELSE IF ~processor_ok \/ priority[c] > prio THEN Refuse("invalid_parameter")
  ELSE
    /\ priority' = [priority EXCEPT ![Block(dest)] = prio]
    /\ Succeeds
    /\ UNCHANGED <<table_vars, active, pager, scheduler, utcb, as, next_sibling, prev_sibling, written,
                   space_vars>>

-----------------------------------------------------------------------------
Living == {global_id[s] : s \in allocated} \ {1, 2}
New    == {next_thread_no} \cap Users
Places == {1, 3}   \* the second one does not fit into the page

NoOne  == L4_THREAD_COUNT    \* a number that no thread has

(* What the root task asks for: a thread in its own space, once, and then   *)
(* threads in new ones, with itself as the pager; other values for a thread *)
(* that has a space; or the end of a thread, its own when it gives up.      *)
ThreadControl ==
  \E dest \in New \cup Living \cup {1}, sched \in {NILTHREAD, Root, NoOne},
     pgr \in {NILTHREAD, Root}, place \in Places :
  \E space \in {NILTHREAD, dest, Root} :
    /\ dest \in New => (space = Root) = (dest = Root + 1)
    /\ dest \in Living /\ space # NILTHREAD =>
         Exists(space) /\ as[Block(space)] # NoSpace /\ as[Block(space)] = as[Block(dest)]
    /\ dest = Root => space = NILTHREAD
    /\ syscall_thread_control(dest, space, sched, pgr,
                              [page |-> IF space = NILTHREAD THEN dest ELSE space, place |-> place])

(* It prepares its own space, and that of each program, for the UTCB.       *)
SpaceControl ==
  \E no \in New \cup Living, kip_ok \in BOOLEAN :
    /\ Exists(no) => as[Block(no)] \in {NoSpace} \cup {a \in Spaces : utcb_page[a] \in {nilpage, no}}
    /\ syscall_space_control(no, kip_ok, IF Exists(no) THEN utcb[Block(no)].page ELSE no)

(* Any thread that has a space may ask for a priority.                      *)
Schedule ==
  \E c \in allocated, dest \in Living \cup New \cup {1, 2}, processor_ok \in BOOLEAN, prio \in Priorities :
    active[c] /\ as[c] # NoSpace /\ syscall_schedule(c, dest, processor_ok, prio)

(* kill_romfs_thread and the hard faults of running threads.                *)
Dies ==
  /\ \E t \in allocated \ (0 .. RootSlot) : active[t] /\ delete_thread(t)
  /\ UNCHANGED <<answer, halted>>

Next == ~halted /\ (ThreadControl \/ SpaceControl \/ Schedule \/ Dies)

Spec == Init /\ [][Next]_vars

-----------------------------------------------------------------------------
TypeOK ==
  /\ active \in [Slots -> BOOLEAN]
  /\ pager \in [Slots -> Numbers] /\ scheduler \in [Slots -> Numbers]
  /\ priority \in [Slots -> 0 .. IdlePriority]
  /\ \A s \in Slots : utcb[s] \in Locations
  /\ as \in [Slots -> Spaces \cup {NoSpace}]
  /\ next_sibling \in [Slots -> Slots \cup {NoSlot}]
  /\ prev_sibling \in [Slots -> Slots \cup {NoSlot}]
  /\ as_allocated \in 0 .. MAX_ADDRESS_SPACES

(* A thread that may be sent its start message is ready for it, in whatever *)
(* order and with whatever errors thread_control and space_control were     *)
(* called: it has a space with its UTCB inside the page for UTCBs, it has a *)
(* pager, and what write_utcb has put into the UTCB is still true.          *)
Ready ==
  \A t \in allocated \ (0 .. RootSlot) :
    /\ active[t] => /\ as[t] # NoSpace /\ fpage_contains_object(utcb_page[as[t]], utcb[t])
                    /\ pager[t] # NILTHREAD
    /\ written[t] # <<>> => written[t] = Written(global_id[t], pager[t])
Prepared == TypeOK /\ Ready

(* find_ipc_partner_anylocal walks from the first thread of a space along   *)
(* next_sibling.                                                            *)
Walk(a) ==
  LET from[t \in Slots \cup {NoSlot}, n \in 0 .. THREAD_MAX_COUNT] ==
        IF t = NoSlot \/ n = 0 THEN {} ELSE {t} \cup from[next_sibling[t], n - 1]
  IN from[first_thread[a], THREAD_MAX_COUNT]

(* Up to the first death, and through all reuse of its block, a search for  *)
(* local partners meets the living threads of the space, all of them and no *)
(* others, although delete_thread leaves first_thread alone, blocks are     *)
(* used again with old links in them, and a new thread is not made known to *)
(* the one behind it.                                                       *)
Siblings ==
  deaths <= 1 =>
    \A a \in Spaces :
      LET members == {t \in allocated : as[t] = a} IN
      members # {} => Walk(a) = members

(* A handler that returns an error has changed nothing: its checks come     *)
(* first, which thread_control.c says of one of them.                       *)
RefusedUnchanged ==
  [][answer' # answer /\ answer' # "ok" => UNCHANGED <<table_vars, thread_vars, space_vars>>]_vars

(* The run queue's promise to the kernel rests on the priorities of the     *)
(* kernel and idle threads: no sequence of calls to schedule changes these, *)
(* and nobody becomes more urgent than the root was.                       *)
UrgencyKept ==
  /\ priority[0] = 0 /\ priority[1] = IdlePriority
  /\ \A t \in allocated \ {0, 1} : priority[t] >= 42
=============================================================================
