------------------------- MODULE ThreadControlProofs -------------------------
(***************************************************************************)
(* Proofs about the system calls that make threads what they are, for every *)
(* number of blocks, threads, address spaces and deaths.                    *)
(***************************************************************************)
EXTENDS ThreadControl, WellFoundedInduction, TLAPS

System == {0, 1}    \* the blocks of the kernel thread and the idle thread

(* The system threads keep their blocks and their numbers, which no other   *)
(* block has; they are their own schedulers and have no address space.      *)
SystemApart ==
  /\ System \subseteq allocated /\ allocated \subseteq Slots
  /\ global_id \in [Slots -> Int] /\ global_id[0] = 1 /\ global_id[1] = 2
  /\ \A s \in Slots \ System : global_id[s] \notin {1, 2}
  /\ scheduler \in [Slots -> Int] /\ \A s \in System : scheduler[s] = 1
  /\ DOMAIN as = Slots /\ \A s \in System : as[s] = NoSpace
  /\ priority \in [Slots -> Nat]

ApartInv == SystemApart /\ UrgencyKept

(* The lowest free block, if there is one.                                  *)
LEMMA FreeSlotFree ==
  ASSUME allocated # Slots, allocated \subseteq Slots
  PROVE  FreeSlot \in Slots \ allocated
<1> DEFINE free == Slots \ allocated
           less == {p \in Nat \X Nat : p[1] < p[2]}
<1>1. free # {}
  OBVIOUS
<1>2. free \subseteq Nat
  BY TableAssumption DEF Slots
<1>3. IsWellFoundedOn(less, Nat)
  BY NatLessThanWellFounded, Zenon DEF OpToRel
<1>4. PICK x \in free : \A y \in free : <<y, x>> \notin less
  <2> HIDE DEF free, less
  <2> QED BY <1>1, <1>2, <1>3, WFMin
<1>5. ASSUME NEW y \in free PROVE x <= y
  <2>1. x \in Nat /\ y \in Nat
    BY <1>2
  <2>2. <<y, x>> \in Nat \X Nat /\ <<y, x>>[1] = y /\ <<y, x>>[2] = x
    BY <2>1
  <2>3. ~ (y < x)
    BY <1>4, <2>2
  <2> QED BY <2>1, <2>3
<1> QED BY <1>5 DEF FreeSlot, Min

(* A lookup returns a block with the number that was looked for.            *)
LEMMA LookupNumber ==
  ASSUME NEW no, Exists(no)
  PROVE  Block(no) \in allocated /\ Block(no) \in Slots /\ global_id[Block(no)] = no
<1>1. Block(no) \in Lookup(no)
  BY DEF Exists, Block
<1> QED BY <1>1 DEF Lookup, thread_map_find

(* So the system threads' blocks are found under their own numbers only.    *)
LEMMA LookupApart ==
  ASSUME SystemApart, NEW no, Exists(no), no \notin {1, 2}
  PROVE  Block(no) \in Slots \ System
<1>1. Block(no) \in Slots /\ global_id[Block(no)] = no
  BY LookupNumber
<1> QED BY <1>1 DEF SystemApart, System

LEMMA ApartInit == Init => ApartInv
<1> SUFFICES ASSUME Init PROVE ApartInv
  OBVIOUS
<1> USE TableAssumption, ControlAssumption DEF Init, TableInit, Slots, RootSlot, System, IdlePriority
<1>1. SystemApart
  BY DEF SystemApart, NILTHREAD
<1>2. UrgencyKept
  BY DEF UrgencyKept
<1> QED BY <1>1, <1>2 DEF ApartInv

(* Whatever leaves these variables alone but for the death of a thread that *)
(* is not the system's.                                                     *)
LEMMA ApartKept ==
  ASSUME ApartInv, UNCHANGED <<global_id, scheduler, as, priority>>,
         \/ allocated' = allocated
         \/ \E t \in Slots \ System : allocated' = allocated \ {t}
  PROVE  ApartInv'
BY DEF ApartInv, SystemApart, UrgencyKept, System

LEMMA ApartRefuse ==
  ASSUME ApartInv, NEW code, Refuse(code)
  PROVE  ApartInv'
BY ApartKept DEF Refuse, table_vars, thread_vars, space_vars

LEMMA ApartCreate ==
  ASSUME ApartInv, NEW dest, NEW space, NEW sched \in Int, NEW pgr, NEW location,
         dest \in Int \ {1, 2}, Create(dest, space, sched, pgr, location)
  PROVE  ApartInv'
<1> USE DEF ApartInv
<1>1. ASSUME NEW code, Refuse(code) PROVE ApartInv'
  BY <1>1, ApartRefuse
<1>2. ASSUME create_thread(dest),
             scheduler' = [scheduler EXCEPT ![FreeSlot] = sched],
             priority' = [priority EXCEPT ![FreeSlot] = 42],
             \E a : as' = [as EXCEPT ![FreeSlot] = a]
      PROVE  ApartInv'
  <2>1. FreeSlot \in Slots \ allocated
    BY <1>2, FreeSlotFree DEF create_thread, SystemApart
  <2>2. /\ allocated' = allocated \cup {FreeSlot}
        /\ global_id' = [global_id EXCEPT ![FreeSlot] = dest]
    BY <1>2 DEF create_thread
  <2>3. FreeSlot \notin System
    BY <2>1 DEF SystemApart
  <2>4. SystemApart'
    BY <1>2, <2>1, <2>2, <2>3 DEF SystemApart, System
  <2>5. UrgencyKept'
    BY <1>2, <2>1, <2>2, <2>3 DEF SystemApart, UrgencyKept, System
  <2> QED BY <2>4, <2>5
<1>3. ASSUME Panic PROVE ApartInv'
  BY <1>3, ApartKept DEF Panic, table_vars, thread_vars, space_vars
<1> QED BY <1>1, <1>2, <1>3 DEF Create

LEMMA ApartModify ==
  ASSUME ApartInv, NEW dest, NEW space, NEW sched \in Int, NEW pgr, NEW location,
         Exists(dest), dest \notin {1, 2}, Modify(dest, space, sched, pgr, location)
  PROVE  ApartInv'
<1> USE DEF ApartInv
<1>1. ASSUME NEW code, Refuse(code) PROVE ApartInv'
  BY <1>1, ApartRefuse
<1>2. ASSUME \E a : as' = [as EXCEPT ![Block(dest)] = a],
             scheduler' = IF sched # NILTHREAD THEN [scheduler EXCEPT ![Block(dest)] = sched] ELSE scheduler,
             UNCHANGED <<allocated, global_id, priority>>
      PROVE  ApartInv'
  <2>1. Block(dest) \in Slots \ System
    BY LookupApart
  <2>2. SystemApart'
    BY <1>2, <2>1 DEF SystemApart, System
  <2>3. UrgencyKept'
    BY <1>2 DEF UrgencyKept
  <2> QED BY <2>2, <2>3
<1> QED BY <1>1, <1>2 DEF Modify, table_vars

LEMMA ApartDelete ==
  ASSUME ApartInv, NEW t \in Slots \ System, delete_thread(t)
  PROVE  ApartInv'
BY ApartKept DEF delete_thread, thread_list_delete

LEMMA ApartThreadControl == ASSUME ApartInv, ThreadControl PROVE ApartInv'
<1> USE DEF ApartInv
<1>1. PICK dest \in New \cup Living \cup {1}, sched \in {NILTHREAD, Root, NoOne},
           pgr \in {NILTHREAD, Root}, place \in Places :
        \E space \in {NILTHREAD, dest, Root} :
          syscall_thread_control(dest, space, sched, pgr,
                                 [page |-> IF space = NILTHREAD THEN dest ELSE space, place |-> place])
  BY DEF ThreadControl
<1>2. PICK space \in {NILTHREAD, dest, Root} :
        syscall_thread_control(dest, space, sched, pgr,
                               [page |-> IF space = NILTHREAD THEN dest ELSE space, place |-> place])
  BY <1>1
<1> DEFINE location == [page |-> IF space = NILTHREAD THEN dest ELSE space, place |-> place]
<1>3. dest \in Int /\ sched \in Int
  BY TableAssumption DEF New, Living, Users, SystemApart, NILTHREAD, Root, NoOne
<1>4. CASE dest # NILTHREAD /\ dest < Root
  <2>1. ~ (dest >= Root /\ Exists(dest))
    BY <1>3, <1>4 DEF Root
  <2>2. Refuse("no_privilege")
    BY <1>2, <1>4, <2>1 DEF syscall_thread_control
  <2> QED BY <2>2, ApartRefuse
<1>5. CASE dest >= Root /\ Exists(dest)
  <2>1. dest \notin {1, 2} /\ ~ (dest # NILTHREAD /\ dest < Root)
    BY <1>3, <1>5 DEF Root
  <2>2. CASE space = NILTHREAD
    <3>1. Delete(dest)
      BY <1>2, <1>5, <2>1, <2>2 DEF syscall_thread_control
    <3>2. CASE Panic
      BY <3>2, ApartKept DEF Panic, table_vars, thread_vars, space_vars
    <3>3. CASE delete_thread(Block(dest))
      BY <1>5, <2>1, <3>3, LookupApart, ApartDelete
    <3> QED BY <3>1, <3>2, <3>3 DEF Delete
  <2>3. CASE space # NILTHREAD
    <3>1. Modify(dest, space, sched, pgr, location)
      BY <1>2, <1>5, <2>1, <2>3 DEF syscall_thread_control
    <3> HIDE DEF location
    <3> QED BY <1>3, <1>5, <2>1, <3>1, ApartModify
  <2> QED BY <2>2, <2>3
<1>6. CASE ~ (dest # NILTHREAD /\ dest < Root) /\ ~ (dest >= Root /\ Exists(dest))
  <2>1. dest \notin {1, 2}
    BY <1>6 DEF NILTHREAD, Root
  <2>2. CASE Refuse("invalid_space")
    BY <2>2, ApartRefuse
  <2>3. CASE Create(dest, space, sched, pgr, location)
    <3> HIDE DEF location
    <3> QED BY <1>3, <2>1, <2>3, ApartCreate
  <2> QED BY <1>2, <1>6, <2>2, <2>3 DEF syscall_thread_control
<1> QED BY <1>4, <1>5, <1>6

LEMMA ApartSpaceControl == ASSUME ApartInv, SpaceControl PROVE ApartInv'
<1> USE DEF ApartInv
<1>1. PICK no \in New \cup Living, kip_ok \in BOOLEAN :
        syscall_space_control(no, kip_ok, IF Exists(no) THEN utcb[Block(no)].page ELSE no)
  BY DEF SpaceControl
<1>2. no \notin {1, 2}
  BY TableAssumption DEF New, Living, Users
<1>3. ASSUME NEW code, Refuse(code) PROVE ApartInv'
  BY <1>3, ApartRefuse
<1>4. CASE Panic
  BY <1>4, ApartKept DEF Panic, table_vars, thread_vars, space_vars
<1>5. ASSUME Exists(no), UNCHANGED <<table_vars, scheduler, priority>>,
             create_as(Block(no)) \/ UNCHANGED as
      PROVE  ApartInv'
  <2>1. Block(no) \in Slots \ System
    BY <1>2, <1>5, LookupApart
  <2>2. UNCHANGED <<allocated, global_id, scheduler, priority>>
    BY <1>5 DEF table_vars
  <2>3. as' = as \/ as' = [as EXCEPT ![Block(no)] = as_allocated]
    BY <1>5 DEF create_as
  <2>4. SystemApart'
    BY <2>1, <2>2, <2>3 DEF SystemApart, System
  <2>5. UrgencyKept'
    BY <2>2 DEF UrgencyKept
  <2> QED BY <2>4, <2>5
<1> QED BY <1>1, <1>3, <1>4, <1>5 DEF syscall_space_control

(* The caller has a space, the schedulers of the system threads have none.  *)
LEMMA ApartSchedule == ASSUME ApartInv, Schedule PROVE ApartInv'
<1> USE DEF ApartInv
<1>1. PICK c \in allocated, dest \in Living \cup New \cup {1, 2}, processor_ok \in BOOLEAN,
           prio \in Priorities :
        as[c] # NoSpace /\ syscall_schedule(c, dest, processor_ok, prio)
  BY Zenon DEF Schedule
<1>2. ASSUME NEW code, Refuse(code) PROVE ApartInv'
  BY <1>2, ApartRefuse
<1>3. ASSUME Exists(dest), MaySchedule(c, dest), ~ (priority[c] > prio),
             priority' = [priority EXCEPT ![Block(dest)] = prio],
             UNCHANGED <<table_vars, scheduler, as>>
      PROVE  ApartInv'
  <2>1. c \in Slots \ System /\ c \notin System
    BY <1>1 DEF SystemApart
  <2>2. Block(dest) \in Slots
    BY <1>3, LookupNumber
  <2>3. Block(dest) \notin System
    <3> SUFFICES ASSUME Block(dest) \in System PROVE FALSE
      OBVIOUS
    <3>1. scheduler[Block(dest)] = 1
      BY DEF SystemApart
    <3>2. Exists(1) /\ as[Block(1)] = as[c]
      BY <1>3, <3>1 DEF MaySchedule
    <3>3. Block(1) \in Slots /\ global_id[Block(1)] = 1
      BY <3>2, LookupNumber
    <3>4. Block(1) \in System
      BY <3>3 DEF SystemApart
    <3> QED BY <1>1, <3>2, <3>4 DEF SystemApart
  <2>4. prio \in Nat /\ prio >= 42
    <3>1. priority[c] \in Nat /\ priority[c] >= 42
      BY <2>1 DEF SystemApart, UrgencyKept, System
    <3>2. prio \in Nat
      BY ControlAssumption DEF IdlePriority
    <3> QED BY <1>3, <3>1, <3>2
  <2>5. SystemApart'
    BY <1>3, <2>2, <2>3, <2>4 DEF SystemApart, table_vars
  <2>6. UrgencyKept'
    BY <1>3, <2>2, <2>3, <2>4 DEF SystemApart, UrgencyKept, System, table_vars
  <2> QED BY <2>5, <2>6
<1> QED BY <1>1, <1>2, <1>3 DEF syscall_schedule

LEMMA ApartNext == ASSUME ApartInv, [Next]_vars PROVE ApartInv'
<1>1. CASE ThreadControl
  BY <1>1, ApartThreadControl
<1>2. CASE SpaceControl
  BY <1>2, ApartSpaceControl
<1>3. CASE Schedule
  BY <1>3, ApartSchedule
<1>4. CASE Dies
  <2>1. PICK t \in allocated \ (0 .. RootSlot) : delete_thread(t)
    BY <1>4 DEF Dies
  <2>2. t \in Slots \ System
    BY DEF ApartInv, SystemApart, System, RootSlot
  <2> QED BY <2>1, <2>2, ApartDelete
<1>5. CASE UNCHANGED vars
  BY <1>5, ApartKept DEF vars, table_vars, thread_vars
<1> QED BY <1>1, <1>2, <1>3, <1>4, <1>5 DEF Next

(* The kernel thread and the idle thread keep their blocks, their numbers   *)
(* and their scheduler, and never get a space: thread_control refuses their *)
(* numbers (kern/syscall/thread_control.c:160) and no lookup of another     *)
(* number finds their blocks (kern/thread.c, thread_map_find).              *)
THEOREM SystemKeptApart == Spec => []ApartInv
BY ApartInit, ApartNext, PTL DEF Spec

(* No sequence of system calls changes the priorities of the kernel and     *)
(* idle threads, and nobody becomes more urgent than the root task was:     *)
(* syscall_schedule, with the checks of kern/syscall/schedule.c:25-46.      *)
THEOREM UrgencyIsKept == Spec => []UrgencyKept
BY SystemKeptApart, PTL DEF ApartInv

-----------------------------------------------------------------------------
(* What a step does to the outcome of the last call: a refusal leaves all   *)
(* else as it was, and everything else succeeds, panics or is no call.      *)
Told == UNCHANGED <<table_vars, thread_vars, space_vars>> \/ answer' = "ok" \/ UNCHANGED answer

LEMMA ToldCalls ==
  /\ \A code : Refuse(code) => Told
  /\ Succeeds => Told
  /\ Panic => Told
BY DEF Refuse, Succeeds, Panic, Told

LEMMA ToldThreadControl ==
  ASSUME NEW dest \in Int, NEW space, NEW sched, NEW pgr, NEW location,
         syscall_thread_control(dest, space, sched, pgr, location)
  PROVE  Told
<1>1. ASSUME Create(dest, space, sched, pgr, location) PROVE Told
  BY <1>1, ToldCalls DEF Create
<1>2. ASSUME Modify(dest, space, sched, pgr, location) PROVE Told
  BY <1>2, ToldCalls DEF Modify
<1>3. ASSUME Delete(dest) PROVE Told
  BY <1>3, ToldCalls DEF Delete
<1>4. CASE dest # NILTHREAD /\ dest < Root
  <2>1. ~ (dest >= Root /\ Exists(dest))
    BY <1>4 DEF Root
  <2>2. Refuse("no_privilege")
    BY <1>4, <2>1 DEF syscall_thread_control
  <2> QED BY <2>2, ToldCalls
<1>5. CASE dest >= Root /\ Exists(dest)
  <2>1. ~ (dest # NILTHREAD /\ dest < Root)
    BY <1>5 DEF Root
  <2>2. Delete(dest) \/ Modify(dest, space, sched, pgr, location)
    BY <1>5, <2>1 DEF syscall_thread_control
  <2> QED BY <1>2, <1>3, <2>2
<1>6. CASE ~ (dest # NILTHREAD /\ dest < Root) /\ ~ (dest >= Root /\ Exists(dest))
  <2>1. Refuse("invalid_space") \/ Create(dest, space, sched, pgr, location)
    BY <1>6 DEF syscall_thread_control
  <2> QED BY <1>1, <2>1, ToldCalls
<1> QED BY <1>4, <1>5, <1>6

LEMMA ToldNext == ASSUME ApartInv, [Next]_vars PROVE Told
<1>1. CASE ThreadControl
  <2>1. PICK dest \in New \cup Living \cup {1} :
          \E space, sched, pgr, location : syscall_thread_control(dest, space, sched, pgr, location)
    BY <1>1 DEF ThreadControl
  <2>2. dest \in Int
    BY TableAssumption DEF New, Living, Users, ApartInv, SystemApart
  <2> QED BY <2>1, <2>2, ToldThreadControl
<1>2. CASE SpaceControl
  <2>1. PICK no, kip_ok, area : syscall_space_control(no, kip_ok, area)
    BY <1>2 DEF SpaceControl
  <2> QED BY <2>1, ToldCalls DEF syscall_space_control
<1>3. CASE Schedule
  <2>1. PICK c, dest, processor_ok, prio : syscall_schedule(c, dest, processor_ok, prio)
    BY <1>3 DEF Schedule
  <2> QED BY <2>1, ToldCalls DEF syscall_schedule
<1>4. CASE Dies
  BY <1>4 DEF Dies, Told
<1>5. CASE UNCHANGED vars
  BY <1>5 DEF vars, Told
<1> QED BY <1>1, <1>2, <1>3, <1>4, <1>5 DEF Next

(* A handler that returns an error leaves every thread and every space as   *)
(* it found them, whatever was asked for and in whatever state: the checks  *)
(* of kern/syscall/thread_control.c, space_control.c and schedule.c all     *)
(* come before their first assignment.                                      *)
THEOREM RefusalsChangeNothing == Spec => RefusedUnchanged
<1>1. ApartInv /\ [Next]_vars =>
        [answer' # answer /\ answer' # "ok" => UNCHANGED <<table_vars, thread_vars, space_vars>>]_vars
  BY ToldNext DEF Told
<1> QED BY <1>1, SystemKeptApart, PTL DEF Spec, RefusedUnchanged
-----------------------------------------------------------------------------
(* Where a thread that is not the system's is at home: its UTCB is in a page, *)
(* and that is the page of its space, once it has one.                      *)
Home(t) ==
  /\ global_id[t] >= Root /\ utcb[t].page # nilpage
  /\ as[t] # NoSpace => as[t] < as_allocated /\ utcb_page[as[t]] = utcb[t].page

Homes == \A t \in allocated \ System : Home(t)

(* The types that the places and pages rest on.                              *)
PrepType ==
  /\ allocated \subseteq Slots /\ global_id \in [Slots -> Numbers]
  /\ utcb \in [Slots -> Locations] /\ utcb_page \in [Spaces -> Numbers]
  /\ DOMAIN written = Slots
  /\ TypeOK

(* Prepared alone is not inductive: space_control gives a page to a space    *)
(* other threads may live in, and thread_control a place in that page.      *)
PrepInv == PrepType /\ Homes /\ Ready

(* What Ready says of one thread.                                            *)
ReadyOf(t) ==
  /\ active[t] => /\ as[t] # NoSpace /\ fpage_contains_object(utcb_page[as[t]], utcb[t])
                  /\ pager[t] # NILTHREAD
  /\ written[t] # <<>> => written[t] = Written(global_id[t], pager[t])

(* The root task is at home in the page of its number; it has no space yet.  *)
LEMMA PrepInit == Init => PrepInv
<1> SUFFICES ASSUME Init PROVE PrepInv
  OBVIOUS
<1>1. /\ THREAD_MAX_COUNT \in Nat /\ THREAD_MAX_COUNT > 3 /\ L4_THREAD_COUNT \in Nat /\ L4_THREAD_COUNT > 4
      /\ MAX_ADDRESS_SPACES \in Nat \ {0}
  BY TableAssumption, ControlAssumption
<1>2. Slots \subseteq Nat /\ 0 \in Numbers /\ 1 \in Numbers /\ Root \in Numbers /\ Numbers \subseteq Nat
  BY <1>1 DEF Slots, Numbers, Root
<1>3. \A s \in Slots : s <= 2 => s \in Nat /\ s + 1 \in Numbers
  BY <1>1 DEF Slots, Numbers
<1>4. allocated \subseteq Slots /\ global_id \in [Slots -> Numbers]
  <2>1. allocated = 0 .. 2 /\ global_id = [s \in Slots |-> IF s <= 2 THEN s + 1 ELSE 0]
    BY DEF Init, TableInit, RootSlot
  <2>2. 0 .. 2 \subseteq Slots
    BY <1>1 DEF Slots
  <2> QED BY <1>2, <1>3, <2>1, <2>2
<1>5. Nowhere \in Locations /\ [page |-> Root, place |-> 0] \in Locations
  BY <1>2 DEF Nowhere, Locations, nilpage
<1>6. PrepType
  <2>1. utcb \in [Slots -> Locations]
    BY <1>5 DEF Init
  <2>2. utcb_page \in [Spaces -> Numbers] /\ DOMAIN written = Slots
    BY <1>2 DEF Init, nilpage
  <2>3. pager \in [Slots -> Numbers] /\ scheduler \in [Slots -> Numbers] /\ active \in [Slots -> BOOLEAN]
    BY <1>2 DEF Init, NILTHREAD
  <2>4. priority \in [Slots -> 0 .. IdlePriority]
    BY DEF Init, IdlePriority
  <2>5. /\ as \in [Slots -> Spaces \cup {NoSpace}] /\ as_allocated \in 0 .. MAX_ADDRESS_SPACES
        /\ next_sibling \in [Slots -> Slots \cup {NoSlot}] /\ prev_sibling \in [Slots -> Slots \cup {NoSlot}]
    BY <1>1 DEF Init
  <2> QED BY <1>4, <2>1, <2>2, <2>3, <2>4, <2>5 DEF PrepType, TypeOK
<1>7. Homes
  <2> SUFFICES ASSUME NEW t \in allocated \ System PROVE Home(t)
    BY DEF Homes
  <2>1. t = 2 /\ t \in Slots
    BY <1>1 DEF Init, TableInit, RootSlot, System, Slots
  <2>2. global_id[t] = 3 /\ utcb[t] = [page |-> Root, place |-> 0] /\ as[t] = NoSpace
    BY <2>1 DEF Init, TableInit, RootSlot
  <2> QED BY <2>2 DEF Home, Root, nilpage
<1>8. Ready
  BY DEF Init, TableInit, Ready
<1> QED BY <1>6, <1>7, <1>8 DEF PrepInv

(* A call that is refused, or that halts the kernel, changes no thread.     *)
LEMMA PrepSame ==
  ASSUME PrepInv, UNCHANGED <<table_vars, thread_vars, space_vars>>
  PROVE  PrepInv'
<1>1. UNCHANGED <<allocated, global_id, active, pager, scheduler, priority, utcb, as, next_sibling,
                  prev_sibling, written, as_allocated, utcb_page>>
  BY DEF table_vars, thread_vars, space_vars
<1>2. PrepType'
  BY <1>1 DEF PrepInv, PrepType, TypeOK
<1>3. Homes'
  BY <1>1 DEF PrepInv, Homes, Home
<1>4. Ready'
  BY <1>1, ZenonT(60) DEF PrepInv, Ready, fpage_contains_object
<1> QED BY <1>2, <1>3, <1>4 DEF PrepInv

(* A lookup that finds a thread with a space has found one that is at home. *)
LEMMA AtHome ==
  ASSUME PrepInv, ApartInv, NEW no, Exists(no), as[Block(no)] # NoSpace
  PROVE  /\ Block(no) \in allocated \ System /\ Block(no) \in Slots
         /\ Home(Block(no)) /\ as[Block(no)] \in Spaces
<1>1. Block(no) \in allocated /\ Block(no) \in Slots
  BY LookupNumber
<1>2. Block(no) \notin System
  BY DEF ApartInv, SystemApart
<1>3. as[Block(no)] \in Spaces
  BY <1>1 DEF PrepInv, PrepType, TypeOK
<1> QED BY <1>1, <1>2, <1>3 DEF PrepInv, Homes

(* A scheduler that was looked up is a thread of the table.                 *)
LEMMA SchedulerTyped ==
  ASSUME PrepInv, NEW sched \in {NILTHREAD, Root, NoOne}, ~ BadScheduler(sched)
  PROVE  sched \in Numbers
<1>1. NILTHREAD \in Numbers /\ Root \in Numbers
  BY TableAssumption DEF NILTHREAD, Root, Numbers
<1>2. Exists(sched) => sched \in Numbers
  <2> SUFFICES ASSUME Exists(sched) PROVE sched \in Numbers
    OBVIOUS
  <2>1. Block(sched) \in Slots /\ global_id[Block(sched)] = sched
    BY LookupNumber
  <2> QED BY <2>1 DEF PrepInv, PrepType
<1> QED BY <1>1, <1>2 DEF BadScheduler

(* syscall_thread_control_create: a block that was free gets a thread that   *)
(* has no space, or one that lives in the page of its owner.                *)
LEMMA PrepCreate ==
  ASSUME PrepInv, ApartInv, NEW dest \in Numbers, dest >= Root, NEW space, space # NILTHREAD,
         NEW sched \in {NILTHREAD, Root, NoOne}, NEW pgr \in {NILTHREAD, Root}, NEW place \in Nat,
         space \in Numbers,
         Create(dest, space, sched, pgr, [page |-> space, place |-> place])
  PROVE  PrepInv'
<1> DEFINE location == [page |-> space, place |-> place]
           t == FreeSlot
           owner == IF Exists(space) THEN Block(space) ELSE NoSlot
           own == owner = NoSlot
<1>1. ASSUME NEW code, Refuse(code) PROVE PrepInv'
  BY <1>1, PrepSame DEF Refuse
<1>2. ASSUME ~ ((own /\ space # dest) \/ (~own /\ as[owner] = NoSpace)),
             ~ BadScheduler(sched),
             ~ (~own /\ ~fpage_contains_object(utcb_page[as[owner]], location)),
             create_thread(dest),
             active' = [active EXCEPT ![t] = pgr # NILTHREAD /\ ~own],
             pager' = [pager EXCEPT ![t] = pgr],
             scheduler' = [scheduler EXCEPT ![t] = sched],
             priority' = [priority EXCEPT ![t] = 42],
             utcb' = [utcb EXCEPT ![t] = location],
             written' = [written EXCEPT ![t] = <<>>],
             as' = [as EXCEPT ![t] = IF own THEN NoSpace ELSE as[owner]],
             IF own THEN UNCHANGED <<next_sibling, prev_sibling>>
             ELSE /\ next_sibling' = [next_sibling EXCEPT ![t] = next_sibling[owner], ![owner] = t]
                  /\ prev_sibling' = [prev_sibling EXCEPT ![t] = owner],
             UNCHANGED space_vars
      PROVE  PrepInv'
  <2>1. t \in Slots /\ t \notin allocated /\ t \notin System
    <3>1. allocated # Slots /\ allocated \subseteq Slots /\ System \subseteq allocated
      BY <1>2 DEF create_thread, ApartInv, SystemApart
    <3> QED BY <3>1, FreeSlotFree
  <2>2. /\ allocated' = allocated \cup {t} /\ global_id' = [global_id EXCEPT ![t] = dest]
        /\ as_allocated' = as_allocated /\ utcb_page' = utcb_page
    BY <1>2 DEF create_thread, space_vars
  <2> HIDE DEF t
  <2>3. ~ own => /\ owner \in allocated \ System /\ owner \in Slots /\ owner # t
                 /\ Home(owner) /\ as[owner] \in Spaces /\ as[owner] # NoSpace
                 /\ fpage_contains_object(utcb_page[as[owner]], location)
    <3> SUFFICES ASSUME ~ own
                 PROVE  /\ owner \in allocated \ System /\ owner \in Slots /\ owner # t
                        /\ Home(owner) /\ as[owner] \in Spaces
      BY <1>2
    <3>1. Exists(space) /\ owner = Block(space)
      OBVIOUS
    <3>2. as[Block(space)] # NoSpace
      BY <1>2, <3>1
    <3> QED BY <2>1, <3>1, <3>2, AtHome
  <2>4. own => space = dest
    BY <1>2
  <2>5. location \in Locations /\ location.page = space
    BY DEF Locations
  <2> HIDE DEF own, owner, location
  <2>6. PrepType'
    <3>1. /\ pgr \in Numbers /\ sched \in Numbers /\ 42 \in 0 .. IdlePriority
      <4>1. NILTHREAD \in Numbers /\ Root \in Numbers
        BY TableAssumption DEF NILTHREAD, Root, Numbers
      <4> QED BY <1>2, <4>1, SchedulerTyped DEF IdlePriority
    <3>2. /\ allocated' \subseteq Slots /\ global_id' \in [Slots -> Numbers]
          /\ utcb' \in [Slots -> Locations] /\ utcb_page' \in [Spaces -> Numbers]
          /\ DOMAIN written' = Slots
      BY <1>2, <2>1, <2>2, <2>5 DEF PrepInv, PrepType
    <3>3. /\ pager' \in [Slots -> Numbers] /\ scheduler' \in [Slots -> Numbers]
          /\ priority' \in [Slots -> 0 .. IdlePriority] /\ active' \in [Slots -> BOOLEAN]
      BY <1>2, <2>1, <3>1 DEF PrepInv, PrepType, TypeOK
    <3>4. as' \in [Slots -> Spaces \cup {NoSpace}] /\ as_allocated' \in 0 .. MAX_ADDRESS_SPACES
      <4>1. (IF own THEN NoSpace ELSE as[owner]) \in Spaces \cup {NoSpace}
        BY <2>3
      <4> QED BY <1>2, <2>1, <2>2, <4>1 DEF PrepInv, PrepType, TypeOK
    <3>5. /\ next_sibling' \in [Slots -> Slots \cup {NoSlot}]
          /\ prev_sibling' \in [Slots -> Slots \cup {NoSlot}]
      <4>1. CASE own
        BY <1>2, <4>1 DEF PrepInv, PrepType, TypeOK
      <4>2. CASE ~ own
        <5>1. /\ next_sibling \in [Slots -> Slots \cup {NoSlot}]
              /\ prev_sibling \in [Slots -> Slots \cup {NoSlot}]
          BY DEF PrepInv, PrepType, TypeOK
        <5>2. /\ next_sibling' = [next_sibling EXCEPT ![t] = next_sibling[owner], ![owner] = t]
              /\ prev_sibling' = [prev_sibling EXCEPT ![t] = owner]
          BY <1>2, <4>2
        <5>3. t \in Slots /\ owner \in Slots
          BY <2>1, <2>3, <4>2
        <5> QED BY <5>1, <5>2, <5>3
      <4> QED BY <4>1, <4>2
    <3> QED BY <3>2, <3>3, <3>4, <3>5 DEF PrepType, TypeOK
  <2>7. ASSUME NEW s \in allocated
        PROVE  /\ s \in Slots /\ s # t
               /\ global_id'[s] = global_id[s] /\ utcb'[s] = utcb[s] /\ as'[s] = as[s]
               /\ active'[s] = active[s] /\ pager'[s] = pager[s] /\ written'[s] = written[s]
    <3>1. s \in Slots /\ s # t
      BY <2>1 DEF PrepInv, PrepType
    <3> QED BY <1>2, <2>2, <3>1 DEF PrepInv, PrepType, TypeOK
  <2>8. /\ global_id'[t] = dest /\ utcb'[t] = location /\ as'[t] = (IF own THEN NoSpace ELSE as[owner])
        /\ active'[t] = (pgr # NILTHREAD /\ ~own) /\ pager'[t] = pgr /\ written'[t] = <<>>
    BY <1>2, <2>1, <2>2 DEF PrepInv, PrepType, TypeOK
  <2>9. Homes'
    <3> SUFFICES ASSUME NEW s \in allocated' \ System PROVE Home(s)'
      BY DEF Homes, System
    <3>1. CASE s \in allocated
      <4>1. Home(s)
        BY <3>1 DEF PrepInv, Homes
      <4> QED BY <2>2, <2>7, <3>1, <4>1 DEF Home
    <3>2. CASE s = t
      <4>1. utcb'[t].page # nilpage
        BY <2>5, <2>8 DEF nilpage, NILTHREAD
      <4>2. CASE own
        BY <2>8, <3>2, <4>1, <4>2 DEF Home
      <4>3. CASE ~ own
        <5>1. utcb_page[as[owner]] = location.page
          BY <2>3, <4>3 DEF fpage_contains_object
        <5>2. as'[t] < as_allocated' /\ utcb_page'[as'[t]] = utcb'[t].page
          BY <2>2, <2>3, <2>8, <4>3, <5>1 DEF Home
        <5> QED BY <2>8, <3>2, <4>1, <5>2 DEF Home
      <4> QED BY <4>2, <4>3
    <3> QED BY <2>2, <3>1, <3>2
  <2>10. Ready'
    <3> SUFFICES ASSUME NEW s \in allocated' \ (0 .. RootSlot) PROVE ReadyOf(s)'
      BY DEF Ready, ReadyOf, fpage_contains_object, Written
    <3>1. CASE s \in allocated
      <4>1. ReadyOf(s)
        BY <3>1 DEF PrepInv, Ready, ReadyOf
      <4> QED BY <2>2, <2>7, <3>1, <4>1 DEF ReadyOf, fpage_contains_object, Written
    <3>2. CASE s = t
      BY <2>2, <2>3, <2>8, <3>2 DEF ReadyOf, fpage_contains_object
    <3> QED BY <2>2, <3>1, <3>2
  <2> QED BY <2>6, <2>9, <2>10 DEF PrepInv
<1>3. ASSUME Panic PROVE PrepInv'
  BY <1>3, PrepSame DEF Panic
<1> QED BY <1>1, <1>2, <1>3 DEF Create

(* syscall_thread_control_modify: the UTCB may move inside the page only.    *)
LEMMA PrepModify ==
  ASSUME PrepInv, ApartInv, NEW dest \in Numbers, NEW space,
         NEW sched \in {NILTHREAD, Root, NoOne}, NEW pgr \in {NILTHREAD, Root}, NEW place \in Nat,
         space \in Numbers, Exists(dest),
         Exists(space) => as[Block(space)] # NoSpace /\ as[Block(space)] = as[Block(dest)],
         Modify(dest, space, sched, pgr, [page |-> space, place |-> place])
  PROVE  PrepInv'
<1> DEFINE location == [page |-> space, place |-> place]
           t == Block(dest)
           a == as[Block(space)]
           p == IF pgr # NILTHREAD THEN pgr ELSE pager[t]
<1>1. ASSUME NEW code, Refuse(code) PROVE PrepInv'
  BY <1>1, PrepSame DEF Refuse
<1>2. ASSUME Exists(space), ~ BadScheduler(sched),
             fpage_contains_object(utcb_page[a], location),
             as' = [as EXCEPT ![t] = a],
             scheduler' = IF sched # NILTHREAD THEN [scheduler EXCEPT ![t] = sched] ELSE scheduler,
             pager' = [pager EXCEPT ![t] = p],
             utcb' = [utcb EXCEPT ![t] = location],
             written' = [written EXCEPT ![t] = Written(dest, p)],
             UNCHANGED <<table_vars, active, priority, next_sibling, prev_sibling, space_vars>>
      PROVE  PrepInv'
  <2>1. /\ t \in allocated \ System /\ t \in Slots /\ global_id[t] = dest /\ as[t] = a
        /\ Home(t) /\ a \in Spaces /\ a # NoSpace
    <3>1. as[Block(space)] # NoSpace /\ as[Block(space)] = as[Block(dest)]
      BY <1>2
    <3> QED BY <3>1, AtHome, LookupNumber
  <2>2. UNCHANGED <<allocated, global_id, as_allocated, utcb_page, active, priority, next_sibling, prev_sibling>>
    BY <1>2 DEF table_vars, space_vars
  <2>3. location \in Locations /\ location.page = utcb_page[a]
    BY <1>2 DEF Locations, fpage_contains_object
  <2>4. pgr \in Numbers /\ sched \in Numbers /\ pager \in [Slots -> Numbers]
    <3>1. NILTHREAD \in Numbers /\ Root \in Numbers
      BY TableAssumption DEF NILTHREAD, Root, Numbers
    <3> QED BY <1>2, <3>1, SchedulerTyped DEF PrepInv, PrepType, TypeOK
  <2>5. p \in Numbers /\ (pager[t] # NILTHREAD => p # NILTHREAD)
    BY <2>1, <2>4
  <2>6. utcb_page[a] = utcb[t].page
    BY <2>1 DEF Home
  <2> HIDE DEF t, a, p, location
  <2>7. PrepType'
    <3>1. /\ utcb' \in [Slots -> Locations] /\ DOMAIN written' = Slots
          /\ pager' \in [Slots -> Numbers] /\ as' \in [Slots -> Spaces \cup {NoSpace}]
      BY <1>2, <2>1, <2>3, <2>4, <2>5 DEF PrepInv, PrepType, TypeOK
    <3>2. scheduler' \in [Slots -> Numbers]
      BY <1>2, <2>1, <2>4 DEF PrepInv, PrepType, TypeOK
    <3> QED BY <2>2, <3>1, <3>2 DEF PrepInv, PrepType, TypeOK
  <2>8. ASSUME NEW s \in allocated, s # t
        PROVE  utcb'[s] = utcb[s] /\ as'[s] = as[s] /\ pager'[s] = pager[s] /\ written'[s] = written[s]
    BY <1>2, <2>8 DEF PrepInv, PrepType, TypeOK
  <2>9. utcb'[t] = location /\ as'[t] = as[t] /\ pager'[t] = p /\ written'[t] = Written(dest, p)
    BY <1>2, <2>1 DEF PrepInv, PrepType, TypeOK
  <2>10. Homes'
    <3> SUFFICES ASSUME NEW s \in allocated \ System PROVE Home(s)'
      BY <2>2 DEF Homes, System
    <3>1. Home(s)
      BY DEF PrepInv, Homes
    <3>2. CASE s = t
      BY <2>1, <2>2, <2>3, <2>6, <2>9, <3>1, <3>2 DEF Home
    <3>3. CASE s # t
      BY <2>2, <2>8, <3>1, <3>3 DEF Home
    <3> QED BY <3>2, <3>3
  <2>11. Ready'
    <3> SUFFICES ASSUME NEW s \in allocated \ (0 .. RootSlot) PROVE ReadyOf(s)'
      BY <2>2, ZenonT(60) DEF Ready, ReadyOf, fpage_contains_object, Written
    <3>1. ReadyOf(s)
      BY DEF PrepInv, Ready, ReadyOf
    <3>2. CASE s = t
      BY <1>2, <2>1, <2>2, <2>5, <2>9, <3>1, <3>2, ZenonT(60) DEF ReadyOf, fpage_contains_object, Written
    <3>3. CASE s # t
      BY <2>2, <2>8, <3>1, <3>3 DEF ReadyOf, fpage_contains_object, Written
    <3> QED BY <3>2, <3>3
  <2> QED BY <2>7, <2>10, <2>11 DEF PrepInv
<1> QED BY <1>1, <1>2 DEF Modify

(* What dies leaves the others where they are.                              *)
LEMMA PrepDelete ==
  ASSUME PrepInv, ApartInv, NEW t \in Slots \ System, delete_thread(t)
  PROVE  PrepInv'
<1>1. /\ allocated' = allocated \ {t}
      /\ UNCHANGED <<global_id, active, pager, scheduler, priority, utcb, as, written, as_allocated, utcb_page>>
  BY DEF delete_thread, thread_list_delete, space_vars
<1>2. /\ next_sibling' \in [Slots -> Slots \cup {NoSlot}]
      /\ prev_sibling' \in [Slots -> Slots \cup {NoSlot}]
  <2>1. /\ next_sibling \in [Slots -> Slots \cup {NoSlot}]
        /\ prev_sibling \in [Slots -> Slots \cup {NoSlot}]
    BY DEF PrepInv, PrepType, TypeOK
  <2>2. /\ prev_sibling' = IF next_sibling[t] # NoSlot
                           THEN [prev_sibling EXCEPT ![next_sibling[t]] = prev_sibling[t]] ELSE prev_sibling
        /\ next_sibling' = IF prev_sibling[t] # NoSlot
                           THEN [next_sibling EXCEPT ![prev_sibling[t]] = next_sibling[t]] ELSE next_sibling
    BY DEF delete_thread
  <2>3. next_sibling[t] \in Slots \cup {NoSlot} /\ prev_sibling[t] \in Slots \cup {NoSlot}
    BY <2>1
  <2> QED BY <2>1, <2>2, <2>3
<1>3. PrepType'
  BY <1>1, <1>2 DEF PrepInv, PrepType, TypeOK
<1>4. Homes'
  BY <1>1 DEF PrepInv, Homes, Home
<1>5. Ready'
  BY <1>1, ZenonT(60) DEF PrepInv, Ready, fpage_contains_object
<1> QED BY <1>3, <1>4, <1>5 DEF PrepInv

(* syscall_schedule changes a priority.                                      *)
LEMMA PrepSchedule == ASSUME PrepInv, Schedule PROVE PrepInv'
<1>1. PICK c \in allocated, dest \in Living \cup New \cup {1, 2}, processor_ok \in BOOLEAN,
           prio \in Priorities : syscall_schedule(c, dest, processor_ok, prio)
  BY Zenon DEF Schedule
<1>2. ASSUME NEW code, Refuse(code) PROVE PrepInv'
  BY <1>2, PrepSame DEF Refuse
<1>3. ASSUME Exists(dest), priority' = [priority EXCEPT ![Block(dest)] = prio],
             UNCHANGED <<table_vars, active, pager, scheduler, utcb, as, next_sibling, prev_sibling, written,
                         space_vars>>
      PROVE  PrepInv'
  <2>1. prio \in 0 .. IdlePriority
    BY ControlAssumption
  <2>2. UNCHANGED <<allocated, global_id, active, pager, scheduler, utcb, as, next_sibling, prev_sibling,
                    written, as_allocated, utcb_page>>
    BY <1>3 DEF table_vars, space_vars
  <2>3. PrepType'
    BY <1>3, <2>1, <2>2 DEF PrepInv, PrepType, TypeOK
  <2>4. Homes'
    BY <2>2 DEF PrepInv, Homes, Home
  <2>5. Ready'
    BY <2>2, ZenonT(60) DEF PrepInv, Ready, fpage_contains_object
  <2> QED BY <2>3, <2>4, <2>5 DEF PrepInv
<1> QED BY <1>1, <1>2, <1>3 DEF syscall_schedule

(* A new space is nobody's home, and a page that is given again is the same. *)
LEMMA PrepSpaceControl == ASSUME PrepInv, ApartInv, SpaceControl PROVE PrepInv'
<1>1. PICK no \in New \cup Living, kip_ok \in BOOLEAN :
        syscall_space_control(no, kip_ok, IF Exists(no) THEN utcb[Block(no)].page ELSE no)
  BY DEF SpaceControl
<1>2. no \notin {1, 2}
  BY TableAssumption DEF New, Living, Users
<1>3. ASSUME NEW code, Refuse(code) PROVE PrepInv'
  BY <1>3, PrepSame DEF Refuse
<1>4. CASE Panic
  BY <1>4, PrepSame DEF Panic
<1> DEFINE t == Block(no)
           a == IF as[t] = NoSpace THEN as_allocated ELSE as[t]
           area == utcb[t].page
<1>5. ASSUME Exists(no), a # NoSpace,
             IF as[t] = NoSpace THEN create_as(t)
             ELSE UNCHANGED <<as_allocated, first_thread, as, next_sibling, prev_sibling>>,
             utcb_page' = [utcb_page EXCEPT ![a] = area],
             Activate(t, area),
             UNCHANGED <<table_vars, pager, scheduler, priority, utcb>>
      PROVE  PrepInv'
  <2>1. /\ t \in allocated /\ t \in Slots \ System /\ Home(t) /\ area \in Numbers /\ area # nilpage
    <3>1. t \in allocated /\ t \in Slots \ System
      BY <1>2, <1>5, LookupNumber, LookupApart DEF ApartInv
    <3>2. Home(t)
      BY <3>1 DEF PrepInv, Homes
    <3>3. utcb[t] \in Locations
      BY <3>1 DEF PrepInv, PrepType
    <3> QED BY <3>1, <3>2, <3>3 DEF Home, Locations
  <2>2. UNCHANGED <<allocated, global_id, pager, scheduler, priority, utcb>>
    BY <1>5 DEF table_vars
  <2>3. /\ as_allocated \in 0 .. MAX_ADDRESS_SPACES /\ MAX_ADDRESS_SPACES \in Nat \ {0}
        /\ as \in [Slots -> Spaces \cup {NoSpace}] /\ utcb_page \in [Spaces -> Numbers]
        /\ NoSpace = MAX_ADDRESS_SPACES /\ Spaces = 0 .. MAX_ADDRESS_SPACES - 1
    BY ControlAssumption DEF PrepInv, PrepType, TypeOK, NoSpace, Spaces
  <2>4. a \in Spaces
    <3>1. CASE as[t] = NoSpace
      BY <1>5, <2>3, <3>1
    <3>2. CASE as[t] # NoSpace
      BY <2>1, <2>3, <3>2
    <3> QED BY <3>1, <3>2
  <2> HIDE DEF t, area
  <2>5. /\ as' \in [Slots -> Spaces \cup {NoSpace}] /\ as'[t] = a
        /\ as_allocated' \in 0 .. MAX_ADDRESS_SPACES /\ a < as_allocated'
        /\ as_allocated <= as_allocated'
        /\ \A s \in Slots : s # t => as'[s] = as[s]
    <3>1. CASE as[t] = NoSpace
      <4>1. a = as_allocated /\ as_allocated' = as_allocated + 1 /\ as' = [as EXCEPT ![t] = as_allocated]
        BY <1>5, <3>1 DEF create_as
      <4>2. a < as_allocated + 1 /\ as_allocated <= as_allocated + 1 /\ as_allocated + 1 \in 0 .. MAX_ADDRESS_SPACES
        <5> HIDE DEF a
        <5> QED BY <2>3, <2>4, <4>1
      <4>3. as_allocated \in Spaces \cup {NoSpace}
        BY <2>4, <4>1
      <4> HIDE DEF a
      <4> QED BY <2>1, <2>3, <4>1, <4>2, <4>3
    <3>2. CASE as[t] # NoSpace
      <4>1. a = as[t] /\ as_allocated' = as_allocated /\ as' = as /\ as[t] < as_allocated
        BY <1>5, <2>1, <3>2 DEF Home
      <4>2. as_allocated <= as_allocated
        BY <2>3
      <4> HIDE DEF a
      <4> QED BY <2>3, <4>1, <4>2
    <3> QED BY <3>1, <3>2
  <2>6. /\ utcb_page' \in [Spaces -> Numbers] /\ utcb_page'[a] = area
        /\ \A b \in Spaces : b < as_allocated => utcb_page'[b] = utcb_page[b]
    <3>1. utcb_page' \in [Spaces -> Numbers] /\ utcb_page'[a] = area
      BY <1>5, <2>1, <2>3, <2>4
    <3>2. ASSUME NEW b \in Spaces, b < as_allocated PROVE utcb_page'[b] = utcb_page[b]
      <4>1. CASE as[t] = NoSpace
        <5>1. b # a
          BY <2>3, <3>2, <4>1
        <5> QED BY <1>5, <2>3, <5>1
      <4>2. CASE as[t] # NoSpace
        <5>1. utcb_page[a] = area
          BY <2>1, <4>2 DEF Home, area
        <5> QED BY <1>5, <2>3, <5>1
      <4> QED BY <4>1, <4>2
    <3> QED BY <3>1, <3>2
  <2>7. /\ DOMAIN written' = Slots /\ active' \in [Slots -> BOOLEAN]
        /\ next_sibling' \in [Slots -> Slots \cup {NoSlot}]
        /\ prev_sibling' \in [Slots -> Slots \cup {NoSlot}]
    <3>1. DOMAIN written' = Slots /\ active' \in [Slots -> BOOLEAN]
      BY <1>5 DEF Activate, PrepInv, PrepType, TypeOK
    <3>2. /\ next_sibling' \in [Slots -> Slots \cup {NoSlot}]
          /\ prev_sibling' \in [Slots -> Slots \cup {NoSlot}]
      BY <1>5 DEF create_as, PrepInv, PrepType, TypeOK
    <3> QED BY <3>1, <3>2
  <2> HIDE DEF a
  <2>8. PrepType'
    BY <2>2, <2>5, <2>6, <2>7 DEF PrepInv, PrepType, TypeOK
  <2>9. Homes'
    <3> SUFFICES ASSUME NEW s \in allocated \ System PROVE Home(s)'
      BY <2>2 DEF Homes, System
    <3>1. Home(s) /\ s \in Slots
      BY DEF PrepInv, PrepType, Homes
    <3>2. CASE s = t
      BY <2>2, <2>5, <2>6, <3>1, <3>2 DEF Home, area
    <3>3. CASE s # t
      <4>1. as'[s] = as[s]
        BY <2>5, <3>1, <3>3
      <4>2. ASSUME as[s] # NoSpace
            PROVE  as[s] < as_allocated' /\ utcb_page'[as[s]] = utcb[s].page
        <5>1. as[s] \in Spaces /\ as[s] < as_allocated /\ utcb_page[as[s]] = utcb[s].page
          BY <2>3, <3>1, <4>2 DEF Home
        <5> DEFINE b == as[s]
        <5>2. /\ b \in 0 .. MAX_ADDRESS_SPACES - 1 /\ b < as_allocated
              /\ as_allocated \in 0 .. MAX_ADDRESS_SPACES /\ as_allocated' \in 0 .. MAX_ADDRESS_SPACES
              /\ as_allocated <= as_allocated' /\ MAX_ADDRESS_SPACES \in Nat
          BY <2>3, <2>5, <5>1, Zenon DEF Spaces
        <5>3. b < as_allocated'
          <6> HIDE DEF b
          <6> QED BY <5>2
        <5> QED BY <2>6, <5>1, <5>3, Zenon
      <4> QED BY <2>2, <3>1, <4>1, <4>2 DEF Home
    <3> QED BY <3>2, <3>3
  <2>10. Ready'
    <3> SUFFICES ASSUME NEW s \in allocated \ (0 .. RootSlot) PROVE ReadyOf(s)'
      BY <2>2 DEF Ready, ReadyOf, fpage_contains_object, Written
    <3>1. ReadyOf(s) /\ s \in Slots /\ s \in allocated \ System /\ Home(s)
      <4>1. s \in allocated \ System /\ s \in Slots
        BY DEF PrepInv, PrepType, System, RootSlot
      <4>2. ReadyOf(s)
        BY DEF PrepInv, Ready, ReadyOf
      <4> QED BY <4>1, <4>2 DEF PrepInv, Homes
    <3>2. CASE s = t
      <4>1. CASE area # nilpage /\ fpage_contains_object(area, utcb[t]) /\ pager[t] # NILTHREAD
        <5>1. written'[t] = Written(global_id[t], pager[t])
          BY <1>5, <2>1, <4>1 DEF Activate, PrepInv, PrepType
        <5> QED BY <2>2, <2>3, <2>4, <2>5, <2>6, <3>2, <4>1, <5>1 DEF ReadyOf, fpage_contains_object, Written
      <4>2. CASE ~ (area # nilpage /\ fpage_contains_object(area, utcb[t]) /\ pager[t] # NILTHREAD)
        <5>1. UNCHANGED <<written, active>>
          BY <1>5, <4>2 DEF Activate
        <5>2. ASSUME active[t] PROVE FALSE
          <6>1. fpage_contains_object(utcb_page[as[t]], utcb[t]) /\ pager[t] # NILTHREAD
            BY <3>1, <3>2, <5>2 DEF ReadyOf
          <6> QED BY <2>1, <4>2, <6>1 DEF fpage_contains_object, area
        <5> QED BY <2>2, <3>1, <3>2, <5>1, <5>2 DEF ReadyOf, Written
      <4> QED BY <4>1, <4>2
    <3>3. CASE s # t
      <4>1. as'[s] = as[s] /\ written'[s] = written[s] /\ active'[s] = active[s]
        <5>1. as'[s] = as[s]
          BY <2>5, <3>1, <3>3
        <5>2. written'[s] = written[s] /\ active'[s] = active[s]
          BY <1>5, <3>1, <3>3 DEF Activate, PrepInv, PrepType, TypeOK
        <5> QED BY <5>1, <5>2
      <4>2. as[s] # NoSpace => utcb_page'[as[s]] = utcb_page[as[s]]
        BY <2>3, <2>6, <3>1 DEF Home
      <4> QED BY <2>2, <3>1, <4>1, <4>2 DEF ReadyOf, fpage_contains_object, Written
    <3> QED BY <3>2, <3>3
  <2> QED BY <2>8, <2>9, <2>10 DEF PrepInv
<1> QED BY <1>1, <1>3, <1>4, <1>5 DEF syscall_space_control

(* The branches of syscall_thread_control.  A number that a lookup does not  *)
(* find, although a thread has it, is created a second time.                *)
LEMMA PrepThreadControl == ASSUME PrepInv, ApartInv, ThreadControl PROVE PrepInv'
<1>1. PICK dest \in New \cup Living \cup {1}, sched \in {NILTHREAD, Root, NoOne},
           pgr \in {NILTHREAD, Root}, place \in Places :
        \E space \in {NILTHREAD, dest, Root} :
          /\ dest \in New => (space = Root) = (dest = Root + 1)
          /\ dest \in Living /\ space # NILTHREAD =>
               Exists(space) /\ as[Block(space)] # NoSpace /\ as[Block(space)] = as[Block(dest)]
          /\ dest = Root => space = NILTHREAD
          /\ syscall_thread_control(dest, space, sched, pgr,
                                    [page |-> IF space = NILTHREAD THEN dest ELSE space, place |-> place])
  BY DEF ThreadControl
<1>2. PICK space \in {NILTHREAD, dest, Root} :
        /\ dest \in Living /\ space # NILTHREAD =>
             Exists(space) /\ as[Block(space)] # NoSpace /\ as[Block(space)] = as[Block(dest)]
        /\ syscall_thread_control(dest, space, sched, pgr,
                                  [page |-> IF space = NILTHREAD THEN dest ELSE space, place |-> place])
  BY <1>1
<1>3. /\ dest \in Numbers /\ space \in Numbers /\ dest \in Int /\ place \in Nat
      /\ dest # NILTHREAD /\ (dest < Root => dest \in {1, 2})
  <2>1. /\ L4_THREAD_COUNT \in Nat /\ L4_THREAD_COUNT > 4
        /\ \A s \in allocated : s \in Slots /\ global_id[s] \in Numbers /\ (s \in System \/ global_id[s] >= Root)
    BY TableAssumption DEF PrepInv, PrepType, Homes, Home
  <2>2. \A s \in System : global_id[s] \in {1, 2}
    BY DEF ApartInv, SystemApart, System
  <2>3. dest \in Living => dest \in Numbers /\ dest >= Root
    BY <2>1, <2>2 DEF Living
  <2>4. dest \in New => dest \in Numbers /\ dest >= Root
    BY <2>1 DEF New, Users, Numbers, Root
  <2>5. NILTHREAD \in Numbers /\ Root \in Numbers /\ 1 \in Numbers
    BY <2>1 DEF Numbers, Root, NILTHREAD
  <2>6. place \in Nat
    BY DEF Places
  <2> QED BY <2>1, <2>3, <2>4, <2>5, <2>6 DEF Numbers, Root, NILTHREAD
<1>4. CASE dest # NILTHREAD /\ dest < Root
  <2>1. ~ (dest >= Root /\ Exists(dest))
    BY <1>3, <1>4 DEF Root
  <2>2. Refuse("no_privilege")
    BY <1>2, <1>4, <2>1 DEF syscall_thread_control
  <2> QED BY <2>2, PrepSame DEF Refuse
<1>5. CASE dest >= Root /\ Exists(dest)
  <2>1. dest \notin {1, 2} /\ ~ (dest # NILTHREAD /\ dest < Root)
    BY <1>3, <1>5 DEF Root
  <2>2. CASE space = NILTHREAD
    <3>1. Delete(dest)
      BY <1>2, <1>5, <2>1, <2>2 DEF syscall_thread_control
    <3>2. CASE Panic
      BY <3>2, PrepSame DEF Panic
    <3>3. CASE delete_thread(Block(dest))
      BY <1>5, <2>1, <3>3, LookupApart, PrepDelete DEF ApartInv
    <3> QED BY <3>1, <3>2, <3>3 DEF Delete
  <2>3. CASE space # NILTHREAD
    <3>1. Modify(dest, space, sched, pgr, [page |-> space, place |-> place])
      BY <1>2, <1>5, <2>1, <2>3 DEF syscall_thread_control
    <3>2. dest \in Living
      <4>1. Block(dest) \in allocated /\ global_id[Block(dest)] = dest
        BY <1>5, LookupNumber
      <4> QED BY <2>1, <4>1 DEF Living
    <3> QED BY <1>2, <1>3, <1>5, <2>3, <3>1, <3>2, PrepModify
  <2> QED BY <2>2, <2>3
<1>6. CASE ~ (dest # NILTHREAD /\ dest < Root) /\ ~ (dest >= Root /\ Exists(dest))
  <2>1. dest >= Root
    BY <1>3, <1>6 DEF Root, NILTHREAD
  <2>2. CASE space = NILTHREAD
    <3>1. Refuse("invalid_space")
      BY <1>2, <1>6, <2>2 DEF syscall_thread_control
    <3> QED BY <3>1, PrepSame DEF Refuse
  <2>3. CASE space # NILTHREAD
    <3>1. Create(dest, space, sched, pgr, [page |-> space, place |-> place])
      BY <1>2, <1>6, <2>3 DEF syscall_thread_control
    <3> QED BY <1>3, <2>1, <2>3, <3>1, PrepCreate
  <2> QED BY <2>2, <2>3
<1> QED BY <1>4, <1>5, <1>6

(* Every call, and every death, keeps the threads prepared.                  *)
LEMMA PrepNext == ASSUME PrepInv, ApartInv, [Next]_vars PROVE PrepInv'
<1>1. CASE ThreadControl
  BY <1>1, PrepThreadControl
<1>2. CASE SpaceControl
  BY <1>2, PrepSpaceControl
<1>3. CASE Schedule
  BY <1>3, PrepSchedule
<1>4. CASE Dies
  <2>1. PICK t \in allocated \ (0 .. RootSlot) : delete_thread(t)
    BY <1>4 DEF Dies
  <2>2. t \in Slots \ System
    BY DEF ApartInv, SystemApart, System, RootSlot
  <2> QED BY <2>1, <2>2, PrepDelete
<1>5. CASE UNCHANGED vars
  BY <1>5, PrepSame DEF vars
<1> QED BY <1>1, <1>2, <1>3, <1>4, <1>5 DEF Next

(* Every variable keeps its type, and a thread that may be sent its start    *)
(* message has a space, its UTCB inside the page for UTCBs, a pager, and a  *)
(* UTCB that says what is true: syscall_thread_control and                  *)
(* syscall_space_control, with their errors and with deaths in between, for *)
(* whatever thread_map_find fails to find.                                  *)
THEOREM ThreadsPrepared == Spec => []Prepared
<1>1. Init => PrepInv
  BY PrepInit
<1>2. PrepInv /\ ApartInv /\ [Next]_vars => PrepInv'
  BY PrepNext
<1>3. PrepInv => Prepared
  BY DEF PrepInv, PrepType, Prepared
<1> QED BY <1>1, <1>2, <1>3, SystemKeptApart, PTL DEF Spec
=============================================================================
