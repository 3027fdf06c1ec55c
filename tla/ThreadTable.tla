---------------------------- MODULE ThreadTable ----------------------------
(***************************************************************************)
(* The table of threads of kern/thread.c: the store of thread control      *)
(* blocks with its bit set, and thread_list, the indices of the blocks in   *)
(* the order of the thread numbers, which every lookup searches by          *)
(* bisection.  Blocks and list entries that are free keep what they held.   *)
(*                                                                          *)
(* A thread id is its number; the version in its low bits is always 1.     *)
(* The kernel thread, the idle thread and the root task have the numbers    *)
(* 1, 2 and 3, and 0 is what a block that was never used holds.             *)
(***************************************************************************)
EXTENDS Integers, FiniteSets, FiniteSetsExt

CONSTANTS
  THREAD_MAX_COUNT,   \* the number of thread control blocks
  L4_THREAD_COUNT,    \* the numbers of threads are below this
  Behind,             \* the number that is read behind the last block
  MaxDeaths           \* bound: how many threads die

ASSUME TableAssumption ==
  /\ THREAD_MAX_COUNT \in Nat /\ THREAD_MAX_COUNT > 3
  /\ L4_THREAD_COUNT \in Nat /\ L4_THREAD_COUNT > 4
  /\ Behind \in Nat /\ MaxDeaths \in Nat

Slots   == 0 .. THREAD_MAX_COUNT - 1
Numbers == 0 .. L4_THREAD_COUNT - 1
RootSlot == 2
Users   == 4 .. L4_THREAD_COUNT - 1    \* every other thread

VARIABLES
  allocated,       \* tcb_store_allocated: the blocks in use
  global_id,       \* the number in every block
  thread_list,     \* the indices, sorted by number
  thread_count,
  next_thread_no,  \* the root task's counter
  deaths

table_vars == <<allocated, global_id, thread_list, thread_count, next_thread_no, deaths>>

(* create_sys_threads: the kernel thread, the idle thread and the root task. *)
TableInit ==
  /\ allocated = 0 .. RootSlot
  /\ global_id = [s \in Slots |-> IF s <= RootSlot THEN s + 1 ELSE 0]
  /\ thread_list = [i \in Slots |-> IF i <= RootSlot THEN i ELSE 0]
  /\ thread_count = RootSlot + 1
  /\ next_thread_no = 4
  /\ deaths = 0

-----------------------------------------------------------------------------
(* The bisection of thread_list between low and high; ids is the content of  *)
(* the blocks at the time of the call.                                      *)
Bisect(no, ids, from, to) ==
  LET At(i) == IF thread_list[i] \in Slots THEN ids[thread_list[i]] ELSE Behind
      walk[low \in 0 .. THREAD_MAX_COUNT, high \in -1 .. THREAD_MAX_COUNT] ==
        LET mid == (low + high) \div 2
            Goto(l, h) == IF l < h THEN walk[l, h] ELSE l
        IN  IF At(mid) = no THEN mid
            ELSE IF At(mid) < no
                 THEN IF mid = thread_count THEN mid ELSE Goto(mid + 1, high)
                 ELSE IF mid = 0 THEN 0 ELSE Goto(low, mid - 1)
  IN walk[from, to]

(* thread_list_find: the position of a number, or one to insert it at.      *)
thread_list_find(no, ids) == Bisect(no, ids, 0, thread_count)

(* thread_map_find: the blocks a lookup may return, none or one.  Behind    *)
(* the last entry of the array it may read anything.                        *)
thread_map_find(no) ==
  LET idx == thread_list_find(no, global_id) IN
  IF idx = THREAD_MAX_COUNT THEN {}
  ELSE {s \in {thread_list[idx]} \cap Slots : global_id[s] = no}

FreeSlot == Min(Slots \ allocated)

(* The assertion of thread_list_insert for a new thread with this number.   *)
NotPresent(no) ==
  LET idx == thread_list_find(no, [global_id EXCEPT ![FreeSlot] = no])
  IN thread_count <= idx \/ thread_list[idx] # FreeSlot

(* thread_list_insert: the entries behind idx move up by one.               *)
InsertAt(idx, slot) ==
  [i \in Slots |-> IF i < idx \/ i > thread_count THEN thread_list[i]
                   ELSE IF i = idx THEN slot ELSE thread_list[i - 1]]

(* A mutated form: the list is closed one entry too late.                   *)
DeleteAtNext(idx) ==
  [i \in Slots |-> IF i <= idx \/ i >= thread_count - 1 THEN thread_list[i]
                   ELSE thread_list[i] + 1]

(* thread_list_delete: every entry behind idx becomes its predecessor's     *)
(* index plus one, whatever it was.                                         *)
DeleteAt(idx) ==
  [i \in Slots |-> IF i < idx \/ i >= thread_count - 1 THEN thread_list[i]
                   ELSE thread_list[i] + 1]

(* create_thread for a number that was not found; the root task, the only   *)
(* program that creates threads, numbers them upwards.  A table that is     *)
(* full is not represented: the callers write through the null pointer that *)
(* they get.                                                                *)
create_thread(no) ==
  /\ thread_count < THREAD_MAX_COUNT /\ allocated # Slots
  /\ LET ids == [global_id EXCEPT ![FreeSlot] = no] IN
     /\ global_id' = ids
     /\ thread_list' = InsertAt(thread_list_find(no, ids), FreeSlot)
  /\ allocated' = allocated \cup {FreeSlot}
  /\ thread_count' = thread_count + 1
  /\ next_thread_no' = no + 1
  /\ UNCHANGED deaths

(* delete_thread, the table; the neighbours are in ThreadControl.           *)
thread_list_delete(slot) ==
  /\ deaths < MaxDeaths
  /\ thread_list' = DeleteAt(thread_list_find(global_id[slot], global_id))
  /\ thread_count' = thread_count - 1
  /\ allocated' = allocated \ {slot}
  /\ deaths' = deaths + 1
  /\ UNCHANGED <<global_id, next_thread_no>>

-----------------------------------------------------------------------------
TableTypeOK ==
  /\ allocated \subseteq Slots
  /\ global_id \in [Slots -> Numbers]
  /\ thread_list \in [Slots -> 0 .. THREAD_MAX_COUNT]
  /\ thread_count = Cardinality(allocated)
  /\ next_thread_no \in 4 .. L4_THREAD_COUNT
  /\ deaths \in 0 .. MaxDeaths

Listed == {thread_list[i] : i \in 0 .. thread_count - 1} = allocated

Found == \A s \in allocated : thread_map_find(global_id[s]) = {s}

Ordered ==
  \A i, j \in 0 .. thread_count - 1 :
    i < j => global_id[thread_list[i]] < global_id[thread_list[j]]

(* What create_thread and delete_thread keep up to the first death and      *)
(* through all reuse of its block: the list has one entry for every block   *)
(* in use, in the order of the numbers, and the bisection finds every       *)
(* thread that exists under its number.  A second death may break all of    *)
(* it: DeleteAt closes the gap with a wrong block, threads that exist are   *)
(* not found, and a new one may meet itself (NotPresent).                   *)
TableInv == deaths <= 1 => TableTypeOK /\ Listed /\ Ordered /\ Found
=============================================================================
