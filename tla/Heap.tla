-------------------------------- MODULE Heap --------------------------------
(***************************************************************************)
(* The binary heap of lib/heap/include/heap.inc as kern/thread.c           *)
(* instantiates it: the scheduler's run queue, an array of thread indices  *)
(* ordered by the priority of the threads.  One step is one loop iteration *)
(* of swim or sink, so that the intermediate arrays are states too.        *)
(***************************************************************************)
EXTENDS Integers, FiniteSets

CONSTANTS
  Thread,       \* indices into tcb_store
  Kernel,       \* tcb_store index 0: priority 0, created first
  Idle,         \* priority ~0
  UserPrio,     \* the priorities a user thread can have
  IdlePrio,     \* the value ~0
  HEAP_SIZE     \* THREAD_MAX_COUNT

ASSUME HeapAssumption ==
  /\ Kernel \in Thread
  /\ Idle \in Thread
  /\ Kernel # Idle
  /\ IdlePrio \in Nat
  /\ UserPrio \subseteq 1 .. (IdlePrio - 1)
  /\ UserPrio # {}
  /\ HEAP_SIZE \in Nat \ {0}

VARIABLES
  size, data,   \* thread_schedule_state
  prio,         \* tcb_store[t].priority
  op, idx,      \* the loop that runs, and its idx
  picked        \* what find_thread_idx_to_schedule returned last

vars == <<size, data, prio, op, idx, picked>>

User == Thread \ {Kernel, Idle}

Slots == 0 .. (HEAP_SIZE - 1)

InHeap(t) == \E i \in Slots : i < size /\ data[i] = t

Places(t) == {i \in Slots : i < size /\ data[i] = t}

Contents == [t \in Thread |-> Cardinality(Places(t))]

\* compare_thread_by_prio
HEAP_COMPARE(l, r) == prio[l] < prio[r]

Swap(i, j) == [data EXCEPT ![i] = data[j], ![j] = data[i]]

\* tcb_store and the heap are static data, zeroed before main runs; kern_tcb
\* is index 0.
Init ==
  /\ size = 0
  /\ data = [i \in Slots |-> Kernel]
  /\ prio \in [Thread -> UserPrio \cup {0, IdlePrio}]
  /\ prio[Kernel] = 0
  /\ prio[Idle] = IdlePrio
  /\ \A t \in User : prio[t] \in UserPrio
  /\ op = "none" /\ idx = 0
  /\ picked = Kernel

\* The mutated forms below each change one operation the way a slip in the
\* code would; they are used only to show that the properties can fail.
SwimNoRoot ==
  /\ op = "swim"
  /\ LET parent == (idx - 1) \div 2 IN
     IF idx > 2 /\ HEAP_COMPARE(data[idx], data[parent])
       THEN data' = Swap(idx, parent) /\ idx' = parent /\ UNCHANGED op
       ELSE op' = "none" /\ UNCHANGED <<data, idx>>
  /\ UNCHANGED <<size, prio, picked>>

\* One evaluation of swim's loop condition, with the swap when it holds.
\* The early return for idx = 0 is the same exit.
Swim ==
  /\ op = "swim"
  /\ LET parent == (idx - 1) \div 2 IN
     IF idx > 0 /\ HEAP_COMPARE(data[idx], data[parent])
       THEN /\ data' = Swap(idx, parent)
            /\ idx' = parent
            /\ UNCHANGED op
       ELSE /\ op' = "none"
            /\ UNCHANGED <<data, idx>>
  /\ UNCHANGED <<size, prio, picked>>

SinkDone == op' = (IF op = "sink" THEN "none" ELSE "swim") /\ UNCHANGED <<data, idx>>

SinkTo(child) == data' = Swap(child, idx) /\ idx' = child /\ UNCHANGED op

left_child == 2 * idx + 1
right_child == 2 * idx + 2

RightSmaller == right_child < size /\ HEAP_COMPARE(data[right_child], data[idx])
LeftSmaller == HEAP_COMPARE(data[left_child], data[idx])

\* The loop bound computed as (size - 3) / 2: the last inner node with only
\* a left child is taken for a leaf.
HasChildShort == size >= 3 /\ idx <= (size - 3) \div 2

\* idx <= last_parent_idx, behind the early return for size < 2
HasChild == size >= 2 /\ idx <= (size - 2) \div 2

\* One iteration of sink's loop: the right child is tried first, and taken
\* even when the left one is smaller still.
Sink ==
  /\ op \in {"sink", "sinkswim"}
  /\ \/ HasChild /\ RightSmaller /\ SinkTo(right_child)
     \/ HasChild /\ ~RightSmaller /\ LeftSmaller /\ SinkTo(left_child)
     \/ HasChild /\ ~RightSmaller /\ ~LeftSmaller /\ SinkDone
     \/ ~HasChild /\ SinkDone
  /\ UNCHANGED <<size, prio, picked>>

\* The test for a full array comes after the increment and is off by one.
InsertLate(t) ==
  /\ op = "none" /\ (t \in {Kernel, Idle} => ~InHeap(t))
  /\ size <= HEAP_SIZE
  /\ data' = [data EXCEPT ![size] = t]
  /\ size' = size + 1
  /\ op' = "swim" /\ idx' = size
  /\ UNCHANGED <<prio, picked>>

\* thread_schedule_insert, up to the call of swim.  Its callers insert the
\* kernel and idle threads only when they are not queued (Sched!SystemOnce, as
\* long as no tick tears the heap); a user thread may be queued already.
Insert(t) ==
  /\ op = "none" /\ (t \in {Kernel, Idle} => ~InHeap(t))
  /\ IF size = HEAP_SIZE
       THEN UNCHANGED vars
       ELSE /\ data' = [data EXCEPT ![size] = t]
            /\ size' = size + 1
            /\ op' = "swim" /\ idx' = size
            /\ UNCHANGED <<prio, picked>>

\* --v->size forgotten in the copy: the slot behind the last element moves.
RemoveAtStale(i) ==
  /\ data' = [data EXCEPT ![i] = data[IF size < HEAP_SIZE THEN size ELSE size - 1]]
  /\ size' = size - 1
  /\ op' = "sink" /\ idx' = i

RemoveAt(i) ==
  /\ data' = [data EXCEPT ![i] = data[size - 1]]
  /\ size' = size - 1
  /\ op' = "sink" /\ idx' = i

\* thread_schedule_delete after the linear search for t (set_thread_state,
\* delete_thread, find_thread_idx_to_schedule_from_target).
Delete(t) ==
  /\ op = "none"
  /\ \E i \in Slots :
       /\ i < size /\ data[i] = t
       /\ \A j \in Slots : j < i => data[j] # t
       /\ RemoveAt(i)
  /\ UNCHANGED <<prio, picked>>

\* find_thread_idx_to_schedule; an empty heap is a panic.
Pop ==
  /\ op = "none" /\ size > 0
  /\ picked' = data[0]
  /\ RemoveAt(0)
  /\ UNCHANGED prio

\* set_thread_priority, called by syscall_schedule for user threads only:
\* the kernel and idle threads have no address space a caller could share.
SetPriority(t, p) ==
  /\ op = "none"
  /\ prio' = [prio EXCEPT ![t] = p]
  /\ \/ /\ ~InHeap(t)
        /\ UNCHANGED <<op, idx>>
     \/ \E i \in Slots :
          /\ i < size /\ data[i] = t
          /\ \A j \in Slots : j < i => data[j] # t
          /\ op' = "sinkswim" /\ idx' = i
  /\ UNCHANGED <<size, data, picked>>

Next ==
  \/ \E t \in Thread : Insert(t)
  \/ \E t \in Thread : Delete(t)
  \/ Pop
  \/ \E t \in User, p \in UserPrio : SetPriority(t, p)
  \/ Swim
  \/ Sink

Spec == Init /\ [][Next]_vars
-----------------------------------------------------------------------------
\* Every index stays inside the array in heap.inc and the loop state matches
\* the running operation.
TypeOK ==
  /\ size \in 0 .. HEAP_SIZE
  /\ data \in [Slots -> Thread]
  /\ prio \in [Thread -> 0 .. IdlePrio]
  /\ prio[Kernel] = 0 /\ prio[Idle] = IdlePrio
  /\ \A t \in User : prio[t] \in UserPrio
  /\ op \in {"none", "swim", "sink", "sinkswim"}
  /\ idx \in Slots
  /\ op \in {"swim", "sinkswim"} => idx < size
  /\ picked \in Thread

\* swim, sink and the copy in delete never duplicate the kernel or the idle
\* thread, in the middle of an operation neither.
SystemOnce ==
  \A i, j \in Slots :
    i < size /\ j < size /\ data[i] = data[j] /\ data[i] \in {Kernel, Idle} => i = j

\* Whenever the heap is at rest and holds the kernel thread, pop returns it:
\* this is what makes a pending softirq run before any user thread even when
\* systick has overwritten schedule_target.
KernelOnTop ==
  op = "none" /\ InHeap(Kernel) => data[0] = Kernel

\* At rest the idle thread is a leaf, so find_thread_idx_to_schedule
\* returns it only when it is the only thread left.
IdleLast ==
  op = "none" => \A i \in Slots : i < size /\ data[i] = Idle => 2 * i + 1 >= size

\* What is true in the middle of an operation as well, and makes the two
\* properties above inductive: only an element that swims may be the kernel
\* below the root, and idle has a child only while the newest leaf swims past
\* it or while idle itself sinks.
KernelPlace ==
  \A i \in Slots : i < size /\ data[i] = Kernel =>
    i = 0 \/ (op = "swim" /\ i = idx)

IdlePlace ==
  \A i \in Slots : i < size /\ data[i] = Idle =>
    \/ 2 * i + 1 >= size
    \/ op = "swim" /\ 2 * i + 1 = idx /\ idx = size - 1
    \/ op = "sink" /\ i = idx

\* The inductive invariant of heap.inc, true after every iteration of its loops.
HeapInv == TypeOK /\ SystemOnce /\ KernelPlace /\ IdlePlace

\* The heap implements the run queue the scheduler relies on: swim and sink
\* only rearrange, insert, delete and pop change the entries of exactly one
\* thread by one.
RQ == INSTANCE RunQueue WITH queue <- Contents
ImplementsRunQueue == RQ!RQSpec
=============================================================================
