----------------------------- MODULE HeapProofs -----------------------------
(***************************************************************************)
(* Proofs about the run-queue heap, for every set of threads, every set of *)
(* user priorities and every heap size.                                    *)
(***************************************************************************)
EXTENDS Heap, FiniteSetTheorems, TLAPS

\* The index arithmetic of heap.inc: (i - 1) / 2 is the node whose children
\* 2p + 1 and 2p + 2 include i.
LEMMA ParentIndex ==
  ASSUME NEW n \in Nat, n > 0
  PROVE  /\ (n - 1) \div 2 \in Nat
         /\ (n - 1) \div 2 < n
         /\ n = 2 * ((n - 1) \div 2) + 1 \/ n = 2 * ((n - 1) \div 2) + 2
  OBVIOUS

\* The loop bound of sink: i <= (size - 2) / 2 exactly when i has a child.
LEMMA InnerIndex ==
  ASSUME NEW n \in Nat, n >= 2, NEW i \in Nat
  PROVE  i <= (n - 2) \div 2 <=> 2 * i + 1 < n
  OBVIOUS

\* The boot state satisfies the inductive invariant: an empty heap.
LEMMA HeapInit == Init => HeapInv
<1> SUFFICES ASSUME Init PROVE HeapInv
  OBVIOUS
<1>1. UserPrio \cup {0, IdlePrio} \subseteq 0 .. IdlePrio
  BY HeapAssumption
<1>2. prio \in [Thread -> 0 .. IdlePrio]
  BY <1>1 DEF Init
<1>3. TypeOK
  BY <1>2, HeapAssumption DEF Init, TypeOK, Slots
<1>4. SystemOnce /\ KernelPlace /\ IdlePlace
  BY DEF Init, SystemOnce, KernelPlace, IdlePlace, Slots
<1> QED BY <1>3, <1>4 DEF HeapInv

LEMMA InsertInv ==
  ASSUME HeapInv, NEW t \in Thread, Insert(t)
  PROVE  HeapInv'
<1> USE DEF HeapInv, Slots
<1>1. CASE size = HEAP_SIZE
  BY <1>1 DEF Insert, vars, TypeOK, SystemOnce, KernelPlace, IdlePlace
<1>2. CASE size # HEAP_SIZE
  <2>1. /\ size \in Slots /\ size' = size + 1 /\ idx' = size
        /\ data' = [data EXCEPT ![size] = t]
        /\ op = "none" /\ op' = "swim" /\ UNCHANGED <<prio, picked>>
    BY <1>2, HeapAssumption DEF Insert, TypeOK
  <2>2. TypeOK'
    BY <2>1, HeapAssumption DEF TypeOK
  <2>3. SystemOnce'
    BY <2>1 DEF TypeOK, SystemOnce, Insert, InHeap
  <2>4. KernelPlace'
    BY <2>1 DEF TypeOK, KernelPlace
  <2>5. IdlePlace'
    BY <2>1 DEF TypeOK, IdlePlace
  <2> QED BY <2>2, <2>3, <2>4, <2>5
<1> QED BY <1>1, <1>2

LEMMA DeleteInv ==
  ASSUME HeapInv, NEW t \in Thread, Delete(t)
  PROVE  HeapInv'
  BY HeapAssumption DEF HeapInv, TypeOK, SystemOnce, KernelPlace, IdlePlace, Slots,
     Delete, RemoveAt, User

LEMMA PopInv ==
  ASSUME HeapInv, Pop
  PROVE  HeapInv'
  BY HeapAssumption DEF HeapInv, TypeOK, SystemOnce, KernelPlace, IdlePlace, Slots,
     Pop, RemoveAt, User

LEMMA SetPriorityInv ==
  ASSUME HeapInv, NEW t \in User, NEW p \in UserPrio, SetPriority(t, p)
  PROVE  HeapInv'
  BY HeapAssumption DEF HeapInv, TypeOK, SystemOnce, KernelPlace, IdlePlace, Slots,
     SetPriority, User

\* The kernel thread is below every other thread, idle above every other.
LEMMA PriorityBounds ==
  ASSUME TypeOK, NEW t \in Thread
  PROVE  /\ prio[t] \in Nat
         /\ ~HEAP_COMPARE(t, Kernel)
         /\ ~HEAP_COMPARE(Idle, t)
         /\ t # Kernel => HEAP_COMPARE(Kernel, t)
         /\ t # Idle => HEAP_COMPARE(t, Idle)
<1>0. PICK p \in UserPrio : p \in 1 .. (IdlePrio - 1)
  BY HeapAssumption
<1>1. prio[Kernel] = 0 /\ prio[Idle] = IdlePrio /\ IdlePrio \in Nat /\ IdlePrio > 0
  BY <1>0, HeapAssumption DEF TypeOK
<1>2. t \in User => prio[t] \in 1 .. (IdlePrio - 1)
  BY HeapAssumption DEF TypeOK
<1>3. t \in User \/ t = Kernel \/ t = Idle
  BY DEF User
<1> QED BY <1>1, <1>2, <1>3 DEF HEAP_COMPARE

LEMMA SwimInv ==
  ASSUME HeapInv, Swim
  PROVE  HeapInv'
<1> DEFINE parent == (idx - 1) \div 2
<1> USE DEF HeapInv, Slots
<1>1. CASE idx > 0 /\ HEAP_COMPARE(data[idx], data[parent])
  <2>1. /\ parent \in Slots /\ parent < idx /\ idx < size
        /\ idx = 2 * parent + 1 \/ idx = 2 * parent + 2
    BY <1>1, ParentIndex, HeapAssumption DEF Swim, TypeOK
  <2>2. /\ data' = Swap(idx, parent) /\ idx' = parent
        /\ UNCHANGED <<op, size, prio, picked>>
    BY <1>1 DEF Swim
  <2>3. data[parent] # Kernel /\ data[idx] # Idle
    BY <1>1, <2>1, PriorityBounds DEF TypeOK
  <2> HIDE DEF parent
  <2>4. TypeOK'
    BY <2>1, <2>2 DEF TypeOK, Swap
  <2>5. SystemOnce'
    BY <2>1, <2>2 DEF TypeOK, Swap, SystemOnce
  <2>6. KernelPlace'
    BY <2>1, <2>2, <2>3 DEF TypeOK, Swap, KernelPlace
  <2>7. IdlePlace'
    BY <2>1, <2>2, <2>3 DEF TypeOK, Swap, IdlePlace, Swim
  <2> QED BY <2>4, <2>5, <2>6, <2>7
<1>2. CASE ~(idx > 0 /\ HEAP_COMPARE(data[idx], data[parent]))
  <2>1. op = "swim" /\ op' = "none" /\ UNCHANGED <<data, idx, size, prio, picked>>
    BY <1>2 DEF Swim
  <2>2. TypeOK' /\ SystemOnce'
    BY <2>1 DEF TypeOK, SystemOnce
  <2>3. idx > 0 => /\ parent \in Slots /\ parent < idx /\ idx < size
                   /\ idx = 2 * parent + 1 \/ idx = 2 * parent + 2
    BY ParentIndex, HeapAssumption, <2>1 DEF TypeOK
  <2>4. KernelPlace'
    <3>1. data[idx] = Kernel => idx = 0
      BY <1>2, <2>1, <2>3, PriorityBounds DEF SystemOnce, TypeOK
    <3> QED BY <2>1, <3>1 DEF KernelPlace
  <2>5. IdlePlace'
    <3>1. ASSUME NEW i \in Slots, i < size, data[i] = Idle, 2 * i + 1 = idx
          PROVE FALSE
      <4>1. parent = i /\ idx > 0 /\ idx < size
        BY <3>1, <2>1, <2>3 DEF TypeOK
      <4>2. data[idx] # Idle
        BY <3>1, <4>1, <2>3 DEF SystemOnce, TypeOK
      <4> QED BY <4>1, <4>2, <3>1, <1>2, PriorityBounds DEF TypeOK
    <3> QED BY <2>1, <3>1 DEF IdlePlace
  <2> QED BY <2>2, <2>4, <2>5
<1> QED BY <1>1, <1>2

LEMMA SinkInv ==
  ASSUME HeapInv, Sink
  PROVE  HeapInv'
<1> USE DEF HeapInv, Slots
<1>0. op \in {"sink", "sinkswim"} /\ UNCHANGED <<size, prio, picked>>
  BY DEF Sink
<1>1. ASSUME NEW child \in Slots, child < size, SinkTo(child),
             child = 2 * idx + 1 \/ child = 2 * idx + 2,
             HEAP_COMPARE(data[child], data[idx])
      PROVE  HeapInv'
  <2>1. idx < size /\ idx # child /\ data[child] # Idle /\ data[idx] # Kernel
    BY <1>1, PriorityBounds DEF TypeOK
  <2>2. TypeOK'
    BY <1>0, <1>1, <2>1 DEF TypeOK, SinkTo, Swap
  <2>3. SystemOnce'
    BY <1>0, <1>1, <2>1 DEF TypeOK, SinkTo, Swap, SystemOnce
  <2>4. KernelPlace'
    BY <1>0, <1>1, <2>1 DEF TypeOK, SinkTo, Swap, KernelPlace
  <2>5. IdlePlace'
    BY <1>0, <1>1, <2>1 DEF TypeOK, SinkTo, Swap, IdlePlace
  <2> QED BY <2>2, <2>3, <2>4, <2>5
<1>2. ASSUME SinkDone,
             2 * idx + 1 < size => ~HEAP_COMPARE(data[2 * idx + 1], data[idx])
      PROVE  HeapInv'
  <2>1. TypeOK' /\ SystemOnce' /\ KernelPlace'
    BY <1>0, <1>2 DEF SinkDone, TypeOK, SystemOnce, KernelPlace
  <2>2. data[idx] = Idle /\ idx < size => 2 * idx + 1 >= size
    <3> SUFFICES ASSUME data[idx] = Idle, idx < size, 2 * idx + 1 < size
                 PROVE FALSE
      BY DEF TypeOK
    <3>1. data[2 * idx + 1] \in Thread /\ data[2 * idx + 1] # Idle
      BY HeapAssumption DEF TypeOK, SystemOnce
    <3> QED BY <3>1, <1>2, PriorityBounds
  <2>3. IdlePlace'
    BY <1>0, <1>2, <2>2 DEF SinkDone, IdlePlace, TypeOK
  <2> QED BY <2>1, <2>3
<1>3. HasChild <=> left_child < size
  BY InnerIndex DEF TypeOK, HasChild, left_child
<1>4. CASE HasChild /\ RightSmaller /\ SinkTo(right_child)
  <2>1. right_child \in Slots /\ right_child < size /\ right_child = 2 * idx + 2
    BY <1>4, HeapAssumption DEF TypeOK, RightSmaller, right_child
  <2>2. HEAP_COMPARE(data[right_child], data[idx])
    BY <1>4 DEF RightSmaller
  <2> QED BY <2>1, <2>2, <1>4, <1>1
<1>5. CASE HasChild /\ LeftSmaller /\ SinkTo(left_child)
  <2>1. left_child \in Slots /\ left_child < size /\ left_child = 2 * idx + 1
    BY <1>5, <1>3, HeapAssumption DEF TypeOK, left_child
  <2>2. HEAP_COMPARE(data[left_child], data[idx])
    BY <1>5 DEF LeftSmaller
  <2> QED BY <2>1, <2>2, <1>5, <1>1
<1>6. CASE (~HasChild \/ ~LeftSmaller) /\ SinkDone
  <2>1. 2 * idx + 1 < size => ~HEAP_COMPARE(data[2 * idx + 1], data[idx])
    BY <1>6, <1>3 DEF LeftSmaller, left_child
  <2> QED BY <2>1, <1>6, <1>2
<1> QED BY <1>4, <1>5, <1>6 DEF Sink

\* The heap stays within its array and its loops within the heap, and the
\* kernel and idle threads are queued once and at their places, in every
\* state of every operation.
THEOREM HeapInvariant == Spec => []HeapInv
<1>1. HeapInv /\ [Next]_vars => HeapInv'
  <2> SUFFICES ASSUME HeapInv, [Next]_vars PROVE HeapInv'
    OBVIOUS
  <2>1. ASSUME NEW t \in Thread, Insert(t) PROVE HeapInv'
    BY <2>1, InsertInv
  <2>2. ASSUME NEW t \in Thread, Delete(t) PROVE HeapInv'
    BY <2>2, DeleteInv
  <2>3. ASSUME NEW t \in User, NEW p \in UserPrio, SetPriority(t, p) PROVE HeapInv'
    BY <2>3, SetPriorityInv
  <2>4. CASE UNCHANGED vars
    BY <2>4 DEF vars, HeapInv, TypeOK, SystemOnce, KernelPlace, IdlePlace
  <2> QED BY <2>1, <2>2, <2>3, <2>4, PopInv, SwimInv, SinkInv DEF Next
<1> QED BY <1>1, HeapInit, PTL DEF Spec

\* Index and loop safety of heap.inc.
THEOREM HeapTypeCorrect == Spec => []TypeOK
<1>1. HeapInv => TypeOK
  BY DEF HeapInv
<1> QED BY <1>1, HeapInvariant, PTL

\* The kernel and idle threads are never in two slots of the heap.
THEOREM HeapSystemOnce == Spec => []SystemOnce
<1>1. HeapInv => SystemOnce
  BY DEF HeapInv
<1> QED BY <1>1, HeapInvariant, PTL

\* A queued kernel thread is what pop returns.
THEOREM HeapKernelOnTop == Spec => []KernelOnTop
<1>1. HeapInv => KernelOnTop
  BY DEF HeapInv, KernelPlace, KernelOnTop, InHeap
<1> QED BY <1>1, HeapInvariant, PTL

\* Idle is a leaf at rest, so it is popped only when it is alone.
THEOREM HeapIdleLast == Spec => []IdleLast
<1>1. HeapInv => IdleLast
  BY DEF HeapInv, TypeOK, IdlePlace, IdleLast
<1> QED BY <1>1, HeapInvariant, PTL
-----------------------------------------------------------------------------
\* Replacing one element of a finite set by a new one keeps its size.
LEMMA ReplaceElement ==
  ASSUME NEW S, IsFiniteSet(S), NEW x \in S, NEW y, y \notin S
  PROVE  Cardinality((S \ {x}) \cup {y}) = Cardinality(S)
<1>1. IsFiniteSet(S \ {x}) /\ Cardinality(S \ {x}) = Cardinality(S) - 1
  BY FS_RemoveElement
<1>2. Cardinality((S \ {x}) \cup {y}) = Cardinality(S \ {x}) + 1
  BY <1>1, FS_AddElement
<1> QED BY <1>1, <1>2, FS_CardinalityType

\* A thread occupies finitely many slots, and is in the heap exactly when it
\* occupies one.
LEMMA PlacesFinite ==
  ASSUME NEW t
  PROVE  /\ IsFiniteSet(Places(t))
         /\ Cardinality(Places(t)) \in Nat
         /\ Cardinality(Places(t)) > 0 <=> \E i \in Slots : i < size /\ data[i] = t
<1>1. IsFiniteSet(Slots)
  BY FS_Interval, HeapAssumption DEF Slots
<1>2. IsFiniteSet(Places(t))
  BY <1>1, FS_Subset DEF Places
<1>3. Cardinality(Places(t)) \in Nat /\ (Cardinality(Places(t)) = 0 <=> Places(t) = {})
  BY <1>2, FS_CardinalityType, FS_EmptySet
<1> QED BY <1>2, <1>3 DEF Places

\* swim and sink exchange two occupied slots: every thread keeps its entries.
LEMMA SwapKeepsContents ==
  ASSUME TypeOK, NEW i \in Slots, NEW j \in Slots, i < size, j < size,
         data' = Swap(i, j), size' = size
  PROVE  Contents' = Contents
<1> SUFFICES ASSUME NEW t \in Thread PROVE Cardinality(Places(t)') = Cardinality(Places(t))
  BY DEF Contents
<1>0. data \in [Slots -> Thread]
  BY DEF TypeOK
<1>1. CASE (t # data[i] /\ t # data[j]) \/ data[i] = data[j]
  <2>1. Places(t)' = Places(t)
    BY <1>0, <1>1 DEF Places, Swap
  <2> QED BY <2>1
<1>2. CASE t = data[i] /\ data[i] # data[j]
  <2>1. Places(t)' = (Places(t) \ {i}) \cup {j} /\ i \in Places(t) /\ j \notin Places(t)
    BY <1>0, <1>2 DEF Places, Swap
  <2> QED BY <2>1, PlacesFinite, ReplaceElement
<1>3. CASE t = data[j] /\ data[i] # data[j]
  <2>1. Places(t)' = (Places(t) \ {j}) \cup {i} /\ j \in Places(t) /\ i \notin Places(t)
    BY <1>0, <1>3 DEF Places, Swap
  <2> QED BY <2>1, PlacesFinite, ReplaceElement
<1> QED BY <1>1, <1>2, <1>3

\* delete and pop move the last element into the hole: exactly one entry of
\* the removed thread goes.
LEMMA RemoveAtContents ==
  ASSUME TypeOK, NEW i \in Slots, i < size, RemoveAt(i)
  PROVE  Contents' = [Contents EXCEPT ![data[i]] = @ - 1]
<1> DEFINE last == size - 1
<1>1. /\ data' = [data EXCEPT ![i] = data[last]] /\ size' = last
      /\ last \in Slots /\ size \in Nat /\ data \in [Slots -> Thread]
      /\ \A k \in Slots : k < size <=> k < last \/ k = last
  BY HeapAssumption DEF RemoveAt, TypeOK, Slots
<1> HIDE DEF last
<1>2. last < size /\ ~(last < last) /\ (i < last \/ i = last)
  BY HeapAssumption DEF last, TypeOK, Slots
<1>3. ASSUME NEW t \in Thread, t # data[i]
      PROVE  Cardinality(Places(t)') = Cardinality(Places(t))
  <2>1. CASE t # data[last] \/ i = last
    <3>1. Places(t)' = Places(t)
      BY <1>1, <1>2, <1>3, <2>1 DEF Places
    <3> QED BY <3>1
  <2>2. CASE t = data[last] /\ i # last
    <3>1. /\ Places(t)' = (Places(t) \ {last}) \cup {i}
          /\ last \in Places(t) /\ i \notin Places(t)
      BY <1>1, <1>2, <1>3, <2>2 DEF Places
    <3> QED BY <3>1, PlacesFinite, ReplaceElement
  <2> QED BY <2>1, <2>2
<1>4. ASSUME NEW t \in Thread, t = data[i]
      PROVE  Cardinality(Places(t)') = Cardinality(Places(t)) - 1
  <2>1. CASE t = data[last]
    <3>1. Places(t)' = Places(t) \ {last} /\ last \in Places(t)
      BY <1>1, <1>2, <1>4, <2>1 DEF Places
    <3> QED BY <3>1, PlacesFinite, FS_RemoveElement
  <2>2. CASE t # data[last]
    <3>1. Places(t)' = Places(t) \ {i} /\ i \in Places(t)
      BY <1>1, <1>2, <1>4, <2>2 DEF Places
    <3> QED BY <3>1, PlacesFinite, FS_RemoveElement
  <2> QED BY <2>1, <2>2
<1> QED BY <1>1, <1>3, <1>4 DEF Contents

\* insert writes the first free slot: exactly one entry comes.
LEMMA InsertContents ==
  ASSUME TypeOK, NEW t \in Thread, size # HEAP_SIZE,
         data' = [data EXCEPT ![size] = t], size' = size + 1
  PROVE  Contents' = [Contents EXCEPT ![t] = @ + 1]
<1>1. /\ size \in Slots /\ data \in [Slots -> Thread]
      /\ \A k \in Slots : k < size' <=> k < size \/ k = size
      /\ ~(size < size)
  BY HeapAssumption DEF TypeOK, Slots
<1>2. ASSUME NEW u \in Thread, u # t
      PROVE  Cardinality(Places(u)') = Cardinality(Places(u))
  <2>1. Places(u)' = Places(u)
    BY <1>1, <1>2 DEF Places
  <2> QED BY <2>1
<1>3. Cardinality(Places(t)') = Cardinality(Places(t)) + 1
  <2>1. Places(t)' = Places(t) \cup {size} /\ size \notin Places(t)
    BY <1>1 DEF Places
  <2> QED BY <2>1, PlacesFinite, FS_AddElement
<1> QED BY <1>2, <1>3 DEF Contents

\* The heap of heap.inc, driven by thread.c, implements the run queue the
\* scheduler relies on: every operation of the array is one operation on the
\* bag of queued threads, and every pop a pick that RunQueue allows.
THEOREM HeapImplementsRunQueue == Spec => ImplementsRunQueue
<1>1. Init => RQ!RQInit
  <2> SUFFICES ASSUME Init PROVE Contents = [t \in Thread |-> 0] /\ picked \in Thread
    BY DEF RQ!RQInit
  <2>1. ASSUME NEW t \in Thread PROVE Cardinality(Places(t)) = 0
    <3>1. Places(t) = {}
      BY DEF Init, Places, Slots
    <3> QED BY <3>1, FS_EmptySet
  <2> QED BY <2>1, HeapAssumption DEF Init, Contents
<1>2. HeapInv /\ [Next]_vars => [RQ!RQNext]_(RQ!rqvars)
  <2> SUFFICES ASSUME HeapInv, [Next]_vars PROVE [RQ!RQNext]_(RQ!rqvars)
    OBVIOUS
  <2> USE DEF HeapInv
  <2>0. ASSUME NEW t \in Thread
        PROVE  Contents[t] \in Nat /\ (InHeap(t) => Contents[t] > 0)
                                   /\ (~InHeap(t) => Contents[t] = 0)
    <3>1. Contents[t] = Cardinality(Places(t))
      BY DEF Contents
    <3> QED BY <3>1, PlacesFinite DEF InHeap
  <2>1. ASSUME NEW t \in Thread, Insert(t) PROVE [RQ!RQNext]_(RQ!rqvars)
    <3>1. CASE size = HEAP_SIZE
      BY <3>1, <2>1 DEF Insert, vars, RQ!rqvars, Contents, Places
    <3>2. CASE size # HEAP_SIZE
      <4>1. Contents' = [Contents EXCEPT ![t] = @ + 1] /\ UNCHANGED picked
        BY <3>2, <2>1, InsertContents DEF Insert
      <4>2. t \in {Kernel, Idle} => Contents[t] = 0
        BY <2>0, <2>1 DEF Insert
      <4> QED BY <4>1, <4>2 DEF RQ!RQNext, RQ!RQInsert
    <3> QED BY <3>1, <3>2
  <2>2. ASSUME NEW t \in Thread, Delete(t) PROVE [RQ!RQNext]_(RQ!rqvars)
    <3>1. PICK i \in Slots : i < size /\ data[i] = t /\ RemoveAt(i)
      BY <2>2 DEF Delete
    <3>2. InHeap(t)
      BY <3>1 DEF InHeap
    <3>3. Contents' = [Contents EXCEPT ![t] = @ - 1] /\ Contents[t] > 0
      BY <3>1, <3>2, <2>0, RemoveAtContents
    <3> QED BY <2>2, <3>3 DEF Delete, RQ!RQNext, RQ!RQDelete
  <2>3. CASE Pop
    <3>0. 0 \in Slots /\ 0 < size
      BY <2>3, HeapAssumption DEF Pop, Slots, TypeOK
    <3>1. /\ Contents' = [Contents EXCEPT ![data[0]] = @ - 1]
          /\ data[0] \in Thread /\ Contents[data[0]] > 0
      <4>1. data[0] \in Thread /\ InHeap(data[0])
        BY <3>0 DEF TypeOK, InHeap
      <4>2. RemoveAt(0)
        BY <2>3 DEF Pop
      <4> QED BY <4>1, <4>2, <3>0, <2>0, RemoveAtContents
    <3>2. Contents[Kernel] > 0 => data[0] = Kernel
      <4>1. Contents[Kernel] > 0 => InHeap(Kernel)
        BY <2>0, HeapAssumption
      <4> QED BY <4>1, <2>3 DEF Pop, InHeap, KernelPlace
    <3>3. ASSUME data[0] = Idle, NEW u \in Thread, Contents[u] > 0 PROVE u = Idle
      <4>0. InHeap(u)
        BY <3>3, <2>0
      <4>1. PICK k \in Slots : k < size /\ data[k] = u
        BY <4>0 DEF InHeap
      <4>2. 2 * 0 + 1 >= size
        BY <2>3, <3>0, <3>3 DEF Pop, IdlePlace
      <4>3. k = 0
        BY <4>1, <4>2 DEF TypeOK, Slots
      <4> QED BY <4>1, <4>3, <3>3
    <3> QED BY <2>3, <3>1, <3>2, <3>3 DEF Pop, RQ!RQNext, RQ!RQPop, RQ!MayPick
  <2>4. ASSUME NEW t \in User, NEW p \in UserPrio, SetPriority(t, p)
        PROVE [RQ!RQNext]_(RQ!rqvars)
    BY <2>4 DEF SetPriority, RQ!rqvars, Contents, Places
  <2>5. CASE Swim
    <3>1. UNCHANGED <<size, picked>>
      BY <2>5 DEF Swim
    <3>2. CASE data' = data
      BY <3>1, <3>2 DEF Contents, Places, RQ!rqvars
    <3>3. CASE idx > 0 /\ data' = Swap(idx, (idx - 1) \div 2)
      <4>1. /\ (idx - 1) \div 2 \in Slots /\ (idx - 1) \div 2 < size
            /\ idx \in Slots /\ idx < size
        BY <2>5, <3>3, ParentIndex, HeapAssumption DEF Swim, TypeOK, Slots
      <4>2. Contents' = Contents
        BY <4>1, <3>3, <3>1, SwapKeepsContents
      <4> QED BY <4>2, <3>1 DEF RQ!rqvars
    <3> QED BY <2>5, <3>2, <3>3 DEF Swim
  <2>6. CASE Sink
    <3>1. UNCHANGED <<size, picked>>
      BY <2>6 DEF Sink
    <3>2. CASE data' = data
      BY <3>1, <3>2 DEF Contents, Places, RQ!rqvars
    <3>3. ASSUME NEW child \in {left_child, right_child}, child < size, data' = Swap(child, idx)
          PROVE UNCHANGED RQ!rqvars
      <4>1. child \in Slots /\ idx \in Slots /\ idx < size
        BY <3>3, HeapAssumption DEF left_child, right_child, TypeOK, Slots
      <4>2. Contents' = Contents
        BY <4>1, <3>3, <3>1, SwapKeepsContents
      <4> QED BY <4>2, <3>1 DEF RQ!rqvars
    <3>4. HasChild => left_child < size
      BY InnerIndex DEF TypeOK, HasChild, left_child, Slots
    <3> QED BY <2>6, <3>2, <3>3, <3>4 DEF Sink, SinkTo, SinkDone, RightSmaller
  <2>7. CASE UNCHANGED vars
    BY <2>7 DEF vars, RQ!rqvars, Contents, Places
  <2> QED BY <2>1, <2>2, <2>3, <2>4, <2>5, <2>6, <2>7 DEF Next
<1> QED BY <1>1, <1>2, HeapInvariant, PTL DEF Spec, ImplementsRunQueue, RQ!RQSpec
=============================================================================
