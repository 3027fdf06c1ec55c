---------------------------- MODULE KalarmProofs ----------------------------
(***************************************************************************)
(* kern/kalarm.c, for every number of threads and every quantum from two    *)
(* ticks on: without IPC timeouts no assertion fails and no search is       *)
(* endless (KalarmNoAssertion), the list that the reschedule alarm and the  *)
(* yielding threads make stays in order, and a thread that is alone with    *)
(* the reschedule alarm stays in the list while it sleeps, whatever         *)
(* timeouts it used before (KalarmList).                                    *)
(***************************************************************************)
EXTENDS Kalarm, FiniteSetTheorems, WellFoundedInduction, TLAPS

Members == program.threads \cup {Resched, NULL}

(* Only the threads of the program, and the reschedule alarm, are linked.    *)
Linked == head \in Members /\ prev \in [Event -> Members] /\ next \in [Event -> Members]

Own ==
  /\ Linked
  /\ blocks \in program.threads \cup {NULL}
  /\ \A t \in Thread : state[t] # "awake" => t \in program.threads

(* Between two ticks the first alarm is not due, if it is the reschedule     *)
(* alarm.                                                                    *)
Later == panic = "no" /\ ~tick /\ head = Resched => left[Resched] >= 1

(* What a thread waits for that gave up the processor until the next tick.   *)
ToWait == IF tick THEN 0 ELSE 1

(* A thread that is alone and paused is the first one of the list.           *)
Sleeps ==
  panic = "no" /\ Alone => \A t \in Thread : state[t] = "paused" => head = t /\ left[t] = ToWait

(* The forms of the list without timeouts: empty, the reschedule alarm, a    *)
(* thread, or a thread before the reschedule alarm.  Threads that yielded    *)
(* earlier in the same tick have dropped out; their links are not used.      *)
Empty  == head = NULL /\ prev[Resched] # Resched
Single == head = Resched /\ prev[Resched] = NULL /\ next[Resched] = NULL
Yields == head \in Thread /\ next[head] = NULL /\ pendsv /\ prev[Resched] # Resched
Both   == /\ head \in Thread /\ next[head] = Resched
          /\ next[Resched] = NULL /\ prev[Resched] \in {NULL, Resched}
          /\ left[Resched] = left[head] + QUANTUM - 1

Untouched ==
  \A t \in Thread :
    /\ state[t] \in {"awake", "paused"}
    /\ state[t] = "awake" => prev[t] = NULL /\ next[t] = NULL /\ head # t

Quiet ==
  /\ panic = "no" /\ blocks = NULL
  /\ Untouched
  /\ prev[Resched] = NULL \/ next[Resched] = NULL
  /\ Empty \/ Single \/ Yields \/ Both
  /\ head \in Thread => left[head] = ToWait

KInv == TypeOK /\ Own /\ Later /\ Sleeps /\ (program.timeouts = {} => Quiet)

-----------------------------------------------------------------------------
(* A set of numbers has a least one.                                         *)
LEMMA LeastElement ==
  ASSUME NEW S \in SUBSET Nat, S # {}
  PROVE  \E x \in S : \A i \in S : x <= i
<1> DEFINE less == {p \in Nat \X Nat : p[1] < p[2]}
<1>1. IsWellFoundedOn(less, Nat)
  BY NatLessThanWellFounded, Zenon DEF OpToRel
<1>2. PICK x \in S : \A y \in S : <<y, x>> \notin less
  <2> HIDE DEF less
  <2> QED BY <1>1, WFMin
<1>3. ASSUME NEW y \in S PROVE x <= y
  <2>1. <<y, x>> \in Nat \X Nat /\ <<y, x>>[1] = y /\ <<y, x>>[2] = x
    OBVIOUS
  <2>2. ~ (y < x)
    BY <1>2, <2>1
  <2> QED BY <2>2
<1> QED BY <1>3

LEMMA Names ==
  /\ Resched \notin Thread /\ NULL \notin Thread /\ NULL # Resched
  /\ QUANTUM \in Nat \ {0, 1}
  /\ \A p \in Programs : p.threads \subseteq Thread /\ p.timeouts \subseteq 0 .. QUANTUM
<1>1. Programs \subseteq [threads : SUBSET Thread, timeouts : SUBSET (0 .. QUANTUM)]
  BY KalarmAssumption, Zenon
<1> QED BY <1>1, KalarmAssumption

LEMMA EventFacts ==
  /\ Cardinality(Event) \in Nat \ {0}
  /\ \A t \in Thread : Cardinality(Event) >= 2
<1>1. IsFiniteSet(Event)
  <2>1. IsFiniteSet(Thread)
    BY KalarmAssumption, Zenon
  <2> QED BY <2>1, FS_AddElement DEF Event
<1>2. Cardinality(Event) \in Nat
  BY <1>1, FS_CardinalityType
<1>3. Cardinality(Event) # 0
  BY <1>1, FS_EmptySet, Zenon DEF Event
<1>4. ASSUME NEW t \in Thread PROVE Cardinality(Event) # 1
  <2>1. ~ \E x : Event = {x}
    <3> SUFFICES ASSUME NEW x, Event = {x} PROVE FALSE
      OBVIOUS
    <3>1. t \in Event /\ Resched \in Event /\ t # Resched
      BY Names DEF Event
    <3> QED BY <3>1
  <2> QED BY <1>1, <2>1, FS_Singleton, Zenon
<1> QED BY <1>2, <1>3, <1>4

Step(p) == IF p = NULL THEN NULL ELSE next[p]

Walks(f, m) == f[0] = head /\ \A n \in 1 .. m : f[n] = Step(f[n - 1])

(* Node is defined: from the head one can follow the links any number of     *)
(* times.                                                                    *)
LEMMA NodeWalks ==
  ASSUME head \in Event \cup {NULL}, next \in [Event -> Event \cup {NULL}]
  PROVE  /\ DOMAIN Node = 0 .. Cardinality(Event)
         /\ Walks(Node, Cardinality(Event))
<1> DEFINE Some == Event \cup {NULL}
           C == Cardinality(Event)
           bad == {m \in Nat : \A f \in [0 .. m -> Some] : ~ Walks(f, m)}
<1>1. C \in Nat
  BY EventFacts
<1>2. bad = {}
  <2> SUFFICES ASSUME NEW m \in bad, \A i \in bad : m <= i PROVE FALSE
    <3>1. bad \in SUBSET Nat
      OBVIOUS
    <3> HIDE DEF bad
    <3> QED BY <3>1, LeastElement
  <2>1. m \in Nat /\ \A f \in [0 .. m -> Some] : ~ Walks(f, m)
    OBVIOUS
  <2>2. CASE m = 0
    <3> DEFINE f == [n \in 0 .. 0 |-> head]
    <3>1. f \in [0 .. m -> Some] /\ f[0] = head
      BY <2>2
    <3>2. 1 .. m = {}
      BY <2>2
    <3> QED BY <2>1, <3>1, <3>2, Zenon DEF Walks
  <2>3. CASE m # 0
    <3>1. m - 1 \in Nat /\ m - 1 \notin bad
      BY <2>1, <2>3
    <3>2. PICK f \in [0 .. m - 1 -> Some] : Walks(f, m - 1)
      BY <3>1
    <3> DEFINE g == [n \in 0 .. m |-> IF n = m THEN Step(f[m - 1]) ELSE f[n]]
    <3>3. \A p \in Some : Step(p) \in Some
      BY DEF Step
    <3>4. f[m - 1] \in Some /\ \A n \in 0 .. m - 1 : f[n] \in Some
      BY <2>1, <2>3, <3>2
    <3>5. g \in [0 .. m -> Some]
      <4>1. ASSUME NEW n \in 0 .. m PROVE (IF n = m THEN Step(f[m - 1]) ELSE f[n]) \in Some
        <5>1. n = m \/ n \in 0 .. m - 1
          BY <2>1
        <5> QED BY <3>3, <3>4, <5>1
      <4> QED BY <4>1
    <3>6. g[0] = head
      BY <2>1, <2>3, <3>2 DEF Walks
    <3>7. ASSUME NEW n \in 1 .. m PROVE g[n] = Step(g[n - 1])
      <4>1. n - 1 \in 0 .. m /\ n - 1 # m /\ n \in 0 .. m
        BY <2>1
      <4>2. g[n - 1] = f[n - 1]
        BY <4>1
      <4>3. CASE n = m
        BY <4>1, <4>2, <4>3
      <4>4. CASE n # m
        <5>1. n \in 1 .. m - 1
          BY <2>1, <4>4
        <5> QED BY <3>2, <4>1, <4>2, <4>4, <5>1 DEF Walks
      <4> QED BY <4>3, <4>4
    <3> QED BY <2>1, <3>5, <3>6, <3>7 DEF Walks
  <2> QED BY <2>2, <2>3
<1>3. PICK f \in [0 .. C -> Some] : Walks(f, C)
  <2>1. C \notin bad
    BY <1>2
  <2> QED BY <1>1, <2>1
<1>4. f = [n \in 0 .. C |-> IF n = 0 THEN head ELSE IF f[n - 1] = NULL THEN NULL ELSE next[f[n - 1]]]
  <2>1. ASSUME NEW n \in 0 .. C
        PROVE  f[n] = IF n = 0 THEN head ELSE IF f[n - 1] = NULL THEN NULL ELSE next[f[n - 1]]
    <3>1. n = 0 \/ n \in 1 .. C
      BY <1>1
    <3> QED BY <1>3, <3>1 DEF Walks, Step
  <2> QED BY <2>1
<1>5. Node = [n \in 0 .. C |-> IF n = 0 THEN head ELSE IF Node[n - 1] = NULL THEN NULL ELSE next[Node[n - 1]]]
  BY <1>4, Zenon DEF Node
<1>6. ASSUME NEW n \in 1 .. C PROVE Node[n] = Step(Node[n - 1])
  <2>1. n \in 0 .. C /\ n # 0
    BY <1>1
  <2> QED BY <1>5, <2>1, Zenon DEF Step
<1>7. Node[0] = head
  <2>1. 0 \in 0 .. C
    BY <1>1
  <2> QED BY <1>5, <2>1, Zenon
<1>8. DOMAIN Node = 0 .. C
  BY <1>5, Zenon
<1> QED BY <1>6, <1>7, <1>8 DEF Walks

(* What head and the links of X stay in, the walk stays in.                  *)
LEMMA NodeIn ==
  ASSUME head \in Event \cup {NULL}, next \in [Event -> Event \cup {NULL}],
         NEW X, NULL \in X, head \in X, \A e \in Event : next[e] \in X
  PROVE  \A n \in 0 .. Cardinality(Event) : Node[n] \in (Event \cup {NULL}) \cap X
<1> DEFINE C == Cardinality(Event)
           Y == (Event \cup {NULL}) \cap X
           bad == {n \in 0 .. C : Node[n] \notin Y}
<1>1. C \in Nat /\ Walks(Node, C)
  BY EventFacts, NodeWalks
<1>2. bad = {}
  <2> SUFFICES ASSUME NEW m \in bad, \A i \in bad : m <= i PROVE FALSE
    <3>1. bad \in SUBSET Nat
      BY <1>1
    <3> HIDE DEF bad
    <3> QED BY <3>1, LeastElement
  <2>1. m \in 0 .. C /\ Node[m] \notin Y
    OBVIOUS
  <2>2. m # 0
    BY <1>1, <2>1 DEF Walks
  <2>3. m - 1 \in 0 .. C /\ m \in 1 .. C /\ m - 1 \notin bad
    BY <1>1, <2>1, <2>2
  <2>4. Node[m - 1] \in Y /\ Node[m] = Step(Node[m - 1])
    BY <1>1, <2>3 DEF Walks
  <2>5. Step(Node[m - 1]) \in Y
    BY <2>4 DEF Step
  <2> QED BY <2>1, <2>4, <2>5
<1> QED BY <1>2

-----------------------------------------------------------------------------
(* register_kalarm_event and update_kalarm_event.                           *)

LEMMA FirstIs ==
  ASSUME NEW S \in SUBSET Nat, NEW n \in S, \A k \in S : n <= k
  PROVE  First(S) = n
<1>1. First(S) \in S /\ \A k \in S : First(S) <= k
  BY Zenon DEF First
<1>2. First(S) <= n /\ n <= First(S) /\ First(S) \in Nat
  BY <1>1
<1> QED BY <1>2

LEMMA FirstIn ==
  ASSUME NEW S \in SUBSET Nat, S # {}
  PROVE  First(S) \in S /\ \A k \in S : First(S) <= k
<1>1. PICK x \in S : \A i \in S : x <= i
  BY LeastElement
<1> QED BY <1>1, Zenon DEF First

(* The lists that find_insertion_point walks along have types.               *)
LEMMA StopsAt ==
  ASSUME TypeOK, NEW due \in [Event -> Int], NEW w \in Int
  PROVE  /\ Stops(due, w) \in SUBSET (0 .. Cardinality(Event))
         /\ Cardinality(Event) \in Nat \ {0}
         /\ Node[0] = head
         /\ head = NULL \/ due[head] >= w => Stops(due, w) # {} /\ First(Stops(due, w)) = 0
         /\ head # NULL /\ due[head] < w => 0 \notin Stops(due, w)
<1>1. head \in Event \cup {NULL} /\ next \in [Event -> Event \cup {NULL}]
  BY DEF TypeOK
<1>2. /\ DOMAIN Node = 0 .. Cardinality(Event) /\ Node[0] = head
      /\ Cardinality(Event) \in Nat \ {0}
  BY <1>1, NodeWalks, EventFacts DEF Walks
<1>3. Stops(due, w) \in SUBSET (0 .. Cardinality(Event))
  BY <1>2 DEF Stops
<1>4. ASSUME head = NULL \/ due[head] >= w PROVE Stops(due, w) # {} /\ First(Stops(due, w)) = 0
  <2>1. 0 \in Stops(due, w) /\ Stops(due, w) \in SUBSET Nat /\ \A k \in Stops(due, w) : 0 <= k
    BY <1>2, <1>3, <1>4 DEF Stops
  <2> QED BY <2>1, FirstIs
<1>5. ASSUME head # NULL, due[head] < w PROVE 0 \notin Stops(due, w)
  <2>1. due[head] \in Int
    BY <1>1, <1>5
  <2> QED BY <1>2, <1>5, <2>1 DEF Stops
<1> QED BY <1>2, <1>3, <1>4, <1>5

(* An event that is due before the first one becomes the first one.          *)
LEMMA RegisterFront ==
  ASSUME TypeOK, NEW ev \in Event, NEW w \in 0 .. QUANTUM, Register(ev, w),
         head # ev, head = NULL \/ left[head] >= w
  PROVE  /\ left' = [left EXCEPT ![ev] = w] /\ head' = ev /\ panic' = panic
         /\ prev' = IF head = NULL THEN [prev EXCEPT ![ev] = NULL]
                    ELSE Set([prev EXCEPT ![ev] = head], next[head], ev)
         /\ next' = Set(next, head, ev)
<1> DEFINE due == [left EXCEPT ![ev] = w]
<1>1. due \in [Event -> Int] /\ w \in Int /\ (head = NULL \/ due[head] >= w)
  BY Names DEF TypeOK
<1>2. Stops(due, w) # {} /\ First(Stops(due, w)) = 0 /\ Node[0] = head
  <2> HIDE DEF due
  <2> QED BY <1>1, StopsAt
<1> QED BY <1>2, Zenon DEF Register

(* To register the event that is the first one already fails the assertion.  *)
LEMMA RegisterAgain ==
  ASSUME TypeOK, NEW ev \in Event, NEW w \in 0 .. QUANTUM, Register(ev, w), head = ev
  PROVE  panic' = "register"
<1> DEFINE due == [left EXCEPT ![ev] = w]
<1>1. due \in [Event -> Int] /\ w \in Int /\ due[head] >= w
  BY Names DEF TypeOK
<1>2. Stops(due, w) # {} /\ First(Stops(due, w)) = 0 /\ Node[0] = head
  <2> HIDE DEF due
  <2> QED BY <1>1, StopsAt
<1> QED BY <1>2, Zenon DEF Register

LEMMA MembersAre ==
  ASSUME TypeOK
  PROVE  /\ program.threads \subseteq Thread /\ program.timeouts \subseteq 0 .. QUANTUM
         /\ Members \subseteq Event \cup {NULL}
         /\ Resched \in Members /\ NULL \in Members
BY Names DEF TypeOK, Members, Event

LEMMA NodeMembers ==
  ASSUME TypeOK, Linked
  PROVE  \A n \in 0 .. Cardinality(Event) : Node[n] \in Members
<1>1. head \in Event \cup {NULL} /\ next \in [Event -> Event \cup {NULL}]
  BY DEF TypeOK
<1>2. NULL \in Members /\ head \in Members /\ \A e \in Event : next[e] \in Members
  BY MembersAre DEF Linked
<1> QED BY <1>1, <1>2, NodeIn

LEMMA SetIn ==
  ASSUME NEW D, NEW X, NEW f \in [D -> X], NEW p, NEW v \in X
  PROVE  Set(f, p, v) \in [D -> X]
BY DEF Set

(* Wherever an event is linked, the list stays one of the program's.         *)
LEMMA RegisterAny ==
  ASSUME TypeOK, Linked, panic = "no", program' = program,
         NEW ev \in program.threads, NEW w \in 0 .. QUANTUM, Register(ev, w)
  PROVE  /\ Linked' /\ left' \in [Event -> -1 .. QUANTUM]
         /\ panic' \in {"no", "register", "loop"}
         /\ panic' = "no" => left' = [left EXCEPT ![ev] = w]
         /\ head' \in {head, ev}
<1> DEFINE due == [left EXCEPT ![ev] = w]
           stops == Stops(due, w)
           n == First(stops)
           old == Node[n]
           linked == IF n = 0 THEN next ELSE [next EXCEPT ![Node[n - 1]] = ev]
           p == [prev EXCEPT ![ev] = old]
<1>1. /\ ev \in Event /\ ev \in Members /\ due \in [Event -> -1 .. QUANTUM]
      /\ head \in Members /\ prev \in [Event -> Members] /\ next \in [Event -> Members]
      /\ left \in [Event -> -1 .. QUANTUM]
  BY MembersAre, Names DEF Linked, TypeOK, Members, Event
<1>2. CASE UNCHANGED list /\ panic' \in {"register", "loop"}
  <2>1. Linked'
    BY <1>2 DEF Linked, Members, list
  <2> QED BY <1>1, <1>2, <2>1 DEF list
<1>3. CASE /\ stops # {}
           /\ left' = due
           /\ head' = IF n = 0 THEN ev ELSE head
           /\ prev' = IF old = NULL THEN p ELSE Set(p, linked[old], ev)
           /\ next' = Set(linked, old, ev)
           /\ UNCHANGED panic
  <2>1. n \in 0 .. Cardinality(Event)
    <3>1. stops \in SUBSET (0 .. Cardinality(Event)) /\ Cardinality(Event) \in Nat
      <4>1. due \in [Event -> Int] /\ w \in Int
        BY <1>1, Names
      <4> HIDE DEF due
      <4> QED BY <4>1, StopsAt
    <3>2. stops # {}
      BY <1>3, Zenon
    <3>3. stops \in SUBSET Nat
      <4> HIDE DEF stops
      <4> QED BY <3>1
    <3> HIDE DEF stops
    <3> QED BY <3>1, <3>2, <3>3, FirstIn
  <2>2. old \in Members
    <3> HIDE DEF n
    <3> QED BY <2>1, NodeMembers
  <2>3. linked \in [Event -> Members]
    BY <1>1
  <2>4. p \in [Event -> Members]
    BY <1>1, <2>2
  <2>5. prev' \in [Event -> Members] /\ next' \in [Event -> Members] /\ head' \in Members
    <3> HIDE DEF linked, p, old, n
    <3> QED BY <1>1, <1>3, <2>3, <2>4, SetIn
  <2> QED BY <1>1, <1>3, <2>5 DEF Linked, Members
<1> QED BY <1>2, <1>3, Zenon DEF Register

(* The list without the reschedule alarm, as update_kalarm_event unlinks it. *)
Prev1 == Set(prev, next[Resched], prev[Resched])
Next1 == Set(next, Prev1[Resched], next[Resched])
Head1 == IF head = Resched THEN Next1[Resched] ELSE head

(* What update_kalarm_event does with the insertion point it has found.      *)
Put(at) ==
  LET old == IF at = NULL THEN Head1 ELSE Next1[at]
      p2  == [Prev1 EXCEPT ![Resched] = old]
      n2  == [Next1 EXCEPT ![Resched] = IF old = NULL THEN NULL ELSE Next1[old]]
  IN /\ left' = [left EXCEPT ![Resched] = QUANTUM]
     /\ prev' = Set(p2, old, Resched)
     /\ next' = Set(n2, at, Resched)
     /\ head' = IF at = NULL THEN Resched ELSE Head1
     /\ UNCHANGED panic

LEMMA UpdatePuts ==
  ASSUME Update(Resched, QUANTUM)
  PROVE  LET stops == Stops(left, QUANTUM) IN
         IF stops = {} THEN panic' = "loop" /\ UNCHANGED list
         ELSE Put(IF First(stops) = 0 THEN NULL ELSE Node[First(stops) - 1])
BY Zenon DEF Update, Put, Prev1, Next1, Head1

(* The reschedule alarm goes to the front.                                   *)
LEMMA UpdateFront ==
  ASSUME TypeOK, Update(Resched, QUANTUM), head = NULL \/ left[head] >= QUANTUM
  PROVE  Put(NULL)
<1>1. left \in [Event -> Int] /\ QUANTUM \in Int
  BY Names DEF TypeOK
<1>2. Stops(left, QUANTUM) # {} /\ First(Stops(left, QUANTUM)) = 0
  BY <1>1, StopsAt
<1> QED BY <1>2, UpdatePuts

(* The reschedule alarm goes behind the first event.                         *)
LEMMA UpdateSecond ==
  ASSUME TypeOK, Update(Resched, QUANTUM), head # NULL, left[head] < QUANTUM,
         next[head] = NULL \/ (left[next[head]] >= QUANTUM /\ Cardinality(Event) >= 2)
  PROVE  Put(head)
<1> DEFINE stops == Stops(left, QUANTUM)
<1>1. left \in [Event -> Int] /\ QUANTUM \in Int
  BY Names DEF TypeOK
<1>2. /\ stops \in SUBSET (0 .. Cardinality(Event)) /\ 0 \notin stops
      /\ Cardinality(Event) \in Nat \ {0} /\ Node[0] = head
  BY <1>1, StopsAt
<1>3. 1 \in DOMAIN Node /\ Node[1] = next[head]
  <2>1. head \in Event \cup {NULL} /\ next \in [Event -> Event \cup {NULL}]
    BY DEF TypeOK
  <2>2. DOMAIN Node = 0 .. Cardinality(Event) /\ Walks(Node, Cardinality(Event))
    BY <2>1, NodeWalks
  <2>3. 1 \in 1 .. Cardinality(Event) /\ 1 \in 0 .. Cardinality(Event) /\ 1 - 1 = 0
    BY <1>2
  <2>4. Node[1] = Step(Node[1 - 1])
    BY <2>2, <2>3, Zenon DEF Walks
  <2> QED BY <1>2, <2>2, <2>3, <2>4 DEF Step
<1>4. 1 \in stops
  BY <1>3, Zenon DEF Stops
<1>5. stops # {} /\ First(stops) = 1
  <2> HIDE DEF stops
  <2>1. stops \in SUBSET Nat /\ \A k \in stops : 1 <= k
    BY <1>2
  <2> QED BY <1>4, <2>1, FirstIs
<1> QED BY <1>2, <1>5, UpdatePuts

(* Wherever the reschedule alarm goes, the list stays one of the program's,  *)
(* and another alarm that comes before it stays the first one.               *)
LEMMA UpdateAny ==
  ASSUME TypeOK, Linked, panic = "no", program' = program, Update(Resched, QUANTUM)
  PROVE  /\ Linked' /\ left' \in [Event -> -1 .. QUANTUM]
         /\ panic' \in {"no", "loop"}
         /\ panic' = "no" => left' = [left EXCEPT ![Resched] = QUANTUM]
         /\ head # NULL /\ head # Resched /\ left[head] < QUANTUM => head' = head
<1> DEFINE stops == Stops(left, QUANTUM)
           n == First(stops)
           at == IF n = 0 THEN NULL ELSE Node[n - 1]
<1>1. /\ Resched \in Event /\ Resched \in Members /\ NULL \in Members /\ NULL \notin Event
      /\ Members \subseteq Event \cup {NULL}
      /\ head \in Members /\ prev \in [Event -> Members] /\ next \in [Event -> Members]
      /\ left \in [Event -> -1 .. QUANTUM] /\ QUANTUM \in Nat
  BY MembersAre, Names DEF Linked, TypeOK, Event
<1>2. CASE UNCHANGED list /\ panic' = "loop"
  <2>1. Linked'
    BY <1>2 DEF Linked, Members, list
  <2> QED BY <1>1, <1>2, <2>1 DEF list
<1>3. CASE stops # {} /\ Put(at)
  <2>1. /\ n \in 0 .. Cardinality(Event) /\ n \in stops /\ \A k \in stops : n <= k
        /\ Cardinality(Event) \in Nat
        /\ head # NULL /\ left[head] < QUANTUM => n # 0
    <3>1. /\ stops \in SUBSET (0 .. Cardinality(Event)) /\ Cardinality(Event) \in Nat
          /\ head # NULL /\ left[head] < QUANTUM => 0 \notin stops
      <4>1. left \in [Event -> Int] /\ QUANTUM \in Int
        BY <1>1
      <4> QED BY <4>1, StopsAt
    <3>2. stops # {}
      BY <1>3
    <3> HIDE DEF stops
    <3>3. stops \in SUBSET Nat
      BY <3>1
    <3> QED BY <3>1, <3>2, <3>3, FirstIn
  <2>2. at \in Members /\ (n # 0 => at # NULL)
    <3>1. n = 0 \/ n - 1 \in 0 .. Cardinality(Event)
      <4> HIDE DEF n
      <4> QED BY <2>1
    <3>2. n # 0 => n - 1 \notin stops /\ n - 1 \in 0 .. Cardinality(Event)
      <4> HIDE DEF n, stops
      <4> QED BY <2>1
    <3>3. DOMAIN Node = 0 .. Cardinality(Event)
      <4>1. head \in Event \cup {NULL} /\ next \in [Event -> Event \cup {NULL}]
        BY DEF TypeOK
      <4> QED BY <4>1, NodeWalks
    <3>4. n # 0 => Node[n - 1] # NULL
      <4> HIDE DEF n
      <4> QED BY <3>2, <3>3, Zenon DEF Stops
    <3> HIDE DEF n, stops
    <3> QED BY <1>1, <3>1, <3>4, NodeMembers
  <2>3. Prev1 \in [Event -> Members] /\ Next1 \in [Event -> Members] /\ Head1 \in Members
    <3>1. prev[Resched] \in Members /\ next[Resched] \in Members
      BY <1>1
    <3>2. Prev1 \in [Event -> Members]
      BY <1>1, <3>1, SetIn DEF Prev1
    <3>3. Next1 \in [Event -> Members]
      BY <1>1, <3>1, SetIn DEF Next1
    <3> QED BY <1>1, <3>2, <3>3 DEF Head1
  <2> DEFINE old == IF at = NULL THEN Head1 ELSE Next1[at]
             p2  == [Prev1 EXCEPT ![Resched] = old]
             n2  == [Next1 EXCEPT ![Resched] = IF old = NULL THEN NULL ELSE Next1[old]]
  <2>4. /\ left' = [left EXCEPT ![Resched] = QUANTUM]
        /\ prev' = Set(p2, old, Resched) /\ next' = Set(n2, at, Resched)
        /\ head' = IF at = NULL THEN Resched ELSE Head1
        /\ panic' = panic
    BY <1>3, Zenon DEF Put
  <2> HIDE DEF at
  <2>5. old \in Members
    BY <1>1, <2>2, <2>3
  <2>6. p2 \in [Event -> Members] /\ n2 \in [Event -> Members]
    <3> HIDE DEF old
    <3>1. (IF old = NULL THEN NULL ELSE Next1[old]) \in Members
      BY <1>1, <2>3, <2>5
    <3> QED BY <2>3, <2>5, <3>1
  <2>7. prev' \in [Event -> Members] /\ next' \in [Event -> Members] /\ head' \in Members
    <3> HIDE DEF old, p2, n2
    <3> QED BY <1>1, <2>3, <2>4, <2>6, SetIn
  <2>8. head # NULL /\ head # Resched /\ left[head] < QUANTUM => head' = head
    BY <2>1, <2>2, <2>4 DEF Head1
  <2>9. left' \in [Event -> -1 .. QUANTUM]
    BY <1>1, <2>4
  <2> QED BY <2>4, <2>7, <2>8, <2>9 DEF Linked, Members
<1>4. IF stops = {} THEN panic' = "loop" /\ UNCHANGED list ELSE Put(at)
  BY UpdatePuts
<1> QED BY <1>2, <1>3, <1>4

-----------------------------------------------------------------------------
(* Every step keeps KInv.                                                    *)

LEMMA KalarmInit == Init => KInv
<1> SUFFICES ASSUME Init PROVE KInv
  OBVIOUS
<1>1. TypeOK
  <2>1. left \in [Event -> -1 .. QUANTUM]
    BY Names DEF Init
  <2>2. state \in [Thread -> {"awake", "paused", "waits"}]
    BY DEF Init
  <2>3. prev \in [Event -> Event \cup {NULL}] /\ next \in [Event -> Event \cup {NULL}]
    BY DEF Init
  <2> QED BY <2>1, <2>2, <2>3 DEF Init, TypeOK
<1>2. Own
  BY <1>1, MembersAre DEF Init, Own, Linked
<1>3. Later /\ Sleeps
  BY Names DEF Init, Later, Sleeps
<1>4. Quiet
  BY Names DEF Init, Quiet, Untouched, Empty, Event
<1> QED BY <1>1, <1>2, <1>3, <1>4 DEF KInv

(* A program of one thread has no other one.                                 *)
LEMMA OnlyThread ==
  ASSUME TypeOK, Alone, NEW s \in program.threads, NEW t \in program.threads
  PROVE  s = t
<1>1. IsFiniteSet(program.threads)
  <2>1. IsFiniteSet(Thread)
    BY KalarmAssumption, Zenon
  <2> QED BY <2>1, MembersAre, FS_Subset
<1>2. \E x : program.threads = {x}
  BY <1>1, FS_Singleton, Zenon DEF Alone
<1> QED BY <1>2

(* Steps that leave the list and the sleepers alone.                         *)
LEMMA KalarmSame ==
  ASSUME KInv, UNCHANGED <<program, list, tick>>, panic' \in {"no", "pause", "register", "loop"},
         panic' = "no" => panic = "no",
         runs' \in {"user", "kernel"}, blocks' \in program.threads \cup {NULL}, pendsv' \in BOOLEAN,
         state' \in [Thread -> {"awake", "paused", "waits"}],
         \A t \in Thread : state'[t] \in {state[t], "awake"} \/ (t \in program.threads /\ state'[t] = "waits"),
         program.timeouts = {} =>
           panic' = "no" /\ blocks' = NULL /\ state' = state /\ (pendsv => pendsv')
  PROVE  KInv'
<1>1. TypeOK'
  BY MembersAre DEF KInv, TypeOK, list
<1>2. Own'
  BY DEF KInv, Own, Linked, Members, list
<1>3. Later'
  BY DEF KInv, Later, list
<1>4. Sleeps'
  BY DEF KInv, Sleeps, Alone, ToWait, list
<1>5. program'.timeouts = {} => Quiet'
  BY DEF KInv, Quiet, Untouched, Empty, Single, Yields, Both, ToWait, list
<1> QED BY <1>1, <1>2, <1>3, <1>4, <1>5 DEF KInv

LEMMA KalarmCalls == ASSUME KInv, Call \/ Return PROVE KInv'
BY KalarmSame DEF Call, Return, Executes, KInv, Quiet, Own, TypeOK, list

LEMMA KalarmBlock == ASSUME KInv, Block PROVE KInv'
<1>1. blocks \in program.threads
  BY DEF KInv, Own, Block
<1>2. program.timeouts # {}
  BY DEF KInv, Quiet, Block
<1> QED BY <1>1, <1>2, KalarmSame DEF Block, Executes, KInv, TypeOK, list

LEMMA KalarmAnswer == ASSUME KInv, NEW t \in Thread, Answer(t) PROVE KInv'
<1>1. program.timeouts # {}
  BY DEF KInv, Quiet, Untouched, Answer
<1>2. blocks \in program.threads \cup {NULL}
  BY DEF KInv, Own
<1> QED BY <1>1, <1>2, KalarmSame DEF Answer, Executes, KInv, TypeOK, list

LEMMA KalarmTick == ASSUME KInv, Tick PROVE KInv'
<1>1. TypeOK'
  BY Names DEF KInv, TypeOK, Tick
<1>2. Own'
  BY DEF KInv, Own, Linked, Members, Tick
<1>3. Later'
  BY DEF Later, Tick
<1>4. Sleeps'
  <2> SUFFICES ASSUME Alone, NEW t \in Thread, state[t] = "paused" PROVE head = t /\ left'[t] = 0
    BY DEF Sleeps, Tick, Alone, ToWait
  <2>1. head = t /\ left[t] = 1
    BY DEF KInv, Sleeps, Tick, ToWait
  <2> QED BY <2>1 DEF Tick, Event
<1>5. ASSUME program.timeouts = {} PROVE Quiet'
  <2>1. Quiet /\ ~ tick
    BY <1>5 DEF KInv, Tick
  <2>2. head \in Thread => left[head] = 1 /\ left'[head] = 0
    BY <2>1 DEF Quiet, ToWait, Tick, Event
  <2>3. Both => Both'
    <3> SUFFICES ASSUME Both PROVE left'[Resched] = left'[head] + QUANTUM - 1
      BY DEF Both, Tick
    <3>1. left[Resched] = QUANTUM /\ QUANTUM \in Nat
      BY <2>2, Names DEF Both
    <3> QED BY <2>2, <3>1 DEF Both, Tick, Event
  <2> QED BY <2>1, <2>2, <2>3 DEF Quiet, Untouched, Empty, Single, Yields, Tick, ToWait
<1>6. program' = program
  BY DEF Tick
<1> QED BY <1>1, <1>2, <1>3, <1>4, <1>5, <1>6 DEF KInv

LEMMA KalarmTickEnds == ASSUME KInv, TickEnds PROVE KInv'
<1>1. TypeOK' /\ Own'
  BY DEF KInv, TypeOK, Own, Linked, Members, TickEnds, list
<1>2. Later'
  <2> SUFFICES ASSUME head = Resched PROVE left[Resched] >= 1
    BY DEF Later, TickEnds, list
  <2>1. ~ (left[Resched] <= 0) /\ left[Resched] \in Int
    BY Names DEF TickEnds, Due, KInv, TypeOK, Event
  <2> QED BY <2>1
<1>3. Sleeps'
  <2> SUFFICES ASSUME Alone, NEW t \in Thread, state[t] = "paused" PROVE FALSE
    BY DEF Sleeps, TickEnds, Alone, ToWait, list
  <2>1. head = t /\ left[t] = 0 /\ t # NULL
    BY Names DEF KInv, Sleeps, TickEnds, ToWait
  <2> QED BY <2>1 DEF TickEnds, Due
<1>4. ASSUME program.timeouts = {} PROVE Quiet'
  <2>1. Quiet /\ head \notin Thread
    BY <1>4, Names DEF KInv, Quiet, TickEnds, Due, ToWait
  <2> QED BY <2>1 DEF Quiet, Untouched, Empty, Single, Yields, Both, TickEnds, list
<1>5. program' = program
  BY DEF TickEnds
<1> QED BY <1>1, <1>2, <1>3, <1>4, <1>5 DEF KInv

(* pop_kalarm_event wakes the first thread, whose links become free again.   *)
LEMMA KalarmFire == ASSUME KInv, Fire PROVE KInv'
<1> DEFINE rest == next[head]
           p == Set(prev, rest, NULL)
<1>1. /\ head \in Event /\ head \in Members /\ rest \in Members /\ NULL \in Members
      /\ prev \in [Event -> Members] /\ next \in [Event -> Members]
      /\ state \in [Thread -> {"awake", "paused", "waits"}]
  BY MembersAre DEF KInv, Own, Linked, Fire, Due, TypeOK
<1>2. /\ prev' = [p EXCEPT ![head] = NULL] /\ next' = [next EXCEPT ![head] = NULL] /\ head' = rest
      /\ state' = [t \in Thread |-> IF t = head THEN "awake" ELSE state[t]]
      /\ pendsv' = (pendsv \/ head = Resched \/ state[head] = "paused")
      /\ panic = "no" /\ tick
      /\ UNCHANGED <<program, left, runs, blocks, tick, panic>>
  BY DEF Fire
<1>3. Linked'
  <2>1. p \in [Event -> Members]
    BY <1>1, SetIn
  <2> QED BY <1>1, <1>2, <2>1 DEF Linked, Members
<1>4. Own'
  BY <1>2, <1>3 DEF KInv, Own
<1>5. TypeOK'
  <2>1. state' \in [Thread -> {"awake", "paused", "waits"}]
    BY <1>1, <1>2
  <2>2. pendsv' \in BOOLEAN
    BY <1>2
  <2>3. Members \subseteq Event \cup {NULL} /\ Members' = Members
    BY <1>2, MembersAre DEF KInv, Members
  <2>4. /\ head' \in Event \cup {NULL}
        /\ prev' \in [Event -> Event \cup {NULL}] /\ next' \in [Event -> Event \cup {NULL}]
    BY <1>3, <2>3 DEF Linked
  <2> QED BY <1>2, <2>1, <2>2, <2>4 DEF KInv, TypeOK
<1>6. Later'
  BY <1>2 DEF Later
<1>7. Sleeps'
  <2> SUFFICES ASSUME Alone, NEW t \in Thread, state'[t] = "paused" PROVE FALSE
    BY <1>2 DEF Sleeps, Alone
  <2>1. t # head /\ state[t] = "paused"
    BY <1>2
  <2> QED BY <1>2, <2>1 DEF KInv, Sleeps
<1>8. ASSUME program.timeouts = {} PROVE Quiet'
  <2>1. Quiet
    BY <1>8 DEF KInv
  <2>2. Resched \in Event /\ Resched \notin Thread /\ NULL \notin Thread /\ NULL # Resched /\ head # NULL
    BY Names DEF Event, Fire, Due
  <2>3. rest \in {NULL, Resched}
    BY <2>1, <2>2 DEF Quiet, Empty, Single, Yields, Both
  <2>4. Untouched'
    <3> SUFFICES ASSUME NEW t \in Thread
                 PROVE  /\ state'[t] \in {"awake", "paused"}
                        /\ state'[t] = "awake" => prev'[t] = NULL /\ next'[t] = NULL /\ head' # t
      BY DEF Untouched
    <3>1. t \in Event /\ t # Resched /\ t # NULL
      BY <2>2 DEF Event
    <3>2. /\ state[t] \in {"awake", "paused"}
          /\ state[t] = "awake" => prev[t] = NULL /\ next[t] = NULL /\ head # t
      BY <2>1 DEF Quiet, Untouched
    <3>3. CASE t = head
      BY <1>1, <1>2, <2>2, <2>3, <3>1, <3>3 DEF Set
    <3>4. CASE t # head
      <4>1. state'[t] = state[t]
        BY <1>2, <3>4
      <4>2. p[t] = prev[t] /\ prev'[t] = p[t] /\ next'[t] = next[t] /\ head' # t
        BY <1>1, <1>2, <2>3, <3>1, <3>4 DEF Set
      <4> QED BY <3>2, <4>1, <4>2
    <3> QED BY <3>3, <3>4
  <2>5. CASE Single
    BY <1>1, <1>2, <2>1, <2>2, <2>4, <2>5 DEF Single, Quiet, Empty, Set
  <2>6. CASE Yields
    <3>1. head' = NULL /\ prev'[Resched] = prev[Resched] /\ next'[Resched] = next[Resched]
      BY <1>1, <1>2, <2>2, <2>6 DEF Yields, Set
    <3> QED BY <1>2, <2>1, <2>2, <2>4, <2>6, <3>1 DEF Yields, Quiet, Empty
  <2>7. CASE Both
    <3>1. head' = Resched /\ prev'[Resched] = NULL /\ next'[Resched] = NULL
      BY <1>1, <1>2, <2>2, <2>7 DEF Both, Set
    <3> QED BY <1>2, <2>1, <2>2, <2>4, <3>1 DEF Quiet, Single
  <2> QED BY <2>1, <2>2, <2>5, <2>6, <2>7 DEF Quiet, Empty
<1> QED BY <1>2, <1>4, <1>5, <1>6, <1>7, <1>8 DEF KInv

(* thread_switch: in a list without timeouts the thread is not linked, and   *)
(* it comes first; what was first drops out.                                 *)
LEMMA QuietPause ==
  ASSUME KInv, NEW t \in program.threads, Pause(t), program.timeouts = {}
  PROVE  Quiet' /\ panic' = "no"
<1>1. /\ Quiet /\ TypeOK /\ state[t] = "awake" /\ ~ tick /\ ~ pendsv /\ t \in Thread /\ t \in Event
      /\ t # Resched /\ t # NULL /\ Resched \in Event /\ NULL # Resched /\ Resched \notin Thread
      /\ NULL \notin Thread
  BY MembersAre, Names DEF KInv, Pause, Executes, Event
<1>2. prev[t] = NULL /\ next[t] = NULL /\ head # t
  BY <1>1 DEF Quiet, Untouched
<1>3. /\ Register(t, 1) /\ state' = [state EXCEPT ![t] = "paused"]
      /\ pendsv' = TRUE /\ UNCHANGED <<program, runs, blocks, tick>>
  BY <1>2 DEF Pause
<1>4. head = NULL \/ left[head] >= 1
  <2>1. head = Resched => left[Resched] >= 1
    BY <1>1 DEF KInv, Later, Quiet
  <2>2. head \in Thread => left[head] = 1
    BY <1>1 DEF Quiet, ToWait
  <2> QED BY <1>1, <2>1, <2>2 DEF TypeOK, Event
<1>5. /\ left' = [left EXCEPT ![t] = 1] /\ head' = t /\ panic' = "no"
      /\ prev' = IF head = NULL THEN [prev EXCEPT ![t] = NULL]
                 ELSE Set([prev EXCEPT ![t] = head], next[head], t)
      /\ next' = Set(next, head, t)
  <2>1. 1 \in 0 .. QUANTUM
    BY Names
  <2>2. panic = "no"
    BY <1>1 DEF Quiet
  <2> QED BY <1>1, <1>2, <1>3, <1>4, <2>1, <2>2, RegisterFront
<1>6. /\ prev \in [Event -> Event \cup {NULL}] /\ next \in [Event -> Event \cup {NULL}]
      /\ left \in [Event -> -1 .. QUANTUM] /\ state \in [Thread -> {"awake", "paused", "waits"}]
  BY <1>1 DEF TypeOK
<1>7. head \in Thread => state[head] = "paused"
  BY <1>1 DEF Quiet, Untouched
<1>8. \/ Empty
      \/ Single
      \/ Both
  BY <1>1 DEF Quiet, Yields
<1>9. ASSUME NEW s \in Thread, s # t, state[s] = "awake"
      PROVE  prev'[s] = NULL /\ next'[s] = NULL
  <2>1. prev[s] = NULL /\ next[s] = NULL /\ head # s /\ s \in Event /\ s # Resched /\ s # NULL
    BY <1>1, <1>9 DEF Quiet, Untouched, Event
  <2>2. CASE Empty
    BY <1>5, <1>6, <1>9, <2>1, <2>2 DEF Empty, Set
  <2>3. CASE Single
    BY <1>1, <1>5, <1>6, <1>9, <2>1, <2>3 DEF Single, Set
  <2>4. CASE Both
    BY <1>1, <1>5, <1>6, <1>9, <2>1, <2>4 DEF Both, Set
  <2> QED BY <1>8, <2>2, <2>3, <2>4
<1>10. Untouched'
  <2> SUFFICES ASSUME NEW s \in Thread
               PROVE  /\ state'[s] \in {"awake", "paused"}
                      /\ state'[s] = "awake" => prev'[s] = NULL /\ next'[s] = NULL /\ head' # s
    BY DEF Untouched
  <2>1. CASE s = t
    BY <1>3, <1>6, <2>1
  <2>2. CASE s # t
    <3>1. state'[s] = state[s] /\ state[s] \in {"awake", "paused"}
      BY <1>1, <1>3, <1>6, <2>2 DEF Quiet, Untouched
    <3> QED BY <1>5, <1>9, <2>2, <3>1
  <2> QED BY <2>1, <2>2
<1>11. /\ Yields' /\ (prev'[Resched] = NULL \/ next'[Resched] = NULL)
  <2>1. CASE Empty
    BY <1>1, <1>2, <1>3, <1>5, <1>6, <2>1 DEF Empty, Yields, Quiet, Set
  <2>2. CASE Single
    BY <1>1, <1>2, <1>3, <1>5, <1>6, <2>2 DEF Single, Yields, Set
  <2>3. CASE Both
    BY <1>1, <1>2, <1>3, <1>5, <1>6, <2>3 DEF Both, Yields, Set
  <2> QED BY <1>8, <2>1, <2>2, <2>3
<1>12. left'[head'] = ToWait'
  BY <1>1, <1>3, <1>5, <1>6 DEF ToWait
<1> QED BY <1>1, <1>3, <1>5, <1>10, <1>11, <1>12 DEF Quiet

LEMMA KalarmPause == ASSUME KInv, NEW t \in program.threads, Pause(t) PROVE KInv'
<1>1. /\ TypeOK /\ Linked /\ panic = "no" /\ ~ tick /\ t \in Thread /\ t \in Event /\ t # Resched
      /\ state[t] = "awake" /\ state \in [Thread -> {"awake", "paused", "waits"}]
      /\ UNCHANGED <<program, runs, blocks, tick>> /\ pendsv' = TRUE
      /\ left \in [Event -> -1 .. QUANTUM]
  BY MembersAre, Names DEF KInv, Own, Pause, Executes, Event, TypeOK
<1>2. program.timeouts = {} => Quiet'
  BY QuietPause
<1>3. CASE prev[t] = NULL /\ next[t] = NULL
  <2>1. Register(t, 1) /\ state' = [state EXCEPT ![t] = "paused"]
    BY <1>3 DEF Pause
  <2>2. 1 \in 0 .. QUANTUM
    BY Names
  <2>3. /\ Linked' /\ left' \in [Event -> -1 .. QUANTUM]
        /\ panic' \in {"no", "register", "loop"}
        /\ panic' = "no" => left' = [left EXCEPT ![t] = 1]
        /\ head' \in {head, t}
    BY <1>1, <2>1, <2>2, RegisterAny
  <2>4. Members \subseteq Event \cup {NULL} /\ Members' = Members
    BY <1>1, MembersAre DEF Members
  <2>5. TypeOK'
    <3>1. state' \in [Thread -> {"awake", "paused", "waits"}]
      BY <1>1, <2>1
    <3>2. /\ head' \in Event \cup {NULL}
          /\ prev' \in [Event -> Event \cup {NULL}] /\ next' \in [Event -> Event \cup {NULL}]
      BY <2>3, <2>4 DEF Linked
    <3> QED BY <1>1, <2>3, <3>1, <3>2 DEF TypeOK
  <2>6. Own'
    BY <1>1, <2>1, <2>3 DEF KInv, Own
  <2>7. Later'
    <3> SUFFICES ASSUME panic' = "no", head' = Resched PROVE left'[Resched] >= 1
      BY DEF Later
    <3>1. head = Resched /\ left'[Resched] = left[Resched]
      BY <1>1, <2>3 DEF Event
    <3> QED BY <1>1, <3>1 DEF KInv, Later
  <2>8. Sleeps'
    <3> SUFFICES ASSUME panic' = "no", Alone, NEW s \in Thread, state'[s] = "paused"
                 PROVE  head' = s /\ left'[s] = 1
      BY <1>1 DEF Sleeps, Alone, ToWait
    <3>1. s = t
      <4>1. s \in program.threads
        BY <1>1, <2>6 DEF Own
      <4> QED BY <1>1, <4>1, OnlyThread
    <3>2. head # t
      BY <1>1, <2>1, <2>2, RegisterAgain
    <3>3. head \in {NULL, Resched}
      <4>1. head \in program.threads => head = t
        BY <1>1, OnlyThread
      <4> QED BY <1>1, <3>2, <4>1 DEF Linked, Members
    <3>4. head = NULL \/ left[head] >= 1
      BY <1>1, <3>3 DEF KInv, Later
    <3>5. head' = t
      BY <1>1, <2>1, <2>2, <3>2, <3>4, RegisterFront
    <3> QED BY <1>1, <2>3, <3>1, <3>5
  <2> QED BY <1>1, <1>2, <2>5, <2>6, <2>7, <2>8 DEF KInv
<1>4. CASE ~ (prev[t] = NULL /\ next[t] = NULL)
  <2>1. panic' = "pause" /\ UNCHANGED <<list, state>>
    BY <1>4 DEF Pause
  <2>2. program.timeouts # {}
    BY <2>1, QuietPause
  <2>3. blocks \in program.threads \cup {NULL}
    BY DEF KInv, Own
  <2> QED BY <1>1, <2>1, <2>2, <2>3, KalarmSame DEF TypeOK
<1> QED BY <1>3, <1>4

LEMMA KalarmTimeout ==
  ASSUME KInv, NEW t \in program.threads, NEW d \in program.timeouts, Timeout(t, d)
  PROVE  KInv'
<1>1. /\ TypeOK /\ Linked /\ panic = "no" /\ ~ tick /\ t \in Thread /\ t \in Event /\ t # Resched
      /\ state \in [Thread -> {"awake", "paused", "waits"}] /\ d \in 0 .. QUANTUM
      /\ UNCHANGED <<program, runs, pendsv, tick>> /\ blocks' = t
      /\ state' = [state EXCEPT ![t] = "waits"] /\ Register(t, d)
      /\ left \in [Event -> -1 .. QUANTUM] /\ program.timeouts # {}
  BY MembersAre, Names DEF KInv, Own, Timeout, Executes, Event, TypeOK
<1>2. /\ Linked' /\ left' \in [Event -> -1 .. QUANTUM]
      /\ panic' \in {"no", "register", "loop"}
      /\ panic' = "no" => left' = [left EXCEPT ![t] = d]
      /\ head' \in {head, t}
  BY <1>1, RegisterAny
<1>3. TypeOK'
  <2>1. state' \in [Thread -> {"awake", "paused", "waits"}]
    BY <1>1
  <2>2. Members \subseteq Event \cup {NULL} /\ Members' = Members
    BY <1>1, MembersAre DEF Members
  <2>3. /\ head' \in Event \cup {NULL}
        /\ prev' \in [Event -> Event \cup {NULL}] /\ next' \in [Event -> Event \cup {NULL}]
    BY <1>2, <2>2 DEF Linked
  <2> QED BY <1>1, <1>2, <2>1, <2>3 DEF TypeOK
<1>4. Own'
  BY <1>1, <1>2 DEF KInv, Own
<1>5. Later'
  <2> SUFFICES ASSUME panic' = "no", head' = Resched PROVE left'[Resched] >= 1
    BY DEF Later
  <2>1. head = Resched /\ left'[Resched] = left[Resched]
    BY <1>1, <1>2 DEF Event
  <2> QED BY <1>1, <2>1 DEF KInv, Later
<1>6. Sleeps'
  <2> SUFFICES ASSUME Alone, NEW s \in Thread, state'[s] = "paused" PROVE FALSE
    BY <1>1 DEF Sleeps, Alone
  <2>1. s \in program.threads /\ s # t
    BY <1>1, <1>4 DEF Own
  <2> QED BY <1>1, <2>1, OnlyThread
<1> QED BY <1>1, <1>3, <1>4, <1>5, <1>6 DEF KInv

(* Unlinking the reschedule alarm leaves the links of running threads free.  *)
LEMMA QuietUnlink ==
  ASSUME KInv, Quiet
  PROVE  /\ Prev1 \in [Event -> Event \cup {NULL}] /\ Next1 \in [Event -> Event \cup {NULL}]
         /\ Prev1[Resched] = prev[Resched] /\ Next1[Resched] = next[Resched]
         /\ \A t \in Thread : state[t] = "awake" => Prev1[t] = NULL /\ Next1[t] = NULL
         /\ head # NULL /\ next[head] = NULL => Next1[head] = NULL
         /\ Both => Next1[head] = Resched
<1>1. /\ prev \in [Event -> Event \cup {NULL}] /\ next \in [Event -> Event \cup {NULL}]
      /\ Resched \in Event /\ NULL # Resched /\ Thread \subseteq Event
      /\ NULL \notin Thread /\ Resched \notin Thread /\ head \in Event \cup {NULL}
      /\ prev[Resched] = NULL \/ next[Resched] = NULL
      /\ prev[Resched] \in Event \cup {NULL} /\ next[Resched] \in Event \cup {NULL}
  BY Names DEF KInv, TypeOK, Event, Quiet
<1>2. Prev1 \in [Event -> Event \cup {NULL}]
  BY <1>1, SetIn DEF Prev1
<1>3. Next1 \in [Event -> Event \cup {NULL}]
  BY <1>1, SetIn DEF Next1
<1>4. Prev1[Resched] = prev[Resched]
  BY <1>1 DEF Prev1, Set
<1>5. Next1[Resched] = next[Resched]
  BY <1>1 DEF Next1, Set
<1>6. ASSUME NEW t \in Thread, state[t] = "awake" PROVE Prev1[t] = NULL /\ Next1[t] = NULL
  <2>1. prev[t] = NULL /\ next[t] = NULL /\ t \in Event /\ t # Resched /\ t # NULL
    BY <1>1, <1>6 DEF Quiet, Untouched
  <2>2. Prev1[t] = NULL
    BY <1>1, <2>1 DEF Prev1, Set
  <2>3. Next1[t] = NULL
    BY <1>1, <1>4, <2>1 DEF Next1, Set
  <2> QED BY <2>2, <2>3
<1>7. ASSUME head # NULL, next[head] = NULL PROVE Next1[head] = NULL
  BY <1>1, <1>4, <1>7 DEF Next1, Set
<1>8. ASSUME Both PROVE Next1[head] = Resched
  BY <1>1, <1>4, <1>8 DEF Next1, Set, Both
<1> QED BY <1>2, <1>3, <1>4, <1>5, <1>6, <1>7, <1>8

(* schedule_next_thread moves the reschedule alarm: in each form of a list   *)
(* without timeouts it finds or makes another form.                          *)
LEMMA QuietPendSV ==
  ASSUME KInv, PendSV, program.timeouts = {}
  PROVE  Quiet'
<1>1. /\ Quiet /\ TypeOK /\ panic = "no" /\ ~ tick
      /\ Update(Resched, QUANTUM) /\ pendsv' = FALSE
      /\ UNCHANGED <<program, state, runs, blocks, tick>>
      /\ Resched \in Event /\ NULL # Resched /\ Thread \subseteq Event /\ NULL \notin Event
      /\ Resched \notin Thread /\ QUANTUM \in Nat \ {0, 1}
      /\ left \in [Event -> -1 .. QUANTUM]
  BY Names DEF KInv, PendSV, Event, TypeOK
<1>2. /\ Prev1 \in [Event -> Event \cup {NULL}] /\ Next1 \in [Event -> Event \cup {NULL}]
      /\ Prev1[Resched] = prev[Resched] /\ Next1[Resched] = next[Resched]
      /\ \A t \in Thread : state[t] = "awake" => Prev1[t] = NULL /\ Next1[t] = NULL
      /\ head # NULL /\ next[head] = NULL => Next1[head] = NULL
      /\ Both => Next1[head] = Resched
  BY <1>1, QuietUnlink
<1>3. head \in Thread => left[head] = 1
  BY <1>1 DEF Quiet, ToWait
<1>4. ASSUME NEW t \in Thread
      PROVE  state[t] \in {"awake", "paused"} /\ (state[t] = "awake" => head # t)
  BY <1>1 DEF Quiet, Untouched
<1>5. ASSUME panic' = "no", prev'[Resched] = NULL \/ next'[Resched] = NULL,
             (Empty \/ Single \/ Yields \/ Both)', head' \in Thread => left'[head'] = 1,
             \A t \in Thread : state[t] = "awake" => prev'[t] = NULL /\ next'[t] = NULL /\ head' # t
      PROVE  Quiet'
  BY <1>1, <1>4, <1>5 DEF Quiet, Untouched, ToWait
<1>6. ASSUME Empty \/ (Single /\ left[Resched] >= QUANTUM) PROVE Quiet'
  <2>1. Put(NULL)
    BY <1>1, <1>6, UpdateFront DEF Empty, Single
  <2>2. Head1 = NULL
    BY <1>1, <1>2, <1>6 DEF Head1, Empty, Single
  <2>3. /\ prev' = [Prev1 EXCEPT ![Resched] = NULL] /\ next' = [Next1 EXCEPT ![Resched] = NULL]
        /\ head' = Resched /\ panic' = panic
    BY <2>1, <2>2 DEF Put, Set
  <2>4. Single' /\ head' \notin Thread
    BY <1>1, <1>2, <2>3 DEF Single
  <2>5. \A t \in Thread : state[t] = "awake" => prev'[t] = NULL /\ next'[t] = NULL /\ head' # t
    BY <1>1, <1>2, <2>3
  <2> QED BY <1>1, <1>5, <2>3, <2>4, <2>5 DEF Single
<1>7. ASSUME Single, left[Resched] < QUANTUM PROVE Quiet'
  <2>1. Put(Resched)
    BY <1>1, <1>7, UpdateSecond DEF Single
  <2>2. Head1 = NULL /\ Next1[Resched] = NULL
    BY <1>2, <1>7 DEF Head1, Single
  <2>3. /\ prev' = [Prev1 EXCEPT ![Resched] = NULL]
        /\ next' = [[Next1 EXCEPT ![Resched] = NULL] EXCEPT ![Resched] = Resched]
        /\ head' = NULL /\ panic' = panic
    BY <1>1, <2>1, <2>2 DEF Put, Set
  <2>4. Empty' /\ head' \notin Thread /\ prev'[Resched] = NULL
    BY <1>1, <1>2, <2>3 DEF Empty
  <2>5. \A t \in Thread : state[t] = "awake" => prev'[t] = NULL /\ next'[t] = NULL /\ head' # t
    BY <1>1, <1>2, <2>3
  <2> QED BY <1>1, <1>5, <2>3, <2>4, <2>5
<1>8. ASSUME Yields PROVE Quiet'
  <2>1. head \in Thread /\ head \in Event /\ head # Resched /\ head # NULL /\ left[head] = 1 /\ next[head] = NULL
    BY <1>1, <1>3, <1>8 DEF Yields
  <2>2. Put(head)
    BY <1>1, <2>1, UpdateSecond
  <2>3. Head1 = head /\ Next1[head] = NULL
    BY <1>2, <2>1 DEF Head1
  <2>4. /\ prev' = [Prev1 EXCEPT ![Resched] = NULL]
        /\ next' = [[Next1 EXCEPT ![Resched] = NULL] EXCEPT ![head] = Resched]
        /\ head' = head /\ panic' = panic /\ left' = [left EXCEPT ![Resched] = QUANTUM]
    BY <2>1, <2>2, <2>3 DEF Put, Set
  <2>5. left'[head'] = 1 /\ left'[Resched] = QUANTUM
    BY <1>1, <2>1, <2>4
  <2>6. Both' /\ prev'[Resched] = NULL
    BY <1>1, <1>2, <2>1, <2>4, <2>5 DEF Both
  <2>7. \A t \in Thread : state[t] = "awake" => prev'[t] = NULL /\ next'[t] = NULL /\ head' # t
    BY <1>1, <1>2, <1>4, <2>4
  <2> QED BY <1>1, <1>5, <2>4, <2>5, <2>6, <2>7
<1>9. ASSUME Both PROVE Quiet'
  <2>1. /\ head \in Thread /\ head \in Event /\ head # Resched /\ head # NULL /\ left[head] = 1
        /\ next[head] = Resched /\ left[Resched] = QUANTUM /\ next[Resched] = NULL
        /\ Cardinality(Event) >= 2
    BY <1>1, <1>3, <1>9, EventFacts DEF Both
  <2>2. Put(head)
    BY <1>1, <2>1, UpdateSecond
  <2>3. Head1 = head /\ Next1[head] = Resched /\ Next1[Resched] = NULL
    BY <1>2, <1>9, <2>1 DEF Head1
  <2>4. /\ prev' = [[Prev1 EXCEPT ![Resched] = Resched] EXCEPT ![Resched] = Resched]
        /\ next' = [[Next1 EXCEPT ![Resched] = NULL] EXCEPT ![head] = Resched]
        /\ head' = head /\ panic' = panic /\ left' = [left EXCEPT ![Resched] = QUANTUM]
    BY <1>1, <2>1, <2>2, <2>3 DEF Put, Set
  <2>5. left'[head'] = 1 /\ left'[Resched] = QUANTUM
    BY <1>1, <2>1, <2>4
  <2>6. Both' /\ next'[Resched] = NULL
    BY <1>1, <1>2, <2>1, <2>4, <2>5 DEF Both
  <2>7. \A t \in Thread : state[t] = "awake" => prev'[t] = NULL /\ next'[t] = NULL /\ head' # t
    BY <1>1, <1>2, <1>4, <2>4
  <2> QED BY <1>1, <1>5, <2>4, <2>5, <2>6, <2>7
<1>10. left[Resched] < QUANTUM \/ left[Resched] >= QUANTUM
  BY <1>1
<1> QED BY <1>1, <1>6, <1>7, <1>8, <1>9, <1>10 DEF Quiet

LEMMA KalarmPendSV == ASSUME KInv, PendSV PROVE KInv'
<1>1. /\ TypeOK /\ Linked /\ panic = "no" /\ ~ tick /\ Update(Resched, QUANTUM) /\ pendsv' = FALSE
      /\ UNCHANGED <<program, state, runs, blocks, tick>>
      /\ Resched \in Event /\ Resched \notin Thread /\ QUANTUM \in Nat \ {0, 1} /\ NULL \notin Thread
      /\ Thread \subseteq Event /\ left \in [Event -> -1 .. QUANTUM]
  BY Names DEF KInv, Own, PendSV, Event, TypeOK
<1>2. /\ Linked' /\ left' \in [Event -> -1 .. QUANTUM]
      /\ panic' \in {"no", "loop"}
      /\ panic' = "no" => left' = [left EXCEPT ![Resched] = QUANTUM]
      /\ head # NULL /\ head # Resched /\ left[head] < QUANTUM => head' = head
  BY <1>1, UpdateAny
<1>3. TypeOK'
  <2>1. Members \subseteq Event \cup {NULL} /\ Members' = Members
    BY <1>1, MembersAre DEF Members
  <2>2. /\ head' \in Event \cup {NULL}
        /\ prev' \in [Event -> Event \cup {NULL}] /\ next' \in [Event -> Event \cup {NULL}]
    BY <1>2, <2>1 DEF Linked
  <2> QED BY <1>1, <1>2, <2>2 DEF TypeOK
<1>4. Own'
  BY <1>1, <1>2 DEF KInv, Own
<1>5. Later'
  BY <1>1, <1>2 DEF Later
<1>6. Sleeps'
  <2> SUFFICES ASSUME panic' = "no", Alone, NEW s \in Thread, state[s] = "paused"
               PROVE  head' = s /\ left'[s] = 1
    BY <1>1 DEF Sleeps, Alone, ToWait
  <2>1. head = s /\ left[s] = 1
    BY <1>1 DEF KInv, Sleeps, ToWait
  <2> QED BY <1>1, <1>2, <2>1
<1> QED BY <1>1, <1>3, <1>4, <1>5, <1>6, QuietPendSV DEF KInv

LEMMA KalarmNext == KInv /\ [Next]_vars => KInv'
<1> SUFFICES ASSUME KInv, [Next]_vars PROVE KInv'
  OBVIOUS
<1>1. ASSUME UNCHANGED vars PROVE KInv'
  BY <1>1, KalarmSame DEF KInv, Own, TypeOK, Quiet, vars, list
<1>2. CASE \E t \in program.threads : Pause(t)
  BY <1>2, KalarmPause
<1>3. CASE \E t \in program.threads, d \in program.timeouts : Timeout(t, d)
  BY <1>3, KalarmTimeout
<1>4. CASE \E t \in Thread : Answer(t)
  BY <1>4, KalarmAnswer
<1>5. CASE Call \/ Return \/ Block \/ PendSV
  BY <1>5, KalarmCalls, KalarmBlock, KalarmPendSV
<1>6. CASE Tick \/ Fire \/ TickEnds
  BY <1>6, KalarmTick, KalarmFire, KalarmTickEnds
<1> QED BY <1>1, <1>2, <1>3, <1>4, <1>5, <1>6 DEF Next, Panicked

LEMMA KalarmInvariant == Spec => []KInv
BY KalarmInit, KalarmNext, PTL DEF Spec

-----------------------------------------------------------------------------
(* What KInv says of the list.                                               *)

(* Behind the end of the list the walk stays at its end.                     *)
LEMMA StaysNull ==
  ASSUME KInv, NEW k \in 0 .. Cardinality(Event), Node[k] = NULL
  PROVE  \A n \in k .. Cardinality(Event) : Node[n] = NULL
<1> DEFINE C == Cardinality(Event)
           bad == {n \in k .. C : Node[n] # NULL}
<1>1. C \in Nat /\ Walks(Node, C)
  BY EventFacts, NodeWalks DEF KInv, TypeOK
<1>2. bad = {}
  <2> SUFFICES ASSUME NEW m \in bad, \A i \in bad : m <= i PROVE FALSE
    <3>1. bad \in SUBSET Nat
      BY <1>1
    <3> HIDE DEF bad
    <3> QED BY <3>1, LeastElement
  <2>1. m \in k .. C /\ Node[m] # NULL /\ m # k
    OBVIOUS
  <2>2. m - 1 \in k .. C /\ m \in 1 .. C /\ m - 1 \notin bad
    BY <1>1, <2>1
  <2>3. Node[m - 1] = NULL /\ Node[m] = Step(Node[m - 1])
    BY <1>1, <2>2 DEF Walks
  <2> QED BY <2>1, <2>3 DEF Step
<1> QED BY <1>2

LEMMA QuietSorted == ASSUME KInv PROVE Sorted
<1> SUFFICES ASSUME program.timeouts = {}
             PROVE  /\ \E n \in DOMAIN Node : Node[n] = NULL
                    /\ \A n \in 1 .. Cardinality(Event) :
                         Node[n] # NULL => left[Node[n - 1]] <= left[Node[n]]
  BY DEF Sorted
<1> DEFINE C == Cardinality(Event)
<1>1. Quiet /\ TypeOK /\ NULL # Resched /\ NULL \notin Thread /\ Resched \notin Thread
  BY Names DEF KInv
<1>2. C \in Nat \ {0} /\ Walks(Node, C) /\ DOMAIN Node = 0 .. C
  BY <1>1, EventFacts, NodeWalks DEF TypeOK
<1>3. Node[0] = head /\ \A n \in 1 .. C : Node[n] = Step(Node[n - 1])
  BY <1>2 DEF Walks
<1>4. 0 \in 0 .. C /\ 1 \in 0 .. C /\ 1 \in 1 .. C /\ 1 - 1 = 0 /\ 2 - 1 = 1
  BY <1>2
<1>5. Node[1] = Step(Node[0])
  BY <1>3, <1>4
<1>6. CASE Empty
  <2>1. Node[0] = NULL
    BY <1>3, <1>6 DEF Empty
  <2>2. \A n \in 0 .. C : Node[n] = NULL
    BY <1>4, <2>1, StaysNull
  <2> QED BY <1>2, <1>4, <2>1, <2>2
<1>7. CASE Single \/ Yields
  <2>1. Node[1] = NULL
    BY <1>1, <1>3, <1>5, <1>7 DEF Single, Yields, Step
  <2>2. \A n \in 1 .. C : Node[n] = NULL
    BY <1>4, <2>1, StaysNull
  <2> QED BY <1>2, <1>4, <2>1, <2>2
<1>8. CASE Both
  <2>1. C >= 2
    BY <1>8, EventFacts DEF Both
  <2>2. 2 \in 1 .. C /\ 2 \in 0 .. C
    BY <1>2, <2>1
  <2>3. Node[1] = Resched
    BY <1>1, <1>3, <1>5, <1>8 DEF Both, Step
  <2>4. Node[2] = NULL
    <3>1. Node[2] = Step(Node[1])
      BY <1>3, <1>4, <2>2
    <3> QED BY <2>3, <3>1, <1>8 DEF Both, Step
  <2>5. \A n \in 2 .. C : Node[n] = NULL
    BY <2>2, <2>4, StaysNull
  <2>6. left[Node[0]] <= left[Node[1]]
    <3>1. left[head] \in Int /\ left[Resched] = left[head] + QUANTUM - 1 /\ QUANTUM \in Nat \ {0, 1}
      BY <1>1, <1>8, Names DEF Both, Quiet, ToWait
    <3> QED BY <1>3, <2>3, <3>1
  <2>7. \A n \in 1 .. C : n = 1 \/ n \in 2 .. C
    BY <1>2
  <2> QED BY <1>2, <1>4, <2>2, <2>4, <2>5, <2>6, <2>7
<1> QED BY <1>1, <1>6, <1>7, <1>8 DEF Quiet

(* At every step of its users the list of alarms is well-typed; without IPC  *)
(* timeouts it ends and is in order (find_insertion_point); and a thread     *)
(* that yields is found by SysTick if no other one yields with it.           *)
THEOREM KalarmList == Spec => []ListInv
<1>1. KInv => ListInv
  <2> SUFFICES ASSUME KInv PROVE ListInv
    OBVIOUS
  <2>1. SleepersListed
    <3> SUFFICES ASSUME Alone, panic = "no", NEW t \in Thread, state[t] = "paused" PROVE t \in Listed
      BY DEF SleepersListed
    <3>1. head = t /\ t # NULL
      BY Names DEF KInv, Sleeps
    <3>2. 0 \in DOMAIN Node /\ Node[0] = head
      <4>1. DOMAIN Node = 0 .. Cardinality(Event) /\ Node[0] = head
        BY NodeWalks DEF KInv, TypeOK, Walks
      <4> QED BY <4>1, EventFacts
    <3> QED BY <3>1, <3>2, Zenon DEF Listed
  <2> QED BY <2>1, QuietSorted DEF ListInv, KInv
<1> QED BY <1>1, KalarmInvariant, PTL

(* Programs without IPC timeouts never run into an assertion of kalarm.c or  *)
(* thread_switch, nor into an endless list, however many threads yield in    *)
(* one tick, and wherever SysTick and PendSV strike.                         *)
THEOREM KalarmNoAssertion == Spec => []NoAssertion
<1>1. KInv => NoAssertion
  BY DEF KInv, Quiet, NoAssertion
<1> QED BY <1>1, KalarmInvariant, PTL
=============================================================================
