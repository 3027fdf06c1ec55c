--------------------------- MODULE StartupProofs ---------------------------
(***************************************************************************)
(* Proofs about Startup, for every size of the memory, every images and     *)
(* inittabs and every request of clients, up to one that the memory service *)
(* should have refused: the memory of the system stays apart and the list   *)
(* of free pages stays as linked_list_alloc.c needs it (StartupMemory), and *)
(* it is the pool of blocks that PagePool specifies (StartupPagePool).      *)
(***************************************************************************)
EXTENDS Startup, FiniteSetTheorems, SequenceTheorems, WellFoundedInduction, TLAPS

-----------------------------------------------------------------------------
(* Numbers.                                                                 *)

(* Min is the least element of a set of naturals.                            *)
LEMMA LeastElement ==
  ASSUME NEW S \in SUBSET Nat, S # {}
  PROVE  Min(S) \in S /\ \A i \in S : Min(S) <= i
<1> DEFINE less == {p \in Nat \X Nat : p[1] < p[2]}
<1>1. IsWellFoundedOn(less, Nat)
  BY NatLessThanWellFounded, Zenon DEF OpToRel
<1>2. PICK x \in S : \A y \in S : <<y, x>> \notin less
  <2> HIDE DEF less
  <2> QED BY <1>1, WFMin
<1>3. ASSUME NEW y \in S PROVE x <= y
  <2>1. <<y, x>> \in Nat \X Nat /\ <<y, x>>[1] = y /\ <<y, x>>[2] = x
    OBVIOUS
  <2>2. ~ (y < x)
    BY <1>2, <2>1
  <2> QED BY <2>2
<1> QED BY <1>3 DEF Min

(* Two functions that agree at 0, and at a number if they agree at the one   *)
(* before it, agree.                                                        *)
GoAlike(f, g, n) ==
  f[0] = g[0] /\ \A k \in 1 .. n : f[k - 1] = g[k - 1] => f[k] = g[k]

LEMMA SameWalk ==
  ASSUME NEW n \in Nat, NEW f, NEW g, GoAlike(f, g, n)
  PROVE  \A k \in 0 .. n : f[k] = g[k]
<1> DEFINE bad == {k \in 0 .. n : f[k] # g[k]}
<1>1. SUFFICES ASSUME bad # {} PROVE FALSE
  OBVIOUS
<1>2. bad \in SUBSET Nat
  OBVIOUS
<1>3. Min(bad) \in bad /\ \A i \in bad : Min(bad) <= i
  <2> HIDE DEF bad
  <2> QED BY <1>1, <1>2, LeastElement
<1>4. PICK k \in 0 .. n : f[k] # g[k] /\ \A i \in bad : k <= i
  BY <1>3
<1>5. k # 0
  BY <1>4 DEF GoAlike
<1>6. k \in 1 .. n /\ k - 1 \in 0 .. n /\ ~ (k <= k - 1)
  BY <1>4, <1>5
<1>7. f[k - 1] = g[k - 1]
  BY <1>4, <1>6
<1> QED BY <1>4, <1>6, <1>7 DEF GoAlike

(* Following links from a first element is defined.                          *)
Follows(f, n, first, nxt) == f[0] = first /\ \A k \in 1 .. n : f[k] = nxt[f[k - 1]]

LEMMA WalkExists ==
  ASSUME NEW n \in Nat, NEW S, NEW first \in S, NEW nxt \in [S -> S]
  PROVE  \E f \in [0 .. n -> S] : Follows(f, n, first, nxt)
<1> DEFINE walk(f, m) == Follows(f, m, first, nxt)
           bad == {m \in Nat : \A f \in [0 .. m -> S] : ~ walk(f, m)}
<1>1. SUFFICES ASSUME bad # {} PROVE FALSE
  OBVIOUS
<1>2. Min(bad) \in bad /\ \A i \in bad : Min(bad) <= i
  <2>1. bad \in SUBSET Nat
    OBVIOUS
  <2> HIDE DEF bad
  <2> QED BY <1>1, <2>1, LeastElement
<1>3. PICK m \in Nat : m \in bad /\ \A i \in bad : m <= i
  BY <1>2
<1>4. \A f \in [0 .. m -> S] : ~ walk(f, m)
  BY <1>3
<1>5. CASE m = 0
  <2> DEFINE f == [k \in 0 .. m |-> first]
  <2>1. f \in [0 .. m -> S] /\ f[0] = first /\ 1 .. m = {}
    BY <1>5
  <2> QED BY <1>4, <2>1 DEF Follows
<1>6. CASE m # 0
  <2>1. m - 1 \in Nat /\ m - 1 \notin bad
    <3>1. m - 1 \in Nat /\ ~ (m <= m - 1)
      BY <1>6
    <3> HIDE DEF bad
    <3> QED BY <1>3, <3>1
  <2>2. PICK f \in [0 .. m - 1 -> S] : walk(f, m - 1)
    BY <2>1
  <2> DEFINE g == [k \in 0 .. m |-> IF k = m THEN nxt[f[m - 1]] ELSE f[k]]
  <2>3. f[m - 1] \in S /\ nxt[f[m - 1]] \in S
    BY <1>3, <2>1
  <2>4. g \in [0 .. m -> S]
    <3>1. ASSUME NEW k \in 0 .. m PROVE (IF k = m THEN nxt[f[m - 1]] ELSE f[k]) \in S
      <4>1. k = m \/ k \in 0 .. m - 1
        BY <1>3
      <4> QED BY <2>3, <4>1
    <3> QED BY <3>1
  <2>5. g[0] = first
    BY <1>3, <1>6, <2>2 DEF Follows
  <2>6. ASSUME NEW k \in 1 .. m PROVE g[k] = nxt[g[k - 1]]
    <3>1. k - 1 \in 0 .. m /\ k - 1 # m /\ k \in 0 .. m
      BY <1>3
    <3>2. g[k - 1] = f[k - 1]
      BY <3>1
    <3>3. CASE k = m
      BY <3>1, <3>2, <3>3
    <3>4. CASE k # m
      <4>1. k \in 1 .. m - 1
        BY <1>3, <3>4
      <4> QED BY <2>2, <3>1, <3>2, <3>4, <4>1 DEF Follows
    <3> QED BY <3>3, <3>4
  <2> QED BY <1>4, <2>4, <2>5, <2>6 DEF Follows
<1> QED BY <1>5, <1>6

-----------------------------------------------------------------------------
(* The walk over the list of free pages, as a function of its first page    *)
(* and the nodes: the state before a step and the one after it are two      *)
(* lists.                                                                   *)
Nodes == [Links -> [num_pages : Nat, next : Links, prev : Links]]

IsWalk(f, first, nodes) ==
  /\ f \in [0 .. PageCount -> Links]
  /\ f[0] = first
  /\ \A k \in 1 .. PageCount : f[k] = nodes[f[k - 1]].next

LEMMA PageFacts ==
  /\ PageCount \in Nat \ {0} /\ PAGE_SIZE_LOG2 \in Nat /\ IpcSizes \subseteq Nat
  /\ NULL \in Links /\ NULL \notin Pages /\ Pages \subseteq Links
  /\ \A p \in Links : p \in Nat /\ (p # NULL => p \in Pages)
  /\ 0 \in 0 .. PageCount /\ PageCount \in 0 .. PageCount
BY PageAssumption DEF Links, NULL, Pages

(* There is one walk.                                                       *)
LEMMA OneWalk ==
  ASSUME NEW first, NEW nodes, NEW f, NEW g, IsWalk(f, first, nodes), IsWalk(g, first, nodes)
  PROVE  f = g
<1>1. GoAlike(f, g, PageCount)
  BY DEF IsWalk, GoAlike
<1>2. PageCount \in Nat
  BY PageFacts
<1>3. \A k \in 0 .. PageCount : f[k] = g[k]
  BY <1>1, <1>2, SameWalk, Zenon
<1>4. f = [k \in 0 .. PageCount |-> f[k]] /\ g = [k \in 0 .. PageCount |-> g[k]]
  BY DEF IsWalk
<1> QED BY <1>3, <1>4

(* What the equation of Node defines is the walk.                            *)
LEMMA EquationWalks ==
  ASSUME NEW first \in Links, NEW nodes \in Nodes,
         NEW F, F = CHOOSE f : f = [k \in 0 .. PageCount |-> IF k = 0 THEN first ELSE nodes[f[k - 1]].next]
  PROVE  IsWalk(F, first, nodes)
<1> DEFINE nxt == [p \in Links |-> nodes[p].next]
<1>1. nxt \in [Links -> Links]
  BY DEF Nodes
<1>2. PICK g \in [0 .. PageCount -> Links] : Follows(g, PageCount, first, nxt)
  <2>1. PageCount \in Nat
    BY PageFacts
  <2> HIDE DEF nxt
  <2> QED BY <1>1, <2>1, WalkExists, Zenon
<1>3. ASSUME NEW k \in 0 .. PageCount
      PROVE  g[k] = IF k = 0 THEN first ELSE nodes[g[k - 1]].next
  <2>1. CASE k = 0
    BY <1>2, <2>1 DEF Follows
  <2>2. CASE k # 0
    <3>1. k \in 1 .. PageCount /\ k - 1 \in 0 .. PageCount
      BY <2>2, PageFacts
    <3>2. g[k - 1] \in Links
      BY <3>1
    <3> QED BY <1>2, <2>2, <3>1, <3>2 DEF Follows
  <2> QED BY <2>1, <2>2
<1>4. g = [k \in 0 .. PageCount |-> IF k = 0 THEN first ELSE nodes[g[k - 1]].next]
  BY <1>3
<1>5. F = [k \in 0 .. PageCount |-> IF k = 0 THEN first ELSE nodes[F[k - 1]].next]
  BY <1>4, Zenon
<1>6. F[0] = first /\ DOMAIN F = 0 .. PageCount
  BY <1>5, PageFacts, Zenon
<1>7. ASSUME NEW k \in 1 .. PageCount PROVE F[k] = nodes[F[k - 1]].next
  <2>1. k \in 0 .. PageCount /\ k # 0
    BY PageFacts
  <2> QED BY <1>5, <2>1, Zenon
<1>8. ASSUME NEW k \in 1 .. PageCount, F[k - 1] = g[k - 1] PROVE F[k] = g[k]
  <2>1. k \in 0 .. PageCount /\ k # 0
    BY PageFacts
  <2> QED BY <1>3, <1>7, <1>8, <2>1
<1>9. \A k \in 0 .. PageCount : F[k] = g[k]
  <2>1. F[0] = g[0]
    BY <1>2, <1>6 DEF Follows
  <2>2. GoAlike(F, g, PageCount)
    BY <1>8, <2>1, Zenon DEF GoAlike
  <2>3. PageCount \in Nat
    BY PageFacts
  <2> QED BY <2>2, <2>3, SameWalk
<1>10. F = g
  <2>1. F = [k \in 0 .. PageCount |-> F[k]]
    BY <1>5, <1>6
  <2>2. g = [k \in 0 .. PageCount |-> g[k]]
    OBVIOUS
  <2> QED BY <1>9, <2>1, <2>2
<1> QED BY <1>6, <1>7, <1>10 DEF IsWalk

LEMMA NodeWalks ==
  ASSUME first_free_item \in Links, node \in Nodes
  PROVE  IsWalk(Node, first_free_item, node)
BY EquationWalks, Zenon DEF Node

LEMMA NextNodeWalks ==
  ASSUME first_free_item' \in Links, node' \in Nodes
  PROVE  IsWalk(Node', first_free_item', node')
BY EquationWalks, Zenon DEF Node

-----------------------------------------------------------------------------
(* The list that linked_list_alloc.c needs: no node comes twice, each has   *)
(* its pages inside the memory, and none has a predecessor.                 *)
GoodList(f, first, nodes) ==
  /\ first \in Links /\ nodes \in Nodes /\ nodes[NULL].next = NULL
  /\ IsWalk(f, first, nodes)
  /\ \A i, j \in 0 .. PageCount : f[i] = f[j] /\ f[i] # NULL => i = j
  /\ \A i \in 0 .. PageCount : f[i] # NULL =>
       nodes[f[i]].num_pages \in 1 .. PageCount - f[i] /\ nodes[f[i]].prev = NULL

BlocksOf(f, nodes) ==
  {[base |-> p, num |-> nodes[p].num_pages] : p \in {f[k] : k \in 0 .. PageCount} \ {NULL}}

(* The free list holds these blocks.                                         *)
Lists(first, nodes, blocks) == \E f : GoodList(f, first, nodes) /\ BlocksOf(f, nodes) = blocks

(* Nothing follows NULL, and the walk gets there: there are not enough pages *)
(* for it to go on.                                                         *)
LEMMA NullStays ==
  ASSUME NEW first, NEW nodes, NEW f, GoodList(f, first, nodes),
         NEW i \in 0 .. PageCount, NEW j \in i .. PageCount, f[i] = NULL
  PROVE  f[j] = NULL
<1> DEFINE bad == {m \in i .. PageCount : f[m] # NULL}
<1>1. SUFFICES ASSUME bad # {} PROVE FALSE
  OBVIOUS
<1>2. Min(bad) \in bad /\ \A m \in bad : Min(bad) <= m
  <2>1. bad \in SUBSET Nat
    OBVIOUS
  <2> HIDE DEF bad
  <2> QED BY <1>1, <2>1, LeastElement
<1>3. PICK m \in i .. PageCount : f[m] # NULL /\ \A h \in bad : m <= h
  BY <1>2
<1>4. m - 1 \in i .. PageCount /\ m \in 1 .. PageCount /\ ~ (m <= m - 1)
  BY <1>3, PageFacts
<1>5. f[m - 1] = NULL
  BY <1>3, <1>4
<1>6. f[m] = nodes[NULL].next
  BY <1>4, <1>5 DEF GoodList, IsWalk
<1> QED BY <1>3, <1>6 DEF GoodList

LEMMA LastIsNull ==
  ASSUME NEW first, NEW nodes, NEW f, GoodList(f, first, nodes)
  PROVE  f[PageCount] = NULL
<1> SUFFICES ASSUME f[PageCount] # NULL PROVE FALSE
  OBVIOUS
<1>1. ASSUME NEW i \in 0 .. PageCount PROVE f[i] \in Pages
  <2>1. PageCount \in i .. PageCount
    BY PageFacts
  <2>2. f[i] # NULL
    BY <2>1, NullStays
  <2>3. f[i] \in Links
    BY DEF GoodList, IsWalk
  <2> QED BY <2>2, <2>3, PageFacts
<1>2. f \in [0 .. PageCount -> Pages]
  <2>1. f = [i \in 0 .. PageCount |-> f[i]]
    BY DEF GoodList, IsWalk
  <2> QED BY <1>1, <2>1
<1>3. /\ IsFiniteSet(0 .. PageCount) /\ Cardinality(0 .. PageCount) = PageCount + 1
      /\ IsFiniteSet(Pages) /\ Cardinality(Pages) = PageCount
  <2>1. 0 \in Int /\ PageCount \in Int /\ PageCount - 1 \in Int /\ PageCount > 0
    BY PageFacts
  <2> QED BY <2>1, FS_Interval DEF Pages
<1>4. Cardinality(Pages) < Cardinality(0 .. PageCount)
  BY <1>3, PageFacts
<1>5. \E x, y \in 0 .. PageCount : x # y /\ f[x] = f[y]
  <2> DEFINE S == 0 .. PageCount
  <2>1. IsFiniteSet(S) /\ IsFiniteSet(Pages) /\ Cardinality(Pages) < Cardinality(S) /\ f \in [S -> Pages]
    BY <1>2, <1>3, <1>4
  <2> HIDE DEF S
  <2>2. \E x, y \in S : x # y /\ f[x] = f[y]
    BY ONLY <2>1, FS_PigeonHole
  <2> QED BY <2>2 DEF S
<1>6. PICK x \in 0 .. PageCount, y \in 0 .. PageCount : x # y /\ f[x] = f[y]
  BY <1>5
<1>7. f[x] # NULL
  BY <1>1, PageFacts
<1> QED BY <1>6, <1>7 DEF GoodList

(* A block taken out of the list, or cut: what the code does to the nodes,  *)
(* with the next block, or the rest of this one, as its successor.          *)
Successor(nodes, p, n) == IF nodes[p].num_pages > n THEN p + n ELSE nodes[p].next

CutAt(nodes, p, n) == IF nodes[p].num_pages > n THEN split_node_at(nodes, p, n) ELSE nodes

(* Where the list begins, and the nodes, after that.                         *)
TakenFirst(f, first, nodes, k, n) ==
  IF k = 0 THEN Unlinked(CutAt(nodes, f[k], n), f[k])[f[k]].next ELSE first

TakenNodes(f, nodes, k, n) ==
  LET out  == Unlinked(CutAt(nodes, f[k], n), f[k])
      pred == f[k - 1]
  IN  IF k = 0 THEN [out EXCEPT ![f[k]] = Blank]
      ELSE [out EXCEPT ![pred].next = out[out[pred].next].next, ![f[k]] = Blank]

(* A node that is at the k-th place of the list and has at least n pages.   *)
Takes(f, first, nodes, k, n) ==
  /\ GoodList(f, first, nodes)
  /\ k \in 0 .. PageCount /\ f[k] # NULL /\ n \in 1 .. nodes[f[k]].num_pages
  /\ nodes[f[k]].num_pages > n => \A i \in 0 .. PageCount : f[i] # f[k] + n

LEMMA TakesFacts ==
  ASSUME NEW first, NEW nodes, NEW f, NEW k, NEW n, Takes(f, first, nodes, k, n)
  PROVE  /\ f[k] \in Pages /\ k \in 0 .. PageCount - 1 /\ n \in Nat \ {0}
         /\ nodes[f[k]].num_pages \in 1 .. PageCount - f[k]
         /\ nodes[f[k]].prev = NULL /\ nodes[f[k]].next = f[k + 1] /\ f[k + 1] \in Links
         /\ f[k + 1] # NULL => nodes[f[k + 1]].prev = NULL
         /\ nodes[f[k]].num_pages > n => f[k] + n \in Pages /\ f[k] + n # f[k]
         /\ k # 0 => f[k - 1] \in Pages /\ f[k - 1] # f[k] /\ nodes[f[k - 1]].next = f[k]
<1>1. k \in 0 .. PageCount /\ f[k] \in Links /\ f[k] # NULL
  BY DEF Takes, GoodList, IsWalk
<1>2. f[k] \in Pages /\ f[PageCount] = NULL
  BY <1>1, PageFacts, LastIsNull DEF Takes
<1>3. k \in 0 .. PageCount - 1 /\ k + 1 \in 1 .. PageCount /\ k + 1 \in 0 .. PageCount /\ (k + 1) - 1 = k
  BY <1>1, <1>2, PageFacts
<1>4. f[k + 1] \in Links /\ f[k + 1] = nodes[f[(k + 1) - 1]].next
  BY <1>3 DEF Takes, GoodList, IsWalk
<1>5. nodes[f[k]].num_pages \in 1 .. PageCount - f[k] /\ nodes[f[k]].prev = NULL
  BY <1>1 DEF Takes, GoodList
<1>6. f[k + 1] # NULL => nodes[f[k + 1]].prev = NULL
  BY <1>3 DEF Takes, GoodList
<1>7. n \in 1 .. nodes[f[k]].num_pages
  BY DEF Takes
<1>8. nodes[f[k]].num_pages > n => f[k] + n \in Pages /\ f[k] + n # f[k]
  BY <1>2, <1>5, <1>7, PageFacts DEF Pages
<1>9. ASSUME k # 0 PROVE f[k - 1] \in Pages /\ f[k - 1] # f[k] /\ nodes[f[k - 1]].next = f[k]
  <2>1. k \in 1 .. PageCount /\ k - 1 \in 0 .. PageCount /\ k - 1 # k /\ k \in k - 1 .. PageCount
    BY <1>1, <1>9, PageFacts
  <2>2. f[k - 1] \in Links /\ f[k] = nodes[f[k - 1]].next
    BY <2>1 DEF Takes, GoodList, IsWalk
  <2>3. f[k - 1] # NULL
    BY <1>1, <2>1, NullStays DEF Takes
  <2>4. f[k - 1] # f[k]
    BY <1>1, <2>1, <2>3 DEF Takes, GoodList
  <2> QED BY <2>2, <2>3, <2>4, PageFacts
<1> QED BY <1>2, <1>3, <1>4, <1>5, <1>6, <1>7, <1>8, <1>9

(* What the code leaves in each node.                                        *)
LEMMA UnlinkedCut ==
  ASSUME NEW first, NEW nodes, NEW f, NEW k, NEW n, Takes(f, first, nodes, k, n)
  PROVE  Unlinked(CutAt(nodes, f[k], n), f[k]) =
           IF nodes[f[k]].num_pages > n
           THEN [nodes EXCEPT ![f[k] + n] = [num_pages |-> nodes[f[k]].num_pages - n,
                                             next |-> nodes[f[k]].next, prev |-> NULL],
                              ![f[k]].next = f[k] + n]
           ELSE nodes
<1> DEFINE p == f[k]
           r == p + n
           q == nodes[p].next
           num == nodes[p].num_pages
<1>1. /\ p \in Pages /\ nodes[p].prev = NULL /\ q \in Links
      /\ q # NULL => nodes[q].prev = NULL
      /\ num > n => r \in Pages /\ r # p
      /\ p \in Links /\ NULL \notin Pages /\ Pages \subseteq Links
  BY TakesFacts, PageFacts
<1>2. nodes \in Nodes
  BY DEF Takes, GoodList
<1> HIDE DEF p, r, q, num
<1>3. CASE num > n
  <2> DEFINE cut == [nodes EXCEPT ![r] = [num_pages |-> num - n, next |-> q, prev |-> p], ![p].next = r]
  <2>1. CutAt(nodes, p, n) = cut
    BY <1>3 DEF CutAt, split_node_at, p, r, q, num
  <2>2. cut[p].prev = NULL /\ cut[p].next = r /\ r # NULL
    BY <1>1, <1>2, <1>3 DEF Nodes
  <2>3. Unlinked(cut, p) = [cut EXCEPT ![r].prev = NULL]
    <3> HIDE DEF cut
    <3> QED BY <2>2, Zenon DEF Unlinked
  <2>4. [cut EXCEPT ![r].prev = NULL] =
          [nodes EXCEPT ![r] = [num_pages |-> num - n, next |-> q, prev |-> NULL], ![p].next = r]
    BY <1>1, <1>2, <1>3 DEF Nodes
  <2> QED BY <1>3, <2>1, <2>3, <2>4 DEF p, r, q, num
<1>4. CASE ~ (num > n)
  <2>1. CutAt(nodes, p, n) = nodes
    BY <1>4 DEF CutAt, num
  <2>2. CASE q = NULL
    <3>1. Unlinked(nodes, p) = nodes
      BY <1>1, <2>2, Zenon DEF Unlinked, q
    <3> QED BY <1>4, <2>1, <3>1 DEF p, num
  <2>3. CASE q # NULL
    <3>1. Unlinked(nodes, p) = [nodes EXCEPT ![q].prev = NULL]
      BY <1>1, <2>3, Zenon DEF Unlinked, q
    <3>2. [nodes EXCEPT ![q].prev = NULL] = nodes
      BY <1>1, <1>2, <2>3 DEF Nodes
    <3> QED BY <1>4, <2>1, <3>1, <3>2 DEF p, num
  <2> QED BY <2>2, <2>3
<1> QED BY <1>3, <1>4

(* The nodes and the first page afterwards, with the successor t.            *)
Places(f, first, nodes, k, n, new, t) ==
  /\ t \in Links /\ new \in Nodes /\ new[NULL] = nodes[NULL]
  /\ TakenFirst(f, first, nodes, k, n) = IF k = 0 THEN t ELSE first
  /\ \A x \in Links :
       /\ x # f[k] /\ (k # 0 => x # f[k - 1])
       /\ nodes[f[k]].num_pages > n => x # f[k] + n
       => new[x] = nodes[x]
  /\ k # 0 => new[f[k - 1]] = [nodes[f[k - 1]] EXCEPT !.next = t]
  /\ nodes[f[k]].num_pages > n =>
       new[f[k] + n] = [num_pages |-> nodes[f[k]].num_pages - n, next |-> f[k + 1], prev |-> NULL]

LEMMA TakenPlaces ==
  ASSUME NEW first, NEW nodes, NEW f, NEW k, NEW n, Takes(f, first, nodes, k, n),
         NEW new, new = TakenNodes(f, nodes, k, n),
         NEW t, t = Successor(nodes, f[k], n)
  PROVE  Places(f, first, nodes, k, n, new, t)
<1> DEFINE p == f[k]
           r == p + n
           q == nodes[p].next
           num == nodes[p].num_pages
           pred == f[k - 1]
           rest == [num_pages |-> num - n, next |-> q, prev |-> NULL]
           cut == [nodes EXCEPT ![r] = rest, ![p].next = r]
           out == IF num > n THEN cut ELSE nodes
<1>1. /\ p \in Pages /\ q = f[k + 1] /\ q \in Links
      /\ num > n => r \in Pages /\ r # p
      /\ p \in Links /\ NULL \notin Pages /\ Pages \subseteq Links /\ NULL \in Links
      /\ k # 0 => pred \in Pages /\ pred # p /\ nodes[pred].next = p
  BY TakesFacts, PageFacts
<1>2. nodes \in Nodes
  BY DEF Takes, GoodList
<1>3. k # 0 /\ num > n => pred # r
  <2>1. k # 0 => k - 1 \in 0 .. PageCount
    BY TakesFacts, PageFacts
  <2> QED BY <2>1 DEF Takes
<1>4. num \in Nat /\ n \in Nat \ {0}
  BY TakesFacts
<1>5. Unlinked(CutAt(nodes, f[k], n), f[k]) = out
  BY UnlinkedCut
<1>6. t = IF num > n THEN r ELSE q
  BY DEF Successor
<1>7. /\ TakenFirst(f, first, nodes, k, n) = IF k = 0 THEN out[p].next ELSE first
      /\ new = IF k = 0 THEN [out EXCEPT ![p] = Blank]
               ELSE [out EXCEPT ![pred].next = out[out[pred].next].next, ![p] = Blank]
  BY <1>5, Zenon DEF TakenFirst, TakenNodes
<1> HIDE DEF p, r, q, num, pred
<1>8. /\ out \in Nodes /\ out[p].next = t /\ out[NULL] = nodes[NULL]
      /\ \A x \in Links : x # p /\ (num > n => x # r) => out[x] = nodes[x]
      /\ num > n => out[r] = rest
  <2>1. CASE num > n
    <3>1. rest \in [num_pages : Nat, next : Links, prev : Links]
      BY <1>1, <1>4, <2>1
    <3> HIDE DEF rest
    <3> QED BY <1>1, <1>2, <1>6, <2>1, <3>1 DEF Nodes
  <2>2. CASE ~ (num > n)
    BY <1>1, <1>2, <1>6, <2>2 DEF q
  <2> QED BY <2>1, <2>2
<1>9. t \in Links
  BY <1>1, <1>6
<1>10. k # 0 => out[pred] = nodes[pred] /\ out[out[pred].next].next = t
  BY <1>1, <1>3, <1>8
<1>11. Blank \in [num_pages : Nat, next : Links, prev : Links]
  BY <1>1 DEF Blank
<1> HIDE DEF out, rest
<1>12. CASE k = 0
  <2>1. new = [out EXCEPT ![p] = Blank]
    BY <1>7, <1>12
  <2>2. new \in Nodes /\ \A x \in Links : x # p => new[x] = out[x]
    BY <1>1, <1>8, <1>11, <2>1 DEF Nodes
  <2>3. new[NULL] = nodes[NULL] /\ (num > n => new[r] = rest)
    BY <1>1, <1>8, <2>2
  <2> QED BY <1>1, <1>7, <1>8, <1>9, <1>12, <2>2, <2>3 DEF Places, p, r, q, num, rest
<1>13. CASE k # 0
  <2>1. new = [out EXCEPT ![pred].next = t, ![p] = Blank]
    BY <1>7, <1>10, <1>13
  <2>2. /\ new \in Nodes
        /\ \A x \in Links : x # p /\ x # pred => new[x] = out[x]
        /\ new[pred] = [out[pred] EXCEPT !.next = t]
    BY <1>1, <1>8, <1>9, <1>11, <1>13, <2>1 DEF Nodes
  <2>3. new[NULL] = nodes[NULL] /\ (num > n => new[r] = rest)
    BY <1>1, <1>3, <1>8, <1>13, <2>2
  <2>4. new[pred] = [nodes[pred] EXCEPT !.next = t]
    BY <1>10, <1>13, <2>2
  <2> QED BY <1>1, <1>7, <1>8, <1>9, <1>13, <2>2, <2>3, <2>4 DEF Places, p, r, q, num, rest, pred
<1> QED BY <1>12, <1>13

(* The list after a block was taken whole: the places behind it move up.    *)
LEMMA WholeTaken ==
  ASSUME NEW first, NEW nodes, NEW f, NEW k, NEW n, Takes(f, first, nodes, k, n),
         nodes[f[k]].num_pages = n,
         NEW new, new = TakenNodes(f, nodes, k, n),
         NEW begin, begin = TakenFirst(f, first, nodes, k, n)
  PROVE  Lists(begin, new, BlocksOf(f, nodes) \ {[base |-> f[k], num |-> n]})
<1> DEFINE t == f[k + 1]
           g == [i \in 0 .. PageCount |->
                   IF i < k THEN f[i] ELSE IF i = PageCount THEN NULL ELSE f[i + 1]]
<1>1. /\ f[k] \in Pages /\ k \in 0 .. PageCount - 1 /\ n \in Nat \ {0}
      /\ nodes[f[k]].next = t /\ t \in Links
      /\ k # 0 => f[k - 1] \in Pages /\ f[k - 1] # f[k]
  BY TakesFacts
<1>2. /\ new \in Nodes /\ new[NULL] = nodes[NULL]
      /\ begin = IF k = 0 THEN t ELSE first
      /\ \A x \in Links : x # f[k] /\ (k # 0 => x # f[k - 1]) => new[x] = nodes[x]
      /\ k # 0 => new[f[k - 1]] = [nodes[f[k - 1]] EXCEPT !.next = t]
  <2>1. t = Successor(nodes, f[k], n)
    BY <1>1 DEF Successor
  <2> HIDE DEF t
  <2>2. Places(f, first, nodes, k, n, new, t)
    BY <2>1, TakenPlaces
  <2>3. ~ (nodes[f[k]].num_pages > n)
    BY <1>1
  <2> QED BY <2>2, <2>3 DEF Places
<1>3. GoodList(f, first, nodes) /\ f[PageCount] = NULL /\ f[k] # NULL
  BY LastIsNull DEF Takes
<1>4. /\ f \in [0 .. PageCount -> Links] /\ f[0] = first
      /\ \A i \in 1 .. PageCount : f[i] = nodes[f[i - 1]].next
      /\ nodes \in Nodes /\ nodes[NULL].next = NULL
      /\ \A i, j \in 0 .. PageCount : f[i] = f[j] /\ f[i] # NULL => i = j
      /\ \A i \in 0 .. PageCount : f[i] # NULL =>
           nodes[f[i]].num_pages \in 1 .. PageCount - f[i] /\ nodes[f[i]].prev = NULL
  BY <1>3 DEF GoodList, IsWalk
<1>5. PageCount \in Nat \ {0} /\ NULL \in Links /\ NULL \notin Pages /\ Pages \subseteq Links
  BY PageFacts
<1> HIDE DEF t
(* What the nodes of the other places are.                                   *)
<1>6. ASSUME NEW i \in 0 .. PageCount, i # k, f[i] # NULL
      PROVE  /\ f[i] # f[k] /\ f[i] \in Links
             /\ new[f[i]].num_pages = nodes[f[i]].num_pages /\ new[f[i]].prev = NULL
             /\ new[f[i]].next = IF i = k - 1 THEN t ELSE nodes[f[i]].next
  <2>1. f[i] # f[k] /\ f[i] \in Links /\ nodes[f[i]].prev = NULL
    BY <1>1, <1>4, <1>5, <1>6
  <2>2. CASE i = k - 1
    <3>1. k # 0 /\ nodes[f[i]] \in [num_pages : Nat, next : Links, prev : Links]
      BY <1>1, <1>4, <1>5, <2>1, <2>2 DEF Nodes
    <3>2. new[f[i]] = [nodes[f[i]] EXCEPT !.next = t]
      BY <1>2, <2>2, <3>1
    <3> QED BY <2>1, <2>2, <3>1, <3>2
  <2>3. CASE i # k - 1
    <3>1. k # 0 => k - 1 \in 0 .. PageCount /\ f[k - 1] # f[i]
      BY <1>1, <1>4, <1>5, <1>6, <2>3
    <3>2. new[f[i]] = nodes[f[i]]
      BY <1>2, <2>1, <3>1
    <3> QED BY <2>1, <2>3, <3>2
  <2> QED BY <2>2, <2>3
<1>7. \A i \in 0 .. PageCount :
        g[i] = IF i < k THEN f[i] ELSE IF i = PageCount THEN NULL ELSE f[i + 1]
  OBVIOUS
<1>8. g \in [0 .. PageCount -> Links]
  <2>1. ASSUME NEW i \in 0 .. PageCount
        PROVE  (IF i < k THEN f[i] ELSE IF i = PageCount THEN NULL ELSE f[i + 1]) \in Links
    <3>1. i = PageCount \/ i + 1 \in 0 .. PageCount
      BY <1>5
    <3> QED BY <1>4, <1>5, <3>1
  <2> QED BY <2>1
<1> HIDE DEF g
<1>9. g[0] = begin
  <2>1. 0 \in 0 .. PageCount /\ PageCount # 0 /\ (~ (0 < k) => k = 0) /\ (k # 0 => 0 < k)
    BY <1>1, <1>5
  <2>2. CASE k = 0
    <3>1. g[0] = f[0 + 1] /\ t = f[0 + 1]
      BY <1>7, <2>1, <2>2 DEF t
    <3> QED BY <1>2, <2>2, <3>1
  <2>3. CASE k # 0
    BY <1>2, <1>4, <1>7, <2>1, <2>3
  <2> QED BY <2>2, <2>3
<1>10. ASSUME NEW i \in 1 .. PageCount PROVE g[i] = new[g[i - 1]].next
  <2>1. i \in 0 .. PageCount /\ i - 1 \in 0 .. PageCount /\ i - 1 # PageCount /\ (i - 1) + 1 = i
    BY <1>5
  <2>2. f[i] = nodes[f[i - 1]].next
    BY <1>4
  <2>3. CASE i < k
    <3>1. g[i] = f[i] /\ g[i - 1] = f[i - 1] /\ i - 1 # k /\ i - 1 # k - 1
      BY <1>1, <1>7, <2>1, <2>3
    <3>2. CASE f[i - 1] = NULL
      BY <1>2, <1>4, <2>2, <3>1, <3>2
    <3>3. CASE f[i - 1] # NULL
      BY <1>6, <2>1, <2>2, <3>1, <3>3
    <3> QED BY <3>2, <3>3
  <2>4. CASE i = k
    <3>1. g[i - 1] = f[i - 1] /\ i # PageCount /\ ~ (i < k) /\ i - 1 # k
      BY <1>1, <1>7, <2>1, <2>4
    <3>2. g[i] = t
      BY <1>7, <2>1, <2>4, <3>1 DEF t
    <3>3. f[i - 1] # NULL
      BY <1>1, <1>5, <2>1, <2>4
    <3>4. new[f[i - 1]].next = t
      BY <1>6, <2>1, <2>4, <3>1, <3>3
    <3> QED BY <3>1, <3>2, <3>4
  <2>5. CASE i > k
    <3>1. g[i - 1] = f[i] /\ i # k /\ i # k - 1 /\ ~ (i < k)
      <4>1. ~ (i - 1 < k) /\ i # k /\ i # k - 1 /\ ~ (i < k)
        BY <1>1, <1>5, <2>5
      <4> QED BY <1>7, <2>1, <4>1
    <3>2. CASE i = PageCount
      BY <1>2, <1>3, <1>4, <1>7, <2>1, <3>1, <3>2
    <3>3. CASE i # PageCount
      <4>1. i + 1 \in 1 .. PageCount /\ (i + 1) - 1 = i
        BY <1>5, <3>3
      <4>2. g[i] = f[i + 1] /\ f[i + 1] = nodes[f[i]].next
        BY <1>4, <1>7, <2>1, <3>1, <3>3, <4>1
      <4>3. CASE f[i] = NULL
        BY <1>2, <1>4, <3>1, <4>2, <4>3
      <4>4. CASE f[i] # NULL
        BY <1>6, <2>1, <3>1, <4>2, <4>4
      <4> QED BY <4>3, <4>4
    <3> QED BY <3>2, <3>3
  <2> QED BY <1>1, <1>5, <2>3, <2>4, <2>5
(* Where the nodes of the new list were.                                     *)
<1> DEFINE old(i) == IF i < k THEN i ELSE i + 1
<1>11. ASSUME NEW i \in 0 .. PageCount, g[i] # NULL
       PROVE  old(i) \in 0 .. PageCount /\ old(i) # k /\ g[i] = f[old(i)]
  <2>1. CASE i < k
    BY <1>1, <1>7, <2>1
  <2>2. CASE ~ (i < k)
    <3>1. i # PageCount
      BY <1>7, <1>11, <2>2
    <3> QED BY <1>1, <1>5, <1>7, <2>2, <3>1
  <2> QED BY <2>1, <2>2
<1>12. ASSUME NEW i \in 0 .. PageCount, NEW j \in 0 .. PageCount, g[i] = g[j], g[i] # NULL
       PROVE  i = j
  <2>1. old(i) = old(j)
    BY <1>4, <1>11, <1>12
  <2> QED BY <1>1, <2>1
<1>13. ASSUME NEW i \in 0 .. PageCount, g[i] # NULL
       PROVE  new[g[i]].num_pages \in 1 .. PageCount - g[i] /\ new[g[i]].prev = NULL
  <2> HIDE DEF old
  <2> QED BY <1>4, <1>6, <1>11, <1>13
<1>14. GoodList(g, begin, new)
  <2>1. IsWalk(g, begin, new)
    BY <1>8, <1>9, <1>10 DEF IsWalk
  <2>2. begin \in Links
    BY <1>5, <1>8, <1>9
  <2> QED BY <1>2, <1>4, <1>12, <1>13, <2>1, <2>2 DEF GoodList
<1>15. \A x : x \in {g[i] : i \in 0 .. PageCount} \ {NULL} <=>
              x \in {f[i] : i \in 0 .. PageCount} \ {NULL} /\ x # f[k]
  <2>1. ASSUME NEW i \in 0 .. PageCount, g[i] # NULL
        PROVE  g[i] # f[k] /\ \E j \in 0 .. PageCount : g[i] = f[j]
    <3> HIDE DEF old
    <3> QED BY <1>4, <1>1, <1>5, <1>6, <1>11, <2>1
  <2>2. ASSUME NEW i \in 0 .. PageCount, f[i] # NULL, f[i] # f[k]
        PROVE  \E j \in 0 .. PageCount : f[i] = g[j]
    <3>1. CASE i < k
      BY <1>7, <3>1
    <3>2. CASE ~ (i < k)
      <4>1. i - 1 \in 0 .. PageCount /\ ~ (i - 1 < k) /\ i - 1 # PageCount /\ (i - 1) + 1 = i
        BY <1>1, <1>5, <2>2, <3>2
      <4>2. g[i - 1] = f[i]
        BY <1>7, <4>1
      <4> QED BY <4>1, <4>2
    <3> QED BY <3>1, <3>2
  <2> QED BY <2>1, <2>2
<1>16. ASSUME NEW x \in {f[i] : i \in 0 .. PageCount} \ {NULL}, x # f[k]
       PROVE  new[x].num_pages = nodes[x].num_pages
  BY <1>6, <1>16
<1>17. BlocksOf(g, new) = BlocksOf(f, nodes) \ {[base |-> f[k], num |-> n]}
  <2>1. ASSUME NEW b PROVE b \in BlocksOf(g, new) => b \in BlocksOf(f, nodes) \ {[base |-> f[k], num |-> n]}
    BY <1>15, <1>16 DEF BlocksOf
  <2>2. ASSUME NEW b \in BlocksOf(f, nodes), b # [base |-> f[k], num |-> n] PROVE b \in BlocksOf(g, new)
    <3>1. PICK x \in {f[i] : i \in 0 .. PageCount} \ {NULL} : b = [base |-> x, num |-> nodes[x].num_pages]
      BY DEF BlocksOf
    <3>2. x # f[k]
      BY <2>2, <3>1
    <3> QED BY <1>15, <1>16, <3>1, <3>2 DEF BlocksOf
  <2> QED BY <2>1, <2>2
<1> QED BY <1>14, <1>17 DEF Lists

(* The list after a block was cut: its rest is where it was.                 *)
LEMMA FrontTaken ==
  ASSUME NEW first, NEW nodes, NEW f, NEW k, NEW n, Takes(f, first, nodes, k, n),
         nodes[f[k]].num_pages > n,
         NEW new, new = TakenNodes(f, nodes, k, n),
         NEW begin, begin = TakenFirst(f, first, nodes, k, n)
  PROVE  Lists(begin, new,
               (BlocksOf(f, nodes) \ {[base |-> f[k], num |-> nodes[f[k]].num_pages]})
                 \cup {[base |-> f[k] + n, num |-> nodes[f[k]].num_pages - n]})
<1> DEFINE r == f[k] + n
           num == nodes[f[k]].num_pages
           g == [f EXCEPT ![k] = r]
<1>1. /\ f[k] \in Pages /\ k \in 0 .. PageCount - 1 /\ n \in Nat \ {0}
      /\ num \in 1 .. PageCount - f[k] /\ r \in Pages /\ r # f[k]
      /\ nodes[f[k]].next = f[k + 1]
      /\ k # 0 => f[k - 1] \in Pages /\ f[k - 1] # f[k]
  BY TakesFacts
<1>2. /\ r \in Links /\ new \in Nodes /\ new[NULL] = nodes[NULL]
      /\ begin = IF k = 0 THEN r ELSE first
      /\ \A x \in Links : x # f[k] /\ (k # 0 => x # f[k - 1]) /\ x # r => new[x] = nodes[x]
      /\ k # 0 => new[f[k - 1]] = [nodes[f[k - 1]] EXCEPT !.next = r]
      /\ new[r] = [num_pages |-> num - n, next |-> f[k + 1], prev |-> NULL]
  <2>1. r = Successor(nodes, f[k], n)
    BY DEF Successor
  <2>2. Places(f, first, nodes, k, n, new, r)
    BY <2>1, TakenPlaces
  <2> QED BY <2>2 DEF Places
<1>3. GoodList(f, first, nodes) /\ f[PageCount] = NULL /\ f[k] # NULL
  BY LastIsNull DEF Takes
<1>4. /\ f \in [0 .. PageCount -> Links] /\ f[0] = first
      /\ \A i \in 1 .. PageCount : f[i] = nodes[f[i - 1]].next
      /\ nodes \in Nodes /\ nodes[NULL].next = NULL
      /\ \A i, j \in 0 .. PageCount : f[i] = f[j] /\ f[i] # NULL => i = j
      /\ \A i \in 0 .. PageCount : f[i] # NULL =>
           nodes[f[i]].num_pages \in 1 .. PageCount - f[i] /\ nodes[f[i]].prev = NULL
  BY <1>3 DEF GoodList, IsWalk
<1>5. PageCount \in Nat \ {0} /\ NULL \in Links /\ NULL \notin Pages /\ Pages \subseteq Links
  BY PageFacts
<1>6. \A i \in 0 .. PageCount : f[i] # r
  BY DEF Takes
<1>7. num - n \in 1 .. PageCount - r /\ num - n \in Nat
  BY <1>1, <1>5 DEF Pages
<1>8. k \in 0 .. PageCount
  BY <1>1, <1>5
<1>9. /\ g \in [0 .. PageCount -> Links] /\ g[k] = r
      /\ \A i \in 0 .. PageCount : i # k => g[i] = f[i]
  BY <1>2, <1>4, <1>8
<1> HIDE DEF g, r, num
<1>10. ASSUME NEW i \in 0 .. PageCount, i # k, f[i] # NULL
       PROVE  /\ f[i] # f[k] /\ f[i] \in Links
              /\ new[f[i]].num_pages = nodes[f[i]].num_pages /\ new[f[i]].prev = NULL
              /\ new[f[i]].next = IF i = k - 1 THEN r ELSE nodes[f[i]].next
  <2>1. f[i] # f[k] /\ f[i] \in Links /\ nodes[f[i]].prev = NULL /\ f[i] # r
    BY <1>1, <1>4, <1>5, <1>6, <1>10
  <2>2. CASE i = k - 1
    <3>1. k # 0 /\ nodes[f[i]] \in [num_pages : Nat, next : Links, prev : Links]
      BY <1>1, <1>4, <1>5, <2>1, <2>2 DEF Nodes
    <3>2. new[f[i]] = [nodes[f[i]] EXCEPT !.next = r]
      BY <1>2, <2>2, <3>1
    <3> QED BY <2>1, <2>2, <3>1, <3>2
  <2>3. CASE i # k - 1
    <3>1. k # 0 => k - 1 \in 0 .. PageCount /\ f[k - 1] # f[i]
      BY <1>1, <1>4, <1>5, <1>10, <2>3
    <3>2. new[f[i]] = nodes[f[i]]
      BY <1>2, <2>1, <3>1
    <3> QED BY <2>1, <2>3, <3>2
  <2> QED BY <2>2, <2>3
<1>11. g[0] = begin
  <2>1. 0 \in 0 .. PageCount
    BY <1>5
  <2> QED BY <1>2, <1>4, <1>9, <2>1
<1>12. ASSUME NEW i \in 1 .. PageCount PROVE g[i] = new[g[i - 1]].next
  <2>1. i \in 0 .. PageCount /\ i - 1 \in 0 .. PageCount /\ i - 1 # i
    BY <1>5
  <2>2. f[i] = nodes[f[i - 1]].next
    BY <1>4
  <2>3. CASE i - 1 = k
    <3>1. g[i - 1] = r /\ i # k /\ k + 1 = i
      BY <1>1, <1>9, <2>1, <2>3
    <3> QED BY <1>2, <1>9, <2>1, <3>1
  <2>4. CASE i - 1 # k /\ f[i - 1] = NULL
    <3>1. i # k
      BY <1>1, <1>5, <2>1, <2>4
    <3> QED BY <1>2, <1>4, <1>9, <2>1, <2>2, <2>4, <3>1
  <2>5. CASE i - 1 # k /\ f[i - 1] # NULL
    <3>1. g[i - 1] = f[i - 1] /\ new[f[i - 1]].next = IF i - 1 = k - 1 THEN r ELSE nodes[f[i - 1]].next
      BY <1>9, <1>10, <2>1, <2>5
    <3>2. i - 1 = k - 1 <=> i = k
      BY <1>1, <2>1
    <3> QED BY <1>9, <2>1, <2>2, <3>1, <3>2
  <2> QED BY <2>3, <2>4, <2>5
<1>13. ASSUME NEW i \in 0 .. PageCount, NEW j \in 0 .. PageCount, g[i] = g[j], g[i] # NULL
       PROVE  i = j
  BY <1>4, <1>6, <1>9, <1>13
<1>14. ASSUME NEW i \in 0 .. PageCount, g[i] # NULL
       PROVE  new[g[i]].num_pages \in 1 .. PageCount - g[i] /\ new[g[i]].prev = NULL
  <2>1. CASE i = k
    BY <1>2, <1>7, <1>9, <2>1
  <2>2. CASE i # k
    BY <1>4, <1>9, <1>10, <1>14, <2>2
  <2> QED BY <2>1, <2>2
<1>15. GoodList(g, begin, new)
  <2>1. IsWalk(g, begin, new)
    BY <1>9, <1>11, <1>12 DEF IsWalk
  <2>2. begin \in Links
    BY <1>5, <1>9, <1>11
  <2> QED BY <1>2, <1>4, <1>13, <1>14, <2>1, <2>2 DEF GoodList
<1> DEFINE block == [base |-> f[k], num |-> num]
           rest == [base |-> r, num |-> num - n]
<1>16. ASSUME NEW b \in BlocksOf(g, new) PROVE b = rest \/ b \in BlocksOf(f, nodes) \ {block}
  <2>1. PICK i \in 0 .. PageCount : g[i] # NULL /\ b = [base |-> g[i], num |-> new[g[i]].num_pages]
    BY DEF BlocksOf
  <2>2. CASE i = k
    BY <1>2, <1>9, <2>1, <2>2
  <2>3. CASE i # k
    <3>1. g[i] = f[i] /\ f[i] # f[k] /\ new[f[i]].num_pages = nodes[f[i]].num_pages
      BY <1>9, <1>10, <2>1, <2>3
    <3>2. f[i] \in {f[j] : j \in 0 .. PageCount} \ {NULL}
      BY <2>1, <3>1
    <3> QED BY <2>1, <3>1, <3>2 DEF BlocksOf
  <2> QED BY <2>2, <2>3
<1>17. ASSUME NEW b \in BlocksOf(f, nodes), b # block PROVE b \in BlocksOf(g, new)
  <2>1. PICK i \in 0 .. PageCount : f[i] # NULL /\ b = [base |-> f[i], num |-> nodes[f[i]].num_pages]
    BY DEF BlocksOf
  <2>2. i # k
    BY <1>17, <2>1 DEF num
  <2>3. g[i] = f[i] /\ new[f[i]].num_pages = nodes[f[i]].num_pages
    BY <1>9, <1>10, <2>1, <2>2
  <2>4. f[i] \in {g[j] : j \in 0 .. PageCount} \ {NULL}
    BY <2>1, <2>3
  <2> QED BY <2>1, <2>3, <2>4 DEF BlocksOf
<1>18. rest \in BlocksOf(g, new)
  <2>1. r \in {g[j] : j \in 0 .. PageCount} \ {NULL} /\ new[r].num_pages = num - n
    BY <1>1, <1>2, <1>5, <1>8, <1>9
  <2> QED BY <2>1 DEF BlocksOf
<1>19. BlocksOf(g, new) = (BlocksOf(f, nodes) \ {block}) \cup {rest}
  BY <1>16, <1>17, <1>18
<1> QED BY <1>15, <1>19 DEF Lists, r, num

(* The list after a block was given back: it is the first.                   *)
LEMMA FrontFreed ==
  ASSUME NEW first, NEW nodes, NEW f, GoodList(f, first, nodes),
         NEW p \in Pages, NEW n \in 1 .. PageCount - p, \A i \in 0 .. PageCount : f[i] # p,
         NEW new, new = [nodes EXCEPT ![p] = [num_pages |-> n, next |-> first, prev |-> NULL]]
  PROVE  Lists(p, new, BlocksOf(f, nodes) \cup {[base |-> p, num |-> n]})
<1> DEFINE g == [i \in 0 .. PageCount |-> IF i = 0 THEN p ELSE f[i - 1]]
<1>1. /\ f \in [0 .. PageCount -> Links] /\ f[0] = first /\ first \in Links
      /\ \A i \in 1 .. PageCount : f[i] = nodes[f[i - 1]].next
      /\ nodes \in Nodes /\ nodes[NULL].next = NULL
      /\ \A i, j \in 0 .. PageCount : f[i] = f[j] /\ f[i] # NULL => i = j
      /\ \A i \in 0 .. PageCount : f[i] # NULL =>
           nodes[f[i]].num_pages \in 1 .. PageCount - f[i] /\ nodes[f[i]].prev = NULL
  BY DEF GoodList, IsWalk
<1>2. f[PageCount] = NULL
  BY LastIsNull
<1>3. PageCount \in Nat \ {0} /\ NULL \in Links /\ NULL \notin Pages /\ Pages \subseteq Links /\ p \in Links /\ p \in Nat
  BY PageFacts
<1>4. n \in Nat /\ [num_pages |-> n, next |-> first, prev |-> NULL] \in [num_pages : Nat, next : Links, prev : Links]
  BY <1>1, <1>3
<1>5. /\ new \in Nodes /\ new[p] = [num_pages |-> n, next |-> first, prev |-> NULL]
      /\ \A x \in Links : x # p => new[x] = nodes[x]
  BY <1>1, <1>3, <1>4 DEF Nodes
<1>6. ASSUME NEW i \in 1 .. PageCount PROVE i - 1 \in 0 .. PageCount /\ i \in 0 .. PageCount /\ i # 0
  BY <1>3
<1>7. /\ g \in [0 .. PageCount -> Links] /\ g[0] = p
      /\ \A i \in 1 .. PageCount : g[i] = f[i - 1]
  <2>1. ASSUME NEW i \in 0 .. PageCount PROVE (IF i = 0 THEN p ELSE f[i - 1]) \in Links
    <3>1. i = 0 \/ i - 1 \in 0 .. PageCount
      BY <1>3
    <3> QED BY <1>1, <1>3, <3>1
  <2>2. 0 \in 0 .. PageCount
    BY <1>3
  <2> QED BY <1>6, <2>1, <2>2
<1>8. \A i \in 0 .. PageCount : i = 0 \/ i \in 1 .. PageCount
  BY <1>3
<1> HIDE DEF g
<1>9. ASSUME NEW i \in 1 .. PageCount PROVE g[i] = new[g[i - 1]].next
  <2>1. CASE i = 1
    <3>1. g[i - 1] = p /\ g[i] = f[0]
      BY <1>7, <2>1
    <3> QED BY <1>1, <1>5, <3>1
  <2>2. CASE i # 1
    <3>1. i - 1 \in 1 .. PageCount /\ (i - 1) - 1 \in 0 .. PageCount
      BY <1>3, <2>2
    <3>2. g[i] = f[i - 1] /\ g[i - 1] = f[(i - 1) - 1] /\ f[i - 1] = nodes[f[(i - 1) - 1]].next
      BY <1>1, <1>7, <3>1
    <3>3. f[(i - 1) - 1] # p /\ f[(i - 1) - 1] \in Links
      BY <1>1, <3>1
    <3> QED BY <1>5, <3>2, <3>3
  <2> QED BY <2>1, <2>2
<1>10. ASSUME NEW i \in 0 .. PageCount, NEW j \in 0 .. PageCount, g[i] = g[j], g[i] # NULL
       PROVE  i = j
  <2>1. CASE i # 0 /\ j # 0
    <3>1. i - 1 \in 0 .. PageCount /\ j - 1 \in 0 .. PageCount /\ i \in 1 .. PageCount /\ j \in 1 .. PageCount
      BY <1>3, <2>1
    <3>2. f[i - 1] = f[j - 1] /\ f[i - 1] # NULL
      BY <1>7, <1>10, <3>1
    <3>3. i - 1 = j - 1
      BY <1>1, <3>1, <3>2
    <3> QED BY <3>1, <3>3
  <2>2. CASE i = 0 \/ j = 0
    BY <1>6, <1>7, <1>8, <1>10, <2>2
  <2> QED BY <2>1, <2>2
<1>11. ASSUME NEW i \in 0 .. PageCount, g[i] # NULL
       PROVE  new[g[i]].num_pages \in 1 .. PageCount - g[i] /\ new[g[i]].prev = NULL
  <2>1. CASE i = 0
    BY <1>5, <1>7, <2>1
  <2>2. CASE i # 0
    <3>1. i \in 1 .. PageCount /\ i - 1 \in 0 .. PageCount
      BY <1>6, <1>8, <2>2
    <3>2. g[i] = f[i - 1] /\ new[f[i - 1]] = nodes[f[i - 1]]
      BY <1>1, <1>5, <1>7, <3>1
    <3> QED BY <1>1, <1>11, <3>1, <3>2
  <2> QED BY <2>1, <2>2
<1>12. GoodList(g, p, new)
  <2>1. IsWalk(g, p, new)
    BY <1>7, <1>9 DEF IsWalk
  <2>2. new[NULL].next = NULL
    BY <1>1, <1>3, <1>5
  <2> QED BY <1>3, <1>5, <1>10, <1>11, <2>1, <2>2 DEF GoodList
<1> DEFINE block == [base |-> p, num |-> n]
<1>13. ASSUME NEW b \in BlocksOf(g, new) PROVE b = block \/ b \in BlocksOf(f, nodes)
  <2>1. PICK i \in 0 .. PageCount : g[i] # NULL /\ b = [base |-> g[i], num |-> new[g[i]].num_pages]
    BY DEF BlocksOf
  <2>2. CASE i = 0
    BY <1>5, <1>7, <2>1, <2>2
  <2>3. CASE i # 0
    <3>1. i \in 1 .. PageCount /\ i - 1 \in 0 .. PageCount
      BY <1>6, <1>8, <2>3
    <3>2. g[i] = f[i - 1] /\ new[f[i - 1]] = nodes[f[i - 1]]
      BY <1>1, <1>5, <1>7, <3>1
    <3>3. f[i - 1] \in {f[j] : j \in 0 .. PageCount} \ {NULL}
      BY <2>1, <3>1, <3>2
    <3> QED BY <2>1, <3>2, <3>3 DEF BlocksOf
  <2> QED BY <2>2, <2>3
<1>14. ASSUME NEW b \in BlocksOf(f, nodes) PROVE b \in BlocksOf(g, new)
  <2>1. PICK i \in 0 .. PageCount : f[i] # NULL /\ b = [base |-> f[i], num |-> nodes[f[i]].num_pages]
    BY DEF BlocksOf
  <2>2. i + 1 \in 1 .. PageCount /\ (i + 1) - 1 = i /\ i + 1 \in 0 .. PageCount
    BY <1>2, <1>3, <2>1
  <2>3. g[i + 1] = f[i] /\ new[f[i]] = nodes[f[i]]
    BY <1>1, <1>5, <1>7, <2>2
  <2>4. f[i] \in {g[j] : j \in 0 .. PageCount} \ {NULL}
    BY <2>1, <2>2, <2>3
  <2> QED BY <2>1, <2>3, <2>4 DEF BlocksOf
<1>15. block \in BlocksOf(g, new)
  <2>1. p \in {g[j] : j \in 0 .. PageCount} \ {NULL} /\ new[p].num_pages = n
    BY <1>3, <1>5, <1>7, PageFacts
  <2> QED BY <2>1 DEF BlocksOf
<1>16. BlocksOf(g, new) = BlocksOf(f, nodes) \cup {block}
  BY <1>13, <1>14, <1>15
<1> QED BY <1>12, <1>16 DEF Lists

(* The list before the heap is there, and at first.                          *)
LEMMA NoBlocks ==
  ASSUME NEW nodes, nodes = [p \in Links |-> Blank]
  PROVE  Lists(NULL, nodes, {})
<1> DEFINE f == [k \in 0 .. PageCount |-> NULL]
<1>1. PageCount \in Nat \ {0} /\ NULL \in Links
  BY PageFacts
<1>2. Blank \in [num_pages : Nat, next : Links, prev : Links] /\ Blank.next = NULL
  BY <1>1 DEF Blank
<1>3. nodes \in Nodes /\ nodes[NULL].next = NULL
  BY <1>1, <1>2 DEF Nodes
<1>4. f \in [0 .. PageCount -> Links] /\ \A k \in 0 .. PageCount : f[k] = NULL
  BY <1>1
<1>5. ASSUME NEW k \in 1 .. PageCount PROVE k - 1 \in 0 .. PageCount /\ k \in 0 .. PageCount
  BY <1>1
<1> HIDE DEF f
<1>6. IsWalk(f, NULL, nodes)
  BY <1>1, <1>3, <1>4, <1>5 DEF IsWalk
<1>7. GoodList(f, NULL, nodes)
  BY <1>1, <1>3, <1>4, <1>6 DEF GoodList
<1>8. BlocksOf(f, nodes) = {}
  BY <1>4 DEF BlocksOf
<1> QED BY <1>7, <1>8 DEF Lists

LEMMA FirstBlock ==
  ASSUME NEW nodes, nodes = [p \in Links |-> Blank], NEW h \in Pages,
         NEW new, new = [nodes EXCEPT ![h] = [Blank EXCEPT !.num_pages = PageCount - h]]
  PROVE  Lists(h, new, {[base |-> h, num |-> PageCount - h]})
<1>1. PICK f : GoodList(f, NULL, nodes) /\ BlocksOf(f, nodes) = {}
  BY NoBlocks DEF Lists
<1>2. \A i \in 0 .. PageCount : f[i] # h
  <2>1. ASSUME NEW i \in 0 .. PageCount, f[i] = h PROVE FALSE
    <3>1. h \in {f[k] : k \in 0 .. PageCount} \ {NULL}
      BY <2>1, PageFacts
    <3>2. [base |-> h, num |-> nodes[h].num_pages] \in BlocksOf(f, nodes)
      BY <3>1 DEF BlocksOf
    <3> QED BY <1>1, <3>2
  <2> QED BY <2>1
<1>3. PageCount - h \in 1 .. PageCount - h
  BY PageFacts DEF Pages
<1>4. new = [nodes EXCEPT ![h] = [num_pages |-> PageCount - h, next |-> NULL, prev |-> NULL]]
  <2>1. [Blank EXCEPT !.num_pages = PageCount - h] = [num_pages |-> PageCount - h, next |-> NULL, prev |-> NULL]
    BY DEF Blank
  <2> QED BY <2>1, Zenon
<1>5. Lists(h, new, BlocksOf(f, nodes) \cup {[base |-> h, num |-> PageCount - h]})
  BY <1>1, <1>2, <1>3, <1>4, FrontFreed
<1>6. BlocksOf(f, nodes) \cup {[base |-> h, num |-> PageCount - h]} = {[base |-> h, num |-> PageCount - h]}
  BY <1>1
<1> QED BY <1>5, <1>6

-----------------------------------------------------------------------------
(* Powers of two.                                                           *)
LEMMA ShiftedEquation ==
  /\ Shifted[0] = 1
  /\ \A n \in Nat \ {0} : Shifted[n] = 2 * Shifted[n - 1]
<1> DEFINE twice == [x \in Nat |-> 2 * x]
           walk(n) == CHOOSE f \in [0 .. n -> Nat] : Follows(f, n, 1, twice)
           F == [n \in Nat |-> walk(n)[n]]
<1>1. ASSUME NEW n \in Nat
      PROVE  walk(n) \in [0 .. n -> Nat] /\ Follows(walk(n), n, 1, twice)
  <2>1. twice \in [Nat -> Nat] /\ 1 \in Nat
    OBVIOUS
  <2> HIDE DEF twice
  <2>2. \E f \in [0 .. n -> Nat] : Follows(f, n, 1, twice)
    BY <2>1, WalkExists
  <2> QED BY <2>2, Zenon
<1> HIDE DEF walk
<1>2. F[0] = 1
  BY <1>1 DEF Follows
<1>3. ASSUME NEW n \in Nat \ {0} PROVE F[n] = 2 * F[n - 1]
  <2>1. n - 1 \in Nat /\ n \in Nat /\ n \in 1 .. n /\ n - 1 \in 0 .. n /\ n - 1 \in 0 .. n - 1
    OBVIOUS
  <2>2. /\ Follows(walk(n), n, 1, twice) /\ Follows(walk(n - 1), n - 1, 1, twice)
        /\ walk(n) \in [0 .. n -> Nat]
    BY <1>1, <2>1
  <2>3. walk(n)[0] = walk(n - 1)[0]
    BY <2>2 DEF Follows
  <2>4. ASSUME NEW k \in 1 .. n - 1, walk(n)[k - 1] = walk(n - 1)[k - 1]
        PROVE  walk(n)[k] = walk(n - 1)[k]
    <3>1. k \in 1 .. n
      OBVIOUS
    <3> HIDE DEF twice
    <3> QED BY <2>2, <2>4, <3>1 DEF Follows
  <2>5. \A k \in 0 .. n - 1 : walk(n)[k] = walk(n - 1)[k]
    <3> HIDE DEF twice, F
    <3>1. GoAlike(walk(n), walk(n - 1), n - 1)
      BY <2>3, <2>4, Zenon DEF GoAlike
    <3> QED BY <2>1, <3>1, SameWalk
  <2>6. walk(n)[n] = twice[walk(n)[n - 1]]
    <3> HIDE DEF twice
    <3> QED BY <2>1, <2>2 DEF Follows
  <2>7. walk(n)[n - 1] \in Nat
    BY <2>1, <2>2
  <2> QED BY <2>1, <2>5, <2>6, <2>7
<1>4. F = [n \in Nat |-> IF n = 0 THEN 1 ELSE 2 * F[n - 1]]
  <2>1. ASSUME NEW n \in Nat PROVE F[n] = IF n = 0 THEN 1 ELSE 2 * F[n - 1]
    BY <1>2, <1>3
  <2>2. F = [n \in Nat |-> F[n]]
    OBVIOUS
  <2> HIDE DEF F
  <2> QED BY <2>1, <2>2
<1> HIDE DEF F
<1>5. Shifted = [n \in Nat |-> IF n = 0 THEN 1 ELSE 2 * Shifted[n - 1]]
  BY <1>4, Zenon DEF Shifted
<1> QED BY <1>5

LEMMA ShiftedGrows ==
  /\ \A n \in Nat : Shifted[n] \in Nat \ {0}
  /\ \A m, n \in Nat : m <= n => Shifted[m] <= Shifted[n]
<1> DEFINE bad == {n \in Nat : Shifted[n] \notin Nat \ {0}}
<1>1. bad = {}
  <2> SUFFICES ASSUME bad # {} PROVE FALSE
    OBVIOUS
  <2>1. Min(bad) \in bad /\ \A i \in bad : Min(bad) <= i
    <3>1. bad \in SUBSET Nat
      OBVIOUS
    <3> HIDE DEF bad
    <3> QED BY <3>1, LeastElement
  <2>2. PICK n \in Nat : n \in bad /\ \A i \in bad : n <= i
    BY <2>1
  <2>3. n # 0
    BY <2>2, ShiftedEquation
  <2>4. n - 1 \in Nat /\ ~ (n <= n - 1)
    BY <2>3
  <2>5. Shifted[n - 1] \in Nat \ {0}
    BY <2>2, <2>4
  <2>6. Shifted[n] = 2 * Shifted[n - 1]
    BY <2>3, ShiftedEquation
  <2> QED BY <2>2, <2>5, <2>6
<1>2. \A n \in Nat : Shifted[n] \in Nat \ {0}
  BY <1>1
<1>3. ASSUME NEW m \in Nat, NEW n \in Nat, m <= n PROVE Shifted[m] <= Shifted[n]
  <2> DEFINE less == {i \in Nat : m <= i /\ ~ (Shifted[m] <= Shifted[i])}
  <2> SUFFICES ASSUME less # {} PROVE FALSE
    BY <1>3
  <2>1. Min(less) \in less /\ \A i \in less : Min(less) <= i
    <3>1. less \in SUBSET Nat
      OBVIOUS
    <3> HIDE DEF less
    <3> QED BY <3>1, LeastElement
  <2>2. PICK j \in Nat : j \in less /\ \A i \in less : j <= i
    BY <2>1
  <2>3. j # m /\ m <= j
    BY <1>2, <2>2
  <2>4. j - 1 \in Nat /\ m <= j - 1 /\ ~ (j <= j - 1) /\ j \in Nat \ {0}
    BY <2>3
  <2>5. Shifted[m] <= Shifted[j - 1]
    BY <2>2, <2>4
  <2>6. Shifted[j] = 2 * Shifted[j - 1]
    BY <2>4, ShiftedEquation
  <2>7. Shifted[j - 1] \in Nat /\ Shifted[m] \in Nat
    BY <1>2, <2>4
  <2> QED BY <2>2, <2>5, <2>6, <2>7
<1> QED BY <1>2, <1>3

-----------------------------------------------------------------------------
(* Blocks: taking one, or the front of one, out of the free ones, and       *)
(* giving one, or the front of one, back.                                   *)
HeapBlocks(h) == {b \in [base : Pages, num : Nat \ {0}] : h <= b.base /\ b.base + b.num <= PageCount}

Disjoint(B) == \A b, c \in B : b # c => PagesOf(b) \cap PagesOf(c) = {}

Covered(B) == UNION {PagesOf(b) : b \in B}

(* The free blocks, those of clients and the segments of programs.          *)
Separate(h, F, T, R) ==
  /\ F \subseteq HeapBlocks(h) /\ T \subseteq HeapBlocks(h) /\ R \subseteq HeapBlocks(h)
  /\ Disjoint(F \cup T \cup R)
  /\ F \cap (T \cup R) = {} /\ T \cap R = {}

LEMMA HeapBlockFacts ==
  ASSUME NEW h \in Nat, NEW b \in HeapBlocks(h)
  PROVE  /\ b.base \in Nat /\ b.num \in Nat \ {0} /\ b.base \in Pages
         /\ b = [base |-> b.base, num |-> b.num]
         /\ h <= b.base /\ b.base + b.num <= PageCount
         /\ b.base \in PagesOf(b)
         /\ PagesOf(b) \subseteq h .. PageCount - 1
BY PageFacts DEF HeapBlocks, PagesOf, Pages

LEMMA Before ==
  ASSUME NEW h \in Nat, NEW b \in HeapBlocks(h), NEW c \in HeapBlocks(h), PagesOf(b) \cap PagesOf(c) = {}
  PROVE  b.base + b.num <= c.base \/ c.base + c.num <= b.base
<1>1. /\ b.base \in Nat /\ b.num \in Nat \ {0}
      /\ c.base \in Nat /\ c.num \in Nat \ {0}
  BY HeapBlockFacts
<1>2. SUFFICES ASSUME b.base + b.num > c.base, c.base + c.num > b.base PROVE FALSE
  BY <1>1
<1>3. CASE b.base <= c.base
  <2>1. c.base \in PagesOf(b) /\ c.base \in PagesOf(c)
    BY <1>1, <1>2, <1>3 DEF PagesOf
  <2> QED BY <2>1
<1>4. CASE c.base <= b.base
  <2>1. b.base \in PagesOf(b) /\ b.base \in PagesOf(c)
    BY <1>1, <1>2, <1>4 DEF PagesOf
  <2> QED BY <2>1
<1> QED BY <1>1, <1>3, <1>4

(* The front of a free block of b.num pages is taken, the rest stays.       *)
RestOf(b, n) == IF b.num = n THEN {} ELSE {[base |-> b.base + n, num |-> b.num - n]}

FrontOf(b, n) == [base |-> b.base, num |-> n]

LEMMA SplitPages ==
  ASSUME NEW h \in Nat, NEW b \in HeapBlocks(h), NEW n \in 1 .. b.num
  PROVE  /\ FrontOf(b, n) \in HeapBlocks(h) /\ RestOf(b, n) \subseteq HeapBlocks(h)
         /\ PagesOf(FrontOf(b, n)) \cup Covered(RestOf(b, n)) = PagesOf(b)
         /\ \A c \in RestOf(b, n) : PagesOf(c) \subseteq PagesOf(b)
                                    /\ PagesOf(c) \cap PagesOf(FrontOf(b, n)) = {}
<1>1. /\ b.base \in Nat /\ b.num \in Nat \ {0} /\ b.base \in Pages
      /\ h <= b.base /\ b.base + b.num <= PageCount
  BY HeapBlockFacts
<1>2. FrontOf(b, n) \in HeapBlocks(h) /\ PagesOf(FrontOf(b, n)) = b.base .. b.base + n - 1
  <2> DEFINE c == [base |-> b.base, num |-> n]
  <2>1. c.base \in Pages /\ c.num \in Nat \ {0} /\ h <= c.base /\ c.base + c.num <= PageCount
    BY <1>1, PageFacts DEF Pages
  <2>2. c \in HeapBlocks(h)
    BY <2>1 DEF HeapBlocks
  <2> QED BY <1>1, <2>2 DEF FrontOf, PagesOf
<1>3. CASE b.num = n
  <2>1. RestOf(b, n) = {} /\ Covered(RestOf(b, n)) = {}
    BY <1>3 DEF RestOf, Covered
  <2> QED BY <1>2, <1>3, <2>1 DEF PagesOf
<1>4. CASE b.num # n
  <2> DEFINE c == [base |-> b.base + n, num |-> b.num - n]
  <2>1. RestOf(b, n) = {c} /\ Covered(RestOf(b, n)) = PagesOf(c)
    BY <1>4 DEF RestOf, Covered
  <2>2. c.base \in Pages /\ c.num \in Nat \ {0} /\ h <= c.base /\ c.base + c.num <= PageCount
    BY <1>1, <1>4, PageFacts DEF Pages
  <2>3. c \in HeapBlocks(h)
    BY <2>2 DEF HeapBlocks
  <2>4. PagesOf(c) = b.base + n .. b.base + b.num - 1
    BY <1>1 DEF PagesOf
  <2>5. PagesOf(b) = b.base .. b.base + b.num - 1
    BY DEF PagesOf
  <2>6. /\ \A x : x \in PagesOf(c) => x \in PagesOf(b) /\ x \notin PagesOf(FrontOf(b, n))
        /\ PagesOf(FrontOf(b, n)) \cup PagesOf(c) = PagesOf(b)
    <3> DEFINE first == b.base
               all == b.num
    <3>1. first \in Nat /\ all \in Nat /\ n \in Nat /\ 1 <= n /\ n <= all
      BY <1>1
    <3>2. /\ PagesOf(FrontOf(b, n)) = first .. first + n - 1 /\ PagesOf(c) = first + n .. first + all - 1
          /\ PagesOf(b) = first .. first + all - 1
      BY <1>2, <2>4, <2>5
    <3> HIDE DEF first, all, c
    <3>3. \A x \in Int : /\ x \in first + n .. first + all - 1 => x \in first .. first + all - 1
                         /\ x \in first + n .. first + all - 1 => x \notin first .. first + n - 1
      BY ONLY <3>1
    <3>4. (first .. first + n - 1) \cup (first + n .. first + all - 1) = first .. first + all - 1
      BY ONLY <3>1
    <3>5. \A x : x \in first + n .. first + all - 1 => x \in Int
      BY ONLY <3>1
    <3> QED BY ONLY <3>2, <3>3, <3>4, <3>5
  <2> HIDE DEF c
  <2> QED BY <1>2, <2>1, <2>3, <2>6
<1> QED BY <1>3, <1>4

(* What taking n pages from a free block keeps, for a client or a program.  *)
Taking(h, F, T, R, b, n) ==
  LET G == (F \ {b}) \cup RestOf(b, n) IN
  /\ Separate(h, G, T \cup {FrontOf(b, n)}, R) /\ Separate(h, G, T, R \cup {FrontOf(b, n)})
  /\ Covered(G \cup T \cup R \cup {FrontOf(b, n)}) = Covered(F \cup T \cup R)
  /\ FrontOf(b, n) \notin T \cup R

LEMMA TakingKeeps ==
  ASSUME NEW h \in Nat, NEW F, NEW T, NEW R, Separate(h, F, T, R),
         NEW b \in F, NEW n \in 1 .. b.num
  PROVE  Taking(h, F, T, R, b, n)
<1> DEFINE G == (F \ {b}) \cup RestOf(b, n)
           c == FrontOf(b, n)
           U == F \cup T \cup R
<1>1. /\ b \in HeapBlocks(h) /\ U \subseteq HeapBlocks(h) /\ b \in U
      /\ \A x, y \in U : x # y => PagesOf(x) \cap PagesOf(y) = {}
      /\ F \cap (T \cup R) = {} /\ T \cap R = {}
  BY DEF Separate, Disjoint
<1>2. /\ c \in HeapBlocks(h) /\ RestOf(b, n) \subseteq HeapBlocks(h)
      /\ PagesOf(c) \cup Covered(RestOf(b, n)) = PagesOf(b)
      /\ PagesOf(c) \subseteq PagesOf(b)
      /\ \A x \in RestOf(b, n) : PagesOf(x) \subseteq PagesOf(b) /\ PagesOf(x) \cap PagesOf(c) = {}
  <2>1. /\ c \in HeapBlocks(h) /\ RestOf(b, n) \subseteq HeapBlocks(h)
        /\ PagesOf(c) \cup Covered(RestOf(b, n)) = PagesOf(b)
        /\ \A x \in RestOf(b, n) : PagesOf(x) \subseteq PagesOf(b) /\ PagesOf(x) \cap PagesOf(c) = {}
    BY <1>1, SplitPages
  <2> QED BY <2>1
<1>3. ASSUME NEW x \in HeapBlocks(h) PROVE PagesOf(x) # {}
  BY HeapBlockFacts
<1> HIDE DEF c
(* What is as the block was, and not one of the others, is no other.        *)
<1>4. ASSUME NEW x \in RestOf(b, n) \cup {c}, NEW y \in U \ {b}
      PROVE  x # y /\ PagesOf(x) \cap PagesOf(y) = {}
  <2>1. PagesOf(x) \subseteq PagesOf(b) /\ PagesOf(b) \cap PagesOf(y) = {}
    BY <1>1, <1>2
  <2>2. PagesOf(x) # {}
    BY <1>2, <1>3
  <2> QED BY <2>1, <2>2
<1>5. ASSUME NEW x \in RestOf(b, n) PROVE x # c /\ PagesOf(x) \cap PagesOf(c) = {}
  BY <1>2, <1>3
<1>6. b \notin T \cup R
  BY <1>1
<1>7. G \cap (T \cup R) = {} /\ c \notin G \cup T \cup R
  <2>1. T \cup R \subseteq U \ {b} /\ F \ {b} \subseteq U \ {b}
    BY <1>6
  <2>2. \A y \in U \ {b} : c # y /\ y \notin RestOf(b, n)
    BY <1>4
  <2>3. c \notin RestOf(b, n)
    BY <1>5
  <2> QED BY <1>1, <2>1, <2>2, <2>3
<1>8. Disjoint(G \cup T \cup R \cup {c})
  <2> SUFFICES ASSUME NEW x \in (U \ {b}) \cup RestOf(b, n) \cup {c}, NEW y \in (U \ {b}) \cup RestOf(b, n) \cup {c},
                      x # y
               PROVE  PagesOf(x) \cap PagesOf(y) = {}
    BY <1>6 DEF Disjoint
  <2>1. CASE x \in U \ {b} /\ y \in U \ {b}
    BY <1>1, <2>1
  <2>2. CASE x \in U \ {b} /\ y \notin U \ {b}
    BY <1>4, <2>2
  <2>3. CASE x \notin U \ {b} /\ y \in U \ {b}
    BY <1>4, <2>3
  <2>4. CASE x \notin U \ {b} /\ y \notin U \ {b}
    <3>1. \A u, v \in RestOf(b, n) : u = v
      BY DEF RestOf
    <3> QED BY <1>5, <2>4, <3>1
  <2> QED BY <2>1, <2>2, <2>3, <2>4
<1>9. G \subseteq HeapBlocks(h) /\ T \cup {c} \subseteq HeapBlocks(h) /\ R \cup {c} \subseteq HeapBlocks(h)
      /\ T \subseteq HeapBlocks(h) /\ R \subseteq HeapBlocks(h)
  BY <1>1, <1>2
<1>10. /\ G \cup (T \cup {c}) \cup R = G \cup T \cup R \cup {c}
       /\ G \cup T \cup (R \cup {c}) = G \cup T \cup R \cup {c}
  OBVIOUS
<1>11. Separate(h, G, T \cup {c}, R)
  BY <1>1, <1>7, <1>8, <1>9, <1>10 DEF Separate
<1>12. Separate(h, G, T, R \cup {c})
  BY <1>1, <1>7, <1>8, <1>9, <1>10 DEF Separate
<1>13. Covered(G \cup T \cup R \cup {c}) = Covered(F \cup T \cup R)
  <2>1. ASSUME NEW a PROVE a \in Covered(G \cup T \cup R \cup {c}) => a \in Covered(U)
    <3>1. SUFFICES ASSUME NEW x \in G \cup T \cup R \cup {c}, a \in PagesOf(x) PROVE a \in Covered(U)
      BY DEF Covered
    <3>2. CASE x \in U
      BY <3>1, <3>2 DEF Covered
    <3>3. CASE x \in RestOf(b, n) \cup {c}
      BY <1>1, <1>2, <3>1, <3>3 DEF Covered
    <3> QED BY <3>2, <3>3
  <2>2. ASSUME NEW a PROVE a \in Covered(U) => a \in Covered(G \cup T \cup R \cup {c})
    <3>1. SUFFICES ASSUME NEW x \in U, a \in PagesOf(x) PROVE a \in Covered(G \cup T \cup R \cup {c})
      BY DEF Covered
    <3>2. CASE x # b
      BY <3>1, <3>2 DEF Covered
    <3>3. CASE x = b
      BY <1>2, <3>1, <3>3 DEF Covered
    <3> QED BY <3>2, <3>3
  <2> QED BY <2>1, <2>2
<1> QED BY <1>7, <1>11, <1>12, <1>13 DEF Taking, c

LEMMA GivingKeeps ==
  ASSUME NEW h \in Nat, NEW F, NEW T, NEW R, Separate(h, F, T, R),
         NEW b \in T, NEW n \in 1 .. b.num
  PROVE  /\ Separate(h, F \cup {FrontOf(b, n)}, T \ {b}, R)
         /\ Covered(F \cup {FrontOf(b, n)} \cup (T \ {b}) \cup R) = Covered(F \cup T \cup R) \ Covered(RestOf(b, n))
         /\ Covered(RestOf(b, n)) \subseteq Covered(F \cup T \cup R)
<1> DEFINE c == FrontOf(b, n)
           U == F \cup T \cup R
           V == F \cup {c} \cup (T \ {b}) \cup R
<1>1. /\ b \in HeapBlocks(h) /\ U \subseteq HeapBlocks(h) /\ b \in U
      /\ \A x, y \in U : x # y => PagesOf(x) \cap PagesOf(y) = {}
      /\ F \cap (T \cup R) = {} /\ T \cap R = {}
      /\ F \subseteq HeapBlocks(h) /\ T \subseteq HeapBlocks(h) /\ R \subseteq HeapBlocks(h)
  BY DEF Separate, Disjoint
<1>2. /\ c \in HeapBlocks(h)
      /\ PagesOf(c) \cup Covered(RestOf(b, n)) = PagesOf(b)
      /\ PagesOf(c) \subseteq PagesOf(b)
      /\ Covered(RestOf(b, n)) \cap PagesOf(c) = {}
  <2>1. /\ c \in HeapBlocks(h)
        /\ PagesOf(c) \cup Covered(RestOf(b, n)) = PagesOf(b)
        /\ \A x \in RestOf(b, n) : PagesOf(x) \cap PagesOf(c) = {}
    BY <1>1, SplitPages
  <2> QED BY <2>1 DEF Covered
<1>3. PagesOf(c) # {}
  BY <1>2, HeapBlockFacts
<1> HIDE DEF c
<1>4. ASSUME NEW y \in U \ {b} PROVE c # y /\ PagesOf(c) \cap PagesOf(y) = {}
  BY <1>1, <1>2, <1>3
<1>5. V = (U \ {b}) \cup {c}
  BY <1>1
<1>6. Disjoint(V)
  BY <1>1, <1>4, <1>5 DEF Disjoint
<1>7. c \notin (T \ {b}) \cup R
  BY <1>1, <1>4
<1>8. Separate(h, F \cup {c}, T \ {b}, R)
  BY <1>1, <1>2, <1>6, <1>7 DEF Separate
<1>9. Covered(V) = Covered(U) \ Covered(RestOf(b, n))
  <2>1. ASSUME NEW a PROVE a \in Covered(V) => a \in Covered(U) /\ a \notin Covered(RestOf(b, n))
    <3>1. SUFFICES ASSUME NEW x \in V, a \in PagesOf(x) PROVE a \in Covered(U) /\ a \notin Covered(RestOf(b, n))
      BY DEF Covered
    <3>2. CASE x = c
      BY <1>1, <1>2, <3>1, <3>2 DEF Covered
    <3>3. CASE x # c
      <4>1. x \in U \ {b} /\ PagesOf(b) \cap PagesOf(x) = {}
        BY <1>1, <1>5, <3>3
      <4> QED BY <1>2, <3>1, <4>1 DEF Covered
    <3> QED BY <3>2, <3>3
  <2>2. ASSUME NEW a, a \notin Covered(RestOf(b, n)) PROVE a \in Covered(U) => a \in Covered(V)
    <3>1. SUFFICES ASSUME NEW x \in U, a \in PagesOf(x) PROVE a \in Covered(V)
      BY DEF Covered
    <3>2. CASE x # b
      BY <1>5, <3>1, <3>2 DEF Covered
    <3>3. CASE x = b
      BY <1>2, <1>5, <2>2, <3>1, <3>3 DEF Covered
    <3> QED BY <3>2, <3>3
  <2> QED BY <2>1, <2>2
<1>10. Covered(RestOf(b, n)) \subseteq Covered(U)
  BY <1>1, <1>2 DEF Covered
<1> QED BY <1>8, <1>9, <1>10 DEF c

(* The pages of blocks in the heap can be counted.                           *)
LEMMA Countable ==
  ASSUME NEW h \in Pages, NEW B, B \subseteq HeapBlocks(h)
  PROVE  /\ Covered(B) \subseteq h .. PageCount - 1 /\ IsFiniteSet(Covered(B))
         /\ Cardinality(Covered(B)) \in 0 .. PageCount - h
<1>1. h \in Nat /\ h \in Int /\ PageCount - 1 \in Int /\ h <= PageCount - 1 /\ PageCount \in Nat
  BY PageFacts DEF Pages
<1>2. Covered(B) \subseteq h .. PageCount - 1
  BY <1>1, HeapBlockFacts DEF Covered
<1>3. IsFiniteSet(h .. PageCount - 1) /\ Cardinality(h .. PageCount - 1) = PageCount - h
  BY <1>1, FS_Interval
<1>4. IsFiniteSet(Covered(B)) /\ Cardinality(Covered(B)) <= Cardinality(h .. PageCount - 1)
  BY <1>2, <1>3, FS_Subset
<1>5. Cardinality(Covered(B)) \in Nat
  BY <1>4, FS_CardinalityType
<1> QED BY <1>1, <1>2, <1>3, <1>4, <1>5

LEMMA RestCounted ==
  ASSUME NEW h \in Pages, NEW b \in HeapBlocks(h), NEW n \in 1 .. b.num
  PROVE  Cardinality(Covered(RestOf(b, n))) = b.num - n
<1>1. b.base \in Nat /\ b.num \in Nat \ {0} /\ h \in Nat
  BY PageFacts, HeapBlockFacts
<1>2. CASE b.num = n
  <2>1. Covered(RestOf(b, n)) = {}
    BY <1>2 DEF RestOf, Covered
  <2> QED BY <1>1, <1>2, <2>1, FS_EmptySet
<1>3. CASE b.num # n
  <2>1. Covered(RestOf(b, n)) = b.base + n .. b.base + n + (b.num - n) - 1
    BY <1>3 DEF RestOf, Covered, PagesOf
  <2>2. /\ b.base + n \in Int /\ b.base + n + (b.num - n) - 1 \in Int
        /\ b.base + n <= b.base + n + (b.num - n) - 1
    BY <1>1, <1>3
  <2>3. Cardinality(b.base + n .. b.base + n + (b.num - n) - 1) =
          (b.base + n + (b.num - n) - 1) - (b.base + n) + 1
    BY <2>2, FS_Interval
  <2> QED BY <1>1, <2>1, <2>3
<1> QED BY <1>2, <1>3

-----------------------------------------------------------------------------
(* The memory of the root task: before it is set up, and from then on.      *)
Uninitialised ==
  /\ first_free_item = NULL /\ node = [p \in Links |-> Blank]
  /\ told = {} /\ resident = {} /\ stranded = 0 /\ asked = 0

Accounts ==
  /\ Separate(heap_start, FreeBlocks, Taken, resident)
  /\ \A q, r \in told : Region(q) = Region(r) => q = r
  /\ stranded + Cardinality(Covered(Blocks)) = PageCount - heap_start

PageInv ==
  /\ heap_start \in Links /\ base \in Links /\ asked \in Nat /\ stranded \in Nat
  /\ told \subseteq [base : Pages, s : IpcSizes]
  /\ GoodList(Node, first_free_item, node)
  /\ heap_start = NULL => Uninitialised
  /\ heap_start # NULL => Accounts

LEMMA ListedNext ==
  ASSUME NEW blocks, Lists(first_free_item', node', blocks)
  PROVE  GoodList(Node, first_free_item, node)' /\ FreeBlocks' = blocks
<1>1. PICK f : GoodList(f, first_free_item', node') /\ BlocksOf(f, node') = blocks
  BY DEF Lists
<1>2. first_free_item' \in Links /\ node' \in Nodes /\ IsWalk(f, first_free_item', node')
  BY <1>1 DEF GoodList
<1>3. Node' = f
  <2>1. IsWalk(Node', first_free_item', node')
    BY <1>2, NextNodeWalks
  <2> QED BY <1>2, <2>1, OneWalk
<1>4. GoodList(Node', first_free_item', node')
  BY <1>1, <1>3
<1>5. FreeBlocks' = BlocksOf(Node', node')
  BY DEF FreeBlocks, FreeNodes, BlocksOf
<1> QED BY <1>1, <1>3, <1>4, <1>5

LEMMA ListedNow ==
  ASSUME GoodList(Node, first_free_item, node)
  PROVE  /\ FreeBlocks = BlocksOf(Node, node)
         /\ Lists(first_free_item, node, FreeBlocks)
         /\ \A i \in 0 .. PageCount : Node[i] # NULL =>
              [base |-> Node[i], num |-> node[Node[i]].num_pages] \in FreeBlocks
         /\ \A b \in FreeBlocks : \E i \in 0 .. PageCount :
              Node[i] # NULL /\ b = [base |-> Node[i], num |-> node[Node[i]].num_pages]
<1>1. FreeBlocks = BlocksOf(Node, node)
  BY DEF FreeBlocks, FreeNodes, BlocksOf
<1>2. Lists(first_free_item, node, FreeBlocks)
  BY <1>1 DEF Lists
<1>3. ASSUME NEW i \in 0 .. PageCount, Node[i] # NULL
      PROVE  [base |-> Node[i], num |-> node[Node[i]].num_pages] \in FreeBlocks
  <2>1. Node[i] \in {Node[k] : k \in 0 .. PageCount} \ {NULL}
    BY <1>3
  <2> QED BY <2>1 DEF FreeBlocks, FreeNodes
<1>4. ASSUME NEW b \in FreeBlocks
      PROVE  \E i \in 0 .. PageCount : Node[i] # NULL /\ b = [base |-> Node[i], num |-> node[Node[i]].num_pages]
  BY DEF FreeBlocks, FreeNodes
<1> QED BY <1>1, <1>2, <1>3, <1>4

(* linked_list_alloc_pages takes the front of a free block, or there is none *)
(* that is large enough.                                                    *)
LEMMA Allocated ==
  ASSUME PageInv, heap_start # NULL, NEW n \in Nat \ {0}, linked_list_alloc_pages(n)
  PROVE  /\ asked' = n /\ heap_start' = heap_start /\ GoodList(Node, first_free_item, node)'
         /\ \/ base' = NULL /\ FreeBlocks' = FreeBlocks /\ \A b \in FreeBlocks : b.num < n
            \/ \E b \in FreeBlocks : /\ b.num >= n /\ base' = b.base
                                     /\ FreeBlocks' = (FreeBlocks \ {b}) \cup RestOf(b, n)
<1> DEFINE large == {i \in 0 .. PageCount : Node[i] # NULL /\ LargeEnough(Node[i], n)}
           k == Min(large)
           out == Unlinked(CutAt(node, Node[k], n), Node[k])
<1>1. GoodList(Node, first_free_item, node) /\ Separate(heap_start, FreeBlocks, Taken, resident)
      /\ heap_start \in Nat
  BY PageFacts DEF PageInv, Accounts
<1>2. asked' = n /\ heap_start' = heap_start
  BY DEF linked_list_alloc_pages
<1>3. CASE large = {}
  <2>1. base' = NULL /\ first_free_item' = first_free_item /\ node' = node
    BY <1>3, Zenon DEF linked_list_alloc_pages
  <2>2. Lists(first_free_item', node', FreeBlocks)
    BY <1>1, <2>1, ListedNow
  <2>3. GoodList(Node, first_free_item, node)' /\ FreeBlocks' = FreeBlocks
    BY <2>2, ListedNext
  <2>4. ASSUME NEW b \in FreeBlocks PROVE b.num < n
    <3>1. PICK i \in 0 .. PageCount : Node[i] # NULL /\ b = [base |-> Node[i], num |-> node[Node[i]].num_pages]
      BY <1>1, ListedNow
    <3>2. ~ (node[Node[i]].num_pages >= n)
      BY <1>3, <3>1 DEF LargeEnough
    <3>3. node[Node[i]].num_pages \in Nat
      BY <1>1, <3>1, PageFacts DEF GoodList, IsWalk
    <3> QED BY <3>1, <3>2, <3>3
  <2> QED BY <1>2, <2>1, <2>3, <2>4
<1>4. CASE large # {}
  <2>1. k \in 0 .. PageCount /\ Node[k] # NULL /\ node[Node[k]].num_pages >= n
    <3>1. large \in SUBSET Nat
      OBVIOUS
    <3>2. k \in large
      <4> HIDE DEF large
      <4> QED BY <1>4, <3>1, LeastElement
    <3> QED BY <3>2 DEF LargeEnough
  <2> DEFINE b == [base |-> Node[k], num |-> node[Node[k]].num_pages]
             pred == IF k = 0 THEN NULL ELSE Node[k - 1]
  <2>2. b \in FreeBlocks /\ b \in HeapBlocks(heap_start)
    <3> HIDE DEF k
    <3>1. b \in FreeBlocks
      BY <1>1, <2>1, ListedNow
    <3> QED BY <1>1, <3>1 DEF Separate
  <2>3. /\ base' = Node[k]
        /\ IF pred = NULL
           THEN first_free_item' = out[Node[k]].next /\ node' = [out EXCEPT ![Node[k]] = Blank]
           ELSE /\ node' = [out EXCEPT ![pred].next = out[out[pred].next].next, ![Node[k]] = Blank]
                /\ first_free_item' = first_free_item
    BY <1>4, <2>1, Zenon DEF linked_list_alloc_pages, CutAt
  <2> HIDE DEF k
  <2>4. n \in 1 .. b.num /\ n \in 1 .. node[Node[k]].num_pages
    BY <1>1, <2>1, <2>2, HeapBlockFacts
  <2>5. Takes(Node, first_free_item, node, k, n)
    <3>1. ASSUME node[Node[k]].num_pages > n, NEW i \in 0 .. PageCount, Node[i] = Node[k] + n PROVE FALSE
      <4>1. /\ b.base \in Nat /\ b.num \in Nat \ {0} /\ b.base + b.num <= PageCount
            /\ PagesOf(b) = b.base .. b.base + b.num - 1
        BY <1>1, <2>2, HeapBlockFacts DEF PagesOf
      <4>2. Node[i] # NULL /\ Node[i] \in PagesOf(b) /\ Node[i] # b.base
        BY <2>4, <3>1, <4>1, PageFacts DEF NULL
      <4> DEFINE c == [base |-> Node[i], num |-> node[Node[i]].num_pages]
      <4>3. c \in FreeBlocks /\ c # b
        BY <1>1, <4>2, ListedNow
      <4>4. c.base \in PagesOf(c) /\ c.base = Node[i]
        <5>1. c \in HeapBlocks(heap_start)
          BY <1>1, <4>3 DEF Separate
        <5> QED BY <1>1, <5>1, HeapBlockFacts
      <4>5. PagesOf(b) \cap PagesOf(c) = {}
        <5> HIDE DEF b, c
        <5> QED BY <1>1, <2>2, <4>3 DEF Separate, Disjoint
      <4> QED BY <4>2, <4>4, <4>5
    <3> QED BY <1>1, <2>1, <2>4, <3>1 DEF Takes
  <2>6. /\ first_free_item' = TakenFirst(Node, first_free_item, node, k, n)
        /\ node' = TakenNodes(Node, node, k, n)
    <3>1. CASE k = 0
      <4>1. pred = NULL
        BY <3>1
      <4> QED BY <2>3, <3>1, <4>1, Zenon DEF TakenFirst, TakenNodes
    <3>2. CASE k # 0
      <4>1. pred = Node[k - 1] /\ pred # NULL
        BY <2>5, <3>2, TakesFacts, PageFacts
      <4> QED BY <2>3, <3>2, <4>1, Zenon DEF TakenFirst, TakenNodes
    <3> QED BY <3>1, <3>2
  <2>7. Lists(first_free_item', node', (FreeBlocks \ {b}) \cup RestOf(b, n))
    <3>1. FreeBlocks = BlocksOf(Node, node)
      BY <1>1, ListedNow
    <3>2. CASE node[Node[k]].num_pages = n
      <4>1. Lists(first_free_item', node', BlocksOf(Node, node) \ {[base |-> Node[k], num |-> n]})
        BY <2>5, <2>6, <3>2, WholeTaken
      <4>2. RestOf(b, n) = {} /\ b = [base |-> Node[k], num |-> n]
        BY <3>2 DEF RestOf
      <4>3. BlocksOf(Node, node) \ {[base |-> Node[k], num |-> n]} = (FreeBlocks \ {b}) \cup RestOf(b, n)
        BY <3>1, <4>2
      <4> QED BY <4>1, <4>3
    <3>3. CASE node[Node[k]].num_pages # n
      <4>1. node[Node[k]].num_pages > n
        BY <2>4, <2>5, <3>3, TakesFacts
      <4>2. Lists(first_free_item', node', (BlocksOf(Node, node) \ {b})
              \cup {[base |-> Node[k] + n, num |-> node[Node[k]].num_pages - n]})
        BY <2>5, <2>6, <4>1, FrontTaken
      <4>3. RestOf(b, n) = {[base |-> Node[k] + n, num |-> node[Node[k]].num_pages - n]}
        BY <3>3 DEF RestOf
      <4> QED BY <3>1, <4>2, <4>3
    <3> QED BY <3>2, <3>3
  <2>8. GoodList(Node, first_free_item, node)' /\ FreeBlocks' = (FreeBlocks \ {b}) \cup RestOf(b, n)
    BY <2>7, ListedNext
  <2>9. b.num >= n /\ base' = b.base
    BY <2>1, <2>3
  <2> HIDE DEF b
  <2> QED BY <1>2, <2>2, <2>8, <2>9
<1> QED BY <1>3, <1>4

LEMMA PagesUnchanged ==
  ASSUME PageInv, UNCHANGED page_vars
  PROVE  PageInv' /\ FreeBlocks' = FreeBlocks
<1>1. /\ heap_start' = heap_start /\ first_free_item' = first_free_item /\ node' = node /\ asked' = asked
      /\ base' = base /\ told' = told /\ resident' = resident /\ stranded' = stranded
  BY DEF page_vars
<1>2. GoodList(Node, first_free_item, node)' /\ FreeBlocks' = FreeBlocks
  <2>1. Lists(first_free_item', node', FreeBlocks)
    BY <1>1, ListedNow DEF PageInv
  <2> QED BY <2>1, ListedNext
<1>3. Taken' = Taken /\ Blocks' = Blocks
  BY <1>1, <1>2 DEF Taken, Blocks
<1>4. Uninitialised => Uninitialised'
  BY <1>1 DEF Uninitialised
<1>5. Accounts => Accounts'
  BY <1>1, <1>2, <1>3 DEF Accounts
<1> QED BY <1>1, <1>2, <1>4, <1>5 DEF PageInv

LEMMA PageStart ==
  ASSUME PageInit
  PROVE  PageInv /\ FreeBlocks = {}
<1>1. /\ heap_start = NULL /\ base = NULL /\ asked = 0 /\ stranded = 0 /\ told = {} /\ NULL \in Links
      /\ Uninitialised
  BY PageFacts DEF PageInit, Uninitialised
<1>2. GoodList(Node, first_free_item, node) /\ FreeBlocks = {}
  <2>1. PICK f : GoodList(f, first_free_item, node) /\ BlocksOf(f, node) = {}
    BY NoBlocks DEF PageInit, Lists
  <2>2. IsWalk(Node, first_free_item, node)
    BY <2>1, NodeWalks DEF GoodList
  <2>3. Node = f
    BY <2>1, <2>2, OneWalk DEF GoodList
  <2> QED BY <2>1, <2>3, ListedNow
<1> QED BY <1>1, <1>2 DEF PageInv

(* The heap is there, and no page of it is given out.                        *)
LEMMA PageSetUp ==
  ASSUME PageInv, heap_start = NULL, NEW h \in Pages, init_linked_list_alloc_state(h)
  PROVE  /\ PageInv' /\ heap_start' = h /\ heap_start' # NULL
         /\ FreeBlocks = {} /\ asked = 0 /\ UNCHANGED <<asked, base>>
         /\ FreeBlocks' = {[base |-> h, num |-> PageCount - h]}
<1> DEFINE b == [base |-> h, num |-> PageCount - h]
<1>1. /\ heap_start' = h /\ first_free_item' = h
      /\ node' = [node EXCEPT ![h] = [Blank EXCEPT !.num_pages = PageCount - h]]
      /\ asked' = asked /\ base' = base /\ told' = told /\ resident' = resident /\ stranded' = stranded
  BY DEF init_linked_list_alloc_state
<1>2. Uninitialised /\ h \in Links /\ h # NULL /\ h \in Nat
  BY PageFacts DEF PageInv
<1>3. FreeBlocks = {}
  <2>1. PICK f : GoodList(f, first_free_item, node) /\ BlocksOf(f, node) = {}
    BY <1>2, NoBlocks DEF Uninitialised, Lists
  <2>2. IsWalk(Node, first_free_item, node)
    BY <2>1, NodeWalks DEF GoodList
  <2>3. Node = f
    BY <2>1, <2>2, OneWalk DEF GoodList
  <2> QED BY <2>1, <2>3, ListedNow
<1>4. GoodList(Node, first_free_item, node)' /\ FreeBlocks' = {b}
  <2>1. Lists(h, node', {b})
    BY <1>1, <1>2, FirstBlock DEF Uninitialised
  <2> QED BY <1>1, <2>1, ListedNext
<1>5. told' = {} /\ resident' = {} /\ stranded' = 0 /\ asked' = 0 /\ base' \in Links
  BY <1>1, <1>2 DEF Uninitialised, PageInv
<1>6. Taken' = {} /\ Blocks' = {b}
  BY <1>4, <1>5 DEF Taken, Blocks
<1>7. b.base \in Pages /\ b.num \in Nat \ {0} /\ h <= b.base /\ b.base + b.num <= PageCount
  BY PageFacts DEF Pages
<1>8. b \in HeapBlocks(h)
  BY <1>7 DEF HeapBlocks
<1>9. Separate(h, {b}, {}, {})
  BY <1>8 DEF Separate, Disjoint
<1>10. Cardinality(Covered({b})) = PageCount - h
  <2>1. Covered({b}) = h .. PageCount - 1
    <3>1. PagesOf(b) = h .. PageCount - 1
      BY <1>2, PageFacts DEF PagesOf
    <3> QED BY <3>1 DEF Covered
  <2>2. h \in Int /\ PageCount - 1 \in Int /\ h <= PageCount - 1
    BY PageFacts DEF Pages
  <2>3. Cardinality(h .. PageCount - 1) = PageCount - h
    BY <2>2, FS_Interval, PageFacts
  <2> QED BY <2>1, <2>3
<1> HIDE DEF b
<1>11. Accounts'
  <2>1. Separate(heap_start', FreeBlocks', Taken', resident')
    BY <1>1, <1>4, <1>5, <1>6, <1>9
  <2>2. stranded' + Cardinality(Covered(Blocks')) = PageCount - heap_start'
    BY <1>1, <1>2, <1>5, <1>6, <1>10, PageFacts
  <2> QED BY <1>5, <2>1, <2>2 DEF Accounts
<1>12. PageInv'
  BY <1>1, <1>2, <1>4, <1>5, <1>11 DEF PageInv
<1> QED BY <1>1, <1>2, <1>3, <1>4, <1>5, <1>12 DEF b, Uninitialised

(* The answer to a request is a block of nobody, and no page is lost.       *)
LEMMA TakenAccounts ==
  ASSUME PageInv, heap_start # NULL, NEW n \in Nat \ {0}, linked_list_alloc_pages(n), base' # NULL
  PROVE  \E b \in FreeBlocks :
           /\ b.num >= n /\ base' = b.base /\ FreeBlocks' = (FreeBlocks \ {b}) \cup RestOf(b, n)
           /\ base' \in Pages /\ FrontOf(b, n) = [base |-> base', num |-> n]
           /\ Separate(heap_start', FreeBlocks', Taken \cup {FrontOf(b, n)}, resident)
           /\ Separate(heap_start', FreeBlocks', Taken, resident \cup {FrontOf(b, n)})
           /\ Covered(FreeBlocks' \cup Taken \cup resident \cup {FrontOf(b, n)}) = Covered(Blocks)
           /\ FrontOf(b, n) \notin Taken \cup resident
<1>1. heap_start' = heap_start /\ heap_start \in Nat /\ Separate(heap_start, FreeBlocks, Taken, resident)
  BY Allocated, PageFacts DEF PageInv, Accounts
<1>2. PICK b \in FreeBlocks : /\ b.num >= n /\ base' = b.base
                              /\ FreeBlocks' = (FreeBlocks \ {b}) \cup RestOf(b, n)
  BY Allocated
<1>3. b \in HeapBlocks(heap_start) /\ n \in 1 .. b.num /\ b.base \in Pages
  <2>1. b \in HeapBlocks(heap_start)
    BY <1>1 DEF Separate
  <2> QED BY <1>1, <1>2, <2>1, HeapBlockFacts
<1>4. /\ Separate(heap_start, FreeBlocks', Taken \cup {FrontOf(b, n)}, resident)
      /\ Separate(heap_start, FreeBlocks', Taken, resident \cup {FrontOf(b, n)})
      /\ Covered(FreeBlocks' \cup Taken \cup resident \cup {FrontOf(b, n)}) = Covered(FreeBlocks \cup Taken \cup resident)
      /\ FrontOf(b, n) \notin Taken \cup resident
  <2>1. /\ heap_start \in Nat /\ Separate(heap_start, FreeBlocks, Taken, resident)
        /\ b \in FreeBlocks /\ n \in 1 .. b.num /\ FreeBlocks' = (FreeBlocks \ {b}) \cup RestOf(b, n)
    BY <1>1, <1>2, <1>3
  <2>2. Taking(heap_start, FreeBlocks, Taken, resident, b, n)
    BY <2>1, TakingKeeps
  <2> QED BY <2>1, <2>2 DEF Taking
<1>5. Blocks = FreeBlocks \cup Taken \cup resident
  BY DEF Blocks
<1> QED BY <1>1, <1>2, <1>3, <1>4, <1>5 DEF FrontOf

LEMMA RefusedAccounts ==
  ASSUME PageInv, heap_start # NULL, NEW n \in Nat \ {0}, linked_list_alloc_pages(n), base' = NULL
  PROVE  FreeBlocks' = FreeBlocks /\ heap_start' = heap_start /\ \A b \in FreeBlocks : b.num < n
<1>1. \A b \in FreeBlocks : b.base # NULL
  <2>1. ASSUME NEW b \in FreeBlocks PROVE b.base # NULL
    <3>1. heap_start \in Nat /\ b \in HeapBlocks(heap_start)
      BY PageFacts DEF PageInv, Accounts, Separate
    <3> QED BY <3>1, HeapBlockFacts, PageFacts
  <2> QED BY <2>1
<1> QED BY <1>1, Allocated

(* The loader gets pages for a segment.                                      *)
LEMMA LoaderTakes ==
  ASSUME PageInv, heap_start # NULL, NEW n \in Nat \ {0}, linked_list_alloc_pages(n),
         UNCHANGED <<told, stranded>>,
         base' = NULL => resident' = resident,
         base' # NULL => resident' = resident \cup {[base |-> base', num |-> n]}
  PROVE  PageInv'
<1>1. /\ asked' = n /\ heap_start' = heap_start /\ GoodList(Node, first_free_item, node)'
      /\ heap_start \in Links /\ base \in Links /\ stranded \in Nat /\ told \subseteq [base : Pages, s : IpcSizes]
      /\ Accounts /\ told' = told /\ stranded' = stranded /\ Taken' = Taken
  BY Allocated DEF PageInv, Taken
<1>2. CASE base' = NULL
  <2>1. FreeBlocks' = FreeBlocks /\ Blocks' = Blocks /\ resident' = resident
    BY <1>1, <1>2, RefusedAccounts DEF Blocks
  <2>2. Accounts'
    BY <1>1, <2>1 DEF Accounts
  <2> QED BY <1>1, <1>2, <2>2, PageFacts DEF PageInv
<1>3. CASE base' # NULL
  <2>1. PICK b \in FreeBlocks :
          /\ base' \in Pages /\ FrontOf(b, n) = [base |-> base', num |-> n]
          /\ Separate(heap_start', FreeBlocks', Taken, resident \cup {FrontOf(b, n)})
          /\ Covered(FreeBlocks' \cup Taken \cup resident \cup {FrontOf(b, n)}) = Covered(Blocks)
    BY <1>3, TakenAccounts
  <2>2. resident' = resident \cup {FrontOf(b, n)}
    BY <1>3, <2>1
  <2>3. Blocks' = FreeBlocks' \cup Taken \cup resident \cup {FrontOf(b, n)}
    BY <1>1, <2>2 DEF Blocks
  <2>4. Accounts'
    <3>1. Separate(heap_start', FreeBlocks', Taken', resident')
      BY <1>1, <2>1, <2>2
    <3>2. Covered(Blocks') = Covered(Blocks)
      BY <2>1, <2>3
    <3> QED BY <1>1, <3>1, <3>2 DEF Accounts
  <2> QED BY <1>1, <2>1, <2>4, PageFacts DEF PageInv
<1> QED BY <1>2, <1>3

(* A client gets pages.                                                      *)
LEMMA ClientTakes ==
  ASSUME PageInv, heap_start # NULL, handle_ipc_alloc
  PROVE  PageInv' /\ heap_start' = heap_start
<1>1. PICK s \in IpcSizes :
        /\ linked_list_alloc_pages(Shifted[s + PAGE_SIZE_LOG2])
        /\ told' = IF base' = NULL THEN told ELSE told \cup {[base |-> base', s |-> s]}
        /\ UNCHANGED <<resident, stranded>>
  BY DEF handle_ipc_alloc
<1> DEFINE n == Shifted[s + PAGE_SIZE_LOG2]
<1>2. n \in Nat \ {0}
  <2>1. s + PAGE_SIZE_LOG2 \in Nat
    BY PageFacts
  <2> QED BY <2>1, ShiftedGrows
<1>3. linked_list_alloc_pages(n)
  BY <1>1
<1>4. \A r : r = [base |-> base', s |-> s] => Region(r) = [base |-> base', num |-> n]
  BY DEF Region
<1> HIDE DEF n
<1>5. /\ asked' = n /\ heap_start' = heap_start /\ GoodList(Node, first_free_item, node)'
      /\ heap_start \in Links /\ base \in Links /\ stranded \in Nat /\ told \subseteq [base : Pages, s : IpcSizes]
      /\ Accounts /\ resident' = resident /\ stranded' = stranded
  BY <1>1, <1>2, <1>3, Allocated DEF PageInv
<1>6. CASE base' = NULL
  <2>1. FreeBlocks' = FreeBlocks /\ told' = told
    BY <1>1, <1>2, <1>3, <1>6, RefusedAccounts
  <2>2. Taken' = Taken /\ Blocks' = Blocks
    BY <1>5, <2>1 DEF Blocks, Taken
  <2>3. Accounts'
    BY <1>5, <2>1, <2>2 DEF Accounts
  <2> QED BY <1>2, <1>5, <1>6, <2>1, <2>3, PageFacts DEF PageInv
<1>7. CASE base' # NULL
  <2>1. PICK b \in FreeBlocks :
          /\ base' \in Pages /\ FrontOf(b, n) = [base |-> base', num |-> n]
          /\ Separate(heap_start', FreeBlocks', Taken \cup {FrontOf(b, n)}, resident)
          /\ Covered(FreeBlocks' \cup Taken \cup resident \cup {FrontOf(b, n)}) = Covered(Blocks)
          /\ FrontOf(b, n) \notin Taken \cup resident
    BY <1>2, <1>3, <1>7, TakenAccounts
  <2> DEFINE r == [base |-> base', s |-> s]
  <2>2. told' = told \cup {r} /\ Region(r) = FrontOf(b, n)
    BY <1>1, <1>4, <1>7, <2>1
  <2>3. told' \subseteq [base : Pages, s : IpcSizes]
    BY <1>5, <2>1, <2>2
  <2> HIDE DEF r
  <2>4. Taken' = Taken \cup {FrontOf(b, n)}
    BY <2>2 DEF Taken
  <2>5. Blocks' = FreeBlocks' \cup Taken \cup resident \cup {FrontOf(b, n)}
    BY <1>5, <2>4 DEF Blocks
  <2>6. \A q, u \in told' : Region(q) = Region(u) => q = u
    <3>1. \A q \in told : Region(q) # Region(r)
      BY <2>1, <2>2 DEF Taken
    <3>2. \A q, u \in told : Region(q) = Region(u) => q = u
      BY <1>5 DEF Accounts
    <3> QED BY <2>2, <3>1, <3>2
  <2>7. Accounts'
    <3>1. Separate(heap_start', FreeBlocks', Taken', resident')
      BY <1>5, <2>1, <2>4
    <3>2. Covered(Blocks') = Covered(Blocks)
      BY <2>1, <2>5
    <3> QED BY <1>5, <2>6, <3>1, <3>2 DEF Accounts
  <2> QED BY <1>2, <1>5, <2>1, <2>3, <2>7, PageFacts DEF PageInv
<1> QED BY <1>5, <1>6, <1>7

(* A client gives back what it was told of: the front of what was taken.    *)
LEMMA ClientGives ==
  ASSUME PageInv, heap_start # NULL, handle_ipc_free
  PROVE  /\ PageInv' /\ heap_start' = heap_start /\ UNCHANGED <<asked, base>>
         /\ \E b \in Taken, n \in Nat : /\ n \in 1 .. b.num
                                        /\ FreeBlocks' = FreeBlocks \cup {FrontOf(b, n)}
<1>1. PICK r \in told :
        /\ linked_list_free_pages(r.base, Shifted[r.s])
        /\ told' = told \ {r}
        /\ stranded' = stranded + Shifted[r.s + PAGE_SIZE_LOG2] - Shifted[r.s]
        /\ UNCHANGED <<heap_start, asked, base, resident>>
  BY DEF handle_ipc_free
<1> DEFINE n == Shifted[r.s]
           num == Shifted[r.s + PAGE_SIZE_LOG2]
           b == Region(r)
<1>2. n \in Nat \ {0} /\ num \in Nat \ {0} /\ n <= num /\ r.base \in Pages
  <2>1. r \in [base : Pages, s : IpcSizes] /\ r.s \in Nat /\ PAGE_SIZE_LOG2 \in Nat
    BY PageFacts DEF PageInv
  <2>2. r.s + PAGE_SIZE_LOG2 \in Nat /\ r.s <= r.s + PAGE_SIZE_LOG2
    BY <2>1
  <2> QED BY <2>1, <2>2, ShiftedGrows
<1>3. /\ linked_list_free_pages(r.base, n) /\ stranded' = stranded + num - n
      /\ b = [base |-> r.base, num |-> num] /\ FrontOf(b, n) = [base |-> r.base, num |-> n] /\ b \in Taken
  BY <1>1 DEF Region, FrontOf, Taken
<1> HIDE DEF n, num, b
<1>4. /\ Separate(heap_start, FreeBlocks, Taken, resident) /\ heap_start \in Pages /\ heap_start \in Nat
      /\ \A q, u \in told : Region(q) = Region(u) => q = u
      /\ stranded + Cardinality(Covered(Blocks)) = PageCount - heap_start /\ stranded \in Nat
      /\ GoodList(Node, first_free_item, node)
      /\ told \subseteq [base : Pages, s : IpcSizes] /\ asked \in Nat /\ base \in Links
  BY PageFacts DEF PageInv, Accounts
<1>5. n \in 1 .. b.num /\ b \in HeapBlocks(heap_start) /\ b.num = num /\ b.base = r.base
  BY <1>2, <1>3, <1>4 DEF Separate
<1>6. /\ Separate(heap_start, FreeBlocks \cup {FrontOf(b, n)}, Taken \ {b}, resident)
      /\ Covered(FreeBlocks \cup {FrontOf(b, n)} \cup (Taken \ {b}) \cup resident) =
           Covered(FreeBlocks \cup Taken \cup resident) \ Covered(RestOf(b, n))
      /\ Covered(RestOf(b, n)) \subseteq Covered(FreeBlocks \cup Taken \cup resident)
  <2>1. /\ heap_start \in Nat /\ Separate(heap_start, FreeBlocks, Taken, resident)
        /\ b \in Taken /\ n \in 1 .. b.num
    BY <1>3, <1>4, <1>5
  <2> QED BY <2>1, GivingKeeps
<1>7. Lists(first_free_item', node', FreeBlocks \cup {FrontOf(b, n)})
  <2>1. ASSUME NEW i \in 0 .. PageCount, Node[i] = r.base PROVE FALSE
    <3> DEFINE c == [base |-> Node[i], num |-> node[Node[i]].num_pages]
    <3>1. Node[i] # NULL
      BY <1>2, <2>1, PageFacts
    <3>2. c \in FreeBlocks
      BY <1>4, <3>1, ListedNow
    <3>3. c.base = r.base
      BY <2>1
    <3> HIDE DEF c
    <3>4. c \in HeapBlocks(heap_start) /\ c # b /\ PagesOf(b) \cap PagesOf(c) = {}
      BY <1>3, <1>4, <3>2 DEF Separate, Disjoint
    <3>5. r.base \in PagesOf(c) /\ r.base \in PagesOf(b)
      BY <1>4, <1>5, <3>3, <3>4, HeapBlockFacts
    <3> QED BY <3>4, <3>5
  <2>2. /\ node' = [node EXCEPT ![r.base] = [num_pages |-> n, next |-> first_free_item, prev |-> NULL]]
        /\ first_free_item' = r.base
    BY <1>3 DEF linked_list_free_pages
  <2>3. n \in 1 .. PageCount - r.base
    BY <1>2, <1>4, <1>5, HeapBlockFacts, PageFacts
  <2>4. Lists(r.base, node', BlocksOf(Node, node) \cup {[base |-> r.base, num |-> n]})
    BY <1>2, <1>4, <2>1, <2>2, <2>3, FrontFreed
  <2>5. FreeBlocks = BlocksOf(Node, node)
    BY <1>4, ListedNow
  <2> QED BY <1>3, <2>2, <2>4, <2>5
<1>8. GoodList(Node, first_free_item, node)' /\ FreeBlocks' = FreeBlocks \cup {FrontOf(b, n)}
  BY <1>7, ListedNext
<1>9. Taken' = Taken \ {b}
  BY <1>1, <1>4 DEF Taken, b
<1>10. Blocks' = FreeBlocks \cup {FrontOf(b, n)} \cup (Taken \ {b}) \cup resident
       /\ Blocks = FreeBlocks \cup Taken \cup resident
  BY <1>1, <1>8, <1>9 DEF Blocks
<1>11. stranded' + Cardinality(Covered(Blocks')) = PageCount - heap_start /\ stranded' \in Nat
  <2>1. Covered(Blocks') = Covered(Blocks) \ Covered(RestOf(b, n))
    BY <1>6, <1>10
  <2>2. Covered(RestOf(b, n)) \subseteq Covered(Blocks)
    BY <1>6, <1>10
  <2>3. Covered(Blocks) \cap Covered(RestOf(b, n)) = Covered(RestOf(b, n))
    BY <2>2
  <2>4. IsFiniteSet(Covered(Blocks)) /\ Cardinality(Covered(Blocks)) \in Nat
    <3>1. Blocks \subseteq HeapBlocks(heap_start)
      BY <1>4, <1>10 DEF Separate
    <3> QED BY <1>4, <3>1, Countable
  <2>5. Cardinality(Covered(Blocks')) = Cardinality(Covered(Blocks)) - Cardinality(Covered(RestOf(b, n)))
    BY <2>1, <2>3, <2>4, FS_Difference
  <2>6. Cardinality(Covered(RestOf(b, n))) = num - n
    BY <1>4, <1>5, RestCounted
  <2> QED BY <1>2, <1>3, <1>4, <2>4, <2>5, <2>6, PageFacts
<1>12. Accounts'
  <2>1. Separate(heap_start', FreeBlocks', Taken', resident')
    BY <1>1, <1>6, <1>8, <1>9
  <2>2. \A q, u \in told' : Region(q) = Region(u) => q = u
    BY <1>1, <1>4
  <2> QED BY <1>1, <1>11, <2>1, <2>2 DEF Accounts
<1>13. PageInv'
  BY <1>1, <1>4, <1>8, <1>11, <1>12 DEF PageInv
<1> QED BY <1>1, <1>2, <1>3, <1>5, <1>8, <1>13

-----------------------------------------------------------------------------
(* The boot loader: where the data of the two executables is.               *)
Early == {"kern", "root", "halt", "kernel"}
Later == {"root main", "parse", "load", "thread", "space", "map", "start", "loaded", "serve", "undefined"}

(* Two segments were loaded, the second of them writable.                    *)
TwoSegments(state) ==
  /\ DOMAIN state.segments = 1 .. 2 /\ ~state.segments[1].W /\ state.segments[2].W
  /\ state.segments[2].loaded_addr \in Nat /\ state.segments[2].size \in Nat

EndOf(state) == state.segments[2].loaded_addr + state.segments[2].size

(* As many segments are loaded as there were headers for them, and the data *)
(* lies behind the mark.                                                    *)
LoadedFrom(mark, file, text, data) ==
  \/ header <= text /\ elf.segments = <<>> /\ sram_marker = mark
  \/ text < header /\ header <= data /\ sram_marker = mark
     /\ elf.segments = <<elf.segments[1]>> /\ ~elf.segments[1].W
  \/ data < header /\ TwoSegments(elf)
     /\ mark <= elf.segments[2].loaded_addr /\ sram_marker = EndOf(elf)
     /\ sram_marker <= mark + Room(file)

LoadingFrom(mark, file) ==
  \/ header = 0 /\ elf = NoElf /\ sram_marker = mark
  \/ /\ file.valid /\ header \in 1 .. Len(file.phdrs) + 1 /\ "segments" \in DOMAIN elf
     /\ \E text, data \in DOMAIN file.phdrs :
          TextAndData(file, text, data) /\ LoadedFrom(mark, file, text, data)

Below(state, bound) == TwoSegments(state) /\ EndOf(state) <= bound

BootInv ==
  /\ stage \in Early \cup Later
  /\ image \in Images /\ root_file \in RootFiles /\ sram_marker \in Nat
  /\ stage = "kern" =>
       /\ image \in KernFiles /\ kern = NoElf /\ root = NoElf
       /\ LoadingFrom(0, image)
  /\ stage = "root" =>
       /\ image = root_file /\ root = NoElf
       /\ \E file \in KernFiles : /\ file.valid
                                  /\ \E mark \in 0 .. Room(file) : Below(kern, mark) /\ LoadingFrom(mark, image)
  /\ stage = "halt" =>
       \E mark \in 0 .. HEADROOM :
         /\ kern = NoElf \/ Below(kern, mark)
         /\ root = NoElf \/ (Below(root, HEADROOM) /\ mark <= root.segments[2].loaded_addr)
  /\ stage \in Later \cup {"kernel"} =>
       /\ boot_info = <<Record(kern), Record(root)>>
       /\ \E mark \in 0 .. HEADROOM :
            Below(kern, mark) /\ Below(root, HEADROOM) /\ mark <= root.segments[2].loaded_addr

(* The heap is set up when the root task runs, and begins behind the data of *)
(* both executables.                                                        *)
HeapInv ==
  /\ heap_start = NULL <=> stage \in Early
  /\ stage \in Later =>
       EndOf(kern) <= heap_start * PAGE_SIZE /\ EndOf(root) <= heap_start * PAGE_SIZE

FdsOK == dir_fd \in Fds /\ file_fd \in Fds /\ open \in [Fds -> Files \cup {NoFile}]

StartupInv == BootInv /\ PageInv /\ HeapInv /\ FdsOK

LEMMA Division ==
  ASSUME NEW x \in Nat, NEW d \in Nat \ {0}
  PROVE  /\ x \div d \in Nat /\ d * (x \div d) <= x /\ x < d * (x \div d) + d
         /\ x % d \in 0 .. d - 1
OBVIOUS

LEMMA RoundedUp ==
  ASSUME NEW x \in Nat, NEW d \in Nat \ {0}
  PROVE  /\ (x + d - 1) \div d \in Nat
         /\ x <= ((x + d - 1) \div d) * d /\ ((x + d - 1) \div d) * d <= x + d - 1
         /\ ((x + d - 1) \div d) * d \in Nat
         /\ \A k \in Nat : x <= d * k => (x + d - 1) \div d <= k
<1> DEFINE q == (x + d - 1) \div d
<1>1. x + d - 1 \in Nat
  OBVIOUS
<1>2. q \in Nat /\ d * q <= x + d - 1 /\ x + d - 1 < d * q + d
  BY <1>1, Division
<1> HIDE DEF q
<1>3. d * q = q * d /\ q * d \in Nat
  BY <1>2
<1>4. x <= q * d /\ q * d <= x + d - 1
  BY <1>2, <1>3
<1>5. ASSUME NEW k \in Nat, x <= d * k PROVE q <= k
  <2>1. SUFFICES ASSUME q >= k + 1 PROVE FALSE
    BY <1>2
  <2>2. d * q >= d * (k + 1)
    BY <1>2, <2>1
  <2>3. d * (k + 1) = d * k + d /\ d * k \in Nat
    OBVIOUS
  <2> QED BY <1>2, <1>3, <1>5, <2>2, <2>3
<1> QED BY <1>2, <1>3, <1>4, <1>5 DEF q

(* What the assumptions say of a file that is loaded.                        *)
LEMMA FileFacts ==
  ASSUME NEW file \in Images
  PROVE  /\ file.phdrs \in Seq(Headers) /\ DOMAIN file.phdrs = 1 .. Len(file.phdrs)
         /\ Len(file.phdrs) \in Nat
         /\ \A i \in DOMAIN file.phdrs : file.phdrs[i] \in Headers
         /\ \A i \in DOMAIN file.phdrs : file.phdrs[i].W => file.phdrs[i].memsz > 0
<1>1. file.phdrs \in Seq(Headers)
  BY ElfAssumption
<1>2. DOMAIN file.phdrs = 1 .. Len(file.phdrs) /\ Len(file.phdrs) \in Nat
      /\ \A i \in 1 .. Len(file.phdrs) : file.phdrs[i] \in Headers
  BY <1>1, Zenon, ElementOfSeq, LenProperties
<1>3. \A i \in DOMAIN file.phdrs : file.phdrs[i].W => file.phdrs[i].memsz > 0
  BY LoaderAssumption
<1> QED BY <1>1, <1>2, <1>3

(* A header that is loaded is that of the text or that of the data.          *)
LEMMA WhichHeader ==
  ASSUME NEW file \in Images, NEW text \in DOMAIN file.phdrs, NEW data \in DOMAIN file.phdrs,
         TextAndData(file, text, data), NEW i \in DOMAIN file.phdrs, file.phdrs[i].type = "LOAD"
  PROVE  /\ text < data /\ (i = text \/ i = data)
         /\ file.phdrs[i].W <=> i = data
         /\ ~ file.phdrs[i].W <=> i = text
<1>1. i \in {j \in DOMAIN file.phdrs : file.phdrs[j].type = "LOAD"}
  OBVIOUS
<1>2. (i = text \/ i = data) /\ text < data /\ ~file.phdrs[text].W /\ file.phdrs[data].W
  BY <1>1 DEF TextAndData
<1>3. text # data
  BY <1>2
<1> QED BY <1>2, <1>3

LEMMA RoomFacts ==
  ASSUME NEW file \in KernFiles \cup RootFiles, file.valid,
         NEW text \in DOMAIN file.phdrs, NEW data \in DOMAIN file.phdrs, TextAndData(file, text, data)
  PROVE  /\ Room(file) = file.phdrs[data].memsz + 2 * file.phdrs[data].align
         /\ Room(file) \in Nat /\ Room(file) <= HEADROOM
         /\ file \in Images
<1>1. file \in Images /\ Room(file) <= HEADROOM
  BY BootAssumption
<1>2. file.phdrs[data].type = "LOAD" /\ file.phdrs[data].W
  <2>1. data \in {j \in DOMAIN file.phdrs : file.phdrs[j].type = "LOAD"}
    BY DEF TextAndData
  <2> QED BY <2>1 DEF TextAndData
<1>3. \A i \in DOMAIN file.phdrs : file.phdrs[i].type = "LOAD" /\ file.phdrs[i].W => i = data
  BY <1>1, WhichHeader
<1>4. (CHOOSE i \in DOMAIN file.phdrs : file.phdrs[i].type = "LOAD" /\ file.phdrs[i].W) = data
  BY <1>2, <1>3, Zenon
<1>5. Room(file) = file.phdrs[data].memsz + 2 * file.phdrs[data].align
  BY <1>4, Zenon DEF Room
<1>6. file.phdrs[data] \in Headers
  BY <1>1, FileFacts
<1>7. Room(file) \in Nat
  BY <1>5, <1>6 DEF Headers
<1> QED BY <1>1, <1>5, <1>7

(* The steps of the boot loader while it reads a file.                       *)
LEMMA LoadingHeader ==
  ASSUME NEW file \in KernFiles \cup RootFiles, NEW mark \in Nat,
         LoadingFrom(mark, file), image = file, ValidHeader \/ SkipHeader, sram_marker' = sram_marker
  PROVE  LoadingFrom(mark, file)'
<1>1. file \in Images /\ Len(file.phdrs) \in Nat /\ DOMAIN file.phdrs = 1 .. Len(file.phdrs)
  BY BootAssumption, FileFacts
<1>2. CASE ValidHeader
  <2>1. header = 0 /\ file.valid /\ header' = 1 /\ elf' = elf
    BY <1>2 DEF ValidHeader
  <2>2. elf = NoElf /\ sram_marker = mark
    BY <1>1, <2>1 DEF LoadingFrom
  <2>3. PICK text \in DOMAIN file.phdrs, data \in DOMAIN file.phdrs : TextAndData(file, text, data)
    BY <2>1, BootAssumption
  <2>4. header' \in 1 .. Len(file.phdrs) + 1 /\ header' <= text
    BY <1>1, <2>1, <2>3
  <2>5. elf'.segments = <<>> /\ "segments" \in DOMAIN elf'
    BY <2>1, <2>2 DEF NoElf
  <2> QED BY <2>1, <2>2, <2>3, <2>4, <2>5 DEF LoadingFrom, LoadedFrom
<1>3. CASE SkipHeader
  <2>1. /\ header \in DOMAIN file.phdrs /\ file.phdrs[header].type # "LOAD" /\ header' = header + 1
        /\ elf' = OtherHeader(elf, file.phdrs[header])
    BY <1>3 DEF SkipHeader
  <2>2. /\ file.valid /\ header \in 1 .. Len(file.phdrs) /\ header # 0 /\ "segments" \in DOMAIN elf
        /\ \E text, data \in DOMAIN file.phdrs :
             TextAndData(file, text, data) /\ LoadedFrom(mark, file, text, data)
    BY <1>1, <2>1 DEF LoadingFrom
  <2>3. PICK text \in DOMAIN file.phdrs, data \in DOMAIN file.phdrs :
          TextAndData(file, text, data) /\ LoadedFrom(mark, file, text, data)
    BY <2>2
  <2>4. header # text /\ header # data
    <3>1. /\ text \in {i \in DOMAIN file.phdrs : file.phdrs[i].type = "LOAD"}
          /\ data \in {i \in DOMAIN file.phdrs : file.phdrs[i].type = "LOAD"}
      BY <2>3 DEF TextAndData
    <3> QED BY <2>1, <3>1
  <2>5. elf'.segments = elf.segments /\ "segments" \in DOMAIN elf'
    BY <2>1, <2>2 DEF OtherHeader
  <2>6. header' \in 1 .. Len(file.phdrs) + 1
    BY <1>1, <2>1, <2>2
  <2>7. TwoSegments(elf) => TwoSegments(elf)'
    BY <2>5 DEF TwoSegments
  <2>8. EndOf(elf)' = EndOf(elf)
    BY <2>5 DEF EndOf
  <2>9. LoadedFrom(mark, file, text, data)'
    <3>1. /\ text \in Int /\ data \in Int /\ header \in Int
          /\ header <= text => header' <= text
          /\ header <= data => header' <= data
          /\ text < header => text < header'
          /\ data < header => data < header'
      BY <1>1, <2>1, <2>2, <2>4
    <3> QED BY <2>3, <2>5, <2>7, <2>8, <3>1 DEF LoadedFrom
  <2> QED BY <2>2, <2>3, <2>5, <2>6, <2>9 DEF LoadingFrom
<1> QED BY <1>2, <1>3

LEMMA LoadingText ==
  ASSUME NEW file \in KernFiles \cup RootFiles, NEW mark \in Nat, NEW location,
         LoadingFrom(mark, file), image = file, At("LOAD", FALSE), Placed(location), sram_marker' = sram_marker
  PROVE  LoadingFrom(mark, file)'
<1>1. file \in Images /\ Len(file.phdrs) \in Nat /\ DOMAIN file.phdrs = 1 .. Len(file.phdrs)
  BY BootAssumption, FileFacts
<1>2. /\ header \in DOMAIN file.phdrs /\ file.phdrs[header].type = "LOAD" /\ ~file.phdrs[header].W
      /\ elf' = LoadSegment(elf, file.phdrs[header], location) /\ header' = header + 1
  BY DEF At, Placed
<1>3. /\ file.valid /\ header \in 1 .. Len(file.phdrs) /\ header # 0 /\ "segments" \in DOMAIN elf
      /\ \E text, data \in DOMAIN file.phdrs :
           TextAndData(file, text, data) /\ LoadedFrom(mark, file, text, data)
  BY <1>1, <1>2 DEF LoadingFrom
<1>4. PICK text \in DOMAIN file.phdrs, data \in DOMAIN file.phdrs :
        TextAndData(file, text, data) /\ LoadedFrom(mark, file, text, data)
  BY <1>3
<1>5. header = text /\ text < data /\ text \in Int /\ data \in Int
  <2>1. text \in 1 .. Len(file.phdrs) /\ data \in 1 .. Len(file.phdrs)
    BY <1>1, <1>4
  <2>2. header = text /\ text < data
    BY <1>1, <1>2, <1>4, WhichHeader
  <2> QED BY <1>1, <2>1, <2>2
<1>6. elf.segments = <<>> /\ sram_marker = mark
  BY <1>4, <1>5 DEF LoadedFrom
<1> DEFINE s == [linked_addr |-> file.phdrs[header].vaddr, loaded_addr |-> location,
                 size |-> file.phdrs[header].memsz, W |-> file.phdrs[header].W]
<1>7. ~s.W
  BY <1>2
<1>8. elf'.segments = <<s>> /\ "segments" \in DOMAIN elf'
  <2>1. elf' = [elf EXCEPT !.segments = Append(elf.segments, s)]
    BY <1>2 DEF LoadSegment
  <2> HIDE DEF s
  <2>2. Append(elf.segments, s) = <<s>>
    BY <1>6
  <2> QED BY <1>3, <2>1, <2>2
<1> HIDE DEF s
<1>9. elf'.segments = <<elf'.segments[1]>> /\ ~elf'.segments[1].W
  BY <1>7, <1>8
<1>10. LoadedFrom(mark, file, text, data)'
  BY <1>2, <1>5, <1>6, <1>9 DEF LoadedFrom
<1>11. header' \in 1 .. Len(file.phdrs) + 1
  BY <1>1, <1>2
<1> QED BY <1>3, <1>4, <1>8, <1>10, <1>11 DEF LoadingFrom

LEMMA LoadingData ==
  ASSUME NEW file \in KernFiles \cup RootFiles, NEW mark \in Nat, LoadingFrom(mark, file), image = file,
         At("LOAD", TRUE),
         NEW location, location = align_ptr(sram_marker, image.phdrs[header].align)
                                    + (image.phdrs[header].vaddr % image.phdrs[header].align),
         Placed(location), sram_marker' = location + image.phdrs[header].memsz
  PROVE  LoadingFrom(mark, file)' /\ sram_marker' \in Nat
<1>1. file \in Images /\ Len(file.phdrs) \in Nat /\ DOMAIN file.phdrs = 1 .. Len(file.phdrs)
  BY BootAssumption, FileFacts
<1>2. /\ header \in DOMAIN file.phdrs /\ file.phdrs[header].type = "LOAD" /\ file.phdrs[header].W
      /\ elf' = LoadSegment(elf, file.phdrs[header], location) /\ header' = header + 1
  BY DEF At, Placed
<1>3. /\ file.valid /\ header \in 1 .. Len(file.phdrs) /\ header # 0 /\ "segments" \in DOMAIN elf
      /\ \E text, data \in DOMAIN file.phdrs :
           TextAndData(file, text, data) /\ LoadedFrom(mark, file, text, data)
  BY <1>1, <1>2 DEF LoadingFrom
<1>4. PICK text \in DOMAIN file.phdrs, data \in DOMAIN file.phdrs :
        TextAndData(file, text, data) /\ LoadedFrom(mark, file, text, data)
  BY <1>3
<1>5. header = data /\ text < data /\ text \in Int /\ data \in Int
  <2>1. text \in 1 .. Len(file.phdrs) /\ data \in 1 .. Len(file.phdrs)
    BY <1>1, <1>4
  <2>2. header = data /\ text < data
    BY <1>1, <1>2, <1>4, WhichHeader
  <2> QED BY <1>1, <2>1, <2>2
<1>6. sram_marker = mark /\ elf.segments = <<elf.segments[1]>> /\ ~elf.segments[1].W
  BY <1>4, <1>5 DEF LoadedFrom
<1> DEFINE ph == file.phdrs[header]
<1>7. ph.align \in Nat \ {0} /\ ph.vaddr \in Nat /\ ph.memsz \in Nat
  <2>1. ph \in Headers
    BY <1>1, <1>2, FileFacts
  <2> HIDE DEF ph
  <2> QED BY <2>1 DEF Headers
<1>8. Room(file) = ph.memsz + 2 * ph.align
  BY <1>3, <1>4, <1>5, RoomFacts
<1>9. location = align_ptr(mark, ph.align) + (ph.vaddr % ph.align) /\ sram_marker' = location + ph.memsz
  BY <1>6
<1> DEFINE s == [linked_addr |-> ph.vaddr, loaded_addr |-> location, size |-> ph.memsz, W |-> ph.W]
<1>10. elf' = [elf EXCEPT !.segments = Append(elf.segments, s)] /\ ph.W
  BY <1>2 DEF LoadSegment
<1> HIDE DEF ph
<1>11. location \in Nat /\ mark <= location /\ location + ph.memsz <= mark + Room(file)
  <2>1. /\ align_ptr(mark, ph.align) \in Nat /\ mark <= align_ptr(mark, ph.align)
        /\ align_ptr(mark, ph.align) <= mark + ph.align - 1
    BY <1>7, RoundedUp DEF align_ptr
  <2>2. ph.vaddr % ph.align \in 0 .. ph.align - 1
    BY <1>7, Division
  <2> DEFINE a == ph.align
             start == align_ptr(mark, a)
             behind == ph.vaddr % a
  <2>3. /\ a \in Nat \ {0} /\ start \in Nat /\ mark <= start /\ start <= mark + a - 1
        /\ behind \in Nat /\ behind <= a - 1
    BY <1>7, <2>1, <2>2
  <2>4. location = start + behind /\ Room(file) = ph.memsz + 2 * a
    BY <1>8, <1>9
  <2> HIDE DEF s, a, start, behind
  <2> QED BY ONLY <1>7, <2>3, <2>4, mark \in Nat
<1>12. s.loaded_addr = location /\ s.size = ph.memsz /\ s.W
  BY <1>10
<1> HIDE DEF s
<1>13. /\ DOMAIN elf'.segments = 1 .. 2 /\ elf'.segments[1] = elf.segments[1] /\ elf'.segments[2] = s
       /\ "segments" \in DOMAIN elf'
  <2> DEFINE x == elf.segments[1]
             S == {x, s}
  <2>1. elf.segments = <<x>> /\ x \in S /\ s \in S
    BY <1>6
  <2>2. elf'.segments = Append(elf.segments, s) /\ "segments" \in DOMAIN elf'
    BY <1>3, <1>10
  <2> HIDE DEF x, S
  <2>3. elf.segments \in Seq(S) /\ Len(elf.segments) = 1 /\ elf.segments[1] = x
    BY <2>1
  <2>4. /\ DOMAIN Append(elf.segments, s) = 1 .. 2 /\ Append(elf.segments, s)[2] = s
        /\ Append(elf.segments, s)[1] = x
    BY <2>1, <2>3, AppendProperties
  <2> QED BY <2>2, <2>4 DEF x
<1>14. TwoSegments(elf)' /\ EndOf(elf)' = location + ph.memsz /\ elf'.segments[2].loaded_addr = location
  BY <1>6, <1>7, <1>11, <1>12, <1>13 DEF TwoSegments, EndOf
<1>15. LoadedFrom(mark, file, text, data)'
  <2>1. data < header'
    BY <1>2, <1>5
  <2>2. sram_marker' = EndOf(elf)' /\ sram_marker' <= mark + Room(file)
    BY <1>9, <1>11, <1>14
  <2>3. mark <= elf'.segments[2].loaded_addr
    BY <1>11, <1>14
  <2> QED BY <1>14, <2>1, <2>2, <2>3 DEF LoadedFrom
<1>16. header' \in 1 .. Len(file.phdrs) + 1
  BY <1>1, <1>2
<1>17. LoadingFrom(mark, file)'
  BY <1>3, <1>4, <1>13, <1>15, <1>16 DEF LoadingFrom
<1>18. sram_marker' \in Nat
  <2>1. sram_marker' = location + ph.memsz
    BY <1>9
  <2> QED BY ONLY <1>7, <1>11, <2>1
<1> QED BY <1>17, <1>18

(* When all headers were read, the data is there, behind the mark.           *)
LEMMA LoadingDone ==
  ASSUME NEW file \in KernFiles \cup RootFiles, NEW mark \in Nat, LoadingFrom(mark, file), image = file, AllRead
  PROVE  /\ file.valid /\ TwoSegments(elf) /\ mark <= elf.segments[2].loaded_addr
         /\ sram_marker = EndOf(elf) /\ sram_marker <= mark + Room(file)
         /\ Room(file) \in Nat /\ Room(file) <= HEADROOM
         /\ TwoSegments(Loaded(elf, file)) /\ Loaded(elf, file).segments = elf.segments
<1>1. file \in Images /\ Len(file.phdrs) \in Nat /\ DOMAIN file.phdrs = 1 .. Len(file.phdrs)
  BY BootAssumption, FileFacts
<1>2. header > Len(file.phdrs)
  BY DEF AllRead
<1>3. /\ file.valid /\ header \in 1 .. Len(file.phdrs) + 1 /\ "segments" \in DOMAIN elf
      /\ \E text, data \in DOMAIN file.phdrs :
           TextAndData(file, text, data) /\ LoadedFrom(mark, file, text, data)
  BY <1>1, <1>2 DEF LoadingFrom
<1>4. PICK text \in DOMAIN file.phdrs, data \in DOMAIN file.phdrs :
        TextAndData(file, text, data) /\ LoadedFrom(mark, file, text, data)
  BY <1>3
<1>5. text < data /\ text \in 1 .. Len(file.phdrs) /\ data \in 1 .. Len(file.phdrs)
  BY <1>1, <1>4 DEF TextAndData
<1>6. ~ (header <= text) /\ ~ (header <= data)
  BY <1>1, <1>2, <1>3, <1>5
<1>7. /\ TwoSegments(elf) /\ mark <= elf.segments[2].loaded_addr
      /\ sram_marker = EndOf(elf) /\ sram_marker <= mark + Room(file)
  BY <1>4, <1>6 DEF LoadedFrom
<1>8. Room(file) \in Nat /\ Room(file) <= HEADROOM
  BY <1>3, <1>4, RoomFacts
<1>9. Loaded(elf, file).segments = elf.segments
  BY <1>3 DEF Loaded, relocate_elf_file
<1>10. TwoSegments(Loaded(elf, file))
  BY <1>7, <1>9 DEF TwoSegments
<1> QED BY <1>3, <1>7, <1>8, <1>9, <1>10

LEMMA KernRoom ==
  ASSUME NEW file \in KernFiles \cup RootFiles, file.valid
  PROVE  Room(file) \in Nat /\ Room(file) <= HEADROOM
<1>1. PICK text \in DOMAIN file.phdrs, data \in DOMAIN file.phdrs : TextAndData(file, text, data)
  BY BootAssumption
<1> QED BY <1>1, RoomFacts

LEMMA BootStart ==
  ASSUME BootInit
  PROVE  BootInv
<1>1. /\ stage = "kern" /\ image \in KernFiles /\ root_file \in RootFiles /\ header = 0 /\ elf = NoElf
      /\ kern = NoElf /\ root = NoElf /\ sram_marker = 0
  BY DEF BootInit
<1>2. LoadingFrom(0, image)
  BY <1>1 DEF LoadingFrom
<1>3. image \in Images
  BY <1>1, BootAssumption
<1> QED BY <1>1, <1>2, <1>3 DEF BootInv, Early, Later

(* While a file is read, nothing else changes.                               *)
LEMMA BootReads ==
  ASSUME BootInv, BootHeader \/ BootMap \/ BootAlloc
  PROVE  BootInv' /\ stage' = stage /\ stage \in {"kern", "root"}
<1>1. /\ stage \in {"kern", "root"} /\ stage' = stage /\ image' = image /\ kern' = kern /\ root' = root
      /\ root_file' = root_file /\ boot_info' = boot_info
  BY DEF BootHeader, BootMap, BootAlloc, boot_vars
<1>2. image \in Images /\ root_file \in RootFiles /\ sram_marker \in Nat
  BY DEF BootInv
<1>3. ASSUME NEW file \in KernFiles \cup RootFiles, NEW mark \in Nat, LoadingFrom(mark, file), image = file
      PROVE  LoadingFrom(mark, file)' /\ sram_marker' \in Nat
  <2>1. CASE BootHeader
    <3>1. (ValidHeader \/ SkipHeader) /\ sram_marker' = sram_marker
      BY <2>1 DEF BootHeader, boot_vars
    <3> QED BY <1>2, <1>3, <3>1, LoadingHeader
  <2>2. CASE BootMap
    <3>1. /\ At("LOAD", FALSE) /\ sram_marker' = sram_marker
          /\ Placed(image.base + image.phdrs[header].offset)
      BY <2>2 DEF BootMap, boot_vars
    <3> QED BY <1>2, <1>3, <3>1, LoadingText
  <2>3. CASE BootAlloc
    <3> DEFINE location == align_ptr(sram_marker, image.phdrs[header].align)
                             + (image.phdrs[header].vaddr % image.phdrs[header].align)
    <3>1. /\ At("LOAD", TRUE) /\ Placed(location) /\ sram_marker' = location + image.phdrs[header].memsz
      BY <2>3 DEF BootAlloc
    <3> QED BY <1>3, <3>1, LoadingData
  <2> QED BY <2>1, <2>2, <2>3
<1>4. CASE stage = "kern"
  <2>1. image \in KernFiles /\ kern = NoElf /\ root = NoElf /\ LoadingFrom(0, image)
    BY <1>4 DEF BootInv
  <2>2. PICK file \in KernFiles : file = image
    BY <2>1
  <2>3. LoadingFrom(0, file)' /\ sram_marker' \in Nat
    BY <1>3, <2>1, <2>2
  <2>4. LoadingFrom(0, image)'
    BY <1>1, <2>2, <2>3 DEF LoadingFrom, LoadedFrom
  <2> QED BY <1>1, <1>2, <1>4, <2>1, <2>3, <2>4 DEF BootInv, Early, Later
<1>5. CASE stage = "root"
  <2>1. PICK k \in KernFiles : k.valid /\ \E mark \in 0 .. Room(k) : Below(kern, mark) /\ LoadingFrom(mark, image)
    BY <1>5 DEF BootInv
  <2>2. PICK mark \in 0 .. Room(k) : Below(kern, mark) /\ LoadingFrom(mark, image)
    BY <2>1
  <2>3. image = root_file /\ root = NoElf /\ mark \in Nat
    BY <1>5, <2>1, KernRoom DEF BootInv
  <2>4. PICK file \in RootFiles : file = image
    BY <1>2, <2>3
  <2>5. LoadingFrom(mark, file)' /\ sram_marker' \in Nat
    BY <1>3, <2>2, <2>3, <2>4
  <2>6. LoadingFrom(mark, image)' /\ Below(kern, mark)'
    BY <1>1, <2>2, <2>4, <2>5 DEF LoadingFrom, LoadedFrom, Below, TwoSegments, EndOf
  <2>7. \E l \in KernFiles : l.valid /\ \E m \in 0 .. Room(l) : (Below(kern, m) /\ LoadingFrom(m, image))'
    BY <2>1, <2>6
  <2> QED BY <1>1, <1>2, <1>5, <2>3, <2>5, <2>7 DEF BootInv, Early, Later
<1> QED BY <1>1, <1>4, <1>5

(* A file is not one to load.                                                *)
LEMMA BootStops ==
  ASSUME BootInv, BootInvalid
  PROVE  BootInv' /\ stage' = "halt" /\ stage \in {"kern", "root"}
<1>1. /\ stage \in {"kern", "root"} /\ stage' = "halt" /\ image' = image /\ header' = header /\ elf' = elf
      /\ kern' = kern /\ root' = root /\ root_file' = root_file /\ sram_marker' = sram_marker
      /\ boot_info' = boot_info
  BY DEF BootInvalid, Halt, loading, boot_vars
<1>2. image \in Images /\ root_file \in RootFiles /\ sram_marker \in Nat /\ HEADROOM \in Nat
  BY BootAssumption DEF BootInv
<1>3. root = NoElf
  BY <1>1 DEF BootInv
<1>4. \E mark \in 0 .. HEADROOM : kern = NoElf \/ Below(kern, mark)
  <2>1. CASE stage = "kern"
    <3>1. kern = NoElf /\ 0 \in 0 .. HEADROOM
      BY <1>2, <2>1 DEF BootInv
    <3> QED BY <3>1
  <2>2. CASE stage = "root"
    <3>1. PICK k \in KernFiles : k.valid /\ \E mark \in 0 .. Room(k) : Below(kern, mark)
      BY <2>2 DEF BootInv
    <3>2. PICK mark \in 0 .. Room(k) : Below(kern, mark)
      BY <3>1
    <3>3. mark \in 0 .. HEADROOM
      BY <1>2, <3>1, KernRoom
    <3> QED BY <3>2, <3>3
  <2> QED BY <1>1, <2>1, <2>2
<1>5. PICK mark \in 0 .. HEADROOM : kern = NoElf \/ Below(kern, mark)
  BY <1>4
<1>6. (kern = NoElf \/ Below(kern, mark))'
  BY <1>1, <1>5 DEF Below, TwoSegments, EndOf
<1> QED BY <1>1, <1>2, <1>3, <1>6 DEF BootInv, Early, Later

(* The kernel is loaded: its data ends where that of the root task may begin. *)
LEMMA BootsKern ==
  ASSUME BootInv, BootKern
  PROVE  BootInv' /\ stage' \in {"root", "halt"} /\ stage = "kern"
<1>1. /\ stage = "kern" /\ AllRead /\ kern' = Loaded(elf, image) /\ root' = root /\ root_file' = root_file
      /\ sram_marker' = sram_marker
      /\ \/ stage' = "root" /\ image' = root_file /\ header' = 0 /\ elf' = NoElf
         \/ stage' = "halt" /\ image' = image
  BY DEF BootKern, Begin, loading
<1>2. /\ image \in KernFiles /\ root = NoElf /\ LoadingFrom(0, image) /\ image \in Images
      /\ root_file \in RootFiles /\ sram_marker \in Nat /\ HEADROOM \in Nat
  BY <1>1, BootAssumption DEF BootInv
<1>3. PICK file \in KernFiles : file = image
  BY <1>2
<1>4. /\ file.valid /\ TwoSegments(elf) /\ sram_marker = EndOf(elf) /\ sram_marker <= 0 + Room(file)
      /\ Room(file) \in Nat /\ Room(file) <= HEADROOM
      /\ TwoSegments(Loaded(elf, file)) /\ Loaded(elf, file).segments = elf.segments
  BY <1>1, <1>2, <1>3, LoadingDone
<1>5. sram_marker \in 0 .. Room(file) /\ sram_marker \in 0 .. HEADROOM
  BY <1>2, <1>4
<1>6. Below(kern', sram_marker)
  <2>1. TwoSegments(kern')
    BY <1>1, <1>3, <1>4
  <2>2. EndOf(kern') = sram_marker
    BY <1>1, <1>3, <1>4 DEF EndOf
  <2> QED BY <1>2, <2>1, <2>2 DEF Below
<1>7. root_file \in Images
  BY <1>2, BootAssumption
<1>8. Below(kern, sram_marker)'
  BY <1>1, <1>6 DEF Below, TwoSegments, EndOf
<1>9. CASE stage' = "root"
  <2>1. image' = root_file /\ header' = 0 /\ elf' = NoElf
    BY <1>1, <1>9
  <2>2. LoadingFrom(sram_marker, image)'
    BY <1>1, <2>1 DEF LoadingFrom
  <2>3. \E k \in KernFiles : k.valid /\ \E mark \in 0 .. Room(k) : (Below(kern, mark) /\ LoadingFrom(mark, image))'
    <3>1. PICK mark \in 0 .. Room(file) : mark = sram_marker
      BY <1>5
    <3>2. (Below(kern, mark) /\ LoadingFrom(mark, image))'
      BY <1>1, <1>6, <2>1, <3>1 DEF Below, TwoSegments, EndOf, LoadingFrom
    <3> QED BY <1>4, <3>2
  <2> QED BY <1>1, <1>2, <1>7, <1>9, <2>1, <2>3 DEF BootInv, Early, Later
<1>10. CASE stage' = "halt"
  <2>1. image' = image
    BY <1>1, <1>10
  <2>2. PICK mark \in 0 .. HEADROOM : mark = sram_marker
    BY <1>5
  <2>3. Below(kern, mark)'
    BY <1>6, <2>2 DEF Below, TwoSegments, EndOf
  <2> QED BY <1>1, <1>2, <1>10, <2>1, <2>3 DEF BootInv, Early, Later
<1> QED BY <1>1, <1>9, <1>10

(* The root task is loaded, behind the data of the kernel.                   *)
LEMMA BootsRoot ==
  ASSUME BootInv, BootRoot
  PROVE  BootInv' /\ stage' \in {"kernel", "halt"} /\ stage = "root"
<1>1. /\ stage = "root" /\ AllRead /\ root' = Loaded(elf, image) /\ kern' = kern /\ root_file' = root_file
      /\ sram_marker' = sram_marker /\ image' = image
      /\ \/ stage' = "kernel" /\ boot_info' = <<Record(kern), Record(root')>>
         \/ stage' = "halt"
  BY DEF BootRoot, loading
<1>2. /\ image = root_file /\ image \in Images /\ root_file \in RootFiles /\ sram_marker \in Nat /\ HEADROOM \in Nat
  BY <1>1, BootAssumption DEF BootInv
<1>3. PICK k \in KernFiles : k.valid /\ \E mark \in 0 .. Room(k) : Below(kern, mark) /\ LoadingFrom(mark, image)
  BY <1>1 DEF BootInv
<1>4. PICK mark \in 0 .. Room(k) : Below(kern, mark) /\ LoadingFrom(mark, image)
  BY <1>3
<1>5. Room(k) \in Nat /\ Room(k) <= HEADROOM /\ mark \in Nat /\ mark \in 0 .. HEADROOM
  BY <1>2, <1>3, KernRoom
<1>6. PICK file \in RootFiles : file = image
  BY <1>2
<1>7. /\ file.valid /\ TwoSegments(elf) /\ mark <= elf.segments[2].loaded_addr
      /\ sram_marker = EndOf(elf) /\ sram_marker <= mark + Room(file) /\ Room(file) \in Nat
      /\ TwoSegments(Loaded(elf, file)) /\ Loaded(elf, file).segments = elf.segments
  BY <1>1, <1>4, <1>5, <1>6, LoadingDone
<1>8. sram_marker <= HEADROOM
  <2>1. Room(k) + Room(file) <= HEADROOM
    BY <1>3, <1>7, BootAssumption
  <2> QED BY <1>2, <1>4, <1>5, <1>7, <2>1
<1>9. TwoSegments(root') /\ EndOf(root') = sram_marker /\ mark <= root'.segments[2].loaded_addr
  BY <1>1, <1>6, <1>7 DEF EndOf
<1>10. Below(root', HEADROOM)
  BY <1>8, <1>9 DEF Below
<1>11. /\ Below(kern, mark)' /\ Below(root, HEADROOM)' /\ mark <= root'.segments[2].loaded_addr
  BY <1>1, <1>4, <1>9, <1>10 DEF Below, TwoSegments, EndOf
<1>12. CASE stage' = "kernel"
  <2>1. boot_info' = <<Record(kern), Record(root)>>'
    BY <1>1, <1>12 DEF Record
  <2> QED BY <1>1, <1>2, <1>5, <1>11, <1>12, <2>1 DEF BootInv, Early, Later
<1>13. CASE stage' = "halt"
  BY <1>1, <1>2, <1>5, <1>11, <1>13 DEF BootInv, Early, Later
<1> QED BY <1>1, <1>12, <1>13

LEMMA BootKeeps ==
  ASSUME BootInv, Boot
  PROVE  BootInv' /\ stage \in Early /\ stage' \in Early
<1>1. CASE BootInvalid
  BY <1>1, BootStops DEF Early
<1>2. CASE BootHeader \/ BootMap \/ BootAlloc
  BY <1>2, BootReads DEF Early
<1>3. CASE BootKern
  BY <1>3, BootsKern DEF Early
<1>4. CASE BootRoot
  BY <1>4, BootsRoot DEF Early
<1> QED BY <1>1, <1>2, <1>3, <1>4 DEF Boot

-----------------------------------------------------------------------------
(* The heap begins behind the executables.                                  *)

(* Max of two numbers.                                                       *)
LEMMA Larger ==
  ASSUME NEW a \in Int, NEW b \in Int
  PROVE  Max({a, b}) \in {a, b} /\ Max({a, b}) >= a /\ Max({a, b}) >= b
<1>1. \E x \in {a, b} : \A y \in {a, b} : x >= y
  <2>1. CASE a >= b
    BY <2>1
  <2>2. CASE b >= a
    BY <2>2
  <2> QED BY <2>1, <2>2
<1>2. Max({a, b}) \in {a, b} /\ \A y \in {a, b} : Max({a, b}) >= y
  BY <1>1 DEF Max
<1> QED BY <1>2

LEMMA HeapStart ==
  ASSUME BootInv, stage = "kernel"
  PROVE  /\ find_heap_start \in Pages
         /\ EndOf(kern) <= find_heap_start * PAGE_SIZE /\ EndOf(root) <= find_heap_start * PAGE_SIZE
<1>1. boot_info = <<Record(kern), Record(root)>>
  BY DEF BootInv
<1>2. PICK mark \in 0 .. HEADROOM :
        Below(kern, mark) /\ Below(root, HEADROOM) /\ mark <= root.segments[2].loaded_addr
  BY DEF BootInv
<1> DEFINE a == EndOf(kern)
           b == EndOf(root)
<1>3. HEADROOM \in Nat /\ PAGE_SIZE \in Nat \ {0} /\ kern_stack \in Pages /\ HEADROOM <= PAGE_SIZE * kern_stack
  BY BootAssumption, LoaderAssumption, StartupAssumption
<1>4. a \in Nat /\ b \in Nat /\ a <= HEADROOM /\ b <= HEADROOM
  BY <1>2, <1>3 DEF Below, TwoSegments, EndOf
<1>5. {boot_info[i].start + boot_info[i].size : i \in DOMAIN boot_info} = {a, b}
  <2>1. DOMAIN boot_info = {1, 2} /\ boot_info[1] = Record(kern) /\ boot_info[2] = Record(root)
    BY <1>1
  <2>2. Record(kern).start + Record(kern).size = a /\ Record(root).start + Record(root).size = b
    BY DEF Record, EndOf
  <2> HIDE DEF a, b
  <2> QED BY <2>1, <2>2
<1> HIDE DEF a, b
<1> DEFINE m == Max({a, b})
<1>6. m \in Nat /\ m <= HEADROOM /\ a <= m /\ b <= m
  <2>1. m \in {a, b} /\ m >= a /\ m >= b
    BY <1>4, Larger
  <2> HIDE DEF m
  <2> QED BY <1>3, <1>4, <2>1
<1>7. find_heap_start = (m + PAGE_SIZE - 1) \div PAGE_SIZE
  BY <1>5 DEF find_heap_start, align_to_page
<1> HIDE DEF m
<1>8. kern_stack \in Nat /\ m <= PAGE_SIZE * kern_stack
  BY <1>3, <1>6, PageFacts DEF Pages
<1>9. /\ find_heap_start \in Nat /\ find_heap_start <= kern_stack
      /\ m <= find_heap_start * PAGE_SIZE /\ find_heap_start * PAGE_SIZE \in Nat
  BY <1>3, <1>6, <1>7, <1>8, RoundedUp
<1>10. find_heap_start \in Pages
  BY <1>3, <1>8, <1>9, PageFacts DEF Pages
<1>11. a <= find_heap_start * PAGE_SIZE /\ b <= find_heap_start * PAGE_SIZE
  BY <1>4, <1>6, <1>9
<1> QED BY <1>10, <1>11 DEF a, b

-----------------------------------------------------------------------------
(* The parser and its descriptors.                                          *)
LEMMA LookedUp ==
  ASSUME NEW dir \in Files \cup {NoFile}, NEW name
  PROVE  Lookup(dir, name) \in Files \cup {NoFile}
<1> DEFINE hit == SelectInSeq(Entries[dir], LAMBDA e : <<e.name>> = name)
           I == {i \in 1 .. Len(Entries[dir]) : <<Entries[dir][i].name>> = name}
<1>1. hit = IF I # {} THEN Min(I) ELSE 0
  BY DEF SelectInSeq
<1>2. I # {} => Min(I) \in 1 .. Len(Entries[dir])
  <2>1. I \in SUBSET Nat /\ I \subseteq 1 .. Len(Entries[dir])
    OBVIOUS
  <2> HIDE DEF I
  <2> QED BY <2>1, LeastElement
<1>3. Lookup(dir, name) = IF dir = NoFile THEN NoFile ELSE IF hit = 0 THEN NoFile ELSE Entries[dir][hit].file
  BY DEF Lookup
<1> HIDE DEF hit, I
<1>4. CASE dir # NoFile /\ hit # 0
  <2>1. hit \in 1 .. Len(Entries[dir]) /\ dir \in Files
    BY <1>1, <1>2, <1>4
  <2>2. Entries[dir][hit].file \in Files
    BY <2>1, InittabAssumption
  <2> QED BY <1>3, <1>4, <2>2
<1> QED BY <1>3, <1>4

LEMMA OpensFile ==
  ASSUME FdsOK, NEW name
  PROVE  /\ OpenAt(name) \in [Fds -> Files \cup {NoFile}]
         /\ Opens(name) => OpenAt(name)[file_fd] \in Files
<1>1. dir_fd \in Fds /\ file_fd \in Fds /\ open \in [Fds -> Files \cup {NoFile}]
  BY DEF FdsOK
<1> DEFINE f == Lookup(open[dir_fd], name)
<1>2. f \in Files \cup {NoFile}
  BY <1>1, LookedUp
<1>3. OpenAt(name) = IF open[file_fd] # NoFile \/ f = NoFile THEN open ELSE [open EXCEPT ![file_fd] = f]
  BY DEF OpenAt
<1> HIDE DEF f
<1> QED BY <1>1, <1>2, <1>3 DEF Opens

LEMMA FdsClose ==
  ASSUME FdsOK, NEW fds \in [Fds -> Files \cup {NoFile}]
  PROVE  /\ CloseDir(fds) \in [Fds -> Files \cup {NoFile}]
         /\ [CloseDir(fds) EXCEPT ![file_fd] = NoFile] \in [Fds -> Files \cup {NoFile}]
BY DEF FdsOK, CloseDir

LEMMA FdNumbers ==
  ROOT_FD \in Fds /\ OTHER_FD_START \in Fds /\ OTHER_FD_START + 1 \in Fds
BY DEF ROOT_FD, OTHER_FD_START, Fds

LEMMA ParserStarts ==
  ASSUME ParserInit
  PROVE  FdsOK
<1>1. dir_fd = OTHER_FD_START /\ file_fd = OTHER_FD_START + 1 /\ open = OpenBefore
  BY DEF ParserInit
<1>2. OpenBefore \in [Fds -> Files \cup {NoFile}]
  BY InittabAssumption DEF OpenBefore
<1> QED BY <1>1, <1>2, FdNumbers DEF FdsOK

LEMMA ParserKeeps ==
  ASSUME FdsOK, parse_begins \/ parse_returns \/ parse_before_path_end \/ parse_path_end
  PROVE  FdsOK'
<1> USE FdNumbers
<1>1. CASE UNCHANGED <<dir_fd, file_fd, open>>
  BY <1>1 DEF FdsOK
<1>2. CASE parse_begins \/ parse_returns \/ parse_mode \/ parse_path_char \/ parse_to_newline \/ parse_outside
  BY <1>1, <1>2 DEF parse_begins, parse_returns, parse_mode, parse_path_char, parse_to_newline, parse_outside, KeepFds
<1>3. CASE parse_path_slash
  BY <1>3 DEF parse_path_slash, FdsOK
<1>4. CASE parse_path_dir
  <2>1. OpenAt(Element) \in [Fds -> Files \cup {NoFile}]
    BY OpensFile
  <2>2. CloseDir(OpenAt(Element)) \in [Fds -> Files \cup {NoFile}]
    BY <2>1, FdsClose
  <2>3. CASE open' = CloseDir(OpenAt(Element)) /\ swap_fds
    BY <2>2, <2>3 DEF swap_fds, FdsOK
  <2> QED BY <1>1, <1>4, <2>3 DEF parse_path_dir
<1>5. CASE parse_path_end
  <2>1. OpenAt(Element) \in [Fds -> Files \cup {NoFile}]
    BY OpensFile
  <2>2. [CloseDir(OpenAt(Element)) EXCEPT ![file_fd] = NoFile] \in [Fds -> Files \cup {NoFile}]
    BY <2>1, FdsClose
  <2>3. /\ open' = [CloseDir(OpenAt(Element)) EXCEPT ![file_fd] = NoFile]
        /\ dir_fd' = OTHER_FD_START /\ file_fd' = OTHER_FD_START + 1
    BY <1>5 DEF parse_path_end
  <2> QED BY <2>2, <2>3 DEF FdsOK
<1> QED BY <1>2, <1>3, <1>4, <1>5 DEF parse_before_path_end

-----------------------------------------------------------------------------
(* The pool of blocks.                                                      *)
LEMMA PoolSetsUp ==
  ASSUME PageInv, heap_start = NULL, NEW h \in Pages, init_linked_list_alloc_state(h)
  PROVE  Pool!PPNext
<1>1. /\ FreeBlocks = {} /\ asked = 0 /\ UNCHANGED <<asked, base>>
      /\ FreeBlocks' = {[base |-> h, num |-> PageCount - h]}
  BY PageSetUp
<1>2. h \in 0 .. PageCount - 1
  BY DEF Pages
<1>3. \E first \in 0 .. PageCount - 1 : FreeBlocks' = {Pool!Block(first, PageCount - first)}
  BY <1>1, <1>2 DEF Pool!Block
<1>4. Pool!PPSetUp
  BY <1>1, <1>3 DEF Pool!PPSetUp
<1> QED BY <1>4 DEF Pool!PPNext

LEMMA PoolAnswers ==
  ASSUME PageInv, heap_start # NULL, NEW n \in Nat \ {0}, linked_list_alloc_pages(n)
  PROVE  Pool!PPNext
<1>1. asked' = n
  BY Allocated
<1>2. Pool!PPAsk
  BY <1>1 DEF Pool!PPAsk
<1>3. CASE base' = NULL
  <2>1. FreeBlocks' = FreeBlocks /\ \A b \in FreeBlocks : b.num < n
    BY <1>3, RefusedAccounts
  <2>2. Pool!PPRefuse
    BY <1>1, <1>3, <2>1 DEF Pool!PPRefuse
  <2> QED BY <1>2, <2>2 DEF Pool!PPNext
<1>4. CASE base' # NULL
  <2>1. PICK b \in FreeBlocks :
          b.num >= n /\ base' = b.base /\ FreeBlocks' = (FreeBlocks \ {b}) \cup RestOf(b, n)
    BY <1>4, TakenAccounts
  <2>2. RestOf(b, n) = IF b.num = asked' THEN {} ELSE {Pool!Block(b.base + asked', b.num - asked')}
    BY <1>1 DEF RestOf, Pool!Block
  <2>3. FreeBlocks' = (FreeBlocks \ {b}) \cup
          IF b.num = asked' THEN {} ELSE {Pool!Block(b.base + asked', b.num - asked')}
    BY <2>1, <2>2
  <2>4. Pool!PPAlloc
    BY <1>1, <2>1, <2>3 DEF Pool!PPAlloc
  <2> QED BY <1>2, <2>4 DEF Pool!PPNext
<1> QED BY <1>3, <1>4

LEMMA PoolTakesBack ==
  ASSUME PageInv, heap_start # NULL, handle_ipc_free
  PROVE  Pool!PPNext
<1>1. UNCHANGED <<asked, base>> /\ \E b \in Taken, n \in Nat : /\ n \in 1 .. b.num
                                                              /\ FreeBlocks' = FreeBlocks \cup {FrontOf(b, n)}
  BY ClientGives
<1>2. PICK b \in Taken, n \in Nat : n \in 1 .. b.num /\ FreeBlocks' = FreeBlocks \cup {FrontOf(b, n)}
  BY <1>1
<1>3. heap_start \in Nat /\ Separate(heap_start, FreeBlocks, Taken, resident)
  BY PageFacts DEF PageInv, Accounts
<1>4. b \in HeapBlocks(heap_start)
  BY <1>3 DEF Separate
<1>5. b.base \in Nat /\ b.num \in Nat \ {0} /\ b.base + b.num <= PageCount /\ PageCount \in Nat
  BY <1>3, <1>4, HeapBlockFacts, PageFacts
<1>6. n \in 1 .. PageCount /\ b.base \in 0 .. PageCount - n
  BY <1>2, <1>5
<1>7. ASSUME NEW c \in FreeBlocks PROVE b.base + n <= c.base \/ c.base + c.num <= b.base
  <2>1. c \in HeapBlocks(heap_start) /\ PagesOf(b) \cap PagesOf(c) = {}
    BY <1>3 DEF Separate, Disjoint
  <2>2. b.base + b.num <= c.base \/ c.base + c.num <= b.base
    BY <1>3, <1>4, <2>1, Before
  <2>3. c.base \in Nat /\ c.num \in Nat
    BY <1>3, <2>1, HeapBlockFacts
  <2> QED BY <1>2, <1>5, <2>2, <2>3
<1>8. FreeBlocks' = FreeBlocks \cup {Pool!Block(b.base, n)}
  BY <1>2 DEF FrontOf, Pool!Block
<1>9. Pool!PPFree(b.base, n)
  BY <1>1, <1>7, <1>8 DEF Pool!PPFree
<1> QED BY <1>6, <1>9 DEF Pool!PPNext

PoolStep == [Pool!PPNext]_<<FreeBlocks, asked, base>>

-----------------------------------------------------------------------------
(* The steps after init_memory_management.                                  *)
LEMMA LaterKeeps ==
  ASSUME BootInv, HeapInv, stage \in Later, stage' \in Later, UNCHANGED boot_vars, image' \in Images,
         heap_start' = heap_start
  PROVE  BootInv' /\ HeapInv' /\ heap_start # NULL
<1>1. /\ kern' = kern /\ root' = root /\ root_file' = root_file /\ sram_marker' = sram_marker
      /\ boot_info' = boot_info
  BY DEF boot_vars
<1>2. BootInv'
  BY <1>1 DEF BootInv, Below, TwoSegments, EndOf, Record, Early, Later
<1>3. HeapInv' /\ heap_start # NULL
  BY <1>1 DEF HeapInv, EndOf, Early, Later
<1> QED BY <1>2, <1>3

LEMMA FdsUnchanged ==
  ASSUME FdsOK, UNCHANGED parser_vars
  PROVE  FdsOK'
BY DEF FdsOK, parser_vars

(* The part of a step that concerns the pages.                               *)
LEMMA PagesRest ==
  ASSUME PageInv, UNCHANGED page_vars
  PROVE  PageInv' /\ PoolStep /\ heap_start' = heap_start
<1>1. FreeBlocks' = FreeBlocks /\ asked' = asked /\ base' = base /\ heap_start' = heap_start
  BY PagesUnchanged DEF page_vars
<1> QED BY <1>1, PagesUnchanged DEF PoolStep

LEMMA BootStep ==
  ASSUME StartupInv, Boot, UNCHANGED <<loader_vars, page_vars, parser_vars>>
  PROVE  StartupInv' /\ PoolStep
<1>1. BootInv' /\ stage \in Early /\ stage' \in Early
  BY BootKeeps DEF StartupInv
<1>2. UNCHANGED page_vars /\ UNCHANGED parser_vars
  OBVIOUS
<1>3. PageInv' /\ PoolStep /\ heap_start' = heap_start
  BY <1>2, PagesRest DEF StartupInv
<1>4. FdsOK'
  BY <1>2, FdsUnchanged DEF StartupInv
<1>5. HeapInv'
  BY <1>1, <1>3 DEF HeapInv, StartupInv, Early, Later
<1> QED BY <1>1, <1>3, <1>4, <1>5 DEF StartupInv

LEMMA MemoryStep ==
  ASSUME StartupInv, InitMemory
  PROVE  StartupInv' /\ PoolStep
<1>1. /\ stage = "kernel" /\ stage' = "root main" /\ init_linked_list_alloc_state(find_heap_start)
      /\ image' = image /\ kern' = kern /\ root' = root /\ root_file' = root_file /\ sram_marker' = sram_marker
      /\ boot_info' = boot_info /\ UNCHANGED parser_vars
  BY DEF InitMemory, loading, boot_vars
<1>2. /\ find_heap_start \in Pages
      /\ EndOf(kern) <= find_heap_start * PAGE_SIZE /\ EndOf(root) <= find_heap_start * PAGE_SIZE
  BY <1>1, HeapStart DEF StartupInv
<1>3. PageInv /\ heap_start = NULL
  BY <1>1 DEF StartupInv, HeapInv, Early
<1> DEFINE h == find_heap_start
<1> HIDE DEF h
<1>4. h \in Pages /\ init_linked_list_alloc_state(h)
  BY <1>1, <1>2 DEF h
<1>5. PageInv' /\ heap_start' = h /\ heap_start' # NULL /\ Pool!PPNext
  BY <1>3, <1>4, PageSetUp, PoolSetsUp
<1>6. PoolStep
  BY <1>5 DEF PoolStep
<1>7. HeapInv'
  <2>1. EndOf(kern)' <= heap_start' * PAGE_SIZE /\ EndOf(root)' <= heap_start' * PAGE_SIZE
    BY <1>1, <1>2, <1>5 DEF h, EndOf
  <2> QED BY <1>1, <1>5, <2>1 DEF HeapInv, Early, Later
<1>8. BootInv'
  BY <1>1 DEF StartupInv, BootInv, Below, TwoSegments, EndOf, Record, Early, Later
<1>9. FdsOK'
  BY <1>1, FdsUnchanged DEF StartupInv
<1> QED BY <1>5, <1>6, <1>7, <1>8, <1>9 DEF StartupInv

(* A step of parse.                                                          *)
LEMMA ParserStep ==
  ASSUME StartupInv, stage \in Later, stage' \in Later, UNCHANGED <<loading, boot_vars, page_vars>>,
         parse_begins \/ parse_returns \/ parse_before_path_end \/ parse_path_end
  PROVE  StartupInv' /\ PoolStep
<1>1. UNCHANGED page_vars /\ UNCHANGED boot_vars /\ image' = image
  BY DEF loading
<1>2. PageInv' /\ PoolStep /\ heap_start' = heap_start
  BY <1>1, PagesRest DEF StartupInv
<1>3. FdsOK'
  BY ParserKeeps DEF StartupInv
<1>4. image' \in Images
  BY <1>1 DEF StartupInv, BootInv
<1>5. BootInv' /\ HeapInv'
  BY <1>1, <1>2, <1>4, LaterKeeps DEF StartupInv
<1> QED BY <1>2, <1>3, <1>5 DEF StartupInv

LEMMA OpeningStep ==
  ASSUME StartupInv, ParseLoad
  PROVE  StartupInv' /\ PoolStep
<1>1. /\ stage = "parse" /\ stage' = "load" /\ Opens(Element)
      /\ image' = ImageOf[OpenAt(Element)[file_fd]]
      /\ UNCHANGED page_vars /\ UNCHANGED boot_vars /\ UNCHANGED parser_vars
  BY DEF ParseLoad, Executes, Begin
<1>2. OpenAt(Element)[file_fd] \in Files
  BY <1>1, OpensFile DEF StartupInv
<1>3. image' \in Images
  BY <1>1, <1>2, StartupAssumption
<1>4. PageInv' /\ PoolStep /\ heap_start' = heap_start
  BY <1>1, PagesRest DEF StartupInv
<1>5. BootInv' /\ HeapInv'
  BY <1>1, <1>3, <1>4, LaterKeeps DEF StartupInv, Later
<1> QED BY <1>1, <1>4, <1>5, FdsUnchanged DEF StartupInv

(* A writable segment has at least one page.                                 *)
LEMMA SegmentSize ==
  ASSUME NEW file \in Images, NEW i \in DOMAIN file.phdrs, file.phdrs[i].W
  PROVE  Segment(file.phdrs[i]).num \in Nat \ {0}
<1> DEFINE ph == file.phdrs[i]
           size == ph.memsz + (ph.vaddr % ph.align)
<1>1. ph \in Headers /\ ph.memsz > 0
  BY FileFacts
<1>2. Segment(ph).num = (size + PAGE_SIZE - 1) \div PAGE_SIZE
  BY DEF Segment
<1> HIDE DEF ph
<1>3. ph.memsz \in Nat /\ ph.vaddr \in Nat /\ ph.align \in Nat \ {0} /\ PAGE_SIZE \in Nat \ {0}
  BY <1>1, LoaderAssumption DEF Headers
<1>4. size \in Nat \ {0}
  <2>1. ph.vaddr % ph.align \in Nat
    BY <1>3
  <2> QED BY <1>1, <1>3, <2>1
<1> HIDE DEF size
<1> DEFINE q == (size + PAGE_SIZE - 1) \div PAGE_SIZE
<1>5. q \in Nat /\ size <= q * PAGE_SIZE
  BY <1>3, <1>4, RoundedUp
<1> HIDE DEF q
<1>6. q # 0
  BY <1>3, <1>4, <1>5
<1>7. q \in Nat \ {0}
  BY <1>5, <1>6
<1> QED BY <1>2, <1>7 DEF q, ph

LEMMA AllocStep ==
  ASSUME PageInv, heap_start # NULL, image \in Images, LoadAlloc
  PROVE  PageInv' /\ PoolStep /\ heap_start' = heap_start
<1> DEFINE n == Segment(image.phdrs[header]).num
<1>1. /\ header \in DOMAIN image.phdrs /\ image.phdrs[header].W
      /\ linked_list_alloc_pages(n) /\ UNCHANGED <<told, stranded>>
      /\ base' = NULL => resident' = resident
      /\ base' # NULL => resident' = resident \cup {[base |-> base', num |-> n]}
  BY DEF LoadAlloc, At
<1>2. n \in Nat \ {0}
  BY <1>1, SegmentSize
<1> HIDE DEF n
<1>3. PageInv'
  BY <1>1, <1>2, LoaderTakes
<1>4. PoolStep
  BY <1>1, <1>2, PoolAnswers DEF PoolStep
<1>5. heap_start' = heap_start
  BY <1>1, <1>2, Allocated
<1> QED BY <1>3, <1>4, <1>5

LEMMA LoaderStep ==
  ASSUME StartupInv, load_executable, UNCHANGED parser_vars
  PROVE  StartupInv' /\ PoolStep
<1>1. stage \in Later /\ stage' \in Later /\ UNCHANGED boot_vars /\ image' = image
  BY DEF load_executable, LoadInvalid, LoadHeader, LoadMap, LoadAlloc, LoadSymbols, CreateThread, Configure,
         MapSegments, Start, Fails, Maps, loading, Later
<1>2. image \in Images /\ PageInv /\ heap_start # NULL
  BY <1>1 DEF StartupInv, BootInv, HeapInv, Early, Later
<1>3. PageInv' /\ PoolStep /\ heap_start' = heap_start
  <2>1. CASE LoadAlloc
    BY <1>2, <2>1, AllocStep
  <2>2. CASE ~LoadAlloc
    <3>1. UNCHANGED page_vars
      BY <2>2 DEF load_executable, LoadInvalid, LoadHeader, LoadMap, LoadSymbols, CreateThread, Configure,
                  MapSegments, Start
    <3> QED BY <1>2, <3>1, PagesRest
  <2> QED BY <2>1, <2>2
<1>4. BootInv' /\ HeapInv'
  BY <1>1, <1>2, <1>3, LaterKeeps DEF StartupInv
<1> QED BY <1>3, <1>4, FdsUnchanged DEF StartupInv

LEMMA ServiceStep ==
  ASSUME StartupInv, Serve
  PROVE  StartupInv' /\ PoolStep
<1>1. /\ stage = "serve" /\ stage' = stage /\ image' = image /\ memory_service
      /\ UNCHANGED boot_vars /\ UNCHANGED parser_vars
  BY DEF Serve, loading
<1>2. image \in Images /\ PageInv /\ heap_start # NULL
  BY <1>1 DEF StartupInv, BootInv, HeapInv, Early
<1>3. CASE handle_ipc_alloc
  <2>1. PageInv' /\ heap_start' = heap_start
    BY <1>2, <1>3, ClientTakes
  <2>2. PICK s \in IpcSizes : linked_list_alloc_pages(Shifted[s + PAGE_SIZE_LOG2])
    BY <1>3 DEF handle_ipc_alloc
  <2>3. Shifted[s + PAGE_SIZE_LOG2] \in Nat \ {0}
    <3>1. s + PAGE_SIZE_LOG2 \in Nat
      BY PageFacts
    <3> QED BY <3>1, ShiftedGrows
  <2>4. PoolStep
    BY <1>2, <2>2, <2>3, PoolAnswers DEF PoolStep
  <2>5. BootInv' /\ HeapInv'
    BY <1>1, <1>2, <2>1, LaterKeeps DEF StartupInv, Later
  <2> QED BY <1>1, <2>1, <2>4, <2>5, FdsUnchanged DEF StartupInv
<1>4. CASE handle_ipc_free
  <2>1. PageInv' /\ heap_start' = heap_start
    BY <1>2, <1>4, ClientGives
  <2>2. PoolStep
    BY <1>2, <1>4, PoolTakesBack DEF PoolStep
  <2>3. BootInv' /\ HeapInv'
    BY <1>1, <1>2, <2>1, LaterKeeps DEF StartupInv, Later
  <2> QED BY <1>1, <2>1, <2>2, <2>3, FdsUnchanged DEF StartupInv
<1> QED BY <1>1, <1>3, <1>4 DEF memory_service

LEMMA StartupStep ==
  ASSUME StartupInv, [Next]_vars
  PROVE  StartupInv' /\ PoolStep
<1>1. CASE Boot /\ UNCHANGED <<loader_vars, page_vars, parser_vars>>
  BY <1>1, BootStep
<1>2. CASE InitMemory
  BY <1>2, MemoryStep
<1>3. CASE ReadInittab \/ ParseReturns
  BY <1>3, ParserStep DEF ReadInittab, ParseReturns, Later
<1>4. CASE ParseStep
  BY <1>4, ParserStep DEF ParseStep, Later
<1>5. CASE ParsePathEnd
  BY <1>5, ParserStep DEF ParsePathEnd, Later
<1>6. CASE ParseLoad
  BY <1>6, OpeningStep
<1>7. CASE load_executable /\ UNCHANGED parser_vars
  BY <1>7, LoaderStep
<1>8. CASE Serve
  BY <1>8, ServiceStep
<1>9. CASE ServeUnchecked
  <2>1. /\ stage = "serve" /\ stage' = "undefined"
        /\ UNCHANGED boot_vars /\ UNCHANGED page_vars /\ UNCHANGED parser_vars
        /\ image' = image
    BY <1>9 DEF ServeUnchecked, loading
  <2>2. image' \in Images
    BY <2>1 DEF StartupInv, BootInv
  <2>3. PageInv' /\ PoolStep /\ heap_start' = heap_start
    BY <2>1, PagesRest DEF StartupInv
  <2>4. BootInv' /\ HeapInv'
    BY <2>1, <2>3, <2>2, LaterKeeps DEF StartupInv, Later
  <2> QED BY <2>1, <2>3, <2>4, FdsUnchanged DEF StartupInv
<1>10. CASE UNCHANGED vars
  <2>1. UNCHANGED page_vars /\ UNCHANGED parser_vars /\ UNCHANGED boot_vars
    BY <1>10 DEF vars
  <2>2. stage' = stage /\ image' = image /\ header' = header /\ elf' = elf
    BY <1>10 DEF vars, loading
  <2>3. PageInv' /\ PoolStep /\ heap_start' = heap_start
    BY <2>1, PagesRest DEF StartupInv
  <2>4. /\ kern' = kern /\ root' = root /\ root_file' = root_file /\ sram_marker' = sram_marker
        /\ boot_info' = boot_info
    BY <2>1 DEF boot_vars
  <2>5. BootInv' /\ HeapInv'
    BY <2>2, <2>3, <2>4 DEF StartupInv, BootInv, HeapInv, LoadingFrom, LoadedFrom, Below, TwoSegments, EndOf,
                            Record
  <2> QED BY <2>1, <2>3, <2>5, FdsUnchanged DEF StartupInv
<1> QED BY <1>1, <1>2, <1>3, <1>4, <1>5, <1>6, <1>7, <1>8, <1>9, <1>10 DEF Next, StartUp

LEMMA StartupStarts ==
  ASSUME Init
  PROVE  StartupInv /\ Pool!PPInit
<1>1. BootInv /\ PageInv /\ FreeBlocks = {} /\ FdsOK
  BY BootStart, PageStart, ParserStarts DEF Init
<1>2. stage = "kern" /\ heap_start = NULL /\ asked = 0 /\ base = NULL
  BY DEF Init, BootInit, PageInit
<1>3. HeapInv
  BY <1>2 DEF HeapInv, Early, Later
<1> QED BY <1>1, <1>2, <1>3 DEF StartupInv, Pool!PPInit

-----------------------------------------------------------------------------
(* What the invariant says of the memory.                                   *)
LEMMA TwoBytes ==
  ASSUME NEW state, TwoSegments(state), NEW b \in Bytes(state)
  PROVE  b \in Nat /\ state.segments[2].loaded_addr <= b /\ b < EndOf(state)
<1>1. PICK i \in WriteableOf(state) :
        b \in state.segments[i].loaded_addr .. state.segments[i].loaded_addr + state.segments[i].size - 1
  BY DEF Bytes
<1>2. i = 2
  BY DEF WriteableOf, TwoSegments
<1>3. state.segments[2].loaded_addr \in Nat /\ state.segments[2].size \in Nat
  BY DEF TwoSegments
<1> QED BY <1>1, <1>2, <1>3 DEF EndOf

LEMMA NoBytes ==
  ASSUME NEW state, \A i \in DOMAIN state.segments : ~state.segments[i].W
  PROVE  Bytes(state) = {}
<1>1. WriteableOf(state) = {}
  BY DEF WriteableOf
<1> QED BY <1>1 DEF Bytes

LEMMA NoElfBytes ==
  Bytes(NoElf) = {}
<1>1. NoElf.segments = <<>>
  BY DEF NoElf
<1>2. DOMAIN NoElf.segments = {}
  BY <1>1
<1> QED BY <1>2, NoBytes

LEMMA LoadingBytes ==
  ASSUME NEW file \in KernFiles \cup RootFiles, NEW mark \in Nat, LoadingFrom(mark, file), NEW b \in Bytes(elf)
  PROVE  b \in Nat /\ mark <= b /\ file.valid /\ b < mark + Room(file)
<1>1. elf # NoElf
  BY NoElfBytes
<1>2. file.valid /\ \E text, data \in DOMAIN file.phdrs :
                      TextAndData(file, text, data) /\ LoadedFrom(mark, file, text, data)
  BY <1>1 DEF LoadingFrom
<1>3. PICK text \in DOMAIN file.phdrs, data \in DOMAIN file.phdrs :
        TextAndData(file, text, data) /\ LoadedFrom(mark, file, text, data)
  BY <1>2
<1>4. elf.segments # <<>>
  <2>1. SUFFICES ASSUME elf.segments = <<>> PROVE FALSE
    OBVIOUS
  <2>2. DOMAIN elf.segments = {}
    BY <2>1
  <2> QED BY <2>2, NoBytes
<1>5. ~ (elf.segments = <<elf.segments[1]>> /\ ~elf.segments[1].W)
  <2>1. SUFFICES ASSUME elf.segments = <<elf.segments[1]>>, ~elf.segments[1].W PROVE FALSE
    OBVIOUS
  <2> DEFINE x == elf.segments[1]
  <2>2. elf.segments = <<x>>
    BY <2>1
  <2> HIDE DEF x
  <2>3. DOMAIN elf.segments = {1}
    BY <2>2
  <2> QED BY <2>1, <2>3, NoBytes
<1>6. /\ TwoSegments(elf) /\ mark <= elf.segments[2].loaded_addr /\ sram_marker = EndOf(elf)
      /\ sram_marker <= mark + Room(file)
  BY <1>3, <1>4, <1>5 DEF LoadedFrom
<1>7. b \in Nat /\ elf.segments[2].loaded_addr <= b /\ b < EndOf(elf)
  BY <1>6, TwoBytes
<1>8. EndOf(elf) \in Nat /\ elf.segments[2].loaded_addr \in Nat /\ Room(file) \in Nat
  BY <1>2, <1>6, KernRoom DEF TwoSegments, EndOf
<1> QED BY <1>2, <1>6, <1>7, <1>8

(* Two executables apart from each other, the one below a mark.              *)
Apart(loads, other, mark) ==
  /\ \A b \in loads : b \in Nat /\ b < mark
  /\ \A b \in other : b \in Nat /\ mark <= b /\ b < HEADROOM

LEMMA ApartFacts ==
  ASSUME NEW loads, NEW other, NEW mark \in 0 .. HEADROOM, Apart(loads, other, mark)
  PROVE  loads \cap other = {} /\ loads \cup other \subseteq 0 .. HEADROOM - 1
<1>1. HEADROOM \in Nat /\ mark \in Nat /\ mark <= HEADROOM
  BY BootAssumption
<1>2. ASSUME NEW b \in loads PROVE b \notin other /\ b \in 0 .. HEADROOM - 1
  BY <1>1 DEF Apart
<1>3. ASSUME NEW b \in other PROVE b \in 0 .. HEADROOM - 1
  BY <1>1 DEF Apart
<1> QED BY <1>2, <1>3

LEMMA BelowBytes ==
  ASSUME NEW state, NEW mark \in Nat, Below(state, mark), NEW b \in Bytes(state)
  PROVE  b \in Nat /\ state.segments[2].loaded_addr <= b /\ b < EndOf(state) /\ b < mark
<1>1. TwoSegments(state) /\ EndOf(state) <= mark
  BY DEF Below
<1>2. EndOf(state) \in Nat
  BY <1>1 DEF TwoSegments, EndOf
<1>3. b \in Nat /\ state.segments[2].loaded_addr <= b /\ b < EndOf(state)
  BY <1>1, TwoBytes
<1> QED BY <1>1, <1>2, <1>3

LEMMA ExecutablesApart ==
  ASSUME StartupInv
  PROVE  \E mark \in 0 .. HEADROOM :
           Apart(IF stage = "kern" THEN Bytes(elf) ELSE Bytes(kern),
                 IF stage = "root" THEN Bytes(elf) ELSE Bytes(root), mark)
<1> USE NoElfBytes
<1>1. HEADROOM \in Nat /\ BootInv
  BY BootAssumption DEF StartupInv
<1>2. CASE stage = "kern"
  <2>1. image \in KernFiles /\ root = NoElf /\ LoadingFrom(0, image)
    BY <1>1, <1>2 DEF BootInv
  <2>2. \A b \in Bytes(elf) : b \in Nat /\ b < HEADROOM
    <3>1. ASSUME NEW b \in Bytes(elf) PROVE b \in Nat /\ b < HEADROOM
      <4>1. b \in Nat /\ image.valid /\ b < 0 + Room(image)
        BY <2>1, LoadingBytes
      <4>2. Room(image) \in Nat /\ Room(image) <= HEADROOM
        BY <2>1, <4>1, KernRoom
      <4> QED BY <1>1, <4>1, <4>2
    <3> QED BY <3>1
  <2>3. Apart(Bytes(elf), Bytes(root), HEADROOM)
    BY <2>1, <2>2 DEF Apart
  <2> QED BY <1>1, <1>2, <2>3
<1>3. CASE stage = "root"
  <2>1. PICK k \in KernFiles : k.valid /\ \E mark \in 0 .. Room(k) : Below(kern, mark) /\ LoadingFrom(mark, image)
    BY <1>1, <1>3 DEF BootInv
  <2>2. PICK mark \in 0 .. Room(k) : Below(kern, mark) /\ LoadingFrom(mark, image)
    BY <2>1
  <2>3. Room(k) \in Nat /\ Room(k) <= HEADROOM /\ mark \in Nat /\ mark <= Room(k) /\ image \in RootFiles
    BY <1>1, <1>3, <2>1, KernRoom DEF BootInv
  <2>4. \A b \in Bytes(kern) : b \in Nat /\ b < mark
    BY <2>2, <2>3, BelowBytes
  <2>5. \A b \in Bytes(elf) : b \in Nat /\ mark <= b /\ b < HEADROOM
    <3>1. ASSUME NEW b \in Bytes(elf) PROVE b \in Nat /\ mark <= b /\ b < HEADROOM
      <4>1. b \in Nat /\ mark <= b /\ image.valid /\ b < mark + Room(image)
        BY <2>2, <2>3, LoadingBytes
      <4>2. Room(image) \in Nat /\ Room(k) + Room(image) <= HEADROOM
        BY <2>1, <2>3, <4>1, KernRoom, BootAssumption
      <4> QED BY <1>1, <2>3, <4>1, <4>2
    <3> QED BY <3>1
  <2>6. Apart(Bytes(kern), Bytes(elf), mark) /\ mark \in 0 .. HEADROOM
    BY <1>1, <2>3, <2>4, <2>5 DEF Apart
  <2> QED BY <1>3, <2>6
<1>4. ASSUME NEW mark \in 0 .. HEADROOM, kern = NoElf \/ Below(kern, mark),
             root = NoElf \/ (Below(root, HEADROOM) /\ mark <= root.segments[2].loaded_addr)
      PROVE  Apart(Bytes(kern), Bytes(root), mark)
  <2>1. mark \in Nat
    BY <1>1
  <2>2. \A b \in Bytes(kern) : b \in Nat /\ b < mark
    BY <1>4, <2>1, BelowBytes
  <2>3. \A b \in Bytes(root) : b \in Nat /\ mark <= b /\ b < HEADROOM
    <3>1. ASSUME NEW b \in Bytes(root) PROVE b \in Nat /\ mark <= b /\ b < HEADROOM
      <4>1. Below(root, HEADROOM) /\ mark <= root.segments[2].loaded_addr
        BY <1>4, <3>1
      <4>2. b \in Nat /\ root.segments[2].loaded_addr <= b /\ b < HEADROOM
        BY <1>1, <3>1, <4>1, BelowBytes
      <4>3. root.segments[2].loaded_addr \in Nat
        BY <4>1 DEF Below, TwoSegments
      <4> QED BY <2>1, <4>1, <4>2, <4>3
    <3> QED BY <3>1
  <2> QED BY <2>2, <2>3 DEF Apart
<1>5. CASE stage \notin {"kern", "root"}
  <2>1. PICK mark \in 0 .. HEADROOM :
          /\ kern = NoElf \/ Below(kern, mark)
          /\ root = NoElf \/ (Below(root, HEADROOM) /\ mark <= root.segments[2].loaded_addr)
    BY <1>1, <1>5 DEF BootInv, Early
  <2> QED BY <1>4, <1>5, <2>1
<1> QED BY <1>2, <1>3, <1>5

LEMMA MemoryApart ==
  ASSUME StartupInv
  PROVE  SystemMemory
<1> DEFINE loads == IF stage = "kern" THEN Bytes(elf) ELSE Bytes(kern)
           other == IF stage = "root" THEN Bytes(elf) ELSE Bytes(root)
<1>1. loads \cap other = {} /\ loads \cup other \subseteq 0 .. HEADROOM - 1
  <2>1. PICK mark \in 0 .. HEADROOM : Apart(loads, other, mark)
    BY ExecutablesApart
  <2> HIDE DEF loads, other
  <2> QED BY <2>1, ApartFacts
<1>2. ASSUME heap_start # NULL PROVE \A b \in loads \cup other : b < heap_start * PAGE_SIZE
  <2>1. stage \in Later
    BY <1>2 DEF StartupInv, BootInv, HeapInv
  <2>2. /\ EndOf(kern) <= heap_start * PAGE_SIZE /\ EndOf(root) <= heap_start * PAGE_SIZE
        /\ TwoSegments(kern) /\ TwoSegments(root)
    BY <2>1 DEF StartupInv, BootInv, HeapInv, Below
  <2>3. /\ EndOf(kern) \in Nat /\ EndOf(root) \in Nat /\ heap_start * PAGE_SIZE \in Nat
    <3>1. heap_start \in Nat /\ PAGE_SIZE \in Nat
      BY PageFacts, LoaderAssumption DEF StartupInv, PageInv
    <3> QED BY <2>2, <3>1 DEF TwoSegments, EndOf
  <2>4. loads = Bytes(kern) /\ other = Bytes(root)
    BY <2>1 DEF Later
  <2>5. \A b \in Bytes(kern) : b \in Nat /\ b < EndOf(kern)
    BY <2>2, TwoBytes
  <2>6. \A b \in Bytes(root) : b \in Nat /\ b < EndOf(root)
    BY <2>2, TwoBytes
  <2> HIDE DEF loads, other
  <2> QED BY <2>2, <2>3, <2>4, <2>5, <2>6
<1> HIDE DEF loads, other
<1>3. /\ loads \cap other = {}
      /\ loads \cup other \subseteq 0 .. HEADROOM - 1
      /\ heap_start # NULL => \A b \in loads \cup other : b < heap_start * PAGE_SIZE
  BY <1>1, <1>2
<1> QED BY <1>3 DEF SystemMemory, loads, other

LEMMA PagesInOrder ==
  ASSUME PageInv, heap_start # NULL
  PROVE  FreeListInv
<1>1. /\ heap_start \in Links /\ base \in Links /\ asked \in Nat /\ stranded \in Nat /\ heap_start \in Pages
      /\ heap_start \in Nat
      /\ GoodList(Node, first_free_item, node) /\ Separate(heap_start, FreeBlocks, Taken, resident)
      /\ \A q, r \in told : Region(q) = Region(r) => q = r
      /\ stranded + Cardinality(Covered(Blocks)) = PageCount - heap_start
  BY PageFacts DEF PageInv, Accounts
<1>2. first_free_item \in Links /\ node \in Nodes
  BY <1>1 DEF GoodList
<1>3. ASSUME NEW p \in FreeNodes
      PROVE  /\ node[p].num_pages \in 1 .. PageCount - p /\ node[p].prev = NULL
             /\ node[p].next \in Links /\ node[p].prev \in Links
  <2>1. PICK i \in 0 .. PageCount : p = Node[i] /\ Node[i] # NULL
    BY DEF FreeNodes
  <2>2. Node[i] \in Links
    BY <1>1 DEF GoodList, IsWalk
  <2>3. node[p].num_pages \in 1 .. PageCount - p /\ node[p].prev = NULL
    BY <1>1, <2>1 DEF GoodList
  <2>4. node[p].next \in Links /\ node[p].prev \in Links
    BY <1>2, <2>1, <2>2 DEF Nodes
  <2> QED BY <2>3, <2>4
<1>4. Blocks \subseteq HeapBlocks(heap_start) /\ Blocks = FreeBlocks \cup Taken \cup resident
  BY <1>1 DEF Blocks, Separate
<1>5. PageTypeOK
  <2>1. DOMAIN node = Links
    BY <1>2 DEF Nodes
  <2>2. \A b \in Taken \cup resident : PagesOf(b) \subseteq Pages
    <3>1. ASSUME NEW b \in Taken \cup resident PROVE PagesOf(b) \subseteq Pages
      <4>1. b \in HeapBlocks(heap_start)
        BY <1>4
      <4>2. PagesOf(b) \subseteq heap_start .. PageCount - 1
        BY <1>1, <4>1, HeapBlockFacts
      <4> QED BY <1>1, <4>2, PageFacts DEF Pages
    <3> QED BY <3>1
  <2>3. stranded \in 0 .. PageCount
    <3>1. Cardinality(Covered(Blocks)) \in 0 .. PageCount - heap_start
      BY <1>1, <1>4, Countable
    <3> QED BY <1>1, <3>1, PageFacts
  <2> QED BY <1>1, <1>2, <1>3, <2>1, <2>2, <2>3 DEF PageTypeOK
<1>6. NoOverlap
  BY <1>1, <1>4 DEF NoOverlap, Separate, Disjoint
<1>7. NoPredecessor
  BY <1>1, <1>3, LastIsNull DEF NoPredecessor
<1>8. Accounted
  BY <1>1 DEF Accounted, Covered
<1> QED BY <1>5, <1>6, <1>7, <1>8 DEF FreeListInv

-----------------------------------------------------------------------------
(* boot/boot.c puts the kernel and the root task into SRAM, one behind the   *)
(* other; usr/root/memory.c takes what is behind them for the heap, and      *)
(* lib/buddy/linked_list_alloc.c cuts it up for the segments of programs     *)
(* and the clients of the memory service.  Whatever the two files and the    *)
(* programs look like, no byte of the two is in the heap or in the other     *)
(* one's data, no page of the heap has two owners and none is lost.  Clients *)
(* may ask for every s that an fpage can hold and give back what they were   *)
(* told; from a request on that the two handlers do not check (memory.c:101, *)
(* a shift by 32 or more, and memory.c:128, pages that are not the client's) *)
(* nothing is claimed of the free list.                                      *)
THEOREM StartupMemory == Spec => []MemoryInv
<1>1. Init => StartupInv
  BY StartupStarts
<1>2. StartupInv /\ [Next]_vars => StartupInv'
  BY StartupStep
<1>3. StartupInv => MemoryInv
  BY MemoryApart, PagesInOrder DEF MemoryInv, StartupInv
<1> QED BY <1>1, <1>2, <1>3, PTL DEF Spec

(* linked_list_alloc_pages is first fit over a list that is never put in     *)
(* order and whose blocks are never joined: it still serves every request    *)
(* that some free block is large enough for, from the front of such a block, *)
(* refuses no other, and takes back only pages that are not free.            *)
THEOREM StartupPagePool == Spec => ImplementsPagePool
<1>1. Init => StartupInv /\ Pool!PPInit
  BY StartupStarts
<1>2. StartupInv /\ [Next]_vars => StartupInv' /\ [Pool!PPNext]_<<FreeBlocks, asked, base>>
  BY StartupStep DEF PoolStep
<1> QED BY <1>1, <1>2, PTL DEF Spec, ImplementsPagePool, Pool!PPSpec
=============================================================================
