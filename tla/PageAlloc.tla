----------------------------- MODULE PageAlloc -----------------------------
(***************************************************************************)
(* The pages of the root task: the free list of                             *)
(* lib/buddy/linked_list_alloc.c, whose nodes lie in the free pages         *)
(* themselves, and the service of usr/root/memory.c that hands them out to  *)
(* clients.  The other caller is the loader (Loader).                       *)
(*                                                                          *)
(* Pages are numbered from the start of SRAM.  What their owners write      *)
(* into pages that are in use is not represented: such pages are Blank.     *)
(***************************************************************************)
EXTENDS Naturals, Sequences, FiniteSets, SequencesExt

CONSTANTS
  PageCount,        \* the pages of SRAM
  PAGE_SIZE_LOG2,   \* LINKED_LIST_ALLOC_PAGE_SIZE_LOG2
  IpcSizes          \* the binary logarithms clients ask for, in pages

(* An fpage has six bits for s.                                             *)
ASSUME PageAssumption ==
  /\ PageCount \in Nat \ {0}
  /\ PAGE_SIZE_LOG2 \in Nat
  /\ IpcSizes \subseteq 0 .. 63

NULL  == PageCount
Pages == 0 .. PageCount - 1
Links == Pages \cup {NULL}
Blank == [num_pages |-> 0, next |-> NULL, prev |-> NULL]

VARIABLES
  heap_start,  \* the first page of the heap, NULL before there is one
  first_free_item,
  node,       \* the nodes in the pages; the one at NULL is never written
  asked,      \* the pages the last allocation asked for
  base,       \* what it returned
  told,       \* what clients of the memory service hold: first page and s
  resident,   \* the segments of programs: first page and length
  stranded    \* pages taken for a client that were neither told nor given back

page_vars == <<heap_start, first_free_item, node, asked, base, told, resident, stranded>>

PageInit ==
  /\ heap_start = NULL
  /\ first_free_item = NULL
  /\ node = [p \in Links |-> Blank]
  /\ asked = 0 /\ base = NULL
  /\ told = {} /\ resident = {} /\ stranded = 0

-----------------------------------------------------------------------------
(* init_linked_list_alloc_state, called once: one block from the first page *)
(* to the end of SRAM.                                                      *)
init_linked_list_alloc_state(first) ==
  /\ heap_start' = first
  /\ first_free_item' = first
  /\ node' = [node EXCEPT ![first] = [Blank EXCEPT !.num_pages = PageCount - first]]
  /\ UNCHANGED <<asked, base, told, resident, stranded>>

(* The walk of linked_list_alloc_pages over the list, which has no more      *)
(* nodes than there are pages: nothing follows NULL.                        *)
Node[k \in 0 .. PageCount] == IF k = 0 THEN first_free_item ELSE node[Node[k - 1]].next

FreeNodes == {Node[k] : k \in 0 .. PageCount} \ {NULL}

(* A mutated form: a block of exactly the right size is passed over.        *)
LargerThan(p, n) == node[p].num_pages > n

(* Where the loop of linked_list_alloc_pages stops.                         *)
LargeEnough(p, n) == node[p].num_pages >= n

(* split_node_at: the rest becomes a node behind the first n pages.         *)
split_node_at(nodes, p, n) ==
  [nodes EXCEPT ![p + n] = [num_pages |-> nodes[p].num_pages - n,
                            next |-> nodes[p].next, prev |-> p],
                ![p].next = p + n]

(* delete_node_from_list, the neighbours: a node with a predecessor is      *)
(* taken out of both its links.                                             *)
Unlinked(nodes, p) ==
  LET prev == nodes[p].prev
      next == nodes[p].next
      one  == IF prev = NULL THEN nodes ELSE [nodes EXCEPT ![prev].next = next]
  IN  IF next = NULL THEN one ELSE [one EXCEPT ![next].prev = prev]

(* linked_list_alloc_pages.  The pointer through which the node was found   *)
(* is moved on by one node at the end, from what it points to by then.      *)
linked_list_alloc_pages(n) ==
  LET large == {k \in 0 .. PageCount : Node[k] # NULL /\ LargeEnough(Node[k], n)}
      k     == Min(large)
      p     == IF large = {} THEN NULL ELSE Node[k]
      pred  == IF k = 0 THEN NULL ELSE Node[k - 1]
      cut   == IF node[p].num_pages > n THEN split_node_at(node, p, n) ELSE node
      out   == Unlinked(cut, p)
  IN  /\ asked' = n
      /\ base' = p
      /\ UNCHANGED heap_start
      /\ IF p = NULL THEN UNCHANGED <<first_free_item, node>>
         ELSE IF pred = NULL
         THEN /\ first_free_item' = out[p].next
              /\ node' = [out EXCEPT ![p] = Blank]
         ELSE /\ node' = [out EXCEPT ![pred].next = out[out[pred].next].next,
                                     ![p] = Blank]
              /\ UNCHANGED first_free_item

(* linked_list_free_pages: the block goes to the front; its old first node  *)
(* does not learn that it has a predecessor now.                            *)
linked_list_free_pages(p, n) ==
  /\ node' = [node EXCEPT ![p] = [num_pages |-> n, next |-> first_free_item, prev |-> NULL]]
  /\ first_free_item' = p

-----------------------------------------------------------------------------
(* 1 << n                                                                   *)
Shifted[n \in Nat] == IF n = 0 THEN 1 ELSE 2 * Shifted[n - 1]

(* Where the shift of an int is undefined.                                  *)
Wide(s) == s + PAGE_SIZE_LOG2 >= 32

(* handle_ipc_alloc: a client asks for 2^s pages; the number of pages that  *)
(* is requested is computed as if it were a number of bytes.                *)
handle_ipc_alloc ==
  \E s \in IpcSizes :
    /\ ~Wide(s)
    /\ linked_list_alloc_pages(Shifted[s + PAGE_SIZE_LOG2])
    /\ told' = IF base' = NULL THEN told ELSE told \cup {[base |-> base', s |-> s]}
    /\ UNCHANGED <<resident, stranded>>

(* handle_ipc_free: a client gives back what it was told.                   *)
handle_ipc_free ==
  \E r \in told :
    /\ linked_list_free_pages(r.base, Shifted[r.s])
    /\ told' = told \ {r}
    /\ stranded' = stranded + Shifted[r.s + PAGE_SIZE_LOG2] - Shifted[r.s]
    /\ UNCHANGED <<heap_start, asked, base, resident>>

memory_service == handle_ipc_alloc \/ handle_ipc_free

(* What the two handlers do not check: a size for which the shift gives 0,  *)
(* so that linked_list_alloc_pages splits its first node at itself and      *)
(* links it to itself, and a region that the client was not told.           *)
Unchecked ==
  \/ {s \in IpcSizes : Wide(s)} # {}
  \/ ~(Pages \subseteq {r.base : r \in told})

-----------------------------------------------------------------------------
PagesOf(b) == b.base .. b.base + b.num - 1
FreeBlocks == {[base |-> p, num |-> node[p].num_pages] : p \in FreeNodes}
Region(r)  == [base |-> r.base, num |-> Shifted[r.s + PAGE_SIZE_LOG2]]
Taken      == {Region(r) : r \in told}
Blocks     == FreeBlocks \cup Taken \cup resident

PageTypeOK ==
  /\ heap_start \in Links /\ first_free_item \in Links /\ base \in Links /\ asked \in Nat
  /\ DOMAIN node = Links
  /\ \A p \in FreeNodes :
       /\ node[p].num_pages \in 1 .. PageCount - p
       /\ node[p].next \in Links /\ node[p].prev \in Links
  /\ \A b \in Taken \cup resident : PagesOf(b) \subseteq Pages
  /\ stranded \in 0 .. PageCount

(* No page has two owners: the blocks of the free list, the regions of      *)
(* clients and the segments of programs never overlap, although             *)
(* linked_list_alloc.c splits blocks and never joins them.                  *)
NoOverlap ==
  /\ \A b, c \in Blocks : b # c => PagesOf(b) \cap PagesOf(c) = {}
  /\ \A q, r \in told : Region(q) = Region(r) => q = r
  /\ FreeBlocks \cap (Taken \cup resident) = {} /\ Taken \cap resident = {}

(* delete_node_from_list goes wrong for a node with a predecessor: it moves *)
(* the list pointer twice.  No node of the list ever has one, and no node   *)
(* comes twice.                                                             *)
NoPredecessor ==
  /\ \A p \in FreeNodes : node[p].prev = NULL
  /\ Node[PageCount] = NULL

(* Every page is free, held or one of those that handle_ipc_alloc took for  *)
(* a client without telling it: the list loses none.                        *)
Accounted ==
  stranded + Cardinality(UNION {PagesOf(b) : b \in Blocks}) = PageCount - heap_start

(* The free list as linked_list_alloc.c needs it: nodes inside the memory,  *)
(* no page twice, no node with a predecessor, and no page lost.             *)
FreeListInv == PageTypeOK /\ NoOverlap /\ NoPredecessor /\ Accounted

(* The free list is the pool of blocks that PagePool specifies: in          *)
(* particular, a request is refused only when no block is large enough.     *)
Pool == INSTANCE PagePool WITH blocks <- FreeBlocks
ImplementsPagePool == Pool!PPSpec
=============================================================================
