------------------------------ MODULE Startup ------------------------------
(***************************************************************************)
(* The machine from reset to the service of the root task: the boot loader  *)
(* (Boot), the kernel, which only passes on where the executables are, the  *)
(* root task's memory (usr/root/memory.c, PageAlloc), the programs of the   *)
(* inittab (Inittab) with the loader (Loader), and then the memory service. *)
(* One thing follows the other; the parts share the variable stage.         *)
(***************************************************************************)
EXTENDS Loader, Inittab, FiniteSetsExt

CONSTANTS
  ImageOf,      \* the image in each of the Files
  kern_stack    \* the page at kern_stack_base, in SRAM above all images

ASSUME StartupAssumption ==
  /\ ImageOf \in [Files -> Images]
  /\ kern_stack \in Pages
  /\ HEADROOM <= PAGE_SIZE * kern_stack

vars == <<stage, loading, boot_vars, loader_vars, page_vars, parser_vars>>

Init == BootInit /\ LoaderInit /\ PageInit /\ ParserInit

-----------------------------------------------------------------------------
(* align_to_page, as a number of a page.                                    *)
align_to_page(value) == (value + PAGE_SIZE - 1) \div PAGE_SIZE

(* A mutated form: only the first executable counts.                        *)
find_heap_start_kern == align_to_page(boot_info[1].start + boot_info[1].size)

(* The pages behind the data of the last executable in the boot info.       *)
find_heap_start ==
  align_to_page(Max({boot_info[i].start + boot_info[i].size : i \in DOMAIN boot_info}))

(* init_memory_management, the first thing main of the root task does.      *)
InitMemory ==
  /\ stage = "kernel" /\ stage' = "root main"
  /\ init_linked_list_alloc_state(find_heap_start)
  /\ UNCHANGED <<loading, boot_vars, loader_vars, parser_vars>>

ReadInittab ==
  /\ stage = "root main" /\ stage' = "parse"
  /\ parse_begins
  /\ UNCHANGED <<loading, boot_vars, loader_vars, page_vars>>

ParseStep ==
  /\ stage = "parse" /\ parse_before_path_end /\ UNCHANGED lines
  /\ UNCHANGED <<stage, loading, boot_vars, loader_vars, page_vars>>

AtPathEnd == parser_state = "parse_path" /\ (AtEnd \/ Is("newline"))

(* An executable that can be opened is loaded before its path is done with. *)
ParseLoad ==
  /\ stage = "parse" /\ AtPathEnd /\ Opens(Element)
  /\ Executes(ImageOf[OpenAt(Element)[file_fd]])
  /\ UNCHANGED parser_vars

ParsePathEnd ==
  /\ \/ stage = "parse" /\ AtPathEnd /\ ~Opens(Element)
     \/ stage = "loaded"
  /\ parse_path_end /\ UNCHANGED lines
  /\ stage' = "parse"
  /\ UNCHANGED <<loading, boot_vars, loader_vars, page_vars>>

ParseReturns ==
  /\ stage = "parse" /\ parse_returns
  /\ stage' = "serve"
  /\ UNCHANGED <<loading, boot_vars, loader_vars, page_vars>>

StartUp ==
  \/ Boot /\ UNCHANGED <<loader_vars, page_vars, parser_vars>>
  \/ InitMemory \/ ReadInittab
  \/ ParseStep \/ ParseLoad \/ ParsePathEnd \/ ParseReturns
  \/ load_executable /\ UNCHANGED parser_vars

(* The loop at the end of main, the part for memory.                        *)
Serve ==
  /\ stage = "serve" /\ memory_service
  /\ UNCHANGED <<stage, loading, boot_vars, loader_vars, parser_vars>>

(* A request that the service does not check leaves the free list in no     *)
(* order; what the machine does from then on is not represented.            *)
ServeUnchecked ==
  /\ stage = "serve" /\ Unchecked
  /\ stage' = "undefined"
  /\ UNCHANGED <<loading, boot_vars, loader_vars, page_vars, parser_vars>>

Next == StartUp \/ Serve \/ ServeUnchecked

(* The machine goes on; the root task is one thread and is scheduled.       *)
Spec == Init /\ [][Next]_vars /\ WF_vars(StartUp)

-----------------------------------------------------------------------------
WriteableOf(state) == {i \in DOMAIN state.segments : state.segments[i].W}
Bytes(state) ==
  UNION {state.segments[i].loaded_addr .. state.segments[i].loaded_addr + state.segments[i].size - 1 :
           i \in WriteableOf(state)}

(* What boot/boot.c loads and what the root task takes for its heap do not  *)
(* touch each other: the kernel's data, the root task's data, the variables *)
(* of the boot loader while it runs, and the pages from find_heap_start on. *)
SystemMemory ==
  LET loads == IF stage = "kern" THEN Bytes(elf) ELSE Bytes(kern)
      other == IF stage = "root" THEN Bytes(elf) ELSE Bytes(root)
  IN  /\ loads \cap other = {}
      /\ loads \cup other \subseteq 0 .. HEADROOM - 1
      /\ heap_start # NULL => \A b \in loads \cup other : b < heap_start * PAGE_SIZE

(* The memory of the system: the executables, and the free list with every  *)
(* page behind them, until the memory service is given a request that       *)
(* handle_ipc_alloc or handle_ipc_free should have refused: a size of 2^23   *)
(* pages or more, or pages that are not the client's to give back.          *)
MemoryInv ==
  /\ SystemMemory
  /\ heap_start # NULL /\ stage # "undefined" => FreeListInv

(* A program that load_executable has started is complete, whatever failed  *)
(* before it: all its segments are mapped and its words relocated, its      *)
(* writable memory, with the UTCB and the stack, is in pages of the loader  *)
(* and no other program's, and it starts in its text.  Of the UTCB the two  *)
(* words that load_executable pushes spoil at most the first one, the       *)
(* thread's global id: data.s of the programs has __sp where __utcb is, and *)
(* the first word is written where __sp points to.                          *)
Complete(p) ==
  LET utcb  == p.utcb .. p.utcb + UTCB_SIZE - 1
      words == SelectInSeq(p.image.rels, LAMBDA r : r.info # "relative") - 1
  IN  /\ p.mapped = Len(Loads(p.image)) /\ Len(p.elf.segments) = p.mapped
      /\ p.elf.fixed \subseteq Bytes(p.elf) /\ Cardinality(p.elf.fixed) = words
      /\ \A a \in Bytes(p.elf) : \E b \in resident : a \div PAGE_SIZE \in PagesOf(b)
      /\ utcb \cup p.pushed \subseteq Bytes(p.elf) /\ p.pushed \cap utcb \subseteq {p.utcb}
      /\ p.utcb_page = p.utcb \div PAGE_SIZE
      /\ \E s \in Range(p.elf.segments) : ~s.W /\ p.ip \in s.loaded_addr .. s.loaded_addr + s.size - 1

StartedComplete ==
  \A i \in DOMAIN programs : programs[i].state = "runnable" =>
    /\ Complete(programs[i])
    /\ \A j \in 1 .. i - 1 : Bytes(programs[i].elf) \cap Bytes(programs[j].elf) = {}

(* The machine comes up, or the boot loader stops: load_executable never    *)
(* waits for a thread that the kernel has not made active, and parse ends,  *)
(* unless it has left the text of the inittab.                              *)
ComesUp == <>(stage \in {"halt", "serve"} \/ parser_state = "lost")

(* What kern/start.s says of its stack: r9 is stored "at the root of the    *)
(* stack for restoring by IRQs".  No one else may be given that memory.     *)
KernelStackKept ==
  \A b \in Taken \cup resident : kern_stack \notin PagesOf(b)
=============================================================================
