------------------------------- MODULE Loader -------------------------------
(***************************************************************************)
(* usr/root/exec.c: the root task loads a program, gives it a thread and an *)
(* address space of its own, maps its segments and starts it.  The pages    *)
(* come from PageAlloc, the reading of the file from Elf, in the steps that *)
(* Boot shares with it; one call of load_executable runs from Executes to   *)
(* stage = "loaded".                                                        *)
(*                                                                          *)
(* Of the kernel there is what the four calls do to the new thread          *)
(* (kern/syscall/thread_control.c, space_control.c and ipc.c): it is        *)
(* inactive, active once its UTCB has a place, and runnable when its pager  *)
(* has sent the start message.  A message to it blocks the root task until  *)
(* it is active; the timeouts of zero are taken for infinite.               *)
(***************************************************************************)
EXTENDS Boot, PageAlloc

CONSTANTS
  PAGE_SIZE,     \* of the pages, in the units of the addresses
  UTCB_SIZE,     \* 160 bytes in the kernel
  L4_MR_COUNT

ASSUME LoaderAssumption ==
  /\ PAGE_SIZE \in Nat \ {0} /\ UTCB_SIZE \in 1 .. PAGE_SIZE - 1 /\ L4_MR_COUNT \in Nat
  /\ \A file \in Images : \A i \in DOMAIN file.phdrs :
       file.phdrs[i].W => file.phdrs[i].memsz > 0

VARIABLES
  map_count,   \* the map items in the message registers
  programs     \* the threads made for programs, in the order of their numbers

loader_vars == <<map_count, programs>>

LoaderInit == map_count = 0 /\ programs = <<>>

-----------------------------------------------------------------------------
Executes(file) ==
  /\ Begin(file) /\ map_count' = 0
  /\ stage' = "load"
  /\ UNCHANGED <<programs, boot_vars, page_vars>>

(* load_executable returns false; what was allocated so far stays.          *)
Fails == stage' = "loaded" /\ UNCHANGED <<loading, loader_vars>>

LoadInvalid ==
  /\ stage = "load" /\ header = 0 /\ ~image.valid
  /\ Fails /\ UNCHANGED <<boot_vars, page_vars>>

LoadHeader ==
  /\ stage = "load"
  /\ ValidHeader \/ SkipHeader
  /\ UNCHANGED <<stage, image, boot_vars, loader_vars, page_vars>>

(* add_mapping *)
MayAddMapping == 1 + map_count * 2 + 2 < L4_MR_COUNT

(* A segment at its place, with an item that maps it, or no room for that.  *)
Maps(location) ==
  IF MayAddMapping
  THEN /\ Placed(location) /\ map_count' = map_count + 1
       /\ UNCHANGED <<stage, image, programs>>
  ELSE Fails

(* elf_map: a segment that is not writable stays in flash.                  *)
LoadMap ==
  /\ stage = "load" /\ At("LOAD", FALSE)
  /\ Maps(image.base + image.phdrs[header].offset)
  /\ UNCHANGED <<boot_vars, page_vars>>

Segment(ph) ==
  LET align_offset == ph.vaddr % ph.align
      actual_size  == ph.memsz + align_offset
  IN  [offset |-> align_offset, num |-> (actual_size + PAGE_SIZE - 1) \div PAGE_SIZE]

(* elf_alloc_rw: pages of its own for a writable segment.                   *)
LoadAlloc ==
  /\ stage = "load" /\ At("LOAD", TRUE)
  /\ LET segment == Segment(image.phdrs[header]) IN
     /\ linked_list_alloc_pages(segment.num)
     /\ IF base' = NULL
        THEN Fails /\ UNCHANGED resident
        ELSE /\ resident' = resident \cup {[base |-> base', num |-> segment.num]}
             /\ Maps(base' * PAGE_SIZE + segment.offset)
  /\ UNCHANGED <<told, stranded, boot_vars>>

-----------------------------------------------------------------------------
(* The thread of a program, as the calls of load_executable leave it.       *)
Thread(state) == [image |-> image, elf |-> elf, mapped |-> 0, utcb_page |-> NULL,
                  utcb |-> locate_elf_symbol(elf, image, "__utcb"),
                  sp |-> locate_elf_symbol(elf, image, "__sp"), ip |-> NoAddr,
                  pushed |-> {}, state |-> state]

New == Len(programs)

LoadSymbols ==
  /\ stage = "load" /\ AllRead
  /\ elf' = Loaded(elf, image)
  /\ stage' = IF \A symbol \in RootSymbols : Located(elf, image, symbol) THEN "thread" ELSE "loaded"
  /\ UNCHANGED <<image, header, boot_vars, loader_vars, page_vars>>

(* L4_thread_control: a thread in a space of its own is created inactive.   *)
CreateThread ==
  /\ stage = "thread" /\ stage' = "space"
  /\ programs' = Append(programs, Thread("inactive"))
  /\ UNCHANGED <<loading, map_count, boot_vars, page_vars>>

(* L4_space_control: the page of the UTCB; a UTCB that does not fit into it *)
(* leaves the thread inactive, and the call succeeds nevertheless.          *)
Configure ==
  /\ stage = "space" /\ stage' = "map"
  /\ LET utcb == programs[New].utcb IN
     programs' = [programs EXCEPT
       ![New].utcb_page = utcb \div PAGE_SIZE,
       ![New].state = IF (utcb % PAGE_SIZE) + UTCB_SIZE < PAGE_SIZE THEN "active" ELSE @]
  /\ UNCHANGED <<loading, map_count, boot_vars, page_vars>>

(* The message with the map items.                                          *)
MapSegments ==
  /\ stage = "map" /\ programs[New].state = "active"
  /\ stage' = "start"
  /\ programs' = [programs EXCEPT ![New].mapped = map_count]
  /\ UNCHANGED <<loading, map_count, boot_vars, page_vars>>

(* Two words on the stack, the first where __sp points to, and the start    *)
(* message of the pager.                                                    *)
Start ==
  /\ stage = "start" /\ programs[New].state = "active"
  /\ stage' = "loaded"
  /\ programs' = [programs EXCEPT ![New].state = "runnable", ![New].ip = elf.entry_point,
                                   ![New].pushed = {programs[New].sp, programs[New].sp - 1}]
  /\ UNCHANGED <<loading, map_count, boot_vars, page_vars>>

load_executable ==
  \/ LoadInvalid \/ LoadHeader \/ LoadMap \/ LoadAlloc
  \/ LoadSymbols \/ CreateThread \/ Configure \/ MapSegments \/ Start
=============================================================================
