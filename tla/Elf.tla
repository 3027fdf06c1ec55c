-------------------------------- MODULE Elf --------------------------------
(***************************************************************************)
(* lib/elf/elf.c: what the two users of the library, boot/boot.c and        *)
(* usr/root/exec.c, get from it.  The library works on a libelf_state, one  *)
(* program header after the other, and asks its user for memory in between; *)
(* here it is a set of operators on that state, and the users take the      *)
(* steps (Boot, Loader).                                                    *)
(*                                                                          *)
(* A file is an image, a record of what its headers and tables say.         *)
(* Addresses are numbers, and NoAddr is the null pointer.                   *)
(***************************************************************************)
EXTENDS Integers, Sequences, SequencesExt

CONSTANTS
  Images,       \* the ELF files
  MaxSegments   \* max_segments, 4 in both users of the library

NoAddr == -1

Headers == [type : {"LOAD", "DYNAMIC", "PHDR"}, offset : Nat, vaddr : Nat,
            memsz : Nat, align : Nat \ {0}, W : BOOLEAN]

Loads(image) == SelectSeq(image.phdrs, LAMBDA ph : ph.type = "LOAD")

(* What the linker promises of an image.  The library relies on it: the     *)
(* number of segments is not checked against max_segments, and segments     *)
(* that are not writable are not relocated, as -z text asks of the linker.  *)
ASSUME ElfAssumption ==
  /\ MaxSegments \in Nat \ {0}
  /\ \A image \in Images :
       /\ image.valid \in BOOLEAN
       /\ image.base \in Nat /\ image.entry \in Nat
       /\ image.phdrs \in Seq(Headers)
       /\ Len(Loads(image)) <= MaxSegments
       /\ \A i \in DOMAIN image.rels : image.rels[i] \in [info : {"relative", "none", "other"}, offset : Nat]
       /\ \E i \in DOMAIN image.rels : image.rels[i].info # "relative"

(* struct libelf_state; fixed is the set of the words that were relocated.  *)
NoElf == [segments |-> <<>>, phdrs |-> NoAddr, entry_point |-> NoAddr, fixed |-> {}]

(* The address of the first segment that has the linked address; there may  *)
(* be none yet.                                                             *)
linked_to_loaded_addr(elf, addr) ==
  LET i == SelectInSeq(elf.segments, LAMBDA s : s.linked_addr <= addr /\ addr < s.linked_addr + s.size)
  IN  IF i = 0 THEN NoAddr
      ELSE elf.segments[i].loaded_addr + addr - elf.segments[i].linked_addr

(* A program header of type PT_LOAD, once its memory was found.             *)
LoadSegment(elf, ph, location) ==
  [elf EXCEPT !.segments = Append(@, [linked_addr |-> ph.vaddr, loaded_addr |-> location,
                                      size |-> ph.memsz, W |-> ph.W])]

(* Any other program header: the one of the dynamic tags is kept.           *)
OtherHeader(elf, ph) ==
  IF ph.type = "DYNAMIC" THEN [elf EXCEPT !.phdrs = linked_to_loaded_addr(elf, ph.vaddr)] ELSE elf

(* A mutated form: the first word is taken for the end of the table.        *)
relocate_elf_file_late(elf, image) ==
  LET end == SelectInSeq(image.rels, LAMBDA r : r.info # "relative") IN
  IF elf.phdrs = NoAddr THEN elf
  ELSE [elf EXCEPT !.fixed = {linked_to_loaded_addr(elf, image.rels[i].offset) : i \in 2 .. end - 1}]

(* relocate_elf_file: the table is read on to the first entry that is not   *)
(* R_ARM_RELATIVE, which usually is what the linker put behind it.  This is *)
(* LIBELF_UNKNOWN_RELOC then, and the caller ignores it.                    *)
relocate_elf_file(elf, image) ==
  LET end == SelectInSeq(image.rels, LAMBDA r : r.info # "relative") IN
  IF elf.phdrs = NoAddr THEN elf
  ELSE [elf EXCEPT !.fixed = {linked_to_loaded_addr(elf, image.rels[i].offset) : i \in 1 .. end - 1}]

(* The end of load_elf_file.                                                *)
Loaded(elf, image) ==
  [relocate_elf_file(elf, image) EXCEPT !.entry_point = linked_to_loaded_addr(elf, image.entry)]

(* locate_elf_symbol succeeds if the tables were found and have the name.   *)
Located(elf, image, symbol) ==
  /\ elf.phdrs # NoAddr
  /\ linked_to_loaded_addr(elf, image.tables) # NoAddr
  /\ symbol \in DOMAIN image.symbols

(* The value it gives: null for a symbol at the end of all segments.        *)
locate_elf_symbol(elf, image, symbol) == linked_to_loaded_addr(elf, image.symbols[symbol])
=============================================================================
