-------------------------------- MODULE Boot --------------------------------
(***************************************************************************)
(* boot/boot.c: the boot loader puts the segments of the kernel and of the  *)
(* root task into SRAM, one behind the other, writes down in the boot info  *)
(* where they are, and jumps to the kernel.                                 *)
(*                                                                          *)
(* SRAM begins at the address 0; flash lies above it.  The static variables *)
(* of the boot loader itself, which hold the state of the library among     *)
(* others, lie behind the room that boot/bootloader.ld leaves for the two.  *)
(***************************************************************************)
EXTENDS Elf

CONSTANTS
  KernFiles, RootFiles,   \* images that /sbin/kern and /sbin/root may be
  HEADROOM                \* 0x8000 in boot/bootloader.ld

(* What is loaded of a boot file is its text and its data, in this order:   *)
(* construct_boot_info relies on it.                                        *)
TextAndData(file, text, data) ==
  /\ text < data
  /\ {i \in DOMAIN file.phdrs : file.phdrs[i].type = "LOAD"} = {text, data}
  /\ ~file.phdrs[text].W /\ file.phdrs[data].W

(* The headroom is not checked by the boot loader; it is large enough for   *)
(* the data of the images the repository builds, aligned.                   *)
Room(file) ==
  LET ph == file.phdrs[CHOOSE i \in DOMAIN file.phdrs : file.phdrs[i].type = "LOAD" /\ file.phdrs[i].W]
  IN  ph.memsz + 2 * ph.align

ASSUME BootAssumption ==
  /\ KernFiles \subseteq Images /\ RootFiles \subseteq Images /\ HEADROOM \in Nat
  /\ \A file \in KernFiles \cup RootFiles :
       file.valid => /\ \E text, data \in DOMAIN file.phdrs : TextAndData(file, text, data)
                     /\ Room(file) <= HEADROOM
  /\ \A kern_file \in KernFiles, root_task \in RootFiles :
       kern_file.valid /\ root_task.valid => Room(kern_file) + Room(root_task) <= HEADROOM

VARIABLES
  stage,        \* how far the machine has come
  image,        \* the file that is being loaded
  header,       \* its program header that is next, 0 before the ELF header
  elf,          \* the state of the library
  kern, root,   \* kern_state, root_state
  root_file,    \* the image of the root task
  sram_marker,
  boot_info     \* the records of type L4_BOOT_INFO_EXE: their data segments

loading == <<image, header, elf>>
boot_vars == <<kern, root, root_file, sram_marker, boot_info>>

BootInit ==
  /\ stage = "kern"
  /\ image \in KernFiles /\ root_file \in RootFiles
  /\ header = 0 /\ elf = NoElf
  /\ kern = NoElf /\ root = NoElf
  /\ sram_marker = 0 /\ boot_info = <<>>

-----------------------------------------------------------------------------
(* The steps of load_elf_file that are the same for both of its users.      *)
AllRead == header > Len(image.phdrs)
At(type, W) == /\ header \in DOMAIN image.phdrs
               /\ image.phdrs[header].type = type /\ image.phdrs[header].W = W

ValidHeader == header = 0 /\ image.valid /\ header' = 1 /\ UNCHANGED elf

SkipHeader ==
  /\ header \in DOMAIN image.phdrs /\ image.phdrs[header].type # "LOAD"
  /\ elf' = OtherHeader(elf, image.phdrs[header]) /\ header' = header + 1

Placed(location) ==
  elf' = LoadSegment(elf, image.phdrs[header], location) /\ header' = header + 1

Begin(file) == image' = file /\ header' = 0 /\ elf' = NoElf

-----------------------------------------------------------------------------
Halt == stage' = "halt" /\ UNCHANGED <<loading, boot_vars>>

(* main returns, and _start loops.                                          *)
BootInvalid == stage \in {"kern", "root"} /\ header = 0 /\ ~image.valid /\ Halt

BootHeader ==
  /\ stage \in {"kern", "root"}
  /\ ValidHeader \/ SkipHeader
  /\ UNCHANGED <<stage, image, boot_vars>>

(* elf_map: a segment that is not writable stays in flash.                  *)
BootMap ==
  /\ stage \in {"kern", "root"} /\ At("LOAD", FALSE)
  /\ Placed(image.base + image.phdrs[header].offset)
  /\ UNCHANGED <<stage, image, boot_vars>>

align_ptr(ptr, align) == ((ptr + align - 1) \div align) * align

(* elf_alloc_rw: the next free address with the segment's offset from its   *)
(* alignment.                                                               *)
BootAlloc ==
  LET ph == image.phdrs[header]
      location == align_ptr(sram_marker, ph.align) + (ph.vaddr % ph.align)
  IN  /\ stage \in {"kern", "root"} /\ At("LOAD", TRUE)
      /\ Placed(location) /\ sram_marker' = location + ph.memsz
      /\ UNCHANGED <<stage, image, kern, root, root_file, boot_info>>

KernSymbols == {"__global_offset_table", "__L4_boot_info"}
RootSymbols == {"__global_offset_table", "__sp", "__utcb"}

BootKern ==
  /\ stage = "kern" /\ AllRead
  /\ kern' = Loaded(elf, image)
  /\ IF \A symbol \in KernSymbols : Located(kern', image, symbol)
     THEN stage' = "root" /\ Begin(root_file)
     ELSE stage' = "halt" /\ UNCHANGED loading
  /\ UNCHANGED <<root, root_file, sram_marker, boot_info>>

(* construct_boot_info: the first two segments of a file count as its text  *)
(* and its data.                                                            *)
Record(state) == [start |-> state.segments[2].loaded_addr, size |-> state.segments[2].size]

BootRoot ==
  /\ stage = "root" /\ AllRead
  /\ root' = Loaded(elf, image)
  /\ IF \A symbol \in RootSymbols : Located(root', image, symbol)
     THEN stage' = "kernel" /\ boot_info' = <<Record(kern), Record(root')>>
     ELSE stage' = "halt" /\ UNCHANGED boot_info
  /\ UNCHANGED <<loading, kern, root_file, sram_marker>>

Boot ==
  \/ BootInvalid \/ BootHeader \/ BootMap \/ BootAlloc
  \/ BootKern \/ BootRoot
=============================================================================
