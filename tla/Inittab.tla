------------------------------ MODULE Inittab ------------------------------
(***************************************************************************)
(* The root task reads its list of programs (usr/root/config.c): a parser   *)
(* that walks over the text of /etc/inittab, opens the directories of each  *)
(* path one after the other with two descriptors that take turns, and loads *)
(* the executables.  The descriptors are those of the file server, as       *)
(* Descriptors describes them for one client.                               *)
(*                                                                          *)
(* A text is a sequence of symbols: the mode, a name, ":", "/" and the end  *)
(* of a line; a name is one symbol.                                         *)
(***************************************************************************)
EXTENDS Naturals, Sequences, SequencesExt

CONSTANTS
  Lines,           \* the lines of an inittab: symbols, the file to load, and
                   \* whether a directory below another one is missing
  MaxLines,        \* bound: how many lines a text has
  Files, NoFile, RootDirectory, InittabFile,
  Entries          \* the entries of each directory, << >> for other files

ASSUME InittabAssumption ==
  /\ RootDirectory \in Files /\ InittabFile \in Files /\ NoFile \notin Files
  /\ DOMAIN Entries = Files
  /\ \A dir \in Files : \A i \in 1 .. Len(Entries[dir]) : Entries[dir][i].file \in Files

ROOT_FD == 3
INITTAB_FD == 5
OTHER_FD_START == 6
Fds == ROOT_FD .. OTHER_FD_START + 1

Finished == {"parse_end", "parse_error"}

LastOf(line) == Last(line.symbols)

VARIABLES
  lines,          \* the text, line by line
  pos, str_start, \* places in the text
  parser_state, dir_fd, file_fd,
  open,           \* the file of each descriptor, NoFile if it is closed
  reopened,       \* has an open descriptor been opened for this text?
  loaded          \* the files given to load_executable

parser_vars == <<lines, pos, str_start, parser_state, dir_fd, file_fd, open, reopened, loaded>>

Text == FlattenSeq([i \in DOMAIN lines |-> lines[i].symbols])
End  == Len(Text) + 1

(* Only the last line may lack its newline.                                 *)
Texts ==
  {text \in UNION {[1 .. n -> Lines] : n \in 0 .. MaxLines} :
     \A i \in 1 .. Len(text) - 1 : LastOf(text[i]) = "newline"}

(* No file is read, and the descriptors are as parse_init_config has them   *)
(* when it calls parse: /etc is closed again.                               *)
OpenBefore ==
  [fd \in Fds |-> CASE fd = ROOT_FD -> RootDirectory
                    [] fd = INITTAB_FD -> InittabFile
                    [] OTHER -> NoFile]

ParserInit ==
  /\ lines = <<>> /\ pos = 1 /\ str_start = 1
  /\ parser_state = "idle"
  /\ dir_fd = OTHER_FD_START /\ file_fd = OTHER_FD_START + 1
  /\ open = OpenBefore
  /\ reopened = FALSE
  /\ loaded = <<>>

(* The call of parse with the text of the file.                             *)
parse_begins ==
  /\ lines' \in Texts /\ parser_state' = "parse_mode"
  /\ UNCHANGED <<pos, str_start, dir_fd, file_fd, open, reopened, loaded>>

(* Its return: the text and the variables of parse are gone.                *)
parse_returns ==
  /\ parser_state \in Finished
  /\ lines' = <<>> /\ pos' = 1 /\ str_start' = 1
  /\ parser_state' = "idle" /\ reopened' = FALSE
  /\ UNCHANGED <<dir_fd, file_fd, open, loaded>>

-----------------------------------------------------------------------------
Lookup(dir, name) ==
  IF dir = NoFile THEN NoFile
  ELSE LET hit == SelectInSeq(Entries[dir], LAMBDA e : <<e.name>> = name) IN
       IF hit = 0 THEN NoFile ELSE Entries[dir][hit].file

(* open_at, as the server answers it: the descriptors afterwards.           *)
OpenAt(name) ==
  IF open[file_fd] # NoFile \/ Lookup(open[dir_fd], name) = NoFile THEN open
  ELSE [open EXCEPT ![file_fd] = Lookup(open[dir_fd], name)]

Opens(name) == OpenAt(name) # open

(* close: the root directory stays open.                                    *)
CloseDir(fds) ==
  IF dir_fd = ROOT_FD THEN fds ELSE [fds EXCEPT ![dir_fd] = NoFile]

Element  == SubSeq(Text, str_start, pos - 1)
AtEnd    == pos = End
Is(sym)  == pos < End /\ Text[pos] = sym
Goto(s)  == parser_state' = s
KeepFds  == UNCHANGED <<dir_fd, file_fd, open, reopened>>
Asks     == reopened' = (reopened \/ open[file_fd] # NoFile)

parse_mode ==
  /\ parser_state = "parse_mode" /\ pos <= End
  /\ \/ /\ AtEnd
        /\ Goto(IF str_start = pos THEN "parse_end" ELSE "parse_error")
        /\ UNCHANGED <<pos, str_start>>
     \/ /\ Is(":") /\ Element # <<"spawn">>
        /\ Goto("parse_error") /\ UNCHANGED <<pos, str_start>>
     \/ /\ Is(":") /\ Element = <<"spawn">>
        /\ Goto("parse_path_slash") /\ pos' = pos + 1 /\ str_start' = pos + 1
     \/ /\ ~AtEnd /\ ~Is(":")
        /\ pos' = pos + 1 /\ UNCHANGED <<parser_state, str_start>>
  /\ KeepFds /\ UNCHANGED loaded

parse_path_slash ==
  /\ parser_state = "parse_path_slash" /\ pos <= End
  /\ pos' = pos + 1
  /\ IF Is("/")
     THEN Goto("parse_path") /\ str_start' = pos + 1 /\ dir_fd' = ROOT_FD
     ELSE Goto("parse_to_newline") /\ UNCHANGED <<str_start, dir_fd>>
  /\ UNCHANGED <<file_fd, open, reopened, loaded>>

(* A mutated form: the file stays open.                                     *)
parse_path_end_open ==
  /\ parser_state = "parse_path" /\ (AtEnd \/ Is("newline"))
  /\ Asks
  /\ loaded' = IF Opens(Element) THEN Append(loaded, OpenAt(Element)[file_fd]) ELSE loaded
  /\ open' = CloseDir(OpenAt(Element))
  /\ dir_fd' = OTHER_FD_START /\ file_fd' = OTHER_FD_START + 1
  /\ Goto("parse_mode") /\ pos' = pos + 1 /\ str_start' = pos + 1

(* The last element of a path: the executable.                              *)
parse_path_end ==
  /\ parser_state = "parse_path" /\ (AtEnd \/ Is("newline"))
  /\ Asks
  /\ loaded' = IF Opens(Element) THEN Append(loaded, OpenAt(Element)[file_fd]) ELSE loaded
  /\ open' = [CloseDir(OpenAt(Element)) EXCEPT ![file_fd] = NoFile]
  /\ dir_fd' = OTHER_FD_START /\ file_fd' = OTHER_FD_START + 1
  /\ Goto("parse_mode") /\ pos' = pos + 1 /\ str_start' = pos + 1

(* A mutated form: the descriptors change places, whatever they are.        *)
swap_fds_plain == dir_fd' = file_fd /\ file_fd' = dir_fd

(* swap_fds: the root directory's descriptor is not used for files.         *)
swap_fds ==
  /\ dir_fd' = file_fd
  /\ file_fd' = IF dir_fd = ROOT_FD THEN OTHER_FD_START ELSE dir_fd

(* Any other element: a directory.  The symbol behind the slash is skipped. *)
parse_path_dir ==
  /\ parser_state = "parse_path" /\ Is("/")
  /\ Asks
  /\ IF Opens(Element)
     THEN open' = CloseDir(OpenAt(Element)) /\ swap_fds /\ UNCHANGED parser_state
     ELSE Goto("parse_to_newline") /\ UNCHANGED <<open, dir_fd, file_fd>>
  /\ str_start' = pos + 1 /\ pos' = pos + 2
  /\ UNCHANGED loaded

parse_path_char ==
  /\ parser_state = "parse_path" /\ pos < End /\ ~Is("newline") /\ ~Is("/")
  /\ pos' = pos + 1
  /\ KeepFds /\ UNCHANGED <<parser_state, str_start, loaded>>

(* A mutated form: only a newline moves the position on.                    *)
parse_to_newline_waits ==
  /\ parser_state = "parse_to_newline" /\ pos <= End
  /\ \/ AtEnd /\ Goto("parse_error") /\ UNCHANGED <<pos, str_start>>
     \/ Is("newline") /\ Goto("parse_mode") /\ str_start' = pos + 1 /\ pos' = pos + 1
     \/ ~AtEnd /\ ~Is("newline") /\ UNCHANGED <<pos, parser_state, str_start>>
  /\ KeepFds /\ UNCHANGED loaded

parse_to_newline ==
  /\ parser_state = "parse_to_newline" /\ pos <= End
  /\ \/ AtEnd /\ Goto("parse_error") /\ UNCHANGED <<pos, str_start>>
     \/ Is("newline") /\ Goto("parse_mode") /\ str_start' = pos + 1 /\ pos' = pos + 1
     \/ ~AtEnd /\ ~Is("newline") /\ pos' = pos + 1 /\ UNCHANGED <<parser_state, str_start>>
  /\ KeepFds /\ UNCHANGED loaded

(* Behind the text, where pos = end is never true again, parse reads what   *)
(* the file system has there: it stops at a colon, or is lost, in a loop    *)
(* over the flash or with programs that nobody named.                       *)
parse_outside ==
  /\ pos > End /\ parser_state \notin Finished \cup {"lost"}
  /\ Goto("parse_error") \/ Goto("lost")
  /\ KeepFds /\ UNCHANGED <<pos, str_start, loaded>>

(* All but the end of a path, where the executable is loaded.               *)
parse_before_path_end == parse_mode \/ parse_path_slash \/ parse_path_dir
                           \/ parse_path_char \/ parse_to_newline \/ parse_outside
-----------------------------------------------------------------------------
ParserTypeOK ==
  /\ pos \in 1 .. End + 1 /\ str_start \in 1 .. pos
  /\ parser_state \in {"idle", "parse_mode", "parse_path_slash", "parse_path", "parse_to_newline"}
                      \cup Finished \cup {"lost"}
  /\ dir_fd \in Fds /\ file_fd \in Fds
  /\ open \in [Fds -> Files \cup {NoFile}]
  /\ loaded \in Seq(Files)

(* When the second or a later directory of a path is missing, parse goes to *)
(* the next line with the directories before it open and the descriptors    *)
(* exchanged: nothing is promised of the lines that follow.                 *)
Strays == \E i \in DOMAIN lines : lines[i].strays

(* A line that ends where a path or its last element should begin: parse    *)
(* steps over the newline and takes the next line for a part of this one.   *)
Swallows ==
  \E i \in DOMAIN lines :
    LET symbols == lines[i].symbols IN
    LastOf(lines[i]) = "newline" /\ symbols[Len(symbols) - 1] \in {":", "/"}

(* The last line has its newline, as dist/CMakeLists.txt writes it.         *)
Ended == \A i \in DOMAIN lines : LastOf(lines[i]) = "newline"

(* parse stops at the end of the text if every line ends in a newline and   *)
(* none of them swallows it.                                                *)
StaysInText == Ended /\ ~Swallows => pos <= End

(* The root task is a client that never opens a descriptor it has open,     *)
(* which RomfsServer relies on, and swap_fds and the closes in parse leave  *)
(* nothing open from one line to the next.                                  *)
TidyDescriptors ==
  \/ Strays \/ Swallows
  \/ /\ ~reopened
     /\ parser_state \in {"parse_mode"} \cup Finished =>
          {fd \in Fds : open[fd] # NoFile} = {ROOT_FD, INITTAB_FD}

(* The parser's own state, with the mistakes of an inittab that it is not   *)
(* proof against as exceptions: it stays inside the text unless a newline   *)
(* is missing or swallowed, and keeps its descriptors in order unless a     *)
(* deeper directory is missing or a newline is swallowed.                   *)
ParserInv == ParserTypeOK /\ StaysInText /\ TidyDescriptors

(* The programs that lines name, and those that the inittab asks for: up to *)
(* the first line that is not one to spawn.                                 *)
Spawns(line) == Head(line.symbols) = "spawn"

Named(some) ==
  LET has == SelectSeq(some, LAMBDA l : Spawns(l) /\ l.file # NoFile)
  IN [i \in DOMAIN has |-> has[i].file]

Wanted ==
  LET bad == SelectInSeq(lines, LAMBDA l : ~Spawns(l))
  IN Named(IF bad = 0 THEN lines ELSE SubSeq(lines, 1, bad - 1))

(* parse loads what the lines name, in their order, and a line whose file   *)
(* or first directory does not exist, or that names no path, does not       *)
(* affect the lines after it.  A line whose deeper directory is missing,    *)
(* and one that swallows its newline, do; even then parse loads only what   *)
(* lines to spawn name, in their order, unless it is lost behind the text.  *)
LoadsAll ==
  parser_state \in Finished =>
    /\ Strays \/ Swallows \/ loaded = Wanted
    /\ \E some \in SUBSET DOMAIN lines :
         LET chosen == SetToSortSeq(some, <) IN
         loaded = Named([i \in DOMAIN chosen |-> lines[chosen[i]]])
=============================================================================
