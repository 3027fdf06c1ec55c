---------------------------- MODULE RomfsServer ----------------------------
(***************************************************************************)
(* The file server of usr/root/romfs_server.c: the files its clients have   *)
(* open lie in a hash table with open addressing, FILE_STATE_LOG probes at  *)
(* quadratic distances and tombstones.  The server is one thread that       *)
(* answers a request before it takes the next one, so one step here is one  *)
(* request: L4_ipc, the handler and the answer.                             *)
(*                                                                          *)
(* The image is what romfs_openat sees of it: directories with their        *)
(* entries in order.  Of an answer the model keeps whether it is an error   *)
(* and which file it is about.                                              *)
(***************************************************************************)
EXTENDS Naturals, FiniteSets, Sequences, SequencesExt

CONSTANTS
  Clients, Fds,
  FILE_STATE_COUNT, FILE_STATE_LOG,
  Files, NoFile, RootDirectory,
  Entries,          \* the entries of each directory, << >> for other files
  Names,            \* the names clients ask for
  Careful           \* the clients that never open a descriptor they have open

(* The probes go round the table at most once (5 of them, and 32 places, in  *)
(* the code), and no file has the name of an error.                         *)
ASSUME RomfsAssumption ==
  /\ Fds \subseteq Nat
  /\ FILE_STATE_COUNT \in Nat \ {0} /\ FILE_STATE_LOG \in Nat
  /\ \A i \in 0 .. FILE_STATE_LOG - 1 : i * i < FILE_STATE_COUNT
  /\ RootDirectory \in Files /\ NoFile \notin Files
  /\ Files \cap {"EINVAL", "EBADF", "ENOENT", "ENOMEM", "EROFS", "echo"} = {}
  /\ DOMAIN Entries = Files
  /\ \A d \in Files :
       /\ Entries[d] \in Seq(Range(Entries[d]))
       /\ \A e \in Range(Entries[d]) : e.file \in Files
  /\ Careful \subseteq Clients

Slots == 0 .. FILE_STATE_COUNT - 1
Free  == [status |-> "HASH_ITEM_FREE"]
Tomb  == [status |-> "HASH_ITEM_TOMBSTONE"]
Used(owner, fd, file) ==
  [status |-> "HASH_ITEM_USED", owner |-> owner, fd |-> fd, file |-> file]

VARIABLES
  file_states,
  answer    \* the last answer: to whom, and what

vars == <<file_states, answer>>

Init == file_states = [i \in Slots |-> Free] /\ answer = <<>>

-----------------------------------------------------------------------------
(* hash_combine, modulo the size of the table: thread ids differ only above *)
(* the bits that count here, whose lowest is 1, the version.  So the place  *)
(* depends on the descriptor alone.                                         *)
hash_combine(fd) ==
  LET sum == (fd + 25) % FILE_STATE_COUNT IN IF sum % 2 = 0 THEN sum + 1 ELSE sum - 1

Probe(fd, i) == (hash_combine(fd) + i * i) % FILE_STATE_COUNT

IsOf(i, owner, fd) ==
  /\ file_states[i].status = "HASH_ITEM_USED"
  /\ file_states[i].owner = owner /\ file_states[i].fd = fd

(* The first place of the probes of fd that is one of the given ones.       *)
FirstProbe(fd, places) ==
  LET hits == {i \in 0 .. FILE_STATE_LOG - 1 : Probe(fd, i) \in places} IN
  IF hits = {} THEN {} ELSE {Probe(fd, Min(hits))}

(* A mutated form: tombstones are never used again.                         *)
InsertionPointFree(owner, fd) ==
  FirstProbe(fd, {i \in Slots : file_states[i] = Free \/ IsOf(i, owner, fd)})

(* find_vfs_file_state_insertion_point: no place, or one.                   *)
InsertionPoint(owner, fd) ==
  FirstProbe(fd, {i \in Slots : file_states[i] \in {Free, Tomb} \/ IsOf(i, owner, fd)})

(* A mutated form: a tombstone ends the search like a free place.           *)
FindToTomb(owner, fd) ==
  {i \in FirstProbe(fd, {j \in Slots : file_states[j] \in {Free, Tomb} \/ IsOf(j, owner, fd)}) :
     IsOf(i, owner, fd)}

(* find_vfs_file_state and the search of delete_vfs_file_state: a free      *)
(* place ends the search, a tombstone does not.                             *)
Find(owner, fd) ==
  {i \in FirstProbe(fd, {j \in Slots : file_states[j] = Free \/ IsOf(j, owner, fd)}) :
     IsOf(i, owner, fd)}

(* romfs_openat: the first entry of that name; only directories have any.   *)
romfs_openat(dir, name) ==
  LET hit == SelectInSeq(Entries[dir], LAMBDA e : e.name = name) IN
  IF hit = 0 THEN NoFile ELSE Entries[dir][hit].file

-----------------------------------------------------------------------------
Answer(c, what) == answer' = <<c, what>>
Fails(c, errno) == Answer(c, errno) /\ UNCHANGED file_states

(* make a place for a file that was opened                                  *)
Enter(c, fd, f) ==
  LET place == InsertionPoint(c, fd) IN
  IF place = {} THEN Fails(c, "ENOMEM")
  ELSE \E i \in place :
    IF IsOf(i, c, fd) THEN Fails(c, "EBADF")
    ELSE file_states' = [file_states EXCEPT ![i] = Used(c, fd, f)] /\ Answer(c, "opened")

(* What a client has open, as far as it knows itself.                       *)
HasOpen(c, fd) == \E i \in Slots : IsOf(i, c, fd)
MayOpen(c, fd) == c \notin Careful \/ ~HasOpen(c, fd)

handle_vfs_openroot(c) ==
  \E fd \in Fds : MayOpen(c, fd) /\ Enter(c, fd, RootDirectory)

handle_vfs_openat(c) ==
  \E fd, new_fd \in Fds, name \in Names :
    LET dir == Find(c, fd) IN
    /\ MayOpen(c, new_fd)
    /\ IF dir = {} THEN Fails(c, "EINVAL")
       ELSE \E i \in dir :
         LET f == romfs_openat(file_states[i].file, name) IN
         IF f = NoFile THEN Fails(c, "ENOENT") ELSE Enter(c, new_fd, f)

handle_vfs_close(c) ==
  \E fd \in Fds :
    IF Find(c, fd) = {} THEN Fails(c, "ENOENT")
    ELSE \E i \in Find(c, fd) :
      file_states' = [file_states EXCEPT ![i] = Tomb] /\ Answer(c, "closed")

(* stat, read and map: an answer about the file, or an error.               *)
handle_vfs_stat_read_map(c) ==
  \E fd \in Fds, unknown \in {"EINVAL", "EBADF"} :
    IF Find(c, fd) = {} THEN Fails(c, unknown)
    ELSE \E i \in Find(c, fd) : Fails(c, file_states[i].file)

(* handle_vfs_write                                                         *)
handle_vfs_write(c) ==
  \E fd \in Fds : Fails(c, IF Find(c, fd) = {} THEN "EBADF" ELSE "EROFS")

(* A message with the wrong numbers of words is refused; one with an        *)
(* unknown label is sent back as it came.                                   *)
Malformed(c) == \E e \in {"EINVAL", "echo"} : Fails(c, e)

romfs_main(c) ==
  \/ handle_vfs_openroot(c)
  \/ handle_vfs_openat(c)
  \/ handle_vfs_close(c)
  \/ handle_vfs_stat_read_map(c)
  \/ handle_vfs_write(c)
  \/ Malformed(c)

Next == \E c \in Clients : romfs_main(c)

Spec == Init /\ [][Next]_vars

-----------------------------------------------------------------------------
(* Every place keeps its type; a careful client has one place for one       *)
(* descriptor, however the probes of others moved it.                        *)
TypeOK ==
  /\ \A i \in Slots :
       file_states[i] \in {Free, Tomb} \cup {Used(c, fd, f) : c \in Clients, fd \in Fds, f \in Files}
  /\ \A i, j \in Slots, c \in Careful, fd \in Fds :
       IsOf(i, c, fd) /\ IsOf(j, c, fd) => i = j

(* What a descriptor stands for, wherever it lies in the table.             *)
OpenFile ==
  [k \in Careful \X Fds |->
     IF \E i \in Slots : IsOf(i, k[1], k[2])
     THEN file_states[CHOOSE i \in Slots : IsOf(i, k[1], k[2])].file
     ELSE NoFile]

(* The handlers keep what Descriptors promises to the clients that open no  *)
(* descriptor they have open, whatever the others do: probes past           *)
(* tombstones and past the entries of other clients still reach every file. *)
Table == INSTANCE Descriptors WITH
  Clients <- Careful, open <- OpenFile, Lookup <- romfs_openat
ImplementsDescriptors == Table!DSpec

(* The table stays as it should (TypeOK), and Enter answers ENOMEM only when *)
(* FILE_STATE_LOG files or more are open: closing files makes room again.    *)
RefusedWhenFull ==
  /\ []TypeOK
  /\ [][\A c \in Clients :
          answer' = <<c, "ENOMEM">> =>
            Cardinality({i \in Slots : file_states[i].status = "HASH_ITEM_USED"}) >= FILE_STATE_LOG]_vars
=============================================================================
