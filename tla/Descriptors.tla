---------------------------- MODULE Descriptors ----------------------------
(***************************************************************************)
(* What a file server promises its clients about descriptors: every client  *)
(* has a table of its own, a descriptor stands for the file it was opened   *)
(* as until it is closed, and an open may be refused for want of room.      *)
(* Nothing one client does changes what another one sees.                   *)
(***************************************************************************)
CONSTANTS
  Clients, Fds, Files,
  RootDirectory,       \* the file that openroot opens
  Lookup(_, _),        \* the file of that name in a directory, or NoFile
  Names, NoFile

VARIABLES
  open,     \* the file of each client's descriptor, NoFile if it is closed
  answer    \* the last answer: to whom, and what

vars == <<open, answer>>

DInit == open = [k \in Clients \X Fds |-> NoFile] /\ answer = <<>>

Same(c, what) == answer' = <<c, what>> /\ UNCHANGED open

(* Opening a file with a descriptor that is closed.                         *)
DOpen(c, fd, f) ==
  /\ open[<<c, fd>>] = NoFile
  /\ \/ open' = [open EXCEPT ![<<c, fd>>] = f] /\ answer' = <<c, "opened">>
     \/ Same(c, "ENOMEM")

DOpenAt(c, fd, new, name) ==
  LET f == Lookup(open[<<c, fd>>], name) IN
  IF open[<<c, fd>>] = NoFile THEN Same(c, "EINVAL")
  ELSE IF f = NoFile THEN Same(c, "ENOENT")
  ELSE DOpen(c, new, f)

DClose(c, fd) ==
  IF open[<<c, fd>>] = NoFile THEN Same(c, "ENOENT")
  ELSE open' = [open EXCEPT ![<<c, fd>>] = NoFile] /\ answer' = <<c, "closed">>

(* A question about a descriptor is answered for the file it stands for.    *)
DAsk(c, fd) ==
  IF open[<<c, fd>>] = NoFile THEN \E e \in {"EINVAL", "EBADF"} : Same(c, e)
  ELSE Same(c, open[<<c, fd>>])

(* A request that cannot be understood, or asks what cannot be done.        *)
DRefuse(c) == \E e \in {"EINVAL", "EROFS", "echo"} : Same(c, e)

(* The server has answered somebody of whom nothing is promised.            *)
DElse == answer' # <<>> /\ answer'[1] \notin Clients /\ UNCHANGED open

DNext ==
  \/ DElse
  \/ \E c \in Clients :
       \/ \E fd \in Fds : DOpen(c, fd, RootDirectory) \/ DClose(c, fd) \/ DAsk(c, fd)
       \/ \E fd, new \in Fds, name \in Names : DOpenAt(c, fd, new, name)
       \/ DRefuse(c)

DSpec == DInit /\ [][DNext]_vars
=============================================================================
