----------------------------- MODULE MCServers -----------------------------
(* The two servers of the root task, for TLC: the registry, with the        *)
(* programs of the image, a second driver for "term", a second shell and a  *)
(* program that sends anything; and the file server, with a small image and *)
(* a small table.  They are two threads without common state, and no        *)
(* property relates them, so each is explored while the other is at rest:   *)
(* their interleavings would reach no other state of either.                *)
EXTENDS Services, RomfsServer, TLC

MCDriverName == [c \in Drivers |-> "term"]
MCShellNames == <<"term", "rom">>

MCFds   == {3, 4}
MCFiles == {"root", "etc", "motd"}
MCNames == {"etc", "motd"}

Entry(name, file) == [name |-> name, file |-> file]

MCEntries ==
  "root" :> <<Entry(".", "root"), Entry("etc", "etc")>> @@
  "etc"  :> <<Entry("motd", "motd")>> @@
  "motd" :> <<>>

VARIABLE busy   \* the server that is explored

ServersInit == ServicesInit /\ Init /\ busy \in {"registry", "files"}

Registry == busy = "registry" /\ ServicesNext /\ UNCHANGED <<vars, busy>>
FileServer == busy = "files" /\ Next /\ UNCHANGED <<services_vars, busy>>

ServersSpec == ServersInit /\ [][Registry \/ FileServer]_<<services_vars, vars, busy>>
=============================================================================
