------------------------------ MODULE Services ------------------------------
(***************************************************************************)
(* The service registry: the root task's loop and its table of names        *)
(* (usr/root/root.c, usr/root/service.c), drivers that register until they  *)
(* succeed (register_service in usr/pl011 and usr/shterm), shells that ask  *)
(* until they succeed (wait_for_service in usr/bsh), and any other program. *)
(*                                                                          *)
(* A call is one IPC with a send and a receive phase; that the reply of the *)
(* root task, which waits for nobody, meets a caller that already receives  *)
(* is shown in Ipc.  The requests for memory are those of PageAlloc.        *)
(***************************************************************************)
EXTENDS Naturals, Sequences, SequencesExt

CONSTANTS
  Drivers, Shells, Others,   \* the programs, each one thread
  Root, Romfs,               \* the threads of the root task
  DriverName,                \* the name each driver registers
  ShellNames,                \* the names a shell waits for, in their order
  ServiceNames,
  MAX_SERVICE_COUNT,
  NONE

Programs == Drivers \cup Shells \cup Others
Threads == Programs \cup {Root, Romfs}

ASSUME ServicesAssumption ==
  /\ DriverName \in [Drivers -> ServiceNames]
  /\ ShellNames \in Seq(ServiceNames)
  /\ {"mem", "serv", "rom"} \subseteq ServiceNames
  /\ MAX_SERVICE_COUNT \in Nat /\ MAX_SERVICE_COUNT >= 3
  /\ NONE \notin Threads /\ Root # Romfs /\ {Root, Romfs} \cap Programs = {}

VARIABLES
  services,     \* services[0 .. service_count - 1]
  from,         \* whom the root task answers, NONE while it receives
  reply,        \* the answer in its message registers
  call,         \* the request each client has sent, NoCall if none
  got,          \* what each shell knows of each name, L4_NILTHREAD if nothing
  registered    \* the drivers and others that were told they are registered

services_vars == <<services, from, reply, call, got, registered>>

NoCall   == [label |-> "none", wellformed |-> TRUE, name |-> "mem"]
Requests == [label : {"SERV_GET", "SERV_REGISTER", "another"},
             wellformed : BOOLEAN, name : ServiceNames]
Error    == [label |-> "SERV_ERROR", tid |-> NONE]
Answers  == [label : {"SERV_ERROR", "SERV_GET_RET", "SERV_REGISTER_RET"},
             tid : Threads \cup {NONE}]

Desc(n, t) == [name |-> n, thread |-> t]

(* The root task has registered its own services, started the file server   *)
(* and loaded the programs when it comes to its loop.                       *)
ServicesInit ==
  /\ services = <<Desc("mem", Root), Desc("serv", Root), Desc("rom", Romfs)>>
  /\ from = NONE /\ reply = Error
  /\ call = [c \in Programs |-> NoCall]
  /\ got = [c \in Shells |-> [n \in ServiceNames |-> NONE]]
  /\ registered = {}

-----------------------------------------------------------------------------
(* A mutated form: the search begins with the latest registration.          *)
find_service_desc_last(n) == SelectLastInSeq(services, LAMBDA d : d.name = n)

(* The place of the first registration of a name, 0 if there is none.       *)
find_service_desc(n) == SelectInSeq(services, LAMBDA d : d.name = n)

handle_service_get(r) ==
  /\ reply' = IF ~r.wellformed \/ find_service_desc(r.name) = 0 THEN Error
               ELSE [label |-> "SERV_GET_RET",
                     tid |-> services[find_service_desc(r.name)].thread]
  /\ UNCHANGED services

(* A mutated form: a full table is no error.                                *)
handle_service_register_quiet(r, c) ==
  IF ~r.wellformed THEN reply' = Error /\ UNCHANGED services
  ELSE /\ services' = IF Len(services) = MAX_SERVICE_COUNT THEN services
                      ELSE Append(services, Desc(r.name, c))
       /\ reply' = [label |-> "SERV_REGISTER_RET", tid |-> NONE]

handle_service_register(r, c) ==
  IF ~r.wellformed \/ Len(services) = MAX_SERVICE_COUNT
  THEN reply' = Error /\ UNCHANGED services
  ELSE /\ services' = Append(services, Desc(r.name, c))
       /\ reply' = [label |-> "SERV_REGISTER_RET", tid |-> NONE]

(* One turn of the loop of the root task: up to the reply.                  *)
Receive(c) ==
  /\ from = NONE /\ call[c] # NoCall
  /\ from' = c
  /\ \/ /\ call[c].label = "SERV_GET" /\ handle_service_get(call[c])
     \/ /\ call[c].label = "SERV_REGISTER" /\ handle_service_register(call[c], c)
     \/ /\ call[c].label = "another" /\ reply' = Error /\ UNCHANGED services
  /\ UNCHANGED <<call, got, registered>>

(* The reply, and what the client does with it.                             *)
Reply ==
  /\ from # NONE
  /\ from' = NONE
  /\ call' = [call EXCEPT ![from] = NoCall]
  /\ got' = IF from \in Shells /\ reply.label = "SERV_GET_RET"
            THEN [got EXCEPT ![from][call[from].name] = reply.tid] ELSE got
  /\ registered' = IF reply.label = "SERV_REGISTER_RET"
                   THEN registered \cup {<<call[from].name, from>>} ELSE registered
  /\ UNCHANGED <<services, reply>>

-----------------------------------------------------------------------------
Sends(c, r) ==
  /\ call[c] = NoCall
  /\ call' = [call EXCEPT ![c] = r]
  /\ UNCHANGED <<services, from, reply, got, registered>>

(* register_service: again until it is told SERV_REGISTER_RET.              *)
DriverRegisters(c) ==
  /\ <<DriverName[c], c>> \notin registered
  /\ Sends(c, [label |-> "SERV_REGISTER", wellformed |-> TRUE, name |-> DriverName[c]])

(* wait_for_service: one name after the other, each until it is known.      *)
ShellAsks(c) ==
  LET open == SelectInSeq(ShellNames, LAMBDA n : got[c][n] = NONE) IN
  /\ open # 0
  /\ Sends(c, [label |-> "SERV_GET", wellformed |-> TRUE, name |-> ShellNames[open]])

ServicesNext ==
  \/ \E c \in Programs : Receive(c)
  \/ Reply
  \/ \E c \in Drivers : DriverRegisters(c)
  \/ \E c \in Shells : ShellAsks(c)
  \/ \E c \in Others, r \in Requests : Sends(c, r)

ServicesSpec == ServicesInit /\ [][ServicesNext]_services_vars

-----------------------------------------------------------------------------
(* Every variable keeps its type, and the table its bound.                  *)
ServicesTypeOK ==
  /\ services \in Seq([name : ServiceNames, thread : Threads])
  /\ Len(services) \in 3 .. MAX_SERVICE_COUNT
  /\ from \in Programs \cup {NONE} /\ reply \in Answers
  /\ call \in [Programs -> Requests \cup {NoCall}]
  /\ got \in [Shells -> [ServiceNames -> Threads \cup {NONE}]]
  /\ registered \subseteq (ServiceNames \X Programs)

(* Whenever they asked, and whatever was registered between their calls     *)
(* (two drivers register "term"), all shells use the same thread for a      *)
(* name, and it is what the table still says: handle_service_get.           *)
Agreement ==
  \A c, d \in Shells : \A n \in ServiceNames :
    got[c][n] # NONE =>
      /\ got[d][n] \in {NONE, got[c][n]}
      /\ services[find_service_desc(n)].thread = got[c][n]

(* A program that was told it is registered (SERV_REGISTER_RET) is in the   *)
(* table, and nobody is in the table who was not told or is about to be.    *)
Told ==
  /\ ServicesTypeOK
  /\ \A r \in registered : \E i \in DOMAIN services : services[i] = Desc(r[1], r[2])
  /\ \A i \in 4 .. Len(services) :
       \/ <<services[i].name, services[i].thread>> \in registered
       \/ from = services[i].thread /\ reply.label = "SERV_REGISTER_RET"
=============================================================================
