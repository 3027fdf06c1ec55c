---------------------------- MODULE ServerProofs ----------------------------
(***************************************************************************)
(* Proofs about the servers of the root task, which share no state.         *)
(*                                                                         *)
(* Services, for every set of programs, names and size of the table: all    *)
(* shells use the same thread for a name (ServicesAgreement), and who was   *)
(* told that it is registered is in the table (ServicesTold).  The          *)
(* inductive invariant SInv relates what the clients know, and what the     *)
(* root task is about to reply, to the table.  It is kept because the table *)
(* only grows at its end, which changes no lookup that succeeded            *)
(* (RegisteringKeeps), and never between a request and its reply.           *)
(*                                                                         *)
(* RomfsServer, for every table, set of clients and image: the hash table   *)
(* with its probes and tombstones is to every careful client a table of its *)
(* own (RomfsDescriptors), and room is refused only when as many files are  *)
(* open as there are probes (RomfsRefuses).                                 *)
(***************************************************************************)
EXTENDS Services, RomfsServer, FiniteSetTheorems, SequenceTheorems,
        WellFoundedInduction, TLAPS

(* Min is the least element of a set of naturals.                            *)
LEMMA LeastElement ==
  ASSUME NEW S \in SUBSET Nat, S # {}
  PROVE  Min(S) \in S /\ \A i \in S : Min(S) <= i
<1> DEFINE less == {p \in Nat \X Nat : p[1] < p[2]}
<1>1. IsWellFoundedOn(less, Nat)
  BY NatLessThanWellFounded, Zenon DEF OpToRel
<1>2. PICK x \in S : \A y \in S : <<y, x>> \notin less
  <2> HIDE DEF less
  <2> QED BY <1>1, WFMin
<1>3. ASSUME NEW y \in S PROVE x <= y
  <2>1. <<y, x>> \in Nat \X Nat /\ <<y, x>>[1] = y /\ <<y, x>>[2] = x
    OBVIOUS
  <2>2. ~ (y < x)
    BY <1>2, <2>1
  <2> QED BY <2>2
<1> QED BY <1>3 DEF Min

-----------------------------------------------------------------------------
(* The registry.                                                            *)

Descs == [name : ServiceNames, thread : Threads]

(* What find_service_desc finds in a table s.                                *)
FirstOf(s, n) == SelectInSeq(s, LAMBDA d : d.name = n)

Has(s, n) == \E i \in 1 .. Len(s) : s[i].name = n

(* What a shell has been told is what the table says.                        *)
Known ==
  \A c \in Shells, n \in ServiceNames : got[c][n] # NONE =>
    Has(services, n) /\ services[FirstOf(services, n)].thread = got[c][n]

(* So is what the root task is about to tell.                                *)
Answered ==
  from # NONE =>
    /\ call[from] # NoCall
    /\ reply.label = "SERV_GET_RET" =>
         /\ Has(services, call[from].name)
         /\ services[FirstOf(services, call[from].name)].thread = reply.tid
    /\ reply.label = "SERV_REGISTER_RET" =>
         \E i \in 1 .. Len(services) : services[i] = Desc(call[from].name, from)

(* Every registration is in the table.                                       *)
Entered == \A r \in registered : \E i \in 1 .. Len(services) : services[i] = Desc(r[1], r[2])

(* Every entry but those of the root task was told, or is about to be.       *)
Owned ==
  \A i \in 4 .. Len(services) :
    \/ <<services[i].name, services[i].thread>> \in registered
    \/ /\ from # NONE /\ from = services[i].thread
       /\ call[from].name = services[i].name /\ reply.label = "SERV_REGISTER_RET"

SInv == ServicesTypeOK /\ Known /\ Answered /\ Entered /\ Owned

-----------------------------------------------------------------------------
(* find_service_desc: the lowest place of a name, if the table has it.       *)
LEMMA FirstOfIsFirst ==
  ASSUME NEW s \in Seq(Descs), NEW n
  PROVE  /\ ~ Has(s, n) => FirstOf(s, n) = 0
         /\ Has(s, n) => /\ FirstOf(s, n) \in 1 .. Len(s) /\ s[FirstOf(s, n)].name = n
                         /\ \A i \in 1 .. Len(s) : s[i].name = n => FirstOf(s, n) <= i
<1> DEFINE places == {i \in 1 .. Len(s) : s[i].name = n}
<1>1. FirstOf(s, n) = IF places # {} THEN Min(places) ELSE 0
  BY DEF FirstOf, SelectInSeq
<1>2. places \subseteq Nat /\ (Has(s, n) <=> places # {})
  BY LenProperties DEF Has
<1>3. places # {} => Min(places) \in places /\ \A i \in places : Min(places) <= i
  <2> HIDE DEF places
  <2> QED BY <1>2, LeastElement
<1> QED BY <1>1, <1>2, <1>3

(* A name that was found is found at the same place after a registration.    *)
LEMMA RegisteringKeeps ==
  ASSUME NEW s \in Seq(Descs), NEW e \in Descs, NEW n, Has(s, n)
  PROVE  Has(Append(s, e), n) /\ Append(s, e)[FirstOf(Append(s, e), n)] = s[FirstOf(s, n)]
<1> DEFINE t == Append(s, e)
           f == FirstOf(s, n)
           g == FirstOf(t, n)
<1>1. /\ t \in Seq(Descs) /\ Len(t) = Len(s) + 1 /\ Len(s) \in Nat
      /\ \A i \in 1 .. Len(s) : t[i] = s[i] /\ i \in 1 .. Len(t)
  BY AppendProperties, LenProperties
<1>2. Has(t, n)
  BY <1>1 DEF Has
<1>3. f \in 1 .. Len(s) /\ s[f].name = n /\ \A i \in 1 .. Len(s) : s[i].name = n => f <= i
  BY FirstOfIsFirst
<1>4. g \in 1 .. Len(t) /\ t[g].name = n /\ \A i \in 1 .. Len(t) : t[i].name = n => g <= i
  BY <1>1, <1>2, FirstOfIsFirst
<1> HIDE DEF t, f, g
<1>5. g <= f
  BY <1>1, <1>3, <1>4
<1>6. g \in 1 .. Len(s) /\ s[g].name = n
  BY <1>1, <1>3, <1>4, <1>5
<1>7. f = g
  BY <1>3, <1>5, <1>6
<1> QED BY <1>1, <1>2, <1>3, <1>7 DEF t, f, g

(* The table has no other thread than those of programs.                     *)
LEMMA Typing ==
  ASSUME ServicesTypeOK
  PROVE  /\ services \in Seq(Descs) /\ Len(services) \in Nat
         /\ \A i \in 1 .. Len(services) : services[i] \in Descs
         /\ from \in Programs \cup {NONE} /\ reply \in Answers
         /\ call \in [Programs -> Requests \cup {NoCall}]
         /\ got \in [Shells -> [ServiceNames -> Threads \cup {NONE}]]
         /\ registered \subseteq (ServiceNames \X Programs)
         /\ \A c \in Programs : call[c].name \in ServiceNames
<1>1. services \in Seq(Descs)
  BY DEF ServicesTypeOK, Descs
<1>2. \A i \in 1 .. Len(services) : services[i] \in Descs
  BY <1>1, ElementOfSeq
<1>3. \A c \in Programs : call[c].name \in ServiceNames
  BY ServicesAssumption DEF ServicesTypeOK, Requests, NoCall
<1> QED BY <1>1, <1>2, <1>3, LenProperties DEF ServicesTypeOK

(* The root task has entered its own services, and nobody asked yet.         *)
LEMMA SInvInit == ServicesInit => SInv
<1> SUFFICES ASSUME ServicesInit PROVE SInv
  OBVIOUS
<1> USE ServicesAssumption DEF ServicesInit
<1>1. /\ services \in Seq(Descs) /\ Len(services) = 3
  BY DEF Descs, Desc, Threads
<1>2. ServicesTypeOK
  BY <1>1 DEF ServicesTypeOK, Descs, Answers, Error, Requests, NoCall
<1>3. Known /\ Answered /\ Entered /\ Owned
  BY <1>1 DEF Known, Answered, Entered, Owned
<1> QED BY <1>2, <1>3 DEF SInv

(* The root task looks a name up, or refuses a request.                      *)
LEMMA ServicesAnswer ==
  ASSUME SInv, NEW c \in Programs, from = NONE, call[c] # NoCall, from' = c,
         UNCHANGED <<services, call, got, registered>>,
         reply' = Error \/ handle_service_get(call[c])
  PROVE  SInv'
<1> USE ServicesAssumption DEF SInv
<1>1. /\ services \in Seq(Descs) /\ reply' \in Answers
      /\ reply'.label = "SERV_GET_RET" =>
           Has(services, call[c].name) /\ services[FirstOf(services, call[c].name)].thread = reply'.tid
      /\ reply'.label # "SERV_REGISTER_RET"
  <2>1. CASE reply' = Error
    BY <2>1, Typing DEF Error, Answers
  <2>2. CASE reply' # Error
    <3>1. /\ find_service_desc(call[c].name) # 0
          /\ reply' = [label |-> "SERV_GET_RET", tid |-> services[find_service_desc(call[c].name)].thread]
      BY <2>2 DEF handle_service_get
    <3>2. find_service_desc(call[c].name) = FirstOf(services, call[c].name)
      BY DEF find_service_desc, FirstOf
    <3>3. Has(services, call[c].name) /\ FirstOf(services, call[c].name) \in 1 .. Len(services)
      BY <3>1, <3>2, Typing, FirstOfIsFirst
    <3> QED BY <3>1, <3>2, <3>3, Typing DEF Descs, Answers
  <2> QED BY <2>1, <2>2
<1>2. ServicesTypeOK'
  BY <1>1 DEF ServicesTypeOK
<1>3. Known' /\ Entered'
  BY DEF Known, Entered
<1>4. Answered'
  BY <1>1 DEF Answered
<1>5. Owned'
  BY <1>1 DEF Owned
<1> QED BY <1>2, <1>3, <1>4, <1>5

(* The root task enters a name in its table.                                 *)
LEMMA ServicesEnter ==
  ASSUME SInv, NEW c \in Programs, from = NONE, call[c] # NoCall, from' = c,
         UNCHANGED <<call, got, registered>>, Len(services) # MAX_SERVICE_COUNT,
         services' = Append(services, Desc(call[c].name, c)),
         reply' = [label |-> "SERV_REGISTER_RET", tid |-> NONE]
  PROVE  SInv'
<1> USE ServicesAssumption DEF SInv
<1> DEFINE e == Desc(call[c].name, c)
<1>1. services \in Seq(Descs) /\ e \in Descs
  BY Typing DEF Desc, Descs, Threads
<1>2. /\ services' \in Seq(Descs) /\ Len(services') = Len(services) + 1 /\ Len(services) \in Nat
      /\ \A i \in 1 .. Len(services) : services'[i] = services[i] /\ i \in 1 .. Len(services')
      /\ services'[Len(services')] = e
  BY <1>1, AppendProperties, LenProperties
<1>3. ASSUME NEW n, Has(services, n)
      PROVE  Has(services', n) /\ services'[FirstOf(services', n)] = services[FirstOf(services, n)]
  BY <1>1, <1>3, RegisteringKeeps
<1>4. ServicesTypeOK'
  BY <1>2 DEF ServicesTypeOK, Descs, Answers
<1>5. Known'
  BY <1>3 DEF Known
<1>6. Answered'
  BY <1>2 DEF Answered
<1>7. Entered'
  BY <1>2 DEF Entered
<1>8. Owned'
  <2> SUFFICES ASSUME NEW i \in 4 .. Len(services'),
                      ~ (from' = services'[i].thread /\ call[c].name = services'[i].name)
               PROVE  <<services'[i].name, services'[i].thread>> \in registered
    BY DEF Owned, Threads
  <2>1. i # Len(services')
    BY <1>2 DEF Desc
  <2>2. i \in 4 .. Len(services) /\ services'[i] = services[i]
    BY <1>2, <2>1
  <2> QED BY <2>2 DEF Owned
<1> QED BY <1>4, <1>5, <1>6, <1>7, <1>8

(* One turn of the loop of the root task.                                    *)
LEMMA ServicesReceive == ASSUME SInv, NEW c \in Programs, Receive(c) PROVE SInv'
<1>1. from = NONE /\ call[c] # NoCall /\ from' = c /\ UNCHANGED <<call, got, registered>>
  BY DEF Receive
<1>2. \/ UNCHANGED services /\ (reply' = Error \/ handle_service_get(call[c]))
      \/ /\ Len(services) # MAX_SERVICE_COUNT /\ services' = Append(services, Desc(call[c].name, c))
         /\ reply' = [label |-> "SERV_REGISTER_RET", tid |-> NONE]
  BY DEF Receive, handle_service_get, handle_service_register
<1> QED BY <1>1, <1>2, ServicesAnswer, ServicesEnter

(* The client reads the reply to its own request.                           *)
LEMMA ServicesReply == ASSUME SInv, Reply PROVE SInv'
<1> USE ServicesAssumption DEF SInv
<1>1. /\ from \in Programs /\ from # NONE /\ from' = NONE /\ UNCHANGED <<services, reply>>
      /\ call' = [call EXCEPT ![from] = NoCall]
      /\ call[from].name \in ServiceNames
  BY Typing DEF Reply
<1>2. got' = got \/ (/\ from \in Shells /\ reply.label = "SERV_GET_RET"
                    /\ got' = [got EXCEPT ![from][call[from].name] = reply.tid])
  BY DEF Reply
<1>3. IF reply.label = "SERV_REGISTER_RET" THEN registered' = registered \cup {<<call[from].name, from>>}
                                            ELSE registered' = registered
  BY DEF Reply
<1>4. ServicesTypeOK'
  <2>1. got' \in [Shells -> [ServiceNames -> Threads \cup {NONE}]]
    <3>1. reply.tid \in Threads \cup {NONE} /\ got \in [Shells -> [ServiceNames -> Threads \cup {NONE}]]
      BY Typing DEF Answers
    <3>2. from \in Shells => [got[from] EXCEPT ![call[from].name] = reply.tid] \in [ServiceNames -> Threads \cup {NONE}]
      BY <1>1, <3>1
    <3> QED BY <1>2, <3>1, <3>2
  <2>2. call' \in [Programs -> Requests \cup {NoCall}]
    BY <1>1, Typing
  <2>3. registered' \subseteq (ServiceNames \X Programs)
    BY <1>1, <1>3, Typing
  <2> QED BY <1>1, <2>1, <2>2, <2>3 DEF ServicesTypeOK
<1>5. Known'
  <2> SUFFICES ASSUME NEW d \in Shells, NEW n \in ServiceNames, got'[d][n] # NONE
               PROVE  Has(services, n) /\ services[FirstOf(services, n)].thread = got'[d][n]
    BY <1>1 DEF Known
  <2>1. \/ got'[d][n] = got[d][n]
        \/ /\ reply.label = "SERV_GET_RET" /\ n = call[from].name /\ got'[d][n] = reply.tid
    BY <1>1, <1>2, Typing
  <2> QED BY <1>1, <2>1 DEF Known, Answered
<1>6. Answered'
  BY <1>1 DEF Answered
<1>7. Entered'
  BY <1>1, <1>3 DEF Entered, Answered
<1>8. Owned'
  BY <1>1, <1>3 DEF Owned
<1> QED BY <1>4, <1>5, <1>6, <1>7, <1>8

(* A request is sent by a client that has none under way.                    *)
LEMMA ServicesSends == ASSUME SInv, NEW c \in Programs, NEW r \in Requests, Sends(c, r) PROVE SInv'
<1> USE ServicesAssumption DEF SInv
<1>1. /\ call[c] = NoCall /\ call' = [call EXCEPT ![c] = r]
      /\ UNCHANGED <<services, from, reply, got, registered>>
  BY DEF Sends
<1>2. from # NONE => call'[from] = call[from]
  BY <1>1, Typing DEF Answered
<1>3. ServicesTypeOK'
  BY <1>1 DEF ServicesTypeOK
<1>4. Known' /\ Entered'
  BY <1>1 DEF Known, Entered
<1>5. Answered' /\ Owned'
  BY <1>1, <1>2 DEF Answered, Owned
<1> QED BY <1>3, <1>4, <1>5

(* One step per action.                                                      *)
LEMMA SInvNext == SInv /\ [ServicesNext]_services_vars => SInv'
<1> SUFFICES ASSUME SInv, [ServicesNext]_services_vars PROVE SInv'
  OBVIOUS
<1> USE ServicesAssumption
<1>1. CASE UNCHANGED services_vars
  BY <1>1 DEF services_vars, SInv, ServicesTypeOK, Known, Answered, Entered, Owned
<1>2. CASE \E c \in Programs : Receive(c)
  BY <1>2, ServicesReceive
<1>3. CASE Reply
  BY <1>3, ServicesReply
<1>4. CASE \E c \in Drivers : DriverRegisters(c)
  <2>1. PICK c \in Drivers : DriverRegisters(c)
    BY <1>4
  <2>2. [label |-> "SERV_REGISTER", wellformed |-> TRUE, name |-> DriverName[c]] \in Requests
    BY DEF Requests
  <2> QED BY <2>1, <2>2, ServicesSends DEF DriverRegisters, Programs
<1>5. CASE \E c \in Shells : ShellAsks(c)
  <2>1. PICK c \in Shells : ShellAsks(c)
    BY <1>5
  <2> DEFINE unknown == {i \in 1 .. Len(ShellNames) : got[c][ShellNames[i]] = NONE}
  <2>2. PICK i : i = (IF unknown # {} THEN Min(unknown) ELSE 0) /\ i # 0 /\
          Sends(c, [label |-> "SERV_GET", wellformed |-> TRUE, name |-> ShellNames[i]])
    BY <2>1 DEF ShellAsks, SelectInSeq
  <2>3. unknown \in SUBSET Nat /\ i \in unknown
    <3>1. unknown \in SUBSET Nat
      BY LenProperties
    <3> HIDE DEF unknown
    <3> QED BY <2>2, <3>1, LeastElement
  <2>4. [label |-> "SERV_GET", wellformed |-> TRUE, name |-> ShellNames[i]] \in Requests
    BY <2>3, ElementOfSeq DEF Requests
  <2> QED BY <2>2, <2>4, ServicesSends DEF Programs
<1>6. CASE \E c \in Others, r \in Requests : Sends(c, r)
  BY <1>6, ServicesSends DEF Programs
<1> QED BY <1>1, <1>2, <1>3, <1>4, <1>5, <1>6 DEF ServicesNext

(* However the requests of shells and the registrations of drivers are       *)
(* interleaved, and whoever registers a name twice: every shell is told the  *)
(* same thread, the one of the first entry (find_service_desc).              *)
THEOREM ServicesAgreement == ServicesSpec => []Agreement
<1>1. SInv => Agreement
  BY DEF SInv, Known, Agreement, find_service_desc, FirstOf
<1> QED BY <1>1, SInvInit, SInvNext, PTL DEF ServicesSpec

(* SERV_REGISTER_RET is the reply to every program that has an entry, and   *)
(* to no other one (handle_service_register).                                *)
THEOREM ServicesTold == ServicesSpec => []Told
<1>1. SInv => Told
  <2> SUFFICES ASSUME SInv PROVE Told
    OBVIOUS
  <2>1. DOMAIN services = 1 .. Len(services)
    BY Typing, LenProperties DEF SInv
  <2> QED BY <2>1 DEF SInv, Told, Entered, Owned
<1> QED BY <1>1, SInvInit, SInvNext, PTL DEF ServicesSpec

-----------------------------------------------------------------------------
(* The file server.                                                         *)

Items == {Free, Tomb} \cup {Used(c, fd, f) : c \in Clients, fd \in Fds, f \in Files}

(* A careful client has one place for one descriptor.                        *)
One ==
  \A i, j \in Slots, c \in Careful, fd \in Fds : IsOf(i, c, fd) /\ IsOf(j, c, fd) => i = j

(* Every entry lies at one of its probes, with no free place at an earlier   *)
(* one: a place that was used once is never free again.                      *)
Reachable ==
  \A i \in Slots, c \in Clients, fd \in Fds : IsOf(i, c, fd) =>
    \E k \in 0 .. FILE_STATE_LOG - 1 :
      Probe(fd, k) = i /\ \A m \in 0 .. k - 1 : file_states[Probe(fd, m)] # Free

RInv == file_states \in [Slots -> Items] /\ One /\ Reachable

-----------------------------------------------------------------------------
LEMMA Constants ==
  /\ Fds \subseteq Nat /\ FILE_STATE_COUNT \in Nat \ {0} /\ FILE_STATE_LOG \in Nat
  /\ RootDirectory \in Files /\ NoFile \notin Files /\ Careful \subseteq Clients
BY RomfsAssumption

(* The kinds of entries are told apart by their status.                      *)
LEMMA Kinds ==
  /\ Free.status = "HASH_ITEM_FREE" /\ Tomb.status = "HASH_ITEM_TOMBSTONE"
  /\ \A c, fd, f : /\ Used(c, fd, f).status = "HASH_ITEM_USED" /\ Used(c, fd, f).owner = c
                   /\ Used(c, fd, f).fd = fd /\ Used(c, fd, f).file = f
BY DEF Free, Tomb, Used

LEMMA ItemOf ==
  ASSUME file_states \in [Slots -> Items], NEW i \in Slots
  PROVE  /\ file_states[i] \in Items
         /\ \A c, fd : IsOf(i, c, fd) =>
              /\ file_states[i] # Free /\ file_states[i] # Tomb
              /\ file_states[i].file \in Files
              /\ c \in Clients /\ fd \in Fds
<1>1. file_states[i] \in Items
  OBVIOUS
<1>2. ASSUME NEW c, NEW fd, IsOf(i, c, fd)
      PROVE  /\ file_states[i] # Free /\ file_states[i] # Tomb
             /\ file_states[i].file \in Files /\ c \in Clients /\ fd \in Fds
  <2>1. file_states[i].status = "HASH_ITEM_USED"
    BY <1>2 DEF IsOf
  <2>2. file_states[i] # Free /\ file_states[i] # Tomb
    BY <2>1, Kinds
  <2>3. PICK d \in Clients, x \in Fds, f \in Files : file_states[i] = Used(d, x, f)
    BY <1>1, <2>2 DEF Items
  <2> QED BY <1>2, <2>2, <2>3, Kinds DEF IsOf
<1> QED BY <1>1, <1>2

LEMMA ProbeIn ==
  ASSUME NEW fd \in Fds, NEW k \in Nat
  PROVE  hash_combine(fd) \in 0 .. FILE_STATE_COUNT /\ Probe(fd, k) \in Slots
<1> DEFINE sum == (fd + 25) % FILE_STATE_COUNT
<1>1. fd \in Nat /\ FILE_STATE_COUNT \in Nat \ {0}
  BY Constants
<1>2. sum \in 0 .. FILE_STATE_COUNT - 1
  BY <1>1
<1>3. hash_combine(fd) \in 0 .. FILE_STATE_COUNT
  <2> HIDE DEF sum
  <2>1. (IF sum % 2 = 0 THEN sum + 1 ELSE sum - 1) \in 0 .. FILE_STATE_COUNT
    BY <1>1, <1>2
  <2> QED BY <2>1 DEF hash_combine, sum
<1>4. k * k \in Nat
  OBVIOUS
<1>5. \A x \in Nat : x % FILE_STATE_COUNT \in 0 .. FILE_STATE_COUNT - 1
  BY <1>1
<1>6. hash_combine(fd) + k * k \in Nat
  BY <1>1, <1>3, <1>4
<1> QED BY <1>3, <1>5, <1>6 DEF Probe, Slots

(* Where a search ends: at the first probe that is one of the places.        *)
LEMMA FirstProbeIs ==
  ASSUME NEW fd \in Fds, NEW places
  PROVE  \/ /\ FirstProbe(fd, places) = {}
            /\ \A k \in 0 .. FILE_STATE_LOG - 1 : Probe(fd, k) \notin places
         \/ \E k \in 0 .. FILE_STATE_LOG - 1 :
              /\ FirstProbe(fd, places) = {Probe(fd, k)} /\ Probe(fd, k) \in places
              /\ \A m \in 0 .. k - 1 : Probe(fd, m) \notin places
<1> DEFINE hits == {i \in 0 .. FILE_STATE_LOG - 1 : Probe(fd, i) \in places}
<1>1. FirstProbe(fd, places) = IF hits = {} THEN {} ELSE {Probe(fd, Min(hits))}
  BY DEF FirstProbe
<1>2. CASE hits = {}
  BY <1>1, <1>2
<1>3. CASE hits # {}
  <2>1. hits \in SUBSET Nat /\ FILE_STATE_LOG \in Nat
    BY Constants
  <2>2. Min(hits) \in hits /\ \A i \in hits : Min(hits) <= i
    <3> HIDE DEF hits
    <3> QED BY <1>3, <2>1, LeastElement
  <2>3. ASSUME NEW m \in 0 .. Min(hits) - 1 PROVE Probe(fd, m) \notin places
    <3>1. Min(hits) \in 0 .. FILE_STATE_LOG - 1
      BY <2>2
    <3>2. m \in 0 .. FILE_STATE_LOG - 1 /\ ~ (Min(hits) <= m)
      BY <2>1, <2>3, <3>1
    <3>3. m \notin hits
      BY <2>2, <3>2
    <3> QED BY <3>2, <3>3
  <2> QED BY <1>1, <1>3, <2>2, <2>3
<1> QED BY <1>2, <1>3

-----------------------------------------------------------------------------
(* The searches.                                                            *)

LEMMA FindIn ==
  ASSUME file_states \in [Slots -> Items], NEW c \in Clients, NEW fd \in Fds, NEW i \in Find(c, fd)
  PROVE  i \in Slots /\ IsOf(i, c, fd)
<1> DEFINE places == {j \in Slots : file_states[j] = Free \/ IsOf(j, c, fd)}
<1>1. i \in FirstProbe(fd, places) /\ IsOf(i, c, fd)
  BY DEF Find
<1>2. \A k \in 0 .. FILE_STATE_LOG - 1 : Probe(fd, k) \in Slots
  BY ProbeIn, Constants
<1> HIDE DEF places
<1> QED BY <1>1, <1>2, FirstProbeIs

(* find_vfs_file_state finds what a careful client has open.                 *)
LEMMA FindFinds ==
  ASSUME RInv, NEW c \in Careful, NEW fd \in Fds, NEW i \in Slots, IsOf(i, c, fd)
  PROVE  Find(c, fd) = {i}
<1> DEFINE places == {j \in Slots : file_states[j] = Free \/ IsOf(j, c, fd)}
<1>1. c \in Clients /\ file_states \in [Slots -> Items]
  BY Constants DEF RInv
<1>2. PICK k \in 0 .. FILE_STATE_LOG - 1 :
        Probe(fd, k) = i /\ \A m \in 0 .. k - 1 : file_states[Probe(fd, m)] # Free
  BY <1>1 DEF RInv, Reachable
<1>3. Probe(fd, k) \in places
  BY <1>2
<1>4. PICK n \in 0 .. FILE_STATE_LOG - 1 :
        /\ FirstProbe(fd, places) = {Probe(fd, n)} /\ Probe(fd, n) \in places
        /\ \A m \in 0 .. n - 1 : Probe(fd, m) \notin places
  <2> HIDE DEF places
  <2> QED BY <1>3, FirstProbeIs
<1>5. n \in 0 .. k - 1 \/ n = k
  <2>1. ~ (k \in 0 .. n - 1)
    BY <1>3, <1>4
  <2>2. FILE_STATE_LOG \in Nat
    BY Constants
  <2> QED BY <2>1, <2>2
<1>6. Probe(fd, n) \in Slots /\ (file_states[Probe(fd, n)] = Free \/ IsOf(Probe(fd, n), c, fd))
  BY <1>4
<1>7. IsOf(Probe(fd, n), c, fd)
  BY <1>2, <1>5, <1>6
<1>8. Probe(fd, n) = i
  BY <1>6, <1>7 DEF RInv, One
<1> QED BY <1>4, <1>8 DEF Find

(* find_vfs_file_state_insertion_point: all probes hold files, or it is the  *)
(* first one that does not, or the one that is of this descriptor.           *)
LEMMA InsertionPointIs ==
  ASSUME file_states \in [Slots -> Items], NEW c \in Clients, NEW fd \in Fds
  PROVE  \/ /\ InsertionPoint(c, fd) = {}
            /\ \A k \in 0 .. FILE_STATE_LOG - 1 : file_states[Probe(fd, k)].status = "HASH_ITEM_USED"
         \/ \E k \in 0 .. FILE_STATE_LOG - 1 :
              /\ InsertionPoint(c, fd) = {Probe(fd, k)} /\ Probe(fd, k) \in Slots
              /\ file_states[Probe(fd, k)] \in {Free, Tomb} \/ IsOf(Probe(fd, k), c, fd)
              /\ \A m \in 0 .. k - 1 : file_states[Probe(fd, m)] # Free
<1> DEFINE places == {i \in Slots : file_states[i] \in {Free, Tomb} \/ IsOf(i, c, fd)}
<1>1. InsertionPoint(c, fd) = FirstProbe(fd, places)
  BY DEF InsertionPoint
<1>2. \A k \in 0 .. FILE_STATE_LOG - 1 : Probe(fd, k) \in Slots
  BY ProbeIn, Constants
<1>3. \/ /\ FirstProbe(fd, places) = {}
         /\ \A k \in 0 .. FILE_STATE_LOG - 1 : Probe(fd, k) \notin places
      \/ \E k \in 0 .. FILE_STATE_LOG - 1 :
           /\ FirstProbe(fd, places) = {Probe(fd, k)} /\ Probe(fd, k) \in places
           /\ \A m \in 0 .. k - 1 : Probe(fd, m) \notin places
  <2> HIDE DEF places
  <2> QED BY FirstProbeIs
<1>4. ASSUME NEW i \in Slots, i \notin places
      PROVE  file_states[i].status = "HASH_ITEM_USED" /\ file_states[i] # Free
  <2>1. file_states[i] \in Items /\ file_states[i] # Free /\ file_states[i] # Tomb
    BY <1>4
  <2> QED BY <2>1, Kinds DEF Items
<1>5. CASE /\ FirstProbe(fd, places) = {}
           /\ \A k \in 0 .. FILE_STATE_LOG - 1 : Probe(fd, k) \notin places
  <2> HIDE DEF places
  <2> QED BY <1>1, <1>2, <1>4, <1>5
<1>6. ASSUME NEW k \in 0 .. FILE_STATE_LOG - 1,
             FirstProbe(fd, places) = {Probe(fd, k)}, Probe(fd, k) \in places,
             \A m \in 0 .. k - 1 : Probe(fd, m) \notin places
      PROVE  /\ InsertionPoint(c, fd) = {Probe(fd, k)} /\ Probe(fd, k) \in Slots
             /\ file_states[Probe(fd, k)] \in {Free, Tomb} \/ IsOf(Probe(fd, k), c, fd)
             /\ \A m \in 0 .. k - 1 : file_states[Probe(fd, m)] # Free
  <2>1. \A m \in 0 .. k - 1 : m \in 0 .. FILE_STATE_LOG - 1
    BY Constants
  <2>2. \A m \in 0 .. k - 1 : file_states[Probe(fd, m)] # Free
    <3> HIDE DEF places
    <3> QED BY <1>2, <1>4, <1>6, <2>1
  <2>3. Probe(fd, k) \in Slots /\ (file_states[Probe(fd, k)] \in {Free, Tomb} \/ IsOf(Probe(fd, k), c, fd))
    BY <1>6
  <2> QED BY <1>1, <1>6, <2>2, <2>3
<1> HIDE DEF places
<1> QED BY <1>3, <1>5, <1>6

(* What a careful client's descriptor stands for.                            *)
LEMMA OpenFileIs ==
  ASSUME RInv, NEW c \in Careful, NEW fd \in Fds
  PROVE  /\ \A i \in Slots : IsOf(i, c, fd) => OpenFile[<<c, fd>>] = file_states[i].file
         /\ (~ \E i \in Slots : IsOf(i, c, fd)) => OpenFile[<<c, fd>>] = NoFile
<1>1. OpenFile[<<c, fd>>] =
        IF \E i \in Slots : IsOf(i, c, fd)
        THEN file_states[CHOOSE i \in Slots : IsOf(i, c, fd)].file ELSE NoFile
  BY DEF OpenFile
<1>2. ASSUME NEW i \in Slots, IsOf(i, c, fd) PROVE (CHOOSE j \in Slots : IsOf(j, c, fd)) = i
  <2>1. /\ (CHOOSE j \in Slots : IsOf(j, c, fd)) \in Slots
        /\ IsOf(CHOOSE j \in Slots : IsOf(j, c, fd), c, fd)
    BY <1>2, Zenon
  <2> QED BY <1>2, <2>1, Zenon DEF RInv, One
<1> QED BY <1>1, <1>2, Zenon

(* ... and whether it has one.                                               *)
LEMMA OpenFileType ==
  ASSUME RInv, NEW c \in Careful, NEW fd \in Fds
  PROVE  /\ OpenFile[<<c, fd>>] \in Files \cup {NoFile}
         /\ OpenFile[<<c, fd>>] = NoFile <=> ~ HasOpen(c, fd)
         /\ OpenFile[<<c, fd>>] = NoFile <=> Find(c, fd) = {}
         /\ \A i \in Find(c, fd) : OpenFile[<<c, fd>>] = file_states[i].file
<1>1. c \in Clients /\ NoFile \notin Files /\ file_states \in [Slots -> Items]
  BY Constants DEF RInv
<1>2. ASSUME NEW i \in Slots, IsOf(i, c, fd)
      PROVE  OpenFile[<<c, fd>>] = file_states[i].file /\ file_states[i].file \in Files /\ Find(c, fd) = {i}
  BY <1>1, <1>2, OpenFileIs, ItemOf, FindFinds
<1>3. \A i \in Find(c, fd) : i \in Slots /\ IsOf(i, c, fd)
  BY <1>1, FindIn
<1>4. (~ \E i \in Slots : IsOf(i, c, fd)) => OpenFile[<<c, fd>>] = NoFile /\ Find(c, fd) = {}
  BY <1>3, OpenFileIs
<1> QED BY <1>1, <1>2, <1>3, <1>4 DEF HasOpen

(* romfs_openat answers a file of the image or that there is none.           *)
LEMMA OpenatType ==
  ASSUME NEW d \in Files, NEW name
  PROVE  romfs_openat(d, name) \in Files \cup {NoFile}
<1> DEFINE named == {i \in 1 .. Len(Entries[d]) : Entries[d][i].name = name}
           hit   == SelectInSeq(Entries[d], LAMBDA e : e.name = name)
<1>1. Entries[d] \in Seq(Range(Entries[d])) /\ \A e \in Range(Entries[d]) : e.file \in Files
  BY RomfsAssumption
<1>2. hit = IF named # {} THEN Min(named) ELSE 0
  BY DEF SelectInSeq
<1>3. named \in SUBSET Nat
  BY <1>1
<1>4. CASE hit = 0
  BY <1>4 DEF romfs_openat
<1>5. CASE hit # 0
  <2>1. hit \in named
    <3> HIDE DEF named, hit
    <3> QED BY <1>2, <1>3, <1>5, LeastElement
  <2>2. hit \in 1 .. Len(Entries[d])
    BY <2>1
  <2>3. Entries[d][hit] \in Range(Entries[d])
    <3> HIDE DEF hit
    <3> QED BY <1>1, <2>2
  <2>4. romfs_openat(d, name) = Entries[d][hit].file
    BY <1>5, Zenon DEF romfs_openat
  <2> QED BY <1>1, <2>3, <2>4
<1> QED BY <1>4, <1>5

-----------------------------------------------------------------------------
(* One step on one place.                                                   *)

(* Nothing but the table counts for what is open.                            *)
LEMMA SameTable ==
  ASSUME UNCHANGED file_states
  PROVE  OpenFile' = OpenFile /\ (RInv => RInv')
BY DEF OpenFile, RInv, One, Reachable, IsOf

(* What a place holds after another, or itself, was written.                 *)
LEMMA Written ==
  ASSUME file_states \in [Slots -> Items], NEW i \in Slots, NEW x \in Items,
         file_states' = [file_states EXCEPT ![i] = x]
  PROVE  /\ file_states' \in [Slots -> Items]
         /\ file_states'[i] = x
         /\ \A j \in Slots : j # i => file_states'[j] = file_states[j]
         /\ \A j \in Slots : j # i => \A c, fd : IsOf(j, c, fd)' <=> IsOf(j, c, fd)
BY DEF IsOf

(* A tombstone closes a file and hides no other one.                         *)
LEMMA BuryInv ==
  ASSUME RInv, NEW i \in Slots, file_states' = [file_states EXCEPT ![i] = Tomb]
  PROVE  RInv'
<1>1. file_states \in [Slots -> Items] /\ One /\ Reachable /\ Tomb \in Items
  BY DEF RInv, Items
<1>2. /\ file_states' \in [Slots -> Items] /\ file_states'[i] = Tomb
      /\ \A j \in Slots : j # i => file_states'[j] = file_states[j]
      /\ \A j \in Slots : j # i => \A c, fd : IsOf(j, c, fd)' <=> IsOf(j, c, fd)
  BY <1>1, Written
<1>3. Tomb # Free /\ \A c, fd : ~ IsOf(i, c, fd)'
  BY <1>2, Kinds DEF IsOf
<1>4. ASSUME NEW j \in Slots, NEW c, NEW fd, IsOf(j, c, fd)' PROVE j # i /\ IsOf(j, c, fd)
  BY <1>2, <1>3, <1>4
<1>5. One'
  BY <1>1, <1>4, Zenon DEF One
<1>6. ASSUME NEW j \in Slots, NEW c \in Clients, NEW fd \in Fds, IsOf(j, c, fd)'
      PROVE  \E k \in 0 .. FILE_STATE_LOG - 1 :
               Probe(fd, k) = j /\ \A m \in 0 .. k - 1 : file_states'[Probe(fd, m)] # Free
  <2>1. PICK k \in 0 .. FILE_STATE_LOG - 1 :
          Probe(fd, k) = j /\ \A m \in 0 .. k - 1 : file_states[Probe(fd, m)] # Free
    BY <1>1, <1>4, <1>6 DEF Reachable
  <2>2. \A m \in 0 .. k - 1 : Probe(fd, m) \in Slots
    BY ProbeIn
  <2> QED BY <1>2, <1>3, <2>1, <2>2
<1>7. Reachable'
  BY <1>6, Zenon DEF Reachable
<1> QED BY <1>2, <1>5, <1>7, Zenon DEF RInv

(* An entry goes to the first place that is not used, so nothing before it   *)
(* is free.                                                                 *)
LEMMA EnterInv ==
  ASSUME RInv, NEW d \in Clients, NEW x \in Fds, NEW f \in Files, MayOpen(d, x),
         NEW n \in 0 .. FILE_STATE_LOG - 1, Probe(x, n) \in Slots,
         \A m \in 0 .. n - 1 : file_states[Probe(x, m)] # Free,
         file_states' = [file_states EXCEPT ![Probe(x, n)] = Used(d, x, f)]
  PROVE  RInv'
<1> DEFINE i == Probe(x, n)
<1>1. file_states \in [Slots -> Items] /\ One /\ Reachable /\ Used(d, x, f) \in Items /\ i \in Slots
  BY DEF RInv, Items
<1>2. /\ file_states' \in [Slots -> Items] /\ file_states'[i] = Used(d, x, f)
      /\ \A j \in Slots : j # i => file_states'[j] = file_states[j]
      /\ \A j \in Slots : j # i => \A c, fd : IsOf(j, c, fd)' <=> IsOf(j, c, fd)
  BY <1>1, Written
<1>3. Used(d, x, f) # Free /\ \A c, fd : IsOf(i, c, fd)' => c = d /\ fd = x
  BY <1>2, Kinds DEF IsOf
<1>4. ASSUME NEW j \in Slots, NEW c, NEW fd, IsOf(j, c, fd)'
      PROVE  (j # i /\ IsOf(j, c, fd)) \/ (j = i /\ c = d /\ fd = x)
  BY <1>2, <1>3, <1>4
<1>5. d \in Careful => \A j \in Slots : ~ IsOf(j, d, x)
  BY DEF MayOpen, HasOpen
<1>6. One'
  <2>1. SUFFICES ASSUME NEW j \in Slots, NEW k \in Slots, NEW c \in Careful, NEW fd \in Fds,
                        IsOf(j, c, fd)', IsOf(k, c, fd)'
                 PROVE  j = k
    BY Zenon DEF One
  <2>2. /\ (j # i /\ IsOf(j, c, fd)) \/ (j = i /\ c = d /\ fd = x)
        /\ (k # i /\ IsOf(k, c, fd)) \/ (k = i /\ c = d /\ fd = x)
    BY <1>4, <2>1
  <2>3. CASE IsOf(j, c, fd) /\ IsOf(k, c, fd)
    BY <1>1, <2>3 DEF One
  <2>4. CASE c = d /\ fd = x
    BY <1>5, <2>2, <2>4
  <2> QED BY <2>2, <2>3, <2>4
<1>7. ASSUME NEW j \in Slots, NEW c \in Clients, NEW fd \in Fds, IsOf(j, c, fd)'
      PROVE  \E k \in 0 .. FILE_STATE_LOG - 1 :
               Probe(fd, k) = j /\ \A m \in 0 .. k - 1 : file_states'[Probe(fd, m)] # Free
  <2>1. \E k \in 0 .. FILE_STATE_LOG - 1 :
          Probe(fd, k) = j /\ \A m \in 0 .. k - 1 : file_states[Probe(fd, m)] # Free
    <3>1. CASE j = i /\ c = d /\ fd = x
      BY <3>1
    <3>2. CASE IsOf(j, c, fd)
      BY <1>1, <3>2 DEF Reachable
    <3> QED BY <1>4, <1>7, <3>1, <3>2
  <2>2. PICK k \in 0 .. FILE_STATE_LOG - 1 :
          Probe(fd, k) = j /\ \A m \in 0 .. k - 1 : file_states[Probe(fd, m)] # Free
    BY <2>1
  <2>3. \A m \in 0 .. k - 1 : Probe(fd, m) \in Slots
    BY ProbeIn
  <2> HIDE DEF i
  <2> QED BY <1>2, <1>3, <2>2, <2>3
<1>8. Reachable'
  BY <1>7, Zenon DEF Reachable
<1> QED BY <1>2, <1>6, <1>8, Zenon DEF RInv

(* What is open after a step.                                               *)
LEMMA OpenFileNext ==
  ASSUME RInv', NEW c \in Careful, NEW fd \in Fds
  PROVE  /\ \A i \in Slots : IsOf(i, c, fd)' => OpenFile'[<<c, fd>>] = file_states'[i].file
         /\ (~ \E i \in Slots : IsOf(i, c, fd)') => OpenFile'[<<c, fd>>] = NoFile
<1>1. OpenFile'[<<c, fd>>] =
        IF \E i \in Slots : IsOf(i, c, fd)'
        THEN file_states'[CHOOSE i \in Slots : IsOf(i, c, fd)'].file ELSE NoFile
  BY DEF OpenFile
<1>2. ASSUME NEW i \in Slots, IsOf(i, c, fd)' PROVE (CHOOSE j \in Slots : IsOf(j, c, fd)') = i
  <2>1. \E k \in Slots : k = (CHOOSE j \in Slots : IsOf(j, c, fd)') /\ IsOf(k, c, fd)'
    BY <1>2, Zenon
  <2> QED BY <1>2, <2>1, Zenon DEF RInv, One
<1> QED BY <1>1, <1>2, Zenon

(* What no place that was written is of, stays open as it was.               *)
LEMMA OpenFileStays ==
  ASSUME RInv, RInv', NEW c \in Careful, NEW fd \in Fds,
         \A j \in Slots : (IsOf(j, c, fd)' \/ IsOf(j, c, fd)) =>
           IsOf(j, c, fd)' /\ IsOf(j, c, fd) /\ file_states'[j] = file_states[j]
  PROVE  OpenFile'[<<c, fd>>] = OpenFile[<<c, fd>>]
BY OpenFileIs, OpenFileNext

(* OpenFile is known by what it says of every descriptor.                    *)
LEMMA OpenFileChange ==
  ASSUME NEW c \in Careful, NEW fd \in Fds, NEW f,
         OpenFile'[<<c, fd>>] = f,
         \A d \in Careful, x \in Fds : d # c \/ x # fd => OpenFile'[<<d, x>>] = OpenFile[<<d, x>>]
  PROVE  OpenFile' = [OpenFile EXCEPT ![<<c, fd>>] = f]
<1> DEFINE now == [OpenFile EXCEPT ![<<c, fd>>] = f]
<1>1. /\ OpenFile = [k \in Careful \X Fds |-> OpenFile[k]]
      /\ OpenFile' = [k \in Careful \X Fds |-> OpenFile'[k]]
  BY DEF OpenFile
<1>2. now = [k \in Careful \X Fds |-> now[k]]
  BY <1>1
<1>3. \A k \in Careful \X Fds : OpenFile'[k] = now[k]
  <2>1. SUFFICES ASSUME NEW d \in Careful, NEW x \in Fds PROVE OpenFile'[<<d, x>>] = now[<<d, x>>]
    OBVIOUS
  <2>2. now[<<d, x>>] = IF d = c /\ x = fd THEN f ELSE OpenFile[<<d, x>>]
    BY <1>1
  <2> HIDE DEF now
  <2> QED BY <2>2
<1> HIDE DEF now
<1>4. OpenFile' = now
  BY <1>1, <1>2, <1>3
<1> QED BY <1>4 DEF now

LEMMA OpenFileSame ==
  ASSUME \A d \in Careful, x \in Fds : OpenFile'[<<d, x>>] = OpenFile[<<d, x>>]
  PROVE  OpenFile' = OpenFile
<1>1. /\ OpenFile = [k \in Careful \X Fds |-> OpenFile[k]]
      /\ OpenFile' = [k \in Careful \X Fds |-> OpenFile'[k]]
  BY DEF OpenFile
<1>2. \A k \in Careful \X Fds : OpenFile'[k] = OpenFile[k]
  OBVIOUS
<1> QED BY <1>1, <1>2

(* delete_vfs_file_state closes one descriptor.                             *)
LEMMA BuryStep ==
  ASSUME RInv, NEW c \in Clients, NEW fd \in Fds, NEW i \in Find(c, fd),
         file_states' = [file_states EXCEPT ![i] = Tomb]
  PROVE  /\ RInv'
         /\ c \in Careful => OpenFile' = [OpenFile EXCEPT ![<<c, fd>>] = NoFile]
         /\ c \notin Careful => OpenFile' = OpenFile
<1>1. file_states \in [Slots -> Items] /\ One /\ Tomb \in Items
  BY DEF RInv, Items
<1>2. i \in Slots /\ IsOf(i, c, fd)
  BY <1>1, FindIn
<1>3. RInv'
  BY <1>2, BuryInv
<1>4. /\ file_states'[i] = Tomb
      /\ \A j \in Slots : j # i => file_states'[j] = file_states[j]
      /\ \A j \in Slots : j # i => \A d, x : IsOf(j, d, x)' <=> IsOf(j, d, x)
  BY <1>1, <1>2, Written
<1>5. \A d, x : ~ IsOf(i, d, x)'
  BY <1>4, Kinds DEF IsOf
<1>6. ASSUME NEW d \in Careful, NEW x \in Fds, d # c \/ x # fd
      PROVE  OpenFile'[<<d, x>>] = OpenFile[<<d, x>>]
  <2>1. ~ IsOf(i, d, x)
    BY <1>2, <1>6 DEF IsOf
  <2>2. \A j \in Slots : (IsOf(j, d, x)' \/ IsOf(j, d, x)) =>
          IsOf(j, d, x)' /\ IsOf(j, d, x) /\ file_states'[j] = file_states[j]
    BY <1>4, <1>5, <2>1, Zenon
  <2> QED BY <1>3, <2>2, OpenFileStays
<1>7. CASE c \in Careful
  <2>1. \A j \in Slots : ~ IsOf(j, c, fd)'
    <3>1. \A j \in Slots : IsOf(j, c, fd) => j = i
      BY <1>1, <1>2, <1>7, Zenon DEF One
    <3> QED BY <1>4, <1>5, <3>1, Zenon
  <2>2. OpenFile'[<<c, fd>>] = NoFile
    BY <1>3, <1>7, <2>1, OpenFileNext
  <2> QED BY <1>3, <1>6, <1>7, <2>2, OpenFileChange
<1>8. CASE c \notin Careful
  BY <1>3, <1>6, <1>8, OpenFileSame
<1> QED BY <1>7, <1>8

(* An open is refused for want of room, or enters the file for its client.  *)
LEMMA EnterStep ==
  ASSUME RInv, NEW c \in Clients, NEW fd \in Fds, NEW f \in Files, MayOpen(c, fd), Enter(c, fd, f)
  PROVE  /\ RInv'
         /\ \E what : answer' = <<c, what>>
         /\ c \in Careful =>
              /\ OpenFile[<<c, fd>>] = NoFile
              /\ \/ answer' = <<c, "ENOMEM">> /\ OpenFile' = OpenFile
                 \/ answer' = <<c, "opened">> /\ OpenFile' = [OpenFile EXCEPT ![<<c, fd>>] = f]
         /\ c \notin Careful => OpenFile' = OpenFile
<1>1. file_states \in [Slots -> Items] /\ One /\ Used(c, fd, f) \in Items
  BY DEF RInv, Items
<1>2. c \in Careful => (\A j \in Slots : ~ IsOf(j, c, fd)) /\ OpenFile[<<c, fd>>] = NoFile
  BY OpenFileIs DEF MayOpen, HasOpen
<1>3. CASE InsertionPoint(c, fd) = {}
  <2>1. answer' = <<c, "ENOMEM">> /\ UNCHANGED file_states
    BY <1>3 DEF Enter, Fails, Answer
  <2> QED BY <1>2, <2>1, SameTable
<1>4. CASE InsertionPoint(c, fd) # {}
  <2>1. PICK n \in 0 .. FILE_STATE_LOG - 1 :
          /\ InsertionPoint(c, fd) = {Probe(fd, n)} /\ Probe(fd, n) \in Slots
          /\ file_states[Probe(fd, n)] \in {Free, Tomb} \/ IsOf(Probe(fd, n), c, fd)
          /\ \A m \in 0 .. n - 1 : file_states[Probe(fd, m)] # Free
    BY <1>1, <1>4, InsertionPointIs
  <2> DEFINE i == Probe(fd, n)
  <2>2. IF IsOf(i, c, fd) THEN Fails(c, "EBADF")
        ELSE file_states' = [file_states EXCEPT ![i] = Used(c, fd, f)] /\ Answer(c, "opened")
    BY <1>4, <2>1 DEF Enter
  <2>3. CASE IsOf(i, c, fd)
    <3>1. answer' = <<c, "EBADF">> /\ UNCHANGED file_states /\ c \notin Careful
      BY <1>2, <2>1, <2>2, <2>3 DEF Fails, Answer
    <3> QED BY <3>1, SameTable
  <2>4. CASE ~ IsOf(i, c, fd)
    <3>1. /\ file_states' = [file_states EXCEPT ![i] = Used(c, fd, f)] /\ answer' = <<c, "opened">>
          /\ file_states[i] \in {Free, Tomb} /\ i \in Slots
      BY <2>1, <2>2, <2>4 DEF Answer
    <3>2. RInv'
      BY <2>1, <3>1, EnterInv
    <3> HIDE DEF i
    <3>3. /\ file_states'[i] = Used(c, fd, f)
          /\ \A j \in Slots : j # i => file_states'[j] = file_states[j]
          /\ \A j \in Slots : j # i => \A d, x : IsOf(j, d, x)' <=> IsOf(j, d, x)
      BY <1>1, <3>1, Written
    <3>4. IsOf(i, c, fd)' /\ file_states'[i].file = f /\ \A d, x : IsOf(i, d, x)' => d = c /\ x = fd
      BY <3>3, Kinds DEF IsOf
    <3>5. \A d, x : ~ IsOf(i, d, x)
      BY <3>1, Kinds DEF IsOf
    <3>6. ASSUME NEW d \in Careful, NEW x \in Fds, d # c \/ x # fd
          PROVE  OpenFile'[<<d, x>>] = OpenFile[<<d, x>>]
      <4>1. \A j \in Slots : (IsOf(j, d, x)' \/ IsOf(j, d, x)) =>
              IsOf(j, d, x)' /\ IsOf(j, d, x) /\ file_states'[j] = file_states[j]
        BY <3>3, <3>4, <3>5, <3>6, Zenon
      <4> QED BY <3>2, <4>1, OpenFileStays
    <3>7. CASE c \in Careful
      <4>1. OpenFile'[<<c, fd>>] = f
        BY <3>1, <3>2, <3>4, <3>7, OpenFileNext
      <4>2. OpenFile' = [OpenFile EXCEPT ![<<c, fd>>] = f]
        BY <3>6, <3>7, <4>1, OpenFileChange
      <4> QED BY <1>2, <3>1, <3>2, <3>7, <4>2
    <3>8. CASE c \notin Careful
      <4>1. OpenFile' = OpenFile
        BY <3>6, <3>8, OpenFileSame
      <4> QED BY <3>1, <3>2, <3>8, <4>1
    <3> QED BY <3>7, <3>8
  <2> QED BY <2>3, <2>4
<1> QED BY <1>3, <1>4

-----------------------------------------------------------------------------
(* The steps of the server.                                                 *)

LEMMA RInit == Init => RInv
<1>1. SUFFICES ASSUME Init PROVE RInv
  OBVIOUS
<1>2. file_states = [i \in Slots |-> Free] /\ Free \in Items
  BY <1>1 DEF Init, Items
<1>3. \A i \in Slots : \A c, fd : ~ IsOf(i, c, fd)
  BY <1>2, Kinds DEF IsOf
<1> QED BY <1>2, <1>3 DEF RInv, One, Reachable

(* A request about a file, or one that is refused, leaves the table alone.   *)
LEMMA FailsStep ==
  ASSUME RInv, NEW c, NEW errno, Fails(c, errno)
  PROVE  RInv' /\ OpenFile' = OpenFile /\ answer' = <<c, errno>>
BY SameTable DEF Fails, Answer

LEMMA RNext == RInv /\ [Next]_vars => RInv'
<1>1. ASSUME RInv, UNCHANGED vars PROVE RInv'
  BY <1>1, SameTable DEF vars
<1>2. ASSUME RInv, NEW c \in Clients, handle_vfs_openroot(c) PROVE RInv'
  BY <1>2, EnterStep, Constants DEF handle_vfs_openroot
<1>3. ASSUME RInv, NEW c \in Clients, handle_vfs_openat(c) PROVE RInv'
  <2>1. PICK fd \in Fds, new_fd \in Fds, name \in Names :
          /\ MayOpen(c, new_fd)
          /\ IF Find(c, fd) = {} THEN Fails(c, "EINVAL")
             ELSE \E i \in Find(c, fd) :
               IF romfs_openat(file_states[i].file, name) = NoFile THEN Fails(c, "ENOENT")
               ELSE Enter(c, new_fd, romfs_openat(file_states[i].file, name))
    BY <1>3, Zenon DEF handle_vfs_openat
  <2>2. CASE Fails(c, "EINVAL") \/ Fails(c, "ENOENT")
    BY <1>3, <2>2, FailsStep
  <2>3. ASSUME NEW i \in Find(c, fd), romfs_openat(file_states[i].file, name) # NoFile,
               Enter(c, new_fd, romfs_openat(file_states[i].file, name))
        PROVE  RInv'
    <3>1. i \in Slots /\ IsOf(i, c, fd) /\ file_states \in [Slots -> Items]
      BY <1>3, FindIn DEF RInv
    <3>2. romfs_openat(file_states[i].file, name) \in Files
      BY <2>3, <3>1, ItemOf, OpenatType
    <3> QED BY <1>3, <2>1, <2>3, <3>2, EnterStep
  <2> QED BY <2>1, <2>2, <2>3
<1>4. ASSUME RInv, NEW c \in Clients, handle_vfs_close(c) PROVE RInv'
  BY <1>4, BuryStep, FailsStep DEF handle_vfs_close
<1>5. ASSUME RInv, NEW c \in Clients, handle_vfs_stat_read_map(c) PROVE RInv'
  BY <1>5, FailsStep DEF handle_vfs_stat_read_map
<1>6. ASSUME RInv, NEW c \in Clients, handle_vfs_write(c) PROVE RInv'
  BY <1>6, FailsStep DEF handle_vfs_write
<1>7. ASSUME RInv, NEW c \in Clients, Malformed(c) PROVE RInv'
  BY <1>7, FailsStep DEF Malformed
<1> QED BY <1>1, <1>2, <1>3, <1>4, <1>5, <1>6, <1>7 DEF Next, romfs_main

-----------------------------------------------------------------------------
(* The table of descriptors.                                                *)

LEMMA TableInit == Init => Table!DInit
<1>1. SUFFICES ASSUME Init PROVE Table!DInit
  OBVIOUS
<1>2. RInv
  BY <1>1, RInit
<1>3. \A i \in Slots : \A c, fd : ~ IsOf(i, c, fd)
  BY <1>1, Kinds DEF Init, IsOf
<1>4. OpenFile = [k \in Careful \X Fds |-> NoFile]
  BY <1>3 DEF OpenFile
<1> QED BY <1>1, <1>4 DEF Init, Table!DInit

(* Of a client that is not careful nothing is promised: no descriptor of     *)
(* another one changes.                                                     *)
LEMMA TableElse ==
  ASSUME RInv, NEW c \in Clients, c \notin Careful, romfs_main(c)
  PROVE  Table!DElse
<1> SUFFICES OpenFile' = OpenFile /\ \E what : answer' = <<c, what>>
  BY DEF Table!DElse
<1>1. ASSUME NEW errno, Fails(c, errno) PROVE OpenFile' = OpenFile /\ \E what : answer' = <<c, what>>
  BY <1>1, FailsStep
<1>2. CASE handle_vfs_openroot(c)
  BY <1>2, EnterStep, Constants DEF handle_vfs_openroot
<1>3. CASE handle_vfs_openat(c)
  <2>1. PICK fd \in Fds, new_fd \in Fds, name \in Names :
          /\ MayOpen(c, new_fd)
          /\ IF Find(c, fd) = {} THEN Fails(c, "EINVAL")
             ELSE \E i \in Find(c, fd) :
               IF romfs_openat(file_states[i].file, name) = NoFile THEN Fails(c, "ENOENT")
               ELSE Enter(c, new_fd, romfs_openat(file_states[i].file, name))
    BY <1>3, Zenon DEF handle_vfs_openat
  <2>2. CASE Fails(c, "EINVAL") \/ Fails(c, "ENOENT")
    BY <1>1, <2>2
  <2>3. ASSUME NEW i \in Find(c, fd), romfs_openat(file_states[i].file, name) # NoFile,
               Enter(c, new_fd, romfs_openat(file_states[i].file, name))
        PROVE  OpenFile' = OpenFile /\ \E what : answer' = <<c, what>>
    <3>1. i \in Slots /\ IsOf(i, c, fd) /\ file_states \in [Slots -> Items]
      BY FindIn DEF RInv
    <3>2. romfs_openat(file_states[i].file, name) \in Files
      BY <2>3, <3>1, ItemOf, OpenatType
    <3> QED BY <2>1, <2>3, <3>2, EnterStep
  <2> QED BY <2>1, <2>2, <2>3
<1>4. CASE handle_vfs_close(c)
  <2>1. PICK fd \in Fds :
          IF Find(c, fd) = {} THEN Fails(c, "ENOENT")
          ELSE \E i \in Find(c, fd) :
            file_states' = [file_states EXCEPT ![i] = Tomb] /\ answer' = <<c, "closed">>
    BY <1>4 DEF handle_vfs_close, Answer
  <2> QED BY <1>1, <2>1, BuryStep
<1>5. CASE handle_vfs_stat_read_map(c)
  BY <1>1, <1>5 DEF handle_vfs_stat_read_map
<1>6. CASE handle_vfs_write(c)
  BY <1>1, <1>6 DEF handle_vfs_write
<1>7. CASE Malformed(c)
  BY <1>1, <1>7 DEF Malformed
<1> QED BY <1>2, <1>3, <1>4, <1>5, <1>6, <1>7 DEF romfs_main

(* A careful client sees a table of its own.                                *)
LEMMA TableEnter ==
  ASSUME RInv, NEW c \in Careful, NEW fd \in Fds, NEW f \in Files, MayOpen(c, fd), Enter(c, fd, f)
  PROVE  Table!DOpen(c, fd, f)
<1>1. /\ OpenFile[<<c, fd>>] = NoFile
      /\ \/ answer' = <<c, "ENOMEM">> /\ OpenFile' = OpenFile
         \/ answer' = <<c, "opened">> /\ OpenFile' = [OpenFile EXCEPT ![<<c, fd>>] = f]
  BY EnterStep, Constants
<1> QED BY <1>1, Zenon DEF Table!DOpen, Table!Same

LEMMA TableStep ==
  ASSUME RInv, NEW c \in Careful, romfs_main(c)
  PROVE  \/ \E fd \in Fds : Table!DOpen(c, fd, RootDirectory) \/ Table!DClose(c, fd) \/ Table!DAsk(c, fd)
         \/ \E fd, new \in Fds, name \in Names : Table!DOpenAt(c, fd, new, name)
         \/ Table!DRefuse(c)
<1>1. c \in Clients /\ file_states \in [Slots -> Items] /\ RootDirectory \in Files
  BY Constants DEF RInv
<1>2. ASSUME NEW errno, Fails(c, errno) PROVE Table!Same(c, errno)
  BY <1>2, FailsStep DEF Table!Same
<1>3. CASE handle_vfs_openroot(c)
  BY <1>1, <1>3, TableEnter DEF handle_vfs_openroot
<1>4. CASE handle_vfs_openat(c)
  <2>1. PICK fd \in Fds, new_fd \in Fds, name \in Names :
          /\ MayOpen(c, new_fd)
          /\ IF Find(c, fd) = {} THEN Fails(c, "EINVAL")
             ELSE \E i \in Find(c, fd) :
               IF romfs_openat(file_states[i].file, name) = NoFile THEN Fails(c, "ENOENT")
               ELSE Enter(c, new_fd, romfs_openat(file_states[i].file, name))
    BY <1>4, Zenon DEF handle_vfs_openat
  <2>2. CASE Find(c, fd) = {}
    <3>1. OpenFile[<<c, fd>>] = NoFile
      BY <2>2, OpenFileType
    <3>2. Table!DOpenAt(c, fd, new_fd, name)
      BY <1>2, <2>1, <2>2, <3>1 DEF Table!DOpenAt
    <3> QED BY <3>2
  <2>3. ASSUME NEW i \in Find(c, fd),
               IF romfs_openat(file_states[i].file, name) = NoFile THEN Fails(c, "ENOENT")
               ELSE Enter(c, new_fd, romfs_openat(file_states[i].file, name))
        PROVE  Table!DOpenAt(c, fd, new_fd, name)
    <3>1. i \in Slots /\ IsOf(i, c, fd)
      BY <1>1, FindIn
    <3>2. OpenFile[<<c, fd>>] = file_states[i].file /\ OpenFile[<<c, fd>>] # NoFile
      BY <2>3, OpenFileType
    <3>3. romfs_openat(file_states[i].file, name) \in Files \cup {NoFile}
      BY <1>1, <3>1, ItemOf, OpenatType
    <3>4. CASE romfs_openat(file_states[i].file, name) = NoFile
      BY <1>2, <2>3, <3>2, <3>4 DEF Table!DOpenAt
    <3>5. CASE romfs_openat(file_states[i].file, name) # NoFile
      <4>1. Table!DOpen(c, new_fd, romfs_openat(file_states[i].file, name))
        BY <2>1, <2>3, <3>3, <3>5, TableEnter
      <4> QED BY <3>2, <3>5, <4>1 DEF Table!DOpenAt
    <3> QED BY <3>4, <3>5
  <2> QED BY <2>1, <2>2, <2>3
<1>5. CASE handle_vfs_close(c)
  <2>1. PICK fd \in Fds :
          IF Find(c, fd) = {} THEN Fails(c, "ENOENT")
          ELSE \E i \in Find(c, fd) :
            file_states' = [file_states EXCEPT ![i] = Tomb] /\ answer' = <<c, "closed">>
    BY <1>5 DEF handle_vfs_close, Answer
  <2>2. CASE Find(c, fd) = {}
    BY <1>2, <2>1, <2>2, OpenFileType DEF Table!DClose
  <2>3. CASE Find(c, fd) # {}
    <3>1. OpenFile[<<c, fd>>] # NoFile
      BY <2>3, OpenFileType
    <3>2. OpenFile' = [OpenFile EXCEPT ![<<c, fd>>] = NoFile] /\ answer' = <<c, "closed">>
      BY <1>1, <2>1, <2>3, BuryStep
    <3> QED BY <3>1, <3>2 DEF Table!DClose
  <2> QED BY <2>2, <2>3
<1>6. CASE handle_vfs_stat_read_map(c)
  <2>1. PICK fd \in Fds, unknown \in {"EINVAL", "EBADF"} :
          IF Find(c, fd) = {} THEN Fails(c, unknown)
          ELSE \E i \in Find(c, fd) : Fails(c, file_states[i].file)
    BY <1>6 DEF handle_vfs_stat_read_map
  <2>2. CASE Find(c, fd) = {}
    BY <1>2, <2>1, <2>2, OpenFileType DEF Table!DAsk
  <2>3. CASE Find(c, fd) # {}
    BY <1>2, <2>1, <2>3, OpenFileType DEF Table!DAsk
  <2> QED BY <2>2, <2>3
<1>7. CASE handle_vfs_write(c)
  <2>1. PICK fd \in Fds : Fails(c, IF Find(c, fd) = {} THEN "EBADF" ELSE "EROFS")
    BY <1>7 DEF handle_vfs_write
  <2>2. CASE Find(c, fd) = {}
    BY <1>2, <2>1, <2>2, OpenFileType DEF Table!DAsk
  <2>3. CASE Find(c, fd) # {}
    BY <1>2, <2>1, <2>3 DEF Table!DRefuse
  <2> QED BY <2>2, <2>3
<1>8. CASE Malformed(c)
  BY <1>2, <1>8 DEF Malformed, Table!DRefuse
<1> QED BY <1>3, <1>4, <1>5, <1>6, <1>7, <1>8 DEF romfs_main

LEMMA TableNext == RInv /\ [Next]_vars => [Table!DNext]_(Table!vars)
<1>1. ASSUME UNCHANGED vars PROVE UNCHANGED Table!vars
  BY <1>1, SameTable DEF vars, Table!vars
<1>2. ASSUME RInv, NEW c \in Clients, romfs_main(c) PROVE Table!DNext
  <2>1. CASE c \notin Careful
    BY <1>2, <2>1, TableElse DEF Table!DNext
  <2>2. CASE c \in Careful
    BY <1>2, <2>2, TableStep DEF Table!DNext
  <2> QED BY <2>1, <2>2
<1> QED BY <1>1, <1>2 DEF Next

(* To every client that opens no descriptor it has open, the hash table of   *)
(* romfs_server.c is a table of its own, whatever the other clients do:      *)
(* the probes of find_vfs_file_state get past the tombstones that closing    *)
(* left and past the entries of others to every file it has open.            *)
THEOREM RomfsDescriptors == Spec => ImplementsDescriptors
<1>1. Init => RInv /\ Table!DInit
  BY RInit, TableInit
<1>2. RInv /\ [Next]_vars => RInv' /\ [Table!DNext]_(Table!vars)
  BY RNext, TableNext
<1> QED BY <1>1, <1>2, PTL DEF Spec, ImplementsDescriptors, Table!DSpec

-----------------------------------------------------------------------------
(* ENOMEM.                                                                  *)

(* Adding squares below the size of the table and wrapping around once.      *)
LEMMA WrapOnce ==
  ASSUME NEW n \in Nat \ {0}, NEW h \in 0 .. n, NEW a \in 0 .. n - 1, NEW b \in 0 .. n - 1,
         (h + a) % n = (h + b) % n
  PROVE  a = b
<1>1. \A x \in 0 .. n + n - 1 : x % n = IF x < n THEN x ELSE x - n
  OBVIOUS
<1>2. h + a \in 0 .. n + n - 1 /\ h + b \in 0 .. n + n - 1
  OBVIOUS
<1>3. /\ (h + a) % n = IF h + a < n THEN h + a ELSE h + a - n
      /\ (h + b) % n = IF h + b < n THEN h + b ELSE h + b - n
  BY <1>1, <1>2
<1> QED BY <1>3

(* A search looks at FILE_STATE_LOG different places.                        *)
LEMMA ProbesDiffer ==
  ASSUME NEW fd \in Fds, NEW a \in 0 .. FILE_STATE_LOG - 1, NEW b \in 0 .. FILE_STATE_LOG - 1,
         Probe(fd, a) = Probe(fd, b)
  PROVE  a = b
<1>1. a \in Nat /\ b \in Nat /\ FILE_STATE_COUNT \in Nat \ {0}
  BY Constants
<1>2. a * a < FILE_STATE_COUNT /\ b * b < FILE_STATE_COUNT /\ a * a \in Nat /\ b * b \in Nat
  BY <1>1, RomfsAssumption
<1>3. hash_combine(fd) \in 0 .. FILE_STATE_COUNT
  BY ProbeIn, 0 \in Nat
<1>4. a * a = b * b
  <2> DEFINE x == a * a
             y == b * b
  <2>1. x \in 0 .. FILE_STATE_COUNT - 1 /\ y \in 0 .. FILE_STATE_COUNT - 1
    BY <1>1, <1>2
  <2>2. (hash_combine(fd) + x) % FILE_STATE_COUNT = (hash_combine(fd) + y) % FILE_STATE_COUNT
    BY DEF Probe
  <2>3. x = y
    <3> HIDE DEF x, y
    <3> QED BY <1>1, <1>3, <2>1, <2>2, WrapOnce
  <2> QED BY <2>3
<1>5. \A p, q \in Nat : p < q => p * p < q * q
  OBVIOUS
<1> QED BY <1>1, <1>4, <1>5

(* If no probe finds room, there are as many files open as there are probes. *)
LEMMA Full ==
  ASSUME RInv, NEW c \in Clients, NEW fd \in Fds, InsertionPoint(c, fd) = {}
  PROVE  Cardinality({i \in Slots : file_states[i].status = "HASH_ITEM_USED"}) >= FILE_STATE_LOG
<1> DEFINE steps  == 0 .. FILE_STATE_LOG - 1
           used   == {i \in Slots : file_states[i].status = "HASH_ITEM_USED"}
           probes == [k \in steps |-> Probe(fd, k)]
<1>1. FILE_STATE_LOG \in Nat /\ FILE_STATE_COUNT \in Nat
  BY Constants
<1>2. \A k \in steps : Probe(fd, k) \in used
  <2>1. \A k \in steps : file_states[Probe(fd, k)].status = "HASH_ITEM_USED"
    BY InsertionPointIs, 0 \in Nat DEF RInv
  <2>2. \A k \in steps : Probe(fd, k) \in Slots
    BY <1>1, ProbeIn
  <2> QED BY <2>1, <2>2
<1>3. probes \in Injection(steps, used)
  <2>1. \A a, b \in steps : Probe(fd, a) = Probe(fd, b) => a = b
    BY ProbesDiffer
  <2>2. probes \in [steps -> used] /\ \A k \in steps : probes[k] = Probe(fd, k)
    <3> HIDE DEF used, steps
    <3> QED BY <1>2
  <2>3. \A a, b \in steps : probes[a] = probes[b] => a = b
    BY <2>1
  <2> HIDE DEF used, steps, probes
  <2> QED BY <2>2, <2>3 DEF Injection, IsInjective
<1>4. IsFiniteSet(used)
  <2>1. IsFiniteSet(Slots)
    BY <1>1, FS_Interval DEF Slots
  <2>2. used \in SUBSET Slots
    OBVIOUS
  <2> HIDE DEF used
  <2> QED BY <2>1, <2>2, FS_Subset
<1>5. Cardinality(steps) = FILE_STATE_LOG
  BY <1>1, FS_Interval
<1>6. Cardinality(steps) <= Cardinality(used)
  <2> HIDE DEF steps, used, probes
  <2> QED BY <1>3, <1>4, FS_Injection
<1>7. Cardinality(used) \in Nat
  <2> HIDE DEF used
  <2> QED BY <1>4, FS_CardinalityType
<1> HIDE DEF used
<1>8. Cardinality(used) >= FILE_STATE_LOG
  BY <1>1, <1>5, <1>6, <1>7
<1> QED BY <1>8 DEF used

LEMMA Refused ==
  ASSUME RInv, NEW d \in Clients, NEW c \in Clients, romfs_main(d), answer' = <<c, "ENOMEM">>
  PROVE  Cardinality({i \in Slots : file_states[i].status = "HASH_ITEM_USED"}) >= FILE_STATE_LOG
<1> DEFINE room == Cardinality({i \in Slots : file_states[i].status = "HASH_ITEM_USED"}) >= FILE_STATE_LOG
<1>1. file_states \in [Slots -> Items] /\ "ENOMEM" \notin Files
  BY RomfsAssumption DEF RInv
<1>2. ASSUME NEW what, Fails(d, what) PROVE what = "ENOMEM"
  BY <1>2 DEF Fails, Answer
<1>3. ASSUME NEW what, Answer(d, what) PROVE what = "ENOMEM"
  BY <1>3 DEF Answer
<1>4. ASSUME NEW fd \in Fds, NEW f, Enter(d, fd, f) PROVE room
  <2>1. InsertionPoint(d, fd) = {}
    BY <1>2, <1>3, <1>4 DEF Enter
  <2> QED BY <2>1, Full
<1>5. ASSUME NEW fd \in Fds, NEW i \in Find(d, fd) PROVE file_states[i].file \in Files
  BY <1>1, FindIn, ItemOf
<1> HIDE DEF room
<1>6. handle_vfs_openroot(d) => room
  BY <1>4 DEF handle_vfs_openroot
<1>7. handle_vfs_openat(d) => room
  <2>1. SUFFICES ASSUME NEW fd \in Fds, NEW new_fd \in Fds, NEW name \in Names,
                        IF Find(d, fd) = {} THEN Fails(d, "EINVAL")
                        ELSE \E i \in Find(d, fd) :
                          IF romfs_openat(file_states[i].file, name) = NoFile THEN Fails(d, "ENOENT")
                          ELSE Enter(d, new_fd, romfs_openat(file_states[i].file, name))
                 PROVE  room
    BY Zenon DEF handle_vfs_openat
  <2>2. ~ Fails(d, "EINVAL") /\ ~ Fails(d, "ENOENT")
    BY <1>2
  <2> QED BY <1>4, <2>1, <2>2
<1>8. ~ handle_vfs_close(d)
  BY <1>2, <1>3 DEF handle_vfs_close
<1>9. ~ handle_vfs_stat_read_map(d)
  BY <1>1, <1>2, <1>5 DEF handle_vfs_stat_read_map
<1>10. ~ handle_vfs_write(d) /\ ~ Malformed(d)
  BY <1>2 DEF handle_vfs_write, Malformed
<1>11. room
  BY <1>6, <1>7, <1>8, <1>9, <1>10 DEF romfs_main
<1> QED BY <1>11 DEF room

(* find_vfs_file_state_insertion_point fails only when all of its            *)
(* FILE_STATE_LOG different probes hold open files: tombstones are used      *)
(* again, so closing files makes room, however many were opened before.     *)
THEOREM RomfsRefuses == Spec => RefusedWhenFull
<1> DEFINE refused ==
      \A c \in Clients :
        answer' = <<c, "ENOMEM">> =>
          Cardinality({i \in Slots : file_states[i].status = "HASH_ITEM_USED"}) >= FILE_STATE_LOG
<1>1. RInv => TypeOK
  BY DEF RInv, TypeOK, Items, One
<1>2. RInv /\ [Next]_vars => [refused]_vars
  BY Refused, Zenon DEF Next
<1> HIDE DEF refused
<1>3. Spec => []TypeOK /\ [][refused]_vars
  BY RInit, RNext, <1>1, <1>2, PTL DEF Spec
<1> QED BY <1>3 DEF RefusedWhenFull, refused
=============================================================================
