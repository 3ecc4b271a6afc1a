---------------------------- MODULE Facilitator ----------------------------
(***************************************************************************)
(* src/mids/faciliator_server.  The facilitator (fserver.c) is told on its *)
(* standard input which service listens where: it opens the port, forks    *)
(* the service and announces the service to the news clients that have     *)
(* registered by datagram.  When somebody connects to a service's port it  *)
(* sends the service SIGUSR1, and the service accepts in its handler.      *)
(*                                                                         *)
(* main and the thread send_all share count, path, clicount and cliaddr;   *)
(* info, the facilitator's own SIGUSR1 handler, reads all four on either   *)
(* thread.  (fserver.c:19 has one "]" too many; it is read without it.)    *)
(* send_all hands recvfrom a length it has not set: whether the address of *)
(* a client gets into its table depends on what the stack holds.           *)
(***************************************************************************)
EXTENDS Integers, Sequences, FiniteSets

CONSTANTS
  Services,     \* the services, numbered in the order the operator types them
  NewsClients,  \* the processes running serClient, numbered as they register
  MaxPeople,    \* bound: registrations and connections to services' ports
  Main, Talker, \* the two threads of the facilitator
  Stdin,        \* fds[0]
  Nobody,       \* an address nobody has, left where recvfrom stored none
  None

Threads   == {Main, Talker}
Addresses == NewsClients \cup {Nobody}

ASSUME PeopleAssumption == MaxPeople \in Nat
ASSUME NamesAssumption ==
  /\ Services = 1 .. Cardinality(Services) /\ NewsClients = 1 .. Cardinality(NewsClients)
  /\ Main # Talker /\ Stdin \notin Nat /\ None \notin Services \cup NewsClients
  /\ Nobody \notin NewsClients \cup {None}

VARIABLES
  stdin,        \* the lines the operator has typed
  pc, ready,    \* where main is; the descriptors select has returned
  path, count,  \* path[1 .. count - 1] are valid
  registered,   \* the news clients that have registered
  datagrams,    \* registrations not yet received
  len,          \* send_all's len: "unset", "negative" or "set"
  talker, caddr, next,  \* where send_all is, its caddr and its i
  cliaddr, clicount,    \* cliaddr[1 .. clicount] are valid
  told,         \* the paths each address has been sent
  info,         \* info on each thread: "off", "on", or the path and the i
  strayed,      \* history: info has run on send_all's thread
  service,      \* where each service is
  copy,         \* the clients in a forked child's copy of cliaddr
  sig,          \* SIGUSR1 is pending for the service
  accepting,    \* the service is in handle
  waiting,      \* connections in the backlog of the service's port
  visits        \* connections ever made to a service

mainVars    == <<stdin, pc, ready, path, count>>
intake      == <<registered, datagrams, len>>
talkerVars  == <<intake, talker, caddr, next, cliaddr, clicount>>
infoVars    == <<info, strayed>>
serviceVars == <<service, copy, sig, accepting, waiting, visits>>
vars == <<mainVars, talkerVars, told, infoVars, serviceVars>>

Off == [at |-> "off"]
On  == [at |-> "on"]

Init ==
  /\ stdin = <<>> /\ pc = "select" /\ ready = {}
  /\ path = <<>> /\ count = 1
  /\ registered = 0 /\ datagrams = <<>> /\ len = "unset"
  /\ talker = "recv" /\ caddr = None /\ next = 0
  /\ cliaddr = <<>> /\ clicount = 0
  /\ told = [n \in Addresses |-> {}]
  /\ info = [x \in Threads |-> Off] /\ strayed = FALSE
  /\ service = [s \in Services |-> "none"]
  /\ copy = [s \in Services |-> {}]
  /\ sig = [s \in Services |-> FALSE]
  /\ accepting = [s \in Services |-> FALSE]
  /\ waiting = [s \in Services |-> 0]
  /\ visits = 0

Elements(q) == {q[i] : i \in DOMAIN q}

-----------------------------------------------------------------------------
(* The people: the operator starts a service, a news client registers, a   *)
(* client of a service connects to its port.                               *)
People == registered + visits

Operator(s) ==
  /\ s = 1 + Cardinality(Elements(stdin) \cup Elements(path))
  /\ stdin' = Append(stdin, s)
  /\ UNCHANGED <<pc, ready, path, count, talkerVars, told, infoVars, serviceVars>>

Register(n) ==
  /\ n = registered + 1 /\ People < MaxPeople
  /\ registered' = n
  /\ datagrams' = Append(datagrams, n)
  /\ UNCHANGED <<mainVars, len, talker, caddr, next, cliaddr, clicount, told, infoVars,
                 serviceVars>>

Visit(s) ==
  /\ s \in Elements(path) /\ People < MaxPeople
  /\ waiting' = [waiting EXCEPT ![s] = @ + 1]
  /\ visits' = visits + 1
  /\ UNCHANGED <<mainVars, talkerVars, told, infoVars, service, copy, sig, accepting>>

-----------------------------------------------------------------------------
(* main.  A handler that runs on its thread suspends it.                   *)
At(label) == pc = label /\ info[Main] = Off
Goto(label) == pc' = label

(* Mutant: the last service is not put into rset.                          *)
SelectOffByOne ==
  /\ At("select")
  /\ ready' = {i \in 1 .. count - 2 : waiting[path[i]] > 0}
              \cup {f \in {Stdin} : stdin # <<>>}
  /\ ready' # {}
  /\ Goto("signal")
  /\ UNCHANGED <<stdin, path, count, talkerVars, told, infoVars, serviceVars>>

(* select blocks until a port has a connection or the operator has typed.  *)
Select ==
  /\ At("select")
  /\ ready' = {i \in 1 .. count - 1 : waiting[path[i]] > 0}
              \cup {f \in {Stdin} : stdin # <<>>}
  /\ ready' # {}
  /\ Goto("signal")
  /\ UNCHANGED <<stdin, path, count, talkerVars, told, infoVars, serviceVars>>

(* kill(pids[i-1], SIGUSR1) for each ready port, in order; the connection  *)
(* may have been accepted in the meantime.  A child that has not called    *)
(* exec yet still has the facilitator's handler, and announces; between    *)
(* exec and signal() the default action ends it.                           *)
Signal ==
  /\ At("signal")
  /\ \E i \in ready \ {Stdin} :
       LET s == path[i] IN
         /\ \A j \in ready \ {Stdin} : i <= j
         /\ ready' = ready \ {i}
         /\ \/ /\ service[s] = "forked"
               /\ told' = [n \in Addresses |->
                             IF n \in copy[s] THEN told[n] \cup {s} ELSE told[n]]
               /\ UNCHANGED <<service, sig>>
            \/ /\ service[s] = "execed"
               /\ service' = [service EXCEPT ![s] = "dead"]
               /\ UNCHANGED <<told, sig>>
            \/ /\ service[s] \in {"installed", "ready"}
               /\ sig' = [sig EXCEPT ![s] = TRUE]
               /\ UNCHANGED <<told, service>>
            \/ /\ service[s] = "dead"
               /\ UNCHANGED <<told, service, sig>>
  /\ UNCHANGED <<stdin, pc, path, count, talkerVars, infoVars, copy, accepting, waiting,
                 visits>>

Signalled ==
  /\ At("signal") /\ ready \subseteq {Stdin}
  /\ Goto(IF Stdin \in ready THEN "read" ELSE "select")
  /\ ready' = {}
  /\ UNCHANGED <<stdin, path, count, talkerVars, told, infoVars, serviceVars>>

(* Read a line, set path[count-1], open the port.                          *)
ReadLine ==
  /\ At("read")
  /\ path' = Append(path, Head(stdin))
  /\ stdin' = Tail(stdin)
  /\ Goto("count")
  /\ UNCHANGED <<ready, count, talkerVars, told, infoVars, serviceVars>>

Count ==
  /\ At("count")
  /\ count' = count + 1
  /\ Goto("fork")
  /\ UNCHANGED <<stdin, ready, path, talkerVars, told, infoVars, serviceVars>>

(* If fork fails, -1 is not > 0: the facilitator itself becomes the        *)
(* service.                                                                *)
Fork ==
  /\ At("fork")
  /\ \/ /\ service' = [service EXCEPT ![path[count - 1]] = "forked"]
        /\ copy' = [copy EXCEPT ![path[count - 1]] =
                      {cliaddr[i] : i \in 1 .. clicount}]
        /\ Goto("kill")
     \/ /\ Goto("gone")
        /\ UNCHANGED <<service, copy>>
  /\ UNCHANGED <<stdin, ready, path, count, talkerVars, told, infoVars, sig, accepting,
                 waiting, visits>>

(* kill(getpid(), SIGUSR1): info has started, on this thread or on the     *)
(* other, before kill returns.                                             *)
KillSelf ==
  /\ At("kill")
  /\ \E x \in Threads :
       /\ info[x] = Off
       /\ info' = [info EXCEPT ![x] = On]
       /\ strayed' = (strayed \/ x = Talker)
  /\ Goto("select")
  /\ UNCHANGED <<stdin, ready, path, count, talkerVars, told, serviceVars>>

MainStep == Select \/ Signal \/ Signalled \/ ReadLine \/ Count \/ Fork \/ KillSelf

-----------------------------------------------------------------------------
(* info: copy path[count - 2], send it to cliaddr[0 .. clicount - 1].      *)
InfoCopy(x) ==
  /\ pc # "gone" /\ info[x] = On
  /\ info' = [info EXCEPT ![x] = [at |-> "send", path |-> path[count - 1], next |-> 1]]
  /\ UNCHANGED <<mainVars, talkerVars, told, strayed, serviceVars>>

InfoSend(x) ==
  /\ pc # "gone" /\ info[x].at = "send"
  /\ IF info[x].next <= clicount
     THEN /\ told' = [told EXCEPT ![cliaddr[info[x].next]] = @ \cup {info[x].path}]
          /\ info' = [info EXCEPT ![x].next = @ + 1]
     ELSE /\ info' = [info EXCEPT ![x] = Off]
          /\ UNCHANGED told
  /\ UNCHANGED <<mainVars, talkerVars, strayed, serviceVars>>

-----------------------------------------------------------------------------
(* send_all.                                                               *)
TalkerAt(label) == pc # "gone" /\ talker = label /\ info[Talker] = Off

(* recvfrom takes the datagram.  It fails if len is negative, and leaves   *)
(* len so; it stores no whole address if len is too short, but then sets   *)
(* it to the length of one.                                                *)
TalkerRecv ==
  /\ TalkerAt("recv") /\ datagrams # <<>>
  /\ datagrams' = Tail(datagrams)
  /\ \/ len # "negative" /\ len' = "set" /\ caddr' = Head(datagrams)
     \/ len = "unset" /\ len' \in {"set", "negative"} /\ caddr' = Nobody
     \/ len = "negative" /\ len' = len /\ caddr' = Nobody
  /\ talker' = "store"
  /\ UNCHANGED <<mainVars, registered, next, cliaddr, clicount, told, infoVars, serviceVars>>

(* Mutant: the address is not stored.                                      *)
TalkerForgets ==
  /\ TalkerAt("store")
  /\ talker' = "count"
  /\ UNCHANGED <<mainVars, intake, caddr, next, cliaddr, clicount, told, infoVars, serviceVars>>

TalkerStore ==
  /\ TalkerAt("store")
  /\ cliaddr' = Append(cliaddr, caddr)
  /\ talker' = "count"
  /\ UNCHANGED <<mainVars, intake, caddr, next, clicount, told, infoVars, serviceVars>>

TalkerCount ==
  /\ TalkerAt("count")
  /\ clicount' = clicount + 1
  /\ next' = 1
  /\ talker' = "send"
  /\ UNCHANGED <<mainVars, intake, caddr, cliaddr, told, infoVars, serviceVars>>

(* Mutant: the loop ends one path early.                                   *)
TalkerSendOffByOne ==
  /\ TalkerAt("send")
  /\ IF next < count - 1
     THEN /\ told' = [told EXCEPT ![caddr] = @ \cup {path[next]}]
          /\ next' = next + 1
          /\ UNCHANGED <<talker, caddr>>
     ELSE /\ talker' = "recv" /\ caddr' = None /\ next' = 0
          /\ UNCHANGED told
  /\ UNCHANGED <<mainVars, intake, cliaddr, clicount, infoVars, serviceVars>>

(* for(i = 0; i < count-1; i++): count is read again in every round.       *)
TalkerSend ==
  /\ TalkerAt("send")
  /\ IF next <= count - 1
     THEN /\ told' = [told EXCEPT ![caddr] = @ \cup {path[next]}]
          /\ next' = next + 1
          /\ UNCHANGED <<talker, caddr>>
     ELSE /\ talker' = "recv" /\ caddr' = None /\ next' = 0
          /\ UNCHANGED told
  /\ UNCHANGED <<mainVars, intake, cliaddr, clicount, infoVars, serviceVars>>

TalkerStep == TalkerRecv \/ TalkerStore \/ TalkerCount \/ TalkerSend

-----------------------------------------------------------------------------
(* The services.                                                           *)
Exec(s) ==
  /\ service[s] = "forked"
  /\ service' = [service EXCEPT ![s] = "execed"]
  /\ UNCHANGED <<mainVars, talkerVars, told, infoVars, copy, sig, accepting, waiting, visits>>

(* There is no such program: the child leaves the loop and returns.        *)
ExecFails(s) ==
  /\ service[s] = "forked"
  /\ service' = [service EXCEPT ![s] = "dead"]
  /\ UNCHANGED <<mainVars, talkerVars, told, infoVars, copy, sig, accepting, waiting, visits>>

InstallHandler(s) ==
  /\ service[s] = "execed"
  /\ service' = [service EXCEPT ![s] = "installed"]
  /\ UNCHANGED <<mainVars, talkerVars, told, infoVars, copy, sig, accepting, waiting, visits>>

(* sfd = atoi(argv[0]), after the handler has been installed.              *)
SetSocket(s) ==
  /\ service[s] = "installed" /\ ~accepting[s]
  /\ service' = [service EXCEPT ![s] = "ready"]
  /\ UNCHANGED <<mainVars, talkerVars, told, infoVars, copy, sig, accepting, waiting, visits>>

(* handle starts; a second SIGUSR1 stays pending until it returns.         *)
Handle(s) ==
  /\ service[s] \in {"installed", "ready"} /\ sig[s] /\ ~accepting[s]
  /\ sig' = [sig EXCEPT ![s] = FALSE]
  /\ accepting' = [accepting EXCEPT ![s] = TRUE]
  /\ UNCHANGED <<mainVars, talkerVars, told, infoVars, service, copy, waiting, visits>>

(* accept, which fails while sfd is still 0 (not a socket), and then       *)
(* pthread_create through an uninitialised pthread_t pointer: that may end *)
(* the service.                                                            *)
HandleAccept(s) ==
  /\ accepting[s]
  /\ \/ service[s] = "installed" /\ UNCHANGED waiting
     \/ /\ service[s] = "ready" /\ waiting[s] > 0
        /\ waiting' = [waiting EXCEPT ![s] = @ - 1]
  /\ accepting' = [accepting EXCEPT ![s] = FALSE]
  /\ service' \in {service, [service EXCEPT ![s] = "dead"]}
  /\ UNCHANGED <<mainVars, talkerVars, told, infoVars, copy, sig, visits>>

ServiceStep(s) ==
  Exec(s) \/ InstallHandler(s) \/ SetSocket(s) \/ Handle(s) \/ HandleAccept(s)

-----------------------------------------------------------------------------
Next ==
  \/ \E s \in Services : Operator(s) \/ Visit(s) \/ ExecFails(s) \/ ServiceStep(s)
  \/ \E n \in NewsClients : Register(n)
  \/ MainStep
  \/ \E x \in Threads : InfoCopy(x) \/ InfoSend(x)
  \/ TalkerStep

Spec == Init /\ [][Next]_vars

(* The processes and threads run; the people owe nothing.  SetSocket is    *)
(* what a service does between two runs of its handler: strongly fair, as  *)
(* a signal is not pending every time the handler returns.                 *)
Fairness ==
  /\ WF_vars(MainStep) /\ WF_vars(TalkerStep)
  /\ \A x \in Threads : WF_vars(InfoCopy(x) \/ InfoSend(x))
  /\ \A s \in Services : WF_vars(ServiceStep(s)) /\ SF_vars(SetSocket(s))

FairSpec == Spec /\ Fairness

-----------------------------------------------------------------------------
(***************************************************************************)
(* Properties                                                              *)
(***************************************************************************)

TypeOK ==
  /\ stdin \in Seq(Services)
  /\ pc \in {"select", "signal", "read", "count", "fork", "kill", "gone"}
  /\ ready \in SUBSET (Nat \cup {Stdin})
  /\ path \in Seq(Services) /\ count \in 1 .. Len(path) + 1
  /\ registered \in Nat /\ datagrams \in Seq(NewsClients)
  /\ len \in {"unset", "negative", "set"}
  /\ talker \in {"recv", "store", "count", "send"} /\ caddr \in Addresses \cup {None}
  /\ next \in Nat
  /\ cliaddr \in Seq(Addresses) /\ clicount \in 0 .. Len(cliaddr)
  /\ told \in [Addresses -> SUBSET Services]
  /\ info \in [Threads -> {Off, On} \cup [at : {"send"}, path : Services, next : Nat]]
  /\ strayed \in BOOLEAN
  /\ service \in [Services -> {"none", "forked", "execed", "installed", "ready", "dead"}]
  /\ copy \in [Services -> SUBSET Addresses]
  /\ sig \in [Services -> BOOLEAN] /\ accepting \in [Services -> BOOLEAN]
  /\ waiting \in [Services -> Nat] /\ visits \in Nat

(* main waits in select, send_all in recvfrom, no handler runs.            *)
Settled == pc = "select" /\ talker = "recv" /\ \A x \in Threads : info[x] = Off

(* Once main waits in select, send_all in recvfrom and no handler runs,    *)
(* every address in cliaddr has been sent every path: a client that        *)
(* registers while a service is being added hears of it from send_all or   *)
(* from info, without a lock (fserver.c:32-42, 51-56, 125-154).  Only when *)
(* info ran on send_all's thread it may have announced a later path        *)
(* instead.  A client whose address recvfrom did not store is in nobody's  *)
(* table: what was meant for it has been sent to Nobody (fserver.c:24,30). *)
AllAnnounced ==
  Settled /\ ~strayed =>
    \A i \in 1 .. clicount : \A j \in 1 .. count - 1 : path[j] \in told[cliaddr[i]]

(* A connection to a live service's port is accepted: signals that merge,  *)
(* that come for a connection already accepted, or while the service is in *)
(* its handler do not strand it (fserver.c:104-111, service1.c:37-45).     *)
VisitorsAccepted ==
  \A s \in Services : waiting[s] > 0 ~> (waiting[s] = 0 \/ service[s] = "dead" \/ pc = "gone")
=============================================================================
