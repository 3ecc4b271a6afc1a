-------------------------- MODULE ConnectionServers --------------------------
(***************************************************************************)
(* The servers that hand each connection to somebody:                      *)
(*   multi   src/socket_rev/multi-service: select over two listeners, a    *)
(*           child per connection that becomes a service;                  *)
(*   thread  src/socket_rev/thread/server.c: a thread per connection,      *)
(*           joined at once;                                               *)
(*   second  src/sockets/second: a child for the first client, the server  *)
(*           itself for the second;                                        *)
(*   first   src/sockets/first: one client;                                *)
(*   echo    a service of src/mids/faciliator_server, once it is signalled *)
(*           to accept: a thread per connection, which gets the address of *)
(*           a variable of the handler.  Its clients have typed a word.    *)
(* Forks and execs fail, children inherit descriptors, whoever writes to a *)
(* client that has left is ended by SIGPIPE.  Init chooses the system.     *)
(***************************************************************************)
EXTENDS Naturals, Sequences, FiniteSets

CONSTANTS
  Clients,   \* client processes, each with its one connection
  Pids,      \* server processes; fork fails when all are in use
  Main,      \* the one that is started
  None

ASSUME NamesAssumption == Main \in Pids /\ None \notin Clients /\ IsFiniteSet(Clients \cup Pids)

VARIABLES
  system,
  port,      \* the listener a client connects to
  client,    \* "start", "connected", or "ended"
  backlog,   \* connections not yet accepted, for each listener
  proc,      \* the server's processes
  sent, got, \* texts on their way to a client, and received by it
  faults     \* calls that failed so far

vars == <<system, port, client, backlog, proc, sent, got, faults>>
clientVars == <<port, client, sent, got>>

Ports == {1, 2}
Process(pc, listens) ==
  [pc |-> pc, listens |-> listens, fds |-> {}, nsfd |-> None, out |-> None, rset |-> {}]
Free == Process("free", {})

Init ==
  /\ system \in {"multi", "thread", "second", "first", "echo"}
  /\ port \in [Clients -> IF system = "multi" THEN Ports ELSE {1}]
  /\ client = [c \in Clients |-> "start"]
  /\ backlog = [i \in Ports |-> <<>>]
  /\ proc = [p \in Pids |->
       IF p # Main THEN Free
       ELSE IF system = "multi" THEN Process("select", Ports) ELSE Process("accept", {1})]
  /\ sent = [c \in Clients |-> {}] /\ got = [c \in Clients |-> {}]
  /\ faults = {}

At(p, pc) == proc[p].pc = pc
Goto(p, pc) == proc' = [proc EXCEPT ![p].pc = pc]

(* The threads of echo end together.                                       *)
Exit(p) == proc' = [q \in Pids |-> IF q = p \/ system = "echo" THEN Free ELSE proc[q]]
Listening(i) == \E p \in Pids : i \in proc[p].listens
Holders(c) == {p \in Pids : c \in proc[p].fds \cup {proc[p].out}}

(* accept of a connection that waits at listener i, then on to pc.         *)
Accept(p, i, pc) ==
  /\ backlog[i] # <<>>
  /\ LET c == Head(backlog[i]) IN
       proc' = [proc EXCEPT ![p].nsfd = c, ![p].fds = @ \cup {c}, ![p].pc = pc]
  /\ backlog' = [backlog EXCEPT ![i] = Tail(@)]
  /\ UNCHANGED <<system, clientVars, faults>>

-----------------------------------------------------------------------------
(* multi: the loop looks at listener 1, then at listener 2.                *)

IsSet == <<"isset1", "isset2">>
ForkAt == <<"fork1", "fork2">>
After == <<"isset2", "select">>

(* Mutant: the second branch was copied, its program name with it.         *)
ServicesCopied == <<"service1", "service1">>
Services == <<"service1", "service2">>

InLoop(p) == \E i \in Ports : proc[p].pc \in {"select", IsSet[i], ForkAt[i]}

(* A closed listener makes select fail with EBADF: that is true as well,   *)
(* and rset still names both.                                              *)
Select(p) ==
  /\ At(p, "select")
  /\ \E rset \in SUBSET Ports :
       /\ rset = IF proc[p].listens = Ports THEN {i \in Ports : backlog[i] # <<>>} ELSE Ports
       /\ rset # {}
       /\ proc' = [proc EXCEPT ![p].rset = rset, ![p].pc = "isset1"]
  /\ UNCHANGED <<system, backlog, clientVars, faults>>

NotSet(p, i) ==
  /\ At(p, IsSet[i]) /\ i \notin proc[p].rset
  /\ Goto(p, After[i])
  /\ UNCHANGED <<system, backlog, clientVars, faults>>

AcceptSet(p, i) ==
  /\ At(p, IsSet[i]) /\ i \in proc[p].rset /\ i \in proc[p].listens
  /\ Accept(p, i, ForkAt[i])

(* accept on the closed listener returns -1, and the loop goes on with it. *)
AcceptClosed(p, i) ==
  /\ At(p, IsSet[i]) /\ i \in proc[p].rset \ proc[p].listens
  /\ proc' = [proc EXCEPT ![p].nsfd = None, ![p].pc = ForkAt[i]]
  /\ UNCHANGED <<system, backlog, clientVars, faults>>

(* The child closes the listener and puts the connection in the place of   *)
(* its standard output; dup2(-1, 1) leaves that as it was.                 *)
Child(p, i, pc) ==
  [proc[p] EXCEPT !.listens = @ \ {i}, !.pc = pc,
                  !.out = IF proc[p].nsfd = None THEN @ ELSE proc[p].nsfd]

(* Mutant: the parent does not close nsfd.                                 *)
ForkKeepsOpen(p, i) ==
  /\ At(p, ForkAt[i])
  /\ \E q \in Pids : At(q, "free") /\ proc' = [proc EXCEPT ![q] = Child(p, i, Services[i]), ![p].pc = After[i]]
  /\ UNCHANGED <<system, backlog, clientVars, faults>>

(* The child becomes the service; or execvp fails and the child goes on in *)
(* the loop; or there is no child and nsfd stays open.                     *)
Fork(p, i) ==
  /\ At(p, ForkAt[i])
  /\ \/ \E q \in Pids, pc \in {Services[i], After[i]} :
          /\ At(q, "free")
          /\ proc' = [proc EXCEPT ![q] = Child(p, i, pc),
                        ![p].pc = After[i], ![p].fds = @ \ {proc[p].nsfd}]
          /\ faults' = IF pc = After[i] THEN faults \cup {"exec"} ELSE faults
     \/ Goto(p, After[i]) /\ faults' = faults \cup {"fork"}
  /\ UNCHANGED <<system, backlog, clientVars>>

Multi(p) ==
  Select(p) \/ \E i \in Ports : NotSet(p, i) \/ AcceptSet(p, i) \/ AcceptClosed(p, i) \/ Fork(p, i)

-----------------------------------------------------------------------------
(* thread, second, first and echo.                                         *)

AcceptOne(p) ==
  \/ At(p, "accept") /\ Accept(p, 1, CASE system \in {"thread", "echo"} -> "create"
                                       [] system = "second" -> "fork"
                                       [] OTHER -> "send")
  \/ At(p, "accept2") /\ Accept(p, 1, "send2")

(* pthread_create, and the join of a handler that never returns; without a *)
(* thread the join has no id to wait for.                                  *)
Create(p) ==
  /\ At(p, "create") /\ system = "thread"
  /\ Goto(p, "join") \/ Exit(p)
  /\ UNCHANGED <<system, backlog, clientVars, faults>>

(* pthread_create through an uninitialised pthread_t*: the thread q, none, *)
(* or the end of the service.                                              *)
CreateEcho(p) ==
  /\ At(p, "create") /\ system = "echo"
  /\ \/ \E q \in Pids :
          /\ At(q, "free")
          /\ proc' = [proc EXCEPT ![q] = [Free EXCEPT !.pc = "start", !.nsfd = proc[p].nsfd],
                                  ![p].pc = "accept"]
          /\ UNCHANGED faults
     \/ Goto(p, "accept") /\ faults' = faults \cup {"thread"}
     \/ Exit(p) /\ UNCHANGED faults
  /\ UNCHANGED <<system, backlog, clientVars>>

(* The thread reads the variable, when the handler may have returned, or   *)
(* may run again for the next connection.                                  *)
StartEcho(p) ==
  /\ At(p, "start")
  /\ \E c \in {proc[p].nsfd, proc[Main].nsfd, None} :
       /\ proc' = [proc EXCEPT ![p].pc = "echo", ![p].nsfd = c]
       /\ faults' = IF c = proc[p].nsfd THEN faults ELSE faults \cup {"stale"}
  /\ UNCHANGED <<system, backlog, clientVars>>

(* if(fork() > 0) ... else: a failed fork makes the server do the child's  *)
(* work, exit included.                                                    *)
ForkFirst(p) ==
  /\ At(p, "fork")
  /\ \/ \E q \in Pids :
          /\ At(q, "free")
          /\ proc' = [proc EXCEPT ![q] = [proc[p] EXCEPT !.pc = "send1", !.listens = {}],
                                  ![p].pc = "wait", ![p].fds = {}]
     \/ proc' = [proc EXCEPT ![p].pc = "send1", ![p].listens = {}]
  /\ UNCHANGED <<system, backlog, clientVars, faults>>

Wait(p) ==
  /\ At(p, "wait") /\ \A q \in Pids \ {p} : At(q, "free")
  /\ Goto(p, "accept2")
  /\ UNCHANGED <<system, backlog, clientVars, faults>>

-----------------------------------------------------------------------------
(* Writing.                                                                *)

Texts == [service1 |-> "service_1", service2 |-> "service_2", join |-> "hello",
          send1 |-> "client1", send2 |-> "client2", send |-> "message", echo |-> "length"]
Looping == {"service1", "service2", "join", "echo"}
Writes(p, c) ==
  /\ proc[p].pc \in DOMAIN Texts
  /\ c = IF proc[p].pc \in {"service1", "service2"} THEN proc[p].out ELSE proc[p].nsfd

Write(p, c) ==
  /\ Writes(p, c) /\ client[c] = "connected"
  /\ sent' = [sent EXCEPT ![c] = @ \cup {Texts[proc[p].pc]}]
  /\ IF proc[p].pc \in Looping THEN UNCHANGED proc ELSE Exit(p)
  /\ UNCHANGED <<system, backlog, port, client, got, faults>>

(* The client has left; a thread takes the whole server with it.           *)
Sigpipe(p, c) ==
  /\ Writes(p, c) /\ client[c] = "ended"
  /\ Exit(p)
  /\ UNCHANGED <<system, backlog, clientVars, faults>>

(* Somebody ends a service.                                                *)
Kill(p) ==
  /\ proc[p].pc \in {"service1", "service2"}
  /\ Exit(p)
  /\ UNCHANGED <<system, backlog, clientVars, faults>>

ServerStep(p) ==
  \/ Multi(p) \/ AcceptOne(p) \/ Create(p) \/ CreateEcho(p) \/ StartEcho(p)
  \/ ForkFirst(p) \/ Wait(p)
  \/ \E c \in Clients : Write(p, c) \/ Sigpipe(p, c)

-----------------------------------------------------------------------------
(* The clients.                                                            *)

(* Mutant: both clients were given the port 5000.                          *)
ConnectFirst(c) ==
  /\ client[c] = "start" /\ Listening(1)
  /\ client' = [client EXCEPT ![c] = "connected"]
  /\ backlog' = [backlog EXCEPT ![1] = Append(@, c)]
  /\ UNCHANGED <<system, port, proc, sent, got, faults>>

(* A client ends when nobody listens.                                      *)
Connect(c) ==
  /\ client[c] = "start"
  /\ IF Listening(port[c])
     THEN /\ client' = [client EXCEPT ![c] = "connected"]
          /\ backlog' = [backlog EXCEPT ![port[c]] = Append(@, c)]
     ELSE /\ client' = [client EXCEPT ![c] = "ended"]
          /\ UNCHANGED backlog
  /\ UNCHANGED <<system, port, proc, sent, got, faults>>

(* The clients of first and second receive once and close.                 *)
Receive(c) ==
  /\ client[c] = "connected" /\ sent[c] # {}
  /\ got' = [got EXCEPT ![c] = @ \cup sent[c]]
  /\ sent' = [sent EXCEPT ![c] = {}]
  /\ client' = IF system \in {"first", "second"} THEN [client EXCEPT ![c] = "ended"] ELSE client
  /\ UNCHANGED <<system, port, backlog, proc, faults>>

(* End of file, or a reset when nobody is left to accept.                  *)
Waiting(c) == Listening(port[c]) /\ \E n \in DOMAIN backlog[port[c]] : backlog[port[c]][n] = c
EndOfFile(c) ==
  /\ client[c] = "connected" /\ sent[c] = {} /\ Holders(c) = {} /\ ~Waiting(c)
  /\ client' = [client EXCEPT ![c] = "ended"]
  /\ UNCHANGED <<system, port, backlog, proc, sent, got, faults>>

Leave(c) ==
  /\ client[c] = "connected"
  /\ client' = [client EXCEPT ![c] = "ended"]
  /\ UNCHANGED <<system, port, backlog, proc, sent, got, faults>>

ClientStep(c) == Receive(c) \/ EndOfFile(c)

Next ==
  \/ \E p \in Pids : ServerStep(p) \/ Kill(p)
  \/ \E c \in Clients : Connect(c) \/ ClientStep(c) \/ Leave(c)

Spec == Init /\ [][Next]_vars

(* Processes run.  People start and end clients when they like, and nobody *)
(* has to end a service.                                                   *)
Fairness == (\A p \in Pids : WF_vars(ServerStep(p))) /\ \A c \in Clients : WF_vars(ClientStep(c))

FairSpec == Spec /\ Fairness

-----------------------------------------------------------------------------
(***************************************************************************)
(* Properties                                                              *)
(***************************************************************************)

Pcs == {"free", "select", "accept", "accept2", "create", "start", "fork", "wait"}
       \cup {IsSet[i] : i \in Ports} \cup {ForkAt[i] : i \in Ports} \cup DOMAIN Texts

TypeOK ==
  /\ port \in [Clients -> Ports]
  /\ client \in [Clients -> {"start", "connected", "ended"}]
  /\ \A i \in Ports : backlog[i] \in Seq({c \in Clients : port[c] = i})
  /\ proc \in [Pids -> [pc : Pcs, listens : SUBSET Ports, fds : SUBSET Clients,
                        nsfd : Clients \cup {None}, out : Clients \cup {None}, rset : SUBSET Ports]]
  /\ {sent, got} \subseteq [Clients -> SUBSET {Texts[pc] : pc \in DOMAIN Texts}]
  /\ faults \subseteq {"fork", "exec", "thread", "stale"}

(* As long as no exec has failed and no thread of echo has read its        *)
(* variable too late, a connection has one process that writes to it, and  *)
(* its client receives one text: that of the service it asked for, and not *)
(* the one another client was given; and no second process has the         *)
(* connection open, unless a fork has failed (multi-service/server.c:60-93,*)
(* second/server.c:38-63).  After a failed exec a service may write to the *)
(* client of the other.                                                    *)
OneServer ==
  {"exec", "stale"} \cap faults = {} =>
    /\ \A c \in Clients :
         /\ Cardinality({p \in Pids : Writes(p, c)}) <= 1
         /\ Cardinality(sent[c] \cup got[c]) <= 1
         /\ system = "multi" => sent[c] \cup got[c] \subseteq {<<"service_1", "service_2">>[port[c]]}
         /\ faults = {} => Cardinality(Holders(c)) <= 1
    /\ system = "second" => \A c, d \in Clients : c # d => (sent[c] \cup got[c]) \cap (sent[d] \cup got[d]) = {}

(* Why nobody writes to c: an exec has failed, and accept may block in a   *)
(* stray child; a fork failed and the loop keeps c open; the server joins  *)
(* the handler of another client; a thread of echo was not created or      *)
(* serves another client.                                                  *)
Forsaken(c) ==
  \/ {"exec", "thread", "stale"} \cap faults # {}
  \/ "fork" \in faults /\ \E p \in Holders(c) : InLoop(p) /\ \A i \in Ports : ~At(p, ForkAt[i])
  \/ \E p \in Pids : At(p, "join") /\ proc[p].nsfd # c

Attended(c) == got[c] # {} /\ \E p \in Pids : Writes(p, c)

(* A connected client receives its text or comes to the end of its input,  *)
(* be it that the service is ended, the server exits, or a fork or         *)
(* pthread_create fails; but for the reasons above                         *)
(* (multi-service/server.c:74, 92; thread/server.c:51; service1.c:42).     *)
NobodyHangs ==
  \A c \in Clients : client[c] = "connected" ~> client[c] = "ended" \/ Attended(c) \/ Forsaken(c)
=============================================================================
