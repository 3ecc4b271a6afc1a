-------------------------- MODULE PortFacilitator --------------------------
(***************************************************************************)
(* src/socket_rev/last_q: a facilitator that listens on behalf of services *)
(* it starts.  fasc.c asks its operator for n ports and programs, listens  *)
(* on each port, forks and executes each program, and then serves the      *)
(* listeners from one select loop: on its own port (Info) it sends its     *)
(* table, on a service's port it connects to the service and runs a thread *)
(* that it joins at once.                                                  *)
(*                                                                         *)
(* Two slips shape the behaviour.  A child whose execvp fails goes on in   *)
(* the for loop: it is a second facilitator with the listeners registered  *)
(* so far.  And the thread is given connect's result instead of the        *)
(* socket: 0 after a success, so that it reads the terminal until its end  *)
(* of file, and -1 otherwise, so that it returns at once.                  *)
(*                                                                         *)
(* bind is not checked.  It fails where a facilitator, or a service that   *)
(* has inherited the listener, holds the port, and it may fail anywhere    *)
(* else: below 1024, where another program listens, 11 above the port of a *)
(* service.  Who connects to such a port is not of this model.             *)
(***************************************************************************)
EXTENDS Naturals, Sequences, FiniteSets

CONSTANTS
  Procs,      \* process ids of facilitators; bound: failing execs
  First,      \* the one the operator has started
  Ports,      \* the ports the operator may type
  Info,       \* 5020
  NServices,  \* n, which is at most MAX
  Clients,    \* connections; one that was served stands for a new client
  NoClient

AllPorts == Ports \cup {Info}

ASSUME ProcsAssumption   == First \in Procs
ASSUME PortsAssumption   == Info \notin Ports /\ NServices \in Nat
ASSUME ClientsAssumption == NoClient \notin Clients

VARIABLES
  place,     \* where each facilitator is
  sfds,      \* its table: records [port, bound]; bound tells whether bind worked
  rset,      \* the indices select reported and the loop has not come to
  conn,      \* nsfd: the client its thread serves
  backlog,   \* the connections not accepted yet, by port
  orphans,   \* ports a service keeps open for a facilitator that has died
  refused,   \* history: ports a bind failed on though nobody here held them
  provider,  \* the service of each port: it binds some time after the exec
  closed     \* the clients that have closed their end

facilitatorVars == <<place, sfds, rset, conn>>
networkVars     == <<backlog, orphans, closed, refused>>
portVars == <<facilitatorVars, networkVars, provider>>

PortInit ==
  /\ place = [p \in Procs |-> IF p # First THEN "unborn"
                               ELSE IF NServices = 0 THEN "select" ELSE "prompt"]
  /\ \E ok \in BOOLEAN :
       /\ sfds = [p \in Procs |-> IF p = First THEN <<[port |-> Info, bound |-> ok]>> ELSE <<>>]
       /\ refused = IF ok THEN {} ELSE {Info}
  /\ rset = [p \in Procs |-> {}]
  /\ conn = [p \in Procs |-> NoClient]
  /\ backlog = [q \in AllPorts |-> <<>>]
  /\ orphans = {} /\ closed = {}
  /\ provider = [q \in AllPorts |-> "none"]

PlaceAt(p, label) == place' = [place EXCEPT ![p] = label]

Alive == {p \in Procs : place[p] \notin {"unborn", "died"}}

(* Has p's table a listening socket that is bound to port q?               *)
Binds(p, q)  == \E i \in DOMAIN sfds[p] : sfds[p][i] = [port |-> q, bound |-> TRUE]
Holders(q)   == {p \in Alive : Binds(p, q)}

-----------------------------------------------------------------------------
(* Registration.                                                           *)

(* The operator types a port.  bind fails, unnoticed, when the port is in  *)
(* use here, and may fail for a reason outside; the socket then listens on *)
(* a port of the kernel's choice, where nobody connects.                   *)
Prompt(p) ==
  /\ place[p] = "prompt"
  /\ \E q \in AllPorts, ok \in BOOLEAN :
       LET inUse == Holders(q) # {} \/ q \in orphans IN
       /\ inUse => ~ok
       /\ sfds' = [sfds EXCEPT ![p] = Append(@, [port |-> q, bound |-> ok])]
       /\ refused' = IF ok \/ inUse THEN refused ELSE refused \cup {q}
  /\ PlaceAt(p, "fork")
  /\ UNCHANGED <<rset, conn, backlog, orphans, closed, provider>>

(* Mutant: one service too many is asked for.                              *)
OnwardOffByOne(p) == IF Len(sfds[p]) <= NServices + 1 THEN "prompt" ELSE "select"

(* The rest of the for loop: the next prompt, or the select loop.          *)
Onward(p) == IF Len(sfds[p]) <= NServices THEN "prompt" ELSE "select"

(* Mutant: the parent closes the listener when the service has started.    *)
ForkClosesListener(p) ==
  /\ place[p] = "fork"
  /\ LET last == Len(sfds[p]) IN
       /\ provider' = [provider EXCEPT ![sfds[p][last].port] = "started"]
       /\ sfds' = [sfds EXCEPT ![p][last].bound = FALSE]
  /\ PlaceAt(p, Onward(p))
  /\ UNCHANGED <<rset, conn, networkVars>>

(* fork fails; or the service is executed (a second one for a port exits   *)
(* when its bind fails); or execvp fails and the child goes on with a copy *)
(* of everything.                                                          *)
ForkService(p) ==
  /\ place[p] = "fork"
  /\ LET q == sfds[p][Len(sfds[p])].port IN
       \/ /\ PlaceAt(p, Onward(p))
          /\ UNCHANGED <<sfds, provider>>
       \/ /\ PlaceAt(p, Onward(p))
          /\ provider' = [provider EXCEPT ![q] = IF @ = "none" THEN "started" ELSE @]
          /\ UNCHANGED sfds
       \/ \E r \in Procs :
            /\ place[r] = "unborn"
            /\ place' = [place EXCEPT ![p] = Onward(p), ![r] = Onward(p)]
            /\ sfds' = [sfds EXCEPT ![r] = sfds[p]]
            /\ UNCHANGED provider
  /\ UNCHANGED <<rset, conn, networkVars>>

(* The service's bind and listen.                                          *)
ServiceListen(q) ==
  /\ provider[q] = "started"
  /\ provider' = [provider EXCEPT ![q] = "listening"]
  /\ UNCHANGED <<facilitatorVars, networkVars>>

-----------------------------------------------------------------------------
(* The select loop.                                                        *)

Readable(p) == {i \in DOMAIN sfds[p] : sfds[p][i].bound /\ backlog[sfds[p][i].port] # <<>>}

(* Mutant: every listener is accepted from, readable or not.               *)
SelectAll(p) ==
  /\ place[p] = "select" /\ Readable(p) # {}
  /\ rset' = [rset EXCEPT ![p] = {i \in DOMAIN sfds[p] : sfds[p][i].bound}]
  /\ PlaceAt(p, "accept")
  /\ UNCHANGED <<sfds, conn, networkVars, provider>>

(* Mutant: the loop ends at n instead of n + 1.                            *)
SelectOneShort(p) ==
  /\ place[p] = "select" /\ Readable(p) \ {NServices + 1} # {}
  /\ rset' = [rset EXCEPT ![p] = Readable(p) \ {NServices + 1}]
  /\ PlaceAt(p, "accept")
  /\ UNCHANGED <<sfds, conn, networkVars, provider>>

SelectReady(p) ==
  /\ place[p] = "select" /\ Readable(p) # {}
  /\ rset' = [rset EXCEPT ![p] = Readable(p)]
  /\ PlaceAt(p, "accept")
  /\ UNCHANGED <<sfds, conn, networkVars, provider>>

Current(p)     == CHOOSE i \in rset[p] : \A j \in rset[p] : i <= j
CurrentPort(p) == sfds[p][Current(p)].port

(* After the i-th listener: the next one that was reported, or select.     *)
NextListener(p) == IF rset'[p] = {} THEN "select" ELSE "accept"

(* What select reported may be stale: accept blocks when another process   *)
(* has taken the connection.                                               *)
TakeFrom(p, q) ==
  /\ backlog[q] # <<>>
  /\ backlog' = [backlog EXCEPT ![q] = Tail(@)]

(* A client of the facilitator itself gets the table.                      *)
AcceptInfo(p) ==
  /\ place[p] = "accept" /\ Current(p) = 1
  /\ TakeFrom(p, Info)
  /\ rset' = [rset EXCEPT ![p] = @ \ {1}]
  /\ PlaceAt(p, NextListener(p))
  /\ UNCHANGED <<sfds, conn, orphans, closed, refused, provider>>

(* A client of a service: accept, connect to the service.  If it listens   *)
(* already, the thread reads the terminal and main waits in pthread_join.  *)
AcceptClient(p) ==
  /\ place[p] = "accept" /\ Current(p) # 1
  /\ TakeFrom(p, CurrentPort(p))
  /\ rset' = [rset EXCEPT ![p] = @ \ {Current(p)}]
  /\ IF provider[CurrentPort(p)] = "listening"
     THEN PlaceAt(p, "iofunc") /\ conn' = [conn EXCEPT ![p] = Head(backlog[CurrentPort(p)])]
     ELSE PlaceAt(p, NextListener(p)) /\ UNCHANGED conn
  /\ UNCHANGED <<sfds, orphans, closed, refused, provider>>

(* The terminal's end of file lets the thread return.                      *)
EndOfFile(p) ==
  /\ place[p] = "iofunc"
  /\ conn' = [conn EXCEPT ![p] = NoClient]
  /\ PlaceAt(p, IF rset[p] = {} THEN "select" ELSE "accept")
  /\ UNCHANGED <<sfds, rset, networkVars, provider>>

(* Lines typed for a client that has closed end the process by SIGPIPE.    *)
(* A listener of its own is closed with it, and the backlog is gone,       *)
(* unless a service has inherited the descriptor through fork and exec.    *)
Sigpipe(p) ==
  /\ place[p] = "iofunc" /\ conn[p] \in closed
  /\ PlaceAt(p, "died")
  /\ LET own == {q \in AllPorts : Holders(q) = {p}} IN
     \E kept \in SUBSET own :
       /\ orphans' = orphans \cup kept
       /\ backlog' = [q \in AllPorts |-> IF q \in own \ kept THEN <<>> ELSE backlog[q]]
  /\ rset' = [rset EXCEPT ![p] = {}]
  /\ conn' = [conn EXCEPT ![p] = NoClient]
  /\ UNCHANGED <<sfds, closed, refused, provider>>

LoopStep(p) == ForkService(p) \/ SelectReady(p) \/ AcceptInfo(p) \/ AcceptClient(p)
Typist(p) == Prompt(p) \/ EndOfFile(p) \/ Sigpipe(p)

-----------------------------------------------------------------------------
(* The clients: they connect, then read; the user may end them at any      *)
(* time.                                                                   *)
Waiting(c, q) == \E i \in DOMAIN backlog[q] : backlog[q][i] = c

Connected == {c \in Clients : (\E q \in AllPorts : Waiting(c, q))
                              \/ (\E p \in Procs : conn[p] = c)}

Connect(c, q) ==
  /\ c \notin Connected \cup closed
  /\ Holders(q) # {} \/ q \in orphans
  /\ backlog' = [backlog EXCEPT ![q] = Append(@, c)]
  /\ UNCHANGED <<facilitatorVars, orphans, closed, refused, provider>>

Close(c) ==
  /\ c \in Connected \ closed
  /\ closed' = closed \cup {c}
  /\ UNCHANGED <<facilitatorVars, backlog, orphans, refused, provider>>

PortNext ==
  \/ \E p \in Procs : LoopStep(p) \/ Typist(p)
  \/ \E q \in AllPorts : ServiceListen(q)
  \/ \E c \in Clients : Close(c) \/ (\E q \in AllPorts : Connect(c, q))

PortSpec == PortInit /\ [][PortNext]_portVars

(* The facilitators run; the operator and the clients owe nothing.         *)
FairPortSpec == PortSpec /\ \A p \in Procs : WF_portVars(LoopStep(p))

-----------------------------------------------------------------------------
(***************************************************************************)
(* Properties                                                              *)
(***************************************************************************)

PortTypeOK ==
  /\ place \in [Procs -> {"unborn", "prompt", "fork", "select", "accept", "iofunc", "died"}]
  /\ sfds \in [Procs -> Seq([port : AllPorts, bound : BOOLEAN])]
  /\ \A p \in Procs : Len(sfds[p]) <= NServices + 1 /\ rset[p] \subseteq DOMAIN sfds[p]
  /\ conn \in [Procs -> Clients \cup {NoClient}]
  /\ backlog \in [AllPorts -> Seq(Clients)]
  /\ orphans \subseteq AllPorts /\ refused \subseteq AllPorts /\ closed \subseteq Clients
  /\ provider \in [AllPorts -> {"none", "started", "listening"}]

(* In accept with nothing to accept.                                       *)
Blocked(p) == place[p] = "accept" /\ backlog[CurrentPort(p)] = <<>>

(* A facilitator sits in accept without a connection only beside another   *)
(* facilitator with the same listener, born of a failed execvp: between    *)
(* its select and its accept nobody else can have taken the connection     *)
(* (fasc.c:99,117-124).                                                    *)
BlocksOnlyBesideAnother ==
  \A p \in Procs : Blocked(p) =>
    \E r \in Procs \ {p} : place[r] # "unborn" /\ Binds(r, CurrentPort(p))

(* A port in the table sent to the clients on which no facilitator accepts *)
(* is one the machine refused, or one whose listener died with its         *)
(* facilitator.  The unchecked bind is harmless otherwise: a port typed    *)
(* twice, or by the operators of two facilitators, has an acceptor as long *)
(* as the first to bind it lives (fasc.c:83-90,126).                       *)
TableListens ==
  \A p \in Alive : \A i \in DOMAIN sfds[p] :
    LET q == sfds[p][i].port IN
      Holders(q) = {} => q \in refused \/ (\E r \in Procs : place[r] = "died" /\ Binds(r, q))

(* By the operator, or in an accept that another facilitator has emptied.  *)
HeldUp(p) == place[p] \in {"prompt", "iofunc"} \/ Blocked(p)

(* A client that waits on a port is accepted unless every live facilitator *)
(* with that listener is held up: by its operator (at a prompt, or in the  *)
(* thread that reads the terminal) or in an accept another one has left    *)
(* empty (fasc.c:71,75,117-141).                                           *)
ClientAccepted ==
  \A c \in Clients, q \in AllPorts :
    Waiting(c, q) ~> (~Waiting(c, q) \/ \A p \in Holders(q) : HeldUp(p))
=============================================================================
