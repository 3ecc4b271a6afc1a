----------------------- MODULE ConnectionServersProofs -----------------------
(***************************************************************************)
(* Proofs about ConnectionServers, for any number of clients and           *)
(* processes.  The five systems of the model share its actions: the lemmas *)
(* named ...Facts say once what an action does to a process, and each      *)
(* system has an invariant of its own.                                     *)
(***************************************************************************)
EXTENDS ConnectionServers, QueueLemmas, SequenceTheorems, FiniteSetTheorems, TLAPS

(* The systems, and what a client has been sent.                           *)
Systems == {"multi", "thread", "second", "first", "echo"}
Texted(c) == sent[c] \cup got[c]

(* What TypeOK leaves out.                                                 *)
Typed ==
  /\ TypeOK
  /\ system \in Systems
  /\ backlog \in [Ports -> Seq(Clients)]
  /\ \A p \in Pids : At(p, "free") => proc[p] = Free

(* A client that has not connected is nowhere, one that waits is in one    *)
(* backlog only, once; no process has ever seen either.                    *)
Fresh(c) == client[c] = "start" \/ \E i \in Ports : c \in Items(backlog[i])
Has(p, c) == c \in proc[p].fds \/ c = proc[p].nsfd \/ c = proc[p].out
FreshOK ==
  /\ \A i \in Ports : Distinct(backlog[i])
  /\ \A i \in Ports : \A c \in Items(backlog[i]) : client[c] # "start"
  /\ \A c \in Clients : Fresh(c) => Texted(c) = {} /\ \A p \in Pids : ~Has(p, c)

(* The loop of multi stays with the first process; the others serve, each  *)
(* a client of its own that asked for this service.                        *)
Forking == proc[Main].pc \in {"fork1", "fork2"}
MultiMain ==
  /\ proc[Main].pc \in {"select", "isset1", "isset2", "fork1", "fork2"}
  /\ proc[Main].out = None /\ proc[Main].listens = Ports
MultiOthers ==
  \A p \in Pids \ {Main} :
    /\ proc[p].pc \in {"free", "service1", "service2"}
    /\ At(p, "service1") => proc[p].out \in Clients /\ port[proc[p].out] = 1
    /\ At(p, "service2") => proc[p].out \in Clients /\ port[proc[p].out] = 2
MultiApart ==
  /\ \A p, q \in Pids : p # q /\ proc[p].out = proc[q].out => proc[p].out = None
  /\ Forking => \A p \in Pids : proc[p].out # proc[Main].nsfd
MultiAsked ==
  /\ Forking => proc[Main].nsfd \in Clients
  /\ At(Main, "fork1") => port[proc[Main].nsfd] = 1
  /\ At(Main, "fork2") => port[proc[Main].nsfd] = 2
MultiTexts ==
  /\ \A c \in Clients : port[c] = 1 => Texted(c) \subseteq {"service_1"}
  /\ \A c \in Clients : port[c] = 2 => Texted(c) \subseteq {"service_2"}
MultiFds ==
  /\ proc[Main].fds \subseteq {proc[Main].nsfd}
  /\ ~Forking => proc[Main].fds = {}
  /\ \A p \in Pids \ {Main} : proc[p].fds \subseteq {proc[p].out}
MultiOK ==
  /\ MultiMain /\ MultiOthers /\ MultiApart /\ MultiAsked /\ MultiTexts
  /\ faults = {} => MultiFds

(* thread and first: nobody but the first process ever runs.               *)
AloneOK(pcs, text) ==
  /\ proc[Main].pc \in pcs \cup {"free"} /\ proc[Main].out = None
  /\ \A p \in Pids \ {Main} : At(p, "free")
  /\ \A c \in Clients : Texted(c) \subseteq {text}

(* second: the server accepts again only when the child has ended, and it  *)
(* is the first client that gets the first text.                           *)
SecondMain ==
  /\ proc[Main].pc \in {"free", "accept", "fork", "send1", "wait", "accept2", "send2"}
  /\ At(Main, "wait") \/ At(Main, "accept2") => proc[Main].fds = {}
  /\ \A p \in Pids : proc[p].out = None
SecondChild ==
  \A p \in Pids \ {Main} :
    \/ At(p, "free")
    \/ At(p, "send1") /\ At(Main, "wait") /\ \A q \in Pids \ {Main, p} : At(q, "free")
Nothing == \A c \in Clients : Texted(c) = {}
SecondTexts ==
  /\ (\E p \in Pids : proc[p].pc \in {"accept", "fork", "send1"}) => Nothing
  /\ At(Main, "wait") \/ At(Main, "accept2") \/ At(Main, "send2") =>
       \A c \in Clients : "client2" \notin Texted(c)
  /\ At(Main, "send2") => proc[Main].nsfd \in Clients /\ Texted(proc[Main].nsfd) = {}
SecondApart ==
  /\ \A c \in Clients : \A t, u \in Texted(c) : t = u
  /\ \A c, d \in Clients : c # d => Texted(c) \cap Texted(d) = {}
SecondOK == SecondMain /\ SecondChild /\ SecondTexts /\ SecondApart

(* echo: each thread has the client its handler accepted.                  *)
EchoMain ==
  /\ proc[Main].pc \in {"free", "accept", "create"} /\ proc[Main].out = None
  /\ At(Main, "create") => proc[Main].nsfd \in Clients
EchoThreads ==
  \A p \in Pids \ {Main} :
    /\ proc[p].pc \in {"free", "start", "echo"} /\ proc[p].fds = {} /\ proc[p].out = None
    /\ ~At(p, "free") => proc[p].nsfd \in Clients
EchoApart ==
  /\ \A p, q \in Pids \ {Main} : p # q /\ proc[p].nsfd = proc[q].nsfd => proc[p].nsfd = None
  /\ At(Main, "create") => \A p \in Pids \ {Main} : proc[p].nsfd # proc[Main].nsfd
EchoTexts == \A c \in Clients : Texted(c) \subseteq {"length"}
EchoOK == EchoMain /\ EchoThreads /\ EchoApart /\ EchoTexts

SystemOK ==
  /\ system = "multi" => MultiOK
  /\ system = "thread" => AloneOK({"accept", "create", "join"}, "hello")
  /\ system = "first" => AloneOK({"accept", "send"}, "message")
  /\ system = "second" => SecondOK
  /\ system = "echo" => EchoOK

(* Once an exec has failed or a thread was too late, nothing is claimed.   *)
AsMeant == {"exec", "stale"} \cap faults = {}
IInv == Typed /\ FreshOK /\ (AsMeant => SystemOK)

-----------------------------------------------------------------------------
(* The tables of steps, listener by listener.                              *)
LEMMA Tables ==
  /\ Ports = {1, 2}
  /\ IsSet[1] = "isset1" /\ IsSet[2] = "isset2"
  /\ ForkAt[1] = "fork1" /\ ForkAt[2] = "fork2"
  /\ After[1] = "isset2" /\ After[2] = "select"
  /\ Services[1] = "service1" /\ Services[2] = "service2"
  BY DEF Ports, IsSet, ForkAt, After, Services

(* Where a process can be.                                                 *)
LEMMA PcsAre ==
  Pcs = {"free", "select", "accept", "accept2", "create", "start", "fork", "wait",
         "isset1", "isset2", "fork1", "fork2",
         "service1", "service2", "join", "send1", "send2", "send", "echo"}
<1>1. DOMAIN Texts = {"service1", "service2", "join", "send1", "send2", "send", "echo"}
  BY DEF Texts
<1>2. /\ {IsSet[i] : i \in Ports} = {"isset1", "isset2"}
      /\ {ForkAt[i] : i \in Ports} = {"fork1", "fork2"}
  BY Tables
<1> QED
  BY <1>1, <1>2 DEF Pcs

(* What each of them writes.                                               *)
LEMMA TextsAre ==
  /\ DOMAIN Texts = {"service1", "service2", "join", "send1", "send2", "send", "echo"}
  /\ Texts["service1"] = "service_1" /\ Texts["service2"] = "service_2"
  /\ Texts["join"] = "hello" /\ Texts["send1"] = "client1" /\ Texts["send2"] = "client2"
  /\ Texts["send"] = "message" /\ Texts["echo"] = "length"
  BY DEF Texts

Record == [pc : Pcs, listens : SUBSET Ports, fds : SUBSET Clients,
           nsfd : Clients \cup {None}, out : Clients \cup {None}, rset : SUBSET Ports]

(* A free process is a record that holds nothing.                          *)
LEMMA FreeRecord ==
  /\ Free \in Record /\ Free.pc = "free" /\ Free.listens = {} /\ Free.fds = {}
  /\ Free.nsfd = None /\ Free.out = None /\ Free.rset = {}
  BY PcsAre DEF Free, Process, Record

(* accept takes the first of a backlog.                                    *)
LEMMA AcceptFacts ==
  ASSUME Typed, NEW p \in Pids, NEW i \in Ports, NEW pc \in Pcs, Accept(p, i, pc)
  PROVE  /\ Head(backlog[i]) \in Clients /\ Head(backlog[i]) \in Items(backlog[i])
         /\ port[Head(backlog[i])] = i
         /\ proc' \in [Pids -> Record]
         /\ \A q \in Pids \ {p} : proc'[q] = proc[q]
         /\ proc'[p].pc = pc /\ proc'[p].nsfd = Head(backlog[i])
         /\ proc'[p].fds = proc[p].fds \cup {Head(backlog[i])}
         /\ proc'[p].out = proc[p].out /\ proc'[p].listens = proc[p].listens
         /\ backlog' \in [Ports -> Seq(Clients)]
         /\ \A j \in Ports : backlog'[j] = IF j = i THEN Tail(backlog[i]) ELSE backlog[j]
<1>1. /\ backlog[i] # <<>> /\ backlog[i] \in Seq({c \in Clients : port[c] = i})
      /\ backlog[i] \in Seq(Clients) /\ proc \in [Pids -> Record] /\ backlog \in [Ports -> Seq(Clients)]
  BY DEF Accept, Typed, TypeOK, Record
<1>2. /\ Head(backlog[i]) \in {c \in Clients : port[c] = i} /\ Tail(backlog[i]) \in Seq(Clients)
      /\ Head(backlog[i]) \in Items(backlog[i])
  BY <1>1, HeadTailProperties, ItemsTail
<1>3. proc' = [proc EXCEPT ![p] = [proc[p] EXCEPT !.nsfd = Head(backlog[i]),
                                     !.fds = @ \cup {Head(backlog[i])}, !.pc = pc]]
  BY <1>1 DEF Accept
<1>4. [proc[p] EXCEPT !.nsfd = Head(backlog[i]),
                      !.fds = @ \cup {Head(backlog[i])}, !.pc = pc] \in Record
  BY <1>1, <1>2 DEF Record
<1>5. backlog' = [backlog EXCEPT ![i] = Tail(@)]
  BY DEF Accept
<1>6. /\ \A q \in Pids \ {p} : proc'[q] = proc[q]
      /\ proc'[p].pc = pc /\ proc'[p].nsfd = Head(backlog[i])
      /\ proc'[p].fds = proc[p].fds \cup {Head(backlog[i])}
      /\ proc'[p].out = proc[p].out /\ proc'[p].listens = proc[p].listens
  BY <1>1, <1>3 DEF Record
<1> QED
  BY <1>1, <1>2, <1>3, <1>4, <1>5, <1>6

(* Goto moves the program counter of one process and nothing else.         *)
LEMMA GotoFacts ==
  ASSUME proc \in [Pids -> Record], NEW p \in Pids, NEW pc \in Pcs, Goto(p, pc)
  PROVE  /\ proc' \in [Pids -> Record]
         /\ \A q \in Pids \ {p} : proc'[q] = proc[q]
         /\ proc'[p].pc = pc /\ proc'[p].nsfd = proc[p].nsfd /\ proc'[p].fds = proc[p].fds
         /\ proc'[p].out = proc[p].out /\ proc'[p].listens = proc[p].listens
         /\ proc'[p].rset = proc[p].rset
  BY DEF Goto, Record

(* A process that ends is free again; in echo its threads end with it.     *)
LEMMA ExitFacts ==
  ASSUME proc \in [Pids -> Record], NEW p \in Pids, Exit(p)
  PROVE  /\ proc' \in [Pids -> Record] /\ proc'[p] = Free
         /\ \A q \in Pids : proc'[q] = Free \/ (system # "echo" /\ q # p /\ proc'[q] = proc[q])
         /\ system = "echo" => \A q \in Pids : proc'[q] = Free
  BY FreeRecord DEF Exit

(* A process that nobody else touches.                                     *)
Others(S) == \A r \in Pids \ S : proc'[r] = proc[r]

(* select changes what its process knows of the listeners only.            *)
LEMMA SelectFacts ==
  ASSUME Typed, NEW p \in Pids, Select(p)
  PROVE  /\ proc' \in [Pids -> Record] /\ Others({p})
         /\ proc[p].pc = "select" /\ proc'[p].pc = "isset1"
         /\ proc'[p].nsfd = proc[p].nsfd /\ proc'[p].fds = proc[p].fds
         /\ proc'[p].out = proc[p].out /\ proc'[p].listens = proc[p].listens
<1>1. proc \in [Pids -> Record]
  BY DEF Typed, TypeOK, Record
<1>2. PICK rset \in SUBSET Ports : proc' = [proc EXCEPT ![p].rset = rset, ![p].pc = "isset1"]
  BY DEF Select
<1>3. proc' = [proc EXCEPT ![p] = [proc[p] EXCEPT !.rset = rset, !.pc = "isset1"]]
  BY <1>1, <1>2
<1>4. [proc[p] EXCEPT !.rset = rset, !.pc = "isset1"] \in Record
  BY <1>1, PcsAre DEF Record
<1>5. proc' \in [Pids -> Record] /\ Others({p})
  BY <1>1, <1>3, <1>4 DEF Others
<1>6. /\ proc'[p].pc = "isset1" /\ proc'[p].nsfd = proc[p].nsfd /\ proc'[p].fds = proc[p].fds
      /\ proc'[p].out = proc[p].out /\ proc'[p].listens = proc[p].listens
  BY <1>1, <1>3 DEF Record
<1> QED
  BY <1>5, <1>6 DEF Select, At

(* accept on a listener that was closed gives no descriptor; only a        *)
(* process after a failed exec has closed one.                             *)
LEMMA AcceptClosedFacts ==
  ASSUME Typed, NEW p \in Pids, NEW i \in Ports, AcceptClosed(p, i)
  PROVE  /\ proc' \in [Pids -> Record] /\ Others({p})
         /\ proc[p].pc = IsSet[i] /\ proc'[p].pc = ForkAt[i] /\ proc[p].listens # Ports
         /\ proc'[p].nsfd = None /\ proc'[p].fds = proc[p].fds
         /\ proc'[p].out = proc[p].out /\ proc'[p].listens = proc[p].listens
<1>1. proc \in [Pids -> Record]
  BY DEF Typed, TypeOK, Record
<1>2. proc' = [proc EXCEPT ![p] = [proc[p] EXCEPT !.nsfd = None, !.pc = ForkAt[i]]]
  BY <1>1 DEF AcceptClosed
<1>3. [proc[p] EXCEPT !.nsfd = None, !.pc = ForkAt[i]] \in Record
  <2>1. ForkAt[i] \in Pcs
    BY PcsAre, Tables
  <2> QED
    BY <1>1, <2>1 DEF Record
<1>4. proc' \in [Pids -> Record] /\ Others({p})
  BY <1>1, <1>2, <1>3 DEF Others
<1>5. /\ proc'[p].pc = ForkAt[i] /\ proc'[p].nsfd = None /\ proc'[p].fds = proc[p].fds
      /\ proc'[p].out = proc[p].out /\ proc'[p].listens = proc[p].listens
  BY <1>1, <1>2 DEF Record
<1>6. proc[p].pc = IsSet[i] /\ proc[p].listens # Ports
  BY DEF AcceptClosed, At
<1> QED
  BY <1>4, <1>5, <1>6

(* A fork: the child q goes to pc; or there is none.                       *)
ForkedTo(p, i, q, pc) ==
  /\ At(q, "free") /\ q # p
  /\ proc' \in [Pids -> Record] /\ Others({p, q})
  /\ proc'[p].pc = After[i] /\ proc'[p].fds = proc[p].fds \ {proc[p].nsfd}
  /\ proc'[p].nsfd = proc[p].nsfd /\ proc'[p].out = proc[p].out /\ proc'[p].listens = proc[p].listens
  /\ proc'[q].pc = pc /\ proc'[q].fds = proc[p].fds /\ proc'[q].nsfd = proc[p].nsfd
  /\ proc'[q].out = IF proc[p].nsfd = None THEN proc[p].out ELSE proc[p].nsfd
  /\ faults' = IF pc = After[i] THEN faults \cup {"exec"} ELSE faults

(* Either a child runs with the connection as its output, or the exec or   *)
(* the fork has failed.                                                    *)
LEMMA ForkFacts ==
  ASSUME Typed, NEW p \in Pids, NEW i \in Ports, Fork(p, i)
  PROVE  /\ proc[p].pc = ForkAt[i]
         /\ \/ \E q \in Pids, pc \in {Services[i], After[i]} : ForkedTo(p, i, q, pc)
            \/ Goto(p, After[i]) /\ faults' = faults \cup {"fork"}
<1>1. proc \in [Pids -> Record] /\ proc[p].pc = ForkAt[i] /\ After[i] \in Pcs /\ Services[i] \in Pcs
  BY PcsAre, Tables DEF Typed, TypeOK, Record, Fork, At
<1>2. ASSUME NEW q \in Pids, NEW pc \in {Services[i], After[i]}, At(q, "free"),
             proc' = [proc EXCEPT ![q] = Child(p, i, pc),
                        ![p].pc = After[i], ![p].fds = @ \ {proc[p].nsfd}],
             faults' = IF pc = After[i] THEN faults \cup {"exec"} ELSE faults
      PROVE  ForkedTo(p, i, q, pc)
  <2>1. q # p
    BY <1>1, <1>2, Tables DEF At
  <2>2. proc' = [proc EXCEPT ![q] = Child(p, i, pc),
                   ![p] = [proc[p] EXCEPT !.pc = After[i], !.fds = @ \ {proc[p].nsfd}]]
    BY <1>1, <1>2, <2>1
  <2>3. /\ Child(p, i, pc) \in Record
        /\ Child(p, i, pc).pc = pc /\ Child(p, i, pc).fds = proc[p].fds
        /\ Child(p, i, pc).nsfd = proc[p].nsfd
        /\ Child(p, i, pc).out = IF proc[p].nsfd = None THEN proc[p].out ELSE proc[p].nsfd
    BY <1>1, <1>2 DEF Child, Record
  <2> DEFINE e == [proc[p] EXCEPT !.pc = After[i], !.fds = @ \ {proc[p].nsfd}]
  <2>4. /\ e \in Record /\ e.pc = After[i] /\ e.fds = proc[p].fds \ {proc[p].nsfd}
        /\ e.nsfd = proc[p].nsfd /\ e.out = proc[p].out /\ e.listens = proc[p].listens
    BY <1>1 DEF Record
  <2>5. proc' = [proc EXCEPT ![q] = Child(p, i, pc), ![p] = e]
    BY <2>2
  <2>6. proc'[q] = Child(p, i, pc) /\ proc'[p] = e /\ Others({p, q}) /\ proc' \in [Pids -> Record]
    <3> HIDE DEF e
    <3> QED
      BY <1>1, <2>1, <2>3, <2>4, <2>5 DEF Others
  <2> QED
    BY <1>2, <2>1, <2>3, <2>4, <2>6 DEF ForkedTo
<1> QED
  BY <1>1, <1>2 DEF Fork

(* Either a thread starts with the descriptor of its creator, or           *)
(* pthread_create has failed.                                              *)
LEMMA CreateEchoFacts ==
  ASSUME Typed, NEW p \in Pids, CreateEcho(p)
  PROVE  /\ proc[p].pc = "create" /\ system = "echo"
         /\ \/ /\ \E q \in Pids :
                   /\ At(q, "free") /\ q # p
                   /\ proc' \in [Pids -> Record] /\ Others({p, q})
                   /\ proc'[p].pc = "accept" /\ proc'[p].fds = proc[p].fds
                   /\ proc'[p].nsfd = proc[p].nsfd /\ proc'[p].out = proc[p].out
                   /\ proc'[q].pc = "start" /\ proc'[q].fds = {} /\ proc'[q].nsfd = proc[p].nsfd
                   /\ proc'[q].out = None
               /\ faults' = faults
            \/ Goto(p, "accept") /\ faults' = faults \cup {"thread"}
            \/ Exit(p) /\ faults' = faults
<1>1. proc \in [Pids -> Record] /\ proc[p].pc = "create" /\ system = "echo" /\ {"start", "accept"} \subseteq Pcs
  BY PcsAre DEF Typed, TypeOK, Record, CreateEcho, At
<1>2. ASSUME NEW q \in Pids, At(q, "free"),
             proc' = [proc EXCEPT ![q] = [Free EXCEPT !.pc = "start", !.nsfd = proc[p].nsfd],
                                  ![p].pc = "accept"]
      PROVE  /\ At(q, "free") /\ q # p
             /\ proc' \in [Pids -> Record] /\ Others({p, q})
             /\ proc'[p].pc = "accept" /\ proc'[p].fds = proc[p].fds
             /\ proc'[p].nsfd = proc[p].nsfd /\ proc'[p].out = proc[p].out
             /\ proc'[q].pc = "start" /\ proc'[q].fds = {} /\ proc'[q].nsfd = proc[p].nsfd
             /\ proc'[q].out = None
  <2>1. q # p
    BY <1>1, <1>2 DEF At
  <2> DEFINE e == [proc[p] EXCEPT !.pc = "accept"]
             t == [Free EXCEPT !.pc = "start", !.nsfd = proc[p].nsfd]
  <2>2. /\ e \in Record /\ e.pc = "accept" /\ e.fds = proc[p].fds
        /\ e.nsfd = proc[p].nsfd /\ e.out = proc[p].out
    BY <1>1 DEF Record
  <2>3. t \in Record /\ t.pc = "start" /\ t.fds = {} /\ t.nsfd = proc[p].nsfd /\ t.out = None
    BY <1>1, FreeRecord DEF Record
  <2>4. proc' = [proc EXCEPT ![q] = t, ![p] = e]
    BY <1>1, <1>2, <2>1
  <2>5. proc'[q] = t /\ proc'[p] = e /\ Others({p, q}) /\ proc' \in [Pids -> Record]
    <3> HIDE DEF e, t
    <3> QED
      BY <1>1, <2>1, <2>2, <2>3, <2>4 DEF Others
  <2> QED
    BY <1>2, <2>1, <2>2, <2>3, <2>5
<1> QED
  BY <1>1, <1>2 DEF CreateEcho

(* A thread takes the descriptor its creator meant, or is too late.        *)
LEMMA StartEchoFacts ==
  ASSUME Typed, NEW p \in Pids, StartEcho(p)
  PROVE  /\ proc[p].pc = "start" /\ proc' \in [Pids -> Record] /\ Others({p})
         /\ proc'[p].pc = "echo" /\ proc'[p].fds = proc[p].fds /\ proc'[p].out = proc[p].out
         /\ proc'[p].nsfd \in {proc[p].nsfd, proc[Main].nsfd, None}
         /\ faults' = IF proc'[p].nsfd = proc[p].nsfd THEN faults ELSE faults \cup {"stale"}
<1>1. proc \in [Pids -> Record] /\ "echo" \in Pcs /\ Main \in Pids
  BY PcsAre, NamesAssumption DEF Typed, TypeOK, Record
<1>2. PICK c \in {proc[p].nsfd, proc[Main].nsfd, None} :
        /\ proc' = [proc EXCEPT ![p].pc = "echo", ![p].nsfd = c]
        /\ faults' = IF c = proc[p].nsfd THEN faults ELSE faults \cup {"stale"}
  BY DEF StartEcho
<1> DEFINE e == [proc[p] EXCEPT !.pc = "echo", !.nsfd = c]
<1>3. e \in Record /\ e.pc = "echo" /\ e.nsfd = c /\ e.fds = proc[p].fds /\ e.out = proc[p].out
  BY <1>1, <1>2 DEF Record
<1>4. proc' = [proc EXCEPT ![p] = e]
  BY <1>1, <1>2
<1>5. proc' \in [Pids -> Record] /\ Others({p}) /\ proc'[p] = e
  <2> HIDE DEF e
  <2> QED
    BY <1>1, <1>3, <1>4 DEF Others
<1> QED
  BY <1>2, <1>3, <1>5 DEF StartEcho, At

(* The child of second has what its parent had; without a child the parent *)
(* does the work of the child.                                             *)
LEMMA ForkFirstFacts ==
  ASSUME Typed, NEW p \in Pids, ForkFirst(p)
  PROVE  /\ proc[p].pc = "fork" /\ proc' \in [Pids -> Record]
         /\ \/ \E q \in Pids :
                 /\ At(q, "free") /\ q # p /\ Others({p, q})
                 /\ proc'[p].pc = "wait" /\ proc'[p].fds = {}
                 /\ proc'[p].nsfd = proc[p].nsfd /\ proc'[p].out = proc[p].out
                 /\ proc'[q].pc = "send1" /\ proc'[q].fds = proc[p].fds
                 /\ proc'[q].nsfd = proc[p].nsfd /\ proc'[q].out = proc[p].out
            \/ /\ Others({p})
               /\ proc'[p].pc = "send1" /\ proc'[p].fds = proc[p].fds
               /\ proc'[p].nsfd = proc[p].nsfd /\ proc'[p].out = proc[p].out
<1>1. proc \in [Pids -> Record] /\ {"wait", "send1"} \subseteq Pcs /\ proc[p].pc = "fork"
  BY PcsAre DEF Typed, TypeOK, Record, ForkFirst, At
<1> DEFINE e == [proc[p] EXCEPT !.pc = "wait", !.fds = {}]
           t == [proc[p] EXCEPT !.pc = "send1", !.listens = {}]
<1>2. e \in Record /\ e.pc = "wait" /\ e.fds = {} /\ e.nsfd = proc[p].nsfd /\ e.out = proc[p].out
  BY <1>1 DEF Record
<1>3. /\ t \in Record /\ t.pc = "send1" /\ t.fds = proc[p].fds
      /\ t.nsfd = proc[p].nsfd /\ t.out = proc[p].out
  BY <1>1 DEF Record
<1>4. CASE \E q \in Pids : At(q, "free") /\ proc' = [proc EXCEPT ![q] = t, ![p].pc = "wait", ![p].fds = {}]
  <2>1. PICK q \in Pids : At(q, "free") /\ proc' = [proc EXCEPT ![q] = t, ![p].pc = "wait", ![p].fds = {}]
    BY <1>4
  <2>2. q # p
    BY <1>1, <2>1 DEF At
  <2>3. proc' = [proc EXCEPT ![q] = t, ![p] = e]
    BY <1>1, <2>1, <2>2
  <2>4. proc'[q] = t /\ proc'[p] = e /\ Others({p, q}) /\ proc' \in [Pids -> Record]
    <3> HIDE DEF e, t
    <3> QED
      BY <1>1, <1>2, <1>3, <2>2, <2>3 DEF Others
  <2> QED
    BY <1>1, <1>2, <1>3, <2>1, <2>2, <2>4
<1>5. CASE proc' = [proc EXCEPT ![p].pc = "send1", ![p].listens = {}]
  <2>1. proc' = [proc EXCEPT ![p] = t]
    BY <1>1, <1>5
  <2>2. proc'[p] = t /\ Others({p}) /\ proc' \in [Pids -> Record]
    <3> HIDE DEF t
    <3> QED
      BY <1>1, <1>3, <2>1 DEF Others
  <2> QED
    BY <1>1, <1>3, <2>2
<1> QED
  BY <1>4, <1>5 DEF ForkFirst

-----------------------------------------------------------------------------
(* Types.                                                                  *)
LEMMA TypedInit == Init => Typed
<1> SUFFICES ASSUME Init PROVE Typed
  OBVIOUS
<1>1. Main \in Pids /\ None \notin Clients
  BY NamesAssumption
<1>2. /\ port \in [Clients -> Ports] /\ client \in [Clients -> {"start", "connected", "ended"}]
      /\ sent \in [Clients -> SUBSET {Texts[pc] : pc \in DOMAIN Texts}]
      /\ got \in [Clients -> SUBSET {Texts[pc] : pc \in DOMAIN Texts}]
      /\ faults \subseteq {"fork", "exec", "thread", "stale"} /\ system \in Systems
  BY Tables DEF Init, Systems
<1>3. backlog \in [Ports -> Seq(Clients)] /\ \A i \in Ports : backlog[i] \in Seq({c \in Clients : port[c] = i})
  BY EmptySeq DEF Init
<1>4. /\ Process("select", Ports) \in Record /\ Process("accept", {1}) \in Record
      /\ Process("select", Ports).pc = "select" /\ Process("accept", {1}).pc = "accept"
  BY PcsAre, Tables DEF Process, Record
<1>5. proc \in [Pids -> Record] /\ \A p \in Pids : At(p, "free") => proc[p] = Free
  BY <1>4, FreeRecord DEF Init, At
<1> QED
  BY <1>2, <1>3, <1>5 DEF Typed, TypeOK, Record

(* A step of a process that takes nothing from a backlog.                  *)
LEMMA TypedProc ==
  ASSUME Typed, UNCHANGED <<system, backlog, clientVars>>,
         proc' \in [Pids -> Record], \A p \in Pids : proc'[p].pc = "free" => proc'[p] = Free,
         faults' \subseteq {"fork", "exec", "thread", "stale"}
  PROVE  Typed'
  BY DEF Typed, TypeOK, Record, clientVars, At

(* Goto keeps the types.                                                   *)
LEMMA TypedGoto ==
  ASSUME Typed, UNCHANGED <<system, backlog, clientVars>>,
         NEW p \in Pids, NEW pc \in Pcs \ {"free"}, Goto(p, pc),
         faults' \subseteq {"fork", "exec", "thread", "stale"}
  PROVE  Typed'
<1>1. proc \in [Pids -> Record] /\ \A q \in Pids : proc[q].pc = "free" => proc[q] = Free
  BY DEF Typed, TypeOK, Record, At
<1>2. proc' \in [Pids -> Record] /\ \A q \in Pids : proc'[q].pc = "free" => proc'[q] = Free
  BY <1>1, GotoFacts
<1> QED
  BY <1>2, TypedProc

(* The end of a process keeps the types.                                   *)
LEMMA TypedExit ==
  ASSUME Typed, UNCHANGED <<system, backlog, clientVars, faults>>, NEW p \in Pids, Exit(p)
  PROVE  Typed'
<1>1. /\ proc \in [Pids -> Record] /\ \A q \in Pids : proc[q].pc = "free" => proc[q] = Free
      /\ faults \subseteq {"fork", "exec", "thread", "stale"}
  BY DEF Typed, TypeOK, Record, At
<1>2. proc' \in [Pids -> Record] /\ \A q \in Pids : proc'[q].pc = "free" => proc'[q] = Free
  BY <1>1, ExitFacts
<1> QED
  BY <1>1, <1>2, TypedProc

(* accept keeps the types.                                                 *)
LEMMA TypedAccept ==
  ASSUME Typed, NEW p \in Pids, NEW i \in Ports, NEW pc \in Pcs \ {"free"}, Accept(p, i, pc)
  PROVE  Typed'
<1>1. /\ proc' \in [Pids -> Record] /\ Others({p}) /\ proc'[p].pc = pc
      /\ backlog' \in [Ports -> Seq(Clients)]
      /\ \A j \in Ports : backlog'[j] = IF j = i THEN Tail(backlog[i]) ELSE backlog[j]
  BY AcceptFacts DEF Others
<1>2. \A q \in Pids : proc'[q].pc = "free" => proc'[q] = Free
  BY <1>1 DEF Typed, At, Others
<1>3. \A j \in Ports : backlog'[j] \in Seq({c \in Clients : port[c] = j})
  <2>1. backlog[i] # <<>> /\ \A j \in Ports : backlog[j] \in Seq({c \in Clients : port[c] = j})
    BY DEF Accept, Typed, TypeOK
  <2>2. Tail(backlog[i]) \in Seq({c \in Clients : port[c] = i})
    BY <2>1, HeadTailProperties
  <2> QED
    BY <1>1, <2>1, <2>2
<1>4. UNCHANGED <<system, clientVars, faults>>
  BY DEF Accept
<1> QED
  BY <1>1, <1>2, <1>3, <1>4 DEF Typed, TypeOK, Record, clientVars, At

(* connect keeps the types: a client joins the backlog of its port.        *)
LEMMA TypedConnect ==
  ASSUME Typed, NEW c \in Clients, Connect(c)
  PROVE  Typed'
<1>1. /\ port[c] \in Ports /\ backlog \in [Ports -> Seq(Clients)]
      /\ \A j \in Ports : backlog[j] \in Seq({d \in Clients : port[d] = j})
  BY DEF Typed, TypeOK
<1>2. /\ Append(backlog[port[c]], c) \in Seq({d \in Clients : port[d] = port[c]})
      /\ Append(backlog[port[c]], c) \in Seq(Clients)
  BY <1>1, AppendProperties
<1>3. backlog' \in [Ports -> Seq(Clients)] /\ \A j \in Ports : backlog'[j] \in Seq({d \in Clients : port[d] = j})
  BY <1>1, <1>2 DEF Connect
<1>4. client' \in [Clients -> {"start", "connected", "ended"}]
  BY DEF Connect, Typed, TypeOK
<1> QED
  BY <1>3, <1>4 DEF Connect, Typed, TypeOK, At

(* Every step keeps the types.                                             *)
LEMMA TypedNext == Typed /\ [Next]_vars => Typed'
<1> SUFFICES ASSUME Typed, [Next]_vars PROVE Typed'
  OBVIOUS
<1>0. /\ proc \in [Pids -> Record] /\ faults \subseteq {"fork", "exec", "thread", "stale"}
      /\ \A q \in Pids : proc[q].pc = "free" => proc[q] = Free
      /\ client \in [Clients -> {"start", "connected", "ended"}]
      /\ sent \in [Clients -> SUBSET {Texts[pc] : pc \in DOMAIN Texts}]
      /\ got \in [Clients -> SUBSET {Texts[pc] : pc \in DOMAIN Texts}]
  BY DEF Typed, TypeOK, Record, At
<1>1. ASSUME NEW p \in Pids, Select(p) PROVE Typed'
  <2>1. \A q \in Pids : proc'[q].pc = "free" => proc'[q] = Free
    BY <1>0, <1>1, SelectFacts DEF Others
  <2> QED
    BY <1>0, <1>1, <2>1, SelectFacts, TypedProc DEF Select
<1>2. ASSUME NEW p \in Pids, NEW i \in Ports, NotSet(p, i) PROVE Typed'
  <2>1. After[i] \in Pcs \ {"free"}
    BY Tables, PcsAre
  <2> QED
    BY <1>0, <1>2, <2>1, TypedGoto DEF NotSet
<1>3. ASSUME NEW p \in Pids, NEW i \in Ports, AcceptSet(p, i) PROVE Typed'
  <2>1. ForkAt[i] \in Pcs \ {"free"}
    BY Tables, PcsAre
  <2> QED
    BY <1>3, <2>1, TypedAccept DEF AcceptSet
<1>4. ASSUME NEW p \in Pids, NEW i \in Ports, AcceptClosed(p, i) PROVE Typed'
  <2>1. \A q \in Pids : proc'[q].pc = "free" => proc'[q] = Free
    <3>1. ForkAt[i] # "free"
      BY Tables
    <3> QED
      BY <1>0, <1>4, <3>1, AcceptClosedFacts DEF Others
  <2> QED
    BY <1>0, <1>4, <2>1, AcceptClosedFacts, TypedProc DEF AcceptClosed
<1>5. ASSUME NEW p \in Pids, NEW i \in Ports, Fork(p, i) PROVE Typed'
  <2>0. After[i] \in Pcs \ {"free"} /\ Services[i] # "free"
    BY Tables, PcsAre
  <2>1. CASE Goto(p, After[i]) /\ faults' = faults \cup {"fork"}
    BY <1>0, <1>5, <2>0, <2>1, TypedGoto DEF Fork
  <2>2. ASSUME NEW q \in Pids, NEW pc \in {Services[i], After[i]}, ForkedTo(p, i, q, pc)
        PROVE  Typed'
    <3>1. proc' \in [Pids -> Record] /\ \A r \in Pids : proc'[r].pc = "free" => proc'[r] = Free
      BY <1>0, <2>0, <2>2 DEF ForkedTo, Others
    <3>2. faults' \subseteq {"fork", "exec", "thread", "stale"}
      BY <1>0, <2>2 DEF ForkedTo
    <3> QED
      BY <1>5, <3>1, <3>2, TypedProc DEF Fork
  <2> QED
    BY <1>5, <2>1, <2>2, ForkFacts
<1>6. ASSUME NEW p \in Pids, AcceptOne(p) PROVE Typed'
  <2>1. {"create", "fork", "send", "send2"} \subseteq Pcs \ {"free"} /\ 1 \in Ports
    BY PcsAre, Tables
  <2> QED
    BY <1>6, <2>1, TypedAccept DEF AcceptOne
<1>7. ASSUME NEW p \in Pids, Create(p) PROVE Typed'
  <2>1. "join" \in Pcs \ {"free"}
    BY PcsAre
  <2> QED
    BY <1>0, <1>7, <2>1, TypedGoto, TypedExit DEF Create
<1>8. ASSUME NEW p \in Pids, CreateEcho(p) PROVE Typed'
  <2>0. "accept" \in Pcs \ {"free"} /\ UNCHANGED <<system, backlog, clientVars>>
    BY <1>8, PcsAre DEF CreateEcho
  <2>1. CASE Goto(p, "accept") /\ faults' = faults \cup {"thread"}
    BY <1>0, <2>0, <2>1, TypedGoto
  <2>2. CASE Exit(p) /\ faults' = faults
    BY <2>0, <2>2, TypedExit
  <2>3. ASSUME NEW q \in Pids, proc' \in [Pids -> Record], Others({p, q}),
               proc'[p].pc = "accept", proc'[q].pc = "start", faults' = faults
        PROVE  Typed'
    <3>1. \A r \in Pids : proc'[r].pc = "free" => proc'[r] = Free
      BY <1>0, <2>3 DEF Others
    <3> QED
      BY <1>0, <2>0, <2>3, <3>1, TypedProc
  <2> QED
    BY <1>8, <2>1, <2>2, <2>3, CreateEchoFacts
<1>9. ASSUME NEW p \in Pids, StartEcho(p) PROVE Typed'
  <2>1. \A q \in Pids : proc'[q].pc = "free" => proc'[q] = Free
    BY <1>0, <1>9, StartEchoFacts DEF Others
  <2>2. faults' \subseteq {"fork", "exec", "thread", "stale"}
    <3>1. faults' = faults \/ faults' = faults \cup {"stale"}
      BY <1>9, StartEchoFacts
    <3> QED
      BY <1>0, <3>1
  <2> QED
    BY <1>9, <2>1, <2>2, StartEchoFacts, TypedProc DEF StartEcho
<1>10. ASSUME NEW p \in Pids, ForkFirst(p) PROVE Typed'
  <2>1. \A q \in Pids : proc'[q].pc = "free" => proc'[q] = Free
    BY <1>0, <1>10, ForkFirstFacts DEF Others
  <2> QED
    BY <1>0, <1>10, <2>1, ForkFirstFacts, TypedProc DEF ForkFirst
<1>11. ASSUME NEW p \in Pids, Wait(p) PROVE Typed'
  <2>1. "accept2" \in Pcs \ {"free"}
    BY PcsAre
  <2> QED
    BY <1>0, <1>11, <2>1, TypedGoto DEF Wait
<1>12. ASSUME NEW p \in Pids, NEW c \in Clients, Write(p, c) PROVE Typed'
  <2>1. proc' \in [Pids -> Record] /\ \A q \in Pids : proc'[q].pc = "free" => proc'[q] = Free
    BY <1>0, <1>12, ExitFacts DEF Write
  <2>2. sent' \in [Clients -> SUBSET {Texts[pc] : pc \in DOMAIN Texts}]
    BY <1>0, <1>12 DEF Write, Writes
  <2> QED
    BY <1>12, <2>1, <2>2 DEF Write, Typed, TypeOK, Record, At
<1>13. ASSUME NEW p \in Pids, NEW c \in Clients, Sigpipe(p, c) PROVE Typed'
  BY <1>13, TypedExit DEF Sigpipe
<1>14. ASSUME NEW p \in Pids, Kill(p) PROVE Typed'
  BY <1>14, TypedExit DEF Kill
<1>15. ASSUME NEW c \in Clients, Connect(c) PROVE Typed'
  BY <1>15, TypedConnect
<1>16. ASSUME NEW c \in Clients, Receive(c) PROVE Typed'
  <2>1. /\ got' \in [Clients -> SUBSET {Texts[pc] : pc \in DOMAIN Texts}]
        /\ sent' \in [Clients -> SUBSET {Texts[pc] : pc \in DOMAIN Texts}]
        /\ client' \in [Clients -> {"start", "connected", "ended"}]
    BY <1>0, <1>16 DEF Receive
  <2> QED
    BY <1>16, <2>1 DEF Receive, Typed, TypeOK, At
<1>17. ASSUME NEW c \in Clients, EndOfFile(c) \/ Leave(c) PROVE Typed'
  <2>1. client' \in [Clients -> {"start", "connected", "ended"}]
    BY <1>0, <1>17 DEF EndOfFile, Leave
  <2>2. UNCHANGED <<system, port, backlog, proc, sent, got, faults>>
    BY <1>17 DEF EndOfFile, Leave
  <2> QED
    BY <2>1, <2>2 DEF Typed, TypeOK, At
<1>18. CASE UNCHANGED vars
  BY <1>18 DEF vars, clientVars, Typed, TypeOK, At
<1> QED
  BY <1>1, <1>2, <1>3, <1>4, <1>5, <1>6, <1>7, <1>8, <1>9, <1>10, <1>11, <1>12, <1>13,
     <1>14, <1>15, <1>16, <1>17, <1>18
  DEF Next, ServerStep, Multi, ClientStep

-----------------------------------------------------------------------------
(* Who has not been accepted is nowhere.                                   *)
LEMMA FreshInit == Init => FreshOK
<1> SUFFICES ASSUME Init PROVE FreshOK
  OBVIOUS
<1>1. \A i \in Ports : Distinct(backlog[i]) /\ Items(backlog[i]) = {}
  BY ItemsEmpty DEF Init
<1>2. \A p \in Pids : /\ proc[p].fds = {} /\ proc[p].nsfd = None /\ proc[p].out = None
  BY DEF Init, Process, Free
<1>3. \A c \in Clients : Texted(c) = {} /\ \A p \in Pids : ~Has(p, c)
  BY <1>2, NamesAssumption DEF Init, Texted, Has
<1> QED
  BY <1>1, <1>3 DEF FreshOK

(* A process has no connection that no process had.                        *)
LEMMA FreshProc ==
  ASSUME FreshOK, UNCHANGED <<backlog, clientVars>>,
         \A p \in Pids, c \in Clients : Has(p, c)' => \E q \in Pids : Has(q, c)
  PROVE  FreshOK'
  BY DEF FreshOK, clientVars, Fresh, Texted

(* A process that goes on sees no new client.                              *)
LEMMA FreshGoto ==
  ASSUME Typed, FreshOK, UNCHANGED <<backlog, clientVars>>,
         NEW p \in Pids, NEW pc \in Pcs, Goto(p, pc)
  PROVE  FreshOK'
<1>1. proc \in [Pids -> Record]
  BY DEF Typed, TypeOK, Record
<1>2. \A q \in Pids, c \in Clients : Has(q, c)' => Has(q, c)
  BY <1>1, GotoFacts DEF Has
<1> QED
  BY <1>2, FreshProc

(* A process that ends sees none.                                          *)
LEMMA FreshExit ==
  ASSUME Typed, FreshOK, UNCHANGED <<backlog, clientVars>>, NEW p \in Pids, Exit(p)
  PROVE  FreshOK'
<1>1. proc \in [Pids -> Record]
  BY DEF Typed, TypeOK, Record
<1>2. \A q \in Pids, c \in Clients : Has(q, c)' => Has(q, c)
  BY <1>1, ExitFacts, FreeRecord, NamesAssumption DEF Has
<1> QED
  BY <1>2, FreshProc

(* accept takes a client off its one backlog, and shows it to one process. *)
LEMMA FreshAccept ==
  ASSUME Typed, FreshOK, NEW p \in Pids, NEW i \in Ports, NEW pc \in Pcs, Accept(p, i, pc)
  PROVE  FreshOK'
<1> DEFINE c == Head(backlog[i])
<1>1. /\ c \in Clients /\ c \in Items(backlog[i]) /\ port[c] = i
      /\ Others({p}) /\ proc'[p].nsfd = c /\ proc'[p].fds = proc[p].fds \cup {c}
      /\ proc'[p].out = proc[p].out
      /\ \A j \in Ports : backlog'[j] = IF j = i THEN Tail(backlog[i]) ELSE backlog[j]
  BY AcceptFacts DEF Others
<1>2. backlog[i] # <<>> /\ backlog[i] \in Seq(Clients) /\ UNCHANGED clientVars
  BY DEF Accept, Typed, TypeOK
<1>3. /\ Items(Tail(backlog[i])) \subseteq Items(backlog[i])
      /\ Distinct(Tail(backlog[i])) /\ c \notin Items(Tail(backlog[i]))
  BY <1>2, ItemsTail DEF FreshOK
<1>4. \A j \in Ports : /\ Items(backlog'[j]) \subseteq Items(backlog[j]) /\ Distinct(backlog'[j])
  BY <1>1, <1>3 DEF FreshOK
<1>5. \A j \in Ports : c \notin Items(backlog'[j])
  <2>1. ASSUME NEW j \in Ports, j # i, c \in Items(backlog[j]) PROVE FALSE
    <3>1. backlog[j] \in Seq({d \in Clients : port[d] = j})
      BY DEF Typed, TypeOK
    <3>2. Items(backlog[j]) \subseteq {d \in Clients : port[d] = j}
      BY <3>1, ItemsOf
    <3> QED
      BY <1>1, <2>1, <3>2
  <2> QED
    BY <1>1, <1>3, <2>1
<1>6. client[c] # "start"
  BY <1>1 DEF FreshOK
<1>7. \A d \in Clients : Fresh(d)' => Fresh(d) /\ d # c
  BY <1>2, <1>4, <1>5, <1>6 DEF Fresh, clientVars
<1>8. \A q \in Pids, d \in Clients : d # c => (Has(q, d)' => Has(q, d))
  <2> HIDE DEF c
  <2> QED
    BY <1>1 DEF Has, Others
<1>9. \A d \in Clients : Texted(d)' = Texted(d)
  BY <1>2 DEF Texted, clientVars
<1>10. \A j \in Ports : \A d \in Items(backlog'[j]) : client'[d] # "start"
  BY <1>2, <1>4 DEF FreshOK, clientVars
<1> QED
  BY <1>4, <1>7, <1>8, <1>9, <1>10 DEF FreshOK

(* A client joins one backlog, in which it did not stand.                  *)
LEMMA FreshConnect ==
  ASSUME Typed, FreshOK, NEW c \in Clients, Connect(c)
  PROVE  FreshOK'
<1>1. /\ client[c] = "start" /\ UNCHANGED <<proc, sent, got>> /\ port[c] \in Ports
      /\ backlog \in [Ports -> Seq(Clients)] /\ client \in [Clients -> {"start", "connected", "ended"}]
  BY DEF Connect, Typed, TypeOK
<1>2. Fresh(c)
  BY <1>1 DEF Fresh
<1>3. CASE Listening(port[c])
  <2>1. /\ client' = [client EXCEPT ![c] = "connected"]
        /\ backlog' = [backlog EXCEPT ![port[c]] = Append(@, c)]
    BY <1>3 DEF Connect
  <2>2. c \notin Items(backlog[port[c]])
    BY <1>1 DEF FreshOK
  <2>3. /\ Items(Append(backlog[port[c]], c)) = Items(backlog[port[c]]) \cup {c}
        /\ Distinct(Append(backlog[port[c]], c))
    BY <1>1, <2>2, ItemsAppend DEF FreshOK
  <2>4. \A j \in Ports : /\ Items(backlog'[j]) \subseteq Items(backlog[j]) \cup {c}
                         /\ Distinct(backlog'[j])
    BY <1>1, <2>1, <2>3 DEF FreshOK
  <2>5. \A d \in Clients : Fresh(d)' => Fresh(d)
    BY <1>1, <1>2, <2>1, <2>4 DEF Fresh
  <2>6. \A j \in Ports : \A d \in Items(backlog'[j]) : client'[d] # "start"
    <3>1. \A j \in Ports : Items(backlog[j]) \subseteq Clients
      BY <1>1, ItemsOf
    <3> QED
      BY <1>1, <2>1, <2>4, <3>1 DEF FreshOK
  <2> QED
    BY <1>1, <2>4, <2>5, <2>6 DEF FreshOK, Texted, Has
<1>4. CASE ~Listening(port[c])
  <2>1. client' = [client EXCEPT ![c] = "ended"] /\ UNCHANGED backlog
    BY <1>4 DEF Connect
  <2>2. \A d \in Clients : (Fresh(d)' => Fresh(d)) /\ (client'[d] = "start" => client[d] = "start")
    BY <1>1, <2>1 DEF Fresh
  <2>3. \A j \in Ports : Items(backlog[j]) \subseteq Clients
    BY <1>1, ItemsOf
  <2> QED
    BY <1>1, <2>1, <2>2, <2>3 DEF FreshOK, Texted, Has
<1> QED
  BY <1>3, <1>4

(* The steps of a client that has been connected.                          *)
LEMMA FreshClient ==
  ASSUME Typed, FreshOK, NEW c \in Clients, client[c] = "connected",
         client' \in {client, [client EXCEPT ![c] = "ended"]}, UNCHANGED <<backlog, proc>>,
         \A d \in Clients : Texted(d)' = Texted(d)
  PROVE  FreshOK'
<1>1. /\ client \in [Clients -> {"start", "connected", "ended"}]
      /\ \A j \in Ports : Items(backlog[j]) \subseteq Clients
  BY ItemsOf DEF Typed, TypeOK
<1>2. \A d \in Clients : (Fresh(d)' => Fresh(d)) /\ (client'[d] = "start" => client[d] = "start")
  BY <1>1 DEF Fresh
<1> QED
  BY <1>1, <1>2 DEF FreshOK, Has

(* Every step leaves the clients that were not accepted unknown.           *)
LEMMA FreshNext == Typed /\ FreshOK /\ [Next]_vars => FreshOK'
<1> SUFFICES ASSUME Typed, FreshOK, [Next]_vars PROVE FreshOK'
  OBVIOUS
<1>0. proc \in [Pids -> Record] /\ Main \in Pids /\ None \notin Clients
  BY NamesAssumption DEF Typed, TypeOK, Record
<1>1. ASSUME NEW p \in Pids, Select(p) PROVE FreshOK'
  <2>1. \A q \in Pids, c \in Clients : Has(q, c)' => Has(q, c)
    BY <1>1, SelectFacts DEF Has, Others
  <2> QED
    BY <1>1, <2>1, FreshProc DEF Select
<1>2. ASSUME NEW p \in Pids, NEW i \in Ports, NotSet(p, i) PROVE FreshOK'
  <2>1. After[i] \in Pcs
    BY Tables, PcsAre
  <2> QED
    BY <1>2, <2>1, FreshGoto DEF NotSet
<1>3. ASSUME NEW p \in Pids, NEW i \in Ports, AcceptSet(p, i) PROVE FreshOK'
  <2>1. ForkAt[i] \in Pcs
    BY Tables, PcsAre
  <2> QED
    BY <1>3, <2>1, FreshAccept DEF AcceptSet
<1>4. ASSUME NEW p \in Pids, NEW i \in Ports, AcceptClosed(p, i) PROVE FreshOK'
  <2>1. \A q \in Pids, c \in Clients : Has(q, c)' => Has(q, c)
    BY <1>0, <1>4, AcceptClosedFacts DEF Has, Others
  <2> QED
    BY <1>4, <2>1, FreshProc DEF AcceptClosed
<1>5. ASSUME NEW p \in Pids, NEW i \in Ports, Fork(p, i) PROVE FreshOK'
  <2>0. After[i] \in Pcs /\ UNCHANGED <<backlog, clientVars>>
    BY <1>5, Tables, PcsAre DEF Fork
  <2>1. CASE Goto(p, After[i])
    BY <2>0, <2>1, FreshGoto
  <2>2. ASSUME NEW q \in Pids, NEW pc \in {Services[i], After[i]}, ForkedTo(p, i, q, pc)
        PROVE  FreshOK'
    <3>1. \A r \in Pids, c \in Clients : Has(r, c)' => Has(r, c) \/ Has(p, c)
      BY <2>2 DEF ForkedTo, Others, Has
    <3> QED
      BY <2>0, <3>1, FreshProc
  <2> QED
    BY <1>5, <2>1, <2>2, ForkFacts
<1>6. ASSUME NEW p \in Pids, AcceptOne(p) PROVE FreshOK'
  <2>1. {"create", "fork", "send", "send2"} \subseteq Pcs /\ 1 \in Ports
    BY PcsAre, Tables
  <2> QED
    BY <1>6, <2>1, FreshAccept DEF AcceptOne
<1>7. ASSUME NEW p \in Pids, Create(p) PROVE FreshOK'
  <2>1. "join" \in Pcs
    BY PcsAre
  <2> QED
    BY <1>7, <2>1, FreshGoto, FreshExit DEF Create
<1>8. ASSUME NEW p \in Pids, CreateEcho(p) PROVE FreshOK'
  <2>0. "accept" \in Pcs /\ UNCHANGED <<backlog, clientVars>>
    BY <1>8, PcsAre DEF CreateEcho
  <2>1. CASE Goto(p, "accept") \/ Exit(p)
    BY <2>0, <2>1, FreshGoto, FreshExit
  <2>2. ASSUME NEW q \in Pids, Others({p, q}), proc'[p].fds = proc[p].fds,
               proc'[p].nsfd = proc[p].nsfd, proc'[p].out = proc[p].out,
               proc'[q].fds = {}, proc'[q].nsfd = proc[p].nsfd, proc'[q].out = None
        PROVE  FreshOK'
    <3>1. \A r \in Pids, c \in Clients : Has(r, c)' => Has(r, c) \/ Has(p, c)
      BY <1>0, <2>2 DEF Others, Has
    <3> QED
      BY <2>0, <3>1, FreshProc
  <2> QED
    BY <1>8, <2>1, <2>2, CreateEchoFacts
<1>9. ASSUME NEW p \in Pids, StartEcho(p) PROVE FreshOK'
  <2>1. \A r \in Pids, c \in Clients : Has(r, c)' => Has(r, c) \/ Has(Main, c)
    BY <1>0, <1>9, StartEchoFacts DEF Has, Others
  <2> QED
    BY <1>0, <1>9, <2>1, FreshProc DEF StartEcho
<1>10. ASSUME NEW p \in Pids, ForkFirst(p) PROVE FreshOK'
  <2>1. \A r \in Pids, c \in Clients : Has(r, c)' => Has(r, c) \/ Has(p, c)
    BY <1>10, ForkFirstFacts DEF Has, Others
  <2> QED
    BY <1>10, <2>1, FreshProc DEF ForkFirst
<1>11. ASSUME NEW p \in Pids, Wait(p) PROVE FreshOK'
  <2>1. "accept2" \in Pcs
    BY PcsAre
  <2> QED
    BY <1>11, <2>1, FreshGoto DEF Wait
<1>12. ASSUME NEW p \in Pids, NEW c \in Clients, Write(p, c) PROVE FreshOK'
  <2>1. Has(p, c)
    BY <1>12 DEF Write, Writes, Has
  <2>2. ~Fresh(c)
    BY <2>1 DEF FreshOK
  <2>3. \A d \in Clients : d # c => Texted(d)' = Texted(d)
    BY <1>12 DEF Write, Texted, Typed, TypeOK
  <2>4. \A q \in Pids, d \in Clients : Has(q, d)' => Has(q, d)
    <3>1. CASE UNCHANGED proc
      BY <3>1 DEF Has
    <3>2. CASE Exit(p)
      BY <1>0, <3>2, ExitFacts, FreeRecord DEF Has
    <3> QED
      BY <1>12, <3>1, <3>2 DEF Write
  <2> QED
    BY <1>12, <2>2, <2>3, <2>4 DEF Write, FreshOK, Fresh
<1>13. ASSUME NEW p \in Pids, NEW c \in Clients, Sigpipe(p, c) PROVE FreshOK'
  BY <1>13, FreshExit DEF Sigpipe
<1>14. ASSUME NEW p \in Pids, Kill(p) PROVE FreshOK'
  BY <1>14, FreshExit DEF Kill
<1>15. ASSUME NEW c \in Clients, Connect(c) PROVE FreshOK'
  BY <1>15, FreshConnect
<1>16. ASSUME NEW c \in Clients, Receive(c) PROVE FreshOK'
  <2>1. \A d \in Clients : Texted(d)' = Texted(d)
    BY <1>16 DEF Receive, Texted, Typed, TypeOK
  <2>2. client' \in {client, [client EXCEPT ![c] = "ended"]} /\ UNCHANGED <<backlog, proc>>
    BY <1>16 DEF Receive
  <2> QED
    BY <1>16, <2>1, <2>2, FreshClient DEF Receive
<1>17. ASSUME NEW c \in Clients, EndOfFile(c) \/ Leave(c) PROVE FreshOK'
  <2>1. /\ client[c] = "connected" /\ client' = [client EXCEPT ![c] = "ended"]
        /\ UNCHANGED <<backlog, proc, sent, got>>
    BY <1>17 DEF EndOfFile, Leave
  <2> QED
    BY <2>1, FreshClient DEF Texted
<1>18. CASE UNCHANGED vars
  BY <1>18 DEF vars, clientVars, FreshOK, Fresh, Has, Texted
<1> QED
  BY <1>1, <1>2, <1>3, <1>4, <1>5, <1>6, <1>7, <1>8, <1>9, <1>10, <1>11, <1>12, <1>13,
     <1>14, <1>15, <1>16, <1>17, <1>18
  DEF Next, ServerStep, Multi, ClientStep

-----------------------------------------------------------------------------
(* Faults are not taken back.                                              *)
LEMMA FaultsGrow == Typed /\ [Next]_vars => system' = system /\ faults \subseteq faults'
<1> SUFFICES ASSUME Typed, [Next]_vars PROVE system' = system /\ faults \subseteq faults'
  OBVIOUS
<1>1. ASSUME NEW p \in Pids, NEW i \in Ports, Fork(p, i)
      PROVE  system' = system /\ faults \subseteq faults'
  <2>1. faults' \in {faults, faults \cup {"exec"}, faults \cup {"fork"}}
    BY <1>1, ForkFacts DEF ForkedTo
  <2> QED
    BY <1>1, <2>1 DEF Fork
<1>2. ASSUME NEW p \in Pids, CreateEcho(p) PROVE system' = system /\ faults \subseteq faults'
  <2>1. faults' \in {faults, faults \cup {"thread"}}
    BY <1>2, CreateEchoFacts
  <2> QED
    BY <1>2, <2>1 DEF CreateEcho
<1>3. ASSUME NEW p \in Pids, StartEcho(p) PROVE system' = system /\ faults \subseteq faults'
  <2>1. faults' \in {faults, faults \cup {"stale"}}
    BY <1>3, StartEchoFacts
  <2> QED
    BY <1>3, <2>1 DEF StartEcho
<1>4. ASSUME NEW p \in Pids, NEW i \in Ports, NotSet(p, i) \/ AcceptSet(p, i) \/ AcceptClosed(p, i)
      PROVE  system' = system /\ faults' = faults
  BY <1>4 DEF NotSet, AcceptSet, Accept, AcceptClosed
<1>5. ASSUME NEW p \in Pids,
             Select(p) \/ AcceptOne(p) \/ Create(p) \/ ForkFirst(p) \/ Wait(p) \/ Kill(p)
      PROVE  system' = system /\ faults' = faults
  BY <1>5 DEF Select, AcceptOne, Accept, Create, ForkFirst, Wait, Kill
<1>6. ASSUME NEW p \in Pids, NEW c \in Clients, Write(p, c) \/ Sigpipe(p, c)
      PROVE  system' = system /\ faults' = faults
  BY <1>6 DEF Write, Sigpipe
<1>7. ASSUME NEW c \in Clients, Connect(c) \/ Receive(c) \/ EndOfFile(c) \/ Leave(c)
      PROVE  system' = system /\ faults' = faults
  BY <1>7 DEF Connect, Receive, EndOfFile, Leave
<1>8. CASE UNCHANGED vars
  BY <1>8 DEF vars
<1> QED
  BY <1>1, <1>2, <1>3, <1>4, <1>5, <1>6, <1>7, <1>8 DEF Next, ServerStep, Multi, ClientStep

(* What a client does is of no concern to the processes.                   *)
Passive == UNCHANGED <<port, proc, faults>> /\ \A d \in Clients : Texted(d)' = Texted(d)

(* What a client does disturbs no process, and no text changes its owner.  *)
LEMMA ClientsPassive ==
  ASSUME Typed,
         \/ \E c \in Clients : Connect(c) \/ ClientStep(c) \/ Leave(c)
         \/ UNCHANGED vars
  PROVE  Passive
<1>1. CASE UNCHANGED vars
  BY <1>1 DEF vars, clientVars, Passive, Texted
<1>2. ASSUME NEW c \in Clients, Connect(c) \/ EndOfFile(c) \/ Leave(c)
      PROVE  Passive
  <2>1. UNCHANGED <<port, proc, faults, sent, got>>
    BY <1>2 DEF Connect, EndOfFile, Leave
  <2> QED
    BY <2>1 DEF Passive, Texted
<1>3. ASSUME NEW c \in Clients, Receive(c) PROVE Passive
  BY <1>3 DEF Receive, Texted, Passive, Typed, TypeOK
<1> QED
  BY <1>1, <1>2, <1>3 DEF ClientStep

(* A step of a server that writes to nobody leaves the clients alone.      *)
LEMMA ServersQuiet ==
  ASSUME NEW p \in Pids, ServerStep(p) \/ Kill(p), \A c \in Clients : ~Write(p, c)
  PROVE  UNCHANGED clientVars /\ \A d \in Clients : Texted(d)' = Texted(d)
<1>1. UNCHANGED clientVars
  BY DEF ServerStep, Multi, Kill, Select, NotSet, AcceptSet, AcceptClosed, Accept, Fork, AcceptOne,
         Create, CreateEcho, StartEcho, ForkFirst, Wait, Sigpipe
<1> QED
  BY <1>1 DEF clientVars, Texted

(* A write adds the text of the step to what one client has.               *)
LEMMA WriteFacts ==
  ASSUME Typed, NEW p \in Pids, NEW c \in Clients, Write(p, c)
  PROVE  /\ proc[p].pc \in DOMAIN Texts /\ UNCHANGED <<port, backlog, faults>>
         /\ c = IF proc[p].pc \in {"service1", "service2"} THEN proc[p].out ELSE proc[p].nsfd
         /\ IF proc[p].pc \in Looping THEN UNCHANGED proc ELSE Exit(p)
         /\ \A d \in Clients \ {c} : Texted(d)' = Texted(d)
         /\ Texted(c)' = Texted(c) \cup {Texts[proc[p].pc]}
<1>1. sent \in [Clients -> SUBSET {Texts[pc] : pc \in DOMAIN Texts}]
  BY DEF Typed, TypeOK
<1>2. sent' = [sent EXCEPT ![c] = @ \cup {Texts[proc[p].pc]}] /\ UNCHANGED got
  BY DEF Write
<1>3. /\ \A d \in Clients \ {c} : Texted(d)' = Texted(d)
      /\ Texted(c)' = Texted(c) \cup {Texts[proc[p].pc]}
  BY <1>1, <1>2 DEF Texted
<1> QED
  BY <1>3 DEF Write, Writes

-----------------------------------------------------------------------------
(* multi.                                                                  *)
LEMMA MultiInit == Init /\ system = "multi" => MultiOK
<1> SUFFICES ASSUME Init, system = "multi" PROVE MultiOK
  OBVIOUS
<1>1. /\ Main \in Pids /\ proc[Main] = Process("select", Ports)
      /\ \A p \in Pids \ {Main} : proc[p] = Free
  BY NamesAssumption DEF Init
<1>2. /\ proc[Main].pc = "select" /\ proc[Main].listens = Ports /\ proc[Main].out = None
      /\ proc[Main].fds = {}
  BY <1>1 DEF Process
<1>3. \A p \in Pids \ {Main} : proc[p].pc = "free" /\ proc[p].out = None /\ proc[p].fds = {}
  BY <1>1, FreeRecord
<1>4. \A c \in Clients : Texted(c) = {}
  BY DEF Init, Texted
<1> USE DEF Forking, At
<1>5. MultiMain
  BY <1>2 DEF MultiMain
<1>6. MultiOthers
  BY <1>3 DEF MultiOthers
<1>7. MultiApart
  BY <1>1, <1>2, <1>3 DEF MultiApart
<1>8. MultiAsked
  BY <1>2 DEF MultiAsked
<1>9. MultiTexts
  BY <1>4 DEF MultiTexts
<1>10. MultiFds
  BY <1>2, <1>3 DEF MultiFds
<1> QED
  BY <1>5, <1>6, <1>7, <1>8, <1>9, <1>10 DEF MultiOK

(* The three kinds of step that change a process of multi.  The loop goes  *)
(* on, perhaps with nothing to close any more ...                          *)
LEMMA MultiLoops ==
  ASSUME Typed, MultiOK, UNCHANGED port, \A d \in Clients : Texted(d)' = Texted(d),
         faults \subseteq faults', Others({Main}),
         proc'[Main].pc \in {"select", "isset1", "isset2"},
         proc'[Main].out = proc[Main].out, proc'[Main].listens = proc[Main].listens,
         proc'[Main].fds = proc[Main].fds, proc'[Main].nsfd = proc[Main].nsfd,
         Forking => faults' # {}
  PROVE  MultiOK'
<1> USE DEF MultiOK, Others, At, Forking
<1>0. Main \in Pids
  BY NamesAssumption
<1>1. MultiMain'
  BY <1>0 DEF MultiMain
<1>2. MultiOthers'
  BY DEF MultiOthers
<1>3. MultiApart'
  BY <1>0 DEF MultiApart
<1>4. MultiAsked'
  BY DEF MultiAsked
<1>5. MultiTexts'
  BY DEF MultiTexts, Texted
<1>6. faults' = {} => MultiFds'
  BY DEF MultiFds
<1> QED
  BY <1>1, <1>2, <1>3, <1>4, <1>5, <1>6

(* ... accepts a connection that nobody has seen ...                       *)
LEMMA MultiAccepts ==
  ASSUME Typed, MultiOK, UNCHANGED <<port, faults>>, \A d \in Clients : Texted(d)' = Texted(d),
         Others({Main}), ~Forking, NEW x \in Clients, \A p \in Pids : ~Has(p, x),
         \/ proc'[Main].pc = "fork1" /\ port[x] = 1
         \/ proc'[Main].pc = "fork2" /\ port[x] = 2,
         proc'[Main].out = proc[Main].out, proc'[Main].listens = proc[Main].listens,
         proc'[Main].fds = proc[Main].fds \cup {x}, proc'[Main].nsfd = x
  PROVE  MultiOK'
<1> USE DEF MultiOK, Others, At, Forking
<1>0. Main \in Pids /\ \A p \in Pids : proc'[p].out = proc[p].out /\ proc[p].out # x
  BY NamesAssumption DEF Has
<1>1. MultiMain'
  BY DEF MultiMain
<1>2. MultiOthers'
  BY DEF MultiOthers
<1>3. MultiApart'
  BY <1>0 DEF MultiApart
<1>4. MultiAsked'
  BY DEF MultiAsked
<1>5. MultiTexts'
  BY DEF MultiTexts, Texted
<1>6. faults' = {} => MultiFds'
  BY DEF MultiFds
<1> QED
  BY <1>1, <1>2, <1>3, <1>4, <1>5, <1>6

(* ... or leaves it to a child ...                                         *)
LEMMA MultiForks ==
  ASSUME Typed, MultiOK, UNCHANGED <<port, faults>>, \A d \in Clients : Texted(d)' = Texted(d),
         NEW q \in Pids \ {Main}, Others({Main, q}), Forking,
         proc'[Main].pc \in {"select", "isset2"},
         proc'[Main].out = proc[Main].out, proc'[Main].listens = proc[Main].listens,
         proc'[Main].fds = proc[Main].fds \ {proc[Main].nsfd},
         \/ At(Main, "fork1") /\ proc'[q].pc = "service1"
         \/ At(Main, "fork2") /\ proc'[q].pc = "service2",
         proc'[q].out = proc[Main].nsfd, proc'[q].fds = proc[Main].fds
  PROVE  MultiOK'
<1> USE DEF MultiOK, Others, At, Forking
<1>0. Main \in Pids /\ proc[Main].nsfd \in Clients
  BY NamesAssumption DEF MultiAsked
<1>1. MultiMain'
  BY <1>0 DEF MultiMain
<1>2. MultiOthers'
  BY <1>0 DEF MultiOthers, MultiAsked
<1>3. MultiApart'
  BY <1>0 DEF MultiApart
<1>4. MultiAsked'
  BY DEF MultiAsked
<1>5. MultiTexts'
  BY DEF MultiTexts, Texted
<1>6. faults' = {} => MultiFds'
  BY DEF MultiFds
<1> QED
  BY <1>1, <1>2, <1>3, <1>4, <1>5, <1>6

(* ... or a service ends.                                                  *)
LEMMA MultiEnds ==
  ASSUME Typed, MultiOK, UNCHANGED <<port, faults>>, \A d \in Clients : Texted(d)' = Texted(d),
         NEW q \in Pids \ {Main}, Others({q}), proc'[q] = Free
  PROVE  MultiOK'
<1> USE FreeRecord DEF MultiOK, Others, At, Forking
<1>0. Main \in Pids /\ None \notin Clients /\ proc'[Main] = proc[Main]
  BY NamesAssumption
<1>1. MultiMain'
  BY <1>0 DEF MultiMain
<1>2. MultiOthers'
  BY <1>0 DEF MultiOthers
<1>3. MultiApart'
  BY <1>0 DEF MultiApart, MultiAsked
<1>4. MultiAsked'
  BY <1>0 DEF MultiAsked
<1>5. MultiTexts'
  BY DEF MultiTexts, Texted
<1>6. faults' = {} => MultiFds'
  BY <1>0 DEF MultiFds
<1> QED
  BY <1>1, <1>2, <1>3, <1>4, <1>5, <1>6

(* Every step of multi that is not a failed exec keeps its invariant.      *)
LEMMA MultiNext ==
  ASSUME Typed, FreshOK, system = "multi", MultiOK, [Next]_vars, "exec" \notin faults'
  PROVE  MultiOK'
<1>0. /\ proc \in [Pids -> Record] /\ Main \in Pids /\ None \notin Clients
      /\ port \in [Clients -> Ports]
  BY NamesAssumption DEF Typed, TypeOK, Record
<1>a. proc[Main].pc \in {"select", "isset1", "isset2", "fork1", "fork2"} /\ proc[Main].listens = Ports
  BY DEF MultiOK, MultiMain
<1>b. \A p \in Pids \ {Main} : proc[p].pc \in {"free", "service1", "service2"}
  BY DEF MultiOK, MultiOthers
<1>1. CASE Passive
  <2>1. MultiTexts'
    BY <1>1 DEF Passive, MultiOK, MultiTexts
  <2> QED
    BY <1>1, <2>1 DEF Passive, MultiOK, MultiMain, MultiOthers, MultiApart, MultiAsked, MultiFds,
                      Forking, At
<1>2. ASSUME NEW p \in Pids, ServerStep(p) \/ Kill(p), \A c \in Clients : ~Write(p, c)
      PROVE  MultiOK'
  <2>0. UNCHANGED port /\ \A d \in Clients : Texted(d)' = Texted(d)
    BY <1>2, ServersQuiet DEF clientVars
  <2>1. CASE Select(p)
    <3>1. p = Main /\ UNCHANGED faults /\ ~Forking
      BY <1>b, <2>1 DEF Select, At, Forking
    <3> QED
      BY <2>0, <2>1, <3>1, SelectFacts, MultiLoops
  <2>2. ASSUME NEW i \in Ports, NotSet(p, i) PROVE MultiOK'
    <3>1. p = Main /\ ~Forking /\ After[i] \in Pcs /\ After[i] \in {"select", "isset2"}
      BY <1>b, <2>2, Tables, PcsAre DEF NotSet, At, Forking
    <3>2. UNCHANGED faults /\ Goto(p, After[i])
      BY <2>2 DEF NotSet
    <3> QED
      BY <1>0, <2>0, <3>1, <3>2, GotoFacts, MultiLoops DEF Others
  <2>3. ASSUME NEW i \in Ports, AcceptSet(p, i) PROVE MultiOK'
    <3>1. p = Main /\ ~Forking /\ ForkAt[i] \in Pcs
          /\ \/ i = 1 /\ ForkAt[i] = "fork1"
             \/ i = 2 /\ ForkAt[i] = "fork2"
      BY <1>b, <2>3, Tables, PcsAre DEF AcceptSet, At, Forking
    <3>2. UNCHANGED faults /\ Accept(p, i, ForkAt[i])
      BY <2>3 DEF AcceptSet, Accept
    <3>3. /\ Head(backlog[i]) \in Clients /\ port[Head(backlog[i])] = i
          /\ \A q \in Pids : ~Has(q, Head(backlog[i]))
      BY <3>1, <3>2, AcceptFacts DEF FreshOK, Fresh
    <3> QED
      BY <2>0, <3>1, <3>2, <3>3, AcceptFacts, MultiAccepts DEF Others
  <2>4. ASSUME NEW i \in Ports, AcceptClosed(p, i) PROVE MultiOK'
    <3>1. p = Main
      BY <1>b, <2>4, Tables DEF AcceptClosed, At
    <3> QED
      BY <1>a, <2>4, <3>1, AcceptClosedFacts
  <2>5. ASSUME NEW i \in Ports, Fork(p, i) PROVE MultiOK'
    <3>1. p = Main /\ Forking /\ After[i] \in Pcs /\ After[i] \in {"select", "isset2"}
      BY <1>b, <2>5, Tables, PcsAre DEF Fork, At, Forking
    <3>2. CASE Goto(p, After[i]) /\ faults' = faults \cup {"fork"}
      <4>1. faults \subseteq faults' /\ faults' # {}
        BY <3>2
      <4> QED
        BY <1>0, <2>0, <3>1, <3>2, <4>1, GotoFacts, MultiLoops DEF Others
    <3>3. ASSUME NEW q \in Pids, NEW pc \in {Services[i], After[i]}, ForkedTo(p, i, q, pc)
          PROVE  MultiOK'
      <4>1. pc = Services[i] /\ faults' = faults
        BY <3>3 DEF ForkedTo
      <4>2. proc[Main].nsfd \in Clients
        BY <3>1 DEF MultiOK, MultiAsked
      <4>3. /\ proc'[Main].pc = After[i] /\ proc'[Main].out = proc[Main].out
            /\ proc'[Main].listens = proc[Main].listens
            /\ proc'[Main].fds = proc[Main].fds \ {proc[Main].nsfd}
            /\ proc'[q].pc = Services[i] /\ proc'[q].out = proc[Main].nsfd
            /\ proc'[q].fds = proc[Main].fds /\ q # Main /\ Others({Main, q})
        BY <1>0, <3>1, <3>3, <4>1, <4>2 DEF ForkedTo
      <4>4. \/ At(Main, "fork1") /\ Services[i] = "service1"
            \/ At(Main, "fork2") /\ Services[i] = "service2"
        BY <2>5, <3>1, Tables DEF Fork, At
      <4> QED
        BY <2>0, <3>1, <4>1, <4>3, <4>4, MultiForks
    <3> QED
      BY <2>5, <3>2, <3>3, ForkFacts
  <2>6. CASE AcceptOne(p) \/ Create(p) \/ CreateEcho(p) \/ StartEcho(p) \/ ForkFirst(p) \/ Wait(p)
    BY <1>a, <1>b, <2>6 DEF AcceptOne, Create, CreateEcho, StartEcho, ForkFirst, Wait, At
  <2>7. CASE Kill(p) \/ \E c \in Clients : Sigpipe(p, c)
    <3>1. proc[p].pc \in DOMAIN Texts /\ Exit(p) /\ UNCHANGED faults
      BY <2>7, TextsAre DEF Kill, Sigpipe, Writes
    <3>2. p # Main
      BY <1>a, <3>1, TextsAre
    <3>3. Others({p}) /\ proc'[p] = Free
      BY <1>0, <3>1 DEF Exit, Others
    <3> QED
      BY <2>0, <3>1, <3>2, <3>3, MultiEnds
  <2> QED
    BY <1>2, <2>1, <2>2, <2>3, <2>4, <2>5, <2>6, <2>7 DEF ServerStep, Multi
<1>3. ASSUME NEW p \in Pids, NEW x \in Clients, Write(p, x)
      PROVE  MultiOK'
  <2>1. p # Main /\ proc[p].pc \in {"service1", "service2"}
    BY <1>a, <1>b, <1>3, WriteFacts, TextsAre
  <2>2. /\ x = proc[p].out /\ UNCHANGED <<port, proc, faults>>
        /\ \A d \in Clients \ {x} : Texted(d)' = Texted(d)
        /\ Texted(x)' = Texted(x) \cup {Texts[proc[p].pc]}
    BY <1>3, <2>1, WriteFacts DEF Looping
  <2>3. \/ port[x] = 1 /\ Texts[proc[p].pc] = "service_1"
        \/ port[x] = 2 /\ Texts[proc[p].pc] = "service_2"
    BY <2>1, <2>2, TextsAre DEF MultiOK, MultiOthers, At
  <2>4. MultiTexts'
    BY <2>2, <2>3 DEF MultiOK, MultiTexts, Texted
  <2> QED
    BY <2>2, <2>4 DEF MultiOK, MultiMain, MultiOthers, MultiApart, MultiAsked, MultiFds, Forking, At
<1> QED
  BY <1>1, <1>2, <1>3, ClientsPassive DEF Next

-----------------------------------------------------------------------------
(* thread and first.                                                       *)
LEMMA FreeIdle ==
  ASSUME NEW p \in Pids, ServerStep(p) \/ Kill(p)
  PROVE  proc[p].pc # "free"
  BY Tables, TextsAre
  DEF ServerStep, Multi, Kill, Select, NotSet, AcceptSet, AcceptClosed, Fork, AcceptOne, Create,
      CreateEcho, StartEcho, ForkFirst, Wait, Write, Sigpipe, Writes, At

(* thread and first start with the first process alone.                    *)
LEMMA AloneInit ==
  ASSUME Init, system \in {"thread", "first"}, NEW pcs, "accept" \in pcs, NEW text
  PROVE  AloneOK(pcs, text)
<1>1. /\ Main \in Pids /\ proc[Main] = Process("accept", {1})
      /\ \A p \in Pids \ {Main} : proc[p] = Free
  BY NamesAssumption DEF Init
<1>2. proc[Main].pc = "accept" /\ proc[Main].out = None
  BY <1>1 DEF Process
<1>3. \A p \in Pids \ {Main} : At(p, "free")
  BY <1>1, FreeRecord DEF At
<1>4. \A c \in Clients : Texted(c) = {}
  BY DEF Init, Texted
<1> QED
  BY <1>2, <1>3, <1>4 DEF AloneOK

(* A step of the one process to a step of its program, or to its end.      *)
LEMMA AloneMoves ==
  ASSUME Typed, NEW pcs, NEW text, AloneOK(pcs, text), Others({Main}),
         proc'[Main].pc \in pcs \cup {"free"}, proc'[Main].out = None,
         \A d \in Clients : Texted(d)' \subseteq Texted(d) \cup {text}
  PROVE  AloneOK(pcs, text)'
  BY DEF AloneOK, Others, At, Texted

(* A client's step leaves it so.                                           *)
LEMMA AloneStill ==
  ASSUME NEW pcs, NEW text, AloneOK(pcs, text), Passive
  PROVE  AloneOK(pcs, text)'
  BY DEF AloneOK, Passive, Texted, At

(* Every step of thread keeps its invariant.                               *)
LEMMA ThreadNext ==
  ASSUME Typed, system = "thread", AloneOK({"accept", "create", "join"}, "hello"), [Next]_vars
  PROVE  AloneOK({"accept", "create", "join"}, "hello")'
<1>0. /\ proc \in [Pids -> Record] /\ Main \in Pids
      /\ proc[Main].pc \in {"free", "accept", "create", "join"} /\ proc[Main].out = None
      /\ \A p \in Pids \ {Main} : proc[p].pc = "free"
  BY NamesAssumption DEF Typed, TypeOK, Record, AloneOK, At
<1>1. ASSUME NEW p \in Pids, Exit(p), p = Main PROVE Others({Main}) /\ proc'[Main] = Free
  BY <1>0, <1>1 DEF Exit, Others
<1>2. ASSUME NEW p \in Pids, ServerStep(p) \/ Kill(p), \A c \in Clients : ~Write(p, c)
      PROVE  AloneOK({"accept", "create", "join"}, "hello")'
  <2>0. /\ p = Main /\ proc[p].pc \in {"accept", "create", "join"}
        /\ \A d \in Clients : Texted(d)' \subseteq Texted(d) \cup {"hello"}
    <3>1. p = Main
      BY <1>0, <1>2, FreeIdle
    <3>2. \A d \in Clients : Texted(d)' = Texted(d)
      BY <1>2, ServersQuiet
    <3> QED
      BY <1>0, <1>2, <3>1, <3>2, FreeIdle
  <2>1. CASE AcceptOne(p)
    <3>1. Accept(p, 1, "create") /\ 1 \in Ports /\ "create" \in Pcs
      BY <2>0, <2>1, Tables, PcsAre DEF AcceptOne, At
    <3>2. Others({Main}) /\ proc'[Main].pc = "create" /\ proc'[Main].out = None
      BY <1>0, <2>0, <3>1, AcceptFacts DEF Others
    <3> QED
      BY <2>0, <3>2, AloneMoves
  <2>2. CASE Create(p)
    <3>1. CASE Goto(p, "join")
      <4>1. Others({Main}) /\ proc'[Main].pc = "join" /\ proc'[Main].out = None
        BY <1>0, <2>0, <3>1, PcsAre, GotoFacts DEF Others
      <4> QED
        BY <2>0, <4>1, AloneMoves
    <3>2. CASE Exit(p)
      BY <1>1, <2>0, <3>2, FreeRecord, AloneMoves
    <3> QED
      BY <2>2, <3>1, <3>2 DEF Create
  <2>3. CASE Kill(p) \/ \E c \in Clients : Sigpipe(p, c)
    <3>1. Exit(p)
      BY <2>3 DEF Kill, Sigpipe
    <3> QED
      BY <1>1, <2>0, <3>1, FreeRecord, AloneMoves
  <2>4. CASE Multi(p) \/ CreateEcho(p) \/ StartEcho(p) \/ ForkFirst(p) \/ Wait(p)
    BY <2>0, <2>4, Tables DEF Multi, Select, NotSet, AcceptSet, AcceptClosed, Fork, CreateEcho,
       StartEcho,
                              ForkFirst, Wait, At
  <2> QED
    BY <1>2, <2>1, <2>2, <2>3, <2>4 DEF ServerStep
<1>3. ASSUME NEW p \in Pids, NEW x \in Clients, Write(p, x)
      PROVE  AloneOK({"accept", "create", "join"}, "hello")'
  <2>1. p = Main /\ proc[p].pc = "join"
    BY <1>0, <1>3, WriteFacts, TextsAre
  <2>2. /\ UNCHANGED proc /\ \A d \in Clients \ {x} : Texted(d)' = Texted(d)
        /\ Texted(x)' = Texted(x) \cup {"hello"}
    BY <1>3, <2>1, WriteFacts, TextsAre DEF Looping
  <2>3. \A d \in Clients : Texted(d)' \subseteq Texted(d) \cup {"hello"}
    BY <2>2 DEF Texted
  <2> QED
    BY <1>0, <2>2, <2>3, AloneMoves DEF Others
<1> QED
  BY <1>2, <1>3, ClientsPassive, AloneStill DEF Next

(* Every step of first keeps its invariant.                                *)
LEMMA FirstNext ==
  ASSUME Typed, system = "first", AloneOK({"accept", "send"}, "message"), [Next]_vars
  PROVE  AloneOK({"accept", "send"}, "message")'
<1>0. /\ proc \in [Pids -> Record] /\ Main \in Pids
      /\ proc[Main].pc \in {"free", "accept", "send"} /\ proc[Main].out = None
      /\ \A p \in Pids \ {Main} : proc[p].pc = "free"
  BY NamesAssumption DEF Typed, TypeOK, Record, AloneOK, At
<1>1. ASSUME NEW p \in Pids, Exit(p), p = Main PROVE Others({Main}) /\ proc'[Main] = Free
  BY <1>0, <1>1 DEF Exit, Others
<1>2. ASSUME NEW p \in Pids, ServerStep(p) \/ Kill(p), \A c \in Clients : ~Write(p, c)
      PROVE  AloneOK({"accept", "send"}, "message")'
  <2>0. /\ p = Main /\ proc[p].pc \in {"accept", "send"}
        /\ \A d \in Clients : Texted(d)' \subseteq Texted(d) \cup {"message"}
    <3>1. p = Main
      BY <1>0, <1>2, FreeIdle
    <3>2. \A d \in Clients : Texted(d)' = Texted(d)
      BY <1>2, ServersQuiet
    <3> QED
      BY <1>0, <1>2, <3>1, <3>2, FreeIdle
  <2>1. CASE AcceptOne(p)
    <3>1. Accept(p, 1, "send") /\ 1 \in Ports /\ "send" \in Pcs
      BY <2>0, <2>1, Tables, PcsAre DEF AcceptOne, At
    <3>2. Others({Main}) /\ proc'[Main].pc = "send" /\ proc'[Main].out = None
      BY <1>0, <2>0, <3>1, AcceptFacts DEF Others
    <3> QED
      BY <2>0, <3>2, AloneMoves
  <2>3. CASE Kill(p) \/ \E c \in Clients : Sigpipe(p, c)
    <3>1. Exit(p)
      BY <2>3 DEF Kill, Sigpipe
    <3> QED
      BY <1>1, <2>0, <3>1, FreeRecord, AloneMoves
  <2>4. CASE Multi(p) \/ Create(p) \/ CreateEcho(p) \/ StartEcho(p) \/ ForkFirst(p) \/ Wait(p)
    BY <2>0, <2>4, Tables DEF Multi, Select, NotSet, AcceptSet, AcceptClosed, Fork, Create,
       CreateEcho,
                              StartEcho, ForkFirst, Wait, At
  <2> QED
    BY <1>2, <2>1, <2>3, <2>4 DEF ServerStep
<1>3. ASSUME NEW p \in Pids, NEW x \in Clients, Write(p, x)
      PROVE  AloneOK({"accept", "send"}, "message")'
  <2>1. p = Main /\ proc[p].pc = "send"
    BY <1>0, <1>3, WriteFacts, TextsAre
  <2>2. /\ Exit(p) /\ \A d \in Clients \ {x} : Texted(d)' = Texted(d)
        /\ Texted(x)' = Texted(x) \cup {"message"}
    BY <1>3, <2>1, WriteFacts, TextsAre DEF Looping
  <2>3. \A d \in Clients : Texted(d)' \subseteq Texted(d) \cup {"message"}
    BY <2>2 DEF Texted
  <2> QED
    BY <1>1, <2>1, <2>2, <2>3, FreeRecord, AloneMoves
<1> QED
  BY <1>2, <1>3, ClientsPassive, AloneStill DEF Next

-----------------------------------------------------------------------------
(* echo.                                                                   *)
LEMMA EchoInit == Init /\ system = "echo" => EchoOK
<1> SUFFICES ASSUME Init, system = "echo" PROVE EchoOK
  OBVIOUS
<1>1. /\ Main \in Pids /\ proc[Main] = Process("accept", {1})
      /\ \A p \in Pids \ {Main} : proc[p] = Free
  BY NamesAssumption DEF Init
<1>2. proc[Main].pc = "accept" /\ proc[Main].out = None
  BY <1>1 DEF Process
<1>3. \A p \in Pids \ {Main} : /\ proc[p].pc = "free" /\ proc[p].fds = {}
                              /\ proc[p].out = None /\ proc[p].nsfd = None
  BY <1>1, FreeRecord
<1>4. EchoTexts
  BY DEF Init, Texted, EchoTexts
<1> QED
  BY <1>2, <1>3, <1>4 DEF EchoOK, EchoMain, EchoThreads, EchoApart, At

(* The end of echo keeps its invariant.                                    *)
LEMMA EchoExit ==
  ASSUME Typed, system = "echo", EchoOK, NEW p \in Pids, Exit(p), \A d \in Clients : Texted(d)' = Texted(d)
  PROVE  EchoOK'
<1>1. Main \in Pids /\ \A q \in Pids : proc'[q] = Free
  BY NamesAssumption DEF Exit
<1>2. EchoTexts'
  BY DEF EchoOK, EchoTexts, Texted
<1> QED
  BY <1>1, <1>2, FreeRecord DEF EchoOK, EchoMain, EchoThreads, EchoApart, At

(* Every step of echo in which no thread is too late keeps its invariant.  *)
LEMMA EchoNext ==
  ASSUME Typed, FreshOK, system = "echo", EchoOK, [Next]_vars, "stale" \notin faults'
  PROVE  EchoOK'
<1>0. /\ proc \in [Pids -> Record] /\ Main \in Pids /\ None \notin Clients
      /\ proc[Main].pc \in {"free", "accept", "create"} /\ proc[Main].out = None
      /\ \A p \in Pids \ {Main} : proc[p].pc \in {"free", "start", "echo"}
  BY NamesAssumption DEF Typed, TypeOK, Record, EchoOK, EchoMain, EchoThreads
<1>1. CASE Passive
  <2>1. EchoTexts'
    BY <1>1 DEF EchoOK, EchoTexts, Passive, Texted
  <2> QED
    BY <1>1, <2>1 DEF EchoOK, EchoMain, EchoThreads, EchoApart, Passive, At
<1>2. ASSUME NEW p \in Pids, ServerStep(p) \/ Kill(p), \A c \in Clients : ~Write(p, c)
      PROVE  EchoOK'
  <2>0. \A d \in Clients : Texted(d)' = Texted(d)
    BY <1>2, ServersQuiet
  <2>a. EchoTexts'
    BY <2>0 DEF EchoOK, EchoTexts, Texted
  <2>1. CASE AcceptOne(p)
    <3>1. p = Main /\ Accept(p, 1, "create") /\ 1 \in Ports /\ "create" \in Pcs
      BY <1>0, <2>1, Tables, PcsAre DEF AcceptOne, At
    <3> DEFINE c == Head(backlog[1])
    <3>2. /\ c \in Clients /\ \A q \in Pids : proc[q].nsfd # c
          /\ Others({Main}) /\ proc'[Main].pc = "create" /\ proc'[Main].nsfd = c
          /\ proc'[Main].out = None
      BY <1>0, <3>1, AcceptFacts DEF FreshOK, Fresh, Has, Others
    <3> HIDE DEF c
    <3>3. EchoMain'
      BY <3>2 DEF EchoMain
    <3>4. EchoThreads'
      BY <3>2 DEF EchoOK, EchoThreads, Others, At
    <3>5. EchoApart'
      BY <1>0, <3>2 DEF EchoOK, EchoApart, Others
    <3> QED
      BY <2>a, <3>3, <3>4, <3>5 DEF EchoOK
  <2>2. CASE CreateEcho(p)
    <3>0. p = Main /\ proc[Main].pc = "create" /\ proc[Main].nsfd \in Clients
      BY <1>0, <2>2, CreateEchoFacts DEF EchoOK, EchoMain, At
    <3>1. CASE Goto(p, "accept")
      <4>1. /\ Others({Main}) /\ proc'[Main].pc = "accept" /\ proc'[Main].out = None
        BY <1>0, <3>0, <3>1, PcsAre, GotoFacts DEF Others
      <4> QED
        BY <1>0, <2>a, <4>1 DEF EchoOK, EchoMain, EchoThreads, EchoApart, Others, At
    <3>2. CASE Exit(p)
      BY <2>0, <3>2, EchoExit
    <3>3. ASSUME NEW q \in Pids, q # p, Others({p, q}), proc'[p].pc = "accept",
                 proc'[p].out = proc[p].out, proc'[q].pc = "start", proc'[q].fds = {},
                 proc'[q].nsfd = proc[p].nsfd, proc'[q].out = None
          PROVE  EchoOK'
      <4>1. EchoMain'
        BY <1>0, <3>0, <3>3 DEF EchoMain, At
      <4>2. EchoThreads'
        BY <3>0, <3>3 DEF EchoOK, EchoThreads, Others, At
      <4>3. EchoApart'
        BY <3>0, <3>3 DEF EchoOK, EchoApart, Others, At
      <4> QED
        BY <2>a, <4>1, <4>2, <4>3 DEF EchoOK
    <3> QED
      BY <2>2, <3>1, <3>2, <3>3, CreateEchoFacts
  <2>3. CASE StartEcho(p)
    <3>1. /\ p # Main /\ Others({p}) /\ proc[p].pc = "start" /\ proc'[p].pc = "echo"
          /\ proc'[p].fds = proc[p].fds /\ proc'[p].out = proc[p].out
          /\ proc'[p].nsfd = proc[p].nsfd
      BY <1>0, <2>3, StartEchoFacts
    <3>2. proc'[Main] = proc[Main] /\ \A q \in Pids : proc'[q].nsfd = proc[q].nsfd
      BY <1>0, <3>1 DEF Others
    <3>3. EchoThreads'
      BY <3>1 DEF EchoOK, EchoThreads, Others, At
    <3> QED
      BY <2>a, <3>2, <3>3 DEF EchoOK, EchoMain, EchoApart, At
  <2>4. CASE Kill(p) \/ \E c \in Clients : Sigpipe(p, c)
    <3>1. Exit(p)
      BY <2>4 DEF Kill, Sigpipe
    <3> QED
      BY <2>0, <3>1, EchoExit
  <2>5. CASE Multi(p) \/ Create(p) \/ ForkFirst(p) \/ Wait(p)
    BY <1>0, <2>5, Tables DEF Multi, Select, NotSet, AcceptSet, AcceptClosed, Fork, Create,
       ForkFirst, Wait, At
  <2> QED
    BY <1>2, <2>1, <2>2, <2>3, <2>4, <2>5 DEF ServerStep
<1>3. ASSUME NEW p \in Pids, NEW x \in Clients, Write(p, x)
      PROVE  EchoOK'
  <2>1. proc[p].pc = "echo"
    BY <1>0, <1>3, WriteFacts, TextsAre
  <2>2. /\ UNCHANGED proc /\ \A d \in Clients \ {x} : Texted(d)' = Texted(d)
        /\ Texted(x)' = Texted(x) \cup {"length"}
    BY <1>3, <2>1, WriteFacts, TextsAre DEF Looping
  <2>3. EchoTexts'
    BY <2>2 DEF EchoOK, EchoTexts, Texted
  <2> QED
    BY <2>2, <2>3 DEF EchoOK, EchoMain, EchoThreads, EchoApart, At
<1> QED
  BY <1>1, <1>2, <1>3, ClientsPassive DEF Next

-----------------------------------------------------------------------------
(* second.                                                                 *)
LEMMA SecondInit == Init /\ system = "second" => SecondOK
<1> SUFFICES ASSUME Init, system = "second" PROVE SecondOK
  OBVIOUS
<1>1. /\ Main \in Pids /\ proc[Main] = Process("accept", {1})
      /\ \A p \in Pids \ {Main} : proc[p] = Free
  BY NamesAssumption DEF Init
<1>2. proc[Main].pc = "accept" /\ proc[Main].out = None
  BY <1>1 DEF Process
<1>3. \A p \in Pids \ {Main} : proc[p].pc = "free" /\ proc[p].out = None
  BY <1>1, FreeRecord
<1>4. Nothing
  BY DEF Init, Texted, Nothing
<1> QED
  BY <1>2, <1>3, <1>4 DEF SecondOK, SecondMain, SecondChild, SecondTexts, SecondApart, Nothing, At

(* Every step of second keeps its invariant.                               *)
LEMMA SecondNext ==
  ASSUME Typed, FreshOK, system = "second", SecondOK, [Next]_vars
  PROVE  SecondOK'
<1>0. /\ proc \in [Pids -> Record] /\ Main \in Pids /\ None \notin Clients
      /\ proc[Main].pc \in {"free", "accept", "fork", "send1", "wait", "accept2", "send2"}
      /\ \A p \in Pids \ {Main} : proc[p].pc \in {"free", "send1"}
      /\ \A p \in Pids : proc[p].out = None
  BY NamesAssumption DEF Typed, TypeOK, Record, SecondOK, SecondMain, SecondChild, At
<1>1. CASE Passive
  <2>1. SecondTexts'
    BY <1>1 DEF SecondOK, SecondTexts, Nothing, Passive, Texted, At
  <2>2. SecondApart'
    BY <1>1 DEF SecondOK, SecondApart, Passive, Texted
  <2> QED
    BY <1>1, <2>1, <2>2 DEF SecondOK, SecondMain, SecondChild, Passive, At
<1>a. ASSUME NEW p \in Pids, Exit(p), proc[p].pc \in {"send1", "send2"}
      PROVE  Others({p}) /\ proc'[p] = Free /\ SecondMain' /\ SecondChild'
  <2>1. Others({p}) /\ proc'[p] = Free
    BY <1>0, <1>a DEF Exit, Others
  <2>2. SecondMain'
    BY <1>0, <2>1, FreeRecord DEF SecondOK, SecondMain, Others, At
  <2>3. SecondChild'
    BY <1>0, <1>a, <2>1, FreeRecord DEF SecondOK, SecondChild, Others, At
  <2> QED
    BY <2>1, <2>2, <2>3
<1>2. ASSUME NEW p \in Pids, ServerStep(p) \/ Kill(p), \A c \in Clients : ~Write(p, c)
      PROVE  SecondOK'
  <2>0. \A d \in Clients : Texted(d)' = Texted(d)
    BY <1>2, ServersQuiet
  <2>a. SecondApart'
    BY <2>0 DEF SecondOK, SecondApart, Texted
  <2>b. Nothing => Nothing'
    BY <2>0 DEF Nothing, Texted
  <2>c. (\A d \in Clients : "client2" \notin Texted(d)) => (\A d \in Clients : "client2" \notin Texted(d))'
    BY <2>0 DEF Texted
  <2>1. CASE AcceptOne(p) /\ At(p, "accept")
    <3>1. p = Main /\ Accept(p, 1, "fork") /\ 1 \in Ports /\ "fork" \in Pcs /\ proc[Main].pc = "accept"
      BY <1>0, <2>1, Tables, PcsAre DEF AcceptOne, At
    <3>2. Others({Main}) /\ proc'[Main].pc = "fork" /\ proc'[Main].out = None
      BY <1>0, <3>1, AcceptFacts DEF Others
    <3>3. SecondMain' /\ SecondChild'
      BY <1>0, <3>1, <3>2 DEF SecondOK, SecondMain, SecondChild, Others, At
    <3>4. Nothing
      BY <1>0, <3>1 DEF SecondOK, SecondTexts
    <3>5. SecondTexts'
      BY <2>b, <3>2, <3>4 DEF SecondTexts, At
    <3> QED
      BY <2>a, <3>3, <3>5 DEF SecondOK
  <2>2. CASE AcceptOne(p) /\ At(p, "accept2")
    <3>1. p = Main /\ Accept(p, 1, "send2") /\ 1 \in Ports /\ "send2" \in Pcs /\ proc[Main].pc = "accept2"
      BY <1>0, <2>2, Tables, PcsAre DEF AcceptOne, At
    <3> DEFINE c == Head(backlog[1])
    <3>2. /\ Others({Main}) /\ proc'[Main].pc = "send2" /\ proc'[Main].out = None
          /\ c \in Clients /\ proc'[Main].nsfd = c /\ Fresh(c)
      BY <1>0, <3>1, AcceptFacts DEF Others, Fresh
    <3> HIDE DEF c
    <3>3. SecondMain' /\ SecondChild'
      BY <1>0, <3>1, <3>2 DEF SecondOK, SecondMain, SecondChild, Others, At
    <3>4. /\ \A d \in Clients : "client2" \notin Texted(d)
          /\ \A q \in Pids \ {Main} : proc[q].pc = "free"
      BY <1>0, <3>1 DEF SecondOK, SecondTexts, SecondChild, At
    <3>5. Texted(proc[Main].nsfd)' = {}
      BY <2>0, <3>2 DEF FreshOK, Texted
    <3>6. SecondTexts'
      BY <1>0, <2>c, <3>2, <3>4, <3>5 DEF SecondTexts, At, Others
    <3> QED
      BY <2>a, <3>3, <3>6 DEF SecondOK
  <2>3. CASE ForkFirst(p)
    <3>1. p = Main /\ proc[Main].pc = "fork"
      BY <1>0, <2>3, ForkFirstFacts
    <3>2. Nothing /\ \A q \in Pids \ {Main} : proc[q].pc = "free"
      BY <1>0, <3>1 DEF SecondOK, SecondTexts, SecondChild, At
    <3>3. \A d \in Clients : "client2" \notin Texted(d)
      BY <3>2 DEF Nothing
    <3>4. CASE \E q \in Pids : /\ q # p /\ Others({p, q})
                               /\ proc'[p].pc = "wait" /\ proc'[p].fds = {} /\ proc'[p].out = proc[p].out
                               /\ proc'[q].pc = "send1" /\ proc'[q].out = proc[p].out
      <4>1. SecondMain' /\ SecondChild'
        BY <1>0, <3>1, <3>2, <3>4 DEF SecondMain, SecondChild, Others, At
      <4>2. SecondTexts'
        BY <2>b, <2>c, <3>1, <3>2, <3>3, <3>4 DEF SecondTexts, At
      <4> QED
        BY <2>a, <4>1, <4>2 DEF SecondOK
    <3>5. CASE Others({p}) /\ proc'[p].pc = "send1" /\ proc'[p].out = proc[p].out
      <4>1. SecondMain' /\ SecondChild'
        BY <1>0, <3>1, <3>2, <3>5 DEF SecondMain, SecondChild, Others, At
      <4>2. SecondTexts'
        BY <2>b, <3>1, <3>2, <3>5 DEF SecondTexts, At
      <4> QED
        BY <2>a, <4>1, <4>2 DEF SecondOK
    <3> QED
      BY <2>3, <3>4, <3>5, ForkFirstFacts
  <2>4. CASE Wait(p)
    <3>1. /\ p = Main /\ proc[Main].pc = "wait" /\ \A q \in Pids \ {Main} : proc[q].pc = "free"
          /\ Goto(Main, "accept2") /\ "accept2" \in Pcs
      BY <1>0, <2>4, PcsAre DEF Wait, At
    <3>2. /\ Others({Main}) /\ proc'[Main].pc = "accept2" /\ proc'[Main].fds = proc[Main].fds
          /\ proc'[Main].out = None
      BY <1>0, <3>1, GotoFacts DEF Others
    <3>3. SecondMain' /\ SecondChild'
      BY <1>0, <3>1, <3>2 DEF SecondOK, SecondMain, SecondChild, Others, At
    <3>4. \A d \in Clients : "client2" \notin Texted(d)
      BY <3>1 DEF SecondOK, SecondTexts, At
    <3>5. SecondTexts'
      BY <1>0, <2>c, <3>1, <3>2, <3>4 DEF SecondTexts, At, Others
    <3> QED
      BY <2>a, <3>3, <3>5 DEF SecondOK
  <2>5. CASE Kill(p) \/ \E c \in Clients : Sigpipe(p, c)
    <3>1. Exit(p) /\ proc[p].pc \in {"send1", "send2"}
      BY <1>0, <2>5, TextsAre DEF Kill, Sigpipe, Writes
    <3>2. Others({p}) /\ proc'[p].pc = "free" /\ SecondMain' /\ SecondChild'
      BY <1>a, <3>1, FreeRecord
    <3>3. (\E q \in Pids : proc'[q].pc \in {"accept", "fork", "send1"}) => Nothing
      BY <3>2 DEF SecondOK, SecondTexts, Others
    <3>4. At(Main, "send2")' => proc[Main].nsfd' \in Clients /\ Texted(proc[Main].nsfd)' = {}
      <4>1. SUFFICES ASSUME proc'[Main].pc = "send2"
                     PROVE  proc'[Main].nsfd \in Clients /\ Texted(proc[Main].nsfd)' = {}
        BY DEF At
      <4>2. proc'[Main] = proc[Main] /\ proc[Main].pc = "send2"
        BY <1>0, <3>2, <4>1 DEF Others
      <4>3. proc[Main].nsfd \in Clients /\ Texted(proc[Main].nsfd) = {}
        BY <4>2 DEF SecondOK, SecondTexts, At
      <4> QED
        BY <2>0, <4>2, <4>3 DEF Texted
    <3>5. (At(Main, "wait") \/ At(Main, "accept2") \/ At(Main, "send2"))'
            => \A d \in Clients : "client2" \notin Texted(d)
      BY <1>0, <3>2 DEF SecondOK, SecondTexts, Others, At
    <3>6. SecondTexts'
      BY <2>b, <2>c, <3>3, <3>4, <3>5 DEF SecondTexts
    <3> QED
      BY <2>a, <3>2, <3>6 DEF SecondOK
  <2>6. CASE Multi(p) \/ Create(p) \/ CreateEcho(p) \/ StartEcho(p)
    BY <1>0, <2>6, Tables DEF Multi, Select, NotSet, AcceptSet, AcceptClosed, Fork, Create,
       CreateEcho, StartEcho, At
  <2> QED
    BY <1>2, <2>1, <2>2, <2>3, <2>4, <2>5, <2>6 DEF ServerStep, AcceptOne
<1>3. ASSUME NEW p \in Pids, NEW x \in Clients, Write(p, x)
      PROVE  SecondOK'
  <2>1. /\ proc[p].pc \in {"send1", "send2"} /\ Exit(p) /\ x = proc[p].nsfd
        /\ \A d \in Clients \ {x} : Texted(d)' = Texted(d)
        /\ Texted(x)' = Texted(x) \cup {Texts[proc[p].pc]}
    BY <1>0, <1>3, WriteFacts, TextsAre DEF Looping
  <2>2. Others({p}) /\ proc'[p].pc = "free" /\ SecondMain' /\ SecondChild'
    BY <1>a, <2>1, FreeRecord
  <2>3. CASE proc[p].pc = "send1"
    <3>1. Nothing
      BY <2>3 DEF SecondOK, SecondTexts
    <3>2. Texted(x)' = {"client1"} /\ \A d \in Clients \ {x} : Texted(d)' = {}
      BY <2>1, <2>3, <3>1, TextsAre DEF Nothing
    <3>3. \A q \in Pids \ {p} : q # Main => proc'[q].pc = "free"
      BY <1>0, <2>2, <2>3 DEF SecondOK, SecondChild, Others, At
    <3>4. proc'[Main].pc \in {"free", "wait"}
      BY <1>0, <2>2, <2>3 DEF SecondOK, SecondChild, Others, At
    <3>5. SecondTexts'
      BY <2>2, <3>2, <3>3, <3>4 DEF SecondTexts, At, Texted
    <3>6. SecondApart'
      BY <3>2 DEF SecondApart, Texted
    <3> QED
      BY <2>2, <3>5, <3>6 DEF SecondOK
  <2>4. CASE proc[p].pc = "send2"
    <3>1. p = Main /\ \A q \in Pids \ {Main} : proc[q].pc = "free"
      BY <1>0, <2>4 DEF SecondOK, SecondChild, At
    <3>2. Texted(x) = {} /\ \A d \in Clients : "client2" \notin Texted(d)
      BY <2>1, <2>4, <3>1 DEF SecondOK, SecondTexts, At
    <3>3. Texted(x)' = {"client2"}
      BY <2>1, <2>4, <3>2, TextsAre
    <3>4. SecondTexts'
      BY <2>2, <3>1 DEF SecondTexts, Others, At
    <3>5. SecondApart'
      BY <2>1, <3>2, <3>3 DEF SecondOK, SecondApart, Texted
    <3> QED
      BY <2>2, <3>4, <3>5 DEF SecondOK
  <2> QED
    BY <2>1, <2>3, <2>4
<1> QED
  BY <1>1, <1>2, <1>3, ClientsPassive DEF Next

-----------------------------------------------------------------------------
(* The invariant.                                                          *)
LEMMA IInvInit == Init => IInv
<1> SUFFICES ASSUME Init PROVE IInv
  OBVIOUS
<1>1. Typed /\ FreshOK
  BY TypedInit, FreshInit
<1>2. SystemOK
  BY MultiInit, AloneInit, SecondInit, EchoInit DEF SystemOK
<1> QED
  BY <1>1, <1>2 DEF IInv

(* Every step preserves the invariant.                                     *)
LEMMA IInvNext == IInv /\ [Next]_vars => IInv'
<1> SUFFICES ASSUME IInv, [Next]_vars PROVE IInv'
  OBVIOUS
<1>1. Typed /\ FreshOK /\ (AsMeant => SystemOK)
  BY DEF IInv
<1>2. Typed' /\ FreshOK'
  BY <1>1, TypedNext, FreshNext
<1>3. system' = system /\ faults \subseteq faults'
  BY <1>1, FaultsGrow
<1>4. ASSUME AsMeant' PROVE SystemOK'
  <2>1. SystemOK /\ "exec" \notin faults' /\ "stale" \notin faults'
    BY <1>1, <1>3, <1>4 DEF AsMeant
  <2>2. system' = "multi" => MultiOK'
    BY <1>1, <1>3, <2>1, MultiNext DEF SystemOK
  <2>3. system' = "thread" => AloneOK({"accept", "create", "join"}, "hello")'
    BY <1>1, <1>3, <2>1, ThreadNext DEF SystemOK
  <2>4. system' = "first" => AloneOK({"accept", "send"}, "message")'
    BY <1>1, <1>3, <2>1, FirstNext DEF SystemOK
  <2>5. system' = "second" => SecondOK'
    BY <1>1, <1>3, <2>1, SecondNext DEF SystemOK
  <2>6. system' = "echo" => EchoOK'
    BY <1>1, <1>3, <2>1, EchoNext DEF SystemOK
  <2> QED
    BY <2>2, <2>3, <2>4, <2>5, <2>6 DEF SystemOK
<1> QED
  BY <1>2, <1>4 DEF IInv

(* A set whose elements are all the same has at most one.                  *)
LEMMA AtMostOne ==
  ASSUME NEW S, \A x, y \in S : x = y
  PROVE  Cardinality(S) <= 1
<1>1. CASE S = {}
  BY <1>1, FS_EmptySet
<1>2. CASE S # {}
  <2>1. PICK x : x \in S
    BY <1>2
  <2>2. S = {x}
    BY <2>1
  <2> QED
    BY <2>2, FS_Singleton
<1> QED
  BY <1>1, <1>2

(* What OneServer claims, said without counting.                           *)
OneWriter == \A c \in Clients : \A p, q \in Pids : Writes(p, c) /\ Writes(q, c) => p = q
OneText == \A c \in Clients : \A t, u \in Texted(c) : t = u
OneHolder == faults = {} => \A c \in Clients : \A p, q \in Holders(c) : p = q

(* The parts of OneServer.                                                 *)
LEMMA OneServerFrom ==
  ASSUME OneWriter, OneText, OneHolder,
         system = "multi" => MultiTexts /\ port \in [Clients -> Ports],
         system = "second" => SecondApart
  PROVE  OneServer
<1>1. ASSUME NEW c \in Clients
      PROVE  /\ Cardinality({p \in Pids : Writes(p, c)}) <= 1
             /\ Cardinality(sent[c] \cup got[c]) <= 1
             /\ system = "multi" => sent[c] \cup got[c] \subseteq {<<"service_1", "service_2">>[port[c]]}
             /\ faults = {} => Cardinality(Holders(c)) <= 1
  <2>1. Cardinality({p \in Pids : Writes(p, c)}) <= 1
    BY AtMostOne DEF OneWriter
  <2>2. Cardinality(sent[c] \cup got[c]) <= 1
    BY AtMostOne DEF OneText, Texted
  <2>3. faults = {} => Cardinality(Holders(c)) <= 1
    BY AtMostOne DEF OneHolder
  <2>4. system = "multi" => sent[c] \cup got[c] \subseteq {<<"service_1", "service_2">>[port[c]]}
    <3>1. CASE system = "multi" /\ port[c] = 1
      BY <3>1 DEF MultiTexts, Texted
    <3>2. CASE system = "multi" /\ port[c] = 2
      BY <3>2 DEF MultiTexts, Texted
    <3> QED
      BY <3>1, <3>2, Tables
  <2> QED
    BY <2>1, <2>2, <2>3, <2>4
<1>2. system = "second" => \A c, d \in Clients : c # d => (sent[c] \cup got[c]) \cap (sent[d] \cup got[d]) = {}
  BY DEF SecondApart, Texted
<1> QED
  BY <1>1, <1>2 DEF OneServer

(* The invariant implies OneServer.                                        *)
LEMMA Implied == IInv => OneServer
<1> SUFFICES ASSUME IInv, AsMeant PROVE OneServer
  BY DEF OneServer, AsMeant
<1>0. /\ Typed /\ FreshOK /\ SystemOK /\ Main \in Pids /\ None \notin Clients
      /\ port \in [Clients -> Ports] /\ system \in Systems
      /\ \A p \in Pids : proc[p].pc = "free" => proc[p].fds = {} /\ proc[p].out = None /\ proc[p].nsfd = None
  BY NamesAssumption, FreeRecord DEF IInv, Typed, TypeOK, At
<1>1. CASE system = "multi"
  <2>0. MultiMain /\ MultiOthers /\ MultiApart /\ MultiTexts /\ (faults = {} => MultiFds)
    BY <1>0, <1>1 DEF SystemOK, MultiOK
  <2>1. ASSUME NEW x \in Clients, NEW p \in Pids, Writes(p, x) PROVE x = proc[p].out
    BY <1>0, <2>0, <2>1, TextsAre DEF Writes, MultiMain, MultiOthers
  <2>2. OneWriter
    BY <1>0, <2>0, <2>1 DEF OneWriter, MultiApart
  <2>3. OneText
    BY <1>0, <2>0, Tables DEF OneText, MultiTexts
  <2>4. OneHolder
    <3> SUFFICES ASSUME faults = {}, NEW x \in Clients, NEW p \in Holders(x), NEW q \in Holders(x)
                 PROVE  p = q
      BY DEF OneHolder
    <3>1. p \in Pids /\ q \in Pids /\ x \in proc[p].fds \cup {proc[p].out} /\ x \in proc[q].fds \cup {proc[q].out}
      BY DEF Holders
    <3>2. \A r \in Pids \ {Main} : x \in proc[r].fds \cup {proc[r].out} => x = proc[r].out
      BY <2>0 DEF MultiFds
    <3>3. x \in proc[Main].fds \cup {proc[Main].out} => Forking /\ x = proc[Main].nsfd
      BY <1>0, <2>0 DEF MultiFds, MultiMain
    <3> QED
      BY <1>0, <2>0, <3>1, <3>2, <3>3 DEF MultiApart
  <2> QED
    BY <1>0, <1>1, <2>0, <2>2, <2>3, <2>4, OneServerFrom
<1>2. CASE system \in {"thread", "first"}
  <2>1. PICK text : \E pcs : AloneOK(pcs, text)
    BY <1>0, <1>2 DEF SystemOK
  <2>2. \A p \in Pids \ {Main} : proc[p].pc = "free"
    BY <2>1 DEF AloneOK, At
  <2>3. OneWriter
    BY <1>0, <2>2, TextsAre DEF OneWriter, Writes
  <2>4. OneText
    BY <2>1 DEF OneText, AloneOK
  <2>5. OneHolder
    BY <1>0, <2>2 DEF OneHolder, Holders
  <2> QED
    BY <1>2, <2>3, <2>4, <2>5, OneServerFrom
<1>3. CASE system = "second"
  <2>0. SecondMain /\ SecondChild /\ SecondTexts /\ SecondApart
    BY <1>0, <1>3 DEF SystemOK, SecondOK
  <2>1. \A p, q \in Pids : p # q /\ proc[p].pc # "free" /\ proc[q].pc # "free" =>
          \/ p = Main /\ proc[p].pc = "wait"
          \/ q = Main /\ proc[q].pc = "wait"
    BY <1>0, <2>0 DEF SecondChild, At
  <2>2. OneWriter
    BY <2>1, TextsAre DEF OneWriter, Writes
  <2>3. OneText
    BY <2>0 DEF OneText, SecondApart
  <2>4. OneHolder
    BY <1>0, <2>0, <2>1 DEF OneHolder, Holders, SecondMain, At
  <2> QED
    BY <1>3, <2>0, <2>2, <2>3, <2>4, OneServerFrom
<1>4. CASE system = "echo"
  <2>0. EchoMain /\ EchoThreads /\ EchoApart /\ EchoTexts
    BY <1>0, <1>4 DEF SystemOK, EchoOK
  <2>1. ASSUME NEW x \in Clients, NEW p \in Pids, Writes(p, x) PROVE x = proc[p].nsfd /\ p # Main
    BY <1>0, <2>0, <2>1, TextsAre DEF Writes, EchoMain, EchoThreads
  <2>2. OneWriter
    BY <1>0, <2>0, <2>1 DEF OneWriter, EchoApart
  <2>3. OneText
    BY <2>0 DEF OneText, EchoTexts
  <2>4. OneHolder
    BY <1>0, <2>0 DEF OneHolder, Holders, EchoThreads
  <2> QED
    BY <1>4, <2>2, <2>3, <2>4, OneServerFrom
<1> QED
  BY <1>0, <1>1, <1>2, <1>3, <1>4 DEF Systems

(* Every variable stays in its range, whichever of the servers runs, for   *)
(* any number of clients and of processes.                                 *)
THEOREM TypeCorrect == Spec => []TypeOK
<1>1. IInv => TypeOK
  BY DEF IInv, Typed
<1> QED
  BY <1>1, IInvInit, IInvNext, PTL DEF Spec

(* A connection is served by one process, with the text of the service it  *)
(* was made to, in each of the five servers (multi-service/server.c:60-93, *)
(* second/server.c:38-63, thread/server.c:44-51, service1.c:40-60).        *)
THEOREM ServedOnce == Spec => []OneServer
  BY IInvInit, IInvNext, Implied, PTL DEF Spec
=============================================================================
