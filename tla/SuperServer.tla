---------------------------- MODULE SuperServer ----------------------------
(***************************************************************************)
(* src/mids/super_server: a server that multiplexes two services with one  *)
(* select loop and limits how many clients each service has at a time.     *)
(*                                                                         *)
(*   port 5000  a connection is handed to a forked "./service1", which     *)
(*              tells its parent with SIGUSR1 that it has finished; the    *)
(*              signal handler decrements curr1;                           *)
(*   port 5001  a connection is handed to a thread of the server, which    *)
(*              decrements curr2 itself.                                   *)
(*                                                                         *)
(* curr1 and curr2 are plain ints, written by the main loop, by the signal *)
(* handler (on whichever thread the kernel picks) and by the threads, with *)
(* no synchronisation: every ++ and -- is a load followed by a store here, *)
(* and anything may happen in between.                                     *)
(*                                                                         *)
(* Neither execv nor pthread_create is checked.  A child whose execv       *)
(* returns goes on in the parent's loop, without sfd1 but with sfd2, and   *)
(* answers clients of service 2 beside the parent; a thread that was not   *)
(* created leaves its connection and its unit of curr2 to nobody.          *)
(***************************************************************************)
EXTENDS Integers, Sequences, FiniteSets

CONSTANTS
  Clients1,   \* the processes running client1 (they connect to port 5000)
  Clients2,   \* the processes running client2 (they connect to port 5001)
  Threads,    \* the threads the server creates in a run; each runs once
  Limit1,     \* 25 in the code: admit while curr1 <= Limit1
  Limit2,     \* 15 in the code: admit while curr2 <= Limit2
  MaxFds,     \* descriptors the server's table has left for connections
  MaxProcs,   \* children the server may have; none is ever waited for
  Main,       \* the thread that runs main
  NoConn      \* the -1 accept returns when it fails

Clients  == Clients1 \cup Clients2
Contexts == {Main} \cup Threads

ASSUME ClientsAssumption ==
  /\ IsFiniteSet(Clients1) /\ IsFiniteSet(Clients2)
  /\ Clients1 \cap Clients2 = {}
  /\ NoConn \notin Clients
ASSUME ThreadsAssumption == IsFiniteSet(Threads) /\ Main \notin Threads
ASSUME LimitsAssumption  == {Limit1, Limit2, MaxFds, MaxProcs} \subseteq Nat

VARIABLES
  curr1, curr2,         \* the two counters
  backlog1, backlog2,   \* connections not yet accepted on sfd1 and sfd2
  client,               \* how far each client process has come
  pc,                   \* where the main loop is
  interrupted,          \* did the last select return -1 (EINTR)?
  nsfd,                 \* main's local nsfd
  reg,                  \* the value main has loaded of a counter
  open,                 \* connections the server holds a descriptor of
  child,                \* the process forked for each client of service 1
  pending,              \* SIGUSR1 is pending on the server process
  handling,             \* the threads inside sig_handler1
  hreg,                 \* the value of curr1 each of them has loaded
  thread,               \* where each thread of service 2 is
  arg,                  \* args->nsfd, malloc'ed for that thread
  conn,                 \* the thread's own local nsfd
  treg,                 \* the value of curr2 it has loaded
  leaked,               \* units of curr2 whose thread was never created
  taken,                \* clients a child still in the loop has accepted and
                        \* not answered
  stranded,             \* clients of service 2 accepted and given to no thread
  race1,                \* history: a store of curr1 has overtaken a handler
  race2                 \* history: how many stores of curr2 overtook another

counters   == <<curr1, curr2>>
mainVars   == <<pc, interrupted, nsfd, reg, open>>
signalVars == <<pending, handling, hreg>>
threadVars == <<thread, arg, conn, treg>>
strays     == <<leaked, taken, stranded>>
races      == <<race1, race2>>
network    == <<backlog1, backlog2, client>>
vars == <<counters, network, mainVars, child, signalVars, threadVars, strays, races>>

ClientStates == {"idle", "connected", "sent", "replied", "closed"}
MainStates   == {"select", "test1", "accept1", "load1", "store1", "fork",
                 "test2", "accept2", "load2", "store2", "create"}
ChildStates  == {"none", "read", "stdin", "notify", "zombie", "server"}
ThreadStates == {"none", "start", "recv", "load", "store", "done"}

Init ==
  /\ curr1 = 0 /\ curr2 = 0
  /\ backlog1 = <<>> /\ backlog2 = <<>>
  /\ client = [c \in Clients |-> "idle"]
  /\ pc = "select" /\ interrupted = FALSE /\ nsfd = NoConn /\ reg = 0
  /\ open = {}
  /\ child = [c \in Clients1 |-> "none"]
  /\ pending = FALSE /\ handling = {} /\ hreg = [x \in Contexts |-> 0]
  /\ thread = [t \in Threads |-> "none"]
  /\ arg  = [t \in Threads |-> NoConn]
  /\ conn = [t \in Threads |-> NoConn]
  /\ treg = [t \in Threads |-> 0]
  /\ leaked = 0 /\ taken = {} /\ stranded = {}
  /\ race1 = FALSE /\ race2 = 0

-----------------------------------------------------------------------------
(* The clients: connect, then scanf and write, then read.                  *)

Connect1(c) ==
  /\ client[c] = "idle"
  /\ client' = [client EXCEPT ![c] = "connected"]
  /\ backlog1' = Append(backlog1, c)
  /\ UNCHANGED <<counters, backlog2, mainVars, child, signalVars, threadVars, strays, races>>

Connect2(c) ==
  /\ client[c] = "idle"
  /\ client' = [client EXCEPT ![c] = "connected"]
  /\ backlog2' = Append(backlog2, c)
  /\ UNCHANGED <<counters, backlog1, mainVars, child, signalVars, threadVars, strays, races>>

(* The user types a line; the client may still be in the backlog.          *)
ClientSend(c) ==
  /\ client[c] = "connected"
  /\ client' = [client EXCEPT ![c] = "sent"]
  /\ UNCHANGED <<counters, backlog1, backlog2, mainVars, child, signalVars,
                 threadVars, strays, races>>

-----------------------------------------------------------------------------
(* The main loop.  A signal handler on the main thread suspends it.        *)

At(label) == pc = label /\ Main \notin handling
Goto(label) == pc' = label

(* Mutant: the readiness of sfd1 is not looked at.                         *)
SelectReadyAny ==
  /\ At("select")
  /\ backlog1 # <<>> \/ backlog2 # <<>>
  /\ Goto("test1")
  /\ interrupted' = FALSE
  /\ UNCHANGED <<counters, network, nsfd, reg, open, child, signalVars, threadVars, strays, races>>

(* select finds a listener readable.  Port 5000 is looked at first, and    *)
(* port 5001 only in the else branch.  With nothing readable select        *)
(* returns 0 at once (the timeout is zero) and the loop goes round.        *)
SelectReady ==
  /\ At("select")
  /\ \/ backlog1 # <<>> /\ Goto("test1")
     \/ backlog1 = <<>> /\ backlog2 # <<>> /\ Goto("test2")
  /\ interrupted' = FALSE
  /\ UNCHANGED <<counters, network, nsfd, reg, open, child, signalVars, threadVars, strays, races>>

(* Thread x runs sig_handler1 and has loaded curr1.  SIGUSR1 is not        *)
(* queued: "pending" stands for any number of children that have exited.   *)
Deliver(x) ==
  /\ pending /\ x \notin handling
  /\ pending' = FALSE
  /\ handling' = handling \cup {x}
  /\ hreg' = [hreg EXCEPT ![x] = curr1]

(* Nothing is readable but a signal is pending: the handler runs on the    *)
(* main thread and select returns -1, which is true in the if; rset still  *)
(* holds both listeners, so the first branch is taken.                     *)
SelectInterrupted ==
  /\ At("select")
  /\ backlog1 = <<>> /\ backlog2 = <<>>
  /\ Deliver(Main)
  /\ Goto("test1")
  /\ interrupted' = TRUE
  /\ UNCHANGED <<counters, network, nsfd, reg, open, child, threadVars, strays, races>>

(* Mutant: the limit is off by one.                                        *)
Test1OffByOne ==
  /\ At("test1")
  /\ Goto(IF curr1 <= Limit1 + 1 THEN "accept1" ELSE "select")
  /\ UNCHANGED <<counters, network, interrupted, nsfd, reg, open, child, signalVars,
                 threadVars, strays, races>>

Test1 ==
  /\ At("test1")
  /\ Goto(IF curr1 <= Limit1 THEN "accept1" ELSE "select")
  /\ UNCHANGED <<counters, network, interrupted, nsfd, reg, open, child, signalVars,
                 threadVars, strays, races>>

(* accept fails when the descriptor table is full and blocks while the     *)
(* backlog is empty.                                                       *)
AcceptFrom(backlog) ==
  \/ /\ Cardinality(open) >= MaxFds
     /\ nsfd' = NoConn
     /\ UNCHANGED <<open, backlog>>
  \/ /\ Cardinality(open) < MaxFds
     /\ backlog # <<>>
     /\ nsfd' = Head(backlog)
     /\ open' = open \cup {Head(backlog)}
     /\ backlog' = Tail(backlog)

Accept1 ==
  /\ At("accept1")
  /\ AcceptFrom(backlog1)
  /\ Goto("load1")
  /\ UNCHANGED <<counters, backlog2, client, interrupted, reg, child, signalVars,
                 threadVars, strays, races>>

(* curr1++, whether or not accept succeeded.                               *)
Load1 ==
  /\ At("load1")
  /\ reg' = curr1
  /\ Goto("store1")
  /\ UNCHANGED <<counters, network, interrupted, nsfd, open, child, signalVars,
                 threadVars, strays, races>>

Store1 ==
  /\ At("store1")
  /\ curr1' = reg + 1
  /\ reg' = 0
  /\ race1' = (race1 \/ handling # {})
  /\ Goto("fork")
  /\ UNCHANGED <<curr2, network, interrupted, nsfd, open, child, signalVars,
                 threadVars, strays, race2>>

(* The processes the server has: it never waits, so zombies count.         *)
Procs == {c \in Clients1 : child[c] # "none"}

(* Mutant: the parent gives the slot back without looking what fork did.   *)
ForkReleasesSlot ==
  /\ At("fork")
  /\ IF nsfd # NoConn /\ Cardinality(Procs) < MaxProcs
     THEN child' = [child EXCEPT ![nsfd] = "read"] /\ UNCHANGED client
     ELSE /\ client' = [c \in Clients |-> IF c = nsfd THEN "closed" ELSE client[c]]
          /\ UNCHANGED child
  /\ curr1' = curr1 - 1
  /\ open' = open \ {nsfd}
  /\ nsfd' = NoConn
  /\ Goto("select")
  /\ UNCHANGED <<curr2, backlog1, backlog2, interrupted, reg, signalVars, threadVars, strays, races>>

(* if(nsfd > 0) fork; the parent closes nsfd whether or not fork worked,   *)
(* so a client whose fork failed reads end-of-file.  The child closes sfd1 *)
(* (whose number dup(stdin) takes again) and calls execv; when that        *)
(* returns it goes on in the select loop, with nsfd and sfd2 still open.   *)
Fork ==
  /\ At("fork")
  /\ \/ nsfd = NoConn /\ UNCHANGED <<client, child>>
     \/ /\ nsfd # NoConn /\ Cardinality(Procs) < MaxProcs
        /\ \E outcome \in {"read", "server"} : child' = [child EXCEPT ![nsfd] = outcome]
        /\ UNCHANGED client
     \/ /\ nsfd # NoConn /\ Cardinality(Procs) >= MaxProcs
        /\ client' = [client EXCEPT ![nsfd] = "closed"]
        /\ UNCHANGED child
  /\ open' = open \ {nsfd}
  /\ nsfd' = NoConn
  /\ Goto("select")
  /\ UNCHANGED <<counters, backlog1, backlog2, interrupted, reg, signalVars,
                 threadVars, strays, races>>

Test2 ==
  /\ At("test2")
  /\ Goto(IF curr2 <= Limit2 THEN "accept2" ELSE "select")
  /\ UNCHANGED <<counters, network, interrupted, nsfd, reg, open, child, signalVars,
                 threadVars, strays, races>>

(* Mutant: both branches accept from sfd1.                                 *)
Accept2FromSfd1 ==
  /\ At("accept2")
  /\ AcceptFrom(backlog1)
  /\ Goto("load2")
  /\ UNCHANGED <<counters, backlog2, client, interrupted, reg, child, signalVars,
                 threadVars, strays, races>>

Accept2 ==
  /\ At("accept2")
  /\ AcceptFrom(backlog2)
  /\ Goto("load2")
  /\ UNCHANGED <<counters, backlog1, client, interrupted, reg, child, signalVars,
                 threadVars, strays, races>>

Load2 ==
  /\ At("load2")
  /\ reg' = curr2
  /\ Goto("store2")
  /\ UNCHANGED <<counters, network, interrupted, nsfd, open, child, signalVars,
                 threadVars, strays, races>>

(* The threads that have loaded curr2 and not yet stored it.               *)
Decrementing == {t \in Threads : thread[t] = "store"}

Store2 ==
  /\ At("store2")
  /\ curr2' = reg + 1
  /\ reg' = 0
  /\ race2' = IF Decrementing = {} THEN race2 ELSE race2 + 1
  /\ Goto("create")
  /\ UNCHANGED <<curr1, network, interrupted, nsfd, open, child, signalVars,
                 threadVars, strays, race1>>

(* malloc a struct threadargs, store nsfd in it (a failed accept's -1      *)
(* too), create the thread.  The server keeps the descriptor open.  The    *)
(* result of pthread_create is not looked at: when it fails (the kernel's  *)
(* limit on processes and threads, no memory for a stack) nobody serves    *)
(* the connection and nobody will decrement curr2.                         *)
Create ==
  /\ At("create")
  /\ \/ \E t \in Threads :
          /\ thread[t] = "none"
          /\ thread' = [thread EXCEPT ![t] = "start"]
          /\ arg' = [arg EXCEPT ![t] = nsfd]
          /\ UNCHANGED <<leaked, stranded>>
     \/ /\ leaked' = leaked + 1
        /\ stranded' = stranded \cup ({nsfd} \cap Clients2)
        /\ UNCHANGED <<thread, arg>>
  /\ nsfd' = NoConn
  /\ Goto("select")
  /\ UNCHANGED <<counters, network, interrupted, reg, open, child, signalVars,
                 conn, treg, taken, races>>

MainStep == SelectReady \/ SelectInterrupted \/ Test1 \/ Accept1 \/ Load1 \/ Store1
            \/ Fork \/ Test2 \/ Accept2 \/ Load2 \/ Store2 \/ Create

-----------------------------------------------------------------------------
(* thread_func, service 2.                                                 *)

ThreadAt(t, label) == thread[t] = label /\ t \notin handling

(* Mutant: the thread is handed the address of main's nsfd.                *)
ThreadStartFromMain(t) ==
  /\ ThreadAt(t, "start")
  /\ conn' = [conn EXCEPT ![t] = nsfd]
  /\ thread' = [thread EXCEPT ![t] = "recv"]
  /\ UNCHANGED <<counters, network, mainVars, child, signalVars, arg, treg, strays, races>>

ThreadStart(t) ==
  /\ ThreadAt(t, "start")
  /\ conn' = [conn EXCEPT ![t] = arg[t]]
  /\ thread' = [thread EXCEPT ![t] = "recv"]
  /\ UNCHANGED <<counters, network, mainVars, child, signalVars, arg, treg, strays, races>>

(* recv, then send the length of what came.  On the -1 of a failed accept  *)
(* both calls fail and nobody notices.                                     *)
ThreadServe(t) ==
  /\ ThreadAt(t, "recv")
  /\ \/ conn[t] = NoConn /\ UNCHANGED client
     \/ /\ conn[t] # NoConn /\ client[conn[t]] = "sent"
        /\ client' = [client EXCEPT ![conn[t]] = "replied"]
  /\ thread' = [thread EXCEPT ![t] = "load"]
  /\ UNCHANGED <<counters, backlog1, backlog2, mainVars, child, signalVars,
                 arg, conn, treg, strays, races>>

(* curr2--; the thread returns without closing its descriptor.             *)
ThreadLoad(t) ==
  /\ ThreadAt(t, "load")
  /\ treg' = [treg EXCEPT ![t] = curr2]
  /\ thread' = [thread EXCEPT ![t] = "store"]
  /\ UNCHANGED <<counters, network, mainVars, child, signalVars, arg, conn, strays, races>>

(* Mutant: the thread does not give its slot back.                         *)
ThreadStoreKeepsSlot(t) ==
  /\ ThreadAt(t, "store")
  /\ treg' = [treg EXCEPT ![t] = 0]
  /\ race2' = IF pc # "store2" /\ Decrementing = {t} THEN race2 ELSE race2 + 1
  /\ thread' = [thread EXCEPT ![t] = "done"]
  /\ UNCHANGED <<counters, network, mainVars, child, signalVars, arg, conn, strays, race1>>

ThreadStore(t) ==
  /\ ThreadAt(t, "store")
  /\ curr2' = treg[t] - 1
  /\ treg' = [treg EXCEPT ![t] = 0]
  /\ race2' = IF pc # "store2" /\ Decrementing = {t} THEN race2 ELSE race2 + 1
  /\ thread' = [thread EXCEPT ![t] = "done"]
  /\ UNCHANGED <<curr1, network, mainVars, child, signalVars, arg, conn, strays, race1>>

ThreadStep(t) == ThreadStart(t) \/ ThreadServe(t) \/ ThreadLoad(t) \/ ThreadStore(t)

-----------------------------------------------------------------------------
(* A child whose execv returned.  It has its own curr1 and curr2 and its   *)
(* own descriptor table, so they may or may not let it accept and create a *)
(* thread.  Its accept on port 5000 fails (the number is a terminal's), so *)
(* it never forks.                                                         *)

Strays == {c \in Clients1 : child[c] = "server"}

StrayAccept ==
  /\ Strays # {} /\ backlog2 # <<>>
  /\ backlog2' = Tail(backlog2)
  /\ \/ taken' = taken \cup {Head(backlog2)} /\ UNCHANGED stranded
     \/ stranded' = stranded \cup {Head(backlog2)} /\ UNCHANGED taken
  /\ UNCHANGED <<counters, backlog1, client, mainVars, child, signalVars, threadVars,
                 leaked, races>>

(* thread_func in that child: recv and send.                               *)
StrayServe(c) ==
  /\ c \in taken /\ client[c] = "sent"
  /\ client' = [client EXCEPT ![c] = "replied"]
  /\ taken' = taken \ {c}
  /\ UNCHANGED <<counters, backlog1, backlog2, mainVars, child, signalVars, threadVars,
                 leaked, stranded, races>>

-----------------------------------------------------------------------------
(* service1, the child process, and the SIGUSR1 it sends.                  *)

ChildRead(c) ==
  /\ child[c] = "read"
  /\ client[c] = "sent"
  /\ child' = [child EXCEPT ![c] = "stdin"]
  /\ UNCHANGED <<counters, network, mainVars, signalVars, threadVars, strays, races>>

(* The operator types a line.  All children read the same terminal: which  *)
(* of them gets the line is not determined.                                *)
ChildAnswer(c) ==
  /\ child[c] = "stdin"
  /\ child' = [child EXCEPT ![c] = "notify"]
  /\ client' = [client EXCEPT ![c] = "replied"]
  /\ UNCHANGED <<counters, backlog1, backlog2, mainVars, signalVars, threadVars, strays, races>>

ChildNotify(c) ==
  /\ child[c] = "notify"
  /\ child' = [child EXCEPT ![c] = "zombie"]
  /\ pending' = TRUE
  /\ UNCHANGED <<counters, network, mainVars, handling, hreg, threadVars, strays, races>>

(* A signal sent to the process goes to any thread that does not block it. *)
Alive == {Main} \cup {t \in Threads : thread[t] \notin {"none", "done"}}

TakeSignal(x) ==
  /\ x \in Alive
  /\ Deliver(x)
  /\ UNCHANGED <<counters, network, mainVars, child, threadVars, strays, races>>

(* The store of curr1-- in sig_handler1.                                   *)
HandlerStore(x) ==
  /\ x \in handling
  /\ curr1' = hreg[x] - 1
  /\ hreg' = [hreg EXCEPT ![x] = 0]
  /\ handling' = handling \ {x}
  /\ UNCHANGED <<curr2, network, mainVars, child, pending, threadVars, strays, races>>

-----------------------------------------------------------------------------
Next ==
  \/ \E c \in Clients1 : Connect1(c) \/ ChildRead(c) \/ ChildAnswer(c) \/ ChildNotify(c)
  \/ \E c \in Clients2 : Connect2(c) \/ StrayServe(c)
  \/ StrayAccept
  \/ \E c \in Clients : ClientSend(c)
  \/ MainStep
  \/ \E t \in Threads : ThreadStep(t)
  \/ \E x \in Contexts : TakeSignal(x) \/ HandlerStore(x)

Spec == Init /\ [][Next]_vars

(* The server's threads are scheduled; clients, the operator, the arrival  *)
(* of connections and a stray child owe nothing.                           *)
Fairness ==
  /\ WF_vars(MainStep)
  /\ \A t \in Threads : WF_vars(ThreadStep(t))
  /\ \A x \in Contexts : WF_vars(HandlerStore(x))

FairSpec == Spec /\ Fairness

-----------------------------------------------------------------------------
(***************************************************************************)
(* Properties                                                              *)
(***************************************************************************)

TypeOK ==
  /\ curr1 \in Int /\ curr2 \in Int
  /\ backlog1 \in Seq(Clients1) /\ backlog2 \in Seq(Clients2)
  /\ client \in [Clients -> ClientStates]
  /\ pc \in MainStates /\ interrupted \in BOOLEAN
  /\ nsfd \in Clients \cup {NoConn} /\ reg \in Int
  /\ open \in SUBSET Clients
  /\ child \in [Clients1 -> ChildStates]
  /\ pending \in BOOLEAN
  /\ handling \in SUBSET Contexts /\ hreg \in [Contexts -> Int]
  /\ thread \in [Threads -> ThreadStates]
  /\ arg \in [Threads -> Clients2 \cup {NoConn}]
  /\ conn \in [Threads -> Clients2 \cup {NoConn}]
  /\ treg \in [Threads -> Int]
  /\ leaked \in Nat /\ taken \in SUBSET Clients2 /\ stranded \in SUBSET Clients2
  /\ race1 \in BOOLEAN /\ race2 \in Nat

(* The children that have not reported their end yet.                      *)
Busy1 == {c \in Clients1 : child[c] \in {"read", "stdin", "notify"}}

(* What curr1 has to cover: the busy children, the one about to be forked, *)
(* and the ends that were reported and not yet subtracted.                 *)
Outstanding1 ==
  Cardinality(Busy1) + Cardinality(handling)
  + (IF pending THEN 1 ELSE 0)
  + (IF pc = "fork" /\ nsfd # NoConn THEN 1 ELSE 0)

(* At most Limit1 + 1 children of service 1 run at a time, whatever is     *)
(* lost when SIGUSR1s merge or a handler interrupts curr1++ -- unless a    *)
(* handler on another thread was between its load and its store when the   *)
(* main loop stored curr1 (su_server.cpp:97,102,31).                       *)
Admission1 == ~race1 => Cardinality(Busy1) <= Limit1 + 1

(* curr1 may run ahead of the children it counts but never behind them:    *)
(* this is why service 1 can lose slots for ever and still never admits    *)
(* too many (su_server.cpp:31,102).                                        *)
NeverUndercounts1 ==
  ~race1 =>
    /\ curr1 >= Outstanding1
    /\ pc = "store1" => reg >= Outstanding1
    /\ \A x \in handling : hreg[x] >= Outstanding1

(* The threads of service 2 that have not given their slot back.           *)
Live2 == {t \in Threads : thread[t] \in {"start", "recv", "load", "store"}}

(* What curr2 is meant to count: the threads that hold a slot, the one     *)
(* between curr2++ and pthread_create, and those that were never created.  *)
Slots2 == Cardinality(Live2) + (IF pc = "create" THEN 1 ELSE 0) + leaked

(* curr2 is off by at most one for every read-modify-write of it that      *)
(* overtook another, and at most so many threads more than Limit2 + 1      *)
(* run.  Without an overlap it is exact, a unit for every thread that was  *)
(* never created included, so each such failure costs the service a slot   *)
(* for ever (su_server.cpp:42,129,133,137).                                *)
Accounting2 ==
  /\ Slots2 - race2 <= curr2 /\ curr2 <= Slots2 + race2
  /\ Cardinality(Live2) + leaked <= Limit2 + 1 + race2

(* The loop only sits in accept on port 5000 with no connection waiting if *)
(* the select before it was interrupted.  After an interrupted select the  *)
(* else branch is not reached, so in accept on port 5001 it only sits when *)
(* a child whose execv failed has taken the connection that select saw     *)
(* (su_server.cpp:93-131).                                                 *)
AcceptBlocksOnlyWhenInterrupted ==
  /\ pc \in {"test1", "accept1"} /\ backlog1 = <<>> => interrupted
  /\ pc \in {"test2", "accept2"} /\ backlog2 = <<>> => Strays # {}

(* Who holds a connection that is not yet answered.                        *)
Owners(c) ==
  {o \in {"backlog"} : \/ \E i \in DOMAIN backlog1 : backlog1[i] = c
                      \/ \E i \in DOMAIN backlog2 : backlog2[i] = c}
  \cup {o \in {"main"} : nsfd = c}
  \cup {o \in {"child"} : c \in Busy1}
  \cup {o \in {"stray"} : c \in taken}
  \cup {t \in Threads : \/ thread[t] = "start" /\ arg[t] = c
                        \/ thread[t] = "recv" /\ conn[t] = c}

(* The clients whose connection is open and that nobody will answer: their *)
(* thread was not created, or execv of their service1 returned.            *)
Forsaken == stranded \cup Strays

(* A connection waiting for an answer has exactly one owner, but for those *)
(* an unchecked pthread_create or execv has left to nobody: those have     *)
(* none and are not answered by anyone later.  The hand-over through a     *)
(* malloc'ed threadargs never gives a client to two threads, nor to a      *)
(* thread and a stray child (su_server.cpp:37,118,131,135-137).            *)
OneOwner ==
  \A c \in Clients : client[c] \in {"connected", "sent"} =>
    Cardinality(Owners(c)) = IF c \in Forsaken THEN 0 ELSE 1

(* The threads whose client has not sent anything yet.                     *)
Idle2 == {t \in Threads :
            thread[t] = "recv" /\ conn[t] # NoConn /\ client[conn[t]] = "connected"}

(* Why a client of service 2 may be left in the backlog: service 1 is full *)
(* and has a client waiting (the else branch is never reached); the loop   *)
(* sits in an interrupted accept on port 5000; an overlap has spoilt       *)
(* curr2; no descriptor is left; or every slot is lost with a thread that  *)
(* was never created or held by a client that does not send.               *)
Obstructed2 ==
  \/ backlog1 # <<>> /\ curr1 > Limit1
  \/ pc = "accept1" /\ backlog1 = <<>>
  \/ race2 > 0 /\ curr2 > Limit2
  \/ Cardinality(open) >= MaxFds
  \/ leaked + Cardinality(Idle2) > Limit2

InBacklog2(c) == \E i \in DOMAIN backlog2 : backlog2[i] = c

(* Apart from these reasons a client of service 2 is accepted, however     *)
(* many clients of service 1 come and go (su_server.cpp:87-140).           *)
Service2Progress ==
  \A c \in Clients2 : InBacklog2(c) ~> (~InBacklog2(c) \/ Obstructed2)

(* The children of service 1 as callers of the abstract limit; it breaks   *)
(* when main's store to curr1 overtakes a handler on another thread.       *)
Service1 == INSTANCE AdmissionControl WITH
  Callers <- Clients1, Limit <- Limit1,
  active <- Busy1, gone <- {c \in Clients1 : child[c] = "zombie"}, broken <- race1

(* However accepts and forks fail, signals merge and the handler           *)
(* interrupts main, the forked children are admitted and leave as the      *)
(* abstract concurrency limit says, and no step but that store breaks it   *)
(* (su_server.cpp:97-124, 29-32).                                          *)
Service1Admission == Service1!Spec
=============================================================================
