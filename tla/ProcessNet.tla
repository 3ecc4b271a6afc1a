----------------------------- MODULE ProcessNet -----------------------------
(***************************************************************************)
(* The small programs of src/pipes, src/select, src/socket_rev/basic,      *)
(* src/message_queues/p123 and src/message_queues/chat_server.  Each of    *)
(* them is a loop of blocking calls, so a program is data here -- the      *)
(* steps it goes through -- and there is one action for each kind of step. *)
(* What is hard lies in the calls: a read at end of file leaves the old    *)
(* contents of the buffer, a short one the end of them, and the whole      *)
(* buffer is passed on; a write nobody can read is SIGPIPE, ends stay open *)
(* in processes that never use them, a queue outlives its processes, two   *)
(* threads share one buffer.  Init chooses the system.                     *)
(***************************************************************************)
EXTENDS Naturals, Sequences, FiniteSets

CONSTANTS
  MaxLines,  \* lines a person, or a program that only prints, produces
  PipeCap,   \* lines a pipe, a socket or a terminal holds
  RingCap,   \* messages the queue of p123 holds
  ChatCap,   \* messages the queue of chat_server holds
  MaxKills,  \* processes that are killed
  MaxShort   \* bound: lines that leave something of older ones behind them

ASSUME BoundsAssumption == {MaxLines, PipeCap, RingCap, ChatCap} \subseteq Nat \ {0}
ASSUME CountsAssumption == {MaxKills, MaxShort} \subseteq Nat

VARIABLES
  net,    \* which system is run
  at,     \* the step each process or thread is at; 0 when it does not run
  buf,    \* the one buffer of each process, shared by its threads
  chan,   \* what is in each pipe, socket direction or type of message
  rset,   \* what select has reported
  mode,   \* permissions of the message queue
  reset,  \* sockets that answered a write with a reset
  trail,  \* the lines whose ends stand behind each line in its buffer
  shown,  \* how often each line was shown: 0, 1, or 2 for more
  stale,  \* a buffer was used that its last read had not filled, or had lost
  kills

vars == <<net, at, buf, chan, rset, mode, reset, trail, shown, stale, kills>>

-----------------------------------------------------------------------------
(* Programs: an operation and what it is applied to; loop is the step that *)
(* follows the last, 0 if the program ends.  owner is the process.         *)

Do(op, arg) == [op |-> op, arg |-> arg]
Program(owner, steps, loop) == [owner |-> owner, steps |-> steps, loop |-> loop]
Chan(kind, writers, readers) == [kind |-> kind, writers |-> writers, readers |-> readers]

Person(p, tty) == Program(p, <<Do("type", p), Do("write", tty)>>, 1)

(* upp a b.  A stage keeps the read ends of all pipes before its own: the  *)
(* child closes pp[1] only, and dup2 leaves pp[0] open across execvp.      *)
Upp ==
  [prog |-> [user |-> Person("user", "tty"),
             s1 |-> Program("s1", <<Do("spawn", "s2"), Do("read", "tty"), Do("write", "c1")>>, 2),
             s2 |-> Program("s2", <<Do("spawn", "s3"), Do("read", "c1"), Do("write", "c2")>>, 2),
             s3 |-> Program("s3", <<Do("read", "c2"), Do("show", "s3")>>, 1)],
   chan |-> [tty |-> Chan("pipe", {"user"}, {"s1"}),
             c1 |-> Chan("pipe", {"s1"}, {"s2", "s3"}),
             c2 |-> Chan("pipe", {"s2"}, {"s3"})]]

TwoPipes == [pp1 |-> Chan("pipe", {"parent"}, {"child"}), pp2 |-> Chan("pipe", {"child"}, {"parent"})]
ReadThenWrite(p, from, to) == <<Do("read", from), Do("show", p), Do("set", p), Do("write", to)>>

(* Mutant: the parent reads before it writes, as the child does.           *)
MultiWayBothRead ==
  [prog |-> [parent |-> Program("parent", <<Do("fork", "child")>> \o ReadThenWrite("parent", "pp2", "pp1"), 2),
             child |-> Program("child", ReadThenWrite("child", "pp1", "pp2"), 1)],
   chan |-> TwoPipes]

(* The two write to each other in turn.                                    *)
MultiWay ==
  [prog |-> [parent |-> Program("parent", <<Do("fork", "child"), Do("set", "parent"),
                          Do("write", "pp1"), Do("read", "pp2"), Do("show", "parent")>>, 2),
             child |-> Program("child", ReadThenWrite("child", "pp1", "pp2"), 1)],
   chan |-> TwoPipes]

(* One line to a program that prints it and ends.                          *)
ToPrint == Program("toprint", <<Do("read", "pp"), Do("show", "toprint")>>, 0)
PipeInp ==
  [prog |-> [parent |-> Program("parent", <<Do("spawn", "toprint"), Do("set", "parent"),
                          Do("write", "pp"), Do("wait", "toprint")>>, 0),
             toprint |-> ToPrint],
   chan |-> [pp |-> Chan("pipe", {"parent"}, {"toprint"})]]

(* sel, with two of its four sources: rset is filled again in each round,  *)
(* and a descriptor that select did not report is passed over.             *)
P_w(p, f) == Program(p, <<Do("type", p), Do("write", f)>>, 1)
P_r == Program("p_4", <<Do("read", "f4"), Do("show", "p_4")>>, 1)
Sel ==
  [prog |-> [p_0 |-> P_w("p_0", "f0"), p_1 |-> P_w("p_1", "f1"), p_4 |-> P_r,
             sel |-> Program("sel", <<Do("select", {"f0", "f1"}),
                       Do("isset", "f0"), Do("read", "f0"), Do("write", "f4"),
                       Do("isset", "f1"), Do("read", "f1"), Do("write", "f4")>>, 1)],
   chan |-> [f0 |-> Chan("pipe", {"p_0"}, {"sel"}), f1 |-> Chan("pipe", {"p_1"}, {"sel"}),
             f4 |-> Chan("pipe", {"sel"}, {"p_4"})]]

(* One connection; neither side looks at what read and write return.       *)
BasicServer == Program("server", <<Do("read", "up"), Do("show", "server"),
                                   Do("set", "server"), Do("write", "down")>>, 1)
BasicClient == Program("client", <<Do("set", "client"), Do("write", "up"),
                                   Do("read", "down"), Do("show", "client")>>, 1)
Basic ==
  [prog |-> [server |-> BasicServer, client |-> BasicClient],
   chan |-> [up |-> Chan("socket", {"client"}, {"server"}),
             down |-> Chan("socket", {"server"}, {"client"})]]

Queue == Chan("queue", {}, {})

(* Mutant: nobody waits for an answer.                                     *)
RingUnanswered ==
  LET Member(p, sends) == Program(p, <<Do("msgget", "0666"), Do("set", p), Do("write", sends)>>, 2)
  IN [prog |-> [p1 |-> Member("p1", "type1"), p2 |-> Member("p2", "type2"), p3 |-> Member("p3", "type3")],
      chan |-> [type1 |-> Queue, type2 |-> Queue, type3 |-> Queue]]

(* p123, run as "1 2", "2 3" and "3 1": argv[1] is sent, argv[2] awaited.  *)
RingMember(p, sends, awaits) ==
  Program(p, <<Do("msgget", "0666"), Do("set", p), Do("write", sends), Do("read", awaits), Do("show", p)>>, 2)
Ring ==
  [prog |-> [p1 |-> RingMember("p1", "type1", "type2"), p2 |-> RingMember("p2", "type2", "type3"),
             p3 |-> RingMember("p3", "type3", "type1")],
   chan |-> [type1 |-> Queue, type2 |-> Queue, type3 |-> Queue]]

(* Two chat clients, each with its two threads and the one global message. *)
(* The friend at the second one says nothing, so b_write stays in read.    *)
ReadMessage(p)       == Program(p, <<Do("msgget", "0666"), Do("read", "q"), Do("show", p)>>, 2)
WriteMessage(p, tty) == Program(p, <<Do("msgget", "066"), Do("read", tty), Do("write", "q")>>, 2)
Chat ==
  [prog |-> [a_read |-> ReadMessage("a"), a_write |-> WriteMessage("a", "ttya"),
             user |-> Person("user", "ttya"),
             b_read |-> ReadMessage("b"), b_write |-> WriteMessage("b", "ttyb"),
             friend |-> Program("friend", <<Do("wait", "friend")>>, 1)],
   chan |-> [ttya |-> Chan("pipe", {"user"}, {"a_write"}), ttyb |-> Chan("pipe", {"friend"}, {"b_write"}),
             q |-> Queue]]

Nets == [upp |-> Upp, multiway |-> MultiWay, pipeinp |-> PipeInp, sel |-> Sel,
         basic |-> Basic, ring |-> Ring, chat |-> Chat]

Persons == {"user", "friend"}
AllProcs == UNION {DOMAIN Nets[n].prog : n \in DOMAIN Nets}
Sources == Persons \cup {"p_0", "p_1"}
Lines == Sources \X (1 .. MaxLines)
Torn == <<"torn", 0>>

(* Those that others start.                                                *)
Children == {"s2", "s3", "child", "toprint"}

Init ==
  /\ net \in DOMAIN Nets
  /\ at = [p \in DOMAIN Nets[net].prog |-> IF p \in Children THEN 0 ELSE 1]
  /\ buf = [p \in {Nets[net].prog[q].owner : q \in DOMAIN Nets[net].prog} |-> <<p, 0>>]
  /\ chan = [c \in DOMAIN Nets[net].chan |-> <<>>]
  /\ rset = {} /\ mode = "none" /\ reset = {}
  /\ trail = [v \in Lines |-> {}] /\ shown = [v \in Lines |-> 0]
  /\ stale = FALSE /\ kills = 0

-----------------------------------------------------------------------------
Procs == DOMAIN at
Prog(p) == Nets[net].prog[p]
Owner(p) == Prog(p).owner
Running(p) == p \in Procs /\ at[p] # 0
Step(p) == Prog(p).steps[at[p]]
Calls(p, op) == Running(p) /\ Step(p).op = op
Kind(c) == Nets[net].chan[c].kind

Goto(p, i) == at' = [at EXCEPT ![p] = IF i > Len(Prog(p).steps) THEN Prog(p).loop ELSE i]
Onward(p) == Goto(p, at[p] + 1)
Dies(p) == at' = [q \in Procs |-> IF Owner(q) = Owner(p) THEN 0 ELSE at[q]]

CanWrite(c) == \E p \in Nets[net].chan[c].writers : Running(p)
CanRead(c) == \E p \in Nets[net].chan[c].readers : Running(p)
QueueCap == IF net = "ring" THEN RingCap ELSE ChatCap
Messages == UNION {{c} \X DOMAIN chan[c] : c \in {d \in DOMAIN chan : Kind(d) = "queue"}}
Queued == Cardinality(Messages)

(* Mutant: one more fits.                                                  *)
RoomOffByOne(c) == IF Kind(c) = "queue" THEN Queued <= QueueCap ELSE Len(chan[c]) <= PipeCap

(* Where a write and where a read does not block.                          *)
Room(c) == IF Kind(c) = "queue" THEN Queued < QueueCap ELSE Len(chan[c]) < PipeCap

Ready(c) == chan[c] # <<>> \/ ~CanWrite(c)

(* The queue was made by write_message, with msgget(key, 066 | IPC_CREAT): *)
(* its own user may neither send nor receive.                              *)
Denied(c) == Kind(c) = "queue" /\ mode = "066"

(* The other thread holds in the shared buffer what it has yet to use, or  *)
(* is about to be given its data at the same time.                         *)
InUse(p) == \E q \in Procs \ {p} :
  Owner(q) = Owner(p) /\ Running(q) /\ Step(q).op \in {"write", "show"}
Racing(p) == \E q \in Procs \ {p} :
  Owner(q) = Owner(p) /\ Calls(q, "read") /\ chan[Step(q).arg] # <<>>

-----------------------------------------------------------------------------
(* The calls.                                                              *)

(* The next line of a person or a printing program.                        *)
Type(p) ==
  /\ Calls(p, "type") /\ buf[p][2] < MaxLines
  /\ buf' = [buf EXCEPT ![p][2] = @ + 1]
  /\ Onward(p)
  /\ UNCHANGED <<net, chan, rset, mode, reset, trail, shown, stale, kills>>

(* strcpy of a fixed text.                                                 *)
Set(p) ==
  /\ Calls(p, "set")
  /\ buf' = [buf EXCEPT ![Owner(p)] = <<Owner(p), 0>>]
  /\ Onward(p)
  /\ UNCHANGED <<net, chan, rset, mode, reset, trail, shown, stale, kills>>

(* The lines of which a new line can leave something in a buffer: the one  *)
(* it comes over, and those whose ends were behind that one.               *)
Remains(old) == IF old \in Lines THEN {old} \cup trail[old] ELSE {}

(* A person or a program writes lines of any length; every other block has *)
(* the size of the buffer it is read into.                                 *)
FromSource(c) == Nets[net].chan[c].writers \cap Sources # {}

(* v is read over old.                                                     *)
Over(c, v, old) ==
  IF FromSource(c) /\ v \in Lines
  THEN \E kept \in SUBSET (Remains(old) \ {v}) :
         /\ kept # {} => Cardinality({u \in Lines : trail[u] # {}}) < MaxShort
         /\ trail' = [trail EXCEPT ![v] = kept]
  ELSE UNCHANGED trail

(* Mutant: what is read is read again.                                     *)
ReadKeeps(p) ==
  /\ Calls(p, "read")
  /\ LET c == Step(p).arg IN
       /\ chan[c] # <<>> /\ ~Denied(c)
       /\ buf' = [buf EXCEPT ![Owner(p)] = Head(chan[c])]
       /\ Over(c, Head(chan[c]), buf[Owner(p)])
       /\ stale' = (stale \/ InUse(p))
  /\ Onward(p)
  /\ UNCHANGED <<net, chan, rset, mode, reset, shown, kills>>

(* Data is taken; or, at end of file, after a reset and without permission,*)
(* nothing is, and no program looks at the result.                         *)
Read(p) ==
  /\ Calls(p, "read")
  /\ LET c == Step(p).arg IN
       \/ /\ chan[c] # <<>> /\ ~Denied(c)
          /\ chan' = [chan EXCEPT ![c] = Tail(@)]
          /\ \/ /\ buf' = [buf EXCEPT ![Owner(p)] = Head(chan[c])]
                /\ Over(c, Head(chan[c]), buf[Owner(p)])
                /\ stale' = (stale \/ InUse(p))
             \/ /\ Racing(p)
                /\ buf' = [buf EXCEPT ![Owner(p)] = Torn]
                /\ stale' = TRUE /\ UNCHANGED trail
       \/ /\ \/ Denied(c)
             \/ Kind(c) = "pipe" /\ chan[c] = <<>> /\ ~CanWrite(c)
             \/ Kind(c) = "socket" /\ ~CanWrite(c)
          /\ stale' = TRUE
          /\ UNCHANGED <<buf, chan, trail>>
  /\ Onward(p)
  /\ UNCHANGED <<net, rset, mode, reset, shown, kills>>

(* Mutant: a write nobody can read goes on, as if SIGPIPE were ignored.    *)
WriteOn(p) ==
  /\ Calls(p, "write")
  /\ LET c == Step(p).arg IN
       IF Kind(c) = "queue" \/ CanRead(c)
       THEN Room(c) /\ chan' = [chan EXCEPT ![c] = Append(@, buf[Owner(p)])]
       ELSE UNCHANGED chan
  /\ Onward(p)
  /\ UNCHANGED <<net, buf, rset, mode, reset, trail, shown, stale, kills>>

(* A write waits for room; without a reader it is SIGPIPE, on a socket     *)
(* perhaps only the second time; without permission nothing is sent.       *)
Write(p) ==
  /\ Calls(p, "write")
  /\ LET c == Step(p).arg IN
       \/ /\ Kind(c) = "queue" \/ CanRead(c)
          /\ Room(c) /\ ~Denied(c)
          /\ \/ chan' = [chan EXCEPT ![c] = Append(@, buf[Owner(p)])] /\ UNCHANGED stale
             \/ Racing(p) /\ chan' = [chan EXCEPT ![c] = Append(@, Torn)] /\ stale' = TRUE
          /\ Onward(p)
          /\ UNCHANGED reset
       \/ /\ Denied(c) /\ Onward(p) /\ stale' = TRUE
          /\ UNCHANGED <<chan, reset>>
       \/ /\ Kind(c) # "queue" /\ ~CanRead(c)
          /\ Dies(p)
          /\ UNCHANGED <<chan, reset, stale>>
       \/ /\ Kind(c) = "socket" /\ ~CanRead(c) /\ c \notin reset
          /\ reset' = reset \cup {c} /\ Onward(p)
          /\ UNCHANGED <<chan, stale>>
  /\ UNCHANGED <<net, buf, rset, mode, trail, shown, kills>>

(* printf of the buffer, or write(1, ...).                                 *)
Show(p) ==
  /\ Calls(p, "show")
  /\ LET v == buf[Owner(p)] IN
       shown' = IF v \in Lines /\ shown[v] < 2 THEN [shown EXCEPT ![v] = @ + 1] ELSE shown
  /\ Onward(p)
  /\ UNCHANGED <<net, buf, chan, rset, mode, reset, trail, stale, kills>>

(* The child runs; or its exec fails and it ends; or there is no child and *)
(* the caller ends.                                                        *)
Fork(p) ==
  /\ Calls(p, "fork") \/ Calls(p, "spawn")
  /\ \/ at' = [at EXCEPT ![Step(p).arg] = 1, ![p] = @ + 1]
     \/ Calls(p, "spawn") /\ Onward(p)
     \/ Dies(p)
  /\ UNCHANGED <<net, buf, chan, rset, mode, reset, trail, shown, stale, kills>>

Wait(p) ==
  /\ Calls(p, "wait") /\ ~Running(Step(p).arg)
  /\ Onward(p)
  /\ UNCHANGED <<net, buf, chan, rset, mode, reset, trail, shown, stale, kills>>

Msgget(p) ==
  /\ Calls(p, "msgget")
  /\ mode' = IF mode = "none" THEN Step(p).arg ELSE mode
  /\ Onward(p)
  /\ UNCHANGED <<net, buf, chan, rset, reset, trail, shown, stale, kills>>

(* Mutant: select(m, ...) instead of select(m+1, ...).                     *)
SelectOffByOne(p) ==
  /\ Calls(p, "select")
  /\ rset' = {c \in Step(p).arg \ {"f1"} : Ready(c)}
  /\ rset' # {}
  /\ Onward(p)
  /\ UNCHANGED <<net, buf, chan, mode, reset, trail, shown, stale, kills>>

Select(p) ==
  /\ Calls(p, "select")
  /\ rset' = {c \in Step(p).arg : Ready(c)}
  /\ rset' # {}
  /\ Onward(p)
  /\ UNCHANGED <<net, buf, chan, mode, reset, trail, shown, stale, kills>>

IsSet(p) ==
  /\ Calls(p, "isset")
  /\ Goto(p, IF Step(p).arg \in rset THEN at[p] + 1 ELSE at[p] + 3)
  /\ UNCHANGED <<net, buf, chan, rset, mode, reset, trail, shown, stale, kills>>

Proceed(p) ==
  \/ Type(p) \/ Set(p) \/ Read(p) \/ Write(p) \/ Show(p)
  \/ Fork(p) \/ Wait(p) \/ Msgget(p) \/ Select(p) \/ IsSet(p)

(* A process is killed; the programs on a queue may be started again, and  *)
(* find in it what was left.                                               *)
Kill(p) ==
  /\ Running(p) /\ kills < MaxKills
  /\ Dies(p) /\ kills' = kills + 1
  /\ UNCHANGED <<net, buf, chan, rset, mode, reset, trail, shown, stale>>

Restart(p) ==
  /\ net \in {"ring", "chat"} /\ p \notin Persons /\ ~Running(p)
  /\ at' = [q \in Procs |-> IF Owner(q) = Owner(p) THEN 1 ELSE at[q]]
  /\ buf' = [buf EXCEPT ![Owner(p)] = <<Owner(p), 0>>]
  /\ UNCHANGED <<net, chan, rset, mode, reset, trail, shown, stale, kills>>

Next == \E p \in Procs : Proceed(p) \/ Kill(p) \/ Restart(p)

Spec == Init /\ [][Next]_vars

(* Programs run; persons type, kill and restart when they like.  Each set  *)
(* has one process or thread of every system.                              *)
Seats == {{"s1", "parent", "sel", "server", "p1", "a_read"},
          {"s2", "child", "toprint", "p_4", "client", "p2", "a_write"},
          {"s3", "p3", "p_0", "b_read"}, {"p_1", "b_write"}}

Fairness == \A seat \in Seats : WF_vars(\E p \in seat : Proceed(p))

FairSpec == Spec /\ Fairness

-----------------------------------------------------------------------------
(***************************************************************************)
(* Properties                                                              *)
(***************************************************************************)

Values == Lines \cup {Torn} \cup ({Owner(p) : p \in Procs} \X {0})

TypeOK ==
  /\ net \in DOMAIN Nets
  /\ at \in [Procs -> 0 .. 7] /\ \A p \in Procs : at[p] <= Len(Prog(p).steps)
  /\ buf \in [{Owner(p) : p \in Procs} -> Values]
  /\ \A c \in DOMAIN chan :
       chan[c] \in Seq(Values) /\ (Kind(c) # "queue" => Len(chan[c]) <= PipeCap)
  /\ Queued <= QueueCap
  /\ rset \subseteq DOMAIN chan /\ reset \subseteq DOMAIN chan
  /\ mode \in {"none", "066", "0666"}
  /\ trail \in [Lines -> SUBSET Lines] /\ shown \in [Lines -> 0 .. 2]
  /\ stale \in BOOLEAN /\ kills \in 0 .. MaxKills

(* No line is read twice and shown twice before some buffer was used that  *)
(* was not filled at all.  What comes through pipes comes in order, without*)
(* a gap, even after that, when old lines are repeated at end of file; and *)
(* a line has behind it, where a short read left the end of the buffer as  *)
(* it was, only ends of lines shown before, none that is new (upp.c:20-34, *)
(* sel.c:39-47).  In the chat a line is lost or doubled only when both     *)
(* threads had the global message in hand (client.c:17-37).                *)
Faithful ==
  /\ ~stale => \A v \in Lines : shown[v] <= 1
  /\ net # "chat" =>
       \A v \in Lines : shown[v] > 0 => /\ \A n \in 1 .. v[2] : shown[<<v[1], n>>] > 0
                                         /\ \A w \in trail[v] : shown[w] > 0

(* A p123 process leaves at most one message that was not answered in the  *)
(* queue, and one more each time it is killed and started again            *)
(* (main.c:26-33).                                                         *)
LeftOver == net = "ring" => Queued <= Cardinality(Procs) + kills

Whole == \A p \in Procs \ Persons : Running(p)

(* As long as every program runs and no buffer was used out of turn, what  *)
(* was written is shown at the other end; no source of sel is starved by   *)
(* the other, since each round serves all that were ready (sel.c:28-48).   *)
Pending == {v \in Lines : shown[v] = 0 /\ \E c \in DOMAIN chan : \E i \in DOMAIN chan[c] : chan[c][i] = v}
Delivered == Pending # {} ~> Pending = {} \/ stale \/ ~Whole

(* Programs that answer each other go on for ever: parent, server and p1   *)
(* do not wait for a message for good, and so neither do their partners,   *)
(* unless a process is missing or the queue is full                        *)
(* (multiwaypipe.c:22-40, p123/main.c:26-33, basic/server.c:31-52).        *)
Awaiting == \E p \in {"parent", "server", "p1"} : Calls(p, "read")
GoesOn == Awaiting ~> ~Awaiting \/ ~Whole \/ Queued = QueueCap

(* What p writes, nobody can read; and it is not waiting for input.        *)
Unread(p) == p \notin Persons /\ Running(p) /\ \E c \in DOMAIN chan :
  /\ Kind(c) # "queue" /\ ~CanRead(c)
  /\ Do("write", c) \in {Prog(p).steps[i] : i \in DOMAIN Prog(p).steps}
Waits(p) ==
  \/ Calls(p, "type")
  \/ Calls(p, "read") /\ ~Ready(Step(p).arg)
  \/ Calls(p, "select") /\ \A c \in Step(p).arg : ~Ready(c)

(* A process whose output can no longer be read ends, or waits for input:  *)
(* the end of a stage, a partner or p_4 works its way upstream by SIGPIPE  *)
(* (upp.c:30-35).  A read end that a later stage of upp still holds counts *)
(* as a reader, so there the stage before a killed one lives on.           *)
EndSpreads == (\E p \in Procs : Unread(p)) ~> \A p \in Procs : ~Unread(p) \/ Waits(p)
=============================================================================
