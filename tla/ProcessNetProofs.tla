--------------------------- MODULE ProcessNetProofs ---------------------------
(***************************************************************************)
(* Proofs about ProcessNet, for any number of lines and kills and queues   *)
(* and pipes of any size.                                                  *)
(***************************************************************************)
EXTENDS ProcessNet, QueueLemmas, SequenceTheorems, FiniteSetTheorems, TLAPS

(* A step that uses what is in the buffer; p is about to take one.         *)
Uses == {"write", "show"}
InHand(p) == Running(p) /\ Step(p).op \in Uses

(* The types; what TypeOK leaves out is that a source types its own lines. *)
OwnersOf(n) == {Nets[n].prog[p].owner : p \in DOMAIN Nets[n].prog}
ValuesOf(n) == Lines \cup {Torn} \cup (OwnersOf(n) \X {0})
AtOK ==
  /\ at \in [DOMAIN Nets[net].prog -> 0 .. 7]
  /\ \A p \in DOMAIN at : at[p] <= Len(Nets[net].prog[p].steps)
BufOK ==
  /\ buf \in [OwnersOf(net) -> ValuesOf(net)]
  /\ \A s \in Sources \cap OwnersOf(net) : buf[s] \in {s} \X (0 .. MaxLines)
ChanOK ==
  /\ chan \in [DOMAIN Nets[net].chan -> Seq(ValuesOf(net))]
  /\ \A c \in DOMAIN chan : Kind(c) # "queue" => Len(chan[c]) <= PipeCap
QueueOK == IsFiniteSet(Messages) /\ Queued <= QueueCap
RestOK ==
  /\ rset \subseteq DOMAIN chan /\ reset \subseteq DOMAIN chan
  /\ mode \in {"none", "066", "0666"}
  /\ trail \in [Lines -> SUBSET Lines] /\ shown \in [Lines -> 0 .. 2]
  /\ stale \in BOOLEAN /\ kills \in 0 .. MaxKills
Typed == net \in DOMAIN Nets /\ AtOK /\ BufOK /\ ChanOK /\ QueueOK /\ RestOK

(* A line exists only once its source has typed it.                        *)
WasTyped(b, v) == v \in Lines => v[1] \in DOMAIN b /\ v[2] <= b[v[1]][2]
Known ==
  /\ \A p \in Procs : WasTyped(buf, buf[Owner(p)])
  /\ \A c \in DOMAIN chan : \A i \in DOMAIN chan[c] : WasTyped(buf, chan[c][i])
  /\ \A v \in Lines : shown[v] > 0 \/ trail[v] # {} => WasTyped(buf, v)

(* As long as no buffer was used out of turn a line is in one place only:  *)
(* on its way, in a process that will use it, or shown.                    *)
OneHand == \A p, q \in Procs : InHand(p) /\ InHand(q) =>
  /\ Owner(p) = Owner(q) => p = q
  /\ buf[Owner(p)] \in Lines /\ buf[Owner(p)] = buf[Owner(q)] => p = q
OnePlace == \A c, d \in DOMAIN chan : \A i \in DOMAIN chan[c], j \in DOMAIN chan[d] :
  chan[c][i] \in Lines /\ chan[c][i] = chan[d][j] => c = d /\ i = j
HandOrChan == \A p \in Procs : InHand(p) /\ buf[Owner(p)] \in Lines =>
  \A c \in DOMAIN chan : \A i \in DOMAIN chan[c] : chan[c][i] # buf[Owner(p)]
ShownGone == \A v \in Lines : shown[v] > 0 =>
  /\ shown[v] = 1
  /\ \A c \in DOMAIN chan : \A i \in DOMAIN chan[c] : chan[c][i] # v
  /\ \A p \in Procs : InHand(p) => buf[Owner(p)] # v
Unique == OneHand /\ OnePlace /\ HandOrChan /\ ShownGone

(* The way of a source's lines to where they are shown, counted from there.*)
Way ==
  [user |-> [s3 |-> 1, c2 |-> 2, s2 |-> 3, c1 |-> 4, s1 |-> 5, tty |-> 6, user |-> 7],
   p_0  |-> [p_4 |-> 1, f4 |-> 2, sel |-> 3, f0 |-> 4, p_0 |-> 5],
   p_1  |-> [p_4 |-> 1, f4 |-> 2, sel |-> 3, f1 |-> 4, p_1 |-> 5]]
On(s, x) == x \in DOMAIN Way[s]
Near(s, x, k) == On(s, x) /\ Way[s][x] <= k
SourcesOf(n) == IF n = "upp" THEN {"user"} ELSE IF n = "sel" THEN {"p_0", "p_1"} ELSE {}

(* The lines that have come to the k-th place of the way, or further.      *)
Come(s, k) ==
  {v \in Lines : \/ shown[v] > 0
                 \/ \E p \in Procs : Near(s, p, k) /\ buf[p] = v
                 \/ \E c \in DOMAIN chan : Near(s, c, k) /\ \E i \in DOMAIN chan[c] : chan[c][i] = v}

(* The lines that come before the n-th line of s, and those whose ends     *)
(* stand behind it, are before it on the way; a process that may replace   *)
(* what it has, has passed it on; the lines of s are on its way only; and  *)
(* what was typed and not read yet is nowhere further on.                  *)
Needs(s, n) == {<<s, k>> : k \in 1 .. n - 1} \cup trail[<<s, n>>]
Before(c, i) == {chan[c][j] : j \in 1 .. i - 1}
Idle(p) == Running(p) /\ ~InHand(p)

HeldInOrder(s) == \A p \in Procs : On(s, p) => \A n \in 1 .. MaxLines :
  buf[p] = <<s, n>> => Needs(s, n) \subseteq Come(s, Way[s][p] - 1)
SentInOrder(s) == \A c \in DOMAIN chan : On(s, c) => \A i \in DOMAIN chan[c] : \A n \in 1 .. MaxLines :
  chan[c][i] = <<s, n>> => Needs(s, n) \subseteq Come(s, Way[s][c] - 1) \cup Before(c, i)
ShownInOrder(s) == \A n \in 1 .. MaxLines : shown[<<s, n>>] > 0 =>
  \A w \in Needs(s, n) : shown[w] > 0
PassedOn(s) == \A p \in Procs : On(s, p) /\ Idle(p) /\ buf[p] \in Lines =>
  buf[p] \in Come(s, Way[s][p] - 1)
OnTheWay(s) == \A c \in DOMAIN chan : ~On(s, c) => \A i \in DOMAIN chan[c] : \A n \in 1 .. MaxLines :
  chan[c][i] # <<s, n>>
Fresh(s) == \A n \in 1 .. MaxLines :
  /\ InHand(s) /\ buf[s] = <<s, n>> => <<s, n>> \notin Come(s, Way[s][s] - 1)
  /\ \A c \in DOMAIN chan : On(s, c) /\ FromSource(c) => \A i \in DOMAIN chan[c] :
       chan[c][i] = <<s, n>> =>
         /\ <<s, n>> \notin Come(s, Way[s][c] - 1)
         /\ \A j \in DOMAIN chan[c] : chan[c][j] = <<s, n>> => i = j
InOrder(s) ==
  HeldInOrder(s) /\ SentInOrder(s) /\ ShownInOrder(s) /\ PassedOn(s) /\ OnTheWay(s) /\ Fresh(s)

(* A stage that was not started yet has read nothing.                      *)
Empty(p) == at[p] = 0 /\ buf[p] \notin Lines
UppStarts ==
  /\ at["s1"] = 1 => Empty("s2") /\ Empty("s3")
  /\ at["s2"] = 1 => Empty("s3")

OrderOK == (\A s \in SourcesOf(net) : InOrder(s)) /\ (net = "upp" => UppStarts)

(* p123: a message is in the queue for each process that waits for one.    *)
Waiting == {p \in Procs : at[p] = 4}
RingOK ==
  net = "ring" => Queued <= Cardinality(Waiting) + kills /\ mode # "066"

IInv == Typed /\ Known /\ (~stale => Unique) /\ OrderOK /\ RingOK

-----------------------------------------------------------------------------
(* The programs: what their steps have in common.                          *)

(* The steps of p in system n, the one that comes at i, and what it does.  *)
Ops == {"type", "set", "read", "write", "show", "fork", "spawn", "wait", "msgget", "select", "isset"}
Fills == {"type", "set", "read"}
StepsOf(n, p) == Nets[n].prog[p].steps
StepAt(n, p, i) == IF i > Len(StepsOf(n, p)) THEN Nets[n].prog[p].loop ELSE i
Using(n, p, i) == i # 0 /\ StepsOf(n, p)[i].op \in Uses

StepOK(n, p, i) ==
  LET s == StepsOf(n, p)[i] IN
  /\ s.op \in Ops
  /\ s.op \in {"read", "write"} => s.arg \in DOMAIN Nets[n].chan
  /\ s.op = "select" => s.arg \subseteq DOMAIN Nets[n].chan
  /\ s.op \in {"fork", "spawn"} =>
       s.arg \in DOMAIN Nets[n].prog /\ s.arg # p /\ i < Len(StepsOf(n, p))
  /\ s.op = "msgget" => s.arg \in {"066", "0666"}
  /\ s.op = "type" => Nets[n].prog[p].owner = p /\ p \in Sources
  /\ s.op = "set" => n # "chat"
  /\ s.op \notin Fills => ~Using(n, p, StepAt(n, p, i + 1))
  /\ s.op = "isset" => ~Using(n, p, StepAt(n, p, i + 3))
  /\ Nets[n].prog[p].owner \in Sources => s.op \in {"type", "write", "wait"}

(* What a step does to the lines of w.                                     *)
RouteOK(n, w, p, i) ==
  LET s == StepsOf(n, p)[i] IN
  /\ s.op \in {"type", "write", "spawn", "read", "show", "select", "isset"}
  /\ s.op = "read" =>
       /\ On(w, p) /\ Using(n, p, StepAt(n, p, i + 1))
       /\ On(w, s.arg) => Way[w][s.arg] = Way[w][p] + 1
  /\ s.op = "write" =>
       /\ On(w, p) <=> On(w, s.arg)
       /\ On(w, p) => Way[w][p] = Way[w][s.arg] + 1
       /\ ~On(w, p) => p \in Sources \ {w}
  /\ s.op = "show" => On(w, p) /\ Way[w][p] = 1
  /\ s.op = "type" => (On(w, p) <=> p = w) /\ Using(n, p, StepAt(n, p, i + 1))
  /\ s.op = "spawn" => i = 1 /\ n = "upp" /\ <<p, s.arg>> \in {<<"s1", "s2">>, <<"s2", "s3">>}
  /\ s.op = "isset" => n = "sel"
  /\ p \in {"s1", "s2"} => StepAt(n, p, i + 1) # 1

ProgramOK(n, p) ==
  /\ Len(StepsOf(n, p)) \in 1 .. 7
  /\ Nets[n].prog[p].loop \in 0 .. Len(StepsOf(n, p))
  /\ ~Using(n, p, 1)
  /\ p \in Sources \/ Nets[n].prog[p].owner \in Sources => Nets[n].prog[p].owner = p
  /\ \A i \in 1 .. Len(StepsOf(n, p)) : StepOK(n, p, i) /\ \A w \in SourcesOf(n) : RouteOK(n, w, p, i)

(* The owner, the steps and the loop of p in n.                            *)
HasSteps(n, p, owner, loop, steps) ==
  Nets[n].prog[p].owner = owner /\ Nets[n].prog[p].loop = loop /\ StepsOf(n, p) = steps

(* The places of the three ways.                                           *)
LEMMA WayIs ==
  /\ DOMAIN Way["user"] = {"s3", "c2", "s2", "c1", "s1", "tty", "user"}
  /\ Way["user"]["s3"] = 1 /\ Way["user"]["c2"] = 2 /\ Way["user"]["s2"] = 3 /\ Way["user"]["c1"] = 4
  /\ Way["user"]["s1"] = 5 /\ Way["user"]["tty"] = 6 /\ Way["user"]["user"] = 7
  /\ DOMAIN Way["p_0"] = {"p_4", "f4", "sel", "f0", "p_0"}
  /\ Way["p_0"]["p_4"] = 1 /\ Way["p_0"]["f4"] = 2 /\ Way["p_0"]["sel"] = 3
  /\ Way["p_0"]["f0"] = 4 /\ Way["p_0"]["p_0"] = 5
  /\ DOMAIN Way["p_1"] = {"p_4", "f4", "sel", "f1", "p_1"}
  /\ Way["p_1"]["p_4"] = 1 /\ Way["p_1"]["f4"] = 2 /\ Way["p_1"]["sel"] = 3
  /\ Way["p_1"]["f1"] = 4 /\ Way["p_1"]["p_1"] = 5
BY DEF Way

(* The person and the three stages of Upp, step by step.                   *)
LEMMA UppIs ==
  /\ DOMAIN Nets["upp"].prog = {"user", "s1", "s2", "s3"}
  /\ DOMAIN Nets["upp"].chan = {"tty", "c1", "c2"}
  /\ HasSteps("upp", "user", "user", 1,
       <<Do("type", "user"), Do("write", "tty")>>)
  /\ HasSteps("upp", "s1", "s1", 2,
       <<Do("spawn", "s2"), Do("read", "tty"), Do("write", "c1")>>)
  /\ HasSteps("upp", "s2", "s2", 2,
       <<Do("spawn", "s3"), Do("read", "c1"), Do("write", "c2")>>)
  /\ HasSteps("upp", "s3", "s3", 1,
       <<Do("read", "c2"), Do("show", "s3")>>)
  BY DEF Nets, Upp, Person, Program, HasSteps, StepsOf

(* The parent and the child of MultiWay, step by step.                     *)
LEMMA MultiWayIs ==
  /\ DOMAIN Nets["multiway"].prog = {"parent", "child"}
  /\ DOMAIN Nets["multiway"].chan = {"pp1", "pp2"}
  /\ HasSteps("multiway", "parent", "parent", 2,
       <<Do("fork", "child"), Do("set", "parent"), Do("write", "pp1"), Do("read", "pp2"),
         Do("show", "parent")>>)
  /\ HasSteps("multiway", "child", "child", 1,
       <<Do("read", "pp1"), Do("show", "child"), Do("set", "child"), Do("write", "pp2")>>)
  BY DEF Nets, MultiWay, TwoPipes, ReadThenWrite, Program, HasSteps, StepsOf

(* The parent and toprint of PipeInp, step by step.                        *)
LEMMA PipeInpIs ==
  /\ DOMAIN Nets["pipeinp"].prog = {"parent", "toprint"}
  /\ DOMAIN Nets["pipeinp"].chan = {"pp"}
  /\ HasSteps("pipeinp", "parent", "parent", 0,
       <<Do("spawn", "toprint"), Do("set", "parent"), Do("write", "pp"), Do("wait", "toprint")>>)
  /\ HasSteps("pipeinp", "toprint", "toprint", 0,
       <<Do("read", "pp"), Do("show", "toprint")>>)
  BY DEF Nets, PipeInp, ToPrint, Program, HasSteps, StepsOf

(* The writers, the reader and the multiplexer of Sel, step by step.       *)
LEMMA SelIs ==
  /\ DOMAIN Nets["sel"].prog = {"p_0", "p_1", "p_4", "sel"}
  /\ DOMAIN Nets["sel"].chan = {"f0", "f1", "f4"}
  /\ HasSteps("sel", "p_0", "p_0", 1,
       <<Do("type", "p_0"), Do("write", "f0")>>)
  /\ HasSteps("sel", "p_1", "p_1", 1,
       <<Do("type", "p_1"), Do("write", "f1")>>)
  /\ HasSteps("sel", "p_4", "p_4", 1,
       <<Do("read", "f4"), Do("show", "p_4")>>)
  /\ HasSteps("sel", "sel", "sel", 1,
       <<Do("select", {"f0", "f1"}), Do("isset", "f0"), Do("read", "f0"), Do("write", "f4"),
         Do("isset", "f1"), Do("read", "f1"), Do("write", "f4")>>)
  BY DEF Nets, Sel, P_w, P_r, Program, HasSteps, StepsOf

(* The server and the client of Basic, step by step.                       *)
LEMMA BasicIs ==
  /\ DOMAIN Nets["basic"].prog = {"server", "client"}
  /\ DOMAIN Nets["basic"].chan = {"up", "down"}
  /\ HasSteps("basic", "server", "server", 1,
       <<Do("read", "up"), Do("show", "server"), Do("set", "server"), Do("write", "down")>>)
  /\ HasSteps("basic", "client", "client", 1,
       <<Do("set", "client"), Do("write", "up"), Do("read", "down"), Do("show", "client")>>)
  BY DEF Nets, Basic, BasicServer, BasicClient, Program, HasSteps, StepsOf

(* The three members of Ring, step by step.                                *)
LEMMA RingIs ==
  /\ DOMAIN Nets["ring"].prog = {"p1", "p2", "p3"}
  /\ DOMAIN Nets["ring"].chan = {"type1", "type2", "type3"}
  /\ HasSteps("ring", "p1", "p1", 2,
       <<Do("msgget", "0666"), Do("set", "p1"), Do("write", "type1"), Do("read", "type2"),
         Do("show", "p1")>>)
  /\ HasSteps("ring", "p2", "p2", 2,
       <<Do("msgget", "0666"), Do("set", "p2"), Do("write", "type2"), Do("read", "type3"),
         Do("show", "p2")>>)
  /\ HasSteps("ring", "p3", "p3", 2,
       <<Do("msgget", "0666"), Do("set", "p3"), Do("write", "type3"), Do("read", "type1"),
         Do("show", "p3")>>)
  BY DEF Nets, Ring, RingMember, Program, HasSteps, StepsOf

(* The threads of the two clients and their persons of Chat, step by step. *)
LEMMA ChatIs ==
  /\ DOMAIN Nets["chat"].prog = {"a_read", "b_read", "a_write", "b_write", "user", "friend"}
  /\ DOMAIN Nets["chat"].chan = {"ttya", "ttyb", "q"}
  /\ HasSteps("chat", "a_read", "a", 2,
       <<Do("msgget", "0666"), Do("read", "q"), Do("show", "a")>>)
  /\ HasSteps("chat", "b_read", "b", 2,
       <<Do("msgget", "0666"), Do("read", "q"), Do("show", "b")>>)
  /\ HasSteps("chat", "a_write", "a", 2,
       <<Do("msgget", "066"), Do("read", "ttya"), Do("write", "q")>>)
  /\ HasSteps("chat", "b_write", "b", 2,
       <<Do("msgget", "066"), Do("read", "ttyb"), Do("write", "q")>>)
  /\ HasSteps("chat", "user", "user", 1,
       <<Do("type", "user"), Do("write", "ttya")>>)
  /\ HasSteps("chat", "friend", "friend", 1,
       <<Do("wait", "friend")>>)
  BY DEF Nets, Chat, ReadMessage, WriteMessage, Person, Program, HasSteps, StepsOf

(* Upp: every program is as wanted.                                        *)
LEMMA UppPrograms == \A p \in DOMAIN Nets["upp"].prog : ProgramOK("upp", p)
<1>0. DOMAIN Nets["upp"].prog = {"user", "s1", "s2", "s3"} /\ DOMAIN Nets["upp"].chan = {"tty", "c1", "c2"}
  BY UppIs
<1>1. ProgramOK("upp", "user")
  <2>1. /\ Len(StepsOf("upp", "user")) = 2 /\ Nets["upp"].prog["user"].loop = 1
        /\ Nets["upp"].prog["user"].owner = "user"
        /\ StepsOf("upp", "user")[1].op = "type" /\ StepsOf("upp", "user")[1].arg = "user"
        /\ StepsOf("upp", "user")[2].op = "write" /\ StepsOf("upp", "user")[2].arg = "tty"
    BY UppIs DEF HasSteps, Do
  <2>2. \A i \in 1 .. 2 : StepOK("upp", "user", i)
    BY <1>0, <2>1 DEF StepOK, StepAt, Using, Ops, Fills, Uses, Sources, Persons
  <2>3. ~Using("upp", "user", 1)
    BY <2>1 DEF Using, Uses
  <2>4. "user" \in Sources \/ "user" \in Sources => "user" = "user"
    BY DEF Sources, Persons
  <2>5. Len(StepsOf("upp", "user")) \in 1 .. 7 /\ 1 \in 0 .. Len(StepsOf("upp", "user"))
    BY <2>1
  <2>6. \A w \in SourcesOf("upp") : \A i \in 1 .. 2 : RouteOK("upp", w, "user", i)
    <3>1. \A i \in 1 .. 2 : i = 1 => RouteOK("upp", "user", "user", i)
      BY <1>0, <2>1, WayIs DEF RouteOK, StepAt, Using, Uses, On, Sources, Persons
    <3>2. \A i \in 1 .. 2 : i = 2 => RouteOK("upp", "user", "user", i)
      BY <1>0, <2>1, WayIs DEF RouteOK, StepAt, Using, Uses, On, Sources, Persons
    <3> QED
      BY <3>1, <3>2 DEF SourcesOf
  <2> QED
    BY <2>1, <2>2, <2>3, <2>4, <2>5, <2>6 DEF ProgramOK
<1>2. ProgramOK("upp", "s1")
  <2>1. /\ Len(StepsOf("upp", "s1")) = 3 /\ Nets["upp"].prog["s1"].loop = 2
        /\ Nets["upp"].prog["s1"].owner = "s1"
        /\ StepsOf("upp", "s1")[1].op = "spawn" /\ StepsOf("upp", "s1")[1].arg = "s2"
        /\ StepsOf("upp", "s1")[2].op = "read" /\ StepsOf("upp", "s1")[2].arg = "tty"
        /\ StepsOf("upp", "s1")[3].op = "write" /\ StepsOf("upp", "s1")[3].arg = "c1"
    BY UppIs DEF HasSteps, Do
  <2>2. \A i \in 1 .. 3 : StepOK("upp", "s1", i)
    BY <1>0, <2>1 DEF StepOK, StepAt, Using, Ops, Fills, Uses, Sources, Persons
  <2>3. ~Using("upp", "s1", 1)
    BY <2>1 DEF Using, Uses
  <2>4. "s1" \in Sources \/ "s1" \in Sources => "s1" = "s1"
    BY DEF Sources, Persons
  <2>5. Len(StepsOf("upp", "s1")) \in 1 .. 7 /\ 2 \in 0 .. Len(StepsOf("upp", "s1"))
    BY <2>1
  <2>6. \A w \in SourcesOf("upp") : \A i \in 1 .. 3 : RouteOK("upp", w, "s1", i)
    <3>1. \A i \in 1 .. 3 : i = 1 => RouteOK("upp", "user", "s1", i)
      BY <1>0, <2>1, WayIs DEF RouteOK, StepAt, Using, Uses, On, Sources, Persons
    <3>2. \A i \in 1 .. 3 : i = 2 => RouteOK("upp", "user", "s1", i)
      BY <1>0, <2>1, WayIs DEF RouteOK, StepAt, Using, Uses, On, Sources, Persons
    <3>3. \A i \in 1 .. 3 : i = 3 => RouteOK("upp", "user", "s1", i)
      BY <1>0, <2>1, WayIs DEF RouteOK, StepAt, Using, Uses, On, Sources, Persons
    <3> QED
      BY <3>1, <3>2, <3>3 DEF SourcesOf
  <2> QED
    BY <2>1, <2>2, <2>3, <2>4, <2>5, <2>6 DEF ProgramOK
<1>3. ProgramOK("upp", "s2")
  <2>1. /\ Len(StepsOf("upp", "s2")) = 3 /\ Nets["upp"].prog["s2"].loop = 2
        /\ Nets["upp"].prog["s2"].owner = "s2"
        /\ StepsOf("upp", "s2")[1].op = "spawn" /\ StepsOf("upp", "s2")[1].arg = "s3"
        /\ StepsOf("upp", "s2")[2].op = "read" /\ StepsOf("upp", "s2")[2].arg = "c1"
        /\ StepsOf("upp", "s2")[3].op = "write" /\ StepsOf("upp", "s2")[3].arg = "c2"
    BY UppIs DEF HasSteps, Do
  <2>2. \A i \in 1 .. 3 : StepOK("upp", "s2", i)
    BY <1>0, <2>1 DEF StepOK, StepAt, Using, Ops, Fills, Uses, Sources, Persons
  <2>3. ~Using("upp", "s2", 1)
    BY <2>1 DEF Using, Uses
  <2>4. "s2" \in Sources \/ "s2" \in Sources => "s2" = "s2"
    BY DEF Sources, Persons
  <2>5. Len(StepsOf("upp", "s2")) \in 1 .. 7 /\ 2 \in 0 .. Len(StepsOf("upp", "s2"))
    BY <2>1
  <2>6. \A w \in SourcesOf("upp") : \A i \in 1 .. 3 : RouteOK("upp", w, "s2", i)
    <3>1. \A i \in 1 .. 3 : i = 1 => RouteOK("upp", "user", "s2", i)
      BY <1>0, <2>1, WayIs DEF RouteOK, StepAt, Using, Uses, On, Sources, Persons
    <3>2. \A i \in 1 .. 3 : i = 2 => RouteOK("upp", "user", "s2", i)
      BY <1>0, <2>1, WayIs DEF RouteOK, StepAt, Using, Uses, On, Sources, Persons
    <3>3. \A i \in 1 .. 3 : i = 3 => RouteOK("upp", "user", "s2", i)
      BY <1>0, <2>1, WayIs DEF RouteOK, StepAt, Using, Uses, On, Sources, Persons
    <3> QED
      BY <3>1, <3>2, <3>3 DEF SourcesOf
  <2> QED
    BY <2>1, <2>2, <2>3, <2>4, <2>5, <2>6 DEF ProgramOK
<1>4. ProgramOK("upp", "s3")
  <2>1. /\ Len(StepsOf("upp", "s3")) = 2 /\ Nets["upp"].prog["s3"].loop = 1
        /\ Nets["upp"].prog["s3"].owner = "s3"
        /\ StepsOf("upp", "s3")[1].op = "read" /\ StepsOf("upp", "s3")[1].arg = "c2"
        /\ StepsOf("upp", "s3")[2].op = "show" /\ StepsOf("upp", "s3")[2].arg = "s3"
    BY UppIs DEF HasSteps, Do
  <2>2. \A i \in 1 .. 2 : StepOK("upp", "s3", i)
    BY <1>0, <2>1 DEF StepOK, StepAt, Using, Ops, Fills, Uses, Sources, Persons
  <2>3. ~Using("upp", "s3", 1)
    BY <2>1 DEF Using, Uses
  <2>4. "s3" \in Sources \/ "s3" \in Sources => "s3" = "s3"
    BY DEF Sources, Persons
  <2>5. Len(StepsOf("upp", "s3")) \in 1 .. 7 /\ 1 \in 0 .. Len(StepsOf("upp", "s3"))
    BY <2>1
  <2>6. \A w \in SourcesOf("upp") : \A i \in 1 .. 2 : RouteOK("upp", w, "s3", i)
    <3>1. \A i \in 1 .. 2 : i = 1 => RouteOK("upp", "user", "s3", i)
      BY <1>0, <2>1, WayIs DEF RouteOK, StepAt, Using, Uses, On, Sources, Persons
    <3>2. \A i \in 1 .. 2 : i = 2 => RouteOK("upp", "user", "s3", i)
      BY <1>0, <2>1, WayIs DEF RouteOK, StepAt, Using, Uses, On, Sources, Persons
    <3> QED
      BY <3>1, <3>2 DEF SourcesOf
  <2> QED
    BY <2>1, <2>2, <2>3, <2>4, <2>5, <2>6 DEF ProgramOK
<1> QED
  BY <1>1, <1>2, <1>3, <1>4, <1>0

(* MultiWay: every program is as wanted.                                   *)
LEMMA MultiWayPrograms == \A p \in DOMAIN Nets["multiway"].prog : ProgramOK("multiway", p)
<1>0. DOMAIN Nets["multiway"].prog = {"parent", "child"} /\ DOMAIN Nets["multiway"].chan = {"pp1", "pp2"}
  BY MultiWayIs
<1>1. ProgramOK("multiway", "parent")
  <2>1. /\ Len(StepsOf("multiway", "parent")) = 5 /\ Nets["multiway"].prog["parent"].loop = 2
        /\ Nets["multiway"].prog["parent"].owner = "parent"
        /\ StepsOf("multiway", "parent")[1].op = "fork" /\ StepsOf("multiway", "parent")[1].arg = "child"
        /\ StepsOf("multiway", "parent")[2].op = "set" /\ StepsOf("multiway", "parent")[2].arg = "parent"
        /\ StepsOf("multiway", "parent")[3].op = "write" /\ StepsOf("multiway", "parent")[3].arg = "pp1"
        /\ StepsOf("multiway", "parent")[4].op = "read" /\ StepsOf("multiway", "parent")[4].arg = "pp2"
        /\ StepsOf("multiway", "parent")[5].op = "show" /\ StepsOf("multiway", "parent")[5].arg = "parent"
    BY MultiWayIs DEF HasSteps, Do
  <2>2. \A i \in 1 .. 5 : StepOK("multiway", "parent", i)
    <3>1. \A i \in 1 .. 5 : i = 1 => StepOK("multiway", "parent", i)
      BY <1>0, <2>1 DEF StepOK, StepAt, Using, Ops, Fills, Uses, Sources, Persons
    <3>2. \A i \in 1 .. 5 : i = 2 => StepOK("multiway", "parent", i)
      BY <1>0, <2>1 DEF StepOK, StepAt, Using, Ops, Fills, Uses, Sources, Persons
    <3>3. \A i \in 1 .. 5 : i = 3 => StepOK("multiway", "parent", i)
      BY <1>0, <2>1 DEF StepOK, StepAt, Using, Ops, Fills, Uses, Sources, Persons
    <3>4. \A i \in 1 .. 5 : i = 4 => StepOK("multiway", "parent", i)
      BY <1>0, <2>1 DEF StepOK, StepAt, Using, Ops, Fills, Uses, Sources, Persons
    <3>5. \A i \in 1 .. 5 : i = 5 => StepOK("multiway", "parent", i)
      BY <1>0, <2>1 DEF StepOK, StepAt, Using, Ops, Fills, Uses, Sources, Persons
    <3> QED
      BY <3>1, <3>2, <3>3, <3>4, <3>5
  <2>3. ~Using("multiway", "parent", 1)
    BY <2>1 DEF Using, Uses
  <2>4. "parent" \in Sources \/ "parent" \in Sources => "parent" = "parent"
    BY DEF Sources, Persons
  <2>5. Len(StepsOf("multiway", "parent")) \in 1 .. 7 /\ 2 \in 0 .. Len(StepsOf("multiway", "parent"))
    BY <2>1
  <2>6. SourcesOf("multiway") = {}
    BY DEF SourcesOf
  <2> QED
    BY <2>1, <2>2, <2>3, <2>4, <2>5, <2>6 DEF ProgramOK
<1>2. ProgramOK("multiway", "child")
  <2>1. /\ Len(StepsOf("multiway", "child")) = 4 /\ Nets["multiway"].prog["child"].loop = 1
        /\ Nets["multiway"].prog["child"].owner = "child"
        /\ StepsOf("multiway", "child")[1].op = "read" /\ StepsOf("multiway", "child")[1].arg = "pp1"
        /\ StepsOf("multiway", "child")[2].op = "show" /\ StepsOf("multiway", "child")[2].arg = "child"
        /\ StepsOf("multiway", "child")[3].op = "set" /\ StepsOf("multiway", "child")[3].arg = "child"
        /\ StepsOf("multiway", "child")[4].op = "write" /\ StepsOf("multiway", "child")[4].arg = "pp2"
    BY MultiWayIs DEF HasSteps, Do
  <2>2. \A i \in 1 .. 4 : StepOK("multiway", "child", i)
    BY <1>0, <2>1 DEF StepOK, StepAt, Using, Ops, Fills, Uses, Sources, Persons
  <2>3. ~Using("multiway", "child", 1)
    BY <2>1 DEF Using, Uses
  <2>4. "child" \in Sources \/ "child" \in Sources => "child" = "child"
    BY DEF Sources, Persons
  <2>5. Len(StepsOf("multiway", "child")) \in 1 .. 7 /\ 1 \in 0 .. Len(StepsOf("multiway", "child"))
    BY <2>1
  <2>6. SourcesOf("multiway") = {}
    BY DEF SourcesOf
  <2> QED
    BY <2>1, <2>2, <2>3, <2>4, <2>5, <2>6 DEF ProgramOK
<1> QED
  BY <1>1, <1>2, <1>0

(* PipeInp: every program is as wanted.                                    *)
LEMMA PipeInpPrograms == \A p \in DOMAIN Nets["pipeinp"].prog : ProgramOK("pipeinp", p)
<1>0. DOMAIN Nets["pipeinp"].prog = {"parent", "toprint"} /\ DOMAIN Nets["pipeinp"].chan = {"pp"}
  BY PipeInpIs
<1>1. ProgramOK("pipeinp", "parent")
  <2>1. /\ Len(StepsOf("pipeinp", "parent")) = 4 /\ Nets["pipeinp"].prog["parent"].loop = 0
        /\ Nets["pipeinp"].prog["parent"].owner = "parent"
        /\ StepsOf("pipeinp", "parent")[1].op = "spawn" /\ StepsOf("pipeinp", "parent")[1].arg = "toprint"
        /\ StepsOf("pipeinp", "parent")[2].op = "set" /\ StepsOf("pipeinp", "parent")[2].arg = "parent"
        /\ StepsOf("pipeinp", "parent")[3].op = "write" /\ StepsOf("pipeinp", "parent")[3].arg = "pp"
        /\ StepsOf("pipeinp", "parent")[4].op = "wait" /\ StepsOf("pipeinp", "parent")[4].arg = "toprint"
    BY PipeInpIs DEF HasSteps, Do
  <2>2. \A i \in 1 .. 4 : StepOK("pipeinp", "parent", i)
    BY <1>0, <2>1 DEF StepOK, StepAt, Using, Ops, Fills, Uses, Sources, Persons
  <2>3. ~Using("pipeinp", "parent", 1)
    BY <2>1 DEF Using, Uses
  <2>4. "parent" \in Sources \/ "parent" \in Sources => "parent" = "parent"
    BY DEF Sources, Persons
  <2>5. Len(StepsOf("pipeinp", "parent")) \in 1 .. 7 /\ 0 \in 0 .. Len(StepsOf("pipeinp", "parent"))
    BY <2>1
  <2>6. SourcesOf("pipeinp") = {}
    BY DEF SourcesOf
  <2> QED
    BY <2>1, <2>2, <2>3, <2>4, <2>5, <2>6 DEF ProgramOK
<1>2. ProgramOK("pipeinp", "toprint")
  <2>1. /\ Len(StepsOf("pipeinp", "toprint")) = 2 /\ Nets["pipeinp"].prog["toprint"].loop = 0
        /\ Nets["pipeinp"].prog["toprint"].owner = "toprint"
        /\ StepsOf("pipeinp", "toprint")[1].op = "read" /\ StepsOf("pipeinp", "toprint")[1].arg = "pp"
        /\ StepsOf("pipeinp", "toprint")[2].op = "show" /\ StepsOf("pipeinp", "toprint")[2].arg = "toprint"
    BY PipeInpIs DEF HasSteps, Do
  <2>2. \A i \in 1 .. 2 : StepOK("pipeinp", "toprint", i)
    BY <1>0, <2>1 DEF StepOK, StepAt, Using, Ops, Fills, Uses, Sources, Persons
  <2>3. ~Using("pipeinp", "toprint", 1)
    BY <2>1 DEF Using, Uses
  <2>4. "toprint" \in Sources \/ "toprint" \in Sources => "toprint" = "toprint"
    BY DEF Sources, Persons
  <2>5. Len(StepsOf("pipeinp", "toprint")) \in 1 .. 7 /\ 0 \in 0 .. Len(StepsOf("pipeinp", "toprint"))
    BY <2>1
  <2>6. SourcesOf("pipeinp") = {}
    BY DEF SourcesOf
  <2> QED
    BY <2>1, <2>2, <2>3, <2>4, <2>5, <2>6 DEF ProgramOK
<1> QED
  BY <1>1, <1>2, <1>0

(* Sel: every program is as wanted.                                        *)
LEMMA SelPrograms == \A p \in DOMAIN Nets["sel"].prog : ProgramOK("sel", p)
<1>0. DOMAIN Nets["sel"].prog = {"p_0", "p_1", "p_4", "sel"} /\ DOMAIN Nets["sel"].chan = {"f0", "f1", "f4"}
  BY SelIs
<1>1. ProgramOK("sel", "p_0")
  <2>1. /\ Len(StepsOf("sel", "p_0")) = 2 /\ Nets["sel"].prog["p_0"].loop = 1
        /\ Nets["sel"].prog["p_0"].owner = "p_0"
        /\ StepsOf("sel", "p_0")[1].op = "type" /\ StepsOf("sel", "p_0")[1].arg = "p_0"
        /\ StepsOf("sel", "p_0")[2].op = "write" /\ StepsOf("sel", "p_0")[2].arg = "f0"
    BY SelIs DEF HasSteps, Do
  <2>2. \A i \in 1 .. 2 : StepOK("sel", "p_0", i)
    BY <1>0, <2>1 DEF StepOK, StepAt, Using, Ops, Fills, Uses, Sources, Persons
  <2>3. ~Using("sel", "p_0", 1)
    BY <2>1 DEF Using, Uses
  <2>4. "p_0" \in Sources \/ "p_0" \in Sources => "p_0" = "p_0"
    BY DEF Sources, Persons
  <2>5. Len(StepsOf("sel", "p_0")) \in 1 .. 7 /\ 1 \in 0 .. Len(StepsOf("sel", "p_0"))
    BY <2>1
  <2>6. \A w \in SourcesOf("sel") : \A i \in 1 .. 2 : RouteOK("sel", w, "p_0", i)
    <3>1. \A i \in 1 .. 2 : i = 1 => RouteOK("sel", "p_0", "p_0", i)
      BY <1>0, <2>1, WayIs DEF RouteOK, StepAt, Using, Uses, On, Sources, Persons
    <3>2. \A i \in 1 .. 2 : i = 2 => RouteOK("sel", "p_0", "p_0", i)
      BY <1>0, <2>1, WayIs DEF RouteOK, StepAt, Using, Uses, On, Sources, Persons
    <3>3. \A i \in 1 .. 2 : i = 1 => RouteOK("sel", "p_1", "p_0", i)
      BY <1>0, <2>1, WayIs DEF RouteOK, StepAt, Using, Uses, On, Sources, Persons
    <3>4. \A i \in 1 .. 2 : i = 2 => RouteOK("sel", "p_1", "p_0", i)
      BY <1>0, <2>1, WayIs DEF RouteOK, StepAt, Using, Uses, On, Sources, Persons
    <3> QED
      BY <3>1, <3>2, <3>3, <3>4 DEF SourcesOf
  <2> QED
    BY <2>1, <2>2, <2>3, <2>4, <2>5, <2>6 DEF ProgramOK
<1>2. ProgramOK("sel", "p_1")
  <2>1. /\ Len(StepsOf("sel", "p_1")) = 2 /\ Nets["sel"].prog["p_1"].loop = 1
        /\ Nets["sel"].prog["p_1"].owner = "p_1"
        /\ StepsOf("sel", "p_1")[1].op = "type" /\ StepsOf("sel", "p_1")[1].arg = "p_1"
        /\ StepsOf("sel", "p_1")[2].op = "write" /\ StepsOf("sel", "p_1")[2].arg = "f1"
    BY SelIs DEF HasSteps, Do
  <2>2. \A i \in 1 .. 2 : StepOK("sel", "p_1", i)
    BY <1>0, <2>1 DEF StepOK, StepAt, Using, Ops, Fills, Uses, Sources, Persons
  <2>3. ~Using("sel", "p_1", 1)
    BY <2>1 DEF Using, Uses
  <2>4. "p_1" \in Sources \/ "p_1" \in Sources => "p_1" = "p_1"
    BY DEF Sources, Persons
  <2>5. Len(StepsOf("sel", "p_1")) \in 1 .. 7 /\ 1 \in 0 .. Len(StepsOf("sel", "p_1"))
    BY <2>1
  <2>6. \A w \in SourcesOf("sel") : \A i \in 1 .. 2 : RouteOK("sel", w, "p_1", i)
    <3>1. \A i \in 1 .. 2 : i = 1 => RouteOK("sel", "p_0", "p_1", i)
      BY <1>0, <2>1, WayIs DEF RouteOK, StepAt, Using, Uses, On, Sources, Persons
    <3>2. \A i \in 1 .. 2 : i = 2 => RouteOK("sel", "p_0", "p_1", i)
      BY <1>0, <2>1, WayIs DEF RouteOK, StepAt, Using, Uses, On, Sources, Persons
    <3>3. \A i \in 1 .. 2 : i = 1 => RouteOK("sel", "p_1", "p_1", i)
      BY <1>0, <2>1, WayIs DEF RouteOK, StepAt, Using, Uses, On, Sources, Persons
    <3>4. \A i \in 1 .. 2 : i = 2 => RouteOK("sel", "p_1", "p_1", i)
      BY <1>0, <2>1, WayIs DEF RouteOK, StepAt, Using, Uses, On, Sources, Persons
    <3> QED
      BY <3>1, <3>2, <3>3, <3>4 DEF SourcesOf
  <2> QED
    BY <2>1, <2>2, <2>3, <2>4, <2>5, <2>6 DEF ProgramOK
<1>3. ProgramOK("sel", "p_4")
  <2>1. /\ Len(StepsOf("sel", "p_4")) = 2 /\ Nets["sel"].prog["p_4"].loop = 1
        /\ Nets["sel"].prog["p_4"].owner = "p_4"
        /\ StepsOf("sel", "p_4")[1].op = "read" /\ StepsOf("sel", "p_4")[1].arg = "f4"
        /\ StepsOf("sel", "p_4")[2].op = "show" /\ StepsOf("sel", "p_4")[2].arg = "p_4"
    BY SelIs DEF HasSteps, Do
  <2>2. \A i \in 1 .. 2 : StepOK("sel", "p_4", i)
    BY <1>0, <2>1 DEF StepOK, StepAt, Using, Ops, Fills, Uses, Sources, Persons
  <2>3. ~Using("sel", "p_4", 1)
    BY <2>1 DEF Using, Uses
  <2>4. "p_4" \in Sources \/ "p_4" \in Sources => "p_4" = "p_4"
    BY DEF Sources, Persons
  <2>5. Len(StepsOf("sel", "p_4")) \in 1 .. 7 /\ 1 \in 0 .. Len(StepsOf("sel", "p_4"))
    BY <2>1
  <2>6. \A w \in SourcesOf("sel") : \A i \in 1 .. 2 : RouteOK("sel", w, "p_4", i)
    <3>1. \A i \in 1 .. 2 : i = 1 => RouteOK("sel", "p_0", "p_4", i)
      BY <1>0, <2>1, WayIs DEF RouteOK, StepAt, Using, Uses, On, Sources, Persons
    <3>2. \A i \in 1 .. 2 : i = 2 => RouteOK("sel", "p_0", "p_4", i)
      BY <1>0, <2>1, WayIs DEF RouteOK, StepAt, Using, Uses, On, Sources, Persons
    <3>3. \A i \in 1 .. 2 : i = 1 => RouteOK("sel", "p_1", "p_4", i)
      BY <1>0, <2>1, WayIs DEF RouteOK, StepAt, Using, Uses, On, Sources, Persons
    <3>4. \A i \in 1 .. 2 : i = 2 => RouteOK("sel", "p_1", "p_4", i)
      BY <1>0, <2>1, WayIs DEF RouteOK, StepAt, Using, Uses, On, Sources, Persons
    <3> QED
      BY <3>1, <3>2, <3>3, <3>4 DEF SourcesOf
  <2> QED
    BY <2>1, <2>2, <2>3, <2>4, <2>5, <2>6 DEF ProgramOK
<1>4. ProgramOK("sel", "sel")
  <2>1. /\ Len(StepsOf("sel", "sel")) = 7 /\ Nets["sel"].prog["sel"].loop = 1
        /\ Nets["sel"].prog["sel"].owner = "sel"
        /\ StepsOf("sel", "sel")[1].op = "select" /\ StepsOf("sel", "sel")[1].arg = {"f0", "f1"}
        /\ StepsOf("sel", "sel")[2].op = "isset" /\ StepsOf("sel", "sel")[2].arg = "f0"
        /\ StepsOf("sel", "sel")[3].op = "read" /\ StepsOf("sel", "sel")[3].arg = "f0"
        /\ StepsOf("sel", "sel")[4].op = "write" /\ StepsOf("sel", "sel")[4].arg = "f4"
        /\ StepsOf("sel", "sel")[5].op = "isset" /\ StepsOf("sel", "sel")[5].arg = "f1"
        /\ StepsOf("sel", "sel")[6].op = "read" /\ StepsOf("sel", "sel")[6].arg = "f1"
        /\ StepsOf("sel", "sel")[7].op = "write" /\ StepsOf("sel", "sel")[7].arg = "f4"
    BY SelIs DEF HasSteps, Do
  <2>2. \A i \in 1 .. 7 : StepOK("sel", "sel", i)
    <3>0. /\ \A i \in 1 .. 7 : i = 7 => StepAt("sel", "sel", i + 1) = 1
          /\ \A i \in 1 .. 7 : i = 5 => StepAt("sel", "sel", i + 1) = 6 /\ StepAt("sel", "sel", i + 3) = 1
      <4>1. Len(StepsOf("sel", "sel")) = 7 /\ Nets["sel"].prog["sel"].loop = 1
        BY <2>1
      <4>2. \A i \in 1 .. 7 : i = 7 => i + 1 > 7 /\ ~(i # 7)
        OBVIOUS
      <4>3. \A i \in 1 .. 7 : i = 5 => ~(i + 1 > 7) /\ i + 1 = 6 /\ i + 3 > 7
        OBVIOUS
      <4> QED
        BY <4>1, <4>2, <4>3 DEF StepAt
    <3>1. \A i \in 1 .. 7 : i = 1 => StepOK("sel", "sel", i)
      BY <1>0, <2>1 DEF StepOK, StepAt, Using, Ops, Fills, Uses, Sources, Persons
    <3>2. \A i \in 1 .. 7 : i = 2 => StepOK("sel", "sel", i)
      BY <1>0, <2>1 DEF StepOK, StepAt, Using, Ops, Fills, Uses, Sources, Persons
    <3>3. \A i \in 1 .. 7 : i = 3 => StepOK("sel", "sel", i)
      BY <1>0, <2>1 DEF StepOK, StepAt, Using, Ops, Fills, Uses, Sources, Persons
    <3>4. \A i \in 1 .. 7 : i = 4 => StepOK("sel", "sel", i)
      BY <1>0, <2>1 DEF StepOK, StepAt, Using, Ops, Fills, Uses, Sources, Persons
    <3>5. \A i \in 1 .. 7 : i = 5 => StepOK("sel", "sel", i)
      BY <1>0, <2>1, <3>0 DEF StepOK, Using, Ops, Fills, Uses, Sources, Persons
    <3>6. \A i \in 1 .. 7 : i = 6 => StepOK("sel", "sel", i)
      BY <1>0, <2>1 DEF StepOK, StepAt, Using, Ops, Fills, Uses, Sources, Persons
    <3>7. \A i \in 1 .. 7 : i = 7 => StepOK("sel", "sel", i)
      BY <1>0, <2>1, <3>0 DEF StepOK, Using, Ops, Fills, Uses, Sources, Persons
    <3> QED
      BY <3>1, <3>2, <3>3, <3>4, <3>5, <3>6, <3>7
  <2>3. ~Using("sel", "sel", 1)
    BY <2>1 DEF Using, Uses
  <2>4. "sel" \in Sources \/ "sel" \in Sources => "sel" = "sel"
    BY DEF Sources, Persons
  <2>5. Len(StepsOf("sel", "sel")) \in 1 .. 7 /\ 1 \in 0 .. Len(StepsOf("sel", "sel"))
    BY <2>1
  <2>6. \A w \in SourcesOf("sel") : \A i \in 1 .. 7 : RouteOK("sel", w, "sel", i)
    <3>1. \A i \in 1 .. 7 : i = 1 => RouteOK("sel", "p_0", "sel", i)
      BY <1>0, <2>1, WayIs DEF RouteOK, StepAt, Using, Uses, On, Sources, Persons
    <3>2. \A i \in 1 .. 7 : i = 2 => RouteOK("sel", "p_0", "sel", i)
      BY <1>0, <2>1, WayIs DEF RouteOK, StepAt, Using, Uses, On, Sources, Persons
    <3>3. \A i \in 1 .. 7 : i = 3 => RouteOK("sel", "p_0", "sel", i)
      BY <1>0, <2>1, WayIs DEF RouteOK, StepAt, Using, Uses, On, Sources, Persons
    <3>4. \A i \in 1 .. 7 : i = 4 => RouteOK("sel", "p_0", "sel", i)
      BY <1>0, <2>1, WayIs DEF RouteOK, StepAt, Using, Uses, On, Sources, Persons
    <3>5. \A i \in 1 .. 7 : i = 5 => RouteOK("sel", "p_0", "sel", i)
      BY <1>0, <2>1, WayIs DEF RouteOK, StepAt, Using, Uses, On, Sources, Persons
    <3>6. \A i \in 1 .. 7 : i = 6 => RouteOK("sel", "p_0", "sel", i)
      BY <1>0, <2>1, WayIs DEF RouteOK, StepAt, Using, Uses, On, Sources, Persons
    <3>7. \A i \in 1 .. 7 : i = 7 => RouteOK("sel", "p_0", "sel", i)
      BY <1>0, <2>1, WayIs DEF RouteOK, StepAt, Using, Uses, On, Sources, Persons
    <3>8. \A i \in 1 .. 7 : i = 1 => RouteOK("sel", "p_1", "sel", i)
      BY <1>0, <2>1, WayIs DEF RouteOK, StepAt, Using, Uses, On, Sources, Persons
    <3>9. \A i \in 1 .. 7 : i = 2 => RouteOK("sel", "p_1", "sel", i)
      BY <1>0, <2>1, WayIs DEF RouteOK, StepAt, Using, Uses, On, Sources, Persons
    <3>10. \A i \in 1 .. 7 : i = 3 => RouteOK("sel", "p_1", "sel", i)
      BY <1>0, <2>1, WayIs DEF RouteOK, StepAt, Using, Uses, On, Sources, Persons
    <3>11. \A i \in 1 .. 7 : i = 4 => RouteOK("sel", "p_1", "sel", i)
      BY <1>0, <2>1, WayIs DEF RouteOK, StepAt, Using, Uses, On, Sources, Persons
    <3>12. \A i \in 1 .. 7 : i = 5 => RouteOK("sel", "p_1", "sel", i)
      BY <1>0, <2>1, WayIs DEF RouteOK, StepAt, Using, Uses, On, Sources, Persons
    <3>13. \A i \in 1 .. 7 : i = 6 => RouteOK("sel", "p_1", "sel", i)
      BY <1>0, <2>1, WayIs DEF RouteOK, StepAt, Using, Uses, On, Sources, Persons
    <3>14. \A i \in 1 .. 7 : i = 7 => RouteOK("sel", "p_1", "sel", i)
      BY <1>0, <2>1, WayIs DEF RouteOK, StepAt, Using, Uses, On, Sources, Persons
    <3> QED
      BY <3>1, <3>2, <3>3, <3>4, <3>5, <3>6, <3>7, <3>8, <3>9, <3>10, <3>11, <3>12, <3>13, <3>14 DEF SourcesOf
  <2> QED
    BY <2>1, <2>2, <2>3, <2>4, <2>5, <2>6 DEF ProgramOK
<1> QED
  BY <1>1, <1>2, <1>3, <1>4, <1>0

(* Basic: every program is as wanted.                                      *)
LEMMA BasicPrograms == \A p \in DOMAIN Nets["basic"].prog : ProgramOK("basic", p)
<1>0. DOMAIN Nets["basic"].prog = {"server", "client"} /\ DOMAIN Nets["basic"].chan = {"up", "down"}
  BY BasicIs
<1>1. ProgramOK("basic", "server")
  <2>1. /\ Len(StepsOf("basic", "server")) = 4 /\ Nets["basic"].prog["server"].loop = 1
        /\ Nets["basic"].prog["server"].owner = "server"
        /\ StepsOf("basic", "server")[1].op = "read" /\ StepsOf("basic", "server")[1].arg = "up"
        /\ StepsOf("basic", "server")[2].op = "show" /\ StepsOf("basic", "server")[2].arg = "server"
        /\ StepsOf("basic", "server")[3].op = "set" /\ StepsOf("basic", "server")[3].arg = "server"
        /\ StepsOf("basic", "server")[4].op = "write" /\ StepsOf("basic", "server")[4].arg = "down"
    BY BasicIs DEF HasSteps, Do
  <2>2. \A i \in 1 .. 4 : StepOK("basic", "server", i)
    BY <1>0, <2>1 DEF StepOK, StepAt, Using, Ops, Fills, Uses, Sources, Persons
  <2>3. ~Using("basic", "server", 1)
    BY <2>1 DEF Using, Uses
  <2>4. "server" \in Sources \/ "server" \in Sources => "server" = "server"
    BY DEF Sources, Persons
  <2>5. Len(StepsOf("basic", "server")) \in 1 .. 7 /\ 1 \in 0 .. Len(StepsOf("basic", "server"))
    BY <2>1
  <2>6. SourcesOf("basic") = {}
    BY DEF SourcesOf
  <2> QED
    BY <2>1, <2>2, <2>3, <2>4, <2>5, <2>6 DEF ProgramOK
<1>2. ProgramOK("basic", "client")
  <2>1. /\ Len(StepsOf("basic", "client")) = 4 /\ Nets["basic"].prog["client"].loop = 1
        /\ Nets["basic"].prog["client"].owner = "client"
        /\ StepsOf("basic", "client")[1].op = "set" /\ StepsOf("basic", "client")[1].arg = "client"
        /\ StepsOf("basic", "client")[2].op = "write" /\ StepsOf("basic", "client")[2].arg = "up"
        /\ StepsOf("basic", "client")[3].op = "read" /\ StepsOf("basic", "client")[3].arg = "down"
        /\ StepsOf("basic", "client")[4].op = "show" /\ StepsOf("basic", "client")[4].arg = "client"
    BY BasicIs DEF HasSteps, Do
  <2>2. \A i \in 1 .. 4 : StepOK("basic", "client", i)
    BY <1>0, <2>1 DEF StepOK, StepAt, Using, Ops, Fills, Uses, Sources, Persons
  <2>3. ~Using("basic", "client", 1)
    BY <2>1 DEF Using, Uses
  <2>4. "client" \in Sources \/ "client" \in Sources => "client" = "client"
    BY DEF Sources, Persons
  <2>5. Len(StepsOf("basic", "client")) \in 1 .. 7 /\ 1 \in 0 .. Len(StepsOf("basic", "client"))
    BY <2>1
  <2>6. SourcesOf("basic") = {}
    BY DEF SourcesOf
  <2> QED
    BY <2>1, <2>2, <2>3, <2>4, <2>5, <2>6 DEF ProgramOK
<1> QED
  BY <1>1, <1>2, <1>0

(* Ring: every program is as wanted.                                       *)
LEMMA RingPrograms == \A p \in DOMAIN Nets["ring"].prog : ProgramOK("ring", p)
<1>0. DOMAIN Nets["ring"].prog = {"p1", "p2", "p3"} /\ DOMAIN Nets["ring"].chan = {"type1", "type2", "type3"}
  BY RingIs
<1>1. ProgramOK("ring", "p1")
  <2>1. /\ Len(StepsOf("ring", "p1")) = 5 /\ Nets["ring"].prog["p1"].loop = 2
        /\ Nets["ring"].prog["p1"].owner = "p1"
        /\ StepsOf("ring", "p1")[1].op = "msgget" /\ StepsOf("ring", "p1")[1].arg = "0666"
        /\ StepsOf("ring", "p1")[2].op = "set" /\ StepsOf("ring", "p1")[2].arg = "p1"
        /\ StepsOf("ring", "p1")[3].op = "write" /\ StepsOf("ring", "p1")[3].arg = "type1"
        /\ StepsOf("ring", "p1")[4].op = "read" /\ StepsOf("ring", "p1")[4].arg = "type2"
        /\ StepsOf("ring", "p1")[5].op = "show" /\ StepsOf("ring", "p1")[5].arg = "p1"
    BY RingIs DEF HasSteps, Do
  <2>2. \A i \in 1 .. 5 : StepOK("ring", "p1", i)
    <3>1. \A i \in 1 .. 5 : i = 1 => StepOK("ring", "p1", i)
      BY <1>0, <2>1 DEF StepOK, StepAt, Using, Ops, Fills, Uses, Sources, Persons
    <3>2. \A i \in 1 .. 5 : i = 2 => StepOK("ring", "p1", i)
      BY <1>0, <2>1 DEF StepOK, StepAt, Using, Ops, Fills, Uses, Sources, Persons
    <3>3. \A i \in 1 .. 5 : i = 3 => StepOK("ring", "p1", i)
      BY <1>0, <2>1 DEF StepOK, StepAt, Using, Ops, Fills, Uses, Sources, Persons
    <3>4. \A i \in 1 .. 5 : i = 4 => StepOK("ring", "p1", i)
      BY <1>0, <2>1 DEF StepOK, StepAt, Using, Ops, Fills, Uses, Sources, Persons
    <3>5. \A i \in 1 .. 5 : i = 5 => StepOK("ring", "p1", i)
      BY <1>0, <2>1 DEF StepOK, StepAt, Using, Ops, Fills, Uses, Sources, Persons
    <3> QED
      BY <3>1, <3>2, <3>3, <3>4, <3>5
  <2>3. ~Using("ring", "p1", 1)
    BY <2>1 DEF Using, Uses
  <2>4. "p1" \in Sources \/ "p1" \in Sources => "p1" = "p1"
    BY DEF Sources, Persons
  <2>5. Len(StepsOf("ring", "p1")) \in 1 .. 7 /\ 2 \in 0 .. Len(StepsOf("ring", "p1"))
    BY <2>1
  <2>6. SourcesOf("ring") = {}
    BY DEF SourcesOf
  <2> QED
    BY <2>1, <2>2, <2>3, <2>4, <2>5, <2>6 DEF ProgramOK
<1>2. ProgramOK("ring", "p2")
  <2>1. /\ Len(StepsOf("ring", "p2")) = 5 /\ Nets["ring"].prog["p2"].loop = 2
        /\ Nets["ring"].prog["p2"].owner = "p2"
        /\ StepsOf("ring", "p2")[1].op = "msgget" /\ StepsOf("ring", "p2")[1].arg = "0666"
        /\ StepsOf("ring", "p2")[2].op = "set" /\ StepsOf("ring", "p2")[2].arg = "p2"
        /\ StepsOf("ring", "p2")[3].op = "write" /\ StepsOf("ring", "p2")[3].arg = "type2"
        /\ StepsOf("ring", "p2")[4].op = "read" /\ StepsOf("ring", "p2")[4].arg = "type3"
        /\ StepsOf("ring", "p2")[5].op = "show" /\ StepsOf("ring", "p2")[5].arg = "p2"
    BY RingIs DEF HasSteps, Do
  <2>2. \A i \in 1 .. 5 : StepOK("ring", "p2", i)
    <3>1. \A i \in 1 .. 5 : i = 1 => StepOK("ring", "p2", i)
      BY <1>0, <2>1 DEF StepOK, StepAt, Using, Ops, Fills, Uses, Sources, Persons
    <3>2. \A i \in 1 .. 5 : i = 2 => StepOK("ring", "p2", i)
      BY <1>0, <2>1 DEF StepOK, StepAt, Using, Ops, Fills, Uses, Sources, Persons
    <3>3. \A i \in 1 .. 5 : i = 3 => StepOK("ring", "p2", i)
      BY <1>0, <2>1 DEF StepOK, StepAt, Using, Ops, Fills, Uses, Sources, Persons
    <3>4. \A i \in 1 .. 5 : i = 4 => StepOK("ring", "p2", i)
      BY <1>0, <2>1 DEF StepOK, StepAt, Using, Ops, Fills, Uses, Sources, Persons
    <3>5. \A i \in 1 .. 5 : i = 5 => StepOK("ring", "p2", i)
      BY <1>0, <2>1 DEF StepOK, StepAt, Using, Ops, Fills, Uses, Sources, Persons
    <3> QED
      BY <3>1, <3>2, <3>3, <3>4, <3>5
  <2>3. ~Using("ring", "p2", 1)
    BY <2>1 DEF Using, Uses
  <2>4. "p2" \in Sources \/ "p2" \in Sources => "p2" = "p2"
    BY DEF Sources, Persons
  <2>5. Len(StepsOf("ring", "p2")) \in 1 .. 7 /\ 2 \in 0 .. Len(StepsOf("ring", "p2"))
    BY <2>1
  <2>6. SourcesOf("ring") = {}
    BY DEF SourcesOf
  <2> QED
    BY <2>1, <2>2, <2>3, <2>4, <2>5, <2>6 DEF ProgramOK
<1>3. ProgramOK("ring", "p3")
  <2>1. /\ Len(StepsOf("ring", "p3")) = 5 /\ Nets["ring"].prog["p3"].loop = 2
        /\ Nets["ring"].prog["p3"].owner = "p3"
        /\ StepsOf("ring", "p3")[1].op = "msgget" /\ StepsOf("ring", "p3")[1].arg = "0666"
        /\ StepsOf("ring", "p3")[2].op = "set" /\ StepsOf("ring", "p3")[2].arg = "p3"
        /\ StepsOf("ring", "p3")[3].op = "write" /\ StepsOf("ring", "p3")[3].arg = "type3"
        /\ StepsOf("ring", "p3")[4].op = "read" /\ StepsOf("ring", "p3")[4].arg = "type1"
        /\ StepsOf("ring", "p3")[5].op = "show" /\ StepsOf("ring", "p3")[5].arg = "p3"
    BY RingIs DEF HasSteps, Do
  <2>2. \A i \in 1 .. 5 : StepOK("ring", "p3", i)
    <3>1. \A i \in 1 .. 5 : i = 1 => StepOK("ring", "p3", i)
      BY <1>0, <2>1 DEF StepOK, StepAt, Using, Ops, Fills, Uses, Sources, Persons
    <3>2. \A i \in 1 .. 5 : i = 2 => StepOK("ring", "p3", i)
      BY <1>0, <2>1 DEF StepOK, StepAt, Using, Ops, Fills, Uses, Sources, Persons
    <3>3. \A i \in 1 .. 5 : i = 3 => StepOK("ring", "p3", i)
      BY <1>0, <2>1 DEF StepOK, StepAt, Using, Ops, Fills, Uses, Sources, Persons
    <3>4. \A i \in 1 .. 5 : i = 4 => StepOK("ring", "p3", i)
      BY <1>0, <2>1 DEF StepOK, StepAt, Using, Ops, Fills, Uses, Sources, Persons
    <3>5. \A i \in 1 .. 5 : i = 5 => StepOK("ring", "p3", i)
      BY <1>0, <2>1 DEF StepOK, StepAt, Using, Ops, Fills, Uses, Sources, Persons
    <3> QED
      BY <3>1, <3>2, <3>3, <3>4, <3>5
  <2>3. ~Using("ring", "p3", 1)
    BY <2>1 DEF Using, Uses
  <2>4. "p3" \in Sources \/ "p3" \in Sources => "p3" = "p3"
    BY DEF Sources, Persons
  <2>5. Len(StepsOf("ring", "p3")) \in 1 .. 7 /\ 2 \in 0 .. Len(StepsOf("ring", "p3"))
    BY <2>1
  <2>6. SourcesOf("ring") = {}
    BY DEF SourcesOf
  <2> QED
    BY <2>1, <2>2, <2>3, <2>4, <2>5, <2>6 DEF ProgramOK
<1> QED
  BY <1>1, <1>2, <1>3, <1>0

(* Chat: every program is as wanted.                                       *)
LEMMA ChatPrograms == \A p \in DOMAIN Nets["chat"].prog : ProgramOK("chat", p)
<1>0. DOMAIN Nets["chat"].prog = {"a_read", "b_read", "a_write", "b_write", "user", "friend"} /\ DOMAIN Nets["chat"].chan = {"ttya", "ttyb", "q"}
  BY ChatIs
<1>1. ProgramOK("chat", "a_read")
  <2>1. /\ Len(StepsOf("chat", "a_read")) = 3 /\ Nets["chat"].prog["a_read"].loop = 2
        /\ Nets["chat"].prog["a_read"].owner = "a"
        /\ StepsOf("chat", "a_read")[1].op = "msgget" /\ StepsOf("chat", "a_read")[1].arg = "0666"
        /\ StepsOf("chat", "a_read")[2].op = "read" /\ StepsOf("chat", "a_read")[2].arg = "q"
        /\ StepsOf("chat", "a_read")[3].op = "show" /\ StepsOf("chat", "a_read")[3].arg = "a"
    BY ChatIs DEF HasSteps, Do
  <2>2. \A i \in 1 .. 3 : StepOK("chat", "a_read", i)
    BY <1>0, <2>1 DEF StepOK, StepAt, Using, Ops, Fills, Uses, Sources, Persons
  <2>3. ~Using("chat", "a_read", 1)
    BY <2>1 DEF Using, Uses
  <2>4. "a_read" \in Sources \/ "a" \in Sources => "a" = "a_read"
    BY DEF Sources, Persons
  <2>5. Len(StepsOf("chat", "a_read")) \in 1 .. 7 /\ 2 \in 0 .. Len(StepsOf("chat", "a_read"))
    BY <2>1
  <2>6. SourcesOf("chat") = {}
    BY DEF SourcesOf
  <2> QED
    BY <2>1, <2>2, <2>3, <2>4, <2>5, <2>6 DEF ProgramOK
<1>2. ProgramOK("chat", "b_read")
  <2>1. /\ Len(StepsOf("chat", "b_read")) = 3 /\ Nets["chat"].prog["b_read"].loop = 2
        /\ Nets["chat"].prog["b_read"].owner = "b"
        /\ StepsOf("chat", "b_read")[1].op = "msgget" /\ StepsOf("chat", "b_read")[1].arg = "0666"
        /\ StepsOf("chat", "b_read")[2].op = "read" /\ StepsOf("chat", "b_read")[2].arg = "q"
        /\ StepsOf("chat", "b_read")[3].op = "show" /\ StepsOf("chat", "b_read")[3].arg = "b"
    BY ChatIs DEF HasSteps, Do
  <2>2. \A i \in 1 .. 3 : StepOK("chat", "b_read", i)
    BY <1>0, <2>1 DEF StepOK, StepAt, Using, Ops, Fills, Uses, Sources, Persons
  <2>3. ~Using("chat", "b_read", 1)
    BY <2>1 DEF Using, Uses
  <2>4. "b_read" \in Sources \/ "b" \in Sources => "b" = "b_read"
    BY DEF Sources, Persons
  <2>5. Len(StepsOf("chat", "b_read")) \in 1 .. 7 /\ 2 \in 0 .. Len(StepsOf("chat", "b_read"))
    BY <2>1
  <2>6. SourcesOf("chat") = {}
    BY DEF SourcesOf
  <2> QED
    BY <2>1, <2>2, <2>3, <2>4, <2>5, <2>6 DEF ProgramOK
<1>3. ProgramOK("chat", "a_write")
  <2>1. /\ Len(StepsOf("chat", "a_write")) = 3 /\ Nets["chat"].prog["a_write"].loop = 2
        /\ Nets["chat"].prog["a_write"].owner = "a"
        /\ StepsOf("chat", "a_write")[1].op = "msgget" /\ StepsOf("chat", "a_write")[1].arg = "066"
        /\ StepsOf("chat", "a_write")[2].op = "read" /\ StepsOf("chat", "a_write")[2].arg = "ttya"
        /\ StepsOf("chat", "a_write")[3].op = "write" /\ StepsOf("chat", "a_write")[3].arg = "q"
    BY ChatIs DEF HasSteps, Do
  <2>2. \A i \in 1 .. 3 : StepOK("chat", "a_write", i)
    BY <1>0, <2>1 DEF StepOK, StepAt, Using, Ops, Fills, Uses, Sources, Persons
  <2>3. ~Using("chat", "a_write", 1)
    BY <2>1 DEF Using, Uses
  <2>4. "a_write" \in Sources \/ "a" \in Sources => "a" = "a_write"
    BY DEF Sources, Persons
  <2>5. Len(StepsOf("chat", "a_write")) \in 1 .. 7 /\ 2 \in 0 .. Len(StepsOf("chat", "a_write"))
    BY <2>1
  <2>6. SourcesOf("chat") = {}
    BY DEF SourcesOf
  <2> QED
    BY <2>1, <2>2, <2>3, <2>4, <2>5, <2>6 DEF ProgramOK
<1>4. ProgramOK("chat", "b_write")
  <2>1. /\ Len(StepsOf("chat", "b_write")) = 3 /\ Nets["chat"].prog["b_write"].loop = 2
        /\ Nets["chat"].prog["b_write"].owner = "b"
        /\ StepsOf("chat", "b_write")[1].op = "msgget" /\ StepsOf("chat", "b_write")[1].arg = "066"
        /\ StepsOf("chat", "b_write")[2].op = "read" /\ StepsOf("chat", "b_write")[2].arg = "ttyb"
        /\ StepsOf("chat", "b_write")[3].op = "write" /\ StepsOf("chat", "b_write")[3].arg = "q"
    BY ChatIs DEF HasSteps, Do
  <2>2. \A i \in 1 .. 3 : StepOK("chat", "b_write", i)
    BY <1>0, <2>1 DEF StepOK, StepAt, Using, Ops, Fills, Uses, Sources, Persons
  <2>3. ~Using("chat", "b_write", 1)
    BY <2>1 DEF Using, Uses
  <2>4. "b_write" \in Sources \/ "b" \in Sources => "b" = "b_write"
    BY DEF Sources, Persons
  <2>5. Len(StepsOf("chat", "b_write")) \in 1 .. 7 /\ 2 \in 0 .. Len(StepsOf("chat", "b_write"))
    BY <2>1
  <2>6. SourcesOf("chat") = {}
    BY DEF SourcesOf
  <2> QED
    BY <2>1, <2>2, <2>3, <2>4, <2>5, <2>6 DEF ProgramOK
<1>5. ProgramOK("chat", "user")
  <2>1. /\ Len(StepsOf("chat", "user")) = 2 /\ Nets["chat"].prog["user"].loop = 1
        /\ Nets["chat"].prog["user"].owner = "user"
        /\ StepsOf("chat", "user")[1].op = "type" /\ StepsOf("chat", "user")[1].arg = "user"
        /\ StepsOf("chat", "user")[2].op = "write" /\ StepsOf("chat", "user")[2].arg = "ttya"
    BY ChatIs DEF HasSteps, Do
  <2>2. \A i \in 1 .. 2 : StepOK("chat", "user", i)
    BY <1>0, <2>1 DEF StepOK, StepAt, Using, Ops, Fills, Uses, Sources, Persons
  <2>3. ~Using("chat", "user", 1)
    BY <2>1 DEF Using, Uses
  <2>4. "user" \in Sources \/ "user" \in Sources => "user" = "user"
    BY DEF Sources, Persons
  <2>5. Len(StepsOf("chat", "user")) \in 1 .. 7 /\ 1 \in 0 .. Len(StepsOf("chat", "user"))
    BY <2>1
  <2>6. SourcesOf("chat") = {}
    BY DEF SourcesOf
  <2> QED
    BY <2>1, <2>2, <2>3, <2>4, <2>5, <2>6 DEF ProgramOK
<1>6. ProgramOK("chat", "friend")
  <2>1. /\ Len(StepsOf("chat", "friend")) = 1 /\ Nets["chat"].prog["friend"].loop = 1
        /\ Nets["chat"].prog["friend"].owner = "friend"
        /\ StepsOf("chat", "friend")[1].op = "wait" /\ StepsOf("chat", "friend")[1].arg = "friend"
    BY ChatIs DEF HasSteps, Do
  <2>2. \A i \in 1 .. 1 : StepOK("chat", "friend", i)
    BY <1>0, <2>1 DEF StepOK, StepAt, Using, Ops, Fills, Uses, Sources, Persons
  <2>3. ~Using("chat", "friend", 1)
    BY <2>1 DEF Using, Uses
  <2>4. "friend" \in Sources \/ "friend" \in Sources => "friend" = "friend"
    BY DEF Sources, Persons
  <2>5. Len(StepsOf("chat", "friend")) \in 1 .. 7 /\ 1 \in 0 .. Len(StepsOf("chat", "friend"))
    BY <2>1
  <2>6. SourcesOf("chat") = {}
    BY DEF SourcesOf
  <2> QED
    BY <2>1, <2>2, <2>3, <2>4, <2>5, <2>6 DEF ProgramOK
<1> QED
  BY <1>1, <1>2, <1>3, <1>4, <1>5, <1>6, <1>0

(* So they all are.                                                        *)
LEMMA Programs == \A n \in DOMAIN Nets : \A p \in DOMAIN Nets[n].prog : ProgramOK(n, p)
<1>1. DOMAIN Nets = {"upp", "multiway", "pipeinp", "sel", "basic", "ring", "chat"}
  BY DEF Nets
<1> QED
  BY <1>1, UppPrograms, MultiWayPrograms, PipeInpPrograms, SelPrograms, BasicPrograms, RingPrograms, ChatPrograms
-----------------------------------------------------------------------------
(* The state and the steps, in these terms.                                *)

(* What is known of a process that runs.                                   *)
LEMMA StateFacts ==
  ASSUME Typed
  PROVE  /\ Procs = DOMAIN Nets[net].prog /\ DOMAIN chan = DOMAIN Nets[net].chan
         /\ \A p \in Procs : /\ ProgramOK(net, p) /\ at[p] \in 0 .. Len(StepsOf(net, p))
                             /\ Owner(p) \in OwnersOf(net) /\ Prog(p).steps = StepsOf(net, p)
                             /\ buf[Owner(p)] \in ValuesOf(net)
         /\ \A p : Running(p) => /\ p \in Procs /\ at[p] \in 1 .. Len(StepsOf(net, p))
                                 /\ Step(p) = StepsOf(net, p)[at[p]] /\ StepOK(net, p, at[p])
<1>1. Procs = DOMAIN Nets[net].prog /\ DOMAIN chan = DOMAIN Nets[net].chan
  BY DEF Typed, AtOK, ChanOK, Procs
<1>2. ASSUME NEW p \in Procs
      PROVE  /\ ProgramOK(net, p) /\ at[p] \in 0 .. Len(StepsOf(net, p))
             /\ Owner(p) \in OwnersOf(net) /\ Prog(p).steps = StepsOf(net, p)
             /\ buf[Owner(p)] \in ValuesOf(net)
  <2>1. ProgramOK(net, p)
    BY <1>1, Programs DEF Typed
  <2>2. at[p] \in 0 .. 7 /\ at[p] <= Len(StepsOf(net, p)) /\ Len(StepsOf(net, p)) \in 1 .. 7
    BY <1>1, <2>1 DEF Typed, AtOK, Procs, StepsOf, ProgramOK
  <2>3. Owner(p) \in OwnersOf(net) /\ Prog(p).steps = StepsOf(net, p)
    BY <1>1 DEF Owner, Prog, OwnersOf, StepsOf
  <2>4. buf[Owner(p)] \in ValuesOf(net)
    BY <2>3 DEF Typed, BufOK
  <2> QED
    BY <2>1, <2>2, <2>3, <2>4
<1>3. ASSUME NEW p, Running(p)
      PROVE  /\ p \in Procs /\ at[p] \in 1 .. Len(StepsOf(net, p))
             /\ Step(p) = StepsOf(net, p)[at[p]] /\ StepOK(net, p, at[p])
  <2>1. p \in Procs /\ at[p] # 0
    BY <1>3 DEF Running
  <2>2. at[p] \in 1 .. Len(StepsOf(net, p))
    BY <1>2, <2>1 DEF ProgramOK
  <2> QED
    BY <1>2, <2>1, <2>2 DEF Step, ProgramOK
<1> QED
  BY <1>1, <1>2, <1>3

(* A process that is somewhere else has something in hand only if the step *)
(* it comes to says so.                                                    *)
LEMMA HandIs ==
  ASSUME Typed, NEW p \in Procs
  PROVE  InHand(p) <=> Using(net, p, at[p])
BY StateFacts DEF InHand, Using, Running

(* Only p has moved, to a step of its program, and what the others have in *)
(* hand stays.                                                             *)
Moved(p) ==
  /\ AtOK' /\ Procs' = Procs
  /\ \A q \in Procs : q # p => at'[q] = at[q] /\ (InHand(q)' <=> InHand(q))

(* To go to another step.                                                  *)
LEMMA GotoFacts ==
  ASSUME Typed, net' = net, NEW p, Running(p), NEW i \in Nat \ {0}, Goto(p, i)
  PROVE  /\ Moved(p) /\ at'[p] = StepAt(net, p, i)
         /\ InHand(p)' <=> Using(net, p, StepAt(net, p, i))
<1>1. /\ p \in Procs /\ Prog(p).steps = StepsOf(net, p) /\ ProgramOK(net, p)
      /\ Procs = DOMAIN Nets[net].prog /\ at \in [Procs -> 0 .. 7]
      /\ \A q \in Procs : at[q] <= Len(Nets[net].prog[q].steps)
  BY StateFacts DEF Typed, AtOK, Procs
<1>2. at' = [at EXCEPT ![p] = StepAt(net, p, i)]
  BY <1>1 DEF Goto, StepAt, Prog
<1>3. StepAt(net, p, i) \in 0 .. 7 /\ StepAt(net, p, i) <= Len(StepsOf(net, p))
  <2>1. Len(StepsOf(net, p)) \in 1 .. 7 /\ Nets[net].prog[p].loop \in 0 .. Len(StepsOf(net, p))
    BY <1>1 DEF ProgramOK
  <2>2. ASSUME NEW k \in 1 .. 7, NEW l \in 0 .. k
        PROVE  (IF i > k THEN l ELSE i) \in 0 .. 7 /\ (IF i > k THEN l ELSE i) <= k
    OBVIOUS
  <2> QED
    BY <2>1, <2>2 DEF StepAt
<1>4. AtOK' /\ Procs' = Procs
  BY <1>1, <1>2, <1>3 DEF AtOK, Procs, StepsOf
<1>5. at'[p] = StepAt(net, p, i) /\ \A q \in Procs : q # p => at'[q] = at[q]
  BY <1>1, <1>2
<1>6. \A q \in Procs : InHand(q)' <=> Using(net, q, at'[q])
  BY <1>1, <1>4 DEF InHand, Using, Running, Step, Prog, StepsOf
<1> QED
  BY <1>1, <1>4, <1>5, <1>6, HandIs DEF Moved

(* To go on: only what fills the buffer puts it in hand.                   *)
LEMMA OnwardFacts ==
  ASSUME Typed, net' = net, NEW p, Running(p), Onward(p)
  PROVE  /\ Moved(p) /\ at'[p] = StepAt(net, p, at[p] + 1)
         /\ Step(p).op \notin Fills => ~InHand(p)'
<1>1. at[p] + 1 \in Nat \ {0} /\ Goto(p, at[p] + 1) /\ Step(p) = StepsOf(net, p)[at[p]]
      /\ StepOK(net, p, at[p])
  BY StateFacts DEF Onward, ProgramOK
<1> QED
  BY <1>1, GotoFacts DEF StepOK

(* When a process dies nothing is put in hand.                             *)
LEMMA DiesFacts ==
  ASSUME Typed, net' = net, NEW p \in Procs, Dies(p)
  PROVE  /\ AtOK' /\ Procs' = Procs
         /\ \A q \in Procs : at'[q] \in {0, at[q]} /\ (InHand(q)' => InHand(q))
         /\ \A q \in Procs : Owner(q) = Owner(p) => at'[q] = 0
         /\ \A q \in Procs : Owner(q) # Owner(p) => at'[q] = at[q]
         /\ \A q \in Procs : at'[q] = at[q] => (InHand(q)' <=> InHand(q))
<1>1. /\ Procs = DOMAIN Nets[net].prog /\ at \in [Procs -> 0 .. 7]
      /\ \A q \in Procs : at[q] <= Len(Nets[net].prog[q].steps)
      /\ \A q \in Procs : ProgramOK(net, q)
  BY StateFacts DEF Typed, AtOK, Procs
<1>2. /\ \A q \in Procs : at'[q] = IF Owner(q) = Owner(p) THEN 0 ELSE at[q]
      /\ Procs' = Procs
  BY DEF Dies, Procs
<1>3. AtOK'
  <2>1. at' \in [Procs -> 0 .. 7]
    BY <1>1 DEF Dies
  <2>2. \A q \in Procs : Len(Nets[net].prog[q].steps) \in 1 .. 7
    BY <1>1 DEF ProgramOK, StepsOf
  <2> QED
    BY <1>1, <1>2, <2>1, <2>2 DEF AtOK, Procs
<1>4. \A q \in Procs : InHand(q)' <=> Using(net, q, at'[q])
  BY <1>1, <1>2 DEF InHand, Using, Running, Step, Prog, StepsOf
<1> QED
  BY <1>2, <1>3, <1>4, HandIs DEF Using

(* A step that puts nothing in hand.                                       *)
Quieter == AtOK' /\ Procs' = Procs /\ \A q \in Procs : InHand(q)' => InHand(q)

(* To go on from a step that fills no buffer.                              *)
LEMMA OnwardQuiet ==
  ASSUME Typed, net' = net, NEW p, Running(p), Onward(p), Step(p).op \notin Fills
  PROVE  Quieter /\ ~InHand(p)'
BY OnwardFacts DEF Quieter, Moved

(* To pass over a descriptor that was not set.                             *)
LEMMA IsSetQuiet ==
  ASSUME Typed, NEW p, IsSet(p)
  PROVE  Quieter /\ Moved(p)
<1>1. /\ net' = net /\ Running(p) /\ Step(p).op = "isset" /\ at[p] + 1 \in Nat \ {0}
      /\ at[p] + 3 \in Nat \ {0} /\ StepOK(net, p, at[p]) /\ Step(p) = StepsOf(net, p)[at[p]]
  BY StateFacts DEF IsSet, Calls, ProgramOK
<1>2. CASE Step(p).arg \in rset
  <2>1. Goto(p, at[p] + 1)
    BY <1>2 DEF IsSet
  <2> QED
    BY <1>1, <2>1, GotoFacts DEF Quieter, Moved, StepOK, Fills
<1>3. CASE Step(p).arg \notin rset
  <2>1. Goto(p, at[p] + 3)
    BY <1>3 DEF IsSet
  <2> QED
    BY <1>1, <2>1, GotoFacts DEF Quieter, Moved, StepOK
<1> QED
  BY <1>2, <1>3

(* The step after another one that is not the last.                        *)
LEMMA NextStep == \A k \in 1 .. 7, i \in 0 .. 7 : i < k => i + 1 \in 0 .. 7 /\ i + 1 <= k /\ ~(i + 1 > k)
  OBVIOUS

(* A child that is started, and its parent, have nothing in hand.          *)
LEMMA StartQuiet ==
  ASSUME Typed, net' = net, NEW p, Running(p), Step(p).op \in {"fork", "spawn"},
         at' = [at EXCEPT ![Step(p).arg] = 1, ![p] = @ + 1]
  PROVE  /\ Quieter /\ Step(p).arg \in Procs \ {p}
         /\ at'[Step(p).arg] = 1 /\ at'[p] = at[p] + 1
         /\ \A q \in Procs \ {p, Step(p).arg} : at'[q] = at[q]
<1>1. /\ p \in Procs /\ ProgramOK(net, p) /\ StepOK(net, p, at[p])
      /\ Step(p) = StepsOf(net, p)[at[p]] /\ at[p] \in 1 .. Len(StepsOf(net, p))
      /\ Procs = DOMAIN Nets[net].prog /\ at \in [Procs -> 0 .. 7]
      /\ \A q \in Procs : at[q] <= Len(Nets[net].prog[q].steps)
      /\ \A q \in Procs : ProgramOK(net, q)
  BY StateFacts DEF Typed, AtOK, Procs
<1>2. Step(p).arg \in Procs \ {p} /\ at[p] < Len(StepsOf(net, p))
  BY <1>1 DEF StepOK
<1>3. /\ at'[Step(p).arg] = 1 /\ at'[p] = at[p] + 1 /\ Procs' = Procs
      /\ \A q \in Procs \ {p, Step(p).arg} : at'[q] = at[q]
  BY <1>1, <1>2 DEF Procs
<1>4. /\ at[p] + 1 \in 0 .. 7 /\ at[p] + 1 <= Len(StepsOf(net, p))
      /\ StepAt(net, p, at[p] + 1) = at[p] + 1
  <2>1. Len(StepsOf(net, p)) \in 1 .. 7
    BY <1>1 DEF ProgramOK
  <2>2. \A k \in 1 .. 7, i \in 0 .. 7 : i < k => i + 1 \in 0 .. 7 /\ i + 1 <= k /\ ~(i + 1 > k)
    BY NextStep
  <2>3. at[p] \in 0 .. 7
    BY <1>1
  <2> QED
    BY <1>2, <2>1, <2>2, <2>3 DEF StepAt
<1>5. AtOK'
  <2>1. at' \in [Procs -> 0 .. 7]
    BY <1>1, <1>4
  <2>2. \A q \in Procs : Len(Nets[net].prog[q].steps) \in 1 .. 7
    BY <1>1 DEF ProgramOK, StepsOf
  <2>a. ASSUME NEW k \in 1 .. 7 PROVE 1 <= k
    OBVIOUS
  <2>3. at'[Step(p).arg] <= Len(Nets[net].prog[Step(p).arg].steps)
    BY <1>2, <1>3, <2>a, <2>2
  <2>4. at'[p] <= Len(Nets[net].prog[p].steps)
    BY <1>3, <1>4 DEF StepsOf
  <2>5. \A q \in Procs \ {p, Step(p).arg} : at'[q] <= Len(Nets[net].prog[q].steps)
    BY <1>1, <1>3
  <2>6. \A q \in Procs : at'[q] <= Len(Nets[net].prog[q].steps)
    BY <2>3, <2>4, <2>5
  <2>7. DOMAIN at' = Procs
    BY <2>1
  <2> QED
    BY <1>1, <2>1, <2>6, <2>7 DEF AtOK
<1>6. \A q \in Procs : InHand(q)' <=> Using(net, q, at'[q])
  BY <1>1, <1>3 DEF InHand, Using, Running, Step, Prog, StepsOf
<1>7. ~Using(net, p, at'[p]) /\ ~Using(net, Step(p).arg, at'[Step(p).arg])
  <2>1. ~Using(net, Step(p).arg, 1)
    BY <1>1, <1>2 DEF ProgramOK
  <2>2. Step(p).op \notin Fills
    BY DEF Fills
  <2>3. ~Using(net, p, StepAt(net, p, at[p] + 1))
    BY <1>1, <2>2 DEF StepOK
  <2> QED
    BY <1>3, <1>4, <2>1, <2>3
<1> QED
  BY <1>2, <1>3, <1>5, <1>6, <1>7, HandIs DEF Quieter

(* Nor has a process that is started again.                                *)
LEMMA RestartQuiet ==
  ASSUME Typed, NEW p \in Procs, Restart(p)
  PROVE  /\ Quieter
         /\ \A q \in Procs : Owner(q) = Owner(p) => at'[q] = 1 /\ ~InHand(q)'
         /\ \A q \in Procs : Owner(q) # Owner(p) => at'[q] = at[q]
<1>1. /\ Procs = DOMAIN Nets[net].prog /\ at \in [Procs -> 0 .. 7]
      /\ \A q \in Procs : at[q] <= Len(Nets[net].prog[q].steps)
      /\ \A q \in Procs : ProgramOK(net, q)
  BY StateFacts DEF Typed, AtOK, Procs
<1>2. /\ \A q \in Procs : at'[q] = IF Owner(q) = Owner(p) THEN 1 ELSE at[q]
      /\ Procs' = Procs /\ net' = net
  BY DEF Restart, Procs
<1>3. AtOK'
  <2>1. at' \in [Procs -> 0 .. 7]
    BY <1>1 DEF Restart
  <2>2. \A q \in Procs : Len(Nets[net].prog[q].steps) \in 1 .. 7
    BY <1>1 DEF ProgramOK, StepsOf
  <2>a. ASSUME NEW k \in 1 .. 7 PROVE 1 <= k
    OBVIOUS
  <2>3. \A q \in Procs : at'[q] <= Len(Nets[net].prog[q].steps)
    BY <1>1, <1>2, <2>a, <2>2
  <2> QED
    BY <1>1, <1>2, <2>1, <2>3 DEF AtOK
<1>4. \A q \in Procs : InHand(q)' <=> Using(net, q, at'[q])
  BY <1>1, <1>2 DEF InHand, Using, Running, Step, Prog, StepsOf
<1>5. \A q \in Procs : ~Using(net, q, 1)
  BY <1>1 DEF ProgramOK
<1> QED
  BY <1>2, <1>3, <1>4, <1>5, HandIs DEF Quieter

-----------------------------------------------------------------------------
(* The channels.                                                           *)

(* The channels hold values, each from its first place on.                 *)
LEMMA ChanFacts ==
  ASSUME Typed, NEW c \in DOMAIN chan
  PROVE  /\ chan[c] \in Seq(ValuesOf(net)) /\ Len(chan[c]) \in Nat
         /\ DOMAIN chan[c] = 1 .. Len(chan[c])
         /\ \A i \in DOMAIN chan[c] : chan[c][i] \in ValuesOf(net)
<1>1. chan[c] \in Seq(ValuesOf(net))
  BY DEF Typed, ChanOK
<1> QED
  BY <1>1, LenProperties, ElementOfSeq

(* What is sent stands behind the rest.                                    *)
LEMMA SentFacts ==
  ASSUME Typed, net' = net, NEW c \in DOMAIN chan, NEW v \in ValuesOf(net),
         chan' = [chan EXCEPT ![c] = Append(@, v)]
  PROVE  /\ DOMAIN chan' = DOMAIN chan
         /\ chan' \in [DOMAIN Nets[net].chan -> Seq(ValuesOf(net))]
         /\ \A d \in DOMAIN chan : d # c => chan'[d] = chan[d]
         /\ Len(chan'[c]) = Len(chan[c]) + 1
         /\ Len(chan[c]) + 1 \in DOMAIN chan'[c] /\ chan'[c][Len(chan[c]) + 1] = v
         /\ \A i \in DOMAIN chan[c] : i \in DOMAIN chan'[c] /\ chan'[c][i] = chan[c][i] /\ i < Len(chan[c]) + 1
         /\ \A i \in DOMAIN chan'[c] : i \in DOMAIN chan[c] \/ i = Len(chan[c]) + 1
<1>1. chan[c] \in Seq(ValuesOf(net)) /\ chan \in [DOMAIN Nets[net].chan -> Seq(ValuesOf(net))]
  BY ChanFacts DEF Typed, ChanOK
<1>2. chan'[c] = Append(chan[c], v)
  BY <1>1
<1>3. chan'[c] \in Seq(ValuesOf(net))
  BY <1>1, <1>2, AppendIndices
<1>4. /\ DOMAIN chan' = DOMAIN chan
      /\ chan' \in [DOMAIN Nets[net].chan -> Seq(ValuesOf(net))]
      /\ \A d \in DOMAIN chan : d # c => chan'[d] = chan[d]
  BY <1>1, <1>2, <1>3
<1> QED
  BY <1>1, <1>2, <1>4, AppendIndices

(* What is taken leaves the rest, one place further.                       *)
LEMMA TakenFacts ==
  ASSUME Typed, net' = net, NEW c \in DOMAIN chan, chan[c] # <<>>,
         chan' = [chan EXCEPT ![c] = Tail(@)]
  PROVE  /\ DOMAIN chan' = DOMAIN chan
         /\ chan' \in [DOMAIN Nets[net].chan -> Seq(ValuesOf(net))]
         /\ \A d \in DOMAIN chan : d # c => chan'[d] = chan[d]
         /\ Len(chan[c]) \in Nat \ {0} /\ Len(chan'[c]) = Len(chan[c]) - 1
         /\ 1 \in DOMAIN chan[c] /\ Head(chan[c]) = chan[c][1]
         /\ \A i \in DOMAIN chan'[c] : i \in Nat \ {0} /\ i + 1 \in DOMAIN chan[c] /\ chan'[c][i] = chan[c][i + 1]
         /\ \A i \in DOMAIN chan[c] : i # 1 =>
              i - 1 \in DOMAIN chan'[c] /\ chan'[c][i - 1] = chan[c][i]
         /\ DOMAIN chan'[c] = DOMAIN chan[c] \ {Len(chan[c])}
<1>1. chan[c] \in Seq(ValuesOf(net)) /\ chan \in [DOMAIN Nets[net].chan -> Seq(ValuesOf(net))]
  BY ChanFacts DEF Typed, ChanOK
<1>2. chan'[c] = Tail(chan[c])
  BY <1>1
<1>3. /\ Tail(chan[c]) \in Seq(ValuesOf(net)) /\ Len(Tail(chan[c])) = Len(chan[c]) - 1
      /\ \A i \in 1 .. Len(Tail(chan[c])) : Tail(chan[c])[i] = chan[c][i + 1]
      /\ Head(chan[c]) = chan[c][1]
  BY <1>1, HeadTailProperties
<1>4. Len(chan[c]) \in Nat \ {0} /\ DOMAIN chan[c] = 1 .. Len(chan[c])
  BY <1>1, LenProperties, EmptySeq
<1>5. DOMAIN Tail(chan[c]) = 1 .. Len(chan[c]) - 1
  BY <1>3, <1>4, LenProperties
<1>6. /\ DOMAIN chan' = DOMAIN chan
      /\ chan' \in [DOMAIN Nets[net].chan -> Seq(ValuesOf(net))]
      /\ \A d \in DOMAIN chan : d # c => chan'[d] = chan[d]
  BY <1>1, <1>2, <1>3
<1>7. /\ Len(chan'[c]) = Len(chan[c]) - 1 /\ DOMAIN chan'[c] = 1 .. Len(chan[c]) - 1
      /\ \A i \in 1 .. Len(chan[c]) - 1 : chan'[c][i] = chan[c][i + 1]
  BY <1>2, <1>3, <1>4, <1>5
<1>8. /\ \A i \in 1 .. Len(chan[c]) - 1 : i \in Nat \ {0} /\ i + 1 \in 1 .. Len(chan[c])
      /\ \A i \in 1 .. Len(chan[c]) : i # 1 => i - 1 \in 1 .. Len(chan[c]) - 1 /\ (i - 1) + 1 = i
      /\ 1 .. Len(chan[c]) - 1 = (1 .. Len(chan[c])) \ {Len(chan[c])}
      /\ 1 \in 1 .. Len(chan[c])
  BY <1>4
<1> HIDE <1>2, <1>3, <1>5
<1> QED
  BY <1>1, <1>3, <1>4, <1>6, <1>7, <1>8

(* A message is a place in a queue.                                        *)
LEMMA MessagesAre ==
  \A x : x \in Messages <=> \E c \in DOMAIN chan : Kind(c) = "queue" /\ \E i \in DOMAIN chan[c] : x = <<c, i>>
BY DEF Messages

(* Sending adds a message if the channel is a queue, and there was room.   *)
LEMMA SentQueued ==
  ASSUME Typed, net' = net, NEW c \in DOMAIN chan, NEW v \in ValuesOf(net), Room(c),
         chan' = [chan EXCEPT ![c] = Append(@, v)]
  PROVE  /\ ChanOK' /\ QueueOK'
         /\ Queued' = IF Kind(c) = "queue" THEN Queued + 1 ELSE Queued
<1>0. \A d \in DOMAIN chan : Kind(d)' = Kind(d)
  BY DEF Kind
<1>1. ChanOK'
  <2>1. \A d \in DOMAIN chan : Kind(d) # "queue" => Len(chan'[d]) <= PipeCap
    <3>1. \A d \in DOMAIN chan : d # c /\ Kind(d) # "queue" => Len(chan'[d]) <= PipeCap
      BY SentFacts DEF Typed, ChanOK
    <3>2. Kind(c) # "queue" => Len(chan'[c]) <= PipeCap
      <4>1. Len(chan'[c]) = Len(chan[c]) + 1 /\ Len(chan[c]) \in Nat /\ PipeCap \in Nat
        BY SentFacts, ChanFacts, BoundsAssumption
      <4>2. Kind(c) # "queue" => Len(chan[c]) < PipeCap
        BY DEF Room
      <4> QED
        BY <4>1, <4>2
    <3> QED
      BY <3>1, <3>2
  <2>2. ValuesOf(net)' = ValuesOf(net)
    BY DEF ValuesOf, OwnersOf
  <2> QED
    BY <1>0, <2>1, <2>2, SentFacts DEF ChanOK
<1>2. IsFiniteSet(Messages) /\ Queued \in Nat /\ Queued <= QueueCap
  BY FS_CardinalityType DEF Typed, QueueOK, Queued
<1>3. CASE Kind(c) = "queue"
  <2>1. <<c, Len(chan[c]) + 1>> \notin Messages
    BY MessagesAre, SentFacts, ChanFacts
  <2>2. Messages' = Messages \cup {<<c, Len(chan[c]) + 1>>}
    <3>1. \A x : x \in Messages' => x \in Messages \cup {<<c, Len(chan[c]) + 1>>}
      BY <1>0, MessagesAre, SentFacts DEF Messages
    <3>2. \A x : x \in Messages => x \in Messages'
      BY <1>0, MessagesAre, SentFacts DEF Messages
    <3>3. <<c, Len(chan[c]) + 1>> \in Messages'
      BY <1>0, <1>3, SentFacts DEF Messages
    <3> QED
      BY <3>1, <3>2, <3>3
  <2>3. IsFiniteSet(Messages') /\ Queued' = Queued + 1
    BY <1>2, <2>1, <2>2, FS_AddElement DEF Queued
  <2>4. QueueCap' = QueueCap /\ Queued < QueueCap /\ QueueCap \in Nat
    BY <1>3, BoundsAssumption DEF QueueCap, Room
  <2> QED
    BY <1>1, <1>2, <1>3, <2>3, <2>4 DEF QueueOK
<1>4. CASE Kind(c) # "queue"
  <2>1. Messages' = Messages
    BY <1>0, <1>4, SentFacts DEF Messages
  <2> QED
    BY <1>1, <1>2, <1>4, <2>1 DEF QueueOK, Queued, QueueCap
<1> QED
  BY <1>3, <1>4

(* Taking removes one.                                                     *)
LEMMA TakenQueued ==
  ASSUME Typed, net' = net, NEW c \in DOMAIN chan, chan[c] # <<>>,
         chan' = [chan EXCEPT ![c] = Tail(@)]
  PROVE  /\ ChanOK' /\ QueueOK' /\ Head(chan[c]) \in ValuesOf(net)
         /\ Queued' = IF Kind(c) = "queue" THEN Queued - 1 ELSE Queued
<1>0. \A d \in DOMAIN chan : Kind(d)' = Kind(d)
  BY DEF Kind
<1>1. ChanOK'
  <2>1. \A d \in DOMAIN chan : Kind(d) # "queue" => Len(chan'[d]) <= PipeCap
    <3>1. \A d \in DOMAIN chan : d # c /\ Kind(d) # "queue" => Len(chan'[d]) <= PipeCap
      BY TakenFacts DEF Typed, ChanOK
    <3>2. Kind(c) # "queue" => Len(chan'[c]) <= PipeCap
      <4>1. Len(chan'[c]) = Len(chan[c]) - 1 /\ Len(chan[c]) \in Nat /\ PipeCap \in Nat
        BY TakenFacts, ChanFacts, BoundsAssumption
      <4>2. Kind(c) # "queue" => Len(chan[c]) <= PipeCap
        BY DEF Typed, ChanOK
      <4> QED
        BY <4>1, <4>2
    <3> QED
      BY <3>1, <3>2
  <2>2. ValuesOf(net)' = ValuesOf(net)
    BY DEF ValuesOf, OwnersOf
  <2> QED
    BY <1>0, <2>1, <2>2, TakenFacts DEF ChanOK
<1>2. IsFiniteSet(Messages) /\ Queued \in Nat /\ Queued <= QueueCap /\ Head(chan[c]) \in ValuesOf(net)
  BY FS_CardinalityType, TakenFacts, ChanFacts DEF Typed, QueueOK, Queued
<1>3. CASE Kind(c) = "queue"
  <2>1. <<c, Len(chan[c])>> \in Messages
    BY <1>3, MessagesAre, TakenFacts, ChanFacts
  <2>2. Messages' = Messages \ {<<c, Len(chan[c])>>}
    <3>0. \A x : x \in Messages' <=> \E d \in DOMAIN chan : Kind(d) = "queue" /\ \E i \in DOMAIN chan'[d] : x = <<d, i>>
      BY <1>0, TakenFacts DEF Messages
    <3>1. \A d \in DOMAIN chan : DOMAIN chan'[d] = IF d = c THEN DOMAIN chan[c] \ {Len(chan[c])} ELSE DOMAIN chan[d]
      BY TakenFacts
    <3>2. ASSUME NEW x, x \in Messages' PROVE x \in Messages \ {<<c, Len(chan[c])>>}
      <4>1. PICK d \in DOMAIN chan : Kind(d) = "queue" /\ \E i \in DOMAIN chan'[d] : x = <<d, i>>
        BY <3>0, <3>2
      <4>2. PICK i \in DOMAIN chan'[d] : x = <<d, i>>
        BY <4>1
      <4>3. i \in DOMAIN chan[d] /\ ~(d = c /\ i = Len(chan[c]))
        BY <3>1
      <4> QED
        BY <4>1, <4>2, <4>3, MessagesAre
    <3>3. ASSUME NEW x, x \in Messages, x # <<c, Len(chan[c])>> PROVE x \in Messages'
      <4>1. PICK d \in DOMAIN chan : Kind(d) = "queue" /\ \E i \in DOMAIN chan[d] : x = <<d, i>>
        BY <3>3, MessagesAre
      <4>2. PICK i \in DOMAIN chan[d] : x = <<d, i>>
        BY <4>1
      <4>3. i \in DOMAIN chan'[d]
        BY <3>1, <3>3, <4>2
      <4> QED
        BY <3>0, <4>1, <4>2, <4>3
    <3> QED
      BY <3>2, <3>3
  <2>3. IsFiniteSet(Messages') /\ Queued' = Queued - 1
    BY <1>2, <2>1, <2>2, FS_RemoveElement DEF Queued
  <2>4. QueueCap' = QueueCap /\ QueueCap \in Nat
    BY <1>3, BoundsAssumption DEF QueueCap
  <2> QED
    BY <1>1, <1>2, <1>3, <2>3, <2>4 DEF QueueOK
<1>4. CASE Kind(c) # "queue"
  <2>1. Messages' = Messages
    BY <1>0, <1>4, TakenFacts DEF Messages
  <2> QED
    BY <1>1, <1>2, <1>4, <2>1 DEF QueueOK, Queued, QueueCap
<1> QED
  BY <1>3, <1>4

-----------------------------------------------------------------------------
(* The first part of the invariant: everything but the order and p123.     *)
Base == Typed /\ Known /\ (~stale => Unique)

(* Only the threads of the chat share a buffer.                            *)
LEMMA OwnersApart == \A n \in DOMAIN Nets \ {"chat"} : \A p \in DOMAIN Nets[n].prog : Nets[n].prog[p].owner = p
<1>1. DOMAIN Nets = {"upp", "multiway", "pipeinp", "sel", "basic", "ring", "chat"}
  BY DEF Nets
<1>2. \A p \in DOMAIN Nets["upp"].prog : Nets["upp"].prog[p].owner = p
  BY UppIs DEF HasSteps
<1>3. \A p \in DOMAIN Nets["multiway"].prog : Nets["multiway"].prog[p].owner = p
  BY MultiWayIs DEF HasSteps
<1>4. \A p \in DOMAIN Nets["pipeinp"].prog : Nets["pipeinp"].prog[p].owner = p
  BY PipeInpIs DEF HasSteps
<1>5. \A p \in DOMAIN Nets["sel"].prog : Nets["sel"].prog[p].owner = p
  BY SelIs DEF HasSteps
<1>6. \A p \in DOMAIN Nets["basic"].prog : Nets["basic"].prog[p].owner = p
  BY BasicIs DEF HasSteps
<1>7. \A p \in DOMAIN Nets["ring"].prog : Nets["ring"].prog[p].owner = p
  BY RingIs DEF HasSteps
<1> QED
  BY <1>1, <1>2, <1>3, <1>4, <1>5, <1>6, <1>7

(* So a source has its buffer to itself, and so has every process of the   *)
(* other systems.                                                          *)
LEMMA Alone ==
  ASSUME Typed
  PROVE  /\ \A p, q \in Procs : Owner(p) \in Sources /\ Owner(p) = Owner(q) => p = q /\ Owner(p) = p
         /\ \A p \in Sources \cap Procs : Owner(p) = p
         /\ net # "chat" => \A p \in Procs : Owner(p) = p
         /\ net \in {"ring", "chat"} => \A p \in Procs : Owner(p) \in Sources => p \in Persons
<1>1. Procs = DOMAIN Nets[net].prog /\ \A p \in Procs : ProgramOK(net, p)
  BY StateFacts
<1>2. \A p \in Procs : p \in Sources \/ Owner(p) \in Sources => Owner(p) = p
  BY <1>1 DEF ProgramOK, Owner, Prog
<1>3. net # "chat" => \A p \in Procs : Owner(p) = p
  BY <1>1, OwnersApart DEF Owner, Prog, Typed
<1>4. net \in {"ring", "chat"} => \A p \in Procs : p \in Sources => p \in Persons
  BY <1>1, RingIs, ChatIs DEF Sources, Persons
<1> QED
  BY <1>2, <1>3, <1>4

(* What was typed stays typed.                                             *)
LEMMA StillTyped ==
  ASSUME BufOK, BufOK', net' = net,
         \A s \in Sources \cap OwnersOf(net) : buf[s][2] <= buf'[s][2]
  PROVE  \A v : WasTyped(buf, v) => WasTyped(buf', v)
<1> SUFFICES ASSUME NEW v, WasTyped(buf, v), v \in Lines
             PROVE  v[1] \in DOMAIN buf' /\ v[2] <= buf'[v[1]][2]
  BY DEF WasTyped
<1>1. v[1] \in Sources /\ v[2] \in 1 .. MaxLines /\ MaxLines \in Nat
  BY BoundsAssumption DEF Lines
<1>2. v[1] \in DOMAIN buf /\ v[2] <= buf[v[1]][2]
  BY DEF WasTyped
<1>0. DOMAIN buf = OwnersOf(net) /\ DOMAIN buf' = OwnersOf(net) /\ OwnersOf(net)' = OwnersOf(net)
  BY DEF BufOK, OwnersOf
<1>3. buf[v[1]] \in {v[1]} \X (0 .. MaxLines) /\ buf'[v[1]] \in {v[1]} \X (0 .. MaxLines)
  BY <1>0, <1>1, <1>2 DEF BufOK
<1>4. buf[v[1]][2] \in Int /\ buf'[v[1]][2] \in Int /\ v[2] \in Int
  BY <1>1, <1>3
<1>5. buf[v[1]][2] <= buf'[v[1]][2]
  BY <1>0, <1>1, <1>2
<1> QED
  BY <1>0, <1>1, <1>2, <1>4, <1>5

(* A step that touches no buffer, no channel and nothing shown, and puts   *)
(* nothing in hand unless it was out of turn.                              *)
LEMMA QuietBase ==
  ASSUME Base, UNCHANGED <<net, buf, chan, trail, shown>>, AtOK', Procs' = Procs, RestOK',
         ~stale' => ~stale /\ Quieter
  PROVE  Base'
<1>1. BufOK' /\ ChanOK' /\ QueueOK'
  BY DEF Base, Typed, BufOK, ChanOK, QueueOK, OwnersOf, ValuesOf, Kind, Queued, Messages, QueueCap
<1>2. Typed'
  BY <1>1 DEF Base, Typed
<1>o. \A p \in Procs : Owner(p)' = Owner(p)
  BY DEF Owner, Prog
<1>3. Known'
  BY <1>o DEF Base, Known, WasTyped
<1>4. ASSUME ~stale' PROVE Unique'
  <2>1. Unique /\ \A q \in Procs : InHand(q)' => InHand(q)
    BY <1>4 DEF Base, Quieter
  <2>2. OneHand'
    BY <1>o, <2>1 DEF Unique, OneHand
  <2>3. OnePlace'
    BY <2>1 DEF Unique, OnePlace
  <2>4. HandOrChan'
    BY <1>o, <2>1 DEF Unique, HandOrChan
  <2>5. ShownGone'
    BY <1>o, <2>1 DEF Unique, ShownGone
  <2> QED
    BY <2>2, <2>3, <2>4, <2>5 DEF Unique
<1> QED
  BY <1>2, <1>3, <1>4 DEF Base

(* A buffer that gets a text of the program's own.                         *)
LEMMA ResetBase ==
  ASSUME Base, NEW p \in Procs, Owner(p) \notin Sources,
         buf' = [buf EXCEPT ![Owner(p)] = <<Owner(p), 0>>],
         UNCHANGED <<net, chan, rset, mode, reset, trail, shown, stale, kills>>, AtOK', Procs' = Procs,
         \A q \in Procs : Owner(q) # Owner(p) /\ InHand(q)' => InHand(q),
         \A q, r \in Procs : Owner(q) = Owner(p) /\ Owner(r) = Owner(p) /\ InHand(q)' /\ InHand(r)' => q = r
  PROVE  Base'
<1>1. ChanOK' /\ QueueOK' /\ RestOK'
  BY DEF Base, Typed, ChanOK, QueueOK, RestOK, OwnersOf, ValuesOf, Kind, Queued, Messages, QueueCap
<1>2. Owner(p) \in OwnersOf(net) /\ Procs = DOMAIN Nets[net].prog
  BY StateFacts DEF Base
<1>3. /\ buf \in [OwnersOf(net) -> ValuesOf(net)] /\ <<Owner(p), 0>> \in ValuesOf(net)
      /\ buf' \in [OwnersOf(net) -> ValuesOf(net)]
      /\ buf'[Owner(p)] = <<Owner(p), 0>>
      /\ \A o \in OwnersOf(net) : o # Owner(p) => buf'[o] = buf[o]
  BY <1>2 DEF Base, Typed, BufOK, ValuesOf
<1>4. \A q \in Procs : Owner(q)' = Owner(q) /\ Owner(q) \in OwnersOf(net)
  BY StateFacts DEF Base, Owner, Prog
<1>5. \A s \in Sources \cap OwnersOf(net) : s # Owner(p) /\ buf'[s] = buf[s]
  BY <1>3
<1>6. BufOK'
  BY <1>2, <1>3, <1>5 DEF BufOK, Base, Typed, OwnersOf, ValuesOf
<1>7. Typed'
  BY <1>1, <1>6 DEF Base, Typed
<1>8. \A v : WasTyped(buf, v) => WasTyped(buf', v)
  <2>1. \A v \in Lines : v[1] \in Sources
    BY DEF Lines
  <2> QED
    BY <1>3, <1>5, <2>1 DEF WasTyped
<1>9. <<Owner(p), 0>> \notin Lines
  BY DEF Lines
<1>10. Known'
  <2>0. WasTyped(buf', <<Owner(p), 0>>)
    BY <1>9 DEF WasTyped
  <2>1. \A q \in Procs : WasTyped(buf', buf'[Owner(q)])
    BY <1>3, <1>4, <1>8, <2>0 DEF Base, Known
  <2> QED
    BY <1>4, <1>8, <2>1 DEF Base, Known
<1>11. ASSUME ~stale' PROVE Unique'
  <2>1. Unique
    BY <1>11 DEF Base
  <2>2. \A q \in Procs : buf'[Owner(q)] \in Lines /\ InHand(q)' => InHand(q) /\ buf'[Owner(q)] = buf[Owner(q)]
    BY <1>3, <1>4, <1>9
  <2>3. \A q \in Procs : InHand(q)' => Owner(q) = Owner(p) \/ InHand(q)
    OBVIOUS
  <2>4. OneHand'
    BY <1>4, <2>1, <2>2, <2>3 DEF Unique, OneHand
  <2>5. OnePlace'
    BY <2>1 DEF Unique, OnePlace
  <2>6. HandOrChan'
    BY <1>4, <2>1, <2>2 DEF Unique, HandOrChan
  <2>7. ShownGone'
    BY <1>4, <2>1, <2>2 DEF Unique, ShownGone
  <2> QED
    BY <2>4, <2>5, <2>6, <2>7 DEF Unique
<1> QED
  BY <1>7, <1>10, <1>11 DEF Base

(* Changing the number of a line.                                          *)
LEMMA NextLine == \A p, n : \A v \in {p} \X n : \A m : [v EXCEPT ![2] = m] = <<p, m>>
  OBVIOUS

(* A source types its next line, which nobody has seen before.             *)
LEMMA TypeBase ==
  ASSUME Base, NEW p, Type(p)
  PROVE  /\ Base' /\ Moved(p) /\ p \in Sources \cap Procs
         /\ \A q \in Procs : q # p => Owner(q) # p
         /\ buf' = [buf EXCEPT ![p] = <<p, buf[p][2] + 1>>]
         /\ UNCHANGED <<net, chan, rset, mode, reset, trail, shown, stale, kills>>
<1>1. /\ Running(p) /\ Step(p).op = "type" /\ buf[p][2] < MaxLines /\ Onward(p)
      /\ UNCHANGED <<net, chan, rset, mode, reset, trail, shown, stale, kills>>
      /\ buf' = [buf EXCEPT ![p][2] = @ + 1]
  BY DEF Type, Calls
<1>2. Moved(p) /\ p \in Procs /\ StepOK(net, p, at[p]) /\ Step(p) = StepsOf(net, p)[at[p]]
  BY <1>1, StateFacts, OnwardFacts DEF Base
<1>3. p \in Sources \cap Procs /\ Owner(p) = p /\ \A q \in Procs : q # p => Owner(q) # p
  BY <1>1, <1>2, Alone DEF Base, StepOK
<1>4. Procs = DOMAIN Nets[net].prog /\ p \in OwnersOf(net) /\ p \in Sources \cap DOMAIN Nets[net].prog
  BY <1>3, StateFacts DEF Base
<1>5. buf[p] \in {p} \X (0 .. MaxLines) /\ buf \in [OwnersOf(net) -> ValuesOf(net)] /\ MaxLines \in Nat
  BY <1>4, BoundsAssumption DEF Base, Typed, BufOK
<1>6. buf' = [buf EXCEPT ![p] = <<p, buf[p][2] + 1>>]
  <2>1. buf' = [buf EXCEPT ![p] = [buf[p] EXCEPT ![2] = buf[p][2] + 1]]
    BY <1>1
  <2>2. [buf[p] EXCEPT ![2] = buf[p][2] + 1] = <<p, buf[p][2] + 1>>
    BY <1>5, NextLine
  <2> QED
    BY <2>1, <2>2
<1>7. buf[p] = <<p, buf[p][2]>> /\ buf[p][2] \in Nat /\ buf[p][2] + 1 \in 1 .. MaxLines
  BY <1>1, <1>5
<1>8. /\ <<p, buf[p][2] + 1>> \in Lines /\ <<p, buf[p][2] + 1>> \in {p} \X (0 .. MaxLines)
      /\ Lines \subseteq ValuesOf(net)
  BY <1>3, <1>7 DEF Lines, ValuesOf
<1>9. /\ buf' \in [OwnersOf(net) -> ValuesOf(net)]
      /\ buf'[p] = <<p, buf[p][2] + 1>>
      /\ \A o \in OwnersOf(net) : o # p => buf'[o] = buf[o]
  BY <1>4, <1>5, <1>6, <1>8
<1>10. \A q \in Procs : Owner(q)' = Owner(q) /\ Owner(q) \in OwnersOf(net)
  BY <1>1, StateFacts DEF Base, Owner, Prog
<1>12. BufOK'
  <2>1. \A s \in Sources \cap OwnersOf(net) : buf'[s] \in {s} \X (0 .. MaxLines)
    <3>1. \A s \in Sources \cap OwnersOf(net) : buf[s] \in {s} \X (0 .. MaxLines)
      BY DEF Base, Typed, BufOK
    <3> QED
      BY <1>8, <1>9, <3>1
  <2>2. OwnersOf(net)' = OwnersOf(net) /\ ValuesOf(net)' = ValuesOf(net)
    BY <1>1 DEF OwnersOf, ValuesOf
  <2> QED
    BY <1>9, <2>1, <2>2 DEF BufOK
<1>13. ChanOK' /\ QueueOK' /\ RestOK'
  BY <1>1 DEF Base, Typed, ChanOK, QueueOK, RestOK, OwnersOf, ValuesOf, Kind, Queued, Messages, QueueCap
<1>14. Typed'
  BY <1>1, <1>2, <1>12, <1>13 DEF Base, Typed, Moved
<1>15. \A v : WasTyped(buf, v) => WasTyped(buf', v)
  <2>1. \A s \in Sources \cap OwnersOf(net) : buf[s][2] <= buf'[s][2]
    <3>1. \A s \in Sources \cap OwnersOf(net) : buf[s] \in {s} \X (0 .. MaxLines)
      BY DEF Base, Typed, BufOK
    <3>2. \A s \in Sources \cap OwnersOf(net) : s # p => buf'[s] = buf[s]
      BY <1>9
    <3>3. \A s \in Sources \cap OwnersOf(net) : buf[s][2] \in Nat
      BY <3>1
    <3> QED
      BY <1>7, <1>9, <3>2, <3>3
  <2> QED
    BY <1>1, <1>12, <2>1, StillTyped DEF Base, Typed
<1>l. PICK l : l = <<p, buf[p][2] + 1>>
  OBVIOUS
<1>16. ~WasTyped(buf, l) /\ WasTyped(buf', l) /\ l \in Lines
  <2>1. l \in Lines /\ l[1] = p /\ l[2] = buf[p][2] + 1
    BY <1>8, <1>l
  <2>2. ~(l[2] <= buf[p][2]) /\ l[2] <= l[2]
    BY <1>7, <2>1
  <2>3. buf'[p][2] = l[2] /\ p \in DOMAIN buf'
    BY <1>4, <1>9, <1>l
  <2> QED
    BY <2>1, <2>2, <2>3 DEF WasTyped
<1>17. Known'
  <2>1. \A q \in Procs : WasTyped(buf', buf'[Owner(q)])
    <3>1. \A q \in Procs : WasTyped(buf', buf[Owner(q)])
      BY <1>15 DEF Base, Known
    <3> QED
      BY <1>9, <1>10, <1>16, <1>l, <3>1
  <2>2. \A c \in DOMAIN chan : \A i \in DOMAIN chan[c] : WasTyped(buf', chan[c][i])
    BY <1>15 DEF Base, Known
  <2>3. \A v \in Lines : shown[v] > 0 \/ trail[v] # {} => WasTyped(buf', v)
    BY <1>15 DEF Base, Known
  <2> QED
    BY <1>1, <1>2, <1>10, <2>1, <2>2, <2>3 DEF Known, Moved
<1>18. ASSUME ~stale' PROVE Unique'
  <2>1. Unique
    BY <1>1, <1>18 DEF Base
  <2>2. /\ \A q \in Procs : q # p => buf'[Owner(q)] = buf[Owner(q)] /\ buf[Owner(q)] # l
        /\ buf'[Owner(p)] = l
    BY <1>3, <1>9, <1>10, <1>16, <1>l DEF Base, Known
  <2>3. \A c \in DOMAIN chan : \A i \in DOMAIN chan[c] : chan[c][i] # l
    BY <1>16 DEF Base, Known
  <2>4. shown[l] > 0 => FALSE
    BY <1>16 DEF Base, Known
  <2>5. \A q \in Procs : q # p => (InHand(q)' <=> InHand(q))
    BY <1>2 DEF Moved
  <2>6. OneHand'
    <3> SUFFICES ASSUME NEW q \in Procs, NEW r \in Procs, InHand(q)', InHand(r)'
                 PROVE  /\ Owner(q) = Owner(r) => q = r
                        /\ buf'[Owner(q)] \in Lines /\ buf'[Owner(q)] = buf'[Owner(r)] => q = r
      BY <1>2, <1>10 DEF OneHand, Moved
    <3>1. CASE q # p /\ r # p
      BY <2>1, <2>2, <2>5, <3>1 DEF Unique, OneHand
    <3>2. CASE q = p \/ r = p
      BY <1>3, <2>2, <3>2
    <3> QED
      BY <3>1, <3>2
  <2>7. OnePlace'
    BY <1>1, <2>1 DEF Unique, OnePlace
  <2>8. HandOrChan'
    BY <1>1, <1>2, <1>10, <2>1, <2>2, <2>3, <2>5 DEF Unique, HandOrChan, Moved
  <2>9. ShownGone'
    BY <1>1, <1>2, <1>10, <2>1, <2>2, <2>4, <2>5 DEF Unique, ShownGone, Moved
  <2> QED
    BY <2>6, <2>7, <2>8, <2>9 DEF Unique
<1> QED
  BY <1>1, <1>2, <1>3, <1>6, <1>14, <1>17, <1>18 DEF Base

(* Data is taken from a channel: no other thread holds something in the    *)
(* same buffer, or the buffer was used out of turn.                        *)
LEMMA TakeBase ==
  ASSUME Base, NEW p, Running(p), NEW c \in DOMAIN chan, chan[c] # <<>>,
         chan' = [chan EXCEPT ![c] = Tail(@)],
         NEW v, buf' = [buf EXCEPT ![Owner(p)] = v], v \in {Head(chan[c]), Torn},
         stale' \in BOOLEAN, ~stale' => ~stale /\ ~InUse(p) /\ v = Head(chan[c]),
         Owner(p) \notin Sources, Moved(p), UNCHANGED <<net, rset, mode, reset, shown, kills>>,
         trail' \in [Lines -> SUBSET Lines], \A w \in Lines : w # v => trail'[w] = trail[w]
  PROVE  Base'
<1>1. ChanOK' /\ QueueOK' /\ Head(chan[c]) \in ValuesOf(net)
  BY TakenQueued DEF Base
<1>2. /\ DOMAIN chan' = DOMAIN chan
      /\ \A d \in DOMAIN chan : d # c => chan'[d] = chan[d]
      /\ 1 \in DOMAIN chan[c] /\ Head(chan[c]) = chan[c][1]
      /\ \A i \in DOMAIN chan'[c] : i \in Nat \ {0} /\ i + 1 \in DOMAIN chan[c] /\ chan'[c][i] = chan[c][i + 1]
  BY TakenFacts DEF Base
<1>3. p \in Procs /\ \A q \in Procs : Owner(q) \in OwnersOf(net) /\ Owner(q)' = Owner(q)
  BY StateFacts DEF Base, Owner, Prog
<1>4. Torn \notin Lines
  BY DEF Torn, Lines, Sources, Persons
<1>5. v \in ValuesOf(net)
  BY <1>1 DEF ValuesOf
<1>6. /\ buf \in [OwnersOf(net) -> ValuesOf(net)] /\ buf' \in [OwnersOf(net) -> ValuesOf(net)]
      /\ buf'[Owner(p)] = v
      /\ \A o \in OwnersOf(net) : o # Owner(p) => buf'[o] = buf[o]
  BY <1>3, <1>5 DEF Base, Typed, BufOK
<1>7. BufOK'
  BY <1>6 DEF BufOK, Base, Typed, OwnersOf, ValuesOf
<1>8. RestOK'
  BY <1>2 DEF Base, Typed, RestOK
<1>9. Typed'
  BY <1>1, <1>7, <1>8 DEF Base, Typed, Moved
<1>10. \A w : WasTyped(buf, w) => WasTyped(buf', w)
  <2>1. \A s \in Sources \cap OwnersOf(net) : buf'[s] = buf[s]
    BY <1>6
  <2>2. \A w \in Lines : w[1] \in Sources
    BY DEF Lines
  <2> QED
    BY <1>6, <2>1, <2>2 DEF WasTyped
<1>11. Known'
  <2>1. WasTyped(buf', v)
    <3>1. v = Head(chan[c]) => WasTyped(buf, v)
      BY <1>2 DEF Base, Known
    <3>2. v = Torn => WasTyped(buf, v)
      BY <1>4 DEF WasTyped
    <3> QED
      BY <1>10, <3>1, <3>2
  <2>2. \A q \in Procs : WasTyped(buf', buf'[Owner(q)])
    BY <1>3, <1>6, <1>10, <2>1 DEF Base, Known
  <2>3. \A d \in DOMAIN chan : \A i \in DOMAIN chan'[d] : WasTyped(buf', chan'[d][i])
    <3>1. \A d \in DOMAIN chan : \A i \in DOMAIN chan[d] : WasTyped(buf', chan[d][i])
      BY <1>10 DEF Base, Known
    <3> QED
      BY <1>2, <3>1
  <2>4. \A w \in Lines : shown[w] > 0 \/ trail'[w] # {} => WasTyped(buf', w)
    <3>1. \A w \in Lines : shown[w] > 0 \/ trail[w] # {} => WasTyped(buf', w)
      BY <1>10 DEF Base, Known
    <3> QED
      BY <2>1, <3>1
  <2> QED
    BY <1>2, <1>3, <2>2, <2>3, <2>4 DEF Known, Moved
<1>12. ASSUME ~stale' PROVE Unique'
  <2>0. Unique /\ v = chan[c][1] /\ ~InUse(p)
    BY <1>2, <1>12 DEF Base
  <2>1. \A q \in Procs : q # p /\ InHand(q)' =>
          InHand(q) /\ Owner(q) # Owner(p) /\ buf'[Owner(q)] = buf[Owner(q)]
    <3>1. \A q \in Procs : q # p /\ Owner(q) = Owner(p) => ~InHand(q)
      BY <2>0 DEF InUse, InHand, Uses
    <3> QED
      BY <1>3, <1>6, <3>1 DEF Moved
  <2>2. \A q \in Procs : InHand(q) /\ v \in Lines => buf[Owner(q)] # v
    BY <1>2, <2>0 DEF Unique, HandOrChan
  <2>3. v \in Lines => \A d \in DOMAIN chan : \A i \in DOMAIN chan'[d] : chan'[d][i] # v
    <3>1. \A i \in DOMAIN chan'[c] : i + 1 # 1
      BY <1>2
    <3> QED
      BY <1>2, <2>0, <3>1 DEF Unique, OnePlace
  <2>4. v \in Lines => ~(shown[v] > 0)
    BY <1>2, <2>0 DEF Unique, ShownGone
  <2>5. OneHand'
    <3> SUFFICES ASSUME NEW q \in Procs, NEW r \in Procs, InHand(q)', InHand(r)'
                 PROVE  /\ Owner(q) = Owner(r) => q = r
                        /\ buf'[Owner(q)] \in Lines /\ buf'[Owner(q)] = buf'[Owner(r)] => q = r
      BY <1>3 DEF OneHand, Moved
    <3>1. CASE q # p /\ r # p
      BY <2>0, <2>1, <3>1 DEF Unique, OneHand
    <3>2. CASE q = p \/ r = p
      BY <1>6, <2>1, <2>2, <3>2
    <3> QED
      BY <3>1, <3>2
  <2>6. OnePlace'
    <3> SUFFICES ASSUME NEW d \in DOMAIN chan, NEW e \in DOMAIN chan, NEW i \in DOMAIN chan'[d], NEW j \in DOMAIN chan'[e],
                        chan'[d][i] \in Lines, chan'[d][i] = chan'[e][j]
                 PROVE  d = e /\ i = j
      BY <1>2 DEF OnePlace
    <3>1. PICK k \in DOMAIN chan[d] : chan[d][k] = chan'[d][i] /\ k = IF d = c THEN i + 1 ELSE i
      BY <1>2
    <3>2. PICK l \in DOMAIN chan[e] : chan[e][l] = chan'[e][j] /\ l = IF e = c THEN j + 1 ELSE j
      BY <1>2
    <3>3. d = e /\ k = l
      BY <2>0, <3>1, <3>2 DEF Unique, OnePlace
    <3>4. d = c => i \in Nat /\ j \in Nat
      BY <1>2, <3>3
    <3> QED
      BY <3>1, <3>2, <3>3, <3>4
  <2>7. HandOrChan'
    <3>1. \A q \in Procs : InHand(q)' /\ buf'[Owner(q)] \in Lines =>
            \A d \in DOMAIN chan : \A i \in DOMAIN chan'[d] : chan'[d][i] # buf'[Owner(q)]
      <4>1. \A d \in DOMAIN chan : \A i \in DOMAIN chan'[d] : \E k \in DOMAIN chan[d] : chan'[d][i] = chan[d][k]
        BY <1>2
      <4>2. \A q \in Procs : q # p /\ InHand(q)' /\ buf'[Owner(q)] \in Lines =>
            \A d \in DOMAIN chan : \A i \in DOMAIN chan[d] : chan[d][i] # buf'[Owner(q)]
        BY <2>0, <2>1 DEF Unique, HandOrChan
      <4> QED
        BY <1>6, <2>3, <4>1, <4>2
    <3> QED
      BY <1>2, <1>3, <3>1 DEF HandOrChan, Moved
  <2>8. ShownGone'
    <3>1. \A d \in DOMAIN chan : \A i \in DOMAIN chan'[d] : \E k \in DOMAIN chan[d] : chan'[d][i] = chan[d][k]
      BY <1>2
    <3>2. \A w \in Lines : shown[w] > 0 =>
            shown[w] = 1 /\ \A d \in DOMAIN chan : \A i \in DOMAIN chan'[d] : chan'[d][i] # w
      BY <2>0, <3>1 DEF Unique, ShownGone
    <3>3. \A w \in Lines : shown[w] > 0 => \A q \in Procs : InHand(q)' => buf'[Owner(q)] # w
      BY <1>6, <2>0, <2>1, <2>4 DEF Unique, ShownGone
    <3> QED
      BY <1>2, <1>3, <3>2, <3>3 DEF ShownGone, Moved
  <2> QED
    BY <2>5, <2>6, <2>7, <2>8 DEF Unique
<1> QED
  BY <1>9, <1>11, <1>12 DEF Base

(* What p has in hand is sent, or, out of turn, something else.            *)
LEMMA SendBase ==
  ASSUME Base, NEW p, Running(p), Step(p).op = "write", NEW c \in DOMAIN chan, Room(c),
         NEW v \in {buf[Owner(p)], Torn}, chan' = [chan EXCEPT ![c] = Append(@, v)],
         stale' \in BOOLEAN, ~stale' => ~stale /\ v = buf[Owner(p)],
         Quieter, ~InHand(p)', UNCHANGED <<net, buf, rset, mode, reset, trail, shown, kills>>
  PROVE  Base'
<1>1. /\ p \in Procs /\ \A q \in Procs : Owner(q) \in OwnersOf(net) /\ Owner(q)' = Owner(q)
      /\ buf[Owner(p)] \in ValuesOf(net)
  BY StateFacts DEF Base, Owner, Prog
<1>2. v \in ValuesOf(net) /\ Torn \notin Lines
  BY <1>1 DEF ValuesOf, Torn, Lines, Sources, Persons
<1>3. ChanOK' /\ QueueOK'
  BY <1>2, SentQueued DEF Base
<1>4. /\ DOMAIN chan' = DOMAIN chan
      /\ \A d \in DOMAIN chan : d # c => chan'[d] = chan[d]
      /\ \A i \in DOMAIN chan'[c] : \/ (i \in DOMAIN chan[c] /\ chan'[c][i] = chan[c][i])
                                    \/ (i = Len(chan[c]) + 1 /\ chan'[c][i] = v)
  BY <1>2, SentFacts DEF Base
<1>5. BufOK' /\ RestOK'
  BY <1>4 DEF Base, Typed, BufOK, OwnersOf, ValuesOf, RestOK
<1>6. Typed'
  BY <1>3, <1>5 DEF Base, Typed, Quieter
<1>7. WasTyped(buf, v)
  <2>1. WasTyped(buf, buf[Owner(p)])
    BY <1>1 DEF Base, Known
  <2>2. WasTyped(buf, Torn)
    BY <1>2 DEF WasTyped
  <2> QED
    BY <2>1, <2>2
<1>8. Known'
  <2>1. \A d \in DOMAIN chan : \A i \in DOMAIN chan'[d] : WasTyped(buf, chan'[d][i])
    BY <1>4, <1>7 DEF Base, Known
  <2> QED
    BY <1>1, <1>4, <2>1 DEF Base, Known, Quieter
<1>9. ASSUME ~stale' PROVE Unique'
  <2>0. Unique /\ v = buf[Owner(p)] /\ InHand(p)
    BY <1>9 DEF Base, InHand, Uses
  <2>1. \A q \in Procs : InHand(q)' => InHand(q) /\ q # p
    BY DEF Quieter
  <2>2. v \in Lines => \A d \in DOMAIN chan : \A i \in DOMAIN chan[d] : chan[d][i] # v
    BY <1>1, <2>0 DEF Unique, HandOrChan
  <2>3. v \in Lines => \A q \in Procs : InHand(q)' => buf[Owner(q)] # v
    BY <1>1, <2>0, <2>1 DEF Unique, OneHand
  <2>4. v \in Lines => ~(shown[v] > 0)
    BY <1>1, <2>0 DEF Unique, ShownGone
  <2>5. OneHand'
    BY <1>1, <2>0, <2>1 DEF Unique, OneHand, Quieter
  <2>6. OnePlace'
    <3> SUFFICES ASSUME NEW d \in DOMAIN chan, NEW e \in DOMAIN chan, NEW i \in DOMAIN chan'[d], NEW j \in DOMAIN chan'[e],
                        chan'[d][i] \in Lines, chan'[d][i] = chan'[e][j]
                 PROVE  d = e /\ i = j
      BY <1>4 DEF OnePlace
    <3>1. \/ i \in DOMAIN chan[d] /\ chan[d][i] = chan'[d][i]
          \/ d = c /\ i = Len(chan[c]) + 1 /\ chan'[d][i] = v
      BY <1>4
    <3>2. \/ j \in DOMAIN chan[e] /\ chan[e][j] = chan'[e][j]
          \/ e = c /\ j = Len(chan[c]) + 1 /\ chan'[e][j] = v
      BY <1>4
    <3> QED
      BY <2>0, <2>2, <3>1, <3>2 DEF Unique, OnePlace
  <2>7. HandOrChan'
    BY <1>1, <1>4, <2>0, <2>1, <2>3 DEF Unique, HandOrChan, Quieter
  <2>8. ShownGone'
    BY <1>1, <1>4, <2>0, <2>1, <2>4 DEF Unique, ShownGone, Quieter
  <2> QED
    BY <2>5, <2>6, <2>7, <2>8 DEF Unique
<1> QED
  BY <1>6, <1>8, <1>9 DEF Base

(* What p has in hand is shown.                                            *)
LEMMA ShowBase ==
  ASSUME Base, NEW p, Show(p)
  PROVE  /\ Base' /\ Quieter /\ Moved(p) /\ ~InHand(p)'
         /\ \A v \in Lines : shown'[v] >= shown[v] /\ (shown'[v] > 0 <=> shown[v] > 0 \/ v = buf[Owner(p)])
<1>1. /\ Running(p) /\ Step(p).op = "show" /\ Onward(p)
      /\ UNCHANGED <<net, buf, chan, rset, mode, reset, trail, stale, kills>>
  BY DEF Show, Calls
<1>2. Quieter /\ Moved(p) /\ ~InHand(p)'
  BY <1>1, OnwardQuiet, OnwardFacts DEF Base, Fills
<1>3. /\ p \in Procs /\ \A q \in Procs : Owner(q) \in OwnersOf(net) /\ Owner(q)' = Owner(q)
      /\ InHand(p)
  BY <1>1, StateFacts DEF Base, Owner, Prog, InHand, Uses
<1>v. PICK v : v = buf[Owner(p)]
  OBVIOUS
<1>4. shown \in [Lines -> 0 .. 2]
  BY DEF Base, Typed, RestOK
<1>5. /\ shown' \in [Lines -> 0 .. 2]
      /\ \A w \in Lines : w # v => shown'[w] = shown[w]
      /\ v \in Lines => shown'[v] = IF shown[v] < 2 THEN shown[v] + 1 ELSE shown[v]
  <2>1. shown' = IF v \in Lines /\ shown[v] < 2 THEN [shown EXCEPT ![v] = @ + 1] ELSE shown
    BY <1>v DEF Show
  <2>2. CASE v \in Lines /\ shown[v] < 2
    <3>1. shown[v] + 1 \in 0 .. 2
      BY <1>4, <2>2
    <3> QED
      BY <1>4, <2>1, <2>2, <3>1
  <2>3. CASE ~(v \in Lines /\ shown[v] < 2)
    BY <1>4, <2>1, <2>3
  <2> QED
    BY <2>2, <2>3
<1>6. \A w \in Lines : shown'[w] >= shown[w] /\ (shown'[w] > 0 <=> shown[w] > 0 \/ w = v)
  BY <1>4, <1>5
<1>7. BufOK' /\ ChanOK' /\ QueueOK'
  BY <1>1 DEF Base, Typed, BufOK, ChanOK, QueueOK, OwnersOf, ValuesOf, Kind, Queued, Messages, QueueCap
<1>8. RestOK'
  BY <1>1, <1>5 DEF Base, Typed, RestOK
<1>9. Typed'
  BY <1>1, <1>2, <1>7, <1>8 DEF Base, Typed, Moved
<1>10. Known'
  <2>1. \A w \in Lines : shown'[w] > 0 \/ trail[w] # {} => WasTyped(buf, w)
    BY <1>3, <1>6, <1>v DEF Base, Known
  <2> QED
    BY <1>1, <1>2, <1>3, <2>1 DEF Base, Known, Moved
<1>11. ASSUME ~stale' PROVE Unique'
  <2>0. Unique
    BY <1>1, <1>11 DEF Base
  <2>1. \A q \in Procs : InHand(q)' => InHand(q) /\ q # p
    BY <1>2 DEF Quieter
  <2>2. v \in Lines => /\ ~(shown[v] > 0)
                       /\ \A d \in DOMAIN chan : \A i \in DOMAIN chan[d] : chan[d][i] # v
                       /\ \A q \in Procs : InHand(q)' => buf[Owner(q)] # v
    BY <1>3, <1>v, <2>0, <2>1 DEF Unique, HandOrChan, OneHand, ShownGone
  <2>3. v \in Lines => shown'[v] = 1
    BY <1>4, <1>5, <2>2
  <2>4. OneHand' /\ OnePlace' /\ HandOrChan'
    BY <1>1, <1>2, <1>3, <2>0, <2>1 DEF Unique, OneHand, OnePlace, HandOrChan, Quieter
  <2>5. ShownGone'
    <3> SUFFICES ASSUME NEW w \in Lines, shown'[w] > 0
                 PROVE  /\ shown'[w] = 1
                        /\ \A d \in DOMAIN chan : \A i \in DOMAIN chan[d] : chan[d][i] # w
                        /\ \A q \in Procs : InHand(q)' => buf[Owner(q)] # w
      BY <1>1, <1>2, <1>3 DEF ShownGone, Moved
    <3>1. CASE w = v
      BY <2>2, <2>3, <3>1
    <3>2. CASE w # v
      BY <1>5, <1>6, <2>0, <2>1, <3>2 DEF Unique, ShownGone
    <3> QED
      BY <3>1, <3>2
  <2> QED
    BY <2>4, <2>5 DEF Unique
<1> QED
  BY <1>2, <1>6, <1>9, <1>10, <1>11, <1>v DEF Base

(* What is printed from the program's own text.                            *)
LEMMA SetBase ==
  ASSUME Base, NEW p, Set(p)
  PROVE  Base' /\ net # "chat" /\ Moved(p) /\ UNCHANGED <<net, chan, rset, mode, reset, trail, shown, stale, kills>>
<1>1. /\ Running(p) /\ Step(p).op = "set" /\ Onward(p)
      /\ UNCHANGED <<net, chan, rset, mode, reset, trail, shown, stale, kills>>
      /\ buf' = [buf EXCEPT ![Owner(p)] = <<Owner(p), 0>>]
  BY DEF Set, Calls
<1>2. p \in Procs /\ StepOK(net, p, at[p]) /\ Step(p) = StepsOf(net, p)[at[p]]
  BY <1>1, StateFacts DEF Base
<1>3. net # "chat" /\ Owner(p) \notin Sources
  BY <1>1, <1>2 DEF StepOK, Owner, Prog
<1>4. \A q \in Procs : Owner(q) = q
  BY <1>3, Alone DEF Base
<1>5. Moved(p)
  BY <1>1, OnwardFacts DEF Base
<1>6. /\ AtOK' /\ Procs' = Procs
      /\ \A q \in Procs : Owner(q) # Owner(p) /\ InHand(q)' => InHand(q)
      /\ \A q, r \in Procs : Owner(q) = Owner(p) /\ Owner(r) = Owner(p) /\ InHand(q)' /\ InHand(r)' => q = r
  BY <1>4, <1>5 DEF Moved
<1>7. Base'
  BY <1>1, <1>2, <1>3, <1>6, ResetBase
<1> QED
  BY <1>1, <1>3, <1>5, <1>7

(* What a line leaves standing is noted for that line only, if it comes    *)
(* from a source.                                                          *)
LEMMA OverFacts ==
  ASSUME Typed, NEW c, NEW v, NEW old, Over(c, v, old)
  PROVE  /\ trail' \in [Lines -> SUBSET Lines]
         /\ \A w \in Lines : w # v => trail'[w] = trail[w]
         /\ FromSource(c) \/ trail' = trail
         /\ v \in Lines => trail'[v] \subseteq trail[v] \cup Remains(old)
<1>0. trail \in [Lines -> SUBSET Lines]
  BY DEF Typed, RestOK
<1>1. CASE FromSource(c) /\ v \in Lines
  <2>1. PICK kept \in SUBSET (Remains(old) \ {v}) : trail' = [trail EXCEPT ![v] = kept]
    BY <1>1 DEF Over
  <2>2. Remains(old) \subseteq Lines
    BY <1>0 DEF Remains
  <2> QED
    BY <1>0, <1>1, <2>1, <2>2
<1>2. CASE ~(FromSource(c) /\ v \in Lines)
  BY <1>0, <1>2 DEF Over
<1> QED
  BY <1>1, <1>2

(* A read: data is taken, or nothing.                                      *)
LEMMA ReadBase ==
  ASSUME Base, NEW p, Read(p)
  PROVE  Base' /\ Moved(p) /\ UNCHANGED <<net, rset, mode, reset, shown, kills>>
<1>1. /\ Running(p) /\ Step(p).op = "read" /\ Onward(p)
      /\ UNCHANGED <<net, rset, mode, reset, shown, kills>>
  BY DEF Read, Calls
<1>2. p \in Procs /\ StepOK(net, p, at[p]) /\ Step(p) = StepsOf(net, p)[at[p]]
  BY <1>1, StateFacts DEF Base
<1>3. Step(p).arg \in DOMAIN chan /\ Owner(p) \notin Sources
  BY <1>1, <1>2, StateFacts DEF StepOK, Base, Owner, Prog
<1>4. Moved(p)
  BY <1>1, OnwardFacts DEF Base
<1>c. PICK c : c = Step(p).arg
  OBVIOUS
<1>s. stale \in BOOLEAN /\ InUse(p) \in BOOLEAN
  BY DEF Base, Typed, RestOK, InUse
<1>5. CASE chan[c] # <<>> /\ chan' = [chan EXCEPT ![c] = Tail(@)] /\ buf' = [buf EXCEPT ![Owner(p)] = Head(chan[c])]
           /\ Over(c, Head(chan[c]), buf[Owner(p)]) /\ stale' = (stale \/ InUse(p))
  <2>1. stale' \in BOOLEAN /\ (~stale' => ~stale /\ ~InUse(p))
    BY <1>s, <1>5
  <2>2. trail' \in [Lines -> SUBSET Lines] /\ \A w \in Lines : w # Head(chan[c]) => trail'[w] = trail[w]
    BY <1>5, OverFacts DEF Base
  <2> QED
    BY <1>1, <1>3, <1>4, <1>5, <1>c, <2>1, <2>2, TakeBase
<1>6. CASE chan[c] # <<>> /\ chan' = [chan EXCEPT ![c] = Tail(@)] /\ buf' = [buf EXCEPT ![Owner(p)] = Torn]
           /\ stale' = TRUE /\ UNCHANGED trail
  <2>1. stale' \in BOOLEAN /\ stale'
    BY <1>6
  <2>2. trail' \in [Lines -> SUBSET Lines] /\ \A w \in Lines : trail'[w] = trail[w]
    BY <1>6 DEF Base, Typed, RestOK
  <2> QED
    BY <1>1, <1>3, <1>4, <1>6, <1>c, <2>1, <2>2, TakeBase
<1>7. CASE stale' = TRUE /\ UNCHANGED <<buf, chan, trail>>
  <2>1. RestOK' /\ stale'
    BY <1>1, <1>7 DEF Base, Typed, RestOK
  <2> QED
    BY <1>1, <1>4, <1>7, <2>1, QuietBase DEF Moved
<1> QED
  BY <1>5, <1>6, <1>7, <1>c DEF Read

(* A write: something is sent, or nothing, or the writer dies.             *)
LEMMA WriteBase ==
  ASSUME Base, NEW p, Write(p)
  PROVE  Base' /\ Quieter /\ UNCHANGED <<net, buf, rset, mode, trail, shown, kills>>
<1>1. /\ Running(p) /\ Step(p).op = "write"
      /\ UNCHANGED <<net, buf, rset, mode, trail, shown, kills>>
  BY DEF Write, Calls
<1>2. p \in Procs /\ StepOK(net, p, at[p]) /\ Step(p) = StepsOf(net, p)[at[p]]
  BY <1>1, StateFacts DEF Base
<1>3. Step(p).arg \in DOMAIN chan
  BY <1>1, <1>2, StateFacts DEF StepOK, Base
<1>c. PICK c : c = Step(p).arg
  OBVIOUS
<1>s. stale \in BOOLEAN
  BY DEF Base, Typed, RestOK
<1>o. Onward(p) => Quieter /\ ~InHand(p)'
  BY <1>1, OnwardQuiet DEF Base, Fills
<1>d. Dies(p) => Quieter
  BY <1>1, <1>2, DiesFacts DEF Base, Quieter
<1>4. CASE Room(c) /\ Onward(p) /\ UNCHANGED reset /\ chan' = [chan EXCEPT ![c] = Append(@, buf[Owner(p)])] /\ UNCHANGED stale
  BY <1>1, <1>3, <1>4, <1>c, <1>s, <1>o, SendBase
<1>5. CASE Room(c) /\ Onward(p) /\ UNCHANGED reset /\ chan' = [chan EXCEPT ![c] = Append(@, Torn)] /\ stale' = TRUE
  <2>1. stale' /\ stale' \in BOOLEAN
    BY <1>5
  <2> QED
    BY <1>1, <1>3, <1>5, <1>c, <1>o, <2>1, SendBase
<1>6. CASE /\ Quieter /\ UNCHANGED chan /\ (stale' = stale \/ stale' = TRUE)
           /\ (reset' = reset \/ reset' = reset \cup {c})
  <2>0. /\ rset \subseteq DOMAIN chan /\ reset \subseteq DOMAIN chan
        /\ mode \in {"none", "066", "0666"}
        /\ trail \in [Lines -> SUBSET Lines] /\ shown \in [Lines -> 0 .. 2]
        /\ stale \in BOOLEAN /\ kills \in 0 .. MaxKills
    BY DEF Base, Typed, RestOK
  <2>1. stale' \in BOOLEAN /\ (~stale' => ~stale)
    BY <1>6, <2>0
  <2>2. reset' \subseteq DOMAIN chan /\ chan' = chan
    BY <1>3, <1>6, <1>c, <2>0
  <2>3. RestOK'
    BY <1>1, <2>0, <2>1, <2>2 DEF RestOK
  <2> QED
    BY <1>1, <1>6, <2>1, <2>3, QuietBase DEF Quieter
<1>7. \/ /\ Room(c) /\ Onward(p) /\ UNCHANGED reset
         /\ \/ chan' = [chan EXCEPT ![c] = Append(@, buf[Owner(p)])] /\ UNCHANGED stale
            \/ chan' = [chan EXCEPT ![c] = Append(@, Torn)] /\ stale' = TRUE
      \/ /\ Onward(p) \/ Dies(p)
         /\ UNCHANGED chan /\ (stale' = stale \/ stale' = TRUE)
         /\ (reset' = reset \/ reset' = reset \cup {c})
  BY <1>c DEF Write
<1> QED
  BY <1>1, <1>4, <1>5, <1>6, <1>7, <1>o, <1>d

(* A child is started, or not.                                             *)
LEMMA ForkQuiet ==
  ASSUME Base, NEW p, Fork(p)
  PROVE  Quieter
<1>1. /\ Running(p) /\ Step(p).op \in {"fork", "spawn"} /\ net' = net
  BY DEF Fork, Calls
<1>2. CASE at' = [at EXCEPT ![Step(p).arg] = 1, ![p] = @ + 1]
  BY <1>1, <1>2, StartQuiet DEF Base
<1>3. CASE Onward(p)
  BY <1>1, <1>3, OnwardQuiet DEF Base, Fills
<1>4. CASE Dies(p)
  BY <1>1, <1>4, DiesFacts, StateFacts DEF Base, Quieter
<1> QED
  BY <1>2, <1>3, <1>4 DEF Fork

(* A process is killed or started again.                                   *)
LEMMA RestartBase ==
  ASSUME Base, NEW p \in Procs, Restart(p)
  PROVE  Base'
<1>1. /\ net \in {"ring", "chat"} /\ p \notin Persons
      /\ buf' = [buf EXCEPT ![Owner(p)] = <<Owner(p), 0>>]
      /\ UNCHANGED <<net, chan, rset, mode, reset, trail, shown, stale, kills>>
  BY DEF Restart
<1>2. Owner(p) \notin Sources
  BY <1>1, Alone DEF Base
<1>3. /\ AtOK' /\ Procs' = Procs
      /\ \A q \in Procs : Owner(q) # Owner(p) /\ InHand(q)' => InHand(q)
      /\ \A q, r \in Procs : Owner(q) = Owner(p) /\ Owner(r) = Owner(p) /\ InHand(q)' /\ InHand(r)' => q = r
  BY RestartQuiet DEF Base, Quieter
<1> QED
  BY <1>1, <1>2, <1>3, ResetBase

(* The other calls leave the lines alone.                                  *)
LEMMA OtherBase ==
  ASSUME Base, NEW p \in Procs,
         Fork(p) \/ Wait(p) \/ Msgget(p) \/ Select(p) \/ IsSet(p) \/ Kill(p)
  PROVE  Base' /\ Quieter /\ UNCHANGED <<net, buf, chan, trail, shown, stale>>
<1>1. UNCHANGED <<net, buf, chan, trail, shown, stale, reset>>
  BY DEF Fork, Wait, Msgget, Select, IsSet, Kill
<1>2. Quieter
  <2>1. CASE Wait(p) \/ Msgget(p) \/ Select(p)
    BY <1>1, <2>1, OnwardQuiet DEF Base, Wait, Msgget, Select, Calls, Fills
  <2>2. CASE Kill(p)
    BY <1>1, <2>2, DiesFacts DEF Base, Kill, Quieter
  <2> QED
    BY <2>1, <2>2, ForkQuiet, IsSetQuiet DEF Base
<1>3. RestOK'
  <2>0. /\ rset \subseteq DOMAIN chan /\ reset \subseteq DOMAIN chan
        /\ mode \in {"none", "066", "0666"}
        /\ trail \in [Lines -> SUBSET Lines] /\ shown \in [Lines -> 0 .. 2]
        /\ stale \in BOOLEAN /\ kills \in 0 .. MaxKills
    BY DEF Base, Typed, RestOK
  <2>1. CASE Fork(p) \/ Wait(p) \/ IsSet(p)
    BY <1>1, <2>0, <2>1 DEF Fork, Wait, IsSet, RestOK
  <2>2. CASE Msgget(p)
    <3>1. /\ rset' = rset /\ kills' = kills /\ Running(p) /\ Step(p).op = "msgget"
          /\ mode' = IF mode = "none" THEN Step(p).arg ELSE mode
      BY <2>2 DEF Msgget, Calls
    <3>2. Step(p).arg \in {"066", "0666"}
      BY <3>1, StateFacts DEF Base, StepOK
    <3> QED
      BY <1>1, <2>0, <3>1, <3>2 DEF RestOK
  <2>3. CASE Select(p)
    <3>1. /\ mode' = mode /\ kills' = kills /\ Running(p) /\ Step(p).op = "select"
          /\ rset' \subseteq Step(p).arg
      BY <2>3 DEF Select, Calls
    <3>2. Step(p).arg \subseteq DOMAIN chan
      BY <3>1, StateFacts DEF Base, StepOK
    <3> QED
      BY <1>1, <2>0, <3>1, <3>2 DEF RestOK
  <2>4. CASE Kill(p)
    <3>1. kills' = kills + 1 /\ kills < MaxKills /\ rset' = rset /\ mode' = mode
      BY <2>4 DEF Kill
    <3>2. kills' \in 0 .. MaxKills
      BY <2>0, <3>1, CountsAssumption
    <3> QED
      BY <1>1, <2>0, <3>1, <3>2 DEF RestOK
  <2> QED
    BY <2>1, <2>2, <2>3, <2>4
<1> QED
  BY <1>1, <1>2, <1>3, QuietBase DEF Quieter

(* Every step keeps the first part.                                        *)
LEMMA BaseNext ==
  ASSUME Base, [Next]_vars
  PROVE  Base'
<1>1. ASSUME NEW p \in Procs, Proceed(p) PROVE Base'
  BY <1>1, TypeBase, SetBase, ReadBase, WriteBase, ShowBase, OtherBase DEF Proceed
<1>2. ASSUME NEW p \in Procs, Kill(p) PROVE Base'
  BY <1>2, OtherBase
<1>3. ASSUME NEW p \in Procs, Restart(p) PROVE Base'
  BY <1>3, RestartBase
<1>4. CASE UNCHANGED vars
  <2>1. UNCHANGED <<net, buf, chan, trail, shown>> /\ AtOK' /\ Procs' = Procs /\ RestOK' /\ Quieter /\ stale' = stale
    BY <1>4 DEF vars, Base, Typed, AtOK, RestOK, Quieter, Procs, InHand, Running, Step, Prog
  <2> QED
    BY <2>1, QuietBase
<1> QED
  BY <1>1, <1>2, <1>3, <1>4 DEF Next

-----------------------------------------------------------------------------
(* p123.                                                                   *)

(* The five steps of each of its programs.                                 *)
LEMMA RingShape ==
  /\ \A p \in DOMAIN Nets["ring"].prog :
       /\ Len(StepsOf("ring", p)) = 5 /\ Nets["ring"].prog[p].loop = 2
       /\ StepsOf("ring", p)[1] = Do("msgget", "0666") /\ StepsOf("ring", p)[2].op = "set"
       /\ StepsOf("ring", p)[3].op = "write" /\ StepsOf("ring", p)[4].op = "read"
       /\ StepsOf("ring", p)[5].op = "show"
  /\ \A c \in DOMAIN Nets["ring"].chan : Nets["ring"].chan[c].kind = "queue"
<1>1. \A p \in DOMAIN Nets["ring"].prog : Len(StepsOf("ring", p)) = 5 /\ Nets["ring"].prog[p].loop = 2
  BY RingIs DEF HasSteps
<1>2. \A p \in DOMAIN Nets["ring"].prog :
        StepsOf("ring", p)[1] = Do("msgget", "0666") /\ StepsOf("ring", p)[2].op = "set"
  BY RingIs DEF HasSteps, Do
<1>3. \A p \in DOMAIN Nets["ring"].prog :
       /\ StepsOf("ring", p)[3].op = "write" /\ StepsOf("ring", p)[4].op = "read"
       /\ StepsOf("ring", p)[5].op = "show"
  BY RingIs DEF HasSteps, Do
<1>4. \A c \in DOMAIN Nets["ring"].chan : Nets["ring"].chan[c].kind = "queue"
  BY DEF Nets, Ring, Queue, Chan
<1> QED
  BY <1>1, <1>2, <1>3, <1>4

(* Which call a process of p123 is at, and where it goes on.               *)
LEMMA RingFacts ==
  ASSUME Typed, net = "ring"
  PROVE  /\ IsFiniteSet(Procs) /\ Waiting \subseteq Procs /\ IsFiniteSet(Waiting) /\ Cardinality(Waiting) \in Nat
         /\ Queued \in Nat /\ kills \in Nat
         /\ \A c \in DOMAIN chan : Kind(c) = "queue"
         /\ \A p : Running(p) =>
              /\ p \in Procs /\ Owner(p) = p /\ at[p] \in 1 .. 5
              /\ Step(p).op = "msgget" => at[p] = 1 /\ Step(p).arg = "0666"
              /\ Step(p).op = "set" => at[p] = 2
              /\ Step(p).op = "write" => at[p] = 3
              /\ Step(p).op = "read" => at[p] = 4
              /\ Step(p).op = "show" => at[p] = 5
              /\ Step(p).op \in {"msgget", "set", "write", "read", "show"}
              /\ StepAt(net, p, at[p] + 1) = IF at[p] = 5 THEN 2 ELSE at[p] + 1
<1>1. Procs = {"p1", "p2", "p3"}
  BY StateFacts, RingIs
<1>2. IsFiniteSet(Procs)
  <2>1. IsFiniteSet({"p1"})
    BY FS_Singleton
  <2>2. IsFiniteSet({"p1"} \cup {"p2"})
    BY <2>1, FS_AddElement
  <2>3. IsFiniteSet(({"p1"} \cup {"p2"}) \cup {"p3"})
    BY <2>2, FS_AddElement
  <2>4. Procs = ({"p1"} \cup {"p2"}) \cup {"p3"}
    BY <1>1
  <2> QED
    BY <2>3, <2>4
<1>3. Waiting \subseteq Procs /\ IsFiniteSet(Waiting) /\ Cardinality(Waiting) \in Nat
  BY <1>2, FS_Subset, FS_CardinalityType DEF Waiting
<1>4. Queued \in Nat /\ kills \in Nat
  BY FS_CardinalityType, BoundsAssumption DEF Typed, QueueOK, RestOK, Queued
<1>5. \A c \in DOMAIN chan : Kind(c) = "queue"
  BY StateFacts, RingShape DEF Kind
<1>6. ASSUME NEW p, Running(p)
      PROVE  /\ p \in Procs /\ Owner(p) = p /\ at[p] \in 1 .. 5
             /\ Step(p).op = "msgget" => at[p] = 1 /\ Step(p).arg = "0666"
             /\ Step(p).op = "set" => at[p] = 2
             /\ Step(p).op = "write" => at[p] = 3
             /\ Step(p).op = "read" => at[p] = 4
             /\ Step(p).op = "show" => at[p] = 5
             /\ Step(p).op \in {"msgget", "set", "write", "read", "show"}
             /\ StepAt(net, p, at[p] + 1) = IF at[p] = 5 THEN 2 ELSE at[p] + 1
  <2>1. p \in Procs /\ Owner(p) = p /\ at[p] \in 1 .. Len(StepsOf(net, p)) /\ Step(p) = StepsOf(net, p)[at[p]]
    BY <1>6, StateFacts, Alone
  <2>2. /\ Len(StepsOf(net, p)) = 5 /\ Nets[net].prog[p].loop = 2
        /\ StepsOf(net, p)[1] = Do("msgget", "0666") /\ StepsOf(net, p)[2].op = "set"
        /\ StepsOf(net, p)[3].op = "write" /\ StepsOf(net, p)[4].op = "read"
        /\ StepsOf(net, p)[5].op = "show"
    BY <2>1, StateFacts, RingShape
  <2>3. at[p] \in 1 .. 5
    BY <2>1, <2>2
  <2>4. at[p] = 1 \/ at[p] = 2 \/ at[p] = 3 \/ at[p] = 4 \/ at[p] = 5
    BY <2>3
  <2>5. \A k, l : \A i \in 1 .. 5 : k = 5 => (IF i + 1 > k THEN l ELSE i + 1) = (IF i = 5 THEN l ELSE i + 1)
    OBVIOUS
  <2>6. StepAt(net, p, at[p] + 1) = IF at[p] = 5 THEN 2 ELSE at[p] + 1
    BY <2>2, <2>3, <2>5 DEF StepAt
  <2> QED
    BY <2>1, <2>2, <2>3, <2>4, <2>6 DEF Do
<1> QED
  BY <1>2, <1>3, <1>4, <1>5, <1>6

(* A step of p123 that neither reads nor writes.                           *)
LEMMA RingRest ==
  ASSUME Typed, RingOK, net = "ring", UNCHANGED <<net, chan, kills>>, mode' # "066", Procs' = Procs,
         \A q \in Procs : at'[q] = 4 <=> at[q] = 4
  PROVE  RingOK'
<1>1. Waiting' = Waiting
  BY DEF Waiting
<1>2. Queued' = Queued
  BY DEF Queued, Messages, Kind
<1> QED
  BY <1>1, <1>2 DEF RingOK

(* A message more for one that waits, or one less when it gets it.         *)
LEMMA RingNext ==
  ASSUME Base, RingOK, [Next]_vars
  PROVE  RingOK'
<1>0. net' = net
  BY DEF Next, Proceed, Type, Set, Read, Write, Show, Fork, Wait, Msgget, Select, IsSet, Kill, Restart, vars
<1> SUFFICES ASSUME net = "ring" PROVE RingOK'
  BY <1>0 DEF RingOK
<1>t. Typed
  BY DEF Base
<1>f. /\ IsFiniteSet(Procs) /\ Waiting \subseteq Procs /\ IsFiniteSet(Waiting) /\ Cardinality(Waiting) \in Nat
      /\ Queued \in Nat /\ kills \in Nat /\ Queued <= Cardinality(Waiting) + kills /\ mode # "066"
      /\ \A c \in DOMAIN chan : Kind(c) = "queue"
      /\ \A c \in DOMAIN chan : ~Denied(c)
  BY <1>t, RingFacts DEF RingOK, Denied
<1>a. \A p \in Procs : Owner(p) = p /\ ~Racing(p)
  BY <1>t, Alone DEF Racing
<1>1. ASSUME NEW p, Running(p), Onward(p), Step(p).op \in {"msgget", "set", "show"},
             UNCHANGED <<chan, kills>>, mode' # "066"
      PROVE  RingOK'
  <2>1. Moved(p) /\ at'[p] = StepAt(net, p, at[p] + 1)
    BY <1>0, <1>1, <1>t, OnwardFacts
  <2>2. at[p] \in {1, 2, 5} /\ at'[p] \in {2, 3}
    BY <1>1, <1>t, <2>1, RingFacts
  <2> QED
    BY <1>0, <1>1, <1>t, <2>1, <2>2, RingRest DEF Moved
<1>2. ASSUME NEW p, Read(p) PROVE RingOK'
  <2>1. /\ Running(p) /\ Step(p).op = "read" /\ Onward(p) /\ mode' = mode /\ kills' = kills
    BY <1>2 DEF Read, Calls
  <2>2. Step(p).arg \in DOMAIN chan /\ p \in Procs
    BY <2>1, <1>t, StateFacts DEF StepOK
  <2>3. Moved(p) /\ at[p] = 4 /\ at'[p] = 5
    BY <1>0, <1>t, <2>1, OnwardFacts, RingFacts
  <2>4. chan[Step(p).arg] # <<>> /\ chan' = [chan EXCEPT ![Step(p).arg] = Tail(@)]
    BY <1>2, <1>a, <1>f, <2>2 DEF Read
  <2>5. Queued' = Queued - 1
    BY <1>0, <1>f, <1>t, <2>2, <2>4, TakenQueued
  <2>6. Waiting' = Waiting \ {p} /\ p \in Waiting
    BY <2>2, <2>3 DEF Waiting, Moved
  <2>7. Cardinality(Waiting') = Cardinality(Waiting) - 1
    BY <1>f, <2>6, FS_RemoveElement
  <2>8. Queued' <= Cardinality(Waiting') + kills'
    BY <1>f, <2>1, <2>5, <2>7
  <2> QED
    BY <1>f, <2>1, <2>8 DEF RingOK
<1>3. ASSUME NEW p, Write(p) PROVE RingOK'
  <2>1. /\ Running(p) /\ Step(p).op = "write" /\ mode' = mode /\ kills' = kills
    BY <1>3 DEF Write, Calls
  <2>2. Step(p).arg \in DOMAIN chan /\ p \in Procs /\ buf[Owner(p)] \in ValuesOf(net)
    BY <2>1, <1>t, StateFacts DEF StepOK
  <2>4. Room(Step(p).arg) /\ Onward(p) /\ chan' = [chan EXCEPT ![Step(p).arg] = Append(@, buf[Owner(p)])]
    BY <1>3, <1>a, <1>f, <2>2 DEF Write
  <2>3. Moved(p) /\ at[p] = 3 /\ at'[p] = 4
    BY <1>0, <1>t, <2>1, <2>4, OnwardFacts, RingFacts
  <2>5. Queued' = Queued + 1
    BY <1>0, <1>f, <1>t, <2>2, <2>4, SentQueued
  <2>6. Waiting' = Waiting \cup {p} /\ p \notin Waiting
    BY <2>2, <2>3 DEF Waiting, Moved
  <2>7. Cardinality(Waiting') = Cardinality(Waiting) + 1
    BY <1>f, <2>6, FS_AddElement
  <2>8. Queued' <= Cardinality(Waiting') + kills'
    BY <1>f, <2>1, <2>5, <2>7
  <2> QED
    BY <1>f, <2>1, <2>8 DEF RingOK
<1>4. ASSUME NEW p \in Procs, Kill(p) PROVE RingOK'
  <2>1. Dies(p) /\ kills' = kills + 1 /\ mode' = mode /\ chan' = chan
    BY <1>4 DEF Kill
  <2>2. Procs' = Procs /\ at'[p] = 0 /\ \A q \in Procs : q # p => at'[q] = at[q]
    BY <1>0, <1>a, <1>t, <2>1, DiesFacts
  <2>3. Waiting' = Waiting \ {p}
    BY <2>2 DEF Waiting
  <2>4. Cardinality(Waiting') \in Nat /\ Cardinality(Waiting) <= Cardinality(Waiting') + 1
    <3>1. /\ IsFiniteSet(Waiting \ {p})
          /\ Cardinality(Waiting \ {p}) = IF p \in Waiting THEN Cardinality(Waiting) - 1 ELSE Cardinality(Waiting)
      BY <1>f, FS_RemoveElement
    <3>2. Cardinality(Waiting \ {p}) \in Nat
      BY <3>1, FS_CardinalityType
    <3> QED
      BY <1>f, <2>3, <3>1, <3>2
  <2>5. Queued' = Queued
    BY <1>0, <2>1 DEF Queued, Messages, Kind
  <2>6. Queued' <= Cardinality(Waiting') + kills'
    BY <1>f, <2>1, <2>4, <2>5
  <2> QED
    BY <1>f, <2>1, <2>6 DEF RingOK
<1>5. ASSUME NEW p \in Procs, Restart(p) PROVE RingOK'
  <2>1. ~Running(p) /\ mode' = mode /\ chan' = chan /\ kills' = kills
    BY <1>5 DEF Restart
  <2>2. Procs' = Procs /\ at'[p] = 1 /\ at[p] = 0 /\ \A q \in Procs : q # p => at'[q] = at[q]
    BY <1>5, <1>a, <1>t, <2>1, RestartQuiet DEF Quieter, Running
  <2> QED
    BY <1>0, <1>f, <1>t, <2>1, <2>2, RingRest
<1>6. ASSUME NEW p, Set(p) \/ Show(p) \/ Msgget(p) PROVE RingOK'
  <2>1. CASE Set(p) \/ Show(p)
    BY <1>1, <1>f, <2>1 DEF Set, Show, Calls
  <2>2. CASE Msgget(p)
    <3>1. /\ Running(p) /\ Step(p).op = "msgget" /\ Onward(p) /\ UNCHANGED <<chan, kills>>
          /\ mode' = IF mode = "none" THEN Step(p).arg ELSE mode
      BY <2>2 DEF Msgget, Calls
    <3>2. Step(p).arg = "0666"
      BY <1>t, <3>1, RingFacts
    <3> QED
      BY <1>1, <1>f, <3>1, <3>2
  <2> QED
    BY <1>6, <2>1, <2>2
<1>7. ASSUME NEW p, Type(p) \/ Fork(p) \/ Wait(p) \/ Select(p) \/ IsSet(p) PROVE FALSE
  <2>1. Running(p) /\ Step(p).op \in {"type", "fork", "spawn", "wait", "select", "isset"}
    BY <1>7 DEF Type, Fork, Wait, Select, IsSet, Calls
  <2> QED
    BY <1>t, <2>1, RingFacts
<1>8. CASE UNCHANGED vars
  BY <1>8, <1>f, <1>t, RingRest DEF vars, Procs
<1> QED
  BY <1>2, <1>3, <1>4, <1>5, <1>6, <1>7, <1>8 DEF Next, Proceed

-----------------------------------------------------------------------------
(* upp and sel: order.                                                     *)

(* The pipes of these two systems.                                         *)
LEMMA PipesOnly ==
  \A n \in {"upp", "sel"} :
    /\ \A c \in DOMAIN Nets[n].chan : Nets[n].chan[c].kind = "pipe"
    /\ DOMAIN Nets[n].prog \cap DOMAIN Nets[n].chan = {}
<1>1. \A c \in DOMAIN Nets["upp"].chan : Nets["upp"].chan[c].kind = "pipe"
  BY DEF Nets, Upp, Chan
<1>2. \A c \in DOMAIN Nets["sel"].chan : Nets["sel"].chan[c].kind = "pipe"
  BY DEF Nets, Sel, Chan
<1> QED
  BY <1>1, <1>2, UppIs, SelIs

(* Every place of a way is a number, and has one process or channel.       *)
LEMMA WayFacts ==
  \A s \in {"user", "p_0", "p_1"} :
    /\ s \in Sources
    /\ \A x : On(s, x) => Way[s][x] \in Nat \ {0}
    /\ \A x, y : On(s, x) /\ On(s, y) /\ Way[s][x] = Way[s][y] => x = y
<1>1. \A x : On("user", x) => Way["user"][x] \in Nat \ {0}
  BY WayIs DEF On
<1>2. \A x : On("p_0", x) => Way["p_0"][x] \in Nat \ {0}
  BY WayIs DEF On
<1>3. \A x : On("p_1", x) => Way["p_1"][x] \in Nat \ {0}
  BY WayIs DEF On
<1>4. \A x, y : On("user", x) /\ On("user", y) /\ Way["user"][x] = Way["user"][y] => x = y
  BY WayIs DEF On
<1>5. \A x, y : On("p_0", x) /\ On("p_0", y) /\ Way["p_0"][x] = Way["p_0"][y] => x = y
  BY WayIs DEF On
<1>6. \A x, y : On("p_1", x) /\ On("p_1", y) /\ Way["p_1"][x] = Way["p_1"][y] => x = y
  BY WayIs DEF On
<1> QED
  BY <1>1, <1>2, <1>3, <1>4, <1>5, <1>6 DEF Sources, Persons

(* What is known of a way and of the steps that are taken along it.        *)
LEMMA OrderFacts ==
  ASSUME Typed, NEW s \in SourcesOf(net)
  PROVE  /\ net \in {"upp", "sel"} /\ s \in Sources
         /\ \A x : On(s, x) => Way[s][x] \in Nat \ {0}
         /\ \A x, y : On(s, x) /\ On(s, y) /\ Way[s][x] = Way[s][y] => x = y
         /\ \A x : ~(x \in Procs /\ x \in DOMAIN chan)
         /\ \A c \in DOMAIN chan : Kind(c) = "pipe" /\ ~Denied(c)
         /\ \A p \in Procs : Owner(p) = p /\ ~Racing(p)
         /\ \A p : Running(p) =>
              p \in Procs /\ RouteOK(net, s, p, at[p]) /\ Step(p) = StepsOf(net, p)[at[p]]
<1>1. net \in {"upp", "sel"} /\ s \in {"user", "p_0", "p_1"}
  BY DEF SourcesOf
<1>2. \A p \in Procs : Owner(p) = p
  BY <1>1, Alone
<1>3. \A p \in Procs : ~Racing(p)
  BY <1>2 DEF Racing
<1>4. /\ \A c \in DOMAIN chan : Kind(c) = "pipe"
      /\ \A x : ~(x \in Procs /\ x \in DOMAIN chan)
  BY <1>1, PipesOnly, StateFacts DEF Kind
<1>5. \A c \in DOMAIN chan : ~Denied(c)
  BY <1>4 DEF Denied
<1>6. \A p : Running(p) =>
        p \in Procs /\ RouteOK(net, s, p, at[p]) /\ Step(p) = StepsOf(net, p)[at[p]]
  BY StateFacts DEF ProgramOK
<1> QED
  BY <1>1, <1>2, <1>3, <1>4, <1>5, <1>6, WayFacts

(* A line has come further than it had.                                    *)
LEMMA ComeFurther ==
  ASSUME Typed, NEW s \in SourcesOf(net), NEW k \in Nat, NEW l \in Nat, k <= l
  PROVE  Come(s, k) \subseteq Come(s, l)
<1>1. \A x : Near(s, x, k) => Near(s, x, l)
  BY OrderFacts DEF Near
<1> QED
  BY <1>1 DEF Come

(* Which sources the systems without the chat have.                        *)
LEMMA SourcesAre ==
  \A n \in DOMAIN Nets \ {"chat"} : OwnersOf(n) \cap Sources \subseteq SourcesOf(n)
<1>1. \A n \in DOMAIN Nets \ {"chat"} : OwnersOf(n) = DOMAIN Nets[n].prog
  BY OwnersApart DEF OwnersOf
<1>2. DOMAIN Nets = {"upp", "multiway", "pipeinp", "sel", "basic", "ring", "chat"}
  BY DEF Nets
<1>3. DOMAIN Nets["upp"].prog \cap Sources \subseteq SourcesOf("upp")
  BY UppIs DEF Sources, Persons, SourcesOf
<1>4. DOMAIN Nets["sel"].prog \cap Sources \subseteq SourcesOf("sel")
  BY SelIs DEF Sources, Persons, SourcesOf
<1>5. /\ DOMAIN Nets["multiway"].prog \cap Sources = {} /\ DOMAIN Nets["pipeinp"].prog \cap Sources = {}
      /\ DOMAIN Nets["basic"].prog \cap Sources = {} /\ DOMAIN Nets["ring"].prog \cap Sources = {}
  BY MultiWayIs, PipeInpIs, BasicIs, RingIs DEF Sources, Persons
<1> QED
  BY <1>1, <1>2, <1>3, <1>4, <1>5

(* What has come to an idle process, has come further.                     *)
LEMMA IdleCome ==
  ASSUME Typed, NEW s \in SourcesOf(net), PassedOn(s), NEW p \in Procs, On(s, p), Idle(p)
  PROVE  Come(s, Way[s][p]) \subseteq Come(s, Way[s][p] - 1)
<1>1. \A x : Near(s, x, Way[s][p]) => x = p \/ Near(s, x, Way[s][p] - 1)
  BY OrderFacts DEF Near
<1>2. p \notin DOMAIN chan
  BY OrderFacts
<1>3. buf[p] \in Lines => buf[p] \in Come(s, Way[s][p] - 1)
  BY DEF PassedOn
<1> SUFFICES ASSUME NEW v \in Come(s, Way[s][p]), buf[p] # v
             PROVE  v \in Come(s, Way[s][p] - 1)
  BY <1>3 DEF Come
<1> QED
  BY <1>1, <1>2 DEF Come

(* What a line needs are lines, and as long as nothing is left behind it   *)
(* they stay the same.                                                     *)
LEMMA NeedsFacts ==
  ASSUME Typed, NEW s \in SourcesOf(net)
  PROVE  /\ \A n \in 1 .. MaxLines : <<s, n>> \in Lines /\ Needs(s, n) \subseteq Lines
         /\ trail' = trail => \A n : Needs(s, n)' = Needs(s, n)
<1>1. s \in Sources /\ MaxLines \in Nat /\ trail \in [Lines -> SUBSET Lines]
  BY OrderFacts, BoundsAssumption DEF Typed, RestOK
<1>2. \A n \in 1 .. MaxLines : <<s, n>> \in Lines
  BY <1>1 DEF Lines
<1>3. ASSUME NEW n \in 1 .. MaxLines PROVE Needs(s, n) \subseteq Lines
  <2>1. \A k \in 1 .. n - 1 : k \in 1 .. MaxLines
    BY <1>1
  <2>2. {<<s, k>> : k \in 1 .. n - 1} \subseteq Lines
    BY <1>2, <2>1
  <2> QED
    BY <1>1, <1>2, <2>2 DEF Needs
<1> QED
  BY <1>2, <1>3 DEF Needs

(* The channel of a source is the first place behind it; its own buffer    *)
(* comes before all others.                                                *)
LEMMA SourceFacts ==
  ASSUME Typed, NEW s \in SourcesOf(net)
  PROVE  /\ s \in Procs /\ On(s, s) /\ \A x : On(s, x) => Way[s][x] <= Way[s][s]
         /\ \A c \in DOMAIN chan : On(s, c) /\ FromSource(c) =>
              Way[s][s] = Way[s][c] + 1 /\ Way[s][c] - 1 \in Nat \ {0}
<1>1. CASE net = "upp"
  <2>1. s = "user" /\ Procs = {"user", "s1", "s2", "s3"} /\ DOMAIN chan = {"tty", "c1", "c2"}
    BY <1>1, StateFacts, UppIs DEF SourcesOf
  <2>2. ~FromSource("c1") /\ ~FromSource("c2")
    BY <1>1 DEF FromSource, Nets, Upp, Chan, Sources, Persons
  <2> QED
    BY <2>1, <2>2, WayIs DEF On
<1>2. CASE net = "sel"
  <2>1. s \in {"p_0", "p_1"} /\ Procs = {"p_0", "p_1", "p_4", "sel"} /\ DOMAIN chan = {"f0", "f1", "f4"}
    BY <1>2, StateFacts, SelIs DEF SourcesOf
  <2>2. ~FromSource("f4")
    BY <1>2 DEF FromSource, Nets, Sel, Chan, Sources, Persons
  <2>3. CASE s = "p_0"
    BY <2>1, <2>2, <2>3, WayIs DEF On
  <2>4. CASE s = "p_1"
    BY <2>1, <2>2, <2>4, WayIs DEF On
  <2> QED
    BY <2>1, <2>3, <2>4
<1> QED
  BY <1>1, <1>2, OrderFacts

(* Where the ways of two sources have met, they are the same.              *)
LEMMA WaysMeet ==
  ASSUME Typed, NEW s \in SourcesOf(net), NEW r \in SourcesOf(net), NEW p \in Procs \ Sources, On(s, p), On(r, p)
  PROVE  Come(r, Way[r][p] - 1) \subseteq Come(s, Way[s][p] - 1)
<1>1. CASE s = r
  BY <1>1
<1>2. CASE s # r
  <2>1. s \in {"p_0", "p_1"} /\ r \in {"p_0", "p_1"} /\ p \in {"sel", "p_4"}
    BY <1>2, StateFacts, SelIs DEF SourcesOf, Sources, Persons
  <2>2. \A x : Near("p_0", x, Way["p_0"][p] - 1) <=> Near("p_1", x, Way["p_1"][p] - 1)
    <3>1. CASE p = "sel"
      BY <3>1, WayIs DEF Near, On
    <3>2. CASE p = "p_4"
      BY <3>2, WayIs DEF Near, On
    <3> QED
      BY <2>1, <3>1, <3>2
  <2> QED
    BY <2>1, <2>2 DEF Come
<1> QED
  BY <1>1, <1>2

(* A step that moves no line of s, and after which no process on the way   *)
(* is idle that was not, or it has no line.                                *)
LEMMA StillOrder ==
  ASSUME Typed, NEW s \in SourcesOf(net), InOrder(s), UNCHANGED <<net, chan, trail, shown>>, Procs' = Procs,
         InHand(s)' => InHand(s),
         \A q \in Procs : On(s, q) => buf'[q] = buf[q] /\ (Idle(q)' => Idle(q) \/ buf[q] \notin Lines)
  PROVE  InOrder(s)'
<1>1. \A k : Come(s, k)' = Come(s, k)
  BY DEF Come, Near
<1>n. \A n : Needs(s, n)' = Needs(s, n)
  BY NeedsFacts
<1>2. \A c, i : Before(c, i)' = Before(c, i)
  BY DEF Before
<1>4. HeldInOrder(s)' /\ ShownInOrder(s)' /\ OnTheWay(s)'
  BY <1>1, <1>n DEF InOrder, HeldInOrder, ShownInOrder, OnTheWay
<1>5. SentInOrder(s)'
  BY <1>1, <1>2, <1>n DEF InOrder, SentInOrder
<1>6. PassedOn(s)'
  BY <1>1 DEF InOrder, PassedOn
<1>7. Fresh(s)'
  BY <1>1, SourceFacts DEF InOrder, Fresh, FromSource
<1> QED
  BY <1>4, <1>5, <1>6, <1>7 DEF InOrder

(* When an idle process gets something else into its buffer, nothing is    *)
(* further behind than it was.                                             *)
LEMMA ComeKept ==
  ASSUME Typed, NEW s \in SourcesOf(net), PassedOn(s), NEW p \in Procs, On(s, p), Idle(p),
         \A q \in Procs : q # p => buf'[q] = buf[q],
         Procs' = Procs, DOMAIN chan' = DOMAIN chan, shown' = shown,
         \A d \in DOMAIN chan : \A i \in DOMAIN chan[d] :
           \/ \E j \in DOMAIN chan'[d] : chan'[d][j] = chan[d][i]
           \/ buf'[p] = chan[d][i] /\ (On(s, d) => Way[s][d] = Way[s][p] + 1)
  PROVE  \A k \in Nat : Come(s, k) \subseteq Come(s, k)'
<1>w. Way[s][p] \in Nat \ {0}
  BY OrderFacts
<1>1. ASSUME NEW v, NEW k \in Nat, v \in Come(s, k), v \notin Come(s, k)'
      PROVE  buf[p] = v /\ Near(s, p, k)
  <2>1. v \in Lines /\ ~(shown[v] > 0)
    BY <1>1 DEF Come
  <2>2. \A q \in Procs : q # p => ~(Near(s, q, k) /\ buf[q] = v)
    BY <1>1, <2>1 DEF Come
  <2>3. ASSUME NEW d \in DOMAIN chan, Near(s, d, k), NEW i \in DOMAIN chan[d], chan[d][i] = v PROVE FALSE
    <3>1. ~\E j \in DOMAIN chan'[d] : chan'[d][j] = chan[d][i]
      BY <1>1, <2>1, <2>3 DEF Come
    <3>2. buf'[p] = v /\ Way[s][d] = Way[s][p] + 1 /\ Way[s][d] <= k
      BY <2>3, <3>1 DEF Near
    <3>3. Near(s, p, k)
      BY <1>w, <3>2 DEF Near
    <3> QED
      BY <1>1, <2>1, <3>2, <3>3 DEF Come
  <2> QED
    BY <1>1, <2>1, <2>2, <2>3 DEF Come
<1> SUFFICES ASSUME NEW k \in Nat, NEW v \in Come(s, k), v \notin Come(s, k)'
             PROVE  FALSE
  OBVIOUS
<1>2. buf[p] = v /\ Near(s, p, k)
  BY <1>1
<1>3. v \in Come(s, Way[s][p] - 1)
  BY <1>1, <1>2 DEF PassedOn, Come
<1>4. Way[s][p] - 1 \in Nat /\ Way[s][p] - 1 <= k /\ ~Near(s, p, Way[s][p] - 1)
  BY <1>w, <1>2 DEF Near
<1>5. v \in Come(s, Way[s][p] - 1)'
  BY <1>1, <1>3, <1>4
<1>6. \A x : Near(s, x, Way[s][p] - 1) => Near(s, x, k)
  BY <1>w, <1>4, OrderFacts DEF Near
<1>7. v \in Come(s, k)'
  BY <1>5, <1>6 DEF Come
<1> QED
  BY <1>7

(* The next line is typed behind the others.                               *)
LEMMA TypeOrder ==
  ASSUME Base, NEW s \in SourcesOf(net), InOrder(s), NEW p, Type(p)
  PROVE  InOrder(s)'
<1>t. Typed
  BY DEF Base
<1>1. /\ Moved(p) /\ p \in Sources \cap Procs /\ Running(p) /\ Step(p).op = "type"
      /\ buf' = [buf EXCEPT ![p] = <<p, buf[p][2] + 1>>]
      /\ UNCHANGED <<net, chan, trail, shown>> /\ Onward(p)
  BY TypeBase DEF Type, Calls
<1>2. /\ On(s, p) <=> p = s
      /\ Using(net, p, StepAt(net, p, at[p] + 1))
  BY <1>t, <1>1, OrderFacts DEF RouteOK
<1>3. InHand(p)'
  BY <1>t, <1>1, <1>2, StateFacts, GotoFacts DEF Onward
<1>4. \A q \in Procs : Idle(q)' => Idle(q)
  BY <1>1, <1>3 DEF Moved, Idle, Running
<1>5. \A q \in Procs : q # p => buf'[q] = buf[q]
  BY <1>1
<1>6. CASE p # s
  <2>1. InHand(s)' => InHand(s)
    BY <1>t, <1>1, <1>6, SourceFacts DEF Moved
  <2> QED
    BY <1>t, <1>1, <1>2, <1>4, <1>5, <1>6, <2>1, StillOrder DEF Moved
<1>7. CASE p = s
  <2>0. Owner(s) = s /\ s \in OwnersOf(net) /\ On(s, s) /\ Way[s][s] \in Nat \ {0} /\ s \in Procs
    BY <1>t, <1>1, <1>2, <1>7, StateFacts, Alone, OrderFacts
  <2>1. buf[s] \in {s} \X (0 .. MaxLines) /\ buf'[s] = <<s, buf[s][2] + 1>>
    BY <1>t, <1>1, <1>7, <2>0 DEF Typed, BufOK
  <2>2. Idle(s)
    BY <1>1, <1>7 DEF Idle, InHand, Uses
  <2>3. \A k \in Nat : Come(s, k) \subseteq Come(s, k)'
    BY <1>t, <1>1, <1>5, <1>7, <2>0, <2>2, ComeKept DEF InOrder, Moved
  <2>m. MaxLines \in Nat /\ \A x : On(s, x) => Way[s][x] - 1 \in Nat
    BY <1>t, OrderFacts, BoundsAssumption
  <2>n. \A n : Needs(s, n)' = Needs(s, n)
    BY <1>t, <1>1, NeedsFacts
  <2>l. \A n \in 1 .. MaxLines : n > buf[s][2] => <<s, n>> \in Lines /\ ~WasTyped(buf, <<s, n>>)
    <3>1. \A n \in 1 .. MaxLines : n > buf[s][2] => ~(n <= buf[s][2])
      BY <2>1, <2>m
    <3> QED
      BY <1>t, <3>1, NeedsFacts DEF WasTyped
  <2>4. HeldInOrder(s)'
    <3>1. ASSUME NEW q \in Procs, On(s, q), NEW n \in 1 .. MaxLines, buf'[q] = <<s, n>>, NEW w \in Needs(s, n)
          PROVE  w \in Come(s, Way[s][q] - 1)'
      <4>2. CASE q # s
        <5>1. w \in Come(s, Way[s][q] - 1)
          BY <1>5, <1>7, <3>1, <4>2 DEF InOrder, HeldInOrder
        <5> QED
          BY <2>3, <2>m, <3>1, <5>1
      <4>3. CASE q = s
        <5>1. buf[s] = <<s, n - 1>> /\ n - 1 \in Nat /\ n > buf[s][2]
          BY <2>1, <3>1, <4>3
        <5>2. trail[<<s, n>>] = {}
          BY <2>l, <3>1, <5>1 DEF Base, Known
        <5>3. PICK k \in 1 .. n - 1 : w = <<s, k>>
          BY <3>1, <5>2 DEF Needs
        <5>4. n - 1 \in 1 .. MaxLines /\ (k = n - 1 \/ k \in 1 .. (n - 1) - 1)
          BY <2>m, <3>1
        <5>5. CASE k = n - 1
          <6>1. buf[s] \in Lines /\ w = buf[s]
            BY <1>t, <5>1, <5>3, <5>4, <5>5, NeedsFacts
          <6> QED
            BY <2>0, <2>2, <2>3, <2>m, <4>3, <6>1 DEF InOrder, PassedOn
        <5>6. CASE k \in 1 .. (n - 1) - 1
          <6>1. w \in Needs(s, n - 1)
            BY <5>3, <5>6 DEF Needs
          <6>2. w \in Come(s, Way[s][s] - 1)
            BY <2>0, <5>1, <5>4, <6>1 DEF InOrder, HeldInOrder
          <6> QED
            BY <2>0, <2>3, <2>m, <4>3, <6>2
        <5> QED
          BY <5>4, <5>5, <5>6
      <4> QED
        BY <4>2, <4>3
    <3> QED
      BY <1>1, <2>n, <3>1 DEF HeldInOrder, Moved
  <2>5. SentInOrder(s)'
    <3>1. \A c, i : Before(c, i)' = Before(c, i)
      BY <1>1 DEF Before
    <3>2. \A c \in DOMAIN chan : On(s, c) => Come(s, Way[s][c] - 1) \subseteq Come(s, Way[s][c] - 1)'
      BY <2>3, <2>m
    <3> QED
      BY <1>1, <2>n, <3>1, <3>2 DEF InOrder, SentInOrder
  <2>6. ShownInOrder(s)' /\ OnTheWay(s)'
    BY <1>1, <2>n DEF InOrder, ShownInOrder, OnTheWay
  <2>7. PassedOn(s)'
    <3>1. ASSUME NEW q \in Procs, On(s, q), Idle(q)', buf'[q] \in Lines
          PROVE  buf'[q] \in Come(s, Way[s][q] - 1)'
      <4>1. q # s /\ Idle(q) /\ buf[q] = buf'[q]
        BY <1>3, <1>4, <1>5, <1>7, <3>1 DEF Idle
      <4>2. buf[q] \in Come(s, Way[s][q] - 1)
        BY <3>1, <4>1 DEF InOrder, PassedOn
      <4> QED
        BY <2>3, <2>m, <3>1, <4>1, <4>2
    <3> QED
      BY <1>1, <3>1 DEF PassedOn, Moved
  <2>8. Fresh(s)'
    <3>1. \A k \in Nat : k < Way[s][s] => Come(s, k)' \subseteq Come(s, k)
      BY <1>1, <1>5, <1>7, <2>0 DEF Come, Near, Moved
    <3>2. Way[s][s] - 1 \in Nat /\ Way[s][s] - 1 < Way[s][s]
      BY <2>0
    <3>3. ASSUME NEW c \in DOMAIN chan, On(s, c), FromSource(c)
          PROVE  Way[s][c] - 1 \in Nat /\ Way[s][c] - 1 < Way[s][s]
      <4>1. Way[s][s] = Way[s][c] + 1 /\ Way[s][c] - 1 \in Nat \ {0}
        BY <1>t, <3>3, SourceFacts
      <4>2. Way[s][c] \in Nat
        BY <1>t, <3>3, OrderFacts
      <4> QED
        BY <4>1, <4>2
    <3>4. \A c \in DOMAIN chan : On(s, c) /\ FromSource(c) => Come(s, Way[s][c] - 1)' \subseteq Come(s, Way[s][c] - 1)
      BY <3>1, <3>3
    <3>5. \A k : \A v \in Come(s, k) : WasTyped(buf, v)
      <4>1. \A q \in Procs : Owner(q) = q
        BY <1>t, OrderFacts
      <4> QED
        BY <4>1 DEF Base, Known, Come
    <3>6. ASSUME NEW n \in 1 .. MaxLines, buf'[s] = <<s, n>> PROVE <<s, n>> \notin Come(s, Way[s][s] - 1)'
      <4>1. n > buf[s][2]
        BY <2>1, <3>6
      <4> QED
        BY <2>l, <3>1, <3>2, <3>5, <4>1
    <3> QED
      BY <1>1, <3>4, <3>6 DEF InOrder, Fresh, FromSource
  <2> QED
    BY <2>4, <2>5, <2>6, <2>7, <2>8 DEF InOrder
<1> QED
  BY <1>6, <1>7

(* What is left behind what an idle reader takes has gone on already.      *)
LEMMA RemainsCome ==
  ASSUME Base, OrderOK, NEW s \in SourcesOf(net), NEW p, Running(p), Step(p).op = "read"
  PROVE  Remains(buf[p]) \subseteq Come(s, Way[s][p] - 1)
<1>t. Typed
  BY DEF Base
<1>1. /\ p \in Procs /\ On(s, p) /\ Idle(p) /\ Owner(p) = p /\ InOrder(s)
      /\ StepOK(net, p, at[p]) /\ Step(p) = StepsOf(net, p)[at[p]]
  BY <1>t, OrderFacts, StateFacts DEF RouteOK, Idle, InHand, Uses, OrderOK
<1>2. p \notin Sources
  BY <1>1 DEF StepOK, Owner, Prog
<1> SUFFICES ASSUME buf[p] \in Lines PROVE {buf[p]} \cup trail[buf[p]] \subseteq Come(s, Way[s][p] - 1)
  BY DEF Remains
<1>3. buf[p] \in Come(s, Way[s][p] - 1)
  BY <1>1 DEF InOrder, PassedOn
<1>4. PICK r \in Sources, n \in 1 .. MaxLines : buf[p] = <<r, n>>
  BY DEF Lines
<1>5. r \in SourcesOf(net)
  <2>1. r \in OwnersOf(net)
    BY <1>1, <1>4, <1>t DEF Base, Known, WasTyped, Typed, BufOK
  <2>2. net \in DOMAIN Nets \ {"chat"}
    BY <1>t, OrderFacts DEF Typed
  <2> QED
    BY <2>1, <2>2, SourcesAre
<1>6. On(r, p) /\ InOrder(r)
  BY <1>t, <1>5, OrderFacts DEF RouteOK, OrderOK
<1>7. trail[buf[p]] \subseteq Come(r, Way[r][p] - 1)
  BY <1>1, <1>4, <1>6 DEF InOrder, HeldInOrder, Needs
<1>8. Come(r, Way[r][p] - 1) \subseteq Come(s, Way[s][p] - 1)
  BY <1>t, <1>1, <1>2, <1>5, <1>6, WaysMeet
<1> QED
  BY <1>3, <1>7, <1>8

(* What a process takes was sent before what it leaves.                    *)
LEMMA TakeOrder ==
  ASSUME Base, OrderOK, NEW s \in SourcesOf(net), NEW p, Running(p), Step(p).op = "read",
         Moved(p), InHand(p)', NEW c \in DOMAIN chan, c = Step(p).arg, chan[c] # <<>>,
         chan' = [chan EXCEPT ![c] = Tail(@)], buf' = [buf EXCEPT ![p] = Head(chan[c])],
         Over(c, Head(chan[c]), buf[p]), UNCHANGED <<net, shown>>
  PROVE  InOrder(s)'
<1>t. Typed /\ InOrder(s)
  BY DEF Base, OrderOK
<1>f. /\ p \in Procs /\ On(s, p) /\ (On(s, c) => Way[s][c] = Way[s][p] + 1)
      /\ Owner(p) = p /\ p \in OwnersOf(net) /\ Procs' = Procs
      /\ \A x : On(s, x) => Way[s][x] \in Nat \ {0} /\ Way[s][x] - 1 \in Nat
  BY <1>t, OrderFacts, StateFacts DEF RouteOK, Moved
<1>1. /\ DOMAIN chan' = DOMAIN chan
      /\ \A d \in DOMAIN chan : d # c => chan'[d] = chan[d]
      /\ 1 \in DOMAIN chan[c] /\ Head(chan[c]) = chan[c][1]
      /\ \A i \in DOMAIN chan'[c] : i \in Nat \ {0} /\ i + 1 \in DOMAIN chan[c] /\ chan'[c][i] = chan[c][i + 1]
      /\ \A i \in DOMAIN chan[c] : i # 1 => i - 1 \in DOMAIN chan'[c] /\ chan'[c][i - 1] = chan[c][i]
  BY <1>t, TakenFacts
<1>2. buf'[p] = chan[c][1] /\ \A q \in Procs : q # p => buf'[q] = buf[q]
  BY <1>t, <1>f, <1>1 DEF Typed, BufOK
<1>3. Idle(p)
  BY DEF Idle, InHand, Uses
<1>4. \A k \in Nat : Come(s, k) \subseteq Come(s, k)'
  <2>1. \A d \in DOMAIN chan : \A i \in DOMAIN chan[d] :
          \/ \E j \in DOMAIN chan'[d] : chan'[d][j] = chan[d][i]
          \/ buf'[p] = chan[d][i] /\ (On(s, d) => Way[s][d] = Way[s][p] + 1)
    <3> SUFFICES ASSUME NEW d \in DOMAIN chan, NEW i \in DOMAIN chan[d]
                 PROVE  \/ \E j \in DOMAIN chan'[d] : chan'[d][j] = chan[d][i]
                        \/ buf'[p] = chan[d][i] /\ (On(s, d) => Way[s][d] = Way[s][p] + 1)
      OBVIOUS
    <3>1. CASE d # c
      BY <1>1, <3>1
    <3>2. CASE d = c /\ i = 1
      BY <1>f, <1>2, <3>2
    <3>3. CASE d = c /\ i # 1
      BY <1>1, <3>3
    <3> QED
      BY <3>1, <3>2, <3>3
  <2> QED
    BY <1>t, <1>f, <1>1, <1>2, <1>3, <2>1, ComeKept DEF InOrder
<1>w. ~On(s, c) => \A i \in DOMAIN chan[c] : \A n \in 1 .. MaxLines : chan[c][i] # <<s, n>>
  BY <1>t DEF InOrder, OnTheWay
<1>a. ASSUME NEW n \in 1 .. MaxLines, chan[c][1] = <<s, n>> PROVE On(s, c) /\ Way[s][c] = Way[s][p] + 1
  BY <1>f, <1>1, <1>w, <1>a
<1>n. \A n \in 1 .. MaxLines :
        /\ Needs(s, n)' \subseteq Needs(s, n) \cup Come(s, Way[s][p] - 1)
        /\ Needs(s, n)' # Needs(s, n) => chan[c][1] = <<s, n>> /\ FromSource(c) /\ On(s, c)
  <2>0. \A n \in 1 .. MaxLines : <<s, n>> \in Lines
    BY <1>t, NeedsFacts
  <2>1. Remains(buf[p]) \subseteq Come(s, Way[s][p] - 1)
    BY RemainsCome
  <2>2. /\ \A w \in Lines : w # Head(chan[c]) => trail'[w] = trail[w]
        /\ FromSource(c) \/ trail' = trail
        /\ Head(chan[c]) \in Lines => trail'[Head(chan[c])] \subseteq trail[Head(chan[c])] \cup Remains(buf[p])
    BY <1>t, OverFacts
  <2>3. ASSUME NEW n \in 1 .. MaxLines, chan[c][1] # <<s, n>> \/ ~FromSource(c) PROVE Needs(s, n)' = Needs(s, n)
    BY <1>1, <2>0, <2>2, <2>3 DEF Needs
  <2>4. ASSUME NEW n \in 1 .. MaxLines, chan[c][1] = <<s, n>>
        PROVE  Needs(s, n)' \subseteq Needs(s, n) \cup Come(s, Way[s][p] - 1)
    BY <1>1, <2>0, <2>1, <2>2, <2>4 DEF Needs
  <2> QED
    BY <1>a, <2>3, <2>4
<1>r. ASSUME NEW n \in 1 .. MaxLines, Needs(s, n)' # Needs(s, n)
      PROVE  /\ On(s, c) /\ FromSource(c) /\ chan[c][1] = <<s, n>> /\ <<s, n>> \notin Come(s, Way[s][p])
             /\ \A i \in DOMAIN chan[c] : i # 1 => chan[c][i] # <<s, n>>
  <2>1. On(s, c) /\ FromSource(c) /\ chan[c][1] = <<s, n>>
    BY <1>n, <1>r
  <2>2. /\ <<s, n>> \notin Come(s, Way[s][c] - 1)
        /\ \A i \in DOMAIN chan[c] : chan[c][i] = <<s, n>> => 1 = i
    BY <1>t, <1>1, <2>1 DEF InOrder, Fresh
  <2>3. Way[s][c] - 1 = Way[s][p]
    BY <1>f, <2>1
  <2> QED
    BY <2>1, <2>2, <2>3
<1>5. HeldInOrder(s)'
  <2>1. ASSUME NEW q \in Procs, On(s, q), NEW n \in 1 .. MaxLines, buf'[q] = <<s, n>>, NEW w \in Needs(s, n)'
        PROVE  w \in Come(s, Way[s][q] - 1)'
    <3>2. CASE q # p
      <4>1. Needs(s, n) \subseteq Come(s, Way[s][q] - 1)
        BY <1>t, <1>2, <2>1, <3>2 DEF InOrder, HeldInOrder
      <4>2. CASE Needs(s, n)' = Needs(s, n)
        BY <1>4, <1>f, <2>1, <4>1, <4>2
      <4>3. CASE Needs(s, n)' # Needs(s, n)
        <5>1. <<s, n>> \notin Come(s, Way[s][p]) /\ <<s, n>> \in Lines /\ buf[q] = <<s, n>>
          BY <1>r, <1>t, <1>2, <2>1, <3>2, <4>3, NeedsFacts
        <5>2. ~(Way[s][q] <= Way[s][p])
          BY <2>1, <5>1 DEF Come, Near
        <5>3. Way[s][p] - 1 <= Way[s][q] - 1
          BY <1>f, <2>1, <5>2
        <5>4. Come(s, Way[s][p] - 1) \subseteq Come(s, Way[s][q] - 1)
          BY <1>t, <1>f, <2>1, <5>3, ComeFurther
        <5> QED
          BY <1>4, <1>f, <1>n, <2>1, <4>1, <5>4
      <4> QED
        BY <4>2, <4>3
    <3>3. CASE q = p
      <4>1. chan[c][1] = <<s, n>> /\ On(s, c) /\ Way[s][c] = Way[s][p] + 1
        BY <1>2, <1>a, <2>1, <3>3
      <4>2. Needs(s, n) \subseteq Come(s, Way[s][c] - 1)
        <5>1. Before(c, 1) = {}
          BY DEF Before
        <5> QED
          BY <1>t, <1>1, <4>1, <5>1 DEF InOrder, SentInOrder
      <4>3. Way[s][c] - 1 = Way[s][p]
        BY <1>f, <4>1
      <4>4. Needs(s, n) \subseteq Come(s, Way[s][p] - 1)
        BY <1>t, <1>f, <1>3, <4>2, <4>3, IdleCome DEF InOrder
      <4> QED
        BY <1>4, <1>f, <1>n, <2>1, <3>3, <4>4
    <3> QED
      BY <3>2, <3>3
  <2> QED
    BY <1>f, <2>1 DEF HeldInOrder
<1>6. SentInOrder(s)'
  <2>1. ASSUME NEW d \in DOMAIN chan, On(s, d), NEW i \in DOMAIN chan'[d], NEW n \in 1 .. MaxLines,
               chan'[d][i] = <<s, n>>, NEW w \in Needs(s, n)'
        PROVE  w \in Come(s, Way[s][d] - 1)' \cup {chan'[d][j] : j \in 1 .. i - 1}
    <3>2. CASE d # c
      <4>0. chan'[d] = chan[d]
        BY <1>1, <3>2
      <4>1. Needs(s, n) \subseteq Come(s, Way[s][d] - 1) \cup {chan[d][j] : j \in 1 .. i - 1}
        BY <1>t, <2>1, <4>0 DEF InOrder, SentInOrder, Before
      <4>2. CASE w \in Needs(s, n)
        BY <1>4, <1>f, <2>1, <4>0, <4>1, <4>2
      <4>3. CASE w \notin Needs(s, n)
        <5>0. Needs(s, n)' # Needs(s, n) /\ w \in Come(s, Way[s][p] - 1)
          BY <1>n, <2>1, <4>3
        <5>1. <<s, n>> \notin Come(s, Way[s][p]) /\ <<s, n>> \in Lines /\ chan[d][i] = <<s, n>>
          BY <1>r, <1>t, <2>1, <4>0, <5>0, NeedsFacts
        <5>2. ~(Way[s][d] <= Way[s][p])
          BY <2>1, <4>0, <5>1 DEF Come, Near
        <5>3. Way[s][p] - 1 <= Way[s][d] - 1
          BY <1>f, <2>1, <5>2
        <5>4. Come(s, Way[s][p] - 1) \subseteq Come(s, Way[s][d] - 1)
          BY <1>t, <1>f, <2>1, <5>3, ComeFurther
        <5> QED
          BY <1>4, <1>f, <2>1, <5>0, <5>4
      <4> QED
        BY <4>2, <4>3
    <3>3. CASE d = c
      <4>1. i \in Nat \ {0} /\ i + 1 \in DOMAIN chan[c] /\ chan[c][i + 1] = <<s, n>> /\ i + 1 # 1
        BY <1>1, <2>1, <3>3
      <4>n. w \in Needs(s, n)
        BY <1>r, <2>1, <4>1
      <4>2. w \in Come(s, Way[s][c] - 1) \cup Before(c, i + 1)
        BY <1>t, <2>1, <3>3, <4>1, <4>n DEF InOrder, SentInOrder
      <4>3. CASE w \in Come(s, Way[s][c] - 1)
        BY <1>4, <1>f, <2>1, <3>3, <4>3
      <4>4. CASE w \in Before(c, i + 1)
        <5>1. PICK j \in 1 .. (i + 1) - 1 : w = chan[c][j]
          BY <4>4 DEF Before
        <5>2. CASE j = 1
          <6>0. buf'[p] = w
            BY <1>2, <5>1, <5>2
          <6>w. On(s, c) /\ Way[s][c] = Way[s][p] + 1 /\ Way[s][p] \in Nat
            BY <1>f, <2>1, <3>3
          <6>1. buf'[p] = w /\ Near(s, p, Way[s][c] - 1)
            BY <1>f, <6>0, <6>w DEF Near
          <6>2. w \in Lines
            BY <1>t, <4>n, NeedsFacts
          <6> QED
            BY <1>f, <3>3, <6>1, <6>2 DEF Come
        <5>3. CASE j # 1
          <6>1. j - 1 \in 1 .. i - 1 /\ (j - 1) + 1 = j
            BY <4>1, <5>1, <5>3
          <6>2. DOMAIN chan[c] = 1 .. Len(chan[c]) /\ Len(chan[c]) \in Nat
            BY <1>t, ChanFacts
          <6>3. j \in DOMAIN chan[c]
            BY <4>1, <5>1, <6>2
          <6>4. chan'[c][j - 1] = w
            BY <1>1, <5>1, <5>3, <6>3
          <6> QED
            BY <3>3, <6>1, <6>4
        <5> QED
          BY <5>2, <5>3
      <4> QED
        BY <4>2, <4>3, <4>4
    <3> QED
      BY <3>2, <3>3
  <2> QED
    BY <1>1, <2>1 DEF SentInOrder, Before
<1>7. ShownInOrder(s)'
  <2>1. \A n \in 1 .. MaxLines : shown[<<s, n>>] > 0 => Needs(s, n)' = Needs(s, n)
    <3>1. \A n \in 1 .. MaxLines : <<s, n>> \in Lines
      BY <1>t, NeedsFacts
    <3>2. \A n \in 1 .. MaxLines : shown[<<s, n>>] > 0 => <<s, n>> \in Come(s, Way[s][p])
      BY <3>1 DEF Come
    <3> QED
      BY <1>r, <3>2
  <2> QED
    BY <1>t, <2>1 DEF InOrder, ShownInOrder
<1>8. OnTheWay(s)'
  <2>1. \A d \in DOMAIN chan : \A i \in DOMAIN chan'[d] : \E j \in DOMAIN chan[d] : chan'[d][i] = chan[d][j]
    BY <1>1
  <2>2. ASSUME NEW d \in DOMAIN chan, ~On(s, d), NEW i \in DOMAIN chan'[d], NEW n \in 1 .. MaxLines
        PROVE  chan'[d][i] # <<s, n>>
    <3>1. PICK j \in DOMAIN chan[d] : chan'[d][i] = chan[d][j]
      BY <2>1
    <3>2. \A e \in DOMAIN chan[d] : \A m \in 1 .. MaxLines : chan[d][e] # <<s, m>>
      BY <1>t, <2>2 DEF InOrder, OnTheWay
    <3>3. chan[d][j] # <<s, n>>
      BY <3>2, Zenon
    <3> QED
      BY <3>1, <3>3
  <2> QED
    BY <1>1, <2>2 DEF OnTheWay
<1>9. PassedOn(s)'
  <2>1. ASSUME NEW q \in Procs, On(s, q), Idle(q)', buf'[q] \in Lines
        PROVE  buf'[q] \in Come(s, Way[s][q] - 1)'
    <3>1. q # p /\ Idle(q) /\ buf[q] = buf'[q]
      BY <1>2, <2>1 DEF Idle, Moved, Running
    <3>2. buf[q] \in Come(s, Way[s][q] - 1)
      BY <1>t, <2>1, <3>1 DEF InOrder, PassedOn
    <3> QED
      BY <1>4, <1>f, <2>1, <3>1, <3>2
  <2> QED
    BY <1>f, <2>1 DEF PassedOn
<1>10. Fresh(s)'
  <2>0. /\ s \in Procs /\ On(s, s) /\ \A x : On(s, x) => Way[s][x] <= Way[s][s]
        /\ \A d \in DOMAIN chan : On(s, d) /\ FromSource(d) =>
             Way[s][s] = Way[s][d] + 1 /\ Way[s][d] - 1 \in Nat \ {0}
    BY <1>t, SourceFacts
  <2>a. \A d \in DOMAIN chan : \A i \in DOMAIN chan'[d] : \E j \in DOMAIN chan[d] : chan'[d][i] = chan[d][j]
    BY <1>1
  <2>1. \A k : \A v \in Come(s, k)' : v # chan[c][1] => v \in Come(s, k)
    BY <1>f, <1>1, <1>2, <2>a DEF Come, Near
  <2>2. ASSUME NEW n \in 1 .. MaxLines, InHand(s)', buf'[s] = <<s, n>>
        PROVE  <<s, n>> \notin Come(s, Way[s][s] - 1)'
    <3>1. s # p
      <4>1. Owner(p) \notin Sources
        BY <1>t, <1>f, StateFacts DEF StepOK, Owner, Prog
      <4> QED
        BY <1>t, <1>f, <4>1, OrderFacts
    <3>2. InHand(s) /\ buf[s] = <<s, n>>
      BY <1>2, <2>0, <2>2, <3>1 DEF Moved
    <3>3. <<s, n>> \notin Come(s, Way[s][s] - 1)
      BY <1>t, <3>2 DEF InOrder, Fresh
    <3>4. <<s, n>> # chan[c][1]
      <4>1. ASSUME chan[c][1] = <<s, n>> PROVE <<s, n>> \in Come(s, Way[s][s] - 1)
        <5>1. On(s, c) /\ <<s, n>> \in Lines
          BY <1>a, <1>t, <4>1, NeedsFacts
        <5>2. Way[s][c] # Way[s][s]
          BY <1>t, <2>0, <5>1, OrderFacts
        <5>3. Way[s][c] <= Way[s][s] - 1
          BY <1>f, <2>0, <5>1, <5>2
        <5> QED
          BY <1>1, <4>1, <5>1, <5>3 DEF Come, Near
      <4> QED
        BY <3>3, <4>1
    <3> QED
      BY <2>1, <3>3, <3>4
  <2>3. ASSUME NEW n \in 1 .. MaxLines, NEW d \in DOMAIN chan, On(s, d), FromSource(d),
               NEW i \in DOMAIN chan'[d], chan'[d][i] = <<s, n>>
        PROVE  /\ <<s, n>> \notin Come(s, Way[s][d] - 1)'
               /\ \A j \in DOMAIN chan'[d] : chan'[d][j] = <<s, n>> => i = j
    <3>1. CASE d = c
      <4>1. i + 1 \in DOMAIN chan[c] /\ chan[c][i + 1] = <<s, n>> /\ i \in Nat \ {0}
        BY <1>1, <2>3, <3>1
      <4>2. /\ <<s, n>> \notin Come(s, Way[s][c] - 1)
            /\ \A j \in DOMAIN chan[c] : chan[c][j] = <<s, n>> => i + 1 = j
        BY <1>t, <2>3, <3>1, <4>1 DEF InOrder, Fresh
      <4>3. chan[c][1] # <<s, n>>
        BY <1>1, <4>1, <4>2
      <4>4. \A j \in DOMAIN chan'[c] : chan'[c][j] = <<s, n>> => i = j
        <5> SUFFICES ASSUME NEW j \in DOMAIN chan'[c], chan'[c][j] = <<s, n>> PROVE i = j
          OBVIOUS
        <5>1. j \in Nat \ {0} /\ j + 1 \in DOMAIN chan[c] /\ chan[c][j + 1] = <<s, n>>
          BY <1>1
        <5>2. i + 1 = j + 1
          BY <4>2, <5>1
        <5> QED
          BY <4>1, <5>1, <5>2
      <4> QED
        BY <2>1, <3>1, <4>2, <4>3, <4>4
    <3>2. CASE d # c
      <4>0. chan'[d] = chan[d]
        BY <1>1, <3>2
      <4>1. /\ <<s, n>> \notin Come(s, Way[s][d] - 1)
            /\ \A j \in DOMAIN chan[d] : chan[d][j] = <<s, n>> => i = j
        BY <1>t, <2>3, <4>0 DEF InOrder, Fresh
      <4>2. ASSUME chan[c][1] = <<s, n>> PROVE <<s, n>> \in Come(s, Way[s][d] - 1)
        <5>1. On(s, c) /\ <<s, n>> \in Lines
          BY <1>a, <1>t, <4>2, NeedsFacts
        <5>2. Way[s][c] # Way[s][d] /\ Way[s][c] # Way[s][s]
          BY <1>t, <2>0, <2>3, <3>2, <5>1, OrderFacts
        <5>3. Way[s][c] <= Way[s][d] - 1
          <6>1. Way[s][s] = Way[s][d] + 1 /\ Way[s][c] <= Way[s][s]
            BY <2>0, <2>3, <5>1
          <6>2. Way[s][c] \in Nat /\ Way[s][d] \in Nat
            BY <1>f, <2>3, <5>1
          <6> QED
            BY <5>2, <6>1, <6>2
        <5> QED
          BY <1>1, <4>2, <5>1, <5>3 DEF Come, Near
      <4> QED
        BY <2>1, <4>0, <4>1, <4>2
    <3> QED
      BY <3>1, <3>2
  <2> QED
    BY <1>1, <2>2, <2>3 DEF Fresh, FromSource
<1> QED
  BY <1>5, <1>6, <1>7, <1>8, <1>9, <1>10 DEF InOrder

(* A read.                                                                 *)
LEMMA ReadOrder ==
  ASSUME Base, OrderOK, NEW s \in SourcesOf(net), NEW p, Read(p)
  PROVE  InOrder(s)'
<1>t. Typed /\ InOrder(s)
  BY DEF Base, OrderOK
<1>1. /\ Moved(p) /\ Running(p) /\ Step(p).op = "read" /\ Onward(p) /\ UNCHANGED <<net, shown>>
  BY ReadBase DEF Read, Calls
<1>2. /\ p \in Procs /\ Owner(p) = p /\ ~Racing(p) /\ Using(net, p, StepAt(net, p, at[p] + 1))
      /\ Step(p).arg \in DOMAIN chan
  BY <1>t, <1>1, OrderFacts, StateFacts DEF RouteOK, StepOK
<1>3. InHand(p)'
  BY <1>t, <1>1, <1>2, StateFacts, GotoFacts DEF Onward
<1>c. PICK c : c = Step(p).arg
  OBVIOUS
<1>4. CASE /\ chan[c] # <<>> /\ chan' = [chan EXCEPT ![c] = Tail(@)] /\ buf' = [buf EXCEPT ![p] = Head(chan[c])]
           /\ Over(c, Head(chan[c]), buf[p])
  BY <1>1, <1>2, <1>3, <1>c, <1>4, TakeOrder
<1>5. CASE UNCHANGED <<buf, chan, trail>>
  <2>1. \A q \in Procs : Idle(q)' => Idle(q)
    BY <1>1, <1>3 DEF Moved, Idle, Running
  <2>2. InHand(s)' => InHand(s)
    <3>1. Owner(p) \notin Sources
      BY <1>t, <1>1, StateFacts DEF StepOK, Owner, Prog
    <3> QED
      BY <1>t, <1>1, <1>2, <3>1, SourceFacts, OrderFacts DEF Moved
  <2> QED
    BY <1>t, <1>1, <1>5, <2>1, <2>2, StillOrder DEF Moved
<1> QED
  BY <1>2, <1>4, <1>5, <1>c DEF Read

(* What a process sends stands behind what it sent before.                 *)
LEMMA SendOrder ==
  ASSUME Base, NEW s \in SourcesOf(net), InOrder(s), NEW p, Running(p), Step(p).op = "write",
         Moved(p), ~InHand(p)', NEW c \in DOMAIN chan, c = Step(p).arg,
         chan' = [chan EXCEPT ![c] = Append(@, buf[p])], UNCHANGED <<net, buf, trail, shown>>
  PROVE  InOrder(s)'
<1>t. Typed
  BY DEF Base
<1>f. /\ p \in Procs /\ (On(s, p) <=> On(s, c)) /\ (On(s, p) => Way[s][p] = Way[s][c] + 1)
      /\ ~On(s, p) => p \in Sources \ {s}
      /\ Owner(p) = p /\ p \in OwnersOf(net) /\ Procs' = Procs /\ buf[p] \in ValuesOf(net)
      /\ \A x : On(s, x) => Way[s][x] \in Nat \ {0} /\ Way[s][x] - 1 \in Nat
  BY <1>t, OrderFacts, StateFacts DEF RouteOK, Moved
<1>n. \A n \in 1 .. MaxLines : <<s, n>> \in Lines /\ Needs(s, n) \subseteq Lines /\ Needs(s, n)' = Needs(s, n)
  BY <1>t, NeedsFacts
<1>1. /\ DOMAIN chan' = DOMAIN chan
      /\ \A d \in DOMAIN chan : d # c => chan'[d] = chan[d]
      /\ Len(chan[c]) + 1 \in DOMAIN chan'[c] /\ chan'[c][Len(chan[c]) + 1] = buf[p]
      /\ \A i \in DOMAIN chan[c] : i \in DOMAIN chan'[c] /\ chan'[c][i] = chan[c][i] /\ i < Len(chan[c]) + 1
      /\ \A i \in DOMAIN chan'[c] : i \in DOMAIN chan[c] \/ i = Len(chan[c]) + 1
      /\ DOMAIN chan[c] = 1 .. Len(chan[c]) /\ Len(chan[c]) \in Nat
  BY <1>t, <1>f, SentFacts, ChanFacts
<1>4. \A v, k : v \in Come(s, k) => v \in Come(s, k)'
  BY <1>1, <1>f DEF Come
<1>5. HeldInOrder(s)'
  BY <1>4, <1>f, <1>n DEF InOrder, HeldInOrder
<1>6. SentInOrder(s)'
  <2>1. ASSUME NEW d \in DOMAIN chan, On(s, d), NEW i \in DOMAIN chan'[d], NEW n \in 1 .. MaxLines,
               chan'[d][i] = <<s, n>>, NEW w \in Needs(s, n)
        PROVE  w \in Come(s, Way[s][d] - 1)' \cup {chan'[d][j] : j \in 1 .. i - 1}
    <3>1. CASE i \in DOMAIN chan[d]
      <4>1. chan[d][i] = <<s, n>>
        BY <1>1, <2>1, <3>1
      <4>2. w \in Come(s, Way[s][d] - 1) \cup {chan[d][j] : j \in 1 .. i - 1}
        BY <2>1, <3>1, <4>1 DEF InOrder, SentInOrder, Before
      <4>3. \A j \in 1 .. i - 1 : chan'[d][j] = chan[d][j]
        <5>1. DOMAIN chan[d] = 1 .. Len(chan[d]) /\ Len(chan[d]) \in Nat
          BY <1>t, ChanFacts
        <5>2. \A j \in 1 .. i - 1 : j \in DOMAIN chan[d]
          BY <3>1, <5>1
        <5> QED
          BY <1>1, <5>2
      <4> QED
        BY <1>4, <4>2, <4>3
    <3>2. CASE i \notin DOMAIN chan[d]
      <4>1. d = c /\ i = Len(chan[c]) + 1 /\ buf[p] = <<s, n>> /\ On(s, p) /\ i - 1 = Len(chan[c])
        BY <1>1, <1>f, <2>1, <3>2
      <4>w. On(s, c) /\ Way[s][p] = Way[s][c] + 1 /\ Way[s][c] \in Nat
        BY <1>f, <4>1
      <4>2. w \in Come(s, Way[s][p] - 1)
        BY <1>f, <2>1, <4>1 DEF InOrder, HeldInOrder
      <4>v. Way[s][p] - 1 = Way[s][c]
        BY <4>w
      <4>3. w \in Come(s, Way[s][c])
        BY <4>2, <4>v
      <4>5. c \notin Procs
        BY <1>t, OrderFacts
      <4>4. \A x : Near(s, x, Way[s][c]) => x = c \/ Near(s, x, Way[s][c] - 1)
        <5> SUFFICES ASSUME NEW x, On(s, x), Way[s][x] <= Way[s][c], x # c
                     PROVE  Way[s][x] <= Way[s][c] - 1
          BY DEF Near
        <5>1. Way[s][x] # Way[s][c] /\ Way[s][x] \in Nat
          BY <1>t, <4>w, OrderFacts
        <5> QED
          BY <4>w, <5>1
      <4>6. w \in Come(s, Way[s][c] - 1) \cup {chan[c][j] : j \in DOMAIN chan[c]}
        BY <4>3, <4>4, <4>5 DEF Come
      <4>7. \A j \in DOMAIN chan[c] : chan'[c][j] = chan[c][j] /\ j \in 1 .. i - 1
        BY <1>1, <4>1
      <4> QED
        BY <1>4, <4>1, <4>6, <4>7
    <3> QED
      BY <3>1, <3>2
  <2>2. \A d, i : Before(d, i)' = {chan'[d][j] : j \in 1 .. i - 1}
    BY DEF Before
  <2>3. ASSUME NEW d \in DOMAIN chan, On(s, d), NEW i \in DOMAIN chan'[d], NEW n \in 1 .. MaxLines,
               chan'[d][i] = <<s, n>>
        PROVE  Needs(s, n)' \subseteq (Come(s, Way[s][d] - 1) \cup Before(d, i))'
    <3>1. Needs(s, n) \subseteq Come(s, Way[s][d] - 1)' \cup {chan'[d][j] : j \in 1 .. i - 1}
      BY <2>1, <2>3
    <3> QED
      BY <1>n, <2>2, <3>1
  <2>4. DOMAIN chan' = DOMAIN chan
    BY <1>1
  <2> QED
    BY <2>3, <2>4 DEF SentInOrder
<1>7. ShownInOrder(s)'
  BY <1>n DEF InOrder, ShownInOrder
<1>8. OnTheWay(s)'
  <2>1. ~On(s, c) => \A n : buf[p] # <<s, n>>
    <3>1. ~On(s, c) => p \in Sources \cap OwnersOf(net) /\ p # s
      BY <1>f
    <3>2. ~On(s, c) => buf[p] \in {p} \X (0 .. MaxLines)
      BY <1>t, <3>1 DEF Typed, BufOK
    <3> QED
      BY <3>1, <3>2
  <2>2. ASSUME NEW d \in DOMAIN chan, ~On(s, d), NEW i \in DOMAIN chan'[d], NEW n \in 1 .. MaxLines
        PROVE  chan'[d][i] # <<s, n>>
    <3>1. (i \in DOMAIN chan[d] /\ chan'[d][i] = chan[d][i]) \/ (d = c /\ chan'[d][i] = buf[p])
      BY <1>1
    <3> QED
      BY <2>1, <2>2, <3>1 DEF InOrder, OnTheWay
  <2> QED
    BY <1>1, <2>2 DEF OnTheWay
<1>9. PassedOn(s)'
  <2>1. ASSUME NEW q \in Procs, On(s, q), Idle(q)', buf[q] \in Lines
        PROVE  buf[q] \in Come(s, Way[s][q] - 1)'
    <3>1. CASE q # p
      <4>1. Idle(q)
        BY <2>1, <3>1 DEF Idle, Moved, Running
      <4> QED
        BY <1>4, <2>1, <4>1 DEF InOrder, PassedOn
    <3>2. CASE q = p
      <4>1. Near(s, c, Way[s][p] - 1)
        BY <1>f, <2>1, <3>2 DEF Near
      <4> QED
        BY <1>1, <2>1, <3>2, <4>1 DEF Come
    <3> QED
      BY <3>1, <3>2
  <2> QED
    BY <1>f, <2>1 DEF PassedOn
<1>10. Fresh(s)'
  <2>0. /\ s \in Procs /\ On(s, s) /\ \A x : On(s, x) => Way[s][x] <= Way[s][s]
        /\ \A d \in DOMAIN chan : On(s, d) /\ FromSource(d) =>
             Way[s][s] = Way[s][d] + 1 /\ Way[s][d] - 1 \in Nat \ {0}
    BY <1>t, SourceFacts
  <2>1. \A k : \A v \in Come(s, k)' : v \in Come(s, k) \/ (v = buf[p] /\ Near(s, c, k))
    BY <1>1, <1>f DEF Come
  <2>2. \A k \in Nat : ~Near(s, c, k) \/ Near(s, p, k) => Come(s, k)' \subseteq Come(s, k)
    BY <1>f, <2>1 DEF Come
  <2>3. ASSUME NEW n \in 1 .. MaxLines, InHand(s)', buf[s] = <<s, n>>
        PROVE  <<s, n>> \notin Come(s, Way[s][s] - 1)'
    <3>1. s # p /\ InHand(s)
      BY <2>0, <2>3 DEF Moved
    <3>2. <<s, n>> \notin Come(s, Way[s][s] - 1)
      BY <2>3, <3>1 DEF InOrder, Fresh
    <3>3. On(s, p) => Way[s][p] # Way[s][s]
      BY <1>t, <2>0, <3>1, OrderFacts
    <3>4. On(s, p) => Way[s][p] <= Way[s][s] - 1
      BY <1>f, <2>0, <3>3
    <3>5. ~Near(s, c, Way[s][s] - 1) \/ Near(s, p, Way[s][s] - 1)
      BY <1>f, <3>4 DEF Near
    <3> QED
      BY <1>f, <2>0, <2>2, <3>2, <3>5
  <2>4. ASSUME NEW n \in 1 .. MaxLines, NEW d \in DOMAIN chan, On(s, d), FromSource(d),
               NEW i \in DOMAIN chan'[d], chan'[d][i] = <<s, n>>
        PROVE  /\ <<s, n>> \notin Come(s, Way[s][d] - 1)'
               /\ \A j \in DOMAIN chan'[d] : chan'[d][j] = <<s, n>> => i = j
    <3>1. Come(s, Way[s][d] - 1)' \subseteq Come(s, Way[s][d] - 1)
      <4>1. Way[s][p] # Way[s][d] \/ ~On(s, p)
        BY <1>t, <1>f, <2>4, OrderFacts
      <4>2. ~Near(s, c, Way[s][d] - 1) \/ Near(s, p, Way[s][d] - 1)
        <5>1. ASSUME On(s, c), Way[s][c] <= Way[s][d] - 1 PROVE Way[s][p] <= Way[s][d] - 1
          <6>1. Way[s][p] = Way[s][c] + 1 /\ Way[s][p] # Way[s][d] /\ Way[s][c] \in Nat /\ Way[s][d] \in Nat
            BY <1>f, <2>4, <4>1, <5>1
          <6> QED
            BY <5>1, <6>1
        <5> QED
          BY <1>f, <5>1 DEF Near
      <4> QED
        BY <1>f, <2>2, <2>4, <4>2
    <3>2. CASE d # c
      <4>1. chan'[d] = chan[d]
        BY <1>1, <3>2
      <4> QED
        BY <2>4, <3>1, <4>1 DEF InOrder, Fresh
    <3>3. CASE d = c
      <4>1. Way[s][p] = Way[s][s] /\ On(s, p)
        BY <1>f, <2>0, <2>4, <3>3
      <4>2. p = s
        BY <1>t, <2>0, <4>1, OrderFacts
      <4>3. InHand(s)
        BY <4>2 DEF InHand, Uses
      <4>4. ASSUME buf[p] = <<s, n>> PROVE <<s, n>> \notin Come(s, Way[s][c])
        <5>1. <<s, n>> \notin Come(s, Way[s][s] - 1)
          BY <4>2, <4>3, <4>4 DEF InOrder, Fresh
        <5>2. Way[s][s] - 1 = Way[s][c]
          <6>1. Way[s][s] = Way[s][c] + 1 /\ Way[s][c] \in Nat
            BY <1>f, <2>0, <2>4, <3>3
          <6> QED
            BY <6>1
        <5> QED
          BY <5>1, <5>2
      <4>5. ASSUME buf[p] = <<s, n>>
            PROVE  <<s, n>> \notin Come(s, Way[s][c] - 1) /\ \A j \in DOMAIN chan[c] : chan[c][j] # <<s, n>>
        <5>1. Way[s][c] \in Nat /\ Way[s][c] - 1 \in Nat /\ Way[s][c] - 1 <= Way[s][c]
          BY <1>f, <2>4, <3>3
        <5>2. Come(s, Way[s][c] - 1) \subseteq Come(s, Way[s][c])
          BY <1>t, <5>1, ComeFurther
        <5>3. Near(s, c, Way[s][c])
          BY <2>4, <3>3, <5>1 DEF Near
        <5>4. \A j \in DOMAIN chan[c] : chan[c][j] # <<s, n>>
          BY <1>n, <4>4, <4>5, <5>3 DEF Come
        <5> QED
          BY <4>4, <4>5, <5>2, <5>4
      <4>6. CASE buf[p] = <<s, n>>
        <5>1. \A j \in DOMAIN chan'[c] : chan'[c][j] = <<s, n>> => j = Len(chan[c]) + 1
          BY <1>1, <4>5, <4>6
        <5> QED
          BY <2>4, <3>1, <3>3, <4>5, <4>6, <5>1
      <4>7. CASE buf[p] # <<s, n>>
        <5>1. \A j \in DOMAIN chan'[c] : chan'[c][j] = <<s, n>> => j \in DOMAIN chan[c] /\ chan[c][j] = <<s, n>>
          BY <1>1, <4>7
        <5>2. /\ <<s, n>> \notin Come(s, Way[s][c] - 1)
              /\ \A j \in DOMAIN chan[c] : chan[c][j] = <<s, n>> => i = j
          BY <2>4, <3>3, <5>1 DEF InOrder, Fresh
        <5> QED
          BY <3>1, <3>3, <5>1, <5>2
      <4> QED
        BY <4>6, <4>7
    <3> QED
      BY <3>2, <3>3
  <2> QED
    BY <1>1, <2>3, <2>4 DEF Fresh, FromSource
<1> QED
  BY <1>5, <1>6, <1>7, <1>8, <1>9, <1>10 DEF InOrder

(* A write.                                                                *)
LEMMA WriteOrder ==
  ASSUME Base, NEW s \in SourcesOf(net), InOrder(s), NEW p, Write(p)
  PROVE  InOrder(s)'
<1>t. Typed
  BY DEF Base
<1>1. Running(p) /\ Step(p).op = "write" /\ UNCHANGED <<net, buf, trail, shown>>
  BY DEF Write, Calls
<1>2. /\ p \in Procs /\ Owner(p) = p /\ ~Racing(p) /\ Step(p).arg \in DOMAIN chan
      /\ Kind(Step(p).arg) = "pipe" /\ ~Denied(Step(p).arg)
  BY <1>t, <1>1, OrderFacts, StateFacts DEF StepOK
<1>c. PICK c : c = Step(p).arg
  OBVIOUS
<1>3. CASE Onward(p) /\ chan' = [chan EXCEPT ![c] = Append(@, buf[p])]
  <2>1. Moved(p) /\ ~InHand(p)'
    BY <1>t, <1>1, <1>3, OnwardFacts DEF Fills
  <2> QED
    BY <1>1, <1>2, <1>3, <1>c, <2>1, SendOrder
<1>4. CASE Dies(p) /\ UNCHANGED chan
  <2>1. Procs' = Procs /\ \A q \in Procs : (Idle(q)' => Idle(q)) /\ (InHand(q)' => InHand(q))
    BY <1>t, <1>1, <1>2, <1>4, DiesFacts DEF Idle, Running
  <2> QED
    BY <1>t, <1>1, <1>4, <2>1, StillOrder, SourceFacts
<1> QED
  BY <1>2, <1>3, <1>4, <1>c DEF Write

(* What is shown comes after what was shown.                               *)
LEMMA ShowOrder ==
  ASSUME Base, NEW s \in SourcesOf(net), InOrder(s), NEW p, Show(p)
  PROVE  InOrder(s)'
<1>t. Typed
  BY DEF Base
<1>1. /\ Moved(p) /\ Running(p) /\ Step(p).op = "show" /\ UNCHANGED <<net, buf, chan, trail>> /\ ~InHand(p)'
      /\ \A v \in Lines : shown'[v] > 0 <=> shown[v] > 0 \/ v = buf[Owner(p)]
  BY ShowBase DEF Show, Calls
<1>2. /\ p \in Procs /\ Owner(p) = p /\ On(s, p) /\ Way[s][p] = 1
      /\ \A x : On(s, x) => Way[s][x] \in Nat \ {0}
  BY <1>t, <1>1, OrderFacts DEF RouteOK
<1>n. \A n \in 1 .. MaxLines : <<s, n>> \in Lines /\ Needs(s, n) \subseteq Lines /\ Needs(s, n)' = Needs(s, n)
  BY <1>t, <1>1, NeedsFacts
<1>3. Procs' = Procs /\ \A c, i : Before(c, i)' = Before(c, i)
  BY <1>1 DEF Moved, Before
<1>4. \A v, k : v \in Come(s, k) => v \in Come(s, k)'
  BY <1>1, <1>3 DEF Come
<1>5. HeldInOrder(s)'
  BY <1>1, <1>3, <1>4, <1>n DEF InOrder, HeldInOrder
<1>6. SentInOrder(s)'
  BY <1>1, <1>3, <1>4, <1>n DEF InOrder, SentInOrder
<1>7. ShownInOrder(s)'
  <2>1. ASSUME NEW n \in 1 .. MaxLines, shown'[<<s, n>>] > 0, NEW w \in Needs(s, n)
        PROVE  shown'[w] > 0
    <3>2. shown[w] > 0
      <4>1. CASE shown[<<s, n>>] > 0
        BY <2>1, <4>1 DEF InOrder, ShownInOrder
      <4>2. CASE buf[p] = <<s, n>>
        <5>1. w \in Come(s, Way[s][p] - 1) /\ Way[s][p] - 1 = 0
          BY <1>2, <2>1, <4>2 DEF InOrder, HeldInOrder
        <5>2. \A x : ~Near(s, x, 0)
          BY <1>2 DEF Near
        <5> QED
          BY <5>1, <5>2 DEF Come
      <4> QED
        BY <1>1, <1>2, <1>n, <2>1, <4>1, <4>2
    <3> QED
      BY <1>1, <1>n, <2>1, <3>2
  <2> QED
    BY <1>n, <2>1 DEF ShownInOrder
<1>8. OnTheWay(s)'
  BY <1>1 DEF InOrder, OnTheWay
<1>9. PassedOn(s)'
  <2>1. ASSUME NEW q \in Procs, On(s, q), Idle(q)', buf[q] \in Lines
        PROVE  buf[q] \in Come(s, Way[s][q] - 1)'
    <3>1. CASE q # p
      <4>1. Idle(q)
        BY <1>1, <2>1, <3>1 DEF Idle, Moved, Running
      <4> QED
        BY <1>4, <1>1, <2>1, <4>1 DEF InOrder, PassedOn
    <3>2. CASE q = p
      <4>1. shown'[buf[q]] > 0
        BY <1>1, <1>2, <2>1, <3>2
      <4> QED
        BY <2>1, <4>1 DEF Come
    <3> QED
      BY <3>1, <3>2
  <2> QED
    BY <1>1, <1>3, <2>1 DEF PassedOn
<1>10. Fresh(s)'
  <2>0. /\ s \in Procs /\ On(s, s) /\ \A x : On(s, x) => Way[s][x] <= Way[s][s]
        /\ \A d \in DOMAIN chan : On(s, d) /\ FromSource(d) =>
             Way[s][s] = Way[s][d] + 1 /\ Way[s][d] - 1 \in Nat \ {0}
    BY <1>t, SourceFacts
  <2>1. \A k \in Nat \ {0} : Come(s, k)' \subseteq Come(s, k)
    <3>1. \A k \in Nat \ {0} : Near(s, p, k)
      BY <1>2 DEF Near
    <3> QED
      BY <1>1, <1>2, <1>3, <3>1 DEF Come
  <2>2. InHand(s)' => InHand(s) /\ s # p
    BY <1>1, <2>0 DEF Moved
  <2>3. s # p => Way[s][s] - 1 \in Nat \ {0}
    <3>1. s # p => Way[s][s] # 1
      BY <1>t, <1>2, <2>0, OrderFacts
    <3> QED
      BY <1>2, <2>0, <3>1
  <2>4. ASSUME NEW n \in 1 .. MaxLines, InHand(s)', buf[s] = <<s, n>>
        PROVE  <<s, n>> \notin Come(s, Way[s][s] - 1)'
    BY <2>1, <2>2, <2>3, <2>4 DEF InOrder, Fresh
  <2>5. \A d \in DOMAIN chan : On(s, d) /\ FromSource(d) => Come(s, Way[s][d] - 1)' \subseteq Come(s, Way[s][d] - 1)
    BY <2>0, <2>1
  <2> QED
    BY <1>1, <2>4, <2>5 DEF InOrder, Fresh, FromSource
<1> QED
  BY <1>5, <1>6, <1>7, <1>8, <1>9, <1>10 DEF InOrder

(* A stage that is started has nothing yet.                                *)
LEMMA ForkOrder ==
  ASSUME Base, OrderOK, NEW s \in SourcesOf(net), NEW p, Fork(p)
  PROVE  InOrder(s)'
<1>t. Typed
  BY DEF Base
<1>1. Running(p) /\ Step(p).op \in {"fork", "spawn"} /\ UNCHANGED <<net, buf, chan, trail, shown>> /\ (InHand(s)' => InHand(s))
  BY <1>t, ForkQuiet, SourceFacts DEF Fork, Calls, Quieter
<1>2. /\ p \in Procs /\ Owner(p) = p /\ InOrder(s) /\ at[p] = 1 /\ net = "upp"
      /\ <<p, Step(p).arg>> \in {<<"s1", "s2">>, <<"s2", "s3">>}
  BY <1>t, <1>1, OrderFacts DEF RouteOK, OrderOK
<1>3. CASE at' = [at EXCEPT ![Step(p).arg] = 1, ![p] = @ + 1]
  <2>1. /\ Procs' = Procs
        /\ \A q \in Procs \ {p, Step(p).arg} : at'[q] = at[q]
    BY <1>t, <1>1, <1>3, StartQuiet DEF Quieter
  <2>2. buf[Step(p).arg] \notin Lines
    BY <1>2 DEF OrderOK, UppStarts, Empty
  <2>3. Idle(p)
    BY <1>1 DEF Idle, InHand, Uses
  <2>4. \A q \in Procs \ {p, Step(p).arg} : Idle(q)' <=> Idle(q)
    BY <1>1, <2>1 DEF Idle, InHand, Running, Step, Prog
  <2> QED
    BY <1>t, <1>1, <1>2, <2>1, <2>2, <2>3, <2>4, StillOrder
<1>4. CASE Onward(p)
  <2>1. Moved(p) /\ Idle(p)
    BY <1>t, <1>1, <1>4, OnwardFacts DEF Idle, InHand, Uses
  <2>2. \A q \in Procs : Idle(q)' => Idle(q)
    BY <2>1 DEF Idle, Moved, Running
  <2> QED
    BY <1>t, <1>1, <1>2, <2>1, <2>2, StillOrder DEF Moved
<1>5. CASE Dies(p)
  <2>1. Procs' = Procs /\ \A q \in Procs : Idle(q)' => Idle(q)
    BY <1>t, <1>1, <1>2, <1>5, DiesFacts DEF Idle, Running
  <2> QED
    BY <1>t, <1>1, <1>2, <2>1, StillOrder
<1> QED
  BY <1>3, <1>4, <1>5 DEF Fork

(* Every step keeps the order of a source's lines.                         *)
LEMMA InOrderNext ==
  ASSUME Base, OrderOK, [Next]_vars, NEW s \in SourcesOf(net)
  PROVE  InOrder(s)'
<1>t. Typed /\ InOrder(s)
  BY DEF Base, OrderOK
<1>1. ASSUME NEW p, Wait(p) \/ Msgget(p) \/ Select(p) \/ IsSet(p) PROVE InOrder(s)'
  <2>1. /\ Running(p) /\ Step(p).op \in {"wait", "msgget", "select", "isset"} /\ p \in Procs
        /\ UNCHANGED <<net, buf, chan, trail, shown>> /\ (InHand(s)' => InHand(s))
    BY <1>t, <1>1, StateFacts, OtherBase, SourceFacts DEF Quieter, Wait, Msgget, Select, IsSet, Calls
  <2>2. Moved(p)
    BY <1>t, <1>1, <2>1, OnwardFacts, IsSetQuiet DEF Wait, Msgget, Select
  <2>3. Idle(p)
    BY <2>1 DEF Idle, InHand, Uses
  <2>4. \A q \in Procs : Idle(q)' => Idle(q)
    BY <2>2, <2>3 DEF Idle, Moved, Running
  <2> QED
    BY <1>t, <2>1, <2>2, <2>4, StillOrder DEF Moved
<1>2. ASSUME NEW p, Set(p) PROVE InOrder(s)'
  BY <1>2, <1>t, OrderFacts DEF RouteOK, Set, Calls
<1>3. ASSUME NEW p \in Procs, Kill(p) PROVE InOrder(s)'
  <2>1. Dies(p) /\ UNCHANGED <<net, buf, chan, trail, shown>> /\ (InHand(s)' => InHand(s))
    BY <1>3, <1>t, OtherBase, SourceFacts DEF Kill, Quieter
  <2>2. Procs' = Procs /\ \A q \in Procs : Idle(q)' => Idle(q)
    BY <1>t, <2>1, OrderFacts, DiesFacts DEF Idle, Running
  <2> QED
    BY <1>t, <2>1, <2>2, StillOrder
<1>4. ASSUME NEW p, Restart(p) PROVE InOrder(s)'
  BY <1>4, <1>t, OrderFacts DEF Restart
<1>5. CASE UNCHANGED vars
  BY <1>5, <1>t, StillOrder DEF vars, Procs, Idle, InHand, Running, Step, Prog
<1>6. ASSUME NEW p, Proceed(p) PROVE InOrder(s)'
  BY <1>6, <1>t, <1>1, <1>2, TypeOrder, ReadOrder, WriteOrder, ShowOrder, ForkOrder DEF Proceed
<1> QED
  BY <1>3, <1>4, <1>5, <1>6 DEF Next

(* A stage that has spawned the next one does not come back to that.       *)
LEMMA UppStartsNext ==
  ASSUME Base, OrderOK, [Next]_vars, net = "upp"
  PROVE  UppStarts'
<1>t. Typed /\ UppStarts /\ "user" \in SourcesOf(net) /\ {"s1", "s2", "s3"} \subseteq Procs /\ {"s1", "s2", "s3"} \subseteq OwnersOf(net)
  <2>1. Procs = {"user", "s1", "s2", "s3"} /\ Typed
    BY StateFacts, UppIs DEF Base
  <2>2. \A p \in Procs : p \in OwnersOf(net)
    BY <2>1, StateFacts, Alone
  <2> QED
    BY <2>1, <2>2 DEF OrderOK, SourcesOf
<1>k. ASSUME \A q \in {"s1", "s2"} : at'[q] = 1 => at[q] = 1,
             \A q \in {"s2", "s3"} : at[q] = 0 => at'[q] = 0 /\ buf'[q] = buf[q]
      PROVE  UppStarts'
  BY <1>k, <1>t DEF UppStarts, Empty
<1>1. ASSUME NEW p, Running(p), Onward(p), net' = net, \A q \in OwnersOf(net) : q # p => buf'[q] = buf[q]
      PROVE  UppStarts'
  <2>1. Moved(p) /\ at'[p] = StepAt(net, p, at[p] + 1) /\ at[p] # 0
    BY <1>t, <1>1, OnwardFacts DEF Running
  <2>2. p \in {"s1", "s2"} => at'[p] # 1
    BY <1>t, <1>1, <2>1, OrderFacts DEF RouteOK
  <2> QED
    BY <1>k, <1>t, <1>1, <2>1, <2>2 DEF Moved
<1>2. ASSUME NEW p \in Procs, Dies(p), net' = net, buf' = buf PROVE UppStarts'
  <2>1. \A q \in Procs : at'[q] \in {0, at[q]}
    BY <1>t, <1>2, DiesFacts
  <2>2. \A q \in Procs : at'[q] = 1 => at[q] = 1
    BY <2>1
  <2>3. \A q \in Procs : at[q] = 0 => at'[q] = 0
    BY <2>1
  <2> QED
    BY <1>k, <1>t, <1>2, <2>2, <2>3
<1>3. ASSUME NEW p, Fork(p) PROVE UppStarts'
  <2>1. /\ Running(p) /\ p \in Procs /\ Step(p).op \in {"fork", "spawn"} /\ UNCHANGED <<net, buf>>
        /\ at[p] = 1 /\ <<p, Step(p).arg>> \in {<<"s1", "s2">>, <<"s2", "s3">>}
    BY <1>t, <1>3, OrderFacts DEF Fork, Calls, RouteOK
  <2>2. CASE at' = [at EXCEPT ![Step(p).arg] = 1, ![p] = @ + 1]
    <3>1. /\ at'[Step(p).arg] = 1 /\ at'[p] = 2
          /\ \A q \in Procs \ {p, Step(p).arg} : at'[q] = at[q]
      <4>1. /\ at'[Step(p).arg] = 1 /\ at'[p] = at[p] + 1
            /\ \A q \in Procs \ {p, Step(p).arg} : at'[q] = at[q]
        BY <1>t, <2>1, <2>2, StartQuiet
      <4> QED
        BY <2>1, <4>1
    <3>2. CASE p = "s1" /\ Step(p).arg = "s2"
      BY <1>t, <2>1, <3>1, <3>2 DEF UppStarts, Empty
    <3>3. CASE p = "s2" /\ Step(p).arg = "s3"
      BY <1>t, <2>1, <3>1, <3>3 DEF UppStarts, Empty
    <3> QED
      BY <2>1, <3>2, <3>3
  <2> QED
    BY <1>1, <1>2, <1>3, <2>1, <2>2 DEF Fork
<1>4. ASSUME NEW p, Type(p) \/ Set(p) \/ Read(p) \/ Write(p) \/ Show(p) \/ Wait(p) \/ Msgget(p) \/ Select(p)
      PROVE  UppStarts'
  <2>1. /\ Running(p) /\ p \in Procs /\ Owner(p) = p /\ net' = net
    BY <1>t, <1>4, OrderFacts DEF Type, Set, Read, Write, Show, Wait, Msgget, Select, Calls
  <2>2. Onward(p) \/ (Dies(p) /\ buf' = buf)
    BY <1>4 DEF Type, Set, Read, Write, Show, Wait, Msgget, Select
  <2>3. \A q \in OwnersOf(net) : q # p => buf'[q] = buf[q]
    <3>1. \/ buf' = buf \/ buf' = [buf EXCEPT ![p][2] = @ + 1] \/ \E v : buf' = [buf EXCEPT ![p] = v]
      BY <1>4, <2>1 DEF Type, Set, Read, Write, Show, Wait, Msgget, Select
    <3>2. DOMAIN buf = OwnersOf(net)
      BY <1>t DEF Typed, BufOK
    <3> QED
      BY <3>1, <3>2
  <2> QED
    BY <1>1, <1>2, <2>1, <2>2, <2>3
<1>5. ASSUME NEW p, IsSet(p) PROVE UppStarts'
  BY <1>t, <1>5, OrderFacts DEF IsSet, Calls, RouteOK
<1>6. ASSUME NEW p \in Procs, Kill(p) PROVE UppStarts'
  BY <1>2, <1>6 DEF Kill
<1>7. ASSUME NEW p, Restart(p) PROVE UppStarts'
  BY <1>7 DEF Restart
<1>8. CASE UNCHANGED vars
  BY <1>k, <1>8 DEF vars
<1>9. ASSUME NEW p, Proceed(p) PROVE UppStarts'
  BY <1>9, <1>3, <1>4, <1>5 DEF Proceed
<1> QED
  BY <1>6, <1>7, <1>8, <1>9 DEF Next

-----------------------------------------------------------------------------
(* The invariant.                                                          *)

(* The invariant holds at the start.                                       *)
LEMMA InvariantInit ==
  ASSUME Init
  PROVE  IInv
<1>1. /\ net \in DOMAIN Nets /\ Procs = DOMAIN Nets[net].prog
      /\ at = [p \in DOMAIN Nets[net].prog |-> IF p \in Children THEN 0 ELSE 1]
      /\ DOMAIN chan = DOMAIN Nets[net].chan /\ \A c \in DOMAIN chan : chan[c] = <<>>
      /\ buf = [p \in OwnersOf(net) |-> <<p, 0>>]
      /\ \A v \in Lines : shown[v] = 0 /\ trail[v] = {}
      /\ \A p \in Procs : ProgramOK(net, p)
  BY Programs DEF Init, OwnersOf, Procs
<1>2. AtOK
  <2>1. ASSUME NEW k \in 1 .. 7 PROVE 0 <= k /\ 1 <= k
    OBVIOUS
  <2>2. \A p \in Procs : Len(Nets[net].prog[p].steps) \in 1 .. 7
    BY <1>1 DEF ProgramOK, StepsOf
  <2>3. \A p \in Procs : at[p] \in {0, 1}
    BY <1>1
  <2>4. \A p \in Procs : at[p] <= Len(Nets[net].prog[p].steps)
    BY <2>1, <2>2, <2>3
  <2>5. at \in [DOMAIN Nets[net].prog -> 0 .. 7]
    <3>1. at \in [DOMAIN Nets[net].prog -> {0, 1}]
      BY <1>1
    <3> QED
      BY <3>1
  <2>6. DOMAIN at = DOMAIN Nets[net].prog
    BY <1>1
  <2> QED
    BY <1>1, <2>4, <2>5, <2>6 DEF AtOK
<1>3. BufOK
  BY <1>1, BoundsAssumption DEF BufOK, ValuesOf
<1>4. \A c \in DOMAIN chan : chan[c] \in Seq(ValuesOf(net)) /\ Len(chan[c]) = 0 /\ DOMAIN chan[c] = {}
  BY <1>1, EmptySeq, LenProperties, DOMAIN <<>> = {}
<1>5. ChanOK
  BY <1>1, <1>4, BoundsAssumption DEF ChanOK, Init
<1>6. Messages = {} /\ IsFiniteSet(Messages) /\ Queued = 0
  <2>1. Messages = {}
    BY <1>4 DEF Messages
  <2> QED
    BY <2>1, FS_EmptySet DEF Queued
<1>7. QueueOK
  BY <1>6, BoundsAssumption DEF QueueOK, QueueCap
<1>8. RestOK
  <2>1. shown \in [Lines -> 0 .. 2] /\ trail \in [Lines -> SUBSET Lines]
    BY DEF Init
  <2>2. kills \in 0 .. MaxKills
    BY CountsAssumption DEF Init
  <2>3. rset = {} /\ reset = {} /\ mode = "none" /\ stale = FALSE
    BY DEF Init
  <2> QED
    BY <2>1, <2>2, <2>3 DEF RestOK
<1>9. Typed
  BY <1>1, <1>2, <1>3, <1>5, <1>7, <1>8 DEF Typed
<1>10. \A p : ~InHand(p)
  <2>1. \A p \in Procs : at[p] = 0 \/ at[p] = 1
    BY <1>1
  <2> QED
    BY <1>1, <1>9, <2>1, HandIs DEF ProgramOK, Using, InHand, Running
<1>11. \A p \in OwnersOf(net) : buf[p] \notin Lines
  BY <1>1 DEF Lines
<1>12. \A p \in Procs : Owner(p) \in OwnersOf(net)
  BY <1>9, StateFacts
<1>13. Known
  BY <1>1, <1>4, <1>11, <1>12 DEF Known, WasTyped
<1>14. Unique
  BY <1>1, <1>4, <1>10 DEF Unique, OneHand, OnePlace, HandOrChan, ShownGone
<1>15. ASSUME NEW s \in SourcesOf(net) PROVE InOrder(s)
  <2>1. \A n \in 1 .. MaxLines : <<s, n>> \in Lines
    BY <1>9, OrderFacts DEF Lines
  <2>2. \A p \in Procs : buf[p] \notin Lines
    BY <1>9, <1>11, <1>12, OrderFacts
  <2>3. HeldInOrder(s) /\ PassedOn(s)
    BY <2>1, <2>2 DEF HeldInOrder, PassedOn
  <2>4. SentInOrder(s) /\ OnTheWay(s)
    BY <1>4 DEF SentInOrder, OnTheWay
  <2>5. ShownInOrder(s)
    BY <1>1, <2>1 DEF ShownInOrder
  <2>6. Fresh(s)
    BY <1>4, <1>10 DEF Fresh
  <2> QED
    BY <2>3, <2>4, <2>5, <2>6 DEF InOrder
<1>16. ASSUME net = "upp" PROVE UppStarts
  <2>1. {"s2", "s3"} \subseteq Procs /\ \A p \in {"s2", "s3"} : Owner(p) = p
    BY <1>1, <1>9, <1>16, UppIs, Alone
  <2>2. Empty("s2") /\ Empty("s3")
    BY <1>1, <1>11, <1>12, <2>1 DEF Empty, Children
  <2> QED
    BY <2>2 DEF UppStarts
<1>17. ASSUME net = "ring" PROVE RingOK
  <2>1. Cardinality(Waiting) \in Nat /\ kills \in Nat
    BY <1>9, <1>17, RingFacts
  <2>2. 0 <= Cardinality(Waiting) + kills /\ mode # "066"
    BY <2>1 DEF Init
  <2> QED
    BY <1>6, <2>2 DEF RingOK
<1> QED
  BY <1>9, <1>13, <1>14, <1>15, <1>16, <1>17 DEF IInv, OrderOK, RingOK

(* Every step keeps it.                                                    *)
LEMMA InvariantNext ==
  ASSUME IInv, [Next]_vars
  PROVE  IInv'
<1>1. Base /\ OrderOK /\ RingOK
  BY DEF IInv, Base
<1>2. Base' /\ RingOK'
  BY <1>1, BaseNext, RingNext
<1>3. net' = net
  BY DEF Next, Proceed, Type, Set, Read, Write, Show, Fork, Wait, Msgget, Select, IsSet, Kill, Restart, vars
<1>4. \A s \in SourcesOf(net) : InOrder(s)'
  BY <1>1, InOrderNext
<1>5. OrderOK'
  BY <1>1, <1>3, <1>4, UppStartsNext DEF OrderOK
<1> QED
  BY <1>2, <1>5 DEF IInv, Base

(* The invariant holds in every reachable state.                           *)
LEMMA Invariant == Spec => []IInv
<1>1. Init => IInv
  BY InvariantInit
<1>2. IInv /\ [Next]_vars => IInv'
  BY InvariantNext
<1> QED
  BY <1>1, <1>2, PTL DEF Spec

(* What the invariant says of the types.                                   *)
LEMMA TypedIsTypeOK ==
  ASSUME Typed
  PROVE  TypeOK
<1>1. Procs = DOMAIN Nets[net].prog /\ at \in [Procs -> 0 .. 7] /\ \A p \in Procs : at[p] <= Len(Prog(p).steps)
  BY StateFacts DEF Typed, AtOK, Prog
<1>2. {Owner(p) : p \in Procs} = OwnersOf(net)
  BY <1>1 DEF OwnersOf, Owner, Prog
<1>3. Values = ValuesOf(net)
  BY <1>2 DEF Values, ValuesOf
<1>4. buf \in [{Owner(p) : p \in Procs} -> Values]
  BY <1>2, <1>3 DEF Typed, BufOK
<1>5. \A c \in DOMAIN chan : chan[c] \in Seq(Values) /\ (Kind(c) # "queue" => Len(chan[c]) <= PipeCap)
  BY <1>3 DEF Typed, ChanOK
<1> QED
  BY <1>1, <1>4, <1>5 DEF Typed, QueueOK, RestOK, TypeOK

(* What it says of the lines that were shown.                              *)
LEMMA InvariantIsFaithful ==
  ASSUME IInv
  PROVE  Faithful
<1>1. Typed /\ shown \in [Lines -> 0 .. 2]
  BY DEF IInv, Typed, RestOK
<1>2. ASSUME ~stale, NEW v \in Lines PROVE shown[v] <= 1
  <2>1. shown[v] > 0 => shown[v] = 1
    BY <1>2 DEF IInv, Unique, ShownGone
  <2> QED
    BY <1>1, <2>1
<1>3. ASSUME net # "chat", NEW v \in Lines, shown[v] > 0
      PROVE  /\ \A n \in 1 .. v[2] : shown[<<v[1], n>>] > 0
             /\ \A w \in trail[v] : shown[w] > 0
  <2>1. v[1] \in Sources /\ v[2] \in 1 .. MaxLines /\ v = <<v[1], v[2]>>
    BY DEF Lines
  <2>2. v[1] \in OwnersOf(net)
    BY <1>1, <1>3 DEF IInv, Known, WasTyped, Typed, BufOK
  <2>3. v[1] \in SourcesOf(net)
    BY <1>1, <1>3, <2>1, <2>2, SourcesAre DEF Typed
  <2>4. \A w \in Needs(v[1], v[2]) : shown[w] > 0
    BY <1>3, <2>1, <2>3 DEF IInv, OrderOK, InOrder, ShownInOrder
  <2>5. \A n \in 1 .. v[2] : n = v[2] \/ n \in 1 .. v[2] - 1
    BY <2>1
  <2> QED
    BY <1>3, <2>1, <2>4, <2>5 DEF Needs
<1> QED
  BY <1>2, <1>3 DEF Faithful

(* What it says of the queue of p123.                                      *)
LEMMA InvariantIsLeftOver ==
  ASSUME IInv
  PROVE  LeftOver
<1> SUFFICES ASSUME net = "ring" PROVE Queued <= Cardinality(Procs) + kills
  BY DEF LeftOver
<1>1. /\ IsFiniteSet(Procs) /\ Waiting \subseteq Procs /\ Cardinality(Waiting) \in Nat
      /\ Queued \in Nat /\ kills \in Nat
  BY RingFacts DEF IInv
<1>2. Cardinality(Procs) \in Nat /\ Cardinality(Waiting) <= Cardinality(Procs)
  BY <1>1, FS_CardinalityType, FS_Subset
<1>3. Queued <= Cardinality(Waiting) + kills
  BY DEF IInv, RingOK
<1> QED
  BY <1>1, <1>2, <1>3

(* The types are right in every reachable state, for pipes and queues of   *)
(* any size.                                                               *)
THEOREM TypeCorrect == Spec => []TypeOK
<1>1. IInv => TypeOK
  BY TypedIsTypeOK DEF IInv
<1> QED
  BY <1>1, Invariant, PTL

(* No line is read and shown twice before a buffer was used that its read  *)
(* had not filled; what comes through the pipes comes in order; and the    *)
(* end of a longer line that a short read leaves in the buffer, and the    *)
(* loop sends on, is of a line that was shown before (upp.c:20-34,         *)
(* sel.c:39-47).                                                           *)
THEOREM FaithfulDelivery == Spec => []Faithful
<1>1. IInv => Faithful
  BY InvariantIsFaithful
<1> QED
  BY <1>1, Invariant, PTL

(* p123 leaves at most a message for each process, and one for each kill   *)
(* (p123/main.c:26-33).                                                    *)
THEOREM FewLeftOver == Spec => []LeftOver
<1>1. IInv => LeftOver
  BY InvariantIsLeftOver
<1> QED
  BY <1>1, Invariant, PTL
=============================================================================
