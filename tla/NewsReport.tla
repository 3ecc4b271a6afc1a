----------------------------- MODULE NewsReport -----------------------------
(***************************************************************************)
(* src/mids/news_report: reporters write what they are told into FIFOs, an *)
(* editor forwards it to a document writer (another FIFO) or to a System V *)
(* message queue, and two readers and an advertiser take it from there.    *)
(* The readers share the screen under a flag in shared memory.             *)
(*                                                                         *)
(* A FIFO is a stream of bytes: each read takes up to 20 of them, whatever *)
(* the writes were.  A byte is a cell: the message it belongs to and its   *)
(* position; the last position is the '\0'.  What matters of a message is  *)
(* its kind -- "/d...", "/a...", ".pNNNN", anything else -- and its size.  *)
(* A kind is told by the first two bytes; the rest of a message that was   *)
(* cut in two is taken for news (nobody types "x/dx").                     *)
(***************************************************************************)
EXTENDS Integers, Sequences, FiniteSets

CONSTANTS
  NReporters,   \* 3 in the code, fd1 to fd3
  Messages,     \* records [kind, size], size counts the '\0'
  ReadSize,     \* 20, of read(fd, buff, 20)
  FifoCap,      \* bytes a reporter's FIFO holds
  DocCap,       \* bytes the document writer's FIFO holds
  QueueCap,     \* messages the queue holds
  ScreenCap,    \* writes the screen FIFO holds
  MaxCalls,     \* bound: connections waiting at the telecaster
  PtrType,      \* the address of read_flag, as a message type
  Nobody        \* a connection whose reader was killed

Reporters == 1 .. NReporters
Readers   == {1, 2}
Kinds     == {"news", "doc", "advert", "port"}

ASSUME SizesAssumption ==
  /\ NReporters \in Nat /\ ReadSize \in Nat \ {0} /\ QueueCap \in Nat \ {0}
  /\ Messages \subseteq [kind : Kinds, size : 2 .. ReadSize]
  /\ {FifoCap, DocCap} \subseteq Nat /\ ScreenCap \in Nat /\ MaxCalls \in Nat
ASSUME TypesAssumption ==
  /\ PtrType \in Int \ {0, 1, 2}
  /\ Nobody \notin Readers

VARIABLES
  fifo,      \* fifo_rep_1 .. fifo_rep_3
  chunk,     \* the bytes the editor has read and not forwarded yet
  doc,       \* fifo_doc_1
  queue,     \* the message queue: [type, text], text being its first cell
  lastType,  \* history: the type of the last news the editor sent
  reader,    \* where each reader is
  text,      \* the message it has received
  flag,      \* the shared memory
  screen,    \* writes waiting in fifo_screen
  calls,     \* the connections at the telecaster; it serves the first
  onAir      \* the telecaster has accepted and waits for its operator

editorVars == <<fifo, chunk, doc, lastType>>
readerVars == <<reader, text, flag, screen>>
castVars   == <<calls, onAir>>
vars == <<editorVars, queue, readerVars, castVars>>

Cells      == {c \in [msg : Messages, pos : 1 .. ReadSize] : c.pos <= c.msg.size}
IsEnd(c)   == c.pos = c.msg.size
Kind(c)    == IF c.pos = 1 THEN c.msg.kind ELSE "news"
Bytes(m)   == [i \in 1 .. m.size |-> [msg |-> m, pos |-> i]]
Least(a,b) == IF a <= b THEN a ELSE b
NoText     == [type |-> 0]
Places     == {"off", "recv", "spin", "set", "write", "connect", "relay", "clear"}

Init ==
  /\ fifo = [r \in Reporters |-> <<>>]
  /\ chunk = <<>> /\ doc = <<>> /\ queue = <<>> /\ lastType = 0
  /\ reader = [d \in Readers |-> "off"]
  /\ text = [d \in Readers |-> NoText]
  /\ flag \in {0, 1}          \* the segment survives earlier runs
  /\ screen = 0
  /\ calls = <<>> /\ onAir = FALSE

-----------------------------------------------------------------------------
(* Mutant: the '\0' is not sent.                                           *)
ReportUnterminated(r) ==
  /\ \E m \in Messages :
       /\ Len(fifo[r]) + m.size <= FifoCap
       /\ fifo' = [fifo EXCEPT ![r] = @ \o SubSeq(Bytes(m), 1, m.size - 1)]
  /\ UNCHANGED <<chunk, doc, lastType, queue, readerVars, castVars>>

(* The reporters: scanf, write(fd, buff, strlen(buff)+1).                  *)
Report(r) ==
  /\ \E m \in Messages :
       /\ Len(fifo[r]) + m.size <= FifoCap
       /\ fifo' = [fifo EXCEPT ![r] = @ \o Bytes(m)]
  /\ UNCHANGED <<chunk, doc, lastType, queue, readerVars, castVars>>

-----------------------------------------------------------------------------
(* The editor.  The lowest reporter with something to read is served;      *)
(* read(fd, buff, 20) takes what is there.                                 *)
EditorRead(r) ==
  /\ chunk = <<>>
  /\ fifo[r] # <<>>
  /\ \A q \in 1 .. r - 1 : fifo[q] = <<>>
  /\ LET n == Least(ReadSize, Len(fifo[r])) IN
       /\ chunk' = SubSeq(fifo[r], 1, n)
       /\ fifo' = [fifo EXCEPT ![r] = SubSeq(@, n + 1, Len(@))]
  /\ UNCHANGED <<doc, lastType, queue, readerVars, castVars>>

(* "/d": all n bytes of the chunk go to the document writer.               *)
EditorDoc ==
  /\ chunk # <<>> /\ Kind(Head(chunk)) = "doc"
  /\ Len(doc) + Len(chunk) <= DocCap
  /\ doc' = doc \o chunk
  /\ chunk' = <<>>
  /\ UNCHANGED <<fifo, lastType, queue, readerVars, castVars>>

(* Otherwise strcpy takes the chunk up to its first '\0'; what was read    *)
(* behind it is gone.  msgsnd blocks while the queue is full.              *)
Enqueue(type) ==
  /\ Len(queue) < QueueCap
  /\ queue' = Append(queue, [type |-> type, text |-> Head(chunk)])
  /\ chunk' = <<>>

EditorAdvert ==
  /\ chunk # <<>> /\ Kind(Head(chunk)) = "advert"
  /\ Enqueue(2)
  /\ UNCHANGED <<fifo, doc, lastType, readerVars, castVars>>

(* Mutant: read_flag is dereferenced for the type, and never changed.      *)
EditorNewsTypeZero ==
  /\ chunk # <<>> /\ Kind(Head(chunk)) \in {"news", "port"}
  /\ Enqueue(0)
  /\ UNCHANGED <<fifo, doc, lastType, readerVars, castVars>>

(* Mutant: some news is sent to reader2.                                   *)
EditorNewsToBoth ==
  /\ chunk # <<>> /\ Kind(Head(chunk)) \in {"news", "port"}
  /\ \E type \in {1, PtrType} : Enqueue(type) /\ lastType' = type
  /\ UNCHANGED <<fifo, doc, readerVars, castVars>>

(* The type is the pointer itself, and it is the pointer, a parameter of   *)
(* read_writefd, that is set to 1 or 0 afterwards.                         *)
EditorNews ==
  /\ chunk # <<>> /\ Kind(Head(chunk)) \in {"news", "port"}
  /\ Enqueue(PtrType)
  /\ lastType' = PtrType
  /\ UNCHANGED <<fifo, doc, readerVars, castVars>>

Editor == (\E r \in Reporters : EditorRead(r)) \/ EditorDoc \/ EditorAdvert \/ EditorNews

-----------------------------------------------------------------------------
(* The document writer and the advertiser.                                 *)
DocumentRead ==
  /\ doc # <<>>
  /\ doc' = SubSeq(doc, Least(ReadSize, Len(doc)) + 1, Len(doc))
  /\ UNCHANGED <<fifo, chunk, lastType, queue, readerVars, castVars>>

(* msgrcv returns the first message of the type, of any type if it is 0.   *)
Matches(i, type) == type = 0 \/ queue[i].type = type
First(i, type) ==
  Matches(i, type) /\ \A j \in 1 .. i - 1 : ~Matches(j, type)
Without(q, i) == SubSeq(q, 1, i - 1) \o SubSeq(q, i + 1, Len(q))

AdvertReceive ==
  /\ \E i \in DOMAIN queue : First(i, 2) /\ queue' = Without(queue, i)
  /\ UNCHANGED <<editorVars, readerVars, castVars>>

-----------------------------------------------------------------------------
(* The readers.  Either may be killed at any point and started again; a    *)
(* start clears the flag.                                                  *)
Goto(d, place) == reader' = [reader EXCEPT ![d] = place]

(* Mutant: a start leaves the flag as it is.                               *)
ReaderStartKeepsFlag(d) ==
  /\ reader[d] = "off"
  /\ Goto(d, "recv")
  /\ UNCHANGED <<editorVars, queue, text, flag, screen, castVars>>

ReaderStart(d) ==
  /\ reader[d] = "off"
  /\ flag' = 0
  /\ Goto(d, "recv")
  /\ UNCHANGED <<editorVars, queue, text, screen, castVars>>

ReaderKilled(d) ==
  /\ reader[d] # "off"
  /\ Goto(d, "off")
  /\ text' = [text EXCEPT ![d] = NoText]
  /\ calls' = [i \in DOMAIN calls |-> IF calls[i] = d THEN Nobody ELSE calls[i]]
  /\ UNCHANGED <<editorVars, queue, flag, screen, onAir>>

(* reader1 asks for type 0, reader2 for type 1.                            *)
Wanted(d) == IF d = 1 THEN 0 ELSE 1

Receive(d) ==
  /\ reader[d] = "recv"
  /\ \E i \in DOMAIN queue :
       /\ First(i, Wanted(d))
       /\ text' = [text EXCEPT ![d] = queue[i]]
       /\ queue' = Without(queue, i)
  /\ Goto(d, "spin")
  /\ UNCHANGED <<editorVars, flag, screen, castVars>>

(* Wait until the flag is not 1, then set it: a test and a store.          *)
Spin(d) ==
  /\ reader[d] = "spin"
  /\ flag # 1
  /\ Goto(d, "set")
  /\ UNCHANGED <<editorVars, queue, text, flag, screen, castVars>>

Set(d) ==
  /\ reader[d] = "set"
  /\ flag' = 1
  /\ Goto(d, IF Kind(text[d].text) = "port" THEN "connect" ELSE "write")
  /\ UNCHANGED <<editorVars, queue, text, screen, castVars>>

Write(d) ==
  /\ reader[d] = "write"
  /\ screen < ScreenCap
  /\ screen' = screen + 1
  /\ Goto(d, "clear")
  /\ UNCHANGED <<editorVars, queue, text, flag, castVars>>

(* The port is whatever follows ".p": a telecaster may listen there.  If   *)
(* not, the read fails too and the loop is not entered.                    *)
Connect(d) ==
  /\ reader[d] = "connect"
  /\ \/ /\ Len(calls) < MaxCalls
        /\ calls' = Append(calls, d)
        /\ Goto(d, "relay")
     \/ /\ Goto(d, "clear")
        /\ UNCHANGED calls
  /\ UNCHANGED <<editorVars, queue, text, flag, screen, onAir>>

(* The telecaster has written its line and closed: read it, show it, read  *)
(* the end of file, close.                                                 *)
Relay(d) ==
  /\ reader[d] = "relay"
  /\ \A i \in DOMAIN calls : calls[i] # d
  /\ screen < ScreenCap
  /\ screen' = screen + 1
  /\ Goto(d, "clear")
  /\ UNCHANGED <<editorVars, queue, text, flag, castVars>>

Clear(d) ==
  /\ reader[d] = "clear"
  /\ flag' = 0
  /\ text' = [text EXCEPT ![d] = NoText]
  /\ Goto(d, "recv")
  /\ UNCHANGED <<editorVars, queue, screen, castVars>>

Reader(d) == Receive(d) \/ Spin(d) \/ Set(d) \/ Write(d) \/ Connect(d) \/ Relay(d) \/ Clear(d)

(* The screen reads 20 bytes: one write or several short ones.             *)
ScreenRead ==
  /\ \E n \in 1 .. screen : screen' = screen - n
  /\ UNCHANGED <<editorVars, queue, reader, text, flag, castVars>>

-----------------------------------------------------------------------------
(* The telecaster: accept, scanf, write, close.                            *)
TelecastAccept ==
  /\ ~onAir /\ calls # <<>>
  /\ onAir' = TRUE
  /\ UNCHANGED <<editorVars, queue, readerVars, calls>>

TelecastType ==
  /\ onAir
  /\ calls' = Tail(calls)
  /\ onAir' = FALSE
  /\ UNCHANGED <<editorVars, queue, readerVars>>

-----------------------------------------------------------------------------
Next ==
  \/ \E r \in Reporters : Report(r)
  \/ Editor
  \/ DocumentRead \/ AdvertReceive \/ ScreenRead
  \/ \E d \in Readers : Reader(d) \/ ReaderStart(d) \/ ReaderKilled(d)
  \/ TelecastAccept \/ TelecastType

Spec == Init /\ [][Next]_vars

(* The programs run; the people at the keyboards need not type, and nobody *)
(* has to start or kill a reader.                                          *)
Fairness ==
  /\ WF_vars(Editor) /\ WF_vars(DocumentRead) /\ WF_vars(AdvertReceive)
  /\ WF_vars(ScreenRead) /\ WF_vars(TelecastAccept)
  /\ \A d \in Readers : WF_vars(Reader(d))

FairSpec == Spec /\ Fairness

-----------------------------------------------------------------------------
(***************************************************************************)
(* Properties                                                              *)
(***************************************************************************)

TypeOK ==
  /\ fifo \in [Reporters -> Seq(Cells)]
  /\ chunk \in Seq(Cells) /\ doc \in Seq(Cells)
  /\ queue \in Seq([type : {2, PtrType}, text : Cells])
  /\ lastType \in {0, PtrType}
  /\ reader \in [Readers -> Places]
  /\ text \in [Readers -> {NoText} \cup [type : {2, PtrType}, text : Cells]]
  /\ flag \in {0, 1} /\ screen \in 0 .. ScreenCap
  /\ calls \in Seq(Readers \cup {Nobody}) /\ onAir \in BOOLEAN

(* The next read of the stream s returns a '\0'.                           *)
Terminated(s) == \E i \in 1 .. Least(ReadSize, Len(s)) : IsEnd(s[i])

(* Whatever the next read of a reporter's FIFO returns, and what the       *)
(* editor has read of one, contains a '\0': strcpy and printf stay inside  *)
(* buff although reads cut messages in two (editor.c:36,38,50,56).         *)
ChunkTerminated ==
  /\ \A r \in Reporters : fifo[r] # <<>> => Terminated(fifo[r])
  /\ chunk # <<>> => Terminated(chunk)

(* The two readers are never at the screen together, killed and restarted  *)
(* at any point (reader1.c:63,96, reader2.c:65,96).  The flag, tested      *)
(* and then set, does not ensure this.                                     *)
ScreenMutex ==
  Cardinality({d \in Readers : reader[d] \in {"write", "connect", "relay", "clear"}}) <= 1

(* A full queue is drained as long as reader1 runs and no telecast waits   *)
(* for its operator: nothing a killed reader leaves behind stops the       *)
(* editor for good (editor.c:51,59,61, reader1.c:56,63,96).                *)
EditorUnblocks ==
  chunk # <<>> ~> (chunk = <<>> \/ reader[1] = "off" \/ onAir)

(* editor.c:40: what starts with "/d" goes to the document writer.         *)
DocReachesDocument ==
  [][\A c \in Cells :
       c.pos = 1 /\ c.msg.kind = "doc" /\ chunk # <<>> /\ chunk' = <<>>
         => Cardinality({i \in DOMAIN chunk : chunk[i] = c})
            <= Cardinality({i \in DOMAIN doc' : doc'[i] = c})]_vars

(* editor.c:57: consecutive news items alternate between the readers.      *)
AlternatesReaders == [][EditorNews => lastType' # lastType]_vars
=============================================================================
