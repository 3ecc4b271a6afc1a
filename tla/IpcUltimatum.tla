----------------------------- MODULE IpcUltimatum -----------------------------
(***************************************************************************)
(* src/socket_rev/ipc_ultimatum.  Two reporters write words into a FIFO    *)
(* each; the editor sends them on, in turn, to two readers over one        *)
(* message queue; a reader writes a word to the screen's FIFO, or, when    *)
(* the word is a number, relays a live telecast and tells the other reader *)
(* to stop working meanwhile.                                              *)
(*                                                                         *)
(* No program ever writes a pid to the files the readers look for (pid is  *)
(* written after close, and to another name), so they signal process 0:    *)
(* their own process group.  grouped says whether the readers share it     *)
(* with the editor, the screen and the telecast, as when a script starts   *)
(* them; reporters have a terminal each.  reader1.c is modelled with       *)
(* buffer declared before the loop and the parenthesis it lacks.           *)
(***************************************************************************)
EXTENDS Naturals, Sequences, FiniteSets

CONSTANTS
  News, Live,  \* words typed, each at most once; the numbers among them
  Junk,        \* what an array holds before anything is stored in it
  QueueCap, ScreenCap  \* messages that fit in the queue, texts in ./sfifo

ASSUME WordsAssumption == News \cap Live = {} /\ Junk \notin News \cup Live
ASSUME CapsAssumption == {QueueCap, ScreenCap} \subseteq Nat \ {0}

VARIABLES
  grouped,
  typed,     \* words typed so far
  fifo,      \* ./r1fifo and ./r2fifo
  editor,    \* pc, the descriptors select found ready, and buff
  alt,       \* the type of the next message
  queue,
  reader,    \* pc, work, pending signals and msg of either reader
  telecast,  \* whether live_telecast listens
  open,      \* readers with a connection to it
  sfifo,
  screen,    \* whether the screen runs
  shown,
  lost,        \* history: words read behind another one or gone with the editor
  interrupted  \* history: readers whose msgrcv failed

editorVars == <<fifo, editor, alt>>
screenVars == <<sfifo, screen, shown>>
castVars == <<telecast, open>>
history == <<lost, interrupted>>
vars == <<grouped, typed, editorVars, queue, reader, castVars, screenVars, history>>

Words == News \cup Live
Readers == {1, 2}

Init ==
  /\ grouped \in BOOLEAN
  /\ typed = {} /\ fifo = [i \in Readers |-> <<>>]
  /\ editor = [pc |-> "select", rset |-> {}, buff |-> Junk] /\ alt = 1
  /\ queue = <<>>
  /\ reader = [r \in Readers |-> [pc |-> "top", work |-> TRUE, pending |-> {}, msg |-> Junk]]
  /\ telecast \in BOOLEAN /\ open = {}
  /\ sfifo = <<>> /\ screen = TRUE /\ shown = {}
  /\ lost = {} /\ interrupted = {}

-----------------------------------------------------------------------------
(* Reporters and editor.                                                   *)

(* reporter1 opened its FIFO for writing only: without the editor it is    *)
(* ended by SIGPIPE.                                                       *)
Report(i, w) ==
  /\ w \notin typed /\ (i = 1 => editor.pc # "dead")
  /\ typed' = typed \cup {w}
  /\ fifo' = [fifo EXCEPT ![i] = Append(@, w)]
  /\ UNCHANGED <<grouped, editor, alt, queue, reader, castVars, screenVars, history>>

Select ==
  /\ editor.pc = "select"
  /\ \E i \in Readers : fifo[i] # <<>>
  /\ editor' = [editor EXCEPT !.pc = "isset1", !.rset = {i \in Readers : fifo[i] # <<>>}]
  /\ UNCHANGED <<grouped, typed, fifo, alt, queue, reader, castVars, screenVars, history>>

IsSet == <<"isset1", "isset2">>
Sending == <<"send1", "send2">>
After == <<"isset2", "select">>

(* A read of 100 bytes takes two words of 50, and strcpy leaves the second *)
(* behind.                                                                 *)
ReadFifo(i) ==
  /\ editor.pc = IsSet[i]
  /\ IF i \in editor.rset
     THEN /\ editor' = [editor EXCEPT !.pc = Sending[i], !.buff = Head(fifo[i])]
          /\ fifo' = [fifo EXCEPT ![i] = SubSeq(@, 3, Len(@))]
          /\ lost' = lost \cup (IF Len(fifo[i]) > 1 THEN {fifo[i][2]} ELSE {})
     ELSE /\ editor' = [editor EXCEPT !.pc = After[i]]
          /\ UNCHANGED <<fifo, lost>>
  /\ UNCHANGED <<grouped, typed, alt, queue, reader, castVars, screenVars, interrupted>>

(* Mutant: alt counts on.                                                  *)
SendCounts(i) ==
  /\ editor.pc = Sending[i] /\ Len(queue) < QueueCap
  /\ queue' = Append(queue, [type |-> alt, text |-> editor.buff])
  /\ alt' = alt + 1
  /\ editor' = [editor EXCEPT !.pc = After[i], !.buff = Junk]
  /\ UNCHANGED <<grouped, typed, fifo, reader, castVars, screenVars, history>>

(* Mutant: IPC_NOWAIT, and the word is forgotten when the queue is full.   *)
SendNoWait(i) ==
  /\ editor.pc = Sending[i]
  /\ queue' = IF Len(queue) < QueueCap THEN Append(queue, [type |-> alt, text |-> editor.buff]) ELSE queue
  /\ alt' = 3 - alt
  /\ editor' = [editor EXCEPT !.pc = After[i], !.buff = Junk]
  /\ UNCHANGED <<grouped, typed, fifo, reader, castVars, screenVars, history>>

(* msgsnd blocks when the queue is full.  buff is a new array each time.   *)
Send(i) ==
  /\ editor.pc = Sending[i] /\ Len(queue) < QueueCap
  /\ queue' = Append(queue, [type |-> alt, text |-> editor.buff])
  /\ alt' = 3 - alt
  /\ editor' = [editor EXCEPT !.pc = After[i], !.buff = Junk]
  /\ UNCHANGED <<grouped, typed, fifo, reader, castVars, screenVars, history>>

Editor == Select \/ \E i \in Readers : ReadFifo(i) \/ Send(i)

-----------------------------------------------------------------------------
(* Signals.                                                                *)

Mine(r) == {n \in DOMAIN queue : queue[n].type = r}

(* Linux stacks the handlers of pending signals so that startwork, that of *)
(* SIGUSR1, returns last.                                                  *)
WorkAfter(signals) == "USR1" \in signals

(* A msgrcv that blocks already returns -1, which is true: msg is looked   *)
(* at again.                                                               *)
Deliver(r) ==
  /\ reader[r].pending # {}
  /\ \E fails \in BOOLEAN :
       /\ fails => reader[r].pc = "receive" /\ Mine(r) = {}
       /\ reader' = [reader EXCEPT ![r].work = WorkAfter(reader[r].pending), ![r].pending = {},
                                   ![r].pc = IF fails THEN "act" ELSE @]
       /\ interrupted' = IF fails THEN interrupted \cup {r} ELSE interrupted
  /\ UNCHANGED <<grouped, typed, editorVars, queue, castVars, screenVars, lost>>

(* kill(0, signal): the sender has handled it when kill returns.  Neither  *)
(* screen nor telecast handle these signals; the editor handles SIGUSR1,   *)
(* but the SIGUSR2 before it has ended it, and a word it had read and not  *)
(* sent yet is gone with its buff.                                         *)
Kill(r, signal, pc) ==
  /\ reader' = [s \in Readers |->
       IF s = r THEN [reader[r] EXCEPT !.pc = pc, !.pending = {},
                                       !.work = WorkAfter(reader[r].pending \cup {signal})]
       ELSE IF grouped THEN [reader[s] EXCEPT !.pending = @ \cup {signal}] ELSE reader[s]]
  /\ IF grouped
     THEN /\ editor' = [editor EXCEPT !.pc = "dead", !.buff = Junk]
          /\ lost' = lost \cup ({editor.buff} \ {Junk})
          /\ screen' = FALSE /\ telecast' = FALSE /\ open' = {}
     ELSE UNCHANGED <<editor, lost, screen, castVars>>
  /\ UNCHANGED <<grouped, typed, fifo, alt, queue, sfifo, shown, interrupted>>

-----------------------------------------------------------------------------
(* Readers.                                                                *)

At(r, pc) == reader[r].pc = pc
Goto(r, pc) == reader' = [reader EXCEPT ![r].pc = pc]

(* The loop spins as long as work is 0.                                    *)
Top(r) ==
  /\ At(r, "top") /\ reader[r].work
  /\ Goto(r, "receive")
  /\ UNCHANGED <<grouped, typed, editorVars, queue, castVars, screenVars, history>>

Receive(r) ==
  /\ At(r, "receive")
  /\ \E n \in Mine(r) :
       /\ \A k \in Mine(r) : n <= k
       /\ reader' = [reader EXCEPT ![r].msg = queue[n].text, ![r].pc = "act"]
       /\ queue' = SubSeq(queue, 1, n - 1) \o SubSeq(queue, n + 1, Len(queue))
  /\ UNCHANGED <<grouped, typed, editorVars, castVars, screenVars, history>>

Act(r) ==
  /\ At(r, "act")
  /\ \/ /\ reader[r].msg \notin Live /\ Len(sfifo) < ScreenCap
        /\ sfifo' = Append(sfifo, reader[r].msg)
        /\ Goto(r, "top")
        /\ UNCHANGED open
     \/ /\ reader[r].msg \notin News
        /\ open' = IF telecast THEN open \cup {r} ELSE open
        /\ Goto(r, IF telecast THEN "pause" ELSE "top")
        /\ UNCHANGED sfifo
  /\ UNCHANGED <<grouped, typed, editorVars, queue, telecast, screen, shown, history>>

Pause(r) == At(r, "pause") /\ Kill(r, "USR2", "relay")

(* The telecast sends nothing.  reader1 goes on at the end of the          *)
(* connection.  reader2 looks at buffer[0] before it has read anything:    *)
(* either that is '0', or it never will be.                                *)
Relay(r) ==
  /\ At(r, "relay")
  /\ \/ r \notin open /\ r = 1 /\ Goto(r, "resume")
     \/ r = 2 /\ Goto(r, "resume")
     \/ r = 2 /\ Goto(r, "endless")
  /\ UNCHANGED <<grouped, typed, editorVars, queue, castVars, screenVars, history>>

Endless(r) ==
  /\ At(r, "endless") /\ r \notin open /\ Len(sfifo) < ScreenCap
  /\ sfifo' = Append(sfifo, Junk)
  /\ UNCHANGED <<grouped, typed, editorVars, queue, reader, castVars, screen, shown, history>>

(* Mutant: only work = 1, and no signal to the others.                     *)
ResumeItself(r) ==
  /\ At(r, "resume")
  /\ reader' = [reader EXCEPT ![r].pc = "top", ![r].work = TRUE]
  /\ UNCHANGED <<grouped, typed, editorVars, queue, castVars, screenVars, history>>

(* SIGUSR1 twice: for the other reader, and meant for the editor.          *)
Resume(r) ==
  \/ At(r, "resume") /\ Kill(r, "USR1", "again")
  \/ At(r, "again") /\ Kill(r, "USR1", "top")

Reader(r) == Top(r) \/ Receive(r) \/ Act(r) \/ Pause(r) \/ Relay(r) \/ Endless(r) \/ Resume(r)

-----------------------------------------------------------------------------
(* Screen and telecast.                                                    *)

Show ==
  /\ screen /\ sfifo # <<>>
  /\ shown' = shown \cup {Head(sfifo)}
  /\ sfifo' = Tail(sfifo)
  /\ UNCHANGED <<grouped, typed, editorVars, queue, reader, castVars, screen, history>>

(* accept, and the first write goes to the listener: SIGPIPE.              *)
TelecastAccept ==
  /\ telecast /\ open # {}
  /\ telecast' = FALSE /\ open' = {}
  /\ UNCHANGED <<grouped, typed, editorVars, queue, reader, screenVars, history>>

TelecastStart ==
  /\ ~telecast
  /\ telecast' = TRUE
  /\ UNCHANGED <<grouped, typed, editorVars, queue, reader, open, screenVars, history>>

Next ==
  \/ \E i \in Readers, w \in Words : Report(i, w)
  \/ Editor \/ Show \/ TelecastAccept \/ TelecastStart
  \/ \E r \in Readers : Reader(r) \/ Deliver(r)

Spec == Init /\ [][Next]_vars

(* The programs run and signals arrive.  Nobody has to type, or to start   *)
(* the telecast again.                                                     *)
Fairness ==
  /\ WF_vars(Editor) /\ WF_vars(Show) /\ WF_vars(TelecastAccept)
  /\ \A r \in Readers : WF_vars(Reader(r)) /\ WF_vars(Deliver(r))

FairSpec == Spec /\ Fairness

-----------------------------------------------------------------------------
(***************************************************************************)
(* Properties                                                              *)
(***************************************************************************)

TypeOK ==
  /\ grouped \in BOOLEAN /\ telecast \in BOOLEAN /\ screen \in BOOLEAN
  /\ fifo \in [Readers -> Seq(typed)] /\ typed \subseteq Words
  /\ editor \in [pc : {"select", "isset1", "isset2", "send1", "send2", "dead"},
                 rset : SUBSET Readers, buff : typed \cup {Junk}]
  /\ alt \in Readers
  /\ queue \in Seq([type : Readers, text : typed]) /\ Len(queue) <= QueueCap
  /\ reader \in [Readers ->
       [pc : {"top", "receive", "act", "pause", "relay", "endless", "resume", "again"},
        work : BOOLEAN, pending : SUBSET {"USR1", "USR2"}, msg : typed \cup {Junk}]]
  /\ open \subseteq Readers /\ (open # {} => telecast)
  /\ sfifo \in Seq(News \cup {Junk}) /\ Len(sfifo) <= ScreenCap
  /\ shown \subseteq News \cup {Junk} /\ lost \subseteq typed /\ interrupted \subseteq Readers

(* The texts that are somewhere between a reporter and the screen.         *)
Held ==
  fifo[1] \o fifo[2] \o <<editor.buff>> \o [n \in DOMAIN queue |-> queue[n].text]
  \o [r \in Readers |-> IF At(r, "act") THEN reader[r].msg ELSE Junk] \o sfifo

Copies(w) == Cardinality({n \in DOMAIN Held : Held[n] = w}) + Cardinality(shown \cap {w})

(* A word that is no number is in one place, from the FIFO it was written  *)
(* to until it is shown, but for two that are lost: one that was read      *)
(* behind another, and the one in the editor's buff when the readers'      *)
(* SIGUSR2 ends it (editor.c:60-64).  The kills leave every other word     *)
(* where it is, if only in a FIFO nobody reads any more.  Once a signal of *)
(* the group has interrupted a msgrcv, a word may be shown twice           *)
(* (reader1.c:58).                                                         *)
OneCopy ==
  interrupted = {} =>
    \A w \in News \cap typed : Copies(w) = IF w \in lost THEN 0 ELSE 1

EndlessRelay == \E r \in Readers : At(r, "endless")

(* A word that is not lost gets to the screen, unless the signals of       *)
(* a telecast end editor and screen, or reader2 relays for ever and the    *)
(* words of type 2 fill the queue (editor.c:64, reader2.c:85-92).          *)
GetsShown ==
  \A w \in News : w \in typed ~> w \in shown \cup lost \/ grouped \/ EndlessRelay

(* A reader that was told to stop goes on, unless the other one relays for *)
(* ever; in particular no order of signals leaves it behind with work = 0  *)
(* (reader1.c:18-26, 55, 83-97).                                           *)
PauseEnds ==
  \A r \in Readers : At(r, "top") /\ ~reader[r].work ~> reader[r].work \/ EndlessRelay
=============================================================================
