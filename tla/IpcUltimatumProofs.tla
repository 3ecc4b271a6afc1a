------------------------- MODULE IpcUltimatumProofs -------------------------
(***************************************************************************)
(* Proofs about IpcUltimatum, for any number of words and any capacity of  *)
(* the queue and of the screen's FIFO.                                     *)
(***************************************************************************)
EXTENDS IpcUltimatum, QueueLemmas, SequenceTheorems, FiniteSetTheorems, TLAPS

(* buff is a new array until a word is read into it, and a FIFO that       *)
(* select has reported still holds a word.                                 *)
EditorOK ==
  /\ editor.pc \in {"select", "isset1", "isset2"} => editor.buff = Junk
  /\ editor.pc \in {"send1", "send2"} => editor.buff \in typed
  /\ editor.pc = "isset1" /\ 1 \in editor.rset => fifo[1] # <<>>
  /\ editor.pc \in {"isset1", "send1", "isset2"} /\ 2 \in editor.rset => fifo[2] # <<>>

(* How often a word stands in each of the places Held joins.               *)
Carrying(w) == [type : Readers, text : {w}]

InFifo(i, w) == HowMany(fifo[i], {w})
InBuff(w)    == IF editor.buff = w THEN 1 ELSE 0
InQueue(w)   == HowMany(queue, Carrying(w))
InHand(r, w) == IF At(r, "act") /\ reader[r].msg = w THEN 1 ELSE 0
InSfifo(w)   == HowMany(sfifo, {w})
InShown(w)   == IF w \in shown THEN 1 ELSE 0

Everywhere(w) ==
  InFifo(1, w) + InFifo(2, w) + InBuff(w) + InQueue(w) + InHand(1, w) + InHand(2, w)
  + InSfifo(w) + InShown(w)

(* OneCopy, and that a word nobody has typed is nowhere.                   *)
CountOK ==
  interrupted = {} =>
    \A w \in News : Everywhere(w) = IF w \in typed \ lost THEN 1 ELSE 0

IInv == TypeOK /\ EditorOK /\ CountOK

EditorStates(words) ==
  [pc : {"select", "isset1", "isset2", "send1", "send2", "dead"},
   rset : SUBSET Readers, buff : words \cup {Junk}]
ReaderStates(words) ==
  [pc : {"top", "receive", "act", "pause", "relay", "endless", "resume", "again"},
   work : BOOLEAN, pending : SUBSET {"USR1", "USR2"}, msg : words \cup {Junk}]
Messages(words) == [type : Readers, text : words]

(* TypeOK in parts.                                                        *)
FifoTypes ==
  /\ fifo \in [Readers -> Seq(typed)] /\ typed \subseteq Words /\ lost \subseteq typed
QueueTypes == queue \in Seq(Messages(typed)) /\ Len(queue) <= QueueCap
EditorTypes == editor \in EditorStates(typed) /\ alt \in Readers
ReaderTypes == reader \in [Readers -> ReaderStates(typed)] /\ interrupted \subseteq Readers
CastTypes ==
  /\ grouped \in BOOLEAN /\ telecast \in BOOLEAN
  /\ open \subseteq Readers /\ (open # {} => telecast)
ScreenTypes ==
  /\ screen \in BOOLEAN /\ shown \subseteq News \cup {Junk}
  /\ sfifo \in Seq(News \cup {Junk}) /\ Len(sfifo) <= ScreenCap

(* The parts say what TypeOK says.                                         *)
LEMMA TypeParts ==
  TypeOK <=> /\ FifoTypes /\ QueueTypes /\ EditorTypes
             /\ ReaderTypes /\ CastTypes /\ ScreenTypes
  BY DEF TypeOK, FifoTypes, QueueTypes, EditorTypes, ReaderTypes, CastTypes, ScreenTypes,
         EditorStates, ReaderStates, Messages

-----------------------------------------------------------------------------
(* Types.                                                                  *)

(* The initial state.                                                      *)
LEMMA TypeInit == Init => TypeOK /\ EditorOK
<1> SUFFICES ASSUME Init PROVE TypeOK /\ EditorOK
  OBVIOUS
<1>1. FifoTypes
  BY EmptySeq DEF Init, FifoTypes
<1>2. QueueTypes
  <2>1. queue = <<>> /\ Len(<<>>) = 0 /\ <<>> \in Seq(Messages(typed))
    BY EmptySeq DEF Init
  <2> QED
    BY <2>1, CapsAssumption DEF QueueTypes
<1>3. EditorTypes /\ EditorOK
  BY DEF Init, EditorTypes, EditorStates, Readers, EditorOK
<1>4. ReaderTypes
  BY DEF Init, ReaderTypes, ReaderStates
<1>5. CastTypes
  BY DEF Init, CastTypes
<1>6. ScreenTypes
  <2>1. sfifo = <<>> /\ Len(<<>>) = 0 /\ <<>> \in Seq(News \cup {Junk})
    BY EmptySeq DEF Init
  <2> QED
    BY <2>1, CapsAssumption DEF Init, ScreenTypes
<1> QED
  BY <1>1, <1>2, <1>3, <1>4, <1>5, <1>6, TypeParts

(* A FIFO without its first two words.                                     *)
LEMMA Dropped ==
  ASSUME NEW S, NEW q \in Seq(S), q # <<>>
  PROVE  /\ Head(q) \in S /\ SubSeq(q, 3, Len(q)) \in Seq(S)
         /\ Len(q) \in Nat /\ (Len(q) > 1 => q[2] \in S)
         /\ \A w : HowMany(SubSeq(q, 3, Len(q)), {w}) =
              HowMany(q, {w}) - (IF Head(q) = w THEN 1 ELSE 0)
                              - (IF Len(q) > 1 /\ q[2] = w THEN 1 ELSE 0)
<1>1. /\ Len(q) \in Nat \ {0} /\ Head(q) \in S /\ Tail(q) \in Seq(S)
      /\ Len(Tail(q)) = Len(q) - 1 /\ Tail(q) = SubSeq(q, 2, Len(q))
  BY EmptySeq, HeadTailProperties, TailIsSubSeq
<1>w. ASSUME NEW w
      PROVE  /\ HowMany(q, {w}) \in Nat
             /\ HowMany(Tail(q), {w}) = HowMany(q, {w}) - (IF Head(q) = w THEN 1 ELSE 0)
  <2>1. HowMany(Tail(q), {w}) = HowMany(q, {w}) - (IF Head(q) \in {w} THEN 1 ELSE 0)
    BY CountTail
  <2> QED
    BY <2>1, CountType
<1>2. CASE Len(q) = 1
  <2>1. SubSeq(q, 3, Len(q)) = <<>> /\ Tail(q) = <<>>
    <3>1. 3 \in Int /\ 2 \in Int /\ Len(q) \in Int /\ Len(q) < 3 /\ Len(q) < 2
      BY <1>2
    <3> QED
      BY <1>1, <3>1, SubSeqEmpty
  <2>2. <<>> \in Seq(S) /\ ~(Len(q) > 1)
    BY <1>2, EmptySeq
  <2>3. ASSUME NEW w
        PROVE  HowMany(SubSeq(q, 3, Len(q)), {w}) =
                 HowMany(q, {w}) - (IF Head(q) = w THEN 1 ELSE 0)
                                 - (IF Len(q) > 1 /\ q[2] = w THEN 1 ELSE 0)
    <3>1. HowMany(SubSeq(q, 3, Len(q)), {w}) = HowMany(q, {w}) - (IF Head(q) = w THEN 1 ELSE 0)
      BY <1>w, <2>1
    <3>2. (IF Len(q) > 1 /\ q[2] = w THEN 1 ELSE 0) = 0
      BY <2>2
    <3>3. PICK h \in Nat : h = HowMany(q, {w})
      BY <1>w
    <3> QED
      BY <3>1, <3>2, <3>3
  <2> QED
    BY <1>1, <2>1, <2>2, <2>3
<1>3. CASE Len(q) > 1
  <2>1. 2 \in 1 .. Len(q) /\ Len(q) \in 2 .. Len(q) /\ 2 + 1 = 3 /\ 1 \in 1 .. Len(Tail(q))
    BY <1>1, <1>3
  <2>2. Head(Tail(q)) = q[2] /\ Tail(Tail(q)) = SubSeq(q, 3, Len(q))
    BY <1>1, <2>1, HeadTailOfSubSeq
  <2>3. q[2] \in S /\ Tail(q) # <<>>
    BY <1>1, <1>3, <2>1, ElementOfSeq, EmptySeq
  <2>4. Tail(Tail(q)) \in Seq(S)
    BY <1>1, <2>3, HeadTailProperties
  <2>5. ASSUME NEW w
        PROVE  HowMany(Tail(Tail(q)), {w}) = HowMany(Tail(q), {w}) - (IF q[2] = w THEN 1 ELSE 0)
    <3>1. HowMany(Tail(Tail(q)), {w}) =
            HowMany(Tail(q), {w}) - (IF Head(Tail(q)) \in {w} THEN 1 ELSE 0)
      BY <1>1, <2>3, CountTail
    <3> QED
      BY <2>2, <3>1
  <2>6. ASSUME NEW w
        PROVE  HowMany(SubSeq(q, 3, Len(q)), {w}) =
                 HowMany(q, {w}) - (IF Head(q) = w THEN 1 ELSE 0)
                                 - (IF Len(q) > 1 /\ q[2] = w THEN 1 ELSE 0)
    BY <1>3, <1>w, <2>2, <2>5
  <2> QED
    BY <1>1, <2>2, <2>3, <2>4, <2>6
<1>4. Len(q) = 1 \/ Len(q) > 1
  BY <1>1
<1> QED
  BY <1>2, <1>3, <1>4

(* Typing a word.                                                          *)
LEMMA ReportTypes ==
  ASSUME TypeOK, EditorOK, NEW i \in Readers, NEW w \in Words, Report(i, w)
  PROVE  TypeOK' /\ EditorOK'
<1>0. /\ typed' = typed \cup {w} /\ fifo' = [fifo EXCEPT ![i] = Append(@, w)]
      /\ UNCHANGED <<grouped, editor, alt, queue, reader, telecast, open, sfifo, screen, shown,
                     lost, interrupted>>
  BY DEF Report, castVars, screenVars, history
<1>p. FifoTypes /\ QueueTypes /\ EditorTypes /\ ReaderTypes /\ CastTypes /\ ScreenTypes
  BY TypeParts
<1>1. \A r \in Readers : fifo[r] \in Seq(typed') /\ fifo'[r] \in Seq(typed')
                         /\ (fifo[r] # <<>> => fifo'[r] # <<>>)
  <2> TAKE r \in Readers
  <2>1. fifo[r] \in Seq(typed')
    BY <1>0, <1>p, SeqMonotonic DEF FifoTypes
  <2>2. Append(fifo[r], w) \in Seq(typed') /\ Append(fifo[r], w) # <<>>
    BY <1>0, <2>1, AppendProperties
  <2>3. fifo'[r] = IF r = i THEN Append(fifo[r], w) ELSE fifo[r]
    BY <1>0, <1>p DEF FifoTypes
  <2> QED
    BY <2>1, <2>2, <2>3
<1>2. FifoTypes'
  BY <1>0, <1>1, <1>p DEF FifoTypes
<1>3. QueueTypes'
  <2>1. Messages(typed) \subseteq Messages(typed')
    BY <1>0 DEF Messages
  <2>2. queue \in Seq(Messages(typed'))
    BY <1>p, <2>1, SeqMonotonic DEF QueueTypes
  <2> QED
    BY <1>0, <1>p, <2>2 DEF QueueTypes
<1>4. EditorTypes'
  BY <1>0, <1>p DEF EditorTypes, EditorStates
<1>5. ReaderTypes'
  BY <1>0, <1>p DEF ReaderTypes, ReaderStates
<1>6. CastTypes' /\ ScreenTypes'
  BY <1>0, <1>p DEF CastTypes, ScreenTypes
<1>7. EditorOK'
  BY <1>0, <1>1 DEF EditorOK, Readers
<1>8. TypeOK'
  BY <1>2, <1>3, <1>4, <1>5, <1>6, TypeParts, PTL
<1> QED
  BY <1>7, <1>8

(* The editor reads a FIFO that select has reported.                       *)
LEMMA ReadTypes ==
  ASSUME TypeOK, EditorOK, NEW i \in Readers, ReadFifo(i)
  PROVE  /\ FifoTypes' /\ EditorTypes' /\ EditorOK'
         /\ i \in editor.rset => fifo[i] # <<>>
<1>p. FifoTypes /\ EditorTypes
  BY TypeParts
<1>0. /\ editor.pc = IsSet[i] /\ UNCHANGED <<typed, alt>>
      /\ IsSet[i] = (IF i = 1 THEN "isset1" ELSE "isset2")
      /\ Sending[i] = (IF i = 1 THEN "send1" ELSE "send2")
      /\ After[i] = (IF i = 1 THEN "isset2" ELSE "select")
      /\ i \in {1, 2}
  BY DEF ReadFifo, IsSet, Sending, After, Readers
<1>1. i \in editor.rset => fifo[i] # <<>>
  BY <1>0 DEF EditorOK
<1>2. CASE i \in editor.rset
  <2>1. /\ editor' = [editor EXCEPT !.pc = Sending[i], !.buff = Head(fifo[i])]
        /\ fifo' = [fifo EXCEPT ![i] = SubSeq(@, 3, Len(@))]
        /\ lost' = lost \cup (IF Len(fifo[i]) > 1 THEN {fifo[i][2]} ELSE {})
    BY <1>2 DEF ReadFifo
  <2>2. fifo[i] \in Seq(typed)
    BY <1>p DEF FifoTypes
  <2>3. /\ Head(fifo[i]) \in typed /\ SubSeq(fifo[i], 3, Len(fifo[i])) \in Seq(typed)
        /\ (Len(fifo[i]) > 1 => fifo[i][2] \in typed)
    BY <1>1, <1>2, <2>2, Dropped
  <2>4. FifoTypes'
    BY <1>0, <1>p, <2>1, <2>3 DEF FifoTypes
  <2>5. EditorTypes'
    BY <1>0, <1>p, <2>1, <2>3 DEF EditorTypes, EditorStates
  <2>6. /\ editor'.pc = Sending[i] /\ editor'.buff = Head(fifo[i])
        /\ editor'.rset = editor.rset
        /\ i = 1 => fifo'[2] = fifo[2]
    BY <1>0, <1>p, <2>1 DEF EditorTypes, EditorStates, FifoTypes, Readers
  <2>a. i = 1 /\ 2 \in editor.rset => fifo[2] # <<>>
    BY <1>0 DEF EditorOK
  <2>b. i = 1 /\ 2 \in editor'.rset => fifo'[2] # <<>>
    BY <2>6, <2>a
  <2>7. EditorOK'
    BY <1>0, <2>3, <2>6, <2>b DEF EditorOK
  <2> QED
    BY <1>1, <2>4, <2>5, <2>7
<1>3. CASE i \notin editor.rset
  <2>1. editor' = [editor EXCEPT !.pc = After[i]] /\ UNCHANGED <<fifo, lost>>
    BY <1>3 DEF ReadFifo
  <2>2. FifoTypes'
    BY <1>0, <1>p, <2>1 DEF FifoTypes
  <2>3. EditorTypes'
    BY <1>0, <1>p, <2>1 DEF EditorTypes, EditorStates
  <2>4. /\ editor'.pc = After[i] /\ UNCHANGED fifo
        /\ editor'.rset = editor.rset /\ editor'.buff = editor.buff
    BY <1>p, <2>1 DEF EditorTypes, EditorStates
  <2>a. editor'.buff = Junk
    BY <1>0, <2>4 DEF EditorOK
  <2>b. ASSUME i = 1 PROVE EditorOK'
    <3>1. editor'.pc = "isset2" /\ (2 \in editor'.rset => fifo'[2] # <<>>)
      BY <1>0, <2>4, <2>b DEF EditorOK
    <3> QED
      BY <2>a, <3>1 DEF EditorOK
  <2>c. ASSUME i = 2 PROVE EditorOK'
    BY <1>0, <2>4, <2>a, <2>c DEF EditorOK
  <2>5. EditorOK'
    BY <1>0, <2>b, <2>c
  <2> QED
    BY <1>1, <2>2, <2>3, <2>5
<1> QED
  BY <1>2, <1>3

(* The editor's message.                                                   *)
LEMMA SendTypes ==
  ASSUME TypeOK, EditorOK, NEW i \in Readers, Send(i)
  PROVE  QueueTypes' /\ EditorTypes' /\ EditorOK'
<1>p. QueueTypes /\ EditorTypes
  BY TypeParts
<1>0. /\ editor.pc = Sending[i] /\ UNCHANGED <<typed, fifo>> /\ Len(queue) < QueueCap
      /\ queue' = Append(queue, [type |-> alt, text |-> editor.buff])
      /\ alt' = 3 - alt
      /\ editor' = [editor EXCEPT !.pc = After[i], !.buff = Junk]
      /\ Sending[i] = (IF i = 1 THEN "send1" ELSE "send2")
      /\ After[i] = (IF i = 1 THEN "isset2" ELSE "select")
      /\ i \in {1, 2}
  BY DEF Send, Sending, After, Readers
<1>m. PICK m : m = [type |-> alt, text |-> editor.buff]
  OBVIOUS
<1>1. m \in Messages(typed)
  BY <1>0, <1>m, <1>p DEF EditorOK, EditorTypes, Messages
<1>2. queue' = Append(queue, m)
  BY <1>0, <1>m
<1>3. queue' \in Seq(Messages(typed)) /\ Len(queue') = Len(queue) + 1 /\ Len(queue) \in Nat
  BY <1>1, <1>2, <1>p, AppendProperties, LenProperties DEF QueueTypes
<1>4. QueueTypes'
  BY <1>0, <1>3, CapsAssumption DEF QueueTypes
<1>a. alt' \in Readers
  BY <1>0, <1>p DEF EditorTypes, Readers
<1>5. EditorTypes'
  BY <1>0, <1>a, <1>p DEF EditorTypes, EditorStates
<1>b. editor'.pc = After[i] /\ editor'.rset = editor.rset /\ editor'.buff = Junk
  BY <1>0, <1>p DEF EditorTypes, EditorStates
<1>c. ASSUME i = 1 PROVE EditorOK'
  <2>1. editor'.pc = "isset2" /\ (2 \in editor'.rset => fifo'[2] # <<>>)
    BY <1>0, <1>b, <1>c DEF EditorOK
  <2> QED
    BY <1>b, <2>1 DEF EditorOK
<1>d. ASSUME i = 2 PROVE EditorOK'
  BY <1>0, <1>b, <1>d DEF EditorOK
<1>6. EditorOK'
  BY <1>0, <1>c, <1>d
<1> QED
  BY <1>4, <1>5, <1>6

(* What a reader or a signal does to the readers' states.                  *)
LEMMA GotoTypes ==
  ASSUME TypeOK, NEW r \in Readers, NEW pc, Goto(r, pc), UNCHANGED <<typed, interrupted>>,
         pc \in {"top", "receive", "act", "pause", "relay", "endless", "resume", "again"}
  PROVE  ReaderTypes'
<1>p. ReaderTypes
  BY TypeParts
<1> QED
  BY <1>p DEF Goto, ReaderTypes, ReaderStates

(* Delivering signals.                                                     *)
LEMMA DeliverTypes ==
  ASSUME TypeOK, NEW r \in Readers, Deliver(r)
  PROVE  ReaderTypes'
<1>p. ReaderTypes
  BY TypeParts
<1>1. PICK fails \in BOOLEAN :
        /\ reader' = [reader EXCEPT ![r].work = WorkAfter(reader[r].pending), ![r].pending = {},
                                   ![r].pc = IF fails THEN "act" ELSE @]
        /\ interrupted' = IF fails THEN interrupted \cup {r} ELSE interrupted
        /\ UNCHANGED typed
  BY DEF Deliver
<1>2. WorkAfter(reader[r].pending) \in BOOLEAN
  BY DEF WorkAfter
<1>3. reader[r] \in ReaderStates(typed) /\ interrupted' \subseteq Readers
  BY <1>1, <1>p DEF ReaderTypes
<1>4. PICK e : e = [reader[r] EXCEPT !.work = WorkAfter(reader[r].pending), !.pending = {},
                                     !.pc = IF fails THEN "act" ELSE @]
  OBVIOUS
<1>5. e \in ReaderStates(typed)
  BY <1>2, <1>3, <1>4 DEF ReaderStates
<1>6. reader' = [reader EXCEPT ![r] = e]
  BY <1>1, <1>4, <1>p DEF ReaderTypes
<1> QED
  BY <1>1, <1>3, <1>5, <1>6, <1>p DEF ReaderTypes

(* Sending one to the process group.                                       *)
LEMMA KillTypes ==
  ASSUME TypeOK, EditorOK, NEW r \in Readers, NEW signal \in {"USR1", "USR2"},
         NEW pc \in {"relay", "again", "top"}, Kill(r, signal, pc)
  PROVE  FifoTypes' /\ ReaderTypes' /\ EditorTypes' /\ EditorOK' /\ CastTypes' /\ ScreenTypes'
<1>p. FifoTypes /\ ReaderTypes /\ EditorTypes /\ CastTypes /\ ScreenTypes
  BY TypeParts
<1>0. /\ UNCHANGED <<grouped, typed, fifo, alt, sfifo, shown, interrupted>>
      /\ reader' = [s \in Readers |->
           IF s = r THEN [reader[r] EXCEPT !.pc = pc, !.pending = {},
                                           !.work = WorkAfter(reader[r].pending \cup {signal})]
           ELSE IF grouped THEN [reader[s] EXCEPT !.pending = @ \cup {signal}] ELSE reader[s]]
      /\ IF grouped
         THEN /\ editor' = [editor EXCEPT !.pc = "dead", !.buff = Junk]
              /\ lost' = lost \cup ({editor.buff} \ {Junk})
              /\ screen' = FALSE /\ telecast' = FALSE /\ open' = {}
         ELSE UNCHANGED <<editor, lost, screen, telecast, open>>
  BY DEF Kill, castVars
<1>1. ReaderTypes'
  <2>1. WorkAfter(reader[r].pending \cup {signal}) \in BOOLEAN
    BY DEF WorkAfter
  <2>2. ASSUME NEW s \in Readers PROVE reader'[s] \in ReaderStates(typed)
    <3>1. reader[s] \in ReaderStates(typed) /\ reader[r] \in ReaderStates(typed)
      BY <1>p DEF ReaderTypes
    <3>2. CASE s = r
      BY <1>0, <2>1, <3>1, <3>2 DEF ReaderStates
    <3>3. CASE s # r
      BY <1>0, <3>1, <3>3 DEF ReaderStates
    <3> QED
      BY <3>2, <3>3
  <2> QED
    BY <1>0, <1>p, <2>2 DEF ReaderTypes
<1>2. EditorTypes'
  BY <1>0, <1>p DEF EditorTypes, EditorStates
<1>3. EditorOK'
  BY <1>0, <1>p DEF EditorOK, EditorTypes, EditorStates
<1>4. CastTypes' /\ ScreenTypes'
  BY <1>0, <1>p DEF CastTypes, ScreenTypes
<1>5. FifoTypes'
  <2>1. editor.buff \in typed \cup {Junk}
    BY <1>p DEF EditorTypes, EditorStates
  <2> QED
    BY <1>0, <1>p, <2>1 DEF FifoTypes
<1> QED
  BY <1>1, <1>2, <1>3, <1>4, <1>5

(* A reader takes its first message.                                       *)
LEMMA ReceiveTypes ==
  ASSUME TypeOK, NEW r \in Readers, Receive(r)
  PROVE  /\ QueueTypes' /\ ReaderTypes'
         /\ \E n \in DOMAIN queue :
              /\ queue' = Removed(queue, n) /\ queue[n] \in Messages(typed)
              /\ reader' = [reader EXCEPT ![r].msg = queue[n].text, ![r].pc = "act"]
<1>p. QueueTypes /\ ReaderTypes
  BY TypeParts
<1>1. PICK n \in DOMAIN queue :
        /\ reader' = [reader EXCEPT ![r].msg = queue[n].text, ![r].pc = "act"]
        /\ queue' = Removed(queue, n) /\ UNCHANGED <<typed, interrupted>>
  BY DEF Receive, Mine, Removed, history
<1>2. /\ queue[n] \in Messages(typed) /\ Removed(queue, n) \in Seq(Messages(typed))
      /\ Len(Removed(queue, n)) = Len(queue) - 1 /\ Len(queue) \in Nat /\ QueueCap \in Nat
  BY <1>p, RemovedProperties, ElementOfSeq, LenProperties, CapsAssumption DEF QueueTypes
<1>3. QueueTypes'
  BY <1>1, <1>2, <1>p DEF QueueTypes
<1>4. ReaderTypes'
  <2>1. PICK text \in typed : text = queue[n].text
    BY <1>2 DEF Messages
  <2>2. PICK e : e = [reader[r] EXCEPT !.msg = text, !.pc = "act"]
    OBVIOUS
  <2>3. reader' = [reader EXCEPT ![r] = e]
    BY <1>1, <1>p, <2>1, <2>2 DEF ReaderTypes
  <2>4. e \in ReaderStates(typed)
    BY <1>p, <2>2 DEF ReaderTypes, ReaderStates
  <2> QED
    BY <1>1, <1>p, <2>3, <2>4 DEF ReaderTypes
<1> QED
  BY <1>1, <1>2, <1>3, <1>4

(* One more text for the screen, if it fits.                               *)
LEMMA Written ==
  ASSUME TypeOK, NEW text \in News \cup {Junk}, Len(sfifo) < ScreenCap,
         sfifo' = Append(sfifo, text), UNCHANGED <<screen, shown>>
  PROVE  ScreenTypes'
<1>p. ScreenTypes
  BY TypeParts
<1>1. /\ sfifo' \in Seq(News \cup {Junk}) /\ Len(sfifo') = Len(sfifo) + 1
      /\ Len(sfifo) \in Nat /\ ScreenCap \in Nat
  BY <1>p, AppendProperties, LenProperties, CapsAssumption DEF ScreenTypes
<1> QED
  BY <1>1, <1>p DEF ScreenTypes

(* A reader looks at its message.                                          *)
LEMMA ActTypes ==
  ASSUME TypeOK, NEW r \in Readers, Act(r)
  PROVE  ReaderTypes' /\ CastTypes' /\ ScreenTypes'
<1>p. ReaderTypes /\ CastTypes /\ ScreenTypes /\ FifoTypes
  BY TypeParts
<1>0. UNCHANGED <<grouped, typed, telecast, screen, shown, interrupted>>
  BY DEF Act, history
<1>1. CASE /\ reader[r].msg \notin Live /\ Len(sfifo) < ScreenCap
           /\ sfifo' = Append(sfifo, reader[r].msg)
           /\ Goto(r, "top") /\ UNCHANGED open
  <2>1. reader[r].msg \in typed \cup {Junk}
    BY <1>p DEF ReaderTypes, ReaderStates
  <2>2. reader[r].msg \in News \cup {Junk}
    BY <1>1, <1>p, <2>1 DEF FifoTypes, Words
  <2>3. ScreenTypes'
    BY <1>0, <1>1, <2>2, Written
  <2>4. ReaderTypes'
    BY <1>0, <1>1, GotoTypes
  <2> QED
    BY <1>0, <1>1, <1>p, <2>3, <2>4 DEF CastTypes
<1>2. CASE /\ open' = IF telecast THEN open \cup {r} ELSE open
           /\ Goto(r, IF telecast THEN "pause" ELSE "top") /\ UNCHANGED sfifo
  <2>1. ReaderTypes'
    <3>1. CASE telecast
      BY <1>0, <1>2, <3>1, GotoTypes
    <3>2. CASE ~telecast
      BY <1>0, <1>2, <3>2, GotoTypes
    <3> QED
      BY <3>1, <3>2
  <2>2. CastTypes' /\ ScreenTypes'
    BY <1>0, <1>2, <1>p DEF CastTypes, ScreenTypes
  <2> QED
    BY <2>1, <2>2
<1> QED
  BY <1>1, <1>2 DEF Act

(* The screen shows a text.                                                *)
LEMMA ShowTypes ==
  ASSUME TypeOK, Show
  PROVE  ScreenTypes'
<1>p. ScreenTypes
  BY TypeParts
<1>1. /\ shown' = shown \cup {Head(sfifo)} /\ sfifo' = Tail(sfifo) /\ screen' = screen
      /\ sfifo # <<>>
  BY DEF Show
<1>2. /\ Head(sfifo) \in News \cup {Junk} /\ Tail(sfifo) \in Seq(News \cup {Junk})
      /\ Len(Tail(sfifo)) = Len(sfifo) - 1 /\ Len(sfifo) \in Nat /\ ScreenCap \in Nat
  BY <1>1, <1>p, HeadTailProperties, LenProperties, CapsAssumption DEF ScreenTypes
<1> QED
  BY <1>1, <1>2, <1>p DEF ScreenTypes

(* Every step of the programs and of the users.                            *)
LEMMA TypeNext == TypeOK /\ EditorOK /\ [Next]_vars => TypeOK' /\ EditorOK'
<1> SUFFICES ASSUME TypeOK, EditorOK, [Next]_vars PROVE TypeOK' /\ EditorOK'
  OBVIOUS
<1>p. FifoTypes /\ QueueTypes /\ EditorTypes /\ ReaderTypes /\ CastTypes /\ ScreenTypes
  BY TypeParts
<1>f. UNCHANGED <<typed, fifo, lost>> => FifoTypes'
  BY <1>p DEF FifoTypes
<1>q. UNCHANGED <<typed, queue>> => QueueTypes'
  BY <1>p DEF QueueTypes
<1>e. UNCHANGED <<typed, fifo, editor, alt>> => EditorTypes' /\ EditorOK'
  BY <1>p DEF EditorTypes, EditorOK
<1>r. UNCHANGED <<typed, reader, interrupted>> => ReaderTypes'
  BY <1>p DEF ReaderTypes
<1>c. UNCHANGED <<grouped, telecast, open>> => CastTypes'
  BY <1>p DEF CastTypes
<1>s. UNCHANGED <<sfifo, screen, shown>> => ScreenTypes'
  BY <1>p DEF ScreenTypes
<1>t. FifoTypes' /\ QueueTypes' /\ EditorTypes' /\ ReaderTypes' /\ CastTypes' /\ ScreenTypes'
        => TypeOK'
  BY TypeParts, PTL
<1>1. ASSUME NEW i \in Readers, NEW w \in Words, Report(i, w) PROVE TypeOK' /\ EditorOK'
  BY <1>1, ReportTypes
<1>2. ASSUME Select PROVE TypeOK' /\ EditorOK'
  <2>1. /\ editor.pc = "select" /\ UNCHANGED <<typed, fifo, alt>>
        /\ editor' = [editor EXCEPT !.pc = "isset1", !.rset = {i \in Readers : fifo[i] # <<>>}]
    BY <1>2 DEF Select
  <2>2. EditorTypes'
    BY <1>p, <2>1 DEF EditorTypes, EditorStates
  <2>3. /\ editor'.pc = "isset1" /\ editor'.buff = editor.buff
        /\ editor'.rset = {i \in Readers : fifo[i] # <<>>}
    BY <1>p, <2>1 DEF EditorTypes, EditorStates
  <2>4. EditorOK'
    BY <2>1, <2>3 DEF EditorOK
  <2> QED
    BY <1>2, <1>f, <1>q, <1>r, <1>c, <1>s, <1>t, <2>2, <2>4
       DEF Select, castVars, screenVars, history
<1>3. ASSUME NEW i \in Readers, ReadFifo(i) PROVE TypeOK' /\ EditorOK'
  BY <1>3, <1>q, <1>r, <1>c, <1>s, <1>t, ReadTypes DEF ReadFifo, castVars, screenVars
<1>4. ASSUME NEW i \in Readers, Send(i) PROVE TypeOK' /\ EditorOK'
  BY <1>4, <1>f, <1>r, <1>c, <1>s, <1>t, SendTypes DEF Send, castVars, screenVars, history
<1>5. ASSUME Show PROVE TypeOK' /\ EditorOK'
  BY <1>5, <1>f, <1>q, <1>e, <1>r, <1>c, <1>t, ShowTypes DEF Show, editorVars, castVars, history
<1>6. ASSUME TelecastAccept \/ TelecastStart PROVE TypeOK' /\ EditorOK'
  <2>1. UNCHANGED <<grouped, typed, editorVars, queue, reader, screenVars, history>>
    BY <1>6 DEF TelecastAccept, TelecastStart
  <2>2. CastTypes'
    BY <1>6, <1>p DEF TelecastAccept, TelecastStart, CastTypes
  <2> QED
    BY <1>f, <1>q, <1>e, <1>r, <1>s, <1>t, <2>1, <2>2 DEF editorVars, screenVars, history
<1>7. ASSUME NEW r \in Readers, Deliver(r) PROVE TypeOK' /\ EditorOK'
  BY <1>7, <1>f, <1>q, <1>e, <1>c, <1>s, <1>t, DeliverTypes
     DEF Deliver, editorVars, castVars, screenVars
<1>8. ASSUME NEW r \in Readers, Receive(r) PROVE TypeOK' /\ EditorOK'
  BY <1>8, <1>f, <1>e, <1>c, <1>s, <1>t, ReceiveTypes
     DEF Receive, editorVars, castVars, screenVars, history
<1>9. ASSUME NEW r \in Readers, Act(r) PROVE TypeOK' /\ EditorOK'
  BY <1>9, <1>f, <1>q, <1>e, <1>t, ActTypes DEF Act, editorVars, history
<1>10. ASSUME NEW r \in Readers, NEW signal \in {"USR1", "USR2"},
              NEW pc \in {"relay", "again", "top"}, Kill(r, signal, pc)
       PROVE  TypeOK' /\ EditorOK'
  BY <1>10, <1>q, <1>t, KillTypes DEF Kill
<1>11. ASSUME NEW r \in Readers, Top(r) \/ Relay(r) PROVE TypeOK' /\ EditorOK'
  <2>1. UNCHANGED <<grouped, typed, editorVars, queue, castVars, screenVars, history>>
    BY <1>11 DEF Top, Relay
  <2>2. Goto(r, "receive") \/ Goto(r, "resume") \/ Goto(r, "endless")
    BY <1>11 DEF Top, Relay
  <2>3. ReaderTypes'
    BY <2>1, <2>2, GotoTypes DEF history
  <2> QED
    BY <1>f, <1>q, <1>e, <1>c, <1>s, <1>t, <2>1, <2>3 DEF editorVars, castVars, screenVars, history
<1>12. ASSUME NEW r \in Readers, Endless(r) PROVE TypeOK' /\ EditorOK'
  <2>1. ScreenTypes'
    BY <1>12, Written DEF Endless
  <2> QED
    BY <1>12, <1>f, <1>q, <1>e, <1>r, <1>c, <1>t, <2>1 DEF Endless, editorVars, castVars, history
<1>13. ASSUME UNCHANGED vars PROVE TypeOK' /\ EditorOK'
  BY <1>13, <1>f, <1>q, <1>e, <1>r, <1>c, <1>s, <1>t
     DEF vars, editorVars, castVars, screenVars, history
<1> QED
  <2>1. ASSUME NEW r \in Readers, Reader(r) PROVE TypeOK' /\ EditorOK'
    BY <2>1, <1>8, <1>9, <1>10, <1>11, <1>12 DEF Reader, Pause, Resume
  <2> QED
    BY <1>1, <1>2, <1>3, <1>4, <1>5, <1>6, <1>7, <1>13, <2>1 DEF Next, Editor

(* The type invariant: what each program and queue holds, that no queue    *)
(* holds more than fits, and that only a listening telecast has clients    *)
(* (src/socket_rev/ipc_ultimatum).                                         *)
THEOREM TypeCorrect == Spec => []TypeOK
<1>1. Init => TypeOK /\ EditorOK
  BY TypeInit
<1>2. TypeOK /\ EditorOK /\ [Next]_vars => TypeOK' /\ EditorOK'
  BY TypeNext
<1> QED
  BY <1>1, <1>2, PTL DEF Spec

-----------------------------------------------------------------------------
(* Copies.                                                                 *)

(* Each of the parts is a number.                                          *)
LEMMA PartTypes ==
  ASSUME TypeOK, NEW w
  PROVE  /\ InFifo(1, w) \in Nat /\ InFifo(2, w) \in Nat /\ InBuff(w) \in Nat /\ InQueue(w) \in Nat
         /\ InHand(1, w) \in Nat /\ InHand(2, w) \in Nat /\ InSfifo(w) \in Nat /\ InShown(w) \in Nat
<1>1. /\ fifo[1] \in Seq(typed) /\ fifo[2] \in Seq(typed)
      /\ queue \in Seq(Messages(typed)) /\ sfifo \in Seq(News \cup {Junk})
  BY TypeParts DEF FifoTypes, QueueTypes, ScreenTypes, Readers
<1>2. InFifo(1, w) \in Nat /\ InFifo(2, w) \in Nat /\ InQueue(w) \in Nat /\ InSfifo(w) \in Nat
  BY <1>1, CountType DEF InFifo, InQueue, InSfifo
<1> QED
  BY <1>2 DEF InBuff, InHand, InShown

(* And after a step.                                                       *)
LEMMA PartTypesNext ==
  ASSUME NEW w
  PROVE  TypeOK' =>
           (/\ InFifo(1, w) \in Nat /\ InFifo(2, w) \in Nat /\ InBuff(w) \in Nat /\ InQueue(w) \in Nat
            /\ InHand(1, w) \in Nat /\ InHand(2, w) \in Nat /\ InSfifo(w) \in Nat /\ InShown(w) \in Nat)'
<1>1. TypeOK =>
        /\ InFifo(1, w) \in Nat /\ InFifo(2, w) \in Nat /\ InBuff(w) \in Nat /\ InQueue(w) \in Nat
        /\ InHand(1, w) \in Nat /\ InHand(2, w) \in Nat /\ InSfifo(w) \in Nat /\ InShown(w) \in Nat
  BY PartTypes
<1> QED
  BY <1>1, PTL

(* A sum of six, the last two added at once.                               *)
LEMMA Regrouped ==
  ASSUME NEW a \in Nat, NEW b \in Nat, NEW c \in Nat, NEW d \in Nat, NEW e \in Nat, NEW f \in Nat
  PROVE  (a + b + c + d) + (e + f) = a + b + c + d + e + f
  OBVIOUS

(* What Held joins, and how often a word stands in it.                     *)
LEMMA HeldParts ==
  ASSUME TypeOK, NEW w \in News
  PROVE  Copies(w) = Everywhere(w)
<1> DEFINE S == Words \cup {Junk}
           texts == [n \in DOMAIN queue |-> queue[n].text]
           hands == [r \in Readers |-> IF At(r, "act") THEN reader[r].msg ELSE Junk]
<1>p. FifoTypes /\ QueueTypes /\ EditorTypes /\ ReaderTypes /\ ScreenTypes
  BY TypeParts
<1>1. /\ fifo[1] \in Seq(S) /\ fifo[2] \in Seq(S) /\ sfifo \in Seq(S)
  <2>1. fifo[1] \in Seq(typed) /\ fifo[2] \in Seq(typed) /\ typed \subseteq S
        /\ sfifo \in Seq(News \cup {Junk}) /\ News \cup {Junk} \subseteq S
    BY <1>p DEF FifoTypes, ScreenTypes, Readers, Words
  <2> QED
    BY <2>1, SeqMonotonic
<1>2. editor.buff \in S
  BY <1>p DEF EditorTypes, EditorStates, FifoTypes
<1>3. <<editor.buff>> \in Seq(S) /\ HowMany(<<editor.buff>>, {w}) = InBuff(w)
  BY <1>2, CountOne DEF InBuff
<1>4. texts \in Seq(S) /\ HowMany(texts, {w}) = InQueue(w)
  <2>1. DOMAIN queue = 1 .. Len(queue) /\ Len(queue) \in Nat /\ queue \in Seq(Messages(typed))
    BY <1>p, LenProperties DEF QueueTypes
  <2>2. \A n \in DOMAIN queue : queue[n] \in Messages(typed)
    BY <2>1, ElementOfSeq
  <2>3. texts \in [1 .. Len(queue) -> S]
    BY <1>p, <2>1, <2>2 DEF Messages, FifoTypes
  <2>4. texts \in Seq(S)
    BY <2>1, <2>3, SeqDef
  <2>5. IndicesOf(texts, {w}) = IndicesOf(queue, Carrying(w))
    BY <2>2 DEF IndicesOf, Carrying, Messages
  <2> QED
    BY <2>4, <2>5 DEF HowMany, InQueue
<1>5. hands \in Seq(S) /\ HowMany(hands, {w}) = InHand(1, w) + InHand(2, w)
  <2>1. \A r \in Readers : reader[r].msg \in S
    BY <1>p DEF ReaderTypes, ReaderStates, FifoTypes
  <2>a. PICK a \in S : a = hands[1]
    BY <2>1 DEF Readers
  <2>b. PICK b \in S : b = hands[2]
    BY <2>1 DEF Readers
  <2>2. hands = <<a, b>> /\ <<a, b>> = <<a>> \o <<b>>
    BY <2>a, <2>b DEF Readers
  <2>3. <<a>> \in Seq(S) /\ <<b>> \in Seq(S)
        /\ HowMany(<<a>>, {w}) = (IF a \in {w} THEN 1 ELSE 0)
        /\ HowMany(<<b>>, {w}) = (IF b \in {w} THEN 1 ELSE 0)
    BY CountOne
  <2>x. PICK x \in Seq(S) : x = <<a>>
    BY <2>3
  <2>y. PICK y \in Seq(S) : y = <<b>>
    BY <2>3
  <2>c. x \o y \in Seq(S) /\ HowMany(x \o y, {w}) = HowMany(x, {w}) + HowMany(y, {w})
    BY CountConcat
  <2>4. hands \in Seq(S) /\ HowMany(hands, {w}) = HowMany(<<a>>, {w}) + HowMany(<<b>>, {w})
    BY <2>2, <2>c, <2>x, <2>y
  <2>5. Junk # w
    BY WordsAssumption
  <2>6. InHand(1, w) = (IF a \in {w} THEN 1 ELSE 0) /\ InHand(2, w) = (IF b \in {w} THEN 1 ELSE 0)
    BY <2>5, <2>a, <2>b DEF InHand, Readers
  <2> QED
    BY <2>3, <2>4, <2>6
<1>6. Cardinality(shown \cap {w}) = InShown(w)
  <2>1. shown \cap {w} = IF w \in shown THEN {w} ELSE {}
    OBVIOUS
  <2> QED
    BY <2>1, FS_EmptySet, FS_Singleton DEF InShown
<1> HIDE DEF S, texts, hands
<1>7. PICK a \in Seq(S) : a = <<editor.buff>>
  BY <1>3
<1>8. Held = ((((fifo[1] \o fifo[2]) \o a) \o texts) \o hands) \o sfifo
  BY <1>7 DEF Held, texts, hands
<1>9. /\ fifo[1] \o fifo[2] \in Seq(S)
      /\ HowMany(fifo[1] \o fifo[2], {w}) = InFifo(1, w) + InFifo(2, w)
  BY <1>1, CountConcat DEF InFifo
<1>10. PICK b \in Seq(S) : b = fifo[1] \o fifo[2]
  BY <1>9
<1>11. b \o a \in Seq(S) /\ HowMany(b \o a, {w}) = HowMany(b, {w}) + HowMany(a, {w})
  BY CountConcat
<1>12. PICK c \in Seq(S) : c = b \o a
  BY <1>11
<1>13. c \o texts \in Seq(S) /\ HowMany(c \o texts, {w}) = HowMany(c, {w}) + HowMany(texts, {w})
  BY <1>4, CountConcat
<1>14. PICK d \in Seq(S) : d = c \o texts
  BY <1>13
<1>15. d \o hands \in Seq(S) /\ HowMany(d \o hands, {w}) = HowMany(d, {w}) + HowMany(hands, {w})
  BY <1>5, CountConcat
<1>16. PICK e \in Seq(S) : e = d \o hands
  BY <1>15
<1>17. e \o sfifo \in Seq(S) /\ HowMany(e \o sfifo, {w}) = HowMany(e, {w}) + HowMany(sfifo, {w})
  BY <1>1, CountConcat
<1>18. Held = e \o sfifo
  BY <1>8, <1>10, <1>12, <1>14, <1>16
<1>19. Copies(w) = HowMany(e \o sfifo, {w}) + InShown(w)
  <2>1. {n \in DOMAIN Held : Held[n] = w} = IndicesOf(Held, {w})
    BY DEF IndicesOf
  <2> QED
    BY <1>6, <1>18, <2>1 DEF Copies, HowMany
<1>20. /\ InFifo(1, w) \in Nat /\ InFifo(2, w) \in Nat /\ InBuff(w) \in Nat /\ InQueue(w) \in Nat
       /\ InHand(1, w) \in Nat /\ InHand(2, w) \in Nat /\ InSfifo(w) \in Nat /\ InShown(w) \in Nat
  BY PartTypes
<1>21. /\ HowMany(b, {w}) = InFifo(1, w) + InFifo(2, w) /\ HowMany(a, {w}) = InBuff(w)
       /\ HowMany(sfifo, {w}) = InSfifo(w)
  BY <1>3, <1>7, <1>9, <1>10 DEF InSfifo
<1>22. /\ HowMany(c, {w}) = HowMany(b, {w}) + HowMany(a, {w})
       /\ HowMany(d, {w}) = HowMany(c, {w}) + InQueue(w)
       /\ HowMany(e, {w}) = HowMany(d, {w}) + (InHand(1, w) + InHand(2, w))
  BY <1>4, <1>5, <1>11, <1>12, <1>13, <1>14, <1>15, <1>16
<1>23. HowMany(d, {w}) = InFifo(1, w) + InFifo(2, w) + InBuff(w) + InQueue(w)
  BY <1>21, <1>22
<1>24. HowMany(e, {w}) =
         InFifo(1, w) + InFifo(2, w) + InBuff(w) + InQueue(w) + InHand(1, w) + InHand(2, w)
  BY <1>20, <1>22, <1>23, Regrouped
<1> QED
  BY <1>17, <1>19, <1>21, <1>24 DEF Everywhere

(* Nothing is anywhere at first.                                           *)
LEMMA CountInit == Init => CountOK
<1> SUFFICES ASSUME Init, NEW w \in News
             PROVE  Everywhere(w) = IF w \in typed \ lost THEN 1 ELSE 0
  BY DEF CountOK
<1>1. \A T : HowMany(<<>>, T) = 0
  <2> TAKE T
  <2>1. <<>> \in Seq({})
    BY EmptySeq
  <2> QED
    BY <2>1, CountType
<1>2. InFifo(1, w) = 0 /\ InFifo(2, w) = 0 /\ InQueue(w) = 0 /\ InSfifo(w) = 0
  BY <1>1 DEF Init, InFifo, InQueue, InSfifo, Readers
<1>3. InBuff(w) = 0
  BY WordsAssumption DEF Init, InBuff
<1>4. InHand(1, w) = 0 /\ InHand(2, w) = 0 /\ InShown(w) = 0
  BY DEF Init, InHand, InShown, At, Readers
<1>5. w \notin typed
  BY DEF Init
<1> QED
  BY <1>2, <1>3, <1>4, <1>5 DEF Everywhere

(* A word is counted where it goes to, and no longer where it was.         *)
LEMMA CountNext == IInv /\ TypeOK' /\ [Next]_vars => CountOK'
<1> SUFFICES ASSUME IInv, TypeOK', [Next]_vars, interrupted' = {}, NEW w \in News
             PROVE  Everywhere(w)' = IF w \in typed' \ lost' THEN 1 ELSE 0
  BY DEF CountOK
<1>p. FifoTypes /\ QueueTypes /\ EditorTypes /\ ReaderTypes /\ ScreenTypes /\ TypeOK
  BY TypeParts DEF IInv
<1>w. w # Junk /\ w \notin Live
  BY WordsAssumption
<1>n. /\ InFifo(1, w) \in Nat /\ InFifo(2, w) \in Nat /\ InBuff(w) \in Nat /\ InQueue(w) \in Nat
      /\ InHand(1, w) \in Nat /\ InHand(2, w) \in Nat /\ InSfifo(w) \in Nat /\ InShown(w) \in Nat
  BY <1>p, PartTypes
<1>m. /\ InFifo(1, w)' \in Nat /\ InFifo(2, w)' \in Nat /\ InBuff(w)' \in Nat /\ InQueue(w)' \in Nat
      /\ InHand(1, w)' \in Nat /\ InHand(2, w)' \in Nat /\ InSfifo(w)' \in Nat /\ InShown(w)' \in Nat
  BY PartTypesNext
<1>0. interrupted = {} => Everywhere(w) = IF w \in typed \ lost THEN 1 ELSE 0
  BY DEF IInv, CountOK
<1>f. UNCHANGED fifo => InFifo(1, w)' = InFifo(1, w) /\ InFifo(2, w)' = InFifo(2, w)
  BY DEF InFifo
<1>b. UNCHANGED editor => InBuff(w)' = InBuff(w)
  BY DEF InBuff
<1>q. UNCHANGED queue => InQueue(w)' = InQueue(w)
  BY DEF InQueue
<1>h. UNCHANGED reader => InHand(1, w)' = InHand(1, w) /\ InHand(2, w)' = InHand(2, w)
  BY DEF InHand, At
<1>s. UNCHANGED sfifo => InSfifo(w)' = InSfifo(w)
  BY DEF InSfifo
<1>v. UNCHANGED shown => InShown(w)' = InShown(w)
  BY DEF InShown
<1>g. ASSUME /\ UNCHANGED <<typed, fifo, queue, sfifo, shown, lost, interrupted>>
             /\ InBuff(w)' = InBuff(w)
             /\ InHand(1, w)' = InHand(1, w) /\ InHand(2, w)' = InHand(2, w)
      PROVE  Everywhere(w)' = IF w \in typed' \ lost' THEN 1 ELSE 0
  BY <1>0, <1>f, <1>g, <1>q, <1>s, <1>v DEF Everywhere
<1>1. ASSUME NEW i \in Readers, NEW x \in Words, Report(i, x)
      PROVE  Everywhere(w)' = IF w \in typed' \ lost' THEN 1 ELSE 0
  <2>1. /\ x \notin typed /\ typed' = typed \cup {x} /\ fifo' = [fifo EXCEPT ![i] = Append(@, x)]
        /\ UNCHANGED <<editor, queue, reader, sfifo, shown, lost, interrupted>>
    BY <1>1 DEF Report, screenVars, history
  <2>2. fifo[i] \in Seq(Words) /\ lost \subseteq typed
    <3>1. fifo[i] \in Seq(typed) /\ typed \subseteq Words
      BY <1>p DEF FifoTypes
    <3> QED
      BY <1>p, <3>1, SeqMonotonic DEF FifoTypes
  <2>3. HowMany(Append(fifo[i], x), {w}) = HowMany(fifo[i], {w}) + (IF x \in {w} THEN 1 ELSE 0)
    BY <2>2, CountAppend
  <2>4. \A j \in Readers : fifo'[j] = IF j = i THEN Append(fifo[i], x) ELSE fifo[j]
    BY <1>p, <2>1 DEF FifoTypes
  <2>5. InFifo(1, w)' + InFifo(2, w)' = InFifo(1, w) + InFifo(2, w) + (IF x = w THEN 1 ELSE 0)
    <3>a. PICK a \in {0, 1} : a = IF x \in {w} THEN 1 ELSE 0
      OBVIOUS
    <3>1. CASE i = 1
      <4>a. fifo'[1] = Append(fifo[1], x) /\ fifo'[2] = fifo[2]
        BY <2>4, <3>1 DEF Readers
      <4>b. HowMany(Append(fifo[1], x), {w}) = HowMany(fifo[1], {w}) + a
        BY <2>3, <3>1, <3>a
      <4>1. InFifo(1, w)' = InFifo(1, w) + a /\ InFifo(2, w)' = InFifo(2, w)
        BY <4>a, <4>b DEF InFifo
      <4> QED
        BY <1>n, <3>a, <4>1
    <3>2. CASE i = 2
      <4>a. fifo'[2] = Append(fifo[2], x) /\ fifo'[1] = fifo[1]
        BY <2>4, <3>2 DEF Readers
      <4>b. HowMany(Append(fifo[2], x), {w}) = HowMany(fifo[2], {w}) + a
        BY <2>3, <3>2, <3>a
      <4>1. InFifo(2, w)' = InFifo(2, w) + a /\ InFifo(1, w)' = InFifo(1, w)
        BY <4>a, <4>b DEF InFifo
      <4> QED
        BY <1>n, <3>a, <4>1
    <3> QED
      BY <3>1, <3>2 DEF Readers
  <2>6. InFifo(1, w)' \in Nat /\ InFifo(2, w)' \in Nat
    BY <1>m
  <2>r. PICK rest \in Nat :
          rest = InBuff(w) + InQueue(w) + InHand(1, w) + InHand(2, w) + InSfifo(w) + InShown(w)
    BY <1>n
  <2>7. Everywhere(w) = InFifo(1, w) + InFifo(2, w) + rest
    BY <1>n, <2>r DEF Everywhere
  <2>8. Everywhere(w)' = InFifo(1, w)' + InFifo(2, w)' + rest
    <3>1. /\ InBuff(w)' = InBuff(w) /\ InQueue(w)' = InQueue(w) /\ InHand(1, w)' = InHand(1, w)
          /\ InHand(2, w)' = InHand(2, w) /\ InSfifo(w)' = InSfifo(w) /\ InShown(w)' = InShown(w)
      BY <1>b, <1>h, <1>q, <1>s, <1>v, <2>1
    <3> QED
      BY <1>n, <2>6, <2>r, <3>1 DEF Everywhere
  <2>9. Everywhere(w)' = Everywhere(w) + (IF x = w THEN 1 ELSE 0)
    BY <1>n, <2>5, <2>6, <2>7, <2>8
  <2> QED
    BY <1>0, <2>1, <2>2, <2>9
<1>2. ASSUME Select PROVE Everywhere(w)' = IF w \in typed' \ lost' THEN 1 ELSE 0
  <2>1. editor'.buff = editor.buff
    BY <1>2, <1>p DEF Select, EditorTypes, EditorStates
  <2>2. InBuff(w)' = InBuff(w)
    BY <2>1 DEF InBuff
  <2> QED
    BY <1>2, <1>g, <1>h, <2>2 DEF Select, screenVars, history
<1>3. ASSUME NEW i \in Readers, ReadFifo(i)
      PROVE  Everywhere(w)' = IF w \in typed' \ lost' THEN 1 ELSE 0
  <2>0. /\ editor.pc \in {"isset1", "isset2"} /\ editor.buff = Junk
        /\ UNCHANGED <<typed, queue, reader, sfifo, shown, interrupted>>
        /\ i \in editor.rset => fifo[i] # <<>>
    <3>1. editor.pc \in {"isset1", "isset2"}
      BY <1>3 DEF ReadFifo, IsSet, Readers
    <3> QED
      BY <1>3, <3>1, ReadTypes DEF ReadFifo, screenVars, IInv, EditorOK
  <2>1. CASE i \in editor.rset
    <3>1. /\ editor'.buff = Head(fifo[i])
          /\ fifo' = [fifo EXCEPT ![i] = SubSeq(@, 3, Len(@))]
          /\ lost' = lost \cup (IF Len(fifo[i]) > 1 THEN {fifo[i][2]} ELSE {})
      BY <1>3, <1>p, <2>1 DEF ReadFifo, EditorTypes, EditorStates
    <3>2. /\ fifo[i] \in Seq(typed) /\ fifo[i] # <<>>
          /\ Len(fifo[i]) > 1 => fifo[i][2] \in typed
      BY <1>p, <2>0, <2>1, Dropped DEF FifoTypes
    <3>3. HowMany(SubSeq(fifo[i], 3, Len(fifo[i])), {w}) =
            HowMany(fifo[i], {w}) - (IF Head(fifo[i]) = w THEN 1 ELSE 0)
                                  - (IF Len(fifo[i]) > 1 /\ fifo[i][2] = w THEN 1 ELSE 0)
      BY <3>2, Dropped
    <3>4. \A j \in Readers : fifo'[j] = IF j = i THEN SubSeq(fifo[i], 3, Len(fifo[i])) ELSE fifo[j]
      BY <1>p, <3>1 DEF FifoTypes
    <3>a. PICK a \in {0, 1} : a = IF Head(fifo[i]) = w THEN 1 ELSE 0
      OBVIOUS
    <3>b. PICK b \in {0, 1} : b = IF Len(fifo[i]) > 1 /\ fifo[i][2] = w THEN 1 ELSE 0
      OBVIOUS
    <3>5. InFifo(1, w)' + InFifo(2, w)' = InFifo(1, w) + InFifo(2, w) - a - b
      <4>1. CASE i = 1
        <5>a. fifo'[1] = SubSeq(fifo[1], 3, Len(fifo[1])) /\ fifo'[2] = fifo[2]
          BY <3>4, <4>1 DEF Readers
        <5>b. HowMany(SubSeq(fifo[1], 3, Len(fifo[1])), {w}) = HowMany(fifo[1], {w}) - a - b
          BY <3>3, <3>a, <3>b, <4>1
        <5>1. InFifo(1, w)' = InFifo(1, w) - a - b /\ InFifo(2, w)' = InFifo(2, w)
          BY <5>a, <5>b DEF InFifo
        <5> QED
          BY <1>n, <5>1
      <4>2. CASE i = 2
        <5>a. fifo'[2] = SubSeq(fifo[2], 3, Len(fifo[2])) /\ fifo'[1] = fifo[1]
          BY <3>4, <4>2 DEF Readers
        <5>b. HowMany(SubSeq(fifo[2], 3, Len(fifo[2])), {w}) = HowMany(fifo[2], {w}) - a - b
          BY <3>3, <3>a, <3>b, <4>2
        <5>1. InFifo(2, w)' = InFifo(2, w) - a - b /\ InFifo(1, w)' = InFifo(1, w)
          BY <5>a, <5>b DEF InFifo
        <5> QED
          BY <1>n, <5>1
      <4> QED
        BY <4>1, <4>2 DEF Readers
    <3>6. InFifo(1, w)' \in Nat /\ InFifo(2, w)' \in Nat
      BY <1>m
    <3>7. InBuff(w) = 0 /\ InBuff(w)' = a
      BY <1>w, <2>0, <3>1, <3>a DEF InBuff
    <3>r. PICK rest \in Nat :
            rest = InQueue(w) + InHand(1, w) + InHand(2, w) + InSfifo(w) + InShown(w)
      BY <1>n
    <3>c. Everywhere(w) = InFifo(1, w) + InFifo(2, w) + rest
      BY <1>n, <3>7, <3>r DEF Everywhere
    <3>d. Everywhere(w)' = InFifo(1, w)' + InFifo(2, w)' + a + rest
      <4>1. /\ InQueue(w)' = InQueue(w) /\ InHand(1, w)' = InHand(1, w)
            /\ InHand(2, w)' = InHand(2, w) /\ InSfifo(w)' = InSfifo(w) /\ InShown(w)' = InShown(w)
        BY <1>h, <1>q, <1>s, <1>v, <2>0
      <4> QED
        BY <1>n, <3>6, <3>7, <3>r, <4>1 DEF Everywhere
    <3>8. Everywhere(w)' = Everywhere(w) - b /\ Everywhere(w)' \in Nat
      BY <1>n, <3>5, <3>6, <3>c, <3>d
    <3>9. w \in typed' \ lost' <=> w \in typed \ lost /\ b = 0
      BY <2>0, <3>1, <3>b
    <3>10. b = 1 => w \in typed
      BY <3>2, <3>b
    <3> QED
      BY <1>0, <2>0, <3>8, <3>9, <3>10
  <2>2. CASE i \notin editor.rset
    <3>1. editor'.buff = editor.buff /\ UNCHANGED <<fifo, lost>>
      BY <1>3, <1>p, <2>2 DEF ReadFifo, EditorTypes, EditorStates
    <3>2. InBuff(w)' = InBuff(w)
      BY <3>1 DEF InBuff
    <3> QED
      BY <1>g, <1>h, <2>0, <3>1, <3>2
  <2> QED
    BY <2>1, <2>2
<1>4. ASSUME NEW i \in Readers, Send(i)
      PROVE  Everywhere(w)' = IF w \in typed' \ lost' THEN 1 ELSE 0
  <2>m. PICK m : m = [type |-> alt, text |-> editor.buff]
    OBVIOUS
  <2>1. /\ queue' = Append(queue, m) /\ editor'.buff = Junk
        /\ editor.pc \in {"send1", "send2"}
        /\ UNCHANGED <<typed, fifo, reader, sfifo, shown, lost, interrupted>>
    BY <1>4, <1>p, <2>m
       DEF Send, Sending, Readers, EditorTypes, EditorStates, screenVars, history
  <2>2. m \in Messages(typed) /\ queue \in Seq(Messages(typed))
    BY <1>p, <2>1, <2>m DEF IInv, EditorOK, EditorTypes, QueueTypes, Messages
  <2>3. m \in Carrying(w) <=> editor.buff = w
    BY <1>p, <2>m DEF Carrying, EditorTypes
  <2>4. HowMany(queue', Carrying(w)) =
          HowMany(queue, Carrying(w)) + (IF m \in Carrying(w) THEN 1 ELSE 0)
    BY <2>1, <2>2, CountAppend
  <2>5. InQueue(w)' = InQueue(w) + InBuff(w) /\ InBuff(w)' = 0
    BY <1>n, <1>w, <2>1, <2>3, <2>4 DEF InQueue, InBuff, Carrying
  <2> QED
    BY <1>0, <1>f, <1>h, <1>n, <1>s, <1>v, <2>1, <2>5 DEF Everywhere
<1>5. ASSUME Show PROVE Everywhere(w)' = IF w \in typed' \ lost' THEN 1 ELSE 0
  <2>1. /\ shown' = shown \cup {Head(sfifo)} /\ sfifo' = Tail(sfifo) /\ sfifo # <<>>
        /\ UNCHANGED <<typed, fifo, editor, queue, reader, lost, interrupted>>
    BY <1>5 DEF Show, editorVars, history
  <2>2. HowMany(Tail(sfifo), {w}) = HowMany(sfifo, {w}) - (IF Head(sfifo) \in {w} THEN 1 ELSE 0)
    BY <1>p, <2>1, CountTail DEF ScreenTypes
  <2>3. InSfifo(w)' = InSfifo(w) - (IF Head(sfifo) = w THEN 1 ELSE 0) /\ InSfifo(w)' \in Nat
    <3>1. InSfifo(w)' \in Nat
      BY <1>m
    <3> QED
      BY <2>1, <2>2, <3>1 DEF InSfifo
  <2>4. Everywhere(w) <= 1
    BY <1>0, <2>1
  <2>5. InSfifo(w) + InShown(w) <= 1
    BY <1>n, <2>4 DEF Everywhere
  <2>6. InSfifo(w)' + InShown(w)' = InSfifo(w) + InShown(w)
    <3>1. CASE Head(sfifo) = w
      <4>1. InShown(w) = 0 /\ InShown(w)' = 1
        BY <1>n, <2>1, <2>3, <2>5, <3>1 DEF InShown
      <4> QED
        BY <1>n, <2>3, <3>1, <4>1
    <3>2. CASE Head(sfifo) # w
      BY <1>n, <2>1, <2>3, <3>2 DEF InShown
    <3> QED
      BY <3>1, <3>2
  <2>7. InShown(w)' \in Nat /\ InSfifo(w)' \in Nat
    BY <1>m
  <2>r. PICK rest \in Nat :
          rest = InFifo(1, w) + InFifo(2, w) + InBuff(w) + InQueue(w) + InHand(1, w) + InHand(2, w)
    BY <1>n
  <2>8. Everywhere(w) = rest + InSfifo(w) + InShown(w)
    BY <1>n, <2>r DEF Everywhere
  <2>9. Everywhere(w)' = rest + InSfifo(w)' + InShown(w)'
    BY <1>b, <1>f, <1>h, <1>n, <1>q, <2>1, <2>7, <2>r DEF Everywhere
  <2>10. Everywhere(w)' = Everywhere(w)
    BY <1>n, <2>6, <2>7, <2>8, <2>9
  <2> QED
    BY <1>0, <2>1, <2>10
<1>6. ASSUME TelecastAccept \/ TelecastStart \/ UNCHANGED vars
      PROVE  Everywhere(w)' = IF w \in typed' \ lost' THEN 1 ELSE 0
  BY <1>6, <1>b, <1>g, <1>h
     DEF TelecastAccept, TelecastStart, vars, editorVars, screenVars, history
<1>7. ASSUME NEW r \in Readers, Deliver(r)
      PROVE  Everywhere(w)' = IF w \in typed' \ lost' THEN 1 ELSE 0
  <2>1. /\ UNCHANGED <<typed, fifo, editor, queue, sfifo, shown, lost, interrupted>>
        /\ \A s \in Readers : reader'[s].pc = reader[s].pc /\ reader'[s].msg = reader[s].msg
    BY <1>7, <1>p DEF Deliver, editorVars, screenVars, ReaderTypes, ReaderStates
  <2>2. InHand(1, w)' = InHand(1, w) /\ InHand(2, w)' = InHand(2, w)
    BY <2>1 DEF InHand, At, Readers
  <2> QED
    BY <1>b, <1>g, <2>1, <2>2
<1>8. ASSUME NEW r \in Readers, Receive(r)
      PROVE  Everywhere(w)' = IF w \in typed' \ lost' THEN 1 ELSE 0
  <2>1. /\ At(r, "receive")
        /\ UNCHANGED <<typed, fifo, editor, sfifo, shown, lost, interrupted>>
    BY <1>8 DEF Receive, editorVars, screenVars, history
  <2>2. PICK n \in DOMAIN queue :
          /\ queue' = Removed(queue, n) /\ queue[n] \in Messages(typed)
          /\ reader' = [reader EXCEPT ![r].msg = queue[n].text, ![r].pc = "act"]
    BY <1>8, <1>p, ReceiveTypes
  <2>3. HowMany(Removed(queue, n), Carrying(w)) =
          HowMany(queue, Carrying(w)) - (IF queue[n] \in Carrying(w) THEN 1 ELSE 0)
    BY <1>p, CountRemoved DEF QueueTypes
  <2>4. queue[n] \in Carrying(w) <=> queue[n].text = w
    BY <2>2 DEF Carrying, Messages
  <2>a. PICK a \in {0, 1} : a = IF queue[n].text = w THEN 1 ELSE 0
    OBVIOUS
  <2>5. InQueue(w)' = InQueue(w) - a
    BY <1>n, <2>2, <2>3, <2>4, <2>a DEF InQueue, Carrying
  <2>6. /\ reader'[r].pc = "act" /\ reader'[r].msg = queue[n].text
        /\ \A s \in Readers \ {r} : reader'[s] = reader[s]
    BY <1>p, <2>2 DEF ReaderTypes, ReaderStates
  <2>7. InHand(1, w)' + InHand(2, w)' = InHand(1, w) + InHand(2, w) + a
    <3>1. CASE r = 1
      <4>1. InHand(1, w) = 0 /\ InHand(1, w)' = a /\ InHand(2, w)' = InHand(2, w)
        BY <2>1, <2>6, <2>a, <3>1 DEF InHand, At, Readers
      <4> QED
        BY <1>n, <4>1
    <3>2. CASE r = 2
      <4>1. InHand(2, w) = 0 /\ InHand(2, w)' = a /\ InHand(1, w)' = InHand(1, w)
        BY <2>1, <2>6, <2>a, <3>2 DEF InHand, At, Readers
      <4> QED
        BY <1>n, <4>1
    <3> QED
      BY <3>1, <3>2 DEF Readers
  <2>8. InHand(1, w)' \in Nat /\ InHand(2, w)' \in Nat /\ InQueue(w)' \in Nat
    BY <1>m
  <2> QED
    BY <1>0, <1>b, <1>f, <1>n, <1>s, <1>v, <2>1, <2>5, <2>7, <2>8 DEF Everywhere
<1>9. ASSUME NEW r \in Readers, NEW pc \in {"top", "receive", "pause", "resume", "endless"},
             ~At(r, "act") \/ reader[r].msg # w, Goto(r, pc),
             UNCHANGED <<typed, fifo, editor, queue, sfifo, shown, lost, interrupted>>
      PROVE  Everywhere(w)' = IF w \in typed' \ lost' THEN 1 ELSE 0
  <2>1. reader'[r].pc = pc /\ \A s \in Readers \ {r} : reader'[s] = reader[s]
    BY <1>9, <1>p DEF Goto, ReaderTypes, ReaderStates
  <2>2. InHand(1, w)' = InHand(1, w) /\ InHand(2, w)' = InHand(2, w)
    <3>1. CASE r = 1
      BY <1>9, <2>1, <3>1 DEF InHand, At, Readers
    <3>2. CASE r = 2
      BY <1>9, <2>1, <3>2 DEF InHand, At, Readers
    <3> QED
      BY <3>1, <3>2 DEF Readers
  <2> QED
    BY <1>9, <1>b, <1>g, <2>2
<1>10. ASSUME NEW r \in Readers, Act(r)
       PROVE  Everywhere(w)' = IF w \in typed' \ lost' THEN 1 ELSE 0
  <2>0. /\ At(r, "act")
        /\ UNCHANGED <<typed, fifo, editor, queue, shown, lost, interrupted>>
    BY <1>10 DEF Act, editorVars, history
  <2>1. CASE /\ sfifo' = Append(sfifo, reader[r].msg) /\ reader[r].msg \notin Live
             /\ Goto(r, "top")
    <3>a. PICK a \in {0, 1} : a = IF reader[r].msg = w THEN 1 ELSE 0
      OBVIOUS
    <3>1. InSfifo(w)' = InSfifo(w) + a
      <4>1. reader[r].msg \in News \cup {Junk} /\ sfifo \in Seq(News \cup {Junk})
        BY <1>p, <2>1 DEF ReaderTypes, ReaderStates, FifoTypes, ScreenTypes, Words
      <4>2. HowMany(sfifo', {w}) = HowMany(sfifo, {w}) + (IF reader[r].msg \in {w} THEN 1 ELSE 0)
        BY <2>1, <4>1, CountAppend
      <4> QED
        BY <1>n, <3>a, <4>2 DEF InSfifo
    <3>2. reader'[r].pc = "top" /\ \A s \in Readers \ {r} : reader'[s] = reader[s]
      BY <1>p, <2>1 DEF Goto, ReaderTypes, ReaderStates
    <3>3. InHand(1, w)' + InHand(2, w)' = InHand(1, w) + InHand(2, w) - a
      <4>1. CASE r = 1
        <5>1. InHand(1, w) = a /\ InHand(1, w)' = 0 /\ InHand(2, w)' = InHand(2, w)
          BY <2>0, <3>2, <3>a, <4>1 DEF InHand, At, Readers
        <5> QED
          BY <1>n, <5>1
      <4>2. CASE r = 2
        <5>1. InHand(2, w) = a /\ InHand(2, w)' = 0 /\ InHand(1, w)' = InHand(1, w)
          BY <2>0, <3>2, <3>a, <4>2 DEF InHand, At, Readers
        <5> QED
          BY <1>n, <5>1
      <4> QED
        BY <4>1, <4>2 DEF Readers
    <3>4. InHand(1, w)' \in Nat /\ InHand(2, w)' \in Nat
      BY <1>m
    <3> QED
      BY <1>0, <1>b, <1>f, <1>n, <1>q, <1>v, <2>0, <3>1, <3>3, <3>4 DEF Everywhere
  <2>2. CASE /\ reader[r].msg \notin News /\ UNCHANGED sfifo
             /\ Goto(r, "pause") \/ Goto(r, "top")
    BY <1>9, <2>0, <2>2
  <2> QED
    BY <1>10, <2>1, <2>2 DEF Act
<1>11. ASSUME NEW r \in Readers, Top(r) \/ Relay(r)
       PROVE  Everywhere(w)' = IF w \in typed' \ lost' THEN 1 ELSE 0
  <2>1. /\ ~At(r, "act")
        /\ Goto(r, "receive") \/ Goto(r, "resume") \/ Goto(r, "endless")
        /\ UNCHANGED <<typed, fifo, editor, queue, sfifo, shown, lost, interrupted>>
    BY <1>11 DEF Top, Relay, At, editorVars, screenVars, history
  <2> QED
    BY <1>9, <2>1
<1>12. ASSUME NEW r \in Readers, Endless(r)
       PROVE  Everywhere(w)' = IF w \in typed' \ lost' THEN 1 ELSE 0
  <2>1. /\ sfifo' = Append(sfifo, Junk) /\ sfifo \in Seq(News \cup {Junk})
        /\ UNCHANGED <<typed, fifo, editor, queue, reader, shown, lost, interrupted>>
    BY <1>12, <1>p DEF Endless, ScreenTypes, editorVars, history
  <2>2. HowMany(sfifo', {w}) = HowMany(sfifo, {w}) + (IF Junk \in {w} THEN 1 ELSE 0)
    BY <2>1, CountAppend
  <2>3. InSfifo(w)' = InSfifo(w)
    BY <1>n, <1>w, <2>2 DEF InSfifo
  <2> QED
    BY <1>0, <1>b, <1>f, <1>h, <1>q, <1>v, <2>1, <2>3 DEF Everywhere
<1>13. ASSUME NEW r \in Readers, NEW signal, NEW pc \in {"relay", "again", "top"},
              ~At(r, "act"), Kill(r, signal, pc)
       PROVE  Everywhere(w)' = IF w \in typed' \ lost' THEN 1 ELSE 0
  <2>1. UNCHANGED <<typed, fifo, queue, sfifo, shown, interrupted>>
    BY <1>13 DEF Kill
  <2>2. \/ editor'.buff = editor.buff /\ lost' = lost
        \/ editor'.buff = Junk /\ lost' = lost \cup ({editor.buff} \ {Junk})
    BY <1>13, <1>p DEF Kill, EditorTypes, EditorStates
  <2>3. /\ reader'[r].pc = pc
        /\ \A s \in Readers \ {r} : reader'[s].pc = reader[s].pc /\ reader'[s].msg = reader[s].msg
    BY <1>13, <1>p DEF Kill, ReaderTypes, ReaderStates
  <2>4. InHand(1, w)' = InHand(1, w) /\ InHand(2, w)' = InHand(2, w)
    <3>1. CASE r = 1
      BY <1>13, <2>3, <3>1 DEF InHand, At, Readers
    <3>2. CASE r = 2
      BY <1>13, <2>3, <3>2 DEF InHand, At, Readers
    <3> QED
      BY <3>1, <3>2 DEF Readers
  <2>5. CASE editor.buff # w \/ (editor'.buff = editor.buff /\ lost' = lost)
    <3>1. InBuff(w)' = InBuff(w)
      BY <1>w, <2>2, <2>5 DEF InBuff
    <3>2. w \in typed' \ lost' <=> w \in typed \ lost
      BY <2>1, <2>2, <2>5
    <3>3. Everywhere(w)' = Everywhere(w)
      BY <1>f, <1>q, <1>s, <1>v, <2>1, <2>4, <3>1 DEF Everywhere
    <3> QED
      BY <1>0, <2>1, <3>2, <3>3
  <2>6. CASE editor.buff = w /\ editor'.buff = Junk /\ lost' = lost \cup ({editor.buff} \ {Junk})
    <3>1. InBuff(w) = 1 /\ InBuff(w)' = 0 /\ w \notin typed' \ lost'
      BY <1>w, <2>6 DEF InBuff
    <3>2. Everywhere(w)' = Everywhere(w) - 1 /\ Everywhere(w) >= 1
      BY <1>f, <1>n, <1>q, <1>s, <1>v, <2>1, <2>4, <3>1 DEF Everywhere
    <3> QED
      BY <1>0, <2>1, <3>1, <3>2
  <2> QED
    BY <2>2, <2>5, <2>6
<1>14. ASSUME NEW r \in Readers, Pause(r) \/ Resume(r)
       PROVE  Everywhere(w)' = IF w \in typed' \ lost' THEN 1 ELSE 0
  BY <1>13, <1>14 DEF Pause, Resume, At
<1> QED
  <2>1. ASSUME NEW r \in Readers, Reader(r)
        PROVE  Everywhere(w)' = IF w \in typed' \ lost' THEN 1 ELSE 0
    BY <1>8, <1>10, <1>11, <1>12, <1>14, <2>1 DEF Reader
  <2> QED
    BY <1>1, <1>2, <1>3, <1>4, <1>5, <1>6, <1>7, <2>1 DEF Next, Editor

(* A word that is no number is in one place, from the FIFO it was written  *)
(* to until it is shown, but for one that was read behind another and one  *)
(* in the editor's buff when the readers' signal ends it, which are lost   *)
(* (editor.c:60-64); as long as no signal has interrupted a msgrcv         *)
(* (reader1.c:58).                                                         *)
THEOREM WordsKept == Spec => []OneCopy
<1>1. Init => IInv
  BY TypeInit, CountInit DEF IInv
<1>2. IInv /\ [Next]_vars => IInv'
  BY TypeNext, CountNext DEF IInv
<1>3. IInv => OneCopy
  BY HeldParts DEF IInv, CountOK, OneCopy
<1> QED
  BY <1>1, <1>2, <1>3, PTL DEF Spec
=============================================================================
