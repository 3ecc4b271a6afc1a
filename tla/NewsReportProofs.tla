-------------------------- MODULE NewsReportProofs --------------------------
(***************************************************************************)
(* Proofs about NewsReport, for any number of reporters, any messages and  *)
(* any sizes.                                                              *)
(***************************************************************************)
EXTENDS NewsReport, SequenceTheorems, FiniteSetTheorems, TLAPS

Entries == [type : {2, PtrType}, text : Cells]

(* What a reporter writes is a sequence of cells.                          *)
LEMMA BytesType == \A m \in Messages : Bytes(m) \in Seq(Cells) /\ Len(Bytes(m)) = m.size
<1> SUFFICES ASSUME NEW m \in Messages
             PROVE  Bytes(m) \in Seq(Cells) /\ Len(Bytes(m)) = m.size
  OBVIOUS
<1>1. m \in [kind : Kinds, size : 2 .. ReadSize] /\ ReadSize \in Nat
  BY SizesAssumption
<1>2. m.size \in Nat /\ m.size <= ReadSize
  BY <1>1
<1>3. \A i \in 1 .. m.size : [msg |-> m, pos |-> i] \in Cells
  BY <1>2, <1>1 DEF Cells
<1>4. Bytes(m) \in Seq(Cells)
  BY <1>2, <1>3, IsASeq DEF Bytes
<1> QED
  BY <1>2, <1>4, LenProperties DEF Bytes

(* A part of a sequence is a sequence of the same elements.                *)
LEMMA PartType ==
  ASSUME NEW S, NEW s \in Seq(S), NEW i \in Nat \ {0}, NEW n \in Nat, n <= Len(s)
  PROVE  SubSeq(s, i, n) \in Seq(S)
<1>1. Len(s) \in Nat
  BY LenProperties
<1> QED
  BY <1>1, SubSeqProperties

(* What is left of a queue when a message is taken is such a queue.        *)
LEMMA WithoutType ==
  ASSUME NEW S, NEW q \in Seq(S), NEW i \in DOMAIN q
  PROVE  Without(q, i) \in Seq(S)
<1>1. Len(q) \in Nat /\ i \in 1 .. Len(q)
  BY LenProperties
<1>2. SubSeq(q, 1, i - 1) \in Seq(S) /\ SubSeq(q, i + 1, Len(q)) \in Seq(S)
  BY <1>1, PartType
<1> QED
  BY <1>2, ConcatProperties DEF Without

-----------------------------------------------------------------------------
(* While the telecaster waits for its operator it has a connection.        *)
OnAirOK == onAir => calls # <<>>

Typed == TypeOK /\ OnAirOK

(* The initial state is well-typed.                                        *)
LEMMA TypeInit == Init => Typed
<1> SUFFICES ASSUME Init PROVE Typed
  OBVIOUS
<1>1. /\ <<>> \in Seq(Cells) /\ <<>> \in Seq(Entries)
      /\ <<>> \in Seq(Readers \cup {Nobody})
  BY EmptySeq
<1>2. /\ fifo \in [Reporters -> Seq(Cells)]
      /\ chunk \in Seq(Cells) /\ doc \in Seq(Cells) /\ queue \in Seq(Entries)
      /\ calls \in Seq(Readers \cup {Nobody}) /\ lastType \in {0, PtrType}
  BY <1>1 DEF Init
<1>3. onAir \in BOOLEAN /\ OnAirOK
  BY DEF Init, OnAirOK
<1>4. /\ reader \in [Readers -> Places]
      /\ text \in [Readers -> {NoText} \cup Entries]
      /\ flag \in {0, 1} /\ screen \in 0 .. ScreenCap
  BY SizesAssumption DEF Init, Places
<1> QED
  BY <1>2, <1>3, <1>4 DEF Typed, TypeOK, Entries

(* msgsnd puts an entry into the queue and empties the chunk.              *)
LEMMA EnqueueType ==
  ASSUME TypeOK, NEW type \in {2, PtrType}, Enqueue(type), chunk # <<>>
  PROVE  queue' \in Seq(Entries) /\ chunk' \in Seq(Cells)
<1>1. Head(chunk) \in Cells
  BY HeadTailProperties DEF TypeOK
<1>2. [type |-> type, text |-> Head(chunk)] \in Entries
  BY <1>1 DEF Entries
<1>3. queue' \in Seq(Entries)
  BY <1>2, AppendProperties DEF TypeOK, Enqueue, Entries
<1> QED
  BY <1>3, EmptySeq DEF Enqueue

(* Every action leaves every variable in its range.                        *)
LEMMA TypeNext == Typed /\ [Next]_vars => Typed'
<1> SUFFICES ASSUME Typed, [Next]_vars PROVE Typed'
  OBVIOUS
<1> USE SizesAssumption, TypesAssumption
    DEF Typed, TypeOK, OnAirOK, editorVars, readerVars, castVars
<1>1. ASSUME NEW r \in Reporters, Report(r) PROVE Typed'
  <2>1. PICK m \in Messages : fifo' = [fifo EXCEPT ![r] = @ \o Bytes(m)]
    BY <1>1 DEF Report
  <2>2. fifo[r] \o Bytes(m) \in Seq(Cells)
    BY BytesType, ConcatProperties
  <2>3. fifo' \in [Reporters -> Seq(Cells)]
    BY <2>1, <2>2
  <2> QED
    BY <1>1, <2>3 DEF Report
<1>2. ASSUME NEW r \in Reporters, EditorRead(r) PROVE Typed'
  <2> DEFINE n == Least(ReadSize, Len(fifo[r]))
  <2>1. fifo[r] \in Seq(Cells) /\ Len(fifo[r]) \in Nat
    BY LenProperties
  <2>2. n \in Nat /\ n <= Len(fifo[r])
    BY <2>1 DEF Least
  <2>3. SubSeq(fifo[r], 1, n) \in Seq(Cells)
    BY <2>1, <2>2, PartType
  <2>4. SubSeq(fifo[r], n + 1, Len(fifo[r])) \in Seq(Cells)
    BY <2>1, <2>2, PartType
  <2>5. /\ chunk' = SubSeq(fifo[r], 1, n)
        /\ fifo' = [fifo EXCEPT ![r] = SubSeq(fifo[r], n + 1, Len(fifo[r]))]
    BY <1>2 DEF EditorRead
  <2>6. chunk' \in Seq(Cells) /\ fifo' \in [Reporters -> Seq(Cells)]
    BY <2>3, <2>4, <2>5
  <2> QED
    BY <1>2, <2>6 DEF EditorRead
<1>3. CASE EditorDoc
  <2>1. chunk' \in Seq(Cells) /\ doc' \in Seq(Cells)
    BY <1>3, EmptySeq, ConcatProperties DEF EditorDoc
  <2> QED
    BY <1>3, <2>1 DEF EditorDoc
<1>4. CASE EditorAdvert
  <2>1. queue' \in Seq(Entries) /\ chunk' \in Seq(Cells)
    BY <1>4, EnqueueType DEF EditorAdvert
  <2> QED
    BY <1>4, <2>1 DEF EditorAdvert, Entries
<1>5. CASE EditorNews
  <2>1. queue' \in Seq(Entries) /\ chunk' \in Seq(Cells)
    BY <1>5, EnqueueType DEF EditorNews
  <2> QED
    BY <1>5, <2>1 DEF EditorNews, Entries
<1>6. CASE DocumentRead
  <2> DEFINE n == Least(ReadSize, Len(doc))
  <2>1. Len(doc) \in Nat
    BY LenProperties
  <2>2. n \in Nat
    BY <2>1 DEF Least
  <2>3. SubSeq(doc, n + 1, Len(doc)) \in Seq(Cells)
    BY <2>1, <2>2, PartType
  <2> QED
    BY <1>6, <2>3 DEF DocumentRead
<1>7. CASE AdvertReceive
  <2>1. queue' \in Seq(Entries)
    BY <1>7, WithoutType DEF AdvertReceive, Entries
  <2> QED
    BY <1>7, <2>1 DEF AdvertReceive, Entries
<1>8. CASE ScreenRead
  BY <1>8 DEF ScreenRead
<1>9. ASSUME NEW d \in Readers, Receive(d) PROVE Typed'
  <2>1. PICK i \in DOMAIN queue : /\ text' = [text EXCEPT ![d] = queue[i]]
                                  /\ queue' = Without(queue, i)
    BY <1>9 DEF Receive
  <2>2. queue' \in Seq(Entries)
    BY <2>1, WithoutType DEF Entries
  <2>3. queue[i] \in Entries
    <3>1. i \in 1 .. Len(queue) /\ queue \in Seq(Entries)
      BY LenProperties DEF Entries
    <3> QED
      BY <3>1, ElementOfSeq
  <2>4. text' \in [Readers -> {NoText} \cup Entries]
    BY <2>1, <2>3 DEF Entries
  <2> QED
    BY <1>9, <2>2, <2>4 DEF Receive, Goto, Places, Entries
<1>10. ASSUME NEW d \in Readers, ReaderStart(d) PROVE Typed'
  BY <1>10 DEF ReaderStart, Goto, Places
<1>11. ASSUME NEW d \in Readers, ReaderKilled(d) PROVE Typed'
  <2> DEFINE e(i) == IF calls[i] = d THEN Nobody ELSE calls[i]
  <2>1. Len(calls) \in Nat /\ DOMAIN calls = 1 .. Len(calls)
        /\ \A i \in 1 .. Len(calls) : e(i) \in Readers \cup {Nobody}
    BY LenProperties
  <2>2. [i \in 1 .. Len(calls) |-> e(i)] \in Seq(Readers \cup {Nobody})
    BY <2>1, IsASeq
  <2>3. calls' \in Seq(Readers \cup {Nobody}) /\ OnAirOK'
    <3>1. calls' = [i \in 1 .. Len(calls) |-> e(i)]
      BY <1>11, <2>1 DEF ReaderKilled
    <3>2. calls # <<>> => 1 \in DOMAIN calls'
      BY <2>1, <3>1, EmptySeq
    <3> QED
      BY <1>11, <2>2, <3>1, <3>2, DOMAIN <<>> = {} DEF ReaderKilled
  <2>4. text' \in [Readers -> {NoText} \cup Entries] /\ reader' \in [Readers -> Places]
    BY <1>11 DEF ReaderKilled, Goto, Places, Entries
  <2> QED
    BY <1>11, <2>3, <2>4 DEF ReaderKilled, Entries
<1>12. ASSUME NEW d \in Readers, Spin(d) \/ Set(d) PROVE Typed'
  <2>1. reader' \in [Readers -> Places] /\ flag' \in {0, 1}
    BY <1>12 DEF Spin, Set, Goto, Places
  <2> QED
    BY <1>12, <2>1 DEF Spin, Set
<1>13. ASSUME NEW d \in Readers, Write(d) \/ Relay(d) PROVE Typed'
  BY <1>13 DEF Write, Relay, Goto, Places
<1>14. ASSUME NEW d \in Readers, Connect(d) PROVE Typed'
  <2>1. Append(calls, d) \in Seq(Readers \cup {Nobody}) /\ Append(calls, d) # <<>>
    <3> DEFINE Callers == Readers \cup {Nobody}
    <3>1. d \in Callers /\ calls \in Seq(Callers)
      OBVIOUS
    <3> HIDE DEF Callers
    <3>2. Append(calls, d) \in Seq(Callers) /\ Append(calls, d) # <<>>
      BY <3>1, AppendProperties
    <3> QED
      BY <3>2 DEF Callers
  <2> QED
    BY <1>14, <2>1 DEF Connect, Goto, Places
<1>15. ASSUME NEW d \in Readers, Clear(d) PROVE Typed'
  BY <1>15 DEF Clear, Goto, Places
<1>16. CASE TelecastAccept
  BY <1>16 DEF TelecastAccept
<1>17. CASE TelecastType
  <2>1. Tail(calls) \in Seq(Readers \cup {Nobody})
    BY <1>17, HeadTailProperties DEF TelecastType
  <2> QED
    BY <1>17, <2>1 DEF TelecastType
<1>18. CASE UNCHANGED vars
  BY <1>18 DEF vars
<1> QED
  BY <1>1, <1>2, <1>3, <1>4, <1>5, <1>6, <1>7, <1>8, <1>9, <1>10, <1>11, <1>12, <1>13,
     <1>14, <1>15, <1>16, <1>17, <1>18 DEF Next, Editor, Reader

(* Every variable keeps its type in every execution.                       *)
THEOREM TypeCorrect == Spec => []TypeOK
<1>1. Typed => TypeOK
  BY DEF Typed
<1> QED
  BY TypeInit, TypeNext, <1>1, PTL DEF Spec

-----------------------------------------------------------------------------
(* The screen.  No message has type 1, so reader2 waits for ever, and      *)
(* reader1 is alone.                                                       *)
Reader2Waits == reader[2] \in {"off", "recv"}

(* reader2 never leaves msgrcv but by being killed.                        *)
LEMMA Reader2Next == Typed /\ Reader2Waits /\ [Next]_vars => Reader2Waits'
<1> SUFFICES ASSUME Typed, Reader2Waits, [Next]_vars PROVE Reader2Waits'
  OBVIOUS
<1> USE DEF Reader2Waits, editorVars, readerVars, castVars
<1>0. reader \in [Readers -> Places] /\ 2 \in Readers
  BY DEF Typed, TypeOK, Readers
<1>1. ASSUME NEW d \in Readers, Receive(d) PROVE Reader2Waits'
  <2>1. CASE d = 1
    BY <1>0, <1>1, <2>1 DEF Receive, Goto
  <2>2. CASE d = 2
    <3>1. PICK i \in DOMAIN queue : First(i, 1)
      BY <1>1, <2>2 DEF Receive, Wanted
    <3>2. queue[i].type = 1
      BY <3>1 DEF First, Matches
    <3>3. queue[i] \in Entries
      <4>1. i \in 1 .. Len(queue) /\ queue \in Seq(Entries)
        BY LenProperties DEF Entries, Typed, TypeOK
      <4> QED
        BY <4>1, ElementOfSeq
    <3> QED
      BY <3>2, <3>3, TypesAssumption DEF Entries
  <2> QED
    BY <2>1, <2>2 DEF Readers
<1>2. ASSUME NEW d \in Readers,
             Spin(d) \/ Set(d) \/ Write(d) \/ Connect(d) \/ Relay(d) \/ Clear(d)
      PROVE  Reader2Waits'
  <2>1. d # 2
    BY <1>2 DEF Spin, Set, Write, Connect, Relay, Clear
  <2> QED
    BY <1>0, <1>2, <2>1 DEF Spin, Set, Write, Connect, Relay, Clear, Goto
<1>3. ASSUME NEW d \in Readers, ReaderStart(d) \/ ReaderKilled(d) PROVE Reader2Waits'
  BY <1>0, <1>3 DEF ReaderStart, ReaderKilled, Goto
<1>4. ASSUME UNCHANGED reader PROVE Reader2Waits'
  BY <1>4
<1>5. ASSUME \/ \E r \in Reporters : Report(r)
             \/ Editor \/ DocumentRead \/ AdvertReceive \/ ScreenRead
             \/ TelecastAccept \/ TelecastType \/ UNCHANGED vars
      PROVE  UNCHANGED reader
  BY <1>5 DEF Report, Editor, EditorRead, EditorDoc, EditorAdvert, EditorNews, DocumentRead,
     AdvertReceive, ScreenRead, TelecastAccept, TelecastType, vars
<1> QED
  BY <1>1, <1>2, <1>3, <1>4, <1>5 DEF Next, Reader

(* The readers are never at the screen together, whoever is killed and     *)
(* started when: but the flag has no part in the argument.                 *)
THEOREM ScreenExclusive == Spec => []ScreenMutex
<1>1. Init => Reader2Waits
  BY DEF Init, Reader2Waits, Readers
<1>2. Reader2Waits => ScreenMutex
  <2> SUFFICES ASSUME Reader2Waits PROVE ScreenMutex
    OBVIOUS
  <2> DEFINE S == {d \in Readers : reader[d] \in {"write", "connect", "relay", "clear"}}
  <2>1. S \subseteq {1}
    BY DEF Reader2Waits, Readers
  <2>2. IsFiniteSet({1}) /\ Cardinality({1}) = 1
    BY FS_Singleton
  <2>3. Cardinality(S) <= 1
    BY <2>1, <2>2, FS_Subset
  <2> QED
    BY <2>3 DEF ScreenMutex
<1> QED
  BY TypeInit, TypeNext, <1>1, Reader2Next, <1>2, PTL DEF Spec

-----------------------------------------------------------------------------
(* The '\0's.  Every message in a FIFO has its end in the FIFO: the cell   *)
(* at position p of a message of n bytes is followed, n - p cells later,   *)
(* by the last one.                                                        *)
EndOf(s, i) == i + s[i].msg.size - s[i].pos
Whole(s) == \A i \in DOMAIN s : EndOf(s, i) \in DOMAIN s /\ IsEnd(s[EndOf(s, i)])

IInv ==
  /\ Typed
  /\ \A r \in Reporters : Whole(fifo[r])
  /\ chunk # <<>> => Terminated(chunk)

(* The next read of a whole stream contains an end.                        *)
LEMMA WholeTerminated ==
  ASSUME NEW s \in Seq(Cells), s # <<>>, Whole(s)
  PROVE  \E i \in 1 .. Least(ReadSize, Len(s)) : IsEnd(s[i])
<1>1. Len(s) \in Nat /\ DOMAIN s = 1 .. Len(s) /\ 1 \in DOMAIN s
  BY LenProperties, EmptySeq
<1>2. s[1] \in Cells
  BY <1>1, ElementOfSeq
<1>3. s[1].msg.size \in 2 .. ReadSize /\ s[1].pos \in 1 .. ReadSize
      /\ s[1].pos <= s[1].msg.size /\ ReadSize \in Nat
  BY <1>2, SizesAssumption DEF Cells
<1>4. EndOf(s, 1) \in 1 .. Len(s) /\ IsEnd(s[EndOf(s, 1)])
  BY <1>1 DEF Whole
<1>5. EndOf(s, 1) <= ReadSize
  BY <1>3 DEF EndOf
<1> QED
  BY <1>1, <1>3, <1>4, <1>5 DEF Least

(* Writing a message keeps a stream whole.                                 *)
LEMMA WholeAppend ==
  ASSUME NEW s \in Seq(Cells), Whole(s), NEW m \in Messages
  PROVE  Whole(s \o Bytes(m))
<1> DEFINE t == s \o Bytes(m)
<1>1. /\ Bytes(m) \in Seq(Cells) /\ Len(Bytes(m)) = m.size
      /\ \A i \in 1 .. m.size : Bytes(m)[i] = [msg |-> m, pos |-> i]
      /\ m.size \in Nat
  BY BytesType, SizesAssumption DEF Bytes
<1>2. /\ Len(s) \in Nat /\ DOMAIN s = 1 .. Len(s)
      /\ t \in Seq(Cells) /\ Len(t) = Len(s) + m.size /\ DOMAIN t = 1 .. Len(s) + m.size
      /\ \A i \in 1 .. Len(s) + m.size :
           t[i] = IF i <= Len(s) THEN s[i] ELSE Bytes(m)[i - Len(s)]
  BY <1>1, ConcatProperties, LenProperties
<1>3. ASSUME NEW i \in DOMAIN t, i <= Len(s)
      PROVE  EndOf(t, i) \in DOMAIN t /\ IsEnd(t[EndOf(t, i)])
  <2>1. t[i] = s[i] /\ i \in DOMAIN s
    BY <1>2, <1>3
  <2>2. EndOf(t, i) = EndOf(s, i)
    BY <2>1 DEF EndOf
  <2>3. EndOf(s, i) \in 1 .. Len(s) /\ IsEnd(s[EndOf(s, i)])
    BY <1>2, <2>1 DEF Whole
  <2> QED
    BY <1>1, <1>2, <2>2, <2>3
<1>4. ASSUME NEW i \in DOMAIN t, i > Len(s)
      PROVE  EndOf(t, i) \in DOMAIN t /\ IsEnd(t[EndOf(t, i)])
  <2>1. i - Len(s) \in 1 .. m.size
    BY <1>1, <1>2, <1>4
  <2>2. t[i] = [msg |-> m, pos |-> i - Len(s)]
    BY <1>1, <1>2, <1>4, <2>1
  <2>3. EndOf(t, i) = Len(s) + m.size
    BY <1>1, <1>2, <2>1, <2>2 DEF EndOf
  <2>4. m.size \in 1 .. m.size /\ Len(s) + m.size \in DOMAIN t
    BY <1>1, <1>2, <2>1
  <2>5. t[Len(s) + m.size] = [msg |-> m, pos |-> m.size]
    BY <1>1, <1>2, <2>4
  <2> QED
    BY <2>3, <2>4, <2>5 DEF IsEnd
<1> QED
  BY <1>2, <1>3, <1>4 DEF Whole

(* Reading keeps a stream whole.                                           *)
LEMMA WholeRest ==
  ASSUME NEW s \in Seq(Cells), Whole(s), NEW n \in Nat, n <= Len(s)
  PROVE  Whole(SubSeq(s, n + 1, Len(s)))
<1> DEFINE t == SubSeq(s, n + 1, Len(s))
<1>1. /\ Len(s) \in Nat /\ DOMAIN s = 1 .. Len(s)
      /\ \A i \in 1 .. Len(s) : s[i] \in Cells
  BY LenProperties, ElementOfSeq
<1>2. /\ t \in Seq(Cells) /\ Len(t) = Len(s) - n
      /\ \A i \in 1 .. Len(s) - n : t[i] = s[i + n]
  <2>1. n + 1 \in Int /\ Len(s) \in Int /\ \A i \in n + 1 .. Len(s) : s[i] \in Cells
    BY <1>1
  <2>2. /\ t \in Seq(Cells)
        /\ Len(t) = IF n + 1 <= Len(s) THEN Len(s) - (n + 1) + 1 ELSE 0
        /\ \A i \in 1 .. Len(s) - (n + 1) + 1 : t[i] = s[(n + 1) + i - 1]
    BY <2>1, SubSeqProperties
  <2> HIDE DEF t
  <2>3. Len(t) = Len(s) - n
    <3>0. n + 1 <= Len(s) \/ n = Len(s)
      <4>1. Len(s) \in Nat
        BY <1>1
      <4>2. \A k \in Nat : n <= k => n + 1 <= k \/ n = k
        OBVIOUS
      <4> QED
        BY <4>1, <4>2
    <3>1. CASE n + 1 <= Len(s)
      BY <1>1, <2>2, <3>1
    <3>2. CASE n = Len(s)
      BY <1>1, <2>2, <3>2
    <3> QED
      BY <3>0, <3>1, <3>2
  <2>4. ASSUME NEW i \in 1 .. Len(s) - n PROVE t[i] = s[i + n]
    <3>1. i \in 1 .. Len(s) - (n + 1) + 1 /\ (n + 1) + i - 1 = i + n
      BY <1>1
    <3> QED
      BY <2>2, <3>1
  <2> QED
    BY <2>2, <2>3, <2>4
<1>3. DOMAIN t = 1 .. Len(s) - n
  BY <1>2, LenProperties
<1> HIDE DEF t
<1>4. ASSUME NEW i \in DOMAIN t
      PROVE  EndOf(t, i) \in DOMAIN t /\ IsEnd(t[EndOf(t, i)])
  <2>0. i \in 1 .. Len(s) - n /\ i + n \in 1 .. Len(s)
    BY <1>1, <1>3
  <2>1. i + n \in DOMAIN s /\ t[i] = s[i + n] /\ s[i + n] \in Cells
    BY <1>1, <1>2, <2>0
  <2>2. s[i + n].msg.size \in Int /\ s[i + n].pos \in Int
        /\ s[i + n].pos <= s[i + n].msg.size
    BY <2>1, SizesAssumption DEF Cells
  <2>3. EndOf(s, i + n) = EndOf(t, i) + n /\ EndOf(t, i) \in Int /\ EndOf(t, i) >= i
    BY <1>1, <1>3, <2>1, <2>2 DEF EndOf
  <2>4. EndOf(s, i + n) \in DOMAIN s /\ IsEnd(s[EndOf(s, i + n)])
    BY <2>1 DEF Whole
  <2>5. EndOf(t, i) \in 1 .. Len(s) - n
    BY <1>1, <1>3, <2>3, <2>4
  <2> QED
    BY <1>2, <1>3, <2>3, <2>4, <2>5
<1> QED
  BY <1>4 DEF Whole, t

(* IInv is inductive.                                                      *)
LEMMA IInvNext == IInv /\ [Next]_vars => IInv'
<1> SUFFICES ASSUME IInv, [Next]_vars PROVE IInv'
  OBVIOUS
<1> USE DEF editorVars, readerVars, castVars
<1>0. Typed /\ Typed' /\ fifo \in [Reporters -> Seq(Cells)]
  BY TypeNext DEF IInv, Typed, TypeOK
<1>1. ASSUME NEW r \in Reporters, Report(r) PROVE IInv'
  <2>1. PICK m \in Messages : fifo' = [fifo EXCEPT ![r] = fifo[r] \o Bytes(m)]
    BY <1>1 DEF Report
  <2>2. Whole(fifo[r] \o Bytes(m))
    BY <1>0, WholeAppend DEF IInv
  <2>3. \A q \in Reporters : Whole(fifo'[q])
    BY <1>0, <2>1, <2>2 DEF IInv
  <2> QED
    BY <1>0, <1>1, <2>3 DEF IInv, Report
<1>2. ASSUME NEW r \in Reporters, EditorRead(r) PROVE IInv'
  <2> DEFINE n == Least(ReadSize, Len(fifo[r]))
  <2>1. fifo[r] \in Seq(Cells) /\ Len(fifo[r]) \in Nat /\ fifo[r] # <<>>
        /\ \A i \in 1 .. Len(fifo[r]) : fifo[r][i] \in Cells
    BY <1>0, <1>2, LenProperties, ElementOfSeq DEF EditorRead
  <2>2. n \in Nat /\ n <= Len(fifo[r]) /\ n <= ReadSize /\ ReadSize \in Nat
    BY <2>1, SizesAssumption DEF Least
  <2>3. /\ chunk' = SubSeq(fifo[r], 1, n)
        /\ fifo' = [fifo EXCEPT ![r] = SubSeq(fifo[r], n + 1, Len(fifo[r]))]
    BY <1>2 DEF EditorRead
  <2>4. \E i \in 1 .. n : IsEnd(fifo[r][i])
    BY <2>1, WholeTerminated DEF IInv
  <2> HIDE DEF n
  <2>5. Whole(SubSeq(fifo[r], n + 1, Len(fifo[r])))
    BY <2>1, <2>2, WholeRest DEF IInv
  <2>6. \A q \in Reporters : Whole(fifo'[q])
    BY <1>0, <2>3, <2>5 DEF IInv
  <2>7. /\ chunk' \in Seq(Cells) /\ Len(chunk') = n
        /\ \A i \in 1 .. n : chunk'[i] = fifo[r][i]
    <3>1. 1 \in Int /\ n \in Int /\ \A i \in 1 .. n : fifo[r][i] \in Cells
      BY <2>1, <2>2
    <3>2. /\ chunk' \in Seq(Cells)
          /\ Len(chunk') = IF 1 <= n THEN n - 1 + 1 ELSE 0
          /\ \A i \in 1 .. n - 1 + 1 : chunk'[i] = fifo[r][1 + i - 1]
      BY <2>3, <3>1, SubSeqProperties
    <3> QED
      BY <2>2, <3>2
  <2>8. Terminated(chunk')
    <3>1. PICK i \in 1 .. n : IsEnd(fifo[r][i])
      BY <2>4
    <3>2. i \in 1 .. Least(ReadSize, Len(chunk'))
      BY <2>2, <2>7 DEF Least
    <3>3. IsEnd(chunk'[i])
      BY <2>7, <3>1 DEF IsEnd
    <3> QED
      BY <3>2, <3>3 DEF Terminated
  <2> QED
    BY <1>0, <2>6, <2>8 DEF IInv
<1>3. ASSUME UNCHANGED fifo, chunk' = <<>> \/ UNCHANGED chunk PROVE IInv'
  BY <1>0, <1>3 DEF IInv, Terminated
<1>4. ASSUME \/ EditorDoc \/ EditorAdvert \/ EditorNews \/ DocumentRead \/ AdvertReceive
             \/ ScreenRead \/ TelecastAccept \/ TelecastType \/ UNCHANGED vars
      PROVE  UNCHANGED fifo /\ (chunk' = <<>> \/ UNCHANGED chunk)
  BY <1>4 DEF EditorDoc, EditorAdvert, EditorNews, Enqueue, DocumentRead, AdvertReceive,
     ScreenRead, TelecastAccept, TelecastType, vars
<1>5. ASSUME NEW d \in Readers, Reader(d) \/ ReaderStart(d) \/ ReaderKilled(d)
      PROVE  UNCHANGED <<fifo, chunk>>
  BY <1>5 DEF Reader, Receive, Spin, Set, Write, Connect, Relay, Clear, ReaderStart,
     ReaderKilled
<1> QED
  BY <1>1, <1>2, <1>3, <1>4, <1>5 DEF Next, Editor

(* What the editor reads contains a '\0', wherever the reads cut the       *)
(* messages.                                                               *)
THEOREM ChunkTerminatedAlways == Spec => []ChunkTerminated
<1>1. Init => IInv
  <2> SUFFICES ASSUME Init PROVE IInv
    OBVIOUS
  <2>1. \A r \in Reporters : Whole(fifo[r])
    BY DOMAIN <<>> = {} DEF Init, Whole
  <2> QED
    BY <2>1, TypeInit DEF Init, IInv
<1>2. IInv => ChunkTerminated
  <2> SUFFICES ASSUME IInv, NEW r \in Reporters, fifo[r] # <<>> PROVE Terminated(fifo[r])
    BY DEF ChunkTerminated, IInv
  <2>1. fifo[r] \in Seq(Cells) /\ Whole(fifo[r])
    BY DEF IInv, Typed, TypeOK
  <2>2. \E i \in 1 .. Least(ReadSize, Len(fifo[r])) : IsEnd(fifo[r][i])
    BY <2>1, WholeTerminated
  <2> QED
    BY <2>2 DEF Terminated
<1> QED
  BY <1>1, IInvNext, <1>2, PTL DEF Spec
=============================================================================
