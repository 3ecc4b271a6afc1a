-------------------------- MODULE SuperServerProofs --------------------------
(***************************************************************************)
(* Proofs about SuperServer, for any number of clients and threads and any *)
(* limits.                                                                 *)
(***************************************************************************)
EXTENDS SuperServer, QueueLemmas, SequenceTheorems, FiniteSetTheorems, TLAPS

(* What main's nsfd holds between an accept and the use of its result.     *)
NsfdOK ==
  /\ pc \in {"load1", "store1", "fork"} => nsfd \in Clients1 \cup {NoConn}
  /\ pc \in {"load2", "store2", "create"} => nsfd \in Clients2 \cup {NoConn}

Typed == TypeOK /\ NsfdOK

-----------------------------------------------------------------------------
(* The initial state is well-typed.                                        *)
LEMMA TypedInit == Init => Typed
<1> SUFFICES ASSUME Init PROVE Typed
  OBVIOUS
<1>1. backlog1 \in Seq(Clients1) /\ backlog2 \in Seq(Clients2)
  BY EmptySeq DEF Init
<1>2. race1 \in BOOLEAN /\ race2 \in Nat /\ leaked \in Nat /\ interrupted \in BOOLEAN /\ pending \in BOOLEAN
  BY DEF Init
<1>3. NsfdOK
  BY DEF Init, NsfdOK
<1> QED
  BY <1>1, <1>2, <1>3 DEF Init, Typed, TypeOK, Clients, Contexts, ClientStates, MainStates,
     ChildStates, ThreadStates

(* Every action leaves every variable in its range.                        *)
LEMMA TypedNext == Typed /\ [Next]_vars => Typed'
<1> SUFFICES ASSUME Typed, [Next]_vars PROVE Typed'
  OBVIOUS
<1> USE ClientsAssumption, ThreadsAssumption, LimitsAssumption
    DEF Typed, TypeOK, NsfdOK, Clients, Contexts, ClientStates, MainStates, ChildStates,
        ThreadStates, counters, network, mainVars, signalVars, threadVars, strays, races
<1>1. CASE SelectReady
  BY <1>1 DEF SelectReady, At, Goto
<1>2. CASE SelectInterrupted
  BY <1>2 DEF SelectInterrupted, At, Goto, Deliver
<1>3. CASE Test1
  BY <1>3 DEF Test1, At, Goto
<1>4. CASE Accept1
  <2>1. backlog1 # <<>> => /\ Head(backlog1) \in Clients1
                           /\ Tail(backlog1) \in Seq(Clients1)
    BY HeadTailProperties
  <2> QED
    BY <1>4, <2>1 DEF Accept1, At, Goto, AcceptFrom
<1>5. CASE Load1
  BY <1>5 DEF Load1, At, Goto
<1>6. CASE Store1
  BY <1>6 DEF Store1, At, Goto
<1>7. CASE Fork
  <2>1. nsfd \in Clients1 \cup {NoConn}
    BY <1>7 DEF Fork, At
  <2>2. /\ child' \in [Clients1 -> ChildStates]
        /\ client' \in [Clients -> ClientStates]
    <3>1. CASE nsfd = NoConn
      BY <1>7, <3>1 DEF Fork
    <3>2. CASE nsfd # NoConn
      <4>1. nsfd \in Clients1
        BY <2>1, <3>2
      <4>2. \/ child' = [child EXCEPT ![nsfd] = "read"] /\ UNCHANGED client
            \/ child' = [child EXCEPT ![nsfd] = "server"] /\ UNCHANGED client
            \/ client' = [client EXCEPT ![nsfd] = "closed"] /\ UNCHANGED child
        BY <1>7, <3>2 DEF Fork
      <4> QED
        BY <4>1, <4>2
    <3> QED
      BY <3>1, <3>2
  <2>3. open' \in SUBSET Clients /\ nsfd' = NoConn /\ pc' = "select"
    BY <1>7 DEF Fork, Goto
  <2> QED
    BY <1>7, <2>2, <2>3 DEF Fork
<1>8. CASE Test2
  BY <1>8 DEF Test2, At, Goto
<1>9. CASE Accept2
  <2>1. backlog2 # <<>> => /\ Head(backlog2) \in Clients2
                           /\ Tail(backlog2) \in Seq(Clients2)
    BY HeadTailProperties
  <2> QED
    BY <1>9, <2>1 DEF Accept2, At, Goto, AcceptFrom
<1>10. CASE Load2
  BY <1>10 DEF Load2, At, Goto
<1>11. CASE Store2
  BY <1>11 DEF Store2, At, Goto
<1>12. CASE Create
  <2>1. nsfd \in Clients2 \cup {NoConn} /\ nsfd' = NoConn /\ pc' = "select"
    BY <1>12 DEF Create, At, Goto
  <2>2. leaked' \in Nat /\ stranded' \in SUBSET Clients2
    BY <1>12 DEF Create
  <2>3. thread' \in [Threads -> ThreadStates] /\ arg' \in [Threads -> Clients2 \cup {NoConn}]
    <3>1. CASE UNCHANGED <<thread, arg>>
      BY <3>1
    <3>2. CASE \E t \in Threads : /\ thread' = [thread EXCEPT ![t] = "start"]
                                 /\ arg' = [arg EXCEPT ![t] = nsfd]
      BY <2>1, <3>2
    <3> QED
      BY <1>12, <3>1, <3>2 DEF Create
  <2> QED
    BY <1>12, <2>1, <2>2, <2>3 DEF Create
<1>13. ASSUME NEW c \in Clients1, Connect1(c) PROVE Typed'
  BY <1>13 DEF Connect1
<1>14. ASSUME NEW c \in Clients1, ChildRead(c) PROVE Typed'
  BY <1>14 DEF ChildRead
<1>15. ASSUME NEW c \in Clients1, ChildAnswer(c) PROVE Typed'
  BY <1>15 DEF ChildAnswer
<1>16. ASSUME NEW c \in Clients1, ChildNotify(c) PROVE Typed'
  BY <1>16 DEF ChildNotify
<1>17. ASSUME NEW c \in Clients2, Connect2(c) PROVE Typed'
  BY <1>17 DEF Connect2
<1>18. ASSUME NEW c \in Clients, ClientSend(c) PROVE Typed'
  BY <1>18 DEF ClientSend
<1>19. ASSUME NEW t \in Threads, ThreadStart(t) PROVE Typed'
  BY <1>19 DEF ThreadStart, ThreadAt
<1>20. ASSUME NEW t \in Threads, ThreadServe(t) PROVE Typed'
  <2>1. client' \in [Clients -> ClientStates]
    BY <1>20 DEF ThreadServe
  <2>2. thread' \in [Threads -> ThreadStates]
    BY <1>20 DEF ThreadServe, ThreadAt
  <2> QED
    BY <1>20, <2>1, <2>2 DEF ThreadServe
<1>21. ASSUME NEW t \in Threads, ThreadLoad(t) PROVE Typed'
  BY <1>21 DEF ThreadLoad, ThreadAt
<1>22. ASSUME NEW t \in Threads, ThreadStore(t) PROVE Typed'
  BY <1>22 DEF ThreadStore, ThreadAt
<1>23. ASSUME NEW x \in Contexts, TakeSignal(x) PROVE Typed'
  BY <1>23 DEF TakeSignal, Deliver
<1>24. ASSUME NEW x \in Contexts, HandlerStore(x) PROVE Typed'
  BY <1>24 DEF HandlerStore
<1>25. CASE UNCHANGED vars
  BY <1>25 DEF vars
<1>26. CASE StrayAccept
  <2>1. backlog2 # <<>> => /\ Head(backlog2) \in Clients2
                           /\ Tail(backlog2) \in Seq(Clients2)
    BY HeadTailProperties
  <2> QED
    BY <1>26, <2>1 DEF StrayAccept
<1>27. ASSUME NEW c \in Clients2, StrayServe(c) PROVE Typed'
  BY <1>27 DEF StrayServe
<1> QED
  BY <1>1, <1>2, <1>3, <1>4, <1>5, <1>6, <1>7, <1>8, <1>9, <1>10, <1>11, <1>12, <1>13, <1>14, <1>15, <1>16, <1>17, <1>18, <1>19, <1>20, <1>21, <1>22, <1>23, <1>24, <1>25, <1>26, <1>27 DEF Next, MainStep, ThreadStep

-----------------------------------------------------------------------------
(* Service 1.  Room1 is what NeverUndercounts1 needs to imply Admission1:  *)
(* the test of curr1 has left room for the client about to be accepted.    *)
Room1 ==
  ~race1 =>
    /\ Outstanding1 <= Limit1 + 1
    /\ pc \in {"accept1", "load1", "store1"} => Outstanding1 <= Limit1

IInv1 == Typed /\ NeverUndercounts1 /\ Room1

(* Busy1 and handling are finite, so Outstanding1 is a number.             *)
LEMMA Outstanding1Type ==
  ASSUME Typed
  PROVE  /\ IsFiniteSet(Busy1) /\ Cardinality(Busy1) \in Nat
         /\ IsFiniteSet(handling) /\ Cardinality(handling) \in Nat
         /\ Outstanding1 \in Nat
         /\ Cardinality(Busy1) <= Outstanding1
<1>1. IsFiniteSet(Busy1)
  BY FS_Subset, ClientsAssumption DEF Busy1
<1>2. IsFiniteSet(Contexts)
  BY FS_AddElement, ThreadsAssumption, Contexts = Threads \cup {Main} DEF Contexts
<1>3. IsFiniteSet(handling)
  BY <1>2, FS_Subset DEF Typed, TypeOK
<1>4. Cardinality(Busy1) \in Nat /\ Cardinality(handling) \in Nat
  BY <1>1, <1>3, FS_CardinalityType
<1> QED
  BY <1>1, <1>3, <1>4 DEF Outstanding1

(* A step that leaves the children, the signals and the main loop alone,   *)
(* or moves the main loop to a place where no child is about to be forked, *)
(* does not raise Outstanding1.                                            *)
LEMMA Outstanding1Same ==
  ASSUME Typed, Typed', UNCHANGED <<child, pending, handling>>,
         ~(pc' = "fork" /\ nsfd' # NoConn) \/ UNCHANGED <<pc, nsfd>>
  PROVE  Outstanding1' <= Outstanding1
<1>1. Busy1' = Busy1
  BY DEF Busy1
<1> QED
  BY <1>1, Outstanding1Type DEF Outstanding1

(* Taking a signal moves its unit from pending to handling.                *)
LEMMA Outstanding1Deliver ==
  ASSUME Typed, Typed', NEW x \in Contexts, Deliver(x), UNCHANGED child,
         ~(pc' = "fork" /\ nsfd' # NoConn) \/ UNCHANGED <<pc, nsfd>>
  PROVE  Outstanding1' <= Outstanding1
<1>1. Busy1' = Busy1
  BY DEF Busy1
<1>2. Cardinality(handling') = Cardinality(handling) + 1
  BY Outstanding1Type, FS_AddElement DEF Deliver
<1> QED
  BY <1>1, <1>2, Outstanding1Type DEF Outstanding1, Deliver

(* The same of the next state.                                             *)
LEMMA Outstanding1TypeNext ==
  ASSUME Typed'
  PROVE  Outstanding1' \in Nat
<1>1. IsFiniteSet(Busy1')
  BY FS_Subset, ClientsAssumption DEF Busy1
<1>2. IsFiniteSet(Contexts)
  BY FS_AddElement, ThreadsAssumption, Contexts = Threads \cup {Main} DEF Contexts
<1>3. IsFiniteSet(handling')
  BY <1>2, FS_Subset DEF Typed, TypeOK
<1>4. Cardinality(Busy1') \in Nat /\ Cardinality(handling') \in Nat
  BY <1>1, <1>3, FS_CardinalityType
<1> QED
  BY <1>4 DEF Outstanding1

(* A step that does not touch curr1, its loaded copies or race1, and does  *)
(* not bring the main loop to the use of a copy, keeps the invariant if it *)
(* does not raise Outstanding1.                                            *)
LEMMA Quiet1 ==
  ASSUME IInv1, Typed', Outstanding1' <= Outstanding1,
         UNCHANGED <<curr1, hreg, handling, race1>>,
         pc' = "store1" => pc = "store1" /\ reg' = reg,
         pc' \in {"accept1", "load1", "store1"} => pc \in {"accept1", "load1", "store1"}
  PROVE  NeverUndercounts1' /\ Room1'
<1>1. Outstanding1 \in Nat /\ Outstanding1' \in Nat
  <2>1. Outstanding1 \in Nat
    BY Outstanding1Type DEF IInv1
  <2>2. Outstanding1' \in Nat
    BY Outstanding1TypeNext
  <2> QED
    BY <2>1, <2>2
<1>2. \A x \in handling : hreg[x] \in Int
  BY DEF IInv1, Typed, TypeOK
<1>3. curr1 \in Int /\ reg \in Int /\ Limit1 \in Nat
  BY LimitsAssumption DEF IInv1, Typed, TypeOK
<1>4. NeverUndercounts1'
  BY <1>1, <1>2, <1>3 DEF IInv1, NeverUndercounts1
<1> QED
  BY <1>1, <1>3, <1>4 DEF IInv1, Room1

(* A step that takes a signal keeps the invariant.                         *)
LEMMA Deliver1 ==
  ASSUME IInv1, Typed', NEW x \in Contexts, Deliver(x),
         UNCHANGED <<curr1, reg, child, race1>>,
         pc' \in {"accept1", "load1", "store1"} => pc' = pc,
         pc' = "fork" => UNCHANGED <<pc, nsfd>>
  PROVE  NeverUndercounts1' /\ Room1'
<1>1. Outstanding1' <= Outstanding1
  BY Outstanding1Deliver DEF IInv1
<1>2. Outstanding1 \in Nat /\ Outstanding1' \in Nat
  BY Outstanding1Type, Outstanding1TypeNext DEF IInv1
<1>3. curr1 \in Int /\ reg \in Int /\ Limit1 \in Nat /\ hreg \in [Contexts -> Int]
      /\ handling \in SUBSET Contexts
  BY LimitsAssumption DEF IInv1, Typed, TypeOK
<1>4. ASSUME ~race1', NEW y \in handling' PROVE hreg'[y] >= Outstanding1'
  <2>1. CASE y = x
    BY <1>1, <1>2, <1>3, <1>4, <2>1 DEF IInv1, NeverUndercounts1, Deliver
  <2>2. CASE y # x
    <3>1. y \in handling /\ hreg'[y] = hreg[y] /\ hreg[y] \in Int
      BY <1>3, <1>4, <2>2 DEF Deliver
    <3> QED
      BY <1>1, <1>2, <1>4, <3>1 DEF IInv1, NeverUndercounts1
  <2> QED
    BY <2>1, <2>2
<1>5. NeverUndercounts1'
  BY <1>1, <1>2, <1>3, <1>4 DEF IInv1, NeverUndercounts1
<1> QED
  BY <1>1, <1>2, <1>3, <1>5 DEF IInv1, Room1

(* IInv1 is inductive.                                                     *)
LEMMA IInv1Next == IInv1 /\ [Next]_vars => IInv1'
<1> SUFFICES ASSUME IInv1, [Next]_vars PROVE IInv1'
  OBVIOUS
<1>0. Typed /\ Typed'
  BY TypedNext DEF IInv1
<1> SUFFICES NeverUndercounts1' /\ Room1'
  BY <1>0 DEF IInv1
<1>o. /\ Outstanding1 \in Nat /\ Outstanding1' \in Nat /\ Limit1 \in Nat
      /\ IsFiniteSet(Busy1) /\ IsFiniteSet(handling)
  BY <1>0, Outstanding1Type, Outstanding1TypeNext, LimitsAssumption
<1> USE DEF counters, network, mainVars, signalVars, threadVars, strays, races
<1>1. CASE SelectReady
  <2>1. Outstanding1' <= Outstanding1
    BY <1>0, <1>1, Outstanding1Same DEF SelectReady, At, Goto
  <2> QED
    BY <1>0, <1>1, <2>1, Quiet1 DEF SelectReady, At, Goto
<1>2. CASE Accept1
  <2>1. Outstanding1' <= Outstanding1
    BY <1>0, <1>2, Outstanding1Same DEF Accept1, At, Goto
  <2> QED
    BY <1>0, <1>2, <2>1, Quiet1 DEF Accept1, At, Goto
<1>3. CASE SelectInterrupted
  BY <1>0, <1>3, Deliver1, Main \in Contexts DEF SelectInterrupted, At, Goto, Contexts
<1>4. CASE Test1
  <2>1. Outstanding1' <= Outstanding1
    BY <1>0, <1>4, Outstanding1Same DEF Test1, At, Goto
  <2>2. NeverUndercounts1'
    BY <1>0, <1>o, <1>4, <2>1 DEF IInv1, NeverUndercounts1, Test1, At, Goto, Typed, TypeOK
  <2>3. ~race1 /\ curr1 <= Limit1 => Outstanding1' <= Limit1
    BY <1>0, <1>o, <2>1 DEF IInv1, NeverUndercounts1, Typed, TypeOK
  <2> QED
    BY <1>o, <1>4, <2>1, <2>2, <2>3 DEF IInv1, Room1, Test1, At, Goto
<1>5. CASE Load1
  <2>1. Outstanding1' <= Outstanding1
    BY <1>0, <1>5, Outstanding1Same DEF Load1, At, Goto
  <2>2. NeverUndercounts1'
    BY <1>0, <1>o, <1>5, <2>1 DEF IInv1, NeverUndercounts1, Load1, At, Goto, Typed, TypeOK
  <2> QED
    BY <1>o, <1>5, <2>1, <2>2 DEF IInv1, Room1, Load1, At, Goto
<1>6. CASE Store1
  <2>1. Outstanding1' <= Outstanding1 + 1
    <3>1. Busy1' = Busy1
      BY <1>6 DEF Busy1, Store1
    <3> QED
      BY <1>0, <1>6, <3>1, Outstanding1Type DEF Outstanding1, Store1, At, Goto
  <2>2. ~race1' => ~race1 /\ handling' = {}
    BY <1>6 DEF Store1
  <2>3. NeverUndercounts1'
    BY <1>0, <1>o, <1>6, <2>1, <2>2 DEF IInv1, NeverUndercounts1, Store1, At, Goto, Typed, TypeOK
  <2> QED
    BY <1>o, <1>6, <2>1, <2>2, <2>3 DEF IInv1, Room1, Store1, At, Goto
<1>7. CASE Fork
  <2>1. Cardinality(Busy1') \in Nat
    <3>1. IsFiniteSet(Busy1')
      BY FS_Subset, ClientsAssumption DEF Busy1
    <3> QED
      BY <3>1, FS_CardinalityType
  <2>2. Outstanding1' <= Outstanding1
    <3>1. CASE UNCHANGED child
      BY <1>0, <1>7, <3>1, Outstanding1Same DEF Fork, Goto
    <3>2. CASE nsfd # NoConn /\ child' = [child EXCEPT ![nsfd] = "read"]
      <4>1. nsfd \in Clients1
        BY <1>0, <1>7, <3>2 DEF Typed, NsfdOK, Fork, At
      <4>2. Busy1' = Busy1 \cup {nsfd}
        BY <1>0, <3>2, <4>1 DEF Busy1, Typed, TypeOK
      <4>3. Cardinality(Busy1') <= Cardinality(Busy1) + 1
        <5>1. Cardinality(Busy1) \in Nat
          BY <1>0, Outstanding1Type
        <5>2. Cardinality(Busy1') = IF nsfd \in Busy1 THEN Cardinality(Busy1)
                                    ELSE Cardinality(Busy1) + 1
          BY <1>o, <4>2, FS_AddElement
        <5> QED
          BY <5>1, <5>2
      <4> QED
        BY <1>0, <1>7, <2>1, <3>2, <4>3, Outstanding1Type DEF Outstanding1, Fork, At, Goto
    <3>3. CASE nsfd # NoConn /\ child' = [child EXCEPT ![nsfd] = "server"]
      <4>1. Busy1' \subseteq Busy1
        BY <1>0, <3>3 DEF Busy1, Typed, TypeOK
      <4>2. Cardinality(Busy1') <= Cardinality(Busy1)
        BY <1>o, <4>1, FS_Subset
      <4> QED
        BY <1>0, <1>7, <2>1, <4>2, Outstanding1Type DEF Outstanding1, Fork, At, Goto
    <3> QED
      BY <1>7, <3>1, <3>2, <3>3 DEF Fork
  <2> QED
    BY <1>0, <1>7, <2>2, Quiet1 DEF Fork, At, Goto
<1>8. CASE Test2
  <2>1. Outstanding1' <= Outstanding1
    BY <1>0, <1>8, Outstanding1Same DEF Test2, At, Goto
  <2> QED
    BY <1>0, <1>8, <2>1, Quiet1 DEF Test2, At, Goto
<1>9. CASE Accept2
  <2>1. Outstanding1' <= Outstanding1
    BY <1>0, <1>9, Outstanding1Same DEF Accept2, At, Goto
  <2> QED
    BY <1>0, <1>9, <2>1, Quiet1 DEF Accept2, At, Goto
<1>10. CASE Load2
  <2>1. Outstanding1' <= Outstanding1
    BY <1>0, <1>10, Outstanding1Same DEF Load2, At, Goto
  <2> QED
    BY <1>0, <1>10, <2>1, Quiet1 DEF Load2, At, Goto
<1>11. CASE Store2
  <2>1. Outstanding1' <= Outstanding1
    BY <1>0, <1>11, Outstanding1Same DEF Store2, At, Goto
  <2> QED
    BY <1>0, <1>11, <2>1, Quiet1 DEF Store2, At, Goto
<1>12. CASE Create
  <2>1. Outstanding1' <= Outstanding1
    BY <1>0, <1>12, Outstanding1Same DEF Create, At, Goto
  <2> QED
    BY <1>0, <1>12, <2>1, Quiet1 DEF Create, At, Goto
<1>13. ASSUME NEW c \in Clients1, Connect1(c) PROVE NeverUndercounts1' /\ Room1'
  <2>1. Outstanding1' <= Outstanding1
    BY <1>0, <1>13, Outstanding1Same DEF Connect1
  <2> QED
    BY <1>0, <1>13, <2>1, Quiet1 DEF Connect1
<1>14. ASSUME NEW c \in Clients2, Connect2(c) PROVE NeverUndercounts1' /\ Room1'
  <2>1. Outstanding1' <= Outstanding1
    BY <1>0, <1>14, Outstanding1Same DEF Connect2
  <2> QED
    BY <1>0, <1>14, <2>1, Quiet1 DEF Connect2
<1>15. ASSUME NEW c \in Clients, ClientSend(c) PROVE NeverUndercounts1' /\ Room1'
  <2>1. Outstanding1' <= Outstanding1
    BY <1>0, <1>15, Outstanding1Same DEF ClientSend
  <2> QED
    BY <1>0, <1>15, <2>1, Quiet1 DEF ClientSend
<1>16. ASSUME NEW c \in Clients1, ChildRead(c) PROVE NeverUndercounts1' /\ Room1'
  <2>1. Busy1' = Busy1
    BY <1>0, <1>16 DEF Busy1, ChildRead, Typed, TypeOK
  <2>2. Outstanding1' <= Outstanding1
    BY <1>o, <1>16, <2>1 DEF Outstanding1, ChildRead
  <2> QED
    BY <1>0, <1>16, <2>2, Quiet1 DEF ChildRead
<1>17. ASSUME NEW c \in Clients1, ChildAnswer(c) PROVE NeverUndercounts1' /\ Room1'
  <2>1. Busy1' = Busy1
    BY <1>0, <1>17 DEF Busy1, ChildAnswer, Typed, TypeOK
  <2>2. Outstanding1' <= Outstanding1
    BY <1>o, <1>17, <2>1 DEF Outstanding1, ChildAnswer
  <2> QED
    BY <1>0, <1>17, <2>2, Quiet1 DEF ChildAnswer
<1>18. ASSUME NEW c \in Clients1, ChildNotify(c) PROVE NeverUndercounts1' /\ Room1'
  <2>1. c \in Busy1 /\ Busy1' = Busy1 \ {c}
    BY <1>0, <1>18 DEF Busy1, ChildNotify, Typed, TypeOK
  <2>2. Cardinality(Busy1') = Cardinality(Busy1) - 1
    BY <1>o, <2>1, FS_RemoveElement
  <2>3. Outstanding1' <= Outstanding1
    BY <1>0, <1>18, <2>2, Outstanding1Type DEF Outstanding1, ChildNotify
  <2> QED
    BY <1>0, <1>18, <2>3, Quiet1 DEF ChildNotify
<1>19. ASSUME NEW t \in Threads, ThreadStart(t) PROVE NeverUndercounts1' /\ Room1'
  <2>1. Outstanding1' <= Outstanding1
    BY <1>0, <1>19, Outstanding1Same DEF ThreadStart
  <2> QED
    BY <1>0, <1>19, <2>1, Quiet1 DEF ThreadStart
<1>20. ASSUME NEW t \in Threads, ThreadServe(t) PROVE NeverUndercounts1' /\ Room1'
  <2>1. Outstanding1' <= Outstanding1
    BY <1>0, <1>20, Outstanding1Same DEF ThreadServe
  <2> QED
    BY <1>0, <1>20, <2>1, Quiet1 DEF ThreadServe
<1>21. ASSUME NEW t \in Threads, ThreadLoad(t) PROVE NeverUndercounts1' /\ Room1'
  <2>1. Outstanding1' <= Outstanding1
    BY <1>0, <1>21, Outstanding1Same DEF ThreadLoad
  <2> QED
    BY <1>0, <1>21, <2>1, Quiet1 DEF ThreadLoad
<1>22. ASSUME NEW t \in Threads, ThreadStore(t) PROVE NeverUndercounts1' /\ Room1'
  <2>1. Outstanding1' <= Outstanding1
    BY <1>0, <1>22, Outstanding1Same DEF ThreadStore
  <2> QED
    BY <1>0, <1>22, <2>1, Quiet1 DEF ThreadStore
<1>23. ASSUME NEW x \in Contexts, TakeSignal(x) PROVE NeverUndercounts1' /\ Room1'
  BY <1>0, <1>23, Deliver1 DEF TakeSignal
<1>24. ASSUME NEW x \in Contexts, HandlerStore(x) PROVE NeverUndercounts1' /\ Room1'
  <2>1. Outstanding1' = Outstanding1 - 1
    <3>1. Busy1' = Busy1
      BY <1>24 DEF Busy1, HandlerStore
    <3>2. Cardinality(handling') = Cardinality(handling) - 1
      BY <1>o, <1>24, FS_RemoveElement DEF HandlerStore
    <3> QED
      BY <1>0, <1>24, <3>1, <3>2, Outstanding1Type DEF Outstanding1, HandlerStore
  <2>2. hreg[x] \in Int /\ curr1' = hreg[x] - 1 /\ UNCHANGED <<pc, reg, race1>>
    BY <1>0, <1>24 DEF HandlerStore, Typed, TypeOK
  <2>3. ~race1' => curr1' >= Outstanding1'
    BY <1>o, <1>24, <2>1, <2>2 DEF IInv1, NeverUndercounts1, HandlerStore
  <2>4. ASSUME ~race1', NEW y \in handling' PROVE hreg'[y] >= Outstanding1'
    <3>1. y \in handling /\ hreg'[y] = hreg[y] /\ hreg[y] \in Int
      BY <1>0, <1>24, <2>4 DEF HandlerStore, Typed, TypeOK
    <3> QED
      BY <1>o, <2>1, <2>2, <2>4, <3>1 DEF IInv1, NeverUndercounts1
  <2>5. NeverUndercounts1'
    BY <1>0, <1>o, <2>1, <2>2, <2>3, <2>4 DEF IInv1, NeverUndercounts1, Typed, TypeOK
  <2> QED
    BY <1>o, <2>1, <2>2, <2>5 DEF IInv1, Room1
<1>25. CASE UNCHANGED vars
  <2>1. Outstanding1' <= Outstanding1
    BY <1>0, <1>25, Outstanding1Same DEF vars
  <2> QED
    BY <1>0, <1>25, <2>1, Quiet1 DEF vars
<1>26. CASE StrayAccept
  <2>1. Outstanding1' <= Outstanding1
    BY <1>0, <1>26, Outstanding1Same DEF StrayAccept
  <2> QED
    BY <1>0, <1>26, <2>1, Quiet1 DEF StrayAccept
<1>27. ASSUME NEW c \in Clients2, StrayServe(c) PROVE NeverUndercounts1' /\ Room1'
  <2>1. Outstanding1' <= Outstanding1
    BY <1>0, <1>27, Outstanding1Same DEF StrayServe
  <2> QED
    BY <1>0, <1>27, <2>1, Quiet1 DEF StrayServe
<1> QED
  BY <1>1, <1>2, <1>3, <1>4, <1>5, <1>6, <1>7, <1>8, <1>9, <1>10, <1>11, <1>12, <1>13, <1>14, <1>15, <1>16, <1>17, <1>18, <1>19, <1>20, <1>21, <1>22, <1>23, <1>24, <1>25, <1>26, <1>27 DEF Next, MainStep, ThreadStep

(* Every variable keeps its type in every execution.                       *)
THEOREM TypeCorrect == Spec => []TypeOK
<1>1. Typed => TypeOK
  BY DEF Typed
<1> QED
  BY TypedInit, TypedNext, <1>1, PTL DEF Spec

(* IInv1 holds initially.                                                  *)
LEMMA IInv1Init == Init => IInv1
<1> SUFFICES ASSUME Init PROVE IInv1
  OBVIOUS
<1>1. Typed
  BY TypedInit
<1>2. Busy1 = {} /\ handling = {}
  BY DEF Init, Busy1
<1>3. Outstanding1 = 0
  BY <1>2, FS_EmptySet DEF Init, Outstanding1
<1> QED
  BY <1>1, <1>2, <1>3, LimitsAssumption DEF Init, IInv1, NeverUndercounts1, Room1

(* curr1 never falls behind the children of service 1 it has to cover,     *)
(* as long as no handler's store was overtaken by the main loop's.         *)
THEOREM NoUndercount == Spec => []NeverUndercounts1
<1>1. IInv1 => NeverUndercounts1
  BY DEF IInv1
<1> QED
  BY IInv1Init, IInv1Next, <1>1, PTL DEF Spec

(* Under the same condition no more than Limit1 + 1 children of service 1  *)
(* run at a time.                                                          *)
THEOREM AdmissionBound == Spec => []Admission1
<1>1. IInv1 => Admission1
  <2> SUFFICES ASSUME IInv1, ~race1 PROVE Cardinality(Busy1) <= Limit1 + 1
    BY DEF Admission1
  <2> QED
    BY Outstanding1Type, LimitsAssumption DEF IInv1, Room1
<1> QED
  BY IInv1Init, IInv1Next, <1>1, PTL DEF Spec

-----------------------------------------------------------------------------
(* Service 2.  Not only curr2 but also every copy of it that has been      *)
(* loaded and not stored yet is off by at most race2, and the test of      *)
(* curr2 has left room for the thread about to be created.                 *)
Near(n) == Slots2 - race2 <= n /\ n <= Slots2 + race2

Counted2 ==
  /\ Near(curr2)
  /\ \A t \in Decrementing : Near(treg[t])
  /\ pc = "store2" => Near(reg)
  /\ Cardinality(Live2) + leaked <= Limit2 + 1 + race2
  /\ pc \in {"accept2", "load2", "store2", "create"} =>
       Cardinality(Live2) + leaked <= Limit2 + race2

IInv2 == Typed /\ Counted2

(* A number and its reference that grow together stay as near, and no less *)
(* near to a wider bound.                                                  *)
LEMMA NearStep ==
  ASSUME NEW s \in Int, NEW r \in Nat, NEW q \in Nat, NEW v \in Int,
         q >= r, s - r <= v, v <= s + r
  PROVE  (s + 1) - q <= v + 1 /\ v + 1 <= (s + 1) + q
OBVIOUS

(* Live2 is finite, now and in the next state.                             *)
LEMMA Live2Type ==
  /\ IsFiniteSet(Live2) /\ Cardinality(Live2) \in Nat
  /\ Cardinality(Live2') \in Nat
<1>1. IsFiniteSet(Live2) /\ IsFiniteSet(Live2')
  BY FS_Subset, ThreadsAssumption DEF Live2
<1> QED
  BY <1>1, FS_CardinalityType

(* A step that does not touch curr2, its copies or the threads, and does   *)
(* not bring the main loop to the branch of service 2, keeps Counted2.     *)
LEMMA Quiet2 ==
  ASSUME IInv2, UNCHANGED <<curr2, thread, treg, leaked, race2>>,
         \/ UNCHANGED <<pc, reg>>
         \/ /\ pc' \in {"select", "test1", "test2", "accept1", "load1", "store1", "fork"}
            /\ pc # "create"
         \/ pc = "accept2" /\ pc' = "load2"
  PROVE  Counted2'
<1>1. Live2' = Live2 /\ Decrementing' = Decrementing
  BY DEF Live2, Decrementing
<1>2. Slots2' = Slots2
  BY <1>1 DEF Slots2
<1> QED
  BY <1>1, <1>2, Live2Type, LimitsAssumption DEF IInv2, Counted2, Near, Typed, TypeOK

(* IInv2 is inductive.                                                     *)
LEMMA IInv2Next == IInv2 /\ [Next]_vars => IInv2'
<1> SUFFICES ASSUME IInv2, [Next]_vars PROVE IInv2'
  OBVIOUS
<1>0. Typed /\ Typed'
  BY TypedNext DEF IInv2
<1> SUFFICES Counted2'
  BY <1>0 DEF IInv2
<1>o. /\ Limit2 \in Nat /\ leaked \in Nat /\ race2 \in Nat /\ curr2 \in Int /\ reg \in Int
      /\ treg \in [Threads -> Int] /\ Slots2 \in Int
  <2>1. Limit2 \in Nat /\ leaked \in Nat
    BY <1>0, LimitsAssumption DEF Typed, TypeOK
  <2>2. Slots2 \in Int
    BY <2>1, Live2Type DEF Slots2
  <2> QED
    BY <1>0, <2>1, <2>2 DEF Typed, TypeOK
<1>s. ASSUME UNCHANGED leaked, Live2' = Live2, pc # "create", pc' # "create"
      PROVE  Slots2' = Slots2
  BY <1>s DEF Slots2
<1> USE DEF counters, network, mainVars, signalVars, threadVars, strays, races
<1>1. CASE SelectReady
  BY <1>1, Quiet2 DEF SelectReady, At, Goto
<1>2. CASE SelectInterrupted
  BY <1>2, Quiet2 DEF SelectInterrupted, At, Goto
<1>3. CASE Test1
  BY <1>3, Quiet2 DEF Test1, At, Goto
<1>4. CASE Accept1
  BY <1>4, Quiet2 DEF Accept1, At, Goto
<1>5. CASE Load1
  BY <1>5, Quiet2 DEF Load1, At, Goto
<1>6. CASE Store1
  BY <1>6, Quiet2 DEF Store1, At, Goto
<1>7. CASE Fork
  BY <1>7, Quiet2 DEF Fork, At, Goto
<1>8. CASE Test2
  <2>1. Live2' = Live2 /\ Decrementing' = Decrementing
    BY <1>8 DEF Live2, Decrementing, Test2
  <2>2. Slots2' = Slots2
    BY <1>8, <1>s, <2>1 DEF Test2, At, Goto
  <2>3. curr2 <= Limit2 => Cardinality(Live2) + leaked <= Limit2 + race2
    BY <1>o, <1>8, Live2Type DEF IInv2, Counted2, Near, Slots2, Test2, At
  <2>4. pc' \in {"accept2", "select"} /\ (pc' = "accept2" => curr2 <= Limit2)
    BY <1>8 DEF Test2, Goto
  <2> QED
    BY <1>8, <2>1, <2>2, <2>3, <2>4 DEF IInv2, Counted2, Near, Test2
<1>9. CASE Accept2
  BY <1>9, Quiet2 DEF Accept2, At, Goto
<1>10. CASE Load2
  <2>1. Live2' = Live2 /\ Decrementing' = Decrementing
    BY <1>10 DEF Live2, Decrementing, Load2
  <2>2. Slots2' = Slots2
    BY <1>10, <1>s, <2>1 DEF Load2, At, Goto
  <2> QED
    BY <1>10, <2>1, <2>2 DEF IInv2, Counted2, Near, Load2, At, Goto
<1>11. CASE Store2
  <2>1. Live2' = Live2 /\ Decrementing' = Decrementing
    BY <1>11 DEF Live2, Decrementing, Store2
  <2>2. Slots2' = Slots2 + 1
    BY <1>11, <2>1, Live2Type, <1>o DEF Slots2, Store2, At, Goto
  <2>3. /\ race2' \in Nat /\ race2' >= race2
        /\ Decrementing # {} => race2' = race2 + 1
    BY <1>o, <1>11 DEF Store2
  <2>4. Near(reg) /\ curr2' = reg + 1 /\ UNCHANGED <<treg, leaked>> /\ pc' = "create"
    BY <1>11 DEF Store2, At, Goto, IInv2, Counted2
  <2>5. Near(curr2)'
    <3>1. Slots2 - race2 <= reg /\ reg <= Slots2 + race2
      BY <2>4 DEF Near
    <3>2. Slots2 \in Int /\ race2 \in Nat /\ race2' \in Nat /\ reg \in Int /\ race2' >= race2
      BY <1>o, <2>3
    <3>3. Slots2' = Slots2 + 1 /\ curr2' = reg + 1
      BY <2>2, <2>4
    <3>4. (Slots2 + 1) - race2' <= reg + 1 /\ reg + 1 <= (Slots2 + 1) + race2'
      BY <3>1, <3>2, NearStep
    <3> QED
      BY <3>3, <3>4 DEF Near
  <2>6. ASSUME NEW t \in Decrementing' PROVE Near(treg[t])'
    <3>1. Near(treg[t]) /\ treg[t] \in Int /\ race2' = race2 + 1
      BY <1>o, <2>1, <2>3, <2>6 DEF IInv2, Counted2, Decrementing
    <3> QED
      BY <1>o, <2>2, <2>4, <3>1 DEF Near
  <2>7. Cardinality(Live2) + leaked <= Limit2 + race2
    BY <1>11 DEF Store2, At, IInv2, Counted2
  <2>8. Cardinality(Live2') + leaked' <= Limit2 + race2'
    BY <1>o, <2>1, <2>3, <2>4, <2>7, Live2Type
  <2>9. Cardinality(Live2') + leaked' <= Limit2 + 1 + race2'
    BY <1>o, <2>3, <2>4, <2>8, Live2Type
  <2> QED
    BY <2>4, <2>5, <2>6, <2>8, <2>9 DEF Counted2
<1>12. CASE Create
  <2>1. /\ pc = "create" /\ pc' = "select" /\ Decrementing' = Decrementing
        /\ UNCHANGED <<curr2, treg, race2>>
        /\ leaked' \in Nat /\ Slots2' = Slots2
        /\ Cardinality(Live2') + leaked' = Cardinality(Live2) + leaked + 1
    <3>1. CASE leaked' = leaked + 1 /\ UNCHANGED thread
      <4>1. Live2' = Live2 /\ Decrementing' = Decrementing
        BY <3>1 DEF Live2, Decrementing
      <4> QED
        BY <1>o, <1>12, <3>1, <4>1, Live2Type DEF Create, At, Goto, Slots2
    <3>2. CASE UNCHANGED leaked /\ \E t \in Threads : /\ thread[t] = "none"
                                                     /\ thread' = [thread EXCEPT ![t] = "start"]
      <4>1. PICK t \in Threads : /\ thread[t] = "none"
                                 /\ thread' = [thread EXCEPT ![t] = "start"]
        BY <3>2
      <4>2. t \notin Live2 /\ Live2' = Live2 \cup {t} /\ Decrementing' = Decrementing
        BY <1>0, <4>1 DEF Live2, Decrementing, Typed, TypeOK
      <4>3. Cardinality(Live2') = Cardinality(Live2) + 1
        BY <4>2, Live2Type, FS_AddElement
      <4> QED
        BY <1>o, <1>12, <3>2, <4>2, <4>3, Live2Type DEF Create, At, Goto, Slots2
    <3> QED
      BY <1>12, <3>1, <3>2 DEF Create
  <2>2. Cardinality(Live2) + leaked <= Limit2 + race2
    BY <2>1 DEF IInv2, Counted2
  <2>3. Cardinality(Live2') + leaked' <= Limit2 + 1 + race2'
    BY <1>o, <2>1, <2>2, Live2Type
  <2> QED
    BY <2>1, <2>3 DEF IInv2, Counted2, Near
<1>13. ASSUME NEW c \in Clients1, Connect1(c) PROVE Counted2'
  BY <1>13, Quiet2 DEF Connect1
<1>14. ASSUME NEW c \in Clients1, ChildRead(c) PROVE Counted2'
  BY <1>14, Quiet2 DEF ChildRead
<1>15. ASSUME NEW c \in Clients1, ChildAnswer(c) PROVE Counted2'
  BY <1>15, Quiet2 DEF ChildAnswer
<1>16. ASSUME NEW c \in Clients1, ChildNotify(c) PROVE Counted2'
  BY <1>16, Quiet2 DEF ChildNotify
<1>17. ASSUME NEW c \in Clients2, Connect2(c) PROVE Counted2'
  BY <1>17, Quiet2 DEF Connect2
<1>18. ASSUME NEW c \in Clients, ClientSend(c) PROVE Counted2'
  BY <1>18, Quiet2 DEF ClientSend
<1>19. ASSUME NEW t \in Threads, ThreadStart(t) \/ ThreadServe(t) PROVE Counted2'
  <2>1. Live2' = Live2 /\ Decrementing' = Decrementing
    BY <1>0, <1>19 DEF Live2, Decrementing, ThreadStart, ThreadServe, ThreadAt, Typed, TypeOK
  <2>2. UNCHANGED <<curr2, treg, reg, pc, leaked, race2>>
    BY <1>19 DEF ThreadStart, ThreadServe
  <2>3. Slots2' = Slots2
    BY <2>1, <2>2 DEF Slots2
  <2> QED
    BY <2>1, <2>2, <2>3 DEF IInv2, Counted2, Near
<1>21. ASSUME NEW t \in Threads, ThreadLoad(t) PROVE Counted2'
  <2>1. Live2' = Live2 /\ Decrementing' = Decrementing \cup {t}
    BY <1>0, <1>21 DEF Live2, Decrementing, ThreadLoad, ThreadAt, Typed, TypeOK
  <2>2. \A d \in Decrementing' : treg'[d] = IF d = t THEN curr2 ELSE treg[d]
    BY <1>0, <1>21 DEF Decrementing, ThreadLoad, Typed, TypeOK
  <2>3. UNCHANGED <<curr2, reg, pc, leaked, race2>>
    BY <1>21 DEF ThreadLoad
  <2>4. Slots2' = Slots2
    BY <2>1, <2>3 DEF Slots2
  <2>5. \A d \in Decrementing' : Near(treg[d])'
    BY <2>1, <2>2, <2>3, <2>4 DEF IInv2, Counted2, Near
  <2> QED
    BY <2>1, <2>3, <2>4, <2>5 DEF IInv2, Counted2, Near
<1>22. ASSUME NEW t \in Threads, ThreadStore(t) PROVE Counted2'
  <2>1. t \in Live2 /\ t \in Decrementing
        /\ Live2' = Live2 \ {t} /\ Decrementing' = Decrementing \ {t}
    BY <1>0, <1>22 DEF Live2, Decrementing, ThreadStore, ThreadAt, Typed, TypeOK
  <2>2. Cardinality(Live2') = Cardinality(Live2) - 1
    BY <2>1, Live2Type, FS_RemoveElement
  <2>3. /\ curr2' = treg[t] - 1 /\ UNCHANGED <<pc, reg, leaked>>
        /\ treg' = [treg EXCEPT ![t] = 0]
    BY <1>22 DEF ThreadStore
  <2>4. Slots2' = Slots2 - 1
    BY <1>o, <2>2, <2>3, Live2Type DEF Slots2
  <2>5. /\ race2' \in Nat /\ race2' >= race2
        /\ pc = "store2" \/ Decrementing' # {} => race2' = race2 + 1
    BY <1>o, <1>22, <2>1 DEF ThreadStore
  <2>6. Near(curr2)'
    <3>1. Near(treg[t]) /\ treg[t] \in Int
      BY <1>o, <2>1 DEF IInv2, Counted2
    <3> QED
      BY <1>o, <2>3, <2>4, <2>5, <3>1 DEF Near
  <2>7. ASSUME NEW d \in Decrementing' PROVE Near(treg[d])'
    <3>1. Near(treg[d]) /\ treg[d] \in Int /\ treg'[d] = treg[d] /\ race2' = race2 + 1
      BY <1>o, <2>1, <2>3, <2>5, <2>7 DEF IInv2, Counted2, Decrementing
    <3> QED
      BY <1>o, <2>4, <3>1 DEF Near
  <2>8. pc' = "store2" => Near(reg)'
    BY <1>o, <2>3, <2>4, <2>5 DEF IInv2, Counted2, Near
  <2>9. Cardinality(Live2') + leaked' <= Limit2 + 1 + race2'
    BY <1>o, <2>2, <2>3, <2>5, Live2Type DEF IInv2, Counted2
  <2>10. pc' \in {"accept2", "load2", "store2", "create"} =>
           Cardinality(Live2') + leaked' <= Limit2 + race2'
    BY <1>o, <2>2, <2>3, <2>5, Live2Type DEF IInv2, Counted2
  <2> QED
    BY <2>6, <2>7, <2>8, <2>9, <2>10 DEF Counted2
<1>23. ASSUME NEW x \in Contexts, TakeSignal(x) PROVE Counted2'
  BY <1>23, Quiet2 DEF TakeSignal
<1>24. ASSUME NEW x \in Contexts, HandlerStore(x) PROVE Counted2'
  BY <1>24, Quiet2 DEF HandlerStore
<1>25. CASE UNCHANGED vars
  BY <1>25, Quiet2 DEF vars
<1>26. CASE StrayAccept
  BY <1>26, Quiet2 DEF StrayAccept
<1>27. ASSUME NEW c \in Clients2, StrayServe(c) PROVE Counted2'
  BY <1>27, Quiet2 DEF StrayServe
<1> QED
  BY <1>1, <1>2, <1>3, <1>4, <1>5, <1>6, <1>7, <1>8, <1>9, <1>10, <1>11, <1>12, <1>13, <1>14, <1>15, <1>16, <1>17, <1>18, <1>19, <1>21, <1>22, <1>23, <1>24, <1>25, <1>26, <1>27 DEF Next, MainStep, ThreadStep

(* IInv2 holds initially.                                                  *)
LEMMA IInv2Init == Init => IInv2
<1> SUFFICES ASSUME Init PROVE IInv2
  OBVIOUS
<1>1. Typed
  BY TypedInit
<1>2. Live2 = {} /\ Decrementing = {}
  BY DEF Init, Live2, Decrementing
<1>3. Slots2 = 0
  BY <1>2, FS_EmptySet DEF Init, Slots2
<1> QED
  BY <1>1, <1>2, <1>3, FS_EmptySet, LimitsAssumption DEF Init, IInv2, Counted2, Near

(* curr2 differs from the slots taken, those of threads that were never    *)
(* created included, by at most the number of overlapping updates, and so  *)
(* do the threads that run exceed Limit2 + 1 (su_server.cpp:42,129-137).   *)
THEOREM AccountingExact == Spec => []Accounting2
<1>1. IInv2 => Accounting2
  BY DEF IInv2, Counted2, Near, Accounting2
<1> QED
  BY IInv2Init, IInv2Next, <1>1, PTL DEF Spec

-----------------------------------------------------------------------------
(* Refinement.  A client that waits for service 1 has not been served: it  *)
(* has connected once, stands in the backlog once and no child was forked  *)
(* for it.                                                                 *)
Unserved(c) == child[c] = "none" /\ client[c] # "idle"

Fresh ==
  /\ \A i \in DOMAIN backlog1 : Unserved(backlog1[i]) /\ backlog1[i] # nsfd
  /\ \A i, j \in DOMAIN backlog1 : backlog1[i] = backlog1[j] => i = j
  /\ nsfd \in Clients1 => Unserved(nsfd)
  /\ \A c \in Clients1 : child[c] # "none" => client[c] # "idle"

(* A step that leaves the backlog, nsfd and the children alone and takes   *)
(* no client back to "idle" keeps Fresh.                                   *)
LEMMA FreshQuiet ==
  ASSUME Typed, Fresh, UNCHANGED <<backlog1, nsfd, child>>,
         \A c \in Clients : client[c] # "idle" => client'[c] # "idle"
  PROVE  Fresh'
<1>1. \A i \in DOMAIN backlog1 : backlog1[i] \in Clients1
  BY ElementOfSeq DEF Typed, TypeOK
<1>2. \A c \in Clients1 : Unserved(c) => Unserved(c)'
  BY DEF Unserved, Clients
<1>3. \A i \in DOMAIN backlog1' : Unserved(backlog1[i])' /\ backlog1'[i] # nsfd'
  BY <1>1, <1>2 DEF Fresh
<1>4. nsfd' \in Clients1 => Unserved(nsfd)'
  BY <1>2 DEF Fresh
<1>5. \A c \in Clients1 : child'[c] # "none" => client'[c] # "idle"
  BY DEF Fresh, Clients
<1> QED
  BY <1>3, <1>4, <1>5 DEF Fresh, Unserved

(* Fresh is inductive.                                                     *)
LEMMA FreshNext == Typed /\ Fresh /\ [Next]_vars => Fresh'
<1> SUFFICES ASSUME Typed, Fresh, [Next]_vars PROVE Fresh'
  OBVIOUS
<1>0. /\ NoConn \notin Clients1 /\ NoConn \notin Clients /\ Clients1 \cap Clients2 = {}
      /\ Clients1 \subseteq Clients
      /\ \A i \in DOMAIN backlog1 : backlog1[i] \in Clients1
      /\ DOMAIN backlog1 = 1 .. Len(backlog1) /\ Len(backlog1) \in Nat
      /\ client \in [Clients -> ClientStates] /\ child \in [Clients1 -> ChildStates]
  BY ClientsAssumption, ElementOfSeq, LenProperties DEF Clients, Typed, TypeOK
<1> USE DEF counters, network, mainVars, signalVars, threadVars, strays, races
<1>1. CASE SelectReady
  BY <1>1, FreshQuiet DEF SelectReady
<1>2. CASE SelectInterrupted
  BY <1>2, FreshQuiet DEF SelectInterrupted
<1>3. CASE Test1
  BY <1>3, FreshQuiet DEF Test1
<1>4. CASE Accept1
  <2>1. CASE nsfd' = NoConn /\ UNCHANGED backlog1
    BY <1>0, <1>4, <2>1 DEF Fresh, Unserved, Accept1
  <2>2. CASE backlog1 # <<>> /\ nsfd' = Head(backlog1) /\ backlog1' = Tail(backlog1)
    <3>1. /\ backlog1' \in Seq(Clients1) /\ Len(backlog1') = Len(backlog1) - 1
          /\ \A i \in 1 .. Len(backlog1') : backlog1'[i] = backlog1[i + 1]
          /\ nsfd' = backlog1[1] /\ 1 \in DOMAIN backlog1
      BY <1>0, <2>2, HeadTailProperties, EmptySeq DEF Typed, TypeOK
    <3>2. \A i \in DOMAIN backlog1' : /\ i + 1 \in DOMAIN backlog1 /\ i + 1 # 1
                                      /\ backlog1'[i] = backlog1[i + 1]
      BY <1>0, <3>1, LenProperties
    <3>3. \A i, j \in DOMAIN backlog1' : backlog1'[i] = backlog1'[j] => i = j
      <4> SUFFICES ASSUME NEW i \in DOMAIN backlog1', NEW j \in DOMAIN backlog1',
                          backlog1'[i] = backlog1'[j]
                   PROVE  i = j
        OBVIOUS
      <4>1. i + 1 = j + 1
        BY <3>2 DEF Fresh
      <4>2. i \in Nat /\ j \in Nat
        BY <3>1, LenProperties
      <4> QED
        BY <4>1, <4>2
    <3>4. \A i \in DOMAIN backlog1' : Unserved(backlog1'[i]) /\ backlog1'[i] # nsfd'
      BY <3>1, <3>2 DEF Fresh
    <3>5. UNCHANGED <<client, child>> /\ Unserved(nsfd')
      BY <1>4, <3>1 DEF Accept1, Fresh
    <3> QED
      BY <3>3, <3>4, <3>5 DEF Fresh, Unserved
  <2> QED
    BY <1>4, <2>1, <2>2 DEF Accept1, AcceptFrom
<1>5. CASE Load1
  BY <1>5, FreshQuiet DEF Load1
<1>6. CASE Store1
  BY <1>6, FreshQuiet DEF Store1
<1>7. CASE Fork
  <2>1. UNCHANGED backlog1 /\ nsfd' = NoConn
    BY <1>7 DEF Fork
  <2>2. nsfd \in Clients1 \cup {NoConn}
    BY <1>7 DEF Fork, At, Typed, NsfdOK
  <2>3. /\ \A c \in Clients1 : c # nsfd => child'[c] = child[c]
        /\ \A c \in Clients1 : client[c] # "idle" => client'[c] # "idle"
        /\ \A c \in Clients1 : child'[c] # "none" => client'[c] # "idle"
    <3>1. CASE UNCHANGED <<client, child>>
      BY <3>1 DEF Fresh
    <3>2. CASE nsfd # NoConn /\ child' = [child EXCEPT ![nsfd] = "read"] /\ UNCHANGED client
      BY <1>0, <2>2, <3>2 DEF Fresh, Unserved
    <3>3. CASE nsfd # NoConn /\ client' = [client EXCEPT ![nsfd] = "closed"] /\ UNCHANGED child
      BY <1>0, <3>3 DEF Fresh
    <3>4. CASE nsfd # NoConn /\ child' = [child EXCEPT ![nsfd] = "server"] /\ UNCHANGED client
      BY <1>0, <2>2, <3>4 DEF Fresh, Unserved
    <3> QED
      BY <1>7, <3>1, <3>2, <3>3, <3>4 DEF Fork
  <2>4. \A i \in DOMAIN backlog1' : /\ child'[backlog1'[i]] = "none"
                                    /\ client'[backlog1'[i]] # "idle"
                                    /\ backlog1'[i] # nsfd'
    BY <1>0, <2>1, <2>3 DEF Fresh, Unserved
  <2> QED
    BY <1>0, <2>1, <2>3, <2>4 DEF Fresh, Unserved
<1>8. CASE Test2
  BY <1>8, FreshQuiet DEF Test2
<1>9. CASE Accept2
  <2>1. UNCHANGED <<backlog1, client, child>>
    BY <1>9 DEF Accept2
  <2>2. nsfd' \notin Clients1
    <3>1. backlog2 # <<>> => Head(backlog2) \in Clients2
      BY HeadTailProperties DEF Typed, TypeOK
    <3> QED
      BY <1>0, <1>9, <3>1 DEF Accept2, AcceptFrom
  <2> QED
    BY <1>0, <2>1, <2>2 DEF Fresh, Unserved
<1>10. CASE Load2
  BY <1>10, FreshQuiet DEF Load2
<1>11. CASE Store2
  BY <1>11, FreshQuiet DEF Store2
<1>12. CASE Create
  <2>1. UNCHANGED <<backlog1, client, child>> /\ nsfd' = NoConn
    BY <1>12 DEF Create
  <2> QED
    BY <1>0, <2>1 DEF Fresh, Unserved
<1>13. ASSUME NEW c \in Clients1, Connect1(c) PROVE Fresh'
  <2>1. /\ backlog1' = Append(backlog1, c) /\ client[c] = "idle"
        /\ client' = [client EXCEPT ![c] = "connected"] /\ UNCHANGED <<nsfd, child>>
    BY <1>13 DEF Connect1
  <2>2. c # nsfd /\ child[c] = "none" /\ \A i \in DOMAIN backlog1 : backlog1[i] # c
    BY <2>1 DEF Fresh, Unserved
  <2>3. /\ DOMAIN backlog1' = 1 .. (Len(backlog1) + 1)
        /\ \A i \in DOMAIN backlog1 : backlog1'[i] = backlog1[i]
        /\ backlog1'[Len(backlog1) + 1] = c
    BY <1>0, <2>1, AppendProperties, LenProperties DEF Typed, TypeOK
  <2>4. \A i \in DOMAIN backlog1' : i \in DOMAIN backlog1 \/ i = Len(backlog1) + 1
    BY <1>0, <2>3
  <2>5. \A i, j \in DOMAIN backlog1' : backlog1'[i] = backlog1'[j] => i = j
    BY <2>2, <2>3, <2>4 DEF Fresh
  <2>6. \A d \in Clients1 : client[d] # "idle" \/ d = c => client'[d] # "idle"
    BY <1>0, <2>1
  <2>7. \A i \in DOMAIN backlog1' : /\ child'[backlog1'[i]] = "none"
                                    /\ client'[backlog1'[i]] # "idle"
                                    /\ backlog1'[i] # nsfd'
    BY <1>0, <2>1, <2>2, <2>3, <2>4, <2>6 DEF Fresh, Unserved
  <2> QED
    BY <2>1, <2>5, <2>6, <2>7 DEF Fresh, Unserved
<1>14. ASSUME NEW c \in Clients1, ChildRead(c) PROVE Fresh'
  <2>1. /\ UNCHANGED <<backlog1, client, nsfd>> /\ child[c] # "none"
        /\ \A d \in Clients1 : child[d] = "none" => child'[d] = "none"
        /\ \A d \in Clients1 : child'[d] # "none" => child[d] # "none"
    BY <1>0, <1>14 DEF ChildRead
  <2> QED
    BY <1>0, <2>1 DEF Fresh, Unserved
<1>15. ASSUME NEW c \in Clients1, ChildAnswer(c) PROVE Fresh'
  <2>1. /\ UNCHANGED <<backlog1, nsfd>> /\ child[c] # "none"
        /\ \A d \in Clients1 : child[d] = "none" => child'[d] = "none"
        /\ \A d \in Clients1 : child'[d] # "none" => child[d] # "none"
        /\ \A d \in Clients1 : client[d] # "idle" => client'[d] # "idle"
    BY <1>0, <1>15 DEF ChildAnswer
  <2>2. \A i \in DOMAIN backlog1' : /\ child'[backlog1'[i]] = "none"
                                    /\ client'[backlog1'[i]] # "idle"
                                    /\ backlog1'[i] # nsfd'
    BY <1>0, <2>1 DEF Fresh, Unserved
  <2> QED
    BY <1>0, <2>1, <2>2 DEF Fresh, Unserved
<1>16. ASSUME NEW c \in Clients1, ChildNotify(c) PROVE Fresh'
  <2>1. /\ UNCHANGED <<backlog1, client, nsfd>> /\ child[c] # "none"
        /\ \A d \in Clients1 : child[d] = "none" => child'[d] = "none"
        /\ \A d \in Clients1 : child'[d] # "none" => child[d] # "none"
    BY <1>0, <1>16 DEF ChildNotify
  <2> QED
    BY <1>0, <2>1 DEF Fresh, Unserved
<1>17. ASSUME NEW c \in Clients2, Connect2(c) PROVE Fresh'
  BY <1>0, <1>17, FreshQuiet DEF Connect2
<1>18. ASSUME NEW c \in Clients, ClientSend(c) PROVE Fresh'
  BY <1>0, <1>18, FreshQuiet DEF ClientSend
<1>19. ASSUME NEW t \in Threads, ThreadStart(t) PROVE Fresh'
  BY <1>0, <1>19, FreshQuiet DEF ThreadStart
<1>20. ASSUME NEW t \in Threads, ThreadServe(t) PROVE Fresh'
  BY <1>0, <1>20, FreshQuiet DEF ThreadServe
<1>21. ASSUME NEW t \in Threads, ThreadLoad(t) PROVE Fresh'
  BY <1>0, <1>21, FreshQuiet DEF ThreadLoad
<1>22. ASSUME NEW t \in Threads, ThreadStore(t) PROVE Fresh'
  BY <1>0, <1>22, FreshQuiet DEF ThreadStore
<1>23. ASSUME NEW x \in Contexts, TakeSignal(x) PROVE Fresh'
  BY <1>23, FreshQuiet DEF TakeSignal
<1>24. ASSUME NEW x \in Contexts, HandlerStore(x) PROVE Fresh'
  BY <1>24, FreshQuiet DEF HandlerStore
<1>25. CASE UNCHANGED vars
  BY <1>25, FreshQuiet DEF vars
<1>26. CASE StrayAccept
  BY <1>26, FreshQuiet DEF StrayAccept
<1>27. ASSUME NEW c \in Clients2, StrayServe(c) PROVE Fresh'
  BY <1>0, <1>27, FreshQuiet DEF StrayServe
<1> QED
  BY <1>1, <1>2, <1>3, <1>4, <1>5, <1>6, <1>7, <1>8, <1>9, <1>10, <1>11, <1>12, <1>13, <1>14, <1>15, <1>16, <1>17, <1>18, <1>19, <1>20, <1>21, <1>22, <1>23, <1>24, <1>25, <1>26, <1>27 DEF Next, MainStep, ThreadStep

IInv == IInv1 /\ Fresh

(* The invariant behind the refinement holds initially.                    *)
LEMMA IInvInit == Init => IInv
<1> SUFFICES ASSUME Init PROVE IInv
  OBVIOUS
<1>1. Fresh
  BY ClientsAssumption, DOMAIN <<>> = {} DEF Init, Fresh, Clients
<1> QED
  BY <1>1, IInv1Init DEF IInv

(* And every step preserves it.                                            *)
LEMMA IInvNext == IInv /\ [Next]_vars => IInv'
<1> SUFFICES ASSUME IInv, [Next]_vars PROVE IInv'
  OBVIOUS
<1> QED
  BY IInv1Next, FreshNext DEF IInv, IInv1

(* The children that have reported their end.                              *)
Ended1 == {c \in Clients1 : child[c] = "zombie"}

(* Every step forks a child the abstract limit would admit, ends one it    *)
(* would let go, breaks the limit, or changes nothing of these.            *)
LEMMA Service1Step ==
  ASSUME IInv, [Next]_vars
  PROVE  [Service1!Next]_(Service1!vars)
<1>0. Typed /\ Typed' /\ child \in [Clients1 -> ChildStates]
      /\ Outstanding1 \in Nat /\ Cardinality(Busy1) \in Nat
  BY TypedNext, Outstanding1Type DEF IInv, IInv1, Typed, TypeOK
<1>1. ASSUME UNCHANGED <<child, race1>> PROVE UNCHANGED Service1!vars
  BY <1>1 DEF Service1!vars, Busy1
<1>2. CASE Fork
  <2>1. CASE UNCHANGED child
    BY <1>1, <1>2, <2>1 DEF Fork, races
  <2>2. CASE nsfd # NoConn /\ child' = [child EXCEPT ![nsfd] = "read"]
    <3>1. nsfd \in Clients1
      BY <1>0, <1>2, <2>2 DEF Typed, NsfdOK, Fork, At
    <3>2. child[nsfd] = "none"
      BY <3>1 DEF IInv, Fresh, Unserved
    <3>3. Busy1' = Busy1 \cup {nsfd} /\ Ended1' = Ended1
      BY <1>0, <2>2, <3>1, <3>2 DEF Busy1, Ended1
    <3>4. nsfd \notin Busy1 \cup Ended1
      BY <3>2 DEF Busy1, Ended1
    <3>5. race1 \/ Cardinality(Busy1) <= Limit1
      <4> SUFFICES ASSUME ~race1 PROVE Cardinality(Busy1) <= Limit1
        OBVIOUS
      <4>1. Outstanding1 >= Cardinality(Busy1) + 1
        BY <1>0, <1>2, <2>2, Outstanding1Type DEF Outstanding1, Fork, At
      <4>2. Outstanding1 <= Limit1 + 1
        BY <1>0 DEF IInv, IInv1, Room1
      <4> QED
        BY <1>0, <4>1, <4>2, LimitsAssumption
    <3>6. Service1!Cardinality(Busy1) = Cardinality(Busy1)
      BY DEF Service1!Cardinality, Cardinality, Service1!IsFiniteSet, IsFiniteSet
    <3>7. UNCHANGED race1
      BY <1>2 DEF Fork, races
    <3>8. Service1!Admit(nsfd)
      BY <3>3, <3>4, <3>5, <3>6, <3>7 DEF Service1!Admit, Ended1
    <3> QED
      BY <3>1, <3>8 DEF Service1!Next
  <2>3. CASE nsfd # NoConn /\ child' = [child EXCEPT ![nsfd] = "server"]
    <3>1. nsfd \in Clients1
      BY <1>0, <1>2, <2>3 DEF Typed, NsfdOK, Fork, At
    <3>2. child[nsfd] = "none"
      BY <3>1 DEF IInv, Fresh, Unserved
    <3>3. Busy1' = Busy1 /\ Ended1' = Ended1
      BY <1>0, <2>3, <3>1, <3>2 DEF Busy1, Ended1
    <3> QED
      BY <1>2, <3>3 DEF Service1!vars, Ended1, Fork, races
  <2> QED
    BY <1>2, <2>1, <2>2, <2>3 DEF Fork
<1>3. ASSUME NEW c \in Clients1, ChildRead(c) \/ ChildAnswer(c) PROVE UNCHANGED Service1!vars
  BY <1>0, <1>3 DEF ChildRead, ChildAnswer, Busy1, Service1!vars, races
<1>4. ASSUME NEW c \in Clients1, ChildNotify(c) PROVE Service1!Leave(c)
  <2>1. c \in Busy1 /\ Busy1' = Busy1 \ {c} /\ Ended1' = Ended1 \cup {c}
    BY <1>0, <1>4 DEF ChildNotify, Busy1, Ended1
  <2> QED
    BY <1>4, <2>1 DEF Service1!Leave, Ended1, ChildNotify, races
<1>5. CASE Store1
  <2>1. UNCHANGED <<Busy1, Ended1>>
    BY <1>5 DEF Store1, Busy1, Ended1, threadVars, signalVars
  <2>2. CASE UNCHANGED race1
    BY <2>1, <2>2 DEF Service1!vars, Ended1
  <2>3. CASE ~race1 /\ race1'
    BY <2>1, <2>3 DEF Service1!Break, Service1!Next, Ended1
  <2> QED
    BY <1>0, <1>5, <2>2, <2>3 DEF Store1, Typed, TypeOK
<1>6. \/ Fork \/ Store1 \/ UNCHANGED <<child, race1>>
      \/ \E c \in Clients1 : ChildRead(c) \/ ChildAnswer(c) \/ ChildNotify(c)
  BY DEF Next, MainStep, ThreadStep, vars, SelectReady, SelectInterrupted, Test1, Accept1,
     Load1, Test2, Accept2, Load2, Store2, Create, Connect1, Connect2, ClientSend,
     ThreadStart, ThreadServe, ThreadLoad, ThreadStore, StrayAccept, StrayServe,
     TakeSignal, HandlerStore, races
<1> QED
  BY <1>1, <1>2, <1>3, <1>4, <1>5, <1>6 DEF Service1!Next

(* Service 1 implements the abstract limit, for any number of threads of   *)
(* service 2: however the signals merge, wherever the handler interrupts,  *)
(* and with a broken limit only after a store has overtaken a handler.     *)
THEOREM Service1Refines == Spec => Service1Admission
<1>1. Init => Service1!Init
  BY DEF Init, Busy1, Service1!Init
<1>2. IInv /\ [Next]_vars => [Service1!Next]_(Service1!vars)
  BY Service1Step
<1> QED
  BY <1>1, <1>2, IInvInit, IInvNext, PTL DEF Spec, Service1Admission, Service1!Spec

-----------------------------------------------------------------------------
(***************************************************************************)
(* Accept.  AcceptBlocksOnlyWhenInterrupted is inductive as it stands:     *)
(* nobody but main takes a connection from sfd1, nobody but main and a     *)
(* stray child from sfd2, and a stray child stays one.                     *)

(* A step that leaves the main loop alone and takes nothing from a backlog *)
(* keeps it.                                                               *)
LEMMA AcceptQuiet ==
  ASSUME AcceptBlocksOnlyWhenInterrupted, UNCHANGED <<pc, interrupted>>,
         backlog1 # <<>> => backlog1' # <<>>,
         backlog2 # <<>> => backlog2' # <<>> \/ Strays # {},
         Strays # {} => Strays' # {}
  PROVE  AcceptBlocksOnlyWhenInterrupted'
BY DEF AcceptBlocksOnlyWhenInterrupted

(* Every step keeps it.                                                    *)
LEMMA AcceptNext ==
  Typed /\ AcceptBlocksOnlyWhenInterrupted /\ [Next]_vars => AcceptBlocksOnlyWhenInterrupted'
<1> SUFFICES ASSUME Typed, AcceptBlocksOnlyWhenInterrupted, [Next]_vars
             PROVE  AcceptBlocksOnlyWhenInterrupted'
  OBVIOUS
<1>0. /\ backlog1 \in Seq(Clients1) /\ backlog2 \in Seq(Clients2)
      /\ child \in [Clients1 -> ChildStates]
  BY DEF Typed, TypeOK
<1>s. UNCHANGED child => Strays' = Strays
  BY DEF Strays
<1> USE DEF counters, network, mainVars, signalVars, threadVars, strays, races
<1>1. CASE MainStep
  <2>1. CASE SelectReady
    BY <2>1 DEF AcceptBlocksOnlyWhenInterrupted, SelectReady, Goto
  <2>2. CASE SelectInterrupted
    BY <2>2 DEF AcceptBlocksOnlyWhenInterrupted, SelectInterrupted, Goto
  <2>3. CASE Test1
    BY <2>3 DEF AcceptBlocksOnlyWhenInterrupted, Test1, At, Goto
  <2>4. CASE Test2
    BY <1>s, <2>4 DEF AcceptBlocksOnlyWhenInterrupted, Test2, At, Goto
  <2>5. CASE Accept1 \/ Load1 \/ Store1 \/ Fork \/ Accept2 \/ Load2 \/ Store2 \/ Create
    <3>1. pc' \in {"load1", "store1", "fork", "load2", "store2", "create", "select"}
      BY <2>5 DEF Accept1, Load1, Store1, Fork, Accept2, Load2, Store2, Create, Goto
    <3> QED
      BY <3>1 DEF AcceptBlocksOnlyWhenInterrupted
  <2> QED
    BY <1>1, <2>1, <2>2, <2>3, <2>4, <2>5 DEF MainStep
<1>2. ASSUME NEW c \in Clients1, Connect1(c) PROVE AcceptBlocksOnlyWhenInterrupted'
  <2>1. backlog1' # <<>>
    BY <1>0, <1>2, AppendProperties DEF Connect1
  <2> QED
    BY <1>2, <1>s, <2>1, AcceptQuiet DEF Connect1
<1>3. ASSUME NEW c \in Clients2, Connect2(c) PROVE AcceptBlocksOnlyWhenInterrupted'
  <2>1. backlog2' # <<>>
    BY <1>0, <1>3, AppendProperties DEF Connect2
  <2> QED
    BY <1>3, <1>s, <2>1, AcceptQuiet DEF Connect2
<1>4. CASE StrayAccept
  BY <1>4, <1>s, AcceptQuiet DEF StrayAccept
<1>5. ASSUME NEW c \in Clients1, ChildRead(c) \/ ChildAnswer(c) \/ ChildNotify(c)
      PROVE  AcceptBlocksOnlyWhenInterrupted'
  <2>1. Strays' = Strays
    BY <1>0, <1>5 DEF Strays, ChildRead, ChildAnswer, ChildNotify
  <2> QED
    BY <1>5, <2>1, AcceptQuiet DEF ChildRead, ChildAnswer, ChildNotify
<1>6. CASE UNCHANGED <<pc, interrupted, backlog1, backlog2, child>>
  BY <1>6, <1>s, AcceptQuiet
<1>7. \/ MainStep \/ StrayAccept
      \/ UNCHANGED <<pc, interrupted, backlog1, backlog2, child>>
      \/ \E c \in Clients1 : Connect1(c) \/ ChildRead(c) \/ ChildAnswer(c) \/ ChildNotify(c)
      \/ \E c \in Clients2 : Connect2(c)
  BY DEF Next, ThreadStep, vars, ClientSend, StrayServe,
     ThreadStart, ThreadServe, ThreadLoad, ThreadStore, TakeSignal, HandlerStore
<1> QED
  BY <1>1, <1>2, <1>3, <1>4, <1>5, <1>6, <1>7

(* Whatever the number of clients and threads, main sits in the accept of  *)
(* port 5000 only after an interrupted select, and in that of port 5001    *)
(* only beside a child whose execv failed (su_server.cpp:93-131).          *)
THEOREM AcceptReady == Spec => []AcceptBlocksOnlyWhenInterrupted
<1>1. Init => AcceptBlocksOnlyWhenInterrupted
  BY DEF Init, AcceptBlocksOnlyWhenInterrupted
<1> QED
  BY <1>1, TypedInit, TypedNext, AcceptNext, PTL DEF Spec

-----------------------------------------------------------------------------
(* Owners.  A client that waits for an answer, and the threads of service  *)
(* 2 that hold its connection.                                             *)
Waits(c) == client[c] \in {"connected", "sent"}
Holds(t, c) == \/ thread[t] = "start" /\ arg[t] = c
               \/ thread[t] = "recv" /\ conn[t] = c

(* nsfd is used up before the loop comes back to select.                   *)
NsfdFree == pc \in {"select", "test1", "accept1", "test2", "accept2"} => nsfd = NoConn

(* A waiting client of service 1 is in the backlog, at main, or has a      *)
(* child that has not answered or that never became service1 (Fresh: in    *)
(* one of these places only).                                              *)
Held1 ==
  /\ \A c \in Clients1 : child[c] \in {"notify", "zombie"} => ~Waits(c)
  /\ \A c \in Clients1 : Waits(c) => c \in Items(backlog1) \cup {nsfd} \cup Busy1 \cup Strays

(* A client of service 2 that a stray child has or that was given to no    *)
(* thread.                                                                 *)
Elsewhere(c) == c \in taken \cup stranded

(* A client of service 2 is in one place if it waits and nowhere if not.   *)
Held2 ==
  /\ Distinct(backlog2) /\ nsfd \notin Items(backlog2)
  /\ taken \cap stranded = {}
  /\ \A c \in Clients2 : c \in Items(backlog2) \cup {nsfd} =>
       Waits(c) /\ ~Elsewhere(c) /\ \A t \in Threads : ~Holds(t, c)
  /\ \A c \in Clients2 : Elsewhere(c) => Waits(c) /\ \A t \in Threads : ~Holds(t, c)
  /\ \A t \in Threads : \A c \in Clients2 : Holds(t, c) =>
       Waits(c) /\ \A u \in Threads : Holds(u, c) => u = t
  /\ \A c \in Clients2 : Waits(c) =>
       \/ c \in Items(backlog2) \cup {nsfd} \/ Elsewhere(c)
       \/ \E t \in Threads : Holds(t, c)

Held == NsfdFree /\ Held1 /\ Held2

(* Fresh in terms of what stands in the backlog.                           *)
LEMMA FreshItems ==
  ASSUME Typed, Fresh
  PROVE  /\ Distinct(backlog1) /\ nsfd \notin Items(backlog1)
         /\ \A c \in Items(backlog1) : Unserved(c)
BY DEF Fresh, Items, Distinct

(* What leaves the places of service 1's clients alone keeps Held1.        *)
LEMMA Held1Quiet ==
  ASSUME Typed, Held1, UNCHANGED <<backlog1, child>>,
         nsfd \in Clients1 => nsfd' = nsfd,
         \A c \in Clients1 : Waits(c)' => Waits(c)
  PROVE  Held1'
BY DEF Held1, Busy1, Strays

(* What leaves the places of service 2's clients alone keeps Held2.        *)
LEMMA Held2Quiet ==
  ASSUME Typed, Held2, UNCHANGED <<backlog2, taken, stranded>>,
         nsfd \in Clients2 \/ nsfd' \in Clients2 => nsfd' = nsfd,
         \A t \in Threads, c \in Clients2 : Holds(t, c)' <=> Holds(t, c),
         \A c \in Clients2 : Waits(c)' <=> Waits(c)
  PROVE  Held2'
<1>1. Items(backlog2) \subseteq Clients2
  BY ItemsOf DEF Typed, TypeOK
<1>2. nsfd' \notin Items(backlog2)
  BY <1>1 DEF Held2
<1> QED
  BY <1>1, <1>2 DEF Held2, Items, Elsewhere

(* Held is inductive beside Typed and Fresh.                               *)
LEMMA HeldNext == Typed /\ Fresh /\ Held /\ [Next]_vars => Held'
<1> SUFFICES ASSUME Typed, Fresh, Held, [Next]_vars PROVE Held'
  OBVIOUS
<1>0. /\ NoConn \notin Clients1 /\ NoConn \notin Clients2 /\ Clients1 \cap Clients2 = {}
      /\ Clients = Clients1 \cup Clients2
      /\ backlog1 \in Seq(Clients1) /\ backlog2 \in Seq(Clients2)
      /\ Items(backlog1) \subseteq Clients1 /\ Items(backlog2) \subseteq Clients2
      /\ client \in [Clients -> ClientStates] /\ child \in [Clients1 -> ChildStates]
      /\ thread \in [Threads -> ThreadStates]
      /\ arg \in [Threads -> Clients2 \cup {NoConn}]
      /\ conn \in [Threads -> Clients2 \cup {NoConn}]
  BY ClientsAssumption, ItemsOf DEF Clients, Typed, TypeOK
<1>h. NsfdFree /\ Held1 /\ Held2
  BY DEF Held
<1>q. ASSUME UNCHANGED <<backlog1, backlog2, child, thread, arg, conn, client, nsfd>>,
             UNCHANGED <<taken, stranded>>,
             pc' \in {"select", "test1", "accept1", "test2", "accept2"} =>
               nsfd = NoConn
      PROVE  Held'
  <2>1. Held1'
    BY <1>h, <1>q, Held1Quiet DEF Waits
  <2>2. Held2'
    BY <1>h, <1>q, Held2Quiet DEF Waits, Holds
  <2> QED
    BY <1>q, <2>1, <2>2 DEF Held, NsfdFree
<1> USE DEF counters, network, mainVars, signalVars, threadVars, strays, races
<1>1. CASE SelectReady
  BY <1>1, <1>h, <1>q DEF SelectReady, At, NsfdFree
<1>2. CASE SelectInterrupted
  BY <1>2, <1>h, <1>q DEF SelectInterrupted, At, NsfdFree
<1>3. CASE Test1
  BY <1>3, <1>h, <1>q DEF Test1, At, NsfdFree
<1>4. CASE Accept1
  <2>1. nsfd = NoConn /\ pc' = "load1" /\ UNCHANGED <<backlog2, client, child, thread, arg, conn, taken, stranded>>
    BY <1>4, <1>h DEF Accept1, At, Goto, NsfdFree
  <2>2. CASE nsfd' = NoConn /\ UNCHANGED backlog1
    BY <1>q, <2>1, <2>2
  <2>3. CASE backlog1 # <<>> /\ nsfd' = Head(backlog1) /\ backlog1' = Tail(backlog1)
    <3>1. /\ nsfd' \in Items(backlog1)
          /\ Items(backlog1) = Items(backlog1') \cup {nsfd'}
      BY <1>0, <2>3, ItemsTail
    <3>2. Held1'
      BY <1>0, <1>h, <2>1, <3>1 DEF Held1, Waits, Busy1, Strays
    <3>3. Held2'
      BY <1>0, <1>h, <2>1, <3>1, Held2Quiet DEF Waits, Holds
    <3> QED
      BY <2>1, <3>2, <3>3 DEF Held, NsfdFree
  <2> QED
    BY <1>4, <2>2, <2>3 DEF Accept1, AcceptFrom
<1>5. CASE Load1
  BY <1>5, <1>q DEF Load1, Goto
<1>6. CASE Store1
  BY <1>6, <1>q DEF Store1, Goto
<1>7. CASE Fork
  <2>1. /\ nsfd \in Clients1 \cup {NoConn} /\ nsfd' = NoConn
        /\ UNCHANGED <<backlog1, backlog2, thread, arg, conn, taken, stranded>>
    BY <1>7 DEF Fork, At, Typed, NsfdOK
  <2>2. NsfdFree'
    BY <2>1 DEF NsfdFree
  <2>3. /\ \A c \in Clients1 : c # nsfd => child'[c] = child[c] /\ client'[c] = client[c]
        /\ \A c \in Clients2 : client'[c] = client[c]
        /\ nsfd \in Clients1 =>
             \/ child'[nsfd] \in {"read", "server"}
             \/ child'[nsfd] = child[nsfd] /\ client'[nsfd] = "closed"
    <3>1. CASE nsfd = NoConn
      BY <1>0, <1>7, <3>1 DEF Fork
    <3>2. CASE nsfd # NoConn /\ child' = [child EXCEPT ![nsfd] = "read"] /\ UNCHANGED client
      BY <1>0, <2>1, <3>2
    <3>3. CASE nsfd # NoConn /\ client' = [client EXCEPT ![nsfd] = "closed"] /\ UNCHANGED child
      BY <1>0, <2>1, <3>3
    <3>4. CASE nsfd # NoConn /\ child' = [child EXCEPT ![nsfd] = "server"] /\ UNCHANGED client
      BY <1>0, <2>1, <3>4
    <3> QED
      BY <1>7, <3>1, <3>2, <3>3, <3>4 DEF Fork
  <2>4. Held1'
    BY <1>0, <1>h, <2>1, <2>3 DEF Held1, Busy1, Strays, Waits
  <2>5. Held2'
    BY <1>0, <1>h, <2>1, <2>3, Held2Quiet DEF Waits, Holds
  <2> QED
    BY <2>2, <2>4, <2>5 DEF Held
<1>8. CASE Test2
  BY <1>8, <1>h, <1>q DEF Test2, At, NsfdFree
<1>9. CASE Accept2
  <2>1. nsfd = NoConn /\ pc' = "load2" /\ UNCHANGED <<backlog1, client, child, thread, arg, conn, taken, stranded>>
    BY <1>9, <1>h DEF Accept2, At, Goto, NsfdFree
  <2>2. CASE nsfd' = NoConn /\ UNCHANGED backlog2
    BY <1>q, <2>1, <2>2
  <2>3. CASE backlog2 # <<>> /\ nsfd' = Head(backlog2) /\ backlog2' = Tail(backlog2)
    <3>1. /\ nsfd' \in Items(backlog2) /\ Distinct(backlog2')
          /\ Items(backlog2') = Items(backlog2) \ {nsfd'}
      BY <1>0, <1>h, <2>3, ItemsTail DEF Held2
    <3>2. Held1'
      BY <1>0, <1>h, <2>1, Held1Quiet DEF Waits
    <3>3. Held2'
      BY <1>0, <1>h, <2>1, <3>1 DEF Held2, Waits, Holds, Elsewhere
    <3> QED
      BY <2>1, <3>2, <3>3 DEF Held, NsfdFree
  <2> QED
    BY <1>9, <2>2, <2>3 DEF Accept2, AcceptFrom
<1>10. CASE Load2
  BY <1>10, <1>q DEF Load2, Goto
<1>11. CASE Store2
  BY <1>11, <1>q DEF Store2, Goto
<1>12. CASE Create
  <2>1. /\ nsfd \in Clients2 \cup {NoConn} /\ nsfd' = NoConn
        /\ UNCHANGED <<backlog1, backlog2, child, client, conn, taken>>
    BY <1>12 DEF Create, At, Typed, NsfdOK
  <2>2. NsfdFree'
    BY <2>1 DEF NsfdFree
  <2>3. Held1'
    BY <1>0, <1>h, <2>1, Held1Quiet DEF Waits
  <2>4. CASE \E t \in Threads : /\ thread[t] = "none"
                               /\ thread' = [thread EXCEPT ![t] = "start"]
                               /\ arg' = [arg EXCEPT ![t] = nsfd]
                               /\ UNCHANGED stranded
    <3>1. PICK t \in Threads : /\ thread[t] = "none"
                               /\ thread' = [thread EXCEPT ![t] = "start"]
                               /\ arg' = [arg EXCEPT ![t] = nsfd]
      BY <2>4
    <3>2. /\ \A u \in Threads, c \in Clients2 : u # t => (Holds(u, c)' <=> Holds(u, c))
          /\ \A c \in Clients2 : Holds(t, c)' <=> c = nsfd
          /\ \A c \in Clients2 : ~Holds(t, c)
      BY <1>0, <2>1, <3>1 DEF Holds
    <3>3. Held2'
      BY <1>0, <1>h, <2>1, <2>4, <3>2 DEF Held2, Waits, Elsewhere
    <3> QED
      BY <2>2, <2>3, <3>3 DEF Held
  <2>5. CASE stranded' = stranded \cup ({nsfd} \cap Clients2) /\ UNCHANGED <<thread, arg>>
    <3>1. \A u \in Threads, c \in Clients2 : Holds(u, c)' <=> Holds(u, c)
      BY <2>1, <2>5 DEF Holds
    <3>2. Held2'
      BY <1>0, <1>h, <2>1, <2>5, <3>1 DEF Held2, Waits, Elsewhere
    <3> QED
      BY <2>2, <2>3, <3>2 DEF Held
  <2> QED
    BY <1>12, <2>4, <2>5 DEF Create
<1>13. ASSUME NEW c \in Clients1, Connect1(c) PROVE Held'
  <2>1. /\ client[c] = "idle" /\ client' = [client EXCEPT ![c] = "connected"]
        /\ backlog1' = Append(backlog1, c)
        /\ UNCHANGED <<backlog2, child, thread, arg, conn, nsfd, pc, taken, stranded>>
    BY <1>13 DEF Connect1
  <2>2. Items(backlog1') = Items(backlog1) \cup {c}
    BY <1>0, <2>1, ItemsAppend
  <2>3. child[c] = "none"
    BY <2>1 DEF Fresh
  <2>4. Held1'
    BY <1>0, <1>h, <2>1, <2>2, <2>3 DEF Held1, Busy1, Strays, Waits
  <2>5. Held2'
    BY <1>0, <1>h, <2>1, Held2Quiet DEF Waits, Holds
  <2> QED
    BY <1>h, <2>1, <2>4, <2>5 DEF Held, NsfdFree
<1>14. ASSUME NEW c \in Clients1, ChildRead(c) \/ ChildAnswer(c) \/ ChildNotify(c) PROVE Held'
  <2>1. /\ UNCHANGED <<backlog1, backlog2, thread, arg, conn, nsfd, pc, taken, stranded>>
        /\ \A d \in Clients2 : client'[d] = client[d]
        /\ \A d \in Clients1 : d # c => child'[d] = child[d] /\ client'[d] = client[d]
        /\ \/ child[c] = "read" /\ child'[c] = "stdin" /\ client'[c] = client[c]
           \/ child[c] = "stdin" /\ child'[c] = "notify" /\ client'[c] = "replied"
           \/ child[c] = "notify" /\ child'[c] = "zombie" /\ client'[c] = client[c]
    BY <1>0, <1>14 DEF ChildRead, ChildAnswer, ChildNotify
  <2>2. Held1'
    BY <1>0, <1>h, <2>1 DEF Held1, Busy1, Strays, Waits
  <2>3. Held2'
    BY <1>0, <1>h, <2>1, Held2Quiet DEF Waits, Holds
  <2> QED
    BY <1>h, <2>1, <2>2, <2>3 DEF Held, NsfdFree
<1>17. ASSUME NEW c \in Clients2, Connect2(c) PROVE Held'
  <2>1. /\ client[c] = "idle" /\ client' = [client EXCEPT ![c] = "connected"]
        /\ backlog2' = Append(backlog2, c)
        /\ UNCHANGED <<backlog1, child, thread, arg, conn, nsfd, pc, taken, stranded>>
    BY <1>17 DEF Connect2
  <2>2. /\ c \notin Items(backlog2) /\ c # nsfd
        /\ ~Elsewhere(c) /\ \A t \in Threads : ~Holds(t, c)
    BY <1>h, <2>1 DEF Held2, Waits
  <2>3. Items(backlog2') = Items(backlog2) \cup {c} /\ Distinct(backlog2')
    BY <1>0, <1>h, <2>1, <2>2, ItemsAppend DEF Held2
  <2>4. Held1'
    BY <1>0, <1>h, <2>1, Held1Quiet DEF Waits
  <2>5. /\ \A d \in Clients2 : Waits(d)' <=> (Waits(d) \/ d = c)
        /\ \A t \in Threads, d \in Clients2 : Holds(t, d)' <=> Holds(t, d)
        /\ \A d \in Clients2 : Elsewhere(d)' <=> Elsewhere(d)
        /\ UNCHANGED <<taken, stranded, nsfd>>
    BY <1>0, <2>1 DEF Waits, Holds, Elsewhere
  <2>6. Held2'
    BY <1>0, <1>h, <2>1, <2>2, <2>3, <2>5 DEF Held2
  <2> QED
    BY <1>h, <2>1, <2>4, <2>6 DEF Held, NsfdFree
<1>18. ASSUME NEW c \in Clients, ClientSend(c) PROVE Held'
  <2>1. /\ \A d \in Clients : Waits(d)' <=> Waits(d)
        /\ UNCHANGED <<backlog1, backlog2, child, thread, arg, conn, nsfd, pc, taken, stranded>>
    BY <1>0, <1>18 DEF ClientSend, Waits
  <2>2. Held1' /\ Held2'
    BY <1>0, <1>h, <2>1, Held1Quiet, Held2Quiet DEF Holds
  <2> QED
    BY <1>h, <2>1, <2>2 DEF Held, NsfdFree
<1>19. ASSUME NEW t \in Threads, ThreadStart(t) \/ ThreadLoad(t) \/ ThreadStore(t) PROVE Held'
  <2>1. /\ \A u \in Threads, d \in Clients2 : Holds(u, d)' <=> Holds(u, d)
        /\ UNCHANGED <<backlog1, backlog2, client, child, nsfd, pc, taken, stranded>>
    BY <1>0, <1>19 DEF ThreadStart, ThreadLoad, ThreadStore, ThreadAt, Holds
  <2>2. Held1' /\ Held2'
    BY <1>0, <1>h, <2>1, Held1Quiet, Held2Quiet DEF Waits
  <2> QED
    BY <1>h, <2>1, <2>2 DEF Held, NsfdFree
<1>20. ASSUME NEW t \in Threads, ThreadServe(t) PROVE Held'
  <2>1. /\ thread[t] = "recv" /\ thread' = [thread EXCEPT ![t] = "load"]
        /\ UNCHANGED <<backlog1, backlog2, child, arg, conn, nsfd, pc, taken, stranded>>
    BY <1>20 DEF ThreadServe, ThreadAt
  <2>2. /\ \A c \in Clients : c # conn[t] => client'[c] = client[c]
        /\ conn[t] \in Clients2 => client'[conn[t]] = "replied"
    BY <1>0, <1>20 DEF ThreadServe
  <2>3. Held1'
    BY <1>0, <1>h, <2>1, <2>2, Held1Quiet DEF Waits
  <2>4. /\ \A u \in Threads, c \in Clients2 : u # t => (Holds(u, c)' <=> Holds(u, c))
        /\ \A c \in Clients2 : ~Holds(t, c)' /\ (Holds(t, c) <=> c = conn[t])
    BY <1>0, <2>1 DEF Holds
  <2>5. \A c \in Clients2 : Waits(c)' <=> (Waits(c) /\ c # conn[t])
    BY <1>0, <2>2 DEF Waits
  <2>6. Held2'
    BY <1>0, <1>h, <2>1, <2>4, <2>5 DEF Held2, Elsewhere
  <2> QED
    BY <1>h, <2>1, <2>3, <2>6 DEF Held, NsfdFree
<1>23. ASSUME NEW x \in Contexts, TakeSignal(x) \/ HandlerStore(x) PROVE Held'
  BY <1>23, <1>h, <1>q DEF TakeSignal, HandlerStore, NsfdFree
<1>25. CASE UNCHANGED vars
  BY <1>25, <1>h, <1>q DEF vars, NsfdFree
<1>26. CASE StrayAccept
  <2>1. /\ backlog2 # <<>> /\ backlog2' = Tail(backlog2)
        /\ UNCHANGED <<backlog1, client, child, thread, arg, conn, nsfd, pc>>
        /\ \/ taken' = taken \cup {Head(backlog2)} /\ UNCHANGED stranded
           \/ stranded' = stranded \cup {Head(backlog2)} /\ UNCHANGED taken
    BY <1>26 DEF StrayAccept
  <2>2. /\ Head(backlog2) \in Items(backlog2) /\ Distinct(backlog2')
        /\ Items(backlog2') = Items(backlog2) \ {Head(backlog2)}
    BY <1>0, <1>h, <2>1, ItemsTail DEF Held2
  <2>3. Held1'
    BY <1>0, <1>h, <2>1, Held1Quiet DEF Waits
  <2>4. \A u \in Threads, c \in Clients2 : Holds(u, c)' <=> Holds(u, c)
    BY <2>1 DEF Holds
  <2>5. \A c \in Clients2 : Elsewhere(c)' <=> (Elsewhere(c) \/ c = Head(backlog2))
    BY <2>1 DEF Elsewhere
  <2>6. taken' \cap stranded' = {}
    BY <1>0, <1>h, <2>1, <2>2 DEF Held2, Elsewhere
  <2>7. Held2'
    BY <1>0, <1>h, <2>1, <2>2, <2>4, <2>5, <2>6 DEF Held2, Waits
  <2> QED
    BY <1>h, <2>1, <2>3, <2>7 DEF Held, NsfdFree
<1>27. ASSUME NEW c \in Clients2, StrayServe(c) PROVE Held'
  <2>1. /\ c \in taken /\ client' = [client EXCEPT ![c] = "replied"]
        /\ taken' = taken \ {c}
        /\ UNCHANGED <<backlog1, backlog2, child, thread, arg, conn, nsfd, pc, stranded>>
    BY <1>27 DEF StrayServe
  <2>2. /\ \A d \in Clients1 : Waits(d)' <=> Waits(d)
        /\ \A d \in Clients2 : Waits(d)' <=> (Waits(d) /\ d # c)
        /\ \A u \in Threads, d \in Clients2 : Holds(u, d)' <=> Holds(u, d)
        /\ \A d \in Clients2 : Elsewhere(d)' <=> (Elsewhere(d) /\ d # c)
    BY <1>0, <1>h, <2>1 DEF Waits, Holds, Elsewhere, Held2
  <2>3. Held1'
    BY <1>0, <1>h, <2>1, <2>2, Held1Quiet
  <2>4. Elsewhere(c) /\ taken' \cap stranded' = {}
    BY <1>h, <2>1 DEF Elsewhere, Held2
  <2>5. Held2'
    BY <1>0, <1>h, <2>1, <2>2, <2>4 DEF Held2
  <2> QED
    BY <1>h, <2>1, <2>3, <2>5 DEF Held, NsfdFree
<1> QED
  BY <1>1, <1>2, <1>3, <1>4, <1>5, <1>6, <1>7, <1>8, <1>9, <1>10, <1>11, <1>12, <1>13, <1>14, <1>17, <1>18, <1>19, <1>20, <1>23, <1>25, <1>26, <1>27 DEF Next, MainStep, ThreadStep

(* Held1, Held2 and Fresh leave every waiting client exactly one owner.    *)
LEMMA OwnerUnique ==
  ASSUME Typed, Fresh, Held
  PROVE  OneOwner
<1> SUFFICES ASSUME NEW c \in Clients, Waits(c)
             PROVE  IF c \in Forsaken THEN Owners(c) = {} ELSE \E o : Owners(c) = {o}
  BY FS_Singleton, FS_EmptySet DEF OneOwner, Waits
<1>0. /\ Clients1 \cap Clients2 = {} /\ Clients = Clients1 \cup Clients2
      /\ Items(backlog1) \subseteq Clients1 /\ Items(backlog2) \subseteq Clients2
      /\ taken \subseteq Clients2 /\ stranded \subseteq Clients2
      /\ arg \in [Threads -> Clients2 \cup {NoConn}]
      /\ conn \in [Threads -> Clients2 \cup {NoConn}]
      /\ NoConn \notin Clients1
  BY ClientsAssumption, ItemsOf DEF Clients, Typed, TypeOK
<1>1. Owners(c) = {o \in {"backlog"} : c \in Items(backlog1) \cup Items(backlog2)}
                  \cup {o \in {"main"} : nsfd = c} \cup {o \in {"child"} : c \in Busy1}
                  \cup {o \in {"stray"} : c \in taken}
                  \cup {t \in Threads : Holds(t, c)}
  BY DEF Owners, Items, Holds
<1>2. CASE c \in Clients1
  <2>1. /\ c \notin Items(backlog2) /\ c \notin taken \cup stranded
        /\ \A t \in Threads : ~Holds(t, c)
    BY <1>0, <1>2 DEF Holds
  <2>2. /\ c \in Items(backlog1) \/ nsfd = c \/ c \in Busy1 \/ c \in Strays
        /\ ~(c \in Items(backlog1) /\ nsfd = c)
        /\ c \in Items(backlog1) \/ nsfd = c => c \notin Busy1 /\ c \notin Strays
        /\ ~(c \in Busy1 /\ c \in Strays)
    BY <1>2, FreshItems DEF Held, Held1, Fresh, Unserved, Busy1, Strays
  <2>3. CASE c \in Strays
    BY <1>1, <2>1, <2>2, <2>3 DEF Forsaken
  <2>4. CASE c \notin Strays
    <3>1. Owners(c) = {"backlog"} \/ Owners(c) = {"main"} \/ Owners(c) = {"child"}
      BY <1>1, <2>1, <2>2, <2>4
    <3> QED
      BY <2>1, <2>4, <3>1 DEF Forsaken
  <2> QED
    BY <2>3, <2>4
<1>3. CASE c \in Clients2
  <2>1. c \notin Items(backlog1) /\ c \notin Busy1 /\ c \notin Strays
    BY <1>0, <1>3 DEF Busy1, Strays
  <2>2. CASE c \in Items(backlog2) \cup {nsfd}
    <3>1. Owners(c) = {"backlog"} \/ Owners(c) = {"main"}
      BY <1>1, <1>3, <2>1, <2>2 DEF Held, Held2, Elsewhere
    <3>2. c \notin Forsaken
      BY <1>3, <2>1, <2>2 DEF Held, Held2, Elsewhere, Forsaken
    <3> QED
      BY <3>1, <3>2
  <2>3. CASE c \in stranded
    <3>1. Owners(c) = {}
      BY <1>1, <1>3, <2>1, <2>3 DEF Held, Held2, Elsewhere
    <3> QED
      BY <2>3, <3>1 DEF Forsaken
  <2>4. CASE c \in taken
    <3>1. c \notin Forsaken
      BY <1>3, <2>1, <2>4 DEF Held, Held2, Forsaken
    <3>2. Owners(c) = {"stray"}
      BY <1>1, <1>3, <2>1, <2>4 DEF Held, Held2, Elsewhere
    <3> QED
      BY <3>1, <3>2
  <2>5. CASE c \notin Items(backlog2) \cup {nsfd} /\ ~Elsewhere(c)
    <3>1. PICK t \in Threads : Holds(t, c)
      BY <1>3, <2>5 DEF Held, Held2
    <3>2. \A u \in Threads : Holds(u, c) => u = t
      BY <1>3, <3>1 DEF Held, Held2
    <3>3. Owners(c) = {t}
      BY <1>1, <2>1, <2>5, <3>1, <3>2 DEF Elsewhere
    <3>4. c \notin Forsaken
      BY <2>1, <2>5 DEF Forsaken, Elsewhere
    <3> QED
      BY <3>3, <3>4
  <2> QED
    BY <2>2, <2>3, <2>4, <2>5 DEF Elsewhere
<1> QED
  BY <1>0, <1>2, <1>3

(* For any number of clients and threads a connection that waits for its   *)
(* answer has exactly one owner, and none if its thread was never created  *)
(* or its service1 never executed (su_server.cpp:37, 118, 131-137).        *)
THEOREM OwnersUnique == Spec => []OneOwner
<1>1. Init => Held
  <2> SUFFICES ASSUME Init PROVE Held
    OBVIOUS
  <2>1. NoConn \notin Clients1 /\ NoConn \notin Clients2
    BY ClientsAssumption DEF Clients
  <2>2. Held1
    BY <2>1 DEF Init, Held1, Waits, Clients
  <2>3. \A t \in Threads, c \in Clients2 : ~Holds(t, c)
    BY DEF Init, Holds
  <2>4. Held2
    BY <2>1, <2>3, ItemsEmpty DEF Init, Held2, Waits, Clients, Elsewhere
  <2> QED
    BY <2>2, <2>4 DEF Init, Held, NsfdFree
<1>2. IInv => Typed /\ Fresh
  BY DEF IInv, IInv1
<1>3. IInv /\ Held => OneOwner
  BY <1>2, OwnerUnique
<1>4. IInv /\ Held /\ [Next]_vars => Held'
  BY <1>2, HeldNext
<1> QED
  BY <1>1, <1>3, <1>4, IInvInit, IInvNext, PTL DEF Spec
=============================================================================
