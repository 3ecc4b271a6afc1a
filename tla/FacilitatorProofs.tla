-------------------------- MODULE FacilitatorProofs --------------------------
(***************************************************************************)
(* Proofs about the two facilitators.  First Facilitator, for any number   *)
(* of services, news clients and connections; then PortFacilitator.        *)
(***************************************************************************)
EXTENDS Facilitator, PortFacilitator, QueueLemmas, SequenceTheorems,
        WellFoundedInduction, TLAPS

(* path is one ahead of count only between main's two assignments, and     *)
(* select has not reported a descriptor without a path, nor standard input *)
(* without a line.                                                         *)
MainOK ==
  /\ Len(path) = (IF pc = "count" THEN count ELSE count - 1)
  /\ ready \subseteq (1 .. count - 1) \cup {Stdin}
  /\ pc = "read" \/ (pc = "signal" /\ Stdin \in ready) => stdin # <<>>
  /\ pc \in {"fork", "kill"} => count >= 2

(* info runs only when there is a path to announce, and on main's thread   *)
(* only while main is about to call select again.                          *)
InfoOK ==
  /\ \A x \in Threads : info[x] # Off => count >= 2
  /\ \A x \in Threads : info[x].at = "send" => info[x].next >= 1
  /\ info[Main] # Off => pc = "select"
  /\ ~strayed => info[Talker] = Off

(* cliaddr is one ahead of clicount only between send_all's two            *)
(* assignments, and ends with the client it is serving.                    *)
TalkerOK ==
  /\ talker # "recv" => caddr \in Addresses
  /\ IF talker = "count" THEN Len(cliaddr) = clicount + 1 /\ cliaddr[clicount + 1] = caddr
     ELSE Len(cliaddr) = clicount
  /\ talker = "send" => clicount >= 1 /\ cliaddr[clicount] = caddr /\ next >= 1

(* Who will still send the j-th path to the i-th client: send_all, in its  *)
(* loop for the last client, or the announcement of the last path.         *)
TalkerOwes(i, j) == talker = "send" /\ i = clicount /\ j >= next

InfoOwes(i, j) ==
  /\ j = count - 1
  /\ \/ pc \in {"fork", "kill", "gone"}
     \/ info[Main] = On
     \/ info[Main].at = "send" /\ info[Main].path = path[j] /\ i >= info[Main].next

(* Every client has been sent every path, or somebody owes it to it.       *)
NothingLost ==
  ~strayed => \A i \in 1 .. clicount : \A j \in 1 .. count - 1 :
                path[j] \in told[cliaddr[i]] \/ TalkerOwes(i, j) \/ InfoOwes(i, j)

IInv == TypeOK /\ MainOK /\ InfoOK /\ TalkerOK /\ NothingLost

InfoStates == {Off, On} \cup [at : {"send"}, path : Services, next : Nat]

(* TypeOK in four parts, one for each process.                             *)
MainTypes ==
  /\ stdin \in Seq(Services)
  /\ pc \in {"select", "signal", "read", "count", "fork", "kill", "gone"}
  /\ ready \in SUBSET (Nat \cup {Stdin})
  /\ path \in Seq(Services) /\ count \in 1 .. Len(path) + 1

TalkerTypes ==
  /\ registered \in Nat /\ datagrams \in Seq(NewsClients)
  /\ len \in {"unset", "negative", "set"}
  /\ talker \in {"recv", "store", "count", "send"} /\ caddr \in Addresses \cup {None}
  /\ next \in Nat
  /\ cliaddr \in Seq(Addresses) /\ clicount \in 0 .. Len(cliaddr)

InfoTypes ==
  told \in [Addresses -> SUBSET Services] /\ info \in [Threads -> InfoStates] /\ strayed \in BOOLEAN

ServiceTypes ==
  /\ service \in [Services -> {"none", "forked", "execed", "installed", "ready", "dead"}]
  /\ copy \in [Services -> SUBSET Addresses]
  /\ sig \in [Services -> BOOLEAN] /\ accepting \in [Services -> BOOLEAN]
  /\ waiting \in [Services -> Nat] /\ visits \in Nat

(* It is their conjunction.                                                *)
LEMMA TypeParts == TypeOK <=> MainTypes /\ TalkerTypes /\ InfoTypes /\ ServiceTypes
BY DEF TypeOK, MainTypes, TalkerTypes, InfoTypes, ServiceTypes, InfoStates

-----------------------------------------------------------------------------
(* The entries of the arrays, and what a handler's record is.              *)
LEMMA Entries ==
  ASSUME TypeOK
  PROVE  /\ Len(path) \in Nat /\ DOMAIN path = 1 .. Len(path)
         /\ \A i \in 1 .. Len(path) : path[i] \in Services
         /\ Len(cliaddr) \in Nat /\ DOMAIN cliaddr = 1 .. Len(cliaddr)
         /\ \A i \in 1 .. Len(cliaddr) : cliaddr[i] \in Addresses
         /\ count \in Nat /\ clicount \in Nat
<1>1. path \in Seq(Services) /\ cliaddr \in Seq(Addresses)
  BY DEF TypeOK
<1>2. /\ Len(path) \in Nat /\ DOMAIN path = 1 .. Len(path)
      /\ Len(cliaddr) \in Nat /\ DOMAIN cliaddr = 1 .. Len(cliaddr)
  BY <1>1, LenProperties
<1>3. (\A i \in 1 .. Len(path) : path[i] \in Services)
      /\ (\A i \in 1 .. Len(cliaddr) : cliaddr[i] \in Addresses)
  BY <1>1, ElementOfSeq
<1> QED
  BY <1>2, <1>3 DEF TypeOK

(* The states of a handler.                                                *)
LEMMA InfoFields ==
  /\ Off.at = "off" /\ On.at = "on" /\ Off # On
  /\ \A r \in InfoStates :
       /\ r # Off /\ r # On => r.at = "send"
       /\ r.at = "send" => /\ r # Off /\ r # On
                           /\ r.path \in Services /\ r.next \in Nat
                           /\ r = [at |-> "send", path |-> r.path, next |-> r.next]
<1>1. Off.at = "off" /\ On.at = "on"
  BY DEF Off, On
<1>2. \A r \in [at : {"send"}, path : Services, next : Nat] :
        /\ r.at = "send" /\ r.path \in Services /\ r.next \in Nat
        /\ r = [at |-> "send", path |-> r.path, next |-> r.next]
  OBVIOUS
<1> QED
  BY <1>1, <1>2 DEF InfoStates

(* The invariant holds initially.                                          *)
LEMMA IInvInit == Init => IInv
<1> SUFFICES ASSUME Init PROVE IInv
  OBVIOUS
<1>1. /\ stdin \in Seq(Services) /\ path \in Seq(Services) /\ Len(path) = 0
      /\ datagrams \in Seq(NewsClients) /\ cliaddr \in Seq(Addresses) /\ Len(cliaddr) = 0
  BY EmptySeq DEF Init
<1>2. TypeOK
  <2>1. MainTypes
    BY <1>1 DEF Init, MainTypes
  <2>2. TalkerTypes
    BY <1>1 DEF Init, TalkerTypes
  <2>3. InfoTypes /\ ServiceTypes
    BY DEF Init, InfoTypes, ServiceTypes, InfoStates
  <2> QED
    BY <2>1, <2>2, <2>3, TypeParts
<1>3. MainOK /\ TalkerOK
  BY <1>1 DEF Init, MainOK, TalkerOK
<1>4. InfoOK
  BY InfoFields DEF Init, InfoOK, Threads
<1>5. NothingLost
  BY DEF Init, NothingLost
<1> QED
  BY <1>2, <1>3, <1>4, <1>5 DEF IInv

-----------------------------------------------------------------------------
(* What each variable is.                                                  *)
LEMMA TypeNext == IInv /\ [Next]_vars => TypeOK'
<1> SUFFICES ASSUME IInv, [Next]_vars PROVE TypeOK'
  OBVIOUS
<1>0. TypeOK /\ MainTypes /\ TalkerTypes /\ InfoTypes /\ ServiceTypes
  BY TypeParts DEF IInv
<1>a. UNCHANGED mainVars => MainTypes'
  BY <1>0 DEF MainTypes, mainVars
<1>b. UNCHANGED talkerVars => TalkerTypes'
  BY <1>0 DEF TalkerTypes, talkerVars, intake
<1>c. UNCHANGED <<told, infoVars>> => InfoTypes'
  BY <1>0 DEF InfoTypes, infoVars
<1>d. UNCHANGED serviceVars => ServiceTypes'
  BY <1>0 DEF ServiceTypes, serviceVars
<1>e. MainTypes' /\ TalkerTypes' /\ InfoTypes' /\ ServiceTypes' => TypeOK'
  BY DEF TypeOK, MainTypes, TalkerTypes, InfoTypes, ServiceTypes, InfoStates
<1>1. ASSUME NEW s \in Services, Operator(s) PROVE TypeOK'
  <2>1. MainTypes'
    BY <1>0, <1>1, AppendProperties DEF Operator, MainTypes
  <2> QED
    BY <1>1, <1>b, <1>c, <1>d, <1>e, <2>1 DEF Operator
<1>2. ASSUME NEW n \in NewsClients, Register(n) PROVE TypeOK'
  <2>1. TalkerTypes'
    BY <1>0, <1>2, AppendProperties DEF Register, TalkerTypes
  <2> QED
    BY <1>2, <1>a, <1>c, <1>d, <1>e, <2>1 DEF Register
<1>3. ASSUME NEW s \in Services, Visit(s) PROVE TypeOK'
  <2>1. ServiceTypes'
    BY <1>0, <1>3 DEF Visit, ServiceTypes
  <2> QED
    BY <1>3, <1>a, <1>b, <1>c, <1>e, <2>1 DEF Visit
<1>4. CASE Select
  <2>1. ready' \in SUBSET (Nat \cup {Stdin})
    BY <1>0, <1>4 DEF Select, MainTypes
  <2>2. MainTypes'
    BY <1>0, <1>4, <2>1 DEF Select, Goto, MainTypes
  <2> QED
    BY <1>4, <1>b, <1>c, <1>d, <1>e, <2>2 DEF Select
<1>5. CASE Signal
  <2>0. UNCHANGED <<stdin, pc, path, count, talkerVars, infoVars, copy, accepting, waiting, visits>>
    BY <1>5 DEF Signal
  <2>1. PICK i \in ready \ {Stdin}, s \in Services :
          /\ ready' = ready \ {i}
          /\ \/ /\ told' = [n \in Addresses |->
                              IF n \in copy[s] THEN told[n] \cup {s} ELSE told[n]]
                /\ UNCHANGED <<service, sig>>
             \/ service' = [service EXCEPT ![s] = "dead"] /\ UNCHANGED <<told, sig>>
             \/ sig' = [sig EXCEPT ![s] = TRUE] /\ UNCHANGED <<told, service>>
             \/ UNCHANGED <<told, service, sig>>
    <3>1. \A i \in ready \ {Stdin} : path[i] \in Services
      BY <1>0, Entries DEF IInv, MainOK, MainTypes
    <3> QED
      BY <1>5, <3>1 DEF Signal
  <2>2. MainTypes'
    BY <1>0, <2>0, <2>1 DEF MainTypes
  <2>3. InfoTypes'
    BY <1>0, <2>0, <2>1 DEF InfoTypes, infoVars
  <2>4. ServiceTypes'
    BY <1>0, <2>0, <2>1 DEF ServiceTypes
  <2> QED
    BY <1>b, <1>e, <2>0, <2>2, <2>3, <2>4
<1>6. CASE Signalled
  <2>1. MainTypes'
    BY <1>0, <1>6 DEF Signalled, Goto, MainTypes
  <2> QED
    BY <1>6, <1>b, <1>c, <1>d, <1>e, <2>1 DEF Signalled
<1>7. CASE ReadLine
  <2>1. stdin # <<>>
    BY <1>7 DEF ReadLine, At, IInv, MainOK
  <2>2. Head(stdin) \in Services /\ Tail(stdin) \in Seq(Services)
    BY <1>0, <2>1, HeadTailProperties DEF MainTypes
  <2>3. path' \in Seq(Services) /\ Len(path') = Len(path) + 1
    BY <1>0, <1>7, <2>2, AppendProperties DEF ReadLine, MainTypes
  <2>4. count' \in 1 .. Len(path') + 1
    BY <1>0, <1>7, <2>3, Entries DEF ReadLine, MainTypes
  <2>5. MainTypes'
    BY <1>0, <1>7, <2>2, <2>3, <2>4 DEF ReadLine, Goto, MainTypes
  <2> QED
    BY <1>7, <1>b, <1>c, <1>d, <1>e, <2>5 DEF ReadLine
<1>8. CASE Count
  <2>1. count' \in 1 .. Len(path') + 1
    BY <1>0, <1>8, Entries DEF Count, At, IInv, MainOK
  <2>2. MainTypes'
    BY <1>0, <1>8, <2>1 DEF Count, Goto, MainTypes
  <2> QED
    BY <1>8, <1>b, <1>c, <1>d, <1>e, <2>2 DEF Count
<1>9. CASE Fork
  <2>1. {cliaddr[i] : i \in 1 .. clicount} \subseteq Addresses
    BY <1>0, Entries DEF TalkerTypes
  <2>2. MainTypes'
    BY <1>0, <1>9 DEF Fork, Goto, MainTypes
  <2>3. ServiceTypes'
    BY <1>0, <1>9, <2>1 DEF Fork, ServiceTypes
  <2> QED
    BY <1>9, <1>b, <1>c, <1>e, <2>2, <2>3 DEF Fork
<1>10. CASE KillSelf
  <2>1. MainTypes'
    BY <1>0, <1>10 DEF KillSelf, Goto, MainTypes
  <2>2. InfoTypes'
    BY <1>0, <1>10 DEF KillSelf, InfoTypes, InfoStates
  <2> QED
    BY <1>10, <1>b, <1>d, <1>e, <2>1, <2>2 DEF KillSelf
<1>11. ASSUME NEW x \in Threads, InfoCopy(x) PROVE TypeOK'
  <2>1. count - 1 \in 1 .. Len(path)
    <3>1. count >= 2
      BY <1>11, InfoFields DEF InfoCopy, IInv, InfoOK
    <3> QED
      BY <1>0, <3>1, Entries DEF MainTypes
  <2>2. [at |-> "send", path |-> path[count - 1], next |-> 1] \in InfoStates
    BY <1>0, <2>1, Entries DEF InfoStates
  <2>3. InfoTypes'
    BY <1>0, <1>11, <2>2 DEF InfoCopy, InfoTypes
  <2> QED
    BY <1>11, <1>a, <1>b, <1>d, <1>e, <2>3 DEF InfoCopy
<1>12. ASSUME NEW x \in Threads, InfoSend(x) PROVE TypeOK'
  <2>r. PICK r \in InfoStates : r = info[x]
    BY <1>0 DEF InfoTypes
  <2>1. r.at = "send" /\ r.path \in Services /\ r.next \in Nat
    BY <1>12, <2>r, InfoFields DEF InfoSend
  <2>2. InfoTypes'
    <3>1. CASE r.next <= clicount
      <4>1. /\ told' = [told EXCEPT ![cliaddr[r.next]] = @ \cup {r.path}]
            /\ info' = [info EXCEPT ![x].next = r.next + 1] /\ UNCHANGED strayed
        BY <1>12, <2>r, <3>1 DEF InfoSend
      <4>2. told' \in [Addresses -> SUBSET Services]
        BY <1>0, <2>1, <4>1 DEF InfoTypes
      <4>3. [r EXCEPT !.next = r.next + 1] \in InfoStates
        BY <2>1, <2>r, InfoFields DEF InfoStates
      <4>4. info' \in [Threads -> InfoStates]
        BY <1>0, <2>r, <4>1, <4>3 DEF InfoTypes
      <4> QED
        BY <1>0, <4>1, <4>2, <4>4 DEF InfoTypes
    <3>2. CASE ~(r.next <= clicount)
      BY <1>0, <1>12, <2>r, <3>2 DEF InfoSend, InfoTypes, InfoStates
    <3> QED
      BY <3>1, <3>2
  <2> QED
    BY <1>12, <1>a, <1>b, <1>d, <1>e, <2>2 DEF InfoSend
<1>13. CASE TalkerRecv
  <2>1. Head(datagrams) \in NewsClients /\ Tail(datagrams) \in Seq(NewsClients)
    BY <1>0, <1>13, HeadTailProperties DEF TalkerRecv, TalkerTypes
  <2>2. caddr' \in Addresses /\ len' \in {"unset", "negative", "set"}
    BY <1>0, <1>13, <2>1 DEF TalkerRecv, TalkerTypes, Addresses
  <2>3. TalkerTypes'
    BY <1>0, <1>13, <2>1, <2>2 DEF TalkerRecv, TalkerTypes
  <2> QED
    BY <1>13, <1>a, <1>c, <1>d, <1>e, <2>3 DEF TalkerRecv
<1>14. CASE TalkerStore
  <2>1. caddr \in Addresses
    BY <1>14 DEF TalkerStore, TalkerAt, IInv, TalkerOK
  <2>2. cliaddr' \in Seq(Addresses) /\ Len(cliaddr') = Len(cliaddr) + 1
    BY <1>0, <1>14, <2>1, AppendProperties DEF TalkerStore, TalkerTypes, intake, Addresses
  <2>3. clicount' \in 0 .. Len(cliaddr')
    BY <1>0, <1>14, <2>2, Entries DEF TalkerStore, TalkerTypes, intake, Addresses
  <2>4. TalkerTypes'
    BY <1>0, <1>14, <2>2, <2>3 DEF TalkerStore, TalkerTypes, intake, Addresses
  <2> QED
    BY <1>14, <1>a, <1>c, <1>d, <1>e, <2>4 DEF TalkerStore
<1>15. CASE TalkerCount
  <2>1. clicount' \in 0 .. Len(cliaddr')
    BY <1>0, <1>15, Entries DEF TalkerCount, TalkerAt, IInv, TalkerOK
  <2>2. TalkerTypes'
    BY <1>0, <1>15, <2>1 DEF TalkerCount, TalkerTypes, intake, Addresses
  <2> QED
    BY <1>15, <1>a, <1>c, <1>d, <1>e, <2>2 DEF TalkerCount
<1>16. CASE TalkerSend
  <2>1. next \in Nat \ {0}
    BY <1>0, <1>16 DEF TalkerSend, TalkerAt, IInv, TalkerOK, TalkerTypes
  <2>2. next <= count - 1 => path[next] \in Services
    BY <1>0, <2>1, Entries DEF MainTypes
  <2>3. InfoTypes'
    BY <1>0, <1>16, <2>2 DEF TalkerSend, infoVars, InfoTypes
  <2>4. TalkerTypes'
    BY <1>0, <1>16, <2>1 DEF TalkerSend, TalkerTypes, intake, Addresses
  <2> QED
    BY <1>16, <1>a, <1>d, <1>e, <2>3, <2>4 DEF TalkerSend
<1>17. ASSUME NEW s \in Services,
              Exec(s) \/ ExecFails(s) \/ InstallHandler(s) \/ SetSocket(s) \/ Handle(s) \/ HandleAccept(s)
       PROVE  TypeOK'
  <2>1. UNCHANGED <<mainVars, talkerVars, told, infoVars>>
    BY <1>17 DEF Exec, ExecFails, InstallHandler, SetSocket, Handle, HandleAccept
  <2>2. CASE Exec(s) \/ ExecFails(s) \/ InstallHandler(s) \/ SetSocket(s) \/ Handle(s)
    BY <1>0, <2>2, <1>a, <1>b, <1>c, <1>e, <2>1
       DEF Exec, ExecFails, InstallHandler, SetSocket, Handle, ServiceTypes
  <2>3. CASE HandleAccept(s)
    <3>1. waiting' \in [Services -> Nat]
      BY <1>0, <2>3 DEF HandleAccept, ServiceTypes
    <3>2. service' \in [Services -> {"none", "forked", "execed", "installed", "ready", "dead"}]
      BY <1>0, <2>3 DEF HandleAccept, ServiceTypes
    <3>3. ServiceTypes'
      BY <1>0, <2>3, <3>1, <3>2 DEF HandleAccept, ServiceTypes
    <3> QED
      BY <1>a, <1>b, <1>c, <1>e, <2>1, <3>3
  <2> QED
    BY <1>17, <2>2, <2>3
<1>18. CASE UNCHANGED vars
  BY <1>18, <1>a, <1>b, <1>c, <1>d, <1>e DEF vars
<1> QED
  BY <1>1, <1>2, <1>3, <1>4, <1>5, <1>6, <1>7, <1>8, <1>9, <1>10, <1>11, <1>12, <1>13, <1>14,
     <1>15, <1>16, <1>17, <1>18 DEF Next, MainStep, TalkerStep, ServiceStep

-----------------------------------------------------------------------------
(* Where the threads are.                                                  *)
PeopleStep ==
  \/ \E s \in Services : Visit(s) \/ ExecFails(s) \/ ServiceStep(s)
  \/ \E n \in NewsClients : Register(n)

(* The people and the services leave the facilitator's variables alone.    *)
LEMMA PeopleFrame ==
  ASSUME PeopleStep
  PROVE  UNCHANGED <<mainVars, talker, caddr, next, cliaddr, clicount, told, infoVars>>
BY DEF PeopleStep, ServiceStep, Visit, ExecFails, Exec, InstallHandler, SetSocket, Handle,
   HandleAccept, Register, talkerVars

(* main's part of the invariant.                                           *)
LEMMA MainNext == IInv /\ [Next]_vars => MainOK'
<1> SUFFICES ASSUME IInv, [Next]_vars PROVE MainOK'
  OBVIOUS
<1>0. /\ MainOK /\ stdin \in Seq(Services) /\ path \in Seq(Services) /\ Stdin \notin Nat
      /\ Len(path) \in Nat /\ count \in Nat \ {0}
  BY Entries, NamesAssumption DEF IInv, TypeOK
<1>1. ASSUME UNCHANGED mainVars PROVE MainOK'
  BY <1>0, <1>1 DEF MainOK, mainVars
<1>2. ASSUME NEW s \in Services, Operator(s) PROVE MainOK'
  <2>1. stdin' # <<>>
    BY <1>0, <1>2, AppendProperties, EmptySeq DEF Operator
  <2> QED
    BY <1>0, <1>2, <2>1 DEF Operator, MainOK
<1>3. CASE Select
  <2>1. ready' \subseteq (1 .. count - 1) \cup {Stdin} /\ (Stdin \in ready' => stdin # <<>>)
    BY <1>0, <1>3 DEF Select
  <2> QED
    BY <1>0, <1>3, <2>1 DEF Select, At, Goto, MainOK
<1>4. CASE Signal
  <2>1. ready' \subseteq ready /\ UNCHANGED <<stdin, pc, path, count>>
    BY <1>4 DEF Signal
  <2> QED
    BY <1>0, <2>1 DEF MainOK
<1>5. CASE Signalled
  BY <1>0, <1>5 DEF Signalled, At, Goto, MainOK
<1>6. CASE ReadLine
  <2>1. Head(stdin) \in Services
    BY <1>0, <1>6, HeadTailProperties DEF ReadLine, At, MainOK
  <2>2. Len(path') = Len(path) + 1
    BY <1>0, <1>6, <2>1, AppendProperties DEF ReadLine
  <2> QED
    BY <1>0, <1>6, <2>2 DEF ReadLine, At, Goto, MainOK
<1>7. CASE Count
  <2>1. /\ pc = "count" /\ pc' = "fork" /\ count' = count + 1
        /\ UNCHANGED <<stdin, ready, path>>
    BY <1>7 DEF Count, At, Goto
  <2>2. ready' \subseteq (1 .. count' - 1) \cup {Stdin}
    BY <1>0, <2>1 DEF MainOK
  <2> QED
    BY <1>0, <2>1, <2>2 DEF MainOK
<1>8. CASE Fork
  BY <1>0, <1>8 DEF Fork, At, Goto, MainOK
<1>9. CASE KillSelf
  BY <1>0, <1>9 DEF KillSelf, At, Goto, MainOK
<1>10. ASSUME NEW x \in Threads, InfoCopy(x) \/ InfoSend(x) PROVE MainOK'
  BY <1>1, <1>10 DEF InfoCopy, InfoSend
<1>11. CASE TalkerStep
  BY <1>1, <1>11 DEF TalkerStep, TalkerRecv, TalkerStore, TalkerCount, TalkerSend
<1>12. CASE PeopleStep
  BY <1>1, <1>12, PeopleFrame
<1>13. CASE UNCHANGED vars
  BY <1>1, <1>13 DEF vars
<1> QED
  BY <1>2, <1>3, <1>4, <1>5, <1>6, <1>7, <1>8, <1>9, <1>10, <1>11, <1>12, <1>13
     DEF Next, MainStep, PeopleStep

(* The handler's part.                                                     *)
LEMMA InfoNext == IInv /\ [Next]_vars => InfoOK'
<1> SUFFICES ASSUME IInv, [Next]_vars PROVE InfoOK'
  OBVIOUS
<1>0. /\ InfoOK /\ info \in [Threads -> InfoStates] /\ Main \in Threads /\ Talker \in Threads
      /\ Main # Talker /\ count \in Nat /\ strayed \in BOOLEAN
  BY Entries, NamesAssumption, TypeParts DEF IInv, InfoTypes, Threads
<1>1. ASSUME UNCHANGED <<info, strayed>>, count' \in Nat, count' >= count,
             info[Main] = Off \/ UNCHANGED pc
      PROVE  InfoOK'
  BY <1>0, <1>1 DEF InfoOK
<1>2. CASE Select \/ Signal \/ Signalled \/ ReadLine \/ Count \/ Fork
  <2>1. info[Main] = Off /\ UNCHANGED infoVars /\ count' \in {count, count + 1}
    BY <1>2 DEF Select, Signal, Signalled, ReadLine, Count, Fork, At
  <2> QED
    BY <1>0, <1>1, <2>1 DEF infoVars
<1>3. CASE KillSelf
  <2>1. PICK x \in Threads : /\ info[x] = Off /\ info' = [info EXCEPT ![x] = On]
                            /\ strayed' = (strayed \/ x = Talker)
    BY <1>3 DEF KillSelf
  <2>2. pc = "kill" /\ pc' = "select" /\ UNCHANGED count /\ count >= 2
    BY <1>3 DEF KillSelf, At, Goto, IInv, MainOK
  <2>3. \A y \in Threads : info'[y] = IF y = x THEN On ELSE info[y]
    BY <1>0, <2>1
  <2> QED
    BY <1>0, <2>1, <2>2, <2>3, InfoFields DEF InfoOK
<1>4. ASSUME NEW x \in Threads, InfoCopy(x) PROVE InfoOK'
  <2>r. PICK r : r = [at |-> "send", path |-> path[count - 1], next |-> 1]
    OBVIOUS
  <2>1. info' = [info EXCEPT ![x] = r] /\ info[x] = On /\ UNCHANGED <<pc, count, strayed>>
    BY <1>4, <2>r DEF InfoCopy, mainVars
  <2>2. \A y \in Threads : info'[y] = IF y = x THEN r ELSE info[y]
    BY <1>0, <2>1
  <2>3. r.next >= 1
    BY <2>r
  <2> QED
    BY <1>0, <2>1, <2>2, <2>3, InfoFields DEF InfoOK
<1>5. ASSUME NEW x \in Threads, InfoSend(x) PROVE InfoOK'
  <2>r. PICK r \in InfoStates : r = info[x]
    BY <1>0
  <2>1. /\ r.at = "send" /\ r.next \in Nat /\ r.next >= 1 /\ r # Off
        /\ UNCHANGED <<pc, count, strayed>>
        /\ info' = [info EXCEPT ![x] = [r EXCEPT !.next = r.next + 1]]
           \/ info' = [info EXCEPT ![x] = Off]
    BY <1>0, <1>5, <2>r, InfoFields DEF InfoSend, InfoOK, mainVars
  <2>n. PICK n : n = [r EXCEPT !.next = r.next + 1]
    OBVIOUS
  <2>2. n.next >= 1
    <3>1. r = [at |-> "send", path |-> r.path, next |-> r.next]
      BY <2>1, InfoFields
    <3>2. n.next = r.next + 1
      BY <2>n, <3>1
    <3> QED
      BY <2>1, <3>2
  <2>3. \/ \A y \in Threads : info'[y] = IF y = x THEN n ELSE info[y]
        \/ \A y \in Threads : info'[y] = IF y = x THEN Off ELSE info[y]
    BY <1>0, <2>1, <2>n
  <2> QED
    BY <1>0, <2>1, <2>2, <2>3, <2>r, InfoFields DEF InfoOK
<1>6. CASE UNCHANGED <<mainVars, infoVars>>
  BY <1>0, <1>1, <1>6 DEF mainVars, infoVars
<1>7. CASE TalkerStep
  BY <1>6, <1>7 DEF TalkerStep, TalkerRecv, TalkerStore, TalkerCount, TalkerSend
<1>8. CASE PeopleStep
  BY <1>6, <1>8, PeopleFrame
<1>9. ASSUME NEW s \in Services, Operator(s) PROVE InfoOK'
  BY <1>0, <1>1, <1>9 DEF Operator, infoVars
<1>10. CASE UNCHANGED vars
  BY <1>6, <1>10 DEF vars
<1> QED
  BY <1>2, <1>3, <1>4, <1>5, <1>7, <1>8, <1>9, <1>10 DEF Next, MainStep, PeopleStep

(* send_all's part.                                                        *)
LEMMA TalkerNext == IInv /\ [Next]_vars => TalkerOK'
<1> SUFFICES ASSUME IInv, [Next]_vars PROVE TalkerOK'
  OBVIOUS
<1>0. /\ TalkerOK /\ datagrams \in Seq(NewsClients) /\ cliaddr \in Seq(Addresses)
      /\ Len(cliaddr) \in Nat /\ clicount \in Nat /\ next \in Nat
      /\ talker \in {"recv", "store", "count", "send"}
  BY Entries DEF IInv, TypeOK
<1>1. ASSUME UNCHANGED <<talker, caddr, next, cliaddr, clicount>> PROVE TalkerOK'
  BY <1>0, <1>1 DEF TalkerOK
<1>2. CASE TalkerRecv
  <2>1. Head(datagrams) \in NewsClients
    BY <1>0, <1>2, HeadTailProperties DEF TalkerRecv
  <2> QED
    BY <1>0, <1>2, <2>1 DEF TalkerRecv, TalkerAt, TalkerOK, Addresses
<1>3. CASE TalkerStore
  <2>1. caddr \in Addresses
    BY <1>0, <1>3 DEF TalkerStore, TalkerAt, TalkerOK
  <2>2. Len(cliaddr') = Len(cliaddr) + 1 /\ cliaddr'[Len(cliaddr) + 1] = caddr
    BY <1>0, <1>3, <2>1, AppendProperties DEF TalkerStore
  <2> QED
    BY <1>0, <1>3, <2>1, <2>2 DEF TalkerStore, TalkerAt, TalkerOK
<1>4. CASE TalkerCount
  BY <1>0, <1>4 DEF TalkerCount, TalkerAt, TalkerOK
<1>5. CASE TalkerSend
  BY <1>0, <1>5 DEF TalkerSend, TalkerAt, TalkerOK
<1>6. CASE MainStep
  <2>1. UNCHANGED talkerVars
    BY <1>6 DEF MainStep, Select, Signal, Signalled, ReadLine, Count, Fork, KillSelf
  <2> QED
    BY <1>1, <2>1 DEF talkerVars
<1>7. ASSUME NEW x \in Threads, InfoCopy(x) \/ InfoSend(x) PROVE TalkerOK'
  BY <1>1, <1>7 DEF InfoCopy, InfoSend, talkerVars
<1>8. CASE PeopleStep
  BY <1>1, <1>8, PeopleFrame
<1>9. ASSUME NEW s \in Services, Operator(s) PROVE TalkerOK'
  BY <1>1, <1>9 DEF Operator, talkerVars
<1>10. CASE UNCHANGED vars
  BY <1>1, <1>10 DEF vars, talkerVars
<1> QED
  BY <1>2, <1>3, <1>4, <1>5, <1>6, <1>7, <1>8, <1>9, <1>10 DEF Next, PeopleStep, TalkerStep

-----------------------------------------------------------------------------
(* Nothing is lost by a step that moves neither send_all's loop nor info.  *)
LEMMA LostKept ==
  ASSUME IInv, UNCHANGED <<strayed, clicount, count, next, info>>,
         \A j \in 1 .. count - 1 : path'[j] = path[j],
         \A i \in 1 .. clicount : cliaddr'[i] = cliaddr[i],
         \A n \in Addresses : told[n] \subseteq told'[n],
         talker = "send" => talker' = "send",
         pc \in {"fork", "kill", "gone"} => pc' \in {"fork", "kill", "gone"}
  PROVE  NothingLost'
<1> SUFFICES ASSUME ~strayed, NEW i \in 1 .. clicount, NEW j \in 1 .. count - 1
             PROVE  path'[j] \in told'[cliaddr'[i]] \/ TalkerOwes(i, j)' \/ InfoOwes(i, j)'
  BY DEF NothingLost
<1>1. cliaddr[i] \in Addresses
  BY Entries DEF IInv, TypeOK
<1>2. path[j] \in told[cliaddr[i]] \/ TalkerOwes(i, j) \/ InfoOwes(i, j)
  BY DEF IInv, NothingLost
<1>3. TalkerOwes(i, j) => TalkerOwes(i, j)'
  BY DEF TalkerOwes
<1>4. InfoOwes(i, j) => InfoOwes(i, j)'
  BY DEF InfoOwes
<1> QED
  BY <1>1, <1>2, <1>3, <1>4

(* Nor by any other step.                                                  *)
LEMMA LostNext == IInv /\ [Next]_vars => NothingLost'
<1> SUFFICES ASSUME IInv, [Next]_vars PROVE NothingLost'
  OBVIOUS
<1>0. /\ told \in [Addresses -> SUBSET Services] /\ info \in [Threads -> InfoStates]
      /\ Main \in Threads /\ Main # Talker /\ clicount \in Nat /\ count \in Nat
      /\ next \in Nat /\ strayed \in BOOLEAN /\ clicount <= Len(cliaddr)
      /\ \A i \in 1 .. clicount : cliaddr[i] \in Addresses
  BY Entries, NamesAssumption, TypeParts DEF IInv, InfoTypes, TypeOK, Threads
<1>1. ASSUME UNCHANGED <<pc, path, count, talker, next, cliaddr, clicount, told, info, strayed>>
      PROVE  NothingLost'
  BY <1>1, LostKept
<1>2. CASE Select
  BY <1>2, LostKept DEF Select, At, Goto, talkerVars, infoVars
<1>3. CASE Signal
  <2>1. \A n \in Addresses : told[n] \subseteq told'[n]
    BY <1>0, <1>3 DEF Signal
  <2> QED
    BY <1>3, <2>1, LostKept DEF Signal, talkerVars, infoVars
<1>4. CASE Signalled
  BY <1>4, LostKept DEF Signalled, At, Goto, talkerVars, infoVars
<1>5. CASE ReadLine
  <2>1. path \in Seq(Services) /\ stdin \in Seq(Services) /\ stdin # <<>> /\ Len(path) = count - 1
    BY <1>5 DEF ReadLine, At, IInv, TypeOK, MainOK
  <2>2. \A j \in 1 .. count - 1 : path'[j] = path[j]
    BY <1>5, <2>1, AppendProperties, HeadTailProperties DEF ReadLine
  <2> QED
    BY <1>5, <2>2, LostKept DEF ReadLine, At, Goto, talkerVars, infoVars
<1>6. CASE Count
  <2> SUFFICES ASSUME ~strayed, NEW i \in 1 .. clicount, NEW j \in 1 .. count
               PROVE  path[j] \in told[cliaddr[i]] \/ TalkerOwes(i, j)' \/ InfoOwes(i, j)'
    BY <1>0, <1>6 DEF Count, NothingLost, talkerVars, infoVars
  <2>1. /\ pc = "count" /\ pc' = "fork" /\ count' = count + 1 /\ info[Main] = Off
        /\ UNCHANGED <<talker, clicount, next>>
    BY <1>6 DEF Count, At, Goto, talkerVars
  <2>2. CASE j = count
    BY <1>0, <2>1, <2>2 DEF InfoOwes
  <2>3. CASE j # count
    <3>1. path[j] \in told[cliaddr[i]] \/ TalkerOwes(i, j) \/ InfoOwes(i, j)
      BY <1>0, <2>3 DEF IInv, NothingLost
    <3>2. ~InfoOwes(i, j)
      BY <2>1, InfoFields DEF InfoOwes
    <3> QED
      BY <2>1, <3>1, <3>2 DEF TalkerOwes
  <2> QED
    BY <2>2, <2>3
<1>7. CASE Fork
  BY <1>7, LostKept DEF Fork, At, Goto, talkerVars, infoVars
<1>8. CASE KillSelf
  <2> SUFFICES ASSUME ~strayed', NEW i \in 1 .. clicount, NEW j \in 1 .. count - 1
               PROVE  path[j] \in told[cliaddr[i]] \/ TalkerOwes(i, j)' \/ InfoOwes(i, j)'
    BY <1>8 DEF KillSelf, NothingLost, talkerVars
  <2>1. ~strayed /\ info'[Main] = On
    BY <1>0, <1>8 DEF KillSelf, Threads
  <2>2. UNCHANGED <<talker, clicount, next, count>>
    BY <1>8 DEF KillSelf, talkerVars
  <2>3. path[j] \in told[cliaddr[i]] \/ TalkerOwes(i, j) \/ InfoOwes(i, j)
    BY <2>1 DEF IInv, NothingLost
  <2> QED
    BY <2>1, <2>2, <2>3 DEF TalkerOwes, InfoOwes
<1>9. ASSUME NEW x \in Threads, InfoCopy(x) \/ InfoSend(x), x # Main PROVE NothingLost'
  <2>1. info[Talker] # Off /\ UNCHANGED strayed
    BY <1>9, InfoFields DEF InfoCopy, InfoSend, Threads
  <2>2. strayed
    BY <2>1 DEF IInv, InfoOK
  <2> QED
    BY <2>1, <2>2 DEF NothingLost
<1>10. CASE InfoCopy(Main)
  <2> SUFFICES ASSUME ~strayed, NEW i \in 1 .. clicount, NEW j \in 1 .. count - 1
               PROVE  path[j] \in told[cliaddr[i]] \/ TalkerOwes(i, j)' \/ InfoOwes(i, j)'
    BY <1>10 DEF InfoCopy, NothingLost, talkerVars, mainVars
  <2>1. UNCHANGED <<talker, clicount, next, count, path, pc>>
    BY <1>10 DEF InfoCopy, talkerVars, mainVars
  <2>2. info'[Main] = [at |-> "send", path |-> path[count - 1], next |-> 1]
    BY <1>0, <1>10 DEF InfoCopy
  <2>3. path[j] \in told[cliaddr[i]] \/ TalkerOwes(i, j) \/ j = count - 1
    BY DEF IInv, NothingLost, InfoOwes
  <2> QED
    BY <1>0, <2>1, <2>2, <2>3 DEF TalkerOwes, InfoOwes
<1>11. CASE InfoSend(Main)
  <2>r. PICK r \in InfoStates : r = info[Main]
    BY <1>0
  <2>1. /\ r.at = "send" /\ r.next \in Nat /\ r.next >= 1 /\ r.path \in Services
        /\ r = [at |-> "send", path |-> r.path, next |-> r.next]
        /\ r # On /\ pc = "select" /\ r # Off
        /\ UNCHANGED <<talker, clicount, next, count, path, pc, strayed, cliaddr>>
    BY <1>11, <2>r, InfoFields DEF InfoSend, IInv, InfoOK, Threads, talkerVars, mainVars
  <2> SUFFICES ASSUME ~strayed, NEW i \in 1 .. clicount, NEW j \in 1 .. count - 1
               PROVE  path[j] \in told'[cliaddr[i]] \/ TalkerOwes(i, j)' \/ InfoOwes(i, j)'
    BY <2>1 DEF NothingLost
  <2>2. \/ path[j] \in told[cliaddr[i]] \/ TalkerOwes(i, j)
        \/ j = count - 1 /\ r.path = path[j] /\ i >= r.next
    BY <2>1, <2>r DEF IInv, NothingLost, InfoOwes
  <2>3. TalkerOwes(i, j) => TalkerOwes(i, j)'
    BY <2>1 DEF TalkerOwes
  <2>4. CASE r.next <= clicount
    <3>1. told' = [told EXCEPT ![cliaddr[r.next]] = @ \cup {r.path}]
          /\ info' = [info EXCEPT ![Main].next = r.next + 1]
      BY <1>11, <2>r, <2>4 DEF InfoSend
    <3>n. PICK n : n = [r EXCEPT !.next = r.next + 1]
      OBVIOUS
    <3>2. n.at = "send" /\ n.path = r.path /\ n.next = r.next + 1 /\ info'[Main] = n
      BY <1>0, <2>1, <2>r, <3>1, <3>n
    <3>3. told[cliaddr[i]] \subseteq told'[cliaddr[i]] /\ (i = r.next => r.path \in told'[cliaddr[i]])
      BY <1>0, <3>1
    <3>4. j = count - 1 /\ r.path = path[j] /\ i > r.next => InfoOwes(i, j)'
      BY <2>1, <3>2 DEF InfoOwes
    <3> QED
      BY <2>1, <2>2, <2>3, <3>3, <3>4
  <2>5. CASE ~(r.next <= clicount)
    <3>1. UNCHANGED told
      BY <1>11, <2>r, <2>5 DEF InfoSend
    <3> QED
      BY <1>0, <2>1, <2>2, <2>3, <2>5, <3>1
  <2> QED
    BY <2>4, <2>5
<1>12. CASE TalkerRecv
  BY <1>12, LostKept DEF TalkerRecv, TalkerAt, mainVars, infoVars
<1>13. CASE TalkerStore
  <2>1. \A i \in 1 .. clicount : cliaddr'[i] = cliaddr[i]
    <3>1. cliaddr \in Seq(Addresses) /\ caddr \in Addresses
      BY <1>13 DEF TalkerStore, TalkerAt, IInv, TypeOK, TalkerOK
    <3>2. \A i \in 1 .. Len(cliaddr) : cliaddr'[i] = cliaddr[i]
      BY <1>13, <3>1, AppendProperties DEF TalkerStore
    <3> QED
      BY <1>0, <3>1, <3>2, LenProperties
  <2> QED
    BY <1>13, <2>1, LostKept DEF TalkerStore, TalkerAt, mainVars, infoVars
<1>14. CASE TalkerCount
  <2>1. /\ talker' = "send" /\ talker = "count" /\ next' = 1 /\ clicount' = clicount + 1
        /\ UNCHANGED <<pc, path, count, cliaddr, told, info, strayed>>
    BY <1>14 DEF TalkerCount, TalkerAt, mainVars, infoVars
  <2> SUFFICES ASSUME ~strayed, NEW i \in 1 .. clicount + 1, NEW j \in 1 .. count - 1
               PROVE  path[j] \in told[cliaddr[i]] \/ TalkerOwes(i, j)' \/ InfoOwes(i, j)'
    BY <2>1 DEF NothingLost
  <2>2. CASE i = clicount + 1
    BY <1>0, <2>1, <2>2 DEF TalkerOwes
  <2>3. CASE i # clicount + 1
    <3>1. path[j] \in told[cliaddr[i]] \/ TalkerOwes(i, j) \/ InfoOwes(i, j)
      BY <1>0, <2>3 DEF IInv, NothingLost
    <3> QED
      BY <2>1, <3>1 DEF TalkerOwes, InfoOwes
  <2> QED
    BY <2>2, <2>3
<1>15. CASE TalkerSend
  <2>1. /\ talker = "send" /\ clicount >= 1 /\ cliaddr[clicount] = caddr /\ next >= 1
        /\ UNCHANGED <<pc, path, count, cliaddr, clicount, info, strayed>>
    BY <1>15 DEF TalkerSend, TalkerAt, IInv, TalkerOK, mainVars, infoVars
  <2> SUFFICES ASSUME ~strayed, NEW i \in 1 .. clicount, NEW j \in 1 .. count - 1
               PROVE  path[j] \in told'[cliaddr[i]] \/ TalkerOwes(i, j)' \/ InfoOwes(i, j)'
    BY <2>1 DEF NothingLost
  <2>2. path[j] \in told[cliaddr[i]] \/ (i = clicount /\ j >= next) \/ InfoOwes(i, j)
    BY DEF IInv, NothingLost, TalkerOwes
  <2>3. InfoOwes(i, j) => InfoOwes(i, j)'
    BY <2>1 DEF InfoOwes
  <2>4. CASE next <= count - 1
    <3>1. told' = [told EXCEPT ![caddr] = @ \cup {path[next]}] /\ next' = next + 1
          /\ UNCHANGED talker
      BY <1>15, <2>4 DEF TalkerSend
    <3>2. told[cliaddr[i]] \subseteq told'[cliaddr[i]]
          /\ (i = clicount => path[next] \in told'[cliaddr[i]])
      BY <1>0, <2>1, <3>1
    <3>3. i = clicount /\ j > next => TalkerOwes(i, j)'
      BY <1>0, <2>1, <3>1 DEF TalkerOwes
    <3> QED
      BY <1>0, <2>2, <2>3, <3>2, <3>3
  <2>5. CASE ~(next <= count - 1)
    <3>1. UNCHANGED told
      BY <1>15, <2>5 DEF TalkerSend
    <3> QED
      BY <1>0, <2>2, <2>3, <2>5, <3>1
  <2> QED
    BY <2>4, <2>5
<1>16. CASE PeopleStep
  BY <1>1, <1>16, PeopleFrame DEF mainVars, infoVars
<1>17. ASSUME NEW s \in Services, Operator(s) PROVE NothingLost'
  BY <1>1, <1>17 DEF Operator, talkerVars, infoVars
<1>18. CASE UNCHANGED vars
  BY <1>1, <1>18 DEF vars, mainVars, talkerVars, infoVars
<1> QED
  BY <1>2, <1>3, <1>4, <1>5, <1>6, <1>7, <1>8, <1>9, <1>10, <1>11, <1>12, <1>13, <1>14, <1>15,
     <1>16, <1>17, <1>18 DEF Next, MainStep, TalkerStep, PeopleStep

(* Every step preserves the invariant.                                     *)
LEMMA IInvNext == IInv /\ [Next]_vars => IInv'
BY TypeNext, MainNext, InfoNext, TalkerNext, LostNext DEF IInv

(* Where everybody waits, nobody owes anything.                            *)
LEMMA AnnouncedFollows == IInv => AllAnnounced
BY InfoFields, NamesAssumption
   DEF IInv, NothingLost, AllAnnounced, Settled, TalkerOwes, InfoOwes, Threads

-----------------------------------------------------------------------------
(* The facilitator's arrays, counters and handlers stay in their ranges:   *)
(* neither thread reads an entry of path or cliaddr that has not been      *)
(* written (fserver.c:32-42, 51-56, 125-154).                              *)
THEOREM TypeCorrect == Spec => []TypeOK
BY IInvInit, IInvNext, PTL DEF Spec, IInv

(* Without a lock, and for any number of services and news clients, no     *)
(* client misses a path: of a registration and a new service that cross    *)
(* each other, send_all or info sees the other one -- unless info has run  *)
(* on send_all's thread (fserver.c:32-42, 51-56, 125-154).                 *)
THEOREM Announced == Spec => []AllAnnounced
BY IInvInit, IInvNext, AnnouncedFollows, PTL DEF Spec

-----------------------------------------------------------------------------
(***************************************************************************)
(* The port facilitator, for any number of facilitators, services, ports   *)
(* and clients.                                                            *)
(***************************************************************************)
Places  == {"unborn", "prompt", "fork", "select", "accept", "iofunc", "died"}
Rows == [port : AllPorts, bound : BOOLEAN]

(* The types, but for the length of the tables.                            *)
Types ==
  /\ place \in [Procs -> Places] /\ sfds \in [Procs -> Seq(Rows)]
  /\ rset \in [Procs -> SUBSET Nat] /\ conn \in [Procs -> Clients \cup {NoClient}]
  /\ backlog \in [AllPorts -> Seq(Clients)]
  /\ orphans \subseteq AllPorts /\ refused \subseteq AllPorts /\ closed \subseteq Clients
  /\ provider \in [AllPorts -> {"none", "started", "listening"}]

(* A facilitator's table begins with its own port and has a place left     *)
(* while it prompts; a process that is not born has none.                  *)
TablesOK ==
  \A p \in Procs :
    /\ place[p] = "unborn" => sfds[p] = <<>>
    /\ place[p] # "unborn" => /\ Len(sfds[p]) \in 1 .. NServices + 1
                              /\ sfds[p][1].port = Info
    /\ place[p] = "prompt" => Len(sfds[p]) <= NServices

(* No table has two listening sockets bound to one port.                   *)
BoundOnce ==
  \A p \in Procs : \A i, j \in DOMAIN sfds[p] :
    sfds[p][i].bound /\ sfds[p][j].bound /\ sfds[p][i].port = sfds[p][j].port => i = j

(* Every port in a table was refused or bound by someone, and a port that  *)
(* a service keeps open by someone who has died.                           *)
Lists(p, q) == \E i \in DOMAIN sfds[p] : sfds[p][i].port = q

PortsBound ==
  /\ \A p \in Procs, q \in AllPorts : Lists(p, q) => q \in refused \/ (\E r \in Procs : Binds(r, q))
  /\ \A q \in orphans : \E r \in Procs : place[r] = "died" /\ Binds(r, q)

(* What select has reported to p and nobody else can have taken is still   *)
(* there.                                                                  *)
Reported(p, q)  == \E i \in rset[p] : sfds[p][i].port = q
Elsewhere(p, q) == \E r \in Procs \ {p} : place[r] # "unborn" /\ Binds(r, q)

ReportOK(p) ==
  /\ place[p] = "accept" => rset[p] # {}
  /\ place[p] \notin {"accept", "iofunc"} => rset[p] = {}
  /\ \A i \in rset[p] : i \in DOMAIN sfds[p] /\ sfds[p][i].bound
  /\ \A q \in AllPorts : Reported(p, q) => backlog[q] # <<>> \/ Elsewhere(p, q)

ReportsOK == \A p \in Procs : ReportOK(p)

PortIInv == Types /\ TablesOK /\ BoundOnce /\ PortsBound /\ ReportsOK

-----------------------------------------------------------------------------
(* A set of indices that is not empty has a least one.                     *)
LEMMA Least ==
  ASSUME NEW T, T \subseteq Nat, T # {}
  PROVE  \E i \in T : \A j \in T : i <= j
<1>1. PICK R : R = OpToRel(<, Nat)
  OBVIOUS
<1>2. PICK i \in T : \A j \in T : <<j, i>> \notin R
  BY <1>1, NatLessThanWellFounded, WFMin
<1>3. \A j \in T : ~(j < i)
  <2> SUFFICES ASSUME NEW j \in T, j < i PROVE FALSE
    OBVIOUS
  <2>1. <<j, i>> \in R
    BY <1>1 DEF OpToRel
  <2> QED
    BY <1>2, <2>1
<1> QED
  BY <1>3

(* So the loop is at one of the listeners select has reported.             *)
LEMMA CurrentReported ==
  ASSUME PortIInv, NEW p \in Procs, place[p] = "accept"
  PROVE  Current(p) \in rset[p]
<1>1. rset[p] \subseteq Nat /\ rset[p] # {}
  BY DEF PortIInv, Types, ReportsOK, ReportOK
<1>2. \E i \in rset[p] : \A j \in rset[p] : i <= j
  BY <1>1, Least
<1> QED
  BY <1>2 DEF Current

(* The entries of a table.                                                 *)
LEMMA TableEntries ==
  ASSUME Types, NEW p \in Procs
  PROVE  /\ sfds[p] \in Seq(Rows) /\ Len(sfds[p]) \in Nat
         /\ DOMAIN sfds[p] = 1 .. Len(sfds[p])
         /\ \A i \in DOMAIN sfds[p] :
              /\ sfds[p][i] \in Rows
              /\ sfds[p][i].port \in AllPorts /\ sfds[p][i].bound \in BOOLEAN
              /\ sfds[p][i] = [port |-> sfds[p][i].port, bound |-> sfds[p][i].bound]
<1>1. sfds[p] \in Seq(Rows)
  BY DEF Types
<1>2. DOMAIN sfds[p] = 1 .. Len(sfds[p]) /\ Len(sfds[p]) \in Nat
  BY <1>1, LenProperties
<1>3. \A i \in DOMAIN sfds[p] : sfds[p][i] \in Rows
  BY <1>1, <1>2, ElementOfSeq
<1> QED
  BY <1>1, <1>2, <1>3 DEF Rows

(* What the invariant says of a facilitator in accept.                     *)
LEMMA BlocksFollows == PortIInv => BlocksOnlyBesideAnother
<1> SUFFICES ASSUME PortIInv, NEW p \in Procs, Blocked(p)
             PROVE  Elsewhere(p, CurrentPort(p))
  BY DEF BlocksOnlyBesideAnother, Elsewhere
<1>1. Current(p) \in rset[p]
  BY CurrentReported DEF Blocked
<1>2. Reported(p, CurrentPort(p)) /\ CurrentPort(p) \in AllPorts
  BY <1>1, TableEntries DEF CurrentPort, Reported, PortIInv, ReportsOK, ReportOK
<1> QED
  BY <1>2 DEF Blocked, PortIInv, ReportsOK, ReportOK

(* What it says of the ports in the tables.                                *)
LEMMA TableFollows == PortIInv => TableListens
<1> SUFFICES ASSUME PortIInv, NEW p \in Alive, NEW i \in DOMAIN sfds[p],
                    NEW q, q = sfds[p][i].port, Holders(q) = {}, q \notin refused
             PROVE  \E r \in Procs : place[r] = "died" /\ Binds(r, q)
  BY DEF TableListens
<1>1. PICK r \in Procs : Binds(r, q)
  BY TableEntries DEF PortIInv, PortsBound, Lists, Alive
<1>2. DOMAIN sfds[r] # {}
  BY <1>1 DEF Binds
<1>3. sfds[r] # <<>>
  BY <1>2
<1>4. place[r] # "unborn"
  BY <1>3 DEF PortIInv, TablesOK
<1>5. r \notin Alive
  BY <1>1 DEF Holders
<1> QED
  BY <1>1, <1>4, <1>5 DEF Alive

(* And of the types.                                                       *)
LEMMA TypeFollows == PortIInv => PortTypeOK
<1> SUFFICES ASSUME PortIInv PROVE PortTypeOK
  OBVIOUS
<1>1. ASSUME NEW p \in Procs
      PROVE  Len(sfds[p]) <= NServices + 1 /\ rset[p] \subseteq DOMAIN sfds[p]
  <2>1. CASE place[p] = "unborn"
    BY <2>1, EmptySeq, PortsAssumption DEF PortIInv, TablesOK, ReportsOK, ReportOK
  <2>2. CASE place[p] # "unborn"
    BY <2>2 DEF PortIInv, TablesOK, ReportsOK, ReportOK
  <2> QED
    BY <2>1, <2>2
<1> QED
  BY <1>1 DEF PortTypeOK, PortIInv, Types, Places, Rows

-----------------------------------------------------------------------------
(* The invariant holds initially.                                          *)
LEMMA PortIInvInit == PortInit => PortIInv
<1> SUFFICES ASSUME PortInit PROVE PortIInv
  OBVIOUS
<1>o. PICK ok \in BOOLEAN :
        /\ sfds = [p \in Procs |-> IF p = First THEN <<[port |-> Info, bound |-> ok]>> ELSE <<>>]
        /\ refused = IF ok THEN {} ELSE {Info}
  BY DEF PortInit
<1>e. PICK e : e = [port |-> Info, bound |-> ok]
  OBVIOUS
<1>1. e \in Rows /\ e.port = Info /\ e.bound = ok
  BY <1>e DEF Rows, AllPorts
<1>2. <<e>> \in Seq(Rows) /\ <<>> \in Seq(Rows) /\ Len(<<e>>) = 1 /\ <<e>>[1] = e
      /\ DOMAIN <<e>> = {1}
  BY <1>1, EmptySeq
<1>3. sfds = [p \in Procs |-> IF p = First THEN <<e>> ELSE <<>>]
  BY <1>e, <1>o
<1>4. Types
  <2>1. sfds \in [Procs -> Seq(Rows)]
    BY <1>2, <1>3
  <2>2. backlog \in [AllPorts -> Seq(Clients)]
    BY EmptySeq DEF PortInit
  <2>3. refused \subseteq AllPorts
    BY <1>o DEF AllPorts
  <2> QED
    BY <2>1, <2>2, <2>3 DEF PortInit, Types, Places
<1>5. TablesOK
  BY <1>2, <1>3, <1>e, PortsAssumption DEF PortInit, TablesOK
<1>6. \A p \in Procs : \A i \in DOMAIN sfds[p] : p = First /\ i = 1 /\ sfds[p][i] = e
  BY <1>2, <1>3
<1>7. BoundOnce
  BY <1>6 DEF BoundOnce
<1>8. PortsBound
  <2>1. Info \in refused \/ Binds(First, Info)
    BY <1>2, <1>3, <1>e, <1>o, ProcsAssumption DEF Binds
  <2> QED
    BY <1>1, <1>6, <2>1, ProcsAssumption DEF PortsBound, Lists, PortInit
<1>9. ReportsOK
  BY DEF PortInit, ReportsOK, ReportOK, Reported
<1> QED
  BY <1>4, <1>5, <1>7, <1>8, <1>9 DEF PortIInv

(* Tables that do not change stay in order while nobody is born or         *)
(* prompted.                                                               *)
LEMMA TablesKept ==
  ASSUME PortIInv, UNCHANGED sfds,
         \A p \in Procs : /\ place'[p] = "unborn" <=> place[p] = "unborn"
                          /\ place'[p] = "prompt" => place[p] = "prompt"
  PROVE  TablesOK' /\ BoundOnce'
BY DEF PortIInv, TablesOK, BoundOnce

(* PortsBound survives a step that leaves tables and orphans alone, as     *)
(* long as the dead stay dead.                                             *)
LEMMA PortsKept ==
  ASSUME PortIInv, UNCHANGED <<sfds, orphans, refused>>,
         \A p \in Procs : place[p] = "died" => place'[p] = "died"
  PROVE  PortsBound'
BY DEF PortIInv, PortsBound, Lists, Binds

(* The others' reports stay true when only p moves and only what p holds   *)
(* is emptied.                                                             *)
LEMMA OthersReports ==
  ASSUME PortIInv, NEW p \in Procs, UNCHANGED sfds, place'[p] # "unborn",
         \A r \in Procs \ {p} : place'[r] = place[r] /\ rset'[r] = rset[r],
         \A q \in AllPorts : backlog[q] # <<>> /\ backlog'[q] = <<>> => Binds(p, q)
  PROVE  \A r \in Procs \ {p} : ReportOK(r)'
<1> SUFFICES ASSUME NEW r \in Procs \ {p} PROVE ReportOK(r)'
  OBVIOUS
<1>1. ReportOK(r)
  BY DEF PortIInv, ReportsOK
<1>2. \A q : Elsewhere(r, q) => Elsewhere(r, q)'
  BY DEF Elsewhere, Binds
<1>3. \A q : Binds(p, q) => Elsewhere(r, q)'
  BY DEF Elsewhere, Binds
<1>4. ASSUME NEW q \in AllPorts, Reported(r, q)'
      PROVE  backlog'[q] # <<>> \/ Elsewhere(r, q)'
  <2>1. Reported(r, q)
    BY <1>4 DEF Reported
  <2> QED
    BY <1>1, <1>2, <1>3, <2>1 DEF ReportOK
<1> QED
  BY <1>1, <1>4 DEF ReportOK

(* The loop takes a connection from the listener it is at: the others that *)
(* were reported to it are of other ports.                                 *)
LEMMA Accepted ==
  ASSUME PortIInv, NEW p \in Procs, NEW i \in rset[p], NEW q, sfds[p][i].port = q,
         TakeFrom(p, q), rset' = [rset EXCEPT ![p] = @ \ {i}],
         place[p] = "accept", NEW l \in {"select", "accept", "iofunc"}, PlaceAt(p, l),
         l = "accept" => rset[p] \ {i} # {}, l = "select" => rset[p] \ {i} = {},
         UNCHANGED <<sfds, orphans, closed, refused, provider>>,
         conn' \in [Procs -> Clients \cup {NoClient}]
  PROVE  PortIInv'
<1>0. /\ place \in [Procs -> Places] /\ rset \in [Procs -> SUBSET Nat]
      /\ backlog \in [AllPorts -> Seq(Clients)]
  BY DEF PortIInv, Types
<1>1. i \in DOMAIN sfds[p] /\ sfds[p][i].bound /\ ReportOK(p)
  BY DEF PortIInv, ReportsOK, ReportOK
<1>2. q \in AllPorts /\ Binds(p, q)
  BY <1>1, TableEntries DEF PortIInv, Binds
<1>3. /\ backlog' = [backlog EXCEPT ![q] = Tail(backlog[q])]
      /\ Tail(backlog[q]) \in Seq(Clients)
  BY <1>0, <1>2, HeadTailProperties DEF TakeFrom
<1>4. Types'
  BY <1>0, <1>3 DEF PlaceAt, PortIInv, Types, Places
<1>5. TablesOK' /\ BoundOnce'
  BY <1>0, TablesKept DEF PlaceAt
<1>6. PortsBound'
  BY <1>0, PortsKept DEF PlaceAt
<1>7. \A r \in Procs \ {p} : ReportOK(r)'
  <2>1. \A o \in AllPorts : backlog[o] # <<>> /\ backlog'[o] = <<>> => Binds(p, o)
    BY <1>0, <1>2, <1>3
  <2> QED
    BY <1>0, <2>1, OthersReports DEF PlaceAt
<1>8. ReportOK(p)'
  <2>1. rset'[p] = rset[p] \ {i} /\ place'[p] = l
    BY <1>0 DEF PlaceAt
  <2>2. ASSUME NEW o \in AllPorts, Reported(p, o)'
        PROVE  backlog'[o] # <<>> \/ Elsewhere(p, o)'
    <3>1. PICK j \in rset[p] \ {i} : sfds[p][j].port = o
      BY <2>1, <2>2 DEF Reported
    <3>2. backlog[o] # <<>> \/ Elsewhere(p, o)
      BY <1>1, <3>1 DEF ReportOK, Reported
    <3>3. o # q
      BY <1>1, <3>1 DEF PortIInv, BoundOnce, ReportOK
    <3>4. backlog'[o] = backlog[o]
      BY <1>0, <1>3, <3>3
    <3>5. Elsewhere(p, o) => Elsewhere(p, o)'
      BY <1>0 DEF Elsewhere, Binds, PlaceAt
    <3> QED
      BY <3>2, <3>4, <3>5
  <2> QED
    BY <1>1, <2>1, <2>2 DEF ReportOK
<1> QED
  BY <1>4, <1>5, <1>6, <1>7, <1>8 DEF PortIInv, ReportsOK

-----------------------------------------------------------------------------
(* The operator's port gets an entry, bound only if p does not bind it yet.*)
LEMMA PromptNext == ASSUME PortIInv, NEW p \in Procs, Prompt(p) PROVE PortIInv'
<1>0. /\ place \in [Procs -> Places] /\ sfds \in [Procs -> Seq(Rows)]
      /\ rset \in [Procs -> SUBSET Nat] /\ place[p] = "prompt"
  BY DEF PortIInv, Types, Prompt
<1>1. PICK q \in AllPorts, ok \in BOOLEAN :
        /\ Holders(q) # {} \/ q \in orphans => ~ok
        /\ sfds' = [sfds EXCEPT ![p] = Append(@, [port |-> q, bound |-> ok])]
        /\ refused' = IF ok \/ (Holders(q) # {} \/ q \in orphans) THEN refused ELSE refused \cup {q}
  BY DEF Prompt
<1>2. /\ place' = [place EXCEPT ![p] = "fork"]
      /\ UNCHANGED <<rset, conn, backlog, orphans, closed, provider>>
  BY DEF Prompt, PlaceAt
<1>r. refused \subseteq refused' /\ refused' \subseteq refused \cup {q}
  BY <1>1
<1>e. PICK e \in Rows : e = [port |-> q, bound |-> ok]
  BY DEF Rows
<1>s. PICK s \in Seq(Rows) : s = sfds[p]
  BY <1>0
<1>n. PICK n : n = Len(s) + 1
  OBVIOUS
<1>t. PICK t : t = Append(s, e)
  OBVIOUS
<1>3. /\ t \in Seq(Rows) /\ Len(t) = n /\ n \in DOMAIN t /\ t[n] = e
      /\ \A i \in DOMAIN s : i \in DOMAIN t /\ t[i] = s[i]
      /\ \A i \in DOMAIN t : i \in DOMAIN s \/ i = n
  BY <1>n, <1>t, AppendIndices
<1>4. sfds'[p] = t /\ (\A r \in Procs \ {p} : sfds'[r] = sfds[r]) /\ sfds' \in [Procs -> Seq(Rows)]
  BY <1>0, <1>1, <1>3, <1>e, <1>s, <1>t
<1>5. Types'
  BY <1>0, <1>2, <1>4, <1>r DEF PortIInv, Types, Places
<1>6. /\ Len(s) \in 1 .. NServices /\ s[1].port = Info
      /\ 1 \in DOMAIN s /\ NServices \in Nat
  <2>1. NServices \in Nat /\ Len(s) \in Nat /\ DOMAIN s = 1 .. Len(s)
    BY LenProperties, PortsAssumption
  <2>2. /\ Len(s) \in 1 .. NServices + 1 /\ Len(s) <= NServices
        /\ s[1].port = Info
    BY <1>0, <1>s DEF PortIInv, TablesOK
  <2> QED
    BY <2>1, <2>2
<1>7. TablesOK'
  <2> SUFFICES ASSUME NEW r \in Procs
               PROVE  /\ place'[r] = "unborn" => sfds'[r] = <<>>
                      /\ place'[r] # "unborn" =>
                           /\ Len(sfds'[r]) \in 1 .. NServices + 1
                           /\ sfds'[r][1].port = Info
                      /\ place'[r] = "prompt" => Len(sfds'[r]) <= NServices
    BY DEF TablesOK
  <2>1. CASE r = p
    <3>1. n \in 1 .. NServices + 1
      BY <1>6, <1>n
    <3>2. Len(t) = n /\ t[1].port = Info
      BY <1>3, <1>6
    <3>3. place'[r] = "fork" /\ sfds'[r] = t
      BY <1>0, <1>2, <1>4, <2>1
    <3> QED
      BY <3>1, <3>2, <3>3
  <2>2. CASE r # p
    BY <1>0, <1>2, <1>4, <2>2 DEF PortIInv, TablesOK
  <2> QED
    BY <2>1, <2>2
<1>8. \A i \in DOMAIN s : ok => ~(s[i].bound /\ s[i].port = q)
  <2> SUFFICES ASSUME NEW i \in DOMAIN s, ok, s[i].bound, s[i].port = q PROVE FALSE
    OBVIOUS
  <2>1. s[i] = [port |-> q, bound |-> TRUE]
    BY <1>s, TableEntries DEF PortIInv
  <2>2. p \in Holders(q)
    BY <1>0, <1>s, <2>1 DEF Holders, Alive, Binds
  <2> QED
    BY <1>1, <2>2
<1>9. BoundOnce'
  <2> SUFFICES ASSUME NEW r \in Procs, NEW i \in DOMAIN sfds'[r], NEW j \in DOMAIN sfds'[r],
                      sfds'[r][i].bound, sfds'[r][j].bound, sfds'[r][i].port = sfds'[r][j].port
               PROVE  i = j
    BY DEF BoundOnce
  <2>1. CASE r # p
    BY <1>4, <2>1 DEF PortIInv, BoundOnce
  <2>2. CASE r = p
    BY <1>3, <1>4, <1>8, <1>e, <1>s, <2>2 DEF PortIInv, BoundOnce
  <2> QED
    BY <2>1, <2>2
<1>10. \A r \in Procs : \A o : Binds(r, o) => Binds(r, o)'
  BY <1>3, <1>4, <1>s DEF Binds
<1>11. PortsBound'
  <2>1. q \in refused' \/ (\E r \in Procs : Binds(r, q)')
    <3>1. CASE ok
      BY <1>3, <1>4, <1>e, <3>1 DEF Binds
    <3>2. CASE Holders(q) # {}
      BY <1>10, <3>2 DEF Holders, Alive
    <3>3. CASE q \in orphans
      BY <1>10, <3>3 DEF PortIInv, PortsBound
    <3>4. CASE ~ok /\ Holders(q) = {} /\ q \notin orphans
      BY <1>1, <3>4
    <3> QED
      BY <3>1, <3>2, <3>3, <3>4
  <2>2. ASSUME NEW r \in Procs, NEW o \in AllPorts, Lists(r, o)'
        PROVE  o \in refused' \/ (\E h \in Procs : Binds(h, o)')
    <3>1. Lists(r, o) \/ o = q
      BY <1>3, <1>4, <1>e, <1>s, <2>2 DEF Lists
    <3> QED
      BY <1>10, <1>r, <2>1, <3>1 DEF PortIInv, PortsBound
  <2>3. \A h \in Procs : place[h] = "died" => place'[h] = "died"
    BY <1>0, <1>2
  <2>4. \A o \in orphans' : \E h \in Procs : place'[h] = "died" /\ Binds(h, o)'
    BY <1>2, <1>10, <2>3 DEF PortIInv, PortsBound
  <2> QED
    BY <2>2, <2>4 DEF PortsBound
<1>12. ReportsOK'
  <2> SUFFICES ASSUME NEW r \in Procs PROVE ReportOK(r)'
    BY DEF ReportsOK
  <2>1. CASE r = p
    BY <1>0, <1>2, <2>1 DEF PortIInv, ReportsOK, ReportOK, Reported
  <2>2. CASE r # p
    <3>1. \A o : Elsewhere(r, o) => Elsewhere(r, o)'
      BY <1>0, <1>2, <1>10 DEF Elsewhere
    <3> QED
      BY <1>2, <1>4, <2>2, <3>1 DEF PortIInv, ReportsOK, ReportOK, Reported
  <2> QED
    BY <2>1, <2>2
<1> QED
  BY <1>5, <1>7, <1>9, <1>11, <1>12 DEF PortIInv

(* A fork: the parent goes on, and so may the child with the same table.   *)
LEMMA ForkNext == ASSUME PortIInv, NEW p \in Procs, ForkService(p) PROVE PortIInv'
<1>0. /\ place \in [Procs -> Places] /\ sfds \in [Procs -> Seq(Rows)]
      /\ provider \in [AllPorts -> {"none", "started", "listening"}]
      /\ UNCHANGED <<rset, conn, backlog, orphans, refused, closed>> /\ place[p] = "fork"
  BY DEF PortIInv, Types, ForkService, networkVars
<1>1. /\ Onward(p) \in {"prompt", "select"}
      /\ Onward(p) = "prompt" => Len(sfds[p]) <= NServices
  BY DEF Onward
<1>2. ReportOK(p) /\ rset[p] = {}
  BY <1>0 DEF PortIInv, ReportsOK, ReportOK
<1>3. CASE PlaceAt(p, Onward(p)) /\ UNCHANGED sfds
           /\ provider' \in [AllPorts -> {"none", "started", "listening"}]
  <2>1. Types'
    BY <1>0, <1>1, <1>3 DEF PortIInv, Types, Places, PlaceAt
  <2>2. TablesOK' /\ BoundOnce'
    BY <1>0, <1>1, <1>3 DEF PortIInv, TablesOK, BoundOnce, PlaceAt
  <2>3. PortsBound'
    BY <1>0, <1>3, PortsKept DEF PlaceAt
  <2>4. \A r \in Procs \ {p} : ReportOK(r)'
    BY <1>0, <1>1, <1>3, OthersReports DEF PlaceAt
  <2>5. ReportOK(p)'
    BY <1>0, <1>1, <1>2, <1>3 DEF PlaceAt, ReportOK, Reported
  <2> QED
    BY <2>1, <2>2, <2>3, <2>4, <2>5 DEF PortIInv, ReportsOK
<1>4. ASSUME NEW r \in Procs, place[r] = "unborn", UNCHANGED provider,
             place' = [place EXCEPT ![p] = Onward(p), ![r] = Onward(p)],
             sfds' = [sfds EXCEPT ![r] = sfds[p]]
      PROVE  PortIInv'
  <2>1. /\ r # p /\ place'[p] = Onward(p) /\ place'[r] = Onward(p)
        /\ sfds'[p] = sfds[p] /\ sfds'[r] = sfds[p] /\ sfds[r] = <<>>
        /\ \A h \in Procs \ {r} : sfds'[h] = sfds[h]
        /\ \A h \in Procs \ {r, p} : place'[h] = place[h]
    BY <1>0, <1>4 DEF PortIInv, TablesOK
  <2>2. Types'
    BY <1>0, <1>1, <1>4 DEF PortIInv, Types, Places
  <2>3. TablesOK'
    BY <1>0, <1>1, <2>1 DEF PortIInv, TablesOK
  <2>4. BoundOnce'
    BY <2>1 DEF PortIInv, BoundOnce
  <2>5. \A h \in Procs : \A o : Binds(h, o) => Binds(h, o)'
    <3> SUFFICES ASSUME NEW h \in Procs, NEW o, Binds(h, o) PROVE Binds(h, o)'
      OBVIOUS
    <3>1. h # r
      BY <2>1 DEF Binds
    <3> QED
      BY <2>1, <3>1 DEF Binds
  <2>6. PortsBound'
    <3>1. ASSUME NEW h \in Procs, NEW o \in AllPorts, Lists(h, o)'
          PROVE  o \in refused' \/ (\E g \in Procs : Binds(g, o)')
      <4>1. Lists(h, o) \/ Lists(p, o)
        BY <2>1, <3>1 DEF Lists
      <4> QED
        BY <1>0, <2>5, <4>1 DEF PortIInv, PortsBound
    <3>2. \A g \in Procs : place[g] = "died" => place'[g] = "died"
      BY <1>0, <1>4, <2>1
    <3>3. \A o \in orphans' : \E g \in Procs : place'[g] = "died" /\ Binds(g, o)'
      BY <1>0, <2>5, <3>2 DEF PortIInv, PortsBound
    <3> QED
      BY <3>1, <3>3 DEF PortsBound
  <2>7. ReportsOK'
    <3> SUFFICES ASSUME NEW h \in Procs PROVE ReportOK(h)'
      BY DEF ReportsOK
    <3>1. CASE h = p
      BY <1>0, <1>1, <1>2, <2>1, <3>1 DEF ReportOK, Reported
    <3>2. CASE h = r
      BY <1>0, <1>1, <1>4, <2>1, <3>2 DEF PortIInv, ReportsOK, ReportOK, Reported
    <3>3. CASE h \in Procs \ {r, p}
      <4>1. \A o : Elsewhere(h, o) => Elsewhere(h, o)'
        BY <1>1, <2>1, <2>5 DEF Elsewhere
      <4> QED
        BY <1>0, <2>1, <3>3, <4>1 DEF PortIInv, ReportsOK, ReportOK, Reported
    <3> QED
      BY <3>1, <3>2, <3>3
  <2> QED
    BY <2>2, <2>3, <2>4, <2>6, <2>7 DEF PortIInv
<1> QED
  BY <1>0, <1>3, <1>4 DEF ForkService

(* A facilitator that dies leaves its ports bound, or nobody's.            *)
LEMMA SigpipeNext == ASSUME PortIInv, NEW p \in Procs, Sigpipe(p) PROVE PortIInv'
<1>0. /\ place \in [Procs -> Places] /\ rset \in [Procs -> SUBSET Nat]
      /\ conn \in [Procs -> Clients \cup {NoClient}]
      /\ backlog \in [AllPorts -> Seq(Clients)] /\ orphans \subseteq AllPorts
      /\ place[p] = "iofunc" /\ place' = [place EXCEPT ![p] = "died"]
      /\ UNCHANGED <<sfds, closed, refused, provider>>
      /\ rset' = [rset EXCEPT ![p] = {}] /\ conn' = [conn EXCEPT ![p] = NoClient]
  BY DEF PortIInv, Types, Sigpipe, PlaceAt
<1>1. PICK own : own = {q \in AllPorts : Holders(q) = {p}}
  OBVIOUS
<1>2. PICK kept \in SUBSET own :
        /\ orphans' = orphans \cup kept
        /\ backlog' = [q \in AllPorts |-> IF q \in own \ kept THEN <<>> ELSE backlog[q]]
  BY <1>1 DEF Sigpipe
<1>3. \A q \in own : q \in AllPorts /\ Binds(p, q)
  BY <1>1 DEF Holders
<1>4. Types'
  <2>1. backlog' \in [AllPorts -> Seq(Clients)]
    BY <1>0, <1>2, EmptySeq
  <2> QED
    BY <1>0, <1>2, <1>3, <2>1 DEF PortIInv, Types, Places
<1>5. TablesOK' /\ BoundOnce'
  BY <1>0, TablesKept
<1>6. PortsBound'
  <2>1. \A r \in Procs : place[r] = "died" => place'[r] = "died"
    BY <1>0
  <2>2. place'[p] = "died"
    BY <1>0
  <2>3. \A r \in Procs : \A q : Binds(r, q)' <=> Binds(r, q)
    BY <1>0 DEF Binds
  <2>4. \A q \in orphans' : \E r \in Procs : place'[r] = "died" /\ Binds(r, q)'
    <3> SUFFICES ASSUME NEW q \in orphans' PROVE \E r \in Procs : place'[r] = "died" /\ Binds(r, q)'
      OBVIOUS
    <3>1. CASE q \in orphans
      BY <2>1, <2>3, <3>1 DEF PortIInv, PortsBound
    <3>2. CASE q \in own
      BY <1>3, <2>2, <2>3, <3>2
    <3> QED
      BY <1>2, <3>1, <3>2
  <2>5. \A r \in Procs, q \in AllPorts : Lists(r, q)' => q \in refused' \/ (\E h \in Procs : Binds(h, q)')
    BY <1>0, <2>3 DEF PortIInv, PortsBound, Lists
  <2> QED
    BY <2>4, <2>5 DEF PortsBound
<1>7. \A r \in Procs \ {p} : ReportOK(r)'
  <2>1. \A q \in AllPorts : backlog[q] # <<>> /\ backlog'[q] = <<>> => Binds(p, q)
    BY <1>2, <1>3
  <2> QED
    BY <1>0, <2>1, OthersReports
<1>8. ReportOK(p)'
  BY <1>0 DEF ReportOK, Reported
<1> QED
  BY <1>4, <1>5, <1>6, <1>7, <1>8 DEF PortIInv, ReportsOK

(* Every step preserves the invariant.                                     *)
LEMMA PortIInvNext == PortIInv /\ [PortNext]_portVars => PortIInv'
<1> SUFFICES ASSUME PortIInv, [PortNext]_portVars PROVE PortIInv'
  OBVIOUS
<1>0. /\ place \in [Procs -> Places] /\ rset \in [Procs -> SUBSET Nat]
      /\ conn \in [Procs -> Clients \cup {NoClient}]
      /\ backlog \in [AllPorts -> Seq(Clients)] /\ closed \subseteq Clients
      /\ provider \in [AllPorts -> {"none", "started", "listening"}]
  BY DEF PortIInv, Types
<1>k. ASSUME UNCHANGED <<place, sfds, rset, orphans, refused>>, Types',
             \A q \in AllPorts : backlog'[q] = <<>> => backlog[q] = <<>>
      PROVE  PortIInv'
  <2>1. TablesOK' /\ BoundOnce'
    BY <1>k, TablesKept
  <2>2. PortsBound'
    BY <1>k, PortsKept
  <2>3. ReportsOK'
    BY <1>k DEF PortIInv, ReportsOK, ReportOK, Reported, Elsewhere, Binds
  <2> QED
    BY <1>k, <2>1, <2>2, <2>3 DEF PortIInv
<1>1. ASSUME NEW p \in Procs, SelectReady(p) PROVE PortIInv'
  <2>1. /\ place[p] = "select" /\ place' = [place EXCEPT ![p] = "accept"] /\ Readable(p) # {}
        /\ rset' = [rset EXCEPT ![p] = Readable(p)]
        /\ UNCHANGED <<sfds, conn, backlog, orphans, closed, refused, provider>>
    BY <1>1 DEF SelectReady, PlaceAt, networkVars
  <2>2. Readable(p) \subseteq DOMAIN sfds[p] /\ DOMAIN sfds[p] \subseteq Nat
    BY TableEntries DEF PortIInv, Readable
  <2>3. Types'
    BY <1>0, <2>1, <2>2 DEF PortIInv, Types, Places
  <2>4. TablesOK' /\ BoundOnce' /\ PortsBound'
    BY <1>0, <2>1, TablesKept, PortsKept
  <2>5. \A r \in Procs \ {p} : ReportOK(r)'
    BY <1>0, <2>1, OthersReports
  <2>6. ReportOK(p)'
    BY <1>0, <2>1 DEF ReportOK, Reported, Readable
  <2> QED
    BY <2>3, <2>4, <2>5, <2>6 DEF PortIInv, ReportsOK
<1>2. ASSUME NEW p \in Procs, AcceptInfo(p) PROVE PortIInv'
  <2>1. 1 \in rset[p] /\ place[p] = "accept"
    BY <1>2, CurrentReported DEF AcceptInfo
  <2>2. sfds[p][1].port = Info
    BY <2>1 DEF PortIInv, TablesOK
  <2>3. rset' = [rset EXCEPT ![p] = @ \ {1}] /\ rset'[p] = rset[p] \ {1}
    BY <1>0, <1>2 DEF AcceptInfo
  <2>4. PlaceAt(p, IF rset[p] \ {1} = {} THEN "select" ELSE "accept")
    BY <1>2, <2>3 DEF AcceptInfo, NextListener
  <2> QED
    BY <1>0, <1>2, <2>1, <2>2, <2>3, <2>4, Accepted DEF AcceptInfo
<1>3. ASSUME NEW p \in Procs, AcceptClient(p) PROVE PortIInv'
  <2>i. PICK i : i = Current(p)
    OBVIOUS
  <2>q. PICK q : q = CurrentPort(p)
    OBVIOUS
  <2>1. i \in rset[p] /\ place[p] = "accept" /\ sfds[p][i].port = q /\ q \in AllPorts
    BY <1>3, <2>i, <2>q, CurrentReported, TableEntries
       DEF AcceptClient, CurrentPort, PortIInv, ReportsOK, ReportOK
  <2>2. rset' = [rset EXCEPT ![p] = @ \ {i}] /\ rset'[p] = rset[p] \ {i} /\ TakeFrom(p, q)
    BY <1>0, <1>3, <2>i, <2>q DEF AcceptClient
  <2>3. PICK l \in {"select", "accept", "iofunc"} :
          /\ PlaceAt(p, l) /\ (l = "accept" => rset[p] \ {i} # {})
          /\ l = "select" => rset[p] \ {i} = {}
    BY <1>3, <2>2 DEF AcceptClient, NextListener
  <2>4. conn' \in [Procs -> Clients \cup {NoClient}]
    <3>1. Head(backlog[q]) \in Clients
      BY <1>0, <2>1, <2>2, HeadTailProperties DEF TakeFrom
    <3> QED
      BY <1>0, <1>3, <2>q, <3>1 DEF AcceptClient
  <2>5. UNCHANGED <<sfds, orphans, closed, refused, provider>>
    BY <1>3 DEF AcceptClient
  <2> QED
    BY <2>1, <2>2, <2>3, <2>4, <2>5, Accepted
<1>4. ASSUME NEW p \in Procs, EndOfFile(p) PROVE PortIInv'
  <2>1. /\ place[p] = "iofunc"
        /\ place' = [place EXCEPT ![p] = IF rset[p] = {} THEN "select" ELSE "accept"]
        /\ conn' = [conn EXCEPT ![p] = NoClient]
        /\ UNCHANGED <<sfds, rset, backlog, orphans, closed, refused, provider>>
    BY <1>4 DEF EndOfFile, PlaceAt, networkVars
  <2>2. Types'
    BY <1>0, <2>1 DEF PortIInv, Types, Places
  <2>3. TablesOK' /\ BoundOnce' /\ PortsBound'
    BY <1>0, <2>1, TablesKept, PortsKept
  <2>4. \A r \in Procs \ {p} : ReportOK(r)'
    BY <1>0, <2>1, OthersReports
  <2>5. ReportOK(p)'
    <3>1. ReportOK(p)
      BY DEF PortIInv, ReportsOK
    <3>2. /\ place'[p] = IF rset[p] = {} THEN "select" ELSE "accept"
          /\ sfds' = sfds /\ rset' = rset /\ backlog' = backlog
      BY <1>0, <2>1
    <3>3. ASSUME NEW q \in AllPorts, Reported(p, q)'
          PROVE  backlog'[q] # <<>> \/ Elsewhere(p, q)'
      <4>1. Reported(p, q)
        BY <3>2, <3>3 DEF Reported
      <4>2. Elsewhere(p, q) => Elsewhere(p, q)'
        BY <1>0, <2>1 DEF Elsewhere, Binds
      <4> QED
        BY <3>1, <3>2, <4>1, <4>2 DEF ReportOK
    <3>4. \A i \in rset'[p] : i \in DOMAIN sfds'[p] /\ sfds'[p][i].bound
      BY <3>1, <3>2 DEF ReportOK
    <3> QED
      BY <3>2, <3>3, <3>4 DEF ReportOK
  <2> QED
    BY <2>2, <2>3, <2>4, <2>5 DEF PortIInv, ReportsOK
<1>5. ASSUME NEW q \in AllPorts, ServiceListen(q) PROVE PortIInv'
  BY <1>0, <1>5, <1>k DEF ServiceListen, facilitatorVars, networkVars, PortIInv, Types
<1>6. ASSUME NEW c \in Clients, Close(c) PROVE PortIInv'
  BY <1>0, <1>6, <1>k DEF Close, facilitatorVars, PortIInv, Types
<1>7. ASSUME NEW c \in Clients, NEW q \in AllPorts, Connect(c, q) PROVE PortIInv'
  <2>1. /\ backlog' = [backlog EXCEPT ![q] = Append(backlog[q], c)]
        /\ Append(backlog[q], c) \in Seq(Clients) /\ Append(backlog[q], c) # <<>>
    BY <1>0, <1>7, AppendProperties, EmptySeq DEF Connect
  <2>2. Types'
    BY <1>0, <1>7, <2>1 DEF Connect, facilitatorVars, PortIInv, Types
  <2>3. \A o \in AllPorts : backlog'[o] = <<>> => backlog[o] = <<>>
    BY <1>0, <2>1
  <2> QED
    BY <1>7, <1>k, <2>2, <2>3 DEF Connect, facilitatorVars
<1>8. CASE UNCHANGED portVars
  BY <1>8, <1>k DEF portVars, facilitatorVars, networkVars, PortIInv, Types
<1> QED
  BY <1>1, <1>2, <1>3, <1>4, <1>5, <1>6, <1>7, <1>8, PromptNext, ForkNext, SigpipeNext
     DEF PortNext, LoopStep, Typist

-----------------------------------------------------------------------------
(* The tables never outgrow the n services that were asked for, and the    *)
(* loop only looks at indices they have (fasc.c:71-91, 117-145).           *)
THEOREM PortTypeCorrect == PortSpec => []PortTypeOK
BY PortIInvInit, PortIInvNext, TypeFollows, PTL DEF PortSpec

(* A facilitator blocks in accept only when another one, born of a failed  *)
(* execvp, holds the same listener: with any number of ports typed twice   *)
(* and of clients that come and go it never blocks by itself               *)
(* (fasc.c:99,117-124).                                                    *)
THEOREM BlocksBesideAnother == PortSpec => []BlocksOnlyBesideAnother
BY PortIInvInit, PortIInvNext, BlocksFollows, PTL DEF PortSpec

(* Of the ports in the table sent to the clients only those the machine    *)
(* refused and those whose facilitator has died are without an acceptor:   *)
(* typing a port twice costs nobody the listener (fasc.c:83-90,126).       *)
THEOREM TablePortsListen == PortSpec => []TableListens
BY PortIInvInit, PortIInvNext, TableFollows, PTL DEF PortSpec
=============================================================================
