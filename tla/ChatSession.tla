---------------------------- MODULE ChatSession ----------------------------
(***************************************************************************)
(* src/socket_rev/thread/server2.c: a chat server with one client at a     *)
(* time.  Each session has a thread that reads from the client and one     *)
(* that writes what the user types.  When what a recv returns begins       *)
(* with "@" the reader sends the process SIGUSR1, and the handler cancels  *)
(* the thread the global tidgod names: the writer of this session, once    *)
(* main has stored its id there, and before that whoever had or has the    *)
(* old id.  TCP keeps no messages apart: one recv may return several, and  *)
(* only its first character is looked at.                                  *)
(***************************************************************************)
EXTENDS Naturals, Sequences

CONSTANTS
  Ids,          \* the values of pthread_t; one may be used again after a join
  NoId,         \* the 0 that tidgod starts with
  MaxSessions,  \* bound: clients accepted
  MaxInbox      \* bound: messages a client has sent that are not read

ASSUME IdsAssumption == NoId \notin Ids /\ MaxSessions \in Nat /\ MaxInbox \in Nat

VARIABLES
  pc,         \* where main is; "died" when a signal has ended the process
  sessions,   \* clients accepted
  tid1, tid2, tidgod, flag,
  thread,     \* what the thread with each id does
  cancelled,  \* the threads with a cancellation request
  pending,    \* SIGUSR1 is pending
  inbox, closed,  \* the pieces the client has sent, "@" one that begins with
                  \* that character; it has closed its end
  buff,       \* what read_func's buff begins with
  missed,     \* history: a handler ran before SetGod and did not hit the writer
  atSent,     \* history: the client of this session has sent an "@"
  garbage     \* history: its reader has looked at a buff that no recv had filled

client == <<inbox, closed>>
said   == <<atSent, garbage>>
sessionVars ==
  <<pc, sessions, tid1, tid2, tidgod, flag, thread, cancelled, pending, client, buff, missed,
    said>>

SessionInit ==
  /\ pc = "accept" /\ sessions = 0
  /\ tid1 = NoId /\ tid2 = NoId /\ tidgod = NoId /\ flag = 0
  /\ thread = [i \in Ids |-> "free"]
  /\ cancelled = {} /\ pending = FALSE
  /\ inbox = <<>> /\ closed = TRUE
  /\ buff = "unset" /\ missed = FALSE
  /\ atSent = FALSE /\ garbage = FALSE

At(label)   == pc = label
Goto(label) == pc' = label

-----------------------------------------------------------------------------
(* The client.                                                             *)
ClientSend ==
  /\ ~closed /\ Len(inbox) < MaxInbox
  /\ \E m \in {"text", "@"} : /\ inbox' = Append(inbox, m)
                              /\ atSent' = (atSent \/ m = "@")
  /\ UNCHANGED <<pc, sessions, tid1, tid2, tidgod, flag, thread, cancelled, pending, closed,
                 buff, missed, garbage>>

ClientClose ==
  /\ ~closed /\ closed' = TRUE
  /\ UNCHANGED <<pc, sessions, tid1, tid2, tidgod, flag, thread, cancelled, pending, inbox,
                 buff, missed, said>>

-----------------------------------------------------------------------------
(* main.                                                                   *)
Accept ==
  /\ At("accept") /\ sessions < MaxSessions
  /\ sessions' = sessions + 1
  /\ inbox' = <<>> /\ closed' = FALSE
  /\ atSent' = FALSE /\ garbage' = FALSE
  /\ Goto("create1")
  /\ UNCHANGED <<tid1, tid2, tidgod, flag, thread, cancelled, pending, buff, missed>>

(* Mutant: buff is static, and still holds what the last reader received.  *)
Create1KeepsBuff ==
  /\ At("create1")
  /\ tid1' \in {i \in Ids : thread[i] = "free"}
  /\ thread' = [thread EXCEPT ![tid1'] = "recv"]
  /\ Goto("create2")
  /\ UNCHANGED <<sessions, tid2, tidgod, flag, cancelled, pending, client, buff, missed, said>>

(* buff is a local of read_func: what it holds at first is undetermined.   *)
Create1 ==
  /\ At("create1")
  /\ tid1' \in {i \in Ids : thread[i] = "free"}
  /\ thread' = [thread EXCEPT ![tid1'] = "recv"]
  /\ buff' = "unset"
  /\ Goto("create2")
  /\ UNCHANGED <<sessions, tid2, tidgod, flag, cancelled, pending, client, missed, said>>

Create2 ==
  /\ At("create2")
  /\ tid2' \in {i \in Ids : thread[i] = "free"}
  /\ thread' = [thread EXCEPT ![tid2'] = "write"]
  /\ Goto("setgod")
  /\ UNCHANGED <<sessions, tid1, tidgod, flag, cancelled, pending, client, buff, missed, said>>

(* Mutant: main stores the reader's id.                                    *)
SetGodReader ==
  /\ At("setgod")
  /\ tidgod' = tid1
  /\ Goto("join1")
  /\ UNCHANGED <<sessions, tid1, tid2, flag, thread, cancelled, pending, client, buff, missed, said>>

SetGod ==
  /\ At("setgod")
  /\ tidgod' = tid2
  /\ Goto("join1")
  /\ UNCHANGED <<sessions, tid1, tid2, flag, thread, cancelled, pending, client, buff, missed, said>>

(* pthread_join: wait until thread i is over; its id is free again.        *)
Join(i) ==
  /\ thread[i] = "over"
  /\ thread' = [thread EXCEPT ![i] = "free"]
  /\ cancelled' = cancelled \ {i}
  /\ UNCHANGED <<sessions, tid1, tid2, tidgod, flag, pending, client, buff, missed, said>>

(* Mutant: the reader is not joined.                                       *)
Join1Left ==
  /\ At("join1") /\ Goto("join2")
  /\ UNCHANGED <<sessions, tid1, tid2, tidgod, flag, thread, cancelled, pending, client, buff,
                 missed, said>>

Join1 == At("join1") /\ Join(tid1) /\ Goto("join2")
Join2 == At("join2") /\ Join(tid2) /\ Goto("close")

(* flag = 0; close(cfd).                                                   *)
Close ==
  /\ At("close")
  /\ flag' = 0
  /\ Goto("accept")
  /\ UNCHANGED <<sessions, tid1, tid2, tidgod, thread, cancelled, pending, client, buff, missed, said>>

MainStep == Accept \/ Create1 \/ Create2 \/ SetGod \/ Join1 \/ Join2 \/ Close

-----------------------------------------------------------------------------
(* read_func.  recv returns as many of the pieces as have come.  When the  *)
(* client has closed, it leaves buff as it is, and the old contents are    *)
(* looked at again -- at first, anything.                                  *)
Recv(i) ==
  /\ thread[i] = "recv"
  /\ \/ \E n \in 1 .. Len(inbox) :
          /\ buff' = inbox[1] /\ inbox' = SubSeq(inbox, n + 1, Len(inbox))
          /\ UNCHANGED garbage
     \/ /\ inbox = <<>> /\ closed
        /\ buff' \in IF buff = "unset" THEN {"text", "@"} ELSE {buff}
        /\ garbage' = (garbage \/ buff = "unset")
        /\ UNCHANGED inbox
  /\ thread' = [thread EXCEPT ![i] = IF buff' = "@" THEN "flag" ELSE "recv"]
  /\ UNCHANGED <<pc, sessions, tid1, tid2, tidgod, flag, cancelled, pending, closed, missed,
                 atSent>>

SetFlag(i) ==
  /\ thread[i] = "flag"
  /\ flag' = 1
  /\ thread' = [thread EXCEPT ![i] = "kill"]
  /\ UNCHANGED <<pc, sessions, tid1, tid2, tidgod, cancelled, pending, client, buff, missed, said>>

Kill(i) ==
  /\ thread[i] = "kill"
  /\ pending' = TRUE
  /\ thread' = [thread EXCEPT ![i] = "over"]
  /\ UNCHANGED <<pc, sessions, tid1, tid2, tidgod, flag, cancelled, client, buff, missed, said>>

(* write_func: scanf and send change nothing here, but a send to a client  *)
(* that has closed may end the process with SIGPIPE.                       *)
SendToClosed(i) ==
  /\ thread[i] = "write" /\ closed
  /\ Goto("died")
  /\ UNCHANGED <<sessions, tid1, tid2, tidgod, flag, thread, cancelled, pending, client, buff,
                 missed, said>>

(* recv, scanf and send are cancellation points.                           *)
ActOnCancel(i) ==
  /\ i \in cancelled /\ thread[i] \in {"recv", "write"}
  /\ thread' = [thread EXCEPT ![i] = "over"]
  /\ UNCHANGED <<pc, sessions, tid1, tid2, tidgod, flag, cancelled, pending, client, buff,
                 missed, said>>

-----------------------------------------------------------------------------
(* Mutant: whatever tidgod holds is taken for a thread.                    *)
SigUsrUnchecked ==
  /\ pending /\ pending' = FALSE
  /\ cancelled' = cancelled \cup {tidgod}
  /\ UNCHANGED <<pc, sessions, tid1, tid2, tidgod, flag, thread, client, buff, missed, said>>

(* sig_usr, on whichever thread: pthread_cancel(tidgod).  Before anything  *)
(* was stored this is a null pointer; an id that is free again is ignored  *)
(* or crashes, depending on whether the memory behind it is still mapped.  *)
SigUsr ==
  /\ pending /\ pending' = FALSE
  /\ \/ /\ tidgod \in {i \in Ids : thread[i] # "free"}
        /\ cancelled' = cancelled \cup {tidgod}
        /\ UNCHANGED pc
     \/ /\ tidgod \in {i \in Ids : thread[i] = "free"}
        /\ UNCHANGED <<pc, cancelled>>
     \/ /\ tidgod \notin {i \in Ids : thread[i] # "free"}
        /\ Goto("died")
        /\ UNCHANGED cancelled
  /\ missed' = (missed \/ (pc \in {"create2", "setgod"}
                         /\ tidgod \notin {i \in Ids : thread[i] = "write"}))
  /\ UNCHANGED <<sessions, tid1, tid2, tidgod, flag, thread, client, buff, said>>

ThreadStep(i) == Recv(i) \/ SetFlag(i) \/ Kill(i) \/ ActOnCancel(i)

SessionNext ==
  /\ pc # "died"
  /\ \/ ClientSend \/ ClientClose \/ MainStep \/ SigUsr
     \/ \E i \in Ids : ThreadStep(i) \/ SendToClosed(i)

SessionSpec == SessionInit /\ [][SessionNext]_sessionVars

(* The threads run, a pending signal is taken; clients and user owe        *)
(* nothing.                                                                *)
SessionFairness ==
  /\ WF_sessionVars(pc # "died" /\ MainStep) /\ WF_sessionVars(pc # "died" /\ SigUsr)
  /\ \A i \in Ids : WF_sessionVars(pc # "died" /\ ThreadStep(i))

FairSessionSpec == SessionSpec /\ SessionFairness

-----------------------------------------------------------------------------
(***************************************************************************)
(* Properties                                                              *)
(***************************************************************************)

SessionTypeOK ==
  /\ pc \in {"accept", "create1", "create2", "setgod", "join1", "join2", "close", "died"}
  /\ sessions \in 0 .. MaxSessions
  /\ {tid1, tid2, tidgod} \subseteq Ids \cup {NoId} /\ flag \in {0, 1}
  /\ thread \in [Ids -> {"free", "recv", "flag", "kill", "write", "over"}]
  /\ cancelled \in SUBSET Ids /\ pending \in BOOLEAN
  /\ inbox \in Seq({"text", "@"}) /\ closed \in BOOLEAN
  /\ buff \in {"unset", "text", "@"} /\ missed \in BOOLEAN
  /\ atSent \in BOOLEAN /\ garbage \in BOOLEAN

(* Nothing of a session reaches the next one: when main accepts, no thread *)
(* is left, no SIGUSR1 is pending and no cancellation is outstanding, even *)
(* if ids are used again and the handler ran with an old tidgod            *)
(* (server2.c:71-84).                                                      *)
SessionsSeparate ==
  pc \in {"accept", "create1"} =>
    ~pending /\ cancelled = {} /\ flag = 0 /\ \A i \in Ids : thread[i] = "free"

(* Only in a session whose client has sent an "@" are threads cancelled,   *)
(* or in one whose client closed before anything was received, so that the *)
(* reader took what its stack held for a message.  Nobody is cancelled for *)
(* what an earlier client sent, although flag, tidgod and the signal       *)
(* belong to no session, and of the writers only this session's            *)
(* (server2.c:6-8, 20-28, 78-82).                                          *)
CancelledAfterAt ==
  /\ cancelled # {} => flag = 1 /\ (atSent \/ garbage)
  /\ \A i \in cancelled : thread[i] # "free" /\ (thread[i] = "write" => i = tid2)

(* A session whose reader has found "@" at the beginning of what it        *)
(* received ends and main accepts again, unless the handler ran before     *)
(* main had stored tidgod (server2.c:25-28, 78-80).  An "@" that TCP       *)
(* delivers behind other text in one recv is not found.                    *)
SessionEnds == flag = 1 ~> (pc = "accept" \/ pc = "died" \/ missed)
=============================================================================
