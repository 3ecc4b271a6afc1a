----------------------------- MODULE GroupChat -----------------------------
(***************************************************************************)
(* src/message_queues/group_chat: clients join a group at a server and     *)
(* then say "foo" to it; the server passes each "foo" on to the others of  *)
(* the group.  Requests and deliveries share one System V message queue,   *)
(* told apart by their type: 1 for the server, a client's pid for its.     *)
(* (server.c lacks the declaration of group, a semicolon and its last      *)
(* brace; it is read with them.)                                           *)
(***************************************************************************)
EXTENDS Naturals, Sequences, FiniteSets

CONSTANTS
  Members,   \* the client processes, by pid
  Groups,    \* the group numbers (0 .. 4 have a place in grps)
  QueueCap,  \* messages the queue holds
  Server,    \* the type 1
  None

ASSUME NamesAssumption ==
  IsFiniteSet(Members) /\ Server \notin Members /\ None \notin Members
ASSUME QueueAssumption == QueueCap \in Nat \ {0}

VARIABLES
  queue,   \* records [type, text, from]; from is who asked for it
  group,   \* each client's group_id
  member,  \* where each client is: about to "add", to send "foo", or in msgrcv
  grps,    \* pids[0 .. num - 1] of each group
  asking,  \* whose "foo" the server is passing on, None while in msgrcv
  next     \* the i of its loop

vars == <<queue, group, member, grps, asking, next>>

Init ==
  /\ queue = <<>>
  /\ group \in [Members -> Groups]      \* rand()
  /\ member = [c \in Members |-> "add"]
  /\ grps = [g \in Groups |-> <<>>]
  /\ asking = None /\ next = 0

Message(type, text, from) == [type |-> type, text |-> text, from |-> from]
Elements(s) == {s[i] : i \in DOMAIN s}

(* Mutant: nobody waits for room in the queue.                             *)
MsgsndAtOnce(m) == queue' = Append(queue, m)

(* msgsnd blocks while the queue is full; msgrcv takes the first message   *)
(* of the type and blocks while there is none.                             *)
Msgsnd(m) ==
  /\ Len(queue) < QueueCap
  /\ queue' = Append(queue, m)

FirstOf(i, type) ==
  queue[i].type = type /\ \A j \in 1 .. i - 1 : queue[j].type # type
Without(q, i) == SubSeq(q, 1, i - 1) \o SubSeq(q, i + 1, Len(q))

-----------------------------------------------------------------------------
(* The clients.                                                            *)

Add(c) ==
  /\ member[c] = "add"
  /\ Msgsnd(Message(Server, "add", c))
  /\ member' = [member EXCEPT ![c] = "foo"]
  /\ UNCHANGED <<group, grps, asking, next>>

Foo(c) ==
  /\ member[c] = "foo"
  /\ Msgsnd(Message(Server, "foo", c))
  /\ member' = [member EXCEPT ![c] = "msgrcv"]
  /\ UNCHANGED <<group, grps, asking, next>>

Receive(c) ==
  /\ member[c] = "msgrcv"
  /\ \E i \in DOMAIN queue : FirstOf(i, c) /\ queue' = Without(queue, i)
  /\ member' = [member EXCEPT ![c] = "foo"]
  /\ UNCHANGED <<group, grps, asking, next>>

-----------------------------------------------------------------------------
(* The server.                                                             *)

(* Mutant: the pid is put into the first group whatever the message says.  *)
ServeWrongGroup ==
  /\ asking = None
  /\ \E i \in DOMAIN queue :
       /\ FirstOf(i, Server)
       /\ queue' = Without(queue, i)
       /\ LET c == queue[i].from IN
            IF queue[i].text = "add"
            THEN /\ \E g \in Groups : grps' = [grps EXCEPT ![g] = Append(@, c)]
                 /\ UNCHANGED <<asking, next>>
            ELSE asking' = c /\ next' = 1 /\ UNCHANGED grps
  /\ UNCHANGED <<group, member>>

(* "add" puts the pid into its group; "foo" starts the loop over the group.*)
Serve ==
  /\ asking = None
  /\ \E i \in DOMAIN queue :
       /\ FirstOf(i, Server)
       /\ queue' = Without(queue, i)
       /\ LET c == queue[i].from IN
            IF queue[i].text = "add"
            THEN /\ grps' = [grps EXCEPT ![group[c]] = Append(@, c)]
                 /\ UNCHANGED <<asking, next>>
            ELSE asking' = c /\ next' = 1 /\ UNCHANGED grps
  /\ UNCHANGED <<group, member>>

(* Mutant: the sender is not left out.                                     *)
PassToAll ==
  /\ asking # None /\ next \in DOMAIN grps[group[asking]]
  /\ Msgsnd(Message(grps[group[asking]][next], "foo", asking))
  /\ next' = next + 1
  /\ UNCHANGED <<group, member, grps, asking>>

(* One round of the loop: everybody in the group but the sender.           *)
PassOn ==
  /\ asking # None /\ next \in DOMAIN grps[group[asking]]
  /\ \/ /\ grps[group[asking]][next] # asking
        /\ Msgsnd(Message(grps[group[asking]][next], "foo", asking))
     \/ /\ grps[group[asking]][next] = asking
        /\ UNCHANGED queue
  /\ next' = next + 1
  /\ UNCHANGED <<group, member, grps, asking>>

PassedOn ==
  /\ asking # None /\ next \notin DOMAIN grps[group[asking]]
  /\ asking' = None /\ next' = 0
  /\ UNCHANGED <<queue, group, member, grps>>

ServerStep == Serve \/ PassOn \/ PassedOn

Next == ServerStep \/ \E c \in Members : Add(c) \/ Foo(c) \/ Receive(c)

Spec == Init /\ [][Next]_vars

(* Nobody waits for a person here: the processes run by themselves.        *)
Fairness ==
  WF_vars(ServerStep) /\ \A c \in Members : WF_vars(Add(c) \/ Foo(c) \/ Receive(c))

FairSpec == Spec /\ Fairness

-----------------------------------------------------------------------------
(***************************************************************************)
(* Properties                                                              *)
(***************************************************************************)

Messages == [type : Members \cup {Server}, text : {"add", "foo"}, from : Members]

TypeOK ==
  /\ queue \in Seq(Messages) /\ Len(queue) <= QueueCap
  /\ group \in [Members -> Groups]
  /\ member \in [Members -> {"add", "foo", "msgrcv"}]
  /\ grps \in [Groups -> Seq(Members)]
  /\ asking \in Members \cup {None}
  /\ next \in 0 .. Cardinality(Members) + 1

(* What is on its way to a client comes from another client that had       *)
(* joined the same group before it spoke, and the server knows every       *)
(* client at most once (server.c:41-51, client.c:20-32).                   *)
DeliveredInGroup ==
  /\ \A i \in DOMAIN queue : queue[i].type # Server =>
       /\ queue[i].from # queue[i].type
       /\ {queue[i].from, queue[i].type} \subseteq Elements(grps[group[queue[i].from]])
  /\ asking # None => asking \in Elements(grps[group[asking]])
  /\ \A g \in Groups : Len(grps[g]) = Cardinality(Elements(grps[g]))

(* No group has more than two clients.                                     *)
Pairs == \A g \in Groups : Cardinality({c \in Members : group[c] = g}) <= 2

(* In groups of two no message ever multiplies: besides the requests to    *)
(* join there is at most one for each client, so a queue with room for     *)
(* twice the clients never makes the server wait (server.c:44-51).         *)
OneEach ==
  Pairs => Cardinality({i \in DOMAIN queue : queue[i].text = "foo"}) <= Cardinality(Members)

(* The server gets through its loop, and so does not block in msgsnd on    *)
(* the queue only it and the blocked clients could drain, as long as the   *)
(* groups are pairs; in a group of three it does (server.c:49).            *)
ServerComesBack == Pairs /\ asking # None ~> asking = None
=============================================================================
