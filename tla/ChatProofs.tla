------------------------------ MODULE ChatProofs ------------------------------
(***************************************************************************)
(* Proofs about the two chat programs: GroupChat, for any number of        *)
(* clients and groups and a queue of any size, and then ChatSession, for   *)
(* any number of thread ids, sessions and messages.  The two share nothing.*)
(***************************************************************************)
EXTENDS GroupChat, ChatSession, QueueLemmas, SequenceTheorems, FiniteSetTheorems, TLAPS

(* The types, but for next, whose range depends on the groups.             *)
Types ==
  /\ queue \in Seq(Messages) /\ Len(queue) <= QueueCap
  /\ group \in [Members -> Groups]
  /\ member \in [Members -> {"add", "foo", "msgrcv"}]
  /\ grps \in [Groups -> Seq(Members)]
  /\ asking \in Members \cup {None}

(* The server knows the client.                                            *)
Joined(c) == c \in Items(grps[group[c]])

(* The i-th message asks the server to do something for c.                 *)
Asks(i, text, c) ==
  queue[i].type = Server /\ queue[i].text = text /\ queue[i].from = c

(* Nobody is in a group twice, or in another's group.                      *)
GroupsOK ==
  \A g \in Groups : Distinct(grps[g]) /\ \A c \in Items(grps[g]) : group[c] = g

(* A client asks once to join, and before it says anything.                *)
RequestsOK ==
  \A c \in Members : \A i \in DOMAIN queue :
    /\ Asks(i, "add", c) => /\ member[c] # "add" /\ ~Joined(c)
                            /\ \A j \in DOMAIN queue : Asks(j, "add", c) => j = i
    /\ Asks(i, "foo", c) => \/ Joined(c)
                            \/ \E j \in DOMAIN queue : j < i /\ Asks(j, "add", c)

(* Whoever has asked is in the group or will be, and nobody else is.       *)
MembersOK ==
  \A c \in Members :
    /\ member[c] = "add" => ~Joined(c)
    /\ member[c] # "add" => Joined(c) \/ \E i \in DOMAIN queue : Asks(i, "add", c)

(* What is on its way to a client, as DeliveredInGroup says.               *)
DeliveriesOK ==
  \A i \in DOMAIN queue : queue[i].type # Server =>
    /\ queue[i].text = "foo" /\ queue[i].from # queue[i].type
    /\ Joined(queue[i].from) /\ queue[i].type \in Items(grps[group[queue[i].from]])

(* The loop over the asking client's group.                                *)
LoopOK ==
  IF asking = None THEN next = 0
  ELSE Joined(asking) /\ next \in 1 .. Len(grps[group[asking]]) + 1

IInv == Types /\ GroupsOK /\ RequestsOK /\ MembersOK /\ DeliveriesOK /\ LoopOK

-----------------------------------------------------------------------------
(* What the invariant says.                                                *)

(* A group has at most as many places taken as there are clients.          *)
LEMMA GroupSize ==
  ASSUME Types, GroupsOK, NEW g \in Groups
  PROVE  /\ Len(grps[g]) = Cardinality(Items(grps[g]))
         /\ Len(grps[g]) <= Cardinality(Members) /\ Len(grps[g]) \in Nat
<1>1. grps[g] \in Seq(Members) /\ Distinct(grps[g])
  BY DEF Types, GroupsOK
<1>2. Items(grps[g]) \subseteq Members
  BY <1>1, ItemsOf
<1>3. Cardinality(Items(grps[g])) = Len(grps[g]) /\ Len(grps[g]) \in Nat
  BY <1>1, DistinctCardinality, LenProperties
<1>4. Cardinality(Items(grps[g])) <= Cardinality(Members)
  BY <1>2, FS_Subset, NamesAssumption
<1> QED
  BY <1>3, <1>4

(* The invariant implies the type invariant of the runs.                   *)
LEMMA TypeFollows == IInv => TypeOK
<1> SUFFICES ASSUME IInv PROVE next \in 0 .. Cardinality(Members) + 1
  BY DEF IInv, Types, TypeOK
<1>0. Cardinality(Members) \in Nat
  BY FS_CardinalityType, NamesAssumption
<1>1. CASE asking = None
  BY <1>0, <1>1 DEF IInv, LoopOK
<1>2. CASE asking # None
  <2>1. group[asking] \in Groups
    BY <1>2 DEF IInv, Types
  <2>2. next \in 1 .. Len(grps[group[asking]]) + 1
    BY <1>2 DEF IInv, LoopOK
  <2> QED
    BY <1>0, <2>1, <2>2, GroupSize DEF IInv
<1> QED
  BY <1>1, <1>2

(* And that deliveries stay in the group.                                  *)
LEMMA DeliveredFollows == IInv => DeliveredInGroup
<1> SUFFICES ASSUME IInv PROVE DeliveredInGroup
  OBVIOUS
<1>1. \A s : Elements(s) = Items(s)
  BY DEF Elements, Items
<1>2. \A g \in Groups : Len(grps[g]) = Cardinality(Elements(grps[g]))
  BY <1>1, GroupSize DEF IInv
<1>3. asking # None => asking \in Elements(grps[group[asking]])
  BY <1>1 DEF IInv, LoopOK, Joined
<1>4. ASSUME NEW i \in DOMAIN queue, queue[i].type # Server
      PROVE  /\ queue[i].from # queue[i].type
             /\ {queue[i].from, queue[i].type} \subseteq Elements(grps[group[queue[i].from]])
  BY <1>1, <1>4 DEF IInv, DeliveriesOK, Joined
<1> QED
  BY <1>2, <1>3, <1>4 DEF DeliveredInGroup

-----------------------------------------------------------------------------
(* The invariant holds initially.                                          *)
LEMMA IInvInit == Init => IInv
<1> SUFFICES ASSUME Init PROVE IInv
  OBVIOUS
<1>1. DOMAIN queue = {}
  BY DOMAIN <<>> = {} DEF Init
<1>2. \A g \in Groups : Items(grps[g]) = {} /\ Distinct(grps[g])
  BY ItemsEmpty DEF Init
<1>3. queue \in Seq(Messages) /\ Len(queue) <= QueueCap
  BY EmptySeq, QueueAssumption DEF Init
<1>4. grps \in [Groups -> Seq(Members)]
  BY EmptySeq DEF Init
<1>5. Types
  BY <1>3, <1>4 DEF Init, Types
<1>6. \A c \in Members : ~Joined(c)
  BY <1>2, <1>5 DEF Joined, Types
<1> QED
  BY <1>1, <1>2, <1>5, <1>6 DEF Init, IInv, GroupsOK, RequestsOK, MembersOK, DeliveriesOK, LoopOK

(* A message joins the queue at its end: what it may be.                   *)
LEMMA Sent ==
  ASSUME IInv, NEW m \in Messages, Msgsnd(m), UNCHANGED <<group, grps>>,
         \A c \in Members : member'[c] # member[c] =>
           /\ member[c] = "add" => m.type = Server /\ m.text = "add" /\ m.from = c
           /\ member'[c] # "add",
         m.type = Server /\ m.text = "add" =>
           member[m.from] = "add" /\ member'[m.from] # "add",
         m.type = Server /\ m.text = "foo" => member[m.from] # "add",
         m.type # Server => /\ m.text = "foo" /\ m.from # m.type
                            /\ Joined(m.from) /\ m.type \in Items(grps[group[m.from]])
  PROVE  GroupsOK' /\ RequestsOK' /\ MembersOK' /\ DeliveriesOK'
         /\ queue' \in Seq(Messages) /\ Len(queue') <= QueueCap
<1>1. queue \in Seq(Messages) /\ Len(queue) \in Nat /\ QueueCap \in Nat
  BY QueueAssumption, LenProperties DEF IInv, Types
<1>n. PICK n : n = Len(queue) + 1
  OBVIOUS
<1>2. /\ queue' \in Seq(Messages) /\ Len(queue') = n
      /\ \A i \in DOMAIN queue : i \in DOMAIN queue' /\ queue'[i] = queue[i]
      /\ n \in DOMAIN queue' /\ queue'[n] = m
      /\ \A i \in DOMAIN queue' : i \in DOMAIN queue \/ i = n
      /\ \A i \in DOMAIN queue : i < n
  BY <1>1, <1>n, AppendIndices DEF Msgsnd
<1>3. queue' \in Seq(Messages) /\ Len(queue') <= QueueCap
  BY <1>1, <1>2, <1>n DEF Msgsnd
<1>4. GroupsOK'
  BY DEF IInv, GroupsOK
<1>5. \A c : Joined(c)' <=> Joined(c)
  BY DEF Joined
<1>6. \A i \in DOMAIN queue : \A c, text : Asks(i, text, c)' <=> Asks(i, text, c)
  BY <1>2 DEF Asks
<1>7. \A c, text : Asks(n, text, c)' <=> m.type = Server /\ m.text = text /\ m.from = c
  BY <1>2 DEF Asks
<1>8. MembersOK'
  <2> SUFFICES ASSUME NEW c \in Members
               PROVE  /\ member'[c] = "add" => ~Joined(c)
                      /\ member'[c] # "add" =>
                           Joined(c) \/ \E i \in DOMAIN queue' : Asks(i, "add", c)'
    BY <1>5 DEF MembersOK
  <2>1. CASE member[c] = "add" /\ member'[c] # "add"
    BY <1>2, <1>7, <2>1
  <2>2. CASE ~(member[c] = "add" /\ member'[c] # "add")
    BY <1>2, <1>6, <2>2 DEF IInv, MembersOK
  <2> QED
    BY <2>1, <2>2
<1>9. DeliveriesOK'
  <2> SUFFICES ASSUME NEW i \in DOMAIN queue', queue'[i].type # Server
               PROVE  /\ queue'[i].text = "foo" /\ queue'[i].from # queue'[i].type
                      /\ Joined(queue'[i].from)
                      /\ queue'[i].type \in Items(grps[group[queue'[i].from]])
    BY <1>5 DEF DeliveriesOK
  <2>1. CASE i \in DOMAIN queue
    BY <1>2, <2>1 DEF IInv, DeliveriesOK
  <2>2. CASE i = n
    BY <1>2, <2>2
  <2> QED
    BY <1>2, <2>1, <2>2
<1>10. RequestsOK'
  <2> SUFFICES ASSUME NEW c \in Members, NEW i \in DOMAIN queue'
               PROVE  /\ Asks(i, "add", c)' =>
                           /\ member'[c] # "add" /\ ~Joined(c)
                           /\ \A j \in DOMAIN queue' : Asks(j, "add", c)' => j = i
                      /\ Asks(i, "foo", c)' =>
                           \/ Joined(c)
                           \/ \E j \in DOMAIN queue' : j < i /\ Asks(j, "add", c)'
    BY <1>5 DEF RequestsOK
  <2>1. ASSUME m.type = Server, m.text = "add", m.from = c
        PROVE  ~Joined(c) /\ \A j \in DOMAIN queue : ~Asks(j, "add", c)
    BY <2>1 DEF IInv, MembersOK, RequestsOK
  <2>2. CASE i \in DOMAIN queue
    <3>1. Asks(i, "add", c)' =>
            /\ member'[c] # "add" /\ ~Joined(c)
            /\ \A j \in DOMAIN queue' : Asks(j, "add", c)' => j = i
      BY <1>2, <1>6, <1>7, <2>1, <2>2 DEF IInv, RequestsOK
    <3>2. Asks(i, "foo", c)' => Joined(c) \/ \E j \in DOMAIN queue' : j < i /\ Asks(j, "add", c)'
      BY <1>2, <1>6, <2>2 DEF IInv, RequestsOK
    <3> QED
      BY <3>1, <3>2
  <2>3. CASE i = n
    <3>1. Asks(i, "add", c)' =>
            /\ member'[c] # "add" /\ ~Joined(c)
            /\ \A j \in DOMAIN queue' : Asks(j, "add", c)' => j = i
      BY <1>2, <1>6, <1>7, <2>1, <2>3
    <3>2. Asks(i, "foo", c)' => Joined(c) \/ \E j \in DOMAIN queue' : j < i /\ Asks(j, "add", c)'
      BY <1>2, <1>6, <1>7, <2>3 DEF IInv, MembersOK
    <3> QED
      BY <3>1, <3>2
  <2> QED
    BY <1>2, <2>2, <2>3
<1> QED
  BY <1>3, <1>4, <1>8, <1>9, <1>10

(* A message leaves the queue, one to a client or one of the server's that *)
(* the groups have taken account of.                                       *)
LEMMA Taken ==
  ASSUME IInv, NEW i \in DOMAIN queue, queue' = Without(queue, i),
         UNCHANGED group, grps' \in [Groups -> Seq(Members)], GroupsOK',
         \A c \in Members : Joined(c)' <=> (Joined(c) \/ Asks(i, "add", c)),
         \A g \in Groups : Items(grps[g]) \subseteq Items(grps'[g]),
         \A c \in Members : member'[c] # "add" <=> member[c] # "add"
  PROVE  RequestsOK' /\ MembersOK' /\ DeliveriesOK'
         /\ queue' \in Seq(Messages) /\ Len(queue') <= QueueCap
<1>1. /\ queue \in Seq(Messages) /\ Len(queue) \in Nat /\ QueueCap \in Nat
      /\ Len(queue) <= QueueCap /\ queue' = Removed(queue, i)
      /\ DOMAIN queue = 1 .. Len(queue)
  BY QueueAssumption, LenProperties DEF IInv, Types, Without, Removed
<1>r. PICK q : q = Removed(queue, i)
  OBVIOUS
<1>s. queue \in Seq(Messages)
  BY <1>1
<1>2. /\ queue' = q /\ queue' \in Seq(Messages) /\ Len(queue') = Len(queue) - 1
      /\ \A j \in DOMAIN queue' :
           Behind(i, j) \in DOMAIN queue \ {i} /\ queue'[j] = queue[Behind(i, j)]
      /\ \A k \in DOMAIN queue \ {i} :
           /\ Ahead(i, k) \in DOMAIN queue' /\ queue'[Ahead(i, k)] = queue[k]
           /\ Behind(i, Ahead(i, k)) = k
      /\ \A j, k \in DOMAIN queue \ {i} : j < k => Ahead(i, j) < Ahead(i, k)
      /\ \A j \in DOMAIN queue' : Ahead(i, Behind(i, j)) = j
  <2>1. queue' = q
    BY <1>1, <1>r
  <2>2. q \in Seq(Messages) /\ Len(q) = Len(queue) - 1
    BY <1>r, <1>s, RemovedIndices
  <2>3. \A j \in DOMAIN q : Behind(i, j) \in DOMAIN queue \ {i} /\ q[j] = queue[Behind(i, j)]
    BY <1>r, <1>s, RemovedIndices
  <2>4. \A k \in DOMAIN queue \ {i} :
          /\ Ahead(i, k) \in DOMAIN q /\ q[Ahead(i, k)] = queue[k]
          /\ Behind(i, Ahead(i, k)) = k
    BY <1>r, <1>s, RemovedIndices
  <2>5. \A j, k \in DOMAIN queue \ {i} : j < k => Ahead(i, j) < Ahead(i, k)
    BY <1>s, RemovedIndices
  <2>6. \A j \in DOMAIN q : Ahead(i, Behind(i, j)) = j
    BY <1>r, <1>s, RemovedIndices
  <2> QED
    BY <2>1, <2>2, <2>3, <2>4, <2>5, <2>6
<1>3. queue' \in Seq(Messages) /\ Len(queue') <= QueueCap
  BY <1>1, <1>2
<1>4. /\ \A j \in DOMAIN queue' : \A text, c : Asks(j, text, c)' <=> Asks(Behind(i, j), text, c)
      /\ \A k \in DOMAIN queue \ {i} : \A text, c : Asks(Ahead(i, k), text, c)' <=> Asks(k, text, c)
  BY <1>2 DEF Asks
<1>5. MembersOK'
  <2> SUFFICES ASSUME NEW c \in Members
               PROVE  /\ member'[c] = "add" => ~Joined(c)'
                      /\ member'[c] # "add" =>
                           Joined(c)' \/ \E j \in DOMAIN queue' : Asks(j, "add", c)'
    BY DEF MembersOK
  <2>1. member'[c] = "add" => ~Joined(c)'
    BY DEF IInv, MembersOK, RequestsOK
  <2>2. ASSUME member'[c] # "add", ~Joined(c)'
        PROVE  \E j \in DOMAIN queue' : Asks(j, "add", c)'
    <3>1. PICK k \in DOMAIN queue : Asks(k, "add", c) /\ k # i
      BY <2>2 DEF IInv, MembersOK
    <3> QED
      BY <1>2, <1>4, <3>1
  <2> QED
    BY <2>1, <2>2
<1>6. DeliveriesOK'
  <2> SUFFICES ASSUME NEW j \in DOMAIN queue', queue'[j].type # Server
               PROVE  /\ queue'[j].text = "foo" /\ queue'[j].from # queue'[j].type
                      /\ queue'[j].from \in Items(grps'[group[queue'[j].from]])
                      /\ queue'[j].type \in Items(grps'[group[queue'[j].from]])
    BY DEF DeliveriesOK, Joined
  <2>1. PICK k \in DOMAIN queue : queue'[j] = queue[k]
    BY <1>2
  <2>2. queue[k].from \in Members /\ group[queue[k].from] \in Groups
    <3>1. queue[k] \in Messages
      BY <1>1, ElementOfSeq
    <3> QED
      BY <3>1 DEF Messages, IInv, Types
  <2> QED
    BY <2>1, <2>2 DEF IInv, DeliveriesOK, Joined
<1>7. RequestsOK'
  <2> SUFFICES ASSUME NEW c \in Members, NEW j \in DOMAIN queue'
               PROVE  /\ Asks(j, "add", c)' =>
                           /\ member'[c] # "add" /\ ~Joined(c)'
                           /\ \A k \in DOMAIN queue' : Asks(k, "add", c)' => k = j
                      /\ Asks(j, "foo", c)' =>
                           \/ Joined(c)'
                           \/ \E k \in DOMAIN queue' : k < j /\ Asks(k, "add", c)'
    BY DEF RequestsOK
  <2>1. ASSUME Asks(j, "add", c)'
        PROVE  /\ member'[c] # "add" /\ ~Joined(c)'
               /\ \A k \in DOMAIN queue' : Asks(k, "add", c)' => k = j
    <3>1. Behind(i, j) \in DOMAIN queue \ {i} /\ Asks(Behind(i, j), "add", c)
      BY <1>2, <1>4, <2>1
    <3>2. /\ member[c] # "add" /\ ~Joined(c)
          /\ \A k \in DOMAIN queue : Asks(k, "add", c) => k = Behind(i, j)
      BY <3>1 DEF IInv, RequestsOK
    <3>3. ~Asks(i, "add", c)
      BY <3>1, <3>2
    <3>4. ASSUME NEW k \in DOMAIN queue', Asks(k, "add", c)' PROVE k = j
      <4>1. Behind(i, k) = Behind(i, j)
        BY <1>2, <1>4, <3>2, <3>4
      <4>2. Ahead(i, Behind(i, k)) = k /\ Ahead(i, Behind(i, j)) = j
        BY <1>2
      <4> QED
        BY <4>1, <4>2
    <3> QED
      BY <3>2, <3>3, <3>4
  <2>2. ASSUME Asks(j, "foo", c)', ~Joined(c)'
        PROVE  \E k \in DOMAIN queue' : k < j /\ Asks(k, "add", c)'
    <3>1. Behind(i, j) \in DOMAIN queue \ {i} /\ Asks(Behind(i, j), "foo", c)
      BY <1>2, <1>4, <2>2
    <3>2. PICK k \in DOMAIN queue : k < Behind(i, j) /\ Asks(k, "add", c)
      BY <2>2, <3>1 DEF IInv, RequestsOK
    <3>3. k # i
      BY <2>2, <3>2
    <3>4. Ahead(i, k) < Ahead(i, Behind(i, j)) /\ Ahead(i, Behind(i, j)) = j
      BY <1>2, <3>1, <3>2, <3>3
    <3> QED
      BY <1>2, <1>4, <3>2, <3>3, <3>4
  <2> QED
    BY <2>1, <2>2
<1> QED
  BY <1>3, <1>5, <1>6, <1>7

(* What msgsnd is called with.                                             *)
LEMMA MessageFields ==
  ASSUME NEW type \in Members \cup {Server}, NEW text \in {"add", "foo"}, NEW from \in Members
  PROVE  /\ Message(type, text, from) \in Messages
         /\ Message(type, text, from).type = type
         /\ Message(type, text, from).text = text
         /\ Message(type, text, from).from = from
BY DEF Message, Messages

(* Every step preserves the invariant.                                     *)
LEMMA IInvNext == IInv /\ [Next]_vars => IInv'
<1> SUFFICES ASSUME IInv, [Next]_vars PROVE IInv'
  OBVIOUS
<1>0. /\ queue \in Seq(Messages) /\ Len(queue) <= QueueCap
      /\ group \in [Members -> Groups]
      /\ member \in [Members -> {"add", "foo", "msgrcv"}]
      /\ grps \in [Groups -> Seq(Members)]
      /\ asking \in Members \cup {None}
      /\ Server \notin Members /\ None \notin Members
      /\ \A i \in DOMAIN queue : queue[i] \in Messages
  BY NamesAssumption, ElementOfSeq, LenProperties DEF IInv, Types
<1>1. ASSUME NEW c \in Members, Add(c) PROVE IInv'
  <2>m. PICK m : m = Message(Server, "add", c)
    OBVIOUS
  <2>1. m \in Messages /\ m.type = Server /\ m.text = "add" /\ m.from = c
    BY <2>m, MessageFields
  <2>2. /\ Msgsnd(m) /\ member[c] = "add" /\ member' = [member EXCEPT ![c] = "foo"]
        /\ UNCHANGED <<group, grps, asking, next>>
    BY <1>1, <2>m DEF Add
  <2>3. GroupsOK' /\ RequestsOK' /\ MembersOK' /\ DeliveriesOK'
        /\ queue' \in Seq(Messages) /\ Len(queue') <= QueueCap
    BY <1>0, <2>1, <2>2, Sent
  <2>4. LoopOK'
    BY <2>2 DEF IInv, LoopOK, Joined
  <2> QED
    BY <1>0, <2>2, <2>3, <2>4 DEF IInv, Types
<1>2. ASSUME NEW c \in Members, Foo(c) PROVE IInv'
  <2>m. PICK m : m = Message(Server, "foo", c)
    OBVIOUS
  <2>1. m \in Messages /\ m.type = Server /\ m.text = "foo" /\ m.from = c
    BY <2>m, MessageFields
  <2>2. /\ Msgsnd(m) /\ member[c] = "foo" /\ member' = [member EXCEPT ![c] = "msgrcv"]
        /\ UNCHANGED <<group, grps, asking, next>>
    BY <1>2, <2>m DEF Foo
  <2>3. GroupsOK' /\ RequestsOK' /\ MembersOK' /\ DeliveriesOK'
        /\ queue' \in Seq(Messages) /\ Len(queue') <= QueueCap
    BY <1>0, <2>1, <2>2, Sent
  <2>4. LoopOK'
    BY <2>2 DEF IInv, LoopOK, Joined
  <2> QED
    BY <1>0, <2>2, <2>3, <2>4 DEF IInv, Types
<1>3. ASSUME NEW c \in Members, Receive(c) PROVE IInv'
  <2>1. PICK i \in DOMAIN queue : queue[i].type = c /\ queue' = Without(queue, i)
    BY <1>3 DEF Receive, FirstOf
  <2>2. /\ member[c] = "msgrcv" /\ member' = [member EXCEPT ![c] = "foo"]
        /\ UNCHANGED <<group, grps, asking, next>>
    BY <1>3 DEF Receive
  <2>3. GroupsOK'
    BY <2>2 DEF IInv, GroupsOK
  <2>4. \A d \in Members : Joined(d)' <=> (Joined(d) \/ Asks(i, "add", d))
    BY <1>0, <2>1, <2>2 DEF Joined, Asks
  <2>5. RequestsOK' /\ MembersOK' /\ DeliveriesOK'
        /\ queue' \in Seq(Messages) /\ Len(queue') <= QueueCap
    BY <1>0, <2>1, <2>2, <2>3, <2>4, Taken
  <2>6. LoopOK'
    BY <2>2 DEF IInv, LoopOK, Joined
  <2> QED
    BY <1>0, <2>2, <2>3, <2>5, <2>6 DEF IInv, Types
<1>4. CASE Serve
  <2>1. PICK i \in DOMAIN queue :
          /\ FirstOf(i, Server) /\ queue' = Without(queue, i)
          /\ IF queue[i].text = "add"
             THEN /\ grps' = [grps EXCEPT ![group[queue[i].from]] = Append(@, queue[i].from)]
                  /\ UNCHANGED <<asking, next>>
             ELSE asking' = queue[i].from /\ next' = 1 /\ UNCHANGED grps
    BY <1>4 DEF Serve
  <2>2. asking = None /\ UNCHANGED <<group, member>>
    BY <1>4 DEF Serve
  <2>c. PICK c \in Members : c = queue[i].from
    BY <1>0 DEF Messages
  <2>3. queue[i].type = Server /\ queue[i].text \in {"add", "foo"}
        /\ Asks(i, queue[i].text, c)
    BY <1>0, <2>1, <2>c DEF FirstOf, Messages, Asks
  <2>4. CASE queue[i].text = "add"
    <3>g. PICK g \in Groups : g = group[c]
      BY <1>0
    <3>1. /\ Asks(i, "add", c) /\ ~Joined(c)
          /\ grps' = [grps EXCEPT ![g] = Append(grps[g], c)] /\ UNCHANGED <<asking, next>>
      BY <2>1, <2>3, <2>4, <2>c, <3>g DEF IInv, RequestsOK
    <3>2. /\ grps' \in [Groups -> Seq(Members)] /\ Distinct(grps'[g])
          /\ Items(grps'[g]) = Items(grps[g]) \cup {c}
          /\ \A h \in Groups : h # g => grps'[h] = grps[h]
      <4>1. grps[g] \in Seq(Members) /\ Distinct(grps[g]) /\ c \notin Items(grps[g])
        BY <1>0, <3>1, <3>g DEF IInv, GroupsOK, Joined
      <4>2. /\ Append(grps[g], c) \in Seq(Members) /\ Distinct(Append(grps[g], c))
            /\ Items(Append(grps[g], c)) = Items(grps[g]) \cup {c}
        BY <4>1, AppendProperties, ItemsAppend
      <4> QED
        BY <1>0, <3>1, <4>2
    <3>3. GroupsOK'
      BY <2>2, <3>2, <3>g DEF IInv, GroupsOK
    <3>4. \A d : Asks(i, "add", d) <=> d = c
      BY <3>1 DEF Asks
    <3>5. \A d \in Members : Joined(d)' <=> (Joined(d) \/ Asks(i, "add", d))
      BY <1>0, <2>2, <3>2, <3>4, <3>g DEF Joined
    <3>6. RequestsOK' /\ MembersOK' /\ DeliveriesOK'
          /\ queue' \in Seq(Messages) /\ Len(queue') <= QueueCap
      BY <2>1, <2>2, <3>2, <3>3, <3>5, Taken
    <3>7. LoopOK'
      BY <2>2, <3>1 DEF IInv, LoopOK
    <3> QED
      BY <1>0, <2>2, <3>1, <3>2, <3>3, <3>6, <3>7 DEF IInv, Types
  <2>5. CASE queue[i].text = "foo"
    <3>1. asking' = c /\ next' = 1 /\ UNCHANGED grps /\ Asks(i, "foo", c)
      BY <2>1, <2>3, <2>5, <2>c
    <3>2. Joined(c)
      <4>1. \A j \in DOMAIN queue : j < i => ~Asks(j, "add", c)
        BY <1>0, <2>1, LenProperties DEF FirstOf, Asks
      <4> QED
        BY <3>1, <4>1 DEF IInv, RequestsOK
    <3>3. GroupsOK'
      BY <2>2, <3>1 DEF IInv, GroupsOK
    <3>4. \A d \in Members : Joined(d)' <=> (Joined(d) \/ Asks(i, "add", d))
      BY <2>2, <2>5, <3>1 DEF Joined, Asks
    <3>5. RequestsOK' /\ MembersOK' /\ DeliveriesOK'
          /\ queue' \in Seq(Messages) /\ Len(queue') <= QueueCap
      BY <1>0, <2>1, <2>2, <3>1, <3>3, <3>4, Taken
    <3>6. LoopOK'
      <4>1. grps[group[c]] \in Seq(Members)
        BY <1>0
      <4>2. Len(grps[group[c]]) \in Nat
        BY <4>1, LenProperties
      <4> QED
        BY <1>0, <2>2, <3>1, <3>2, <4>2 DEF LoopOK, Joined
    <3> QED
      BY <1>0, <2>2, <3>1, <3>3, <3>5, <3>6 DEF IInv, Types
  <2> QED
    BY <2>3, <2>4, <2>5
<1>5. CASE PassOn
  <2>g. PICK s : s = grps[group[asking]]
    OBVIOUS
  <2>1. /\ asking # None /\ next \in DOMAIN s /\ next' = next + 1
        /\ UNCHANGED <<group, member, grps, asking>>
    BY <1>5, <2>g DEF PassOn
  <2>2. s \in Seq(Members) /\ DOMAIN s = 1 .. Len(s) /\ Len(s) \in Nat /\ s[next] \in Members
    BY <1>0, <2>1, <2>g, LenProperties, ElementOfSeq
  <2>3. LoopOK'
    BY <2>1, <2>2, <2>g DEF IInv, LoopOK, Joined
  <2>4. CASE s[next] = asking /\ UNCHANGED queue
    BY <1>0, <2>1, <2>3, <2>4 DEF IInv, Types, GroupsOK, RequestsOK, MembersOK, DeliveriesOK,
       Joined, Asks
  <2>5. CASE s[next] # asking /\ Msgsnd(Message(s[next], "foo", asking))
    <3>m. PICK m : m = Message(s[next], "foo", asking)
      OBVIOUS
    <3>1. m \in Messages /\ m.type = s[next] /\ m.text = "foo" /\ m.from = asking
      BY <1>0, <2>1, <2>2, <3>m, MessageFields
    <3>2. Joined(asking) /\ s[next] \in Items(s)
      BY <2>1 DEF IInv, LoopOK, Items
    <3>3. GroupsOK' /\ RequestsOK' /\ MembersOK' /\ DeliveriesOK'
          /\ queue' \in Seq(Messages) /\ Len(queue') <= QueueCap
      BY <1>0, <2>1, <2>2, <2>5, <2>g, <3>1, <3>2, <3>m, Sent
    <3> QED
      BY <1>0, <2>1, <2>3, <3>3 DEF IInv, Types
  <2> QED
    BY <1>5, <2>4, <2>5, <2>g DEF PassOn
<1>6. CASE PassedOn
  BY <1>0, <1>6 DEF PassedOn, IInv, Types, GroupsOK, RequestsOK, MembersOK, DeliveriesOK, LoopOK,
     Joined, Asks
<1>7. CASE UNCHANGED vars
  BY <1>7 DEF vars, IInv, Types, GroupsOK, RequestsOK, MembersOK, DeliveriesOK, LoopOK,
     Joined, Asks
<1> QED
  BY <1>1, <1>2, <1>3, <1>4, <1>5, <1>6, <1>7 DEF Next, ServerStep

(* The queue, the groups and the server's loop stay in their ranges: the   *)
(* loop never runs past the array of a group (server.c:34-51).             *)
THEOREM TypeCorrect == Spec => []TypeOK
BY IInvInit, IInvNext, TypeFollows, PTL DEF Spec

(* However the requests of any number of clients interleave in the queue,  *)
(* what is on its way to a client comes from another member of its group,  *)
(* and the server knows a client at most once (server.c:41-51).            *)
THEOREM DeliveriesInGroup == Spec => []DeliveredInGroup
BY IInvInit, IInvNext, DeliveredFollows, PTL DEF Spec

-----------------------------------------------------------------------------
(***************************************************************************)
(* Why nothing multiplies in groups of two: every "foo" in the queue, and  *)
(* the one the server still owes for what it is passing on, belongs to a   *)
(* client of its own that waits in msgrcv.                                 *)
(***************************************************************************)
Foos == {m \in Messages : m.text = "foo"}
Waiting == {c \in Members : member[c] = "msgrcv"}
Owes ==
  /\ asking # None
  /\ \E k \in DOMAIN grps[group[asking]] : k >= next /\ grps[group[asking]][k] # asking

TokensOK ==
  Pairs => HowMany(queue, Foos) + (IF Owes THEN 1 ELSE 0) <= Cardinality(Waiting)

(* A set of two does not hold three.                                       *)
LEMMA NoThird ==
  ASSUME NEW S, IsFiniteSet(S), Cardinality(S) <= 2, NEW a \in S, NEW b \in S, NEW c \in S
  PROVE  a = b \/ b = c \/ a = c
<1> SUFFICES ASSUME a # b, b # c, a # c PROVE FALSE
  OBVIOUS
<1>1. IsFiniteSet({a}) /\ Cardinality({a}) = 1
  BY FS_Singleton
<1>2. IsFiniteSet({a} \cup {b}) /\ Cardinality({a} \cup {b}) = 2
  <2>1. b \notin {a}
    OBVIOUS
  <2>2. IsFiniteSet({a} \cup {b}) /\ Cardinality({a} \cup {b}) = Cardinality({a}) + 1
    BY <1>1, <2>1, FS_AddElement, Zenon
  <2> QED
    BY <1>1, <2>2
<1>3. Cardinality(({a} \cup {b}) \cup {c}) = 3
  <2>1. c \notin {a} \cup {b}
    OBVIOUS
  <2>2. Cardinality(({a} \cup {b}) \cup {c}) = Cardinality({a} \cup {b}) + 1
    BY <1>2, <2>1, FS_AddElement, Zenon
  <2> QED
    BY <1>2, <2>2
<1>4. /\ Cardinality(({a} \cup {b}) \cup {c}) <= Cardinality(S)
      /\ Cardinality(S) \in Nat
  BY FS_Subset, FS_CardinalityType, ({a} \cup {b}) \cup {c} \subseteq S
<1> QED
  BY <1>3, <1>4

(* The clients in msgrcv are finitely many.                                *)
LEMMA WaitingFinite == IsFiniteSet(Waiting) /\ Cardinality(Waiting) \in Nat
<1>1. Waiting \subseteq Members
  BY DEF Waiting
<1> QED
  BY <1>1, FS_Subset, FS_CardinalityType, NamesAssumption

(* In a pair, the server that has passed a message on is done.             *)
LEMMA OwesNothing ==
  ASSUME IInv, Pairs, asking # None, next \in DOMAIN grps[group[asking]],
         grps[group[asking]][next] # asking, UNCHANGED <<group, grps, asking>>, next' = next + 1
  PROVE  ~Owes'
<1> SUFFICES ASSUME Owes' PROVE FALSE
  OBVIOUS
<1>1. asking \in Members /\ group \in [Members -> Groups] /\ grps \in [Groups -> Seq(Members)]
  BY DEF IInv, Types
<1>g. PICK g \in Groups : g = group[asking]
  BY <1>1
<1>s. PICK s \in Seq(Members) : s = grps[g]
  BY <1>1
<1>2. PICK k \in DOMAIN s : k >= next + 1 /\ s[k] # asking
  BY <1>g, <1>s DEF Owes
<1>3. DOMAIN s = 1 .. Len(s) /\ Len(s) \in Nat /\ next \in DOMAIN s
  BY <1>g, <1>s, LenProperties
<1>4. s[k] # s[next]
  BY <1>2, <1>3, <1>s DEF IInv, GroupsOK, Distinct
<1>5. {c \in Members : group[c] = g} \subseteq Members
  OBVIOUS
<1>6. IsFiniteSet({c \in Members : group[c] = g})
      /\ Cardinality({c \in Members : group[c] = g}) <= 2
  BY <1>5, FS_Subset, NamesAssumption DEF Pairs
<1>7. asking \in {c \in Members : group[c] = g} /\ s[k] \in {c \in Members : group[c] = g}
      /\ s[next] \in {c \in Members : group[c] = g}
  BY <1>1, <1>2, <1>3, <1>g, <1>s, ElementOfSeq DEF IInv, GroupsOK, Items
<1>8. s[next] # asking
  BY <1>g, <1>s
<1> QED
  <2>P. PICK P : P = {c \in Members : group[c] = g}
    OBVIOUS
  <2>1. IsFiniteSet(P) /\ Cardinality(P) <= 2 /\ asking \in P /\ s[k] \in P /\ s[next] \in P
    BY <1>6, <1>7, <2>P
  <2>2. asking = s[k] \/ s[k] = s[next] \/ asking = s[next]
    BY <2>1, NoThird
  <2> QED
    BY <1>2, <1>4, <1>8, <2>2

(* The invariant and the count hold initially.                             *)
LEMMA TokensInit == Init => TokensOK
<1> SUFFICES ASSUME Init PROVE TokensOK
  OBVIOUS
<1>1. queue \in Seq(Messages) /\ queue = <<>>
  BY IInvInit DEF IInv, Types, Init
<1>2. HowMany(queue, Foos) = 0 /\ ~Owes
  BY <1>1, CountType DEF Init, Owes
<1>3. Cardinality(Waiting) \in Nat
  BY WaitingFinite
<1> QED
  BY <1>2, <1>3 DEF TokensOK

(* Every step preserves the count.                                         *)
LEMMA TokensNext == IInv /\ TokensOK /\ [Next]_vars => TokensOK'
<1> SUFFICES ASSUME IInv, TokensOK, [Next]_vars, Pairs' PROVE TokensOK'
  BY DEF TokensOK
<1>0. /\ queue \in Seq(Messages) /\ group \in [Members -> Groups]
      /\ member \in [Members -> {"add", "foo", "msgrcv"}]
      /\ grps \in [Groups -> Seq(Members)]
      /\ asking \in Members \cup {None} /\ None \notin Members
      /\ \A i \in DOMAIN queue : queue[i] \in Messages
  BY NamesAssumption, ElementOfSeq, LenProperties DEF IInv, Types
<1>1. group' = group
  BY DEF Next, ServerStep, Add, Foo, Receive, Serve, PassOn, PassedOn, vars
<1>2. Pairs
  BY <1>1 DEF Pairs
<1>h. PICK h : h = HowMany(queue, Foos)
  OBVIOUS
<1>w. PICK w : w = Cardinality(Waiting)
  OBVIOUS
<1>3. h \in Nat /\ w \in Nat /\ h + (IF Owes THEN 1 ELSE 0) <= w
  BY <1>0, <1>2, <1>h, <1>w, CountType, WaitingFinite DEF TokensOK
<1>4. \A m \in Messages : Msgsnd(m) =>
        HowMany(queue', Foos) = h + (IF m.text = "foo" THEN 1 ELSE 0)
  BY <1>0, <1>h, CountAppend DEF Msgsnd, Foos
<1>5. \A i \in DOMAIN queue : queue' = Without(queue, i) =>
        HowMany(queue', Foos) = h - (IF queue[i].text = "foo" THEN 1 ELSE 0)
  <2> SUFFICES ASSUME NEW i \in DOMAIN queue, queue' = Without(queue, i)
               PROVE  HowMany(queue', Foos) = h - (IF queue[i].text = "foo" THEN 1 ELSE 0)
    OBVIOUS
  <2>1. queue' = Removed(queue, i)
    BY DEF Without, Removed
  <2>2. queue[i] \in Foos <=> queue[i].text = "foo"
    BY <1>0 DEF Foos
  <2> QED
    BY <1>0, <1>h, <2>1, <2>2, CountRemoved
<1>6. UNCHANGED member => Cardinality(Waiting') = w
  BY <1>w DEF Waiting
<1>7. UNCHANGED <<grps, asking, next>> => (Owes' <=> Owes)
  BY <1>1 DEF Owes
<1>8. ASSUME NEW a \in Nat, HowMany(queue', Foos) = a,
             a + (IF Owes' THEN 1 ELSE 0) <= Cardinality(Waiting')
      PROVE  TokensOK'
  BY <1>8 DEF TokensOK
<1>9. ASSUME NEW c \in Members, Add(c) PROVE TokensOK'
  <2>1. Message(Server, "add", c) \in Messages /\ Message(Server, "add", c).text = "add"
    BY MessageFields
  <2>2. HowMany(queue', Foos) = h /\ (Owes' <=> Owes)
    BY <1>3, <1>4, <1>7, <1>9, <2>1 DEF Add
  <2>3. Waiting' = Waiting
    BY <1>0, <1>9 DEF Add, Waiting
  <2> QED
    BY <1>3, <1>8, <1>w, <2>2, <2>3
<1>10. ASSUME NEW c \in Members, Foo(c) PROVE TokensOK'
  <2>1. Message(Server, "foo", c) \in Messages /\ Message(Server, "foo", c).text = "foo"
    BY MessageFields
  <2>2. HowMany(queue', Foos) = h + 1 /\ (Owes' <=> Owes)
    BY <1>3, <1>4, <1>7, <1>10, <2>1 DEF Foo
  <2>3. Waiting' = Waiting \cup {c} /\ c \notin Waiting
    BY <1>0, <1>10 DEF Foo, Waiting
  <2>4. Cardinality(Waiting') = w + 1
    BY <1>w, <2>3, FS_AddElement, WaitingFinite
  <2> QED
    BY <1>3, <1>8, <2>2, <2>4
<1>11. ASSUME NEW c \in Members, Receive(c) PROVE TokensOK'
  <2>1. PICK i \in DOMAIN queue : queue[i].type = c /\ queue' = Without(queue, i)
    BY <1>11 DEF Receive, FirstOf
  <2>2. queue[i].text = "foo"
    BY <2>1, NamesAssumption DEF IInv, DeliveriesOK
  <2>3. HowMany(queue', Foos) = h - 1 /\ (Owes' <=> Owes)
    BY <1>5, <1>7, <1>11, <2>1, <2>2 DEF Receive
  <2>4. Waiting' = Waiting \ {c} /\ c \in Waiting
    BY <1>0, <1>11 DEF Receive, Waiting
  <2>5. Cardinality(Waiting') = w - 1
    BY <1>w, <2>4, FS_RemoveElement, WaitingFinite
  <2>6. h - 1 \in Nat
    <3>1. i \in IndicesOf(queue, Foos)
      BY <1>0, <2>2 DEF IndicesOf, Foos
    <3>2. IndicesOf(queue, Foos) # {} /\ IsFiniteSet(IndicesOf(queue, Foos))
      BY <1>0, <3>1, CountType
    <3>3. h # 0
      BY <1>h, <3>2, FS_EmptySet DEF HowMany
    <3> QED
      BY <1>3, <3>3
  <2> QED
    BY <1>3, <1>8, <2>3, <2>5, <2>6
<1>12. CASE Serve
  <2>1. PICK i \in DOMAIN queue :
          /\ queue' = Without(queue, i)
          /\ IF queue[i].text = "add" THEN UNCHANGED <<asking, next>>
             ELSE asking' = queue[i].from /\ next' = 1 /\ UNCHANGED grps
    BY <1>12 DEF Serve
  <2>2. asking = None /\ UNCHANGED member /\ ~Owes /\ queue[i].text \in {"add", "foo"}
    BY <1>0, <1>12 DEF Serve, Owes, Messages
  <2>3. CASE queue[i].text = "add"
    <3>1. HowMany(queue', Foos) = h /\ ~Owes'
      BY <1>3, <1>5, <2>1, <2>2, <2>3 DEF Owes
    <3> QED
      BY <1>3, <1>6, <1>8, <2>2, <3>1
  <2>4. CASE queue[i].text = "foo"
    <3>1. HowMany(queue', Foos) = h - 1
      BY <1>5, <2>1, <2>4
    <3>2. h - 1 \in Nat
      <4>1. i \in IndicesOf(queue, Foos)
        BY <1>0, <2>4 DEF IndicesOf, Foos
      <4>2. IndicesOf(queue, Foos) # {} /\ IsFiniteSet(IndicesOf(queue, Foos))
        BY <1>0, <4>1, CountType
      <4>3. h # 0
        BY <1>h, <4>2, FS_EmptySet DEF HowMany
      <4> QED
        BY <1>3, <4>3
    <3> QED
      BY <1>3, <1>6, <1>8, <2>2, <3>1, <3>2
  <2> QED
    BY <2>2, <2>3, <2>4
<1>13. CASE PassOn
  <2>1. /\ asking # None /\ next \in DOMAIN grps[group[asking]] /\ next' = next + 1
        /\ UNCHANGED <<group, member, grps, asking>>
    BY <1>13 DEF PassOn
  <2>g. PICK s \in Seq(Members) : s = grps[group[asking]]
    BY <1>0, <2>1
  <2>2. DOMAIN s = 1 .. Len(s) /\ Len(s) \in Nat /\ next \in DOMAIN s /\ s[next] \in Members
    BY <2>1, <2>g, LenProperties, ElementOfSeq
  <2>3. CASE s[next] = asking /\ UNCHANGED queue
    <3>1. Owes' => Owes
      BY <2>1, <2>2, <2>g DEF Owes
    <3>2. HowMany(queue', Foos) = h
      BY <1>h, <2>3
    <3> QED
      BY <1>3, <1>6, <1>8, <2>1, <3>1, <3>2
  <2>4. CASE s[next] # asking /\ Msgsnd(Message(s[next], "foo", asking))
    <3>1. Message(s[next], "foo", asking) \in Messages
          /\ Message(s[next], "foo", asking).text = "foo"
      BY <1>0, <2>1, <2>2, MessageFields
    <3>2. HowMany(queue', Foos) = h + 1
      BY <1>3, <1>4, <2>4, <3>1
    <3>3. Owes
      BY <2>1, <2>2, <2>4, <2>g DEF Owes
    <3>4. ~Owes'
      BY <1>2, <2>1, <2>4, <2>g, OwesNothing
    <3> QED
      BY <1>3, <1>6, <1>8, <2>1, <3>2, <3>3, <3>4
  <2> QED
    BY <1>13, <2>3, <2>4, <2>g DEF PassOn
<1>14. CASE PassedOn
  <2>1. HowMany(queue', Foos) = h /\ ~Owes' /\ UNCHANGED member
    BY <1>14, <1>h DEF PassedOn, Owes
  <2> QED
    BY <1>3, <1>6, <1>8, <2>1
<1>15. CASE UNCHANGED vars
  BY <1>3, <1>6, <1>7, <1>8, <1>15, <1>h DEF vars
<1> QED
  BY <1>9, <1>10, <1>11, <1>12, <1>13, <1>14, <1>15 DEF Next, ServerStep

(* The count implies what the runs check.                                  *)
LEMMA OneEachFollows == IInv /\ TokensOK => OneEach
<1> SUFFICES ASSUME IInv, TokensOK, Pairs
             PROVE  Cardinality({i \in DOMAIN queue : queue[i].text = "foo"})
                      <= Cardinality(Members)
  BY DEF OneEach
<1>1. queue \in Seq(Messages) /\ \A i \in DOMAIN queue : queue[i] \in Messages
  BY ElementOfSeq, LenProperties DEF IInv, Types
<1>2. {i \in DOMAIN queue : queue[i].text = "foo"} = IndicesOf(queue, Foos)
  BY <1>1 DEF IndicesOf, Foos
<1>3. HowMany(queue, Foos) \in Nat
  BY <1>1, CountType
<1>4. Waiting \subseteq Members
  BY DEF Waiting
<1>5. Cardinality(Waiting) <= Cardinality(Members) /\ Cardinality(Members) \in Nat
      /\ Cardinality(Waiting) \in Nat
  BY <1>4, FS_Subset, FS_CardinalityType, NamesAssumption
<1> QED
  BY <1>2, <1>3, <1>5 DEF TokensOK, HowMany

(* While no group has more than two clients there is never more than one   *)
(* "foo" in the queue for each client, however many pairs there are and    *)
(* however their requests and deliveries interleave (server.c:44-51).      *)
THEOREM NothingMultiplies == Spec => []OneEach
<1>1. Init => IInv /\ TokensOK
  BY IInvInit, TokensInit
<1>2. IInv /\ TokensOK /\ [Next]_vars => (IInv /\ TokensOK)'
  BY IInvNext, TokensNext
<1>3. IInv /\ TokensOK => OneEach
  BY OneEachFollows
<1> QED
  BY <1>1, <1>2, <1>3, PTL DEF Spec

-----------------------------------------------------------------------------
(***************************************************************************)
(* ChatSession                                                             *)
(***************************************************************************)

(* Where main is when the session has a reader, and a writer.              *)
ReaderHere == pc \in {"create2", "setgod", "join1"}
WriterHere == pc \in {"setgod", "join1", "join2"}

(* The ids of the session name its two threads, and no other thread runs.  *)
ThreadsOK ==
  /\ ReaderHere => tid1 \in Ids /\ thread[tid1] \in {"recv", "flag", "kill", "over"}
  /\ WriterHere => tid2 \in Ids /\ thread[tid2] \in {"write", "over"}
  /\ ReaderHere /\ WriterHere => tid1 # tid2
  /\ \A i \in Ids : thread[i] # "free" => \/ ReaderHere /\ i = tid1
                                          \/ WriterHere /\ i = tid2

(* flag is set when the reader is about to send the signal, and stays so.  *)
FlagOK ==
  /\ ReaderHere => (flag = 0 <=> thread[tid1] \in {"recv", "flag"})
  /\ pc = "join2" => flag = 1
  /\ pc \in {"accept", "create1"} => flag = 0

(* One signal for each session, sent by the last step of its reader; the   *)
(* writer is over only because the handler has cancelled it.               *)
SignalOK ==
  /\ pending \/ cancelled # {} =>
       pc = "join2" \/ (ReaderHere /\ thread[tid1] = "over")
  /\ pending => cancelled = {}
  /\ \A i \in cancelled : thread[i] # "free"
  /\ WriterHere /\ thread[tid2] = "over" => tid2 \in cancelled

(* What is left to receive holds no "@" unless the client has sent one, and *)
(* a reader that has found one found it there or in an unfilled buff.      *)
SaidOK ==
  /\ \A i \in 1 .. Len(inbox) : inbox[i] = "@" => atSent
  /\ ReaderHere /\ (buff = "@" \/ thread[tid1] # "recv") => atSent \/ garbage
  /\ pc = "join2" => atSent \/ garbage

Sound == ThreadsOK /\ FlagOK /\ SignalOK

SessionOK == Sound /\ SaidOK

(* A dead process keeps what its last step before left.                    *)
SessionIInv == SessionTypeOK /\ CancelledAfterAt /\ (pc # "died" => SessionOK)

-----------------------------------------------------------------------------
(* Only writers are "write", so in a session the cancelled are as wanted.  *)
LEMMA Follows ==
  SessionTypeOK /\ pc # "died" /\ SessionOK => CancelledAfterAt /\ SessionsSeparate
<1> SUFFICES ASSUME SessionTypeOK, pc # "died", SessionOK
             PROVE  CancelledAfterAt /\ SessionsSeparate
  OBVIOUS
<1>1. cancelled \subseteq Ids /\ flag \in {0, 1}
      /\ pc \in {"accept", "create1", "create2", "setgod", "join1", "join2", "close"}
  BY DEF SessionTypeOK
<1>2. CancelledAfterAt
  BY <1>1 DEF CancelledAfterAt, SessionOK, ThreadsOK, FlagOK, SignalOK, SaidOK, Sound, ReaderHere, WriterHere
<1>3. SessionsSeparate
  BY <1>1 DEF SessionsSeparate, SessionOK, Sound, ThreadsOK, FlagOK, SignalOK, ReaderHere, WriterHere
<1> QED
  BY <1>2, <1>3

(* The invariant holds initially.                                          *)
LEMMA SessionIInvInit == SessionInit => SessionIInv
<1> SUFFICES ASSUME SessionInit PROVE SessionIInv
  OBVIOUS
<1>1. inbox \in Seq({"text", "@"}) /\ 0 \in 0 .. MaxSessions
  BY EmptySeq, IdsAssumption DEF SessionInit
<1>2. SessionTypeOK
  BY <1>1 DEF SessionInit, SessionTypeOK
<1>3. SaidOK
  BY DEF SessionInit, SaidOK, ReaderHere
<1>4. SessionOK
  BY <1>3 DEF SessionInit, SessionOK, Sound, ThreadsOK, FlagOK, SignalOK, ReaderHere, WriterHere
<1>5. CancelledAfterAt
  BY DEF SessionInit, CancelledAfterAt
<1> QED
  BY <1>2, <1>4, <1>5 DEF SessionIInv

(* What a recv leaves of the inbox.                                        *)
LEMMA Cut ==
  ASSUME inbox \in Seq({"text", "@"}), NEW n \in 1 .. Len(inbox)
  PROVE  LET rest == SubSeq(inbox, n + 1, Len(inbox))
         IN  /\ inbox[1] \in {"text", "@"} /\ 1 \in 1 .. Len(inbox)
             /\ rest \in Seq({"text", "@"})
             /\ \A i \in 1 .. Len(rest) : \E k \in 1 .. Len(inbox) : rest[i] = inbox[k]
<1> DEFINE rest == SubSeq(inbox, n + 1, Len(inbox))
<1>1. Len(inbox) \in Nat /\ n \in Nat /\ 1 \in 1 .. Len(inbox)
  BY LenProperties
<1>2. \A k \in 1 .. Len(inbox) : inbox[k] \in {"text", "@"}
  BY ElementOfSeq, LenProperties
<1>3. /\ rest \in Seq({"text", "@"})
      /\ Len(rest) = IF n + 1 <= Len(inbox) THEN Len(inbox) - n ELSE 0
      /\ \A i \in 1 .. Len(rest) : rest[i] = inbox[n + i]
  BY <1>1, <1>2, SubSeqProperties
<1>4. \A i \in 1 .. Len(rest) : n + i \in 1 .. Len(inbox)
  BY <1>1, <1>3
<1> QED
  BY <1>1, <1>2, <1>3, <1>4

(* The types are kept by every step.                                       *)
LEMMA SessionTypeNext == SessionTypeOK /\ [SessionNext]_sessionVars => SessionTypeOK'
<1> SUFFICES ASSUME SessionTypeOK, [SessionNext]_sessionVars PROVE SessionTypeOK'
  OBVIOUS
<1> USE DEF SessionTypeOK
<1>0. \A n \in 1 .. Len(inbox) : /\ inbox[1] \in {"text", "@"}
                                 /\ SubSeq(inbox, n + 1, Len(inbox)) \in Seq({"text", "@"})
  BY Cut
<1>1. CASE ClientSend
  <2>1. PICK m \in {"text", "@"} : inbox' = Append(inbox, m)
    BY <1>1 DEF ClientSend
  <2>2. inbox' \in Seq({"text", "@"})
    BY <2>1, AppendProperties
  <2> QED
    BY <1>1, <2>2 DEF ClientSend
<1>2. CASE ClientClose
  BY <1>2 DEF ClientClose, said
<1>3. CASE Accept
  <2>1. inbox' \in Seq({"text", "@"})
    BY <1>3, EmptySeq DEF Accept
  <2>2. sessions' \in 0 .. MaxSessions
    BY <1>3, IdsAssumption DEF Accept
  <2> QED
    BY <1>3, <2>1, <2>2 DEF Accept, Goto
<1>4. CASE Create1
  BY <1>4 DEF Create1, Goto, client, said
<1>5. CASE Create2
  BY <1>5 DEF Create2, Goto, client, said
<1>6. CASE SetGod
  BY <1>6 DEF SetGod, Goto, client, said
<1>7. CASE Join1
  BY <1>7 DEF Join1, Join, Goto, client, said
<1>8. CASE Join2
  BY <1>8 DEF Join2, Join, Goto, client, said
<1>9. CASE Close
  BY <1>9 DEF Close, Goto, client, said
<1>10. CASE SigUsr
  BY <1>10 DEF SigUsr, Goto, client, said
<1>11. ASSUME NEW i \in Ids, Recv(i) PROVE SessionTypeOK'
  BY <1>0, <1>11 DEF Recv
<1>12. ASSUME NEW i \in Ids, SetFlag(i) PROVE SessionTypeOK'
  BY <1>12 DEF SetFlag, client, said
<1>13. ASSUME NEW i \in Ids, Kill(i) PROVE SessionTypeOK'
  BY <1>13 DEF Kill, client, said
<1>14. ASSUME NEW i \in Ids, ActOnCancel(i) PROVE SessionTypeOK'
  BY <1>14 DEF ActOnCancel, client, said
<1>15. ASSUME NEW i \in Ids, SendToClosed(i) PROVE SessionTypeOK'
  BY <1>15 DEF SendToClosed, Goto, client, said
<1>16. CASE UNCHANGED sessionVars
  BY <1>16 DEF sessionVars, client, said
<1> QED
  BY <1>1, <1>2, <1>3, <1>4, <1>5, <1>6, <1>7, <1>8, <1>9, <1>10, <1>11, <1>12, <1>13, <1>14, <1>15, <1>16
     DEF SessionNext, MainStep, ThreadStep

(* Every step of a living process keeps its session in order.              *)
LEMMA SoundNext ==
  ASSUME SessionTypeOK, SessionOK, [SessionNext]_sessionVars, pc # "died", pc' # "died"
  PROVE  Sound'
<1>0. /\ thread \in [Ids -> {"free", "recv", "flag", "kill", "write", "over"}]
      /\ cancelled \subseteq Ids /\ flag \in {0, 1} /\ pending \in BOOLEAN
      /\ pc \in {"accept", "create1", "create2", "setgod", "join1", "join2", "close"}
  BY DEF SessionTypeOK
<1>1. CASE UNCHANGED <<pc, sessions, tid1, tid2, flag, thread, cancelled, pending>>
  BY <1>1 DEF SessionOK, Sound, ThreadsOK, FlagOK, SignalOK, ReaderHere, WriterHere
<1>2. CASE Accept
  BY <1>0, <1>2 DEF Accept, At, Goto, SessionOK, Sound, ThreadsOK, FlagOK, SignalOK,
     ReaderHere, WriterHere
<1>3. CASE Create1
  BY <1>0, <1>3 DEF Create1, At, Goto, SessionOK, Sound, ThreadsOK, FlagOK, SignalOK,
     ReaderHere, WriterHere
<1>4. CASE Create2
  BY <1>0, <1>4 DEF Create2, At, Goto, SessionOK, Sound, ThreadsOK, FlagOK, SignalOK,
     ReaderHere, WriterHere
<1>5. CASE SetGod
  BY <1>0, <1>5 DEF SetGod, At, Goto, SessionOK, Sound, ThreadsOK, FlagOK, SignalOK,
     ReaderHere, WriterHere
<1>6. CASE Join1
  BY <1>0, <1>6 DEF Join1, Join, At, Goto, SessionOK, Sound, ThreadsOK, FlagOK, SignalOK,
     ReaderHere, WriterHere
<1>7. CASE Join2
  BY <1>0, <1>7 DEF Join2, Join, At, Goto, SessionOK, Sound, ThreadsOK, FlagOK, SignalOK,
     ReaderHere, WriterHere
<1>8. CASE Close
  BY <1>0, <1>8 DEF Close, At, Goto, SessionOK, Sound, ThreadsOK, FlagOK, SignalOK,
     ReaderHere, WriterHere
<1>9. CASE SigUsr
  BY <1>0, <1>9 DEF SigUsr, At, Goto, SessionOK, Sound, ThreadsOK, FlagOK, SignalOK,
     ReaderHere, WriterHere
<1>10. ASSUME NEW i \in Ids, Recv(i) PROVE Sound'
  BY <1>0, <1>10 DEF Recv, SessionOK, Sound, ThreadsOK, FlagOK, SignalOK, ReaderHere, WriterHere
<1>11. ASSUME NEW i \in Ids, SetFlag(i) PROVE Sound'
  BY <1>0, <1>11 DEF SetFlag, SessionOK, Sound, ThreadsOK, FlagOK, SignalOK, ReaderHere, WriterHere
<1>12. ASSUME NEW i \in Ids, Kill(i) PROVE Sound'
  BY <1>0, <1>12 DEF Kill, SessionOK, Sound, ThreadsOK, FlagOK, SignalOK, ReaderHere, WriterHere
<1>13. ASSUME NEW i \in Ids, ActOnCancel(i) PROVE Sound'
  BY <1>0, <1>13 DEF ActOnCancel, SessionOK, Sound, ThreadsOK, FlagOK, SignalOK, ReaderHere, WriterHere
<1>14. ASSUME NEW i \in Ids, SendToClosed(i) PROVE FALSE
  BY <1>14 DEF SendToClosed, Goto
<1> QED
  BY <1>1, <1>2, <1>3, <1>4, <1>5, <1>6, <1>7, <1>8, <1>9, <1>10, <1>11, <1>12, <1>13, <1>14
     DEF SessionNext, MainStep, ThreadStep, ClientSend, ClientClose, sessionVars

(* And what its reader looks at is its own client's, or nobody's.          *)
LEMMA SaidNext ==
  ASSUME SessionTypeOK, SessionOK, [SessionNext]_sessionVars, pc # "died", pc' # "died"
  PROVE  SaidOK'
<1>0. /\ thread \in [Ids -> {"free", "recv", "flag", "kill", "write", "over"}]
      /\ inbox \in Seq({"text", "@"}) /\ atSent \in BOOLEAN /\ garbage \in BOOLEAN
      /\ pc \in {"accept", "create1", "create2", "setgod", "join1", "join2", "close"}
  BY DEF SessionTypeOK
<1>i. ThreadsOK /\ SignalOK /\ SaidOK
  BY DEF SessionOK, Sound
<1> USE DEF client, said
<1>1. CASE UNCHANGED <<pc, tid1, thread, inbox, buff, atSent, garbage>>
  BY <1>i, <1>1 DEF SaidOK, ReaderHere
<1>2. CASE ClientSend
  <2>1. PICK m \in {"text", "@"} : inbox' = Append(inbox, m) /\ atSent' = (atSent \/ m = "@")
    BY <1>2 DEF ClientSend
  <2>2. \A i \in 1 .. Len(inbox') : inbox'[i] = "@" => atSent'
    <3>1. /\ Len(inbox) \in Nat /\ Len(inbox') = Len(inbox) + 1
          /\ \A i \in 1 .. Len(inbox) : inbox'[i] = inbox[i]
          /\ inbox'[Len(inbox) + 1] = m
      BY <1>0, <2>1, AppendProperties, LenProperties
    <3> SUFFICES ASSUME NEW i \in 1 .. Len(inbox'), inbox'[i] = "@" PROVE atSent'
      OBVIOUS
    <3>2. i \in 1 .. Len(inbox) \/ i = Len(inbox) + 1
      BY <3>1
    <3> QED
      BY <1>i, <2>1, <3>1, <3>2 DEF SaidOK
  <2>3. UNCHANGED <<pc, tid1, thread, buff, garbage>> /\ (atSent => atSent')
    BY <1>2, <2>1 DEF ClientSend
  <2> QED
    BY <1>i, <2>2, <2>3 DEF SaidOK, ReaderHere
<1>3. CASE Accept
  <2>1. inbox' = <<>> /\ pc' = "create1"
    BY <1>3 DEF Accept, Goto
  <2> QED
    BY <2>1 DEF SaidOK, ReaderHere
<1>4. CASE Create1
  BY <1>0, <1>i, <1>4 DEF Create1, At, Goto, SaidOK, ReaderHere
<1>5. CASE Create2
  BY <1>0, <1>i, <1>5 DEF Create2, At, Goto, SaidOK, ThreadsOK, ReaderHere
<1>6. CASE SetGod
  BY <1>0, <1>i, <1>6 DEF SetGod, At, Goto, SaidOK, ReaderHere
<1>7. CASE Join1
  BY <1>0, <1>i, <1>7 DEF Join1, Join, At, Goto, SaidOK, ReaderHere
<1>8. CASE Join2
  BY <1>0, <1>i, <1>8 DEF Join2, Join, At, Goto, SaidOK, ReaderHere
<1>9. CASE Close
  BY <1>0, <1>i, <1>9 DEF Close, At, Goto, SaidOK, ReaderHere
<1>10. CASE SigUsr
  BY <1>0, <1>i, <1>10 DEF SigUsr, Goto, SaidOK, ReaderHere
<1>11. ASSUME NEW i \in Ids, Recv(i) PROVE SaidOK'
  <2>1. ReaderHere /\ i = tid1 /\ UNCHANGED <<pc, tid1, atSent>>
    BY <1>0, <1>i, <1>11 DEF Recv, ThreadsOK, ReaderHere, WriterHere
  <2>2. thread'[tid1] # "recv" => buff' = "@"
    BY <1>0, <1>11, <2>1 DEF Recv
  <2>3. CASE \E n \in 1 .. Len(inbox) :
               /\ buff' = inbox[1] /\ inbox' = SubSeq(inbox, n + 1, Len(inbox))
               /\ UNCHANGED garbage
    <3>1. /\ 1 \in 1 .. Len(inbox) /\ buff' = inbox[1]
          /\ \A k \in 1 .. Len(inbox') : \E l \in 1 .. Len(inbox) : inbox'[k] = inbox[l]
      BY <1>0, <2>3, Cut
    <3>2. \A k \in 1 .. Len(inbox') : inbox'[k] = "@" => atSent'
      BY <1>i, <2>1, <3>1 DEF SaidOK
    <3>3. buff' = "@" => atSent'
      BY <1>i, <2>1, <3>1 DEF SaidOK
    <3> QED
      BY <1>i, <2>1, <2>2, <3>2, <3>3 DEF SaidOK, ReaderHere
  <2>4. CASE /\ inbox' = inbox /\ buff' \in IF buff = "unset" THEN {"text", "@"} ELSE {buff}
             /\ garbage' = (garbage \/ buff = "unset")
    <3>1. buff' = "@" => atSent' \/ garbage'
      BY <1>i, <2>1, <2>4 DEF SaidOK
    <3> QED
      BY <1>i, <2>1, <2>2, <2>4, <3>1 DEF SaidOK, ReaderHere
  <2> QED
    BY <1>11, <2>3, <2>4 DEF Recv
<1>12. ASSUME NEW i \in Ids, SetFlag(i) \/ Kill(i) \/ ActOnCancel(i) PROVE SaidOK'
  <2>1. /\ UNCHANGED <<pc, tid1, inbox, buff, atSent, garbage>>
        /\ ReaderHere /\ thread[tid1] = "recv" => thread'[tid1] = "recv"
    BY <1>0, <1>i, <1>12 DEF SetFlag, Kill, ActOnCancel, ThreadsOK, SignalOK, ReaderHere, WriterHere
  <2> QED
    BY <1>i, <2>1 DEF SaidOK, ReaderHere
<1>14. ASSUME NEW i \in Ids, SendToClosed(i) PROVE FALSE
  BY <1>14 DEF SendToClosed, Goto
<1> QED
  BY <1>1, <1>2, <1>3, <1>4, <1>5, <1>6, <1>7, <1>8, <1>9, <1>10, <1>11, <1>12, <1>14
     DEF SessionNext, MainStep, ThreadStep, ClientClose, sessionVars

(* A signal that ends the process leaves the rest as it was.               *)
LEMMA DyingNext ==
  ASSUME SessionTypeOK, CancelledAfterAt, [SessionNext]_sessionVars, pc # "died", pc' = "died"
  PROVE  CancelledAfterAt'
<1>1. UNCHANGED <<cancelled, flag, thread, tid2, atSent, garbage>>
  BY DEF said, SessionNext, MainStep, ThreadStep, ClientSend, ClientClose, Accept, Create1, Create2, SetGod,
     Join1, Join2, Close, SigUsr, Recv, SetFlag, Kill, ActOnCancel, SendToClosed, At, Goto, sessionVars
<1> QED
  BY <1>1 DEF CancelledAfterAt

(* Every step preserves the invariant.                                     *)
LEMMA SessionIInvNext == SessionIInv /\ [SessionNext]_sessionVars => SessionIInv'
<1> SUFFICES ASSUME SessionIInv, [SessionNext]_sessionVars PROVE SessionIInv'
  OBVIOUS
<1>1. SessionTypeOK'
  BY SessionTypeNext DEF SessionIInv
<1>2. CASE pc = "died"
  BY <1>1, <1>2 DEF SessionIInv, CancelledAfterAt, SessionNext, sessionVars, said
<1>3. CASE pc # "died" /\ pc' = "died"
  BY <1>1, <1>3, DyingNext DEF SessionIInv
<1>4. CASE pc # "died" /\ pc' # "died"
  <2>1. SessionOK'
    BY <1>4, SoundNext, SaidNext DEF SessionIInv, SessionOK
  <2>2. CancelledAfterAt'
    <3>1. (SessionTypeOK /\ pc # "died" /\ SessionOK)'
      BY <1>1, <1>4, <2>1
    <3> QED
      BY <3>1, Follows, PTL
  <2> QED
    BY <1>1, <2>1, <2>2 DEF SessionIInv
<1> QED
  BY <1>2, <1>3, <1>4

(* The ids, the flag and the threads stay in their ranges.                 *)
THEOREM SessionTypeCorrect == SessionSpec => []SessionTypeOK
BY SessionIInvInit, SessionIInvNext, PTL DEF SessionSpec, SessionIInv

(* When main accepts, no thread, no signal and no cancellation of an       *)
(* earlier session is left, however often pthread_t values are used again  *)
(* and whenever the handler ran (server2.c:71-84).                         *)
THEOREM SessionsStayApart == SessionSpec => []SessionsSeparate
<1>1. SessionIInv => SessionsSeparate
  BY Follows DEF SessionIInv, SessionsSeparate
<1> QED
  BY <1>1, SessionIInvInit, SessionIInvNext, PTL DEF SessionSpec

(* Nobody is cancelled unless the client of this very session has sent an  *)
(* "@", or closed before its reader had received anything, and no writer   *)
(* but this session's is, although the handler may run with the id of an   *)
(* earlier session in tidgod (server2.c:6-8, 20-28).                       *)
THEOREM OnlyAfterAt == SessionSpec => []CancelledAfterAt
BY SessionIInvInit, SessionIInvNext, PTL DEF SessionSpec, SessionIInv
=============================================================================
