# CN-Programs: models and proofs

The repository is a collection of small C programs on sockets, pipes, FIFOs,
System V message queues, signals and threads. It has no documentation and no
tests. Each directory is a system of its own, and no directory calls another:
there is nothing to compose across them.

All fifteen systems are modelled.  The larger ones have a module each; the small
ones share two, in which the initial state chooses the system: `ProcessNet` for
programs that only read, write, fork and wait, and `ConnectionServers` for the
servers that hand each connection to somebody.  Every invariant that a passing
run checks, and the refinement, is proved for all sizes; the liveness properties
are model-checked.

## 1. Inventory

| system | state | operations | interaction | what is hard | what makes it correct |
|---|---|---|---|---|---|
| **super server** `mids/super_server` | `curr1`, `curr2`, two listeners, descriptors, children, threads | select loop, accept, fork/exec, `sig_handler1`, `thread_func`, `service1` | sockets; SIGUSR1 from the children; counters shared by main, handler and threads | unsynchronised `++`/`--`, signals that merge, EINTR and a stale `rset`, `accept`, `fork`, `execv` and `pthread_create` that fail unnoticed | the limit on each service is respected; a connection has one owner; the loop does not stop |
| **news report** `mids/news_report` | three FIFOs, a queue, a flag in shared memory, the telecast connection | reporters write, editor reads and forwards, readers receive and show, document writer, advertiser, telecaster | FIFOs, message queue, shared memory, one socket | reads that cut messages, a test-and-set in two steps, readers killed while they hold the flag, a full queue | what is read is terminated; one reader at the screen; the editor goes on |
| **facilitator server** `mids/faciliator_server` | `path`, `count`, `cliaddr`, `clicount`, per service a socket, a handler and a backlog | operator starts services, `send_all` registers news clients, `info` announces, services accept in a signal handler | datagrams, inherited listeners, SIGUSR1 to itself and to the services | two threads and a handler over four variables without a lock; signals sent for connections already accepted, or before the handler exists; a length for `recvfrom` that nobody sets | every news client hears of every service; every connection is accepted |
| **chat with cancellation** `socket_rev/thread/server2.c` | `tid1`, `tid2`, `tidgod`, `flag` | accept, two threads, SIGUSR1, `pthread_cancel`, join | the handler cancels the thread that a global names | handler before the store of `tidgod`, ids used again, a signal that belongs to no session, a `recv` that returns several messages or none | a session ends with its "@", and touches no other |
| **group chat** `message_queues/group_chat` | one queue, `grps` | "add", "foo", deliveries | requests and deliveries share the queue | a server that sends into the queue it drains | a message stays in its group, once for each receiver; the server does not block |
| **port facilitator** `socket_rev/last_q` | the table `sfds`, listeners, services | registration, fork/exec, select loop, `iofunc` | processes that share listeners; sockets to the services; the terminal | a failed exec leaves a second facilitator; a `bind` that fails unnoticed; stale `rset`; a join on a thread that reads the terminal; SIGPIPE | the table is true; waiting clients are accepted |
| ipc ultimatum `socket_rev/ipc_ultimatum` | two FIFOs, a queue, `work`, a telecast connection | editor alternates, readers show words or relay a telecast and pause each other | FIFOs, queue, signals to process ids read from files, one socket | the pid files stay empty, so `kill(0, ...)`; `work` is written by main and handlers; an interrupted `msgrcv` counts as a message; reads of 100 bytes take two words; `reader1.c` does not compile | a word is in one place, or lost for a known reason, and gets to the screen; a paused reader works again |
| multi-service `socket_rev/multi-service` | two listeners | accept, fork, exec | sockets, inherited descriptors | a failed exec goes on in the server's loop with a closed listener; a failed fork leaks the connection | every connection has one service, the right one; nobody hangs |
| thread server `socket_rev/thread/server.c`, `client.c` | one connection | accept, a handler thread, join | socket | the join makes the first client the only one; SIGPIPE ends the server with it | each client is served or sees the end |
| first socket programs `sockets` | one or two connections | accept, fork, talk, exit | sockets | a failed fork makes the server do the child's work and exit | the second client gets the second text |
| pipes `pipes` | one or two pipes | parent and child in lock step, `upp.c` a pipeline | pipes, fork and exec | `pp[0]` stays open across exec; a read at end of file leaves the buffer, a short one its end; SIGPIPE | lines in order; an end spreads |
| select multiplexer `select` | pipes from popened programs | copy what is readable | pipes | end of file is readable for ever; a source must not starve the others | every line arrives |
| basic `socket_rev/basic` | one connection | request and reply | socket | neither side looks at what `read` and `write` return | both go on |
| queue chat `message_queues/chat_server` | one global `message` | two threads receive and send | queue | the threads share `message` without a lock; `msgget(..., 066)` | what is typed is what is sent |
| queue ring `message_queues/p123` | one queue | send one type, wait for the next | queue | everyone waits for someone; the queue outlives its processes | the ring goes round; what is left over is bounded |

Every hazard of this code, at its line, is listed under "hazards" in
`PROJECT.json` with the property that covers it, or the reason none does.

## 2. Modules

| module | role |
|---|---|
| `AdmissionControl` | abstract: what a concurrency limit promises |
| `SuperServer`, `MCSuperServer`, `SuperServerProofs` | super server, instances, proofs |
| `NewsReport`, `MCNewsReport`, `NewsReportProofs` | news report, instances, proofs |
| `Facilitator`, `MCFacilitator` | facilitator server |
| `PortFacilitator`, `MCPortFacilitator` | last_q |
| `FacilitatorProofs` | proofs about the two facilitators |
| `ChatSession`, `MCChatSession` | thread/server2.c |
| `GroupChat`, `MCGroupChat` | group chat |
| `ChatProofs` | proofs about the two chats |
| `IpcUltimatum`, `MCIpcUltimatum`, `IpcUltimatumProofs` | ipc_ultimatum |
| `ConnectionServers`, `MCConnectionServers`, `ConnectionServersProofs` | multi-service, thread/server.c, sockets/first and second, the threads of the facilitator server's services |
| `ProcessNet`, `MCProcessNet`, `ProcessNetProofs` | pipes, select, basic, p123, chat_server |
| `QueueLemmas` | facts about queues that the proofs share |

Where two components share a module of proofs, one of them has names of its own
for what both have: `SessionInit`, `SessionSpec`, `SessionTypeOK` in
`ChatSession`, `PortInit`, `PortSpec`, `PortTypeOK` in `PortFacilitator`.

The operators named "... OffByOne", "... KeepsSlot" and so on, each under a
comment "Mutant:", are variants of the definition that follows them with a bug
in it.  No specification uses them; they are put in place of that definition to
see that a property notices.

### SuperServer

`pc` is the point of `main`'s loop (su_server.cpp:87-141); `curr1++`, `curr1--`,
`curr2++` and `curr2--` are a load (`reg`, `hreg`, `treg`) and a store.
`handling` holds the threads inside `sig_handler1`; a handler on the main thread
suspends `main` (`At`), and `pending` is one bit, since SIGUSR1 is not queued. A
child (`service1.cpp`) reads its request, waits for a line from the terminal,
sends SIGUSR1 and becomes a zombie, as the server never waits for it; `MaxProcs`
is when `fork` fails. When the child's `execv` returns (su_server.cpp:118), the
child goes on in the select loop: it has closed `sfd1`, whose number
`dup(stdin)` has taken again, and still holds `sfd2` and the connection it was
forked for, which nobody serves. Such a stray child (`Strays`) takes clients of
service 2 from the backlog the parent has looked at (`StrayAccept`) and answers
them in a thread of its own (`StrayServe`), or leaves them to nobody when its
own `pthread_create` fails. Its counters are copies, so `curr2` of the server
knows nothing of it. `open` holds the connections the server has a descriptor
of; `MaxFds` is when `accept` fails, which the code does not check before it
counts. `thread_func` never closes its descriptor. `Create` makes a thread or
does not, whatever the number of threads, as nothing looks at the result of
`pthread_create` (line 137): then the client is `stranded` and the unit of
`curr2` it took in line 133 is `leaked`. `SelectInterrupted` is the EINTR case:
`select` returns -1, which is true, and `rset` still names both listeners.

Two history variables record that an update overtook another: `race1` when main
stores `curr1` while a handler is between load and store, `race2` how many
updates of `curr2` were stored while another was between its load and its store.
With the race the limits are really exceeded: TLC finds `Admission1` and
`NeverUndercounts1` violated as soon as the condition `~race1` is dropped, and
`Accounting2` as soon as `race2` is.  The properties say what still holds: all
other losses of service 1 (signals that merge, a `curr1++` interrupted by the
handler on the same thread, failed accepts and forks) err to the safe side, the
counter being too high, and the price is that its slots can be lost for ever.
Service 2 loses a slot for ever with each thread that was not created, which
`Accounting2` counts exactly; each overlap moves `curr2` by one at most, and lets
in at most one client too many.

`AdmissionControl` is the limit without the counter: callers enter while at most
`Limit` are inside and leave once, until the limit breaks, once for all.
`Service1Admission` maps its `active` to the busy children, its `gone` to the
zombies and its `broken` to `race1`, so that the step that breaks the abstract
limit is one store in main, and no other step of the program admits too many.

### NewsReport

A FIFO is a sequence of cells (message, position); `EditorRead` takes up to
`ReadSize` of them, as `read(fd, buff, 20)` does, and only the first two bytes of
what was read decide where it goes.  `Enqueue` is the `strcpy` up to the first
`'\0'` and the blocking `msgsnd`.  The type of news is the constant `PtrType`:
editor.c:55 uses the address of `read_flag`, not what it points to.  The flag in
shared memory is tested (`Spin`) and set (`Set`) in two steps, a reader that
starts clears it (`ReaderStart`), and a reader can be killed anywhere
(`ReaderKilled`), which leaves the flag as it is.

### Facilitator

`main`, `send_all` and the handler `info` run on two threads (`Main`, `Talker`);
a handler suspends its thread. `info` copies `path[count-2]` first and sends it
to `cliaddr[0 .. clicount-1]`, rereading `clicount` in each round. `len`, which
send_all hands to `recvfrom`, is never set (fserver.c:24): the first call may
fail or store no address, and if the value is negative every later one fails too
(`TalkerRecv`); what is stored and announced to then is `Nobody`. A service is
"forked" (it still has the facilitator's handler), "execed" (SIGUSR1 would end
it), "installed" (its handler runs, its socket is still 0), "ready" or "dead".
`main` goes on sending SIGUSR1 as long as select reports the port. When `fork`
fails, -1 is not > 0 and the facilitator replaces itself: `pc = "gone"`.
Services and news clients are numbered in the order in which they appear, which
loses nothing, as they differ in nothing else; registrations and connections are
bounded together by `MaxPeople`. What a service does with its connections is the
system "echo" of `ConnectionServers`.

### ChatSession

A thread's `pthread_t` is one of `Ids` and may be given out again after the
join. `SigUsr` is `pthread_cancel(tidgod)` with all its outcomes: before
anything was stored it crashes, on an id that is free it crashes or does
nothing. `Recv` takes any number of the pieces that have come, as TCP keeps no
messages apart, and looks at the beginning of the first: an "@" behind other
text is not found. `buff` is uninitialised in each new reader, and stays what it
was when `recv` fails; `garbage` remembers that a reader looked at it without
having received anything, `atSent` that the client of the session has sent an
"@".

### GroupChat

The one queue with its types; `Serve`, `PassOn` and `PassedOn` are the server's
`msgrcv` and the loop in which it sends, blocking, to everybody else in the
group.  `server.c` does not compile as it stands (a declaration, a semicolon and
a brace are missing); it is read with them.

### PortFacilitator

Each facilitator has a table `sfds` of records [port, bound]; `bound` is FALSE
when the unchecked `bind` failed: always where a live facilitator or an orphaned
listener has the port, and at will on any other (a port below 1024, one another
program listens on, one 11 above the port of a service), which `refused`
remembers. `ForkService` has three outcomes: no child, the service runs, or the
`execvp` fails and the child goes on in the loop as another facilitator with the
same listeners. `rset` is what select reported and the `for` has not come to
yet. `iofunc` gets connect's result: 0 after success (it reads the terminal, and
main joins it), -1 otherwise. Lines for a client that has left end the process
by SIGPIPE (`Sigpipe`). Whoever listens on the port 11 above a listener's stands
for its service. Left out is that this is a port of a facilitator too, whose
backlog would then get the facilitator's own connection.

### IpcUltimatum

`typed` words go into two FIFOs; `ReadFifo` takes two words when there are two,
and the `strcpy` of editor.c keeps the first. `lost` remembers the other, and
the word an editor has in `buff` when a signal ends it (`Kill`). `Send` gives
the types 1 and 2 in turn and blocks when the queue is full. A reader is its
`pc`, `work`, the signals pending for it and the last message received. No
program writes to the files from which the readers take process ids, so they
signal their own process group: `grouped` says, from the start, whether the
editor, the screen, the telecast and the other reader are in it. In the group
SIGUSR2 ends the programs that do not handle it, the editor too, whose handler
of SIGUSR1 therefore never runs and whose `livecast` stays 0. A reader alone in
its group signals only itself. `Deliver` runs the handlers of all that is
pending; of two, that of SIGUSR1 returns last. A delivery may interrupt
`msgrcv`, whose -1 is true, and the message of before is handled again
(`interrupted`). The telecast is ended by SIGPIPE at its first write;
`TelecastStart` is the person who starts it again. `reader2` looks at a buffer
it has not filled to see whether the telecast has ended, and may relay for ever
(`Endless`). `reader1.c` is read with `buffer` declared before the loop and with
the parenthesis it lacks.

### ConnectionServers

A process of a server is a record: where it is, the listeners it has open, its
connections, `nsfd`, its standard output and `rset`.  `Select` on a closed
listener fails with EBADF, which is true, and leaves `rset` as it was.  `Fork`
has three outcomes: the service runs; `execvp` fails and the child goes on in the
server's loop, without one listener and with a connection as standard output; no
child, and the parent keeps `nsfd` (its `close` is in the branch of fork > 0).
`faults` remembers which calls have failed.  `Create` and the join of
thread/server.c, `ForkFirst` and `Wait` of sockets/second are actions of their
own; `Sigpipe` ends whoever writes to a client that has left, and with it all
threads of its process.  In "echo" a thread gets the address of a variable of the
signal handler (service1.c:42): `StartEcho` reads it late, when it may hold
another connection or nothing (fault "stale"), and `CreateEcho` stores through an
uninitialised `pthread_t *`: the thread is created, or not, or the service ends.
The facilitator that signals the service is left out here, and the clients of
"echo" have typed a word.

### ProcessNet

Each of these programs is a loop of blocking calls, so a program is data: a
sequence of steps with its operation and what it is applied to, and the step the
loop goes back to. There is one action for each kind of call. `Read` at end of
file, after a reset or without permission changes nothing but `stale`: no
program looks at the result, and the old contents of the buffer are used again.
A read of a line that a person or `p_w` has written may be shorter than what the
buffer held (upp.c:32, sel.c:44, chat_server client.c:35), and the whole buffer
is written on: `trail` says of each line which lines before it have left
something behind it, chosen when the line is first read (`Over`); the next
stages copy whole blocks. `Write` waits for room, or is SIGPIPE when nobody can
read; on a socket the first such write may pass. `writers` and `readers` of a
channel are the processes that have the end open when all have started: the
later stages of `upp` hold the read ends of the pipes before them. Two threads
of one owner share `buf`; `Racing` and `InUse` are the outcomes of using it
without a lock (a torn line, or a line used that came later). `Msgget` by
whoever comes first decides the permissions of the queue. `Kill` ends a process,
`Restart` starts it again on the queue that is still there. Lines are numbered
so that order can be told; `p_w` prints the same line each time, and `sel` has
two of its four sources.

## 3. Runs

With two workers each run ends within about four minutes.

| run | properties | instance |
|---|---|---|
| `super_safety` | `TypeOK`, `Admission1`, `NeverUndercounts1`, `AcceptBlocksOnlyWhenInterrupted`, `Accounting2`, `OneOwner`, `Service1Admission` | 4 clients of service 1, 2 of service 2, 2 threads, both limits 1, 2 descriptors, 4 processes, symmetry |
| `super_progress` | `Service2Progress` | 2 and 3 clients, 2 threads, both limits 0, 2 descriptors, 1 process |
| `news_flow` | `TypeOK`, `ChunkTerminated`, `ScreenMutex`, `EditorUnblocks` | one reporter, messages of 2 and 3 bytes, reads of 3, FIFO of 4, queue and screen of 1 |
| `news_document` | `DocReachesDocument`, violated | one reporter, two kinds of message, reads of 4, FIFO of 6 |
| `news_alternate` | `AlternatesReaders`, violated | the same, FIFO of 4 |
| `facilitator` | `TypeOK`, `AllAnnounced`, `VisitorsAccepted` | 2 services, 2 news clients; 2 registrations or connections |
| `chat_sessions` | `SessionTypeOK`, `SessionsSeparate`, `CancelledAfterAt`, `SessionEnds` | 3 sessions, 3 ids, 2 unread messages |
| `group_chat` | `TypeOK`, `DeliveredInGroup`, `OneEach`, `ServerComesBack` | 3 clients in all groupings into 2 groups, queue of 4 |
| `port_facilitator` | `PortTypeOK`, `BlocksOnlyBesideAnother`, `TableListens`, `ClientAccepted` | 2 facilitators, 2 services on 1 port and `Info`, 2 clients |
| `process_net` | `TypeOK`, `Faithful`, `LeftOver`, `Delivered`, `GoesOn`, `EndSpreads` | all seven systems, 2 lines of each source, 2 of them short, pipes of 1, queues of 5 and 2, 1 kill |
| `connection_servers` | `TypeOK`, `OneServer`, `NobodyHangs` | all five systems, 2 clients, 3 processes |
| `ipc_ultimatum` | `TypeOK`, `OneCopy`, `GetsShown`, `PauseEnds` | a word and two numbers, queue and screen of 1, one group or several |

Why these bounds:

* *super server.*  A limit of 1 and four clients are the least with which a lost
  update admits one too many; two threads are the least whose updates of `curr2`
  overlap.  Two descriptors are used up by service 2, so accept fails for service
  1; in `super_progress` it fails for service 2, and with one process the second
  fork fails.  Thread creation and `execv` may fail each time.  The conditions are
  needed: without `~race1` TLC finds `Admission1` and `NeverUndercounts1` violated
  in this instance, without `race2` or without `leaked` `Accounting2`, and with
  `broken <- FALSE` the refinement.  Without `Strays` in it
  `AcceptBlocksOnlyWhenInterrupted` is violated, and `OneOwner` without
  `Forsaken`.
* *news report.*  A FIFO one byte longer than a read is the least in which a
  message is cut; its tail, which begins with neither of the bytes the editor
  knows, is news.  One reporter suffices: the FIFOs are read one at a time.
* *facilitator.*  Two services are needed for an announcement to be overtaken by
  the next, two connections for a signal too many, and two news clients so that a
  bad `len` spoils one address or both.  Without `~strayed`,
  `AllAnnounced` is violated: the case it leaves out is real.
* *chat.*  Three sessions are needed for a `tidgod` from a session before the
  last; three ids leave one free while two are in use.  Two unread messages are
  enough for one `recv` to return both.  Without `missed`, `SessionEnds` is
  violated, and without `garbage` `CancelledAfterAt`.
* *group chat.*  Three clients make groups of one, two and three; four places
  are the fewest in which a request and deliveries can fill the queue.  Without
  `Pairs`, `ServerComesBack` is violated: in a group of three the server blocks.
* *port facilitator.*  The second facilitator is what one failed exec leaves;
  two services let it register one of its own, on the same port or another.
  Dropping `refused` or the dead facilitators from `TableListens`, or the blocked
  accept or the terminal from `HeldUp`, gives a counterexample.  A second port to
  type adds nothing: two listeners, one typed and `Info`, or one port typed twice,
  are what a stale `rset` needs.
* *process net.*  Two lines have an order, and pipes of one line block at once.
  Two short lines, of two sources of `sel`, let the end of an end come through.
  Three members of the ring and one kill leave at most four messages, and the
  queue holds five, so that the bound of `LeftOver` is not the queue's.  It takes
  two kills and a queue of four to fill it, the case `GoesOn` excludes.  Without
  `stale`, `Faithful` and `Delivered` are violated.
* *connection servers.*  Two clients are enough for one to get the other's
  service, connection or turn.  Beside the server there are two processes, so that
  both clients have a service, or one does and a child whose exec failed is in the
  loop; fork also fails when there are processes left.  Without the faults in its
  condition `OneServer` is violated, and `NobodyHangs` without `Forsaken`.
* *ipc ultimatum.*  With a queue of one the editor blocks as soon as a reader is
  late; the word can come before, between or behind two telecasts, of either
  reader.  Without `interrupted`, or without either kind of
  `lost`, `OneCopy` is violated; `GetsShown` without
  either of `grouped` and `EndlessRelay`; `PauseEnds` without `EndlessRelay`.

`CHECK_DEADLOCK FALSE` stands in the runs of systems that may come to rest: all
clients served, or everybody waiting for a person.

## 4. Fairness

Threads and processes that can run do run: weak fairness of each of them.
People -- clients, operators, whoever kills a reader -- owe nothing, so every
liveness property allows for the person it waits for.  In particular:

* super server: main, each thread, each handler that has started; not the delivery
  of a signal, nor a child whose `execv` failed;
* news report: editor, document writer, advertiser, screen, accept of the
  telecaster, each reader; not the reporters, not the telecaster's operator, no
  start or kill;
* facilitator: as above, and strong fairness of `SetSocket`, the assignment a
  service makes between two runs of its handler: the handler can be entered again
  and again, but a pending signal is not there at every return;
* chat, group chat, port facilitator: weak fairness of main or the server, of
  each thread, facilitator or client process;
* process net: weak fairness of each process or thread (`Seats` names them, one of
  each system); a person's next line is such a step too, but persons stop after
  `MaxLines`, and no property expects a line of them; not `Kill`, `Restart`;
* connection servers: each process of the server, and each client that has
  something to receive; not `Connect`, `Leave`, `Kill`;
* ipc ultimatum: editor, each reader, screen, the telecast's accept, and the
  delivery of a pending signal; not `Report`, `TelecastStart`.

## 5. What the code does otherwise than its comments say

* `news_document`: editor.c:40 says "According to Question, if /d send it to
  document writter", but the editor only looks at the first two bytes of what one
  `read` returned.  A "/d" message written before the editor has read the one in
  front of it is in the same chunk and is dropped with it (editor.c:36-56).
* `news_alternate`: editor.c:57 says "// Alternate", but what is toggled is the
  parameter `read_flag`, not what it points to, and the message type is the
  pointer (editor.c:55-61): all news have the same type, and reader2 gets none.

## 6. Proofs

Each theorem says `Spec => []P` (one of them a refinement) for every value of the
constants that satisfies the `ASSUME`s of its module.  These ask that sets of
names are disjoint, and finite where they are counted, that limits and capacities
are natural numbers, not 0 where a queue must hold something, and, for the news
report, that a message has between 2 and `ReadSize` bytes and that the pointer
editor.c takes for a message type is none of 0, 1, 2.

What is proved inductive is mostly larger than the property.  What follows says
what has to be added, and why; TLC checked each such invariant on an instance
first.

**QueueLemmas**: what a queue holds (`Items`), that nothing stands in it twice
(`Distinct`), and how many of its elements are in a set (`HowMany`), after
`Append`, `Tail`, `\o` and the removal of an element in the middle, as `msgrcv`
of one type does it.

**SuperServerProofs**

* `TypeCorrect`: `Typed` = `TypeOK` and `NsfdOK`.  `TypeOK` alone is not
  inductive: that a connection handed to a thread is one of service 2 needs what
  `nsfd` is at each point of the loop.
* `NoUndercount` and `AdmissionBound`: `IInv1` = `Typed`, `NeverUndercounts1` and
  `Room1`.  `Outstanding1` counts the busy children, the one about to be forked
  and the ends reported but not yet subtracted; as long as `~race1`, `curr1` and
  every loaded copy of it are at least `Outstanding1`.  A signal that merges only
  lowers `Outstanding1`, which is why no loss of a signal does harm.  `Room1`
  carries the test at su_server.cpp:97 to the fork.
* `AccountingExact` (`Accounting2`): `IInv2` = `Typed` and `Counted2`: not only
  `curr2` but every copy of it that has been loaded and not stored is within
  `race2` of what it is meant to count (`Slots2`: threads holding a slot, the one
  about to be created, those that never were), and the test at su_server.cpp:129
  has left room.  A store moves the loaded copies of others away by one, and then
  `race2` grows by one.
* `Service1Refines`: `Spec` implies the abstract `Spec` of `AdmissionControl` under
  `active <- Busy1`, `gone <-` the zombies, `broken <- race1`, for any number of
  threads.  It needs `IInv1` and `Fresh` (no client is in the backlog twice, or
  again after it was served).  The only step that maps to `Break` is a `Store1`
  while a handler runs on another thread; every other step is an `Admit`, a
  `Leave` or a stutter.
* `AcceptReady`: with `Typed`, `AcceptBlocksOnlyWhenInterrupted` is inductive as
  it stands: nobody but main takes a connection from the backlog of service 1, and
  from that of service 2 only a stray child, which stays one.
* `OwnersUnique` (`OneOwner`): `Typed`, `Fresh`, `NsfdFree` (`nsfd` is used up
  before the loop comes back to `select`), and `Held1` and `Held2`: who waits is
  in a backlog, in `nsfd`, with a child, a thread or a stray child, or among the
  stranded, and for service 2, where `Fresh` says nothing, in only one of them.

**NewsReportProofs**

* `TypeCorrect`: `Typed` = `TypeOK` and `OnAirOK` (`Tail(calls)` needs a call).
* `ScreenExclusive`: the mutual exclusion does not come from the flag, whose
  test and set can interleave.  No message ever has type 1, so `Reader2Waits`:
  reader2 never leaves `msgrcv`, and reader1 is alone.
* `ChunkTerminatedAlways`: `IInv` says that every FIFO is `Whole`: the end of each
  message that has a byte in it is in it too, the right number of cells later.
  A non-empty whole stream has an end among its first `ReadSize` bytes because
  no message is longer, and a read leaves a whole stream.

**FacilitatorProofs**

* facilitator server: `TypeCorrect` and `Announced` (`AllAnnounced`). The two
  threads have no lock, so "every client has been sent every path" is false most
  of the time. `NothingLost` says who makes it true: each client has been sent
  each path, or somebody owes it: `send_all` in its loop for the last client
  (`TalkerOwes`), or the announcement of the last path, still to be signalled,
  pending or on its way through the clients (`InfoOwes`). A registration during an
  announcement is harmless in either order, because `info` reads `clicount` again
  in each round and `send_all` reads `count` in each. `MainOK` and `TalkerOK` tie
  the counters to the arrays between the two assignments that change them. What
  `recvfrom` does with its unset length changes whose address is in the table, and
  the argument does not ask.
* last_q: `PortTypeCorrect`: a table grows once for each service asked for, and
  only at the prompt; `TablesOK`. The attempt to prove it showed that the model
  let a facilitator with no services prompt for one; fasc.c:71 skips the loop when
  n is 0, and `PortInit` now does.
* `BlocksBesideAnother`: `ReportsOK`: what select reported, and the loop has not
  come to, is still in the backlog or somebody else has the listener.  It needs
  `BoundOnce`: were a port bound twice in one table, a facilitator could empty its
  own backlog.
* `TablePortsListen`: `PortsBound`: a port in a table was refused by the machine
  or bound by someone, and the dead are the only ones who let go of it.

**ChatProofs**

* thread/server2.c: `SessionTypeCorrect`, `SessionsStayApart` and `OnlyAfterAt`:
  one invariant, `ThreadsOK` (the ids main holds name the session's two threads,
  and there is no other), `FlagOK` and `SignalOK`: the one signal of a session is
  sent by the last step of its reader, and the writer ends only by it. Hence main,
  which joins both, comes back to `accept` with the signal handled, whatever id
  `tidgod` named. `SaidOK` follows an "@" from the client
  to the reader: what is left to receive holds one only if the client has sent it,
  and a reader that has found one found it there or in a buffer nothing had
  filled. A process that a signal has ended keeps what its last step left, so the
  invariant is claimed as long as it lives.
* group chat: `TypeCorrect` and `DeliveriesInGroup`: that a "foo" is passed on in
  the right group needs that its sender is in it by then: `RequestsOK` says that
  its "add" is in front of it in the queue, or has been served. Nobody is in a
  group twice (`GroupsOK`), which bounds `next`.
* `NothingMultiplies` (`OneEach`): `TokensOK`: in groups of two, each "foo" in the
  queue, and the one the server still owes in its loop, is matched by a client that
  waits in `msgrcv`; so there are at most as many as clients.

**IpcUltimatumProofs**

* `TypeCorrect`: `EditorOK`: a FIFO that select has reported is not empty when the
  editor comes to it, nor is `buff` when it sends.
* `WordsKept` (`OneCopy`): `CountOK` adds up how often a word stands in the two
  FIFOs, in `buff`, the queue, the readers' hands, the screen's FIFO and on the
  screen: once if it was typed and is not in `lost`, and otherwise not at all.
  `HeldParts` shows that this is what `Copies` counts.  Two steps add to `lost`: a
  read of two words, and the kill that ends an editor with a word in `buff`.  The
  other kills lose nothing: they come when no reader holds a message it has not
  handled, and the queue and the FIFOs outlive the processes.

**ConnectionServersProofs**

* `TypeCorrect`: `Typed`, which adds to `TypeOK` only that a process slot that is
  free is empty, so that a child starts with what its parent has and no more.
* `ServedOnce` (`OneServer`): `FreshOK` says that nobody has seen a client that
  has not been accepted: it is in at most one backlog, once, and no process has it
  among its descriptors. Then each system has an invariant of its own, under
  `AsMeant`, that no exec has failed and no thread was late: `MultiOK` (the loop
  stays with the first process, and every service has a client of its own that
  asked for it), `AloneOK` (there is one process), `SecondOK` (the server accepts
  the second client only when the child of the first has ended; when its fork has
  failed it serves the first itself and ends), `EchoOK` (no two threads have one
  connection). A failed fork, a SIGPIPE and a client that leaves are among the
  steps the invariant survives.

**ProcessNetProofs**

The programs are data, so the proofs go through the seven systems once:
`Programs` says what all their steps have in common (`StepOK`: a write or a print
comes only after a step that fills the buffer; `RouteOK`: from where to where a
read and a write take a line).  Everything after it argues about an operation and
not about a program.

* `TypeCorrect`: `Typed`; a line exists only once its source has typed it
  (`Known`).
* `FaithfulDelivery` (`Faithful`), first half: as long as no buffer was used that
  its last read left untouched, `Unique`: a line is in one place only, on its way,
  in the hand of one process that is about to use it, or shown. "In hand" and not
  "in a buffer", because a buffer keeps its contents after the write.
* Second half, which holds even after a buffer was used again: `OrderOK`. `Way`
  gives each place on the way of a source's lines its distance from the end;
  whoever has the n-th line has what it `Needs`, the earlier ones and those whose
  ends stand behind it, before it, further on or in front of it in the same pipe
  (`HeldInOrder`, `SentInOrder`, `ShownInOrder`). A process about to read may
  replace what it has, because it has passed it on (`PassedOn`). The stages of
  `upp` start each other, and one that was not started has read nothing
  (`UppStarts`). Ends are added to a line when it is first read (`Over`), over a
  line the reader has passed on; `Fresh` says that until then the line is in no
  second place, where it would need them too, and `WaysMeet` that one reader
  serves both sources of `sel`, whose lines may leave their ends behind each
  other's. Only p123 and chat_server are started again after a kill, and neither
  is part of this half.
* `FewLeftOver` (`LeftOver`): `RingOK`: there is a message in the queue for each
  process that waits in `msgrcv`, plus one for each kill, at most. A restart adds
  none: the process must first send, and then waits.

**Only model-checked:** liveness, in every module.  A leads-to property needs
fairness, whose ENABLED is outside this prover, and most of them also an argument
by induction over a queue or a buffer.  They are `Service2Progress`,
`EditorUnblocks`, `VisitorsAccepted`, `SessionEnds`, `ServerComesBack`,
`ClientAccepted`, `Delivered`, `GoesOn`, `EndSpreads`, `NobodyHangs`, `GetsShown`
and `PauseEnds`.  The two violations of section 5 are counterexamples and need no
proof.

## 7. Not modelled

* The contents of messages, addresses and printed text; socket set-up before the
  first accept.
* Fixed arrays written without a check: `cliaddr[125]`, `path`, `fds` and
  `pids[25]` in fserver.c, `grps[5]` and `pids[10]` in the group chat, `sfds[11]`
  in fasc.c, `message[n]` at the end of what `recv` returned.  The first of them
  are listed as a hazard.  Nor the sizes given to `msgrcv` and `recv` that are
  larger than the buffers.
* Reads past a buffer that has no `'\0'` (document.c:37) and through dangling or
  uninitialised pointers, except where the outcome is a choice the model makes
  (`HandleAccept`, `SigUsr`, `StartEcho`, `CreateEcho`, `Relay`).  A compiler may
  also hoist the test of a plain variable out of a loop (news_report
  reader1.c:63, ipc_ultimatum reader1.c:55); the models read it each time.
* Failures that the code does not look at and that are left out: `malloc`
  (su_server.cpp:135 and elsewhere), `pthread_create` in thread/server2.c:76-77, in
  fasc.c:140 and of the two threads of fserver.c and chat_server, `msgget` and
  `listen`.
* In last_q: the lines a service writes (nobody reads them), a service ended by
  SIGPIPE, descriptors that run out, an end of file at a prompt.
* In multi-service: `reporter1.c`, which writes to a FIFO no program opens.
* In ipc_ultimatum: readers that are killed or started again, and a FIFO to the
  editor that is full.

## 8. What is left

Every system has its model, and every invariant its theorem.  What could follow:

1. An abstract specification "every connection has one server", which
   `ConnectionServers` and `SuperServer` would both implement: `ServedOnce` and
   `OwnersUnique` are most of the two refinements.
2. The capacities of the fixed arrays as properties (section 7).
