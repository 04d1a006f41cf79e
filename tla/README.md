# Verification of socket_practice

The repository holds a chat server and its client in C++
(`src/linux/chatting`), with a thread pool, a semaphore, a poll set, sessions
and a packet format of their own, and about fifty numbered C examples of socket
programming (`src/linux/legacies`, `src/BSD`).  This directory holds TLA+
specifications of it, TLC configurations that check them on small instances and
TLAPS proofs about them.

## The system

### The chat program (`src/linux/chatting/src`)

| Component | State | Operations | Who calls it | Hard behaviour | Correct when |
|---|---|---|---|---|---|
| `RS::Semaphore` | count, mutex, condition variable | `notify`, `wait`, `try_wait` | the pool | threads racing for a permit, spurious wake-ups | no permit twice, no wake-up lost |
| `RS::ThreadPool` | queue of tasks, two flags, workers | `enqueue`, `run(true)`, `run(false)`, destructor, `handle_task` in each worker | the server (starts it) and any producer | two locks not held together, stop and restart, drain against discard | tasks once, in order, all of them before `run(false)` returns |
| `RS::PollManager` | vector of `pollfd` | `register_socket`, `unregister_socket`, `poll`, `clear` | the server, under `m_poll_mutex` | numbers reused | exactly the open descriptors, each once |
| `ClientSessionManager` | map of descriptor to session, a shared mutex | `register_session`, `unregister_session`, `is_socket_registered`, `get_sockaddr`, `for_session`, `clear` | the server | test and change in two sections | exactly the open connections |
| `RS::SocketSession`, `ClientSession` | a descriptor (closed by the destructor), its address | `send_packet`, `get_address` | the session manager | close at the right moment | closed once |
| `ChatServer` | the above, the listening socket | `initialize`, `run`, `accept_client`, `handle_client`, `close_client` | `main` | stale poll results, blocking reads, framing, hang-up | sessions, poll set and kernel agree; packets whole |
| `read_nbytes`, serializer, packets, packet handler | buffers and cursors | read, write, dispatch | server and client | partial reads, sizes from the network | what is read is what was written |
| `RS::Ticker` | a running flag, the last tick | `start`, `stop`, the loop | nobody yet | restart before the old loop has ended | every loop ends when it is stopped |
| client | a socket | connect, three writes a message, close | user | goes away in any state | |

The server runs in one thread: it polls, copies the answer, and goes through the
copy.  A readable listening socket is accepted from, a readable client has one
packet read with blocking reads and handled, a client that hung up is closed.
Closing and accepting call the session manager, which opens and closes
sessions, and the poll set.  The thread pool is started by `run` and gets no
tasks (the call of `enqueue` is commented out), so server and pool do not
interact and are modelled apart.

### The examples (`src/linux/legacies`, `src/BSD`, `src/linux/rssocklib.c`)

Each file is a program.

| Programs | State | Hard behaviour | Correct when |
|---|---|---|---|
| 48, 49 threaded chat | table of descriptors, its count, a mutex, a thread for each client | `main`'s variable is shared with the threads, a thread cannot be created | count and table agree, one order of broadcasts |
| 27 select echo; 41, 42 epoll echo, level- and edge-triggered | the watched set, the events of one wait | descriptors closed and reused between wait and service; an edge is reported once | events stay true, no edge lost, clients get back what they sent |
| 22, 23, 24 forking echo server, its handler and client; 43 forking log server | descriptors copied by `fork`, pending `SIGCHLD` | children end together, `fork` fails, a child is killed, stopped or continued | no descriptor held too long, `waitpid` finds a child unless one was stopped or continued |
| 06, 07, 08 iterative echo; 37, 38 the same with `stdio` | one connection at a time | reads cut anywhere, ends and errors nobody tests | answers of one round stay in it |
| 09, 10 calculator | operands put together by `read_nbytes` | reads cut anywhere, clients killed half way, others queued behind them | the result is that of the operands sent |
| 13, 14 file transfer | a file, a half-closed connection | each side waits for the other, the server fails in the middle | what the client calls complete is all that was sent |
| 44 pipe client | a pipe, a child that becomes `ls` | the pipe ends when its last write end is closed | all output passed on, and an end |
| 11, 12 UDP echo | none | datagrams lost, repeated, reordered | a client is shown the answer to its message |
| the rest | | one system call or one thread each | |

The programs interact only through connections: each server is modelled with the
clients written for it, over a kernel that both share.

## Modules

| Module | What it is |
|---|---|
| `CountingSemaphore` | abstract: what a counting semaphore promises |
| `Semaphore` | `common/thread/semaphore.cpp`, implements it |
| `SemaphoreProofs` | theorems about `Semaphore` |
| `TaskService` | abstract: what a pool promises to those that use it |
| `ThreadPool` | `common/thread/thread_pool.*` over an instance of `Semaphore`, implements it |
| `ThreadPoolProofs` | theorems about `ThreadPool` |
| `PollManager` | `common/network/poll.cpp`, operations on the poll set |
| `ChatServer` | server, sessions, kernel and clients over an instance of `PollManager` |
| `MCChatServer` | `ChatServer` with a symmetry for TLC |
| `ChatServerProofs` | theorems about `ChatServer` |
| `ThreadedChat` | `legacies/48_chat_server.c` with the clients of `49_chat_client.c` |
| `ThreadedChatProofs` | theorems about `ThreadedChat` |
| `EchoService` | abstract: what an echo server promises |
| `EventEcho` | `legacies/27`, `41` and `42`, implements it |
| `EventEchoProofs` | theorems about `EventEcho` |
| `ForkServers` | `legacies/22`, `23`, `24` and `43`, implements it |
| `ForkServersProofs` | theorems about `ForkServers` |
| `EchoPair`, `CalcPair`, `FilePair`, `PipeClient`, `UdpEcho` | the small pairs of `legacies` (06-14, 37, 38, 44) |
| `MCLegacyPairs` | the five of them for TLC, one in each behaviour |
| `MCLegacyPairsProofs` | theorems about the five of them |
| `SessionManager` | `server/session_manager.cpp` called by several threads |
| `Ticker` | `common/thread/ticker.cpp` |
| `PacketWire` | `serialize.cpp`, `packet_handler.hpp`, `read_nbytes` and `handle_client`, from one end to the other |
| `MCCommon` | the three of them for TLC, one in each behaviour |
| `MCCommonProofs` | theorems about `SessionManager` and `PacketWire` |

**Semaphore.**  `m_count` is the counter; `waiting` and `woken` are the threads
inside `m_condition.wait`.  Each stretch of code under `m_mutex` is an action:
`Acquire` and `Block` are the two ways through the loop of `wait`, for a thread
that enters and for one that was woken alike, so that the two race for the same
permit.  `SpuriousWake` is what the C++ standard allows a condition variable.

**ThreadPool.**  `wpc` is where each worker is in `handle_task`: before its
permit, between permit and mutex, executing, gone.  `notifying` are the
producers between the push and `m_semaphore.notify()`, which `enqueue` calls
after releasing its lock.  `ctl` is where the one controller is in `run` or the
destructor; the write of `m_block_enqueue` without the lock, the busy loop, the
notifications one at a time, and the joins are steps of their own.  The pool
has one controller because `m_workers` has no lock.  `m_block_enqueue` and
`m_terminate` are written without the lock in places; that is a data race in the
language, and is modelled as an atomic write at any moment.

**ChatServer.**  `fdtab`, `backlog` and `peer` are the kernel: descriptors,
connections waiting to be accepted, the client's end.  `wrote`, `got` and
`handled` count, for a connection, the parts written, read, and the packets
handled; a packet is three parts (type, size, body).  `m_sessions` and
`m_pollfds` are the program's tables.  `pc`, `poll_result` and `stage` place the
server's thread: in `poll`, at an entry of the copy, or in the reads of
`handle_client`.  Between any two of its steps clients connect, write, quit or
break off.  `poll(2)` reports a client that closed in good order as readable, and
as hung up only once both directions are shut down, here by a reset.  `accept`
takes the lowest free descriptor and the process exits when there is none.

**ThreadedChat.**  `main` is where the main thread is, `clnt_sock` its variable,
`clnt_socks` the first `clnt_cnt` entries of its table.  Each thread has a place
`tpc`, from its creation (`start`) through `read`, the loop of `send_msg` and the
removal of its entry to `close`; its own `clnt_sock` is `sock`, which it copies
from `main`'s in `Start`, at any time after it was created.  A `read` holds on to
the connection the descriptor had when it was called (`reading`), also when
another thread closes the descriptor meanwhile, which is what the kernel does.
`mutex` is held through the whole loop of `send_msg`, whose writes are steps of
their own; the two other sections under the mutex are one step each.  A write to
a client that broke off may kill the server (`alive`), since nothing handles
`SIGPIPE`; and `read` on a descriptor another thread has closed fails for ever in
a loop that only ends on 0 (`ReadError`).  `pthread_create` may fail in `Register`,
which nobody notices: the entry stays without a thread, and `pthread_detach` of an
identifier that was never written may end the process.

**EventEcho.**  One module for three programs, which differ where `server` says
so: what a wait reports (`Fires`), how often a descriptor is read (`Write`,
`ReadAgain`), and what an error does (`AcceptFails`, `ReadError`: the select server
ends).  `Wait` reports all that is ready at that moment; the events are then
served one by one (`IsNext`: select's scan goes up, epoll's order is open) while
clients connect, send, shut down, close and break off.  `ready` is the kernel's
list behind edge-triggered epoll: a descriptor enters it when something arrives,
or when it is added with something there already, and leaves it when a wait
reports it.  `Deliver` is a `write`: to a client that closed, it may provoke a
reset; after that, the first call fails and the next raises `SIGPIPE`.

**ForkServers.**  `holds` is what each process has open, and a connection ends for the
client only when no process holds it; `fork` copies what the parent holds.  `pending` is
one bit, however many children end, and `Reap` takes any one of them (`ReapChild`).
`waitpid` sets a status that line 23:119 takes for an exit: a killed child ends the
server.  Line 23:28 sets no `SA_NOCLDSTOP`, so a child that is stopped or continued
raises the signal too (`StopOrContinue`).  When the handler then finds nobody, `waitpid`
returns 0 and the status tested was never written: the server goes on, or ends
(`ReapNone`).  `stray` is a history variable, true from a stop until the handler returns
with no signal pending; no step of the program reads it.  `ForkFails` is -1: the echo
server goes on, the log server, which tests for greater than 0 only, takes the child's
branch itself. `ReadError` is the log server's `fwrite` with a length of -1: rubbish in
the log, or a crash.

**The pairs.**  A connection is what is under way in it, as counts of bytes
(`EchoPair`, `FilePair`) or as bytes (`CalcPair`); a `read` returns any part of it.
`EchoPair` names how its clients read: `once` (07), `whole` (08), `line` (38).  The
server's `fgets` in 37 is not tested, so `NoLine` writes again what the buffer holds.
In `CalcPair` the type of the count, the operands and the operator are read by
one `ReadBytes`, `memory` being the buffer of the call that runs; words are of any
size, and wrap, and `Layout` says what bytes they have in memory (least significant
first in the run).  A client connects at any time, and waits in the kernel's queue
(`backlog`, a count) until the server accepts it, perhaps behind one that was killed
half way and that the server reads from for ever (`Stuck`).  What a queued client
writes is chosen in `Accept`, since nobody sees it before; the model then follows the
client accepted last, and one that still has its answer to read when the next is
accepted does what it would have done had it read at once.  `ServerFails` is every
exit after a failed call, and a kill.
In `FilePair` the exits of 13:94-99, 103-105 and 109-111 and a kill are one action as
well, `ServerFails`, that may come between two chunks or with part of one written; the
kernel then ends the stream as a shutdown does.  `ClientFails` is that of the client.
`PipeClient` is about who holds which end of the pipe.
`UdpEcho` keeps datagrams as sets, so their order is free, and loses or repeats a
bounded number.

**SessionManager.**  Each section under `m_mutex` is an action:
`register_session` is its test and then `Emplace`, `unregister_session` its test and
then `Erase`; the task of `for_session` runs from `for_session` to `TaskDone`, during
which no other thread can have the lock exclusively (`readers`).  `fdtab` is the
kernel's, since a session closes its descriptor when it is destroyed.

**Ticker.**  A loop is detached when it starts, so `stop` and `start` in time
leave the old one running beside the new.

**PacketWire.**  A packet is the sizes of its values.  `OValue` leaves out what
does not fit, `ReadBytes` is one `read` with the cursor as the code has it,
`IByte` what `ISerializer` finds at a position.  `Splits` says whether a packet's
bytes may come in several reads: with `FALSE` the rest is checked as it would be
on a connection that delivers each packet in one piece, `TRUE` is the run
`packet_split`.

## Runs

| Run | Instance | What it shows |
|---|---|---|
| `semaphore` | 4 threads, count up to 3 | the four properties of `Semaphore` under all interleavings |
| `thread_pool` | 2 workers, 2 producers, 3 tasks | permits, no wrong wake-up, clean stop, the abstract service, and that stopping and tasks end |
| `chat_server_safety` | 3 clients, 2 descriptors for them, 4 parts each, up to symmetry | tables and kernel agree, the copy of poll's answer stays true, packets stay whole |
| `chat_server_live` | 2 clients, 2 packets each | written packets are handled |
| `chat_server_hangup` | 1 client, 1 packet | a violation: an orderly disconnection is not noticed |
| `threaded_chat` | 3 clients, 2 pieces | the table's count and the order of broadcasts, also where threads share a descriptor or cannot be created |
| `threaded_chat_served` | 2 clients, 1 piece | a violation: a client nobody serves |
| `event_echo` | 3 connections, 2 descriptors, 2 pieces, each of the three servers | events, watched set and edges; that all three implement `EchoService`; that pieces come back |
| `fork_servers` | 2 clients, 3 pieces, both servers | descriptors; that the handler finds a child, stops and continuations aside; `EchoService`; that a client sees its end |
| `legacy_pairs` | 2 clients of up to 2 messages; ints of two bytes of one bit, and 2 operands; files of up to 5 bytes; 3 pieces of output; 3 datagrams a client and 2 faults | right answers; that a file called complete is all that was sent; that waiting ends |
| `common_parts` | 3 threads, 2 descriptors, 4 connections; 3 starts; a buffer of 3 bytes, 2 packets of 2 values | sessions current, packets arrive, loops end |
| `packet_split` | a buffer of 8 bytes, 1 packet | a violation: a packet in two reads gets gaps |

*Bounds.*  `MaxCount` bounds calls of `notify`; with four threads and three
permits, threads sleep, are woken, and lose their permit to another all at once.
Each task of `Jobs` is enqueued once: three tasks with two workers fill the
workers and the queue together, and `run` may be called any number of times.
`MaxFd` is 3, number 1 being the listening socket, so two clients are connected
while a third waits, numbers are reused, and `accept` runs out.  `MaxParts` is 4
or 6: a packet and the beginning of the next, or two packets.  A connection that
was closed can be made again, so sequences of connections are unbounded.
In `threaded_chat` three clients let two threads share the descriptor of one client
and a third client get its number; two pieces are what an order needs.
In `event_echo` three connections for two descriptors make numbers be reused and
`accept` fail; two pieces let one arrive behind another, or for another client,
while the first is served.  In `fork_servers` two clients make children end
together and one be forked beside another; three pieces cut a client's stream
around those of the other.  In `legacy_pairs` the server meets a second client
after a first that was killed at any point; an int of two bytes can be cut, and
overflows; files end at, before and after a chunk (2 bytes) and a read (3 bytes).
In `common_parts` four connections reuse two numbers, and a buffer of three bytes
takes two values, or leaves the second out, and then the values behind it may fit.

`chat_server_*`, `semaphore` and `thread_pool` check for deadlock.  The other runs do
not: `threaded_chat` stops when the server has been killed or all clients
have gone; in the others clients and pieces are bounded, and the servers wait
when there are no more, have failed or ended, or, as 09 does, read for ever without a
step.

*Fairness.*  A thread inside a call goes on: workers, a producer that has pushed,
the controller in `run`; nobody is obliged to make a call.  A woken thread gets
the mutex.  The server's loop runs.  A client between the three writes of a
message writes on, or goes away: the writes follow each other in
`client_main.cpp`, and the server's reads block without a timeout, so a client
that stopped there would stop it for everyone.  A task is assumed to return.
In the examples every process runs when it can: the server of each program, each
child, the handler of `SIGCHLD`, the loops of a ticker, a client that waits for an
answer.  Users, kills, stops, failing calls and faults of the network have no fairness.
It is weak with one exception: no action needs to be chosen again and again against
another, as a wait reports every descriptor that is ready and the servers serve them
all.  The exception is the forking parent, whose steps have strong fairness: the
handler interrupts it for every signal, and signals that keep coming leave it turns in
between, since a process returns from a handler to where it was.  A child that is
stopped is taken to be continued.
Pieces are bounded, which leaves out one behaviour on purpose: a client that never
pauses keeps 42's loop over `read` (line 144) from ever coming back to the others.

*The disagreements.*  `server/chat_server.cpp:93` says of the branch for
`POLLHUP` that "the socket has been disconnected".  A client that closes its
socket sends a FIN, which is `POLLIN` and an end of stream; `handle_client`
returns false, which `run` ignores, and nothing closes the session.  The next
`poll` returns at once, for ever, and the descriptor is lost.  `DisconnectNoticed`
states what the comment says, and TLC shows the loop.  The other properties hold
with this behaviour in the model.

`legacies/48_chat_server.c:48` says "service the client" of the thread `main`
creates, and hands it the address of `main`'s variable.  When a second client is
accepted before the thread has read it, both threads serve the second client and
nobody the first.  `ServicesItsClient` states the comment, and TLC shows the two
clients.  `OneEntryPerThread` and `BroadcastOrder` hold nevertheless: a thread that
does not find its descriptor takes the last entry out, whose client then misses
the conversation, and the count stays right.

`common/network/tools.cpp:40` indexes an `int32_t*` with a count of bytes, so what a
second `read` returns goes to four times its place, and `NO_ERROR` is returned.
`BytesInOrder` states what `read_nbytes` is for (`legacies/07_echo_client01.c:50` warns
that a read may return less, and 08 and 09 show the loop with a byte pointer), and
TLC shows a packet that comes in two reads.

*In the models, and contradicting nothing the repository says:* the thread pool's
`run(false)` never returns when there are tasks and no workers; a second
`unregister_session` of the same number may close the session of the next
connection; zombies stay when children end together; 37 writes the last line
once more at the end of a stream; 08 reads for ever when its server has gone, as
09 does for a client that has gone, and those queued behind it wait as long; the
threaded chat's `read` on a descriptor another thread closed fails for ever, and a
client whose thread could not be created (48:50) keeps its entry and is served by
nobody; a child that is stopped or continued makes the handler of 23 test a status
nobody wrote, which may end the server with "Child exited abnormally!!" (23:28,
118-120); 14:52 prints "Received file data completely" with part of a file when the
server fails in the middle (13:94-99).  *Seen and left out:* 09 does not compare
`op_count` with its buffer of 100; 13 prints its response without a terminating zero;
24 does not look at `fgets`' end; a type below 0 indexes the handlers' table before
its start; `Ticker`'s `m_lastTick` is never initialised, and a detached loop may
outlive its object; `session.cpp:51` cannot be reached, since `get` never refuses.

*Symmetry* is used in `chat_server_safety`, which checks invariants only.  The clients of
`threaded_chat` and `fork_servers` are numbered in the order they are accepted, which
leaves no two of them alike.

## Proofs

All theorems are for every value of the constants, with the assumptions named in
the modules: finitely many threads, workers and producers, model values that
differ, at least one descriptor.

* `SemaphoreProofs`: `NeverOverdrawn` is inductive by itself; `NoLostWakeup` needs
  that a thread is never both asleep and woken, and the size of a set that gains or
  loses a member.  Each action maps to a step of `CountingSemaphore` or to a stutter.
* `ThreadPoolProofs`: the invariant (`Inductive` in `ThreadPool`) adds to the
  types the count of permits (`PermitsMatchTasks`), what the controller's place
  says about flags, queue and workers (`LifeCycle`), and that a task is in one
  place (`UniqueTasks`).  `PermitsMatchTasks` alone is not inductive: that the
  controller may reset its loop counter on leaving needs that every worker has
  exited, and that no worker has exited before needs the flags.
  `PoolImplementsTaskService` maps the controller's place to the phase of the
  service.
* `ChatServerProofs`: that sessions are those of the kernel's table is inductive
  by itself.  That the copy of poll's answer stays true needs that a client has
  one descriptor (`Connections`), and that the copy names a descriptor once
  (`Entries`, from `PolledAreOpen`), so that closing or reading one entry takes
  nothing back from the others.  `FrameSync` needs that the server only reads
  from clients, which `Entries` says.
* `ThreadedChatProofs`: that the table has an entry for each thread at work, and for
  each that could not be created (`OneEntryPerThread`), rests on where the threads are
  (`AtWork`: a thread that is about to be created is not at work yet), not on which
  descriptor an entry names.  The assumption that there are no more clients than
  `MAX_CLNT` is what makes `clnt_socks` a sequence that `Register` can append to:
  48:45 writes the 257th past the table, and nothing here speaks of that case.
  `BroadcastOrder` is not inductive: a broadcast may add a piece
  behind another only because that piece is nowhere else (`OnePlace`: in one
  client's queue, or with one thread, or got), and because a client that has the
  piece of the thread that holds the mutex has got nothing since (`LastSent`).

* `EventEchoProofs`: that the events of a wait stay true, that the watched
  descriptors are the open ones, and that no edge is lost are inductive together
  only, given that the descriptor being served was taken out of the events and is
  open (`ServesOne`), that a connection has one descriptor at most (a clause of
  `WatchedAreOpen`), and none before it is accepted (`InOnePlace`): closing or
  reading one descriptor then takes nothing back from the event of another.  For
  `ImplementsEcho` the pieces read are counted against those written and the one in
  the buffer (`Accounted`); a client that has closed gets nothing more.
* `ForkServersProofs`: `HoldsOnlyItsOwn` follows from where a process is and what it
  holds there (`Places`), and a connection has one process, since `fork` runs once for
  an accepted one.  `HandlerHasChild` is kept by counting the zombies: each child that
  ends adds one, and may add the one signal; each run of the handler takes one away.  A
  stopped child adds a signal and no zombie, so the count says nothing while `stray` is
  true; it is right again when the handler returns with no signal pending, as there is
  then nothing left to count (`LastStray`).  It needs that the log server, which has no
  handler, never gets a signal (`ByKind`).  `ImplementsEcho` is as in `EventEcho`, with
  what was written to a log taken without the rubbish of a failed read, which comes
  last.
* `MCCommonProofs`: `SessionsCurrent` for the session manager.  `accept` hands out
  free descriptors only, so of the threads between `accept` and `Emplace` no two have
  the same one (`Inductive` in `SessionManager`); and a task has the lock, so what it
  was called with is still in the map.  `PacketsArrive` for `PacketWire`, under the
  hypothesis `~Splits`: with `Splits` it is the subject of `packet_split`.  All that was
  sent is one sequence of words and bytes (`Sent`), of which `handle_client` has read
  so much (`Position`), and what is under way is what follows, all of it unless the client
  ended (`StreamInOrder`); what it has read behind the last whole packet is the beginning
  of the next (`PacketInOrder`).  That sequence is put together packet by packet and a
  packet value by value, so three lemmas are inductions: `SerializedBytes`, that a value
  lies at the sum of the sizes before it if it ends within the buffer, whether or not
  others behind it were left out; `SentItem`, where a packet is in the sequence; and
  `SentMore`, that another packet changes nothing before it.
* `MCLegacyPairsProofs`: an inductive invariant for each of the five programs.  In
  `EchoPair`, the bytes under way are what is missing of the answer, also, as a bound,
  after the server was killed; in `FilePair`, a byte that was written is under way or
  received, all of the file has been written once `feof` is true, and the end of the
  stream comes after `feof` or after a failure, so a client that calls its file complete
  with less has met a server that failed before the end; in `PipeClient`, `ls` holds a
  write end as long as it has something to write; in `UdpEcho`, a client that the
  network delivered nothing twice for has at most one datagram out, its last. In
  `CalcPair` what `read_nbytes` has put together, followed by what is under way, is the
  client's request as far as it was written (`RequestInOrder`), and the same of the
  answer (`AnswerInOrder`), of which a server that failed sent all or nothing; of the
  layout of an int only that its bytes tell its value is used.  `CalculateRight`, that
  wrapping in every round comes to wrapping once, is an induction over the operands.
  The library's induction theorems cannot be used here, so it takes the first round
  that would go wrong (`SmallestNat`, from `WFMin`) and the one before it; that the loop
  has a value at all (`LoopRuns`) is shown the same way.

Every invariant and action property of the runs that pass is stated by a theorem.
*Only model-checked*, because
liveness and `ENABLED` are out of its reach: `StopReturns`, `AcceptedTaskRuns`,
`PacketHandled`, `EveryPieceEchoed`, `ClientFinishes`, `PendingEnds`, `TickerStops` and
the fairness part of `ImplementsCounting`.

## Abstractions

* A piece is what one read returns and is shorter than the buffer; the bytes are
  kept only where they are put together (`CalcPair`, `PacketWire`).
* Clients of `EventEcho` and `ForkServers` take all that is written to them, so a
  `write` is never short.  For 42, whose descriptors are non-blocking and whose
  `write` is not looked at, a client that does not read would lose the rest of a piece.
* All that is ready fits one `epoll_wait` (`EPOLL_SIZE`) and one `fd_set`
  (`FD_SETSIZE`), which `EventEchoAssumption` states.
* `write` of the four bytes of the calculator's answer is one step, whole.
* The header words of a packet are read whole.  They are cut like the bytes behind
  them could be, with the same error and a write beyond the variable.
* `register_session`'s caller is a thread that has accepted the connection.
* A session's own mutex is left out: each call under it is one system call or one copy.
* The C++ library and the kernel are taken to do what their standards promise.

## Not modelled, and why

* `src/BSD/chat_kqueue_server.c`: line 66 calls `handle_error` when `kevent` did *not*
  fail, so the program ends after it has registered its listening socket.
* The thread examples (45, 46, 47): a counter under one mutex, a hand-over between two
  semaphores; what could go wrong there is checked on `Semaphore` and `ThreadPool`.
* The fork, signal and pipe examples (19-21, 25, 40): one `fork`, one pipe or one handler
  each; their use with sockets is in `ForkServers` and `PipeClient`.
* The hello pair and the remaining examples (addresses, byte orders, socket options,
  multicast, `readv`, `dup`): straight-line programs without a state to check.
* `echo_client` and `send_file` of `ChatServer`, `PollManager::clear`: no caller the
  running server reaches.
* Formatting of addresses and messages, and logging.

## Plan

1. An abstract specification of the packets a client's session exchanges, which
   `ChatServer` implements.
