---------------------------- MODULE ThreadedChat ----------------------------
(***************************************************************************)
(* The chat server of legacies/48_chat_server.c with the clients of        *)
(* legacies/49_chat_client.c: main accepts, enters the descriptor in a     *)
(* table and starts a thread, which reads from its client, writes what it  *)
(* read to every descriptor of the table, and takes its client out again.  *)
(*                                                                         *)
(* A thread is named by the client whose acceptance started it.  It is     *)
(* handed the address of main's variable clnt_sock, which lies in the same *)
(* place in every round, so it reads there what main stored last.  A       *)
(* client is one connection, numbered in the order main accepts them; a    *)
(* piece is what one read returns.  Clients always read, so a write to one *)
(* does not block.                                                         *)
(***************************************************************************)
EXTENDS Integers, Sequences, FiniteSets

CONSTANTS Clients,    \* numbers of the connections, and the threads started for them
          MaxPieces,  \* bound: pieces the clients send
          Nobody      \* not a client

(* The table has 256 places and the count of clients no check. *)
MAX_CLNT == 256

ASSUME ThreadedChatAssumption ==
    /\ Clients \subseteq Nat /\ IsFiniteSet(Clients) /\ Cardinality(Clients) <= MAX_CLNT
    /\ MaxPieces \in Nat /\ Nobody \notin Clients

(* The descriptors of clients, in the order accept hands them out: enough for
   all of them. *)
Fds == 1 .. Cardinality(Clients)

VARIABLES
    fdtab,      \* kernel: the connection a descriptor refers to
    backlog,    \* kernel: connections not yet accepted, made or not
    peer,       \* kernel: the client's end
    sent,       \* pieces sent so far; a piece is its number
    unread,     \* the pieces of a client the server has not read
    got,        \* pieces written to a client that was there, in order
    alive,      \* the server process has not been killed
    main,       \* where the main thread is
    accepted,   \* the client whose thread main is about to create
    clnt_sock,  \* main's variable
    clnt_socks, \* the first clnt_cnt entries of the table
    mutex,      \* the thread that holds it
    tpc,        \* where each thread is
    sock,       \* each thread's clnt_sock
    reading,    \* the connection its read() was called on
    msg,        \* the piece it broadcasts
    i           \* send_msg's loop counter

client == <<sent, unread>>
net    == <<backlog, peer, got>>
mainv  == <<main, accepted, clnt_sock>>
thread == <<tpc, sock, reading, msg, i>>
vars   == <<fdtab, net, client, alive, mainv, clnt_socks, mutex, thread>>

Goes(t, place) == tpc' = [tpc EXCEPT ![t] = place]

Init ==
    /\ fdtab = [fd \in Fds |-> Nobody] /\ backlog = Clients
    /\ peer = [c \in Clients |-> "up"]
    /\ sent = 0
    /\ unread = [c \in Clients |-> <<>>] /\ got = unread
    /\ alive = TRUE /\ main = "accept" /\ accepted = Nobody /\ clnt_sock = 0
    /\ clnt_socks = <<>> /\ mutex = Nobody
    /\ tpc = [t \in Clients |-> "none"]
    /\ sock = [t \in Clients |-> 0]
    /\ reading = [t \in Clients |-> Nobody]
    /\ msg = [t \in Clients |-> 0]
    /\ i = [t \in Clients |-> 0]

-----------------------------------------------------------------------------
(* The clients *)

Write(c) ==
    /\ peer[c] = "up" /\ sent < MaxPieces
    /\ sent' = sent + 1
    /\ unread' = [unread EXCEPT ![c] = Append(@, sent')]
    /\ UNCHANGED <<fdtab, net, alive, mainv, clnt_socks, mutex, thread>>

(* The client exits: in good order, or with something it had not read yet. *)
Quit(c) ==
    /\ peer[c] = "up"
    /\ \E end \in {"fin", "reset"} : peer' = [peer EXCEPT ![c] = end]
    /\ UNCHANGED <<fdtab, backlog, got, client, alive, mainv, clnt_socks, mutex, thread>>

-----------------------------------------------------------------------------
(* main *)

LowestFree(fd) ==
    fdtab[fd] = Nobody /\ \A other \in Fds : fdtab[other] = Nobody => fd <= other

First(c) == \A d \in backlog : c <= d

Accept ==
    /\ main = "accept"
    /\ \E fd \in Fds, c \in backlog :
          /\ LowestFree(fd) /\ First(c)
          /\ fdtab' = [fdtab EXCEPT ![fd] = c]
          /\ clnt_sock' = fd
          /\ accepted' = c /\ backlog' = backlog \ {c}
    /\ main' = "register"
    /\ UNCHANGED <<peer, got, client, alive, clnt_socks, mutex, thread>>

(* clnt_socks[clnt_cnt++] = clnt_sock under the mutex, and the thread is
   created; when it starts to run is another matter.  That pthread_create()
   fails nobody notices: the entry stays for good, and pthread_detach() of a
   thread that is not there may go well or end the process. *)
Register ==
    /\ main = "register" /\ mutex = Nobody
    /\ clnt_socks' = Append(clnt_socks, clnt_sock)
    /\ \/ Goes(accepted, "start") /\ UNCHANGED alive
       \/ Goes(accepted, "failed") /\ alive' \in BOOLEAN
    /\ main' = "accept" /\ accepted' = Nobody
    /\ UNCHANGED <<fdtab, net, client, clnt_sock, mutex, sock, reading, msg, i>>

-----------------------------------------------------------------------------
(* handle_clnt *)

Start(t) ==
    /\ tpc[t] = "start"
    /\ sock' = [sock EXCEPT ![t] = clnt_sock]
    /\ Goes(t, "read")
    /\ UNCHANGED <<fdtab, net, client, alive, mainv, clnt_socks, mutex, reading, msg, i>>

(* read() holds on to the connection the descriptor has when it is called. *)
ReadCall(t) ==
    /\ tpc[t] = "read"
    /\ reading' = [reading EXCEPT ![t] = fdtab[sock[t]]]
    /\ Goes(t, "wait")
    /\ UNCHANGED <<fdtab, net, client, alive, mainv, clnt_socks, mutex, sock, msg, i>>

Ended(c)   == peer[c] \in {"fin", "reset"}
Waiting(t) == tpc[t] = "wait" /\ reading[t] # Nobody

ReadPiece(t) ==
    LET c == reading[t] IN
    /\ Waiting(t) /\ unread[c] # <<>>
    /\ msg' = [msg EXCEPT ![t] = Head(unread[c])]
    /\ unread' = [unread EXCEPT ![c] = Tail(@)]
    /\ reading' = [reading EXCEPT ![t] = Nobody]
    /\ Goes(t, "lock")
    /\ UNCHANGED <<fdtab, net, sent, alive, mainv, clnt_socks, mutex, sock, i>>

(* Mutant: the end of the stream is broadcast like a piece. *)
ReadEndSends(t) ==
    LET c == reading[t] IN
    /\ Waiting(t) /\ unread[c] = <<>> /\ Ended(c)
    /\ reading' = [reading EXCEPT ![t] = Nobody]
    /\ Goes(t, "lock")
    /\ UNCHANGED <<fdtab, net, client, alive, mainv, clnt_socks, mutex, sock, msg, i>>

ReadEnd(t) ==
    LET c == reading[t] IN
    /\ Waiting(t) /\ unread[c] = <<>> /\ Ended(c)
    /\ reading' = [reading EXCEPT ![t] = Nobody]
    /\ Goes(t, "remove")
    /\ UNCHANGED <<fdtab, net, client, alive, mainv, clnt_socks, mutex, sock, msg, i>>

(* -1 is not 0: send_msg is called with a length no write takes, and the
   loop goes on.  So it does for ever on a closed descriptor, and once after a
   reset, unless a write had the error; the model keeps no account of it. *)
ReadError(t) ==
    LET c == reading[t] IN
    /\ tpc[t] = "wait"
    /\ c = Nobody \/ (Waiting(t) /\ unread[c] = <<>> /\ peer[c] = "reset")
    /\ reading' = [reading EXCEPT ![t] = Nobody]
    /\ Goes(t, "read")
    /\ UNCHANGED <<fdtab, net, client, alive, mainv, clnt_socks, mutex, sock, msg, i>>

(* Mutant: send_msg does not take the mutex. *)
NoLock(t) ==
    /\ tpc[t] = "lock"
    /\ mutex' = t
    /\ i' = [i EXCEPT ![t] = 1]
    /\ Goes(t, "send")
    /\ UNCHANGED <<fdtab, net, client, alive, mainv, clnt_socks, sock, reading, msg>>

Lock(t) ==
    /\ tpc[t] = "lock" /\ mutex = Nobody
    /\ mutex' = t
    /\ i' = [i EXCEPT ![t] = 1]
    /\ Goes(t, "send")
    /\ UNCHANGED <<fdtab, net, client, alive, mainv, clnt_socks, sock, reading, msg>>

(* write() to a client.  One that has closed its socket answers with a reset,
   at some time; after a reset a write fails or the signal SIGPIPE, which
   nothing handles, kills the server. *)
Deliver(c, piece) ==
    \/ /\ peer[c] = "up"
       /\ got' = [got EXCEPT ![c] = Append(@, piece)]
       /\ UNCHANGED <<peer, alive>>
    \/ /\ peer[c] = "fin"
       /\ \E end \in {"fin", "reset"} : peer' = [peer EXCEPT ![c] = end]
       /\ UNCHANGED <<got, alive>>
    \/ /\ peer[c] = "reset"
       /\ alive' \in BOOLEAN
       /\ UNCHANGED <<got, peer>>

Send(t) ==
    /\ tpc[t] = "send" /\ i[t] <= Len(clnt_socks)
    /\ LET c == fdtab[clnt_socks[i[t]]]
       IN  IF c = Nobody THEN UNCHANGED <<got, peer, alive>> ELSE Deliver(c, msg[t])
    /\ i' = [i EXCEPT ![t] = @ + 1]
    /\ UNCHANGED <<fdtab, backlog, client, mainv, clnt_socks, mutex, tpc, sock, reading, msg>>

Unlock(t) ==
    /\ tpc[t] = "send" /\ i[t] > Len(clnt_socks)
    /\ mutex' = Nobody
    /\ msg' = [msg EXCEPT ![t] = 0] /\ i' = [i EXCEPT ![t] = 0]
    /\ Goes(t, "read")
    /\ UNCHANGED <<fdtab, net, client, alive, mainv, clnt_socks, sock, reading>>

(* The place of a descriptor in the table, or its last place. *)
Place(fd, k) ==
    /\ clnt_socks[k] = fd \/ k = Len(clnt_socks)
    /\ \A j \in 1 .. k - 1 : clnt_socks[j] # fd

Without(k) ==
    [j \in 1 .. Len(clnt_socks) - 1 |-> IF j < k THEN clnt_socks[j] ELSE clnt_socks[j + 1]]

(* Mutant: a descriptor that is not in the table leaves the count alone. *)
RemoveFound(t) ==
    /\ tpc[t] = "remove" /\ mutex = Nobody
    /\ \/ \E k \in 1 .. Len(clnt_socks) :
             clnt_socks[k] = sock[t] /\ Place(sock[t], k) /\ clnt_socks' = Without(k)
       \/ (\A k \in 1 .. Len(clnt_socks) : clnt_socks[k] # sock[t]) /\ UNCHANGED clnt_socks
    /\ Goes(t, "close")
    /\ UNCHANGED <<fdtab, net, client, alive, mainv, mutex, sock, reading, msg, i>>

(* The first entry that matches is closed up; the count goes down also when
   there is none, and then the last entry is lost. *)
Remove(t) ==
    /\ tpc[t] = "remove" /\ mutex = Nobody
    /\ \E k \in 1 .. Len(clnt_socks) : Place(sock[t], k) /\ clnt_socks' = Without(k)
    /\ Goes(t, "close")
    /\ UNCHANGED <<fdtab, net, client, alive, mainv, mutex, sock, reading, msg, i>>

(* close() frees whatever the descriptor is now, if anything. *)
Close(t) ==
    /\ tpc[t] = "close"
    /\ fdtab' = [fdtab EXCEPT ![sock[t]] = Nobody]
    /\ sock' = [sock EXCEPT ![t] = 0]
    /\ Goes(t, "done")
    /\ UNCHANGED <<net, client, alive, mainv, clnt_socks, mutex, reading, msg, i>>

-----------------------------------------------------------------------------

ThreadStep(t) ==
    \/ Start(t) \/ ReadCall(t) \/ ReadPiece(t) \/ ReadEnd(t) \/ ReadError(t)
    \/ Lock(t) \/ Send(t) \/ Unlock(t) \/ Remove(t) \/ Close(t)

Next ==
    /\ alive
    /\ \/ \E c \in Clients : Write(c) \/ Quit(c)
       \/ Accept \/ Register
       \/ \E t \in Clients : ThreadStep(t)

Spec == Init /\ [][Next]_vars

-----------------------------------------------------------------------------

Ends   == {"up", "fin", "reset"}
Places == {"none", "failed", "start", "read", "wait", "lock", "send", "remove", "close", "done"}

TypeOK ==
    /\ fdtab \in [Fds -> Clients \cup {Nobody}]
    /\ backlog \subseteq Clients
    /\ peer \in [Clients -> Ends]
    /\ sent \in 0 .. MaxPieces
    /\ unread \in [Clients -> Seq(1 .. MaxPieces)]
    /\ got \in [Clients -> Seq(1 .. MaxPieces)]
    /\ alive \in BOOLEAN
    /\ main \in {"accept", "register"}
    /\ accepted \in Clients \cup {Nobody}
    /\ clnt_sock \in Fds \cup {0}
    /\ clnt_socks \in Seq(Fds)
    /\ mutex \in Clients \cup {Nobody}
    /\ tpc \in [Clients -> Places]
    /\ sock \in [Clients -> Fds \cup {0}]
    /\ reading \in [Clients -> Clients \cup {Nobody}]
    /\ msg \in [Clients -> 0 .. MaxPieces]
    /\ i \in [Clients -> Nat]

(* The threads that have yet to take an entry out of the table, and those that
   could not be created and never will. *)
Entered == {t \in Clients : tpc[t] \notin {"none", "close", "done"}}

(* clnt_cnt counts the threads still at work or never created, even when two of
   them have the same descriptor and neither the other client's: it never goes
   below zero and the table never has an entry too many. *)
OneEntryPerThread ==
    Len(clnt_socks) = Cardinality(Entered)

(* A thread that was created finds a descriptor in clnt_sock, has it until it
   closes it, and broadcasts a piece; one that was not has no place. *)
AtWork ==
    /\ \A c \in backlog : tpc[c] = "none"
    /\ main = "register" =>
          clnt_sock \in Fds /\ accepted \in Clients \ backlog /\ tpc[accepted] = "none"
    /\ \A t \in Clients :
          /\ tpc[t] # "none" => clnt_sock \in Fds
          /\ tpc[t] \notin {"none", "failed", "start", "done"} => sock[t] \in Fds
          /\ tpc[t] \in {"lock", "send"} => msg[t] \in 1 .. MaxPieces

Has(s, x)       == \E k \in 1 .. Len(s) : s[k] = x
Before(s, x, y) == \E j, k \in 1 .. Len(s) : j < k /\ s[j] = x /\ s[k] = y
Once(s)         == \A j, k \in 1 .. Len(s) : s[j] = s[k] => j = k

Broadcasts(t) == tpc[t] \in {"lock", "send"}

(* Everybody sees the conversation in the same order: if two clients got the
   same two pieces, they got them the same way round. *)
BroadcastOrder ==
    \A c \in Clients : \A j, k \in 1 .. Len(got[c]) : j < k /\ got[c][j] # got[c][k] =>
        \A d \in Clients : ~Before(got[d], got[c][k], got[c][j])

(* A piece that was not read is with one client and nowhere else; one that was
   is with one thread; and no client has it before that thread has the mutex. *)
OnePlace ==
    /\ \A c \in Clients : Once(unread[c])
    /\ \A c \in Clients, x \in 1 .. MaxPieces : Has(unread[c], x) =>
          /\ x <= sent
          /\ \A d \in Clients : ~Has(got[d], x) /\ (d # c => ~Has(unread[d], x))
          /\ \A t \in Clients : Broadcasts(t) => msg[t] # x
    /\ \A t \in Clients : Broadcasts(t) =>
          msg[t] <= sent /\ \A u \in Clients \ {t} : Broadcasts(u) => msg[u] # msg[t]
    /\ \A c \in Clients, x \in 1 .. MaxPieces : Has(got[c], x) =>
          x <= sent /\ \A t \in Clients : tpc[t] = "lock" => msg[t] # x

(* Once a client has what the holder of the mutex broadcasts, it gets nothing
   else. *)
LastSent ==
    \A t \in Clients : tpc[t] = "send" =>
        /\ mutex = t
        /\ \A c \in Clients, y \in 1 .. MaxPieces :
              y # msg[t] => ~Before(got[c], msg[t], y)

(* What is inductive: one entry for each thread, given where the threads are,
   and one order for all clients, given where the pieces are. *)
Inductive ==
    TypeOK /\ AtWork /\ OneEntryPerThread /\ OnePlace /\ LastSent /\ BroadcastOrder

(* "service the client", says main of the thread it creates: a thread at work
   has the client it was created for. *)
ServicesItsClient ==
    \A t \in Clients :
        tpc[t] \in {"read", "wait", "lock", "send"} => fdtab[sock[t]] = t
=============================================================================
