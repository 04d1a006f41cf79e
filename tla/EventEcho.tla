------------------------------ MODULE EventEcho ------------------------------
(***************************************************************************)
(* The echo servers that wait for events in one thread:                    *)
(*   "select"  legacies/27_echo_select_server.c                            *)
(*   "level"   legacies/41_echo_EPLT_server.c, level-triggered epoll       *)
(*   "edge"    legacies/42_echo_EPET_server.c, edge-triggered epoll        *)
(*                                                                         *)
(* Each is a loop: wait until descriptors are ready, then serve them one   *)
(* by one, while the clients go on.  A client is one connection, named by  *)
(* its place in the order they are made; a piece is what one read returns, *)
(* and pieces are numbered as they are sent.                               *)
(* Clients take what is written to them, so a write to one is never short. *)
(***************************************************************************)
EXTENDS Integers, Sequences, FiniteSets

CONSTANTS NumClients,  \* bound: connections that are made
          MaxPieces,   \* bound: pieces the clients send
          FdLimit      \* descriptors the process can have open for clients

EPOLL_SIZE == 50      \* events one epoll_wait returns
FD_SETSIZE == 1024    \* descriptors an fd_set has room for

(* One epoll_wait returns everything that is ready, and descriptors fit. *)
ASSUME EventEchoAssumption ==
    /\ NumClients \in 0 .. EPOLL_SIZE - 1
    /\ MaxPieces \in Nat
    /\ FdLimit \in 1 .. FD_SETSIZE - 1

Clients   == 1 .. NumClients
Nobody    == 0
serv_sock == 0        \* opened first: lower than every client's descriptor
Fds       == 1 .. FdLimit
NoFd      == -1

VARIABLES
    server,   \* which program
    fdtab,    \* kernel: the connection a descriptor refers to
    backlog,  \* kernel: connections waiting to be accepted
    peer,     \* kernel: the client's end
    ready,    \* kernel, edge-triggered: descriptors that got something since
    sent,     \* what each client sent
    taken,    \* how many of its pieces the server has read
    got,      \* what was written to each client while it was there
    watched,  \* clients in the fd_set reads, or in the epoll instance
    fd_max,   \* select's highest descriptor
    events,   \* descriptors reported and not yet served
    serving,  \* the descriptor being served
    buf,      \* the piece read and not yet written, 0 if none
    alive     \* the server has not ended

clientv == <<sent, peer>>
loop    == <<events, serving, buf>>
vars    == <<server, fdtab, backlog, clientv, ready, taken, got, watched, fd_max, loop, alive>>

(* The server listens, and watches its listening socket only. *)
Listening ==
    /\ watched = {} /\ fd_max = serv_sock
    /\ events = {} /\ serving = NoFd /\ buf = 0 /\ alive = TRUE

Init ==
    /\ server \in {"select", "level", "edge"} /\ Listening
    /\ fdtab = [fd \in Fds |-> Nobody] /\ backlog = {}
    /\ peer = [c \in Clients |-> "none"]
    /\ ready = {}
    /\ sent = [c \in Clients |-> <<>>] /\ got = sent
    /\ taken = [c \in Clients |-> 0]

-----------------------------------------------------------------------------
(* The kernel.  The ends of a connection: "up"; "half", the client has shut  *)
(* down its side but still reads; "gone", it has closed; "reset", it broke   *)
(* off and the next call on the descriptor fails; "dead", that call was made *)
(* or the end had been read before.                                          *)

Open      == {fd \in Fds : fdtab[fd] # Nobody}
Unread(c) == taken[c] < Len(sent[c])
Over(c)   == peer[c] \in {"half", "gone", "dead"}

(* A read of this connection would not block. *)
Readable(c) == Unread(c) \/ Over(c) \/ peer[c] = "reset"

(* Something arrived for c: its descriptor gets an edge. *)
Wake(c) == ready' = IF server = "edge" THEN ready \cup {fd \in watched : fdtab[fd] = c}
                                       ELSE ready

-----------------------------------------------------------------------------
(* The clients *)

Connect(c) ==
    /\ peer[c] = "none" /\ \A d \in 1 .. c - 1 : peer[d] # "none"
    /\ peer' = [peer EXCEPT ![c] = "up"]
    /\ backlog' = backlog \cup {c}
    /\ UNCHANGED <<server, fdtab, sent, ready, taken, got, watched, fd_max, loop, alive>>

SentSoFar == UNION {{sent[c][k] : k \in DOMAIN sent[c]} : c \in Clients}

Send(c) ==
    /\ peer[c] = "up"
    /\ Cardinality(SentSoFar) < MaxPieces
    /\ sent' = [sent EXCEPT ![c] = Append(@, Cardinality(SentSoFar) + 1)]
    /\ Wake(c)
    /\ UNCHANGED <<server, fdtab, backlog, peer, taken, got, watched, fd_max, loop, alive>>

(* shutdown(SHUT_WR), close(), or an end that breaks the connection off. *)
End(c) ==
    /\ \/ peer[c] = "up"   /\ \E e \in {"half", "gone", "reset"} : peer' = [peer EXCEPT ![c] = e]
       \/ peer[c] = "half" /\ \E e \in {"gone", "dead"} : peer' = [peer EXCEPT ![c] = e]
    /\ Wake(c)
    /\ UNCHANGED <<server, fdtab, backlog, sent, taken, got, watched, fd_max, loop, alive>>

-----------------------------------------------------------------------------
(* The server *)

Fires(fd) ==
    IF fd = serv_sock THEN backlog # {}
    ELSE /\ fd \in watched /\ Readable(fdtab[fd])
         /\ server = "select" => fd <= fd_max
         /\ server = "edge" => fd \in ready

(* Mutant: the scan tests the set that was asked about, not the answer. *)
WaitUncopied ==
    /\ events = {} /\ serving = NoFd
    /\ \E fd \in Fds \cup {serv_sock} : Fires(fd)
    /\ events' = {fd \in Fds \cup {serv_sock} : Fires(fd)}
                    \cup (IF server = "select" THEN watched ELSE {})
    /\ ready' = {}
    /\ UNCHANGED <<server, fdtab, backlog, clientv, taken, got, watched, fd_max, serving, buf, alive>>

(* select() or epoll_wait(): everything that is ready is reported. *)
Wait ==
    /\ events = {} /\ serving = NoFd
    /\ events' = {fd \in Fds \cup {serv_sock} : Fires(fd)}
    /\ events' # {}
    /\ ready' = {}
    /\ UNCHANGED <<server, fdtab, backlog, clientv, taken, got, watched, fd_max, serving, buf, alive>>

(* select's scan goes upwards; epoll reports in any order. *)
IsNext(fd) ==
    /\ fd \in events
    /\ server = "select" => \A other \in events : fd <= other

First(c)       == \A d \in backlog : c <= d
LowestFree(fd) == fd \notin Open /\ \A other \in Fds \ Open : fd <= other

(* Mutant: fd_max stays as it was. *)
AcceptKeepsMax ==
    /\ serving = NoFd /\ IsNext(serv_sock)
    /\ \E c \in backlog, fd \in Fds :
          /\ First(c) /\ LowestFree(fd)
          /\ fdtab' = [fdtab EXCEPT ![fd] = c]
          /\ backlog' = backlog \ {c}
          /\ watched' = watched \cup {fd}
          /\ ready' = IF server = "edge" /\ Readable(c) THEN ready \cup {fd} ELSE ready
    /\ events' = events \ {serv_sock}
    /\ UNCHANGED <<server, clientv, taken, got, fd_max, serving, buf, alive>>

(* accept_client or accept_routine: the new descriptor is watched. *)
Accept ==
    /\ serving = NoFd /\ IsNext(serv_sock)
    /\ \E c \in backlog, fd \in Fds :
          /\ First(c) /\ LowestFree(fd)
          /\ fdtab' = [fdtab EXCEPT ![fd] = c]
          /\ backlog' = backlog \ {c}
          /\ watched' = watched \cup {fd}
          /\ fd_max' = IF server = "select" /\ fd_max < fd THEN fd ELSE fd_max
          /\ ready' = IF server = "edge" /\ Readable(c) THEN ready \cup {fd} ELSE ready
    /\ events' = events \ {serv_sock}
    /\ UNCHANGED <<server, clientv, taken, got, serving, buf, alive>>

(* Mutant: the result of accept is not tested, and -1 is watched. *)
AcceptUntested ==
    /\ serving = NoFd /\ IsNext(serv_sock) /\ Open = Fds
    /\ watched' = watched \cup {NoFd}
    /\ events' = events \ {serv_sock}
    /\ UNCHANGED <<server, fdtab, backlog, clientv, ready, taken, got, fd_max, serving, buf, alive>>

(* No descriptor is left: the select server ends, the others go on. *)
AcceptFails ==
    /\ serving = NoFd /\ IsNext(serv_sock) /\ Open = Fds
    /\ alive' = (server # "select")
    /\ events' = events \ {serv_sock}
    /\ UNCHANGED <<server, fdtab, backlog, clientv, ready, taken, got, watched, fd_max, serving, buf>>

(* serv_client or serve_routine is at a read() of c: it goes on with its
   descriptor, or is called for the next one. *)
Reads(c, fd) ==
    /\ buf = 0 /\ fd \in Fds /\ c = fdtab[fd]
    /\ fd = serving \/ (serving = NoFd /\ IsNext(fd))

ReadPiece(c, fd) ==
    /\ Reads(c, fd) /\ Unread(c)
    /\ buf' = sent[c][taken[c] + 1]
    /\ taken' = [taken EXCEPT ![c] = @ + 1]
    /\ serving' = fd /\ events' = events \ {fd}
    /\ UNCHANGED <<server, fdtab, backlog, clientv, ready, got, watched, fd_max, alive>>

(* Mutant: the descriptor is closed and stays in the set. *)
ReadEndKeeps(c, fd) ==
    /\ Reads(c, fd) /\ ~Unread(c) /\ Over(c)
    /\ fdtab' = [fdtab EXCEPT ![fd] = Nobody]
    /\ ready' = ready \ {fd}
    /\ serving' = NoFd /\ events' = events \ {fd}
    /\ UNCHANGED <<server, backlog, clientv, taken, got, watched, fd_max, buf, alive>>

(* read() returns 0: the client is forgotten and its descriptor closed. *)
ReadEnd(c, fd) ==
    /\ Reads(c, fd) /\ ~Unread(c) /\ Over(c)
    /\ watched' = watched \ {fd}
    /\ fdtab' = [fdtab EXCEPT ![fd] = Nobody]
    /\ ready' = ready \ {fd}
    /\ serving' = NoFd /\ events' = events \ {fd}
    /\ UNCHANGED <<server, backlog, clientv, taken, got, fd_max, buf, alive>>

(* read() returns -1 for a connection that was broken off.  The select server
   ends; the others pass -1 to write as the length, which has no effect, and
   the level-triggered one leaves the rest to the next round. *)
ReadError(c, fd) ==
    /\ Reads(c, fd) /\ ~Unread(c) /\ peer[c] = "reset"
    /\ peer' = [peer EXCEPT ![c] = "dead"]
    /\ alive' = (server # "select")
    /\ serving' = IF server = "edge" THEN fd ELSE NoFd
    /\ events' = events \ {fd}
    /\ UNCHANGED <<server, fdtab, backlog, sent, ready, taken, got, watched, fd_max, buf>>

(* EAGAIN ends the edge-triggered server's loop; the others never come here
   again after their one read. *)
ReadAgain(c, fd) ==
    /\ Reads(c, fd) /\ ~Readable(c) /\ server = "edge"
    /\ serving' = NoFd /\ events' = events \ {fd}
    /\ UNCHANGED <<server, fdtab, backlog, clientv, ready, taken, got, watched, fd_max, buf, alive>>

(* write(): to a client that has closed it may provoke a reset; the first
   write after a reset fails, the next raises SIGPIPE, which kills. *)
Deliver(c) ==
    \/ /\ peer[c] \in {"up", "half"}
       /\ got' = [got EXCEPT ![c] = Append(@, buf)]
       /\ UNCHANGED <<peer, ready, alive>>
    \/ /\ peer[c] \in {"gone", "reset"}
       /\ \/ UNCHANGED <<peer, ready>> /\ peer[c] = "gone"
          \/ peer' = [peer EXCEPT ![c] = "dead"] /\ Wake(c)
       /\ UNCHANGED <<got, alive>>
    \/ /\ peer[c] = "dead" /\ alive' = FALSE
       /\ UNCHANGED <<peer, ready, got>>

(* Mutant: the answer goes to the highest descriptor. *)
WriteToLast ==
    /\ buf # 0
    /\ \E fd \in Open : (\A other \in Open : other <= fd) /\ Deliver(fdtab[fd])
    /\ buf' = 0
    /\ serving' = IF server = "edge" THEN serving ELSE NoFd
    /\ UNCHANGED <<server, fdtab, backlog, sent, taken, watched, fd_max, events>>

(* Mutant: the edge-triggered server reads only once, too. *)
WriteOnce ==
    /\ buf # 0 /\ Deliver(fdtab[serving])
    /\ buf' = 0
    /\ serving' = NoFd
    /\ UNCHANGED <<server, fdtab, backlog, sent, taken, watched, fd_max, events>>

Write ==
    /\ buf # 0 /\ Deliver(fdtab[serving])
    /\ buf' = 0
    /\ serving' = IF server = "edge" THEN serving ELSE NoFd
    /\ UNCHANGED <<server, fdtab, backlog, sent, taken, watched, fd_max, events>>

-----------------------------------------------------------------------------

ServerStep ==
    /\ alive
    /\ \/ Wait \/ Accept \/ AcceptFails \/ Write
       \/ \E c \in Clients, fd \in Fds :
             ReadPiece(c, fd) \/ ReadEnd(c, fd) \/ ReadError(c, fd) \/ ReadAgain(c, fd)

ClientStep == alive /\ \E c \in Clients : Connect(c) \/ Send(c) \/ End(c)

Next == ServerStep \/ ClientStep

(* The server is a process that runs when it can. *)
Spec == Init /\ [][Next]_vars /\ WF_vars(ServerStep)

-----------------------------------------------------------------------------

(* Types: every variable has a value of its type. *)
TypeOK ==
    /\ server \in {"select", "level", "edge"}
    /\ fdtab \in [Fds -> Clients \cup {Nobody}]
    /\ backlog \subseteq Clients
    /\ peer \in [Clients -> {"none", "up", "half", "gone", "reset", "dead"}]
    /\ ready \subseteq Fds
    /\ sent \in [Clients -> Seq(1 .. MaxPieces)]
    /\ taken \in [Clients -> Nat]
    /\ got \in [Clients -> Seq(1 .. MaxPieces)]
    /\ watched \subseteq Fds
    /\ fd_max \in Fds \cup {serv_sock}
    /\ events \subseteq Fds \cup {serv_sock}
    /\ serving \in Fds \cup {NoFd}
    /\ buf \in 0 .. MaxPieces
    /\ alive \in BOOLEAN

(* A reported descriptor is served after others were accepted and closed, and
   is then still open, still the one that was ready, and still ready: the
   accept or the read for it does not block the only thread there is. *)
EventsCurrent ==
    /\ serv_sock \in events => backlog # {}
    /\ \A fd \in events \ {serv_sock} : fd \in Open /\ Readable(fdtab[fd])

(* What the server watches is what it has open, with one descriptor for each
   connection and none beyond fd_max: select() is never given a closed
   descriptor, which would end the server, and never misses an open one. *)
WatchedAreOpen ==
    /\ watched = Open
    /\ \A fd, other \in Open : fdtab[fd] = fdtab[other] => fd = other
    /\ server = "select" => \A fd \in watched : fd <= fd_max

(* An edge is reported once.  A connection with something to read has one that
   was not reported yet, or was not served yet, or is being served: otherwise
   nothing would ever call serve_routine for it again. *)
NoEdgeLost ==
    server = "edge" /\ alive =>
        \A fd \in watched :
            Readable(fdtab[fd]) => fd \in ready \cup events \cup {serving}

(* A connection that waits to be accepted, or is not made yet, has no
   descriptor. *)
InOnePlace ==
    \A c \in Clients : c \in backlog \/ peer[c] = "none" =>
        /\ c \in backlog => peer[c] # "none"
        /\ \A fd \in Fds : fdtab[fd] # c

(* The descriptor being served is open and was taken from the events. *)
ServesOne ==
    /\ serving # NoFd => serving \in Open /\ serving \notin events
    /\ buf # 0 => serving # NoFd

Held(c) == IF buf # 0 /\ fdtab[serving] = c THEN 1 ELSE 0

(* What was read is what was written, to a client that is there, and the piece
   in the buffer, which is the last that was read. *)
Accounted ==
    /\ \A c \in Clients :
          /\ taken[c] <= Len(sent[c])
          /\ peer[c] \in {"none", "up", "half"} => Len(got[c]) + Held(c) = taken[c]
    /\ buf # 0 => /\ taken[fdtab[serving]] > 0
                  /\ buf = sent[fdtab[serving]][taken[fdtab[serving]]]

(* What is inductive: descriptors and events, given where connections are, and
   the answers, given what was read. *)
Inductive ==
    /\ TypeOK /\ EventsCurrent /\ WatchedAreOpen /\ NoEdgeLost
    /\ InOnePlace /\ ServesOne /\ Accounted

Echo == INSTANCE EchoService WITH Pieces <- 1 .. MaxPieces

(* Whatever descriptors are closed and handed out again, what comes back to a
   client is what it sent, in order. *)
ImplementsEcho == Echo!Spec

(* Everything a client sends comes back, unless the client closes or breaks
   off, the server ends, or it is out of descriptors: no client waits on
   another's events, nor on an event that was reported already. *)
EveryPieceEchoed ==
    \A c \in Clients :
        got[c] # sent[c] ~> \/ got[c] = sent[c] \/ peer[c] \notin {"up", "half"}
                            \/ ~alive \/ (Open = Fds /\ c \in backlog)
=============================================================================
