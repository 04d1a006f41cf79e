----------------------------- MODULE ChatServer -----------------------------
(***************************************************************************)
(* The chat server (server/chat_server.cpp) with the sessions and the poll *)
(* set it keeps, the kernel's descriptor table and TCP connections beneath *)
(* it, and its clients (client/client_main.cpp) on the other side.  One    *)
(* thread runs the server: it polls, copies the answer, and works through  *)
(* the copy while connections come, go and bring data.  The pool of        *)
(* threads started by run() gets no task and is modelled by ThreadPool.    *)
(*                                                                         *)
(* A packet is written and read in three parts, the type, the size and the *)
(* body; a part that has arrived has arrived as a whole.                   *)
(***************************************************************************)
EXTENDS Naturals, Sequences, FiniteSets

CONSTANTS Clients,   \* the client processes
          MaxFd,     \* bound: descriptors 1 .. MaxFd for sockets
          MaxParts,  \* bound: parts a client writes on one connection
          Listener,  \* the server's listening socket
          Free       \* an unused descriptor, a session that is not there

ASSUME ChatServerAssumption ==
    /\ MaxFd \in Nat \ {0} /\ MaxParts \in Nat
    /\ Listener \notin Clients /\ Free \notin Clients /\ Listener # Free

Fds == 1 .. MaxFd

(* initialize() opens the listening socket before any other. *)
ServerFd == 1

Parts == 3

VARIABLES
    fdtab,       \* kernel: what each descriptor of the server refers to
    backlog,     \* kernel: connections not yet accepted, oldest first
    peer,        \* kernel: each client's end of its connection
    wrote,       \* parts the client has written
    got,         \* parts the server has read
    handled,     \* packets given to m_client_packet_handler
    m_sessions,  \* whose session m_session_manager holds for a descriptor
    m_pollfds,   \* m_polls
    pc,          \* where the server's thread is
    poll_result, \* what is left of the copy of the answer of poll
    stage        \* the part handle_client reads next

kernel == <<fdtab, backlog, peer>>
stream == <<wrote, got, handled>>
tables == <<m_sessions, m_pollfds>>
server == <<pc, poll_result, stage>>
vars   == <<kernel, stream, tables, server>>

Polls == INSTANCE PollManager

(* initialize() has created, bound and registered the listening socket. *)
Init ==
    /\ fdtab = [fd \in Fds |-> IF fd = ServerFd THEN Listener ELSE Free]
    /\ m_sessions = fdtab
    /\ m_pollfds = <<ServerFd>>
    /\ backlog = <<>>
    /\ peer = [c \in Clients |-> "none"]
    /\ wrote = [c \in Clients |-> 0] /\ got = wrote /\ handled = wrote
    /\ pc = "poll" /\ poll_result = <<>> /\ stage = 0

-----------------------------------------------------------------------------
(* The clients and the network *)

Connect(c) ==
    /\ peer[c] = "none" /\ pc # "exited"
    /\ peer' = [peer EXCEPT ![c] = "up"]
    /\ backlog' = Append(backlog, c)
    /\ UNCHANGED <<fdtab, stream, tables, server>>

(* One write() of the three a client makes for a message. *)
Write(c) ==
    /\ peer[c] = "up" /\ wrote[c] < MaxParts
    /\ wrote' = [wrote EXCEPT ![c] = @ + 1]
    /\ UNCHANGED <<kernel, got, handled, tables, server>>

(* The client closes its socket, by quitting or because it was killed, and
   the connection ends in good order after what was written. *)
Quit(c) ==
    /\ peer[c] = "up"
    /\ peer' = [peer EXCEPT ![c] = "fin"]
    /\ UNCHANGED <<fdtab, backlog, stream, tables, server>>

(* The connection breaks. *)
Reset(c) ==
    /\ peer[c] = "up"
    /\ peer' = [peer EXCEPT ![c] = "reset"]
    /\ UNCHANGED <<fdtab, backlog, stream, tables, server>>

-----------------------------------------------------------------------------
(* poll *)

Ended(c)    == peer[c] \in {"fin", "reset"}
Readable(c) == got[c] < wrote[c] \/ Ended(c)

(* What poll(2) answers: an end of stream is readable, and a hang-up is
   reported only once both directions are shut down. *)
Revents ==
    [fd \in Fds |->
        CASE fdtab[fd] = Listener -> IF backlog # <<>> THEN "in" ELSE "none"
          [] fdtab[fd] \in Clients ->
               IF peer[fdtab[fd]] = "reset" THEN "hup"
               ELSE IF Readable(fdtab[fd]) THEN "in" ELSE "none"
          [] OTHER -> "none"]

(* m_polls.poll(-1), which returns once something is ready, and the copy of
   its answer; "conn", the connection polled, is not in the program. *)
Poll ==
    /\ pc = "poll"
    /\ Polls!Answers(Revents)
    /\ poll_result' = [i \in 1 .. Len(m_pollfds) |->
            [fd |-> m_pollfds[i], revents |-> Revents[m_pollfds[i]],
             conn |-> fdtab[m_pollfds[i]]]]
    /\ pc' = "scan"
    /\ UNCHANGED <<kernel, stream, tables, stage>>

Current == Head(poll_result)

(* The loop over the copy is at an entry with this answer. *)
Scanning(revents) == pc = "scan" /\ poll_result # <<>> /\ Current.revents = revents

Skip ==
    /\ Scanning("none")
    /\ poll_result' = Tail(poll_result)
    /\ UNCHANGED <<kernel, stream, tables, pc, stage>>

ScanDone ==
    /\ pc = "scan" /\ poll_result = <<>>
    /\ pc' = "poll"
    /\ UNCHANGED <<kernel, stream, tables, poll_result, stage>>

-----------------------------------------------------------------------------
(* Sessions and descriptors *)

(* ~SocketSession closes the descriptor, and with it the connection. *)
CloseFd(fd) ==
    /\ fdtab' = [fdtab EXCEPT ![fd] = Free]
    /\ peer' = [peer EXCEPT ![fdtab[fd]] = "none"]
    /\ wrote' = [wrote EXCEPT ![fdtab[fd]] = 0]
    /\ got' = [got EXCEPT ![fdtab[fd]] = 0]
    /\ handled' = [handled EXCEPT ![fdtab[fd]] = 0]

(* A session that is there already is kept, with its address. *)
register_session(fd, who) ==
    m_sessions' = [m_sessions EXCEPT ![fd] = IF @ = Free THEN who ELSE @]

register_socket(fd, who) == register_session(fd, who) /\ Polls!register_socket(fd)

(* Mutant: the descriptor is closed and its session kept. *)
UnregisterKeepsSession(fd) == UNCHANGED m_sessions /\ CloseFd(fd)

unregister_session(fd) ==
    /\ m_sessions' = [m_sessions EXCEPT ![fd] = Free]
    /\ CloseFd(fd)

(* close_client, for a descriptor that reported a hang-up. *)
CloseClient ==
    /\ Scanning("hup")
    /\ poll_result' = Tail(poll_result)
    /\ IF m_sessions[Current.fd] = Free
         THEN UNCHANGED <<fdtab, peer, stream, tables>>
         ELSE unregister_session(Current.fd) /\ Polls!unregister_socket(Current.fd)
    /\ UNCHANGED <<backlog, pc, stage>>

FreeFds == {fd \in Fds : fdtab[fd] = Free}
LowestFree(fd) == fd \in FreeFds /\ \A other \in FreeFds : fd <= other

(* accept_client: accept takes the lowest free descriptor, and the program
   exits when there is none. *)
AcceptClient ==
    /\ Scanning("in") /\ Current.fd = ServerFd
    /\ backlog # <<>>
    /\ \/ /\ FreeFds = {}
          /\ pc' = "exited"
          /\ UNCHANGED <<fdtab, backlog, tables, poll_result>>
       \/ /\ \E fd \in Fds :
               /\ LowestFree(fd)
               /\ fdtab' = [fdtab EXCEPT ![fd] = Head(backlog)]
               /\ register_socket(fd, Head(backlog))
          /\ backlog' = Tail(backlog)
          /\ poll_result' = Tail(poll_result)
          /\ UNCHANGED pc
    /\ UNCHANGED <<peer, stream, stage>>

-----------------------------------------------------------------------------
(* handle_client *)

StartRead ==
    /\ Scanning("in") /\ Current.fd # ServerFd
    /\ pc' = "read" /\ stage' = 0
    /\ UNCHANGED <<kernel, stream, tables, poll_result>>

Client == fdtab[Current.fd]

(* for_session runs the packet's handler if the descriptor has a session. *)
HandlePacket(fd) ==
    handled' = IF m_sessions[fd] = Free THEN handled
               ELSE [handled EXCEPT ![m_sessions[fd]] = @ + 1]

(* Mutant: after a packet the server reads on for another one. *)
ReadPartLoop ==
    /\ pc = "read"
    /\ got[Client] < wrote[Client]
    /\ got' = [got EXCEPT ![Client] = @ + 1]
    /\ stage' = (stage + 1) % Parts
    /\ IF stage + 1 < Parts THEN UNCHANGED handled ELSE HandlePacket(Current.fd)
    /\ UNCHANGED <<kernel, wrote, tables, poll_result, pc>>

(* Mutant: the next part counts on from the last one of the packet. *)
ReadPartPast ==
    /\ pc = "read"
    /\ got[Client] < wrote[Client]
    /\ got' = [got EXCEPT ![Client] = @ + 1]
    /\ stage' = stage + 1
    /\ IF stage + 1 < Parts
         THEN UNCHANGED <<handled, pc, poll_result>>
         ELSE HandlePacket(Current.fd) /\ pc' = "scan" /\ poll_result' = Tail(poll_result)
    /\ UNCHANGED <<kernel, wrote, tables>>

(* read_nbytes has the part it wants; the body is the last, and goes to the
   handler. *)
ReadPart ==
    /\ pc = "read"
    /\ got[Client] < wrote[Client]
    /\ got' = [got EXCEPT ![Client] = @ + 1]
    /\ IF stage + 1 < Parts
         THEN stage' = stage + 1 /\ UNCHANGED <<handled, pc, poll_result>>
         ELSE /\ HandlePacket(Current.fd)
              /\ pc' = "scan" /\ poll_result' = Tail(poll_result)
              /\ UNCHANGED stage
    /\ UNCHANGED <<kernel, wrote, tables>>

(* Mutant: a read that finds nothing gives the packet up. *)
ReadEndEarly ==
    /\ pc = "read"
    /\ got[Client] = wrote[Client]
    /\ pc' = "scan" /\ poll_result' = Tail(poll_result)
    /\ UNCHANGED <<kernel, stream, tables, stage>>

(* read_nbytes finds the end of the stream or an error, and handle_client
   returns false, which run() ignores. *)
ReadEnd ==
    /\ pc = "read"
    /\ got[Client] = wrote[Client] /\ Ended(Client)
    /\ pc' = "scan" /\ poll_result' = Tail(poll_result)
    /\ UNCHANGED <<kernel, stream, tables, stage>>

(* handle_perror: the process is gone. *)
Exited == pc = "exited" /\ UNCHANGED vars

-----------------------------------------------------------------------------

ServerStep == Poll \/ Skip \/ ScanDone \/ CloseClient \/ AcceptClient \/ StartRead
              \/ ReadPart \/ ReadEnd

Next ==
    \/ \E c \in Clients : Connect(c) \/ Write(c) \/ Quit(c) \/ Reset(c)
    \/ Poll \/ Skip \/ ScanDone \/ CloseClient \/ AcceptClient \/ StartRead
    \/ ReadPart \/ ReadEnd \/ Exited

(* A client in the middle of a packet writes the rest or goes away. *)
MidPacket(c) == wrote[c] % Parts # 0 /\ (Write(c) \/ Quit(c) \/ Reset(c))

(* The server runs, and no client stops for ever inside a packet: the three
   writes of client_main.cpp follow each other.  The server blocks in read
   and has no timeout, so without this one client stops it for all. *)
Fairness == WF_vars(ServerStep) /\ \A c \in Clients : WF_vars(MidPacket(c))

Spec == Init /\ [][Next]_vars /\ Fairness

-----------------------------------------------------------------------------

Owners == Clients \cup {Listener, Free}

TypeOK ==
    /\ fdtab \in [Fds -> Owners]
    /\ m_sessions \in [Fds -> Owners]
    /\ m_pollfds \in Seq(Fds)
    /\ backlog \in Seq(Clients)
    /\ peer \in [Clients -> {"none", "up", "fin", "reset"}]
    /\ wrote \in [Clients -> 0 .. MaxParts]
    /\ got \in [Clients -> 0 .. MaxParts]
    /\ handled \in [Clients -> Nat]
    /\ pc \in {"poll", "scan", "read", "exited"}
    /\ poll_result \in Seq([fd : Fds, revents : {"none", "in", "hup"}, conn : Owners])
    /\ stage \in 0 .. Parts - 1

(* Every open descriptor has the session of the connection it is, and every
   session's descriptor is open: register_session never meets a leftover of
   an earlier connection with the same number. *)
SessionsMatchKernel == m_sessions = fdtab

(* poll watches every open descriptor, each once, and no closed one. *)
PolledAreOpen ==
    /\ {m_pollfds[i] : i \in 1 .. Len(m_pollfds)} = {fd \in Fds : fdtab[fd] # Free}
    /\ \A i, k \in 1 .. Len(m_pollfds) : m_pollfds[i] = m_pollfds[k] => i = k

(* The copy of poll's answer stays true while it is worked through: what is
   left of it names the connections that were polled, though descriptors are
   closed and reused meanwhile, and a call it leads to does not block. *)
PollResultCurrent ==
    \A i \in 1 .. Len(poll_result) :
        LET e == poll_result[i]
        IN  /\ e.conn = fdtab[e.fd]
            /\ (e.revents # "none" /\ ~(i = 1 /\ pc = "read" /\ stage > 0))
                  => Revents[e.fd] # "none"

(* The server looks for a packet only where one begins: it has read whole
   packets of every stream, except of the one it is reading now and of those
   that ended inside a packet, and it handled each packet once. *)
FrameSync ==
    \A c \in Clients :
        /\ \/ pc = "read" /\ Client = c /\ got[c] % Parts = stage
           \/ ~(pc = "read" /\ Client = c) /\ got[c] % Parts = 0
           \/ Ended(c) /\ got[c] = wrote[c]
        /\ handled[c] = got[c] \div Parts

(* The kernel's side: a client has one connection, which waits to be accepted
   or has one descriptor; the listening socket keeps its own. *)
Connections ==
    /\ \A f, g \in Fds : fdtab[f] = fdtab[g] /\ fdtab[f] \in Clients => f = g
    /\ \A i, k \in 1 .. Len(backlog) : backlog[i] = backlog[k] => i = k
    /\ \A i \in 1 .. Len(backlog), f \in Fds : backlog[i] # fdtab[f]
    /\ \A i \in 1 .. Len(backlog) : peer[backlog[i]] # "none"
    /\ \A f \in Fds : fdtab[f] \in Clients => peer[fdtab[f]] # "none"
    /\ \A f \in Fds : fdtab[f] = Listener <=> f = ServerFd

(* The server's side: what is left of the copy of poll's answer. *)
Entries ==
    /\ \A i, k \in 1 .. Len(poll_result) : poll_result[i].fd = poll_result[k].fd => i = k
    /\ \A i \in 1 .. Len(poll_result) :
          LET e == poll_result[i]
          IN  /\ e.conn = fdtab[e.fd] /\ fdtab[e.fd] # Free
              /\ e.revents = "hup" => Revents[e.fd] = "hup"
              /\ e.revents = "in" /\ ~(i = 1 /\ pc = "read" /\ stage > 0)
                    => Revents[e.fd] # "none"
    /\ pc = "poll" => poll_result = <<>>
    /\ pc = "read" => /\ poll_result # <<>>
                      /\ Current.fd # ServerFd /\ Current.revents = "in"

(* The inductive invariant behind the properties above. *)
Inductive ==
    /\ TypeOK /\ SessionsMatchKernel /\ PolledAreOpen
    /\ Connections /\ Entries /\ FrameSync

(* A packet that was written is handled, unless its connection breaks first
   or the server has run out of descriptors. *)
PacketHandled ==
    \A c \in Clients : \A n \in 1 .. MaxParts \div Parts :
        (peer[c] = "up" /\ wrote[c] = Parts * n)
            ~> (handled[c] >= n \/ peer[c] \in {"reset", "none"} \/ pc = "exited")

(* Of the branch for POLLHUP the code says "the socket has been
   disconnected": a client that disconnects has its session closed. *)
DisconnectNoticed ==
    \A c \in Clients : (peer[c] = "fin") ~> (peer[c] = "none" \/ pc = "exited")
=============================================================================
