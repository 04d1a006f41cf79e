----------------------------- MODULE ForkServers -----------------------------
(***************************************************************************)
(* The servers that fork a process for each client:                        *)
(*   "echo"  legacies/23_echo_mp_server.c, whose clients are those of      *)
(*           legacies/24_echo_mp_client.c, and whose handler of SIGCHLD is *)
(*           that of legacies/22_remove_zombie.c                           *)
(*   "log"   legacies/43_mp_log_server.c, which writes what it reads to a  *)
(*           file                                                          *)
(*                                                                         *)
(* A socket lives as long as some process holds it, and a fork copies all  *)
(* the parent holds.  A client is one connection, named by its place in    *)
(* the order they are made, and so is the process forked for it; a piece   *)
(* is what one read returns, and is shorter than the buffer.               *)
(***************************************************************************)
EXTENDS Integers, Sequences, FiniteSets

CONSTANTS NumClients,  \* bound: connections that are made
          MaxPieces    \* bound: pieces the clients send

ASSUME ForkServersAssumption == NumClients \in Nat /\ MaxPieces \in Nat

Clients  == 1 .. NumClients
Parent   == 0
Nobody   == 0
Procs    == Clients \cup {Parent}
Listener == -1   \* serv_sock
Junk     == 0    \* what is in a log and no client sent

VARIABLES
    kind,       \* which program
    holds,      \* kernel: the sockets each process has open
    backlog,    \* kernel: connections waiting to be accepted
    peer,       \* kernel: the client's end
    sent,       \* what each client sent
    taken,      \* how many of its pieces were read
    got,        \* what was written to the client while it was there, or to its log
    at,         \* where each process is
    clnt_sock,  \* the parent's variable
    buf,        \* the piece a process read and has not written, or 0
    pending,    \* SIGCHLD is pending at the parent
    handling,   \* the parent is in handler_sigchld
    stray       \* history: a child was stopped or continued since the handler
                \* last returned with no signal pending

clientv == <<peer, sent>>
signal  == <<pending, handling, stray>>
vars    == <<kind, holds, backlog, clientv, taken, got, at, clnt_sock, buf, signal>>

Goes(p, place) == at' = [at EXCEPT ![p] = place]

(* The echo server has set up its handler before. *)
Listening ==
    /\ holds = [p \in Procs |-> IF p = Parent THEN {Listener} ELSE {}]
    /\ at = [p \in Procs |-> IF p = Parent THEN "accept" ELSE "none"]
    /\ clnt_sock = Nobody /\ pending = FALSE /\ handling = FALSE
    /\ stray = FALSE

Init ==
    /\ Listening /\ kind \in {"echo", "log"}
    /\ backlog = {}
    /\ peer = [c \in Clients |-> "none"]
    /\ sent = [c \in Clients |-> <<>>] /\ got = sent
    /\ taken = [c \in Clients |-> 0]
    /\ buf = [p \in Procs |-> 0]

-----------------------------------------------------------------------------
(* The clients.  The ends of a connection are those of EventEcho.            *)

IsHeld(s) == \E p \in Procs : s \in holds[p]

Connect(c) ==
    /\ peer[c] = "none" /\ \A d \in 1 .. c - 1 : peer[d] # "none"
    /\ IsHeld(Listener)
    /\ peer' = [peer EXCEPT ![c] = "up"]
    /\ backlog' = backlog \cup {c}
    /\ UNCHANGED <<kind, holds, sent, taken, got, at, clnt_sock, buf, signal>>

SentSoFar == UNION {{sent[c][k] : k \in DOMAIN sent[c]} : c \in Clients}

Send(c) ==
    /\ peer[c] = "up" /\ Cardinality(SentSoFar) < MaxPieces
    /\ sent' = [sent EXCEPT ![c] = Append(@, Cardinality(SentSoFar) + 1)]
    /\ UNCHANGED <<kind, holds, backlog, peer, taken, got, at, clnt_sock, buf, signal>>

(* shutdown(SHUT_WR): the client's writer is done, its reader goes on. *)
Shutdown(c) ==
    /\ peer[c] = "up"
    /\ peer' = [peer EXCEPT ![c] = "half"]
    /\ UNCHANGED <<kind, holds, backlog, sent, taken, got, at, clnt_sock, buf, signal>>

(* Both processes of the client end, perhaps with something unread. *)
Leave(c) ==
    /\ \/ peer[c] = "up"   /\ \E e \in {"gone", "reset"} : peer' = [peer EXCEPT ![c] = e]
       \/ peer[c] = "half" /\ \E e \in {"gone", "dead"} : peer' = [peer EXCEPT ![c] = e]
    /\ UNCHANGED <<kind, holds, backlog, sent, taken, got, at, clnt_sock, buf, signal>>

-----------------------------------------------------------------------------
(* The parent *)

First(c) == \A d \in backlog : c <= d

Accept ==
    /\ at[Parent] = "accept"
    /\ \E c \in backlog :
          /\ First(c) /\ backlog' = backlog \ {c}
          /\ clnt_sock' = c
          /\ holds' = [holds EXCEPT ![Parent] = @ \cup {c}]
    /\ Goes(Parent, "fork")
    /\ UNCHANGED <<kind, clientv, taken, got, buf, signal>>

Fork ==
    /\ at[Parent] = "fork"
    /\ at' = [at EXCEPT ![Parent] = "close", ![clnt_sock] = "start"]
    /\ holds' = [holds EXCEPT ![clnt_sock] = holds[Parent]]
    /\ UNCHANGED <<kind, backlog, clientv, taken, got, clnt_sock, buf, signal>>

(* pid is -1.  The echo server closes the connection and goes on; the log
   server takes itself for the child. *)
ForkFails ==
    /\ at[Parent] = "fork"
    /\ \/ /\ kind = "echo"
          /\ holds' = [holds EXCEPT ![Parent] = @ \ {clnt_sock}]
          /\ at' = [at EXCEPT ![Parent] = "accept", ![clnt_sock] = "refused"]
          /\ clnt_sock' = Nobody
       \/ kind = "log" /\ Goes(Parent, "start") /\ UNCHANGED <<holds, clnt_sock>>
    /\ UNCHANGED <<kind, backlog, clientv, taken, got, buf, signal>>

(* Mutant: the parent does not close the connection it gave to the child. *)
CloseForgotten ==
    /\ at[Parent] = "close"
    /\ Goes(Parent, "accept") /\ clnt_sock' = Nobody
    /\ UNCHANGED <<kind, holds, backlog, clientv, taken, got, buf, signal>>

CloseClient ==
    /\ at[Parent] = "close"
    /\ holds' = [holds EXCEPT ![Parent] = @ \ {clnt_sock}]
    /\ Goes(Parent, "accept") /\ clnt_sock' = Nobody
    /\ UNCHANGED <<kind, backlog, clientv, taken, got, buf, signal>>

-----------------------------------------------------------------------------
(* A child, or the log server that takes itself for one *)

(* Mutant: a child finds its client in the variable of the parent. *)
ServesLast(p) == IF clnt_sock = Nobody THEN p ELSE clnt_sock

Serves(p) == IF p = Parent THEN clnt_sock ELSE p

(* Mutant: the child keeps the listening socket. *)
ListenerKept(p) ==
    /\ at[p] = "start"
    /\ Goes(p, "read")
    /\ UNCHANGED <<kind, holds, backlog, clientv, taken, got, clnt_sock, buf, signal>>

CloseListener(p) ==
    /\ at[p] = "start"
    /\ holds' = [holds EXCEPT ![p] = @ \ {Listener}]
    /\ Goes(p, "read")
    /\ UNCHANGED <<kind, backlog, clientv, taken, got, clnt_sock, buf, signal>>

Unread(c) == taken[c] < Len(sent[c])

ReadPiece(p) ==
    LET c == Serves(p) IN
    /\ at[p] = "read" /\ Unread(c)
    /\ buf' = [buf EXCEPT ![p] = sent[c][taken[c] + 1]]
    /\ taken' = [taken EXCEPT ![c] = @ + 1]
    /\ Goes(p, "write")
    /\ UNCHANGED <<kind, holds, backlog, clientv, got, clnt_sock, signal>>

(* The process is over: its sockets are closed, and the parent is told. *)
Exits(p, place) ==
    /\ Goes(p, IF p = Parent THEN "ended" ELSE place)
    /\ holds' = [holds EXCEPT ![p] = {}]
    /\ buf' = [buf EXCEPT ![p] = 0]
    /\ pending' = (pending \/ (kind = "echo" /\ at[Parent] # "ended"))

(* Mutant: the child does not return from main. *)
ChildGoesOn(p) ==
    LET c == Serves(p) IN
    /\ at[p] = "read" /\ ~Unread(c) /\ peer[c] \in {"half", "gone", "dead"}
    /\ Goes(p, "accept")
    /\ UNCHANGED <<kind, holds, backlog, clientv, taken, got, clnt_sock, buf, signal>>

(* read() returns 0: the child closes the connection and returns from main. *)
ReadEnd(p) ==
    LET c == Serves(p) IN
    /\ at[p] = "read" /\ ~Unread(c) /\ peer[c] \in {"half", "gone", "dead"}
    /\ Exits(p, "zombie")
    /\ UNCHANGED <<kind, backlog, clientv, taken, got, clnt_sock, handling, stray>>

(* read() returns -1, which is not 0.  write() refuses that length; fwrite()
   takes it for the largest there is, and copies to the log what lies in the
   buffer, or crashes. *)
ReadError(p) ==
    LET c == Serves(p) IN
    /\ at[p] = "read" /\ ~Unread(c) /\ peer[c] = "reset"
    /\ peer' = [peer EXCEPT ![c] = "dead"]
    /\ \/ UNCHANGED <<holds, at, got, buf, pending>>
       \/ /\ kind = "log" /\ got' = [got EXCEPT ![c] = Append(@, Junk)]
          /\ UNCHANGED <<holds, at, buf, pending>>
       \/ kind = "log" /\ Exits(p, "killed") /\ UNCHANGED got
    /\ UNCHANGED <<kind, backlog, sent, taken, clnt_sock, handling, stray>>

(* write() to the client, as in EventEcho, where SIGPIPE kills the child; or
   fwrite() to the log. *)
Write(p) ==
    LET c == Serves(p) IN
    /\ at[p] = "write"
    /\ \/ /\ kind = "log" \/ peer[c] \in {"up", "half"}
          /\ got' = [got EXCEPT ![c] = Append(@, buf[p])]
          /\ Goes(p, "read") /\ buf' = [buf EXCEPT ![p] = 0]
          /\ UNCHANGED <<peer, holds, pending>>
       \/ /\ kind = "echo" /\ peer[c] \in {"gone", "reset"}
          /\ \/ UNCHANGED peer /\ peer[c] = "gone"
             \/ peer' = [peer EXCEPT ![c] = "dead"]
          /\ Goes(p, "read") /\ buf' = [buf EXCEPT ![p] = 0]
          /\ UNCHANGED <<got, holds, pending>>
       \/ /\ kind = "echo" /\ peer[c] = "dead"
          /\ Exits(p, "killed") /\ UNCHANGED <<got, peer>>
    /\ UNCHANGED <<kind, backlog, sent, taken, clnt_sock, handling, stray>>

-----------------------------------------------------------------------------
(* SIGCHLD and handler_sigchld.  A signal is pending or not, however often it
   is raised.  *)

Zombies == {c \in Clients : at[c] \in {"zombie", "killed"}}

(* SA_NOCLDSTOP is not among the handler's flags: a child that is stopped, and
   one that goes on, raise the signal too.  While it is stopped it takes no
   step, as at any other time between two. *)
StopOrContinue(c) ==
    /\ kind = "echo" /\ at[c] \in {"start", "read", "write"} /\ at[Parent] # "ended"
    /\ pending' = TRUE /\ stray' = TRUE
    /\ UNCHANGED <<kind, holds, backlog, clientv, taken, got, at, clnt_sock, buf, handling>>

HandlerEnter ==
    /\ pending /\ ~handling /\ at[Parent] # "ended"
    /\ pending' = FALSE /\ handling' = TRUE
    /\ UNCHANGED <<kind, holds, backlog, clientv, taken, got, at, clnt_sock, buf, stray>>

(* Mutant: the handler waits for every child that has ended. *)
ReapAll ==
    /\ handling
    /\ at' = [p \in Procs |-> IF p \in Zombies THEN "reaped" ELSE at[p]]
    /\ handling' = FALSE
    /\ UNCHANGED <<kind, holds, backlog, clientv, taken, got, clnt_sock, buf, pending, stray>>

(* waitpid() takes one of the children that have ended.  One that did not
   exit but was killed is the end of the server. *)
ReapChild(c) ==
    \/ at[c] = "zombie" /\ Goes(c, "reaped") /\ UNCHANGED holds
    \/ /\ at[c] = "killed"
       /\ at' = [at EXCEPT ![c] = "reaped", ![Parent] = "ended"]
       /\ holds' = [holds EXCEPT ![Parent] = {}]

(* No child has ended, and the status that is tested was never written: it may
   pass for an exit, or for anything else. *)
ReapNone ==
    /\ Zombies = {}
    /\ \/ UNCHANGED <<at, holds>>
       \/ Goes(Parent, "ended") /\ holds' = [holds EXCEPT ![Parent] = {}]

Reap ==
    /\ handling
    /\ ReapNone \/ \E c \in Zombies : ReapChild(c)
    /\ handling' = FALSE /\ stray' = (stray /\ pending)
    /\ UNCHANGED <<kind, backlog, clientv, taken, got, clnt_sock, buf, pending>>

-----------------------------------------------------------------------------

ParentStep == ~handling /\ (Accept \/ Fork \/ ForkFails \/ CloseClient)
Handler    == HandlerEnter \/ Reap
Child(p)   == CloseListener(p) \/ ReadPiece(p) \/ ReadEnd(p) \/ ReadError(p) \/ Write(p)
Client(c)  == Connect(c) \/ Send(c) \/ Shutdown(c) \/ Leave(c)

Next ==
    \/ ParentStep \/ Handler
    \/ \E p \in Procs : Child(p)
    \/ \E c \in Clients : Client(c) \/ StopOrContinue(c)

(* Every process runs when it can, so a child that was stopped is continued, and
   signals that keep coming leave the parent its turns between them; the
   clients do as they like. *)
Spec ==
    /\ Init /\ [][Next]_vars
    /\ SF_vars(ParentStep) /\ WF_vars(Handler)
    /\ \A p \in Procs : WF_vars(Child(p))

-----------------------------------------------------------------------------

(* Types: every variable has a value of its type. *)
TypeOK ==
    /\ kind \in {"echo", "log"}
    /\ holds \in [Procs -> SUBSET (Clients \cup {Listener})]
    /\ backlog \subseteq Clients
    /\ peer \in [Clients -> {"none", "up", "half", "gone", "reset", "dead"}]
    /\ sent \in [Clients -> Seq(1 .. MaxPieces)]
    /\ taken \in [Clients -> Nat]
    /\ got \in [Clients -> Seq(0 .. MaxPieces)]
    /\ at[Parent] \in {"accept", "fork", "close", "start", "read", "write", "ended"}
    /\ at \in [Procs -> {"none", "start", "read", "write", "zombie", "killed", "reaped",
                         "refused", "accept", "fork", "close", "ended"}]
    /\ \A c \in Clients : at[c] \notin {"accept", "fork", "close", "ended"}
    /\ clnt_sock \in Clients \cup {Nobody}
    /\ buf \in [Procs -> 0 .. MaxPieces]
    /\ pending \in BOOLEAN /\ handling \in BOOLEAN /\ stray \in BOOLEAN

(* Descriptors do not leak from process to process: the parent never forks
   with another client's connection open, and a child at work has its own
   connection and not the listening socket.  A socket held by one process too
   many is never closed for the other side. *)
HoldsOnlyItsOwn ==
    /\ at[Parent] = "accept" => holds[Parent] = {Listener}
    /\ holds[Parent] \subseteq {Listener, clnt_sock}
    /\ \A c \in Clients :
          /\ holds[c] \subseteq {Listener, c}
          /\ at[c] \in {"read", "write"} => holds[c] = {c}
          /\ at[c] \in {"zombie", "killed", "reaped", "refused"} => holds[c] = {}

(* waitpid() in the handler finds a child, so exit_stat, which it tests, was
   written, unless children were stopped or continued: signals are lost when
   children end together, but of those that their ends raise none comes too
   many, as long as each takes away one child.  What a stop brings is over
   when the handler returns and no signal is pending. *)
HandlerHasChild ==
    at[Parent] # "ended" /\ ~stray =>
        Cardinality(Zombies) >= (IF pending THEN 1 ELSE 0) + (IF handling THEN 1 ELSE 0)

(* What was written for c, without the rubbish at its end. *)
Junked(c)  == got[c] # <<>> /\ got[c][Len(got[c])] = Junk
Written(c) == IF Junked(c) THEN SubSeq(got[c], 1, Len(got[c]) - 1) ELSE got[c]

Echo == INSTANCE EchoService
            WITH Pieces <- 1 .. MaxPieces, got <- [c \in Clients |-> Written(c)]

(* What is written to a client, or to its log, is what that client sent, in
   order, but for the rubbish that comes last when a connection was broken
   off. *)
ImplementsEcho == Echo!Spec

(* The client's reader waits for the end of the stream, which comes only when
   no process has the connection: a client that has shut down its side and
   stays gets everything back and then the end, unless no process could be
   forked for it, or the server ended before that. *)
Live(c) == IsHeld(c) \/ (c \in backlog /\ IsHeld(Listener))

Unserved(c) == at[c] = "refused" \/ c \in backlog \/ (kind = "echo" /\ at[c] = "none")

ClientFinishes ==
    \A c \in Clients :
        peer[c] = "half" ~>
            \/ peer[c] # "half"
            \/ ~Live(c) /\ (got[c] = sent[c] \/ Unserved(c))

(* The log server's parent that took itself for a child, or none. *)
ParentServes == at[Parent] \in {"start", "read", "write"}

(* Where the processes are says what they hold, and each client has at most
   one process that serves it. *)
Places ==
    /\ at[Parent] \in {"fork", "close"} \/ ParentServes => clnt_sock \in Clients
    /\ at[Parent] \in {"fork", "close", "start"} => holds[Parent] = {Listener, clnt_sock}
    /\ at[Parent] = "fork" \/ ParentServes => at[clnt_sock] = "none" /\ clnt_sock \notin backlog
    /\ \A c \in Clients :
          /\ c \in backlog => at[c] = "none"
          /\ at[c] = "none" => holds[c] = {}
          /\ at[c] = "start" => holds[c] = {Listener, c}
          /\ peer[c] = "none" => at[c] = "none" /\ c \notin backlog /\ c # clnt_sock

(* Signals are the echo server's, whose parent never serves a client. *)
ByKind ==
    /\ pending \/ handling \/ stray => kind = "echo"
    /\ kind = "echo" => ~ParentServes

Held(c) == IF at[c] = "write" \/ (at[Parent] = "write" /\ clnt_sock = c) THEN 1 ELSE 0

(* What was read is what was written, to a log or to a client that is there,
   and the piece some process still has, which is the last that was read.
   After the rubbish nothing comes. *)
Accounted ==
    /\ \A c \in Clients :
          /\ taken[c] <= Len(sent[c])
          /\ kind = "log" \/ peer[c] \in {"none", "up", "half"} =>
                Len(Written(c)) + Held(c) = taken[c]
          /\ Junked(c) => peer[c] = "dead" /\ Held(c) = 0 /\ ~Unread(c)
    /\ \A p \in Procs : at[p] = "write" =>
          /\ taken[Serves(p)] > 0
          /\ buf[p] = sent[Serves(p)][taken[Serves(p)]]

(* What is inductive: what the processes hold, given where they are; the
   signals, given the children; and the answers, given what was read. *)
Inductive ==
    /\ TypeOK /\ HoldsOnlyItsOwn /\ HandlerHasChild
    /\ Places /\ ByKind /\ Accounted
=============================================================================
