------------------------------ MODULE EchoPair ------------------------------
(***************************************************************************)
(* An iterative echo server and its clients, which ask in rounds:          *)
(*   "plain"  legacies/06_echo_server01.c, with clients that read once for *)
(*            each message (07_echo_client01.c, "once") or until they have *)
(*            as much as they sent (08_echo_client02.c, "whole")           *)
(*   "stdio"  legacies/37_echo_std_server.c, with clients that read lines  *)
(*            (38_echo_std_client.c, "line")                               *)
(*                                                                         *)
(* A connection is two counts of bytes under way: nothing overtakes in it, *)
(* and a read returns any part of what is there.  A client is one          *)
(* connection, named by its place in the order they are accepted.          *)
(***************************************************************************)
EXTENDS Integers, FiniteSets

CONSTANTS NumClients,  \* bound: clients that come
          MaxLen,      \* bound: bytes of a message
          MaxRounds    \* bound: messages a client sends

Clients == 1 .. NumClients
Nobody  == 0

VARIABLES
    server,    \* which program
    spc,       \* where the server is
    cur,       \* the client it serves
    len,       \* bytes of message it read last
    eof,       \* the stdio server has seen the end of its client
    reads,     \* how each client reads
    peer,      \* kernel: the client's end
    up, down,  \* kernel: bytes under way to the server and back
    cpc,       \* where each client is
    rounds,    \* messages it has sent
    str_len,   \* bytes of the message it sent last
    recv_len   \* bytes of the answer it has

serverv == <<spc, cur, len, eof>>
clientv == <<cpc, rounds, str_len, recv_len>>
vars    == <<server, serverv, reads, peer, up, down, clientv>>

Listening == spc = "accept" /\ cur = Nobody /\ len = 0 /\ eof = FALSE

(* A client is connected before it types; it is accepted in its turn. *)
Connected ==
    /\ peer = [c \in Clients |-> "up"]
    /\ up = [c \in Clients |-> 0] /\ down = up
    /\ cpc = [c \in Clients |-> "input"]
    /\ rounds = up /\ str_len = up /\ recv_len = up

Init ==
    /\ server \in {"plain", "stdio"}
    /\ reads \in [Clients -> IF server = "plain" THEN {"once", "whole"} ELSE {"line"}]
    /\ Listening /\ Connected

Add(f, c, k) == [f EXCEPT ![c] = @ + k]

-----------------------------------------------------------------------------
(* The clients *)

(* A message is typed and written.  Nobody reads it when the server has been
   killed, and a second write then kills the client as well. *)
Input(c) ==
    /\ cpc[c] = "input" /\ rounds[c] < MaxRounds
    /\ \E n \in 1 .. MaxLen :
          /\ str_len' = [str_len EXCEPT ![c] = n]
          /\ up' = IF spc = "killed" THEN up ELSE Add(up, c, n)
    /\ recv_len' = [recv_len EXCEPT ![c] = 0]
    /\ rounds' = Add(rounds, c, 1)
    /\ \/ cpc' = [cpc EXCEPT ![c] = "read"]
       \/ spc = "killed" /\ cpc' = [cpc EXCEPT ![c] = "killed"]
    /\ UNCHANGED <<server, serverv, reads, peer, down>>

ReadOnce(c) ==
    /\ cpc[c] = "read" /\ reads[c] = "once"
    /\ \E k \in 1 .. down[c] :
          down' = Add(down, c, -k) /\ recv_len' = [recv_len EXCEPT ![c] = k]
    /\ cpc' = [cpc EXCEPT ![c] = "input"]
    /\ UNCHANGED <<server, serverv, reads, peer, up, rounds, str_len>>

(* Mutant: one read is taken for the whole answer. *)
ReadUncounted(c) ==
    /\ cpc[c] = "read" /\ reads[c] = "whole"
    /\ \E k \in 1 .. down[c] :
          down' = Add(down, c, -k) /\ recv_len' = Add(recv_len, c, k)
    /\ cpc' = [cpc EXCEPT ![c] = "input"]
    /\ UNCHANGED <<server, serverv, reads, peer, up, rounds, str_len>>

(* Each read may return as much as the buffer holds, wherever it writes. *)
ReadWhole(c) ==
    /\ cpc[c] = "read" /\ reads[c] = "whole"
    /\ \E k \in 1 .. down[c] :
          /\ down' = Add(down, c, -k) /\ recv_len' = Add(recv_len, c, k)
          /\ cpc' = [cpc EXCEPT ![c] = IF recv_len'[c] < str_len[c] THEN "read" ELSE "input"]
    /\ UNCHANGED <<server, serverv, reads, peer, up, rounds, str_len>>

(* fgets() returns when it has the end of the line. *)
ReadLine(c) ==
    /\ cpc[c] = "read" /\ reads[c] = "line" /\ down[c] >= str_len[c]
    /\ down' = Add(down, c, -str_len[c])
    /\ recv_len' = [recv_len EXCEPT ![c] = str_len[c]]
    /\ cpc' = [cpc EXCEPT ![c] = "input"]
    /\ UNCHANGED <<server, serverv, reads, peer, up, rounds, str_len>>

(* The server has gone.  The read returns 0, which is not -1: the client that
   wants the whole answer reads again for ever, the others go on. *)
ReadNothing(c) ==
    /\ cpc[c] = "read" /\ down[c] = 0 /\ spc = "killed" /\ reads[c] # "whole"
    /\ cpc' = [cpc EXCEPT ![c] = "input"]
    /\ UNCHANGED <<server, serverv, reads, peer, up, down, rounds, str_len, recv_len>>

(* Q: what the client has not read makes its close a reset. *)
Quit(c) ==
    /\ cpc[c] = "input" /\ peer[c] = "up"
    /\ cpc' = [cpc EXCEPT ![c] = "done"]
    /\ peer' = [peer EXCEPT ![c] = IF down[c] = 0 THEN "gone" ELSE "reset"]
    /\ UNCHANGED <<server, serverv, reads, up, down, rounds, str_len, recv_len>>

(* The client is killed, wherever it is. *)
Killed(c) ==
    /\ cpc[c] \in {"input", "read"} /\ peer[c] = "up"
    /\ cpc' = [cpc EXCEPT ![c] = "killed"]
    /\ \E e \in {"gone", "reset"} : peer' = [peer EXCEPT ![c] = e]
    /\ UNCHANGED <<server, serverv, reads, up, down, rounds, str_len, recv_len>>

-----------------------------------------------------------------------------
(* The server *)

Accept ==
    /\ spc = "accept"
    /\ \E c \in Clients :
          /\ c = cur + 1
          /\ cur' = c
    /\ spc' = "read" /\ eof' = FALSE
    /\ UNCHANGED <<server, len, reads, peer, up, down, clientv>>

Ended(c) == up[c] = 0 /\ peer[c] \in {"gone", "dead"}
Broken(c) == up[c] = 0 /\ peer[c] = "reset"

(* read(), or fgets(), which comes back with all of the one line there is. *)
Read ==
    /\ spc = "read" /\ up[cur] > 0
    /\ \E k \in 1 .. up[cur] :
          /\ server = "stdio" => k = up[cur]
          /\ len' = k /\ up' = Add(up, cur, -k)
    /\ spc' = "write"
    /\ UNCHANGED <<server, cur, eof, reads, peer, down, clientv>>

(* The plain server leaves its loop and closes the connection. *)
ReadEnd ==
    /\ server = "plain" /\ spc = "read" /\ Ended(cur)
    /\ spc' = "accept"
    /\ UNCHANGED <<server, cur, len, eof, reads, peer, up, down, clientv>>

(* It takes -1 for a length, which write() refuses, and reads on. *)
ReadError ==
    /\ server = "plain" /\ spc = "read" /\ Broken(cur)
    /\ peer' = [peer EXCEPT ![cur] = "dead"]
    /\ UNCHANGED <<server, serverv, reads, up, down, clientv>>

(* fgets() returns NULL at the end and on an error, and nobody looks: what the
   buffer holds is written again, were it the last line of the client before.
   An error does not set what feof() tests. *)
NoLine ==
    /\ server = "stdio" /\ spc = "read" /\ (Ended(cur) \/ Broken(cur))
    /\ eof' = Ended(cur)
    /\ peer' = IF Broken(cur) THEN [peer EXCEPT ![cur] = "dead"] ELSE peer
    /\ spc' = "write"
    /\ UNCHANGED <<server, cur, len, reads, up, down, clientv>>

(* Where the server goes when it has written: feof() is tested then. *)
AfterWrite == IF eof THEN "accept" ELSE "read"

(* Mutant: what was read is not all written. *)
WriteShort ==
    /\ spc = "write" /\ peer[cur] = "up"
    /\ \E k \in 1 .. len : down' = Add(down, cur, k)
    /\ spc' = AfterWrite
    /\ UNCHANGED <<server, cur, len, eof, reads, peer, up, clientv>>

(* Before any line was read the buffer holds anything, perhaps an empty one. *)
Write ==
    /\ spc = "write"
    /\ \/ /\ peer[cur] = "up" /\ down' = Add(down, cur, len) /\ spc' = AfterWrite
          /\ UNCHANGED peer
       \/ /\ peer[cur] \in {"gone", "reset"} /\ spc' = AfterWrite
          /\ \/ UNCHANGED peer /\ peer[cur] = "gone"
             \/ peer' = [peer EXCEPT ![cur] = "dead"]
          /\ UNCHANGED down
       \/ peer[cur] = "dead" /\ spc' = "killed" /\ UNCHANGED <<peer, down>>
       \/ len = 0 /\ spc' = AfterWrite /\ UNCHANGED <<peer, down>>
    /\ UNCHANGED <<server, cur, len, eof, reads, up, clientv>>

-----------------------------------------------------------------------------

ServerStep == Accept \/ Read \/ ReadEnd \/ ReadError \/ NoLine \/ Write
Answer(c)  == ReadOnce(c) \/ ReadWhole(c) \/ ReadLine(c) \/ ReadNothing(c)

Next ==
    \/ ServerStep
    \/ \E c \in Clients : Input(c) \/ Answer(c) \/ Quit(c) \/ Killed(c)

-----------------------------------------------------------------------------

(* Types: every variable has a value of its type. *)
TypeOK ==
    /\ server \in {"plain", "stdio"}
    /\ spc \in {"accept", "read", "write", "killed"}
    /\ cur \in 0 .. NumClients
    /\ len \in Nat /\ eof \in BOOLEAN
    /\ reads \in [Clients -> {"once", "whole", "line"}]
    /\ peer \in [Clients -> {"up", "gone", "reset", "dead"}]
    /\ up \in [Clients -> Nat]
    /\ down \in [Clients -> Nat]
    /\ cpc \in [Clients -> {"input", "read", "done", "killed"}]
    /\ rounds \in [Clients -> 0 .. MaxRounds]
    /\ str_len \in [Clients -> 0 .. MaxLen]
    /\ recv_len \in [Clients -> Nat]

UnderWay(c) == up[c] + down[c] + (IF cur = c /\ spc = "write" THEN len ELSE 0)

(* The clients that count, or wait for the line: what is under way is exactly
   what is missing of this round's answer.  So a read never runs past the
   message in the buffer, though it is allowed the whole buffer, and the next
   round finds nothing of this one in the connection. *)
RoundsApart ==
    \A c \in Clients :
        reads[c] # "once" /\ peer[c] = "up" /\ spc # "killed" =>
            /\ recv_len[c] <= str_len[c]
            /\ UnderWay(c) = str_len[c] - recv_len[c]
            /\ cpc[c] = "input" => UnderWay(c) = 0

(* What every step keeps: also after the server was killed, what a client has
   still to read belongs to its last message. *)
Inductive ==
    /\ TypeOK
    /\ spc \in {"read", "write"} => cur \in Clients
    /\ \A c \in Clients : reads[c] # "once" /\ peer[c] = "up" =>
          /\ recv_len[c] + down[c] <= str_len[c]
          /\ cpc[c] = "input" => down[c] = 0
    /\ RoundsApart

(* A client that is being served waits for an answer. *)
Pending(c) == cpc[c] = "read" /\ cur = c /\ spc # "killed"
=============================================================================
