------------------------------- MODULE UdpEcho -------------------------------
(***************************************************************************)
(* legacies/11_udp_echo_server.c and 12_udp_echo_client.c.  A client sends *)
(* one datagram and waits for one, without a time limit and without a look *)
(* at what it is.  The network delivers datagrams in any order, loses some *)
(* and delivers some twice.  A message is its number.                      *)
(***************************************************************************)
EXTENDS Integers

CONSTANTS Clients,      \* the addresses
          MaxMessages,  \* bound: messages of a client
          MaxFaults     \* bound: datagrams lost or delivered twice

Nobody    == [from |-> 0, message |-> 0]
Datagrams == [from : Clients, message : 1 .. MaxMessages]

VARIABLES
    up, down,  \* kernel: datagrams on the way, with the client's address
    held,      \* what the server received and will send back, or Nobody
    waiting,   \* the client has sent and not received
    sent, got, \* the client's last message, and the last it was shown
    lost,      \* the clients that a datagram was lost for
    twice,     \* the clients that one was delivered twice to, or from
    faults     \* datagrams lost or repeated so far

vars == <<up, down, held, waiting, sent, got, lost, twice, faults>>

Bound == held = Nobody

ClientsReady ==
    /\ waiting = [c \in Clients |-> FALSE]
    /\ sent = [c \in Clients |-> 0] /\ got = sent

Init ==
    /\ Bound /\ ClientsReady
    /\ up = {} /\ down = {} /\ lost = {} /\ twice = {} /\ faults = 0

Send(c) ==
    /\ ~waiting[c] /\ sent[c] < MaxMessages
    /\ sent' = [sent EXCEPT ![c] = @ + 1]
    /\ up' = up \cup {[from |-> c, message |-> sent'[c]]}
    /\ waiting' = [waiting EXCEPT ![c] = TRUE]
    /\ UNCHANGED <<down, held, got, lost, twice, faults>>

Receive(c) ==
    /\ waiting[c]
    /\ \E d \in down :
          /\ d.from = c
          /\ got' = [got EXCEPT ![c] = d.message]
          /\ down' = down \ {d}
    /\ waiting' = [waiting EXCEPT ![c] = FALSE]
    /\ UNCHANGED <<up, held, sent, lost, twice, faults>>

ServerReceive ==
    /\ held = Nobody
    /\ \E d \in up : held' = d /\ up' = up \ {d}
    /\ UNCHANGED <<down, waiting, sent, got, lost, twice, faults>>

(* Mutant: the answer goes to another address than the message came from. *)
ServerSendAstray ==
    /\ held # Nobody
    /\ \E c \in Clients : down' = down \cup {[held EXCEPT !.from = c]}
    /\ held' = Nobody
    /\ UNCHANGED <<up, waiting, sent, got, lost, twice, faults>>

ServerSend ==
    /\ held # Nobody
    /\ down' = down \cup {held} /\ held' = Nobody
    /\ UNCHANGED <<up, waiting, sent, got, lost, twice, faults>>

(* The network *)
Lose ==
    /\ faults < MaxFaults /\ faults' = faults + 1
    /\ \/ \E d \in up   : up' = up \ {d} /\ lost' = lost \cup {d.from} /\ UNCHANGED down
       \/ \E d \in down : down' = down \ {d} /\ lost' = lost \cup {d.from} /\ UNCHANGED up
    /\ UNCHANGED <<held, waiting, sent, got, twice>>

(* A datagram that arrived comes again later. *)
Repeat ==
    /\ faults < MaxFaults /\ faults' = faults + 1
    /\ \/ held # Nobody /\ up' = up \cup {held} /\ twice' = twice \cup {held.from} /\ UNCHANGED down
       \/ \E c \in Clients :
             /\ got[c] # 0 /\ twice' = twice \cup {c}
             /\ down' = down \cup {[from |-> c, message |-> got[c]]}
             /\ UNCHANGED up
    /\ UNCHANGED <<held, waiting, sent, got, lost>>

Server == ServerReceive \/ ServerSend
Next   == Server \/ Lose \/ Repeat \/ \E c \in Clients : Send(c) \/ Receive(c)

(* Types: every variable has a value of its type. *)
TypeOK ==
    /\ up \subseteq Datagrams /\ down \subseteq Datagrams
    /\ held \in Datagrams \cup {Nobody}
    /\ waiting \in [Clients -> BOOLEAN]
    /\ sent \in [Clients -> 0 .. MaxMessages] /\ got \in [Clients -> 0 .. MaxMessages]
    /\ lost \subseteq Clients /\ twice \subseteq Clients /\ faults \in 0 .. MaxFaults

(* The client compares nothing, and yet what it is shown is its last message,
   because it has one datagram out at a time; unless one came twice, and then
   it is at least one of its own and every later answer may be late. *)
OwnAnswer ==
    \A c \in Clients :
        /\ got[c] <= sent[c]
        /\ c \notin twice /\ ~waiting[c] => got[c] = sent[c]

(* d is on its way in the network or held by the server. *)
UnderWay(d) == d \in up \/ d \in down \/ d = held

(* What every step keeps: a client that the network delivered nothing twice
   for has at most one datagram out, its last one, and waits for it. *)
Inductive ==
    /\ TypeOK
    /\ OwnAnswer
    /\ \A d \in Datagrams : UnderWay(d) =>
          /\ d.message <= sent[d.from]
          /\ d.from \notin twice =>
                /\ waiting[d.from] /\ d.message = sent[d.from]
                /\ ~(d \in up /\ d \in down) /\ (d = held => d \notin up \cup down)

(* The client waits for its answer, and no datagram of its own was lost: if one
   was then, for want of a time limit, it may wait for ever. *)
Pending(c) == waiting[c] /\ c \notin lost
=============================================================================
