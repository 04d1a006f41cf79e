---------------------------- MODULE MCLegacyPairs ----------------------------
(***************************************************************************)
(* The small programs of legacies/ that talk in pairs, for TLC: one of     *)
(* them runs in each behaviour.  The modules share the names of their      *)
(* variables, and those the running program does not have stay at 0.       *)
(***************************************************************************)
EXTENDS Integers

CONSTANTS NumClients, MaxLen, MaxRounds,       \* EchoPair
          WordSize, Base, Modulus, Layout, MaxOperands, \* CalcPair
          MaxSize, Chunk, Room,                \* FilePair
          MaxOutput,                           \* PipeClient
          MaxMessages, MaxFaults               \* UdpEcho

(* The bytes of an int, the least significant first. *)
LittleEndian ==
    [w \in 0 .. Modulus - 1 |-> [k \in 1 .. WordSize |-> (w \div Base ^ (k - 1)) % Base]]

(* What the proofs need to know about the bounds, and about an int: it has room
   for the largest count, and its bytes tell its value. *)
ASSUME MCLegacyPairsAssumption ==
    /\ NumClients \in Nat /\ MaxLen \in Nat /\ MaxRounds \in Nat /\ MaxSize \in Nat
    /\ Chunk \in Nat /\ Room \in Nat /\ MaxOutput \in Nat
    /\ MaxMessages \in Nat /\ MaxFaults \in Nat

ASSUME CalcAssumption ==
    /\ WordSize \in Nat \ {0} /\ Base \in Nat \ {0, 1} /\ Modulus \in Nat \ {0, 1}
    /\ MaxOperands \in 0 .. Modulus - 1
    /\ Layout \in [0 .. Modulus - 1 -> [1 .. WordSize -> 0 .. Base - 1]]
    /\ \A v, w \in 0 .. Modulus - 1 : Layout[v] = Layout[w] => v = w

Clients == 1 .. NumClients

VARIABLES
    program,
    server, spc, cur, len, eof, reads, peer, up, down, cpc, rounds, str_len, recv_len,
    client, backlog, asked, operator, memory, recv_pos, operands, cmemory, crecv_pos, result,
    size, pos, shut, received, thanks,
    holds, pc, output, written, passed,
    held, waiting, sent, got, lost, twice, faults

EchoPairs  == INSTANCE EchoPair
CalcPairs  == INSTANCE CalcPair
FilePairs  == INSTANCE FilePair
PipeClients == INSTANCE PipeClient
UdpEchos   == INSTANCE UdpEcho

(* What each program does not have. *)
noEcho == <<client, backlog, asked, operator, memory, recv_pos, operands, cmemory, crecv_pos, result,
            size, pos, shut, received, thanks, holds, pc, output, written, passed,
            held, waiting, sent, got, lost, twice, faults>>
noCalc == <<server, cur, len, eof, reads, peer, rounds, str_len, recv_len,
            size, pos, shut, received, thanks, holds, pc, output, written, passed,
            held, waiting, sent, got, lost, twice, faults>>
noFile == <<server, cur, len, reads, peer, up, rounds, str_len, recv_len,
            client, backlog, asked, operator, memory, recv_pos, operands, cmemory, crecv_pos, result,
            holds, pc, output, written, passed, held, waiting, sent, got, lost, twice, faults>>
noPipe == <<server, spc, cur, len, eof, reads, peer, up, down, cpc, rounds, str_len, recv_len,
            client, backlog, asked, operator, memory, recv_pos, operands, cmemory, crecv_pos, result,
            size, pos, shut, received, thanks, held, waiting, sent, got, lost, twice, faults>>
noUdp  == <<server, spc, cur, len, eof, reads, peer, cpc, rounds, str_len, recv_len,
            client, backlog, asked, operator, memory, recv_pos, operands, cmemory, crecv_pos, result,
            size, pos, shut, received, thanks, holds, pc, output, written, passed>>

vars == <<program, server, spc, cur, len, eof, reads, peer, up, down, cpc, rounds, str_len,
          recv_len, client, asked, operator, memory, recv_pos, operands, backlog, cmemory, crecv_pos,
          result, size, pos, shut, received, thanks, holds, pc, output, written, passed,
          held, waiting, sent, got, lost, twice, faults>>

(* \A variables of `others` = 0, in a form that TLC takes for assignments. *)
Init ==
    \/ /\ program = "echo" /\ EchoPairs!Init
       /\ client = 0 /\ asked = 0 /\ operator = 0 /\ memory = 0 /\ recv_pos = 0 /\ operands = 0
       /\ cmemory = 0 /\ crecv_pos = 0 /\ result = 0 /\ backlog = 0
       /\ size = 0 /\ pos = 0 /\ shut = 0 /\ received = 0 /\ thanks = 0
       /\ holds = 0 /\ pc = 0 /\ output = 0 /\ written = 0 /\ passed = 0
       /\ held = 0 /\ waiting = 0 /\ sent = 0 /\ got = 0 /\ lost = 0 /\ twice = 0 /\ faults = 0
    \/ /\ program = "calc" /\ CalcPairs!Init
       /\ server = 0 /\ cur = 0 /\ len = 0 /\ eof = 0 /\ reads = 0 /\ peer = 0
       /\ rounds = 0 /\ str_len = 0 /\ recv_len = 0
       /\ size = 0 /\ pos = 0 /\ shut = 0 /\ received = 0 /\ thanks = 0
       /\ holds = 0 /\ pc = 0 /\ output = 0 /\ written = 0 /\ passed = 0
       /\ held = 0 /\ waiting = 0 /\ sent = 0 /\ got = 0 /\ lost = 0 /\ twice = 0 /\ faults = 0
    \/ /\ program = "file" /\ FilePairs!Init
       /\ server = 0 /\ cur = 0 /\ len = 0 /\ reads = 0 /\ peer = 0 /\ up = 0
       /\ rounds = 0 /\ str_len = 0 /\ recv_len = 0
       /\ client = 0 /\ asked = 0 /\ operator = 0 /\ memory = 0 /\ recv_pos = 0 /\ operands = 0
       /\ cmemory = 0 /\ crecv_pos = 0 /\ result = 0 /\ backlog = 0
       /\ holds = 0 /\ pc = 0 /\ output = 0 /\ written = 0 /\ passed = 0
       /\ held = 0 /\ waiting = 0 /\ sent = 0 /\ got = 0 /\ lost = 0 /\ twice = 0 /\ faults = 0
    \/ /\ program = "pipe" /\ PipeClients!Init
       /\ server = 0 /\ spc = 0 /\ cur = 0 /\ len = 0 /\ eof = 0 /\ reads = 0 /\ peer = 0
       /\ up = 0 /\ down = 0 /\ cpc = 0 /\ rounds = 0 /\ str_len = 0 /\ recv_len = 0
       /\ client = 0 /\ asked = 0 /\ operator = 0 /\ memory = 0 /\ recv_pos = 0 /\ operands = 0
       /\ cmemory = 0 /\ crecv_pos = 0 /\ result = 0 /\ backlog = 0
       /\ size = 0 /\ pos = 0 /\ shut = 0 /\ received = 0 /\ thanks = 0
       /\ held = 0 /\ waiting = 0 /\ sent = 0 /\ got = 0 /\ lost = 0 /\ twice = 0 /\ faults = 0
    \/ /\ program = "udp" /\ UdpEchos!Init
       /\ server = 0 /\ spc = 0 /\ cur = 0 /\ len = 0 /\ eof = 0 /\ reads = 0 /\ peer = 0
       /\ cpc = 0 /\ rounds = 0 /\ str_len = 0 /\ recv_len = 0
       /\ client = 0 /\ asked = 0 /\ operator = 0 /\ memory = 0 /\ recv_pos = 0 /\ operands = 0
       /\ cmemory = 0 /\ crecv_pos = 0 /\ result = 0 /\ backlog = 0
       /\ size = 0 /\ pos = 0 /\ shut = 0 /\ received = 0 /\ thanks = 0
       /\ holds = 0 /\ pc = 0 /\ output = 0 /\ written = 0 /\ passed = 0

-----------------------------------------------------------------------------

Echo(A) == program = "echo" /\ A /\ UNCHANGED <<program, noEcho>>
Calc(A) == program = "calc" /\ A /\ UNCHANGED <<program, noCalc>>
File(A) == program = "file" /\ A /\ UNCHANGED <<program, noFile>>
Pipe(A) == program = "pipe" /\ A /\ UNCHANGED <<program, noPipe>>
Udp(A)  == program = "udp"  /\ A /\ UNCHANGED <<program, noUdp>>

Next == \/ Echo(EchoPairs!Next) \/ Calc(CalcPairs!Next) \/ File(FilePairs!Next)
        \/ Pipe(PipeClients!Next) \/ Udp(UdpEchos!Next)

(* A process that can take a step takes it; users type when they like, are
   killed or not, and the network may lose nothing or all it is allowed to. *)
Server == \/ Echo(EchoPairs!ServerStep) \/ Calc(CalcPairs!ServerStep)
          \/ File(FilePairs!ServerStep) \/ Pipe(PipeClients!Ls) \/ Udp(UdpEchos!Server)

Client(c) == \/ Echo(EchoPairs!Answer(c)) \/ Udp(UdpEchos!Receive(c))
             \/ c = 1 /\ (Calc(CalcPairs!ClientStep) \/ File(FilePairs!ClientStep)
                            \/ Pipe(PipeClients!Parent))

Spec == Init /\ [][Next]_vars /\ WF_vars(Server) /\ \A c \in Clients : WF_vars(Client(c))

-----------------------------------------------------------------------------
(* Types: every variable of the running program has a value of its type. *)
TypeOK ==
    /\ program = "echo" => EchoPairs!TypeOK
    /\ program = "calc" => CalcPairs!TypeOK
    /\ program = "file" => FilePairs!TypeOK
    /\ program = "pipe" => PipeClients!TypeOK
    /\ program = "udp"  => UdpEchos!TypeOK

(* EchoPair: a client that reads until it has as many bytes as it sent never
   has more of them, and none are left for its next round. *)
RoundsApart == program = "echo" => EchoPairs!RoundsApart

(* CalcPair: however the stream is cut into reads, and whatever client was
   killed half way, a client is told the result of its own operands. *)
ResultRight == program = "calc" => CalcPairs!ResultRight

(* FilePair: when the client believes the file complete, it has every byte,
   unless the server failed before the end.
   PipeClient: when the log server's connection ends, all that ls wrote has
   gone through it. *)
TransferComplete ==
    /\ program = "file" => FilePairs!Complete
    /\ program = "pipe" => PipeClients!Complete

(* UdpEcho: a client is shown the answer to its last message, unless the
   network delivered one twice. *)
OwnAnswer == program = "udp" => UdpEchos!OwnAnswer

(* What the proofs use: the inductive invariants of the five programs. *)
EchoInductive == program = "echo" => EchoPairs!Inductive
CalcInductive == program = "calc" => CalcPairs!Inductive
FileInductive == program = "file" => FilePairs!Inductive
PipeInductive == program = "pipe" => PipeClients!Inductive
UdpInductive  == program = "udp"  => UdpEchos!Inductive

Waiting(c) == \/ program = "echo" /\ EchoPairs!Pending(c)
              \/ program = "udp"  /\ UdpEchos!Pending(c)
              \/ c = 1 /\ \/ program = "calc" /\ CalcPairs!Pending
                          \/ program = "file" /\ FilePairs!Pending
                          \/ program = "pipe" /\ PipeClients!Pending

(* A client gets its answer, and the file transfer and the pipe come to their
   end, unless the server fails, or the calculator's waits for a client that
   was killed. *)
PendingEnds == \A c \in Clients : Waiting(c) ~> ~Waiting(c)
=============================================================================
