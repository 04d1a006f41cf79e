------------------------------ MODULE CalcPair ------------------------------
(***************************************************************************)
(* The calculator: legacies/09_calc_server.c and 10_calc_client.c.  A      *)
(* client writes a count, that many operands and an operator, and reads    *)
(* the result.  Both sides read with read_nbytes, which puts together what *)
(* the reads return; an int is WordSize bytes, laid out in whatever way    *)
(* the two machines have in common, and arithmetic wraps around.           *)
(***************************************************************************)
EXTENDS Integers, Sequences

CONSTANTS WordSize,    \* bytes of an int
          Base,        \* values of a byte
          Modulus,     \* values of an int
          Layout,      \* the bytes of an int in memory
          MaxOperands, \* OPEREND_ARR_SIZE: room for operands
          NumClients   \* bound: clients that come

Words == 0 .. Modulus - 1
Bytes == 0 .. Base - 1

Decode(bytes)  == CHOOSE word \in Words : Layout[word] = bytes
Word(bytes, n) == Decode([k \in 1 .. WordSize |-> bytes[n * WordSize + k]])
Zeros(n)       == [k \in 1 .. n |-> 0]

(* The operator is one byte, whatever a byte is. *)
Plus  == 0
Times == 1

VARIABLES
    client,    \* how many clients came
    backlog,   \* kernel: how many are connected and wait for accept
    cpc,       \* where the client is that was accepted last
    asked,     \* its operands
    operator,  \* and operator
    up, down,  \* kernel: bytes under way to the server and back
    spc,       \* what the server reads, or "accept", or "failed"
    memory,    \* what the running read_nbytes has put in its buffer
    recv_pos,  \* and how far it has got
    operands,  \* the server's count and operands
    cmemory, crecv_pos,  \* the client's read_nbytes
    result     \* what the client was told

calc == <<client, asked, operator, backlog>>
serverv == <<spc, memory, recv_pos, operands>>
clientv == <<cpc, cmemory, crecv_pos, result>>
vars == <<calc, up, down, serverv, clientv>>

Listening ==
    /\ spc = "accept" /\ memory = <<>> /\ recv_pos = 0
    /\ operands = [count |-> 0, values |-> <<>>]

Init ==
    /\ Listening
    /\ client = 0 /\ cpc = "none" /\ asked = <<>> /\ operator = Plus
    /\ backlog = 0
    /\ up = <<>> /\ down = <<>>
    /\ cmemory = <<>> /\ crecv_pos = 0 /\ result = 0

Wrap(n) == n % Modulus

(* calculate(): the loop over the operands. *)
calculate(op, values) ==
    LET loop[i \in 0 .. Len(values)] ==
            IF i = 0 THEN IF op = Plus THEN 0 ELSE 1
            ELSE IF op = Plus THEN Wrap(loop[i - 1] + values[i])
                              ELSE Wrap(loop[i - 1] * values[i])
    IN  loop[Len(values)]

-----------------------------------------------------------------------------
(* The client *)

(* What the three writes put on the stream, which runs them together. *)
Request(values, op) ==
    LET ints == <<Len(values)>> \o values
        size == Len(ints) * WordSize
    IN  [i \in 1 .. size + 1 |->
            IF i > size THEN op
            ELSE Layout[ints[((i - 1) \div WordSize) + 1]][((i - 1) % WordSize) + 1]]

(* connect() is done when the kernel has put the connection in its queue. *)
Connect ==
    /\ client < NumClients /\ spc # "failed"
    /\ client' = client + 1 /\ backlog' = backlog + 1
    /\ UNCHANGED <<asked, operator, up, down, serverv, clientv>>

(* What a read of at most `size` bytes returns lies in the buffer from `pos`. *)
Placed(buffer, pos, bytes, k) ==
    [j \in DOMAIN buffer |-> IF j > pos /\ j <= pos + k THEN bytes[j - pos] ELSE buffer[j]]

Min2(a, b) == IF a < b THEN a ELSE b

ClientRead ==
    /\ cpc = "read" /\ crecv_pos < WordSize
    /\ \E k \in 1 .. Min2(Len(down), WordSize - crecv_pos) :
          /\ cmemory' = Placed(cmemory, crecv_pos, down, k)
          /\ down' = SubSeq(down, k + 1, Len(down))
          /\ crecv_pos' = crecv_pos + k
    /\ UNCHANGED <<calc, up, serverv, cpc, result>>

ClientDone ==
    /\ cpc = "read" /\ crecv_pos = WordSize
    /\ result' = Decode(cmemory)
    /\ cpc' = "done"
    /\ UNCHANGED <<calc, up, down, serverv, cmemory, crecv_pos>>

(* The client fails or is killed before it has written everything, or later. *)
Killed ==
    /\ cpc = "read"
    /\ \E k \in 0 .. Len(up) : up' = SubSeq(up, 1, k)
    /\ cpc' = "killed"
    /\ UNCHANGED <<calc, down, serverv, cmemory, crecv_pos, result>>

-----------------------------------------------------------------------------
(* The server *)

Reading == {"op_count", "operends", "operator"}

Size == CASE spc = "op_count" -> WordSize
          [] spc = "operends" -> operands.count * WordSize
          [] spc = "operator" -> 1
          [] OTHER            -> 0

(* read_nbytes begins: memset. *)
Begin(phase, size) == spc' = phase /\ memory' = Zeros(size) /\ recv_pos' = 0

(* The next connection of the queue.  What its client writes nobody can see
   before the server reads, so it is chosen here, though it may have been
   written before; and one killed in the queue is one killed right after.  An
   earlier client that still reads its answer has a stream of its own, and does
   in the model what it would do if it had read before. *)
Accept ==
    /\ spc = "accept" /\ backlog > 0
    /\ backlog' = backlog - 1
    /\ \E n \in 0 .. MaxOperands, op \in {Plus, Times} : \E values \in [1 .. n -> Words] :
          asked' = values /\ operator' = op /\ up' = Request(values, op)
    /\ cpc' = "read" /\ cmemory' = Zeros(WordSize) /\ crecv_pos' = 0 /\ down' = <<>>
    /\ Begin("op_count", WordSize)
    /\ UNCHANGED <<client, operands, result>>

(* Mutant: every read goes to the start of the buffer. *)
ReadToStart ==
    /\ spc \in Reading /\ recv_pos < Size
    /\ \E k \in 1 .. Min2(Len(up), Size - recv_pos) :
          /\ memory' = Placed(memory, 0, up, k)
          /\ up' = SubSeq(up, k + 1, Len(up))
          /\ recv_pos' = recv_pos + k
    /\ UNCHANGED <<calc, down, spc, operands, clientv>>

(* Mutant: every read asks for the whole size again. *)
ReadTooMuch ==
    /\ spc \in Reading /\ recv_pos < Size
    /\ \E k \in 1 .. Min2(Len(up), Size) :
          /\ memory' = Placed(memory, recv_pos, up, k)
          /\ up' = SubSeq(up, k + 1, Len(up))
          /\ recv_pos' = recv_pos + k
    /\ UNCHANGED <<calc, down, spc, operands, clientv>>

(* read_nbytes goes on.  When the client has gone the read returns 0, which is
   not -1, and it reads again for ever: there is no step. *)
ReadBytes ==
    /\ spc \in Reading /\ recv_pos < Size
    /\ \E k \in 1 .. Min2(Len(up), Size - recv_pos) :
          /\ memory' = Placed(memory, recv_pos, up, k)
          /\ up' = SubSeq(up, k + 1, Len(up))
          /\ recv_pos' = recv_pos + k
    /\ UNCHANGED <<calc, down, spc, operands, clientv>>

(* It returns, and main goes on to the next thing to read, or to the answer. *)
GotCount ==
    /\ spc = "op_count" /\ recv_pos >= Size
    /\ operands' = [operands EXCEPT !.count = Decode(memory)]
    /\ Begin("operends", operands'.count * WordSize)
    /\ UNCHANGED <<calc, up, down, clientv>>

GotOperands ==
    /\ spc = "operends" /\ recv_pos >= Size
    /\ operands' = [operands EXCEPT !.values = [k \in 1 .. operands.count |-> Word(memory, k - 1)]]
    /\ Begin("operator", 1)
    /\ UNCHANGED <<calc, up, down, clientv>>

Reply ==
    /\ spc = "operator" /\ recv_pos >= Size
    /\ down' = IF cpc = "read" THEN Layout[calculate(memory[1], operands.values)] ELSE down
    /\ Begin("accept", 0)
    /\ UNCHANGED <<calc, up, operands, clientv>>

(* accept(), read_nbytes() or write() fails and the server exits, or it is
   killed: by SIGPIPE, perhaps, when it answers a client that is gone. *)
ServerFails ==
    /\ spc \in Reading \cup {"accept"}
    /\ Begin("failed", 0)
    /\ UNCHANGED <<calc, up, down, operands, clientv>>

-----------------------------------------------------------------------------

ServerStep == Accept \/ ReadBytes \/ GotCount \/ GotOperands \/ Reply

ClientStep == ClientRead \/ ClientDone
Next       == Connect \/ ClientStep \/ Killed \/ ServerStep \/ ServerFails

-----------------------------------------------------------------------------

(* Types: every variable has a value of its type. *)
TypeOK ==
    /\ client \in 0 .. NumClients
    /\ cpc \in {"none", "read", "done", "killed"}
    /\ backlog \in 0 .. client
    /\ asked \in Seq(Words) /\ operator \in {Plus, Times}
    /\ up \in Seq(Bytes) /\ down \in Seq(Bytes)
    /\ spc \in Reading \cup {"accept", "failed"}
    /\ memory \in Seq(Bytes) /\ recv_pos \in 0 .. Len(memory)
    /\ operands \in [count : Words, values : Seq(Words)]
    /\ cmemory \in Seq(Bytes) /\ crecv_pos \in 0 .. WordSize
    /\ result \in Words

(* The sum or product, whatever an int has room for. *)
Total(op, values) ==
    LET upto[i \in 0 .. Len(values)] ==
            IF i = 0 THEN IF op = Plus THEN 0 ELSE 1
            ELSE IF op = Plus THEN upto[i - 1] + values[i] ELSE upto[i - 1] * values[i]
    IN  upto[Len(values)]

(* However the stream was cut, what the client is told is the sum or product
   of what it sent, as an int has it. *)
ResultRight == cpc = "done" => result = Wrap(Total(operator, asked))

(* How much of the request the server has read before what it reads now. *)
Offset == CASE spc = "operends" -> WordSize
            [] spc = "operator" -> (Len(asked) + 1) * WordSize
            [] OTHER            -> 0

Serving == spc \in Reading

(* What read_nbytes has put together and what is under way to the server are
   the request, one after the other, as far as the client has written it. *)
RequestInOrder ==
    Serving =>
        /\ Len(memory) = Size
        /\ Offset + recv_pos + Len(up) <= Len(Request(asked, operator))
        /\ \A j \in 1 .. recv_pos : memory[j] = Request(asked, operator)[Offset + j]
        /\ \A j \in 1 .. Len(up) : up[j] = Request(asked, operator)[Offset + recv_pos + j]

Answer  == Layout[calculate(operator, asked)]

(* And so is the answer, on its way to the client, which gets none from a server
   that failed before it. *)
Unanswered == crecv_pos = 0 /\ down = <<>>
UnderWay ==
    /\ crecv_pos + Len(down) = WordSize
    /\ \A j \in 1 .. crecv_pos : cmemory[j] = Answer[j]
    /\ \A j \in 1 .. Len(down) : down[j] = Answer[crecv_pos + j]
AnswerInOrder ==
    /\ cpc = "read" /\ Serving => Unanswered
    /\ cpc = "read" /\ spc = "accept" => UnderWay
    /\ cpc = "read" /\ spc = "failed" => Unanswered \/ UnderWay
    /\ cpc = "done" => result = calculate(operator, asked)

(* What the proofs use: the server has the client's own operands. *)
Inductive ==
    /\ TypeOK /\ RequestInOrder /\ AnswerInOrder
    /\ Len(asked) <= MaxOperands
    /\ spc \in {"accept", "failed"} => memory = <<>> /\ recv_pos = 0
    /\ spc \in {"operends", "operator"} => operands.count = Len(asked)
    /\ spc = "operator" => operands.values = asked
    /\ cpc # "none" => Len(cmemory) = WordSize

(* The client was killed before it had written all of its request: the server
   reads on for ever, and who waits behind it waits as long. *)
Stuck == /\ cpc = "killed" /\ Serving
         /\ Offset + recv_pos + Len(up) < Len(Request(asked, operator))

(* A client waits for its result, from a server that can still come to it. *)
Pending == (cpc = "read" \/ backlog > 0) /\ spc # "failed" /\ ~Stuck
=============================================================================
