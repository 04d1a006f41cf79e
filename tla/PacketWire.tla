------------------------------ MODULE PacketWire ------------------------------
(***************************************************************************)
(* One way of a packet: the values a packet hands to an OSerializer, the   *)
(* type, the size and the bytes on the connection, ChatServer::            *)
(* handle_client, which reads them with read_nbytes, PacketHandler::handle *)
(* and the values an ISerializer hands back.                               *)
(* A packet is the sizes of its values, and the bytes of its k-th value    *)
(* are all k - 1.  A word of the header is one item of the stream.         *)
(***************************************************************************)
EXTENDS Integers, Sequences

CONSTANTS BufSize,     \* SERIALIZE_BUF_SIZE
          WordSize,    \* sizeof(int32_t)
          Sizes,       \* sizes of values
          MaxValues,   \* bound: values of a packet
          MaxPackets,  \* bound: packets that are sent
          Splits       \* the bytes of a packet may come in several reads

ECHO_MESSAGE == 0
PACKET_MAX   == 1
Types        == {ECHO_MESSAGE, PACKET_MAX}  \* the one there is, and one too high
Junk         == -1

VARIABLES
    packets,   \* what was sent, in order
    stream,    \* kernel: under way to the server
    cut,       \* the client has ended, perhaps in the middle of a packet
    at,        \* what handle_client reads
    type, size, packet_buf,  \* its variables
    cur_buf_cursor,          \* read_nbytes: how far it has read
    arrived,   \* packets read to their end
    handled    \* what the handler was called with, by packet

input == <<packets, stream, cut>>
vars  == <<input, at, type, size, packet_buf, cur_buf_cursor, arrived, handled>>

EmptyBuf == [k \in 0 .. BufSize - 1 |-> Junk]

Init ==
    /\ packets = <<>> /\ stream = <<>> /\ cut = FALSE
    /\ at = "type" /\ type = 0 /\ size = 0 /\ packet_buf = EmptyBuf /\ cur_buf_cursor = 0
    /\ arrived = 0 /\ handled = [n \in 1 .. MaxPackets |-> <<>>]

-----------------------------------------------------------------------------

(* OSerializer::value: a value that does not fit is left out. *)
OValue(buf, k, n) ==
    IF Len(buf) + n > BufSize THEN buf ELSE buf \o [j \in 1 .. n |-> k - 1]

Serialized(values) ==
    LET buf[k \in 0 .. Len(values)] ==
            IF k = 0 THEN <<>> ELSE OValue(buf[k - 1], k, values[k])
    IN  buf[Len(values)]

(* What a packet is on the connection. *)
Packet(p) == <<p.type, Len(Serialized(p.values))>> \o Serialized(p.values)

(* send_packet, and the client's three writes.  What was serialized is never
   larger than the buffer, so get() never refuses it. *)
Send ==
    /\ ~cut /\ Len(packets) < MaxPackets
    /\ \E t \in Types, n \in 1 .. MaxValues : \E values \in [1 .. n -> Sizes] :
          LET p == [type |-> t, values |-> values] IN
          /\ packets' = Append(packets, p)
          /\ stream' = stream \o Packet(p)
    /\ UNCHANGED <<cut, at, type, size, packet_buf, cur_buf_cursor, arrived, handled>>

(* The client ends: the last of what it was writing never comes. *)
Cut ==
    /\ ~cut /\ cut' = TRUE
    /\ \E n \in 0 .. Len(stream) : stream' = SubSeq(stream, 1, n)
    /\ UNCHANGED <<packets, at, type, size, packet_buf, cur_buf_cursor, arrived, handled>>

-----------------------------------------------------------------------------

ReadType ==
    /\ at = "type" /\ stream # <<>>
    /\ type' = Head(stream) /\ stream' = Tail(stream)
    /\ at' = "size"
    /\ UNCHANGED <<packets, cut, size, packet_buf, cur_buf_cursor, arrived, handled>>

(* Mutant: a type that is not known is refused before the packet is read. *)
RefuseEarly ==
    /\ at = "size" /\ stream # <<>>
    /\ size' = Head(stream) /\ stream' = Tail(stream)
    /\ packet_buf' = EmptyBuf /\ cur_buf_cursor' = 0
    /\ at' = IF type >= PACKET_MAX THEN "type" ELSE "body"
    /\ UNCHANGED <<packets, cut, type, arrived, handled>>

ReadSize ==
    /\ at = "size" /\ stream # <<>>
    /\ size' = Head(stream) /\ stream' = Tail(stream)
    /\ packet_buf' = EmptyBuf /\ cur_buf_cursor' = 0
    /\ at' = "body"
    /\ UNCHANGED <<packets, cut, type, arrived, handled>>

Min2(a, b) == IF a < b THEN a ELSE b

(* read_nbytes: one read().  target is a pointer to int32_t, and the cursor
   counts bytes: the k-th byte is the first of the k-th word. *)
ReadBytes ==
    /\ at = "body" /\ cur_buf_cursor < size /\ stream # <<>>
    /\ LET most == Min2(size - cur_buf_cursor, Len(stream)) IN
       \E k \in 1 .. most :
          /\ Splits \/ k = most
          /\ packet_buf' =
                [j \in 0 .. BufSize - 1 |->
                    IF j \in cur_buf_cursor * WordSize .. cur_buf_cursor * WordSize + k - 1
                    THEN stream[j - cur_buf_cursor * WordSize + 1] ELSE packet_buf[j]]
          /\ stream' = SubSeq(stream, k + 1, Len(stream))
          /\ cur_buf_cursor' = cur_buf_cursor + k
    /\ UNCHANGED <<packets, cut, at, type, size, arrived, handled>>

(* It returns NO_ERROR. *)
ReadDone ==
    /\ at = "body" /\ cur_buf_cursor = size
    /\ at' = "handle"
    /\ UNCHANGED <<input, type, size, packet_buf, cur_buf_cursor, arrived, handled>>

(* read() returns 0, and so does read_nbytes say; handle_client gives up.  A
   packet of no bytes is not read at all, and readcnt is not set: it may be
   taken for an error or for the end, too. *)
ReadEnd ==
    /\ \/ at \in {"size", "body"} /\ stream = <<>> /\ cut /\ (at = "body" => cur_buf_cursor < size)
       \/ at = "body" /\ size = 0
    /\ at' = "type"
    /\ arrived' = IF at = "body" /\ size = 0 THEN arrived + 1 ELSE arrived
    /\ UNCHANGED <<input, type, size, packet_buf, cur_buf_cursor, handled>>

(* ISerializer: set() copies the packet into a buffer of zeros, and every
   value() takes its bytes at m_curpos, were they beyond the packet; beyond
   the buffer they are anything. *)
IByte(pos) ==
    IF pos >= BufSize THEN Junk ELSE IF pos < size THEN packet_buf[pos] ELSE 0

(* Where a value ends, if all before it have been read or written. *)
Ends(values) ==
    LET sum[k \in 0 .. Len(values)] == IF k = 0 THEN 0 ELSE sum[k - 1] + values[k] IN sum

IValues(values) ==
    [k \in DOMAIN values |-> [j \in 1 .. values[k] |-> IByte(Ends(values)[k - 1] + j - 1)]]

(* PacketHandler::handle refuses a type that is too high; otherwise the
   handler of the type gets the packet. *)
Handle ==
    /\ at = "handle"
    /\ arrived' = arrived + 1
    /\ handled' = IF type >= PACKET_MAX THEN handled
                  ELSE [handled EXCEPT ![arrived'] = IValues(packets[arrived'].values)]
    /\ at' = "type"
    /\ UNCHANGED <<input, type, size, packet_buf, cur_buf_cursor>>

Next == Send \/ Cut \/ ReadType \/ ReadSize \/ ReadBytes \/ ReadDone \/ ReadEnd \/ Handle
Spec == Init /\ [][Next]_vars

-----------------------------------------------------------------------------
(* Types *)
TypeOK ==
    /\ packets \in Seq([type : Types, values : Seq(Sizes) \ {<<>>}])
    /\ stream \in Seq(Nat) /\ cut \in BOOLEAN
    /\ at \in {"type", "size", "body", "handle"}
    /\ type \in Types /\ size \in 0 .. BufSize /\ cur_buf_cursor \in 0 .. size
    /\ packet_buf \in [0 .. BufSize - 1 -> Int]
    /\ arrived \in 0 .. Len(packets) /\ Len(packets) <= MaxPackets
    /\ DOMAIN handled = 1 .. MaxPackets

(* The values that come before the first one that did not fit. *)
Kept(values) == {k \in DOMAIN values : Ends(values)[k] <= BufSize}

(* The handler gets the values that were sent, as far as they all fitted, and
   every packet with a known type reaches it, after packets of unknown types
   too; only a packet without a byte may be lost. *)
PacketsArrive ==
    \A n \in 1 .. arrived :
        LET values == packets[n].values IN
        \/ /\ packets[n].type = ECHO_MESSAGE /\ handled[n] # <<>>
           /\ \A k \in Kept(values) : handled[n][k] = [j \in 1 .. values[k] |-> k - 1]
        \/ /\ packets[n].type = PACKET_MAX \/ Serialized(values) = <<>>
           /\ handled[n] = <<>>

(* When read_nbytes reports NO_ERROR, the bytes of the packet lie in the buffer
   in the order in which they were sent. *)
BytesInOrder ==
    at = "handle" =>
        [k \in 1 .. size |-> packet_buf[k - 1]] = Serialized(packets[arrived + 1].values)

(* All that the first packets are on the connection. *)
Sent(ps) ==
    LET bytes[n \in 0 .. Len(ps)] == IF n = 0 THEN <<>> ELSE bytes[n - 1] \o Packet(ps[n])
    IN  bytes

(* How much of it has been read. *)
Position == Len(Sent(packets)[arrived]) + CASE at = "type" -> 0
                                            [] at = "size" -> 1
                                            [] at = "body" -> 2 + cur_buf_cursor
                                            [] at = "handle" -> 2 + size

(* What is under way is what comes next, and all of it unless the client ended. *)
StreamInOrder ==
    LET all == Sent(packets)[Len(packets)] IN
    /\ Position + Len(stream) <= Len(all)
    /\ ~cut => Position + Len(stream) = Len(all)
    /\ \A j \in 1 .. Len(stream) : stream[j] = all[Position + j]

(* What handle_client has read is the beginning of one packet.  Its bytes come
   in one read, or the end of the stream comes before the last of them. *)
PacketInOrder ==
    LET bytes == Serialized(packets[arrived + 1].values) IN
    /\ at # "type" => arrived < Len(packets) /\ type = packets[arrived + 1].type
    /\ at \in {"body", "handle"} =>
          /\ size = Len(bytes)
          /\ cur_buf_cursor \in {0, size} \/ stream = <<>>
          /\ cur_buf_cursor = size => \A i \in 1 .. size : packet_buf[i - 1] = bytes[i]
    /\ at = "handle" => cur_buf_cursor = size

(* What the proofs use. *)
Inductive ==
    /\ TypeOK /\ StreamInOrder /\ PacketInOrder /\ PacketsArrive
    /\ \A n \in arrived + 1 .. MaxPackets : handled[n] = <<>>
=============================================================================
