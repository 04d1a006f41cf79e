------------------------------ MODULE FilePair ------------------------------
(***************************************************************************)
(* legacies/13_file_server(shutdown).c sends a file and shuts down its     *)
(* side; legacies/14_file_client(shutdown).c writes what it reads to a     *)
(* file, up to the end of the stream, and then thanks the server on the    *)
(* same connection.  Each may fail, or be killed, on the way.  The file is *)
(* a count of bytes: a stream keeps order.                                 *)
(***************************************************************************)
EXTENDS Integers

CONSTANTS MaxSize,   \* bound: bytes of the file
          Chunk,     \* FILE_BUF_SIZE, bytes of one fread
          Room       \* RECV_BUF_SIZE, bytes of one read

VARIABLES
    size,       \* bytes of the file
    pos, eof,   \* the server's stream: what it has written of it, and what
                \* feof() tests
    spc, cpc,   \* where the server and the client are
    down,       \* kernel: bytes under way to the client
    shut,       \* kernel: the end of the stream was sent after them
    received,   \* bytes in the client's file
    thanks      \* kernel: the response, and what became of it

vars == <<size, pos, eof, spc, cpc, down, shut, received, thanks>>

(* The server has written its file, gone back to its start, and accepted. *)
Accepted ==
    /\ size \in 0 .. MaxSize
    /\ pos = 0 /\ eof = FALSE /\ spc = "send"

Connected == cpc = "read" /\ received = 0

Init == Accepted /\ Connected /\ down = 0 /\ shut = FALSE /\ thanks = "none"

Min2(a, b) == IF a < b THEN a ELSE b

(* Mutant: the loop ends at the last byte, before feof() has seen the end. *)
SendFull ==
    /\ spc = "send" /\ ~eof
    /\ LET n == Min2(Chunk, size - pos) IN
       /\ pos' = pos + n /\ eof' = (n < Chunk)
       /\ down' = IF n < Chunk THEN down ELSE down + n
    /\ UNCHANGED <<size, spc, cpc, shut, received, thanks>>

(* fread() and write().  The end of the file is seen by the read that comes
   short: of nothing, if the chunks fit the file, and nothing is written. *)
Send ==
    /\ spc = "send" /\ ~eof
    /\ LET n == Min2(Chunk, size - pos) IN
       pos' = pos + n /\ eof' = (n < Chunk) /\ down' = down + n
    /\ UNCHANGED <<size, spc, cpc, shut, received, thanks>>

(* Mutant: the server waits for the response and does not shut down first. *)
NoShutdown ==
    /\ spc = "send" /\ eof
    /\ spc' = "response"
    /\ UNCHANGED <<size, pos, eof, cpc, down, shut, received, thanks>>

Shutdown ==
    /\ spc = "send" /\ eof
    /\ shut' = TRUE /\ spc' = "response"
    /\ UNCHANGED <<size, pos, eof, cpc, down, received, thanks>>

(* The one read() of the response, and the closes.  A client that has ended
   without a response leaves the end of its stream. *)
Response ==
    /\ spc = "response" /\ cpc \in {"done", "failed"}
    /\ thanks' = (IF thanks = "sent" THEN "read" ELSE thanks) /\ spc' = "done"
    /\ UNCHANGED <<size, pos, eof, cpc, down, shut, received>>

(* fread(), write(), shutdown() or read() fails and the server exits, or it is
   killed: with part of a chunk written, perhaps.  The kernel closes its socket,
   and the end of the stream follows what was written, as after a shutdown. *)
ServerFails ==
    /\ spc \in {"send", "response"}
    /\ \E k \in 0 .. Min2(Chunk, size - pos) : pos' = pos + k /\ down' = down + k
    /\ spc' = "failed" /\ shut' = TRUE
    /\ UNCHANGED <<size, eof, cpc, received, thanks>>

Receive ==
    /\ cpc = "read"
    /\ \E k \in 1 .. Min2(down, Room) : down' = down - k /\ received' = received + k
    /\ UNCHANGED <<size, pos, eof, spc, cpc, shut, thanks>>

(* read() returns 0: "Received file data completely", and the response, whose
   write() may fail. *)
ReceiveEnd ==
    /\ cpc = "read" /\ down = 0 /\ shut
    /\ cpc' = "done" /\ thanks' \in {"sent", "none"}
    /\ UNCHANGED <<size, pos, eof, spc, down, shut, received>>

(* read() fails and the client exits, or it is killed. *)
ClientFails ==
    /\ cpc = "read"
    /\ cpc' = "failed"
    /\ UNCHANGED <<size, pos, eof, spc, down, shut, received, thanks>>

ServerStep == Send \/ Shutdown \/ Response
ClientStep == Receive \/ ReceiveEnd
Next       == ServerStep \/ ServerFails \/ ClientStep \/ ClientFails

(* Types: every variable has a value of its type. *)
TypeOK ==
    /\ size \in 0 .. MaxSize /\ pos \in 0 .. size /\ eof \in BOOLEAN
    /\ spc \in {"send", "response", "done", "failed"} /\ cpc \in {"read", "done", "failed"}
    /\ down \in 0 .. size /\ shut \in BOOLEAN /\ received \in 0 .. size
    /\ thanks \in {"none", "sent", "read"}

(* The client says that it has the file when it has all that was written of it,
   and that is all of it, also when its size is a multiple of the chunk or of
   the client's buffer, unless the server failed before it had seen the end. *)
Complete ==
    cpc = "done" => received = pos /\ (received = size \/ (spc = "failed" /\ ~eof))

(* What every step keeps: a byte of the file is still to be read, under way or
   received, and the end follows the last one that was written. *)
Inductive ==
    /\ TypeOK
    /\ received + down = pos
    /\ eof => pos = size
    /\ spc \in {"response", "done"} => eof
    /\ shut => eof \/ spc = "failed"
    /\ cpc = "done" => shut /\ down = 0

(* One of them has not ended. *)
Pending == spc \notin {"done", "failed"} \/ cpc \notin {"done", "failed"}
=============================================================================
