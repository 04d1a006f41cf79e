------------------------- MODULE MCLegacyPairsProofs -------------------------
(***************************************************************************)
(* Proofs about the programs of MCLegacyPairs, for every number of         *)
(* clients, messages and bytes: the echo clients' rounds stay apart, the   *)
(* file and the output of ls arrive whole, a UDP client is shown the       *)
(* answer to its last message, and the calculator's client the result of   *)
(* its own operands.  One program runs in a behaviour, so each has an      *)
(* inductive invariant of its own.                                         *)
(***************************************************************************)
EXTENDS MCLegacyPairs, Sequences, WellFoundedInduction, TLAPS

-----------------------------------------------------------------------------
(* FilePair *)

LEMMA FileInit == FilePairs!Init => FilePairs!Inductive
<1>. SUFFICES ASSUME FilePairs!Init PROVE FilePairs!Inductive
  OBVIOUS
<1>. USE DEF FilePairs!Init, FilePairs!Accepted, FilePairs!Connected
<1>1. size \in 0 .. MaxSize
  OBVIOUS
<1>2. size \in Nat /\ 0 \in 0 .. size
  BY <1>1, MCLegacyPairsAssumption
<1>3. /\ pos = 0 /\ down = 0 /\ received = 0
      /\ spc = "send" /\ cpc = "read" /\ thanks = "none"
  OBVIOUS
<1>4. ~eof /\ ~shut /\ eof \in BOOLEAN /\ shut \in BOOLEAN
  OBVIOUS
<1>. QED  BY <1>1, <1>2, <1>3, <1>4 DEF FilePairs!Inductive, FilePairs!TypeOK

LEMMA FileNext == FilePairs!Inductive /\ FilePairs!Next => FilePairs!Inductive'
<1>. SUFFICES ASSUME FilePairs!Inductive, FilePairs!Next PROVE FilePairs!Inductive'
  OBVIOUS
<1>. USE MCLegacyPairsAssumption
     DEF FilePairs!Inductive, FilePairs!TypeOK, FilePairs!Min2
<1>1. CASE FilePairs!Send
  <2>1. PICK n \in {Chunk, size - pos} :
             /\ n <= Chunk /\ n <= size - pos
             /\ pos' = pos + n /\ eof' = (n < Chunk) /\ down' = down + n
    BY <1>1 DEF FilePairs!Send
  <2>2. n \in Nat /\ (n < Chunk => n = size - pos)
    BY <2>1
  <2>3. /\ spc = "send" /\ ~eof /\ ~shut /\ cpc # "done"
        /\ UNCHANGED <<size, spc, cpc, shut, received, thanks>>
    BY <1>1 DEF FilePairs!Send
  <2>. QED  BY <2>1, <2>2, <2>3
<1>2. CASE FilePairs!Shutdown
  BY <1>2 DEF FilePairs!Shutdown
<1>3. CASE FilePairs!Response
  BY <1>3 DEF FilePairs!Response
<1>4. CASE FilePairs!Receive
  <2>1. PICK k \in 1 .. FilePairs!Min2(down, Room) :
             down' = down - k /\ received' = received + k
    BY <1>4 DEF FilePairs!Receive
  <2>2. k \in Nat /\ k <= down
    BY <2>1
  <2>. QED  BY <1>4, <2>1, <2>2 DEF FilePairs!Receive
<1>5. CASE FilePairs!ReceiveEnd
  BY <1>5 DEF FilePairs!ReceiveEnd
<1>6. CASE FilePairs!ServerFails
  <2>1. PICK k \in 0 .. FilePairs!Min2(Chunk, size - pos) : pos' = pos + k /\ down' = down + k
    BY <1>6 DEF FilePairs!ServerFails
  <2>2. k \in Nat /\ k <= size - pos
    BY <2>1
  <2>3. /\ spc \in {"send", "response"} /\ spc' = "failed" /\ shut' = TRUE
        /\ UNCHANGED <<size, eof, cpc, received, thanks>>
    BY <1>6 DEF FilePairs!ServerFails
  <2>4. eof => k = 0
    BY <2>2
  <2>5. cpc = "done" => k = 0
    BY <2>3, <2>4
  <2>. QED  BY <2>1, <2>2, <2>3, <2>4, <2>5
<1>7. CASE FilePairs!ClientFails
  BY <1>7 DEF FilePairs!ClientFails
<1>. QED  BY <1>1, <1>2, <1>3, <1>4, <1>5, <1>6, <1>7
          DEF FilePairs!Next, FilePairs!ServerStep, FilePairs!ClientStep

LEMMA FileInductiveAlways == Spec => []FileInductive
<1>1. Init => FileInductive
  BY FileInit DEF Init, FileInductive
<1>2. FileInductive /\ [Next]_vars => FileInductive'
  <2>. SUFFICES ASSUME FileInductive, [Next]_vars, program' = "file"
                PROVE  FilePairs!Inductive'
    BY DEF FileInductive
  <2>1. CASE File(FilePairs!Next)
    BY <2>1, FileNext DEF File, FileInductive
  <2>2. CASE Echo(EchoPairs!Next) \/ Calc(CalcPairs!Next) \/ Pipe(PipeClients!Next)
             \/ Udp(UdpEchos!Next)
    BY <2>2 DEF Echo, Calc, Pipe, Udp
  <2>3. CASE UNCHANGED vars
    BY <2>3 DEF vars, FileInductive, FilePairs!Inductive, FilePairs!TypeOK
  <2>. QED  BY <2>1, <2>2, <2>3 DEF Next
<1>. QED  BY <1>1, <1>2, PTL DEF Spec

-----------------------------------------------------------------------------
(* PipeClient *)

LEMMA PipeInit == PipeClients!Init => PipeClients!Inductive
BY MCLegacyPairsAssumption
   DEF PipeClients!Init, PipeClients!Inductive, PipeClients!TypeOK, PipeClients!Procs,
       PipeClients!Ends

LEMMA PipeNext == PipeClients!Inductive /\ PipeClients!Next => PipeClients!Inductive'
<1>. SUFFICES ASSUME PipeClients!Inductive, PipeClients!Next PROVE PipeClients!Inductive'
  OBVIOUS
<1>. USE DEF PipeClients!Inductive, PipeClients!TypeOK, PipeClients!Procs, PipeClients!Ends
<1>1. CASE PipeClients!Fork
  <2>1. /\ pc' \in [PipeClients!Procs -> {"close", "start"}]
        /\ pc'["parent"] = "close" /\ pc'["ls"] = "start"
    BY <1>1 DEF PipeClients!Fork
  <2>2. /\ holds' \in [PipeClients!Procs -> SUBSET PipeClients!Ends]
        /\ holds'["ls"] = holds["parent"] /\ holds'["parent"] = holds["parent"]
    BY <1>1 DEF PipeClients!Fork
  <2>. QED  BY <1>1, <2>1, <2>2 DEF PipeClients!Fork
<1>2. CASE PipeClients!ForkFails
  BY <1>2 DEF PipeClients!ForkFails
<1>3. CASE PipeClients!CloseWriteEnd
  BY <1>3 DEF PipeClients!CloseWriteEnd
<1>4. CASE PipeClients!Pass
  BY <1>4, MCLegacyPairsAssumption DEF PipeClients!Pass
<1>5. CASE PipeClients!PassEnd
  BY <1>5 DEF PipeClients!PassEnd
<1>6. CASE PipeClients!Exec
  BY <1>6 DEF PipeClients!Exec
<1>7. CASE PipeClients!List
  BY <1>7, MCLegacyPairsAssumption DEF PipeClients!List
<1>8. CASE PipeClients!ListEnd
  BY <1>8 DEF PipeClients!ListEnd
<1>. QED  BY <1>1, <1>2, <1>3, <1>4, <1>5, <1>6, <1>7, <1>8
          DEF PipeClients!Next, PipeClients!Parent, PipeClients!Ls

LEMMA PipeInductiveAlways == Spec => []PipeInductive
<1>1. Init => PipeInductive
  BY PipeInit DEF Init, PipeInductive
<1>2. PipeInductive /\ [Next]_vars => PipeInductive'
  <2>. SUFFICES ASSUME PipeInductive, [Next]_vars, program' = "pipe"
                PROVE  PipeClients!Inductive'
    BY DEF PipeInductive
  <2>1. CASE Pipe(PipeClients!Next)
    BY <2>1, PipeNext DEF Pipe, PipeInductive
  <2>2. CASE Echo(EchoPairs!Next) \/ Calc(CalcPairs!Next) \/ File(FilePairs!Next)
             \/ Udp(UdpEchos!Next)
    BY <2>2 DEF Echo, Calc, File, Udp
  <2>3. CASE UNCHANGED vars
    BY <2>3 DEF vars, PipeInductive, PipeClients!Inductive, PipeClients!TypeOK
  <2>. QED  BY <2>1, <2>2, <2>3 DEF Next
<1>. QED  BY <1>1, <1>2, PTL DEF Spec

(* The client says that it has the file when it has all that was written of it,
   which is the whole file unless the server failed before its end; and the log
   server's connection ends after all that ls wrote. *)
THEOREM TransferAlwaysComplete == Spec => []TransferComplete
<1>1. FileInductive /\ PipeInductive => TransferComplete
  <2>1. FilePairs!Inductive => FilePairs!Complete
    BY MCLegacyPairsAssumption
       DEF FilePairs!Inductive, FilePairs!TypeOK, FilePairs!Complete
  <2>2. PipeClients!Inductive => PipeClients!Complete
    BY DEF PipeClients!Inductive, PipeClients!TypeOK, PipeClients!Complete, PipeClients!Procs
  <2>. QED  BY <2>1, <2>2 DEF FileInductive, PipeInductive, TransferComplete
<1>. QED  BY FileInductiveAlways, PipeInductiveAlways, <1>1, PTL

-----------------------------------------------------------------------------
(* UdpEcho *)

LEMMA UdpInit == UdpEchos!Init => UdpEchos!Inductive
<1>. SUFFICES ASSUME UdpEchos!Init PROVE UdpEchos!Inductive
  OBVIOUS
<1>. USE DEF UdpEchos!Init, UdpEchos!Bound, UdpEchos!ClientsReady
<1>1. UdpEchos!TypeOK
  BY MCLegacyPairsAssumption DEF UdpEchos!TypeOK
<1>2. UdpEchos!OwnAnswer
  BY DEF UdpEchos!OwnAnswer
<1>3. \A d \in UdpEchos!Datagrams : ~UdpEchos!UnderWay(d)
  BY DEF UdpEchos!UnderWay, UdpEchos!Nobody, UdpEchos!Datagrams
<1>. QED  BY <1>1, <1>2, <1>3 DEF UdpEchos!Inductive

LEMMA UdpNext == UdpEchos!Inductive /\ UdpEchos!Next => UdpEchos!Inductive'
<1>. SUFFICES ASSUME UdpEchos!Inductive, UdpEchos!Next PROVE UdpEchos!Inductive'
  OBVIOUS
<1>. DEFINE Out(d) == UdpEchos!UnderWay(d)
            Datagrams == UdpEchos!Datagrams
            Nobody == UdpEchos!Nobody
<1>t. /\ up \subseteq Datagrams /\ down \subseteq Datagrams
      /\ held \in Datagrams \cup {Nobody}
      /\ waiting \in [Clients -> BOOLEAN]
      /\ sent \in [Clients -> 0 .. MaxMessages] /\ got \in [Clients -> 0 .. MaxMessages]
      /\ lost \subseteq Clients /\ twice \subseteq Clients /\ faults \in 0 .. MaxFaults
  BY DEF UdpEchos!Inductive, UdpEchos!TypeOK
<1>g. \A c \in Clients : /\ got[c] <= sent[c]
                         /\ c \notin twice /\ ~waiting[c] => got[c] = sent[c]
  BY DEF UdpEchos!Inductive, UdpEchos!OwnAnswer
<1>d. \A d \in Datagrams : Out(d) =>
          /\ d.message <= sent[d.from]
          /\ d.from \notin twice =>
                /\ waiting[d.from] /\ d.message = sent[d.from]
                /\ ~(d \in up /\ d \in down) /\ (d = held => d \notin up \cup down)
  BY DEF UdpEchos!Inductive
<1>e. Nobody \notin Datagrams
      /\ \A d \in Datagrams : d.from \in Clients /\ d.message \in 1 .. MaxMessages
  BY DEF UdpEchos!Nobody, UdpEchos!Datagrams
<1>f. \A d, e \in Datagrams : d.from = e.from /\ d.message = e.message => d = e
  BY DEF UdpEchos!Datagrams
<1>. DEFINE Kept(d) ==
        Out(d)' =>
          /\ d.message <= sent'[d.from]
          /\ d.from \notin twice' =>
                /\ waiting'[d.from] /\ d.message = sent'[d.from]
                /\ ~(d \in up' /\ d \in down') /\ (d = held' => d \notin up' \cup down')
<1>k. ASSUME UdpEchos!TypeOK', UdpEchos!OwnAnswer', \A d \in Datagrams : Kept(d)
      PROVE  UdpEchos!Inductive'
  BY <1>k DEF UdpEchos!Inductive
<1>o. \A d : /\ Out(d) <=> d \in up \/ d \in down \/ d = held
             /\ Out(d)' <=> d \in up' \/ d \in down' \/ d = held'
  BY DEF UdpEchos!UnderWay
<1>. HIDE DEF Datagrams, Nobody, Out
<1>1. ASSUME NEW c \in Clients, UdpEchos!Send(c) PROVE UdpEchos!Inductive'
  <2>. DEFINE n == sent[c] + 1
              new == [from |-> c, message |-> n]
  <2>1. /\ ~waiting[c] /\ sent[c] < MaxMessages
        /\ sent' = [sent EXCEPT ![c] = n]
        /\ waiting' = [waiting EXCEPT ![c] = TRUE]
        /\ UNCHANGED <<down, held, got, lost, twice, faults>>
    BY <1>1 DEF UdpEchos!Send
  <2>2. n \in 1 .. MaxMessages /\ n \in 0 .. MaxMessages /\ sent'[c] = n /\ sent[c] < n
    BY <2>1, <1>t, MCLegacyPairsAssumption
  <2>3. up' = up \cup {new}
    BY <1>1, <2>2 DEF UdpEchos!Send
  <2>4. new \in Datagrams /\ new.from = c /\ new.message = n
    BY <2>2 DEF Datagrams, UdpEchos!Datagrams
  <2>. HIDE DEF n, new
  <2>5. UdpEchos!TypeOK'
    BY <2>1, <2>2, <2>3, <2>4, <1>t DEF UdpEchos!TypeOK, Datagrams, Nobody
  <2>6. UdpEchos!OwnAnswer'
    BY <2>1, <2>2, <1>t, <1>g, MCLegacyPairsAssumption DEF UdpEchos!OwnAnswer
  <2>7. ASSUME NEW d \in Datagrams PROVE Kept(d)
    <3>1. CASE d.from = c
      <4>1. Out(d) => c \in twice
        BY <3>1, <2>1, <1>d
      <4>2. Out(d)' => Out(d) \/ d = new
        BY <2>1, <2>3, <1>o
      <4>3. Out(d)' => d.message <= n
        BY <4>2, <3>1, <2>2, <2>4, <1>d, <1>e, <1>t, MCLegacyPairsAssumption
      <4>4. c \notin twice /\ Out(d)' => d = new /\ d \notin down /\ d # held
        BY <4>1, <4>2, <1>o
      <4>5. waiting'[c]
        BY <2>1, <1>t
      <4>. QED  BY <3>1, <4>3, <4>4, <4>5, <2>1, <2>2, <2>4
    <3>2. CASE d.from # c
      <4>1. d # new /\ (Out(d)' <=> Out(d)) /\ (d \in up' <=> d \in up)
        BY <3>2, <2>1, <2>3, <2>4, <1>o
      <4>2. sent'[d.from] = sent[d.from] /\ waiting'[d.from] = waiting[d.from]
        BY <3>2, <2>1, <1>t, <1>e
      <4>. QED  BY <4>1, <4>2, <2>1, <1>d
    <3>. QED  BY <3>1, <3>2
  <2>. QED  BY <2>5, <2>6, <2>7, <1>k
<1>2. ASSUME NEW c \in Clients, UdpEchos!Receive(c) PROVE UdpEchos!Inductive'
  <2>1. PICK e \in down : /\ e.from = c /\ got' = [got EXCEPT ![c] = e.message]
                          /\ down' = down \ {e}
    BY <1>2 DEF UdpEchos!Receive
  <2>2. /\ waiting[c] /\ waiting' = [waiting EXCEPT ![c] = FALSE]
        /\ UNCHANGED <<up, held, sent, lost, twice, faults>>
    BY <1>2 DEF UdpEchos!Receive
  <2>3. e \in Datagrams /\ Out(e) /\ e.message \in 0 .. MaxMessages
    BY <2>1, <1>t, <1>e, <1>o, MCLegacyPairsAssumption
  <2>4. UdpEchos!TypeOK'
    BY <2>1, <2>2, <2>3, <1>t DEF UdpEchos!TypeOK, Datagrams, Nobody
  <2>5. e.message <= sent[c] /\ (c \notin twice => e.message = sent[c])
    BY <2>1, <2>3, <1>d
  <2>6. UdpEchos!OwnAnswer'
    BY <2>1, <2>2, <2>5, <1>t, <1>g DEF UdpEchos!OwnAnswer
  <2>7. ASSUME NEW d \in Datagrams PROVE Kept(d)
    <3>1. Out(d)' => Out(d)
      BY <2>1, <2>2, <1>o
    <3>2. CASE d.from = c
      <4>1. c \notin twice /\ Out(d) => d = e
        BY <3>2, <2>1, <2>3, <2>5, <1>d, <1>f
      <4>2. c \notin twice => e \notin up /\ e # held
        BY <2>1, <2>3, <1>d
      <4>3. c \notin twice => ~Out(d)'
        BY <3>1, <4>1, <4>2, <2>1, <2>2, <1>o
      <4>. QED  BY <3>1, <3>2, <4>3, <2>2, <1>d
    <3>3. CASE d.from # c
      <4>1. waiting'[d.from] = waiting[d.from]
        BY <3>3, <2>2, <1>t, <1>e
      <4>. QED  BY <3>1, <4>1, <2>1, <2>2, <1>d
    <3>. QED  BY <3>2, <3>3
  <2>. QED  BY <2>4, <2>6, <2>7, <1>k
<1>3. CASE UdpEchos!ServerReceive
  <2>1. PICK e \in up : held' = e /\ up' = up \ {e}
    BY <1>3 DEF UdpEchos!ServerReceive
  <2>2. UNCHANGED <<down, waiting, sent, got, lost, twice, faults>>
    BY <1>3 DEF UdpEchos!ServerReceive
  <2>3. UdpEchos!TypeOK'
    BY <2>1, <2>2, <1>t DEF UdpEchos!TypeOK, Datagrams, Nobody
  <2>4. UdpEchos!OwnAnswer'
    BY <2>2, <1>g DEF UdpEchos!OwnAnswer
  <2>5. ASSUME NEW d \in Datagrams PROVE Kept(d)
    BY <2>1, <2>2, <1>d, <1>o
  <2>. QED  BY <2>3, <2>4, <2>5, <1>k
<1>4. CASE UdpEchos!ServerSend
  <2>1. /\ held # Nobody /\ down' = down \cup {held} /\ held' = Nobody
        /\ UNCHANGED <<up, waiting, sent, got, lost, twice, faults>>
    BY <1>4 DEF UdpEchos!ServerSend, Nobody
  <2>2. UdpEchos!TypeOK'
    BY <2>1, <1>t DEF UdpEchos!TypeOK, Datagrams, Nobody
  <2>3. UdpEchos!OwnAnswer'
    BY <2>1, <1>g DEF UdpEchos!OwnAnswer
  <2>4. ASSUME NEW d \in Datagrams PROVE Kept(d)
    BY <2>1, <1>d, <1>e, <1>o
  <2>. QED  BY <2>2, <2>3, <2>4, <1>k
<1>5. CASE UdpEchos!Lose
  <2>1. /\ up' \subseteq up /\ down' \subseteq down /\ lost' \subseteq Clients
        /\ faults' \in 0 .. MaxFaults
        /\ UNCHANGED <<held, waiting, sent, got, twice>>
    BY <1>5, <1>t, <1>e, MCLegacyPairsAssumption DEF UdpEchos!Lose
  <2>2. UdpEchos!TypeOK'
    BY <2>1, <1>t DEF UdpEchos!TypeOK, Datagrams, Nobody
  <2>3. UdpEchos!OwnAnswer'
    BY <2>1, <1>g DEF UdpEchos!OwnAnswer
  <2>4. ASSUME NEW d \in Datagrams PROVE Kept(d)
    BY <2>1, <1>d, <1>o
  <2>. QED  BY <2>2, <2>3, <2>4, <1>k
<1>6. CASE UdpEchos!Repeat
  <2>1. /\ faults' \in 0 .. MaxFaults /\ UNCHANGED <<held, waiting, sent, got, lost>>
    BY <1>6, <1>t, MCLegacyPairsAssumption DEF UdpEchos!Repeat
  <2>2. PICK e \in Datagrams :
             /\ e.message <= sent[e.from] /\ twice' = twice \cup {e.from}
             /\ \/ up' = up \cup {e} /\ down' = down
                \/ down' = down \cup {e} /\ up' = up
    <3>1. CASE /\ held # Nobody /\ up' = up \cup {held} /\ twice' = twice \cup {held.from}
               /\ UNCHANGED down
      <4>1. held \in Datagrams /\ held.message <= sent[held.from]
        BY <3>1, <1>t, <1>d, <1>o
      <4>. QED  BY <3>1, <4>1
    <3>2. ASSUME NEW c \in Clients, got[c] # 0, twice' = twice \cup {c},
                 down' = down \cup {[from |-> c, message |-> got[c]]}, UNCHANGED up
          PROVE  \E e \in Datagrams :
                   /\ e.message <= sent[e.from] /\ twice' = twice \cup {e.from}
                   /\ \/ up' = up \cup {e} /\ down' = down
                      \/ down' = down \cup {e} /\ up' = up
      <4>. DEFINE e == [from |-> c, message |-> got[c]]
      <4>1. got[c] \in 1 .. MaxMessages
        BY <3>2, <1>t, MCLegacyPairsAssumption
      <4>2. e \in Datagrams /\ e.from = c /\ e.message = got[c]
        BY <4>1 DEF Datagrams, UdpEchos!Datagrams
      <4>3. down' = down \cup {e}
        BY <3>2
      <4>. HIDE DEF e
      <4>. QED  BY <3>2, <4>2, <4>3, <1>g
    <3>. QED  BY <1>6, <3>1, <3>2 DEF UdpEchos!Repeat, Nobody
  <2>3. UdpEchos!TypeOK'
    BY <2>1, <2>2, <1>t, <1>e DEF UdpEchos!TypeOK, Datagrams, Nobody
  <2>4. UdpEchos!OwnAnswer'
    BY <2>1, <2>2, <1>g DEF UdpEchos!OwnAnswer
  <2>5. ASSUME NEW d \in Datagrams PROVE Kept(d)
    BY <2>1, <2>2, <1>d, <1>o
  <2>. QED  BY <2>3, <2>4, <2>5, <1>k
<1>. QED  BY <1>1, <1>2, <1>3, <1>4, <1>5, <1>6 DEF UdpEchos!Next, UdpEchos!Server

LEMMA UdpInductiveAlways == Spec => []UdpInductive
<1>1. Init => UdpInductive
  BY UdpInit DEF Init, UdpInductive
<1>2. UdpInductive /\ [Next]_vars => UdpInductive'
  <2>. SUFFICES ASSUME UdpInductive, [Next]_vars, program' = "udp"
                PROVE  UdpEchos!Inductive'
    BY DEF UdpInductive
  <2>1. CASE Udp(UdpEchos!Next)
    BY <2>1, UdpNext DEF Udp, UdpInductive
  <2>2. CASE Echo(EchoPairs!Next) \/ Calc(CalcPairs!Next) \/ File(FilePairs!Next)
             \/ Pipe(PipeClients!Next)
    BY <2>2 DEF Echo, Calc, File, Pipe
  <2>3. CASE UNCHANGED vars
    BY <2>3 DEF vars, UdpInductive, UdpEchos!Inductive, UdpEchos!TypeOK,
                UdpEchos!OwnAnswer, UdpEchos!UnderWay
  <2>. QED  BY <2>1, <2>2, <2>3 DEF Next
<1>. QED  BY <1>1, <1>2, PTL DEF Spec

(* A client compares nothing, and yet is shown the answer to its last message,
   unless the network delivered one of its datagrams twice. *)
THEOREM OwnAnswerAlways == Spec => []OwnAnswer
<1>1. UdpInductive => OwnAnswer
  BY DEF UdpInductive, UdpEchos!Inductive, OwnAnswer
<1>. QED  BY UdpInductiveAlways, <1>1, PTL

-----------------------------------------------------------------------------
(* EchoPair *)

LEMMA EchoInit == EchoPairs!Init => EchoPairs!Inductive
<1>. SUFFICES ASSUME EchoPairs!Init PROVE EchoPairs!Inductive
  OBVIOUS
<1>1. /\ server \in {"plain", "stdio"} /\ spc = "accept" /\ cur = 0 /\ len = 0 /\ eof \in BOOLEAN
      /\ reads \in [EchoPairs!Clients -> {"once", "whole", "line"}]
      /\ peer = [c \in EchoPairs!Clients |-> "up"]
      /\ cpc = [c \in EchoPairs!Clients |-> "input"]
      /\ up = [c \in EchoPairs!Clients |-> 0] /\ down = up
      /\ rounds = up /\ str_len = up /\ recv_len = up
  BY DEF EchoPairs!Init, EchoPairs!Listening, EchoPairs!Connected, EchoPairs!Nobody
<1>2. EchoPairs!TypeOK
  BY <1>1, MCLegacyPairsAssumption DEF EchoPairs!TypeOK
<1>3. EchoPairs!RoundsApart
  BY <1>1 DEF EchoPairs!RoundsApart, EchoPairs!UnderWay
<1>. QED  BY <1>1, <1>2, <1>3 DEF EchoPairs!Inductive

LEMMA EchoNext == EchoPairs!Inductive /\ EchoPairs!Next => EchoPairs!Inductive'
<1>. SUFFICES ASSUME EchoPairs!Inductive, EchoPairs!Next PROVE EchoPairs!Inductive'
  OBVIOUS
<1>. DEFINE Clients_ == EchoPairs!Clients
            Counts(c) == reads[c] # "once" /\ peer[c] = "up"
            OnWay(c) == EchoPairs!UnderWay(c)
            Exact(c) == /\ recv_len[c] <= str_len[c]
                        /\ OnWay(c) = str_len[c] - recv_len[c]
                        /\ cpc[c] = "input" => OnWay(c) = 0
            Enough(c) == /\ recv_len[c] + down[c] <= str_len[c]
                         /\ cpc[c] = "input" => down[c] = 0
<1>t. /\ server \in {"plain", "stdio"}
      /\ spc \in {"accept", "read", "write", "killed"}
      /\ cur \in 0 .. NumClients /\ len \in Nat /\ eof \in BOOLEAN
      /\ reads \in [Clients_ -> {"once", "whole", "line"}]
      /\ peer \in [Clients_ -> {"up", "gone", "reset", "dead"}]
      /\ up \in [Clients_ -> Nat] /\ down \in [Clients_ -> Nat]
      /\ cpc \in [Clients_ -> {"input", "read", "done", "killed"}]
      /\ rounds \in [Clients_ -> 0 .. MaxRounds]
      /\ str_len \in [Clients_ -> 0 .. MaxLen] /\ str_len \in [Clients_ -> Nat]
      /\ recv_len \in [Clients_ -> Nat]
  BY MCLegacyPairsAssumption DEF EchoPairs!Inductive, EchoPairs!TypeOK
<1>i. /\ spc \in {"read", "write"} => cur \in Clients_
      /\ \A c \in Clients_ : Counts(c) => Enough(c) /\ (spc # "killed" => Exact(c))
  BY DEF EchoPairs!Inductive, EchoPairs!RoundsApart
<1>c. Clients_ = 1 .. NumClients
  BY DEF EchoPairs!Clients
<1>k. ASSUME EchoPairs!TypeOK',
             spc' \in {"read", "write"} => cur' \in Clients_,
             \A c \in Clients_ : Counts(c)' => Enough(c)' /\ (spc' # "killed" => Exact(c)')
      PROVE  EchoPairs!Inductive'
  BY <1>k DEF EchoPairs!Inductive, EchoPairs!RoundsApart
<1>w. \A c \in Clients_ :
        /\ OnWay(c) = up[c] + down[c] + (IF cur = c /\ spc = "write" THEN len ELSE 0)
        /\ OnWay(c)' = up'[c] + down'[c] + (IF cur' = c /\ spc' = "write" THEN len' ELSE 0)
  BY DEF EchoPairs!UnderWay
<1>. DEFINE Kept(c) == Counts(c)' => Enough(c)' /\ (spc' # "killed" => Exact(c)')
<1>s. ASSUME NEW d \in Clients_, reads' = reads, spc = "killed" => spc' = "killed",
             peer'[d] = peer[d], down'[d] = down[d], cpc'[d] = cpc[d],
             str_len'[d] = str_len[d], recv_len'[d] = recv_len[d], OnWay(d)' = OnWay(d)
      PROVE  Kept(d)
  <2>. HIDE DEF OnWay
  <2>. QED  BY <1>s, <1>i
<1>u. ASSUME NEW d \in Clients_, UNCHANGED <<spc, cur, len>>, up'[d] = up[d], down'[d] = down[d]
      PROVE  OnWay(d)' = OnWay(d)
  BY <1>u, <1>w
<1>. HIDE DEF Clients_, OnWay
(* What clients do, with the connection and the numbers of one of them. *)
<1>1. ASSUME NEW c \in Clients_, EchoPairs!Input(c) PROVE EchoPairs!Inductive'
  <2>1. PICK n \in 1 .. MaxLen :
             /\ str_len' = [str_len EXCEPT ![c] = n]
             /\ up' = IF spc = "killed" THEN up ELSE [up EXCEPT ![c] = @ + n]
    BY <1>1 DEF EchoPairs!Input, EchoPairs!Add
  <2>2. /\ cpc[c] = "input" /\ rounds[c] < MaxRounds
        /\ recv_len' = [recv_len EXCEPT ![c] = 0]
        /\ rounds' = [rounds EXCEPT ![c] = @ + 1]
        /\ cpc' \in {[cpc EXCEPT ![c] = "read"], [cpc EXCEPT ![c] = "killed"]}
        /\ UNCHANGED <<server, spc, cur, len, eof, reads, peer, down>>
    BY <1>1 DEF EchoPairs!Input, EchoPairs!Add, EchoPairs!serverv
  <2>3. /\ n \in Nat /\ n \in 0 .. MaxLen /\ rounds[c] + 1 \in 0 .. MaxRounds
        /\ up' \in [Clients_ -> Nat]
    BY <2>1, <2>2, <1>t, MCLegacyPairsAssumption
  <2>4. EchoPairs!TypeOK'
    BY <2>1, <2>2, <2>3, <1>t, MCLegacyPairsAssumption DEF EchoPairs!TypeOK, Clients_
  <2>5. Kept(c)
    <3>1. Counts(c)' => down[c] = 0 /\ (spc # "killed" => OnWay(c) = 0)
      BY <2>2, <1>i
    <3>2. /\ recv_len'[c] = 0 /\ str_len'[c] = n /\ cpc'[c] # "input" /\ down'[c] = down[c]
          /\ spc # "killed" => up'[c] = up[c] + n
      BY <2>1, <2>2, <1>t
    <3>3. spc # "killed" => OnWay(c)' = OnWay(c) + n
      BY <3>2, <2>2, <2>3, <1>w, <1>t
    <3>. QED  BY <3>1, <3>2, <3>3, <2>2, <2>3
  <2>6. ASSUME NEW d \in Clients_ \ {c} PROVE Kept(d)
    BY <2>1, <2>2, <1>s, <1>u, <1>t
  <2>. QED  BY <2>2, <2>4, <2>5, <2>6, <1>i, <1>k
<1>2. ASSUME NEW c \in Clients_, EchoPairs!ReadOnce(c) PROVE EchoPairs!Inductive'
  <2>1. PICK k \in 1 .. down[c] :
             down' = [down EXCEPT ![c] = @ + (-k)] /\ recv_len' = [recv_len EXCEPT ![c] = k]
    BY <1>2 DEF EchoPairs!ReadOnce, EchoPairs!Add
  <2>2. /\ reads[c] = "once" /\ cpc' = [cpc EXCEPT ![c] = "input"]
        /\ UNCHANGED <<server, spc, cur, len, eof, reads, peer, up, rounds, str_len>>
    BY <1>2 DEF EchoPairs!ReadOnce, EchoPairs!serverv
  <2>3. k \in Nat /\ down[c] + (-k) \in Nat
    BY <2>1, <1>t
  <2>4. EchoPairs!TypeOK'
    BY <2>1, <2>2, <2>3, <1>t DEF EchoPairs!TypeOK, Clients_
  <2>5. Kept(c)
    BY <2>2
  <2>6. ASSUME NEW d \in Clients_ \ {c} PROVE Kept(d)
    BY <2>1, <2>2, <1>s, <1>u, <1>t
  <2>. QED  BY <2>2, <2>4, <2>5, <2>6, <1>i, <1>k
<1>3. ASSUME NEW c \in Clients_, EchoPairs!ReadWhole(c) PROVE EchoPairs!Inductive'
  <2>1. PICK k \in 1 .. down[c] :
             /\ down' = [down EXCEPT ![c] = @ + (-k)]
             /\ recv_len' = [recv_len EXCEPT ![c] = @ + k]
             /\ cpc' = [cpc EXCEPT ![c] = IF recv_len'[c] < str_len[c] THEN "read" ELSE "input"]
    BY <1>3 DEF EchoPairs!ReadWhole, EchoPairs!Add
  <2>2. UNCHANGED <<server, spc, cur, len, eof, reads, peer, up, rounds, str_len>>
    BY <1>3 DEF EchoPairs!ReadWhole, EchoPairs!serverv
  <2>3. k \in Nat /\ down[c] + (-k) \in Nat
    BY <2>1, <1>t
  <2>4. EchoPairs!TypeOK'
    BY <2>1, <2>2, <2>3, <1>t DEF EchoPairs!TypeOK, Clients_
  <2>5. Kept(c)
    <3>1. /\ down'[c] = down[c] - k /\ recv_len'[c] = recv_len[c] + k
          /\ cpc'[c] = "input" => ~(recv_len'[c] < str_len[c])
      BY <2>1, <1>t
    <3>2. OnWay(c)' = OnWay(c) - k /\ OnWay(c) \in Nat
      BY <3>1, <2>2, <2>3, <1>w, <1>t
    <3>. QED  BY <3>1, <3>2, <2>2, <2>3, <1>i, <1>t
  <2>6. ASSUME NEW d \in Clients_ \ {c} PROVE Kept(d)
    BY <2>1, <2>2, <1>s, <1>u, <1>t
  <2>. QED  BY <2>2, <2>4, <2>5, <2>6, <1>i, <1>k
<1>4. ASSUME NEW c \in Clients_, EchoPairs!ReadLine(c) PROVE EchoPairs!Inductive'
  <2>1. /\ down[c] >= str_len[c]
        /\ down' = [down EXCEPT ![c] = @ + (-str_len[c])]
        /\ recv_len' = [recv_len EXCEPT ![c] = str_len[c]]
        /\ cpc' = [cpc EXCEPT ![c] = "input"]
        /\ UNCHANGED <<server, spc, cur, len, eof, reads, peer, up, rounds, str_len>>
    BY <1>4 DEF EchoPairs!ReadLine, EchoPairs!Add, EchoPairs!serverv
  <2>2. down[c] + (-str_len[c]) \in Nat /\ str_len[c] \in Nat
    BY <2>1, <1>t
  <2>3. EchoPairs!TypeOK'
    BY <2>1, <2>2, <1>t DEF EchoPairs!TypeOK, Clients_
  <2>4. Kept(c)
    <3>1. /\ down'[c] = down[c] - str_len[c] /\ recv_len'[c] = str_len[c]
      BY <2>1, <1>t
    <3>2. OnWay(c)' = OnWay(c) - str_len[c] /\ OnWay(c) \in Nat /\ OnWay(c) >= down[c]
      BY <3>1, <2>1, <2>2, <1>w, <1>t
    <3>. QED  BY <3>1, <3>2, <2>1, <2>2, <1>i, <1>t
  <2>5. ASSUME NEW d \in Clients_ \ {c} PROVE Kept(d)
    BY <2>1, <1>s, <1>u, <1>t
  <2>. QED  BY <2>1, <2>3, <2>4, <2>5, <1>i, <1>k
<1>5. ASSUME NEW c \in Clients_, EchoPairs!ReadNothing(c) PROVE EchoPairs!Inductive'
  <2>1. /\ down[c] = 0 /\ spc = "killed" /\ cpc' = [cpc EXCEPT ![c] = "input"]
        /\ UNCHANGED <<server, spc, cur, len, eof, reads, peer, up, down, rounds, str_len, recv_len>>
    BY <1>5 DEF EchoPairs!ReadNothing, EchoPairs!serverv
  <2>2. EchoPairs!TypeOK'
    BY <2>1, <1>t DEF EchoPairs!TypeOK, Clients_
  <2>3. Kept(c)
    BY <2>1, <1>i
  <2>4. ASSUME NEW d \in Clients_ \ {c} PROVE Kept(d)
    BY <2>1, <1>s, <1>u, <1>t
  <2>. QED  BY <2>1, <2>2, <2>3, <2>4, <1>i, <1>k
<1>6. ASSUME NEW c \in Clients_, EchoPairs!Quit(c) \/ EchoPairs!Killed(c)
      PROVE  EchoPairs!Inductive'
  <2>1. PICK e \in {"gone", "reset"}, at \in {"done", "killed"} :
             peer' = [peer EXCEPT ![c] = e] /\ cpc' = [cpc EXCEPT ![c] = at]
    BY <1>6 DEF EchoPairs!Quit, EchoPairs!Killed
  <2>2. UNCHANGED <<server, spc, cur, len, eof, reads, up, down, rounds, str_len, recv_len>>
    BY <1>6 DEF EchoPairs!Quit, EchoPairs!Killed, EchoPairs!serverv
  <2>3. EchoPairs!TypeOK'
    BY <2>1, <2>2, <1>t DEF EchoPairs!TypeOK, Clients_
  <2>4. Kept(c)
    BY <2>1, <1>t
  <2>5. ASSUME NEW d \in Clients_ \ {c} PROVE Kept(d)
    BY <2>1, <2>2, <1>s, <1>u, <1>t
  <2>. QED  BY <2>2, <2>3, <2>4, <2>5, <1>i, <1>k
(* What the server does, with the connection of the client it serves. *)
<1>7. CASE EchoPairs!Accept
  <2>1. /\ spc = "accept" /\ spc' = "read" /\ eof' = FALSE /\ cur' \in Clients_
        /\ UNCHANGED <<server, len, reads, peer, up, down, cpc, rounds, str_len, recv_len>>
    BY <1>7 DEF EchoPairs!Accept, EchoPairs!clientv, Clients_
  <2>2. cur' \in 0 .. NumClients
    BY <2>1, <1>c, MCLegacyPairsAssumption
  <2>3. EchoPairs!TypeOK'
    BY <2>1, <2>2, <1>t DEF EchoPairs!TypeOK, Clients_
  <2>4. ASSUME NEW d \in Clients_ PROVE Kept(d)
    <3>1. OnWay(d)' = OnWay(d)
      BY <2>1, <1>w
    <3>. QED  BY <3>1, <2>1, <1>s
  <2>. QED  BY <2>1, <2>3, <2>4, <1>k
<1>8. CASE EchoPairs!Read
  <2>1. spc = "read" /\ cur \in Clients_
    BY <1>8, <1>i DEF EchoPairs!Read
  <2>2. PICK c \in Clients_ : c = cur
    BY <2>1
  <2>3. PICK k \in 1 .. up[c] : len' = k /\ up' = [up EXCEPT ![c] = @ + (-k)]
    BY <1>8, <2>2 DEF EchoPairs!Read, EchoPairs!Add
  <2>4. /\ spc' = "write"
        /\ UNCHANGED <<server, cur, eof, reads, peer, down, cpc, rounds, str_len, recv_len>>
    BY <1>8 DEF EchoPairs!Read, EchoPairs!clientv
  <2>5. k \in Nat /\ up[c] + (-k) \in Nat
    BY <2>3, <1>t
  <2>6. EchoPairs!TypeOK'
    BY <2>3, <2>4, <2>5, <1>t DEF EchoPairs!TypeOK, Clients_
  <2>7. ASSUME NEW d \in Clients_ PROVE Kept(d)
    <3>1. CASE d = c
      <4>1. up'[c] = up[c] - k /\ down'[c] = down[c]
        BY <2>3, <2>4, <1>t
      <4>2. OnWay(d)' = OnWay(d)
        BY <3>1, <4>1, <2>1, <2>2, <2>3, <2>4, <2>5, <1>w, <1>t
      <4>. QED  BY <4>2, <2>1, <2>4, <1>s
    <3>2. CASE d # c
      <4>1. OnWay(d)' = OnWay(d)
        BY <3>2, <2>1, <2>2, <2>3, <2>4, <1>w, <1>t
      <4>. QED  BY <4>1, <2>1, <2>4, <1>s
    <3>. QED  BY <3>1, <3>2
  <2>. QED  BY <2>1, <2>4, <2>6, <2>7, <1>k
<1>9. CASE EchoPairs!ReadEnd
  <2>1. /\ spc = "read" /\ spc' = "accept"
        /\ UNCHANGED <<server, cur, len, eof, reads, peer, up, down, cpc, rounds, str_len, recv_len>>
    BY <1>9 DEF EchoPairs!ReadEnd, EchoPairs!clientv
  <2>2. EchoPairs!TypeOK'
    BY <2>1, <1>t DEF EchoPairs!TypeOK, Clients_
  <2>3. ASSUME NEW d \in Clients_ PROVE Kept(d)
    <3>1. OnWay(d)' = OnWay(d)
      BY <2>1, <1>w
    <3>. QED  BY <3>1, <2>1, <1>s
  <2>. QED  BY <2>1, <2>2, <2>3, <1>k
<1>10. CASE EchoPairs!ReadError \/ EchoPairs!NoLine
  <2>1. spc = "read" /\ cur \in Clients_
    BY <1>10, <1>i DEF EchoPairs!ReadError, EchoPairs!NoLine
  <2>2. PICK c \in Clients_ : c = cur
    BY <2>1
  <2>3. /\ peer[c] # "up" /\ spc' \in {"read", "write"} /\ eof' \in BOOLEAN
        /\ peer' \in {peer, [peer EXCEPT ![c] = "dead"]}
        /\ UNCHANGED <<server, cur, len, reads, up, down, cpc, rounds, str_len, recv_len>>
    BY <1>10, <2>1, <2>2, <1>t DEF EchoPairs!ReadError, EchoPairs!NoLine, EchoPairs!Ended,
       EchoPairs!Broken, EchoPairs!clientv, EchoPairs!serverv
  <2>4. EchoPairs!TypeOK'
    BY <2>3, <1>t DEF EchoPairs!TypeOK, Clients_
  <2>5. Kept(c)
    BY <2>3, <1>t
  <2>6. ASSUME NEW d \in Clients_ \ {c} PROVE Kept(d)
    <3>1. OnWay(d)' = OnWay(d)
      BY <2>2, <2>3, <1>w
    <3>. QED  BY <3>1, <2>1, <2>3, <1>s, <1>t
  <2>. QED  BY <2>1, <2>3, <2>4, <2>5, <2>6, <1>k
<1>11. CASE EchoPairs!Write
  <2>1. spc = "write" /\ cur \in Clients_
    BY <1>11, <1>i DEF EchoPairs!Write
  <2>2. PICK c \in Clients_ : c = cur
    BY <2>1
  <2>3. UNCHANGED <<server, cur, len, eof, reads, up, cpc, rounds, str_len, recv_len>>
    BY <1>11 DEF EchoPairs!Write, EchoPairs!clientv
  <2>4. \/ /\ peer' = peer /\ down' = [down EXCEPT ![c] = @ + len] /\ spc' \in {"accept", "read"}
        \/ /\ peer[c] \in {"gone", "reset"} /\ peer' \in {peer, [peer EXCEPT ![c] = "dead"]}
           /\ down' = down /\ spc' \in {"accept", "read"}
        \/ peer[c] = "dead" /\ peer' = peer /\ down' = down /\ spc' = "killed"
        \/ len = 0 /\ peer' = peer /\ down' = down /\ spc' \in {"accept", "read"}
    BY <1>11, <2>2 DEF EchoPairs!Write, EchoPairs!Add, EchoPairs!AfterWrite
  <2>5. down' \in [Clients_ -> Nat] /\ peer' \in [Clients_ -> {"up", "gone", "reset", "dead"}]
        /\ spc' \in {"accept", "read", "killed"}
    BY <2>4, <1>t
  <2>6. EchoPairs!TypeOK'
    BY <2>3, <2>5, <1>t DEF EchoPairs!TypeOK, Clients_
  <2>7. Kept(c)
    <3>1. ASSUME Counts(c)' PROVE Enough(c)' /\ (spc' # "killed" => Exact(c)')
      <4>1. Counts(c) /\ spc' # "killed" /\ down'[c] = down[c] + len
        BY <3>1, <2>3, <2>4, <1>t
      <4>2. OnWay(c) = up[c] + down[c] + len /\ OnWay(c)' = up[c] + down[c] + len
        BY <4>1, <2>1, <2>2, <2>3, <2>5, <1>w, <1>t
      <4>3. Exact(c)
        BY <4>1, <2>1, <1>i
      <4>. QED  BY <4>1, <4>2, <4>3, <2>3, <1>t
    <3>. QED  BY <3>1
  <2>8. ASSUME NEW d \in Clients_ \ {c} PROVE Kept(d)
    <3>1. down'[d] = down[d] /\ peer'[d] = peer[d]
      BY <2>4, <1>t
    <3>2. OnWay(d)' = OnWay(d)
      BY <3>1, <2>2, <2>3, <1>w
    <3>. QED  BY <3>1, <3>2, <2>1, <2>3, <1>s
  <2>. QED  BY <2>1, <2>3, <2>5, <2>6, <2>7, <2>8, <1>k
<1>. QED  BY <1>1, <1>2, <1>3, <1>4, <1>5, <1>6, <1>7, <1>8, <1>9, <1>10, <1>11
          DEF EchoPairs!Next, EchoPairs!ServerStep, EchoPairs!Answer, Clients_

LEMMA EchoInductiveAlways == Spec => []EchoInductive
<1>1. Init => EchoInductive
  BY EchoInit DEF Init, EchoInductive
<1>2. EchoInductive /\ [Next]_vars => EchoInductive'
  <2>. SUFFICES ASSUME EchoInductive, [Next]_vars, program' = "echo"
                PROVE  EchoPairs!Inductive'
    BY DEF EchoInductive
  <2>1. CASE Echo(EchoPairs!Next)
    BY <2>1, EchoNext DEF Echo, EchoInductive
  <2>2. CASE Calc(CalcPairs!Next) \/ File(FilePairs!Next) \/ Pipe(PipeClients!Next)
             \/ Udp(UdpEchos!Next)
    BY <2>2 DEF Calc, File, Pipe, Udp
  <2>3. CASE UNCHANGED vars
    BY <2>3 DEF vars, EchoInductive, EchoPairs!Inductive, EchoPairs!TypeOK,
                EchoPairs!RoundsApart, EchoPairs!UnderWay
  <2>. QED  BY <2>1, <2>2, <2>3 DEF Next
<1>. QED  BY <1>1, <1>2, PTL DEF Spec

(* A client that reads until it has as many bytes as it sent never has more of
   them, and none are left for its next round. *)
THEOREM RoundsStayApart == Spec => []RoundsApart
<1>1. EchoInductive => RoundsApart
  BY DEF EchoInductive, EchoPairs!Inductive, RoundsApart
<1>. QED  BY EchoInductiveAlways, <1>1, PTL

-----------------------------------------------------------------------------
(* CalcPair *)

(* A set of numbers has a smallest one: what induction is done with here. *)
LEMMA SmallestNat ==
  ASSUME NEW T \in SUBSET Nat, T # {}
  PROVE  \E n \in T : \A m \in T : n <= m
<1>1. \E x \in T : \A y \in T : ~ (<<y, x>> \in OpToRel(<, Nat))
  BY NatLessThanWellFounded, WFMin
<1>2. PICK n \in T : \A y \in T : ~ (<<y, n>> \in OpToRel(<, Nat))
  BY <1>1
<1>3. \A m \in T : ~(m < n)
  BY <1>2 DEF OpToRel
<1>. QED  BY <1>3

(* f is what a loop of n rounds computes: z at first, and step of the round
   and of what it had then. *)
LoopOf(f, n, S, z, step) ==
    /\ f \in [0 .. n -> S] /\ f[0] = z
    /\ \A i \in 1 .. n : f[i] = step[<<i, f[i - 1]>>]

(* A loop whose rounds stay in S computes something. *)
LEMMA LoopRuns ==
  ASSUME NEW n \in Nat, NEW S, NEW z \in S, NEW step \in [(1 .. n) \X S -> S]
  PROVE  \E f : LoopOf(f, n, S, z, step)
<1>. USE DEF LoopOf
<1>. DEFINE Runs(m, f) == f[0] = z /\ \A i \in 1 .. m : f[i] = step[<<i, f[i - 1]>>]
            Stuck == {m \in 0 .. n : ~\E f \in [0 .. m -> S] : Runs(m, f)}
<1>. SUFFICES Stuck = {}
  <2>1. PICK h \in [0 .. n -> S] : Runs(n, h)
    <3>1. n \in 0 .. n
      OBVIOUS
    <3>. QED  BY <3>1
  <2>. QED  BY <2>1
<1>. SUFFICES ASSUME Stuck # {} PROVE FALSE
  OBVIOUS
<1>1. PICK m \in Stuck : \A k \in Stuck : m <= k
  <2>1. Stuck \in SUBSET Nat
    OBVIOUS
  <2>. QED  BY <2>1, SmallestNat
<1>2. m # 0
  <2>1. [i \in {0} |-> z] \in [0 .. 0 -> S] /\ Runs(0, [i \in {0} |-> z])
    OBVIOUS
  <2>. QED  BY <2>1
<1>3. PICK f \in [0 .. m - 1 -> S] : Runs(m - 1, f)
  <2>1. m - 1 \in 0 .. n /\ m - 1 \notin Stuck
    BY <1>1, <1>2
  <2>. QED  BY <2>1
<1>. DEFINE g == [i \in 0 .. m |-> IF i = m THEN step[<<m, f[m - 1]>>] ELSE f[i]]
<1>m. m \in Nat /\ m <= n /\ m - 1 \in 0 .. m - 1
  BY <1>1, <1>2
<1>4. g \in [0 .. m -> S]
  BY <1>1, <1>2
<1>5. Runs(m, g)
  <2>1. g[0] = z
    BY <1>2, <1>3
  <2>2. \A i \in 1 .. m - 1 : g[i] = f[i] /\ g[i - 1] = f[i - 1] /\ f[i] = step[<<i, f[i - 1]>>]
    BY <1>3
  <2>3. g[m] = step[<<m, g[m - 1]>>]
    <3>1. g[m - 1] = f[m - 1] /\ g[m] = step[<<m, f[m - 1]>>]
      BY <1>m
    <3>. QED  BY <3>1
  <2>4. \A i \in 1 .. m : i = m \/ i \in 1 .. m - 1
    BY <1>m
  <2>. QED  BY <2>1, <2>2, <2>3, <2>4
<1>. QED  BY <1>4, <1>5

(* Quotient and remainder are what makes up a number. *)
LEMMA DivUnique ==
  ASSUME NEW n \in Nat \ {0}, NEW q \in Int, NEW r \in 0 .. n - 1
  PROVE  (n * q + r) % n = r /\ (n * q + r) \div n = q
OBVIOUS

LEMMA Divided ==
  ASSUME NEW n \in Nat \ {0}, NEW x \in Int
  PROVE  x = n * (x \div n) + (x % n) /\ x % n \in 0 .. n - 1 /\ x \div n \in Int
OBVIOUS

(* Wrapping an operand around first changes nothing. *)
LEMMA WrapPlus ==
  ASSUME NEW n \in Nat \ {0}, NEW x \in Int, NEW y \in Int
  PROVE  ((x % n) + y) % n = (x + y) % n
<1>. DEFINE q == x \div n  r == x % n  v == (r + y) \div n  w == (r + y) % n
<1>1. /\ x = n * q + r /\ r \in 0 .. n - 1 /\ q \in Int
  BY Divided
<1>2. /\ r + y = n * v + w /\ w \in 0 .. n - 1 /\ v \in Int
  <2>1. r + y \in Int
    BY <1>1
  <2>. QED  BY <2>1, Divided
<1>3. x + y = n * (q + v) + w
  <2>. HIDE DEF q, r, v, w
  <2>1. n * (q + v) = n * q + n * v
    BY <1>1, <1>2
  <2>2. n * q \in Int /\ n * v \in Int
    BY <1>1, <1>2
  <2>. QED  BY <1>1, <1>2, <2>1, <2>2
<1>4. (n * (q + v) + w) % n = w
  <2>. HIDE DEF q, r, v, w
  <2>. QED  BY <1>1, <1>2, DivUnique
<1>. QED  BY <1>3, <1>4

LEMMA WrapTimes ==
  ASSUME NEW n \in Nat \ {0}, NEW x \in Int, NEW y \in Int
  PROVE  ((x % n) * y) % n = (x * y) % n
<1>. DEFINE q == x \div n  r == x % n  v == (r * y) \div n  w == (r * y) % n
<1>1. /\ x = n * q + r /\ r \in 0 .. n - 1 /\ q \in Int
  BY Divided
<1>2. /\ r * y = n * v + w /\ w \in 0 .. n - 1 /\ v \in Int
  <2>1. r * y \in Int
    BY <1>1
  <2>. QED  BY <2>1, Divided
<1>3. x * y = n * (q * y + v) + w
  <2>. HIDE DEF q, r, v, w
  <2>1. x * y = (n * q) * y + r * y
    BY <1>1
  <2>2. (n * q) * y = n * (q * y)
    BY <1>1
  <2>3. q * y \in Int
    BY <1>1
  <2>4. n * (q * y + v) = n * (q * y) + n * v
    BY <1>2, <2>3
  <2>5. n * (q * y) \in Int /\ n * v \in Int
    BY <1>2, <2>3
  <2>. QED  BY <1>2, <2>1, <2>2, <2>4, <2>5
<1>4. (n * (q * y + v) + w) % n = w
  <2>. HIDE DEF q, r, v, w
  <2>1. q * y + v \in Int
    BY <1>1, <1>2
  <2>. QED  BY <1>2, <2>1, DivUnique
<1>. QED  BY <1>3, <1>4

(* calculate wraps around in every round, and returns the sum or product that
   wraps around only once. *)
LEMMA CalculateRight ==
  ASSUME NEW op, NEW values \in Seq(CalcPairs!Words)
  PROVE  /\ CalcPairs!calculate(op, values) \in CalcPairs!Words
         /\ CalcPairs!calculate(op, values) = CalcPairs!Wrap(CalcPairs!Total(op, values))
<1>. DEFINE n == Len(values)
            z == IF op = CalcPairs!Plus THEN 0 ELSE 1
            step == [p \in (1 .. n) \X CalcPairs!Words |->
                        IF op = CalcPairs!Plus THEN CalcPairs!Wrap(p[2] + values[p[1]])
                                               ELSE CalcPairs!Wrap(p[2] * values[p[1]])]
            exact == [p \in (1 .. n) \X Int |->
                        IF op = CalcPairs!Plus THEN p[2] + values[p[1]]
                                               ELSE p[2] * values[p[1]]]
            loop == CHOOSE f : f = [i \in 0 .. n |->
                       IF i = 0 THEN IF op = CalcPairs!Plus THEN 0 ELSE 1
                       ELSE IF op = CalcPairs!Plus THEN CalcPairs!Wrap(f[i - 1] + values[i])
                                                   ELSE CalcPairs!Wrap(f[i - 1] * values[i])]
            upto == CHOOSE f : f = [i \in 0 .. n |->
                       IF i = 0 THEN IF op = CalcPairs!Plus THEN 0 ELSE 1
                       ELSE IF op = CalcPairs!Plus THEN f[i - 1] + values[i]
                                                   ELSE f[i - 1] * values[i]]
<1>m. Modulus \in Nat \ {0}
  BY CalcAssumption
<1>w. \A x \in Int : CalcPairs!Wrap(x) \in CalcPairs!Words
  BY <1>m DEF CalcPairs!Words, CalcPairs!Wrap
<1>0. /\ n \in Nat /\ \A i \in 1 .. n : values[i] \in CalcPairs!Words
      /\ CalcPairs!Words \in SUBSET Int 
  BY <1>m DEF CalcPairs!Words
<1>z. z \in CalcPairs!Words /\ z \in Int
  BY CalcAssumption DEF CalcPairs!Words
<1>1. /\ CalcPairs!calculate(op, values) = loop[n]
      /\ CalcPairs!Total(op, values) = upto[n]
  BY DEF CalcPairs!calculate, CalcPairs!Total
<1>2. step \in [(1 .. n) \X CalcPairs!Words -> CalcPairs!Words]
  <2>. SUFFICES ASSUME NEW i \in 1 .. n, NEW r \in CalcPairs!Words
                PROVE  /\ CalcPairs!Wrap(r + values[i]) \in CalcPairs!Words
                       /\ CalcPairs!Wrap(r * values[i]) \in CalcPairs!Words
    OBVIOUS
  <2>1. values[i] \in Int /\ r \in Int
    BY <1>0
  <2>2. r + values[i] \in Int /\ r * values[i] \in Int
    BY <2>1
  <2>. QED  BY <2>2, <1>w
<1>3. exact \in [(1 .. n) \X Int -> Int]
  <2>. SUFFICES ASSUME NEW i \in 1 .. n, NEW r \in Int
                PROVE  r + values[i] \in Int /\ r * values[i] \in Int
    OBVIOUS
  <2>1. values[i] \in Int
    BY <1>0
  <2>. QED  BY <2>1
<1>. HIDE DEF n, step, exact, z, loop, upto
<1>4. PICK f : LoopOf(f, n, CalcPairs!Words, z, step)
  BY <1>0, <1>z, <1>2, LoopRuns, Zenon
<1>5. PICK g : LoopOf(g, n, Int, z, exact)
  BY <1>0, <1>z, <1>3, LoopRuns, Zenon
<1>6. /\ loop[0] = z
      /\ \A i \in 1 .. n : loop[i] = IF op = CalcPairs!Plus
                                    THEN CalcPairs!Wrap(loop[i - 1] + values[i])
                                    ELSE CalcPairs!Wrap(loop[i - 1] * values[i])
  <2>. DEFINE e == [i \in 0 .. n |->
                       IF i = 0 THEN IF op = CalcPairs!Plus THEN 0 ELSE 1
                       ELSE IF op = CalcPairs!Plus THEN CalcPairs!Wrap(f[i - 1] + values[i])
                                                   ELSE CalcPairs!Wrap(f[i - 1] * values[i])]
  <2>1. \A i \in 1 .. n : e[i] = f[i]
    <3>. SUFFICES ASSUME NEW i \in 1 .. n PROVE e[i] = f[i]
      OBVIOUS
    <3>1. f[i - 1] \in CalcPairs!Words /\ f[i] = step[<<i, f[i - 1]>>]
      BY <1>0, <1>4 DEF LoopOf
    <3>2. i \in 0 .. n /\ i # 0
      BY <1>0
    <3>. QED  BY <3>1, <3>2 DEF step
  <2>2. e[0] = f[0]
    BY <1>0, <1>4 DEF LoopOf, z
  <2>3. e = f
    <3>1. \A i \in 0 .. n : e[i] = f[i]
      <4>1. \A i \in 0 .. n : i = 0 \/ i \in 1 .. n
        BY <1>0
      <4>. HIDE DEF e
      <4>. QED  BY <4>1, <2>1, <2>2
    <3>2. e = [i \in 0 .. n |-> e[i]] /\ f = [i \in 0 .. n |-> f[i]]
      BY <1>4 DEF LoopOf
    <3>. HIDE DEF e
    <3>. QED  BY <3>1, <3>2
  <2>4. loop = [i \in 0 .. n |->
                   IF i = 0 THEN IF op = CalcPairs!Plus THEN 0 ELSE 1
                   ELSE IF op = CalcPairs!Plus THEN CalcPairs!Wrap(loop[i - 1] + values[i])
                                               ELSE CalcPairs!Wrap(loop[i - 1] * values[i])]
    BY <2>3 DEF loop
  <2>5. 0 \in 0 .. n /\ \A i \in 1 .. n : i \in 0 .. n /\ i # 0
    BY <1>0
  <2>. HIDE DEF e
  <2>. QED  BY <2>4, <2>5 DEF z
<1>7. /\ upto[0] = z
      /\ \A i \in 1 .. n : upto[i] = IF op = CalcPairs!Plus
                                    THEN upto[i - 1] + values[i]
                                    ELSE upto[i - 1] * values[i]
  <2>. DEFINE e == [i \in 0 .. n |->
                       IF i = 0 THEN IF op = CalcPairs!Plus THEN 0 ELSE 1
                       ELSE IF op = CalcPairs!Plus THEN g[i - 1] + values[i]
                                                   ELSE g[i - 1] * values[i]]
  <2>1. \A i \in 1 .. n : e[i] = g[i]
    <3>. SUFFICES ASSUME NEW i \in 1 .. n PROVE e[i] = g[i]
      OBVIOUS
    <3>1. g[i - 1] \in Int /\ g[i] = exact[<<i, g[i - 1]>>]
      BY <1>0, <1>5 DEF LoopOf
    <3>2. i \in 0 .. n /\ i # 0
      BY <1>0
    <3>. QED  BY <3>1, <3>2 DEF exact
  <2>2. e[0] = g[0]
    BY <1>0, <1>5 DEF LoopOf, z
  <2>3. e = g
    <3>1. \A i \in 0 .. n : e[i] = g[i]
      <4>1. \A i \in 0 .. n : i = 0 \/ i \in 1 .. n
        BY <1>0
      <4>. HIDE DEF e
      <4>. QED  BY <4>1, <2>1, <2>2
    <3>2. e = [i \in 0 .. n |-> e[i]] /\ g = [i \in 0 .. n |-> g[i]]
      BY <1>5 DEF LoopOf
    <3>. HIDE DEF e
    <3>. QED  BY <3>1, <3>2
  <2>4. upto = [i \in 0 .. n |->
                   IF i = 0 THEN IF op = CalcPairs!Plus THEN 0 ELSE 1
                   ELSE IF op = CalcPairs!Plus THEN upto[i - 1] + values[i]
                                               ELSE upto[i - 1] * values[i]]
    BY <2>3 DEF upto
  <2>5. 0 \in 0 .. n /\ \A i \in 1 .. n : i \in 0 .. n /\ i # 0
    BY <1>0
  <2>. HIDE DEF e
  <2>. QED  BY <2>4, <2>5 DEF z
<1>. DEFINE Apart == {i \in 0 .. n : ~(/\ loop[i] \in CalcPairs!Words /\ upto[i] \in Int
                                       /\ loop[i] = CalcPairs!Wrap(upto[i]))}
<1>8. Apart = {}
  <2>. SUFFICES ASSUME Apart # {} PROVE FALSE
    OBVIOUS
  <2>1. PICK i \in Apart : \A k \in Apart : i <= k
    <3>1. Apart \in SUBSET Nat
      BY <1>0
    <3>. QED  BY <3>1, SmallestNat
  <2>2. i # 0
    <3>1. z = CalcPairs!Wrap(z)
      <4>1. z \in 0 .. Modulus - 1
        BY <1>z DEF CalcPairs!Words
      <4>2. z % Modulus = z
        BY <4>1, <1>m
      <4>. QED  BY <4>1, <4>2 DEF CalcPairs!Wrap
    <3>. QED  BY <3>1, <1>z, <1>6, <1>7, <2>1
  <2>3. i \in 1 .. n /\ i - 1 \in 0 .. n /\ i - 1 \notin Apart
    <3>1. i \in 0 .. n
      OBVIOUS
    <3>2. i \in 1 .. n /\ i - 1 \in 0 .. n
      BY <3>1, <2>2, <1>0
    <3>. QED  BY <3>2, <2>1, <1>0
  <2>4. /\ loop[i - 1] \in Int /\ upto[i - 1] \in Int /\ values[i] \in Int
        /\ loop[i - 1] = CalcPairs!Wrap(upto[i - 1])
    BY <2>3, <1>0
  <2>. DEFINE x == upto[i - 1]  y == values[i]
  <2>. HIDE DEF Apart
  <2>5. /\ CalcPairs!Wrap(loop[i - 1] + y) = CalcPairs!Wrap(x + y)
        /\ CalcPairs!Wrap(loop[i - 1] * y) = CalcPairs!Wrap(x * y)
    <3>1. /\ ((x % Modulus) + y) % Modulus = (x + y) % Modulus
          /\ ((x % Modulus) * y) % Modulus = (x * y) % Modulus
      BY <2>4, <1>m, WrapPlus, WrapTimes
    <3>. QED  BY <2>4, <3>1 DEF CalcPairs!Wrap
  <2>6. x + y \in Int /\ x * y \in Int
    BY <2>4
  <2>7. /\ upto[i] = IF op = CalcPairs!Plus THEN x + y ELSE x * y
        /\ loop[i] = IF op = CalcPairs!Plus THEN CalcPairs!Wrap(loop[i - 1] + y)
                                            ELSE CalcPairs!Wrap(loop[i - 1] * y)
    BY <2>3, <1>6, <1>7
  <2>8. upto[i] \in Int /\ loop[i] = CalcPairs!Wrap(upto[i])
    BY <2>5, <2>6, <2>7
  <2>. QED  BY <2>8, <1>w DEF Apart
<1>. QED  BY <1>0, <1>1, <1>8

(* An int is read as what was written. *)
LEMMA DecodeLayout ==
  ASSUME NEW w \in CalcPairs!Words
  PROVE  CalcPairs!Decode(Layout[w]) = w
BY CalcAssumption DEF CalcPairs!Decode, CalcPairs!Words

(* What lies where in a request. *)
LEMMA RequestBytes ==
  ASSUME NEW values \in Seq(CalcPairs!Words), Len(values) <= MaxOperands,
         NEW op \in {CalcPairs!Plus, CalcPairs!Times}
  PROVE  LET n == Len(values)
             request == CalcPairs!Request(values, op)
         IN  /\ request \in Seq(CalcPairs!Bytes)
             /\ Len(request) = (n + 1) * WordSize + 1
             /\ \A j \in 1 .. WordSize : request[j] = Layout[n][j]
             /\ \A k \in 0 .. n - 1, j \in 1 .. WordSize :
                   request[WordSize + (k * WordSize + j)] = Layout[values[k + 1]][j]
             /\ request[(n + 1) * WordSize + 1] = op
<1>. DEFINE n == Len(values)
            ints == <<n>> \o values
            total == (n + 1) * WordSize
            request == CalcPairs!Request(values, op)
            Byte(i) == Layout[ints[((i - 1) \div WordSize) + 1]][((i - 1) % WordSize) + 1]
<1>1. /\ WordSize \in Nat \ {0} /\ n \in Nat /\ n \in CalcPairs!Words /\ MaxOperands \in Int
      /\ total \in Nat /\ total = WordSize + n * WordSize
  <2>1. WordSize \in Nat \ {0} /\ n \in Nat /\ MaxOperands \in Int
    BY CalcAssumption
  <2>2. n \in CalcPairs!Words
    BY <2>1, CalcAssumption DEF CalcPairs!Words
  <2>3. total \in Nat /\ total = WordSize + n * WordSize
    BY <2>1
  <2>. QED  BY <2>1, <2>2, <2>3
<1>2. /\ Len(ints) = n + 1 /\ ints[1] = n
      /\ \A k \in 1 .. n : ints[k + 1] = values[k]
      /\ \A k \in 1 .. n + 1 : ints[k] \in CalcPairs!Words
  <2>1. Len(ints) = n + 1 /\ ints[1] = n /\ \A k \in 1 .. n : ints[k + 1] = values[k]
    BY <1>1
  <2>2. \A k \in 1 .. n + 1 : k = 1 \/ (k - 1 \in 1 .. n /\ k = (k - 1) + 1)
    BY <1>1
  <2>3. \A k \in 1 .. n : values[k] \in CalcPairs!Words
    OBVIOUS
  <2>. HIDE DEF ints, n
  <2>. QED  BY <2>1, <2>2, <2>3, <1>1
<1>3. request = [i \in 1 .. total + 1 |-> IF i > total THEN op ELSE Byte(i)]
  BY <1>2 DEF CalcPairs!Request
(* The bytes of the k-th int, counted from 0. *)
<1>4. \A k \in 0 .. n, j \in 1 .. WordSize :
         /\ k * WordSize + j \in 1 .. total
         /\ request[k * WordSize + j] = Layout[ints[k + 1]][j]
  <2>. SUFFICES ASSUME NEW k \in 0 .. n, NEW j \in 1 .. WordSize
                PROVE  /\ k * WordSize + j \in 1 .. total
                       /\ request[k * WordSize + j] = Layout[ints[k + 1]][j]
    BY Zenon
  <2>. DEFINE i == k * WordSize + j
  <2>1. i \in 1 .. total
    <3>1. k * WordSize <= n * WordSize /\ k * WordSize \in Nat /\ n * WordSize \in Nat
      BY <1>1
    <3>. HIDE DEF total
    <3>. QED  BY <3>1, <1>1
  <2>2. (i - 1) \div WordSize = k /\ (i - 1) % WordSize = j - 1
    <3>1. i - 1 = WordSize * k + (j - 1) /\ j - 1 \in 0 .. WordSize - 1 /\ k \in Int
      BY <1>1
    <3>. HIDE DEF i
    <3>. QED  BY <3>1, <1>1, DivUnique
  <2>3. request[i] = Byte(i)
    <3>. HIDE DEF i, total, request, Byte
    <3>. QED  BY <2>1, <1>1, <1>3
  <2>4. Byte(i) = Layout[ints[k + 1]][j]
    <3>. HIDE DEF i, ints
    <3>. QED  BY <2>2
  <2>. QED  BY <2>1, <2>3, <2>4
<1>5. \A i \in 1 .. total : request[i] \in CalcPairs!Bytes
  <2>. SUFFICES ASSUME NEW i \in 1 .. total PROVE request[i] \in CalcPairs!Bytes
    OBVIOUS
  <2>. DEFINE k == (i - 1) \div WordSize  j == ((i - 1) % WordSize) + 1
  <2>1. k \in 0 .. n /\ j \in 1 .. WordSize /\ request[i] = Byte(i)
    <3>1. /\ i - 1 = WordSize * k + (j - 1) /\ j - 1 \in 0 .. WordSize - 1 /\ k \in Int
      BY <1>1, Divided
    <3>2. k >= 0 /\ k < n + 1
      <4>1. WordSize * k + (j - 1) >= 0 /\ WordSize * k + (j - 1) < (n + 1) * WordSize
        BY <3>1, <1>1
      <4>. HIDE DEF k, j
      <4>2. k < 0 => WordSize * k <= -WordSize
        BY <3>1, <1>1
      <4>3. k >= n + 1 => WordSize * k >= (n + 1) * WordSize
        BY <3>1, <1>1
      <4>. QED  BY <3>1, <4>1, <4>2, <4>3, <1>1
    <3>3. request[i] = Byte(i)
      <4>. HIDE DEF total, request, Byte
      <4>. QED  BY <1>1, <1>3
    <3>4. k \in 0 .. n /\ j \in 1 .. WordSize
      <4>1. j \in Int
        BY <1>1
      <4>. HIDE DEF k, j, n
      <4>. QED  BY <4>1, <3>1, <3>2, <1>1
    <3>. QED  BY <3>3, <3>4
  <2>2. Layout[ints[k + 1]][j] \in CalcPairs!Bytes
    <3>. HIDE DEF k, j, ints, n
    <3>1. ints[k + 1] \in CalcPairs!Words
      BY <2>1, <1>1, <1>2
    <3>2. Layout[ints[k + 1]] \in [1 .. WordSize -> CalcPairs!Bytes]
      BY <3>1, CalcAssumption DEF CalcPairs!Words, CalcPairs!Bytes
    <3>. QED  BY <3>2, <2>1
  <2>. QED  BY <2>1, <2>2
<1>6. /\ request \in Seq(CalcPairs!Bytes) /\ Len(request) = total + 1
      /\ request[total + 1] = op
  <2>1. request[total + 1] = op
    <3>. HIDE DEF total, request, Byte
    <3>. QED  BY <1>1, <1>3
  <2>2. op \in CalcPairs!Bytes
    <3>1. 0 \in 0 .. Base - 1 /\ 1 \in 0 .. Base - 1
      BY CalcAssumption
    <3>. QED  BY <3>1 DEF CalcPairs!Bytes, CalcPairs!Plus, CalcPairs!Times
  <2>3. \A i \in 1 .. total + 1 : request[i] \in CalcPairs!Bytes
    <3>. HIDE DEF total, request
    <3>. QED  BY <2>1, <2>2, <1>1, <1>5
  <2>4. request = [i \in 1 .. total + 1 |-> request[i]]
    <3>. HIDE DEF total, Byte
    <3>. QED  BY <1>3
  <2>. HIDE DEF total, request
  <2>. QED  BY <2>1, <2>3, <2>4, <1>1
<1>7. \A j \in 1 .. WordSize : request[j] = Layout[n][j]
  <2>1. 0 \in 0 .. n /\ \A j \in 1 .. WordSize : 0 * WordSize + j = j
    BY <1>1
  <2>. HIDE DEF n, ints, request
  <2>. QED  BY <2>1, <1>2, <1>4
<1>8. \A k \in 0 .. n - 1, j \in 1 .. WordSize :
         request[WordSize + (k * WordSize + j)] = Layout[values[k + 1]][j]
  <2>. SUFFICES ASSUME NEW k \in 0 .. n - 1, NEW j \in 1 .. WordSize
                PROVE  request[WordSize + (k * WordSize + j)] = Layout[values[k + 1]][j]
    BY Zenon
  <2>1. k + 1 \in 0 .. n /\ k + 1 \in 1 .. n
    BY <1>1
  <2>2. WordSize + (k * WordSize + j) = (k + 1) * WordSize + j
    BY <1>1
  <2>3. ints[(k + 1) + 1] = values[k + 1]
    BY <2>1, <1>2
  <2>. HIDE DEF n, ints, request
  <2>. QED  BY <2>1, <2>2, <2>3, <1>4
<1>. QED  BY <1>6, <1>7, <1>8

(* What one read puts into the buffer, and what it leaves of it. *)
LEMMA PlacedBytes ==
  ASSUME NEW buffer \in Seq(CalcPairs!Bytes), NEW start \in Nat,
         NEW bytes \in Seq(CalcPairs!Bytes),
         NEW k \in 1 .. Len(bytes), start + k <= Len(buffer)
  PROVE  LET placed == CalcPairs!Placed(buffer, start, bytes, k)
         IN  /\ placed \in Seq(CalcPairs!Bytes) /\ Len(placed) = Len(buffer)
             /\ \A j \in 1 .. start : placed[j] = buffer[j]
             /\ \A j \in 1 .. k : placed[start + j] = bytes[j]
<1>. DEFINE placed == CalcPairs!Placed(buffer, start, bytes, k)
            n == Len(buffer)
<1>1. /\ n \in Nat /\ k \in Nat /\ k <= Len(bytes) /\ Len(bytes) \in Nat
      /\ \A j \in 1 .. n : buffer[j] \in CalcPairs!Bytes
      /\ \A j \in 1 .. Len(bytes) : bytes[j] \in CalcPairs!Bytes
  OBVIOUS
<1>2. placed = [j \in 1 .. n |-> IF j > start /\ j <= start + k THEN bytes[j - start]
                                                           ELSE buffer[j]]
  BY DEF CalcPairs!Placed
<1>3. \A j \in 1 .. n : placed[j] \in CalcPairs!Bytes
  BY <1>1, <1>2
<1>4. placed \in Seq(CalcPairs!Bytes) /\ Len(placed) = n
  <2>. HIDE DEF n, placed
  <2>. QED  BY <1>1, <1>2, <1>3
<1>5. \A j \in 1 .. start : placed[j] = buffer[j]
  BY <1>1, <1>2
<1>6. \A j \in 1 .. k : placed[start + j] = bytes[j]
  BY <1>1, <1>2
<1>. QED  BY <1>4, <1>5, <1>6

(* What one read leaves of the stream. *)
LEMMA Rest ==
  ASSUME NEW S, NEW bytes \in Seq(S), NEW k \in 1 .. Len(bytes)
  PROVE  LET rest == SubSeq(bytes, k + 1, Len(bytes))
         IN  /\ rest \in Seq(S) /\ Len(rest) = Len(bytes) - k
             /\ \A j \in 1 .. Len(rest) : rest[j] = bytes[k + j]
OBVIOUS

LEMMA ZerosBytes ==
  ASSUME NEW n \in Nat
  PROVE  CalcPairs!Zeros(n) \in Seq(CalcPairs!Bytes) /\ Len(CalcPairs!Zeros(n)) = n
<1>1. 0 \in CalcPairs!Bytes
  BY CalcAssumption DEF CalcPairs!Bytes
<1>. QED  BY <1>1 DEF CalcPairs!Zeros

(* Request and answer arrive in the order of their bytes, however the reads cut
   them, and the server has the operands of the client it answers. *)
LEMMA CalcNext == CalcPairs!Inductive /\ CalcPairs!Next => CalcPairs!Inductive'
<1>. SUFFICES ASSUME CalcPairs!Inductive, CalcPairs!Next PROVE CalcPairs!Inductive'
  OBVIOUS
<1>. DEFINE request == CalcPairs!Request(asked, operator)
            n == Len(asked)
(* What the lemmas about the operators say of this state. *)
<1>w. /\ WordSize \in Nat \ {0} /\ n \in Nat /\ MaxOperands \in Nat /\ NumClients \in Nat
      /\ n \in CalcPairs!Words
      /\ 0 \in 0 .. WordSize /\ n * WordSize \in Nat
      /\ WordSize + n * WordSize = (n + 1) * WordSize
  <2>1. /\ WordSize \in Nat \ {0} /\ n \in Nat /\ MaxOperands \in Nat /\ NumClients \in Nat
        /\ n <= MaxOperands /\ MaxOperands \in 0 .. Modulus - 1 /\ Modulus \in Nat
    BY CalcAssumption, MCLegacyPairsAssumption DEF CalcPairs!Inductive, CalcPairs!TypeOK
  <2>. HIDE DEF n
  <2>2. n \in CalcPairs!Words
    BY <2>1 DEF CalcPairs!Words
  <2>3. n * WordSize \in Nat /\ WordSize + n * WordSize = (n + 1) * WordSize
    BY <2>1
  <2>. QED  BY <2>1, <2>2, <2>3
<1>t. /\ client \in 0 .. NumClients /\ cpc \in {"none", "read", "done", "killed"}
      /\ backlog \in 0 .. client
      /\ asked \in Seq(CalcPairs!Words)
      /\ operator \in {CalcPairs!Plus, CalcPairs!Times}
      /\ up \in Seq(CalcPairs!Bytes) /\ down \in Seq(CalcPairs!Bytes)
      /\ spc \in {"op_count", "operends", "operator", "accept", "failed"}
      /\ memory \in Seq(CalcPairs!Bytes) /\ recv_pos \in 0 .. Len(memory)
      /\ operands \in [count : CalcPairs!Words, values : Seq(CalcPairs!Words)]
      /\ cmemory \in Seq(CalcPairs!Bytes) /\ crecv_pos \in 0 .. WordSize
      /\ result \in CalcPairs!Words
  BY DEF CalcPairs!Inductive, CalcPairs!TypeOK, CalcPairs!Reading
<1>i. /\ Len(asked) <= MaxOperands
      /\ spc \in {"accept", "failed"} => memory = <<>> /\ recv_pos = 0
      /\ spc \in {"operends", "operator"} => operands.count = Len(asked)
      /\ spc = "operator" => operands.values = asked
      /\ cpc # "none" => Len(cmemory) = WordSize
  BY DEF CalcPairs!Inductive
<1>a. CalcPairs!AnswerInOrder
  BY DEF CalcPairs!Inductive
<1>n. /\ CalcPairs!Unanswered <=> crecv_pos = 0 /\ down = <<>>
      /\ CalcPairs!UnderWay <=>
            /\ crecv_pos + Len(down) = WordSize
            /\ \A j \in 1 .. crecv_pos : cmemory[j] = CalcPairs!Answer[j]
            /\ \A j \in 1 .. Len(down) : down[j] = CalcPairs!Answer[crecv_pos + j]
  BY DEF CalcPairs!Unanswered, CalcPairs!UnderWay
<1>r. /\ request \in Seq(CalcPairs!Bytes) /\ Len(request) = (n + 1) * WordSize + 1
      /\ \A j \in 1 .. WordSize : request[j] = Layout[n][j]
      /\ \A k \in 0 .. n - 1, j \in 1 .. WordSize :
            request[WordSize + (k * WordSize + j)] = Layout[asked[k + 1]][j]
      /\ request[(n + 1) * WordSize + 1] = operator
  BY <1>t, <1>i, RequestBytes
<1>o. CalcPairs!Serving =>
         /\ Len(memory) = CalcPairs!Size
         /\ CalcPairs!Offset + recv_pos + Len(up) <= Len(request)
         /\ \A j \in 1 .. recv_pos : memory[j] = request[CalcPairs!Offset + j]
         /\ \A j \in 1 .. Len(up) : up[j] = request[CalcPairs!Offset + recv_pos + j]
  BY DEF CalcPairs!Inductive, CalcPairs!RequestInOrder
<1>c. /\ CalcPairs!calculate(operator, asked) \in CalcPairs!Words
      /\ CalcPairs!Answer \in [1 .. WordSize -> CalcPairs!Bytes]
  <2>1. CalcPairs!calculate(operator, asked) \in CalcPairs!Words
    BY <1>t, CalculateRight
  <2>. QED  BY <2>1, CalcAssumption
            DEF CalcPairs!Answer, CalcPairs!Words, CalcPairs!Bytes
<1>s. /\ spc = "op_count" => CalcPairs!Size = WordSize /\ CalcPairs!Offset = 0
      /\ spc = "operends" =>
            CalcPairs!Size = n * WordSize /\ CalcPairs!Offset = WordSize
      /\ spc = "operator" =>
            CalcPairs!Size = 1 /\ CalcPairs!Offset = (n + 1) * WordSize
      /\ spc \in {"accept", "failed"} => CalcPairs!Size = 0 /\ CalcPairs!Offset = 0
      /\ CalcPairs!Size \in Nat /\ CalcPairs!Offset \in Nat
      /\ CalcPairs!Serving <=> spc \notin {"accept", "failed"}
  <2>. USE DEF CalcPairs!Size, CalcPairs!Offset
  <2>1. CASE spc = "op_count"
    BY <2>1, <1>w, <1>i DEF CalcPairs!Serving, CalcPairs!Reading
  <2>2. CASE spc = "operends"
    BY <2>2, <1>w, <1>i DEF CalcPairs!Serving, CalcPairs!Reading
  <2>3. CASE spc = "operator"
    <3>1. (n + 1) * WordSize \in Nat
      BY <1>w
    <3>. QED  BY <2>3, <3>1, <1>i DEF CalcPairs!Serving, CalcPairs!Reading
  <2>4. CASE spc \in {"accept", "failed"}
    BY <2>4, <1>t DEF CalcPairs!Serving, CalcPairs!Reading
  <2>. QED  BY <2>1, <2>2, <2>3, <2>4, <1>t
<1>l. CalcPairs!Serving => /\ Len(memory) = CalcPairs!Size
                           /\ recv_pos >= CalcPairs!Size => recv_pos = CalcPairs!Size
  <2>1. CalcPairs!Serving => Len(memory) = CalcPairs!Size
    BY <1>o
  <2>2. recv_pos \in Nat /\ recv_pos <= Len(memory) /\ Len(memory) \in Nat
    BY <1>t
  <2>. QED  BY <2>1, <2>2
<1>. HIDE DEF request, n
<1>1. CASE CalcPairs!Connect
  <2>1. /\ client < NumClients /\ client' = client + 1 /\ backlog' = backlog + 1
        /\ UNCHANGED <<asked, operator, up, down, spc, memory, recv_pos, operands, cpc,
                       cmemory, crecv_pos, result>>
    BY <1>1 DEF CalcPairs!Connect, CalcPairs!serverv, CalcPairs!clientv
  <2>2. client' \in 0 .. NumClients /\ backlog' \in 0 .. client'
    BY <2>1, <1>t, <1>w
  <2>3. CalcPairs!TypeOK'
    BY <2>1, <2>2, <1>t DEF CalcPairs!TypeOK, CalcPairs!Reading
  <2>4. CalcPairs!RequestInOrder'
    <3>1. /\ CalcPairs!Offset' = CalcPairs!Offset /\ CalcPairs!Size' = CalcPairs!Size
          /\ CalcPairs!Serving' = CalcPairs!Serving
      BY <2>1 DEF CalcPairs!Offset, CalcPairs!Size, CalcPairs!Serving
    <3>2. CalcPairs!Request(asked, operator)' = request
      BY <2>1 DEF request
    <3>. QED  BY <2>1, <3>1, <3>2, <1>o DEF CalcPairs!RequestInOrder
  <2>5. CalcPairs!AnswerInOrder'
    BY <2>1, <1>a DEF CalcPairs!AnswerInOrder, CalcPairs!Serving, CalcPairs!Unanswered,
       CalcPairs!UnderWay, CalcPairs!Answer
  <2>. QED  BY <2>1, <2>3, <2>4, <2>5, <1>i DEF CalcPairs!Inductive
<1>2. CASE CalcPairs!ClientRead
  <2>1. PICK k \in 1 .. CalcPairs!Min2(Len(down), WordSize - crecv_pos) :
             /\ cmemory' = CalcPairs!Placed(cmemory, crecv_pos, down, k)
             /\ down' = SubSeq(down, k + 1, Len(down)) /\ crecv_pos' = crecv_pos + k
    BY <1>2 DEF CalcPairs!ClientRead
  <2>2. /\ cpc = "read" /\ crecv_pos < WordSize
        /\ UNCHANGED <<client, asked, operator, backlog, up, spc, memory, recv_pos, operands,
                       cpc, result>>
    BY <1>2 DEF CalcPairs!ClientRead, CalcPairs!calc, CalcPairs!serverv
  <2>3. /\ k \in 1 .. Len(down) /\ k \in Nat /\ crecv_pos \in Nat /\ Len(down) \in Nat
        /\ crecv_pos + k <= WordSize /\ Len(cmemory) = WordSize
        /\ crecv_pos + k <= Len(cmemory)
    BY <2>2, <1>t, <1>i, <1>w DEF CalcPairs!Min2
  <2>4. /\ cmemory' \in Seq(CalcPairs!Bytes) /\ Len(cmemory') = WordSize
        /\ \A j \in 1 .. crecv_pos : cmemory'[j] = cmemory[j]
        /\ \A j \in 1 .. k : cmemory'[crecv_pos + j] = down[j]
    <3>. DEFINE placed == CalcPairs!Placed(cmemory, crecv_pos, down, k)
    <3>1. /\ placed \in Seq(CalcPairs!Bytes) /\ Len(placed) = Len(cmemory)
          /\ \A j \in 1 .. crecv_pos : placed[j] = cmemory[j]
          /\ \A j \in 1 .. k : placed[crecv_pos + j] = down[j]
      BY <2>3, <1>t, PlacedBytes
    <3>. QED  BY <3>1, <2>1, <2>3
  <2>5. /\ down' \in Seq(CalcPairs!Bytes) /\ Len(down') = Len(down) - k
        /\ \A j \in 1 .. Len(down') : down'[j] = down[k + j]
    BY <2>1, <2>3, <1>t, Rest
  <2>6. CalcPairs!TypeOK'
    <3>1. crecv_pos' \in 0 .. WordSize
      BY <2>1, <2>3, <1>w
    <3>. QED  BY <2>2, <2>4, <2>5, <3>1, <1>t DEF CalcPairs!TypeOK, CalcPairs!Reading
  <2>7. CalcPairs!RequestInOrder'
    <3>1. /\ CalcPairs!Offset' = CalcPairs!Offset /\ CalcPairs!Size' = CalcPairs!Size
          /\ CalcPairs!Serving' = CalcPairs!Serving
      BY <2>2 DEF CalcPairs!Offset, CalcPairs!Size, CalcPairs!Serving
    <3>2. CalcPairs!Request(asked, operator)' = request
      BY <2>2 DEF request
    <3>. QED  BY <2>2, <3>1, <3>2, <1>o DEF CalcPairs!RequestInOrder
  <2>8. CalcPairs!AnswerInOrder'
    <3>. DEFINE answer == CalcPairs!Answer
    <3>1. /\ spc \in {"accept", "failed"} /\ crecv_pos + Len(down) = WordSize
          /\ \A j \in 1 .. crecv_pos : cmemory[j] = answer[j]
          /\ \A j \in 1 .. Len(down) : down[j] = answer[crecv_pos + j]
      <4>1. ~CalcPairs!Unanswered
        BY <2>3, <1>n
      <4>2. spc \in {"accept", "failed"} /\ CalcPairs!UnderWay
        BY <2>2, <4>1, <1>a, <1>s, <1>t DEF CalcPairs!AnswerInOrder
      <4>. QED  BY <4>2, <1>n
    <3>2. ~CalcPairs!Serving' /\ CalcPairs!Answer' = answer /\ cpc' = "read"
      BY <2>2, <3>1 DEF CalcPairs!Serving, CalcPairs!Reading, CalcPairs!Answer
    <3>. HIDE DEF answer
    <3>3. crecv_pos' + Len(down') = WordSize
      <4>1. /\ crecv_pos' = crecv_pos + k /\ Len(down') = Len(down) - k
            /\ crecv_pos + Len(down) = WordSize
        BY <2>1, <2>5, <3>1
      <4>. QED  BY <4>1, <2>3
    <3>4. \A j \in 1 .. crecv_pos' : cmemory'[j] = answer[j]
      <4>. SUFFICES ASSUME NEW j \in 1 .. crecv_pos' PROVE cmemory'[j] = answer[j]
        OBVIOUS
      <4>1. CASE j \in 1 .. crecv_pos
        BY <4>1, <2>4, <3>1
      <4>2. CASE j \notin 1 .. crecv_pos
        <5>1. /\ j - crecv_pos \in 1 .. k /\ j - crecv_pos \in 1 .. Len(down)
              /\ crecv_pos + (j - crecv_pos) = j
          BY <4>2, <2>1, <2>3
        <5>. QED  BY <5>1, <2>4, <3>1
      <4>. QED  BY <4>1, <4>2
    <3>5. \A j \in 1 .. Len(down') : down'[j] = answer[crecv_pos' + j]
      <4>. SUFFICES ASSUME NEW j \in 1 .. Len(down')
                    PROVE  down'[j] = answer[crecv_pos' + j]
        OBVIOUS
      <4>1. k + j \in 1 .. Len(down) /\ crecv_pos + (k + j) = crecv_pos' + j
        BY <2>1, <2>3, <2>5
      <4>. QED  BY <4>1, <2>5, <3>1
    <3>6. CalcPairs!UnderWay'
      BY <3>2, <3>3, <3>4, <3>5 DEF CalcPairs!UnderWay
    <3>. QED  BY <3>2, <3>6 DEF CalcPairs!AnswerInOrder
  <2>. QED  BY <2>2, <2>4, <2>6, <2>7, <2>8, <1>i DEF CalcPairs!Inductive
<1>3. CASE CalcPairs!ClientDone
  <2>1. /\ cpc = "read" /\ crecv_pos = WordSize /\ cpc' = "done"
        /\ result' = CalcPairs!Decode(cmemory)
        /\ UNCHANGED <<client, asked, operator, backlog, up, down, spc, memory, recv_pos,
                       operands, cmemory, crecv_pos>>
    BY <1>3 DEF CalcPairs!ClientDone, CalcPairs!calc, CalcPairs!serverv
  <2>2. result' = CalcPairs!calculate(operator, asked)
    <3>1. /\ \A j \in 1 .. WordSize : cmemory[j] = CalcPairs!Answer[j]
          /\ Len(cmemory) = WordSize
      <4>1. ~CalcPairs!Unanswered
        BY <2>1, <1>n, <1>w
      <4>2. CalcPairs!UnderWay
        BY <2>1, <4>1, <1>a, <1>s, <1>t DEF CalcPairs!AnswerInOrder
      <4>. QED  BY <2>1, <4>2, <1>n, <1>i
    <3>2. /\ cmemory = [j \in 1 .. WordSize |-> cmemory[j]]
          /\ CalcPairs!Answer = [j \in 1 .. WordSize |-> CalcPairs!Answer[j]]
      BY <3>1, <1>t, <1>c
    <3>3. cmemory = CalcPairs!Answer
      BY <3>1, <3>2
    <3>. QED  BY <2>1, <3>3, <1>c, DecodeLayout DEF CalcPairs!Answer
  <2>3. CalcPairs!TypeOK'
    BY <2>1, <2>2, <1>t, <1>c DEF CalcPairs!TypeOK, CalcPairs!Reading
  <2>4. CalcPairs!RequestInOrder'
    <3>1. /\ CalcPairs!Offset' = CalcPairs!Offset /\ CalcPairs!Size' = CalcPairs!Size
          /\ CalcPairs!Serving' = CalcPairs!Serving
      BY <2>1 DEF CalcPairs!Offset, CalcPairs!Size, CalcPairs!Serving
    <3>2. CalcPairs!Request(asked, operator)' = request
      BY <2>1 DEF request
    <3>. QED  BY <2>1, <3>1, <3>2, <1>o DEF CalcPairs!RequestInOrder
  <2>5. CalcPairs!AnswerInOrder'
    <3>1. CalcPairs!calculate(operator, asked)' = CalcPairs!calculate(operator, asked)
      BY <2>1
    <3>. QED  BY <2>1, <2>2, <3>1 DEF CalcPairs!AnswerInOrder
  <2>. QED  BY <2>1, <2>3, <2>4, <2>5, <1>i DEF CalcPairs!Inductive
<1>4. CASE CalcPairs!Killed
  <2>1. PICK k \in 0 .. Len(up) : up' = SubSeq(up, 1, k)
    BY <1>4 DEF CalcPairs!Killed
  <2>2. /\ cpc = "read" /\ cpc' = "killed"
        /\ UNCHANGED <<client, asked, operator, backlog, down, spc, memory, recv_pos,
                       operands, cmemory, crecv_pos, result>>
    BY <1>4 DEF CalcPairs!Killed, CalcPairs!calc, CalcPairs!serverv
  <2>3. /\ up' \in Seq(CalcPairs!Bytes) /\ Len(up') = k /\ k <= Len(up) /\ k \in Nat
        /\ Len(up) \in Nat /\ \A j \in 1 .. k : up'[j] = up[j] /\ j \in 1 .. Len(up)
    BY <2>1, <1>t
  <2>4. CalcPairs!TypeOK'
    BY <2>2, <2>3, <1>t DEF CalcPairs!TypeOK, CalcPairs!Reading
  <2>5. CalcPairs!RequestInOrder'
    <3>1. /\ CalcPairs!Offset' = CalcPairs!Offset /\ CalcPairs!Size' = CalcPairs!Size
          /\ CalcPairs!Serving' = CalcPairs!Serving
      BY <2>2 DEF CalcPairs!Offset, CalcPairs!Size, CalcPairs!Serving
    <3>2. CalcPairs!Request(asked, operator)' = request
      BY <2>2 DEF request
    <3>. SUFFICES ASSUME CalcPairs!Serving
                  PROVE  /\ Len(memory) = CalcPairs!Size
                         /\ CalcPairs!Offset + recv_pos + Len(up') <= Len(request)
                         /\ \A j \in 1 .. recv_pos :
                               memory[j] = request[CalcPairs!Offset + j]
                         /\ \A j \in 1 .. Len(up') :
                               up'[j] = request[CalcPairs!Offset + recv_pos + j]
      BY <2>2, <3>1, <3>2 DEF CalcPairs!RequestInOrder
    <3>3. Len(request) \in Nat /\ recv_pos \in Nat
      BY <1>r, <1>t
    <3>4. CalcPairs!Offset + recv_pos + Len(up') <= Len(request)
      BY <2>3, <3>3, <1>o, <1>s
    <3>. QED  BY <2>3, <3>4, <1>o
  <2>6. CalcPairs!AnswerInOrder'
    BY <2>2 DEF CalcPairs!AnswerInOrder
  <2>. QED  BY <2>2, <2>4, <2>5, <2>6, <1>i DEF CalcPairs!Inductive
<1>5. CASE CalcPairs!Accept
  <2>1. PICK m \in 0 .. MaxOperands, op \in {CalcPairs!Plus, CalcPairs!Times} :
             \E values \in [1 .. m -> CalcPairs!Words] :
                asked' = values /\ operator' = op /\ up' = CalcPairs!Request(values, op)
    BY <1>5 DEF CalcPairs!Accept
  <2>2. /\ spc' = "op_count" /\ backlog > 0 /\ backlog' = backlog - 1
        /\ cpc' = "read" /\ cmemory' = CalcPairs!Zeros(WordSize) /\ crecv_pos' = 0
        /\ down' = <<>> /\ memory' = CalcPairs!Zeros(WordSize) /\ recv_pos' = 0
        /\ UNCHANGED <<client, operands, result>>
    BY <1>5 DEF CalcPairs!Accept, CalcPairs!Begin
  <2>3. /\ asked' \in Seq(CalcPairs!Words) /\ Len(asked') = m /\ m <= MaxOperands
        /\ operator' \in {CalcPairs!Plus, CalcPairs!Times}
        /\ up' = CalcPairs!Request(asked', operator')
    BY <2>1, <1>w
  <2>4. up' \in Seq(CalcPairs!Bytes)
    BY <2>3, RequestBytes
  <2>5. /\ CalcPairs!Zeros(WordSize) \in Seq(CalcPairs!Bytes)
        /\ Len(CalcPairs!Zeros(WordSize)) = WordSize
    BY <1>w, ZerosBytes
  <2>6. CalcPairs!TypeOK'
    <3>1. /\ client' \in 0 .. NumClients /\ backlog' \in 0 .. client'
          /\ down' \in Seq(CalcPairs!Bytes)
      BY <2>2, <1>t, <1>w
    <3>2. memory' \in Seq(CalcPairs!Bytes) /\ recv_pos' \in 0 .. Len(memory')
      BY <2>2, <2>5, <1>w
    <3>. QED  BY <2>2, <2>3, <2>4, <2>5, <3>1, <3>2, <1>t, <1>w
              DEF CalcPairs!TypeOK, CalcPairs!Reading
  <2>7. CalcPairs!RequestInOrder'
    <3>1. CalcPairs!Offset' = 0 /\ CalcPairs!Size' = WordSize
      BY <2>2 DEF CalcPairs!Offset, CalcPairs!Size
    <3>2. CalcPairs!Request(asked, operator)' = up' /\ Len(up') \in Nat
      BY <2>3, <2>4
    <3>. QED  BY <2>2, <2>5, <3>1, <3>2 DEF CalcPairs!RequestInOrder
  <2>8. CalcPairs!AnswerInOrder'
    BY <2>2 DEF CalcPairs!AnswerInOrder, CalcPairs!Unanswered
  <2>. QED  BY <2>2, <2>3, <2>5, <2>6, <2>7, <2>8, <1>i DEF CalcPairs!Inductive
<1>6. CASE CalcPairs!ReadBytes
  <2>1. PICK k \in 1 .. CalcPairs!Min2(Len(up), CalcPairs!Size - recv_pos) :
             /\ memory' = CalcPairs!Placed(memory, recv_pos, up, k)
             /\ up' = SubSeq(up, k + 1, Len(up)) /\ recv_pos' = recv_pos + k
    BY <1>6 DEF CalcPairs!ReadBytes
  <2>2. /\ spc \notin {"accept", "failed"} /\ recv_pos < CalcPairs!Size
        /\ UNCHANGED <<client, asked, operator, backlog, down, spc, operands, cpc, cmemory,
                       crecv_pos, result>>
    BY <1>6 DEF CalcPairs!ReadBytes, CalcPairs!clientv, CalcPairs!calc, CalcPairs!Reading
  <2>3. /\ k \in 1 .. Len(up) /\ k \in Nat /\ recv_pos \in Nat /\ Len(up) \in Nat
        /\ recv_pos + k <= Len(memory) /\ Len(memory) = CalcPairs!Size
    BY <2>2, <1>t, <1>o, <1>s DEF CalcPairs!Min2
  <2>4. /\ memory' \in Seq(CalcPairs!Bytes) /\ Len(memory') = Len(memory)
        /\ \A j \in 1 .. recv_pos : memory'[j] = memory[j]
        /\ \A j \in 1 .. k : memory'[recv_pos + j] = up[j]
    <3>. DEFINE placed == CalcPairs!Placed(memory, recv_pos, up, k)
    <3>1. /\ placed \in Seq(CalcPairs!Bytes) /\ Len(placed) = Len(memory)
          /\ \A j \in 1 .. recv_pos : placed[j] = memory[j]
          /\ \A j \in 1 .. k : placed[recv_pos + j] = up[j]
      <4>1. /\ memory \in Seq(CalcPairs!Bytes) /\ up \in Seq(CalcPairs!Bytes)
            /\ recv_pos \in Nat /\ k \in 1 .. Len(up) /\ recv_pos + k <= Len(memory)
        BY <2>3, <1>t
      <4>. QED  BY ONLY <4>1, PlacedBytes
    <3>. QED  BY <3>1, <2>1
  <2>5. /\ up' \in Seq(CalcPairs!Bytes) /\ Len(up') = Len(up) - k
        /\ \A j \in 1 .. Len(up') : up'[j] = up[k + j]
    BY <2>1, <2>3, <1>t, Rest
  <2>6. CalcPairs!TypeOK'
    <3>1. recv_pos' \in 0 .. Len(memory')
      BY <2>1, <2>3, <2>4
    <3>. QED  BY <2>2, <2>4, <2>5, <3>1, <1>t DEF CalcPairs!TypeOK, CalcPairs!Reading
  <2>7. CalcPairs!RequestInOrder'
    <3>1. CalcPairs!Offset' = CalcPairs!Offset /\ CalcPairs!Size' = CalcPairs!Size
      BY <2>2 DEF CalcPairs!Offset, CalcPairs!Size
    <3>2. CalcPairs!Request(asked, operator)' = request
      BY <2>2 DEF request
    <3>. DEFINE from == CalcPairs!Offset
    <3>3. /\ from \in Nat /\ from + recv_pos + Len(up) <= Len(request)
          /\ \A j \in 1 .. recv_pos : memory[j] = request[from + j]
          /\ \A j \in 1 .. Len(up) : up[j] = request[from + recv_pos + j]
      BY <2>2, <1>o, <1>s
    <3>. HIDE DEF from
    <3>4. from + recv_pos' + Len(up') <= Len(request)
      BY <2>1, <2>3, <2>5, <3>3
    <3>5. \A j \in 1 .. recv_pos' : memory'[j] = request[from + j]
      <4>. SUFFICES ASSUME NEW j \in 1 .. recv_pos' PROVE memory'[j] = request[from + j]
        OBVIOUS
      <4>1. CASE j \in 1 .. recv_pos
        BY <4>1, <2>4, <3>3
      <4>2. CASE j \notin 1 .. recv_pos
        <5>1. /\ j - recv_pos \in 1 .. k /\ j - recv_pos \in 1 .. Len(up)
              /\ recv_pos + (j - recv_pos) = j /\ from + recv_pos + (j - recv_pos) = from + j
          BY <4>2, <2>1, <2>3, <3>3
        <5>. QED  BY <5>1, <2>4, <3>3
      <4>. QED  BY <4>1, <4>2
    <3>6. \A j \in 1 .. Len(up') : up'[j] = request[from + recv_pos' + j]
      <4>. SUFFICES ASSUME NEW j \in 1 .. Len(up')
                    PROVE  up'[j] = request[from + recv_pos' + j]
        OBVIOUS
      <4>1. k + j \in 1 .. Len(up) /\ from + recv_pos + (k + j) = from + recv_pos' + j
        BY <2>1, <2>3, <2>5, <3>3
      <4>. QED  BY <4>1, <2>5, <3>3
    <3>. QED  BY <2>3, <2>4, <3>1, <3>2, <3>4, <3>5, <3>6 DEF CalcPairs!RequestInOrder, from
  <2>8. CalcPairs!AnswerInOrder'
    <3>1. CalcPairs!Serving /\ CalcPairs!Serving'
      BY <2>2, <1>t DEF CalcPairs!Serving, CalcPairs!Reading
    <3>2. CalcPairs!calculate(operator, asked)' = CalcPairs!calculate(operator, asked)
      BY <2>2
    <3>. QED  BY <2>2, <3>1, <3>2, <1>a DEF CalcPairs!AnswerInOrder, CalcPairs!Unanswered,
                 CalcPairs!Serving, CalcPairs!Reading
  <2>. QED  BY <2>2, <2>6, <2>7, <2>8, <1>i DEF CalcPairs!Inductive
<1>7. CASE CalcPairs!GotCount
  <2>1. /\ spc = "op_count" /\ recv_pos >= CalcPairs!Size /\ spc' = "operends"
        /\ operands' = [operands EXCEPT !.count = CalcPairs!Decode(memory)]
        /\ memory' = CalcPairs!Zeros(operands'.count * WordSize) /\ recv_pos' = 0
        /\ UNCHANGED <<client, asked, operator, backlog, up, down, cpc, cmemory, crecv_pos,
                       result>>
    BY <1>7 DEF CalcPairs!GotCount, CalcPairs!Begin, CalcPairs!calc, CalcPairs!clientv
  <2>2. /\ CalcPairs!Serving /\ CalcPairs!Size = WordSize /\ CalcPairs!Offset = 0
        /\ Len(memory) = WordSize /\ recv_pos = WordSize /\ WordSize \in Nat
        /\ \A j \in 1 .. WordSize : memory[j] = request[j]
        /\ WordSize + Len(up) <= Len(request)
        /\ \A j \in 1 .. Len(up) : up[j] = request[WordSize + j]
    <3>1. /\ CalcPairs!Serving /\ CalcPairs!Size = WordSize /\ CalcPairs!Offset = 0
          /\ WordSize \in Nat /\ Len(up) \in Nat
      BY <2>1, <1>s, <1>t, <1>w
    <3>2. Len(memory) = WordSize /\ recv_pos = WordSize
      BY <2>1, <3>1, <1>l
    <3>. QED  BY <3>1, <3>2, <1>o
  <2>3. CalcPairs!Decode(memory) = n
    <3>1. Layout[n] \in [1 .. WordSize -> CalcPairs!Bytes]
      BY <1>w, CalcAssumption DEF CalcPairs!Words, CalcPairs!Bytes
    <3>2. /\ memory = [j \in 1 .. WordSize |-> memory[j]]
          /\ Layout[n] = [j \in 1 .. WordSize |-> Layout[n][j]]
      <4>1. Len(memory) = WordSize /\ memory \in Seq(CalcPairs!Bytes)
        BY <2>2, <1>t
      <4>2. memory = [j \in 1 .. Len(memory) |-> memory[j]]
        BY <4>1
      <4>. QED  BY <4>1, <4>2, <3>1
    <3>3. \A j \in 1 .. WordSize : memory[j] = Layout[n][j]
      BY <2>2, <1>r
    <3>4. memory = Layout[n]
      BY <3>2, <3>3
    <3>. QED  BY <3>4, <1>w, DecodeLayout
  <2>4. /\ operands' \in [count : CalcPairs!Words, values : Seq(CalcPairs!Words)]
        /\ operands'.count = n
    BY <2>1, <2>3, <1>t, <1>w
  <2>5. /\ memory' \in Seq(CalcPairs!Bytes) /\ Len(memory') = n * WordSize
        /\ 0 \in 0 .. Len(memory')
    BY <2>1, <2>4, <1>w, ZerosBytes
  <2>6. CalcPairs!TypeOK'
    BY <2>1, <2>4, <2>5, <1>t DEF CalcPairs!TypeOK, CalcPairs!Reading
  <2>7. CalcPairs!RequestInOrder'
    <3>1. CalcPairs!Offset' = WordSize /\ CalcPairs!Size' = n * WordSize
      BY <2>1, <2>4 DEF CalcPairs!Offset, CalcPairs!Size
    <3>2. CalcPairs!Request(asked, operator)' = request
      BY <2>1 DEF request
    <3>. QED  BY <2>1, <2>2, <2>5, <3>1, <3>2 DEF CalcPairs!RequestInOrder
  <2>8. CalcPairs!AnswerInOrder'
    <3>1. CalcPairs!Serving'
      BY <2>1 DEF CalcPairs!Serving, CalcPairs!Reading
    <3>2. CalcPairs!calculate(operator, asked)' = CalcPairs!calculate(operator, asked)
      BY <2>1
    <3>. QED  BY <2>1, <2>2, <3>1, <3>2, <1>a DEF CalcPairs!AnswerInOrder, CalcPairs!Unanswered
  <2>. QED  BY <2>1, <2>4, <2>6, <2>7, <2>8, <1>i DEF CalcPairs!Inductive, n
<1>8. CASE CalcPairs!GotOperands
  <2>1. /\ spc = "operends" /\ recv_pos >= CalcPairs!Size /\ spc' = "operator"
        /\ operands' = [operands EXCEPT !.values =
                           [k \in 1 .. operands.count |-> CalcPairs!Word(memory, k - 1)]]
        /\ memory' = CalcPairs!Zeros(1) /\ recv_pos' = 0
        /\ UNCHANGED <<client, asked, operator, backlog, up, down, cpc, cmemory, crecv_pos,
                       result>>
    BY <1>8 DEF CalcPairs!GotOperands, CalcPairs!Begin, CalcPairs!calc, CalcPairs!clientv
  <2>2. /\ CalcPairs!Serving /\ CalcPairs!Size = n * WordSize /\ CalcPairs!Offset = WordSize
        /\ Len(memory) = n * WordSize /\ recv_pos = n * WordSize /\ n * WordSize \in Nat
        /\ operands.count = n
        /\ \A j \in 1 .. n * WordSize : memory[j] = request[WordSize + j]
        /\ (n + 1) * WordSize + Len(up) <= Len(request)
        /\ \A j \in 1 .. Len(up) : up[j] = request[(n + 1) * WordSize + j]
    <3>1. /\ CalcPairs!Serving /\ CalcPairs!Size = n * WordSize
          /\ CalcPairs!Offset = WordSize /\ operands.count = n
      BY <2>1, <1>s, <1>i DEF n
    <3>2. Len(memory) = n * WordSize /\ recv_pos = n * WordSize
      BY <2>1, <3>1, <1>l
    <3>. QED  BY <3>1, <3>2, <1>o, <1>w
  <2>3. \A k \in 1 .. n : CalcPairs!Word(memory, k - 1) = asked[k]
    <3>. SUFFICES ASSUME NEW k \in 1 .. n PROVE CalcPairs!Word(memory, k - 1) = asked[k]
      OBVIOUS
    <3>1. k - 1 \in 0 .. n - 1 /\ (k - 1) + 1 = k /\ asked[k] \in CalcPairs!Words
      BY <1>w, <1>t DEF n
    <3>2. \A j \in 1 .. WordSize : memory[(k - 1) * WordSize + j] = Layout[asked[k]][j]
      <4>. SUFFICES ASSUME NEW j \in 1 .. WordSize
                    PROVE  memory[(k - 1) * WordSize + j] = Layout[asked[k]][j]
        OBVIOUS
      <4>1. (k - 1) * WordSize + j \in 1 .. n * WordSize
        <5>1. /\ (k - 1) * WordSize \in Nat /\ k * WordSize \in Nat
              /\ k * WordSize = (k - 1) * WordSize + WordSize
              /\ k * WordSize <= n * WordSize
          BY <1>w
        <5>. QED  BY <5>1, <1>w
      <4>2. request[WordSize + ((k - 1) * WordSize + j)] = Layout[asked[(k - 1) + 1]][j]
        BY <3>1, <1>r
      <4>. QED  BY <4>1, <4>2, <3>1, <2>2
    <3>3. Layout[asked[k]] \in [1 .. WordSize -> CalcPairs!Bytes]
      BY <3>1, CalcAssumption DEF CalcPairs!Words, CalcPairs!Bytes
    <3>4. [j \in 1 .. WordSize |-> memory[(k - 1) * WordSize + j]] = Layout[asked[k]]
      BY <3>2, <3>3
    <3>. QED  BY <3>1, <3>4, DecodeLayout DEF CalcPairs!Word
  <2>4. /\ operands' \in [count : CalcPairs!Words, values : Seq(CalcPairs!Words)]
        /\ operands'.count = n /\ operands'.values = asked
    <3>1. asked = [k \in 1 .. n |-> asked[k]]
      BY <1>t DEF n
    <3>2. [k \in 1 .. n |-> CalcPairs!Word(memory, k - 1)] = asked
      BY <2>3, <3>1
    <3>. QED  BY <2>1, <2>2, <3>2, <1>t
  <2>5. /\ memory' \in Seq(CalcPairs!Bytes) /\ Len(memory') = 1 /\ 0 \in 0 .. Len(memory')
    <3>1. 1 \in Nat
      OBVIOUS
    <3>2. CalcPairs!Zeros(1) \in Seq(CalcPairs!Bytes) /\ Len(CalcPairs!Zeros(1)) = 1
      BY <3>1, ZerosBytes, Zenon
    <3>. QED  BY <2>1, <3>2
  <2>6. CalcPairs!TypeOK'
    BY <2>1, <2>4, <2>5, <1>t DEF CalcPairs!TypeOK, CalcPairs!Reading
  <2>7. CalcPairs!RequestInOrder'
    <3>1. CalcPairs!Offset' = (n + 1) * WordSize /\ CalcPairs!Size' = 1
      BY <2>1 DEF CalcPairs!Offset, CalcPairs!Size, n
    <3>2. CalcPairs!Request(asked, operator)' = request
      BY <2>1 DEF request
    <3>3. (n + 1) * WordSize \in Nat
      BY <1>w
    <3>. QED  BY <2>1, <2>2, <2>5, <3>1, <3>2, <3>3 DEF CalcPairs!RequestInOrder
  <2>8. CalcPairs!AnswerInOrder'
    <3>1. CalcPairs!Serving'
      BY <2>1 DEF CalcPairs!Serving, CalcPairs!Reading
    <3>2. CalcPairs!calculate(operator, asked)' = CalcPairs!calculate(operator, asked)
      BY <2>1
    <3>. QED  BY <2>1, <2>2, <3>1, <3>2, <1>a DEF CalcPairs!AnswerInOrder, CalcPairs!Unanswered
  <2>. QED  BY <2>1, <2>4, <2>6, <2>7, <2>8, <1>i DEF CalcPairs!Inductive, n
<1>9. CASE CalcPairs!Reply
  <2>1. /\ spc = "operator" /\ recv_pos >= CalcPairs!Size /\ spc' = "accept"
        /\ down' = IF cpc = "read"
                   THEN Layout[CalcPairs!calculate(memory[1], operands.values)] ELSE down
        /\ memory' = CalcPairs!Zeros(0) /\ recv_pos' = 0
        /\ UNCHANGED <<client, asked, operator, backlog, up, operands, cpc, cmemory,
                       crecv_pos, result>>
    BY <1>9 DEF CalcPairs!Reply, CalcPairs!Begin, CalcPairs!calc, CalcPairs!clientv
  <2>2. CalcPairs!Serving /\ memory[1] = operator /\ operands.values = asked
    <3>1. /\ CalcPairs!Serving /\ CalcPairs!Size = 1
          /\ CalcPairs!Offset = (n + 1) * WordSize /\ operands.values = asked
      BY <2>1, <1>s, <1>i
    <3>2. Len(memory) = 1 /\ recv_pos = 1
      BY <2>1, <3>1, <1>l
    <3>. QED  BY <3>1, <3>2, <1>o, <1>r
  <2>3. down' = IF cpc = "read" THEN CalcPairs!Answer ELSE down
    BY <2>1, <2>2 DEF CalcPairs!Answer
  <2>4. memory' = <<>>
    BY <2>1 DEF CalcPairs!Zeros
  <2>5. /\ CalcPairs!Answer \in Seq(CalcPairs!Bytes) /\ Len(CalcPairs!Answer) = WordSize
    BY <1>c, <1>w
  <2>6. CalcPairs!TypeOK'
    <3>1. down' \in Seq(CalcPairs!Bytes)
      BY <2>3, <2>5, <1>t
    <3>2. memory' \in Seq(CalcPairs!Bytes) /\ recv_pos' \in 0 .. Len(memory')
      <4>1. 0 \in 0 .. Len(<<>>) /\ <<>> \in Seq(CalcPairs!Bytes)
        OBVIOUS
      <4>. QED  BY <2>1, <2>4, <4>1
    <3>. QED  BY <2>1, <3>1, <3>2, <1>t DEF CalcPairs!TypeOK, CalcPairs!Reading
  <2>7. ~CalcPairs!Serving'
    BY <2>1, <2>2 DEF CalcPairs!Serving, CalcPairs!Reading
  <2>8. CalcPairs!RequestInOrder'
    BY <2>7 DEF CalcPairs!RequestInOrder
  <2>9. CalcPairs!AnswerInOrder'
    <3>1. CalcPairs!calculate(operator, asked)' = CalcPairs!calculate(operator, asked)
      BY <2>1
    <3>2. CalcPairs!Answer' = CalcPairs!Answer
      BY <2>1 DEF CalcPairs!Answer
    <3>3. cpc = "read" => CalcPairs!UnderWay'
      <4>. SUFFICES ASSUME cpc = "read" PROVE CalcPairs!UnderWay'
        OBVIOUS
      <4>1. crecv_pos' = 0 /\ down' = CalcPairs!Answer
        BY <2>1, <2>2, <2>3, <1>a, <1>n DEF CalcPairs!AnswerInOrder
      <4>. QED  BY <4>1, <3>2, <2>5, <1>w DEF CalcPairs!UnderWay
    <3>. QED  BY <2>1, <2>7, <3>1, <3>3, <1>a DEF CalcPairs!AnswerInOrder
  <2>. QED  BY <2>1, <2>2, <2>4, <2>6, <2>8, <2>9, <1>i DEF CalcPairs!Inductive
<1>10. CASE CalcPairs!ServerFails
  <2>1. /\ spc \in CalcPairs!Reading \cup {"accept"} /\ spc' = "failed"
        /\ memory' = CalcPairs!Zeros(0) /\ recv_pos' = 0
        /\ UNCHANGED <<client, asked, operator, backlog, up, down, operands, cpc, cmemory,
                       crecv_pos, result>>
    BY <1>10 DEF CalcPairs!ServerFails, CalcPairs!Begin, CalcPairs!calc, CalcPairs!clientv
  <2>2. memory' = <<>>
    BY <2>1 DEF CalcPairs!Zeros
  <2>3. CalcPairs!TypeOK'
    <3>1. memory' \in Seq(CalcPairs!Bytes) /\ recv_pos' \in 0 .. Len(memory')
      <4>1. 0 \in 0 .. Len(<<>>) /\ <<>> \in Seq(CalcPairs!Bytes)
        OBVIOUS
      <4>. QED  BY <2>1, <2>2, <4>1
    <3>. QED  BY <2>1, <3>1, <1>t DEF CalcPairs!TypeOK, CalcPairs!Reading
  <2>4. CalcPairs!RequestInOrder'
    BY <2>1 DEF CalcPairs!RequestInOrder, CalcPairs!Serving, CalcPairs!Reading
  <2>5. CalcPairs!AnswerInOrder'
    <3>1. /\ CalcPairs!calculate(operator, asked)' = CalcPairs!calculate(operator, asked)
          /\ CalcPairs!Answer' = CalcPairs!Answer
      BY <2>1 DEF CalcPairs!Answer
    <3>2. /\ CalcPairs!Unanswered' <=> CalcPairs!Unanswered
          /\ CalcPairs!UnderWay' <=> CalcPairs!UnderWay
      BY <2>1, <3>1 DEF CalcPairs!Unanswered, CalcPairs!UnderWay
    <3>3. cpc = "read" => CalcPairs!Unanswered \/ CalcPairs!UnderWay
      BY <2>1, <1>a DEF CalcPairs!AnswerInOrder, CalcPairs!Serving
    <3>4. ~CalcPairs!Serving'
      BY <2>1 DEF CalcPairs!Serving, CalcPairs!Reading
    <3>. QED  BY <2>1, <3>1, <3>2, <3>3, <3>4, <1>a DEF CalcPairs!AnswerInOrder
  <2>. QED  BY <2>1, <2>2, <2>3, <2>4, <2>5, <1>i DEF CalcPairs!Inductive
<1>. QED  BY <1>1, <1>2, <1>3, <1>4, <1>5, <1>6, <1>7, <1>8, <1>9, <1>10
          DEF CalcPairs!Next, CalcPairs!ServerStep, CalcPairs!ClientStep

LEMMA CalcInit == CalcPairs!Init => CalcPairs!Inductive
<1>. SUFFICES ASSUME CalcPairs!Init PROVE CalcPairs!Inductive
  OBVIOUS
<1>. USE DEF CalcPairs!Init, CalcPairs!Listening
<1>1. CalcPairs!TypeOK
  <2>1. 0 \in CalcPairs!Words /\ 0 \in 0 .. NumClients /\ 0 \in 0 .. WordSize
    BY CalcAssumption, MCLegacyPairsAssumption DEF CalcPairs!Words
  <2>2. operands \in [count : CalcPairs!Words, values : Seq(CalcPairs!Words)]
    BY <2>1
  <2>3. recv_pos \in 0 .. Len(memory)
    OBVIOUS
  <2>4. /\ client = 0 /\ cpc = "none" /\ backlog = 0 /\ 0 \in 0 .. client /\ spc = "accept"
        /\ operator = CalcPairs!Plus /\ crecv_pos = 0 /\ result = 0
    OBVIOUS
  <2>5. /\ asked \in Seq(CalcPairs!Words)
        /\ \A b \in {up, down, memory, cmemory} : b \in Seq(CalcPairs!Bytes)
    OBVIOUS
  <2>. QED  BY <2>1, <2>2, <2>3, <2>4, <2>5 DEF CalcPairs!TypeOK, CalcPairs!Reading
<1>2. ~CalcPairs!Serving
  BY DEF CalcPairs!Serving, CalcPairs!Reading
<1>3. Len(asked) <= MaxOperands
  BY CalcAssumption
<1>. QED  BY <1>1, <1>2, <1>3
          DEF CalcPairs!Inductive, CalcPairs!RequestInOrder, CalcPairs!AnswerInOrder

LEMMA CalcInductiveAlways == Spec => []CalcInductive
<1>1. Init => CalcInductive
  BY CalcInit DEF Init, CalcInductive
<1>2. CalcInductive /\ [Next]_vars => CalcInductive'
  <2>. SUFFICES ASSUME CalcInductive, [Next]_vars, program' = "calc"
                PROVE  CalcPairs!Inductive'
    BY DEF CalcInductive
  <2>1. CASE Calc(CalcPairs!Next)
    BY <2>1, CalcNext DEF Calc, CalcInductive
  <2>2. CASE Echo(EchoPairs!Next) \/ File(FilePairs!Next) \/ Pipe(PipeClients!Next)
             \/ Udp(UdpEchos!Next)
    BY <2>2 DEF Echo, File, Pipe, Udp
  <2>3. CASE UNCHANGED vars
    <3>1. CalcPairs!Inductive
      BY <2>3 DEF vars, CalcInductive
    <3>. QED  BY <2>3, <3>1 DEF vars, CalcPairs!Inductive, CalcPairs!TypeOK,
              CalcPairs!RequestInOrder, CalcPairs!AnswerInOrder, CalcPairs!Answer,
              CalcPairs!Unanswered, CalcPairs!UnderWay,
              CalcPairs!Serving, CalcPairs!Offset, CalcPairs!Size
  <2>. QED  BY <2>1, <2>2, <2>3 DEF Next
<1>. QED  BY <1>1, <1>2, PTL DEF Spec

(* However the stream is cut into reads, and whatever client was killed half
   way, a client is told the sum or product of its own operands, as an int has
   it: for every size of an int and of a byte, and every layout. *)
THEOREM ResultAlwaysRight == Spec => []ResultRight
<1>1. CalcInductive => ResultRight
  BY CalculateRight DEF CalcInductive, ResultRight, CalcPairs!ResultRight,
     CalcPairs!Inductive, CalcPairs!TypeOK, CalcPairs!AnswerInOrder
<1>. QED  BY CalcInductiveAlways, <1>1, PTL

(* The variables of the program that runs have their types. *)
THEOREM LegacyTypeCorrect == Spec => []TypeOK
<1>1. /\ EchoInductive /\ CalcInductive /\ FileInductive /\ PipeInductive /\ UdpInductive
      => TypeOK
  BY DEF EchoInductive, CalcInductive, FileInductive, PipeInductive, UdpInductive, TypeOK,
         EchoPairs!Inductive, CalcPairs!Inductive, FilePairs!Inductive,
         PipeClients!Inductive, UdpEchos!Inductive
<1>. QED  BY EchoInductiveAlways, CalcInductiveAlways, FileInductiveAlways,
             PipeInductiveAlways, UdpInductiveAlways, <1>1, PTL
=============================================================================
