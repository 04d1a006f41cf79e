--------------------------- MODULE EventEchoProofs ---------------------------
(***************************************************************************)
(* Proofs about EventEcho for every number of connections, descriptors and *)
(* pieces and for each of the three servers.  Which descriptors are        *)
(* watched, and that reported events stay current, needs that a connection *)
(* has one descriptor and that a descriptor being served was taken from    *)
(* the events; no edge is lost because of that, too.  The answers need to  *)
(* know that what was read was written, but for the piece in the buffer.   *)
(***************************************************************************)
EXTENDS EventEcho, FiniteSetTheorems, SequenceTheorems, TLAPS

(* The numbers that stand for descriptors and clients do not meet those that
   stand for none. *)
LEMMA Numbers ==
    /\ Fds \subseteq Int /\ serv_sock \notin Fds /\ NoFd \notin Fds
    /\ serv_sock \in Int /\ NoFd \in Int /\ NoFd # serv_sock
    /\ \A fd \in Fds : serv_sock < fd
    /\ Nobody \notin Clients
  BY EventEchoAssumption DEF Fds, serv_sock, NoFd, Nobody, Clients

(* A piece that is sent has the next number: it is in bounds, and comes
   after those the client sent before. *)
LEMMA Sent ==
    ASSUME TypeOK, NEW c \in Clients, Send(c)
    PROVE  LET n == Cardinality(SentSoFar) IN
           /\ n + 1 \in 1 .. MaxPieces
           /\ sent' = [sent EXCEPT ![c] = Append(@, n + 1)]
           /\ sent' \in [Clients -> Seq(1 .. MaxPieces)]
           /\ Len(sent'[c]) = Len(sent[c]) + 1
           /\ \A k \in 1 .. Len(sent[c]) : sent'[c][k] = sent[c][k]
           /\ \A d \in Clients \ {c} : sent'[d] = sent[d]
<1>. DEFINE n == Cardinality(SentSoFar)
<1>1. /\ MaxPieces \in Nat /\ sent \in [Clients -> Seq(1 .. MaxPieces)]
      /\ n < MaxPieces /\ sent' = [sent EXCEPT ![c] = Append(@, n + 1)]
  BY EventEchoAssumption DEF TypeOK, Send
<1>2. n \in Nat
  <2>1. \A d \in Clients : \A k \in DOMAIN sent[d] : sent[d][k] \in 1 .. MaxPieces
    BY <1>1, ElementOfSeq
  <2>2. SentSoFar \in SUBSET (1 .. MaxPieces)
    BY <2>1 DEF SentSoFar
  <2>3. IsFiniteSet(1 .. MaxPieces)
    BY <1>1, FS_Interval
  <2>. QED  BY <2>2, <2>3, FS_Subset, FS_CardinalityType
<1>3. n + 1 \in 1 .. MaxPieces
  BY <1>1, <1>2
<1>. HIDE DEF n
<1>4. /\ sent' \in [Clients -> Seq(1 .. MaxPieces)]
      /\ sent'[c] = Append(sent[c], n + 1)
      /\ \A d \in Clients \ {c} : sent'[d] = sent[d]
  BY <1>1, <1>3
<1>5. /\ Len(sent'[c]) = Len(sent[c]) + 1
      /\ \A k \in 1 .. Len(sent[c]) : sent'[c][k] = sent[c][k]
  BY <1>1, <1>3, <1>4, AppendProperties
<1>. QED  BY <1>1, <1>3, <1>4, <1>5 DEF n

(* A read is for an open descriptor, whose connection is a client. *)
LEMMA ReadsOpen ==
    ASSUME TypeOK, EventsCurrent, ServesOne, NEW c \in Clients, NEW fd \in Fds, Reads(c, fd)
    PROVE  fdtab[fd] = c /\ fd \in Open
  BY Numbers DEF Reads, Open

(* What a write does. *)
LEMMA Writes ==
    ASSUME TypeOK, ServesOne, Write
    PROVE  /\ serving \in Open /\ serving \in Fds /\ fdtab[serving] \in Clients
           /\ Deliver(fdtab[serving])
           /\ buf # 0 /\ buf' = 0 /\ serving' \in {serving, NoFd}
           /\ server = "edge" => serving' = serving
           /\ UNCHANGED <<server, fdtab, backlog, sent, taken, watched, fd_max, events>>
<1>1. serving \in Open /\ buf # 0
  BY DEF Write, ServesOne
<1>2. serving \in Fds /\ fdtab[serving] \in Clients
  BY <1>1 DEF Open, TypeOK
<1>3. /\ Deliver(fdtab[serving])
      /\ buf' = 0 /\ serving' = IF server = "edge" THEN serving ELSE NoFd
      /\ UNCHANGED <<server, fdtab, backlog, sent, taken, watched, fd_max, events>>
  BY DEF Write
<1>. QED  BY <1>1, <1>2, <1>3

LEMMA WakeType ==
    ASSUME TypeOK, NEW c, Wake(c)
    PROVE  ready' \subseteq Fds /\ ready \subseteq ready'
  BY DEF TypeOK, Wake

-----------------------------------------------------------------------------

LEMMA InitInductive == Init => Inductive
<1>. SUFFICES ASSUME Init PROVE Inductive
  OBVIOUS
<1>. USE DEF Init, Listening
<1>1. TypeOK
  <2>1. <<>> \in Seq(1 .. MaxPieces) /\ 0 \in 0 .. MaxPieces
    BY EventEchoAssumption
  <2>. QED  BY <2>1 DEF TypeOK
<1>2. Open = {}
  BY DEF Open
<1>3. EventsCurrent
  BY DEF EventsCurrent
<1>4. WatchedAreOpen
  BY <1>2 DEF WatchedAreOpen
<1>5. NoEdgeLost
  BY DEF NoEdgeLost
<1>6. InOnePlace
  BY Numbers DEF InOnePlace
<1>7. ServesOne
  BY DEF ServesOne
<1>8. Accounted
  BY DEF Accounted, Held
<1>. QED  BY <1>1, <1>3, <1>4, <1>5, <1>6, <1>7, <1>8 DEF Inductive

-----------------------------------------------------------------------------

LEMMA TypeNext == Inductive /\ [Next]_vars => TypeOK'
<1>. SUFFICES ASSUME Inductive, TypeOK, [Next]_vars PROVE TypeOK'
  BY DEF Inductive
<1>. USE DEF TypeOK, clientv, loop
<1>1. ASSUME NEW c \in Clients, Connect(c) PROVE TypeOK'
  BY <1>1 DEF Connect
<1>2. ASSUME NEW c \in Clients, Send(c) PROVE TypeOK'
  <2>1. sent' \in [Clients -> Seq(1 .. MaxPieces)]
    BY <1>2, Sent DEF Inductive
  <2>2. ready' \subseteq Fds
    BY <1>2, WakeType DEF Send
  <2>. QED  BY <1>2, <2>1, <2>2 DEF Send
<1>3. ASSUME NEW c \in Clients, End(c) PROVE TypeOK'
  <2>1. ready' \subseteq Fds
    BY <1>3, WakeType DEF End
  <2>2. peer' \in [Clients -> {"none", "up", "half", "gone", "reset", "dead"}]
    BY <1>3 DEF End
  <2>. QED  BY <1>3, <2>1, <2>2 DEF End
<1>4. CASE Wait
  BY <1>4 DEF Wait
<1>5. CASE Accept
  BY <1>5 DEF Accept
<1>6. CASE AcceptFails
  BY <1>6 DEF AcceptFails
<1>7. ASSUME NEW c \in Clients, NEW fd \in Fds, ReadPiece(c, fd) PROVE TypeOK'
  <2>1. taken[c] < Len(sent[c]) /\ taken[c] \in Nat
    BY <1>7, EventEchoAssumption DEF ReadPiece, Unread
  <2>2. Len(sent[c]) \in Nat
    BY DEF Inductive
  <2>3. taken[c] + 1 \in 1 .. Len(sent[c])
    BY <2>1, <2>2
  <2>4. sent[c][taken[c] + 1] \in 1 .. MaxPieces
    BY <2>3, ElementOfSeq
  <2>5. buf' \in 0 .. MaxPieces
    BY <1>7, <2>4, EventEchoAssumption DEF ReadPiece
  <2>6. taken' \in [Clients -> Nat]
    BY <1>7, <2>1 DEF ReadPiece
  <2>. QED  BY <1>7, <2>5, <2>6 DEF ReadPiece
<1>8. ASSUME NEW c \in Clients, NEW fd \in Fds, ReadEnd(c, fd) PROVE TypeOK'
  BY <1>8 DEF ReadEnd
<1>9. ASSUME NEW c \in Clients, NEW fd \in Fds, ReadError(c, fd) PROVE TypeOK'
  BY <1>9 DEF ReadError
<1>10. ASSUME NEW c \in Clients, NEW fd \in Fds, ReadAgain(c, fd) PROVE TypeOK'
  BY <1>10 DEF ReadAgain
<1>11. CASE Write
  <2>. DEFINE c == fdtab[serving]
  <2>1. /\ c \in Clients /\ Deliver(c) /\ buf # 0 /\ buf' = 0 /\ serving' \in {serving, NoFd}
        /\ UNCHANGED <<server, fdtab, backlog, sent, taken, watched, fd_max, events>>
    BY <1>11, Writes DEF Inductive
  <2>2. 0 \in 0 .. MaxPieces /\ buf \in 1 .. MaxPieces
    BY <2>1, EventEchoAssumption
  <2>. HIDE DEF c
  <2>3. CASE got' = [got EXCEPT ![c] = Append(@, buf)] /\ UNCHANGED <<peer, ready, alive>>
    <3>1. Append(got[c], buf) \in Seq(1 .. MaxPieces)
      BY <2>1, <2>2
    <3>. QED  BY <2>1, <2>2, <2>3, <3>1
  <2>4. CASE UNCHANGED <<peer, ready, got, alive>>
    BY <2>1, <2>2, <2>4
  <2>5. CASE peer' = [peer EXCEPT ![c] = "dead"] /\ Wake(c) /\ UNCHANGED <<got, alive>>
    BY <2>1, <2>2, <2>5, WakeType
  <2>6. CASE alive' = FALSE /\ UNCHANGED <<peer, ready, got>>
    BY <2>1, <2>2, <2>6
  <2>. QED  BY <2>1, <2>3, <2>4, <2>5, <2>6 DEF Deliver
<1>12. CASE UNCHANGED vars
  BY <1>12 DEF vars
<1>. QED  BY <1>1, <1>2, <1>3, <1>4, <1>5, <1>6, <1>7, <1>8, <1>9, <1>10, <1>11, <1>12
          DEF Next, ServerStep, ClientStep

-----------------------------------------------------------------------------

(* A write changes no client but its own, and takes nothing away from what can
   be read: a client that it finds gone had something to read. *)
LEMMA Delivered ==
    ASSUME TypeOK, NEW c \in Clients, Deliver(c), UNCHANGED <<sent, taken>>
    PROVE  /\ \A d \in Clients : Readable(d)' <=> Readable(d)
           /\ \A d \in Clients : \/ peer'[d] = peer[d]
                                 \/ d = c /\ peer[c] \in {"gone", "reset"} /\ peer'[c] = "dead"
           /\ ready \subseteq ready'
           /\ alive' => alive
<1>1. \/ UNCHANGED peer
      \/ peer[c] \in {"gone", "reset"} /\ peer' = [peer EXCEPT ![c] = "dead"]
  BY DEF Deliver
<1>2. \A d \in Clients : \/ peer'[d] = peer[d]
                         \/ d = c /\ peer[c] \in {"gone", "reset"} /\ peer'[c] = "dead"
  BY <1>1 DEF TypeOK
<1>3. \A d \in Clients : Readable(d)' <=> Readable(d)
  BY <1>2 DEF Readable, Unread, Over
<1>4. ready \subseteq ready'
  BY WakeType DEF Deliver
<1>5. alive' => alive
  BY DEF Deliver, TypeOK
<1>. QED  BY <1>2, <1>3, <1>4, <1>5

(* The tables stay as they are, and no connection is unmade. *)
LEMMA TablesSame ==
    ASSUME WatchedAreOpen, InOnePlace,
           UNCHANGED <<server, fdtab, backlog, watched, fd_max>>,
           \A c \in Clients : peer'[c] = "none" => peer[c] = "none"
    PROVE  WatchedAreOpen' /\ InOnePlace'
  BY DEF WatchedAreOpen, InOnePlace, Open

LEMMA TablesNext == Inductive /\ [Next]_vars => WatchedAreOpen' /\ InOnePlace'
<1>. SUFFICES ASSUME Inductive, [Next]_vars PROVE WatchedAreOpen' /\ InOnePlace'
  OBVIOUS
<1>. USE DEF Inductive, clientv, loop
<1>t. TypeOK /\ peer \in [Clients -> {"none", "up", "half", "gone", "reset", "dead"}]
      /\ fdtab \in [Fds -> Clients \cup {Nobody}]
  BY DEF TypeOK
<1>1. ASSUME NEW c \in Clients, Connect(c) PROVE WatchedAreOpen' /\ InOnePlace'
  <2>1. /\ UNCHANGED <<server, fdtab, watched, fd_max>> /\ peer[c] = "none"
        /\ peer' = [peer EXCEPT ![c] = "up"] /\ backlog' = backlog \cup {c}
    BY <1>1 DEF Connect
  <2>2. WatchedAreOpen'
    BY <2>1 DEF WatchedAreOpen, Open
  <2>3. \A fd \in Fds : fdtab[fd] # c
    BY <2>1 DEF InOnePlace
  <2>4. \A d \in Clients \ {c} : peer'[d] = peer[d] /\ (d \in backlog' <=> d \in backlog)
    BY <2>1, <1>t
  <2>5. peer'[c] = "up"
    BY <2>1, <1>t
  <2>6. InOnePlace'
    BY <2>1, <2>3, <2>4, <2>5 DEF InOnePlace
  <2>. QED  BY <2>2, <2>6
<1>2. ASSUME NEW c \in Clients, Send(c) PROVE WatchedAreOpen' /\ InOnePlace'
  BY <1>2, TablesSame DEF Send
<1>3. ASSUME NEW c \in Clients, End(c) PROVE WatchedAreOpen' /\ InOnePlace'
  <2>1. \A d \in Clients : peer'[d] = "none" => peer[d] = "none"
    BY <1>3, <1>t DEF End
  <2>. QED  BY <1>3, <2>1, TablesSame DEF End
<1>4. CASE Wait
  BY <1>4, TablesSame DEF Wait
<1>5. CASE Accept
  <2>1. PICK c \in backlog, fd \in Fds :
           /\ LowestFree(fd)
           /\ fdtab' = [fdtab EXCEPT ![fd] = c] /\ backlog' = backlog \ {c}
           /\ watched' = watched \cup {fd}
           /\ fd_max' = IF server = "select" /\ fd_max < fd THEN fd ELSE fd_max
           /\ UNCHANGED <<server, peer>>
    BY <1>5 DEF Accept
  <2>2. c \in Clients /\ fdtab[fd] = Nobody /\ c # Nobody
    BY <2>1, Numbers DEF LowestFree, Open, TypeOK
  <2>3. fdtab'[fd] = c /\ \A other \in Fds \ {fd} : fdtab'[other] = fdtab[other]
    BY <2>1, <1>t
  <2>4. Open' = Open \cup {fd}
    BY <2>2, <2>3 DEF Open
  <2>5. \A other \in Fds : fdtab[other] # c
    BY <2>1, <2>2 DEF InOnePlace
  <2>6. \A x, y \in Open' : fdtab'[x] = fdtab'[y] => x = y
    BY <2>3, <2>4, <2>5 DEF WatchedAreOpen, Open
  <2>7. server' = "select" => \A x \in watched' : x <= fd_max'
    <3>1. fd_max \in Int /\ fd \in Int /\ watched \subseteq Int
      BY Numbers DEF TypeOK
    <3>. QED  BY <2>1, <3>1 DEF WatchedAreOpen
  <2>8. WatchedAreOpen'
    BY <2>1, <2>4, <2>6, <2>7 DEF WatchedAreOpen
  <2>9. peer[c] # "none"
    BY <2>1, <2>2 DEF InOnePlace
  <2>10. InOnePlace'
    BY <2>1, <2>2, <2>3, <2>9 DEF InOnePlace
  <2>. QED  BY <2>8, <2>10
<1>6. CASE AcceptFails
  BY <1>6, TablesSame DEF AcceptFails
<1>7. ASSUME NEW c \in Clients, NEW fd \in Fds, ReadPiece(c, fd) PROVE WatchedAreOpen' /\ InOnePlace'
  BY <1>7, TablesSame DEF ReadPiece
<1>8. ASSUME NEW c \in Clients, NEW fd \in Fds, ReadEnd(c, fd) PROVE WatchedAreOpen' /\ InOnePlace'
  <2>1. /\ watched' = watched \ {fd} /\ fdtab' = [fdtab EXCEPT ![fd] = Nobody]
        /\ UNCHANGED <<server, backlog, peer, fd_max>>
    BY <1>8 DEF ReadEnd
  <2>2. fdtab'[fd] = Nobody /\ \A other \in Fds \ {fd} : fdtab'[other] = fdtab[other]
    BY <2>1, <1>t
  <2>3. Open' = Open \ {fd}
    BY <2>2 DEF Open
  <2>4. WatchedAreOpen'
    BY <2>1, <2>2, <2>3 DEF WatchedAreOpen, Open
  <2>5. InOnePlace'
    BY <2>1, <2>2, Numbers DEF InOnePlace
  <2>. QED  BY <2>4, <2>5
<1>9. ASSUME NEW c \in Clients, NEW fd \in Fds, ReadError(c, fd) PROVE WatchedAreOpen' /\ InOnePlace'
  <2>1. \A d \in Clients : peer'[d] = "none" => peer[d] = "none"
    BY <1>9, <1>t DEF ReadError
  <2>. QED  BY <1>9, <2>1, TablesSame DEF ReadError
<1>10. ASSUME NEW c \in Clients, NEW fd \in Fds, ReadAgain(c, fd) PROVE WatchedAreOpen' /\ InOnePlace'
  BY <1>10, TablesSame DEF ReadAgain
<1>11. CASE Write
  <2>1. \A d \in Clients : peer'[d] = "none" => peer[d] = "none"
    BY <1>11, Writes, Delivered
  <2>. QED  BY <1>11, <2>1, Writes, TablesSame
<1>12. CASE UNCHANGED vars
  BY <1>12, TablesSame DEF vars
<1>. QED  BY <1>1, <1>2, <1>3, <1>4, <1>5, <1>6, <1>7, <1>8, <1>9, <1>10, <1>11, <1>12
          DEF Next, ServerStep, ClientStep

-----------------------------------------------------------------------------

(* Nothing is closed or accepted, what could be read still can, and no event
   is added. *)
LEMMA EventsKept ==
    ASSUME TypeOK, EventsCurrent, UNCHANGED fdtab, backlog \subseteq backlog', events' \subseteq events,
           \A fd \in events' \ {serv_sock} : Readable(fdtab[fd]) => Readable(fdtab[fd])'
    PROVE  EventsCurrent'
  BY DEF EventsCurrent, Open

LEMMA EventsNext == Inductive /\ [Next]_vars => EventsCurrent' /\ ServesOne'
<1>. SUFFICES ASSUME Inductive, [Next]_vars PROVE EventsCurrent' /\ ServesOne'
  OBVIOUS
<1>. USE DEF Inductive, clientv, loop
<1>t. /\ TypeOK /\ peer \in [Clients -> {"none", "up", "half", "gone", "reset", "dead"}]
      /\ fdtab \in [Fds -> Clients \cup {Nobody}] /\ taken \in [Clients -> Nat]
      /\ events \subseteq Fds \cup {serv_sock} /\ serving \in Fds \cup {NoFd}
  BY DEF TypeOK
<1>o. \A fd \in Open : fd \in Fds /\ fdtab[fd] \in Clients
  BY <1>t DEF Open
<1>e. \A fd \in events \ {serv_sock} : fd \in Fds /\ fdtab[fd] \in Clients
  BY <1>o DEF EventsCurrent, Open
<1>1. ASSUME NEW c \in Clients, Connect(c) PROVE EventsCurrent' /\ ServesOne'
  <2>1. /\ UNCHANGED <<sent, taken, fdtab, events, serving, buf>> /\ backlog \subseteq backlog'
        /\ peer[c] = "none" /\ peer' = [peer EXCEPT ![c] = "up"]
    BY <1>1 DEF Connect
  <2>2. \A d \in Clients : Readable(d) => Readable(d)'
    BY <2>1, <1>t DEF Readable, Unread, Over
  <2>3. EventsCurrent'
    BY <2>1, <2>2, <1>e, EventsKept
  <2>. QED  BY <2>1, <2>3 DEF ServesOne, Open
<1>2. ASSUME NEW c \in Clients, Send(c) PROVE EventsCurrent' /\ ServesOne'
  <2>1. UNCHANGED <<peer, taken, fdtab, backlog, events, serving, buf>>
    BY <1>2 DEF Send
  <2>2. Len(sent'[c]) = Len(sent[c]) + 1 /\ \A d \in Clients \ {c} : sent'[d] = sent[d]
    BY <1>2, Sent
  <2>3. taken[c] \in Int /\ Len(sent[c]) \in Int
    BY <1>t, EventEchoAssumption
  <2>4. \A d \in Clients : Unread(d) => Unread(d)'
    BY <2>1, <2>2, <2>3 DEF Unread
  <2>5. \A d \in Clients : Readable(d) => Readable(d)'
    BY <2>1, <2>4 DEF Readable, Over
  <2>6. EventsCurrent'
    BY <2>1, <2>5, <1>e, EventsKept
  <2>. QED  BY <2>1, <2>6 DEF ServesOne, Open
<1>3. ASSUME NEW c \in Clients, End(c) PROVE EventsCurrent' /\ ServesOne'
  <2>1. UNCHANGED <<sent, taken, fdtab, backlog, events, serving, buf>>
    BY <1>3 DEF End
  <2>2. \A d \in Clients : Over(d) \/ peer[d] = "reset" => Over(d)' \/ peer'[d] = "reset"
    BY <1>3, <1>t DEF End, Over
  <2>3. \A d \in Clients : Readable(d) => Readable(d)'
    BY <2>1, <2>2 DEF Readable, Unread
  <2>4. EventsCurrent'
    BY <2>1, <2>3, <1>e, EventsKept
  <2>. QED  BY <2>1, <2>4 DEF ServesOne, Open
<1>4. CASE Wait
  <2>1. /\ serving = NoFd /\ events' = {fd \in Fds \cup {serv_sock} : Fires(fd)}
        /\ UNCHANGED <<sent, peer, taken, fdtab, backlog, watched, serving, buf>>
    BY <1>4 DEF Wait
  <2>2. \A fd \in events' \ {serv_sock} : fd \in watched /\ Readable(fdtab[fd])
    BY <2>1 DEF Fires
  <2>3. serv_sock \in events' => backlog # {}
    BY <2>1 DEF Fires
  <2>4. EventsCurrent'
    BY <2>1, <2>2, <2>3 DEF EventsCurrent, WatchedAreOpen, Open, Readable, Unread, Over
  <2>. QED  BY <2>1, <2>4 DEF ServesOne
<1>5. CASE Accept
  <2>1. PICK c \in backlog, fd \in Fds :
           /\ LowestFree(fd)
           /\ fdtab' = [fdtab EXCEPT ![fd] = c]
           /\ serving = NoFd /\ events' = events \ {serv_sock}
           /\ UNCHANGED <<sent, peer, taken, serving, buf>>
    BY <1>5 DEF Accept
  <2>2. \A other \in events' : /\ other \in Fds /\ other \in Open /\ Readable(fdtab[other])
                               /\ fdtab'[other] = fdtab[other]
    BY <2>1, <1>t DEF EventsCurrent, LowestFree
  <2>3. EventsCurrent'
    BY <2>1, <2>2 DEF EventsCurrent, Open, Readable, Unread, Over
  <2>. QED  BY <2>1, <2>3 DEF ServesOne
<1>6. CASE AcceptFails
  <2>1. events' \subseteq events /\ UNCHANGED <<fdtab, backlog, sent, peer, taken, serving, buf>>
    BY <1>6 DEF AcceptFails
  <2>2. EventsCurrent'
    BY <2>1, EventsKept DEF Readable, Unread, Over
  <2>. QED  BY <2>1, <2>2 DEF ServesOne, Open
<1>7. ASSUME NEW c \in Clients, NEW fd \in Fds, ReadPiece(c, fd) PROVE EventsCurrent' /\ ServesOne'
  <2>1. /\ Reads(c, fd) /\ taken' = [taken EXCEPT ![c] = @ + 1]
        /\ serving' = fd /\ events' = events \ {fd}
        /\ UNCHANGED <<sent, peer, fdtab, backlog>>
    BY <1>7 DEF ReadPiece
  <2>2. fdtab[fd] = c /\ fd \in Open
    BY <2>1, ReadsOpen
  <2>3. \A d \in Clients \ {c} : Readable(d) => Readable(d)'
    BY <2>1, <1>t DEF Readable, Unread, Over
  <2>4. \A other \in events' \ {serv_sock} : fdtab[other] \in Clients \ {c}
    BY <2>1, <2>2, <1>e DEF EventsCurrent, WatchedAreOpen
  <2>5. EventsCurrent'
    BY <2>1, <2>3, <2>4, EventsKept
  <2>6. Open' = Open
    BY <2>1 DEF Open
  <2>. QED  BY <2>1, <2>2, <2>5, <2>6, Numbers DEF ServesOne
<1>8. ASSUME NEW c \in Clients, NEW fd \in Fds, ReadEnd(c, fd) PROVE EventsCurrent' /\ ServesOne'
  <2>1. /\ fdtab' = [fdtab EXCEPT ![fd] = Nobody]
        /\ buf = 0 /\ serving' = NoFd /\ events' = events \ {fd}
        /\ UNCHANGED <<sent, peer, taken, backlog, buf>>
    BY <1>8 DEF ReadEnd, Reads
  <2>2. \A other \in events' \ {serv_sock} :
           other \in Open /\ Readable(fdtab[other]) /\ fdtab'[other] = fdtab[other]
    BY <2>1, <1>t DEF EventsCurrent
  <2>3. EventsCurrent'
    BY <2>1, <2>2 DEF EventsCurrent, Open, Readable, Unread, Over
  <2>. QED  BY <2>1, <2>3 DEF ServesOne
<1>9. ASSUME NEW c \in Clients, NEW fd \in Fds, ReadError(c, fd) PROVE EventsCurrent' /\ ServesOne'
  <2>1. /\ Reads(c, fd) /\ peer' = [peer EXCEPT ![c] = "dead"]
        /\ serving' \in {fd, NoFd} /\ events' = events \ {fd}
        /\ UNCHANGED <<sent, taken, fdtab, backlog, buf>>
    BY <1>9 DEF ReadError
  <2>2. fd \in Open /\ buf = 0
    BY <2>1, ReadsOpen DEF Reads
  <2>3. \A d \in Clients : Readable(d) => Readable(d)'
    BY <2>1, <1>t DEF Readable, Unread, Over
  <2>4. EventsCurrent'
    BY <2>1, <2>3, <1>e, EventsKept
  <2>. QED  BY <2>1, <2>2, <2>4 DEF ServesOne, Open
<1>10. ASSUME NEW c \in Clients, NEW fd \in Fds, ReadAgain(c, fd) PROVE EventsCurrent' /\ ServesOne'
  <2>1. /\ buf = 0 /\ serving' = NoFd /\ events' = events \ {fd}
        /\ UNCHANGED <<sent, peer, taken, fdtab, backlog, buf>>
    BY <1>10 DEF ReadAgain, Reads
  <2>2. EventsCurrent'
    BY <2>1, EventsKept DEF Readable, Unread, Over
  <2>. QED  BY <2>1, <2>2 DEF ServesOne
<1>11. CASE Write
  <2>1. \A d \in Clients : Readable(d)' <=> Readable(d)
    BY <1>11, Writes, Delivered
  <2>2. EventsCurrent'
    BY <1>11, <2>1, <1>e, Writes, EventsKept
  <2>. QED  BY <1>11, <2>2, Writes DEF ServesOne, Open
<1>12. CASE UNCHANGED vars
  BY <1>12 DEF vars, EventsCurrent, ServesOne, Open, Readable, Unread, Over
<1>. QED  BY <1>1, <1>2, <1>3, <1>4, <1>5, <1>6, <1>7, <1>8, <1>9, <1>10, <1>11, <1>12
          DEF Next, ServerStep, ClientStep

(* No descriptor is added to what is watched, none becomes readable without an
   edge, and none that has one or is being served loses it. *)
LEMMA EdgesKept ==
    ASSUME NoEdgeLost, server' = server, alive' => alive, watched' \subseteq watched,
           server = "edge" =>
               \A fd \in watched' :
                  /\ Readable(fdtab[fd])' => Readable(fdtab[fd]) \/ fd \in ready'
                  /\ fd \in ready \cup events \cup {serving} /\ Readable(fdtab[fd])'
                        => fd \in ready' \cup events' \cup {serving'}
    PROVE  NoEdgeLost'
  BY DEF NoEdgeLost

LEMMA EdgesNext == Inductive /\ [Next]_vars => NoEdgeLost'
<1>. SUFFICES ASSUME Inductive, [Next]_vars PROVE NoEdgeLost'
  OBVIOUS
<1>. USE DEF Inductive, clientv, loop
<1>t. /\ TypeOK /\ peer \in [Clients -> {"none", "up", "half", "gone", "reset", "dead"}]
      /\ fdtab \in [Fds -> Clients \cup {Nobody}] /\ taken \in [Clients -> Nat]
      /\ events \subseteq Fds \cup {serv_sock} /\ serving \in Fds \cup {NoFd}
  BY DEF TypeOK
<1>w. \A fd \in watched : fd \in Fds /\ fdtab[fd] \in Clients
  BY <1>t DEF WatchedAreOpen, Open
<1>1. ASSUME NEW c \in Clients, Connect(c) PROVE NoEdgeLost'
  <2>1. /\ UNCHANGED <<server, alive, sent, taken, fdtab, ready, watched, events, serving>>
        /\ peer[c] = "none" /\ peer' = [peer EXCEPT ![c] = "up"]
    BY <1>1 DEF Connect
  <2>2. \A d \in Clients : Readable(d)' => Readable(d)
    BY <2>1, <1>t DEF Readable, Unread, Over
  <2>. QED  BY <2>1, <2>2, <1>w, EdgesKept
<1>2. ASSUME NEW c \in Clients, Send(c) PROVE NoEdgeLost'
  <2>1. /\ UNCHANGED <<server, alive, peer, taken, fdtab, watched, events, serving>> /\ Wake(c)
    BY <1>2 DEF Send
  <2>2. \A d \in Clients \ {c} : Readable(d)' => Readable(d)
    BY <1>2, <2>1, Sent DEF Readable, Unread, Over
  <2>3. server = "edge" => \A fd \in watched : fdtab[fd] = c => fd \in ready'
    BY <2>1, <1>w DEF Wake
  <2>. QED  BY <2>1, <2>2, <2>3, <1>w, WakeType, EdgesKept
<1>3. ASSUME NEW c \in Clients, End(c) PROVE NoEdgeLost'
  <2>1. /\ UNCHANGED <<server, alive, sent, taken, fdtab, watched, events, serving>> /\ Wake(c)
    BY <1>3 DEF End
  <2>2. \A d \in Clients \ {c} : peer'[d] = peer[d]
    BY <1>3, <1>t DEF End
  <2>3. \A d \in Clients \ {c} : Readable(d)' => Readable(d)
    BY <2>1, <2>2 DEF Readable, Unread, Over
  <2>4. server = "edge" => \A fd \in watched : fdtab[fd] = c => fd \in ready'
    BY <2>1, <1>w DEF Wake
  <2>. QED  BY <2>1, <2>3, <2>4, <1>w, WakeType, EdgesKept
<1>4. CASE Wait
  <2>1. /\ events = {} /\ serving = NoFd
        /\ events' = {fd \in Fds \cup {serv_sock} : Fires(fd)}
        /\ UNCHANGED <<server, alive, sent, peer, taken, fdtab, watched, serving>>
    BY <1>4 DEF Wait
  <2>2. ASSUME server = "edge", alive, NEW fd \in watched, Readable(fdtab[fd])
        PROVE  fd \in events'
    <3>1. fd \in ready /\ fd \in Fds /\ fd # serv_sock
      BY <2>1, <2>2, <1>w, Numbers DEF NoEdgeLost
    <3>. QED  BY <2>1, <2>2, <3>1 DEF Fires
  <2>. QED  BY <2>1, <2>2 DEF NoEdgeLost, Readable, Unread, Over
<1>5. CASE Accept
  <2>1. PICK c \in backlog, fd \in Fds :
           /\ LowestFree(fd)
           /\ fdtab' = [fdtab EXCEPT ![fd] = c] /\ watched' = watched \cup {fd}
           /\ ready' = IF server = "edge" /\ Readable(c) THEN ready \cup {fd} ELSE ready
           /\ events' = events \ {serv_sock}
           /\ UNCHANGED <<server, alive, sent, peer, taken, serving>>
    BY <1>5 DEF Accept
  <2>2. fdtab'[fd] = c /\ \A other \in watched \ {fd} : fdtab'[other] = fdtab[other]
    BY <2>1, <1>t, <1>w
  <2>3. \A d \in Clients : Readable(d)' <=> Readable(d)
    BY <2>1 DEF Readable, Unread, Over
  <2>4. c \in Clients
    BY <2>1 DEF TypeOK
  <2>5. fd \notin watched
    BY <2>1 DEF LowestFree, WatchedAreOpen
  <2>6. ASSUME server = "edge", alive, NEW other \in watched', Readable(fdtab[other])'
        PROVE  other \in ready' \cup events' \cup {serving'}
    <3>1. CASE other = fd
      BY <2>1, <2>2, <2>3, <2>4, <2>6, <3>1
    <3>2. CASE other \in watched
      <4>1. Readable(fdtab[other])
        BY <2>2, <2>3, <2>5, <2>6, <3>2, <1>w
      <4>2. other # serv_sock
        BY <3>2, <1>w, Numbers
      <4>3. other \in ready \cup events \cup {serving}
        BY <2>6, <3>2, <4>1 DEF NoEdgeLost
      <4>. QED  BY <2>1, <4>2, <4>3
    <3>. QED  BY <2>1, <3>1, <3>2
  <2>. QED  BY <2>1, <2>6 DEF NoEdgeLost
<1>6. CASE alive /\ AcceptFails
  <2>1. /\ events' = events \ {serv_sock}
        /\ UNCHANGED <<server, fdtab, sent, peer, taken, ready, watched, serving>>
    BY <1>6 DEF AcceptFails
  <2>2. \A fd \in watched : fd # serv_sock
    BY <1>w, Numbers
  <2>. QED  BY <1>6, <2>1, <2>2, EdgesKept DEF Readable, Unread, Over
<1>7. ASSUME NEW c \in Clients, NEW fd \in Fds, ReadPiece(c, fd) PROVE NoEdgeLost'
  <2>1. /\ Reads(c, fd) /\ taken' = [taken EXCEPT ![c] = @ + 1] /\ Unread(c)
        /\ serving' = fd /\ events' = events \ {fd}
        /\ UNCHANGED <<server, alive, sent, peer, fdtab, ready, watched>>
    BY <1>7 DEF ReadPiece
  <2>2. serving \in {fd, NoFd}
    BY <2>1 DEF Reads
  <2>3. \A d \in Clients : Readable(d)' => Readable(d)
    <3>1. Readable(c)
      BY <2>1 DEF Readable
    <3>2. \A d \in Clients \ {c} : taken'[d] = taken[d]
      BY <2>1, <1>t
    <3>. QED  BY <2>1, <3>1, <3>2 DEF Readable, Unread, Over
  <2>4. NoFd \notin watched
    BY <1>w, Numbers
  <2>. QED  BY <2>1, <2>2, <2>3, <2>4, <1>w, EdgesKept
<1>8. ASSUME NEW c \in Clients, NEW fd \in Fds, ReadEnd(c, fd) PROVE NoEdgeLost'
  <2>1. /\ Reads(c, fd) /\ fdtab' = [fdtab EXCEPT ![fd] = Nobody]
        /\ watched' = watched \ {fd} /\ ready' = ready \ {fd}
        /\ serving' = NoFd /\ events' = events \ {fd}
        /\ UNCHANGED <<server, alive, sent, peer, taken>>
    BY <1>8 DEF ReadEnd
  <2>2. serving \in {fd, NoFd}
    BY <2>1 DEF Reads
  <2>3. \A other \in watched' : fdtab'[other] = fdtab[other] /\ other # NoFd
    BY <2>1, <1>t, <1>w, Numbers
  <2>4. \A d \in Clients : Readable(d)' <=> Readable(d)
    BY <2>1 DEF Readable, Unread, Over
  <2>5. \A other \in watched' : Readable(fdtab[other])' <=> Readable(fdtab[other])
    BY <2>1, <2>3, <2>4, <1>w
  <2>. QED  BY <2>1, <2>2, <2>3, <2>5, EdgesKept
<1>9. ASSUME NEW c \in Clients, NEW fd \in Fds, alive, ReadError(c, fd) PROVE NoEdgeLost'
  <2>1. /\ Reads(c, fd) /\ peer[c] = "reset" /\ peer' = [peer EXCEPT ![c] = "dead"]
        /\ serving' = IF server = "edge" THEN fd ELSE NoFd
        /\ events' = events \ {fd}
        /\ UNCHANGED <<server, sent, fdtab, taken, ready, watched>>
    BY <1>9 DEF ReadError
  <2>2. serving \in {fd, NoFd}
    BY <2>1 DEF Reads
  <2>3. \A d \in Clients : Readable(d)' => Readable(d)
    BY <2>1, <1>t DEF Readable, Unread, Over
  <2>4. NoFd \notin watched
    BY <1>w, Numbers
  <2>. QED  BY <1>9, <2>1, <2>2, <2>3, <2>4, <1>w, EdgesKept
<1>10. ASSUME NEW c \in Clients, NEW fd \in Fds, ReadAgain(c, fd) PROVE NoEdgeLost'
  <2>1. /\ Reads(c, fd) /\ ~Readable(c) /\ serving' = NoFd /\ events' = events \ {fd}
        /\ UNCHANGED <<server, alive, sent, peer, fdtab, taken, ready, watched>>
    BY <1>10 DEF ReadAgain
  <2>2. fdtab[fd] = c /\ serving \in {fd, NoFd}
    BY <2>1, ReadsOpen DEF Reads
  <2>3. \A d \in Clients : Readable(d)' <=> Readable(d)
    BY <2>1 DEF Readable, Unread, Over
  <2>4. NoFd \notin watched
    BY <1>w, Numbers
  <2>. QED  BY <2>1, <2>2, <2>3, <2>4, <1>w, EdgesKept
<1>11. CASE Write
  <2>1. /\ server = "edge" => serving' = serving
        /\ UNCHANGED <<server, fdtab, sent, taken, watched, events>>
    BY <1>11, Writes
  <2>2. /\ \A d \in Clients : Readable(d)' <=> Readable(d)
        /\ ready \subseteq ready' /\ (alive' => alive)
    BY <1>11, Writes, Delivered
  <2>. QED  BY <2>1, <2>2, <1>w, EdgesKept
<1>12. CASE UNCHANGED vars
  BY <1>12 DEF vars, NoEdgeLost, Readable, Unread, Over
<1>. QED  BY <1>1, <1>2, <1>3, <1>4, <1>5, <1>6, <1>7, <1>8, <1>9, <1>10, <1>11, <1>12
          DEF Next, ServerStep, ClientStep

-----------------------------------------------------------------------------

(* Every step but Send leaves what was sent alone. *)
LEMMA OnlySendSends ==
    ASSUME TypeOK, ServesOne, [Next]_vars
    PROVE  UNCHANGED sent \/ \E c \in Clients : Send(c)
<1>1. ASSUME NEW c \in Clients, Connect(c) \/ End(c) PROVE UNCHANGED sent
  BY <1>1 DEF Connect, End
<1>2. ASSUME Wait \/ Accept \/ AcceptFails PROVE UNCHANGED sent
  BY <1>2 DEF Wait, Accept, AcceptFails, clientv
<1>3. ASSUME NEW c \in Clients, NEW fd \in Fds,
             ReadPiece(c, fd) \/ ReadEnd(c, fd) \/ ReadError(c, fd) \/ ReadAgain(c, fd)
      PROVE  UNCHANGED sent
  BY <1>3 DEF ReadPiece, ReadEnd, ReadError, ReadAgain, clientv
<1>4. CASE Write
  BY <1>4 DEF Write
<1>5. CASE UNCHANGED vars
  BY <1>5 DEF vars, clientv
<1>. QED  BY <1>1, <1>2, <1>3, <1>4, <1>5 DEF Next, ServerStep, ClientStep

(* Reads, answers and what is held stay as they are. *)
LEMMA AccountsSame ==
    ASSUME Accounted, UNCHANGED <<sent, taken, got, buf>>,
           buf # 0 => serving' = serving /\ UNCHANGED fdtab,
           \A c \in Clients : peer'[c] \in {"none", "up", "half"} => peer[c] \in {"none", "up", "half"}
    PROVE  Accounted'
  BY DEF Accounted, Held

LEMMA AccountedNext == Inductive /\ [Next]_vars => Accounted'
<1>. SUFFICES ASSUME Inductive, [Next]_vars PROVE Accounted'
  OBVIOUS
<1>. USE DEF Inductive, clientv, loop
<1>t. /\ TypeOK /\ peer \in [Clients -> {"none", "up", "half", "gone", "reset", "dead"}]
      /\ fdtab \in [Fds -> Clients \cup {Nobody}]
      /\ taken \in [Clients -> Nat] /\ \A c \in Clients : Len(sent[c]) \in Nat /\ Len(got[c]) \in Nat
      /\ \A c \in Clients : got[c] \in Seq(1 .. MaxPieces)
  BY EventEchoAssumption DEF TypeOK
<1>1. ASSUME NEW c \in Clients, Connect(c) PROVE Accounted'
  <2>1. \A d \in Clients : peer'[d] \in {"none", "up", "half"} => peer[d] \in {"none", "up", "half"}
    BY <1>1, <1>t DEF Connect
  <2>. QED  BY <1>1, <2>1, AccountsSame DEF Connect
<1>2. ASSUME NEW c \in Clients, Send(c) PROVE Accounted'
  <2>1. UNCHANGED <<peer, taken, got, fdtab, serving, buf>>
    BY <1>2 DEF Send
  <2>2. /\ Len(sent'[c]) = Len(sent[c]) + 1 /\ \A d \in Clients \ {c} : sent'[d] = sent[d]
        /\ \A k \in 1 .. Len(sent[c]) : sent'[c][k] = sent[c][k]
    BY <1>2, Sent
  <2>3. \A d \in Clients : taken[d] <= Len(sent'[d])
    <3>1. \A d \in Clients : taken[d] \in Nat /\ Len(sent[d]) \in Nat /\ taken[d] <= Len(sent[d])
      BY <1>t DEF Accounted
    <3>2. taken[c] <= Len(sent'[c])
      BY <2>2, <3>1
    <3>. QED  BY <2>2, <3>1, <3>2
  <2>4. ASSUME buf # 0
        PROVE  LET d == fdtab[serving] IN
               taken[d] > 0 /\ buf = sent'[d][taken[d]]
    <3>. DEFINE d == fdtab[serving]
    <3>1. d \in Clients
      BY <2>4, <1>t DEF ServesOne, Open
    <3>2. taken[d] > 0 /\ buf = sent[d][taken[d]] /\ taken[d] <= Len(sent[d])
      BY <2>4, <3>1 DEF Accounted
    <3>. HIDE DEF d
    <3>3. taken[d] \in 1 .. Len(sent[d])
      BY <3>1, <3>2, <1>t
    <3>4. sent'[d][taken[d]] = sent[d][taken[d]]
      BY <3>1, <3>3, <2>2
    <3>. QED  BY <3>2, <3>4 DEF d
  <2>. QED  BY <2>1, <2>3, <2>4 DEF Accounted, Held
<1>3. ASSUME NEW c \in Clients, End(c) PROVE Accounted'
  <2>1. \A d \in Clients : peer'[d] \in {"none", "up", "half"} => peer[d] \in {"none", "up", "half"}
    BY <1>3, <1>t DEF End
  <2>. QED  BY <1>3, <2>1, AccountsSame DEF End
<1>4. CASE Wait
  BY <1>4, AccountsSame DEF Wait
<1>5. CASE Accept
  BY <1>5, AccountsSame DEF Accept, ServesOne
<1>6. CASE AcceptFails
  BY <1>6, AccountsSame DEF AcceptFails
<1>7. ASSUME NEW c \in Clients, NEW fd \in Fds, ReadPiece(c, fd) PROVE Accounted'
  <2>1. /\ Reads(c, fd) /\ taken[c] < Len(sent[c])
        /\ buf = 0 /\ buf' = sent[c][taken[c] + 1]
        /\ taken' = [taken EXCEPT ![c] = @ + 1] /\ serving' = fd
        /\ UNCHANGED <<fdtab, sent, got, peer>>
    BY <1>7 DEF ReadPiece, Unread, Reads
  <2>2. fdtab[fd] = c
    BY <2>1, ReadsOpen
  <2>3. taken'[c] = taken[c] + 1 /\ \A d \in Clients \ {c} : taken'[d] = taken[d]
    BY <2>1, <1>t
  <2>4. buf' # 0
    <3>1. taken[c] + 1 \in 1 .. Len(sent[c]) /\ sent[c] \in Seq(1 .. MaxPieces)
      BY <2>1, <1>t DEF TypeOK
    <3>2. sent[c][taken[c] + 1] \in 1 .. MaxPieces
      BY <3>1, ElementOfSeq
    <3>. QED  BY <2>1, <3>2, EventEchoAssumption
  <2>5. Held(c)' = 1 /\ Held(c) = 0
    BY <2>1, <2>2, <2>4 DEF Held
  <2>6. \A d \in Clients \ {c} : Held(d)' = 0 /\ Held(d) = 0
    BY <2>1, <2>2 DEF Held
  <2>7. \A d \in Clients : taken'[d] <= Len(sent'[d])
    BY <2>1, <2>3, <1>t DEF Accounted
  <2>8. \A d \in Clients : peer'[d] \in {"none", "up", "half"} => Len(got'[d]) + Held(d)' = taken'[d]
    BY <2>1, <2>3, <2>5, <2>6, <1>t DEF Accounted
  <2>9. taken'[fdtab'[serving']] > 0 /\ buf' = sent'[fdtab'[serving']][taken'[fdtab'[serving']]]
    BY <2>1, <2>2, <2>3, <1>t
  <2>. QED  BY <2>7, <2>8, <2>9 DEF Accounted
<1>8. ASSUME NEW c \in Clients, NEW fd \in Fds, ReadEnd(c, fd) PROVE Accounted'
  BY <1>8, AccountsSame DEF ReadEnd, Reads
<1>9. ASSUME NEW c \in Clients, NEW fd \in Fds, ReadError(c, fd) PROVE Accounted'
  <2>1. \A d \in Clients : peer'[d] \in {"none", "up", "half"} => peer[d] \in {"none", "up", "half"}
    BY <1>9, <1>t DEF ReadError
  <2>. QED  BY <1>9, <2>1, AccountsSame DEF ReadError, Reads
<1>10. ASSUME NEW c \in Clients, NEW fd \in Fds, ReadAgain(c, fd) PROVE Accounted'
  BY <1>10, AccountsSame DEF ReadAgain, Reads
<1>11. CASE Write
  <2>. DEFINE c == fdtab[serving]
  <2>1. /\ c \in Clients /\ Deliver(c) /\ buf # 0 /\ buf' = 0
        /\ UNCHANGED <<sent, taken, fdtab>>
    BY <1>11, Writes
  <2>2. Held(c) = 1 /\ \A d \in Clients \ {c} : Held(d) = 0
    BY <2>1 DEF Held
  <2>3. \A d \in Clients : Held(d)' = 0
    BY <2>1 DEF Held
  <2>. HIDE DEF c
  <2>4. \A d \in Clients \ {c} : got'[d] = got[d] /\ peer'[d] = peer[d]
    BY <2>1, <1>t DEF Deliver, TypeOK
  <2>5. peer'[c] \in {"none", "up", "half"} => Len(got'[c]) = Len(got[c]) + 1
    <3>1. CASE peer[c] \in {"up", "half"}
      <4>1. got'[c] = Append(got[c], buf)
        BY <2>1, <3>1, <1>t DEF Deliver, TypeOK
      <4>. QED  BY <4>1, <1>t
    <3>2. CASE peer[c] \notin {"up", "half"}
      BY <2>1, <3>2, <1>t DEF Deliver
    <3>. QED  BY <3>1, <3>2
  <2>6. peer'[c] \in {"none", "up", "half"} => peer[c] \in {"none", "up", "half"}
    BY <2>1, <1>t DEF Deliver
  <2>7. \A d \in Clients : peer'[d] \in {"none", "up", "half"} => Len(got'[d]) + Held(d)' = taken'[d]
    BY <2>1, <2>2, <2>3, <2>4, <2>5, <2>6, <1>t DEF Accounted
  <2>. QED  BY <2>1, <2>7 DEF Accounted
<1>12. CASE UNCHANGED vars
  BY <1>12, AccountsSame DEF vars
<1>. QED  BY <1>1, <1>2, <1>3, <1>4, <1>5, <1>6, <1>7, <1>8, <1>9, <1>10, <1>11, <1>12
          DEF Next, ServerStep, ClientStep

-----------------------------------------------------------------------------

LEMMA InductiveAlways == Spec => []Inductive
<1>1. Inductive /\ [Next]_vars => Inductive'
  <2>. SUFFICES ASSUME Inductive, [Next]_vars PROVE Inductive'
    OBVIOUS
  <2>1. TypeOK' /\ EventsCurrent' /\ WatchedAreOpen' /\ NoEdgeLost'
    BY TypeNext, EventsNext, TablesNext, EdgesNext
  <2>2. InOnePlace' /\ ServesOne' /\ Accounted'
    BY TablesNext, EventsNext, AccountedNext
  <2>. QED  BY <2>1, <2>2 DEF Inductive
<1>. QED  BY InitInductive, <1>1, PTL DEF Spec

(* Every variable has a value of its type in every behaviour of the servers. *)
THEOREM TypeCorrect == Spec => []TypeOK
<1>1. Inductive => TypeOK
  BY DEF Inductive
<1>. QED  BY InductiveAlways, <1>1, PTL

(* A descriptor that was reported is still open and ready when it is served,
   whatever was accepted and closed in the meantime. *)
THEOREM EventsStayCurrent == Spec => []EventsCurrent
<1>1. Inductive => EventsCurrent
  BY DEF Inductive
<1>. QED  BY InductiveAlways, <1>1, PTL

(* The servers watch what they have open, under one number each. *)
THEOREM WatchedAreOpenAlways == Spec => []WatchedAreOpen
<1>1. Inductive => WatchedAreOpen
  BY DEF Inductive
<1>. QED  BY InductiveAlways, <1>1, PTL

(* The edge-triggered server never has data waiting that no event is left
   for. *)
THEOREM NoEdgeLostAlways == Spec => []NoEdgeLost
<1>1. Inductive => NoEdgeLost
  BY DEF Inductive
<1>. QED  BY InductiveAlways, <1>1, PTL

(* A step that writes to a client echoes the next piece of that client, one
   that sends sends, and no other touches what the echo service is about. *)
THEOREM ServersImplementEcho == Spec => ImplementsEcho
<1>1. Init => Echo!Init
  BY DEF Init, Echo!Init
<1>2. Inductive /\ [Next]_vars => [Echo!Next]_<<sent, got>>
  <2>. SUFFICES ASSUME Inductive, [Next]_vars
                PROVE  Echo!Next \/ UNCHANGED <<sent, got>>
    OBVIOUS
  <2>. USE DEF Inductive, clientv, loop
  <2>1. ASSUME NEW c \in Clients, Send(c) PROVE Echo!Next
    <3>. DEFINE p == Cardinality(SentSoFar) + 1
    <3>1. p \in 1 .. MaxPieces
      BY <2>1, Sent
    <3>2. sent' = [sent EXCEPT ![c] = Append(@, p)] /\ UNCHANGED got
      BY <2>1 DEF Send
    <3>. HIDE DEF p
    <3>. QED  BY <3>1, <3>2 DEF Echo!Next, Echo!Send
  <2>2. CASE Write
    <3>. DEFINE c == fdtab[serving]
    <3>1. /\ c \in Clients /\ Deliver(c) /\ buf # 0 /\ UNCHANGED sent
      BY <2>2, Writes
    <3>2. CASE UNCHANGED got
      BY <3>1, <3>2
    <3>3. CASE peer[c] \in {"up", "half"} /\ got' = [got EXCEPT ![c] = Append(@, buf)]
      <4>1. Len(got[c]) + 1 = taken[c] /\ taken[c] <= Len(sent[c]) /\ buf = sent[c][taken[c]]
        BY <3>1, <3>3 DEF Accounted, Held
      <4>2. Len(got[c]) \in Nat /\ Len(sent[c]) \in Nat /\ taken[c] \in Int
        BY <3>1, EventEchoAssumption DEF TypeOK
      <4>3. Len(got[c]) < Len(sent[c]) /\ buf = sent[c][Len(got[c]) + 1]
        BY <4>1, <4>2
      <4>. HIDE DEF c
      <4>4. got' = [got EXCEPT ![c] = Append(@, sent[c][Len(@) + 1])]
        BY <3>3, <4>3
      <4>. QED  BY <3>1, <4>3, <4>4 DEF Echo!Next, Echo!Echo
    <3>. QED  BY <3>1, <3>2, <3>3 DEF Deliver
  <2>3. CASE UNCHANGED got /\ UNCHANGED sent
    BY <2>3
  <2>4. UNCHANGED got \/ Write
    <3>1. ASSUME NEW c \in Clients, Connect(c) \/ Send(c) \/ End(c) PROVE UNCHANGED got
      BY <3>1 DEF Connect, Send, End
    <3>2. ASSUME Wait \/ Accept \/ AcceptFails PROVE UNCHANGED got
      BY <3>2 DEF Wait, Accept, AcceptFails
    <3>3. ASSUME NEW c \in Clients, NEW fd \in Fds,
                 ReadPiece(c, fd) \/ ReadEnd(c, fd) \/ ReadError(c, fd) \/ ReadAgain(c, fd)
          PROVE  UNCHANGED got
      BY <3>3 DEF ReadPiece, ReadEnd, ReadError, ReadAgain
    <3>. QED  BY <3>1, <3>2, <3>3 DEF vars, Next, ServerStep, ClientStep
  <2>. QED  BY <2>1, <2>2, <2>3, <2>4, OnlySendSends
<1>. QED  BY <1>1, <1>2, InductiveAlways, PTL DEF Spec, ImplementsEcho, Echo!Spec
=============================================================================
