-------------------------- MODULE ChatServerProofs --------------------------
(***************************************************************************)
(* Proofs about ChatServer for every set of clients, every number of       *)
(* descriptors and every number of packets.  Sessions agree with the       *)
(* kernel by themselves; that the copy of poll's answer stays true needs   *)
(* to know that a client has one descriptor (Connections) and that the     *)
(* copy names a descriptor once (Entries, from PolledAreOpen).             *)
(***************************************************************************)
EXTENDS ChatServer, TLAPS

Entry == [fd : Fds, revents : {"none", "in", "hup"}, conn : Owners]

LEMMA EntryFd == \A e \in Entry : e.fd \in Fds
  BY DEF Entry

(* The entry the scan is at. *)
LEMMA CurrentEntry ==
    ASSUME TypeOK, poll_result # <<>>
    PROVE  /\ Current = poll_result[1] /\ Current \in Entry
           /\ Current.fd \in Fds
           /\ 1 \in 1 .. Len(poll_result)
           /\ Tail(poll_result) \in Seq(Entry)
           /\ Len(Tail(poll_result)) = Len(poll_result) - 1
           /\ \A i \in 1 .. Len(Tail(poll_result)) :
                i + 1 \in 1 .. Len(poll_result) /\ Tail(poll_result)[i] = poll_result[i + 1]
<1>1. poll_result \in Seq(Entry)
  BY DEF TypeOK, Entry
<1>2. Current = poll_result[1] /\ Current \in Entry
  BY <1>1 DEF Current
<1>. QED  BY <1>1, <1>2 DEF Entry

(* While it reads, the server reads from a client. *)
LEMMA ReadsFromClient ==
    ASSUME Inductive, pc = "read"
    PROVE  /\ poll_result # <<>> /\ Current.fd \in Fds
           /\ Client \in Clients /\ m_sessions[Current.fd] = Client
<1>1. poll_result # <<>> /\ Current.fd # ServerFd
  BY DEF Inductive, Entries
<1>2. Current = poll_result[1] /\ Current.fd \in Fds /\ 1 \in 1 .. Len(poll_result)
  BY <1>1, CurrentEntry DEF Inductive
<1>3. Client # Free
  BY <1>2 DEF Inductive, Entries, Client
<1>4. Client # Listener
  BY <1>1, <1>2 DEF Inductive, Connections, Client
<1>5. Client \in Owners
  BY <1>2 DEF Inductive, TypeOK, Client
<1>. QED  BY <1>1, <1>2, <1>3, <1>4, <1>5 DEF Inductive, SessionsMatchKernel, Client, Owners

(* What erasing an entry of a sequence leaves. *)
LEMMA Erased ==
    ASSUME NEW S, m_pollfds \in Seq(S), NEW i \in 1 .. Len(m_pollfds)
    PROVE  /\ Polls!EraseAt(i) \in Seq(S)
           /\ Len(Polls!EraseAt(i)) = Len(m_pollfds) - 1
           /\ \A k \in 1 .. Len(m_pollfds) - 1 :
                Polls!EraseAt(i)[k] = IF k < i THEN m_pollfds[k] ELSE m_pollfds[k + 1]
<1>. DEFINE n == Len(m_pollfds)
<1>1. n \in Nat \ {0} /\ n - 1 \in Nat /\ i \in 1 .. n
  OBVIOUS
<1>2. \A k \in 1 .. n - 1 : m_pollfds[k] \in S /\ m_pollfds[k + 1] \in S
  OBVIOUS
<1>3. Polls!EraseAt(i) \in [1 .. n - 1 -> S]
  BY <1>1, <1>2 DEF Polls!EraseAt
<1>. QED  BY <1>1, <1>3 DEF Polls!EraseAt

(* Counting up one entry of a table of counters. *)
LEMMA CountedUp ==
    ASSUME NEW S, NEW count \in [S -> Nat], NEW s \in S
    PROVE  [count EXCEPT ![s] = @ + 1] \in [S -> Nat]
  OBVIOUS

LEMMA InitInductive == Init => Inductive
<1>. SUFFICES ASSUME Init PROVE Inductive
  OBVIOUS
<1>. USE ChatServerAssumption DEF Init, Fds, ServerFd
<1>1. TypeOK
  BY DEF TypeOK, Owners, Parts
<1>2. SessionsMatchKernel
  BY DEF SessionsMatchKernel
<1>3. PolledAreOpen
  BY DEF PolledAreOpen
<1>4. Connections
  BY DEF Connections
<1>5. Entries
  BY DEF Entries
<1>6. FrameSync
  BY DEF FrameSync, Parts
<1>. QED  BY <1>1, <1>2, <1>3, <1>4, <1>5, <1>6 DEF Inductive

-----------------------------------------------------------------------------

LEMMA TypeNext == Inductive /\ [Next]_vars => TypeOK'
<1>. SUFFICES ASSUME Inductive, TypeOK, [Next]_vars PROVE TypeOK'
  BY DEF Inductive
<1>. USE ChatServerAssumption DEF TypeOK, kernel, stream, tables, server
<1>1. ASSUME NEW c \in Clients, Connect(c) PROVE TypeOK'
  BY <1>1 DEF Connect
<1>2. ASSUME NEW c \in Clients, Write(c) PROVE TypeOK'
  BY <1>2 DEF Write
<1>3. ASSUME NEW c \in Clients, Quit(c) \/ Reset(c) PROVE TypeOK'
  BY <1>3 DEF Quit, Reset
<1>4. CASE Poll
  <2>1. \A fd \in Fds : fdtab[fd] \in Owners /\ Revents[fd] \in {"none", "in", "hup"}
    BY DEF Revents
  <2>2. poll_result' \in Seq([fd : Fds, revents : {"none", "in", "hup"}, conn : Owners])
    BY <1>4, <2>1 DEF Poll
  <2>. QED  BY <1>4, <2>2 DEF Poll
<1>5. CASE Skip
  BY <1>5 DEF Skip, Scanning
<1>6. CASE ScanDone
  BY <1>6 DEF ScanDone
<1>7. CASE CloseClient
  <2>1. Current.fd \in Fds
    BY <1>7, CurrentEntry DEF CloseClient, Scanning
  <2>2. poll_result' \in Seq([fd : Fds, revents : {"none", "in", "hup"}, conn : Owners])
    BY <1>7 DEF CloseClient, Scanning
  <2>3. CASE m_sessions[Current.fd] = Free
    BY <1>7, <2>2, <2>3 DEF CloseClient
  <2>4. CASE m_sessions[Current.fd] # Free
    <3>1. m_pollfds' \in Seq(Fds)
      BY <1>7, <2>4, Erased DEF CloseClient, Polls!unregister_socket
    <3>2. /\ fdtab' \in [Fds -> Owners] /\ m_sessions' \in [Fds -> Owners]
          /\ UNCHANGED backlog
          /\ pc' \in {"poll", "scan", "read", "exited"} /\ UNCHANGED stage
      BY <1>7, <2>4 DEF CloseClient, unregister_session, CloseFd, Owners
    <3>3. /\ peer' \in [Clients -> {"none", "up", "fin", "reset"}]
          /\ wrote' \in [Clients -> 0 .. MaxParts]
          /\ got' \in [Clients -> 0 .. MaxParts]
          /\ handled' \in [Clients -> Nat]
      <4>. DEFINE c == fdtab[Current.fd]
      <4>1. /\ peer' = [peer EXCEPT ![c] = "none"] /\ wrote' = [wrote EXCEPT ![c] = 0]
            /\ got' = [got EXCEPT ![c] = 0] /\ handled' = [handled EXCEPT ![c] = 0]
        BY <1>7, <2>4 DEF CloseClient, unregister_session, CloseFd
      <4>. HIDE DEF c
      <4>2. 0 \in 0 .. MaxParts /\ 0 \in Nat
        OBVIOUS
      <4>3. peer' \in [Clients -> {"none", "up", "fin", "reset"}]
        BY <4>1
      <4>4. wrote' \in [Clients -> 0 .. MaxParts]
        BY <4>1, <4>2
      <4>5. got' \in [Clients -> 0 .. MaxParts]
        BY <4>1, <4>2
      <4>6. handled' \in [Clients -> Nat]
        BY <4>1, <4>2
      <4>. QED  BY <4>3, <4>4, <4>5, <4>6
    <3>. QED  BY <2>2, <3>1, <3>2, <3>3
  <2>. QED  BY <2>3, <2>4
<1>8. CASE AcceptClient
  <2>1. Head(backlog) \in Owners /\ Tail(backlog) \in Seq(Clients)
    BY <1>8 DEF AcceptClient, Owners
  <2>2. Tail(poll_result) \in Seq([fd : Fds, revents : {"none", "in", "hup"}, conn : Owners])
    BY <1>8 DEF AcceptClient, Scanning
  <2>3. CASE FreeFds = {} /\ pc' = "exited" /\ UNCHANGED <<fdtab, backlog, tables, poll_result>>
    BY <1>8, <2>3 DEF AcceptClient
  <2>4. ASSUME NEW fd \in Fds,
               fdtab' = [fdtab EXCEPT ![fd] = Head(backlog)],
               register_socket(fd, Head(backlog)),
               backlog' = Tail(backlog), poll_result' = Tail(poll_result), UNCHANGED pc
        PROVE  TypeOK'
    <3>1. m_pollfds' \in Seq(Fds)
      BY <2>4 DEF register_socket, Polls!register_socket
    <3>2. fdtab' \in [Fds -> Owners] /\ m_sessions' \in [Fds -> Owners]
      BY <2>1, <2>4 DEF register_socket, register_session
    <3>. QED  BY <1>8, <2>1, <2>2, <2>4, <3>1, <3>2 DEF AcceptClient
  <2>. QED  BY <1>8, <2>3, <2>4 DEF AcceptClient
<1>9. CASE StartRead
  BY <1>9 DEF StartRead, Parts
<1>10. CASE ReadPart
  <2>1. Client \in Clients /\ poll_result # <<>> /\ m_sessions[Current.fd] = Client
    BY <1>10, ReadsFromClient DEF ReadPart
  <2>2. got' \in [Clients -> 0 .. MaxParts]
    BY <1>10, <2>1 DEF ReadPart
  <2>3. handled' \in [Clients -> Nat]
    <3>. DEFINE c == Client
    <3>1. handled' = handled \/ handled' = [handled EXCEPT ![c] = @ + 1]
      BY <1>10, <2>1 DEF ReadPart, HandlePacket
    <3>2. c \in Clients
      BY <2>1
    <3>3. handled \in [Clients -> Nat]
      OBVIOUS
    <3>. HIDE DEF c, TypeOK
    <3>. QED  BY <3>1, <3>2, <3>3, CountedUp
  <2>4. stage' \in 0 .. Parts - 1
    BY <1>10 DEF ReadPart, Parts
  <2>5. poll_result' \in Seq([fd : Fds, revents : {"none", "in", "hup"}, conn : Owners])
    BY <1>10, <2>1, CurrentEntry DEF ReadPart, Entry
  <2>6. pc' \in {"poll", "scan", "read", "exited"}
    BY <1>10 DEF ReadPart
  <2>. QED  BY <1>10, <2>2, <2>3, <2>4, <2>5, <2>6 DEF ReadPart
<1>11. CASE ReadEnd
  <2>1. poll_result # <<>>
    BY <1>11, ReadsFromClient DEF ReadEnd
  <2>. QED  BY <1>11, <2>1 DEF ReadEnd
<1>12. CASE UNCHANGED vars
  BY <1>12 DEF vars
<1>. QED  BY <1>1, <1>2, <1>3, <1>4, <1>5, <1>6, <1>7, <1>8, <1>9, <1>10, <1>11, <1>12
          DEF Next, Exited

-----------------------------------------------------------------------------
(* What the two actions that change descriptors do, in a state that satisfies
   the invariant. *)

(* A hang-up always meets a client's session: the branch that finds none is
   never taken. *)
LEMMA ClosesClient ==
    ASSUME Inductive, CloseClient
    PROVE  /\ poll_result # <<>> /\ Current.fd \in Fds /\ Client \in Clients
           /\ peer[Client] = "reset" /\ pc = "scan"
           /\ unregister_session(Current.fd) /\ Polls!unregister_socket(Current.fd)
           /\ poll_result' = Tail(poll_result)
           /\ UNCHANGED <<backlog, pc, stage>>
<1>1. /\ poll_result # <<>> /\ Current.revents = "hup" /\ pc = "scan"
      /\ poll_result' = Tail(poll_result) /\ UNCHANGED <<backlog, pc, stage>>
  BY DEF CloseClient, Scanning
<1>2. Current = poll_result[1] /\ Current.fd \in Fds /\ 1 \in 1 .. Len(poll_result)
  BY <1>1, CurrentEntry DEF Inductive
<1>3. Revents[Current.fd] = "hup" /\ fdtab[Current.fd] # Free
  BY <1>1, <1>2 DEF Inductive, Entries
<1>4. Client \in Clients /\ peer[Client] = "reset"
  BY <1>2, <1>3 DEF Revents, Client
<1>5. m_sessions[Current.fd] # Free
  BY <1>3 DEF Inductive, SessionsMatchKernel
<1>. QED  BY <1>1, <1>2, <1>4, <1>5 DEF CloseClient

(* The descriptor accept returns is not polled yet and has no session. *)
LEMMA AcceptsClient ==
    ASSUME Inductive, AcceptClient, pc' # "exited"
    PROVE  /\ backlog # <<>> /\ Head(backlog) \in Clients
           /\ poll_result # <<>> /\ pc = "scan" /\ UNCHANGED <<peer, stream, stage, pc>>
           /\ backlog' = Tail(backlog) /\ poll_result' = Tail(poll_result)
           /\ \E fd \in Fds :
                /\ fdtab[fd] = Free
                /\ fdtab' = [fdtab EXCEPT ![fd] = Head(backlog)]
                /\ m_sessions' = fdtab'
                /\ m_pollfds' = Append(m_pollfds, fd)
<1>1. /\ backlog # <<>> /\ poll_result # <<>> /\ pc = "scan"
      /\ UNCHANGED <<peer, stream, stage>>
  BY DEF AcceptClient, Scanning
<1>2. Head(backlog) \in Clients
  BY <1>1 DEF Inductive, TypeOK
<1>3. PICK fd \in Fds : /\ LowestFree(fd)
                        /\ fdtab' = [fdtab EXCEPT ![fd] = Head(backlog)]
                        /\ register_socket(fd, Head(backlog))
                        /\ backlog' = Tail(backlog) /\ poll_result' = Tail(poll_result)
                        /\ UNCHANGED pc
  BY DEF AcceptClient
<1>4. fdtab[fd] = Free /\ m_sessions = fdtab /\ m_sessions \in [Fds -> Owners]
  BY <1>3 DEF LowestFree, FreeFds, Inductive, SessionsMatchKernel, TypeOK
<1>5. m_sessions' = fdtab'
  BY <1>3, <1>4 DEF register_socket, register_session
<1>6. ~Polls!Registered(fd)
  BY <1>4 DEF Inductive, PolledAreOpen, Polls!Registered
<1>7. m_pollfds' = Append(m_pollfds, fd)
  BY <1>3, <1>6 DEF register_socket, Polls!register_socket
<1>. QED  BY <1>1, <1>2, <1>3, <1>4, <1>5, <1>7

(* accept fails when no descriptor is left, and the server's tables stay. *)
LEMMA AcceptExits ==
    ASSUME Inductive, AcceptClient, pc' = "exited"
    PROVE  /\ pc = "scan"
           /\ UNCHANGED <<fdtab, backlog, tables, poll_result, peer, stream, stage>>
BY DEF AcceptClient, Scanning

(* Descriptors change only when one is closed or accepted. *)
LEMMA OtherStep ==
    ASSUME [Next]_vars, ~CloseClient, ~AcceptClient
    PROVE  UNCHANGED <<fdtab, tables>>
<1>. USE DEF kernel, tables, stream, server
<1>1. ASSUME NEW c \in Clients, Connect(c) \/ Write(c) \/ Quit(c) \/ Reset(c)
      PROVE  UNCHANGED <<fdtab, tables>>
  BY <1>1 DEF Connect, Write, Quit, Reset
<1>2. CASE Poll \/ Skip \/ ScanDone \/ StartRead
  BY <1>2 DEF Poll, Skip, ScanDone, StartRead
<1>3. CASE ReadPart \/ ReadEnd
  BY <1>3 DEF ReadPart, ReadEnd
<1>4. CASE UNCHANGED vars
  BY <1>4 DEF vars
<1>. QED  BY <1>1, <1>2, <1>3, <1>4 DEF Next, Exited

LEMMA SessionsNext == Inductive /\ [Next]_vars => SessionsMatchKernel'
<1>. SUFFICES ASSUME Inductive, [Next]_vars PROVE SessionsMatchKernel'
  OBVIOUS
<1>. USE DEF SessionsMatchKernel
<1>1. CASE CloseClient
  BY <1>1, ClosesClient DEF unregister_session, CloseFd, Inductive
<1>2. CASE AcceptClient
  BY <1>2, AcceptsClient, AcceptExits DEF tables, Inductive
<1>3. CASE ~CloseClient /\ ~AcceptClient
  BY <1>3, OtherStep DEF tables, Inductive
<1>. QED  BY <1>1, <1>2, <1>3

LEMMA PolledNext == Inductive /\ [Next]_vars => PolledAreOpen'
<1>. SUFFICES ASSUME Inductive, [Next]_vars PROVE PolledAreOpen'
  OBVIOUS
<1>. DEFINE n == Len(m_pollfds)
<1>1. /\ m_pollfds \in Seq(Fds) /\ n \in Nat /\ fdtab \in [Fds -> Owners]
      /\ \A i \in 1 .. n : m_pollfds[i] \in Fds /\ fdtab[m_pollfds[i]] # Free
      /\ \A fd \in Fds : fdtab[fd] # Free => \E i \in 1 .. n : m_pollfds[i] = fd
      /\ \A i, k \in 1 .. n : m_pollfds[i] = m_pollfds[k] => i = k
  BY DEF Inductive, TypeOK, PolledAreOpen
<1>2. CASE CloseClient
  <2>. DEFINE fd == Current.fd
  <2>1. fd \in Fds /\ fdtab[fd] \in Clients /\ fdtab' = [fdtab EXCEPT ![fd] = Free]
    BY <1>2, ClosesClient DEF Client, unregister_session, CloseFd
  <2>2. Polls!unregister_socket(fd)
    BY <1>2, ClosesClient
  <2>. HIDE DEF fd
  <2>3. Polls!Registered(fd)
    BY <1>1, <2>1, ChatServerAssumption DEF Polls!Registered
  <2>4. PICK i \in 1 .. n : m_pollfds[i] = fd /\ m_pollfds' = Polls!EraseAt(i)
    BY <2>2, <2>3 DEF Polls!unregister_socket
  <2>5. /\ Len(m_pollfds') = n - 1
        /\ \A k \in 1 .. n - 1 :
              m_pollfds'[k] = IF k < i THEN m_pollfds[k] ELSE m_pollfds[k + 1]
    BY <1>1, <2>4, Erased
  <2>6. \A k \in 1 .. n - 1 :
            m_pollfds'[k] \in Fds /\ m_pollfds'[k] # fd /\ fdtab'[m_pollfds'[k]] # Free
    BY <1>1, <2>1, <2>4, <2>5
  <2>7. ASSUME NEW g \in Fds, fdtab'[g] # Free
        PROVE  \E k \in 1 .. n - 1 : m_pollfds'[k] = g
    <3>1. g # fd /\ fdtab[g] # Free
      BY <1>1, <2>1, <2>7
    <3>2. PICK j \in 1 .. n : m_pollfds[j] = g
      BY <1>1, <3>1
    <3>3. j # i
      BY <3>1, <3>2, <2>4
    <3>4. CASE j < i
      BY <1>1, <2>5, <3>2, <3>4
    <3>5. CASE j > i
      <4>1. j - 1 \in 1 .. n - 1 /\ ~(j - 1 < i) /\ (j - 1) + 1 = j
        BY <1>1, <3>5
      <4>. QED  BY <2>5, <3>2, <4>1
    <3>. QED  BY <3>3, <3>4, <3>5
  <2>8. \A k, l \in 1 .. n - 1 : m_pollfds'[k] = m_pollfds'[l] => k = l
    BY <1>1, <2>5
  <2>. HIDE DEF n
  <2>. QED  BY <2>5, <2>6, <2>7, <2>8 DEF PolledAreOpen
<1>3. CASE AcceptClient /\ pc' # "exited"
  <2>1. PICK fd \in Fds : /\ fdtab[fd] = Free
                          /\ fdtab' = [fdtab EXCEPT ![fd] = Head(backlog)]
                          /\ m_pollfds' = Append(m_pollfds, fd)
    BY <1>3, AcceptsClient
  <2>2. Head(backlog) # Free
    BY <1>3, AcceptsClient, ChatServerAssumption
  <2>3. /\ Len(m_pollfds') = n + 1 /\ m_pollfds'[n + 1] = fd
        /\ \A i \in 1 .. n : m_pollfds'[i] = m_pollfds[i]
    BY <1>1, <2>1
  <2>4. /\ \A i \in 1 .. n + 1 : m_pollfds'[i] \in Fds /\ fdtab'[m_pollfds'[i]] # Free
        /\ \A g \in Fds : fdtab'[g] # Free => \E i \in 1 .. n + 1 : m_pollfds'[i] = g
        /\ \A i, k \in 1 .. n + 1 : m_pollfds'[i] = m_pollfds'[k] => i = k
    BY <1>1, <2>1, <2>2, <2>3
  <2>. HIDE DEF n
  <2>. QED  BY <2>3, <2>4 DEF PolledAreOpen
<1>4. CASE (AcceptClient /\ pc' = "exited") \/ (~CloseClient /\ ~AcceptClient)
  BY <1>4, AcceptExits, OtherStep DEF tables, Inductive, PolledAreOpen
<1>. QED  BY <1>2, <1>3, <1>4

LEMMA ConnectionsNext == Inductive /\ [Next]_vars => Connections'
<1>. SUFFICES ASSUME Inductive, [Next]_vars PROVE Connections'
  OBVIOUS
<1>. DEFINE n == Len(backlog)
<1>1. /\ fdtab \in [Fds -> Owners] /\ peer \in [Clients -> {"none", "up", "fin", "reset"}]
      /\ backlog \in Seq(Clients) /\ n \in Nat
      /\ \A i \in 1 .. n : backlog[i] \in Clients
  BY DEF Inductive, TypeOK
<1>2. /\ \A f, g \in Fds : fdtab[f] = fdtab[g] /\ fdtab[f] \in Clients => f = g
      /\ \A i, k \in 1 .. n : backlog[i] = backlog[k] => i = k
      /\ \A i \in 1 .. n, f \in Fds : backlog[i] # fdtab[f]
      /\ \A i \in 1 .. n : peer[backlog[i]] # "none"
      /\ \A f \in Fds : fdtab[f] \in Clients => peer[fdtab[f]] # "none"
      /\ \A f \in Fds : fdtab[f] = Listener <=> f = ServerFd
  BY DEF Inductive, Connections
<1>3. ASSUME NEW c \in Clients, Connect(c) PROVE Connections'
  <2>1. /\ peer[c] = "none" /\ peer' = [peer EXCEPT ![c] = "up"]
        /\ backlog' = Append(backlog, c) /\ fdtab' = fdtab
    BY <1>3 DEF Connect
  <2>2. /\ Len(backlog') = n + 1 /\ backlog'[n + 1] = c
        /\ \A i \in 1 .. n : backlog'[i] = backlog[i] /\ backlog'[i] # c
    BY <1>1, <1>2, <2>1
  <2>3. \A f \in Fds : fdtab[f] # c
    BY <1>2, <2>1
  <2>4. \A i \in 1 .. n + 1 : i \in 1 .. n \/ i = n + 1
    BY <1>1
  <2>5. /\ \A i, k \in 1 .. n + 1 : backlog'[i] = backlog'[k] => i = k
        /\ \A i \in 1 .. n + 1, f \in Fds : backlog'[i] # fdtab'[f]
        /\ \A i \in 1 .. n + 1 : peer'[backlog'[i]] # "none"
    BY <1>1, <1>2, <2>1, <2>2, <2>3, <2>4
  <2>6. \A f \in Fds : fdtab'[f] \in Clients => peer'[fdtab'[f]] # "none"
    BY <1>1, <1>2, <2>1, <2>3
  <2>. HIDE DEF n
  <2>. QED  BY <1>2, <2>1, <2>2, <2>5, <2>6 DEF Connections
<1>4. ASSUME NEW c \in Clients, Quit(c) \/ Reset(c) PROVE Connections'
  <2>1. UNCHANGED <<fdtab, backlog>> /\ peer[c] = "up"
    BY <1>4 DEF Quit, Reset
  <2>2. \A d \in Clients : peer[d] # "none" => peer'[d] # "none"
    BY <1>1, <1>4 DEF Quit, Reset
  <2>. QED  BY <1>1, <1>2, <2>1, <2>2 DEF Connections
<1>5. CASE CloseClient
  <2>. DEFINE fd == Current.fd
  <2>1. /\ fd \in Fds /\ fdtab[fd] \in Clients /\ fdtab' = [fdtab EXCEPT ![fd] = Free]
        /\ peer' = [peer EXCEPT ![fdtab[fd]] = "none"] /\ backlog' = backlog
    BY <1>5, ClosesClient DEF Client, unregister_session, CloseFd
  <2>2. Free \notin Clients /\ Free # Listener
    BY ChatServerAssumption
  <2>3. fdtab[fd] # Listener /\ fd # ServerFd
    BY <1>2, <2>1, ChatServerAssumption
  <2>. HIDE DEF fd
  <2>4. \A f, g \in Fds : fdtab'[f] = fdtab'[g] /\ fdtab'[f] \in Clients => f = g
    BY <1>1, <1>2, <2>1, <2>2
  <2>5. \A i \in 1 .. n, f \in Fds : backlog'[i] # fdtab'[f]
    BY <1>1, <1>2, <2>1, <2>2
  <2>6. \A i \in 1 .. n : peer'[backlog'[i]] # "none"
    BY <1>1, <1>2, <2>1
  <2>7. \A f \in Fds : fdtab'[f] \in Clients => peer'[fdtab'[f]] # "none"
    <3>1. SUFFICES ASSUME NEW f \in Fds, fdtab'[f] \in Clients
                   PROVE  peer'[fdtab'[f]] # "none"
      OBVIOUS
    <3>2. f # fd /\ fdtab'[f] = fdtab[f]
      BY <1>1, <2>1, <2>2, <3>1
    <3>3. fdtab[f] # fdtab[fd]
      BY <1>2, <2>1, <3>1, <3>2
    <3>. QED  BY <1>1, <1>2, <2>1, <3>1, <3>2, <3>3
  <2>8. \A f \in Fds : fdtab'[f] = Listener <=> f = ServerFd
    BY <1>1, <1>2, <2>1, <2>2, <2>3
  <2>. QED  BY <1>2, <2>1, <2>4, <2>5, <2>6, <2>7, <2>8 DEF Connections
<1>6. CASE AcceptClient /\ pc' # "exited"
  <2>. DEFINE c == Head(backlog)
  <2>1. PICK fd \in Fds : fdtab[fd] = Free /\ fdtab' = [fdtab EXCEPT ![fd] = c]
    BY <1>6, AcceptsClient
  <2>2. /\ backlog # <<>> /\ c \in Clients /\ peer' = peer /\ backlog' = Tail(backlog)
    BY <1>6, AcceptsClient
  <2>3. c = backlog[1] /\ 1 \in 1 .. n /\ n - 1 \in Nat
    BY <1>1, <2>2
  <2>4. /\ Len(backlog') = n - 1
        /\ \A i \in 1 .. n - 1 :
              i + 1 \in 1 .. n /\ i + 1 # 1 /\ backlog'[i] = backlog[i + 1]
    BY <1>1, <2>2
  <2>5. /\ \A f \in Fds : fdtab[f] # c
        /\ \A i \in 1 .. n - 1 : backlog'[i] # c
    BY <1>2, <2>3, <2>4
  <2>6. peer[c] # "none" /\ c # Listener
    BY <1>2, <2>2, <2>3, ChatServerAssumption
  <2>7. \A f \in Fds : fdtab'[f] = IF f = fd THEN c ELSE fdtab[f]
    BY <1>1, <2>1
  <2>8. fd # ServerFd
    BY <1>2, <2>1, ChatServerAssumption
  <2>. HIDE DEF c, n
  <2>9. \A f, g \in Fds : fdtab'[f] = fdtab'[g] /\ fdtab'[f] \in Clients => f = g
    BY <1>2, <2>5, <2>7
  <2>10. /\ \A i, k \in 1 .. n - 1 : backlog'[i] = backlog'[k] => i = k
         /\ \A i \in 1 .. n - 1 : peer'[backlog'[i]] # "none"
    BY <1>1, <1>2, <2>2, <2>4
  <2>11. \A i \in 1 .. n - 1, f \in Fds : backlog'[i] # fdtab'[f]
    BY <1>2, <2>4, <2>5, <2>7
  <2>12. \A f \in Fds : fdtab'[f] \in Clients => peer'[fdtab'[f]] # "none"
    BY <1>2, <2>2, <2>6, <2>7
  <2>13. \A f \in Fds : fdtab'[f] = Listener <=> f = ServerFd
    BY <1>2, <2>6, <2>7, <2>8
  <2>. QED  BY <2>4, <2>9, <2>10, <2>11, <2>12, <2>13 DEF Connections
<1>7. ASSUME UNCHANGED <<fdtab, backlog, peer>> PROVE Connections'
  BY <1>2, <1>7 DEF Connections
<1>8. CASE AcceptClient /\ pc' = "exited"
  BY <1>7, <1>8, AcceptExits
<1>9. ASSUME NEW c \in Clients, Write(c) PROVE Connections'
  BY <1>7, <1>9 DEF Write, kernel
<1>10. CASE Poll \/ Skip \/ ScanDone \/ StartRead \/ ReadPart \/ ReadEnd \/ UNCHANGED vars
  BY <1>7, <1>10 DEF Poll, Skip, ScanDone, StartRead, ReadPart, ReadEnd, vars, kernel
<1>. QED  BY <1>3, <1>4, <1>5, <1>6, <1>8, <1>9, <1>10 DEF Next, Exited

-----------------------------------------------------------------------------
(* The copy of poll's answer *)

(* It stays true when nothing it says of an open descriptor is taken back. *)
LEMMA EntriesStay ==
    ASSUME Inductive, UNCHANGED <<poll_result, pc, stage, fdtab>>,
           \A fd \in Fds : /\ Revents[fd] # "none" => Revents'[fd] # "none"
                           /\ Revents[fd] = "hup" => Revents'[fd] = "hup"
    PROVE  Entries'
<1>1. poll_result \in Seq(Entry)
  BY DEF Inductive, TypeOK, Entry
<1>2. \A i \in 1 .. Len(poll_result) : poll_result[i].fd \in Fds
  BY <1>1, EntryFd
<1>. QED  BY <1>2 DEF Inductive, Entries, Current

(* It stays true when the loop moves on, if nothing is taken back of the
   descriptors other than the one the loop leaves. *)
LEMMA EntriesAdvance ==
    ASSUME Inductive, poll_result # <<>>,
           poll_result' = Tail(poll_result), pc' = "scan",
           \A fd \in Fds \ {Current.fd} : fdtab[fd] # Free =>
                /\ fdtab'[fd] = fdtab[fd]
                /\ Revents[fd] # "none" => Revents'[fd] # "none"
                /\ Revents[fd] = "hup" => Revents'[fd] = "hup"
    PROVE  Entries'
<1>. DEFINE n == Len(poll_result)
<1>1. /\ poll_result \in Seq(Entry) /\ n \in Nat /\ 1 \in 1 .. n
      /\ Current = poll_result[1] /\ Len(poll_result') = n - 1
      /\ \A i \in 1 .. n - 1 : i + 1 \in 1 .. n /\ poll_result'[i] = poll_result[i + 1]
  <2>1. poll_result \in Seq(Entry)
    BY DEF Inductive, TypeOK, Entry
  <2>. QED  BY <2>1, CurrentEntry DEF Inductive
<1>2. \A i \in 1 .. n : poll_result[i] \in Entry /\ poll_result[i].fd \in Fds
  BY <1>1, EntryFd
<1>3. \A i, k \in 1 .. n : poll_result[i].fd = poll_result[k].fd => i = k
  BY DEF Inductive, Entries
<1>4. ASSUME NEW i \in 1 .. n - 1
      PROVE  LET e == poll_result'[i]
             IN  /\ e.conn = fdtab'[e.fd] /\ fdtab'[e.fd] # Free
                 /\ e.revents = "hup" => Revents'[e.fd] = "hup"
                 /\ e.revents = "in" => Revents'[e.fd] # "none"
  <2>0. PICK e : e = poll_result[i + 1]
    OBVIOUS
  <2>1. i + 1 \in 1 .. n /\ i + 1 # 1 /\ poll_result'[i] = e
    BY <1>1, <2>0
  <2>2. e.fd \in Fds \ {Current.fd}
    BY <1>1, <1>2, <1>3, <2>0, <2>1
  <2>3. /\ e.conn = fdtab[e.fd] /\ fdtab[e.fd] # Free
        /\ e.revents = "hup" => Revents[e.fd] = "hup"
        /\ e.revents = "in" => Revents[e.fd] # "none"
    BY <2>0, <2>1 DEF Inductive, Entries
  <2>4. /\ fdtab'[e.fd] = fdtab[e.fd]
        /\ Revents[e.fd] # "none" => Revents'[e.fd] # "none"
        /\ Revents[e.fd] = "hup" => Revents'[e.fd] = "hup"
    BY <2>2, <2>3
  <2>. QED  BY <2>1, <2>3, <2>4
<1>5. \A i, k \in 1 .. n - 1 : poll_result'[i].fd = poll_result'[k].fd => i = k
  BY <1>1, <1>3
<1>. HIDE DEF n
<1>6. Len(poll_result') = n - 1
  BY <1>1
<1>. QED  BY <1>4, <1>5, <1>6 DEF Entries

LEMMA EntriesNext == Inductive /\ [Next]_vars => Entries'
<1>. SUFFICES ASSUME Inductive, [Next]_vars PROVE Entries'
  OBVIOUS
<1>. USE DEF kernel, stream, tables, server
<1>1. /\ fdtab \in [Fds -> Owners] /\ peer \in [Clients -> {"none", "up", "fin", "reset"}]
      /\ backlog \in Seq(Clients)
      /\ wrote \in [Clients -> 0 .. MaxParts] /\ got \in [Clients -> 0 .. MaxParts]
  BY DEF Inductive, TypeOK
<1>2. ASSUME NEW c \in Clients, Connect(c) PROVE Entries'
  <2>1. /\ \A fd \in Fds : fdtab[fd] # c
        /\ \A d \in Clients : d # c => peer'[d] = peer[d]
        /\ backlog' # <<>> /\ UNCHANGED <<poll_result, pc, stage, fdtab, wrote, got>>
    BY <1>1, <1>2 DEF Connect, Inductive, Connections
  <2>. QED  BY <2>1, EntriesStay DEF Revents, Readable, Ended
<1>3. ASSUME NEW c \in Clients, Write(c) PROVE Entries'
  <2>1. \A d \in Clients : got[d] < wrote[d] => got'[d] < wrote'[d]
    BY <1>1, <1>3, ChatServerAssumption DEF Write
  <2>. QED  BY <1>3, <2>1, EntriesStay DEF Write, Revents, Readable, Ended
<1>4. ASSUME NEW c \in Clients, Quit(c) \/ Reset(c) PROVE Entries'
  <2>1. /\ \A d \in Clients : peer[d] = "reset" => peer'[d] = "reset"
        /\ \A d \in Clients : peer[d] = "fin" => peer'[d] = "fin"
        /\ UNCHANGED <<poll_result, pc, stage, fdtab, wrote, got, backlog>>
    BY <1>1, <1>4 DEF Quit, Reset
  <2>. QED  BY <2>1, EntriesStay DEF Revents, Readable, Ended
<1>5. CASE Poll
  <2>. DEFINE n == Len(m_pollfds)
  <2>1. /\ pc' = "scan" /\ UNCHANGED <<fdtab, backlog, peer, wrote, got>>
        /\ poll_result' = [i \in 1 .. n |->
              [fd |-> m_pollfds[i], revents |-> Revents[m_pollfds[i]],
               conn |-> fdtab[m_pollfds[i]]]]
    BY <1>5 DEF Poll
  <2>2. /\ n \in Nat /\ \A i \in 1 .. n : fdtab[m_pollfds[i]] # Free
        /\ \A i, k \in 1 .. n : m_pollfds[i] = m_pollfds[k] => i = k
    BY DEF Inductive, TypeOK, PolledAreOpen
  <2>3. Revents' = Revents
    BY <2>1 DEF Revents, Readable, Ended
  <2>. HIDE DEF n
  <2>4. Len(poll_result') = n
    BY <2>1, <2>2
  <2>. QED  BY <2>1, <2>2, <2>3, <2>4 DEF Entries
<1>6. ASSUME UNCHANGED <<fdtab, backlog, peer, wrote, got>>
      PROVE  Revents' = Revents
  BY <1>6 DEF Revents, Readable, Ended
<1>7. CASE Skip
  BY <1>6, <1>7, EntriesAdvance DEF Skip, Scanning
<1>8. CASE ScanDone
  BY <1>8 DEF ScanDone, Entries
<1>9. CASE CloseClient
  <2>. DEFINE fd == Current.fd
              c == fdtab[fd]
  <2>1. /\ fd \in Fds /\ c \in Clients /\ poll_result # <<>> /\ pc' = "scan"
        /\ poll_result' = Tail(poll_result)
        /\ fdtab' = [fdtab EXCEPT ![fd] = Free] /\ backlog' = backlog
        /\ peer' = [peer EXCEPT ![c] = "none"]
        /\ wrote' = [wrote EXCEPT ![c] = 0] /\ got' = [got EXCEPT ![c] = 0]
    BY <1>9, ClosesClient DEF Client, unregister_session, CloseFd
  <2>2. ASSUME NEW g \in Fds \ {fd}, fdtab[g] # Free
        PROVE  fdtab'[g] = fdtab[g] /\ Revents'[g] = Revents[g]
    <3>1. fdtab'[g] = fdtab[g] /\ fdtab[g] # c
      BY <1>1, <2>1, <2>2 DEF Inductive, Connections
    <3>. HIDE DEF c, fd
    <3>2. \A d \in Clients : d # c =>
            peer'[d] = peer[d] /\ wrote'[d] = wrote[d] /\ got'[d] = got[d]
      BY <1>1, <2>1
    <3>. QED  BY <2>1, <3>1, <3>2 DEF Revents, Readable, Ended
  <2>. QED  BY <2>1, <2>2, EntriesAdvance
<1>10. CASE AcceptClient /\ pc' # "exited"
  <2>1. /\ poll_result # <<>> /\ pc' = "scan" /\ UNCHANGED <<peer, stream>>
        /\ poll_result' = Tail(poll_result)
    BY <1>10, AcceptsClient
  <2>2. PICK fd \in Fds : fdtab[fd] = Free /\ fdtab' = [fdtab EXCEPT ![fd] = Head(backlog)]
    BY <1>10, AcceptsClient
  <2>3. Current.fd = ServerFd
    BY <1>10 DEF AcceptClient
  <2>4. ASSUME NEW g \in Fds \ {Current.fd}, fdtab[g] # Free
        PROVE  fdtab'[g] = fdtab[g] /\ Revents'[g] = Revents[g]
    <3>1. fdtab'[g] = fdtab[g] /\ fdtab[g] # Listener
      BY <1>1, <2>2, <2>3, <2>4 DEF Inductive, Connections
    <3>. QED  BY <2>1, <3>1 DEF Revents, Readable, Ended
  <2>. QED  BY <2>1, <2>4, EntriesAdvance
<1>11. CASE AcceptClient /\ pc' = "exited"
  <2>1. Revents' = Revents
    BY <1>6, <1>11, AcceptExits
  <2>. QED  BY <1>11, <2>1, AcceptExits DEF Inductive, Entries
<1>12. CASE StartRead
  <2>1. Revents' = Revents
    BY <1>6, <1>12 DEF StartRead
  <2>2. /\ pc = "scan" /\ pc' = "read" /\ poll_result # <<>> /\ UNCHANGED <<poll_result, fdtab>>
        /\ Current.fd # ServerFd /\ Current.revents = "in"
    BY <1>12 DEF StartRead, Scanning
  <2>. QED  BY <2>1, <2>2 DEF Inductive, Entries, Current
<1>13. CASE ReadPart
  <2>1. /\ poll_result # <<>> /\ Current.fd \in Fds /\ Client \in Clients /\ pc = "read"
        /\ got' = [got EXCEPT ![Client] = @ + 1]
        /\ UNCHANGED <<fdtab, backlog, peer, wrote>>
    BY <1>13, ReadsFromClient DEF ReadPart
  <2>2. ASSUME NEW g \in Fds \ {Current.fd}
        PROVE  Revents'[g] = Revents[g]
    <3>1. fdtab[g] # Client
      BY <2>1, <2>2 DEF Inductive, Connections, Client
    <3>2. \A d \in Clients : d # Client => got'[d] = got[d]
      BY <1>1, <2>1
    <3>. QED  BY <2>1, <3>1, <3>2 DEF Revents, Readable, Ended
  <2>3. CASE stage + 1 < Parts
    <3>1. UNCHANGED <<poll_result, pc>> /\ stage' = stage + 1 /\ stage' > 0
      BY <1>13, <2>3 DEF ReadPart, Inductive, TypeOK
    <3>2. /\ 1 \in 1 .. Len(poll_result) /\ Current = poll_result[1] /\ Current.revents = "in"
          /\ \A i \in 1 .. Len(poll_result) : poll_result[i].fd \in Fds
      <4>1. poll_result \in Seq(Entry)
        BY DEF Inductive, TypeOK, Entry
      <4>. QED  BY <2>1, <4>1, CurrentEntry, EntryFd DEF Inductive, Entries
    <3>3. \A i \in 1 .. Len(poll_result) : i # 1 => poll_result[i].fd \in Fds \ {Current.fd}
      BY <3>2 DEF Inductive, Entries
    <3>. QED  BY <2>1, <2>2, <3>1, <3>2, <3>3 DEF Inductive, Entries, Current
  <2>4. CASE ~(stage + 1 < Parts)
    <3>1. pc' = "scan" /\ poll_result' = Tail(poll_result)
      BY <1>13, <2>4 DEF ReadPart
    <3>. QED  BY <2>1, <2>2, <3>1, EntriesAdvance
  <2>. QED  BY <2>3, <2>4
<1>14. CASE ReadEnd
  BY <1>6, <1>14, EntriesAdvance, ReadsFromClient DEF ReadEnd
<1>15. CASE UNCHANGED vars
  BY <1>6, <1>15 DEF vars, Inductive, Entries, Current
<1>. QED  BY <1>2, <1>3, <1>4, <1>5, <1>7, <1>8, <1>9, <1>10, <1>11, <1>12, <1>13, <1>14,
             <1>15 DEF Next, Exited

-----------------------------------------------------------------------------
(* Packets *)

(* What a stream has to satisfy while the server reads its part s, and while
   it does not read from it. *)
BetweenPackets(c) == got[c] % Parts = 0 \/ (Ended(c) /\ got[c] = wrote[c])
InsidePacket(c)   == got[c] % Parts = stage \/ (Ended(c) /\ got[c] = wrote[c])
HandledAll(c)     == handled[c] = got[c] \div Parts

LEMMA FrameSyncByStream ==
    FrameSync <=> \A c \in Clients :
        /\ IF pc = "read" /\ Client = c THEN InsidePacket(c) ELSE BetweenPackets(c)
        /\ HandledAll(c)
BY DEF FrameSync, BetweenPackets, InsidePacket, HandledAll

(* One part more. *)
LEMMA OnePartMore ==
    ASSUME NEW g \in Nat, NEW s \in 0 .. Parts - 1, g % Parts = s
    PROVE  /\ s + 1 < Parts => (g + 1) % Parts = s + 1 /\ (g + 1) \div Parts = g \div Parts
           /\ ~(s + 1 < Parts) => (g + 1) % Parts = 0 /\ (g + 1) \div Parts = (g \div Parts) + 1
BY DEF Parts

LEMMA FrameNext == Inductive /\ [Next]_vars => FrameSync'
<1>. SUFFICES ASSUME Inductive, [Next]_vars PROVE FrameSync'
  OBVIOUS
<1>. USE DEF kernel, stream, tables, server
<1>1. /\ fdtab \in [Fds -> Owners] /\ peer \in [Clients -> {"none", "up", "fin", "reset"}]
      /\ wrote \in [Clients -> 0 .. MaxParts] /\ got \in [Clients -> 0 .. MaxParts]
      /\ handled \in [Clients -> Nat] /\ stage \in 0 .. Parts - 1
  BY DEF Inductive, TypeOK
<1>2. \A c \in Clients :
        /\ IF pc = "read" /\ Client = c THEN InsidePacket(c) ELSE BetweenPackets(c)
        /\ HandledAll(c)
  BY FrameSyncByStream DEF Inductive
<1>3. ASSUME \A c \in Clients :
                /\ IF pc' = "read" /\ Client' = c THEN InsidePacket(c)' ELSE BetweenPackets(c)'
                /\ HandledAll(c)'
      PROVE  FrameSync'
  BY <1>3 DEF FrameSync, BetweenPackets, InsidePacket, HandledAll
<1>. USE DEF BetweenPackets, InsidePacket, HandledAll, Ended
<1>4. ASSUME UNCHANGED <<pc, fdtab, poll_result, stage, got, handled>>,
             \A c \in Clients : Ended(c) => Ended(c)' /\ wrote'[c] = wrote[c]
      PROVE  FrameSync'
  <2>1. Client' = Client
    BY <1>4 DEF Client, Current
  <2>. QED  BY <1>2, <1>3, <1>4, <2>1
<1>5. ASSUME NEW c \in Clients, Connect(c) \/ Write(c) \/ Quit(c) \/ Reset(c)
      PROVE  FrameSync'
  <2>1. UNCHANGED <<pc, fdtab, poll_result, stage, got, handled>>
    BY <1>5 DEF Connect, Write, Quit, Reset
  <2>2. \A d \in Clients : Ended(d) => Ended(d)' /\ wrote'[d] = wrote[d]
    BY <1>1, <1>5 DEF Connect, Write, Quit, Reset
  <2>. QED  BY <1>4, <2>1, <2>2
<1>6. ASSUME pc # "read", pc' # "read", UNCHANGED <<peer, wrote, got, handled>>
      PROVE  FrameSync'
  BY <1>2, <1>3, <1>6
<1>7. CASE Poll \/ Skip \/ ScanDone \/ AcceptClient
  BY <1>6, <1>7 DEF Poll, Skip, ScanDone, AcceptClient, Scanning
<1>8. CASE CloseClient
  <2>1. /\ Client \in Clients /\ pc # "read" /\ pc' # "read"
        /\ peer' = [peer EXCEPT ![Client] = "none"]
        /\ wrote' = [wrote EXCEPT ![Client] = 0] /\ got' = [got EXCEPT ![Client] = 0]
        /\ handled' = [handled EXCEPT ![Client] = 0]
    BY <1>8, ClosesClient DEF Client, unregister_session, CloseFd
  <2>2. 0 % Parts = 0 /\ 0 \div Parts = 0
    BY DEF Parts
  <2>3. ASSUME NEW c \in Clients PROVE BetweenPackets(c)' /\ HandledAll(c)'
    <3>1. CASE c = Client
      BY <1>1, <2>1, <2>2, <3>1
    <3>2. CASE c # Client
      BY <1>1, <1>2, <2>1, <3>2
    <3>. QED  BY <3>1, <3>2
  <2>. QED  BY <1>3, <2>1, <2>3
<1>9. CASE StartRead
  <2>1. /\ pc # "read" /\ stage' = 0 /\ UNCHANGED <<peer, wrote, got, handled>>
    BY <1>9 DEF StartRead, Scanning
  <2>. QED  BY <1>2, <1>3, <2>1
<1>10. CASE ReadPart
  <2>1. /\ pc = "read" /\ poll_result # <<>> /\ Client \in Clients
        /\ m_sessions[Current.fd] = Client /\ Client # Free
        /\ got[Client] < wrote[Client] /\ got' = [got EXCEPT ![Client] = @ + 1]
        /\ UNCHANGED <<fdtab, peer, wrote>>
    BY <1>10, ReadsFromClient, ChatServerAssumption DEF ReadPart
  <2>2. PICK c \in Clients : c = Client
    BY <2>1
  <2>3. /\ got[c] \in Nat /\ got[c] % Parts = stage /\ handled[c] = got[c] \div Parts
        /\ got'[c] = got[c] + 1
        /\ \A d \in Clients : d # c => got'[d] = got[d]
    BY <1>1, <1>2, <2>1, <2>2
  <2>4. CASE stage + 1 < Parts
    <3>1. UNCHANGED <<pc, poll_result, handled>> /\ stage' = stage + 1
      BY <1>10, <2>4 DEF ReadPart
    <3>2. Client' = Client
      BY <2>1, <3>1 DEF Client, Current
    <3>3. got'[c] % Parts = stage' /\ handled'[c] = got'[c] \div Parts
      BY <1>1, <2>3, <2>4, <3>1, OnePartMore
    <3>. QED  BY <1>2, <1>3, <2>1, <2>2, <2>3, <3>1, <3>2, <3>3
  <2>5. CASE ~(stage + 1 < Parts)
    <3>1. pc' = "scan" /\ handled' = [handled EXCEPT ![c] = @ + 1]
      BY <1>10, <2>1, <2>2, <2>5 DEF ReadPart, HandlePacket
    <3>2. /\ handled'[c] = handled[c] + 1
          /\ \A d \in Clients : d # c => handled'[d] = handled[d]
      BY <1>1, <3>1
    <3>3. got'[c] % Parts = 0 /\ handled'[c] = got'[c] \div Parts
      BY <1>1, <2>3, <2>5, <3>2, OnePartMore
    <3>. QED  BY <1>2, <1>3, <2>1, <2>2, <2>3, <3>1, <3>2, <3>3
  <2>. QED  BY <2>4, <2>5
<1>11. CASE ReadEnd
  <2>1. /\ pc' = "scan" /\ Ended(Client) /\ got[Client] = wrote[Client]
        /\ UNCHANGED <<peer, wrote, got, handled>>
    BY <1>11 DEF ReadEnd
  <2>. QED  BY <1>2, <1>3, <2>1
<1>12. CASE UNCHANGED vars
  BY <1>4, <1>12 DEF vars
<1>. QED  BY <1>5, <1>7, <1>8, <1>9, <1>10, <1>11, <1>12 DEF Next, Exited

-----------------------------------------------------------------------------

(* Every state the server reaches satisfies the inductive invariant. *)
THEOREM InductiveAlways == Spec => []Inductive
<1>1. Inductive /\ [Next]_vars => Inductive'
  BY TypeNext, SessionsNext, PolledNext, ConnectionsNext, EntriesNext, FrameNext
     DEF Inductive
<1>. QED  BY InitInductive, <1>1, PTL DEF Spec

(* Every variable keeps its type: in particular the counters of what was read
   stay within what was written. *)
THEOREM TypeCorrect == Spec => []TypeOK
<1>1. Inductive => TypeOK
  BY DEF Inductive
<1>. QED  BY InductiveAlways, <1>1, PTL

(* However descriptors are closed and reused, the sessions of the session
   manager are those of the connections that are open. *)
THEOREM SessionsMatchKernelAlways == Spec => []SessionsMatchKernel
<1>1. Inductive => SessionsMatchKernel
  BY DEF Inductive
<1>. QED  BY InductiveAlways, <1>1, PTL

(* poll watches the open descriptors, each once. *)
THEOREM PolledAreOpenAlways == Spec => []PolledAreOpen
<1>1. Inductive => PolledAreOpen
  BY DEF Inductive
<1>. QED  BY InductiveAlways, <1>1, PTL

(* The loop over the copy of poll's answer never acts on an answer that is no
   longer true, though it closes descriptors and accepts connections on the
   way. *)
THEOREM PollResultCurrentAlways == Spec => []PollResultCurrent
<1>1. Inductive => PollResultCurrent
  <2>. SUFFICES ASSUME Inductive PROVE PollResultCurrent
    OBVIOUS
  <2>1. poll_result \in Seq(Entry)
    BY DEF Inductive, TypeOK, Entry
  <2>2. \A e \in Entry : e.revents \in {"none", "in", "hup"}
    BY DEF Entry
  <2>3. \A i \in 1 .. Len(poll_result) : poll_result[i].revents \in {"none", "in", "hup"}
    BY <2>1, <2>2
  <2>. QED  BY <2>3 DEF Inductive, Entries, PollResultCurrent
<1>. QED  BY InductiveAlways, <1>1, PTL

(* The server reads every stream packet by packet and handles every packet
   once, however many packets the clients write. *)
THEOREM FrameSyncAlways == Spec => []FrameSync
<1>1. Inductive => FrameSync
  BY DEF Inductive
<1>. QED  BY InductiveAlways, <1>1, PTL
=============================================================================
