------------------------- MODULE ThreadedChatProofs -------------------------
(***************************************************************************)
(* Proofs about ThreadedChat for any clients, not more than the table has  *)
(* places, and any number of pieces: the table has one entry for each      *)
(* thread at work or never created, also where two share a descriptor, and *)
(* the clients get the pieces in one order.                                *)
(***************************************************************************)
EXTENDS ThreadedChat, FiniteSetTheorems, TLAPS

(* Taking an entry out of the table leaves a table with one entry less. *)
LEMMA EntryRemoved ==
    ASSUME NEW S, clnt_socks \in Seq(S), NEW k \in 1 .. Len(clnt_socks)
    PROVE  Without(k) \in Seq(S) /\ Len(Without(k)) = Len(clnt_socks) - 1
<1>. DEFINE n == Len(clnt_socks)
<1>1. n \in Nat \ {0} /\ n - 1 \in Nat
  OBVIOUS
<1>2. \A j \in 1 .. n - 1 : clnt_socks[j] \in S /\ clnt_socks[j + 1] \in S
  OBVIOUS
<1>3. Without(k) \in [1 .. n - 1 -> S]
  BY <1>1, <1>2 DEF Without
<1>. QED  BY <1>1, <1>3 DEF Without

(* The first of a sequence of pieces, and the others. *)
LEMMA HeadAndTail ==
    ASSUME NEW S, NEW s \in Seq(S), s # <<>>
    PROVE  Head(s) \in S /\ Tail(s) \in Seq(S)
OBVIOUS

(* A table in which one entry was replaced. *)
LEMMA Replaced ==
    ASSUME NEW D, NEW S, NEW f \in [D -> S], NEW d, NEW s, d \in D => s \in S
    PROVE  [f EXCEPT ![d] = s] \in [D -> S]
OBVIOUS

LEMMA InitInductive == Init => Inductive
<1>. SUFFICES ASSUME Init PROVE Inductive
  OBVIOUS
<1>. USE ThreadedChatAssumption DEF Init
<1>1. TypeOK
  <2>1. [fd \in Fds |-> Nobody] \in [Fds -> Clients \cup {Nobody}]
    OBVIOUS
  <2>2. unread \in [Clients -> Seq(1 .. MaxPieces)] /\ got \in [Clients -> Seq(1 .. MaxPieces)]
    OBVIOUS
  <2>. QED  BY <2>1, <2>2 DEF TypeOK, Ends, Places
<1>2. AtWork
  BY DEF AtWork
<1>3. OneEntryPerThread
  <2>1. Entered = {}
    BY DEF Entered
  <2>. QED  BY <2>1, FS_EmptySet DEF OneEntryPerThread
<1>4. OnePlace /\ LastSent /\ BroadcastOrder
  <2>1. \A c \in Clients : unread[c] = <<>> /\ got[c] = <<>> /\ tpc[c] = "none"
    OBVIOUS
  <2>2. Once(<<>>) /\ \A x, y : ~Has(<<>>, x) /\ ~Before(<<>>, x, y)
    BY DEF Once, Has, Before
  <2>. QED  BY <2>1, <2>2 DEF OnePlace, LastSent, BroadcastOrder, Broadcasts
<1>. QED  BY <1>1, <1>2, <1>3, <1>4 DEF Inductive

-----------------------------------------------------------------------------

LEMMA TypeNext == Inductive /\ [Next]_vars => TypeOK'
<1>. SUFFICES ASSUME Inductive, [Next]_vars PROVE TypeOK'
  OBVIOUS
<1>a. MaxPieces \in Nat /\ Nobody \notin Clients
  BY ThreadedChatAssumption
<1>. USE <1>a DEF Goes, net, client, mainv, thread, Places
<1>0. TypeOK /\ AtWork
  BY DEF Inductive
<1>1. ASSUME NEW c \in Clients, Write(c) PROVE TypeOK'
  <2>1. sent' \in 0 .. MaxPieces /\ sent' \in 1 .. MaxPieces
    BY <1>0, <1>1 DEF Write, TypeOK
  <2>2. Append(unread[c], sent') \in Seq(1 .. MaxPieces)
    BY <1>0, <2>1 DEF TypeOK
  <2>3. unread' \in [Clients -> Seq(1 .. MaxPieces)]
    BY <1>0, <1>1, <2>2 DEF Write, TypeOK
  <2>. QED  BY <1>0, <1>1, <2>1, <2>3 DEF Write, TypeOK
<1>2. ASSUME NEW c \in Clients, Quit(c) PROVE TypeOK'
  BY <1>0, <1>2 DEF Quit, TypeOK, Ends
<1>3. CASE Accept
  BY <1>0, <1>3 DEF Accept, TypeOK
<1>4. CASE Register
  <2>1. Append(clnt_socks, clnt_sock) \in Seq(Fds)
    BY <1>0, <1>4 DEF Register, TypeOK, AtWork
  <2>. QED  BY <1>0, <1>4, <2>1 DEF Register, TypeOK
<1>5. ASSUME NEW t \in Clients, Start(t) PROVE TypeOK'
  BY <1>0, <1>5 DEF Start, TypeOK
<1>6. ASSUME NEW t \in Clients, ReadCall(t) PROVE TypeOK'
  <2>1. fdtab[sock[t]] \in Clients \cup {Nobody}
    BY <1>0, <1>6 DEF ReadCall, TypeOK, AtWork
  <2>. QED  BY <1>0, <1>6, <2>1 DEF ReadCall, TypeOK
<1>7. ASSUME NEW t \in Clients, ReadPiece(t) PROVE TypeOK'
  <2>. DEFINE c == reading[t]
  <2>1. c \in Clients /\ unread[c] \in Seq(1 .. MaxPieces) /\ unread[c] # <<>>
    BY <1>0, <1>7 DEF ReadPiece, Waiting, TypeOK
  <2>2. Head(unread[c]) \in 1 .. MaxPieces /\ Tail(unread[c]) \in Seq(1 .. MaxPieces)
    BY <2>1, HeadAndTail
  <2>3. /\ msg' = [msg EXCEPT ![t] = Head(unread[c])]
        /\ unread' = [unread EXCEPT ![c] = Tail(unread[c])]
        /\ reading' = [reading EXCEPT ![t] = Nobody]
        /\ tpc' = [tpc EXCEPT ![t] = "lock"]
        /\ UNCHANGED <<fdtab, backlog, peer, got, sent, alive, main, accepted, clnt_sock,
                       clnt_socks, mutex, sock, i>>
    BY <1>7 DEF ReadPiece
  <2>. HIDE DEF c
  <2>4. unread' \in [Clients -> Seq(1 .. MaxPieces)] /\ msg' \in [Clients -> 0 .. MaxPieces]
    <3>1. /\ unread \in [Clients -> Seq(1 .. MaxPieces)] /\ msg \in [Clients -> 0 .. MaxPieces]
      BY <1>0 DEF TypeOK
    <3>2. Head(unread[c]) \in 0 .. MaxPieces
      BY <2>2
    <3>. QED  BY <2>2, <2>3, <3>1, <3>2, Replaced
  <2>. QED  BY <1>0, <2>3, <2>4 DEF TypeOK
<1>8. ASSUME NEW t \in Clients, ReadEnd(t) PROVE TypeOK'
  BY <1>0, <1>8 DEF ReadEnd, TypeOK
<1>9. ASSUME NEW t \in Clients, ReadError(t) PROVE TypeOK'
  BY <1>0, <1>9 DEF ReadError, TypeOK
<1>10. ASSUME NEW t \in Clients, Lock(t) PROVE TypeOK'
  BY <1>0, <1>10 DEF Lock, TypeOK
<1>11. ASSUME NEW t \in Clients, Send(t) PROVE TypeOK'
  <2>. DEFINE c == fdtab[clnt_socks[i[t]]]
  <2>1. /\ i' = [i EXCEPT ![t] = @ + 1]
        /\ UNCHANGED <<fdtab, backlog, sent, unread, main, accepted, clnt_sock, clnt_socks,
                       mutex, tpc, sock, reading, msg>>
        /\ \/ UNCHANGED <<got, peer, alive>>
           \/ Deliver(c, msg[t])
    BY <1>11 DEF Send
  <2>2. msg[t] \in 1 .. MaxPieces
    BY <1>0, <1>11 DEF Send, AtWork
  <2>. HIDE DEF c
  <2>3. i' \in [Clients -> Nat]
    <3>1. i \in [Clients -> Nat]
      BY <1>0 DEF TypeOK
    <3>. QED  BY <2>1, <3>1
  <2>4. /\ got' \in [Clients -> Seq(1 .. MaxPieces)]
        /\ peer' \in [Clients -> Ends] /\ alive' \in BOOLEAN
    <3>1. CASE UNCHANGED <<got, peer, alive>>
      BY <1>0, <3>1 DEF TypeOK
    <3>2. CASE Deliver(c, msg[t])
      <4>1. \A d \in Clients : Append(got[d], msg[t]) \in Seq(1 .. MaxPieces)
        BY <1>0, <2>2 DEF TypeOK
      <4>2. got' = got \/ got' = [got EXCEPT ![c] = Append(got[c], msg[t])]
        BY <3>2 DEF Deliver
      <4>3. got \in [Clients -> Seq(1 .. MaxPieces)]
        BY <1>0 DEF TypeOK
      <4>4. c \in Clients => Append(got[c], msg[t]) \in Seq(1 .. MaxPieces)
        BY <4>1
      <4>5. got' \in [Clients -> Seq(1 .. MaxPieces)]
        BY <4>2, <4>3, <4>4, Replaced
      <4>6. peer' \in [Clients -> Ends] /\ alive' \in BOOLEAN
        BY <1>0, <3>2 DEF Deliver, TypeOK, Ends
      <4>. QED  BY <4>5, <4>6
    <3>. QED  BY <2>1, <3>1, <3>2
  <2>. QED  BY <1>0, <2>1, <2>3, <2>4 DEF TypeOK
<1>12. ASSUME NEW t \in Clients, Unlock(t) PROVE TypeOK'
  BY <1>0, <1>12 DEF Unlock, TypeOK
<1>13. ASSUME NEW t \in Clients, Remove(t) PROVE TypeOK'
  <2>1. clnt_socks' \in Seq(Fds)
    BY <1>0, <1>13, EntryRemoved DEF Remove, TypeOK
  <2>. QED  BY <1>0, <1>13, <2>1 DEF Remove, TypeOK
<1>14. ASSUME NEW t \in Clients, Close(t) PROVE TypeOK'
  BY <1>0, <1>14 DEF Close, TypeOK
<1>15. CASE UNCHANGED vars
  BY <1>0, <1>15 DEF vars, TypeOK
<1>. QED  BY <1>1, <1>2, <1>3, <1>4, <1>5, <1>6, <1>7, <1>8, <1>9, <1>10, <1>11, <1>12,
             <1>13, <1>14, <1>15 DEF Next, ThreadStep

(* The steps that move no thread. *)
StandStill ==
    /\ UNCHANGED <<tpc, sock, msg, clnt_socks>>
    /\ \/ Accept
       \/ UNCHANGED <<backlog, main, accepted, clnt_sock>>

(* The steps inside a thread's loop: neither main nor the table are concerned. *)
Loops(t) ==
    /\ UNCHANGED <<backlog, main, accepted, clnt_sock, clnt_socks>>
    /\ tpc[t] \in {"start", "read", "wait", "lock", "send"}
    /\ \E place \in {"read", "wait", "lock", "send", "remove"} :
          /\ tpc' = [tpc EXCEPT ![t] = place]
          /\ place \in {"lock", "send"} => msg'[t] \in 1 .. MaxPieces
    /\ sock' = [sock EXCEPT ![t] = IF tpc[t] = "start" THEN clnt_sock ELSE sock[t]]
    /\ \A u \in Clients \ {t} : msg'[u] = msg[u]

LEMMA KindsOfStep ==
    ASSUME Inductive, [Next]_vars
    PROVE  \/ StandStill \/ Register
           \/ \E t \in Clients : Loops(t) \/ Remove(t) \/ Close(t)
<1>. USE DEF Goes, net, client, mainv, thread
<1>0. /\ sock \in [Clients -> Fds \cup {0}] /\ msg \in [Clients -> 0 .. MaxPieces]
      /\ tpc \in [Clients -> Places] /\ AtWork
  BY DEF Inductive, TypeOK
<1>1. ASSUME NEW c \in Clients, Write(c) PROVE StandStill
  BY <1>1 DEF Write, StandStill
<1>2. ASSUME NEW c \in Clients, Quit(c) PROVE StandStill
  BY <1>2 DEF Quit, StandStill
<1>3. CASE Accept
  <2>1. StandStill
    BY <1>3 DEF Accept, StandStill
  <2>. QED  BY <2>1
<1>5. ASSUME NEW t \in Clients, Start(t) PROVE Loops(t)
  BY <1>0, <1>5 DEF Start, Loops
<1>6. ASSUME NEW t \in Clients, ReadCall(t) PROVE Loops(t)
  BY <1>0, <1>6 DEF ReadCall, Loops
<1>7. ASSUME NEW t \in Clients, ReadPiece(t) PROVE Loops(t)
  <2>1. Head(unread[reading[t]]) \in 1 .. MaxPieces
    <3>1. /\ reading[t] \in Clients /\ unread[reading[t]] \in Seq(1 .. MaxPieces)
          /\ unread[reading[t]] # <<>>
      BY <1>7 DEF ReadPiece, Waiting, Inductive, TypeOK
    <3>. QED  BY <3>1, HeadAndTail
  <2>2. msg'[t] \in 1 .. MaxPieces /\ \A u \in Clients \ {t} : msg'[u] = msg[u]
    BY <1>0, <1>7, <2>1 DEF ReadPiece
  <2>3. UNCHANGED <<backlog, main, accepted, clnt_sock, clnt_socks, sock>>
    BY <1>7 DEF ReadPiece
  <2>4. tpc[t] = "wait" /\ tpc' = [tpc EXCEPT ![t] = "lock"]
    BY <1>7 DEF ReadPiece, Waiting
  <2>. QED  BY <1>0, <2>2, <2>3, <2>4 DEF Loops
<1>8. ASSUME NEW t \in Clients, ReadEnd(t) PROVE Loops(t)
  BY <1>0, <1>8 DEF ReadEnd, Waiting, Loops
<1>9. ASSUME NEW t \in Clients, ReadError(t) PROVE Loops(t)
  BY <1>0, <1>9 DEF ReadError, Loops
<1>10. ASSUME NEW t \in Clients, Lock(t) PROVE Loops(t)
  BY <1>0, <1>10 DEF Lock, Loops, AtWork
<1>11. ASSUME NEW t \in Clients, Send(t) PROVE StandStill
  BY <1>11 DEF Send, StandStill
<1>12. ASSUME NEW t \in Clients, Unlock(t) PROVE Loops(t)
  BY <1>0, <1>12 DEF Unlock, Loops
<1>15. CASE UNCHANGED vars
  BY <1>15 DEF vars, StandStill
<1>. QED  BY <1>1, <1>2, <1>3, <1>5, <1>6, <1>7, <1>8, <1>9, <1>10, <1>11, <1>12, <1>15
             DEF Next, ThreadStep

LEMMA AtWorkNext == Inductive /\ [Next]_vars => AtWork'
<1>. SUFFICES ASSUME Inductive, [Next]_vars PROVE AtWork'
  OBVIOUS
<1>. USE DEF Places
<1>0. /\ AtWork /\ backlog \subseteq Clients /\ tpc \in [Clients -> Places]
      /\ sock \in [Clients -> Fds \cup {0}] /\ msg \in [Clients -> 0 .. MaxPieces]
  BY DEF Inductive, TypeOK
<1>1. CASE StandStill
  <2>1. CASE UNCHANGED <<backlog, main, accepted, clnt_sock>>
    BY <1>0, <1>1, <2>1 DEF StandStill, AtWork
  <2>2. CASE Accept
    BY <1>0, <1>1, <2>2 DEF StandStill, Accept, AtWork
  <2>. QED  BY <1>1, <2>1, <2>2 DEF StandStill
<1>2. CASE Register
  BY <1>0, <1>2 DEF Register, Goes, net, AtWork
<1>3. ASSUME NEW t \in Clients, Loops(t) PROVE AtWork'
  BY <1>0, <1>3 DEF Loops, AtWork
<1>4. ASSUME NEW t \in Clients, Remove(t) PROVE AtWork'
  BY <1>0, <1>4 DEF Remove, Goes, net, mainv, AtWork
<1>5. ASSUME NEW t \in Clients, Close(t) PROVE AtWork'
  BY <1>0, <1>5 DEF Close, Goes, net, mainv, AtWork
<1>. QED  BY <1>1, <1>2, <1>3, <1>4, <1>5, KindsOfStep

LEMMA EntriesNext == Inductive /\ [Next]_vars => OneEntryPerThread'
<1>. SUFFICES ASSUME Inductive, [Next]_vars PROVE OneEntryPerThread'
  OBVIOUS
<1>. USE DEF Places, OneEntryPerThread
<1>0. /\ AtWork /\ tpc \in [Clients -> Places] /\ clnt_socks \in Seq(Fds)
      /\ Len(clnt_socks) = Cardinality(Entered)
      /\ Entered \in SUBSET Clients
  BY DEF Inductive, TypeOK, Entered
<1>f. IsFiniteSet(Entered) /\ Cardinality(Entered) \in Nat
  BY <1>0, ThreadedChatAssumption, FS_Subset, FS_CardinalityType
<1>1. CASE StandStill
  BY <1>0, <1>1 DEF StandStill, Entered
<1>2. CASE Register
  <2>1. accepted \in Clients /\ accepted \notin Entered
    BY <1>0, <1>2 DEF Register, AtWork, Entered
  <2>2. Entered' = Entered \cup {accepted}
    BY <1>0, <1>2, <2>1 DEF Register, Goes, Entered
  <2>3. Cardinality(Entered') = Cardinality(Entered) + 1
    BY <1>f, <2>1, <2>2, FS_AddElement
  <2>4. clnt_sock \in Fds /\ Len(clnt_socks') = Len(clnt_socks) + 1
    BY <1>0, <1>2 DEF Register, AtWork
  <2>. QED  BY <1>0, <1>f, <2>3, <2>4
<1>3. ASSUME NEW t \in Clients, Loops(t) PROVE OneEntryPerThread'
  <2>1. Entered' = Entered
    BY <1>0, <1>3 DEF Loops, Entered
  <2>. QED  BY <1>0, <1>3, <2>1 DEF Loops
<1>4. ASSUME NEW t \in Clients, Remove(t) PROVE OneEntryPerThread'
  <2>1. t \in Entered /\ Entered' = Entered \ {t}
    BY <1>0, <1>4 DEF Remove, Goes, Entered
  <2>2. Cardinality(Entered') = Cardinality(Entered) - 1
    BY <1>f, <2>1, FS_RemoveElement
  <2>3. Len(clnt_socks') = Len(clnt_socks) - 1
    BY <1>0, <1>4, EntryRemoved DEF Remove
  <2>. QED  BY <1>0, <1>f, <2>2, <2>3
<1>5. ASSUME NEW t \in Clients, Close(t) PROVE OneEntryPerThread'
  <2>1. Entered' = Entered
    BY <1>0, <1>5 DEF Close, Goes, Entered
  <2>. QED  BY <1>0, <1>5, <2>1 DEF Close
<1>. QED  BY <1>1, <1>2, <1>3, <1>4, <1>5, KindsOfStep

-----------------------------------------------------------------------------

(* What a sequence has, and in which order, when a piece is added at its end
   or the first one taken. *)
LEMMA Added ==
    ASSUME NEW S, NEW s \in Seq(S), NEW e \in S
    PROVE  /\ \A x : Has(Append(s, e), x) <=> Has(s, x) \/ x = e
           /\ \A x, y : Before(Append(s, e), x, y) =>
                            Before(s, x, y) \/ (Has(s, x) /\ y = e)
           /\ Once(s) /\ ~Has(s, e) => Once(Append(s, e))
<1>. DEFINE n == Len(s)
            a == Append(s, e)
<1>1. n \in Nat /\ Len(a) = n + 1
      /\ a[n + 1] = e /\ \A k \in 1 .. n : a[k] = s[k]
  OBVIOUS
<1>. HIDE DEF a
<1>2. \A k : k \in 1 .. n + 1 <=> k \in 1 .. n \/ k = n + 1
  BY <1>1
<1>3. ASSUME NEW x PROVE Has(a, x) <=> Has(s, x) \/ x = e
  BY <1>1, <1>2 DEF Has
<1>4. ASSUME NEW x, NEW y, Before(a, x, y) PROVE Before(s, x, y) \/ (Has(s, x) /\ y = e)
  BY <1>1, <1>2, <1>4 DEF Before, Has
<1>5. ASSUME Once(s), ~Has(s, e) PROVE Once(a)
  BY <1>1, <1>2, <1>5 DEF Once, Has
<1>. QED  BY <1>3, <1>4, <1>5 DEF a

LEMMA Taken ==
    ASSUME NEW S, NEW s \in Seq(S), s # <<>>
    PROVE  /\ Has(s, Head(s))
           /\ \A x : Has(Tail(s), x) => Has(s, x)
           /\ Once(s) => Once(Tail(s)) /\ ~Has(Tail(s), Head(s))
<1>. DEFINE n == Len(s) - 1
            r == Tail(s)
<1>1. /\ n \in Nat /\ Len(s) = n + 1 /\ Len(r) = n
      /\ \A k \in 1 .. n : r[k] = s[k + 1]
      /\ Head(s) = s[1]
  OBVIOUS
<1>. HIDE DEF r, n
<1>2. Has(s, Head(s))
  BY <1>1 DEF Has
<1>3. ASSUME NEW x, Has(r, x) PROVE Has(s, x)
  BY <1>1, <1>3 DEF Has
<1>4. ASSUME Once(s) PROVE Once(r) /\ ~Has(r, Head(s))
  BY <1>1, <1>4 DEF Once, Has
<1>. QED  BY <1>2, <1>3, <1>4 DEF r

(* The steps after which every piece is where it was. *)
Quiet ==
    /\ UNCHANGED <<sent, unread, got, mutex>>
    /\ \A t \in Clients : Broadcasts(t)' => tpc'[t] = tpc[t] /\ msg'[t] = msg[t]

(* The steps of send_msg that write to a client. *)
Delivers(t, c) ==
    /\ tpc[t] = "send" /\ c \in Clients
    /\ UNCHANGED <<sent, unread, mutex, tpc, msg>>
    /\ got' = [got EXCEPT ![c] = Append(got[c], msg[t])]

LEMMA MovesOfPieces ==
    ASSUME Inductive, [Next]_vars
    PROVE  \/ Quiet
           \/ \E c \in Clients : Write(c)
           \/ \E t \in Clients : ReadPiece(t) \/ Lock(t) \/ Unlock(t)
           \/ \E t, c \in Clients : Delivers(t, c)
<1>. USE DEF Goes, net, client, mainv, thread, Broadcasts
<1>0. /\ tpc \in [Clients -> Places] /\ msg \in [Clients -> 0 .. MaxPieces]
      /\ fdtab \in [Fds -> Clients \cup {Nobody}]
      /\ got \in [Clients -> Seq(1 .. MaxPieces)]
      /\ clnt_socks \in Seq(Fds) /\ i \in [Clients -> Nat]
  BY DEF Inductive, TypeOK
<1>1. ASSUME NEW c \in Clients, Quit(c) PROVE Quiet
  BY <1>1 DEF Quit, Quiet
<1>2. CASE Accept
  BY <1>2 DEF Accept, Quiet
<1>3. CASE Register
  BY <1>0, <1>3 DEF Register, Quiet
<1>4. ASSUME NEW t \in Clients, Start(t) PROVE Quiet
  BY <1>0, <1>4 DEF Start, Quiet
<1>5. ASSUME NEW t \in Clients, ReadCall(t) PROVE Quiet
  BY <1>0, <1>5 DEF ReadCall, Quiet
<1>6. ASSUME NEW t \in Clients, ReadEnd(t) PROVE Quiet
  BY <1>0, <1>6 DEF ReadEnd, Quiet
<1>7. ASSUME NEW t \in Clients, ReadError(t) PROVE Quiet
  BY <1>0, <1>7 DEF ReadError, Quiet
<1>8. ASSUME NEW t \in Clients, Remove(t) PROVE Quiet
  BY <1>0, <1>8 DEF Remove, Quiet
<1>9. ASSUME NEW t \in Clients, Close(t) PROVE Quiet
  BY <1>0, <1>9 DEF Close, Quiet
<1>10. ASSUME NEW t \in Clients, Send(t)
       PROVE  Quiet \/ \E c \in Clients : Delivers(t, c)
  <2>. DEFINE c == fdtab[clnt_socks[i[t]]]
  <2>1. /\ UNCHANGED <<sent, unread, mutex, tpc, msg>> /\ tpc[t] = "send"
        /\ UNCHANGED got \/ (c # Nobody /\ got' = [got EXCEPT ![c] = Append(@, msg[t])])
    BY <1>10 DEF Send, Deliver
  <2>2. CASE UNCHANGED got
    BY <2>1, <2>2 DEF Quiet
  <2>3. CASE c \in Clients /\ ~UNCHANGED got
    <3>1. Delivers(t, c)
      <4>. HIDE DEF c
      <4>1. got' = [got EXCEPT ![c] = Append(got[c], msg[t])]
        BY <1>0, <2>1, <2>3
      <4>. QED  BY <2>1, <2>3, <4>1 DEF Delivers
    <3>. QED  BY <2>3, <3>1
  <2>4. CASE c \notin Clients /\ ~UNCHANGED got
    <3>. HIDE DEF c
    <3>. QED  BY <1>0, <2>1, <2>4
  <2>. QED  BY <2>2, <2>3, <2>4
<1>11. CASE UNCHANGED vars
  BY <1>11 DEF vars, Quiet
<1>. QED  BY <1>1, <1>2, <1>3, <1>4, <1>5, <1>6, <1>7, <1>8, <1>9, <1>10, <1>11
             DEF Next, ThreadStep

(* No step puts a piece in a second place, or a piece that one client has
   before another behind it for the next. *)
LEMMA OrderNext ==
    Inductive /\ [Next]_vars => OnePlace' /\ LastSent' /\ BroadcastOrder'
<1>. SUFFICES ASSUME Inductive, [Next]_vars PROVE OnePlace' /\ LastSent' /\ BroadcastOrder'
  OBVIOUS
<1>. DEFINE Pieces == 1 .. MaxPieces
<1>0. /\ OnePlace /\ LastSent /\ BroadcastOrder
      /\ tpc \in [Clients -> Places] /\ msg \in [Clients -> 0 .. MaxPieces]
      /\ unread \in [Clients -> Seq(Pieces)] /\ got \in [Clients -> Seq(Pieces)]
      /\ sent \in 0 .. MaxPieces /\ mutex \in Clients \cup {Nobody}
      /\ MaxPieces \in Nat /\ Nobody \notin Clients
      /\ \A t \in Clients : Broadcasts(t) => msg[t] \in Pieces
  BY ThreadedChatAssumption DEF Inductive, TypeOK, AtWork, Broadcasts
<1>. HIDE DEF Pieces
<1>1. CASE Quiet
  <2>1. OnePlace'
    BY <1>0, <1>1 DEF Quiet, OnePlace, Broadcasts
  <2>2. LastSent'
    BY <1>0, <1>1 DEF Quiet, LastSent, Broadcasts
  <2>3. BroadcastOrder'
    BY <1>0, <1>1 DEF Quiet, BroadcastOrder
  <2>. QED  BY <2>1, <2>2, <2>3
<1>2. ASSUME NEW c \in Clients, Write(c) PROVE OnePlace' /\ LastSent' /\ BroadcastOrder'
  <2>1. /\ sent' = sent + 1 /\ unread' = [unread EXCEPT ![c] = Append(unread[c], sent')]
        /\ UNCHANGED <<got, mutex, tpc, msg>>
    BY <1>2 DEF Write, net, thread
  <2>2. sent' \in Pieces /\ \A x \in Pieces : x <= sent => x <= sent' /\ x # sent'
    BY <1>0, <1>2 DEF Write, Pieces
  <2>3. /\ \A d \in Clients : ~Has(unread[d], sent') /\ ~Has(got[d], sent')
        /\ \A t \in Clients : Broadcasts(t) => msg[t] # sent'
    <3>1. sent' \in Pieces /\ ~(sent' <= sent)
      BY <1>0, <2>1, <2>2
    <3>2. \A d \in Clients : ~Has(unread[d], sent') /\ ~Has(got[d], sent')
      BY <1>0, <3>1 DEF OnePlace, Pieces
    <3>3. \A t \in Clients : Broadcasts(t) => msg[t] # sent'
      BY <1>0, <3>1 DEF OnePlace
    <3>. QED  BY <3>2, <3>3
  <2>4. /\ Once(unread'[c])
        /\ \A x : Has(unread'[c], x) <=> Has(unread[c], x) \/ x = sent'
        /\ \A d \in Clients : d # c => unread'[d] = unread[d]
    <3>1. unread[c] \in Seq(Pieces) /\ Once(unread[c]) /\ unread'[c] = Append(unread[c], sent')
      BY <1>0, <2>1 DEF OnePlace
    <3>2. \A d \in Clients : d # c => unread'[d] = unread[d]
      BY <1>0, <2>1
    <3>. QED  BY <2>2, <2>3, <3>1, <3>2, Added
  <2>5. OnePlace'
    <3>1. \A d \in Clients : Once(unread'[d])
      BY <1>0, <2>4 DEF OnePlace
    <3>2. ASSUME NEW d \in Clients, NEW x \in Pieces, Has(unread'[d], x)
          PROVE  /\ x <= sent'
                 /\ \A e \in Clients : ~Has(got[e], x) /\ (e # d => ~Has(unread'[e], x))
                 /\ \A t \in Clients : Broadcasts(t) => msg[t] # x
      <4>1. CASE x = sent'
        <5>1. x <= sent' /\ d = c
          BY <1>0, <2>2, <2>3, <2>4, <3>2, <4>1 DEF Pieces
        <5>. QED  BY <2>3, <2>4, <4>1, <5>1
      <4>2. CASE x # sent'
        BY <1>0, <2>2, <2>4, <3>2, <4>2 DEF OnePlace, Pieces
      <4>. QED  BY <4>1, <4>2
    <3>3. \A t \in Clients : Broadcasts(t) =>
            msg[t] <= sent' /\ \A u \in Clients \ {t} : Broadcasts(u) => msg[u] # msg[t]
      BY <1>0, <2>2 DEF OnePlace, Pieces
    <3>4. \A d \in Clients, x \in Pieces : Has(got[d], x) =>
            x <= sent' /\ \A t \in Clients : tpc[t] = "lock" => msg[t] # x
      BY <1>0, <2>2 DEF OnePlace, Pieces
    <3>. QED  BY <2>1, <3>1, <3>2, <3>3, <3>4 DEF OnePlace, Broadcasts, Pieces
  <2>6. LastSent' /\ BroadcastOrder'
    BY <1>0, <2>1 DEF LastSent, BroadcastOrder
  <2>. QED  BY <2>5, <2>6
<1>3. ASSUME NEW t \in Clients, ReadPiece(t) PROVE OnePlace' /\ LastSent' /\ BroadcastOrder'
  <2>. DEFINE c == reading[t]
              x == Head(unread[c])
  <2>1. /\ c \in Clients /\ unread[c] # <<>> /\ tpc[t] = "wait"
        /\ UNCHANGED <<sent, got, mutex>>
        /\ unread' = [unread EXCEPT ![c] = Tail(unread[c])]
        /\ msg' = [msg EXCEPT ![t] = x]
        /\ tpc' = [tpc EXCEPT ![t] = "lock"]
    BY <1>3 DEF ReadPiece, Waiting, Goes, net, Inductive, TypeOK
  <2>2. /\ x \in Pieces /\ Has(unread[c], x)
        /\ \A y : Has(Tail(unread[c]), y) => Has(unread[c], y) /\ y # x
        /\ Once(Tail(unread[c]))
    <3>1. unread[c] \in Seq(Pieces) /\ Once(unread[c])
      BY <1>0, <2>1 DEF OnePlace
    <3>. QED  BY <2>1, <3>1, HeadAndTail, Taken
  <2>. HIDE DEF c, x
  <2>3. /\ unread'[c] = Tail(unread[c]) /\ \A d \in Clients : d # c => unread'[d] = unread[d]
        /\ msg'[t] = x /\ tpc'[t] = "lock"
        /\ \A u \in Clients : u # t => msg'[u] = msg[u] /\ tpc'[u] = tpc[u]
    BY <1>0, <2>1
  <2>4. /\ x <= sent
        /\ \A d \in Clients : ~Has(got[d], x) /\ (d # c => ~Has(unread[d], x))
        /\ \A u \in Clients : Broadcasts(u) => msg[u] # x
    BY <1>0, <2>1, <2>2 DEF OnePlace, Pieces
  <2>5. \A d \in Clients : Once(unread'[d])
    BY <1>0, <2>2, <2>3 DEF OnePlace
  <2>6. ASSUME NEW d \in Clients, NEW y \in Pieces, Has(unread'[d], y)
        PROVE  Has(unread[d], y) /\ y # x
    BY <2>2, <2>3, <2>4, <2>6
  <2>7. OnePlace'
    <3>1. ASSUME NEW d \in Clients, NEW y \in Pieces, Has(unread'[d], y)
          PROVE  /\ y <= sent
                 /\ \A e \in Clients : ~Has(got[e], y) /\ (e # d => ~Has(unread'[e], y))
                 /\ \A u \in Clients : Broadcasts(u)' => msg'[u] # y
      <4>1. /\ Has(unread[d], y) /\ y # x
            /\ \A e \in Clients : Has(unread'[e], y) => Has(unread[e], y)
        BY <2>6, <3>1
      <4>. QED  BY <1>0, <2>3, <4>1 DEF OnePlace, Broadcasts, Pieces
    <3>2. \A u \in Clients : Broadcasts(u)' =>
            msg'[u] <= sent /\ \A v \in Clients \ {u} : Broadcasts(v)' => msg'[v] # msg'[u]
      <4>1. \A u \in Clients : u # t /\ Broadcasts(u)' =>
              Broadcasts(u) /\ msg'[u] = msg[u] /\ msg[u] <= sent /\ msg[u] # x
        BY <1>0, <2>3, <2>4 DEF OnePlace, Broadcasts
      <4>2. \A u, v \in Clients : Broadcasts(u) /\ Broadcasts(v) /\ u # v => msg[v] # msg[u]
        BY <1>0 DEF OnePlace
      <4>. QED  BY <2>3, <2>4, <4>1, <4>2
    <3>3. \A d \in Clients, y \in Pieces : Has(got[d], y) =>
            y <= sent /\ \A u \in Clients : tpc'[u] = "lock" => msg'[u] # y
      <4>1. \A d \in Clients, y \in Pieces : Has(got[d], y) =>
              y <= sent /\ \A u \in Clients : tpc[u] = "lock" => msg[u] # y
        BY <1>0 DEF OnePlace, Pieces
      <4>. QED  BY <2>3, <2>4, <4>1
    <3>. QED  BY <2>1, <2>5, <3>1, <3>2, <3>3 DEF OnePlace, Pieces
  <2>8. LastSent' /\ BroadcastOrder'
    BY <1>0, <2>1, <2>3 DEF LastSent, BroadcastOrder
  <2>. QED  BY <2>7, <2>8
<1>4. ASSUME NEW t \in Clients, Lock(t) PROVE OnePlace' /\ LastSent' /\ BroadcastOrder'
  <2>1. /\ UNCHANGED <<sent, unread, got, msg>> /\ mutex = Nobody /\ mutex' = t
        /\ tpc[t] = "lock" /\ tpc'[t] = "send"
        /\ \A u \in Clients : u # t => tpc'[u] = tpc[u]
    BY <1>0, <1>4 DEF Lock, Goes, net, client
  <2>2. OnePlace'
    <3>1. /\ \A u \in Clients : Broadcasts(u)' <=> Broadcasts(u)
          /\ \A u \in Clients : tpc'[u] = "lock" => tpc[u] = "lock"
      BY <2>1 DEF Broadcasts
    <3>. QED  BY <1>0, <2>1, <3>1 DEF OnePlace
  <2>3. LastSent'
    <3>1. \A u \in Clients : tpc'[u] = "send" => u = t
      BY <1>0, <2>1 DEF LastSent
    <3>2. msg[t] \in Pieces
      BY <1>0, <2>1 DEF Broadcasts
    <3>3. \A d \in Clients : ~Has(got[d], msg[t])
      BY <1>0, <2>1, <3>2 DEF OnePlace, Pieces
    <3>4. \A d \in Clients, y \in Pieces : ~Before(got[d], msg[t], y)
      BY <3>3 DEF Before, Has
    <3>. QED  BY <2>1, <3>1, <3>4 DEF LastSent, Pieces
  <2>4. BroadcastOrder'
    BY <1>0, <2>1 DEF BroadcastOrder
  <2>. QED  BY <2>2, <2>3, <2>4
<1>5. ASSUME NEW t \in Clients, Unlock(t) PROVE OnePlace' /\ LastSent' /\ BroadcastOrder'
  <2>1. /\ UNCHANGED <<sent, unread, got>> /\ mutex' = Nobody
        /\ tpc[t] = "send" /\ tpc'[t] = "read"
        /\ \A u \in Clients : u # t => tpc'[u] = tpc[u] /\ msg'[u] = msg[u]
    BY <1>0, <1>5 DEF Unlock, Goes, net, client
  <2>2. /\ \A u \in Clients : Broadcasts(u)' => Broadcasts(u) /\ msg'[u] = msg[u]
        /\ \A u \in Clients : tpc'[u] = "lock" => tpc[u] = "lock" /\ msg'[u] = msg[u]
    BY <2>1 DEF Broadcasts
  <2>3. OnePlace'
    <3>1. \A u \in Clients : Broadcasts(u)' =>
            msg'[u] <= sent /\ \A v \in Clients \ {u} : Broadcasts(v)' => msg'[v] # msg'[u]
      BY <1>0, <2>2 DEF OnePlace
    <3>2. \A d \in Clients, y \in Pieces : Has(unread[d], y) =>
            /\ y <= sent
            /\ \A e \in Clients : ~Has(got[e], y) /\ (e # d => ~Has(unread[e], y))
            /\ \A u \in Clients : Broadcasts(u)' => msg'[u] # y
      BY <1>0, <2>2 DEF OnePlace, Pieces
    <3>3. \A d \in Clients, y \in Pieces : Has(got[d], y) =>
            y <= sent /\ \A u \in Clients : tpc'[u] = "lock" => msg'[u] # y
      BY <1>0, <2>2 DEF OnePlace, Pieces
    <3>. QED  BY <1>0, <2>1, <3>1, <3>2, <3>3 DEF OnePlace, Pieces
  <2>4. \A u \in Clients : tpc'[u] # "send"
    <3>1. \A u \in Clients : tpc[u] = "send" => mutex = u
      BY <1>0 DEF LastSent
    <3>. QED  BY <2>1, <3>1
  <2>5. LastSent' /\ BroadcastOrder'
    BY <1>0, <2>1, <2>4 DEF LastSent, BroadcastOrder
  <2>. QED  BY <2>3, <2>5
<1>6. ASSUME NEW t \in Clients, NEW c \in Clients, Delivers(t, c)
      PROVE  OnePlace' /\ LastSent' /\ BroadcastOrder'
  <2>. DEFINE x == msg[t]
  <2>1. /\ UNCHANGED <<sent, unread, mutex, tpc, msg>> /\ tpc[t] = "send" /\ mutex = t
        /\ x \in Pieces /\ x <= sent
    BY <1>0, <1>6 DEF Delivers, LastSent, OnePlace, Broadcasts
  <2>2. /\ \A y : Has(got'[c], y) <=> Has(got[c], y) \/ y = x
        /\ \A y, z : Before(got'[c], y, z) => Before(got[c], y, z) \/ (Has(got[c], y) /\ z = x)
        /\ \A d \in Clients : d # c => got'[d] = got[d]
    <3>1. got[c] \in Seq(Pieces) /\ got'[c] = Append(got[c], x)
      BY <1>0, <1>6 DEF Delivers
    <3>2. \A d \in Clients : d # c => got'[d] = got[d]
      BY <1>0, <1>6 DEF Delivers
    <3>. QED  BY <2>1, <3>1, <3>2, Added
  <2>3. \A d \in Clients, y \in Pieces : y # x => ~Before(got[d], x, y)
    BY <1>0, <2>1 DEF LastSent, Pieces
  <2>4. OnePlace'
    <3>1. \A d \in Clients, y \in Pieces : Has(got'[d], y) => Has(got[d], y) \/ y = x
      BY <2>2
    <3>2. /\ \A d \in Clients : ~Has(unread[d], x)
          /\ \A u \in Clients : tpc[u] = "lock" => msg[u] # x
      BY <1>0, <2>1 DEF OnePlace, Broadcasts, Pieces
    <3>3. \A d \in Clients, y \in Pieces : Has(unread[d], y) =>
            \A e \in Clients : ~Has(got'[e], y)
      BY <1>0, <3>1, <3>2 DEF OnePlace, Pieces
    <3>4. \A d \in Clients, y \in Pieces : Has(got'[d], y) =>
            y <= sent /\ \A u \in Clients : tpc[u] = "lock" => msg[u] # y
      BY <1>0, <2>1, <3>1, <3>2 DEF OnePlace, Pieces
    <3>. QED  BY <1>0, <2>1, <3>3, <3>4 DEF OnePlace, Broadcasts, Pieces
  <2>5. ASSUME NEW d \in Clients, NEW y \in Pieces, NEW z \in Pieces, Before(got'[d], y, z)
        PROVE  Before(got[d], y, z) \/ z = x
    BY <2>2, <2>5
  <2>6. \A d \in Clients, y \in Pieces : y # x => ~Before(got'[d], x, y)
    BY <2>1, <2>3, <2>5
  <2>7. LastSent'
    <3>1. \A u \in Clients : tpc[u] = "send" => u = t
      BY <1>0, <2>1 DEF LastSent
    <3>. QED  BY <2>1, <2>6, <3>1 DEF LastSent, Pieces
  <2>8. ASSUME NEW d \in Clients, NEW e \in Clients, NEW y \in Pieces, NEW z \in Pieces,
               y # z, Before(got'[d], y, z), Before(got'[e], z, y)
        PROVE  FALSE
    <3>1. y # x /\ z # x
      BY <2>6, <2>8
    <3>2. Before(got[d], y, z) /\ Before(got[e], z, y)
      BY <2>5, <2>8, <3>1
    <3>3. PICK j, k \in 1 .. Len(got[d]) : j < k /\ got[d][j] = y /\ got[d][k] = z
      BY <3>2 DEF Before
    <3>. QED  BY <1>0, <2>8, <3>2, <3>3 DEF BroadcastOrder
  <2>9. BroadcastOrder'
    <3>. SUFFICES ASSUME NEW d \in Clients,
                         NEW j \in 1 .. Len(got'[d]), NEW k \in 1 .. Len(got'[d]),
                         j < k, got'[d][j] # got'[d][k], NEW e \in Clients,
                         Before(got'[e], got'[d][k], got'[d][j])
                  PROVE  FALSE
      BY DEF BroadcastOrder
    <3>1. got'[d][j] \in Pieces /\ got'[d][k] \in Pieces
      <4>1. got[d] \in Seq(Pieces) /\ Append(got[c], x) \in Seq(Pieces)
        BY <1>0, <2>1
      <4>2. got' = [got EXCEPT ![c] = Append(got[c], x)]
        BY <1>6 DEF Delivers
      <4>3. got'[d] \in Seq(Pieces)
        BY <1>0, <4>1, <4>2
      <4>. QED  BY <4>3
    <3>2. Before(got'[d], got'[d][j], got'[d][k])
      BY DEF Before
    <3>. QED  BY <2>8, <3>1, <3>2
  <2>. QED  BY <2>4, <2>7, <2>9
<1>. QED  BY <1>1, <1>2, <1>3, <1>4, <1>5, <1>6, MovesOfPieces

-----------------------------------------------------------------------------

LEMMA InductiveAlways == Spec => []Inductive
<1>1. Inductive /\ [Next]_vars => Inductive'
  BY TypeNext, AtWorkNext, EntriesNext, OrderNext DEF Inductive
<1>. QED  BY InitInductive, <1>1, PTL DEF Spec

(* Every variable keeps its type: threads read and close descriptors there
   are, and broadcast pieces that were sent. *)
THEOREM TypeCorrect == Spec => []TypeOK
<1>1. Inductive => TypeOK
  BY DEF Inductive
<1>. QED  BY InductiveAlways, <1>1, PTL

(* clnt_cnt is the number of threads at work and of those that could not be
   created, though a thread may take out an entry that is not its own. *)
THEOREM OneEntryPerThreadAlways == Spec => []OneEntryPerThread
<1>1. Inductive => OneEntryPerThread
  BY DEF Inductive
<1>. QED  BY InductiveAlways, <1>1, PTL

(* However the broadcasts of the threads interleave, no two clients get the
   same two pieces in different orders. *)
THEOREM BroadcastOrderAlways == Spec => []BroadcastOrder
<1>1. Inductive => BroadcastOrder
  BY DEF Inductive
<1>. QED  BY InductiveAlways, <1>1, PTL
=============================================================================
