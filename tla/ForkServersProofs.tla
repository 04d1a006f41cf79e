-------------------------- MODULE ForkServersProofs --------------------------
(***************************************************************************)
(* Proofs about ForkServers for every number of connections and pieces and *)
(* for both servers.  What a process holds follows from where it is, once  *)
(* it is known that at most one process serves a client; so does how much  *)
(* of what was read was written.  Each signal that is pending or being     *)
(* handled stands for a child of its own, which is counted, while none was *)
(* raised by a child that was stopped or continued.                        *)
(***************************************************************************)
EXTENDS ForkServers, FiniteSetTheorems, SequenceTheorems, TLAPS

(* The numbers that stand for clients do not meet those that stand for the
   parent, for nobody and for the listening socket. *)
LEMMA Numbers ==
    /\ Clients \subseteq Nat /\ IsFiniteSet(Clients)
    /\ Parent \notin Clients /\ Nobody \notin Clients /\ Listener \notin Clients
    /\ Nobody # Listener /\ Parent \in Procs /\ Clients \subseteq Procs
    /\ \A p \in Procs : p # Parent => p \in Clients
<1>1. IsFiniteSet(Clients)
  BY ForkServersAssumption, FS_Interval DEF Clients
<1>. QED  BY <1>1, ForkServersAssumption DEF Clients, Parent, Nobody, Listener, Procs

(* A piece that is sent has the next number: it is in bounds, and comes
   after those the client sent before. *)
LEMMA Sent ==
    ASSUME TypeOK, NEW c \in Clients, Send(c)
    PROVE  LET n == Cardinality(SentSoFar) IN
           /\ n + 1 \in 1 .. MaxPieces
           /\ sent' = [sent EXCEPT ![c] = Append(@, n + 1)]
           /\ sent' \in [Clients -> Seq(1 .. MaxPieces)]
           /\ Len(sent'[c]) = Len(sent[c]) + 1
           /\ \A k \in 1 .. Len(sent[c]) : sent'[c][k] = sent[c][k]
           /\ \A d \in Clients \ {c} : sent'[d] = sent[d]
<1>. DEFINE n == Cardinality(SentSoFar)
<1>1. /\ MaxPieces \in Nat /\ sent \in [Clients -> Seq(1 .. MaxPieces)]
      /\ n < MaxPieces /\ sent' = [sent EXCEPT ![c] = Append(@, n + 1)]
  BY ForkServersAssumption DEF TypeOK, Send
<1>2. n \in Nat
  <2>1. \A d \in Clients : \A k \in DOMAIN sent[d] : sent[d][k] \in 1 .. MaxPieces
    BY <1>1, ElementOfSeq
  <2>2. SentSoFar \in SUBSET (1 .. MaxPieces)
    BY <2>1 DEF SentSoFar
  <2>3. IsFiniteSet(1 .. MaxPieces)
    BY <1>1, FS_Interval
  <2>. QED  BY <2>2, <2>3, FS_Subset, FS_CardinalityType
<1>3. n + 1 \in 1 .. MaxPieces
  BY <1>1, <1>2
<1>. HIDE DEF n
<1>4. /\ sent' \in [Clients -> Seq(1 .. MaxPieces)]
      /\ sent'[c] = Append(sent[c], n + 1)
      /\ \A d \in Clients \ {c} : sent'[d] = sent[d]
  BY <1>1, <1>3
<1>5. /\ Len(sent'[c]) = Len(sent[c]) + 1
      /\ \A k \in 1 .. Len(sent[c]) : sent'[c][k] = sent[c][k]
  BY <1>1, <1>3, <1>4, AppendProperties
<1>. QED  BY <1>1, <1>3, <1>4, <1>5 DEF n

(* A process at work serves a client, and no other process serves that one. *)
AtWork(p) == at[p] \in {"start", "read", "write"}

LEMMA ServesOneClient ==
    ASSUME TypeOK, Places, NEW p \in Procs, AtWork(p)
    PROVE  /\ Serves(p) \in Clients
           /\ \A q \in Procs : AtWork(q) /\ Serves(q) = Serves(p) => q = p
           /\ at[Parent] = "fork" \/ ParentServes => p # clnt_sock
           /\ p = Parent => ParentServes
           /\ p # Parent => p \in Clients /\ Serves(p) = p
  BY Numbers DEF TypeOK, Places, AtWork, Serves, ParentServes

-----------------------------------------------------------------------------

LEMMA InitInductive == Init => Inductive
<1>. SUFFICES ASSUME Init PROVE Inductive
  OBVIOUS
<1>. USE DEF Init, Listening
<1>1. TypeOK
  <2>1. <<>> \in Seq(1 .. MaxPieces) /\ <<>> \in Seq(0 .. MaxPieces) /\ 0 \in 0 .. MaxPieces
    BY ForkServersAssumption
  <2>. QED  BY <2>1, Numbers DEF TypeOK
<1>2. HoldsOnlyItsOwn
  BY Numbers DEF HoldsOnlyItsOwn
<1>3. HandlerHasChild
  <2>1. Zombies = {}
    BY Numbers DEF Zombies
  <2>2. Cardinality({}) = 0
    BY FS_EmptySet
  <2>. QED  BY <2>1, <2>2 DEF HandlerHasChild
<1>4. Places
  BY Numbers DEF Places, ParentServes
<1>5. ByKind
  BY Numbers DEF ByKind, ParentServes
<1>6. Accounted
  <2>1. \A c \in Clients : Written(c) = <<>> /\ ~Junked(c) /\ Held(c) = 0
    BY Numbers DEF Written, Junked, Held
  <2>2. \A p \in Procs : at[p] # "write"
    BY Numbers
  <2>. QED  BY <2>1, <2>2 DEF Accounted
<1>. QED  BY <1>1, <1>2, <1>3, <1>4, <1>5, <1>6 DEF Inductive

-----------------------------------------------------------------------------

(* A process that ends. *)
LEMMA ExitType ==
    ASSUME TypeOK, NEW p \in Procs, NEW place \in {"zombie", "killed"}, Exits(p, place)
    PROVE  /\ at' = [at EXCEPT ![p] = IF p = Parent THEN "ended" ELSE place]
           /\ holds' = [holds EXCEPT ![p] = {}] /\ buf' = [buf EXCEPT ![p] = 0]
           /\ pending' \in BOOLEAN
           /\ holds' \in [Procs -> SUBSET (Clients \cup {Listener})]
           /\ buf' \in [Procs -> 0 .. MaxPieces]
  BY ForkServersAssumption DEF TypeOK, Exits, Goes

(* Where a process may go. *)
LEMMA GoesType ==
    ASSUME TypeOK, NEW p \in Procs, NEW place, Goes(p, place),
           p = Parent => place \in {"accept", "fork", "close", "start", "read", "write", "ended"},
           p # Parent => place \in {"none", "start", "read", "write", "zombie", "killed",
                                    "reaped", "refused"}
    PROVE  /\ at'[Parent] \in {"accept", "fork", "close", "start", "read", "write", "ended"}
           /\ at' \in [Procs -> {"none", "start", "read", "write", "zombie", "killed", "reaped",
                                 "refused", "accept", "fork", "close", "ended"}]
           /\ \A c \in Clients : at'[c] \notin {"accept", "fork", "close", "ended"}
  BY Numbers DEF TypeOK, Goes

LEMMA TypeNext == Inductive /\ [Next]_vars => TypeOK'
<1>. SUFFICES ASSUME Inductive, TypeOK, Places, [Next]_vars PROVE TypeOK'
  BY DEF Inductive
<1>. USE DEF clientv, signal
<1>1. ASSUME NEW c \in Clients, Connect(c) PROVE TypeOK'
  BY <1>1 DEF Connect, TypeOK
<1>2. ASSUME NEW c \in Clients, Send(c) PROVE TypeOK'
  <2>1. sent' \in [Clients -> Seq(1 .. MaxPieces)]
    BY <1>2, Sent DEF Inductive
  <2>. QED  BY <1>2, <2>1 DEF Send, TypeOK
<1>3. ASSUME NEW c \in Clients, Shutdown(c) \/ Leave(c) PROVE TypeOK'
  BY <1>3 DEF Shutdown, Leave, TypeOK
<1>4. CASE Accept
  <2>1. PICK c \in backlog :
             /\ backlog' = backlog \ {c} /\ clnt_sock' = c
             /\ holds' = [holds EXCEPT ![Parent] = @ \cup {c}]
    BY <1>4 DEF Accept
  <2>2. Goes(Parent, "fork")
    BY <1>4 DEF Accept
  <2>3. holds' \in [Procs -> SUBSET (Clients \cup {Listener})] /\ clnt_sock' \in Clients
    BY <2>1 DEF TypeOK
  <2>. QED  BY <1>4, <2>1, <2>2, <2>3, GoesType, Numbers DEF Accept, TypeOK
<1>5. CASE Fork
  <2>1. clnt_sock \in Clients
    BY <1>5 DEF Fork, Places
  <2>. QED  BY <1>5, <2>1, Numbers DEF Fork, TypeOK
<1>6. CASE ForkFails
  <2>1. clnt_sock \in Clients
    BY <1>6 DEF ForkFails, Places
  <2>2. ASSUME /\ holds' = [holds EXCEPT ![Parent] = @ \ {clnt_sock}]
               /\ at' = [at EXCEPT ![Parent] = "accept", ![clnt_sock] = "refused"]
               /\ clnt_sock' = Nobody
        PROVE  TypeOK'
    BY <1>6, <2>1, <2>2, Numbers DEF ForkFails, TypeOK
  <2>3. ASSUME Goes(Parent, "start"), UNCHANGED <<holds, clnt_sock>> PROVE TypeOK'
    BY <1>6, <2>3, GoesType, Numbers DEF ForkFails, TypeOK
  <2>. QED  BY <1>6, <2>2, <2>3 DEF ForkFails
<1>7. CASE CloseClient
  BY <1>7, Numbers DEF CloseClient, TypeOK, Goes
<1>8. ASSUME NEW p \in Procs, CloseListener(p) PROVE TypeOK'
  BY <1>8, GoesType DEF CloseListener, TypeOK
<1>9. ASSUME NEW p \in Procs, ReadPiece(p) PROVE TypeOK'
  <2>. DEFINE c == Serves(p)
  <2>1. /\ at[p] = "read" /\ taken[c] < Len(sent[c])
        /\ buf' = [buf EXCEPT ![p] = sent[c][taken[c] + 1]]
        /\ taken' = [taken EXCEPT ![c] = @ + 1] /\ Goes(p, "write")
        /\ UNCHANGED <<kind, holds, backlog, peer, sent, got, clnt_sock, signal>>
    BY <1>9 DEF ReadPiece, Unread
  <2>2. c \in Clients
    BY <2>1, ServesOneClient DEF AtWork
  <2>. HIDE DEF c
  <2>3. Len(sent[c]) \in Nat /\ MaxPieces \in Nat
    BY <2>2, ForkServersAssumption DEF TypeOK
  <2>4. taken[c] \in Nat /\ taken[c] + 1 \in 1 .. Len(sent[c])
    BY <2>1, <2>2, <2>3 DEF TypeOK
  <2>5. sent[c][taken[c] + 1] \in 0 .. MaxPieces
    <3>1. sent[c][taken[c] + 1] \in 1 .. MaxPieces
      BY <2>2, <2>4, ElementOfSeq DEF TypeOK
    <3>. QED  BY <2>3, <3>1
  <2>6. buf' \in [Procs -> 0 .. MaxPieces] /\ taken' \in [Clients -> Nat]
    BY <2>1, <2>2, <2>4, <2>5 DEF TypeOK
  <2>. QED  BY <2>1, <2>6, GoesType DEF TypeOK
<1>10. ASSUME NEW p \in Procs, ReadEnd(p) PROVE TypeOK'
  BY <1>10, ExitType, GoesType DEF ReadEnd, Exits, TypeOK
<1>11. ASSUME NEW p \in Procs, ReadError(p) PROVE TypeOK'
  <2>. DEFINE c == Serves(p)
  <2>1. /\ at[p] = "read" /\ peer' = [peer EXCEPT ![c] = "dead"]
        /\ UNCHANGED <<kind, backlog, sent, taken, clnt_sock, handling, stray>>
    BY <1>11 DEF ReadError
  <2>2. c \in Clients
    BY <2>1, ServesOneClient DEF AtWork
  <2>3. peer' \in [Clients -> {"none", "up", "half", "gone", "reset", "dead"}]
    BY <2>1, <2>2 DEF TypeOK
  <2>4. CASE UNCHANGED <<holds, at, got, buf, pending>>
    BY <2>1, <2>3, <2>4 DEF TypeOK
  <2>5. CASE got' = [got EXCEPT ![c] = Append(@, Junk)] /\ UNCHANGED <<holds, at, buf, pending>>
    <3>1. Junk \in 0 .. MaxPieces
      BY ForkServersAssumption DEF Junk
    <3>2. got' \in [Clients -> Seq(0 .. MaxPieces)]
      BY <2>2, <2>5, <3>1 DEF TypeOK
    <3>. QED  BY <2>1, <2>3, <2>5, <3>2 DEF TypeOK
  <2>6. CASE Exits(p, "killed") /\ UNCHANGED got
    BY <2>1, <2>3, <2>6, ExitType, GoesType DEF Exits, TypeOK
  <2>. QED  BY <1>11, <2>4, <2>5, <2>6 DEF ReadError
<1>12. ASSUME NEW p \in Procs, Write(p) PROVE TypeOK'
  <2>. DEFINE c == Serves(p)
  <2>1. /\ at[p] = "write"
        /\ UNCHANGED <<kind, backlog, sent, taken, clnt_sock, handling, stray>>
    BY <1>12 DEF Write
  <2>2. c \in Clients
    BY <2>1, ServesOneClient DEF AtWork
  <2>3. CASE /\ got' = [got EXCEPT ![c] = Append(@, buf[p])]
             /\ Goes(p, "read") /\ buf' = [buf EXCEPT ![p] = 0]
             /\ UNCHANGED <<peer, holds, pending>>
    <3>1. buf[p] \in 0 .. MaxPieces /\ 0 \in 0 .. MaxPieces
      BY ForkServersAssumption DEF TypeOK
    <3>2. got' \in [Clients -> Seq(0 .. MaxPieces)]
      BY <2>2, <2>3, <3>1 DEF TypeOK
    <3>. QED  BY <2>1, <2>3, <3>1, <3>2, GoesType DEF TypeOK
  <2>4. CASE /\ UNCHANGED peer \/ peer' = [peer EXCEPT ![c] = "dead"]
             /\ Goes(p, "read") /\ buf' = [buf EXCEPT ![p] = 0]
             /\ UNCHANGED <<got, holds, pending>>
    <3>1. 0 \in 0 .. MaxPieces
      BY ForkServersAssumption
    <3>. QED  BY <2>1, <2>2, <2>4, <3>1, GoesType DEF TypeOK
  <2>5. CASE Exits(p, "killed") /\ UNCHANGED <<got, peer>>
    BY <2>1, <2>5, ExitType, GoesType DEF Exits, TypeOK
  <2>. QED  BY <1>12, <2>3, <2>4, <2>5 DEF Write
<1>13. CASE HandlerEnter
  BY <1>13 DEF HandlerEnter, TypeOK
<1>14. CASE Reap
  <2>1. /\ handling' = FALSE /\ stray' \in BOOLEAN
        /\ UNCHANGED <<kind, backlog, peer, sent, taken, got, clnt_sock, buf, pending>>
    BY <1>14 DEF Reap, TypeOK
  <2>2. ASSUME NEW c \in Zombies, ReapChild(c) PROVE TypeOK'
    BY <2>1, <2>2, Numbers DEF ReapChild, Zombies, TypeOK, Goes
  <2>3. CASE ReapNone
    BY <2>1, <2>3, Numbers DEF ReapNone, TypeOK, Goes
  <2>. QED  BY <1>14, <2>2, <2>3 DEF Reap
<1>15. ASSUME NEW c \in Clients, StopOrContinue(c) PROVE TypeOK'
  BY <1>15 DEF StopOrContinue, TypeOK
<1>16. CASE UNCHANGED vars
  BY <1>16 DEF vars, TypeOK
<1>. QED  BY <1>1, <1>2, <1>3, <1>4, <1>5, <1>6, <1>7, <1>8, <1>9, <1>10, <1>11, <1>12,
             <1>13, <1>14, <1>15, <1>16
          DEF Next, ParentStep, Handler, Child, Client

-----------------------------------------------------------------------------

(* What a process holds, and which clients wait, is as before. *)
LEMMA PlacesSame ==
    ASSUME HoldsOnlyItsOwn, Places, ByKind, UNCHANGED <<kind, holds, backlog, at, clnt_sock>>,
           \A c \in Clients : peer'[c] = "none" => peer[c] = "none",
           pending' \/ handling' \/ stray' => pending \/ handling \/ stray \/ kind = "echo"
    PROVE  HoldsOnlyItsOwn' /\ Places' /\ ByKind'
  BY DEF HoldsOnlyItsOwn, Places, ByKind, ParentServes

(* A process at work goes on with its connection alone. *)
LEMMA PlacesWork ==
    ASSUME TypeOK, HoldsOnlyItsOwn, Places, ByKind, NEW p \in Procs, at[p] \in {"read", "write"},
           NEW place \in {"read", "write"}, Goes(p, place),
           \A c \in Clients : peer'[c] = "none" => peer[c] = "none",
           UNCHANGED <<kind, holds, backlog, clnt_sock, signal>>
    PROVE  HoldsOnlyItsOwn' /\ Places' /\ ByKind'
<1>. USE DEF signal
<1>1. AtWork(p)
  BY DEF AtWork
<1>2. CASE p = Parent
  <2>1. at'[Parent] = place /\ \A c \in Clients : at'[c] = at[c]
    BY <1>2, Numbers DEF Goes, TypeOK
  <2>. QED  BY <1>2, <2>1 DEF HoldsOnlyItsOwn, Places, ByKind, ParentServes
<1>3. CASE p # Parent
  <2>1. /\ p \in Clients /\ at'[p] = place /\ at'[Parent] = at[Parent]
        /\ \A c \in Clients \ {p} : at'[c] = at[c]
    BY <1>1, <1>3, ServesOneClient DEF Goes, TypeOK
  <2>2. at[Parent] = "fork" \/ ParentServes => p # clnt_sock
    BY <1>1, ServesOneClient
  <2>. QED  BY <2>1, <2>2 DEF HoldsOnlyItsOwn, Places, ByKind, ParentServes
<1>. QED  BY <1>2, <1>3

(* A process that ends holds nothing. *)
LEMMA PlacesExit ==
    ASSUME TypeOK, HoldsOnlyItsOwn, Places, ByKind, NEW p \in Procs, at[p] \in {"read", "write"},
           NEW place \in {"zombie", "killed"}, Exits(p, place),
           \A c \in Clients : peer'[c] = "none" => peer[c] = "none",
           UNCHANGED <<kind, backlog, clnt_sock, handling, stray>>
    PROVE  HoldsOnlyItsOwn' /\ Places' /\ ByKind'
<1>1. AtWork(p)
  BY DEF AtWork
<1>2. pending' => pending \/ kind = "echo"
  BY DEF Exits
<1>3. CASE p = Parent
  <2>1. /\ at'[Parent] = "ended" /\ \A c \in Clients : at'[c] = at[c]
        /\ holds'[Parent] = {} /\ \A c \in Clients : holds'[c] = holds[c]
    <3>1. at' = [at EXCEPT ![Parent] = "ended"] /\ holds' = [holds EXCEPT ![Parent] = {}]
      BY <1>3, ExitType
    <3>. QED  BY <3>1, Numbers DEF TypeOK
  <2>. QED  BY <1>2, <2>1 DEF HoldsOnlyItsOwn, Places, ByKind, ParentServes
<1>4. CASE p # Parent
  <2>1. /\ p \in Clients /\ at'[p] = place /\ at'[Parent] = at[Parent]
        /\ holds'[p] = {} /\ holds'[Parent] = holds[Parent]
        /\ \A c \in Clients \ {p} : at'[c] = at[c] /\ holds'[c] = holds[c]
    <3>1. p \in Clients /\ p # Parent
      BY <1>4, Numbers
    <3>2. at' = [at EXCEPT ![p] = place] /\ holds' = [holds EXCEPT ![p] = {}]
      BY <1>4, ExitType
    <3>. QED  BY <3>1, <3>2, Numbers DEF TypeOK
  <2>2. at[Parent] = "fork" \/ ParentServes => p # clnt_sock
    BY <1>1, ServesOneClient
  <2>. QED  BY <1>2, <2>1, <2>2 DEF HoldsOnlyItsOwn, Places, ByKind, ParentServes
<1>. QED  BY <1>3, <1>4

LEMMA PlacesNext == Inductive /\ [Next]_vars => HoldsOnlyItsOwn' /\ Places' /\ ByKind'
<1>. DEFINE Goal == HoldsOnlyItsOwn /\ Places /\ ByKind
<1>. SUFFICES ASSUME TypeOK, HoldsOnlyItsOwn, Places, ByKind, [Next]_vars PROVE Goal'
  BY DEF Inductive
<1>. USE DEF clientv, signal
<1>t. /\ at \in [Procs -> {"none", "start", "read", "write", "zombie", "killed", "reaped",
                         "refused", "accept", "fork", "close", "ended"}]
      /\ at[Parent] \in {"accept", "fork", "close", "start", "read", "write", "ended"}
      /\ holds \in [Procs -> SUBSET (Clients \cup {Listener})]
      /\ peer \in [Clients -> {"none", "up", "half", "gone", "reset", "dead"}]
      /\ backlog \subseteq Clients
      /\ \A c \in Clients : at[c] \notin {"accept", "fork", "close", "ended"}
  BY DEF TypeOK
<1>1. ASSUME NEW c \in Clients, Connect(c) PROVE Goal'
  <2>1. /\ peer[c] = "none" /\ peer'[c] = "up" /\ \A d \in Clients \ {c} : peer'[d] = peer[d]
        /\ backlog' = backlog \cup {c}
        /\ UNCHANGED <<kind, holds, at, clnt_sock, signal>>
    BY <1>1, <1>t DEF Connect
  <2>. QED  BY <2>1 DEF HoldsOnlyItsOwn, Places, ByKind, ParentServes
<1>2. ASSUME NEW c \in Clients, Send(c) PROVE Goal'
  BY <1>2, PlacesSame DEF Send
<1>3. ASSUME NEW c \in Clients, Shutdown(c) \/ Leave(c) PROVE Goal'
  <2>1. \A d \in Clients : peer'[d] = "none" => peer[d] = "none"
    BY <1>3, <1>t DEF Shutdown, Leave
  <2>. QED  BY <1>3, <2>1, PlacesSame DEF Shutdown, Leave
<1>4. CASE Accept
  <2>1. PICK c \in backlog :
             /\ backlog' = backlog \ {c} /\ clnt_sock' = c
             /\ holds' = [holds EXCEPT ![Parent] = @ \cup {c}]
    BY <1>4 DEF Accept
  <2>2. /\ at[Parent] = "accept" /\ at' = [at EXCEPT ![Parent] = "fork"]
        /\ UNCHANGED <<kind, peer, signal>>
    BY <1>4 DEF Accept, Goes
  <2>3. /\ at'[Parent] = "fork" /\ \A d \in Clients : at'[d] = at[d] /\ holds'[d] = holds[d]
        /\ holds'[Parent] = {Listener, c} /\ c \in Clients
    BY <1>t, <2>1, <2>2, Numbers DEF HoldsOnlyItsOwn
  <2>4. at[c] = "none" /\ peer[c] # "none"
    BY <2>3 DEF Places
  <2>. QED  BY <2>1, <2>2, <2>3, <2>4 DEF HoldsOnlyItsOwn, Places, ByKind, ParentServes
<1>5. CASE Fork
  <2>. DEFINE c == clnt_sock
  <2>1. /\ c \in Clients /\ holds[Parent] = {Listener, c} /\ at[c] = "none" /\ c \notin backlog
        /\ peer[c] # "none"
    BY <1>5 DEF Fork, Places
  <2>2. /\ at'[Parent] = "close" /\ at'[c] = "start" /\ \A d \in Clients \ {c} : at'[d] = at[d]
        /\ holds'[c] = {Listener, c} /\ holds'[Parent] = {Listener, c}
        /\ \A d \in Clients \ {c} : holds'[d] = holds[d]
        /\ UNCHANGED <<kind, backlog, peer, clnt_sock, signal>>
    BY <1>5, <1>t, <2>1, Numbers DEF Fork
  <2>. QED  BY <2>1, <2>2 DEF HoldsOnlyItsOwn, Places, ByKind, ParentServes
<1>6. CASE ForkFails
  <2>. DEFINE c == clnt_sock
  <2>1. /\ c \in Clients /\ holds[Parent] = {Listener, c} /\ at[c] = "none" /\ c \notin backlog
        /\ peer[c] # "none" /\ holds[c] = {}
    BY <1>6 DEF ForkFails, Places
  <2>2. at[Parent] = "fork" /\ UNCHANGED <<kind, backlog, peer, signal>>
    BY <1>6 DEF ForkFails
  <2>3. ASSUME kind = "echo", holds' = [holds EXCEPT ![Parent] = @ \ {clnt_sock}],
               at' = [at EXCEPT ![Parent] = "accept", ![clnt_sock] = "refused"],
               clnt_sock' = Nobody
        PROVE  Goal'
    <3>1. /\ at'[Parent] = "accept" /\ at'[c] = "refused"
          /\ \A d \in Clients \ {c} : at'[d] = at[d]
          /\ \A d \in Clients : holds'[d] = holds[d] /\ holds'[Parent] = {Listener}
          /\ clnt_sock' \notin Clients
      BY <2>1, <2>3, <1>t, Numbers
    <3>. QED  BY <2>1, <2>2, <3>1 DEF HoldsOnlyItsOwn, Places, ByKind, ParentServes
  <2>4. ASSUME kind = "log", Goes(Parent, "start"), UNCHANGED <<holds, clnt_sock>> PROVE Goal'
    <3>1. at'[Parent] = "start" /\ \A d \in Clients : at'[d] = at[d]
      BY <2>4, <1>t, Numbers DEF Goes
    <3>. QED  BY <2>1, <2>2, <2>4, <3>1 DEF HoldsOnlyItsOwn, Places, ByKind, ParentServes
  <2>. QED  BY <1>6, <2>3, <2>4 DEF ForkFails
<1>7. CASE CloseClient
  <2>1. /\ clnt_sock \in Clients /\ holds[Parent] = {Listener, clnt_sock}
        /\ holds' = [holds EXCEPT ![Parent] = @ \ {clnt_sock}]
        /\ at' = [at EXCEPT ![Parent] = "accept"] /\ clnt_sock' = Nobody
        /\ UNCHANGED <<kind, backlog, peer, signal>>
    BY <1>7 DEF CloseClient, Places, Goes
  <2>2. /\ at'[Parent] = "accept" /\ holds'[Parent] = {Listener} /\ clnt_sock' \notin Clients
        /\ \A d \in Clients : at'[d] = at[d] /\ holds'[d] = holds[d]
    BY <2>1, <1>t, Numbers
  <2>. QED  BY <2>1, <2>2 DEF HoldsOnlyItsOwn, Places, ByKind, ParentServes
<1>8. ASSUME NEW p \in Procs, CloseListener(p) PROVE Goal'
  <2>1. /\ AtWork(p) /\ at[p] = "start" /\ at' = [at EXCEPT ![p] = "read"]
        /\ holds' = [holds EXCEPT ![p] = @ \ {Listener}]
        /\ UNCHANGED <<kind, backlog, peer, clnt_sock, signal>>
    BY <1>8 DEF CloseListener, Goes, AtWork
  <2>2. CASE p = Parent
    <3>1. /\ at'[Parent] = "read" /\ holds'[Parent] = {clnt_sock}
          /\ \A d \in Clients : at'[d] = at[d] /\ holds'[d] = holds[d]
      BY <2>1, <2>2, <1>t, Numbers DEF Places, ParentServes
    <3>. QED  BY <2>1, <2>2, <3>1 DEF HoldsOnlyItsOwn, Places, ByKind, ParentServes
  <2>3. CASE p # Parent
    <3>1. /\ p \in Clients /\ at'[p] = "read" /\ holds'[p] = {p}
          /\ at'[Parent] = at[Parent] /\ holds'[Parent] = holds[Parent]
          /\ \A d \in Clients \ {p} : at'[d] = at[d] /\ holds'[d] = holds[d]
      <4>1. p \in Clients /\ holds[p] = {Listener, p} /\ p # Listener
        BY <2>1, <2>3, Numbers DEF Places
      <4>. QED  BY <2>1, <2>3, <4>1, <1>t, Numbers
    <3>2. at[Parent] = "fork" \/ ParentServes => p # clnt_sock
      BY <2>1, ServesOneClient
    <3>. QED  BY <2>1, <3>1, <3>2 DEF HoldsOnlyItsOwn, Places, ByKind, ParentServes
  <2>. QED  BY <2>2, <2>3
<1>9. ASSUME NEW p \in Procs, ReadPiece(p) PROVE Goal'
  BY <1>9, PlacesWork DEF ReadPiece
<1>10. ASSUME NEW p \in Procs, ReadEnd(p) PROVE Goal'
  BY <1>10, PlacesExit DEF ReadEnd
<1>11. ASSUME NEW p \in Procs, ReadError(p) PROVE Goal'
  <2>1. /\ at[p] = "read" /\ UNCHANGED <<kind, backlog, clnt_sock, handling, stray>>
        /\ UNCHANGED <<holds, at, pending>> \/ Exits(p, "killed")
    BY <1>11 DEF ReadError
  <2>2. \A c \in Clients : peer'[c] = "none" => peer[c] = "none"
    BY <1>11, <1>t DEF ReadError
  <2>. QED  BY <2>1, <2>2, PlacesSame, PlacesExit
<1>12. ASSUME NEW p \in Procs, Write(p) PROVE Goal'
  <2>1. /\ at[p] = "write" /\ UNCHANGED <<kind, backlog, clnt_sock, handling, stray>>
        /\ \/ Goes(p, "read") /\ UNCHANGED <<holds, pending>>
           \/ Exits(p, "killed")
    BY <1>12 DEF Write
  <2>2. \A c \in Clients : peer'[c] = "none" => peer[c] = "none"
    BY <1>12, <1>t DEF Write
  <2>. QED  BY <2>1, <2>2, PlacesWork, PlacesExit
<1>13. CASE HandlerEnter
  BY <1>13, PlacesSame DEF HandlerEnter
<1>14. ASSUME NEW c \in Zombies, ReapChild(c), Reap PROVE Goal'
  <2>2. handling /\ UNCHANGED <<kind, backlog, peer, clnt_sock, pending>>
    BY <1>14 DEF Reap
  <2>3. c \in Clients /\ at[c] \in {"zombie", "killed"} /\ holds[c] = {}
    BY DEF Zombies, HoldsOnlyItsOwn
  <2>4. c \in Procs /\ Parent \in Procs /\ c # Parent /\ Parent \notin Clients
    BY <2>3, Numbers
  <2>5. CASE Goes(c, "reaped") /\ UNCHANGED holds
    <3>1. /\ at'[c] = "reaped" /\ at'[Parent] = at[Parent]
          /\ \A d \in Clients \ {c} : at'[d] = at[d]
      BY <2>3, <2>4, <2>5, <1>t, Numbers DEF Goes
    <3>. QED  BY <2>2, <2>3, <2>5, <3>1 DEF HoldsOnlyItsOwn, Places, ByKind, ParentServes
  <2>6. CASE /\ at' = [at EXCEPT ![c] = "reaped", ![Parent] = "ended"]
             /\ holds' = [holds EXCEPT ![Parent] = {}]
    <3>1. /\ at'[c] = "reaped" /\ at'[Parent] = "ended"
          /\ \A d \in Clients \ {c} : at'[d] = at[d]
          /\ holds'[Parent] = {} /\ \A d \in Clients : holds'[d] = holds[d]
      BY <2>3, <2>4, <2>6, <1>t, Numbers
    <3>. QED  BY <2>2, <2>3, <3>1 DEF HoldsOnlyItsOwn, Places, ByKind, ParentServes
  <2>. QED  BY <1>14, <2>5, <2>6 DEF ReapChild
<1>15. CASE ReapNone /\ Reap
  <2>1. handling /\ UNCHANGED <<kind, backlog, peer, clnt_sock, pending>>
    BY <1>15 DEF Reap
  <2>2. CASE UNCHANGED <<at, holds>>
    BY <2>1, <2>2, PlacesSame DEF ByKind
  <2>3. CASE Goes(Parent, "ended") /\ holds' = [holds EXCEPT ![Parent] = {}]
    <3>1. /\ at'[Parent] = "ended" /\ \A d \in Clients : at'[d] = at[d]
          /\ holds'[Parent] = {} /\ \A d \in Clients : holds'[d] = holds[d]
      BY <2>3, <1>t, Numbers DEF Goes
    <3>. QED  BY <2>1, <3>1 DEF HoldsOnlyItsOwn, Places, ByKind, ParentServes
  <2>. QED  BY <1>15, <2>2, <2>3 DEF ReapNone
<1>16. ASSUME NEW c \in Clients, StopOrContinue(c) PROVE Goal'
  BY <1>16, PlacesSame DEF StopOrContinue
<1>17. CASE UNCHANGED vars
  BY <1>17, PlacesSame DEF vars
<1>. QED  BY <1>1, <1>2, <1>3, <1>4, <1>5, <1>6, <1>7, <1>8, <1>9, <1>10, <1>11, <1>12,
             <1>13, <1>14, <1>15, <1>16, <1>17
          DEF Next, ParentStep, Handler, Reap, Child, Client

-----------------------------------------------------------------------------

(* How many children the handler has to find. *)
Due == (IF pending THEN 1 ELSE 0) + (IF handling THEN 1 ELSE 0)

(* How many children have ended is a number, which grows by one with a child
   that ends and shrinks by one with a child that is reaped. *)
LEMMA CountedZombies ==
    /\ Zombies \subseteq Clients /\ Cardinality(Zombies) \in Nat
    /\ \A c \in Clients \ Zombies : Cardinality(Zombies \cup {c}) = Cardinality(Zombies) + 1
    /\ \A c \in Zombies : /\ Cardinality(Zombies \ {c}) = Cardinality(Zombies) - 1
                          /\ Cardinality(Zombies \ {c}) \in Nat
<1>1. Zombies \in SUBSET Clients /\ IsFiniteSet(Clients)
  BY Numbers DEF Zombies
<1>2. IsFiniteSet(Zombies)
  BY <1>1, FS_Subset
<1>3. \A c \in Zombies : Cardinality(Zombies \ {c}) \in Nat
  BY <1>2, FS_Subset, FS_CardinalityType
<1>. QED  BY <1>1, <1>2, <1>3, FS_AddElement, FS_RemoveElement, FS_CardinalityType

(* A step that ends no child and raises no signal. *)
LEMMA HandlerSame ==
    ASSUME HandlerHasChild, UNCHANGED <<pending, handling, stray>>,
           \A c \in Clients : at'[c] \in {"zombie", "killed"} <=> at[c] \in {"zombie", "killed"},
           at[Parent] = "ended" => at'[Parent] = "ended"
    PROVE  HandlerHasChild'
<1>1. Zombies' = Zombies
  BY DEF Zombies
<1>. QED  BY <1>1 DEF HandlerHasChild

(* A child that ends is one more to be found, for the one signal it raises. *)
LEMMA HandlerExit ==
    ASSUME TypeOK, HandlerHasChild, NEW p \in Procs, at[p] \in {"read", "write"},
           NEW place \in {"zombie", "killed"}, Exits(p, place), UNCHANGED <<handling, stray>>
    PROVE  HandlerHasChild'
<1>1. at' = [at EXCEPT ![p] = IF p = Parent THEN "ended" ELSE place]
  BY ExitType
<1>2. CASE p = Parent
  <2>1. at'[Parent] = "ended"
    BY <1>1, <1>2, Numbers DEF TypeOK
  <2>. QED  BY <2>1 DEF HandlerHasChild
<1>3. CASE p # Parent
  <2>1. p \in Clients /\ at'[Parent] = at[Parent]
    BY <1>1, <1>3, Numbers DEF TypeOK
  <2>2. Zombies' = Zombies \cup {p} /\ p \notin Zombies
    BY <1>1, <1>3, <2>1, Numbers DEF Zombies, TypeOK
  <2>3. Cardinality(Zombies') = Cardinality(Zombies) + 1 /\ Cardinality(Zombies) \in Nat
    BY <2>1, <2>2, CountedZombies
  <2>4. Due' <= Due + 1
    BY DEF Due
  <2>5. Due \in Nat /\ Due' \in Nat
    BY DEF Due
  <2>. QED  BY <2>1, <2>3, <2>4, <2>5 DEF HandlerHasChild, Due
<1>. QED  BY <1>2, <1>3

(* What a stop brought is over only when no signal is left. *)
LEMMA LastStray ==
    ASSUME Reap, stray, ~stray'
    PROVE  Due' = 0
<1>1. ~pending' /\ ~handling'
  <2>1. stray' = (stray /\ pending) /\ pending' = pending /\ handling' = FALSE
    BY DEF Reap
  <2>2. ~(stray /\ pending)
    BY <2>1, Zenon
  <2>. QED  BY <2>1, <2>2
<1>. QED  BY <1>1 DEF Due

LEMMA HandlerNext == Inductive /\ [Next]_vars => HandlerHasChild'
<1>. SUFFICES ASSUME TypeOK, HandlerHasChild, Places, [Next]_vars PROVE HandlerHasChild'
  BY DEF Inductive
<1>. USE DEF signal
<1>t. /\ at \in [Procs -> {"none", "start", "read", "write", "zombie", "killed", "reaped",
                         "refused", "accept", "fork", "close", "ended"}]
      /\ \A c \in Clients : at[c] \notin {"accept", "fork", "close", "ended"}
  BY DEF TypeOK
<1>1. ASSUME NEW c \in Clients, Client(c) PROVE HandlerHasChild'
  <2>1. UNCHANGED <<at, signal>>
    BY <1>1 DEF Client, Connect, Send, Shutdown, Leave
  <2>. QED  BY <2>1, HandlerSame
<1>2. ASSUME Accept \/ CloseClient PROVE HandlerHasChild'
  <2>1. /\ at' = [at EXCEPT ![Parent] = "fork"] \/ at' = [at EXCEPT ![Parent] = "accept"]
        /\ at[Parent] # "ended" /\ UNCHANGED signal
    BY <1>2 DEF Accept, CloseClient, Goes
  <2>2. \A c \in Clients : at'[c] = at[c]
    BY <2>1, <1>t, Numbers
  <2>. QED  BY <2>1, <2>2, HandlerSame
<1>3. ASSUME Fork \/ ForkFails PROVE HandlerHasChild'
  <2>1. at[Parent] = "fork" /\ UNCHANGED signal
    BY <1>3 DEF Fork, ForkFails
  <2>2. clnt_sock \in Clients /\ at[clnt_sock] = "none"
    BY <2>1 DEF Places
  <2>3. \/ at' = [at EXCEPT ![Parent] = "close", ![clnt_sock] = "start"]
        \/ at' = [at EXCEPT ![Parent] = "accept", ![clnt_sock] = "refused"]
        \/ at' = [at EXCEPT ![Parent] = "start"]
    BY <1>3 DEF Fork, ForkFails, Goes
  <2>4. /\ at'[clnt_sock] \in {"none", "start", "refused"}
        /\ \A c \in Clients \ {clnt_sock} : at'[c] = at[c]
    BY <2>2, <2>3, <1>t, Numbers
  <2>. QED  BY <2>1, <2>2, <2>4, HandlerSame
<1>4. ASSUME NEW p \in Procs, at[p] \in {"start", "read", "write"},
             at' = [at EXCEPT ![p] = "read"] \/ at' = [at EXCEPT ![p] = "write"] \/ UNCHANGED at,
             UNCHANGED signal
      PROVE  HandlerHasChild'
  <2>1. at'[p] \in {"start", "read", "write"} /\ \A c \in Clients \ {p} : at'[c] = at[c]
    BY <1>4, <1>t, Numbers
  <2>2. at[Parent] = "ended" => at'[Parent] = "ended"
    BY <1>4, <1>t, Numbers
  <2>. QED  BY <1>4, <2>1, <2>2, HandlerSame
<1>5. ASSUME NEW p \in Procs, Child(p) PROVE HandlerHasChild'
  <2>1. CASE CloseListener(p) \/ ReadPiece(p)
    BY <1>4, <2>1 DEF CloseListener, ReadPiece, Goes
  <2>2. CASE ReadEnd(p)
    BY <2>2, HandlerExit DEF ReadEnd
  <2>3. CASE ReadError(p)
    <3>1. /\ at[p] = "read" /\ UNCHANGED <<handling, stray>>
          /\ UNCHANGED <<at, pending>> \/ Exits(p, "killed")
      BY <2>3 DEF ReadError
    <3>. QED  BY <1>4, <3>1, HandlerExit
  <2>4. CASE Write(p)
    <3>1. /\ at[p] = "write" /\ UNCHANGED <<handling, stray>>
          /\ \/ Goes(p, "read") /\ UNCHANGED pending
             \/ Exits(p, "killed")
      BY <2>4 DEF Write
    <3>. QED  BY <1>4, <3>1, HandlerExit DEF Goes
  <2>. QED  BY <1>5, <2>1, <2>2, <2>3, <2>4 DEF Child
<1>6. CASE HandlerEnter
  <2>1. Zombies' = Zombies /\ Due' = Due /\ UNCHANGED <<at, stray>>
    BY <1>6 DEF HandlerEnter, Zombies, Due
  <2>. QED  BY <2>1 DEF HandlerHasChild, Due
<1>7. ASSUME NEW c \in Zombies, ReapChild(c), Reap PROVE HandlerHasChild'
  <2>2. c \in Clients /\ c \in Procs /\ Parent \in Procs /\ c # Parent
    BY Numbers DEF Zombies
  <2>3. CASE at' = [at EXCEPT ![c] = "reaped", ![Parent] = "ended"]
    <3>1. at'[Parent] = "ended"
      BY <2>2, <2>3, <1>t
    <3>. QED  BY <3>1 DEF HandlerHasChild
  <2>4. CASE Goes(c, "reaped")
    <3>1. at'[Parent] = at[Parent] /\ Zombies' = Zombies \ {c}
      BY <2>2, <2>4, <1>t, Numbers DEF Goes, Zombies
    <3>2. /\ Cardinality(Zombies') = Cardinality(Zombies) - 1
          /\ Cardinality(Zombies) \in Nat /\ Cardinality(Zombies') \in Nat
      BY <3>1, CountedZombies
    <3>3. Due' = Due - 1 /\ Due \in Nat /\ Due' \in Nat
      BY <1>7 DEF Reap, Due
    <3>4. CASE stray
      <4>1. ~stray' => Due' = 0
        BY <1>7, <3>4, LastStray
      <4>. QED  BY <3>2, <4>1 DEF HandlerHasChild, Due
    <3>5. CASE ~stray
      BY <3>1, <3>2, <3>3, <3>5 DEF HandlerHasChild, Due
    <3>. QED  BY <3>4, <3>5
  <2>. QED  BY <1>7, <2>3, <2>4 DEF ReapChild
<1>8. CASE ReapNone /\ Reap
  <2>1. CASE at'[Parent] = "ended"
    BY <2>1 DEF HandlerHasChild
  <2>2. CASE UNCHANGED at
    <3>1. Zombies' = {} /\ Cardinality(Zombies') = 0 /\ Cardinality(Zombies) = 0
      BY <1>8, <2>2, FS_EmptySet DEF ReapNone, Zombies
    <3>2. Due >= 1
      BY <1>8 DEF Reap, Due
    <3>3. at[Parent] # "ended" => stray
      BY <3>1, <3>2 DEF HandlerHasChild, Due
    <3>4. stray /\ ~stray' => Due' = 0
      BY <1>8, LastStray
    <3>. QED  BY <2>2, <3>1, <3>3, <3>4 DEF HandlerHasChild, Due
  <2>3. Goes(Parent, "ended") => at'[Parent] = "ended"
    BY <1>t, Numbers DEF Goes
  <2>. QED  BY <1>8, <2>1, <2>2, <2>3 DEF ReapNone
<1>9. ASSUME NEW c \in Clients, StopOrContinue(c) PROVE HandlerHasChild'
  BY <1>9 DEF StopOrContinue, HandlerHasChild
<1>10. CASE UNCHANGED vars
  BY <1>10, HandlerSame DEF vars
<1>. QED  BY <1>1, <1>2, <1>3, <1>5, <1>6, <1>7, <1>8, <1>9, <1>10
          DEF Next, ParentStep, Handler, Reap

-----------------------------------------------------------------------------

(* Every step but Send leaves what was sent alone. *)
LEMMA OnlySendSends ==
    ASSUME [Next]_vars
    PROVE  UNCHANGED sent \/ \E c \in Clients : Send(c)
<1>. USE DEF clientv
<1>1. ASSUME NEW c \in Clients, Connect(c) \/ Shutdown(c) \/ Leave(c) PROVE UNCHANGED sent
  BY <1>1 DEF Connect, Shutdown, Leave
<1>2. ASSUME ParentStep PROVE UNCHANGED sent
  BY <1>2 DEF ParentStep, Accept, Fork, ForkFails, CloseClient
<1>3. ASSUME NEW p \in Procs, Child(p) PROVE UNCHANGED sent
  BY <1>3 DEF Child, CloseListener, ReadPiece, ReadEnd, ReadError, Write
<1>4. ASSUME Handler PROVE UNCHANGED sent
  BY <1>4 DEF Handler, HandlerEnter, Reap
<1>5. ASSUME NEW c \in Clients, StopOrContinue(c) PROVE UNCHANGED sent
  BY <1>5 DEF StopOrContinue
<1>6. CASE UNCHANGED vars
  BY <1>6 DEF vars
<1>. QED  BY <1>1, <1>2, <1>3, <1>4, <1>5, <1>6 DEF Next, Client

-----------------------------------------------------------------------------

(* What a process holds of its client's pieces, if it serves one. *)
LEMMA HeldByServer ==
    ASSUME TypeOK, Places, NEW p \in Procs, AtWork(p)
    PROVE  LET c == Serves(p) IN
           /\ Held(c) = IF at[p] = "write" THEN 1 ELSE 0
           /\ \A q \in Procs \ {p} : at[q] = "write" => Serves(q) # c
<1>. DEFINE c == Serves(p)
<1>1. c \in Clients /\ \A q \in Procs : AtWork(q) /\ Serves(q) = c => q = p
  BY ServesOneClient
<1>2. \A q \in Procs \ {p} : at[q] = "write" => Serves(q) # c
  BY <1>1 DEF AtWork
<1>3. CASE p = Parent
  <2>1. c = clnt_sock /\ c \in Procs /\ c # Parent
    BY <1>1, <1>3, Numbers DEF Serves
  <2>2. at[c] # "write"
    BY <1>2, <1>3, <2>1 DEF Serves
  <2>. QED  BY <1>2, <1>3, <2>1, <2>2 DEF Held
<1>4. CASE p # Parent
  <2>1. c = p
    BY <1>4 DEF Serves
  <2>2. ~(at[Parent] = "write" /\ clnt_sock = c)
    BY <1>2, <1>4, Numbers DEF Serves
  <2>. QED  BY <1>2, <2>1, <2>2 DEF Held
<1>. QED  BY <1>3, <1>4

(* When a server of c moves, what is held of another client's stays. *)
LEMMA HeldElsewhere ==
    ASSUME TypeOK, Places, NEW p \in Procs, AtWork(p), UNCHANGED clnt_sock,
           \A q \in Procs \ {p} : at'[q] = at[q]
    PROVE  /\ \A d \in Clients \ {Serves(p)} : Held(d)' = Held(d)
           /\ Held(Serves(p))' = IF at'[p] = "write" THEN 1 ELSE 0
           /\ \A q \in Procs : Serves(q)' = Serves(q)
<1>1. \A q \in Procs : Serves(q)' = Serves(q)
  BY DEF Serves
<1>2. \A q \in Procs \ {p} : at[q] = "write" => Serves(q) # Serves(p)
  BY HeldByServer
<1>3. CASE p = Parent
  <2>1. Serves(p) = clnt_sock /\ clnt_sock \in Clients /\ \A d \in Clients : d \in Procs \ {p}
    BY <1>3, ServesOneClient, Numbers DEF Serves
  <2>2. at[clnt_sock] # "write"
    BY <1>2, <1>3, <2>1, Numbers DEF Serves
  <2>. QED  BY <1>1, <1>3, <2>1, <2>2 DEF Held
<1>4. CASE p # Parent
  <2>1. Serves(p) = p /\ p \in Clients /\ Parent \in Procs \ {p}
    BY <1>4, ServesOneClient, Numbers DEF Serves
  <2>2. ~(at[Parent] = "write" /\ clnt_sock = p)
    BY <1>2, <1>4, <2>1, Numbers DEF Serves
  <2>. QED  BY <1>1, <1>4, <2>1, <2>2, Numbers DEF Held
<1>. QED  BY <1>3, <1>4

(* Reads and answers stay as they are, and so does what is held. *)
LEMMA AccountsSame ==
    ASSUME Accounted, UNCHANGED <<kind, sent, taken, got>>,
           \A c \in Clients :
               /\ peer'[c] \in {"none", "up", "half"} => peer[c] \in {"none", "up", "half"}
               /\ peer[c] = "dead" => peer'[c] = "dead"
               /\ Held(c)' = Held(c),
           \A p \in Procs : at'[p] = "write" =>
               at[p] = "write" /\ buf'[p] = buf[p] /\ Serves(p)' = Serves(p)
    PROVE  Accounted'
<1>1. \A c \in Clients : Written(c)' = Written(c) /\ Junked(c)' = Junked(c) /\ Unread(c)' = Unread(c)
  BY DEF Written, Junked, Unread
<1>2. \A c \in Clients :
          /\ taken'[c] <= Len(sent'[c])
          /\ kind' = "log" \/ peer'[c] \in {"none", "up", "half"} =>
                Len(Written(c)') + Held(c)' = taken'[c]
          /\ Junked(c)' => peer'[c] = "dead" /\ Held(c)' = 0 /\ ~Unread(c)'
  BY <1>1 DEF Accounted
<1>3. \A p \in Procs : at'[p] = "write" =>
          /\ taken'[Serves(p)'] > 0
          /\ buf'[p] = sent'[Serves(p)'][taken'[Serves(p)']]
  BY DEF Accounted
<1>. QED  BY <1>2, <1>3 DEF Accounted

(* Nobody's answers change when processes move that are not at work. *)
LEMMA AccountsApart ==
    ASSUME Accounted, UNCHANGED <<kind, sent, taken, got, buf, clnt_sock>>,
           \A p \in Procs : at'[p] = "write" <=> at[p] = "write",
           \A c \in Clients :
               /\ peer'[c] \in {"none", "up", "half"} => peer[c] \in {"none", "up", "half"}
               /\ peer[c] = "dead" => peer'[c] = "dead"
    PROVE  Accounted'
<1>1. \A c \in Clients : Held(c)' = Held(c)
  BY Numbers DEF Held
<1>2. \A p \in Procs : Serves(p)' = Serves(p)
  BY DEF Serves
<1>. QED  BY <1>1, <1>2, AccountsSame

(* Rubbish after what was written changes nothing about it; a piece does. *)
LEMMA WrittenAppend ==
    ASSUME TypeOK, NEW c \in Clients, ~Junked(c), NEW x \in 0 .. MaxPieces,
           got' = [got EXCEPT ![c] = Append(@, x)]
    PROVE  /\ Written(c) = got[c]
           /\ x = Junk => Junked(c)' /\ Written(c)' = Written(c)
           /\ x # Junk => ~Junked(c)' /\ Written(c)' = Append(Written(c), x)
                          /\ Len(Written(c)') = Len(Written(c)) + 1
           /\ Len(Written(c)) \in Nat
           /\ \A d \in Clients \ {c} : Junked(d)' = Junked(d) /\ Written(d)' = Written(d)
<1>1. got[c] \in Seq(0 .. MaxPieces) /\ got'[c] = Append(got[c], x)
      /\ \A d \in Clients \ {c} : got'[d] = got[d]
  BY DEF TypeOK
<1>2. Written(c) = got[c] /\ Len(Written(c)) \in Nat
  BY <1>1 DEF Written
<1>3. /\ got'[c] # <<>> /\ Len(got'[c]) = Len(got[c]) + 1 /\ got'[c][Len(got'[c])] = x
      /\ got'[c] \in Seq(0 .. MaxPieces)
  <2>. DEFINE g == got[c]
  <2>1. g \in Seq(0 .. MaxPieces) /\ Len(g) \in Nat /\ got'[c] = Append(g, x)
    BY <1>1
  <2>. HIDE DEF g
  <2>2. /\ Append(g, x) \in Seq(0 .. MaxPieces) /\ Append(g, x) # <<>>
        /\ Len(Append(g, x)) = Len(g) + 1 /\ Append(g, x)[Len(g) + 1] = x
    BY <2>1, AppendProperties
  <2>. QED  BY <2>1, <2>2 DEF g
<1>4. SubSeq(got'[c], 1, Len(got'[c]) - 1) = got[c]
  BY <1>1, <1>3
<1>5. x = Junk => Junked(c)' /\ Written(c)' = Written(c)
  BY <1>2, <1>3, <1>4 DEF Junked, Written
<1>6. x # Junk => ~Junked(c)' /\ Written(c)' = Append(Written(c), x)
  BY <1>1, <1>2, <1>3 DEF Junked, Written
<1>7. \A d \in Clients \ {c} : Junked(d)' = Junked(d) /\ Written(d)' = Written(d)
  BY <1>1 DEF Junked, Written
<1>. QED  BY <1>1, <1>2, <1>3, <1>5, <1>6, <1>7

(* What Accounted says of one client, and of one process. *)
ClientAccounted(c) ==
    /\ taken[c] <= Len(sent[c])
    /\ kind = "log" \/ peer[c] \in {"none", "up", "half"} => Len(Written(c)) + Held(c) = taken[c]
    /\ Junked(c) => peer[c] = "dead" /\ Held(c) = 0 /\ ~Unread(c)

ProcAccounted(p) ==
    at[p] = "write" => taken[Serves(p)] > 0 /\ buf[p] = sent[Serves(p)][taken[Serves(p)]]

LEMMA AccountedParts ==
    /\ Accounted <=> /\ \A c \in Clients : ClientAccounted(c)
                     /\ \A p \in Procs : ProcAccounted(p)
    /\ Accounted' <=> /\ \A c \in Clients : ClientAccounted(c)'
                      /\ \A p \in Procs : ProcAccounted(p)'
  BY DEF Accounted, ClientAccounted, ProcAccounted

(* A process at work disturbs only the accounts of its own client. *)
LEMMA AccountsOfOthers ==
    ASSUME TypeOK, Places, Accounted, NEW p \in Procs, AtWork(p),
           UNCHANGED <<kind, sent, clnt_sock>>,
           \A q \in Procs \ {p} : at'[q] = at[q] /\ buf'[q] = buf[q],
           \A d \in Clients \ {Serves(p)} :
               peer'[d] = peer[d] /\ taken'[d] = taken[d] /\ got'[d] = got[d]
    PROVE  /\ \A d \in Clients \ {Serves(p)} : ClientAccounted(d)'
           /\ \A q \in Procs \ {p} : ProcAccounted(q)'
<1>1. \A d \in Clients \ {Serves(p)} : Held(d)' = Held(d)
  BY HeldElsewhere
<1>2. ASSUME NEW d \in Clients \ {Serves(p)} PROVE ClientAccounted(d)'
  <2>1. Written(d)' = Written(d) /\ Junked(d)' = Junked(d) /\ Unread(d)' = Unread(d)
    BY DEF Written, Junked, Unread
  <2>2. ClientAccounted(d)
    BY AccountedParts
  <2>. QED  BY <1>1, <2>1, <2>2 DEF ClientAccounted
<1>3. ASSUME NEW q \in Procs \ {p} PROVE ProcAccounted(q)'
  <2>1. CASE at[q] = "write"
    <3>1. Serves(q)' = Serves(q) /\ Serves(q) # Serves(p)
      BY <2>1, HeldElsewhere, HeldByServer
    <3>2. Serves(q) \in Clients
      BY <2>1, ServesOneClient DEF AtWork
    <3>3. ProcAccounted(q)
      BY AccountedParts
    <3>. QED  BY <2>1, <3>1, <3>2, <3>3 DEF ProcAccounted
  <2>2. CASE at[q] # "write"
    BY <2>2 DEF ProcAccounted
  <2>. QED  BY <2>1, <2>2
<1>. QED  BY <1>2, <1>3

(* A process that ends holds no piece any more. *)
LEMMA AccountsExit ==
    ASSUME TypeOK, Places, Accounted, NEW p \in Procs, at[p] \in {"read", "write"},
           at[p] = "write" => kind = "echo" /\ peer[Serves(p)] = "dead",
           NEW place \in {"zombie", "killed"}, Exits(p, place),
           \A d \in Clients : peer'[d] = peer[d] \/ (peer[d] = "reset" /\ peer'[d] = "dead"),
           UNCHANGED <<kind, sent, taken, got, clnt_sock>>
    PROVE  Accounted'
<1>1. AtWork(p) /\ Serves(p) \in Clients
  BY ServesOneClient DEF AtWork
<1>c. PICK c \in Clients : c = Serves(p)
  BY <1>1
<1>2. at'[p] # "write" /\ \A q \in Procs \ {p} : at'[q] = at[q] /\ buf'[q] = buf[q]
  <2>1. /\ at' = [at EXCEPT ![p] = IF p = Parent THEN "ended" ELSE place]
        /\ buf' = [buf EXCEPT ![p] = 0]
    BY ExitType
  <2>. QED  BY <2>1 DEF TypeOK
<1>3. /\ \A d \in Clients \ {c} : Held(d)' = Held(d)
      /\ Held(c)' = 0 /\ \A q \in Procs : Serves(q)' = Serves(q)
      /\ Held(c) = IF at[p] = "write" THEN 1 ELSE 0
  BY <1>1, <1>2, <1>c, HeldElsewhere, HeldByServer
<1>4. \A d \in Clients : Written(d)' = Written(d) /\ Junked(d)' = Junked(d) /\ Unread(d)' = Unread(d)
  BY DEF Written, Junked, Unread
<1>5. \A d \in Clients : ClientAccounted(d)'
  <2>1. \A d \in Clients \ {c} : ClientAccounted(d)'
    BY <1>3, <1>4, AccountedParts DEF ClientAccounted
  <2>2. ClientAccounted(c)'
    <3>1. ClientAccounted(c)
      BY AccountedParts
    <3>2. at[p] = "write" => kind = "echo" /\ peer'[c] = "dead"
      BY <1>c
    <3>. QED  BY <1>3, <1>4, <3>1, <3>2 DEF ClientAccounted
  <2>. QED  BY <2>1, <2>2
<1>6. ASSUME NEW q \in Procs PROVE ProcAccounted(q)'
  <2>1. CASE q = p
    BY <1>2, <2>1 DEF ProcAccounted
  <2>2. CASE q # p
    <3>1. ProcAccounted(q) /\ Serves(q)' = Serves(q) /\ at'[q] = at[q] /\ buf'[q] = buf[q]
      BY <1>2, <1>3, <2>2, AccountedParts
    <3>. QED  BY <3>1 DEF ProcAccounted
  <2>. QED  BY <2>1, <2>2
<1>. QED  BY <1>5, <1>6, AccountedParts

LEMMA AccountedNext == Inductive /\ [Next]_vars => Accounted'
<1>. SUFFICES ASSUME TypeOK, Places, ByKind, Accounted, [Next]_vars PROVE Accounted'
  BY DEF Inductive
<1>. USE DEF clientv, signal
<1>t. /\ peer \in [Clients -> {"none", "up", "half", "gone", "reset", "dead"}]
      /\ kind \in {"echo", "log"} /\ MaxPieces \in Nat
      /\ taken \in [Clients -> Nat] /\ \A c \in Clients : Len(sent[c]) \in Nat
      /\ at \in [Procs -> {"none", "start", "read", "write", "zombie", "killed", "reaped",
                         "refused", "accept", "fork", "close", "ended"}]
      /\ buf \in [Procs -> 0 .. MaxPieces]
  BY ForkServersAssumption DEF TypeOK
<1>1. ASSUME NEW c \in Clients, Connect(c) \/ Shutdown(c) \/ Leave(c) PROVE Accounted'
  <2>1. \A d \in Clients :
            /\ peer'[d] \in {"none", "up", "half"} => peer[d] \in {"none", "up", "half"}
            /\ peer[d] = "dead" => peer'[d] = "dead"
    BY <1>1, <1>t DEF Connect, Shutdown, Leave
  <2>2. UNCHANGED <<kind, sent, taken, got, buf, clnt_sock, at>>
    BY <1>1 DEF Connect, Shutdown, Leave
  <2>. QED  BY <2>1, <2>2, AccountsApart
<1>2. ASSUME NEW c \in Clients, Send(c) PROVE Accounted'
  <2>1. UNCHANGED <<kind, peer, taken, got, at, clnt_sock, buf>> /\ peer[c] = "up"
    BY <1>2 DEF Send
  <2>2. /\ Len(sent'[c]) = Len(sent[c]) + 1 /\ \A d \in Clients \ {c} : sent'[d] = sent[d]
        /\ \A k \in 1 .. Len(sent[c]) : sent'[c][k] = sent[c][k]
    BY <1>2, Sent
  <2>3. \A d \in Clients : Held(d)' = Held(d) /\ Written(d)' = Written(d) /\ Junked(d)' = Junked(d)
    BY <2>1 DEF Held, Written, Junked
  <2>4. \A d \in Clients \ {c} : ClientAccounted(d)'
    BY <2>1, <2>2, <2>3, AccountedParts DEF ClientAccounted, Unread
  <2>5. ClientAccounted(c)'
    BY <2>1, <2>2, <2>3, <1>t, AccountedParts DEF ClientAccounted
  <2>6. ASSUME NEW p \in Procs PROVE ProcAccounted(p)'
    <3>1. CASE at[p] = "write"
      <4>. DEFINE d == Serves(p)
      <4>1. d \in Clients /\ Serves(p)' = d
        BY <2>1, <3>1, ServesOneClient DEF AtWork, Serves
      <4>2. taken[d] > 0 /\ taken[d] <= Len(sent[d]) /\ buf[p] = sent[d][taken[d]]
        BY <3>1, <4>1 DEF Accounted
      <4>. HIDE DEF d
      <4>3. taken[d] \in 1 .. Len(sent[d])
        BY <4>1, <4>2, <1>t
      <4>4. sent'[d][taken[d]] = sent[d][taken[d]]
        BY <4>1, <4>3, <2>2
      <4>. QED  BY <2>1, <4>1, <4>2, <4>4 DEF ProcAccounted
    <3>2. CASE at[p] # "write"
      BY <2>1, <3>2 DEF ProcAccounted
    <3>. QED  BY <3>1, <3>2
  <2>. QED  BY <2>4, <2>5, <2>6, AccountedParts
<1>3. ASSUME ParentStep PROVE Accounted'
  <2>1. /\ at[Parent] \in {"accept", "fork", "close"}
        /\ UNCHANGED <<kind, sent, taken, got, buf, peer>>
    BY <1>3 DEF ParentStep, Accept, Fork, ForkFails, CloseClient
  <2>2. /\ at'[Parent] \in {"accept", "fork", "close", "start"}
        /\ \A c \in Clients : at'[c] = "write" <=> at[c] = "write"
    <3>1. CASE Fork \/ ForkFails
      <4>1. clnt_sock \in Clients /\ at[clnt_sock] = "none"
        BY <3>1 DEF Fork, ForkFails, Places
      <4>2. \/ at' = [at EXCEPT ![Parent] = "close", ![clnt_sock] = "start"]
            \/ at' = [at EXCEPT ![Parent] = "accept", ![clnt_sock] = "refused"]
            \/ at' = [at EXCEPT ![Parent] = "start"]
        BY <3>1 DEF Fork, ForkFails, Goes
      <4>. QED  BY <4>1, <4>2, <1>t, Numbers
    <3>2. CASE Accept \/ CloseClient
      BY <3>2, <1>t, Numbers DEF Accept, CloseClient, Goes
    <3>. QED  BY <1>3, <3>1, <3>2 DEF ParentStep
  <2>3. \A c \in Clients : Held(c)' = Held(c)
    BY <2>1, <2>2 DEF Held
  <2>4. \A p \in Procs : at'[p] = "write" =>
            at[p] = "write" /\ buf'[p] = buf[p] /\ Serves(p)' = Serves(p)
    BY <2>1, <2>2, Numbers DEF Serves
  <2>. QED  BY <2>1, <2>3, <2>4, AccountsSame
<1>4. ASSUME NEW p \in Procs, CloseListener(p) PROVE Accounted'
  <2>1. /\ at[p] = "start" /\ at' = [at EXCEPT ![p] = "read"]
        /\ UNCHANGED <<kind, sent, taken, got, buf, clnt_sock, peer>>
    BY <1>4 DEF CloseListener, Goes
  <2>2. \A q \in Procs : at'[q] = "write" <=> at[q] = "write"
    BY <2>1, <1>t
  <2>. QED  BY <2>1, <2>2, AccountsApart
<1>5. ASSUME NEW p \in Procs, ReadPiece(p) PROVE Accounted'
  <2>0. at[p] = "read" /\ AtWork(p)
    BY <1>5 DEF ReadPiece, AtWork
  <2>c. PICK c \in Clients : c = Serves(p)
    BY <2>0, ServesOneClient
  <2>1. /\ at[p] = "read" /\ taken[c] < Len(sent[c]) /\ at' = [at EXCEPT ![p] = "write"]
        /\ buf' = [buf EXCEPT ![p] = sent[c][taken[c] + 1]]
        /\ taken' = [taken EXCEPT ![c] = @ + 1]
        /\ UNCHANGED <<kind, sent, got, peer, clnt_sock>>
    BY <1>5, <2>c DEF ReadPiece, Unread, Goes
  <2>2. AtWork(p) /\ c \in Clients
    BY <2>0
  <2>3. /\ \A q \in Procs \ {p} : at'[q] = at[q] /\ buf'[q] = buf[q]
        /\ \A d \in Clients \ {c} : taken'[d] = taken[d]
        /\ taken'[c] = taken[c] + 1 /\ at'[p] = "write" /\ buf'[p] = sent[c][taken[c] + 1]
    BY <2>1, <2>2, <1>t
  <2>4. /\ \A d \in Clients \ {c} : ClientAccounted(d)'
        /\ \A q \in Procs \ {p} : ProcAccounted(q)'
    BY <2>c, <2>1, <2>2, <2>3, AccountsOfOthers
  <2>5. Held(c) = 0 /\ Held(c)' = 1 /\ Serves(p)' = c
    BY <2>c, <2>1, <2>2, <2>3, HeldByServer, HeldElsewhere
  <2>6. Written(c)' = Written(c) /\ ~Junked(c)'
    BY <2>1, <2>2 DEF Written, Junked, Accounted, Unread
  <2>7. ClientAccounted(c)'
    BY <2>1, <2>2, <2>3, <2>5, <2>6, <1>t DEF ClientAccounted, Accounted
  <2>8. ProcAccounted(p)'
    BY <2>1, <2>2, <2>3, <2>5, <1>t DEF ProcAccounted
  <2>. QED  BY <2>4, <2>7, <2>8, AccountedParts
<1>6. ASSUME NEW p \in Procs, ReadEnd(p) PROVE Accounted'
  BY <1>6, AccountsExit DEF ReadEnd
<1>7. ASSUME NEW p \in Procs, ReadError(p) PROVE Accounted'
  <2>0. at[p] = "read" /\ AtWork(p)
    BY <1>7 DEF ReadError, AtWork
  <2>c. PICK c \in Clients : c = Serves(p)
    BY <2>0, ServesOneClient
  <2>1. /\ at[p] = "read" /\ ~Unread(c) /\ peer[c] = "reset"
        /\ peer' = [peer EXCEPT ![c] = "dead"]
        /\ UNCHANGED <<kind, sent, taken, clnt_sock>>
    BY <1>7, <2>c DEF ReadError
  <2>2. AtWork(p) /\ c \in Clients
    BY <2>0
  <2>3. \A d \in Clients : peer'[d] = peer[d] \/ (peer[d] = "reset" /\ peer'[d] = "dead")
    BY <2>1, <2>2, <1>t
  <2>4. CASE UNCHANGED <<at, got, buf>>
    BY <2>1, <2>3, <2>4, AccountsApart
  <2>5. CASE Exits(p, "killed") /\ UNCHANGED got
    BY <2>1, <2>3, <2>5, AccountsExit
  <2>6. CASE kind = "log" /\ got' = [got EXCEPT ![c] = Append(@, Junk)] /\ UNCHANGED <<at, buf>>
    <3>1. /\ \A d \in Clients \ {c} : peer'[d] = peer[d] /\ taken'[d] = taken[d] /\ got'[d] = got[d]
          /\ peer'[c] = "dead"
      BY <2>1, <2>2, <2>6, <1>t DEF TypeOK
    <3>2. /\ \A d \in Clients \ {c} : ClientAccounted(d)'
          /\ \A q \in Procs \ {p} : ProcAccounted(q)'
      BY <2>c, <2>1, <2>2, <2>6, <3>1, AccountsOfOthers
    <3>3. Held(c)' = 0 /\ Held(c) = 0
      BY <2>c, <2>1, <2>2, <2>6, HeldByServer, HeldElsewhere
    <3>4. ~Junked(c) /\ Junk \in 0 .. MaxPieces
      BY <2>1, <2>2, <1>t DEF Accounted, Junk
    <3>5. Written(c)' = Written(c)
      BY <2>2, <2>6, <3>4, WrittenAppend
    <3>6. ClientAccounted(c)
      BY <2>2, AccountedParts
    <3>7. Unread(c)' = Unread(c)
      BY <2>1 DEF Unread
    <3>8. ClientAccounted(c)'
      BY <2>1, <2>6, <3>1, <3>3, <3>5, <3>6, <3>7 DEF ClientAccounted
    <3>9. ProcAccounted(p)'
      BY <2>1, <2>6 DEF ProcAccounted
    <3>. QED  BY <3>2, <3>8, <3>9, AccountedParts
  <2>. QED  BY <1>7, <2>c, <2>4, <2>5, <2>6 DEF ReadError
<1>8. ASSUME NEW p \in Procs, Write(p) PROVE Accounted'
  <2>1. at[p] = "write" /\ UNCHANGED <<kind, sent, taken, clnt_sock>>
    BY <1>8 DEF Write
  <2>c. PICK c \in Clients : c = Serves(p)
    BY <2>1, ServesOneClient DEF AtWork
  <2>2. AtWork(p) /\ c \in Clients
    BY <2>1 DEF AtWork
  <2>3. Held(c) = 1 /\ ~Junked(c)
    BY <2>c, <2>1, <2>2, HeldByServer DEF Accounted
  <2>4. CASE kind = "echo" /\ peer[c] = "dead" /\ Exits(p, "killed") /\ UNCHANGED <<got, peer>>
    BY <2>c, <2>1, <2>4, AccountsExit
  <2>5. ASSUME Goes(p, "read"), buf' = [buf EXCEPT ![p] = 0],
               \/ /\ kind = "log" \/ peer[c] \in {"up", "half"}
                  /\ got' = [got EXCEPT ![c] = Append(@, buf[p])] /\ UNCHANGED peer
               \/ /\ kind = "echo" /\ peer[c] \in {"gone", "reset"}
                  /\ UNCHANGED peer \/ peer' = [peer EXCEPT ![c] = "dead"]
                  /\ UNCHANGED got
        PROVE  Accounted'
    <3>1. /\ at'[p] = "read" /\ \A q \in Procs \ {p} : at'[q] = at[q] /\ buf'[q] = buf[q]
          /\ \A d \in Clients \ {c} : peer'[d] = peer[d] /\ got'[d] = got[d]
      BY <2>2, <2>5, <1>t DEF Goes, TypeOK
    <3>2. /\ \A d \in Clients \ {c} : ClientAccounted(d)'
          /\ \A q \in Procs \ {p} : ProcAccounted(q)'
      BY <2>c, <2>1, <2>2, <3>1, AccountsOfOthers
    <3>3. Held(c)' = 0
      BY <2>c, <2>1, <2>2, <3>1, HeldElsewhere
    <3>4. ProcAccounted(p)'
      BY <3>1 DEF ProcAccounted
    <3>5. ClientAccounted(c)
      BY <2>2, AccountedParts
    <3>6. CASE /\ kind = "log" \/ peer[c] \in {"up", "half"}
               /\ got' = [got EXCEPT ![c] = Append(@, buf[p])] /\ UNCHANGED peer
      <4>1. buf[p] \in 1 .. MaxPieces
        <5>1. taken[c] > 0 /\ buf[p] = sent[c][taken[c]] /\ taken[c] <= Len(sent[c])
          BY <2>c, <2>1, <2>2 DEF Accounted
        <5>2. taken[c] \in 1 .. Len(sent[c]) /\ sent[c] \in Seq(1 .. MaxPieces)
          BY <2>2, <5>1, <1>t DEF TypeOK
        <5>. QED  BY <5>1, <5>2, ElementOfSeq
      <4>2. buf[p] \in 0 .. MaxPieces /\ buf[p] # Junk
        BY <4>1, <1>t DEF Junk
      <4>3. ~Junked(c)' /\ Len(Written(c)') = Len(Written(c)) + 1 /\ Len(Written(c)) \in Nat
        BY <2>2, <2>3, <3>6, <4>2, WrittenAppend
      <4>4. ClientAccounted(c)'
        BY <2>1, <2>2, <2>3, <3>3, <3>5, <3>6, <4>3, <1>t DEF ClientAccounted
      <4>. QED  BY <3>2, <3>4, <4>4, AccountedParts
    <3>7. CASE /\ kind = "echo" /\ peer[c] \in {"gone", "reset"}
               /\ UNCHANGED peer \/ peer' = [peer EXCEPT ![c] = "dead"]
               /\ UNCHANGED got
      <4>1. peer'[c] \notin {"none", "up", "half"}
        BY <2>2, <3>7, <1>t
      <4>2. ~Junked(c)'
        BY <2>3, <3>7 DEF Junked
      <4>3. ClientAccounted(c)'
        BY <2>1, <3>5, <3>7, <4>1, <4>2 DEF ClientAccounted
      <4>. QED  BY <3>2, <3>4, <4>3, AccountedParts
    <3>. QED  BY <2>5, <3>6, <3>7
  <2>. QED  BY <1>8, <2>c, <2>4, <2>5 DEF Write
<1>9. CASE HandlerEnter
  BY <1>9, AccountsApart DEF HandlerEnter
<1>10. CASE Reap
  <2>1. handling /\ UNCHANGED <<kind, sent, taken, got, buf, clnt_sock, peer>>
    BY <1>10 DEF Reap
  <2>2. at[Parent] # "write"
    BY <2>1 DEF ByKind, ParentServes
  <2>3. ASSUME NEW c \in Zombies, ReapChild(c)
        PROVE  \A q \in Procs : at'[q] = "write" <=> at[q] = "write"
    <3>1. c \in Clients /\ at[c] # "write"
      BY DEF Zombies
    <3>. QED  BY <2>2, <2>3, <3>1, <1>t, Numbers DEF ReapChild, Goes
  <2>4. CASE ReapNone
    <3>1. \A q \in Procs : at'[q] = "write" <=> at[q] = "write"
      BY <2>2, <2>4, <1>t, Numbers DEF ReapNone, Goes
    <3>. QED  BY <2>1, <3>1, AccountsApart
  <2>. QED  BY <1>10, <2>1, <2>3, <2>4, AccountsApart DEF Reap
<1>11. ASSUME NEW c \in Clients, StopOrContinue(c) PROVE Accounted'
  BY <1>11, AccountsApart DEF StopOrContinue
<1>12. CASE UNCHANGED vars
  BY <1>12, AccountsApart DEF vars
<1>. QED  BY <1>1, <1>2, <1>3, <1>4, <1>5, <1>6, <1>7, <1>8, <1>9, <1>10, <1>11, <1>12
          DEF Next, Handler, Child, Client

-----------------------------------------------------------------------------

LEMMA InductiveAlways == Spec => []Inductive
<1>1. Inductive /\ [Next]_vars => Inductive'
  <2>. SUFFICES ASSUME Inductive, [Next]_vars PROVE Inductive'
    OBVIOUS
  <2>1. TypeOK' /\ HoldsOnlyItsOwn' /\ Places' /\ ByKind'
    BY TypeNext, PlacesNext
  <2>2. HandlerHasChild' /\ Accounted'
    BY HandlerNext, AccountedNext
  <2>. QED  BY <2>1, <2>2 DEF Inductive
<1>. QED  BY InitInductive, <1>1, PTL DEF Spec

(* Every variable has a value of its type in every behaviour of the servers. *)
THEOREM TypeCorrect == Spec => []TypeOK
<1>1. Inductive => TypeOK
  BY DEF Inductive
<1>. QED  BY InductiveAlways, <1>1, PTL

(* No process has a connection of another, however forks, ends and failed
   forks follow each other. *)
THEOREM HoldsOnlyItsOwnAlways == Spec => []HoldsOnlyItsOwn
<1>1. Inductive => HoldsOnlyItsOwn
  BY DEF Inductive
<1>. QED  BY InductiveAlways, <1>1, PTL

(* The handler finds a child, though signals are lost, as long as none was
   raised by a child that was stopped or continued. *)
THEOREM HandlerHasChildAlways == Spec => []HandlerHasChild
<1>1. Inductive => HandlerHasChild
  BY DEF Inductive
<1>. QED  BY InductiveAlways, <1>1, PTL

(* A write to a client, or to its log, echoes that client's next piece; the
   rubbish of a failed read adds nothing to what counts as written. *)
THEOREM ServersImplementEcho == Spec => ImplementsEcho
<1>. DEFINE answers == [c \in Clients |-> Written(c)]
<1>1. Init => Echo!Init
  <2>. SUFFICES ASSUME Init PROVE Echo!Init
    OBVIOUS
  <2>1. \A c \in Clients : Written(c) = <<>>
    BY DEF Init, Written, Junked
  <2>. QED  BY <2>1 DEF Init, Echo!Init
<1>2. Inductive /\ [Next]_vars => [Echo!Next]_<<sent, answers>>
  <2>. SUFFICES ASSUME Inductive, TypeOK, Places, Accounted, [Next]_vars
                PROVE  Echo!Next \/ UNCHANGED <<sent, answers>>
    BY DEF Inductive
  <2>. USE DEF clientv, signal
  <2>1. UNCHANGED got => UNCHANGED answers
    <3>. SUFFICES ASSUME UNCHANGED got PROVE UNCHANGED answers
      OBVIOUS
    <3>1. \A c \in Clients : Written(c)' = Written(c)
      BY DEF Written, Junked
    <3>. QED  BY <3>1
  <2>2. ASSUME NEW c \in Clients, Send(c) PROVE Echo!Next
    <3>. DEFINE p == Cardinality(SentSoFar) + 1
    <3>1. p \in 1 .. MaxPieces
      BY <2>2, Sent DEF Inductive
    <3>2. sent' = [sent EXCEPT ![c] = Append(@, p)] /\ UNCHANGED answers
      BY <2>1, <2>2 DEF Send
    <3>. HIDE DEF p, answers
    <3>. QED  BY <3>1, <3>2 DEF Echo!Next, Echo!Send, answers
  <2>3. ASSUME NEW p \in Procs, ReadError(p) PROVE UNCHANGED answers
    <3>1. at[p] = "read" /\ AtWork(p)
      BY <2>3 DEF ReadError, AtWork
    <3>2. PICK c \in Clients : c = Serves(p)
      BY <3>1, ServesOneClient
    <3>3. CASE got' = [got EXCEPT ![c] = Append(@, Junk)]
      <4>1. ~Junked(c) /\ Junk \in 0 .. MaxPieces
        BY <2>3, <3>2, ForkServersAssumption DEF ReadError, Accounted, Junk
      <4>2. \A d \in Clients : Written(d)' = Written(d)
        BY <3>3, <4>1, WrittenAppend
      <4>. QED  BY <4>2
    <3>. QED  BY <2>1, <2>3, <3>2, <3>3 DEF ReadError
  <2>4. ASSUME NEW p \in Procs, Write(p), ~UNCHANGED got PROVE Echo!Next
    <3>1. at[p] = "write" /\ AtWork(p) /\ UNCHANGED sent
      BY <2>4 DEF Write, AtWork
    <3>2. PICK c \in Clients : c = Serves(p)
      BY <3>1, ServesOneClient
    <3>3. /\ kind = "log" \/ peer[c] \in {"up", "half"}
          /\ got' = [got EXCEPT ![c] = Append(@, buf[p])]
      BY <2>4, <3>2 DEF Write
    <3>4. Held(c) = 1
      BY <3>1, <3>2, HeldByServer
    <3>5. /\ Len(Written(c)) + 1 = taken[c] /\ taken[c] <= Len(sent[c])
          /\ ~Junked(c) /\ buf[p] = sent[c][taken[c]]
      BY <3>1, <3>2, <3>3, <3>4 DEF Accounted
    <3>6. /\ Len(sent[c]) \in Nat /\ sent[c] \in Seq(1 .. MaxPieces)
          /\ buf[p] \in 0 .. MaxPieces /\ taken[c] \in Nat
      BY ForkServersAssumption DEF TypeOK
    <3>7. Len(Written(c)) \in Nat
      BY <3>3, <3>5, <3>6, WrittenAppend
    <3>8. taken[c] \in 1 .. Len(sent[c])
      BY <3>5, <3>6, <3>7
    <3>9. buf[p] \in 1 .. MaxPieces
      BY <3>5, <3>6, <3>8, ElementOfSeq
    <3>10. /\ Written(c)' = Append(Written(c), buf[p])
           /\ \A d \in Clients \ {c} : Written(d)' = Written(d)
      <4>. DEFINE x == buf[p]
      <4>1. x # Junk /\ x \in 0 .. MaxPieces /\ ~Junked(c)
            /\ got' = [got EXCEPT ![c] = Append(@, x)]
        BY <3>3, <3>5, <3>6, <3>9 DEF Junk
      <4>. HIDE DEF x
      <4>2. /\ Written(c)' = Append(Written(c), x)
            /\ \A d \in Clients \ {c} : Written(d)' = Written(d)
        BY <4>1, WrittenAppend
      <4>. QED  BY <4>2 DEF x
    <3>11. answers' = [answers EXCEPT ![c] = Append(@, buf[p])]
      BY <3>10
    <3>12. answers[c] = Written(c)
      OBVIOUS
    <3>13. Len(answers[c]) < Len(sent[c]) /\ buf[p] = sent[c][Len(answers[c]) + 1]
      BY <3>5, <3>6, <3>7, <3>12
    <3>. HIDE DEF answers
    <3>14. answers' = [answers EXCEPT ![c] = Append(@, sent[c][Len(@) + 1])]
      BY <3>11, <3>13
    <3>. QED  BY <3>1, <3>13, <3>14 DEF Echo!Next, Echo!Echo, answers
  <2>5. \/ UNCHANGED got
        \/ \E p \in Procs : ReadError(p) \/ Write(p)
    <3>1. ASSUME NEW c \in Clients, Client(c) PROVE UNCHANGED got
      BY <3>1 DEF Client, Connect, Send, Shutdown, Leave
    <3>2. ASSUME ParentStep PROVE UNCHANGED got
      BY <3>2 DEF ParentStep, Accept, Fork, ForkFails, CloseClient
    <3>3. ASSUME NEW p \in Procs, CloseListener(p) \/ ReadPiece(p) \/ ReadEnd(p)
          PROVE  UNCHANGED got
      BY <3>3 DEF CloseListener, ReadPiece, ReadEnd
    <3>4. ASSUME Handler PROVE UNCHANGED got
      BY <3>4 DEF Handler, HandlerEnter, Reap
    <3>5. ASSUME NEW c \in Clients, StopOrContinue(c) PROVE UNCHANGED got
      BY <3>5 DEF StopOrContinue
    <3>6. CASE UNCHANGED vars
      BY <3>6 DEF vars
    <3>. QED  BY <3>1, <3>2, <3>3, <3>4, <3>5, <3>6 DEF Next, Child
  <2>6. ASSUME NEW p \in Procs, ReadError(p) \/ Write(p) PROVE UNCHANGED sent
    BY <2>6 DEF ReadError, Write
  <2>. QED  BY <2>1, <2>2, <2>3, <2>4, <2>5, <2>6, OnlySendSends
<1>. QED  BY <1>1, <1>2, InductiveAlways, PTL DEF Spec, ImplementsEcho, Echo!Spec
=============================================================================
