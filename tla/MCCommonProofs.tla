---------------------------- MODULE MCCommonProofs ----------------------------
(***************************************************************************)
(* Proofs about two parts of MCCommon.  The session manager, for every     *)
(* number of threads, descriptors and connections: its calls interleave    *)
(* between their sections under the lock; what keeps sessions and          *)
(* descriptors together is that accept hands out free descriptors only, so *)
(* that no two threads register one.  The way of a packet, for every       *)
(* buffer, value and number of packets: what is under way is always what   *)
(* comes next in all that was sent, and handle_client stands at the        *)
(* beginning of a packet or within one.                                    *)
(***************************************************************************)
EXTENDS MCCommon, Sequences, WellFoundedInduction, TLAPS

-----------------------------------------------------------------------------
(* SessionManager *)

LEMMA ManagerInit == Managers!Init => Managers!Inductive
<1>. SUFFICES ASSUME Managers!Init PROVE Managers!Inductive
  OBVIOUS
<1>. USE DEF Managers!Init, Managers!Nobody
<1>1. Managers!TypeOK
  BY MCCommonAssumption DEF Managers!TypeOK
<1>2. Managers!SessionsCurrent
  BY DEF Managers!SessionsCurrent, Managers!Registered
<1>. QED  BY <1>1, <1>2 DEF Managers!Inductive, Managers!Registering

(* The sections under the lock, and what comes between, keep the sessions. *)
LEMMA ManagerNext == Managers!Inductive /\ Managers!Next => Managers!Inductive'
<1>. SUFFICES ASSUME Managers!Inductive, NEW t \in Threads,
                     \/ Managers!Accept(t) \/ Managers!register_session(t) \/ Managers!Emplace(t)
                     \/ Managers!unregister_session(t) \/ Managers!Erase(t) \/ Managers!clear(t)
                     \/ Managers!for_session(t) \/ Managers!TaskDone(t)
              PROVE  Managers!Inductive'
  BY DEF Managers!Next
<1>. USE DEF Managers!Goes, Managers!Registered, Managers!Registering, Managers!Nobody,
             Managers!SessionsCurrent, Managers!thread
<1>t. /\ fdtab \in [Sockets -> 0 .. MaxConns] /\ m_sessions \in [Sockets -> 0 .. MaxConns]
      /\ readers \subseteq Threads
      /\ calls \in [Threads -> {"none", "register", "emplace", "erase", "task"}]
      /\ socket \in [Threads -> Sockets \cup {0}]
      /\ session \in [Threads -> 0 .. MaxConns] /\ conns \in 0 .. MaxConns
  BY DEF Managers!Inductive, Managers!TypeOK
<1>i. /\ \A s \in Sockets : m_sessions[s] # 0 => fdtab[s] = m_sessions[s]
      /\ \A o \in Threads :
            /\ calls[o] = "task" => o \in readers /\ m_sessions[socket[o]] = session[o]
            /\ calls[o] # "none" => socket[o] \in Sockets
            /\ calls[o] \in {"register", "emplace"} =>
                  /\ fdtab[socket[o]] = session[o] /\ m_sessions[socket[o]] = 0
                  /\ session[o] # 0
      /\ \A o, other \in Threads :
            /\ calls[o] \in {"register", "emplace"} /\ calls[other] \in {"register", "emplace"}
            /\ socket[o] = socket[other]
            => o = other
  BY DEF Managers!Inductive
<1>1. CASE Managers!Accept(t)
  <2>1. PICK s \in Sockets :
             /\ fdtab[s] = 0 /\ fdtab' = [fdtab EXCEPT ![s] = conns + 1]
             /\ socket' = [socket EXCEPT ![t] = s]
    BY <1>1 DEF Managers!Accept, Managers!LowestFree
  <2>2. /\ calls[t] = "none" /\ conns < MaxConns /\ conns' = conns + 1
        /\ session' = [session EXCEPT ![t] = conns + 1]
        /\ calls' = [calls EXCEPT ![t] = "register"] /\ UNCHANGED <<m_sessions, readers>>
    BY <1>1 DEF Managers!Accept
  <2>3. conns + 1 \in 0 .. MaxConns /\ conns + 1 # 0
    BY <2>2, <1>t, MCCommonAssumption
  <2>4. Managers!TypeOK'
    BY <2>1, <2>2, <2>3, <1>t DEF Managers!TypeOK
  <2>5. /\ m_sessions[s] = 0 /\ fdtab'[s] = conns + 1
        /\ \A r \in Sockets \ {s} : fdtab'[r] = fdtab[r]
        /\ calls'[t] = "register" /\ socket'[t] = s /\ session'[t] = conns + 1
        /\ \A o \in Threads \ {t} :
              calls'[o] = calls[o] /\ socket'[o] = socket[o] /\ session'[o] = session[o]
    BY <2>1, <2>2, <1>t, <1>i
  <2>6. \A o \in Threads : calls[o] \in {"register", "emplace"} => socket[o] # s
    BY <2>1, <1>i
  <2>. QED  BY <2>2, <2>3, <2>4, <2>5, <2>6, <1>i DEF Managers!Inductive
<1>2. CASE Managers!register_session(t)
  <2>1. /\ calls[t] = "register" /\ UNCHANGED <<fdtab, m_sessions, readers, socket, session, conns>>
        /\ \/ calls' = [calls EXCEPT ![t] = "none"]
           \/ calls' = [calls EXCEPT ![t] = "emplace"]
    BY <1>2 DEF Managers!register_session
  <2>2. Managers!TypeOK'
    BY <2>1, <1>t DEF Managers!TypeOK
  <2>3. calls'[t] \in {"none", "emplace"} /\ \A o \in Threads \ {t} : calls'[o] = calls[o]
    BY <2>1, <1>t
  <2>. QED  BY <2>1, <2>2, <2>3, <1>i DEF Managers!Inductive
<1>3. CASE Managers!Emplace(t)
  <2>1. /\ calls[t] = "emplace" /\ readers = {} /\ calls' = [calls EXCEPT ![t] = "none"]
        /\ m_sessions' = [m_sessions EXCEPT ![socket[t]] = session[t]]
        /\ UNCHANGED <<fdtab, readers, socket, session, conns>>
    BY <1>3, <1>i DEF Managers!Emplace
  <2>2. Managers!TypeOK'
    BY <2>1, <1>t DEF Managers!TypeOK
  <2>3. /\ calls'[t] = "none" /\ \A o \in Threads \ {t} : calls'[o] = calls[o]
        /\ m_sessions'[socket[t]] = session[t] /\ fdtab[socket[t]] = session[t]
        /\ \A r \in Sockets \ {socket[t]} : m_sessions'[r] = m_sessions[r]
    BY <2>1, <1>t, <1>i
  <2>. QED  BY <2>1, <2>2, <2>3, <1>i DEF Managers!Inductive
<1>4. CASE Managers!unregister_session(t)
  <2>1. /\ calls[t] = "none" /\ calls' = [calls EXCEPT ![t] = "erase"]
        /\ \E s \in Sockets : socket' = [socket EXCEPT ![t] = s]
        /\ UNCHANGED <<fdtab, m_sessions, readers, session, conns>>
    BY <1>4 DEF Managers!unregister_session
  <2>2. Managers!TypeOK'
    BY <2>1, <1>t DEF Managers!TypeOK
  <2>3. /\ calls'[t] = "erase" /\ socket'[t] \in Sockets
        /\ \A o \in Threads \ {t} : calls'[o] = calls[o] /\ socket'[o] = socket[o]
    BY <2>1, <1>t
  <2>. QED  BY <2>1, <2>2, <2>3, <1>i DEF Managers!Inductive
<1>5. CASE Managers!Erase(t)
  <2>1. /\ calls[t] = "erase" /\ readers = {} /\ calls' = [calls EXCEPT ![t] = "none"]
        /\ UNCHANGED <<readers, socket, session, conns>>
        /\ \/ /\ m_sessions[socket[t]] # 0
              /\ fdtab' = [fdtab EXCEPT ![socket[t]] = 0]
              /\ m_sessions' = [m_sessions EXCEPT ![socket[t]] = 0]
           \/ UNCHANGED <<fdtab, m_sessions>>
    BY <1>5 DEF Managers!Erase
  <2>2. Managers!TypeOK'
    BY <2>1, <1>t, MCCommonAssumption DEF Managers!TypeOK
  <2>3. /\ calls'[t] = "none" /\ \A o \in Threads \ {t} : calls'[o] = calls[o]
        /\ \A r \in Sockets : \/ fdtab'[r] = fdtab[r] /\ m_sessions'[r] = m_sessions[r]
                              \/ m_sessions[r] # 0 /\ m_sessions'[r] = 0
    BY <2>1, <1>t, <1>i
  <2>. QED  BY <2>1, <2>2, <2>3, <1>i DEF Managers!Inductive
<1>6. CASE Managers!clear(t)
  <2>1. /\ readers = {} /\ UNCHANGED <<readers, calls, socket, session, conns>>
        /\ fdtab' = [s \in Sockets |-> IF m_sessions[s] # 0 THEN 0 ELSE fdtab[s]]
        /\ m_sessions' = [s \in Sockets |-> 0]
    BY <1>6 DEF Managers!clear
  <2>2. Managers!TypeOK'
    BY <2>1, <1>t, MCCommonAssumption DEF Managers!TypeOK
  <2>. QED  BY <2>1, <2>2, <1>i DEF Managers!Inductive
<1>7. CASE Managers!for_session(t)
  <2>1. PICK s \in Sockets :
             /\ socket' = [socket EXCEPT ![t] = s]
             /\ session' = [session EXCEPT ![t] = m_sessions[s]]
    BY <1>7 DEF Managers!for_session
  <2>2. /\ calls[t] = "none" /\ readers' = readers \cup {t}
        /\ calls' = [calls EXCEPT ![t] = "task"] /\ UNCHANGED <<fdtab, m_sessions, conns>>
    BY <1>7 DEF Managers!for_session
  <2>3. Managers!TypeOK'
    BY <2>1, <2>2, <1>t DEF Managers!TypeOK
  <2>4. /\ calls'[t] = "task" /\ socket'[t] = s /\ session'[t] = m_sessions[s]
        /\ \A o \in Threads \ {t} :
              calls'[o] = calls[o] /\ socket'[o] = socket[o] /\ session'[o] = session[o]
    BY <2>1, <2>2, <1>t
  <2>. QED  BY <2>2, <2>3, <2>4, <1>i DEF Managers!Inductive
<1>8. CASE Managers!TaskDone(t)
  <2>1. /\ calls[t] = "task" /\ calls' = [calls EXCEPT ![t] = "none"]
        /\ readers' = readers \ {t}
        /\ UNCHANGED <<fdtab, m_sessions, socket, session, conns>>
    BY <1>8 DEF Managers!TaskDone
  <2>2. Managers!TypeOK'
    BY <2>1, <1>t DEF Managers!TypeOK
  <2>3. calls'[t] = "none" /\ \A o \in Threads \ {t} : calls'[o] = calls[o]
    BY <2>1, <1>t
  <2>. QED  BY <2>1, <2>2, <2>3, <1>i DEF Managers!Inductive
<1>. QED  BY <1>1, <1>2, <1>3, <1>4, <1>5, <1>6, <1>7, <1>8

(* The other parts leave the manager alone, in a behaviour of their own. *)
LEMMA ManagerInductiveAlways == Spec => []ManagerInductive
<1>1. Init => ManagerInductive
  BY ManagerInit DEF Init, ManagerInductive
<1>2. ManagerInductive /\ [Next]_vars => ManagerInductive'
  <2>. SUFFICES ASSUME ManagerInductive, [Next]_vars, part' = "manager"
                PROVE  Managers!Inductive'
    BY DEF ManagerInductive
  <2>1. CASE Manager(Managers!Next)
    BY <2>1, ManagerNext DEF Manager, ManagerInductive
  <2>2. CASE Tick(Tickers!Next) \/ Wire(Wires!Next)
    BY <2>2 DEF Tick, Wire
  <2>3. CASE UNCHANGED vars
    <3>1. part = "manager" /\ UNCHANGED managerv
      BY <2>3 DEF vars
    <3>. QED  BY <3>1
              DEF ManagerInductive, managerv, Managers!Inductive, Managers!TypeOK,
                  Managers!SessionsCurrent, Managers!Registered, Managers!Registering
  <2>. QED  BY <2>1, <2>2, <2>3 DEF Next
<1>. QED  BY <1>1, <1>2, PTL DEF Spec

(* A session is for the connection its descriptor refers to, a task keeps the
   session it was called with, and a connection that is being registered is
   still there when its session is put into the map. *)
THEOREM SessionsStayCurrent == Spec => []SessionsCurrent
<1>1. ManagerInductive => SessionsCurrent
  BY DEF ManagerInductive, SessionsCurrent, Managers!Inductive
<1>. QED  BY ManagerInductiveAlways, <1>1, PTL

-----------------------------------------------------------------------------
(* PacketWire: numbers, loops and bytes *)

(* The least of some numbers. *)
LEMMA SmallestNat ==
  ASSUME NEW T \in SUBSET Nat, T # {}
  PROVE  \E n \in T : \A m \in T : n <= m
<1>1. \E x \in T : \A y \in T : ~ (<<y, x>> \in OpToRel(<, Nat))
  BY NatLessThanWellFounded, WFMin
<1>2. PICK n \in T : \A y \in T : ~ (<<y, n>> \in OpToRel(<, Nat))
  BY <1>1
<1>3. \A m \in T : ~(m < n)
  BY <1>2 DEF OpToRel
<1>. QED  BY <1>3

(* What a recursive function computes, if each of its values is in S. *)
LoopOf(f, n, S, z, step) ==
    /\ f \in [0 .. n -> S] /\ f[0] = z
    /\ \A i \in 1 .. n : f[i] = step[<<i, f[i - 1]>>]

LEMMA LoopRuns ==
  ASSUME NEW n \in Nat, NEW S, NEW z \in S, NEW step \in [(1 .. n) \X S -> S]
  PROVE  \E f : LoopOf(f, n, S, z, step)
<1>. USE DEF LoopOf
<1>. DEFINE Runs(m, f) == f[0] = z /\ \A i \in 1 .. m : f[i] = step[<<i, f[i - 1]>>]
            Stuck == {m \in 0 .. n : ~\E f \in [0 .. m -> S] : Runs(m, f)}
<1>. SUFFICES Stuck = {}
  <2>1. PICK h \in [0 .. n -> S] : Runs(n, h)
    <3>1. n \in 0 .. n
      OBVIOUS
    <3>. QED  BY <3>1
  <2>. QED  BY <2>1
<1>. SUFFICES ASSUME Stuck # {} PROVE FALSE
  OBVIOUS
<1>1. PICK m \in Stuck : \A k \in Stuck : m <= k
  <2>1. Stuck \in SUBSET Nat
    OBVIOUS
  <2>. QED  BY <2>1, SmallestNat
<1>2. m # 0
  <2>1. [i \in {0} |-> z] \in [0 .. 0 -> S] /\ Runs(0, [i \in {0} |-> z])
    OBVIOUS
  <2>. QED  BY <2>1
<1>3. PICK f \in [0 .. m - 1 -> S] : Runs(m - 1, f)
  <2>1. m - 1 \in 0 .. n /\ m - 1 \notin Stuck
    BY <1>1, <1>2
  <2>. QED  BY <2>1
<1>. DEFINE g == [i \in 0 .. m |-> IF i = m THEN step[<<m, f[m - 1]>>] ELSE f[i]]
<1>m. m \in Nat /\ m <= n /\ m - 1 \in 0 .. m - 1
  BY <1>1, <1>2
<1>4. g \in [0 .. m -> S]
  BY <1>1, <1>2
<1>5. Runs(m, g)
  <2>1. g[0] = z
    BY <1>2, <1>3
  <2>2. \A i \in 1 .. m - 1 : g[i] = f[i] /\ g[i - 1] = f[i - 1] /\ f[i] = step[<<i, f[i - 1]>>]
    BY <1>3
  <2>3. g[m] = step[<<m, g[m - 1]>>]
    <3>1. g[m - 1] = f[m - 1] /\ g[m] = step[<<m, f[m - 1]>>]
      BY <1>m
    <3>. QED  BY <3>1
  <2>4. \A i \in 1 .. m : i = m \/ i \in 1 .. m - 1
    BY <1>m
  <2>. QED  BY <2>1, <2>2, <2>3, <2>4
<1>. QED  BY <1>4, <1>5

(* What holds at first and is kept by every step of a loop holds in all of it. *)
LEMMA StepByStep ==
  ASSUME NEW n \in Nat, NEW T, 0 \in T, \A k \in 1 .. n : k - 1 \in T => k \in T
  PROVE  0 .. n \subseteq T
<1>. SUFFICES ASSUME (0 .. n) \ T # {} PROVE FALSE
  OBVIOUS
<1>1. PICK m \in (0 .. n) \ T : \A k \in (0 .. n) \ T : m <= k
  <2>1. (0 .. n) \ T \in SUBSET Nat
    OBVIOUS
  <2>. QED  BY <2>1, SmallestNat
<1>2. m \in 1 .. n /\ m - 1 \in 0 .. n /\ ~(m <= m - 1)
  BY <1>1
<1>. QED  BY <1>1, <1>2

(* Each value ends so many bytes after the one before it. *)
LEMMA EndsValue ==
  ASSUME NEW values \in Seq(Nat)
  PROVE  LET ends == Wires!Ends(values)
         IN  /\ ends \in [0 .. Len(values) -> Nat] /\ ends[0] = 0
             /\ \A k \in 1 .. Len(values) : ends[k] = ends[k - 1] + values[k]
<1>. DEFINE n == Len(values)
            ends == Wires!Ends(values)
            step == [p \in (1 .. n) \X Nat |-> p[2] + values[p[1]]]
<1>1. n \in Nat /\ \A k \in 1 .. n : values[k] \in Nat /\ k \in 0 .. n /\ k - 1 \in 0 .. n
  OBVIOUS
<1>2. step \in [(1 .. n) \X Nat -> Nat]
  <2>. SUFFICES ASSUME NEW k \in 1 .. n, NEW x \in Nat PROVE x + values[k] \in Nat
    OBVIOUS
  <2>. QED  BY <1>1
<1>. HIDE DEF n, step
<1>3. PICK f : LoopOf(f, n, Nat, 0, step)
  BY <1>1, <1>2, LoopRuns, Zenon
<1>. DEFINE e == [k \in 0 .. n |-> IF k = 0 THEN 0 ELSE f[k - 1] + values[k]]
<1>4. e = f
  <2>1. \A k \in 1 .. n : e[k] = f[k]
    <3>. SUFFICES ASSUME NEW k \in 1 .. n PROVE e[k] = f[k]
      OBVIOUS
    <3>1. f[k - 1] \in Nat /\ f[k] = step[<<k, f[k - 1]>>] /\ k \in 0 .. n /\ k # 0
      BY <1>1, <1>3 DEF LoopOf
    <3>. QED  BY <3>1 DEF step
  <2>2. e[0] = f[0]
    BY <1>1, <1>3 DEF LoopOf
  <2>3. \A k \in 0 .. n : k = 0 \/ k \in 1 .. n
    BY <1>1
  <2>4. e = [k \in 0 .. n |-> e[k]] /\ f = [k \in 0 .. n |-> f[k]]
    BY <1>3 DEF LoopOf
  <2>. HIDE DEF e
  <2>. QED  BY <2>1, <2>2, <2>3, <2>4
<1>5. ends = [k \in 0 .. n |-> IF k = 0 THEN 0 ELSE ends[k - 1] + values[k]]
  BY <1>4 DEF Wires!Ends, n
<1>. HIDE DEF ends, e
<1>6. ends[0] = 0 /\ \A k \in 1 .. n : ends[k] = ends[k - 1] + values[k]
  <2>1. 0 \in 0 .. n /\ \A k \in 1 .. n : k \in 0 .. n /\ k # 0
    BY <1>1
  <2>. DEFINE P(g) == \A k \in 0 .. n : g[k] = IF k = 0 THEN 0 ELSE ends[k - 1] + values[k]
  <2>2. P([k \in 0 .. n |-> IF k = 0 THEN 0 ELSE ends[k - 1] + values[k]])
    OBVIOUS
  <2>. HIDE DEF P
  <2>3. P(ends)
    BY <2>2, <1>5
  <2>. QED  BY <2>1, <2>3, Zenon DEF P
<1>. DEFINE Fine == {k \in 0 .. n : ends[k] \in Nat}
<1>7. 0 .. n \subseteq Fine
  <2>1. 0 \in Fine
    BY <1>1, <1>6
  <2>2. \A k \in 1 .. n : k - 1 \in Fine => k \in Fine
    BY <1>1, <1>6
  <2>. HIDE DEF Fine
  <2>. QED  BY <1>1, <2>1, <2>2, StepByStep
<1>8. ends \in [0 .. n -> Nat]
  <2>1. DOMAIN ends = 0 .. n /\ ends = [k \in 0 .. n |-> ends[k]]
    BY <1>5
  <2>. QED  BY <2>1, <1>7
<1>. QED  BY <1>6, <1>8 DEF n, ends

LEMMA Appended ==
  ASSUME NEW s \in Seq(Nat), NEW t \in Seq(Nat)
  PROVE  /\ s \o t \in Seq(Nat) /\ Len(s \o t) = Len(s) + Len(t)
         /\ \A i \in 1 .. Len(s) : (s \o t)[i] = s[i]
         /\ \A i \in 1 .. Len(t) : (s \o t)[Len(s) + i] = t[i]
<1>1. s \o t \in Seq(Nat) /\ Len(s \o t) = Len(s) + Len(t)
  OBVIOUS
<1>2. ASSUME NEW i \in 1 .. Len(s) PROVE (s \o t)[i] = s[i]
  OBVIOUS
<1>3. ASSUME NEW i \in 1 .. Len(t) PROVE (s \o t)[Len(s) + i] = t[i]
  OBVIOUS
<1>. QED  BY <1>1, <1>2, <1>3

(* What OSerializer::value does to the buffer. *)
Wrote(new, buf, k, n) ==
    /\ new \in Seq(Nat) /\ Len(new) <= BufSize
    /\ Len(new) = Len(buf) \/ Len(new) = Len(buf) + n
    /\ Len(buf) + n <= BufSize => Len(new) = Len(buf) + n
    /\ \A i \in 1 .. Len(buf) : new[i] = buf[i]
    /\ Len(buf) + n <= BufSize => \A j \in 1 .. n : new[Len(buf) + j] = k - 1

LEMMA OValueBytes ==
  ASSUME NEW buf \in Seq(Nat), NEW k \in Nat \ {0}, NEW n \in Nat, Len(buf) <= BufSize
  PROVE  Wrote(Wires!OValue(buf, k, n), buf, k, n)
<1>. USE DEF Wrote
<1>. DEFINE value == [j \in 1 .. n |-> k - 1]
<1>1. k - 1 \in Nat /\ value \in Seq(Nat) /\ Len(value) = n /\ \A j \in 1 .. n : value[j] = k - 1
  OBVIOUS
<1>2. Wires!OValue(buf, k, n) = IF Len(buf) + n > BufSize THEN buf ELSE buf \o value
  BY DEF Wires!OValue
<1>. HIDE DEF value
<1>3. /\ buf \o value \in Seq(Nat) /\ Len(buf \o value) = Len(buf) + n
      /\ \A i \in 1 .. Len(buf) : (buf \o value)[i] = buf[i]
      /\ \A j \in 1 .. n : (buf \o value)[Len(buf) + j] = value[j]
  BY <1>1, Appended
<1>4. Len(buf) \in Nat
  OBVIOUS
<1>5. CASE Len(buf) + n > BufSize
  <2>1. ~(Len(buf) + n <= BufSize)
    BY <1>4, <1>5, MCCommonAssumption
  <2>. QED  BY <1>2, <1>5, <2>1
<1>6. CASE ~(Len(buf) + n > BufSize)
  <2>1. Len(buf) + n <= BufSize
    BY <1>4, <1>6, MCCommonAssumption
  <2>2. Wires!OValue(buf, k, n) = buf \o value
    BY <1>2, <1>6
  <2>. QED  BY <1>1, <1>3, <2>1, <2>2
<1>. QED  BY <1>5, <1>6

(* Serialized goes through the values one by one. *)
LEMMA SerializedLoop ==
  ASSUME NEW values \in Seq(Nat)
  PROVE  \E buf : /\ Wires!Serialized(values) = buf[Len(values)]
                  /\ buf[0] = <<>>
                  /\ \A k \in 1 .. Len(values) : buf[k] = Wires!OValue(buf[k - 1], k, values[k])
<1>. DEFINE n == Len(values)
            buf[k \in 0 .. n] == IF k = 0 THEN <<>> ELSE Wires!OValue(buf[k - 1], k, values[k])
            Fits == {s \in Seq(Nat) : Len(s) <= BufSize}
            step == [p \in (1 .. n) \X Fits |-> Wires!OValue(p[2], p[1], values[p[1]])]
<1>1. /\ n \in Nat
      /\ \A k \in 1 .. n :
            values[k] \in Nat /\ k \in Nat \ {0} /\ k \in 0 .. n /\ k - 1 \in 0 .. n
  OBVIOUS
<1>2. step \in [(1 .. n) \X Fits -> Fits]
  <2>. SUFFICES ASSUME NEW k \in 1 .. n, NEW s \in Fits PROVE Wires!OValue(s, k, values[k]) \in Fits
    OBVIOUS
  <2>. QED  BY <1>1, OValueBytes DEF Wrote
<1>3. <<>> \in Fits
  BY MCCommonAssumption
<1>s. Wires!Serialized(values) = buf[n]
  BY DEF Wires!Serialized
<1>. HIDE DEF n, step, Fits
<1>4. PICK f : LoopOf(f, n, Fits, <<>>, step)
  BY <1>1, <1>2, <1>3, LoopRuns, Zenon
<1>. DEFINE e == [k \in 0 .. n |-> IF k = 0 THEN <<>> ELSE Wires!OValue(f[k - 1], k, values[k])]
<1>5. e = f
  <2>1. \A k \in 1 .. n : e[k] = f[k]
    <3>. SUFFICES ASSUME NEW k \in 1 .. n PROVE e[k] = f[k]
      OBVIOUS
    <3>1. f[k - 1] \in Fits /\ f[k] = step[<<k, f[k - 1]>>] /\ k \in 0 .. n /\ k # 0
      BY <1>1, <1>4 DEF LoopOf
    <3>. QED  BY <3>1 DEF step
  <2>2. e[0] = f[0]
    BY <1>1, <1>4 DEF LoopOf
  <2>3. \A k \in 0 .. n : k = 0 \/ k \in 1 .. n
    BY <1>1
  <2>4. e = [k \in 0 .. n |-> e[k]] /\ f = [k \in 0 .. n |-> f[k]]
    BY <1>4 DEF LoopOf
  <2>. HIDE DEF e
  <2>. QED  BY <2>1, <2>2, <2>3, <2>4
<1>6. buf = [k \in 0 .. n |-> IF k = 0 THEN <<>> ELSE Wires!OValue(buf[k - 1], k, values[k])]
  BY <1>5
<1>. HIDE DEF buf, e
<1>7. buf[0] = <<>> /\ \A k \in 1 .. n : buf[k] = Wires!OValue(buf[k - 1], k, values[k])
  <2>1. 0 \in 0 .. n /\ \A k \in 1 .. n : k \in 0 .. n /\ k # 0
    BY <1>1
  <2>. DEFINE P(g) == \A k \in 0 .. n :
                         g[k] = IF k = 0 THEN <<>> ELSE Wires!OValue(buf[k - 1], k, values[k])
  <2>2. P([k \in 0 .. n |-> IF k = 0 THEN <<>> ELSE Wires!OValue(buf[k - 1], k, values[k])])
    OBVIOUS
  <2>. HIDE DEF P
  <2>3. P(buf)
    BY <2>2, <1>6
  <2>. QED  BY <2>1, <2>3, Zenon DEF P
<1>. QED  BY <1>s, <1>7 DEF n

(* A value that ends within the buffer, as do all before it, lies at its place. *)
LEMMA SerializedBytes ==
  ASSUME NEW values \in Seq(Nat)
  PROVE  LET bytes == Wires!Serialized(values)
             ends == Wires!Ends(values)
         IN  /\ bytes \in Seq(Nat) /\ Len(bytes) <= BufSize
             /\ \A k \in 1 .. Len(values) :
                   ends[k] <= BufSize =>
                      /\ ends[k] <= Len(bytes)
                      /\ \A j \in 1 .. values[k] : bytes[ends[k - 1] + j] = k - 1
<1>. DEFINE n == Len(values)
            ends == Wires!Ends(values)
<1>1. PICK buf : /\ Wires!Serialized(values) = buf[n] /\ buf[0] = <<>>
                 /\ \A k \in 1 .. n : buf[k] = Wires!OValue(buf[k - 1], k, values[k])
  BY SerializedLoop
<1>2. /\ n \in Nat /\ ends \in [0 .. n -> Nat] /\ ends[0] = 0
      /\ \A k \in 1 .. n : ends[k] = ends[k - 1] + values[k]
  BY EndsValue
<1>3. \A k \in 1 .. n : values[k] \in Nat
  OBVIOUS
<1>. HIDE DEF n, ends
<1>. DEFINE Placed(k) == /\ buf[k] \in Seq(Nat) /\ Len(buf[k]) <= BufSize
                         /\ ends[k] <= BufSize => Len(buf[k]) = ends[k]
                         /\ \A m \in 1 .. k :
                               ends[m] <= BufSize =>
                                  /\ ends[m] <= Len(buf[k])
                                  /\ \A j \in 1 .. values[m] : buf[k][ends[m - 1] + j] = m - 1
            Fine == {k \in 0 .. n : Placed(k)}
<1>4. 0 .. n \subseteq Fine
  <2>1. 0 \in Fine
    <3>1. buf[0] \in Seq(Nat) /\ Len(buf[0]) = 0 /\ ends[0] = 0
      BY <1>1, <1>2
    <3>2. 0 <= BufSize /\ 0 \in 0 .. n /\ \A m \in 1 .. 0 : FALSE
      BY <1>2, MCCommonAssumption
    <3>. QED  BY <3>1, <3>2
  <2>2. ASSUME NEW k \in 1 .. n, k - 1 \in Fine PROVE k \in Fine
    <3>. DEFINE old == buf[k - 1]
                new == buf[k]
    <3>1. k \in Nat \ {0} /\ k \in 0 .. n /\ k - 1 \in 0 .. n /\ values[k] \in Nat
      BY <1>2, <1>3
    <3>2. ends[k - 1] \in Nat /\ ends[k] \in Nat /\ ends[k] = ends[k - 1] + values[k]
      BY <1>2, <3>1
    <3>3. /\ old \in Seq(Nat) /\ Len(old) <= BufSize
          /\ ends[k - 1] <= BufSize => Len(old) = ends[k - 1]
          /\ \A m \in 1 .. k - 1 :
                ends[m] <= BufSize =>
                   /\ ends[m] <= Len(old)
                   /\ \A j \in 1 .. values[m] : old[ends[m - 1] + j] = m - 1
      BY <2>2
    <3>4. new = Wires!OValue(old, k, values[k])
      BY <1>1
    <3>. HIDE DEF old, new
    <3>5. /\ new \in Seq(Nat) /\ Len(new) <= BufSize
          /\ Len(new) = Len(old) \/ Len(new) = Len(old) + values[k]
          /\ Len(old) + values[k] <= BufSize => Len(new) = Len(old) + values[k]
          /\ \A i \in 1 .. Len(old) : new[i] = old[i]
          /\ Len(old) + values[k] <= BufSize =>
                \A j \in 1 .. values[k] : new[Len(old) + j] = k - 1
      <4>1. /\ old \in Seq(Nat) /\ k \in Nat \ {0} /\ values[k] \in Nat
            /\ Len(old) <= BufSize
        BY <3>1, <3>3
      <4>. HIDE DEF Fine
      <4>2. Wrote(Wires!OValue(old, k, values[k]), old, k, values[k])
        BY <4>1, OValueBytes
      <4>. QED  BY <4>2, <3>4 DEF Wrote
    <3>6. Len(old) \in Nat /\ Len(new) \in Nat /\ Len(old) <= Len(new)
      BY <3>1, <3>3, <3>5
    <3>7. ends[k] <= BufSize =>
             /\ Len(old) = ends[k - 1] /\ Len(new) = ends[k]
             /\ \A j \in 1 .. values[k] : new[ends[k - 1] + j] = k - 1
      <4>. SUFFICES ASSUME ends[k] <= BufSize
                    PROVE  Len(old) = ends[k - 1] /\ Len(old) + values[k] <= BufSize
        BY <3>2, <3>5
      <4>1. ends[k - 1] <= BufSize
        BY <3>1, <3>2, MCCommonAssumption
      <4>. QED  BY <3>2, <3>3, <4>1
    <3>8. ASSUME NEW m \in 1 .. k - 1, ends[m] <= BufSize
          PROVE  /\ ends[m] <= Len(new)
                 /\ \A j \in 1 .. values[m] : new[ends[m - 1] + j] = m - 1
      <4>1. /\ m \in 1 .. n /\ m \in 0 .. n /\ m - 1 \in 0 .. n
        BY <1>2
      <4>2. /\ ends[m] \in Nat /\ ends[m - 1] \in Nat /\ values[m] \in Nat
            /\ ends[m] = ends[m - 1] + values[m]
        BY <1>2, <1>3, <4>1
      <4>3. ends[m] <= Len(old) /\ \A j \in 1 .. values[m] : old[ends[m - 1] + j] = m - 1
        BY <3>3, <3>8
      <4>4. ASSUME NEW j \in 1 .. values[m] PROVE ends[m - 1] + j \in 1 .. Len(old)
        <5>. DEFINE from == ends[m - 1]
                    size1 == values[m]
                    len == Len(old)
        <5>1. /\ from \in Nat /\ size1 \in Nat /\ len \in Nat /\ j \in 1 .. size1
              /\ from + size1 <= len
          BY <3>6, <4>2, <4>3
        <5>. HIDE DEF Fine, from, size1, len
        <5>2. from + j \in 1 .. len
          BY <5>1
        <5>. QED  BY <5>2 DEF from, len
      <4>5. ends[m] <= Len(new)
        BY <3>6, <4>2, <4>3
      <4>. QED  BY <3>5, <4>3, <4>4, <4>5
    <3>9. \A m \in 1 .. k : m = k \/ m \in 1 .. k - 1
      BY <3>1
    <3>10. \A m \in 1 .. k :
              ends[m] <= BufSize =>
                 /\ ends[m] <= Len(new)
                 /\ \A j \in 1 .. values[m] : new[ends[m - 1] + j] = m - 1
      <4>1. ends[k] <= BufSize => ends[k] <= Len(new)
        BY <3>2, <3>7
      <4>. QED  BY <3>7, <3>8, <3>9, <4>1
    <3>. QED  BY <3>1, <3>5, <3>7, <3>10 DEF new
  <2>. HIDE DEF Fine
  <2>. QED  BY <1>2, <2>1, <2>2, StepByStep
<1>5. Placed(n)
  <2>1. n \in 0 .. n
    BY <1>2
  <2>. QED  BY <1>4, <2>1
<1>. QED  BY <1>1, <1>5 DEF n, ends

Packets == [type : Nat, values : Seq(Nat)]

(* A packet on the connection: two words and the bytes. *)
LEMMA PacketBytes ==
  ASSUME NEW p \in Packets
  PROVE  LET bytes == Wires!Serialized(p.values)
         IN  /\ Wires!Packet(p) \in Seq(Nat) /\ Len(Wires!Packet(p)) = 2 + Len(bytes)
             /\ Wires!Packet(p)[1] = p.type /\ Wires!Packet(p)[2] = Len(bytes)
             /\ \A i \in 1 .. Len(bytes) : Wires!Packet(p)[2 + i] = bytes[i]
<1>. DEFINE bytes == Wires!Serialized(p.values)
            head  == <<p.type, Len(bytes)>>
<1>1. bytes \in Seq(Nat) /\ p.type \in Nat
  BY SerializedBytes DEF Packets
<1>2. Wires!Packet(p) = head \o bytes
  BY DEF Wires!Packet
<1>. HIDE DEF bytes
<1>3. head \in Seq(Nat) /\ Len(head) = 2 /\ head[1] = p.type /\ head[2] = Len(bytes)
  BY <1>1
<1>. HIDE DEF head
<1>4. /\ head \o bytes \in Seq(Nat) /\ Len(head \o bytes) = Len(head) + Len(bytes)
      /\ \A i \in 1 .. Len(head) : (head \o bytes)[i] = head[i]
      /\ \A i \in 1 .. Len(bytes) : (head \o bytes)[Len(head) + i] = bytes[i]
  BY <1>1, <1>3, Appended
<1>. QED  BY <1>2, <1>3, <1>4 DEF bytes

(* What Sent computes. *)
SentOf(all, ps) ==
    /\ all \in [0 .. Len(ps) -> Seq(Nat)] /\ all[0] = <<>>
    /\ \A n \in 1 .. Len(ps) : all[n] = all[n - 1] \o Wires!Packet(ps[n])

LEMMA SentValue ==
  ASSUME NEW ps \in Seq(Packets)
  PROVE  SentOf(Wires!Sent(ps), ps)
<1>. DEFINE n == Len(ps)
            all == Wires!Sent(ps)
            step == [q \in (1 .. n) \X Seq(Nat) |-> q[2] \o Wires!Packet(ps[q[1]])]
<1>1. n \in Nat /\ \A k \in 1 .. n : ps[k] \in Packets /\ k \in 0 .. n /\ k - 1 \in 0 .. n
  OBVIOUS
<1>p. \A k \in 1 .. n : Wires!Packet(ps[k]) \in Seq(Nat)
  BY <1>1, PacketBytes
<1>2. step \in [(1 .. n) \X Seq(Nat) -> Seq(Nat)]
  <2>. SUFFICES ASSUME NEW k \in 1 .. n, NEW s \in Seq(Nat)
                PROVE  s \o Wires!Packet(ps[k]) \in Seq(Nat)
    OBVIOUS
  <2>. QED  BY <1>p
<1>3. <<>> \in Seq(Nat)
  OBVIOUS
<1>. HIDE DEF n, step
<1>4. PICK f : LoopOf(f, n, Seq(Nat), <<>>, step)
  BY <1>1, <1>2, <1>3, LoopRuns, Zenon
<1>. DEFINE e == [k \in 0 .. n |-> IF k = 0 THEN <<>> ELSE f[k - 1] \o Wires!Packet(ps[k])]
<1>5. e = f
  <2>1. \A k \in 1 .. n : e[k] = f[k]
    <3>. SUFFICES ASSUME NEW k \in 1 .. n PROVE e[k] = f[k]
      OBVIOUS
    <3>1. f[k - 1] \in Seq(Nat) /\ f[k] = step[<<k, f[k - 1]>>] /\ k \in 0 .. n /\ k # 0
      BY <1>1, <1>4 DEF LoopOf
    <3>. QED  BY <3>1 DEF step
  <2>2. e[0] = f[0]
    BY <1>1, <1>4 DEF LoopOf
  <2>3. \A k \in 0 .. n : k = 0 \/ k \in 1 .. n
    BY <1>1
  <2>4. e = [k \in 0 .. n |-> e[k]] /\ f = [k \in 0 .. n |-> f[k]]
    BY <1>4 DEF LoopOf
  <2>. HIDE DEF e
  <2>. QED  BY <2>1, <2>2, <2>3, <2>4
<1>6. all = [k \in 0 .. n |-> IF k = 0 THEN <<>> ELSE all[k - 1] \o Wires!Packet(ps[k])]
  BY <1>5 DEF Wires!Sent, n
<1>. HIDE DEF all, e
<1>7. all[0] = <<>> /\ \A k \in 1 .. n : all[k] = all[k - 1] \o Wires!Packet(ps[k])
  <2>1. 0 \in 0 .. n /\ \A k \in 1 .. n : k \in 0 .. n /\ k # 0
    BY <1>1
  <2>. DEFINE P(g) == \A k \in 0 .. n :
                         g[k] = IF k = 0 THEN <<>> ELSE all[k - 1] \o Wires!Packet(ps[k])
  <2>2. P([k \in 0 .. n |-> IF k = 0 THEN <<>> ELSE all[k - 1] \o Wires!Packet(ps[k])])
    OBVIOUS
  <2>. HIDE DEF P
  <2>3. P(all)
    BY <2>2, <1>6
  <2>. QED  BY <2>1, <2>3, Zenon DEF P
<1>. DEFINE Fine == {k \in 0 .. n : all[k] \in Seq(Nat)}
<1>8. 0 .. n \subseteq Fine
  <2>1. 0 \in Fine
    <3>1. 0 \in 0 .. n /\ all[0] \in Seq(Nat)
      BY <1>1, <1>3, <1>7
    <3>. QED  BY <3>1
  <2>2. ASSUME NEW k \in 1 .. n, k - 1 \in Fine PROVE k \in Fine
    <3>1. all[k - 1] \in Seq(Nat) /\ Wires!Packet(ps[k]) \in Seq(Nat)
      BY <1>p, <2>2
    <3>2. all[k - 1] \o Wires!Packet(ps[k]) \in Seq(Nat)
      BY <3>1, Appended
    <3>. QED  BY <1>1, <1>7, <3>2
  <2>. HIDE DEF Fine
  <2>. QED  BY <1>1, <2>1, <2>2, StepByStep
<1>9. all \in [0 .. n -> Seq(Nat)]
  <2>1. DOMAIN all = 0 .. n /\ all = [k \in 0 .. n |-> all[k]]
    BY <1>6
  <2>. QED  BY <2>1, <1>8
<1>. QED  BY <1>7, <1>9 DEF n, all, SentOf

(* What is on the connection of one packet, behind so many items. *)
Holds(all, from, p) ==
    LET bytes == Wires!Serialized(p.values) IN
    /\ from + 2 + Len(bytes) <= Len(all)
    /\ all[from + 1] = p.type /\ all[from + 2] = Len(bytes)
    /\ \A i \in 1 .. Len(bytes) : all[from + 2 + i] = bytes[i]

LEMMA PacketHeld ==
  ASSUME NEW s \in Seq(Nat), NEW p \in Packets
  PROVE  Holds(s \o Wires!Packet(p), Len(s), p)
<1>. DEFINE t == Wires!Packet(p)
            bytes == Wires!Serialized(p.values)
            all == s \o t
<1>1. /\ t \in Seq(Nat) /\ Len(t) = 2 + Len(bytes) /\ t[1] = p.type /\ t[2] = Len(bytes)
      /\ \A i \in 1 .. Len(bytes) : t[2 + i] = bytes[i]
  BY PacketBytes
<1>2. bytes \in Seq(Nat)
  BY SerializedBytes DEF Packets
<1>3. Len(bytes) \in Nat /\ Len(s) \in Nat
  BY <1>2
<1>4. /\ Len(all) = Len(s) + Len(t)
      /\ \A i \in 1 .. Len(t) : all[Len(s) + i] = t[i]
  BY <1>1, Appended
<1>. HIDE DEF t, bytes, all
<1>5. Len(s) + 2 + Len(bytes) <= Len(all)
  BY <1>1, <1>3, <1>4
<1>6. all[Len(s) + 1] = t[1] /\ all[Len(s) + 2] = t[2]
  BY <1>1, <1>3, <1>4
<1>7. ASSUME NEW i \in 1 .. Len(bytes) PROVE all[Len(s) + 2 + i] = bytes[i]
  <2>1. 2 + i \in 1 .. Len(t) /\ Len(s) + (2 + i) = Len(s) + 2 + i
    BY <1>1, <1>3
  <2>. QED  BY <1>1, <1>4, <2>1
<1>. QED  BY <1>1, <1>5, <1>6, <1>7 DEF Holds, t, bytes, all

(* More behind it does not change it. *)
LEMMA StillHeld ==
  ASSUME NEW all \in Seq(Nat), NEW more \in Seq(Nat), NEW from \in Nat, NEW p \in Packets,
         Holds(all, from, p)
  PROVE  Holds(all \o more, from, p)
<1>. DEFINE bytes == Wires!Serialized(p.values)
            new == all \o more
<1>1. bytes \in Seq(Nat)
  BY SerializedBytes DEF Packets
<1>2. /\ new \in Seq(Nat) /\ Len(new) = Len(all) + Len(more)
      /\ \A i \in 1 .. Len(all) : new[i] = all[i]
  BY Appended
<1>3. Len(all) \in Nat /\ Len(more) \in Nat /\ Len(bytes) \in Nat
  BY <1>1
<1>4. /\ from + 2 + Len(bytes) <= Len(all)
      /\ all[from + 1] = p.type /\ all[from + 2] = Len(bytes)
      /\ \A i \in 1 .. Len(bytes) : all[from + 2 + i] = bytes[i]
  BY DEF Holds
<1>. HIDE DEF bytes, new
<1>5. from + 2 + Len(bytes) <= Len(new)
  BY <1>2, <1>3, <1>4
<1>6. from + 1 \in 1 .. Len(all) /\ from + 2 \in 1 .. Len(all)
  BY <1>3, <1>4
<1>7. ASSUME NEW i \in 1 .. Len(bytes) PROVE from + 2 + i \in 1 .. Len(all)
  BY <1>3, <1>4
<1>. QED  BY <1>2, <1>4, <1>5, <1>6, <1>7 DEF Holds, bytes, new

(* Of each packet there is all of it in what was sent, behind those before it. *)
LEMMA SentItem ==
  ASSUME NEW ps \in Seq(Packets), NEW a \in 0 .. Len(ps) - 1
  PROVE  LET sent == Wires!Sent(ps)
         IN  /\ Holds(sent[Len(ps)], Len(sent[a]), ps[a + 1])
             /\ Len(sent[a + 1]) = Len(sent[a]) + 2 + Len(Wires!Serialized(ps[a + 1].values))
<1>. DEFINE n == Len(ps)
            sent == Wires!Sent(ps)
            p == ps[a + 1]
            from == Len(sent[a])
<1>1. /\ n \in Nat /\ sent \in [0 .. n -> Seq(Nat)]
      /\ \A k \in 1 .. n : sent[k] = sent[k - 1] \o Wires!Packet(ps[k])
  <2>1. SentOf(sent, ps)
    BY SentValue
  <2>2. n \in Nat
    OBVIOUS
  <2>. HIDE DEF sent
  <2>3. sent \in [0 .. n -> Seq(Nat)]
    BY <2>1 DEF SentOf
  <2>4. \A k \in 1 .. n : sent[k] = sent[k - 1] \o Wires!Packet(ps[k])
    BY <2>1 DEF SentOf
  <2>. QED  BY <2>2, <2>3, <2>4
<1>2. /\ a \in 0 .. n /\ a + 1 \in 1 .. n /\ a + 1 \in 0 .. n /\ p \in Packets
      /\ a + 1 - 1 = a
  OBVIOUS
<1>p. \A k \in 1 .. n : Wires!Packet(ps[k]) \in Seq(Nat)
  BY PacketBytes
<1>. HIDE DEF n, sent, p
<1>3. sent[a] \in Seq(Nat) /\ from \in Nat
  BY <1>1, <1>2
<1>4. sent[a + 1] = sent[a] \o Wires!Packet(p)
  <2>1. PICK k \in 1 .. n : k = a + 1 /\ k - 1 = a
    BY <1>2
  <2>2. sent[k] = sent[k - 1] \o Wires!Packet(ps[k])
    BY <1>1
  <2>. QED  BY <2>1, <2>2 DEF p
<1>5. Holds(sent[a + 1], from, p)
  BY <1>2, <1>3, <1>4, PacketHeld
<1>6. Len(sent[a + 1]) = from + 2 + Len(Wires!Serialized(p.values))
  <2>1. /\ Wires!Packet(p) \in Seq(Nat)
        /\ Len(Wires!Packet(p)) = 2 + Len(Wires!Serialized(p.values))
    BY <1>2, PacketBytes
  <2>2. Wires!Serialized(p.values) \in Seq(Nat)
    BY <1>2, SerializedBytes DEF Packets
  <2>3. Len(sent[a + 1]) = from + Len(Wires!Packet(p))
    BY <1>3, <1>4, <2>1, Appended
  <2>4. Len(Wires!Serialized(p.values)) \in Nat
    BY <2>2
  <2>. HIDE DEF from
  <2>5. from + (2 + Len(Wires!Serialized(p.values))) = from + 2 + Len(Wires!Serialized(p.values))
    BY <1>3, <2>4
  <2>. QED  BY <2>1, <2>3, <2>5
<1>. DEFINE rest == n - (a + 1)
            Fine == {i \in 0 .. rest : Holds(sent[a + 1 + i], from, p)}
<1>7. 0 .. rest \subseteq Fine
  <2>1. rest \in Nat /\ 0 \in Fine
    BY <1>1, <1>2, <1>5
  <2>2. ASSUME NEW i \in 1 .. rest, i - 1 \in Fine PROVE i \in Fine
    <3>. DEFINE k == a + 1 + i
    <3>1. k \in 1 .. n /\ k - 1 \in 0 .. n /\ k - 1 = a + 1 + (i - 1)
      BY <1>1, <1>2
    <3>. HIDE DEF k
    <3>2. sent[k - 1] \in Seq(Nat) /\ Wires!Packet(ps[k]) \in Seq(Nat)
      BY <1>1, <1>p, <3>1
    <3>3. Holds(sent[k - 1], from, p)
      BY <2>2, <3>1
    <3>4. Holds(sent[k - 1] \o Wires!Packet(ps[k]), from, p)
      BY <1>2, <1>3, <3>2, <3>3, StillHeld
    <3>5. Holds(sent[k], from, p)
      BY <1>1, <3>1, <3>4
    <3>. QED  BY <2>1, <3>5 DEF k
  <2>. HIDE DEF Fine, rest
  <2>. QED  BY <2>1, <2>2, StepByStep
<1>8. Holds(sent[n], from, p)
  <2>1. rest \in 0 .. rest /\ a + 1 + rest = n
    BY <1>1, <1>2
  <2>. QED  BY <1>7, <2>1
<1>. QED  BY <1>6, <1>8 DEF n, sent, p

(* What was sent before stays as it is, and a packet comes behind it. *)
LEMMA SentMore ==
  ASSUME NEW ps \in Seq(Packets), NEW p \in Packets
  PROVE  LET sent == Wires!Sent(ps)
             new  == Wires!Sent(Append(ps, p))
         IN  /\ \A n \in 0 .. Len(ps) : new[n] = sent[n]
             /\ new[Len(ps) + 1] = sent[Len(ps)] \o Wires!Packet(p)
<1>. DEFINE n == Len(ps)
            sent == Wires!Sent(ps)
            longer == Append(ps, p)
            new == Wires!Sent(longer)
            Fine == {k \in 0 .. n : new[k] = sent[k]}
<1>1. /\ n \in Nat /\ longer \in Seq(Packets) /\ Len(longer) = n + 1
      /\ \A k \in 1 .. n : longer[k] = ps[k]
      /\ longer[n + 1] = p
  OBVIOUS
<1>2. /\ sent[0] = <<>>
      /\ \A k \in 1 .. n : sent[k] = sent[k - 1] \o Wires!Packet(ps[k])
  BY SentValue DEF SentOf
<1>. HIDE DEF longer
<1>3. SentOf(new, longer)
  BY <1>1, SentValue
<1>4. /\ new[0] = <<>>
      /\ \A k \in 1 .. n + 1 : new[k] = new[k - 1] \o Wires!Packet(longer[k])
  BY <1>1, <1>3 DEF SentOf
<1>. HIDE DEF n, sent, new
<1>5. 0 .. n \subseteq Fine
  <2>1. 0 \in Fine
    BY <1>1, <1>2, <1>4
  <2>2. ASSUME NEW k \in 1 .. n, k - 1 \in Fine PROVE k \in Fine
    <3>1. k \in 1 .. n + 1 /\ k \in 0 .. n
      BY <1>1
    <3>2. new[k] = new[k - 1] \o Wires!Packet(ps[k])
      BY <1>1, <1>4, <3>1
    <3>. QED  BY <1>2, <2>2, <3>1, <3>2
  <2>. HIDE DEF Fine
  <2>. QED  BY <1>1, <2>1, <2>2, StepByStep
<1>6. new[n + 1] = sent[n] \o Wires!Packet(p)
  <2>1. n + 1 \in 1 .. n + 1 /\ n + 1 - 1 = n /\ n \in 0 .. n
    BY <1>1
  <2>2. PICK k \in 1 .. n + 1 : k = n + 1 /\ k - 1 = n
    BY <2>1
  <2>3. new[k] = new[k - 1] \o Wires!Packet(longer[k])
    BY <1>4
  <2>. QED  BY <1>1, <1>5, <2>1, <2>2, <2>3
<1>. QED  BY <1>5, <1>6 DEF n, sent, new, longer

Written == [type : Wires!Types, values : Seq(Sizes) \ {<<>>}]

(* What is under way, by what was sent and what of it was read. *)
Underway(ps, a) ==
    LET sent  == Wires!Sent(ps)
        all   == sent[Len(ps)]
        base  == Len(sent[a])
        bytes == Wires!Serialized(ps[a + 1].values)
    IN  /\ all \in Seq(Nat) /\ base \in Nat /\ base <= Len(all)
        /\ a = Len(ps) => base = Len(all)
        /\ a < Len(ps) =>
              /\ ps[a + 1].type \in Wires!Types
              /\ bytes \in Seq(Nat) /\ Len(bytes) <= BufSize
              /\ Holds(all, base, ps[a + 1])
              /\ Len(sent[a + 1]) = base + 2 + Len(bytes)

LEMMA WrittenPackets ==
  ASSUME NEW ps \in Seq(Written)
  PROVE  ps \in Seq(Packets)
<1>1. ASSUME NEW k \in 1 .. Len(ps) PROVE ps[k] \in Packets
  <2>1. ps[k] \in Written
    OBVIOUS
  <2>2. ps[k].values \in Seq(Nat)
    <3>1. ps[k].values \in Seq(Sizes)
      BY <2>1 DEF Written
    <3>2. \A i \in 1 .. Len(ps[k].values) : ps[k].values[i] \in Sizes
      BY <3>1
    <3>3. \A i \in 1 .. Len(ps[k].values) : ps[k].values[i] \in Nat
      BY <3>2, MCCommonAssumption
    <3>. QED  BY <3>1, <3>3
  <2>3. ps[k].type \in Nat /\ ps[k] = [type |-> ps[k].type, values |-> ps[k].values]
    BY <2>1 DEF Written, Wires!Types, Wires!ECHO_MESSAGE, Wires!PACKET_MAX
  <2>. QED  BY <2>2, <2>3 DEF Packets
<1>. QED  BY <1>1

LEMMA UnderwayAlways ==
  ASSUME NEW ps \in Seq(Written), NEW a \in 0 .. Len(ps)
  PROVE  Underway(ps, a)
<1>. DEFINE n     == Len(ps)
            sent  == Wires!Sent(ps)
            all   == sent[n]
            base  == Len(sent[a])
            bytes == Wires!Serialized(ps[a + 1].values)
<1>1. ps \in Seq(Packets)
  BY WrittenPackets
<1>2. SentOf(sent, ps)
  BY <1>1, SentValue
<1>3. n \in Nat /\ n \in 0 .. n
  OBVIOUS
<1>. HIDE DEF sent
<1>4. sent \in [0 .. n -> Seq(Nat)]
  BY <1>2 DEF SentOf
<1>5. all \in Seq(Nat) /\ sent[a] \in Seq(Nat)
  BY <1>3, <1>4
<1>6. base \in Nat /\ Len(all) \in Nat
  BY <1>5
<1>7. ASSUME a < n
      PROVE  /\ ps[a + 1].type \in Wires!Types
             /\ bytes \in Seq(Nat) /\ Len(bytes) <= BufSize
             /\ Holds(all, base, ps[a + 1])
             /\ Len(sent[a + 1]) = base + 2 + Len(bytes)
             /\ base <= Len(all)
  <2>1. a \in 0 .. n - 1 /\ a + 1 \in 1 .. n
    BY <1>3, <1>7
  <2>2. /\ Holds(all, base, ps[a + 1])
        /\ Len(sent[a + 1]) = base + 2 + Len(bytes)
    BY <1>1, <2>1, SentItem DEF sent
  <2>3. ps[a + 1] \in Written /\ ps[a + 1] \in Packets
    BY <1>1, <2>1
  <2>4. bytes \in Seq(Nat) /\ Len(bytes) <= BufSize
    BY <2>3, SerializedBytes DEF Packets
  <2>5. Len(bytes) \in Nat
    BY <2>4
  <2>6. base + 2 + Len(bytes) <= Len(all)
    BY <2>2 DEF Holds
  <2>7. base <= Len(all)
    <3>. HIDE DEF base, bytes, all
    <3>. QED  BY <1>6, <2>5, <2>6
  <2>. QED  BY <2>2, <2>3, <2>4, <2>7 DEF Written
<1>8. a = n \/ a < n
  BY <1>3
<1>9. a = n => base = Len(all)
  OBVIOUS
<1>10. base <= Len(all)
  <2>1. CASE a < n
    BY <1>7, <2>1
  <2>2. CASE a = n
    <3>. HIDE DEF all, base, n
    <3>. QED  BY <1>6, <1>9, <2>2
  <2>. QED  BY <1>8, <2>1, <2>2
<1>. HIDE DEF all, base, bytes
<1>. QED  BY <1>5, <1>6, <1>7, <1>9, <1>10, Zenon DEF Underway, sent, n, all, base, bytes

LEMMA WireInit == Wires!Init => Wires!Inductive
<1>. SUFFICES ASSUME Wires!Init PROVE Wires!Inductive
  OBVIOUS
<1>. USE DEF Wires!Init
<1>1. Wires!TypeOK
  <2>1. packet_buf \in [0 .. BufSize - 1 -> Int]
    BY DEF Wires!EmptyBuf, Wires!Junk
  <2>2. packets \in Seq([type : Wires!Types, values : Seq(Sizes) \ {<<>>}])
    OBVIOUS
  <2>3. type \in Wires!Types /\ size \in 0 .. BufSize /\ cur_buf_cursor \in 0 .. size
    BY MCCommonAssumption DEF Wires!Types, Wires!ECHO_MESSAGE
  <2>4. arrived \in 0 .. Len(packets) /\ Len(packets) <= MaxPackets
    BY MCCommonAssumption
  <2>5. stream \in Seq(Nat) /\ DOMAIN handled = 1 .. MaxPackets
    OBVIOUS
  <2>. QED  BY <2>1, <2>2, <2>3, <2>4, <2>5 DEF Wires!TypeOK
<1>2. Wires!StreamInOrder
  <2>1. packets \in Seq(Packets) /\ Len(packets) = 0 /\ Len(stream) = 0
    OBVIOUS
  <2>2. Wires!Sent(packets)[0] = <<>>
    BY <2>1, SentValue DEF SentOf
  <2>3. Wires!Position = 0
    BY <2>2 DEF Wires!Position
  <2>4. Len(Wires!Sent(packets)[Len(packets)]) = 0
    BY <2>1, <2>2
  <2>. QED  BY <2>1, <2>3, <2>4 DEF Wires!StreamInOrder
<1>3. Wires!PacketInOrder
  BY DEF Wires!PacketInOrder
<1>4. Wires!PacketsArrive
  BY DEF Wires!PacketsArrive
<1>5. \A n \in arrived + 1 .. MaxPackets : handled[n] = <<>>
  BY MCCommonAssumption
<1>. QED  BY <1>1, <1>2, <1>3, <1>4, <1>5 DEF Wires!Inductive

(* A stream is what comes behind a place, and all of it if it was not cut. *)
Follows(all, place, rest, ended) ==
    /\ place + Len(rest) <= Len(all)
    /\ ~ended => place + Len(rest) = Len(all)
    /\ \A j \in 1 .. Len(rest) : rest[j] = all[place + j]

(* Some of it is read, ... *)
LEMMA FollowsRead ==
  ASSUME NEW all \in Seq(Nat), NEW place \in Nat, NEW rest \in Seq(Nat), NEW ended,
         NEW k \in 0 .. Len(rest), Follows(all, place, rest, ended)
  PROVE  /\ SubSeq(rest, k + 1, Len(rest)) \in Seq(Nat)
         /\ Len(SubSeq(rest, k + 1, Len(rest))) = Len(rest) - k
         /\ Follows(all, place + k, SubSeq(rest, k + 1, Len(rest)), ended)
<1>. DEFINE left == SubSeq(rest, k + 1, Len(rest))
<1>1. Len(rest) \in Nat /\ Len(all) \in Nat
  OBVIOUS
<1>2. left \in Seq(Nat) /\ Len(left) = Len(rest) - k
  OBVIOUS
<1>3. \A j \in 1 .. Len(rest) - k : left[j] = rest[j + k] /\ j + k \in 1 .. Len(rest)
  OBVIOUS
<1>. HIDE DEF left
<1>4. place + k + Len(left) = place + Len(rest)
  BY <1>1, <1>2
<1>5. ASSUME NEW j \in 1 .. Len(left) PROVE left[j] = all[place + k + j]
  <2>1. left[j] = rest[j + k] /\ j + k \in 1 .. Len(rest)
    BY <1>2, <1>3
  <2>2. rest[j + k] = all[place + (j + k)]
    BY <2>1 DEF Follows
  <2>3. place + (j + k) = place + k + j
    OBVIOUS
  <2>. QED  BY <2>1, <2>2, <2>3
<1>. QED  BY <1>2, <1>4, <1>5 DEF Follows, left

(* ... the end of it is cut off, ... *)
LEMMA FollowsCut ==
  ASSUME NEW all \in Seq(Nat), NEW place \in Nat, NEW rest \in Seq(Nat), NEW ended,
         NEW k \in 0 .. Len(rest), Follows(all, place, rest, ended)
  PROVE  /\ SubSeq(rest, 1, k) \in Seq(Nat) /\ Len(SubSeq(rest, 1, k)) = k
         /\ Follows(all, place, SubSeq(rest, 1, k), TRUE)
<1>. DEFINE left == SubSeq(rest, 1, k)
<1>1. Len(rest) \in Nat /\ Len(all) \in Nat
  OBVIOUS
<1>2. left \in Seq(Nat) /\ Len(left) = k /\ \A j \in 1 .. k : left[j] = rest[j]
  OBVIOUS
<1>. HIDE DEF left
<1>3. place + Len(left) <= Len(all)
  BY <1>1, <1>2 DEF Follows
<1>4. ASSUME NEW j \in 1 .. Len(left) PROVE left[j] = all[place + j]
  <2>1. j \in 1 .. Len(rest) /\ left[j] = rest[j]
    BY <1>1, <1>2
  <2>. QED  BY <2>1 DEF Follows
<1>. QED  BY <1>2, <1>3, <1>4 DEF Follows, left

(* ... or more comes. *)
LEMMA FollowsMore ==
  ASSUME NEW all \in Seq(Nat), NEW place \in Nat, NEW rest \in Seq(Nat),
         NEW more \in Seq(Nat), Follows(all, place, rest, FALSE)
  PROVE  Follows(all \o more, place, rest \o more, FALSE)
<1>. DEFINE a == all \o more
            r == rest \o more
<1>1. /\ Len(a) = Len(all) + Len(more)
      /\ \A i \in 1 .. Len(all) : a[i] = all[i]
      /\ \A i \in 1 .. Len(more) : a[Len(all) + i] = more[i]
  BY Appended
<1>2. /\ Len(r) = Len(rest) + Len(more)
      /\ \A i \in 1 .. Len(rest) : r[i] = rest[i]
      /\ \A i \in 1 .. Len(more) : r[Len(rest) + i] = more[i]
  BY Appended
<1>. DEFINE now == Len(all)
            behind == Len(rest)
            added == Len(more)
<1>3. behind \in Nat /\ now \in Nat /\ added \in Nat
  OBVIOUS
<1>4. \A j \in 1 .. Len(rest) : rest[j] = all[place + j]
  BY DEF Follows
<1>e. place + behind = now
  BY DEF Follows
<1>l. Len(a) = now + added /\ Len(r) = behind + added
  BY <1>1, <1>2
<1>. HIDE DEF a, r, now, behind, added
<1>5. place + Len(r) = Len(a) /\ Len(a) \in Nat
  BY <1>3, <1>e, <1>l
<1>6. ASSUME NEW j \in 1 .. Len(r) PROVE r[j] = a[place + j]
  <2>1. CASE j \in 1 .. behind
    <3>1. place + j \in 1 .. now
      BY <1>3, <1>e, <2>1
    <3>. QED  BY <1>1, <1>2, <1>4, <2>1, <3>1 DEF now, behind
  <2>2. CASE j \notin 1 .. behind
    <3>1. PICK i \in 1 .. added : j = behind + i
      <4>1. j - behind \in 1 .. added /\ j = behind + (j - behind)
        BY <1>l, <1>3, <2>2
      <4>. QED  BY <4>1
    <3>2. place + j = now + i
      BY <1>3, <1>e, <3>1
    <3>. QED  BY <1>1, <1>2, <3>1, <3>2 DEF now, behind, added
  <2>. QED  BY <2>1, <2>2
<1>7. place + Len(r) <= Len(a)
  BY <1>3, <1>5
<1>. QED  BY <1>5, <1>6, <1>7 DEF Follows, a, r

(* One step, when the bytes of a packet that are there come in one read. *)
LEMMA WireNext == ~Splits /\ Wires!Inductive /\ Wires!Next => Wires!Inductive'
<1>. SUFFICES ASSUME ~Splits, Wires!Inductive, Wires!Next PROVE Wires!Inductive'
  OBVIOUS
<1>. DEFINE sent  == Wires!Sent(packets)
            all   == sent[Len(packets)]
            base  == Len(sent[arrived])
            p     == packets[arrived + 1]
            bytes == Wires!Serialized(p.values)
            len   == Len(bytes)
            left  == Len(stream)
            whole == Len(all)
            Waiting == \A n \in arrived + 1 .. MaxPackets : handled[n] = <<>>
<1>1. /\ packets \in Seq(Written) /\ stream \in Seq(Nat) /\ cut \in BOOLEAN
      /\ at \in {"type", "size", "body", "handle"}
      /\ type \in Wires!Types /\ size \in 0 .. BufSize /\ cur_buf_cursor \in 0 .. size
      /\ packet_buf \in [0 .. BufSize - 1 -> Int]
      /\ arrived \in 0 .. Len(packets) /\ Len(packets) <= MaxPackets
      /\ DOMAIN handled = 1 .. MaxPackets
  BY DEF Wires!Inductive, Wires!TypeOK, Written
<1>2. left \in Nat /\ size \in Nat /\ cur_buf_cursor \in Nat /\ arrived \in Nat
  BY <1>1, MCCommonAssumption
<1>u. Underway(packets, arrived)
  BY <1>1, UnderwayAlways
<1>3. /\ all \in Seq(Nat) /\ base \in Nat /\ base <= whole
      /\ arrived = Len(packets) => base = whole
  BY <1>u DEF Underway
<1>4. arrived < Len(packets) =>
         /\ p.type \in Wires!Types /\ bytes \in Seq(Nat) /\ len <= BufSize
         /\ base + 2 + len <= whole /\ all[base + 1] = p.type /\ all[base + 2] = len
         /\ \A i \in 1 .. len : all[base + 2 + i] = bytes[i]
         /\ Len(sent[arrived + 1]) = base + 2 + len
  BY <1>u DEF Underway, Holds
<1>5. whole \in Nat
  BY <1>3
<1>6. /\ at = "type"   => Wires!Position = base + 0
      /\ at = "size"   => Wires!Position = base + 1
      /\ at = "body"   => Wires!Position = base + (2 + cur_buf_cursor)
      /\ at = "handle" => Wires!Position = base + (2 + size)
  BY DEF Wires!Position
<1>7. Follows(all, Wires!Position, stream, cut)
  BY DEF Wires!Inductive, Wires!StreamInOrder, Follows
<1>8. Wires!Position \in Nat
  <2>. HIDE DEF base
  <2>. QED  BY <1>1, <1>2, <1>3, <1>6
<1>9. /\ at # "type" => arrived < Len(packets) /\ type = p.type
      /\ at \in {"body", "handle"} =>
            /\ size = len
            /\ cur_buf_cursor \in {0, size} \/ stream = <<>>
            /\ cur_buf_cursor = size => \A i \in 1 .. size : packet_buf[i - 1] = bytes[i]
      /\ at = "handle" => cur_buf_cursor = size
  BY DEF Wires!Inductive, Wires!PacketInOrder
<1>10. Wires!PacketsArrive /\ Waiting
  BY DEF Wires!Inductive
(* What is kept by a step that ends no packet. *)
<1>11. ASSUME UNCHANGED <<packets, arrived, handled>>
       PROVE  Wires!PacketsArrive' /\ Waiting'
  BY <1>10, <1>11 DEF Wires!PacketsArrive
<1>12. ASSUME UNCHANGED packets, Follows(all, Wires!Position', stream', cut')
       PROVE  Wires!StreamInOrder'
  BY <1>12 DEF Wires!StreamInOrder, Follows
<1>13. ASSUME UNCHANGED <<packets, arrived>>
       PROVE  /\ at' = "type"   => Wires!Position' = base + 0
              /\ at' = "size"   => Wires!Position' = base + 1
              /\ at' = "body"   => Wires!Position' = base + (2 + cur_buf_cursor')
              /\ at' = "handle" => Wires!Position' = base + (2 + size')
  BY <1>13 DEF Wires!Position
<1>14. ASSUME Wires!TypeOK', Wires!StreamInOrder', Wires!PacketInOrder', Wires!PacketsArrive',
              Waiting'
       PROVE  Wires!Inductive'
  BY <1>14 DEF Wires!Inductive
<1>17. CASE Wires!Cut
  <2>. USE DEF Wires!Cut
  <2>1. PICK k \in 0 .. left : stream' = SubSeq(stream, 1, k)
    BY <1>17
  <2>2. /\ cut' = TRUE
        /\ UNCHANGED <<packets, at, type, size, packet_buf, cur_buf_cursor, arrived, handled>>
    BY <1>17
  <2>3. stream' \in Seq(Nat) /\ Len(stream') = k /\ Follows(all, Wires!Position, stream', TRUE)
    <3>. HIDE DEF all
    <3>1. /\ SubSeq(stream, 1, k) \in Seq(Nat) /\ Len(SubSeq(stream, 1, k)) = k
          /\ Follows(all, Wires!Position, SubSeq(stream, 1, k), TRUE)
      BY <1>1, <1>3, <1>7, <1>8, FollowsCut
    <3>. QED  BY <2>1, <3>1
  <2>4. Wires!Position' = Wires!Position
    BY <2>2 DEF Wires!Position
  <2>5. Wires!TypeOK'
    BY <1>1, <2>2, <2>3 DEF Wires!TypeOK, Written
  <2>6. Wires!StreamInOrder'
    BY <1>12, <2>2, <2>3, <2>4
  <2>7. Wires!PacketInOrder'
    <3>1. stream = <<>> => stream' = <<>>
      BY <1>1, <2>3, <2>1
    <3>. QED  BY <1>9, <2>2, <3>1 DEF Wires!PacketInOrder
  <2>. QED  BY <1>11, <1>14, <2>2, <2>5, <2>6, <2>7
<1>18. CASE Wires!ReadDone
  <2>. USE DEF Wires!ReadDone
  <2>1. /\ at = "body" /\ cur_buf_cursor = size /\ at' = "handle"
        /\ UNCHANGED <<packets, stream, cut, type, size, packet_buf, cur_buf_cursor, arrived,
                       handled>>
    BY <1>18 DEF Wires!input
  <2>2. Wires!TypeOK'
    BY <1>1, <2>1 DEF Wires!TypeOK, Written
  <2>3. Wires!Position' = Wires!Position
    BY <1>6, <1>13, <2>1
  <2>4. Wires!StreamInOrder'
    BY <1>7, <1>12, <2>1, <2>3
  <2>5. Wires!PacketInOrder'
    BY <1>9, <2>1 DEF Wires!PacketInOrder
  <2>. QED  BY <1>11, <1>14, <2>1, <2>2, <2>4, <2>5
<1>15. ASSUME stream # <<>>
       PROVE  /\ 1 <= left /\ Head(stream) = all[Wires!Position + 1]
              /\ Tail(stream) \in Seq(Nat) /\ Len(Tail(stream)) = left - 1
              /\ Follows(all, Wires!Position + 1, Tail(stream), cut)
  <2>. HIDE DEF all
  <2>1. 1 <= left /\ 1 \in 0 .. Len(stream) /\ Head(stream) = stream[1]
    BY <1>1, <1>15
  <2>2. Tail(stream) = SubSeq(stream, 1 + 1, Len(stream))
    BY <1>1, <1>15
  <2>3. /\ SubSeq(stream, 1 + 1, Len(stream)) \in Seq(Nat)
        /\ Len(SubSeq(stream, 1 + 1, Len(stream))) = Len(stream) - 1
        /\ Follows(all, Wires!Position + 1, SubSeq(stream, 1 + 1, Len(stream)), cut)
    BY <1>1, <1>3, <1>7, <1>8, <2>1, FollowsRead
  <2>4. stream[1] = all[Wires!Position + 1]
    BY <1>7, <2>1 DEF Follows
  <2>. QED  BY <2>1, <2>2, <2>3, <2>4
<1>16. Wires!Position + left <= whole
  BY <1>7 DEF Follows
<1>19. CASE Wires!ReadType
  <2>1. /\ at = "type" /\ stream # <<>> /\ type' = Head(stream) /\ stream' = Tail(stream)
        /\ at' = "size"
        /\ UNCHANGED <<packets, cut, size, packet_buf, cur_buf_cursor, arrived, handled>>
    BY <1>19 DEF Wires!ReadType
  <2>2. Wires!Position = base /\ Wires!Position' = base + 1
    <3>. HIDE DEF base
    <3>. QED  BY <1>3, <1>6, <1>13, <2>1
  <2>3. arrived < Len(packets)
    <3>1. base + 1 <= whole
      <4>. HIDE DEF base, left, whole
      <4>. QED  BY <1>2, <1>3, <1>5, <1>15, <1>16, <2>1, <2>2
    <3>2. base # whole
      <4>. HIDE DEF base, whole
      <4>. QED  BY <1>3, <1>5, <3>1
    <3>. QED  BY <1>1, <1>3, <3>2
  <2>4. type' = p.type
    <3>1. all[Wires!Position + 1] = all[base + 1]
      BY <2>2
    <3>. QED  BY <1>4, <1>15, <2>1, <2>3, <3>1
  <2>5. Wires!TypeOK'
    <3>1. type' \in Wires!Types /\ stream' \in Seq(Nat)
      BY <1>4, <1>15, <2>1, <2>3, <2>4
    <3>. QED  BY <1>1, <2>1, <3>1 DEF Wires!TypeOK, Written
  <2>6. Wires!StreamInOrder'
    <3>1. Follows(all, Wires!Position', stream', cut')
      BY <1>15, <2>1, <2>2
    <3>. QED  BY <1>12, <2>1, <3>1
  <2>7. Wires!PacketInOrder'
    BY <2>1, <2>3, <2>4 DEF Wires!PacketInOrder
  <2>. QED  BY <1>11, <1>14, <2>1, <2>5, <2>6, <2>7
<1>20. CASE Wires!ReadSize
  <2>1. /\ at = "size" /\ stream # <<>> /\ size' = Head(stream) /\ stream' = Tail(stream)
        /\ packet_buf' = Wires!EmptyBuf /\ cur_buf_cursor' = 0 /\ at' = "body"
        /\ UNCHANGED <<packets, cut, type, arrived, handled>>
    BY <1>20 DEF Wires!ReadSize
  <2>2. /\ arrived < Len(packets) /\ type = p.type /\ bytes \in Seq(Nat) /\ len <= BufSize
        /\ all[base + 2] = len
    BY <1>4, <1>9, <2>1
  <2>3. Wires!Position = base + 1 /\ Wires!Position' = base + 2
    <3>. HIDE DEF base
    <3>. QED  BY <1>3, <1>6, <1>13, <2>1
  <2>4. Wires!Position + 1 = base + 2
    <3>. HIDE DEF base
    <3>. QED  BY <1>3, <2>3
  <2>5. size' = len
    <3>1. all[Wires!Position + 1] = all[base + 2]
      BY <2>4
    <3>. QED  BY <1>15, <2>1, <2>2, <3>1
  <2>6. len \in 0 .. BufSize /\ 0 \in 0 .. len /\ len \in Nat
    BY <2>2, MCCommonAssumption
  <2>7. Wires!TypeOK'
    <3>1. packet_buf' \in [0 .. BufSize - 1 -> Int]
      BY <2>1 DEF Wires!EmptyBuf, Wires!Junk
    <3>2. size' \in 0 .. BufSize /\ cur_buf_cursor' \in 0 .. size' /\ stream' \in Seq(Nat)
      BY <1>15, <2>1, <2>5, <2>6
    <3>. QED  BY <1>1, <2>1, <3>1, <3>2 DEF Wires!TypeOK, Written
  <2>8. Wires!StreamInOrder'
    <3>1. Follows(all, Wires!Position', stream', cut')
      BY <1>15, <2>1, <2>3, <2>4
    <3>. QED  BY <1>12, <2>1, <3>1
  <2>9. Wires!PacketInOrder'
    <3>1. len = 0 => \A i \in 1 .. len : FALSE
      BY <2>6
    <3>. HIDE DEF len
    <3>2. cur_buf_cursor' = size' => \A i \in 1 .. size' : FALSE
      BY <2>1, <2>5, <3>1
    <3>. QED  BY <2>1, <2>2, <2>5, <3>2 DEF Wires!PacketInOrder, len
  <2>. QED  BY <1>11, <1>14, <2>1, <2>7, <2>8, <2>9
<1>21. CASE Wires!ReadBytes
  <2>1. /\ at = "body" /\ cur_buf_cursor < size /\ stream # <<>>
        /\ UNCHANGED <<packets, cut, at, type, size, arrived, handled>>
    BY <1>21 DEF Wires!ReadBytes
  <2>2. /\ arrived < Len(packets) /\ type = p.type /\ size = len
        /\ \A i \in 1 .. len : all[base + 2 + i] = bytes[i]
    BY <1>4, <1>9, <2>1
  <2>3. cur_buf_cursor = 0
    BY <1>2, <1>9, <2>1
  <2>4. PICK k \in 1 .. Wires!Min2(size - cur_buf_cursor, Len(stream)) :
             /\ k = Wires!Min2(size - cur_buf_cursor, Len(stream))
             /\ packet_buf' =
                   [j \in 0 .. BufSize - 1 |->
                       IF j \in cur_buf_cursor * WordSize .. cur_buf_cursor * WordSize + k - 1
                       THEN stream[j - cur_buf_cursor * WordSize + 1] ELSE packet_buf[j]]
             /\ stream' = SubSeq(stream, k + 1, Len(stream))
             /\ cur_buf_cursor' = cur_buf_cursor + k
    BY <1>21 DEF Wires!ReadBytes
  <2>5. k \in Nat /\ 1 <= k /\ k <= size /\ k <= left /\ (k = size \/ k = left)
    <3>. HIDE DEF left
    <3>1. k = Wires!Min2(size, left)
      BY <1>2, <2>3, <2>4 DEF left
    <3>. QED  BY <1>2, <2>4, <3>1 DEF Wires!Min2
  <2>6. packet_buf' = [j \in 0 .. BufSize - 1 |-> IF j \in 0 .. k - 1
                                                THEN stream[j + 1] ELSE packet_buf[j]]
    <3>1. cur_buf_cursor * WordSize = 0
      BY <2>3, MCCommonAssumption
    <3>2. 0 + k - 1 = k - 1 /\ \A j \in 0 .. BufSize - 1 : j - 0 + 1 = j + 1
      BY <2>5
    <3>3. packet_buf' = [j \in 0 .. BufSize - 1 |-> IF j \in 0 .. 0 + k - 1
                                                  THEN stream[j - 0 + 1] ELSE packet_buf[j]]
      BY <2>4, <3>1
    <3>. QED  BY <3>2, <3>3
  <2>7. cur_buf_cursor' = k
    BY <2>3, <2>4, <2>5
  <2>8. Wires!Position = base + 2 /\ Wires!Position' = base + (2 + k)
    <3>. HIDE DEF base
    <3>. QED  BY <1>3, <1>6, <1>13, <2>1, <2>3, <2>7
  <2>9. /\ stream' \in Seq(Nat) /\ Len(stream') = left - k
        /\ Follows(all, Wires!Position + k, stream', cut)
    <3>. HIDE DEF all
    <3>1. k \in 0 .. Len(stream)
      BY <2>5
    <3>2. /\ SubSeq(stream, k + 1, Len(stream)) \in Seq(Nat)
          /\ Len(SubSeq(stream, k + 1, Len(stream))) = Len(stream) - k
          /\ Follows(all, Wires!Position + k, SubSeq(stream, k + 1, Len(stream)), cut)
      BY <1>1, <1>3, <1>7, <1>8, <3>1, FollowsRead
    <3>. QED  BY <2>4, <3>2
  <2>10. Wires!TypeOK'
    <3>1. \A j \in 0 .. k - 1 : stream[j + 1] \in Int
      BY <1>1, <2>5
    <3>2. packet_buf' \in [0 .. BufSize - 1 -> Int]
      BY <1>1, <2>6, <3>1
    <3>3. cur_buf_cursor' \in 0 .. size'
      BY <2>1, <2>5, <2>7
    <3>. QED  BY <1>1, <2>1, <2>9, <3>2, <3>3 DEF Wires!TypeOK, Written
  <2>11. Wires!StreamInOrder'
    <3>1. Wires!Position + k = base + (2 + k)
      <4>. HIDE DEF base
      <4>. QED  BY <1>3, <2>5, <2>8
    <3>2. Follows(all, Wires!Position', stream', cut')
      BY <2>1, <2>8, <2>9, <3>1
    <3>. QED  BY <1>12, <2>1, <3>2
  <2>12. k = size => \A i \in 1 .. size : packet_buf'[i - 1] = bytes[i]
    <3>. SUFFICES ASSUME k = size, NEW i \in 1 .. size PROVE packet_buf'[i - 1] = bytes[i]
      OBVIOUS
    <3>1. i - 1 \in 0 .. BufSize - 1 /\ i - 1 \in 0 .. k - 1 /\ i - 1 + 1 = i
      BY <1>1, MCCommonAssumption
    <3>2. packet_buf'[i - 1] = stream[i]
      BY <2>6, <3>1
    <3>3. i \in 1 .. Len(stream) /\ i \in 1 .. len
      BY <2>2, <2>5
    <3>4. stream[i] = all[Wires!Position + i]
      BY <1>7, <3>3 DEF Follows
    <3>5. all[base + 2 + i] = bytes[i]
      BY <2>2, <3>3
    <3>. QED  BY <2>8, <3>2, <3>4, <3>5
  <2>13. k # size => stream' = <<>>
    <3>1. k # size => Len(stream') = 0
      BY <2>5, <2>9
    <3>. QED  BY <2>9, <3>1
  <2>14. Wires!PacketInOrder'
    <3>. HIDE DEF bytes
    <3>. QED  BY <2>1, <2>2, <2>7, <2>12, <2>13 DEF Wires!PacketInOrder, bytes
  <2>. QED  BY <1>11, <1>14, <2>1, <2>10, <2>11, <2>14
<1>22. CASE Wires!ReadEnd
  <2>1. /\ \/ /\ at \in {"size", "body"} /\ stream = <<>> /\ cut
              /\ at = "body" => cur_buf_cursor < size
           \/ at = "body" /\ size = 0
        /\ at' = "type"
        /\ arrived' = IF at = "body" /\ size = 0 THEN arrived + 1 ELSE arrived
        /\ UNCHANGED <<packets, stream, cut, type, size, packet_buf, cur_buf_cursor, handled>>
    BY <1>22 DEF Wires!ReadEnd, Wires!input
  <2>2. /\ arrived < Len(packets) /\ len <= BufSize /\ bytes \in Seq(Nat)
        /\ Len(sent[arrived + 1]) = base + 2 + len
    BY <1>4, <1>9, <2>1
  <2>3. Wires!PacketInOrder'
    BY <2>1 DEF Wires!PacketInOrder
  <2>4. CASE at = "body" /\ size = 0
    <3>1. arrived' = arrived + 1 /\ arrived' \in 1 .. Len(packets) /\ arrived' \in 1 .. MaxPackets
      BY <1>1, <1>2, <2>1, <2>2, <2>4, MCCommonAssumption
    <3>2. len = 0 /\ cur_buf_cursor = 0
      BY <1>1, <1>9, <2>4
    <3>3. bytes = <<>>
      BY <2>2, <3>2
    <3>4. Wires!TypeOK'
      BY <1>1, <2>1, <3>1 DEF Wires!TypeOK, Written
    <3>5. Wires!Position' = Wires!Position
      <4>1. Wires!Position' = Len(sent[arrived + 1]) + 0
        BY <2>1, <3>1 DEF Wires!Position
      <4>2. Wires!Position = base + (2 + 0)
        BY <1>6, <2>4, <3>2
      <4>. HIDE DEF base, len
      <4>. QED  BY <1>3, <2>2, <3>2, <4>1, <4>2
    <3>6. Wires!StreamInOrder'
      BY <1>7, <1>12, <2>1, <3>5
    <3>7. handled[arrived'] = <<>>
      BY <1>10, <3>1
    <3>8. Wires!PacketsArrive'
      <4>. SUFFICES ASSUME NEW n \in 1 .. arrived'
                    PROVE  LET values == packets[n].values IN
                           \/ /\ packets[n].type = Wires!ECHO_MESSAGE /\ handled[n] # <<>>
                              /\ \A k \in Wires!Kept(values) :
                                    handled[n][k] = [j \in 1 .. values[k] |-> k - 1]
                           \/ /\ \/ packets[n].type = Wires!PACKET_MAX
                                 \/ Wires!Serialized(values) = <<>>
                              /\ handled[n] = <<>>
        BY <2>1 DEF Wires!PacketsArrive
      <4>1. n \in 1 .. arrived \/ n = arrived + 1
        BY <1>2, <3>1
      <4>2. CASE n \in 1 .. arrived
        BY <1>10, <4>2 DEF Wires!PacketsArrive
      <4>3. CASE n = arrived + 1
        BY <3>1, <3>3, <3>7, <4>3
      <4>. QED  BY <4>1, <4>2, <4>3
    <3>9. Waiting'
      BY <1>2, <1>10, <2>1, <3>1
    <3>. QED  BY <1>14, <2>3, <3>4, <3>6, <3>8, <3>9
  <2>5. CASE ~(at = "body" /\ size = 0)
    <3>1. arrived' = arrived /\ cut /\ cut' /\ at \in {"size", "body"}
      BY <2>1, <2>5
    <3>2. Wires!TypeOK'
      BY <1>1, <2>1, <3>1 DEF Wires!TypeOK, Written
    <3>3. Wires!Position' = base
      <4>. HIDE DEF base
      <4>. QED  BY <1>3, <1>13, <2>1, <3>1
    <3>4. Follows(all, base, stream, TRUE)
      <4>1. stream = <<>> /\ Len(stream) = 0
        BY <2>1, <2>5
      <4>2. base + Len(stream) <= Len(all)
        <5>. HIDE DEF base, all
        <5>. QED  BY <1>3, <4>1 DEF whole
      <4>3. \A j \in 1 .. Len(stream) : FALSE
        BY <4>1
      <4>. QED  BY <4>2, <4>3 DEF Follows
    <3>5. Wires!StreamInOrder'
      BY <1>12, <2>1, <3>1, <3>3, <3>4
    <3>. QED  BY <1>11, <1>14, <2>1, <2>3, <3>1, <3>2, <3>5
  <2>. QED  BY <2>4, <2>5
<1>23. CASE Wires!Handle
  <2>1. /\ at = "handle" /\ arrived' = arrived + 1 /\ at' = "type"
        /\ handled' = IF type >= Wires!PACKET_MAX THEN handled
                      ELSE [handled EXCEPT ![arrived'] = Wires!IValues(packets[arrived'].values)]
        /\ UNCHANGED <<packets, stream, cut, type, size, packet_buf, cur_buf_cursor>>
    BY <1>23 DEF Wires!Handle, Wires!input
  <2>2. /\ arrived < Len(packets) /\ len <= BufSize /\ bytes \in Seq(Nat) /\ type = p.type
        /\ Len(sent[arrived + 1]) = base + 2 + len
        /\ size = len /\ \A i \in 1 .. size : packet_buf[i - 1] = bytes[i]
    BY <1>4, <1>9, <2>1
  <2>3. arrived' \in 1 .. Len(packets) /\ arrived' \in 1 .. MaxPackets /\ arrived' = arrived + 1
    BY <1>1, <1>2, <2>1, <2>2, MCCommonAssumption
  <2>4. p \in Written /\ p.values \in Seq(Nat) /\ p.values \in Seq(Sizes) /\ p.values # <<>>
    <3>1. p \in Written /\ p \in Packets
      BY <1>1, <2>1, <2>3, WrittenPackets
    <3>. QED  BY <3>1 DEF Written, Packets
  <2>5. Wires!TypeOK'
    BY <1>1, <2>1, <2>3 DEF Wires!TypeOK, Written
  <2>6. Wires!PacketInOrder'
    BY <2>1 DEF Wires!PacketInOrder
  <2>7. Wires!StreamInOrder'
    <3>1. Wires!Position' = Len(sent[arrived + 1]) + 0
      BY <2>1 DEF Wires!Position
    <3>2. Wires!Position = base + (2 + size)
      BY <1>6, <2>1
    <3>3. Wires!Position' = Wires!Position
      <4>. HIDE DEF base, len
      <4>. QED  BY <1>2, <1>3, <2>2, <3>1, <3>2
    <3>. QED  BY <1>7, <1>12, <2>1, <3>3
  <2>8. CASE type >= Wires!PACKET_MAX
    <3>1. p.type = Wires!PACKET_MAX
      BY <1>1, <2>2, <2>8 DEF Wires!Types, Wires!ECHO_MESSAGE, Wires!PACKET_MAX
    <3>2. handled' = handled /\ handled[arrived + 1] = <<>>
      BY <1>10, <2>1, <2>3, <2>8
    <3>3. Wires!PacketsArrive'
      <4>1. \A n \in 1 .. arrived' : n \in 1 .. arrived \/ n = arrived + 1
        BY <1>2, <2>1
      <4>. QED  BY <1>10, <2>1, <3>1, <3>2, <4>1 DEF Wires!PacketsArrive
    <3>4. Waiting'
      BY <1>2, <1>10, <2>1, <3>2
    <3>. QED  BY <1>14, <2>5, <2>6, <2>7, <3>3, <3>4
  <2>9. CASE ~(type >= Wires!PACKET_MAX)
    <3>. DEFINE values == p.values
                ends   == Wires!Ends(values)
    <3>1. p.type = Wires!ECHO_MESSAGE
      BY <1>1, <2>2, <2>9 DEF Wires!Types, Wires!ECHO_MESSAGE, Wires!PACKET_MAX
    <3>2. /\ \A n \in 1 .. MaxPackets : n # arrived + 1 => handled'[n] = handled[n]
          /\ handled'[arrived + 1] = Wires!IValues(values)
      BY <1>1, <2>1, <2>3, <2>9
    <3>3. Wires!IValues(values) # <<>>
      <4>1. 1 \in DOMAIN values
        BY <2>4
      <4>2. DOMAIN Wires!IValues(values) = DOMAIN values
        BY DEF Wires!IValues
      <4>. QED  BY <4>1, <4>2
    <3>4. ASSUME NEW k \in Wires!Kept(values)
          PROVE  Wires!IValues(values)[k] = [j \in 1 .. values[k] |-> k - 1]
      <4>1. k \in 1 .. Len(values) /\ k \in DOMAIN values /\ ends[k] <= BufSize
        BY <2>4 DEF Wires!Kept
      <4>2. /\ ends \in [0 .. Len(values) -> Nat]
            /\ \A m \in 1 .. Len(values) : ends[m] = ends[m - 1] + values[m]
        BY <2>4, EndsValue
      <4>3. ends[k] <= len /\ \A j \in 1 .. values[k] : bytes[ends[k - 1] + j] = k - 1
        BY <2>4, <4>1, SerializedBytes
      <4>. DEFINE from == ends[k - 1]
                  more == values[k]
      <4>4. from \in Nat /\ more \in Nat /\ from + more <= len /\ len \in Nat
        <5>1. k - 1 \in 0 .. Len(values) /\ more \in Nat
          BY <2>4, <4>1
        <5>2. ends[k] = from + more /\ from \in Nat
          BY <4>1, <4>2, <5>1
        <5>. QED  BY <2>2, <4>3, <5>1, <5>2
      <4>5. Wires!IValues(values)[k] = [j \in 1 .. more |-> Wires!IByte(from + j - 1)]
        BY <4>1 DEF Wires!IValues
      <4>. HIDE DEF from, more, len, bytes, values, ends
      <4>6. ASSUME NEW j \in 1 .. more PROVE Wires!IByte(from + j - 1) = k - 1
        <5>1. /\ from + j \in 1 .. len /\ from + j - 1 < len /\ from + j - 1 < BufSize
              /\ from + j - 1 \in Nat /\ ~(from + j - 1 >= BufSize)
          BY <2>2, <4>4, MCCommonAssumption
        <5>2. packet_buf[from + j - 1] = bytes[from + j]
          <6>1. PICK i \in 1 .. len : i = from + j
            BY <5>1
          <6>2. packet_buf[i - 1] = bytes[i]
            BY <2>2
          <6>. QED  BY <4>4, <6>1, <6>2
        <5>3. bytes[from + j] = k - 1
          BY <4>3 DEF from, more
        <5>. QED  BY <2>2, <5>1, <5>2, <5>3 DEF Wires!IByte
      <4>7. [j \in 1 .. more |-> Wires!IByte(from + j - 1)] = [j \in 1 .. more |-> k - 1]
        BY <4>6
      <4>. QED  BY <4>5, <4>7 DEF more
    <3>. HIDE DEF ends
    <3>5. Wires!PacketsArrive'
      <4>. SUFFICES ASSUME NEW n \in 1 .. arrived'
                    PROVE  LET w == packets[n].values IN
                           \/ /\ packets[n].type = Wires!ECHO_MESSAGE /\ handled'[n] # <<>>
                              /\ \A k \in Wires!Kept(w) :
                                    handled'[n][k] = [j \in 1 .. w[k] |-> k - 1]
                           \/ /\ \/ packets[n].type = Wires!PACKET_MAX
                                 \/ Wires!Serialized(w) = <<>>
                              /\ handled'[n] = <<>>
        BY <2>1 DEF Wires!PacketsArrive
      <4>1. n \in 1 .. arrived \/ n = arrived + 1
        BY <1>2, <2>1
      <4>2. CASE n \in 1 .. arrived
        <5>1. n \in 1 .. MaxPackets /\ n # arrived + 1
          BY <1>2, <2>3, <4>2, MCCommonAssumption
        <5>2. handled'[n] = handled[n]
          BY <3>2, <5>1
        <5>. QED  BY <1>10, <4>2, <5>2 DEF Wires!PacketsArrive
      <4>3. CASE n = arrived + 1
        BY <3>1, <3>2, <3>3, <3>4, <4>3
      <4>. QED  BY <4>1, <4>2, <4>3
    <3>6. Waiting'
      <4>. SUFFICES ASSUME NEW n \in arrived' + 1 .. MaxPackets PROVE handled'[n] = <<>>
        OBVIOUS
      <4>1. n \in 1 .. MaxPackets /\ n # arrived + 1 /\ n \in arrived + 1 .. MaxPackets
        BY <1>2, <2>1, MCCommonAssumption
      <4>. QED  BY <1>10, <3>2, <4>1
    <3>. QED  BY <1>14, <2>5, <2>6, <2>7, <3>5, <3>6
  <2>. QED  BY <2>8, <2>9
<1>24. CASE Wires!Send
  <2>1. PICK t \in Wires!Types, n \in 1 .. MaxValues : \E values \in [1 .. n -> Sizes] :
             /\ packets' = Append(packets, [type |-> t, values |-> values])
             /\ stream' = stream \o Wires!Packet([type |-> t, values |-> values])
    BY <1>24 DEF Wires!Send
  <2>2. PICK values \in [1 .. n -> Sizes] :
             /\ packets' = Append(packets, [type |-> t, values |-> values])
             /\ stream' = stream \o Wires!Packet([type |-> t, values |-> values])
    BY <2>1
  <2>3. /\ ~cut /\ Len(packets) < MaxPackets
        /\ UNCHANGED <<cut, at, type, size, packet_buf, cur_buf_cursor, arrived, handled>>
    BY <1>24 DEF Wires!Send
  <2>. DEFINE q == [type |-> t, values |-> values]
              new == Wires!Sent(packets')
  <2>4. q \in Written
    <3>1. values \in Seq(Sizes) /\ values # <<>>
      BY MCCommonAssumption
    <3>. QED  BY <3>1 DEF Written
  <2>5. packets' = Append(packets, q) /\ stream' = stream \o Wires!Packet(q)
    BY <2>2
  <2>. HIDE DEF q
  <2>6. /\ packets' \in Seq(Written) /\ Len(packets') = Len(packets) + 1 /\ Len(packets) \in Nat
        /\ \A k \in 1 .. Len(packets) : packets'[k] = packets[k]
    BY <1>1, <2>4, <2>5
  <2>7. packets \in Seq(Packets) /\ q \in Packets
    <3>1. <<q>> \in Seq(Written)
      BY <2>4
    <3>2. <<q>> \in Seq(Packets)
      BY <3>1, WrittenPackets
    <3>. QED  BY <1>1, <3>2, WrittenPackets
  <2>8. Wires!Packet(q) \in Seq(Nat)
    BY <2>7, PacketBytes
  <2>9. /\ \A k \in 0 .. Len(packets) : new[k] = sent[k]
        /\ new[Len(packets) + 1] = all \o Wires!Packet(q)
    BY <2>5, <2>7, SentMore
  <2>10. new[arrived] = sent[arrived] /\ new[Len(packets')] = all \o Wires!Packet(q)
    BY <1>1, <2>6, <2>9
  <2>11. Wires!Position' = Wires!Position
    BY <2>3, <2>10 DEF Wires!Position
  <2>12. Wires!TypeOK'
    <3>1. stream' \in Seq(Nat)
      BY <1>1, <2>5, <2>8
    <3>2. arrived \in 0 .. Len(packets') /\ Len(packets') <= MaxPackets
      BY <1>1, <2>3, <2>6, MCCommonAssumption
    <3>. QED  BY <1>1, <2>3, <2>6, <3>1, <3>2 DEF Wires!TypeOK, Written
  <2>13. Wires!StreamInOrder'
    <3>. HIDE DEF all
    <3>c. cut = FALSE /\ cut' = FALSE
      BY <1>1, <2>3
    <3>1. Follows(all, Wires!Position, stream, FALSE)
      BY <1>7, <3>c
    <3>2. Follows(all \o Wires!Packet(q), Wires!Position, stream \o Wires!Packet(q), FALSE)
      BY <1>1, <1>3, <1>8, <2>8, <3>1, FollowsMore
    <3>3. Follows(new[Len(packets')], Wires!Position', stream', cut')
      BY <2>5, <2>10, <2>11, <3>2, <3>c
    <3>. QED  BY <3>3 DEF Wires!StreamInOrder, Follows
  <2>14. Wires!PacketInOrder'
    <3>1. at # "type" => packets'[arrived + 1] = p /\ arrived < Len(packets')
      <4>. SUFFICES ASSUME at # "type"
                    PROVE  packets'[arrived + 1] = p /\ arrived < Len(packets')
        OBVIOUS
      <4>1. arrived \in Nat /\ arrived < Len(packets) /\ packets[arrived + 1] = p
        BY <1>1, <1>2, <1>9
      <4>2. arrived + 1 \in 1 .. Len(packets)
        BY <2>6, <4>1
      <4>. QED  BY <2>6, <4>1, <4>2
    <3>2. at \in {"body", "handle"} => cur_buf_cursor \in {0, size}
      <4>. SUFFICES ASSUME at = "body", stream = <<>> PROVE cur_buf_cursor = size
        BY <1>9
      <4>1. Wires!Position = whole
        <5>1. Wires!Position + left = whole /\ left = 0
          BY <1>7, <2>3 DEF Follows
        <5>. HIDE DEF left, whole
        <5>. QED  BY <1>8, <5>1
      <4>2. base + 2 + size <= whole
        BY <1>4, <1>9
      <4>3. Wires!Position = base + (2 + cur_buf_cursor)
        BY <1>6
      <4>. HIDE DEF base, whole
      <4>. QED  BY <1>1, <1>2, <1>3, <1>5, <4>1, <4>2, <4>3
    <3>. QED  BY <1>9, <2>3, <3>1, <3>2 DEF Wires!PacketInOrder
  <2>15. Wires!PacketsArrive' /\ Waiting'
    <3>1. \A n1 \in 1 .. arrived : packets'[n1] = packets[n1]
      BY <1>1, <2>6
    <3>. QED  BY <1>10, <2>3, <3>1 DEF Wires!PacketsArrive
  <2>. QED  BY <1>14, <2>12, <2>13, <2>14, <2>15
<1>. QED  BY <1>17, <1>18, <1>19, <1>20, <1>21, <1>22, <1>23, <1>24 DEF Wires!Next

LEMMA WireInductiveAlways == ~Splits => (Spec => []WireInductive)
<1>. SUFFICES ASSUME ~Splits PROVE Spec => []WireInductive
  OBVIOUS
<1>1. Init => WireInductive
  BY WireInit DEF Init, WireInductive
<1>2. WireInductive /\ [Next]_vars => WireInductive'
  <2>. SUFFICES ASSUME WireInductive, [Next]_vars, part' = "wire" PROVE Wires!Inductive'
    BY DEF WireInductive
  <2>1. CASE Wire(Wires!Next)
    BY <2>1, WireNext DEF Wire, WireInductive
  <2>2. CASE Manager(Managers!Next) \/ Tick(Tickers!Next)
    BY <2>2 DEF Manager, Tick
  <2>3. CASE UNCHANGED vars
    <3>1. part = "wire" /\ UNCHANGED wirev
      BY <2>3 DEF vars
    <3>. QED  BY <3>1
              DEF WireInductive, wirev, Wires!Inductive, Wires!TypeOK, Wires!StreamInOrder,
                  Wires!Position, Wires!PacketInOrder, Wires!PacketsArrive
  <2>. QED  BY <2>1, <2>2, <2>3 DEF Next
<1>. QED  BY <1>1, <1>2, PTL DEF Spec

(* When read_nbytes is not interrupted within a packet (where it is, the bytes
   it reads next go to the wrong place, and the run packet_split shows it), the
   handler gets the values of every packet that was sent, as far as they all
   fitted, and every packet with a known type and a byte reaches it. *)
THEOREM PacketsAlwaysArrive == ~Splits => (Spec => []PacketsArrive)
<1>. SUFFICES ASSUME ~Splits PROVE Spec => []PacketsArrive
  OBVIOUS
<1>1. WireInductive => PacketsArrive
  BY DEF WireInductive, PacketsArrive, Wires!Inductive
<1>2. Spec => []WireInductive
  BY WireInductiveAlways
<1>. QED  BY <1>1, <1>2, PTL
=============================================================================
