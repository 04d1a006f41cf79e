---------------------------- MODULE SessionManager ----------------------------
(***************************************************************************)
(* server/session_manager.cpp with several threads: ClientSessionManager   *)
(* under its shared mutex, and the kernel's descriptors, which a session   *)
(* closes when it is destroyed and which accept then hands out again.      *)
(* The manager's calls are sections under the lock, and register_session   *)
(* and unregister_session are two of them each: the test, and the change.  *)
(***************************************************************************)
EXTENDS Integers, FiniteSets

CONSTANTS Threads,   \* threads that use the manager
          Sockets,   \* descriptors there are for clients, 1 .. n
          MaxConns   \* bound: connections that are accepted

Nobody == 0

VARIABLES
    fdtab,      \* kernel: the connection a descriptor refers to
    m_sessions, \* the manager's map: the connection each session was made for
    readers,    \* threads that hold the lock shared
    calls,      \* what each thread is doing
    socket,     \* the argument of its call
    session,    \* the connection it accepted, or of the session it found
    conns       \* connections accepted so far

thread == <<calls, socket, session>>
vars   == <<fdtab, m_sessions, readers, thread, conns>>

Init ==
    /\ fdtab = [s \in Sockets |-> Nobody] /\ m_sessions = fdtab
    /\ readers = {}
    /\ calls = [t \in Threads |-> "none"]
    /\ socket = [t \in Threads |-> 0] /\ session = [t \in Threads |-> Nobody]
    /\ conns = 0

Goes(t, call)    == calls' = [calls EXCEPT ![t] = call]
Registered(s)    == m_sessions[s] # Nobody
LowestFree(s)    == fdtab[s] = Nobody /\ \A r \in Sockets : fdtab[r] = Nobody => s <= r

(* A connection is accepted and register_session called for it. *)
Accept(t) ==
    /\ calls[t] = "none" /\ conns < MaxConns
    /\ conns' = conns + 1
    /\ \E s \in Sockets :
          /\ LowestFree(s)
          /\ fdtab' = [fdtab EXCEPT ![s] = conns']
          /\ socket' = [socket EXCEPT ![t] = s]
    /\ session' = [session EXCEPT ![t] = conns']
    /\ Goes(t, "register")
    /\ UNCHANGED <<m_sessions, readers>>

(* The test.  If there is one, the session is not made, and nobody closes the
   descriptor. *)
register_session(t) ==
    /\ calls[t] = "register"
    /\ Goes(t, IF Registered(socket[t]) THEN "none" ELSE "emplace")
    /\ UNCHANGED <<fdtab, m_sessions, readers, socket, session, conns>>

(* emplace() leaves a session that is there; the one it made for nothing is
   destroyed, and that closes the descriptor of both. *)
Emplace(t) ==
    /\ calls[t] = "emplace" /\ readers = {}
    /\ IF Registered(socket[t])
       THEN fdtab' = [fdtab EXCEPT ![socket[t]] = Nobody] /\ UNCHANGED m_sessions
       ELSE m_sessions' = [m_sessions EXCEPT ![socket[t]] = session[t]] /\ UNCHANGED fdtab
    /\ Goes(t, "none")
    /\ UNCHANGED <<readers, socket, session, conns>>

unregister_session(t) ==
    /\ calls[t] = "none"
    /\ \E s \in Sockets : Registered(s) /\ socket' = [socket EXCEPT ![t] = s]
    /\ Goes(t, "erase")
    /\ UNCHANGED <<fdtab, m_sessions, readers, session, conns>>

(* The session is taken from the map and destroyed; or it has gone since it
   was tested, or is another one, which then goes instead. *)
Erase(t) ==
    /\ calls[t] = "erase" /\ readers = {}
    /\ IF Registered(socket[t])
       THEN /\ fdtab' = [fdtab EXCEPT ![socket[t]] = Nobody]
            /\ m_sessions' = [m_sessions EXCEPT ![socket[t]] = Nobody]
       ELSE UNCHANGED <<fdtab, m_sessions>>
    /\ Goes(t, "none")
    /\ UNCHANGED <<readers, socket, session, conns>>

clear(t) ==
    /\ calls[t] = "none" /\ readers = {}
    /\ fdtab' = [s \in Sockets |-> IF Registered(s) THEN Nobody ELSE fdtab[s]]
    /\ m_sessions' = [s \in Sockets |-> Nobody]
    /\ UNCHANGED <<readers, thread, conns>>

(* Mutant: the lock protects the search only. *)
FindUnlocked(t) ==
    /\ calls[t] = "none"
    /\ \E s \in Sockets :
          /\ Registered(s)
          /\ socket' = [socket EXCEPT ![t] = s]
          /\ session' = [session EXCEPT ![t] = m_sessions[s]]
    /\ Goes(t, "task")
    /\ UNCHANGED <<fdtab, m_sessions, readers, conns>>

(* for_session: the task is called under the lock, which others may share. *)
for_session(t) ==
    /\ calls[t] = "none"
    /\ \E s \in Sockets :
          /\ Registered(s)
          /\ socket' = [socket EXCEPT ![t] = s]
          /\ session' = [session EXCEPT ![t] = m_sessions[s]]
    /\ readers' = readers \cup {t}
    /\ Goes(t, "task")
    /\ UNCHANGED <<fdtab, m_sessions, conns>>

(* The task returns, having sent a packet or asked for the address. *)
TaskDone(t) ==
    /\ calls[t] = "task"
    /\ readers' = readers \ {t}
    /\ Goes(t, "none")
    /\ UNCHANGED <<fdtab, m_sessions, socket, session, conns>>

Next == \E t \in Threads :
    \/ Accept(t) \/ register_session(t) \/ Emplace(t)
    \/ unregister_session(t) \/ Erase(t) \/ clear(t) \/ for_session(t) \/ TaskDone(t)

(* Types: every variable has a value of its type. *)
TypeOK ==
    /\ fdtab \in [Sockets -> 0 .. MaxConns] /\ m_sessions \in [Sockets -> 0 .. MaxConns]
    /\ readers \subseteq Threads
    /\ calls \in [Threads -> {"none", "register", "emplace", "erase", "task"}]
    /\ socket \in [Threads -> Sockets \cup {0}]
    /\ session \in [Threads -> 0 .. MaxConns] /\ conns \in 0 .. MaxConns

(* A session is for the connection its descriptor refers to.  A task works on
   the session it was called with, until it returns.  And a connection that is
   being registered is still there, with no session of an earlier one under
   its descriptor: between its two sections register_session loses nothing. *)
SessionsCurrent ==
    /\ \A s \in Sockets : Registered(s) => fdtab[s] = m_sessions[s]
    /\ \A t \in Threads :
          /\ calls[t] = "task" => m_sessions[socket[t]] = session[t]
          /\ calls[t] \in {"register", "emplace"} =>
                fdtab[socket[t]] = session[t] /\ ~Registered(socket[t])

Registering(t) == calls[t] \in {"register", "emplace"}

(* What is inductive with it: a call has a descriptor, a task the lock, and a
   descriptor that is being registered is one thread's, for accept does not
   hand it out again before it is closed. *)
Inductive ==
    /\ TypeOK /\ SessionsCurrent
    /\ \A t \in Threads :
          /\ calls[t] # "none" => socket[t] \in Sockets
          /\ calls[t] = "task" => t \in readers
          /\ Registering(t) => session[t] # Nobody
    /\ \A t, other \in Threads :
          Registering(t) /\ Registering(other) /\ socket[t] = socket[other] => t = other
=============================================================================
