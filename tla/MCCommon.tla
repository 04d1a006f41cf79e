------------------------------- MODULE MCCommon -------------------------------
(***************************************************************************)
(* Parts of the chat server that its main loop uses one call at a time, or *)
(* not at all, for TLC with the callers they are written for: one part in  *)
(* each behaviour, and the variables of the others stay 0.                 *)
(***************************************************************************)
EXTENDS Integers

CONSTANTS Threads, MaxSocket, MaxConns,                             \* SessionManager
          MaxStarts,                                                \* Ticker
          BufSize, WordSize, Sizes, MaxValues, MaxPackets, Splits   \* PacketWire

ASSUME MCCommonAssumption ==
    /\ MaxSocket \in Nat /\ MaxConns \in Nat
    /\ BufSize \in Nat /\ WordSize \in Nat /\ Sizes \in SUBSET Nat
    /\ MaxValues \in Nat /\ MaxPackets \in Nat

Sockets == 1 .. MaxSocket

VARIABLES
    part,
    fdtab, m_sessions, readers, calls, socket, session, conns,
    m_onTick, m_running, loop, starts,
    packets, stream, cut, at, type, size, packet_buf, cur_buf_cursor, arrived, handled

Managers == INSTANCE SessionManager
Tickers  == INSTANCE Ticker
Wires    == INSTANCE PacketWire

managerv == <<fdtab, m_sessions, readers, calls, socket, session, conns>>
tickerv  == <<m_onTick, m_running, loop, starts>>
wirev    == <<packets, stream, cut, at, type, size, packet_buf, cur_buf_cursor, arrived, handled>>
vars     == <<part, managerv, tickerv, wirev>>

NoManager == /\ fdtab = 0 /\ m_sessions = 0 /\ readers = 0 /\ calls = 0 /\ socket = 0
             /\ session = 0 /\ conns = 0
NoTicker  == m_onTick = 0 /\ m_running = 0 /\ loop = 0 /\ starts = 0
NoWire    == /\ packets = 0 /\ stream = 0 /\ cut = 0 /\ at = 0 /\ type = 0 /\ size = 0
             /\ packet_buf = 0 /\ cur_buf_cursor = 0 /\ arrived = 0 /\ handled = 0

Init ==
    \/ part = "manager" /\ Managers!Init /\ NoTicker /\ NoWire
    \/ part = "ticker"  /\ Tickers!Init  /\ NoManager /\ NoWire
    \/ part = "wire"    /\ Wires!Init    /\ NoManager /\ NoTicker

Manager(A) == part = "manager" /\ A /\ UNCHANGED <<part, tickerv, wirev>>
Tick(A)    == part = "ticker"  /\ A /\ UNCHANGED <<part, managerv, wirev>>
Wire(A)    == part = "wire"    /\ A /\ UNCHANGED <<part, managerv, tickerv>>

Next == Manager(Managers!Next) \/ Tick(Tickers!Next) \/ Wire(Wires!Next)

(* A loop of a ticker is a thread that runs when it can. *)
Spec == Init /\ [][Next]_vars
             /\ \A i \in 1 .. MaxStarts : WF_vars(Tick(Tickers!timer_loop(i)))

-----------------------------------------------------------------------------
(* SessionManager: a session is for the connection its descriptor refers to,
   a task runs on a session that is there, and a registration is not lost
   between the two sections of register_session. *)
SessionsCurrent == part = "manager" => Managers!SessionsCurrent

ManagerInductive == part = "manager" => Managers!Inductive

(* PacketWire: the handler gets the values that were sent, and only packets of
   an unknown type or without a byte do not reach it. *)
PacketsArrive == part = "wire" => Wires!PacketsArrive

WireInductive == part = "wire" => Wires!Inductive

(* Ticker: once stopped, and until it is started again, all its loops end, were
   there several. *)
TickerStops ==
    (part = "ticker" /\ ~m_running) ~> (part = "ticker" /\ (m_running \/ ~Tickers!Working))
=============================================================================
