-------------------------------- MODULE Ticker --------------------------------
(***************************************************************************)
(* common/thread/ticker.cpp: one thread calls set_func, start and stop;    *)
(* every start that succeeds detaches a thread that runs timer_loop.       *)
(* Nothing waits for such a thread: after stop() and start() there may be  *)
(* several, all reading the one m_running.                                 *)
(***************************************************************************)
EXTENDS Integers

CONSTANTS MaxStarts  \* bound: loops that are started

Loops == 1 .. MaxStarts

VARIABLES
    m_onTick,   \* a function was set
    m_running,
    loop,       \* where each timer_loop is
    starts      \* loops started so far

vars == <<m_onTick, m_running, loop, starts>>

Init ==
    /\ m_onTick = FALSE /\ m_running = FALSE
    /\ loop = [i \in Loops |-> "none"] /\ starts = 0

(* At any time, though while a loop runs it races with the loop's copy of the
   function; which function it is the model does not tell. *)
set_func == m_onTick' = TRUE /\ UNCHANGED <<m_running, loop, starts>>

(* start() that does not return false *)
start ==
    /\ ~m_running /\ m_onTick /\ starts < MaxStarts
    /\ m_running' = TRUE
    /\ starts' = starts + 1
    /\ loop' = [loop EXCEPT ![starts'] = "test"]
    /\ UNCHANGED m_onTick

stop == m_running' = FALSE /\ UNCHANGED <<m_onTick, loop, starts>>

(* Mutant: the flag is not looked at again. *)
TickForEver(i) ==
    /\ loop[i] = "test"
    /\ loop' = [loop EXCEPT ![i] = "sleep"]
    /\ UNCHANGED <<m_onTick, m_running, starts>>

(* The loop's test, and its round: a thread for the tick is detached. *)
Tick(i) ==
    /\ loop[i] = "test" /\ m_running
    /\ loop' = [loop EXCEPT ![i] = "sleep"]
    /\ UNCHANGED <<m_onTick, m_running, starts>>

Wake(i) ==
    /\ loop[i] = "sleep"
    /\ loop' = [loop EXCEPT ![i] = "test"]
    /\ UNCHANGED <<m_onTick, m_running, starts>>

LoopEnds(i) ==
    /\ loop[i] = "test" /\ ~m_running
    /\ loop' = [loop EXCEPT ![i] = "ended"]
    /\ UNCHANGED <<m_onTick, m_running, starts>>

timer_loop(i) == Tick(i) \/ Wake(i) \/ LoopEnds(i)
Next          == set_func \/ start \/ stop \/ \E i \in Loops : timer_loop(i)

(* Types: every variable has a value of its type. *)
TypeOK ==
    /\ m_onTick \in BOOLEAN /\ m_running \in BOOLEAN
    /\ loop \in [Loops -> {"none", "test", "sleep", "ended"}]
    /\ starts \in 0 .. MaxStarts

Working == \E i \in Loops : loop[i] \in {"test", "sleep"}
=============================================================================
