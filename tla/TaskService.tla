---------------------------- MODULE TaskService ----------------------------
(***************************************************************************)
(* What a pool of workers promises to the threads that use it: tasks start *)
(* in the order they were accepted, each once, at most PoolSize at a time; *)
(* stopping refuses new tasks and returns only when every accepted one has *)
(* finished; destroying the pool waits for the running ones alone.         *)
(* ThreadPool is shown to implement this specification.                    *)
(***************************************************************************)
EXTENDS Naturals, Sequences, FiniteSets

CONSTANTS Jobs,      \* the tasks that may be submitted
          PoolSize   \* how many run at once, at most

VARIABLES phase,     \* where the pool stands in its life
          pending,   \* accepted tasks that have not started, oldest first
          running,   \* tasks being executed
          finished,  \* tasks executed
          refused    \* tasks turned away

vars == <<phase, pending, running, finished, refused>>

Phases == {"open", "draining", "stopped", "discarding", "gone"}

Fresh(j) ==
    j \notin running \cup finished \cup refused \cup {pending[i] : i \in 1 .. Len(pending)}

Init ==
    /\ phase = "open"
    /\ pending = <<>>
    /\ running = {} /\ finished = {} /\ refused = {}

Submit(j) ==
    /\ phase = "open"
    /\ Fresh(j)
    /\ pending' = Append(pending, j)
    /\ UNCHANGED <<phase, running, finished, refused>>

Refuse(j) ==
    /\ phase # "open"
    /\ Fresh(j)
    /\ refused' = refused \cup {j}
    /\ UNCHANGED <<phase, pending, running, finished>>

Start ==
    /\ pending # <<>>
    /\ Cardinality(running) < PoolSize
    /\ running' = running \cup {Head(pending)}
    /\ pending' = Tail(pending)
    /\ UNCHANGED <<phase, finished, refused>>

Finish(j) ==
    /\ j \in running
    /\ running' = running \ {j}
    /\ finished' = finished \cup {j}
    /\ UNCHANGED <<phase, pending, refused>>

(* The phases, and what has to be true to enter one. *)
Becomes(from, to) ==
    /\ phase = from
    /\ phase' = to
    /\ UNCHANGED <<pending, running, finished, refused>>

BeginDrain   == Becomes("open", "draining") \/ Becomes("stopped", "draining")
EndDrain     == pending = <<>> /\ running = {} /\ Becomes("draining", "stopped")
Reopen       == Becomes("stopped", "open")
BeginDiscard == Becomes("open", "discarding") \/ Becomes("stopped", "discarding")
EndDiscard   == running = {} /\ Becomes("discarding", "gone")

Next ==
    \/ Start \/ BeginDrain \/ EndDrain \/ Reopen \/ BeginDiscard \/ EndDiscard
    \/ \E j \in Jobs : Submit(j) \/ Refuse(j) \/ Finish(j)

Spec == Init /\ [][Next]_vars
=============================================================================
