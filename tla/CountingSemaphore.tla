------------------------- MODULE CountingSemaphore -------------------------
(***************************************************************************)
(* What a counting semaphore promises, with no mutex and no condition      *)
(* variable: a number of permits, the threads that asked for one, and a    *)
(* permit handed to one of them whenever there is one.  Semaphore, the     *)
(* model of RS::Semaphore, is shown to implement this specification.       *)
(***************************************************************************)
EXTENDS Integers

CONSTANTS Threads,      \* the threads that may ask for a permit
          InitialCount  \* the permits at the start

VARIABLES permits,      \* permits nobody has taken
          pending       \* threads that asked and have not been served

vars == <<permits, pending>>

Init == permits = InitialCount /\ pending = {}

Release == permits' = permits + 1 /\ UNCHANGED pending

Ask(t) == t \notin pending /\ pending' = pending \cup {t} /\ UNCHANGED permits

Take(t) == permits > 0 /\ permits' = permits - 1 /\ pending' = pending \ {t}

Next == Release \/ \E t \in Threads : Ask(t) \/ Take(t)

(* A permit and a thread that asked for one do not stay together forever. *)
Served == \E t \in pending : Take(t)

Spec == Init /\ [][Next]_vars /\ WF_vars(Served)

(* The same without fairness, the part a proof can establish. *)
SafeSpec == Init /\ [][Next]_vars
=============================================================================
