----------------------------- MODULE Semaphore -----------------------------
(***************************************************************************)
(* RS::Semaphore (common/thread/semaphore.cpp): a counter guarded by a     *)
(* mutex, and a condition variable for the threads that found it at zero.  *)
(* Every operation runs under m_mutex and calls nothing else, so each      *)
(* stretch between taking and releasing the mutex is one action; wait()    *)
(* releases it inside m_condition.wait and so takes several actions.       *)
(* A thread in neither set is outside wait().                              *)
(***************************************************************************)
EXTENDS Integers, FiniteSets

CONSTANTS Threads,       \* the threads that call wait() and try_wait()
          InitialCount,  \* the constructor's initial_count
          MaxCount       \* bound: notify() is called only below this count

ASSUME SemaphoreAssumption ==
    /\ IsFiniteSet(Threads)
    /\ InitialCount \in Int
    /\ MaxCount \in Int

VARIABLES m_count,       \* the counter
          waiting,       \* threads asleep in m_condition.wait
          woken          \* threads woken that have yet to retake m_mutex

vars == <<m_count, waiting, woken>>

Init == m_count = InitialCount /\ waiting = {} /\ woken = {}

-----------------------------------------------------------------------------

Wake(t) == waiting' = waiting \ {t} /\ woken' = woken \cup {t}

(* Mutant: notify_one only when the counter leaves zero. *)
NotifyOneAtZero ==
    \/ (waiting = {} \/ m_count > 0) /\ UNCHANGED <<waiting, woken>>
    \/ m_count <= 0 /\ \E t \in waiting : Wake(t)

(* Mutant: the increment is not followed by a notification. *)
NotifyNobody == UNCHANGED <<waiting, woken>>

(* m_condition.notify_one(): one sleeping thread, whichever, if there is one. *)
NotifyOne ==
    \/ waiting = {} /\ UNCHANGED <<waiting, woken>>
    \/ \E t \in waiting : Wake(t)

notify == m_count' = m_count + 1 /\ NotifyOne

(* Mutant: the test is `if', so a woken thread does not look again. *)
PassesOnceWoken(t) == m_count > 0 \/ t \in woken

(* The negation of the loop test of wait(). *)
Passes(t) == m_count > 0

(* A thread, entering wait() or woken in it, that need not sleep. *)
Acquire(t) ==
    /\ t \notin waiting
    /\ Passes(t)
    /\ m_count' = m_count - 1
    /\ woken' = woken \ {t}
    /\ UNCHANGED waiting

(* Mutant: a thread that goes back to sleep still counts as woken. *)
BlockStillWoken(t) ==
    /\ t \notin waiting
    /\ ~Passes(t)
    /\ waiting' = waiting \cup {t}
    /\ UNCHANGED <<m_count, woken>>

(* A thread, entering wait() or woken in it, that finds no permit. *)
Block(t) ==
    /\ t \notin waiting
    /\ ~Passes(t)
    /\ waiting' = waiting \cup {t}
    /\ woken' = woken \ {t}
    /\ UNCHANGED m_count

(* m_condition.wait may return though nobody notified. *)
SpuriousWake(t) == t \in waiting /\ Wake(t) /\ UNCHANGED m_count

(* try_wait() never sleeps; it takes a permit or returns false. *)
try_wait(t) ==
    /\ t \notin waiting \cup woken
    /\ m_count' = IF m_count > 0 THEN m_count - 1 ELSE m_count
    /\ UNCHANGED <<waiting, woken>>

Next ==
    \/ m_count < MaxCount /\ notify
    \/ \E t \in Threads : Acquire(t) \/ Block(t) \/ SpuriousWake(t) \/ try_wait(t)

(* The scheduler runs every thread that was woken. *)
Fairness == \A t \in Threads : WF_vars(t \in woken /\ (Acquire(t) \/ Block(t)))

Spec == Init /\ [][Next]_vars /\ Fairness

-----------------------------------------------------------------------------

(* Types; a thread is asleep or woken, never both (wait() sleeps and wakes). *)
TypeOK ==
    /\ m_count \in Int
    /\ waiting \subseteq Threads
    /\ woken \subseteq Threads
    /\ waiting \cap woken = {}

(* wait() and try_wait() never hand out a permit that is not there, however
   threads that enter wait() race with threads that were woken for the same
   permit: the counter never goes below zero, or below a negative start. *)
NeverOverdrawn == m_count >= 0 \/ m_count >= InitialCount

(* No wake-up is lost: while a thread sleeps, every permit has a woken thread
   on its way to take it (notify() pairs each increment with a notify_one). *)
NoLostWakeup == waiting # {} => m_count <= Cardinality(woken)

Counting == INSTANCE CountingSemaphore
                WITH permits <- m_count, pending <- waiting \cup woken

(* Mutex, condition variable and retry loop together are a counting
   semaphore: permits are taken one at a time and a thread that waits does
   not wait forever next to a free permit. *)
ImplementsCounting == Counting!Spec
=============================================================================
