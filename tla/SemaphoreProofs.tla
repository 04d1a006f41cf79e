--------------------------- MODULE SemaphoreProofs ---------------------------
(***************************************************************************)
(* Proofs about Semaphore for every finite set of threads and every        *)
(* initial count: its invariants, and that each of its steps is a step of  *)
(* CountingSemaphore or a stutter.                                         *)
(***************************************************************************)
EXTENDS Semaphore, FiniteSetTheorems, TLAPS

LEMMA TypeInit == Init => TypeOK
BY SemaphoreAssumption DEF Init, TypeOK

LEMMA TypeNext == TypeOK /\ [Next]_vars => TypeOK'
<1>. SUFFICES ASSUME TypeOK, [Next]_vars PROVE TypeOK'
  OBVIOUS
<1>. USE DEF TypeOK
<1>1. CASE m_count < MaxCount /\ notify
  BY <1>1 DEF notify, NotifyOne, Wake
<1>2. ASSUME NEW t \in Threads, Acquire(t) PROVE TypeOK'
  BY <1>2 DEF Acquire
<1>3. ASSUME NEW t \in Threads, Block(t) PROVE TypeOK'
  BY <1>3 DEF Block
<1>4. ASSUME NEW t \in Threads, SpuriousWake(t) PROVE TypeOK'
  BY <1>4 DEF SpuriousWake, Wake
<1>5. ASSUME NEW t \in Threads, try_wait(t) PROVE TypeOK'
  BY <1>5 DEF try_wait
<1>6. CASE UNCHANGED vars
  BY <1>6 DEF vars
<1>. QED  BY <1>1, <1>2, <1>3, <1>4, <1>5, <1>6 DEF Next

(* Every state of the semaphore has the types TypeOK gives it. *)
THEOREM TypeCorrect == Spec => []TypeOK
BY TypeInit, TypeNext, PTL DEF Spec

(* wait() and try_wait() never take a permit that is not there. *)
THEOREM NeverOverdrawnAlways == Spec => []NeverOverdrawn
<1>1. Init => NeverOverdrawn
  BY SemaphoreAssumption DEF Init, NeverOverdrawn
<1>2. TypeOK /\ NeverOverdrawn /\ [Next]_vars => NeverOverdrawn'
  BY SemaphoreAssumption DEF TypeOK, NeverOverdrawn, Next, notify, Acquire, Passes,
     Block, SpuriousWake, try_wait, vars
<1>. QED  BY <1>1, <1>2, TypeCorrect, PTL DEF Spec

(* While a thread sleeps in wait(), every permit has a woken thread. *)
THEOREM NoLostWakeupAlways == Spec => []NoLostWakeup
<1>1. TypeOK /\ Init => NoLostWakeup
  BY DEF Init, NoLostWakeup
<1>2. TypeOK /\ NoLostWakeup /\ [Next]_vars => NoLostWakeup'
  <2>. SUFFICES ASSUME TypeOK, NoLostWakeup, [Next]_vars, waiting' # {}
                PROVE  m_count' <= Cardinality(woken')
    BY DEF NoLostWakeup
  <2>. USE DEF TypeOK, NoLostWakeup
  <2>. DEFINE N == Cardinality(woken)
  <2>0. /\ N \in Nat
        /\ \A t \in Threads : t \notin woken => Cardinality(woken \cup {t}) = N + 1
        /\ \A t \in woken : Cardinality(woken \ {t}) = N - 1
        /\ \A t : t \notin woken => woken \ {t} = woken
    <3>1. IsFiniteSet(woken)
      BY FS_Subset, SemaphoreAssumption
    <3>2. N \in Nat
      BY <3>1, FS_CardinalityType
    <3>3. \A t \in Threads : t \notin woken => Cardinality(woken \cup {t}) = N + 1
      BY <3>1, FS_AddElement
    <3>4. \A t \in woken : Cardinality(woken \ {t}) = N - 1
      BY <3>1, FS_RemoveElement
    <3>. QED  BY <3>2, <3>3, <3>4
  <2>. HIDE DEF N
  <2>1. CASE notify
    <3>1. waiting # {}
      BY <2>1 DEF notify, NotifyOne
    <3>2. PICK t \in waiting : Wake(t)
      BY <2>1, <3>1 DEF notify, NotifyOne
    <3>3. Cardinality(woken') = N + 1
      BY <2>0, <3>2 DEF Wake
    <3>4. m_count <= N
      BY <3>1 DEF N
    <3>. QED  BY <2>0, <2>1, <3>3, <3>4 DEF notify
  <2>2. ASSUME NEW t \in Threads, Acquire(t)
        PROVE  m_count' <= Cardinality(woken')
    <3>1. m_count <= N
      BY <2>2 DEF Acquire, N
    <3>2. Cardinality(woken') \in {N, N - 1}
      BY <2>0, <2>2 DEF Acquire, N
    <3>. QED  BY <2>0, <2>2, <3>1, <3>2 DEF Acquire
  <2>3. ASSUME NEW t \in Threads, Block(t)
        PROVE  m_count' <= Cardinality(woken')
    <3>1. Cardinality(woken') \in Nat
      <4>1. woken' \in SUBSET Threads
        BY <2>3 DEF Block
      <4>2. IsFiniteSet(woken')
        BY <4>1, FS_Subset, SemaphoreAssumption
      <4>. QED  BY <4>2, FS_CardinalityType
    <3>. QED  BY <2>3, <3>1 DEF Block, Passes
  <2>4. ASSUME NEW t \in Threads, SpuriousWake(t)
        PROVE  m_count' <= Cardinality(woken')
    <3>1. m_count <= N
      BY <2>4 DEF SpuriousWake, N
    <3>2. Cardinality(woken') = N + 1
      BY <2>0, <2>4 DEF SpuriousWake, Wake
    <3>. QED  BY <2>0, <2>4, <3>1, <3>2 DEF SpuriousWake
  <2>5. ASSUME NEW t \in Threads, try_wait(t)
        PROVE  m_count' <= Cardinality(woken')
    BY <2>0, <2>5 DEF try_wait, N
  <2>6. CASE UNCHANGED vars
    BY <2>6 DEF vars
  <2>. QED  BY <2>1, <2>2, <2>3, <2>4, <2>5, <2>6 DEF Next
<1>. QED  BY <1>1, <1>2, TypeInit, TypeCorrect, PTL DEF Spec

(* The safety half of ImplementsCounting. *)
ImplementsCountingSafely == Counting!SafeSpec

(* Mutex, condition variable and retry loop implement the steps of a
   counting semaphore: wait() asks when it first sleeps and takes when it
   finds a permit, waking and sleeping again are stutters. *)
THEOREM StepsOfACountingSemaphore == Spec => ImplementsCountingSafely
<1>1. Init => Counting!Init
  BY DEF Init, Counting!Init
<1>2. TypeOK /\ [Next]_vars => [Counting!Next]_(Counting!vars)
  <2>. SUFFICES ASSUME TypeOK, [Next]_vars
                PROVE  Counting!Next \/ UNCHANGED Counting!vars
    OBVIOUS
  <2>. USE DEF TypeOK, Counting!vars
  <2>1. CASE notify
    BY <2>1 DEF notify, NotifyOne, Wake, Counting!Next, Counting!Release
  <2>2. ASSUME NEW t \in Threads, Acquire(t) PROVE Counting!Next
    BY <2>2 DEF Acquire, Passes, Counting!Next, Counting!Take
  <2>3. ASSUME NEW t \in Threads, Block(t) PROVE Counting!Next \/ UNCHANGED Counting!vars
    <3>1. CASE t \in woken
      BY <2>3, <3>1 DEF Block
    <3>2. CASE t \notin woken
      <4>1. Counting!Ask(t)
        BY <2>3, <3>2 DEF Block, Counting!Ask
      <4>. QED  BY <4>1 DEF Counting!Next
    <3>. QED  BY <3>1, <3>2
  <2>4. ASSUME NEW t \in Threads, SpuriousWake(t) PROVE UNCHANGED Counting!vars
    BY <2>4 DEF SpuriousWake, Wake
  <2>5. ASSUME NEW t \in Threads, try_wait(t) PROVE Counting!Next \/ UNCHANGED Counting!vars
    <3>1. CASE m_count > 0
      BY <2>5, <3>1 DEF try_wait, Counting!Next, Counting!Take
    <3>2. CASE ~(m_count > 0)
      BY <2>5, <3>2 DEF try_wait
    <3>. QED  BY <3>1, <3>2
  <2>6. CASE UNCHANGED vars
    BY <2>6 DEF vars
  <2>. QED  BY <2>1, <2>2, <2>3, <2>4, <2>5, <2>6 DEF Next
<1>. QED  BY <1>1, <1>2, TypeCorrect, PTL DEF Spec, ImplementsCountingSafely, Counting!SafeSpec
=============================================================================
