-------------------------- MODULE ThreadPoolProofs --------------------------
(***************************************************************************)
(* Proofs about ThreadPool for every finite set of workers and producers   *)
(* and every set of tasks.  The argument is the balance PermitsMatchTasks: *)
(* it needs to know when workers may exit and when permits for them are    *)
(* given out (LifeCycle), and the refinement needs that no task is in two  *)
(* places (UniqueTasks).                                                   *)
(***************************************************************************)
EXTENDS ThreadPool, FiniteSetTheorems, TLAPS

Places == {"none", "wait", "permit", "execute", "exited"}

(* Moving one worker changes the sets of workers at a place by that worker. *)
LEMMA PlaceChange ==
    ASSUME TypeOK, NEW w \in Workers, NEW place \in Places, Goes(w, place)
    PROVE  /\ wpc' \in [Workers -> Places]
           /\ WithPermit' = IF place = "permit" THEN WithPermit \cup {w} ELSE WithPermit \ {w}
           /\ Exited' = IF place = "exited" THEN Exited \cup {w} ELSE Exited \ {w}
BY DEF TypeOK, Types, Goes, Places, WithPermit, Exited, At

LEMMA PlaceSame ==
    ASSUME UNCHANGED wpc
    PROVE  WithPermit' = WithPermit /\ Exited' = Exited
BY DEF WithPermit, Exited, At

(* The sets the balance counts are finite. *)
LEMMA Sizes ==
    ASSUME TypeOK
    PROVE  /\ IsFiniteSet(notifying) /\ Cardinality(notifying) \in Nat
           /\ IsFiniteSet(WithPermit) /\ Cardinality(WithPermit) \in Nat
           /\ IsFiniteSet(Exited) /\ Cardinality(Exited) \in Nat
           /\ IsFiniteSet(m_workers) /\ Cardinality(m_workers) \in Nat
           /\ Len(m_allocatedJob) \in Nat
<1>1. /\ notifying \in SUBSET Producers
      /\ WithPermit \in SUBSET Workers
      /\ Exited \in SUBSET Workers
      /\ m_workers \in SUBSET Workers
      /\ Len(m_allocatedJob) \in Nat
  BY DEF TypeOK, Types, WithPermit, Exited
<1>2. /\ IsFiniteSet(notifying) /\ IsFiniteSet(WithPermit)
      /\ IsFiniteSet(Exited) /\ IsFiniteSet(m_workers)
  BY <1>1, ThreadPoolAssumption, FS_Subset
<1>. QED  BY <1>1, <1>2, FS_CardinalityType

(* The semaphore as an instance keeps its types. *)
LEMMA SemTypes ==
    ASSUME Sem!TypeOK
    PROVE  /\ Sem!notify => Sem!TypeOK' /\ m_count' = m_count + 1
                            /\ waiting' \cup woken' = waiting \cup woken
           /\ \A w \in Workers : Sem!Acquire(w) =>
                Sem!TypeOK' /\ m_count > 0 /\ m_count' = m_count - 1
                /\ waiting' \cup woken' = (waiting \cup woken) \ {w}
           /\ \A w \in Workers : Sem!Block(w) =>
                Sem!TypeOK' /\ m_count' = m_count
                /\ waiting' \cup woken' = (waiting \cup woken) \cup {w}
           /\ \A w \in Workers : Sem!SpuriousWake(w) =>
                Sem!TypeOK' /\ m_count' = m_count
                /\ waiting' \cup woken' = waiting \cup woken
           /\ UNCHANGED semaphore => Sem!TypeOK'
<1>. USE DEF Sem!TypeOK
<1>1. Sem!notify => Sem!TypeOK' /\ m_count' = m_count + 1
                    /\ waiting' \cup woken' = waiting \cup woken
  BY DEF Sem!notify, Sem!NotifyOne, Sem!Wake
<1>2. \A w \in Workers : Sem!Acquire(w) =>
        Sem!TypeOK' /\ m_count > 0 /\ m_count' = m_count - 1
        /\ waiting' \cup woken' = (waiting \cup woken) \ {w}
  BY DEF Sem!Acquire, Sem!Passes
<1>3. \A w \in Workers : Sem!Block(w) =>
        Sem!TypeOK' /\ m_count' = m_count
        /\ waiting' \cup woken' = (waiting \cup woken) \cup {w}
  BY DEF Sem!Block
<1>4. \A w \in Workers : Sem!SpuriousWake(w) =>
        Sem!TypeOK' /\ m_count' = m_count
        /\ waiting' \cup woken' = waiting \cup woken
  BY DEF Sem!SpuriousWake, Sem!Wake
<1>5. UNCHANGED semaphore => Sem!TypeOK'
  BY DEF semaphore
<1>. QED  BY <1>1, <1>2, <1>3, <1>4, <1>5

-----------------------------------------------------------------------------

LEMMA InductiveInit == Init => Inductive
<1>. SUFFICES ASSUME Init PROVE Inductive
  OBVIOUS
<1>. USE DEF Init, Sem!Init
<1>1. Types
  <2>1. Sem!TypeOK
    BY DEF Sem!TypeOK
  <2>2. /\ m_allocatedJob \in Seq(Jobs)
        /\ wpc \in [Workers -> {"none", "wait", "permit", "execute", "exited"}]
        /\ task \in [Workers -> Jobs \cup {NoJob}]
    OBVIOUS
  <2>. QED  BY <2>1, <2>2 DEF Types
<1>2. WorkerState
  BY DEF WorkerState, At
<1>3. WithPermit = {} /\ Exited = {}
  BY DEF WithPermit, Exited, At
<1>4. LifeCycle
  BY <1>3 DEF LifeCycle
<1>5. PermitsMatchTasks
  BY <1>3, FS_EmptySet DEF PermitsMatchTasks
<1>6. UniqueTasks
  BY DEF UniqueTasks
<1>. QED  BY <1>1, <1>2, <1>4, <1>5, <1>6 DEF Inductive, TypeOK

(* The semaphore's part of a step, and what it does to its sleepers. *)
LEMMA TypesNext == TypeOK /\ [Next]_vars => Types'
<1>. SUFFICES ASSUME TypeOK, [Next]_vars PROVE Types'
  OBVIOUS
<1>0. Sem!TypeOK
  BY DEF TypeOK, Types
<1>. USE DEF TypeOK, Types, Goes, flags, control, tasks
<1>1. ASSUME NEW p \in Producers, ProducerNotify(p) PROVE Types'
  BY <1>0, SemTypes, <1>1 DEF ProducerNotify
<1>2. ASSUME NEW p \in Producers, NEW j \in Jobs, Enqueue(p, j) PROVE Types'
  BY <1>0, SemTypes, <1>2 DEF Enqueue
<1>3. ASSUME NEW w \in Workers, SemWait(w) PROVE Types'
  BY <1>0, SemTypes, <1>3 DEF SemWait
<1>4. ASSUME NEW w \in Workers, HandleTask(w) PROVE Types'
  BY <1>0, SemTypes, <1>4 DEF HandleTask
<1>5. ASSUME NEW w \in Workers, Execute(w) PROVE Types'
  <2>1. task[w] \in Jobs
    BY <1>5 DEF Execute, WorkerState, At
  <2>. QED  BY <1>0, <2>1, SemTypes, <1>5 DEF Execute
<1>6. ASSUME NEW w \in Workers, SpuriousWake(w) PROVE Types'
  BY <1>0, SemTypes, <1>6 DEF SpuriousWake
<1>7. CASE RunTrue
  BY <1>0, SemTypes, <1>7 DEF RunTrue
<1>8. ASSUME NEW w \in Workers, Spawn(w) PROVE Types'
  BY <1>0, SemTypes, <1>8 DEF Spawn
<1>9. CASE StartDone
  BY <1>0, SemTypes, <1>9 DEF StartDone
<1>10. CASE RunFalse \/ Destroy
  BY <1>0, SemTypes, <1>10 DEF RunFalse, Destroy, StopRunning
<1>11. CASE Terminate
  BY <1>0, SemTypes, <1>11 DEF Terminate
<1>12. CASE NotifyWorker
  BY <1>0, SemTypes, <1>12 DEF NotifyWorker
<1>13. CASE Join
  BY <1>0, SemTypes, <1>13 DEF Join
<1>14. CASE UNCHANGED vars
  BY <1>0, SemTypes, <1>14 DEF vars
<1>. QED  BY <1>1, <1>2, <1>3, <1>4, <1>5, <1>6, <1>7, <1>8, <1>9, <1>10, <1>11, <1>12, <1>13, <1>14
          DEF Next, SpinAgain, Gone

LEMMA WorkerStateNext == TypeOK /\ [Next]_vars => WorkerState'
<1>. SUFFICES ASSUME TypeOK, [Next]_vars PROVE WorkerState'
  OBVIOUS
<1>0. Sem!TypeOK
  BY DEF TypeOK, Types
<1>. USE ThreadPoolAssumption DEF TypeOK, Types, WorkerState, At, Goes, flags, control, tasks, semaphore
<1>1. ASSUME NEW p \in Producers, ProducerNotify(p) PROVE WorkerState'
  BY <1>0, SemTypes, <1>1 DEF ProducerNotify
<1>2. ASSUME NEW p \in Producers, NEW j \in Jobs, Enqueue(p, j) PROVE WorkerState'
  BY <1>0, SemTypes, <1>2 DEF Enqueue
<1>3. ASSUME NEW w \in Workers, SemWait(w) PROVE WorkerState'
  <2>1. CASE Sem!Acquire(w) /\ Goes(w, "permit")
    <3>1. waiting' \cup woken' = (waiting \cup woken) \ {w}
      BY <1>0, <2>1, SemTypes
    <3>. QED  BY <1>3, <2>1, <3>1 DEF SemWait
  <2>2. CASE Sem!Block(w) /\ UNCHANGED wpc
    <3>1. waiting' \cup woken' = (waiting \cup woken) \cup {w}
      BY <1>0, <2>2, SemTypes
    <3>. QED  BY <1>3, <2>2, <3>1 DEF SemWait
  <2>. QED  BY <1>3, <2>1, <2>2 DEF SemWait
<1>4. ASSUME NEW w \in Workers, HandleTask(w) PROVE WorkerState'
  <2>1. /\ wpc[w] = "permit" /\ w \in m_workers
        /\ w \notin waiting \cup woken
        /\ UNCHANGED <<m_workers, waiting, woken>>
    BY <1>4 DEF HandleTask
  <2>2. CASE m_terminate \/ m_allocatedJob = <<>>
    <3>1. PICK place \in {"exited", "wait"} : wpc' = [wpc EXCEPT ![w] = place] /\ UNCHANGED task
      BY <1>4, <2>2 DEF HandleTask
    <3>2. \A v \in Workers : At(v, "execute")' <=> task'[v] # NoJob
      BY <2>1, <3>1
    <3>3. \A v \in Workers : At(v, "none")' <=> v \notin m_workers'
      BY <2>1, <3>1
    <3>4. \A v \in waiting' \cup woken' : At(v, "wait")'
      BY <2>1, <3>1
    <3>. QED  BY <3>2, <3>3, <3>4
  <2>3. CASE ~(m_terminate \/ m_allocatedJob = <<>>)
    <3>1. /\ wpc' = [wpc EXCEPT ![w] = "execute"]
          /\ task' = [task EXCEPT ![w] = Head(m_allocatedJob)]
      BY <1>4, <2>3 DEF HandleTask
    <3>2. Head(m_allocatedJob) # NoJob
      BY <2>3
    <3>3. \A v \in Workers : At(v, "execute")' <=> task'[v] # NoJob
      BY <2>1, <3>1, <3>2
    <3>4. \A v \in Workers : At(v, "none")' <=> v \notin m_workers'
      BY <2>1, <3>1
    <3>5. \A v \in waiting' \cup woken' : At(v, "wait")'
      BY <2>1, <3>1
    <3>. QED  BY <3>3, <3>4, <3>5
  <2>. QED  BY <2>2, <2>3
<1>5. ASSUME NEW w \in Workers, Execute(w) PROVE WorkerState'
  BY <1>0, SemTypes, <1>5 DEF Execute
<1>6. ASSUME NEW w \in Workers, SpuriousWake(w) PROVE WorkerState'
  BY <1>0, SemTypes, <1>6 DEF SpuriousWake
<1>7. CASE RunTrue
  BY <1>0, SemTypes, <1>7 DEF RunTrue
<1>8. ASSUME NEW w \in Workers, Spawn(w) PROVE WorkerState'
  BY <1>0, SemTypes, <1>8 DEF Spawn
<1>9. CASE StartDone
  BY <1>0, SemTypes, <1>9 DEF StartDone
<1>10. CASE RunFalse \/ Destroy
  BY <1>0, SemTypes, <1>10 DEF RunFalse, Destroy, StopRunning
<1>11. CASE Terminate
  BY <1>0, SemTypes, <1>11 DEF Terminate
<1>12. CASE NotifyWorker
  BY <1>0, SemTypes, <1>12 DEF NotifyWorker
<1>13. CASE Join
  <2>1. waiting \cup woken = {}
    BY <1>0, <1>13 DEF Join, Sem!TypeOK
  <2>. QED  BY <1>13, <2>1 DEF Join
<1>14. CASE UNCHANGED vars
  BY <1>0, SemTypes, <1>14 DEF vars
<1>. QED  BY <1>1, <1>2, <1>3, <1>4, <1>5, <1>6, <1>7, <1>8, <1>9, <1>10, <1>11, <1>12, <1>13, <1>14
          DEF Next, SpinAgain, Gone

(* Who may exit, and when the queue and the pool are empty. *)
LEMMA LifeCycleNext == TypeOK /\ LifeCycle /\ [Next]_vars => LifeCycle'
<1>. SUFFICES ASSUME TypeOK, LifeCycle, [Next]_vars PROVE LifeCycle'
  OBVIOUS
<1>. USE DEF LifeCycle, flags, control, tasks
<1>1. ASSUME NEW p \in Producers, ProducerNotify(p) PROVE LifeCycle'
  BY <1>1, PlaceSame DEF ProducerNotify
<1>2. ASSUME NEW p \in Producers, NEW j \in Jobs, Enqueue(p, j) PROVE LifeCycle'
  BY <1>2, PlaceSame DEF Enqueue
<1>3. ASSUME NEW w \in Workers, SemWait(w) PROVE LifeCycle'
  <2>1. Exited' = Exited
    BY <1>3, PlaceChange, PlaceSame DEF SemWait, Places, Exited, At
  <2>. QED  BY <1>3, <2>1 DEF SemWait
<1>4. ASSUME NEW w \in Workers, HandleTask(w) PROVE LifeCycle'
  <2>1. w \in m_workers
    BY <1>4 DEF HandleTask, TypeOK, WorkerState, At
  <2>2. m_terminate => ctl \in {"notify", "join"}
    BY <2>1
  <2>3. ~m_terminate => Exited' = Exited
    BY <1>4 DEF HandleTask, Goes, TypeOK, Types, Exited, At
  <2>4. UNCHANGED <<flags, control, m_workers>> /\ (m_allocatedJob = <<>> => m_allocatedJob' = <<>>)
    BY <1>4 DEF HandleTask
  <2>. QED  BY <2>2, <2>3, <2>4
<1>5. ASSUME NEW w \in Workers, Execute(w) PROVE LifeCycle'
  <2>1. Exited' = Exited
    BY <1>5 DEF Execute, Goes, TypeOK, Types, Exited, At
  <2>. QED  BY <1>5, <2>1 DEF Execute
<1>6. ASSUME NEW w \in Workers, SpuriousWake(w) PROVE LifeCycle'
  BY <1>6, PlaceSame DEF SpuriousWake
<1>7. CASE RunTrue
  BY <1>7, PlaceSame DEF RunTrue
<1>8. ASSUME NEW w \in Workers, Spawn(w) PROVE LifeCycle'
  <2>1. Exited' = Exited
    BY <1>8 DEF Spawn, Goes, TypeOK, Types, WorkerState, Exited, At
  <2>. QED  BY <1>8, <2>1 DEF Spawn
<1>9. CASE StartDone
  BY <1>9, PlaceSame DEF StartDone
<1>10. CASE RunFalse \/ Destroy
  BY <1>10, PlaceSame DEF RunFalse, Destroy, StopRunning
<1>11. CASE Terminate
  BY <1>11, PlaceSame, Sizes DEF Terminate
<1>12. CASE NotifyWorker
  BY <1>12, PlaceSame, Sizes DEF NotifyWorker, TypeOK, Types
<1>13. CASE Join
  <2>1. Exited' = {}
    BY <1>13 DEF Join, Exited, At
  <2>. QED  BY <1>13, <2>1 DEF Join
<1>14. CASE UNCHANGED vars
  BY <1>14, PlaceSame DEF vars
<1>. QED  BY <1>1, <1>2, <1>3, <1>4, <1>5, <1>6, <1>7, <1>8, <1>9, <1>10, <1>11, <1>12, <1>13, <1>14
          DEF Next, SpinAgain, Gone

(* One lemma for the counter: it never becomes negative. *)
LEMMA CountNext == TypeOK /\ m_count >= 0 /\ [Next]_vars => m_count' >= 0
<1>. SUFFICES ASSUME TypeOK, m_count >= 0, [Next]_vars PROVE m_count' >= 0
  OBVIOUS
<1>. USE DEF TypeOK, Types, Sem!TypeOK, semaphore
<1>1. ASSUME NEW p \in Producers, ProducerNotify(p) PROVE m_count' >= 0
  BY <1>1 DEF ProducerNotify, Sem!notify
<1>2. ASSUME NEW p \in Producers, NEW j \in Jobs, Enqueue(p, j) PROVE m_count' >= 0
  BY <1>2 DEF Enqueue
<1>3. ASSUME NEW w \in Workers, SemWait(w) PROVE m_count' >= 0
  BY <1>3 DEF SemWait, Sem!Acquire, Sem!Passes, Sem!Block
<1>4. ASSUME NEW w \in Workers, HandleTask(w) PROVE m_count' >= 0
  BY <1>4 DEF HandleTask
<1>5. ASSUME NEW w \in Workers, Execute(w) PROVE m_count' >= 0
  BY <1>5 DEF Execute
<1>6. ASSUME NEW w \in Workers, SpuriousWake(w) PROVE m_count' >= 0
  BY <1>6 DEF SpuriousWake, Sem!SpuriousWake
<1>7. CASE RunTrue
  BY <1>7 DEF RunTrue
<1>8. ASSUME NEW w \in Workers, Spawn(w) PROVE m_count' >= 0
  BY <1>8 DEF Spawn
<1>9. CASE StartDone
  BY <1>9 DEF StartDone
<1>10. CASE RunFalse \/ Destroy
  BY <1>10 DEF RunFalse, Destroy, StopRunning
<1>11. CASE Terminate
  BY <1>11 DEF Terminate
<1>12. CASE NotifyWorker
  BY <1>12 DEF NotifyWorker, Sem!notify
<1>13. CASE Join
  BY <1>13 DEF Join
<1>14. CASE UNCHANGED vars
  BY <1>14 DEF vars
<1>. QED  BY <1>1, <1>2, <1>3, <1>4, <1>5, <1>6, <1>7, <1>8, <1>9, <1>10, <1>11, <1>12, <1>13, <1>14
          DEF Next, SpinAgain, Gone

(* The balance: every action moves one unit from one term to another. *)
LEMMA PermitsNext ==
    TypeOK /\ m_count >= 0 /\ LifeCycle /\ PermitsMatchTasks /\ [Next]_vars
        => PermitsMatchTasks'
<1>. SUFFICES ASSUME TypeOK, m_count >= 0, LifeCycle, PermitsMatchTasks, [Next]_vars
              PROVE  PermitsMatchTasks'
  OBVIOUS
<1>. DEFINE N == Cardinality(notifying)
            P == Cardinality(WithPermit)
            E == Cardinality(Exited)
<1>a. /\ N \in Nat /\ P \in Nat /\ E \in Nat
      /\ m_count \in Int /\ notified \in Nat /\ m_allocatedJob \in Seq(Jobs)
      /\ m_count + N + P + E = Len(m_allocatedJob) + notified
  BY Sizes DEF TypeOK, Types, Sem!TypeOK, PermitsMatchTasks
<1>b. /\ \A p \in Producers : p \notin notifying => Cardinality(notifying \cup {p}) = N + 1
      /\ \A p \in notifying : Cardinality(notifying \ {p}) = N - 1
      /\ \A w \in Workers : w \notin WithPermit => Cardinality(WithPermit \cup {w}) = P + 1
      /\ \A w \in WithPermit : Cardinality(WithPermit \ {w}) = P - 1
      /\ \A w \in Workers : w \notin Exited => Cardinality(Exited \cup {w}) = E + 1
  BY Sizes, FS_AddElement, FS_RemoveElement
<1>c. ASSUME UNCHANGED <<m_count, notifying, m_allocatedJob, notified>>,
             WithPermit' = WithPermit, Exited' = Exited
      PROVE  PermitsMatchTasks'
  BY <1>c DEF PermitsMatchTasks
<1>. HIDE DEF N, P, E
<1>. USE DEF flags, control, tasks, semaphore
<1>1. ASSUME NEW p \in Producers, ProducerNotify(p) PROVE PermitsMatchTasks'
  <2>1. m_count' = m_count + 1 /\ Cardinality(notifying') = N - 1
    BY <1>1, <1>b DEF ProducerNotify, Sem!notify
  <2>2. WithPermit' = WithPermit /\ Exited' = Exited
    BY <1>1, PlaceSame DEF ProducerNotify
  <2>3. UNCHANGED <<m_allocatedJob, notified>>
    BY <1>1 DEF ProducerNotify
  <2>. QED  BY <1>a, <2>1, <2>2, <2>3 DEF PermitsMatchTasks, P, E
<1>2. ASSUME NEW p \in Producers, NEW j \in Jobs, Enqueue(p, j) PROVE PermitsMatchTasks'
  <2>1. WithPermit' = WithPermit /\ Exited' = Exited
    BY <1>2, PlaceSame DEF Enqueue
  <2>2. CASE m_block_enqueue
    BY <1>2, <1>c, <2>1, <2>2 DEF Enqueue
  <2>3. CASE ~m_block_enqueue
    <3>1. Cardinality(notifying') = N + 1
      BY <1>2, <1>b, <2>3 DEF Enqueue
    <3>2. Len(m_allocatedJob') = Len(m_allocatedJob) + 1
      BY <1>2, <1>a, <2>3 DEF Enqueue
    <3>3. UNCHANGED <<m_count, notified>>
      BY <1>2 DEF Enqueue
    <3>. QED  BY <1>a, <2>1, <3>1, <3>2, <3>3 DEF PermitsMatchTasks, P, E
  <2>. QED  BY <2>2, <2>3
<1>3. ASSUME NEW w \in Workers, SemWait(w) PROVE PermitsMatchTasks'
  <2>1. UNCHANGED <<notifying, m_allocatedJob, notified>> /\ w \notin WithPermit /\ w \notin Exited
    BY <1>3 DEF SemWait, WithPermit, Exited, At
  <2>2. CASE Sem!Acquire(w) /\ Goes(w, "permit")
    <3>1. WithPermit' = WithPermit \cup {w} /\ Exited' = Exited
      BY <2>1, <2>2, PlaceChange DEF Places
    <3>2. Cardinality(WithPermit') = P + 1
      BY <1>b, <2>1, <3>1
    <3>3. m_count' = m_count - 1
      BY <2>2 DEF Sem!Acquire
    <3>. QED  BY <1>a, <2>1, <3>1, <3>2, <3>3 DEF PermitsMatchTasks, N, E
  <2>3. CASE Sem!Block(w) /\ UNCHANGED wpc
    BY <1>c, <2>1, <2>3, PlaceSame DEF Sem!Block
  <2>. QED  BY <1>3, <2>2, <2>3 DEF SemWait
<1>4. ASSUME NEW w \in Workers, HandleTask(w) PROVE PermitsMatchTasks'
  <2>1. /\ UNCHANGED <<m_count, notifying, notified>>
        /\ w \in WithPermit /\ w \notin Exited
    BY <1>4 DEF HandleTask, WithPermit, Exited, At
  <2>2. CASE m_terminate
    <3>1. WithPermit' = WithPermit \ {w} /\ Exited' = Exited \cup {w} /\ UNCHANGED m_allocatedJob
      BY <1>4, <2>2, PlaceChange DEF HandleTask, Places
    <3>2. Cardinality(WithPermit') = P - 1 /\ Cardinality(Exited') = E + 1
      BY <1>b, <2>1, <3>1
    <3>. QED  BY <1>a, <2>1, <3>1, <3>2 DEF PermitsMatchTasks, N
  <2>3. CASE ~m_terminate
    <3>0. ctl \notin {"notify", "join"} /\ Exited = {} /\ notified = 0
      BY <2>3 DEF LifeCycle
    <3>1. m_allocatedJob # <<>>
      (* The balance says that a permit has a task. *)
      <4>1. E = 0
        BY <3>0, FS_EmptySet DEF E
      <4>2. P > 0
        <5>1. IsFiniteSet(WithPermit) /\ WithPermit # {}
          BY <2>1, Sizes
        <5>. QED  BY <1>a, <5>1, FS_EmptySet DEF P
      <4>. QED  BY <1>a, <3>0, <4>1, <4>2
    <3>2. /\ m_allocatedJob' = Tail(m_allocatedJob)
          /\ WithPermit' = WithPermit \ {w} /\ Exited' = Exited
      BY <1>4, <2>1, <2>3, <3>1, PlaceChange DEF HandleTask, Places
    <3>3. Cardinality(WithPermit') = P - 1
      BY <1>b, <2>1, <3>2
    <3>4. Len(m_allocatedJob') = Len(m_allocatedJob) - 1
      BY <1>a, <3>1, <3>2
    <3>5. Cardinality(notifying') = N /\ Cardinality(Exited') = E
      BY <2>1, <3>2 DEF N, E
    <3>. QED  BY <1>a, <2>1, <3>3, <3>4, <3>5 DEF PermitsMatchTasks
  <2>. QED  BY <2>2, <2>3
<1>5. ASSUME NEW w \in Workers, Execute(w) PROVE PermitsMatchTasks'
  <2>1. WithPermit' = WithPermit /\ Exited' = Exited
    BY <1>5 DEF Execute, Goes, TypeOK, Types, WithPermit, Exited, At
  <2>. QED  BY <1>5, <1>c, <2>1 DEF Execute
<1>6. ASSUME NEW w \in Workers, SpuriousWake(w) PROVE PermitsMatchTasks'
  BY <1>6, <1>c, PlaceSame DEF SpuriousWake, Sem!SpuriousWake
<1>7. CASE RunTrue
  BY <1>7, <1>c, PlaceSame DEF RunTrue
<1>8. ASSUME NEW w \in Workers, Spawn(w) PROVE PermitsMatchTasks'
  <2>1. WithPermit' = WithPermit /\ Exited' = Exited
    BY <1>8 DEF Spawn, Goes, TypeOK, Types, WorkerState, WithPermit, Exited, At
  <2>. QED  BY <1>8, <1>c, <2>1 DEF Spawn
<1>9. CASE StartDone
  BY <1>9, <1>c, PlaceSame DEF StartDone
<1>10. CASE RunFalse \/ Destroy
  BY <1>10, <1>c, PlaceSame DEF RunFalse, Destroy, StopRunning
<1>11. CASE Terminate
  <2>1. WithPermit' = WithPermit /\ Exited' = Exited
    BY <1>11, PlaceSame DEF Terminate
  <2>2. notified = 0
    BY <1>11 DEF LifeCycle, Terminate
  <2>. QED  BY <1>11, <1>c, <2>1, <2>2 DEF Terminate
<1>12. CASE NotifyWorker
  <2>1. WithPermit' = WithPermit /\ Exited' = Exited /\ UNCHANGED <<notifying, m_allocatedJob>>
    BY <1>12, PlaceSame DEF NotifyWorker
  <2>2. CASE notified < Cardinality(m_workers)
    <3>1. m_count' = m_count + 1 /\ notified' = notified + 1
      BY <1>12, <2>2 DEF NotifyWorker, Sem!notify
    <3>2. /\ Cardinality(notifying') = N /\ Cardinality(WithPermit') = P
          /\ Cardinality(Exited') = E /\ Len(m_allocatedJob') = Len(m_allocatedJob)
      BY <2>1 DEF N, P, E
    <3>3. Len(m_allocatedJob) \in Nat
      BY <1>a
    <3>. QED  BY <1>a, <3>1, <3>2, <3>3 DEF PermitsMatchTasks
  <2>3. CASE ~(notified < Cardinality(m_workers))
    BY <1>12, <1>c, <2>1, <2>3 DEF NotifyWorker
  <2>. QED  BY <2>2, <2>3
<1>13. CASE Join
  <2>1. WithPermit = {} /\ Exited = m_workers
    BY <1>13 DEF Join, TypeOK, Types, WorkerState, WithPermit, Exited, At
  <2>2. WithPermit' = {} /\ Exited' = {}
    BY <1>13 DEF Join, WithPermit, Exited, At
  <2>3. P = 0 /\ E = notified
    BY <1>13, <2>1, FS_EmptySet DEF P, E, Join, LifeCycle
  <2>4. UNCHANGED <<m_count, notifying, m_allocatedJob>> /\ notified' = 0
    BY <1>13 DEF Join
  <2>5. Cardinality({}) = 0
    BY FS_EmptySet
  <2>. QED  BY <1>a, <2>2, <2>3, <2>4, <2>5 DEF PermitsMatchTasks, N
<1>14. CASE UNCHANGED vars
  BY <1>14, <1>c, PlaceSame DEF vars
<1>. QED  BY <1>1, <1>2, <1>3, <1>4, <1>5, <1>6, <1>7, <1>8, <1>9, <1>10, <1>11, <1>12, <1>13, <1>14
          DEF Next, SpinAgain, Gone

(* No step puts a task in two places. *)
LEMMA UniqueTasksNext == TypeOK /\ UniqueTasks /\ [Next]_vars => UniqueTasks'
<1>. SUFFICES ASSUME TypeOK, UniqueTasks, [Next]_vars PROVE UniqueTasks'
  OBVIOUS
<1>a. m_allocatedJob \in Seq(Jobs) /\ task \in [Workers -> Jobs \cup {NoJob}]
  BY DEF TypeOK, Types
<1>b. UNCHANGED <<m_allocatedJob, task>> => UniqueTasks'
  BY DEF UniqueTasks
<1>. USE DEF tasks
<1>1. ASSUME NEW p \in Producers, NEW j \in Jobs, Enqueue(p, j) PROVE UniqueTasks'
  <2>1. CASE m_block_enqueue
    BY <1>1, <1>b, <2>1 DEF Enqueue
  <2>2. CASE ~m_block_enqueue
    <3>1. m_allocatedJob' = Append(m_allocatedJob, j) /\ UNCHANGED task
      BY <1>1, <2>2 DEF Enqueue
    <3>2. /\ \A i \in 1 .. Len(m_allocatedJob) : m_allocatedJob[i] # j
          /\ \A w \in Workers : task[w] # j
      BY <1>1 DEF Enqueue, Fresh, Queued
    <3>. QED  BY <1>a, <3>1, <3>2 DEF UniqueTasks
  <2>. QED  BY <2>1, <2>2
<1>2. ASSUME NEW w \in Workers, HandleTask(w) PROVE UniqueTasks'
  <2>1. CASE m_terminate \/ m_allocatedJob = <<>>
    BY <1>2, <1>b, <2>1 DEF HandleTask
  <2>2. CASE ~(m_terminate \/ m_allocatedJob = <<>>)
    <3>1. /\ task' = [task EXCEPT ![w] = Head(m_allocatedJob)]
          /\ m_allocatedJob' = Tail(m_allocatedJob)
      BY <1>2, <2>2 DEF HandleTask
    <3>2. /\ Head(m_allocatedJob) = m_allocatedJob[1]
          /\ Len(m_allocatedJob) \in Nat \ {0}
          /\ Len(m_allocatedJob') = Len(m_allocatedJob) - 1
          /\ \A i \in 1 .. Len(m_allocatedJob') : m_allocatedJob'[i] = m_allocatedJob[i + 1]
      BY <1>a, <2>2, <3>1
    <3>3. \A v \in Workers : task'[v] = IF v = w THEN m_allocatedJob[1] ELSE task[v]
      BY <1>a, <3>1, <3>2
    <3>. QED  BY <3>2, <3>3 DEF UniqueTasks
  <2>. QED  BY <2>1, <2>2
<1>3. ASSUME NEW w \in Workers, Execute(w) PROVE UniqueTasks'
  <2>1. UNCHANGED m_allocatedJob /\ task' = [task EXCEPT ![w] = NoJob]
    BY <1>3 DEF Execute
  <2>2. \A i \in 1 .. Len(m_allocatedJob) : m_allocatedJob[i] # NoJob
    BY <1>a, ThreadPoolAssumption
  <2>. QED  BY <1>a, <2>1, <2>2 DEF UniqueTasks
<1>4. ASSUME NEW p \in Producers, ProducerNotify(p) PROVE UniqueTasks'
  BY <1>4, <1>b DEF ProducerNotify
<1>5. ASSUME NEW w \in Workers, SemWait(w) \/ SpuriousWake(w) \/ Spawn(w) PROVE UniqueTasks'
  BY <1>5, <1>b DEF SemWait, SpuriousWake, Spawn
<1>6. CASE RunTrue \/ StartDone \/ RunFalse \/ Destroy
  BY <1>6, <1>b DEF RunTrue, StartDone, RunFalse, Destroy, StopRunning
<1>7. CASE Terminate \/ NotifyWorker \/ Join
  BY <1>7, <1>b DEF Terminate, NotifyWorker, Join
<1>8. CASE UNCHANGED vars
  BY <1>8, <1>b DEF vars
<1>. QED  BY <1>1, <1>2, <1>3, <1>4, <1>5, <1>6, <1>7, <1>8 DEF Next, SpinAgain, Gone

-----------------------------------------------------------------------------

(* The inductive invariant holds in every state. *)
THEOREM InductiveAlways == Spec => []Inductive
<1>1. Inductive /\ [Next]_vars => Inductive'
  BY TypesNext, WorkerStateNext, CountNext, LifeCycleNext, PermitsNext, UniqueTasksNext
     DEF Inductive, TypeOK
<1>. QED  BY <1>1, InductiveInit, PTL DEF Spec

(* Every state has the types TypeOK gives it, and the workers' places, tasks
   and sleep agree. *)
THEOREM TypeCorrect == Spec => []TypeOK
BY InductiveAlways, PTL DEF Inductive

(* Permits and the tasks and terminations they stand for always balance. *)
THEOREM PermitsMatchTasksAlways == Spec => []PermitsMatchTasks
BY InductiveAlways, PTL DEF Inductive

(* handle_task never complains of a wrong wakeup. *)
THEOREM NoWrongWakeupAlways == Spec => []NoWrongWakeup
<1>1. Inductive => NoWrongWakeup
  <2>. SUFFICES ASSUME Inductive, NEW w \in WithPermit, ~m_terminate
                PROVE  m_allocatedJob # <<>>
    BY DEF NoWrongWakeup
  <2>. USE DEF Inductive
  <2>1. Exited = {} /\ notified = 0
    BY DEF LifeCycle
  <2>2. Cardinality(Exited) = 0 /\ Cardinality(WithPermit) # 0
    BY <2>1, Sizes, FS_EmptySet
  <2>. QED  BY <2>1, <2>2, Sizes DEF PermitsMatchTasks, TypeOK, Types, Sem!TypeOK
<1>. QED  BY <1>1, InductiveAlways, PTL

(* run(false) leaves no task, no worker, no permit and no producer that has
   yet to notify. *)
THEOREM CleanWhenStoppedAlways == Spec => []CleanWhenStopped
<1>1. Inductive => CleanWhenStopped
  <2>. SUFFICES ASSUME Inductive, ctl = "idle", m_block_enqueue
                PROVE  /\ m_allocatedJob = <<>> /\ m_workers = {}
                       /\ m_count = 0 /\ notifying = {}
    BY DEF CleanWhenStopped
  <2>. USE DEF Inductive
  <2>1. m_allocatedJob = <<>> /\ m_workers = {} /\ notified = 0
    BY DEF LifeCycle
  <2>2. Len(m_allocatedJob) = 0
    BY <2>1
  <2>3. m_count = 0 /\ Cardinality(notifying) = 0
    BY <2>1, <2>2, Sizes DEF PermitsMatchTasks, TypeOK, Types, Sem!TypeOK
  <2>. QED  BY <2>1, <2>3, Sizes, FS_EmptySet
<1>. QED  BY <1>1, InductiveAlways, PTL

-----------------------------------------------------------------------------

Running == {task[w] : w \in Executing}

(* A worker that is not executing leaves room for one more task to run. *)
LEMMA RoomToStart ==
    ASSUME NEW w \in Workers, w \notin Executing
    PROVE  Cardinality(Running) < Cardinality(Workers)
<1>1. Executing \in SUBSET Workers
  BY DEF Executing
<1>2. IsFiniteSet(Executing) /\ Cardinality(Executing) < Cardinality(Workers)
  <2>1. /\ IsFiniteSet(Executing) /\ Cardinality(Executing) <= Cardinality(Workers)
        /\ Cardinality(Executing) # Cardinality(Workers)
    BY <1>1, ThreadPoolAssumption, FS_Subset
  <2>2. Cardinality(Executing) \in Nat /\ Cardinality(Workers) \in Nat
    BY <2>1, ThreadPoolAssumption, FS_CardinalityType
  <2>. QED  BY <2>1, <2>2
<1>3. Cardinality(Running) \in Nat /\ Cardinality(Running) <= Cardinality(Executing)
  <2>. DEFINE g == [v \in Executing |-> task[v]]
  <2>1. g \in Surjection(Executing, Running)
    BY DEF Surjection, Running
  <2>2. IsFiniteSet(Running) /\ Cardinality(Running) <= Cardinality(Executing)
    <3>. HIDE DEF g
    <3>. QED  BY <1>2, <2>1, FS_Surjection
  <2>. QED  BY <2>2, FS_CardinalityType
<1>4. Cardinality(Executing) \in Nat /\ Cardinality(Workers) \in Nat
  BY <1>2, ThreadPoolAssumption, FS_CardinalityType
<1>. QED  BY <1>2, <1>3, <1>4

(* The instance's Cardinality is the one of the lemmas. *)
LEMMA SameCardinality ==
    ASSUME NEW S
    PROVE  Service!Cardinality(S) = Cardinality(S)
BY DEF Service!Cardinality, Cardinality

(* What the mapped phase is, by the controller's place. *)
LEMMA PhaseIs ==
    ASSUME Inductive
    PROVE  /\ phase = "open" <=> wait_task /\ ctl # "gone" /\ ~m_block_enqueue
           /\ phase = "stopped" <=> ctl = "idle" /\ m_block_enqueue
           /\ phase = "draining" <=> wait_task /\ ctl \in {"drain", "notify", "join"}
           /\ phase = "discarding" <=> ~wait_task /\ ctl # "gone"
           /\ phase = "gone" <=> ctl = "gone"
           /\ ctl \in {"idle", "start", "drain", "notify", "join", "gone"}
           /\ wait_task \in BOOLEAN
BY DEF Inductive, LifeCycle, TypeOK, Types, phase

(* Places that do not change, or changes of place that are not to or from
   executing, leave the running tasks as they are. *)
LEMMA RunningSame ==
    ASSUME UNCHANGED task,
           \A v \in Workers : At(v, "execute")' <=> At(v, "execute")
    PROVE  Running' = Running
BY DEF Running, Executing

(* Under the mapping, tasks are accepted and refused, started in order, each
   once, and finished as TaskService says; run(false) returns only when every
   accepted task has finished, the destructor when every running one has. *)
THEOREM PoolImplementsTaskService == Spec => ImplementsTaskService
<1>. DEFINE abstract == <<phase, m_allocatedJob, Running, done, refused>>
<1>1. Init => Service!Init
  BY DEF Init, Service!Init, phase, Executing, At
<1>2. Inductive /\ Inductive' /\ [Next]_vars => [Service!Next]_(Service!vars)
  <2>. SUFFICES ASSUME Inductive, Inductive', [Next]_vars
                PROVE  Service!Next \/ UNCHANGED abstract
    BY DEF Service!vars, Running
  <2>. USE DEF flags, control, tasks, semaphore
  <2>b. UNCHANGED <<ctl, wait_task, m_block_enqueue>> => UNCHANGED phase
    BY DEF phase
  <2>c. UNCHANGED <<task, wpc>> => Running' = Running
    BY RunningSame DEF At
  <2>t. /\ m_allocatedJob \in Seq(Jobs) /\ task \in [Workers -> Jobs \cup {NoJob}]
        /\ wpc \in [Workers -> Places]
    BY DEF Inductive, TypeOK, Types, Places
  <2>1. ASSUME NEW p \in Producers, NEW j \in Jobs, Enqueue(p, j) PROVE Service!Next
    <3>1. Running' = Running /\ UNCHANGED <<phase, done>>
      BY <2>1, <2>b, <2>c DEF Enqueue
    <3>2. Service!Fresh(j)
      <4>1. j \notin Running
        BY <2>1 DEF Running, Executing, Enqueue, Fresh
      <4>. QED  BY <2>1, <4>1 DEF Enqueue, Fresh, Queued, Running, Service!Fresh
    <3>3. CASE m_block_enqueue
      <4>1. phase # "open"
        BY <3>3, PhaseIs
      <4>2. refused' = refused \cup {j} /\ UNCHANGED m_allocatedJob
        BY <2>1, <3>3 DEF Enqueue
      <4>. QED  BY <3>1, <3>2, <4>1, <4>2 DEF Service!Refuse, Service!Next, Running
    <3>4. CASE ~m_block_enqueue
      <4>1. phase = "open"
        BY <2>1, <3>4, PhaseIs DEF Enqueue, Fresh, Inductive, LifeCycle
      <4>2. m_allocatedJob' = Append(m_allocatedJob, j) /\ UNCHANGED refused
        BY <2>1, <3>4 DEF Enqueue
      <4>. QED  BY <3>1, <3>2, <4>1, <4>2 DEF Service!Submit, Service!Next, Running
    <3>. QED  BY <3>3, <3>4
  <2>2. ASSUME NEW p \in Producers, ProducerNotify(p) PROVE UNCHANGED abstract
    BY <2>2, <2>b, <2>c DEF ProducerNotify
  <2>3. ASSUME NEW w \in Workers, SemWait(w) PROVE UNCHANGED abstract
    <3>1. \A v \in Workers : At(v, "execute")' <=> At(v, "execute")
      BY <2>3, <2>t DEF SemWait, Goes, At
    <3>. QED  BY <2>3, <2>b, <3>1, RunningSame DEF SemWait
  <2>4. ASSUME NEW w \in Workers, HandleTask(w) PROVE Service!Next \/ UNCHANGED abstract
    <3>1. UNCHANGED <<phase, done, refused>>
      BY <2>4, <2>b DEF HandleTask
    <3>2. CASE m_terminate \/ m_allocatedJob = <<>>
      <4>1. \A v \in Workers : At(v, "execute")' <=> At(v, "execute")
        BY <2>4, <2>t, <3>2 DEF HandleTask, Goes, At
      <4>. QED  BY <2>4, <3>1, <3>2, <4>1, RunningSame DEF HandleTask
    <3>3. CASE ~(m_terminate \/ m_allocatedJob = <<>>)
      <4>1. /\ task' = [task EXCEPT ![w] = Head(m_allocatedJob)]
            /\ wpc' = [wpc EXCEPT ![w] = "execute"]
            /\ m_allocatedJob' = Tail(m_allocatedJob)
            /\ w \notin Executing
        BY <2>4, <3>3 DEF HandleTask, Goes, Executing, At
      <4>2. Running' = Running \cup {Head(m_allocatedJob)}
        <5>1. Executing' = Executing \cup {w}
          BY <2>t, <4>1 DEF Executing, At
        <5>2. \A v \in Executing : task'[v] = task[v]
          BY <2>t, <4>1 DEF Executing
        <5>3. task'[w] = Head(m_allocatedJob)
          BY <2>t, <4>1
        <5>. QED  BY <5>1, <5>2, <5>3 DEF Running
      <4>3. Cardinality(Running) < Cardinality(Workers)
        BY <4>1, RoomToStart
      <4>4. Service!Start
        <5>1. /\ m_allocatedJob # <<>>
              /\ Service!Cardinality({task[v] : v \in Executing}) < Cardinality(Workers)
          BY <3>3, <4>3, SameCardinality DEF Running
        <5>2. {task[v] : v \in Executing}' = {task[v] : v \in Executing} \cup {Head(m_allocatedJob)}
          BY <4>2 DEF Running
        <5>3. m_allocatedJob' = Tail(m_allocatedJob) /\ UNCHANGED <<phase, done, refused>>
          BY <3>1, <4>1
        <5>. QED  BY <5>1, <5>2, <5>3 DEF Service!Start
      <4>. QED  BY <4>4 DEF Service!Next
    <3>. QED  BY <3>2, <3>3
  <2>5. ASSUME NEW w \in Workers, Execute(w) PROVE Service!Next
    <3>1. UNCHANGED <<phase, m_allocatedJob, refused>> /\ done' = done \cup {task[w]}
      BY <2>5, <2>b DEF Execute
    <3>2. w \in Executing /\ task[w] \in Jobs
      BY <2>5, <2>t DEF Execute, Executing, Inductive, TypeOK, WorkerState
    <3>3. Running' = Running \ {task[w]}
      <4>1. Executing' = Executing \ {w}
        BY <2>5, <2>t DEF Execute, Goes, Executing, At
      <4>2. \A v \in Executing \ {w} : task'[v] = task[v] /\ task[v] # task[w]
        BY <2>5, <2>t, <3>2, ThreadPoolAssumption
           DEF Execute, Executing, Inductive, UniqueTasks
      <4>. QED  BY <3>2, <4>1, <4>2 DEF Running
    <3>. QED  BY <3>1, <3>2, <3>3 DEF Service!Finish, Service!Next, Running
  <2>6. ASSUME NEW w \in Workers, SpuriousWake(w) PROVE UNCHANGED abstract
    BY <2>6, <2>b, <2>c DEF SpuriousWake
  <2>7. CASE RunTrue
    <3>1. UNCHANGED <<m_allocatedJob, done, refused>> /\ Running' = Running
      BY <2>7, <2>c DEF RunTrue
    <3>2. phase' = "open" /\ phase \in {"open", "stopped"}
      BY <2>7, PhaseIs DEF RunTrue, phase
    <3>. QED  BY <3>1, <3>2 DEF Service!Reopen, Service!Becomes, Service!Next, Running
  <2>8. ASSUME NEW w \in Workers, Spawn(w) PROVE UNCHANGED abstract
    <3>1. \A v \in Workers : At(v, "execute")' <=> At(v, "execute")
      BY <2>8, <2>t DEF Spawn, Goes, At, Inductive, TypeOK, WorkerState
    <3>. QED  BY <2>8, <2>b, <3>1, RunningSame DEF Spawn
  <2>9. CASE StartDone
    <3>1. UNCHANGED phase
      BY <2>9, PhaseIs DEF StartDone, phase
    <3>. QED  BY <2>9, <2>c, <3>1 DEF StartDone
  <2>10. CASE RunFalse \/ Destroy
    <3>1. UNCHANGED <<m_allocatedJob, done, refused>> /\ Running' = Running
      BY <2>10, <2>c DEF RunFalse, Destroy, StopRunning
    <3>2. phase \in {"open", "stopped"} /\ phase' \in {"draining", "discarding"}
      BY <2>10, PhaseIs DEF RunFalse, Destroy, StopRunning, phase
    <3>. QED  BY <3>1, <3>2 DEF Service!BeginDrain, Service!BeginDiscard,
                                Service!Becomes, Service!Next, Running
  <2>11. CASE Terminate \/ NotifyWorker
    <3>1. UNCHANGED phase
      BY <2>11 DEF Terminate, NotifyWorker, phase
    <3>. QED  BY <2>11, <2>c, <3>1 DEF Terminate, NotifyWorker
  <2>12. CASE Join
    <3>1. Executing = {} /\ Executing' = {} /\ UNCHANGED <<m_allocatedJob, done, refused>>
      BY <2>12 DEF Join, Executing, At, Inductive, TypeOK, WorkerState
    <3>2. Running = {} /\ Running' = {}
      BY <3>1 DEF Running
    <3>3. CASE wait_task
      <4>1. phase = "draining" /\ phase' = "stopped" /\ m_allocatedJob = <<>>
        BY <2>12, <3>3 DEF Join, phase, Inductive, LifeCycle
      <4>. QED  BY <3>1, <3>2, <4>1 DEF Service!EndDrain, Service!Becomes, Service!Next, Running
    <3>4. CASE ~wait_task
      <4>1. phase = "discarding" /\ phase' = "gone"
        BY <2>12, <3>4 DEF Join, phase
      <4>. QED  BY <3>1, <3>2, <4>1 DEF Service!EndDiscard, Service!Becomes, Service!Next, Running
    <3>. QED  BY <3>3, <3>4
  <2>13. CASE UNCHANGED vars
    BY <2>13, <2>b, <2>c DEF vars
  <2>. QED  BY <2>1, <2>2, <2>3, <2>4, <2>5, <2>6, <2>7, <2>8, <2>9, <2>10, <2>11, <2>12, <2>13
            DEF Next, SpinAgain, Gone
<1>. QED  BY <1>1, <1>2, InductiveAlways, PTL DEF Spec, ImplementsTaskService, Service!Spec
=============================================================================
