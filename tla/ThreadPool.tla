----------------------------- MODULE ThreadPool -----------------------------
(***************************************************************************)
(* RS::ThreadPool (common/thread/thread_pool.cpp, .hpp): a queue of tasks  *)
(* under m_mutex, a semaphore that counts them, and workers that wait on   *)
(* the semaphore and then take the mutex to pop one.  The two locks are    *)
(* not held together, so a producer sits between its push and its          *)
(* notification, and a worker between its permit and its pop, while        *)
(* everybody else moves.  Stopping sets m_terminate and notifies once per  *)
(* worker, so that permits stand for tasks and for terminations alike.     *)
(*                                                                         *)
(* Producers call enqueue; one controller thread calls run and the         *)
(* destructor (m_workers has no lock, so calls of run by two threads are   *)
(* outside what the class supports).  Every section under a lock is one    *)
(* action, and so is the write of a flag without the lock.                 *)
(***************************************************************************)
EXTENDS Integers, Sequences, FiniteSets

CONSTANTS Workers,    \* the m_pool_size threads of the pool
          Producers,  \* the threads that call enqueue
          Jobs,       \* bound: the tasks enqueued, each once
          NoJob       \* not a task

(* m_pool_size comes from hardware_concurrency(), which may be 0. *)
ASSUME ThreadPoolAssumption ==
    /\ IsFiniteSet(Workers) /\ IsFiniteSet(Producers)
    /\ NoJob \notin Jobs

VARIABLES
    m_count, waiting, woken,  \* m_semaphore
    m_workers,        \* the threads in m_workers
    m_allocatedJob,   \* the queue of tasks
    m_block_enqueue,
    m_terminate,
    wpc,              \* where each worker is in handle_task
    task,             \* the task a worker executes
    notifying,        \* producers past the push, before m_semaphore.notify()
    done,             \* tasks executed
    refused,          \* tasks turned away
    ctl,              \* where the controller is in run or the destructor
    notified,         \* stop_running's loop counter
    wait_task         \* TRUE until the destructor calls stop_running(false)

semaphore == <<m_count, waiting, woken>>
flags     == <<m_block_enqueue, m_terminate>>
control   == <<ctl, notified, wait_task>>
tasks     == <<m_allocatedJob, notifying, done, refused>>
vars      == <<semaphore, flags, control, tasks, m_workers, wpc, task>>

Sem == INSTANCE Semaphore WITH Threads <- Workers, InitialCount <- 0, MaxCount <- 0

At(w, place) == wpc[w] = place
Goes(w, place) == wpc' = [wpc EXCEPT ![w] = place]

Queued == {m_allocatedJob[i] : i \in 1 .. Len(m_allocatedJob)}
Executing == {w \in Workers : At(w, "execute")}

Init ==
    /\ Sem!Init
    /\ m_workers = {} /\ m_allocatedJob = <<>>
    /\ m_block_enqueue = FALSE /\ m_terminate = FALSE
    /\ wpc = [w \in Workers |-> "none"]
    /\ task = [w \in Workers |-> NoJob]
    /\ notifying = {} /\ done = {} /\ refused = {}
    /\ ctl = "idle" /\ notified = 0 /\ wait_task = TRUE

-----------------------------------------------------------------------------
(* enqueue *)

(* No thread calls into an object whose destructor has been entered. *)
Fresh(j) ==
    /\ wait_task
    /\ j \notin Queued \cup done \cup refused \cup {task[w] : w \in Workers}

(* Mutant: the test of m_block_enqueue is forgotten. *)
EnqueueAlways(p, j) ==
    /\ p \notin notifying /\ Fresh(j)
    /\ m_allocatedJob' = Append(m_allocatedJob, j)
    /\ notifying' = notifying \cup {p}
    /\ UNCHANGED <<semaphore, flags, control, m_workers, wpc, task, done, refused>>

(* Mutant: a task is pushed without a notification. *)
EnqueueSilently(p, j) ==
    /\ p \notin notifying /\ Fresh(j) /\ ~m_block_enqueue
    /\ m_allocatedJob' = Append(m_allocatedJob, j)
    /\ UNCHANGED <<semaphore, flags, control, m_workers, wpc, task, notifying, done, refused>>

(* The section of enqueue under m_mutex. *)
Enqueue(p, j) ==
    /\ p \notin notifying /\ Fresh(j)
    /\ IF m_block_enqueue
         THEN refused' = refused \cup {j} /\ UNCHANGED <<m_allocatedJob, notifying>>
         ELSE /\ m_allocatedJob' = Append(m_allocatedJob, j)
              /\ notifying' = notifying \cup {p}
              /\ UNCHANGED refused
    /\ UNCHANGED <<semaphore, flags, control, m_workers, wpc, task, done>>

(* m_semaphore.notify(), after the lock is released. *)
ProducerNotify(p) ==
    /\ p \in notifying
    /\ notifying' = notifying \ {p}
    /\ Sem!notify
    /\ UNCHANGED <<flags, control, m_workers, wpc, task, m_allocatedJob, done, refused>>

-----------------------------------------------------------------------------
(* handle_task *)

(* m_semaphore.wait(), which a worker may leave only with a permit. *)
SemWait(w) ==
    /\ At(w, "wait")
    /\ \/ Sem!Acquire(w) /\ Goes(w, "permit")
       \/ Sem!Block(w) /\ UNCHANGED wpc
    /\ UNCHANGED <<flags, control, tasks, m_workers, task>>

SpuriousWake(w) ==
    /\ Sem!SpuriousWake(w)
    /\ UNCHANGED <<flags, control, tasks, m_workers, wpc, task>>

(* Mutant: the task is read from the front but not popped. *)
HandleTaskNoPop(w) ==
    /\ At(w, "permit")
    /\ IF m_terminate THEN Goes(w, "exited") /\ UNCHANGED task
       ELSE IF m_allocatedJob = <<>> THEN Goes(w, "wait") /\ UNCHANGED task
       ELSE task' = [task EXCEPT ![w] = Head(m_allocatedJob)] /\ Goes(w, "execute")
    /\ UNCHANGED <<semaphore, flags, control, tasks, m_workers>>

(* The section of handle_task under m_mutex: leave, complain of a wrong
   wakeup and wait again, or pop a task. *)
HandleTask(w) ==
    /\ At(w, "permit")
    /\ IF m_terminate
         THEN Goes(w, "exited") /\ UNCHANGED <<task, m_allocatedJob>>
       ELSE IF m_allocatedJob = <<>>
         THEN Goes(w, "wait") /\ UNCHANGED <<task, m_allocatedJob>>
       ELSE /\ task' = [task EXCEPT ![w] = Head(m_allocatedJob)]
            /\ m_allocatedJob' = Tail(m_allocatedJob)
            /\ Goes(w, "execute")
    /\ UNCHANGED <<semaphore, flags, control, m_workers, notifying, done, refused>>

(* Mutant: the worker keeps the task it has executed. *)
ExecuteAndKeep(w) ==
    /\ At(w, "execute")
    /\ done' = done \cup {task[w]}
    /\ Goes(w, "wait")
    /\ UNCHANGED <<semaphore, flags, control, m_workers, task, m_allocatedJob, notifying, refused>>

(* task->execute(), outside the lock; a task is assumed to return.  The
   unique_ptr is destroyed at the end of the round. *)
Execute(w) ==
    /\ At(w, "execute")
    /\ done' = done \cup {task[w]}
    /\ task' = [task EXCEPT ![w] = NoJob]
    /\ Goes(w, "wait")
    /\ UNCHANGED <<semaphore, flags, control, m_workers, m_allocatedJob, notifying, refused>>

-----------------------------------------------------------------------------
(* run(true) *)

(* start_running clears the flags first, and only then looks whether the
   pool already runs, in which case it returns false. *)
RunTrue ==
    /\ ctl = "idle" /\ wait_task
    /\ m_block_enqueue' = FALSE /\ m_terminate' = FALSE
    /\ ctl' = IF m_workers = {} THEN "start" ELSE "idle"
    /\ UNCHANGED <<semaphore, tasks, m_workers, wpc, task, notified, wait_task>>

Spawn(w) ==
    /\ ctl = "start" /\ w \notin m_workers
    /\ m_workers' = m_workers \cup {w}
    /\ Goes(w, "wait")
    /\ UNCHANGED <<semaphore, flags, control, tasks, task>>

StartDone ==
    /\ ctl = "start" /\ m_workers = Workers
    /\ ctl' = "idle"
    /\ UNCHANGED <<semaphore, flags, tasks, m_workers, wpc, task, notified, wait_task>>

-----------------------------------------------------------------------------
(* run(false) and the destructor *)

(* stop_running up to its loop: m_block_enqueue is set without the lock. *)
StopRunning(wait) ==
    /\ ctl = "idle" /\ wait_task
    /\ wait_task' = wait
    /\ m_block_enqueue' = TRUE
    /\ ctl' = "drain"
    /\ UNCHANGED <<semaphore, tasks, m_workers, wpc, task, notified, m_terminate>>

RunFalse == StopRunning(TRUE)

(* ~ThreadPool, when no other thread is inside a call. *)
Destroy == notifying = {} /\ StopRunning(FALSE)

(* One more round of the busy loop: lock, look, unlock. *)
SpinAgain ==
    /\ ctl = "drain"
    /\ wait_task /\ m_allocatedJob # <<>>
    /\ UNCHANGED vars

(* Mutant: the loop does not wait for the queue. *)
TerminateAtOnce ==
    /\ ctl = "drain"
    /\ m_terminate' = TRUE
    /\ ctl' = "notify" /\ notified' = 0
    /\ UNCHANGED <<semaphore, tasks, m_workers, wpc, task, m_block_enqueue, wait_task>>

(* The round that leaves the loop. *)
Terminate ==
    /\ ctl = "drain"
    /\ wait_task => m_allocatedJob = <<>>
    /\ m_terminate' = TRUE
    /\ ctl' = "notify" /\ notified' = 0
    /\ UNCHANGED <<semaphore, tasks, m_workers, wpc, task, m_block_enqueue, wait_task>>

(* Mutant: the loop stops one notification short. *)
NotifyOneFewer ==
    /\ ctl = "notify"
    /\ IF notified + 1 < Cardinality(m_workers)
         THEN Sem!notify /\ notified' = notified + 1 /\ UNCHANGED ctl
         ELSE ctl' = "join" /\ UNCHANGED <<notified, semaphore>>
    /\ UNCHANGED <<flags, tasks, m_workers, wpc, task, wait_task>>

(* One round of the loop that notifies once per worker, and its end. *)
NotifyWorker ==
    /\ ctl = "notify"
    /\ IF notified < Cardinality(m_workers)
         THEN Sem!notify /\ notified' = notified + 1 /\ UNCHANGED ctl
         ELSE ctl' = "join" /\ UNCHANGED <<notified, semaphore>>
    /\ UNCHANGED <<flags, tasks, m_workers, wpc, task, wait_task>>

(* Every join() returned, and m_workers.clear(). *)
Join ==
    /\ ctl = "join"
    /\ \A w \in m_workers : At(w, "exited")
    /\ m_workers' = {}
    /\ wpc' = [w \in Workers |-> "none"]
    /\ ctl' = IF wait_task THEN "idle" ELSE "gone"
    /\ notified' = 0
    /\ UNCHANGED <<semaphore, flags, tasks, task, wait_task>>

(* The object no longer exists. *)
Gone == ctl = "gone" /\ UNCHANGED vars

-----------------------------------------------------------------------------

WorkerStep(w) == SemWait(w) \/ HandleTask(w) \/ Execute(w)

Next ==
    \/ \E p \in Producers : ProducerNotify(p) \/ \E j \in Jobs : Enqueue(p, j)
    \/ \E w \in Workers : SemWait(w) \/ HandleTask(w) \/ Execute(w) \/ SpuriousWake(w)
    \/ RunTrue \/ (\E w \in Workers : Spawn(w)) \/ StartDone
    \/ RunFalse \/ Destroy \/ SpinAgain \/ Terminate \/ NotifyWorker \/ Join \/ Gone

(* Threads in the middle of a call go on: the scheduler runs them and
   m_mutex starves nobody.  Nothing obliges a thread to make a call. *)
Fairness ==
    /\ \A w \in Workers : WF_vars(WorkerStep(w))
    /\ \A p \in Producers : WF_vars(ProducerNotify(p))
    /\ WF_vars(\E w \in Workers : Spawn(w))
    /\ WF_vars(StartDone \/ Terminate \/ NotifyWorker \/ Join)

Spec == Init /\ [][Next]_vars /\ Fairness

-----------------------------------------------------------------------------

Types ==
    /\ Sem!TypeOK
    /\ m_workers \subseteq Workers
    /\ m_allocatedJob \in Seq(Jobs)
    /\ m_block_enqueue \in BOOLEAN /\ m_terminate \in BOOLEAN
    /\ wpc \in [Workers -> {"none", "wait", "permit", "execute", "exited"}]
    /\ task \in [Workers -> Jobs \cup {NoJob}]
    /\ notifying \subseteq Producers
    /\ done \subseteq Jobs /\ refused \subseteq Jobs
    /\ ctl \in {"idle", "start", "drain", "notify", "join", "gone"}
    /\ notified \in Nat
    /\ wait_task \in BOOLEAN

WorkerState ==
    /\ \A w \in Workers : At(w, "execute") <=> task[w] # NoJob
    /\ \A w \in Workers : At(w, "none") <=> w \notin m_workers
    /\ \A w \in waiting \cup woken : At(w, "wait")

(* Types; a worker has a task exactly while it executes one, sleeps only in
   wait(), and is there exactly when the controller spawned it. *)
TypeOK == Types /\ WorkerState

WithPermit == {w \in Workers : At(w, "permit")}
Exited     == {w \in Workers : At(w, "exited")}

(* A permit that was given out or is about to be stands for one task in the
   queue or for one worker told to terminate, and nothing else, wherever the
   producers, the workers and the controller are between their two locks. *)
PermitsMatchTasks ==
    m_count + Cardinality(notifying) + Cardinality(WithPermit) + Cardinality(Exited)
        = Len(m_allocatedJob) + notified

(* The branch of handle_task that complains of a "wrong wakeup" is never
   taken: a worker with a permit finds a task unless it has to terminate. *)
NoWrongWakeup ==
    \A w \in WithPermit : m_terminate \/ m_allocatedJob # <<>>

(* When run(false) has returned, no task is left and no permit either, so a
   later run(true) starts from a clean pool. *)
CleanWhenStopped ==
    (ctl = "idle" /\ m_block_enqueue) =>
        /\ m_allocatedJob = <<>> /\ m_workers = {}
        /\ m_count = 0 /\ notifying = {}

(* What the controller's place says about the rest. *)
LifeCycle ==
    /\ ctl \in {"notify", "join"} => m_terminate
    /\ ctl \notin {"notify", "join"} => Exited = {} /\ notified = 0
    /\ m_terminate /\ ctl \notin {"notify", "join"} => m_workers = {}
    /\ ctl = "start" => ~m_block_enqueue /\ ~m_terminate
    /\ m_terminate \/ ctl \in {"drain", "notify", "join"} => m_block_enqueue
    /\ ctl = "idle" /\ m_block_enqueue => m_allocatedJob = <<>> /\ m_workers = {}
    /\ wait_task /\ ctl \in {"notify", "join"} => m_allocatedJob = <<>>
    /\ ctl \in {"idle", "start"} => wait_task
    /\ ctl = "gone" => ~wait_task
    /\ ctl = "notify" => notified <= Cardinality(m_workers)
    /\ ctl = "join" => notified = Cardinality(m_workers)

(* A task is in the queue once, or with one worker, and not both. *)
UniqueTasks ==
    /\ \A i, k \in 1 .. Len(m_allocatedJob) : m_allocatedJob[i] = m_allocatedJob[k] => i = k
    /\ \A i \in 1 .. Len(m_allocatedJob), w \in Workers : m_allocatedJob[i] # task[w]
    /\ \A v, w \in Workers : task[v] = task[w] /\ task[v] # NoJob => v = w

(* The inductive invariant behind the properties above. *)
Inductive ==
    TypeOK /\ m_count >= 0 /\ LifeCycle /\ PermitsMatchTasks /\ UniqueTasks

phase ==
    CASE ctl = "gone" -> "gone"
      [] ctl # "gone" /\ ~wait_task -> "discarding"
      [] wait_task /\ ctl \in {"drain", "notify", "join"} -> "draining"
      [] wait_task /\ ctl \in {"idle", "start"} ->
           IF m_block_enqueue THEN "stopped" ELSE "open"

Service == INSTANCE TaskService
               WITH PoolSize <- Cardinality(Workers), pending <- m_allocatedJob,
                    running <- {task[w] : w \in Executing}, finished <- done

(* The pool keeps the promise: accepted tasks start in order, each once, and
   run(false) returns only when all of them have finished. *)
ImplementsTaskService == Service!Spec

(* run(false) and the destructor return.  A pool without workers has nobody
   to empty its queue: run(false) then spins for ever on a task that was
   enqueued before the first run(true). *)
StopReturns ==
    (ctl \in {"drain", "notify", "join"} /\ (m_workers # {} \/ m_allocatedJob = <<>>))
        ~> ctl \in {"idle", "gone"}

(* A task that a running pool accepted is executed, whatever run(false)
   calls come, unless the pool is destroyed first. *)
AcceptedTaskRuns ==
    \A j \in Jobs : (j \in Queued /\ m_workers # {}) ~> (j \in done \/ ~wait_task)
=============================================================================
