----------------------------- MODULE Threadpool -----------------------------
(***************************************************************************)
(* The thread pool of server/threadpool.c, and its twin on pthreads of     *)
(* server/threadpool_pthread.c: workers take tasks from a linked queue     *)
(* under one mutex and one condition variable.                             *)
(*                                                                         *)
(* The builds differ in the wait for a task.  On mypthreads the worker      *)
(* calls cond_wait with the mutex held.  On pthreads it unlocks the mutex  *)
(* first, and pthread_cond_wait unlocks it once more: no effect on a free  *)
(* mutex (in glibc), but another thread's is opened.                       *)
(*                                                                         *)
(* And in the lock.  On pthreads a thread waits for the mutex.  In the     *)
(* library one that finds it taken is blocked, runs mutex_lock again from  *)
(* an empty stack, gets the mutex, and ends with it.  Under ULONLY nobody  *)
(* finds it taken: a thread runs until it gives way, and none gives way    *)
(* with the mutex.                                                         *)
(*                                                                         *)
(* Of the library two things are taken at their word, which MypthreadSync  *)
(* checks: a mutex has one holder (AbstractMutex), and no notification is  *)
(* lost between cond_wait's release and its wait (WaitBeforeNotify), which *)
(* are one step here.                                                      *)
(*                                                                         *)
(* Two threads in the critical section at once are a data race: the thread *)
(* that let the second one in has pc "undef", and the model stops.         *)
(* Left out: running out of memory, and no_of_running_threads, which       *)
(* nobody sets or reads before it is incremented.                          *)
(***************************************************************************)
EXTENDS Naturals, FiniteSets, Sequences

CONSTANTS
  Builds,   \* which pool: on mypthreads with one kernel thread ("ulonly") or
            \* with several ("mypthread"), or on pthreads
  Workers,  \* the pool's threads
  Clients,  \* the threads that use the pool
  Main,     \* the client that creates it
  Tasks,    \* the calls handed to dispatch
  NoTask,   \* a null task pointer
  Nobody    \* holder of a free mutex

ASSUME PoolAssumption ==
  /\ Builds \subseteq {"ulonly", "mypthread", "pthread"}
  /\ Main \in Clients
  /\ NoTask \notin Tasks
  /\ Nobody \notin Workers \cup Clients /\ Workers \cap Clients = {}
  /\ IsFiniteSet(Workers) /\ Cardinality(Workers) \in 1..200   \* MAXT_IN_POOL

VARIABLES
  build,
  turn,     \* ULONLY: the thread that runs until it gives way
  no_of_threads, no_of_tasks_in_Q,
  taskQ_front, taskQ_rear,
  tnext,    \* task->next
  mutex,    \* who holds pool->mutex
  waiters,  \* the workers waiting on pool->cond
  pc,       \* where each thread is
  task,     \* the worker's cur, the client's mytask
  dispatched, done, destroyed  \* ghosts

queueVars == <<no_of_tasks_in_Q, taskQ_front, taskQ_rear, tnext>>
ghosts == <<dispatched, done, destroyed>>
vars == <<build, turn, no_of_threads, queueVars, mutex, waiters, pc, task, ghosts>>

Procs == Workers \cup Clients

At(p, label) == pc[p] = label /\ \A q \in Procs : pc[q] # "undef"

\* Whether the pool's mutex is the library's.
OnLibrary == build \in {"ulonly", "mypthread"}

Init ==
  /\ build \in Builds
  /\ turn = Nobody
  /\ no_of_threads = Cardinality(Workers)
  /\ no_of_tasks_in_Q = 0
  /\ taskQ_front = NoTask /\ taskQ_rear = NoTask
  /\ tnext = [t \in Tasks |-> NoTask]
  /\ mutex = Nobody
  /\ waiters = {}
  /\ pc = [p \in Procs |-> CASE p \in Workers -> "unborn"
                             [] p = Main -> "creating"
                             [] OTHER -> "outside"]
  /\ task = [p \in Procs |-> NoTask]
  /\ dispatched = {} /\ done = {} /\ destroyed = FALSE

----------------------------------------------------------------------------
\* create_threadpool

CreateWorker(w) ==
  /\ At(Main, "creating") /\ pc[w] = "unborn"
  /\ no_of_threads' = no_of_threads + 1
  /\ pc' = [pc EXCEPT ![w] = "lock"]
  /\ UNCHANGED <<build, queueVars, mutex, waiters, task, ghosts>>

CreateReturns ==
  /\ At(Main, "creating") /\ \A w \in Workers : pc[w] # "unborn"
  /\ pc' = [pc EXCEPT ![Main] = "outside"]
  /\ UNCHANGED <<build, no_of_threads, queueVars, mutex, waiters, task, ghosts>>

----------------------------------------------------------------------------
\* The mutex and the condition variable

TakeMutex(p, from, to) ==
  /\ At(p, from)
  /\ mutex = Nobody
  /\ mutex' = p
  /\ pc' = [pc EXCEPT ![p] = to]
  /\ UNCHANGED <<build, no_of_threads, queueVars, waiters, task, ghosts>>

\* mypthread_mutex_lock, when another thread has the mutex.
Block(p, from) ==
  /\ At(p, from)
  /\ build = "mypthread" /\ mutex # Nobody
  /\ pc' = [pc EXCEPT ![p] = "blocked"]
  /\ UNCHANGED <<build, no_of_threads, queueVars, mutex, waiters, task, ghosts>>

\* An unlock has made p active: the lock starts over, on a stack with no caller.
\* Nobody may have saved main's context, which then leads anywhere.
Restart(p) ==
  /\ At(p, "blocked")
  /\ mutex = Nobody
  /\ mutex' = p
  /\ \E label \in {"gone"} \cup (IF p = Main THEN {"undef"} ELSE {}) :
       pc' = [pc EXCEPT ![p] = label]
  /\ UNCHANGED <<build, no_of_threads, queueVars, waiters, task, ghosts>>

Locks(p, from, to) == TakeMutex(p, from, to) \/ Block(p, from) \/ Restart(p)

\* (Bug) The signal is lost.
NotifyNobody(p, n, label) ==
  pc' = [pc EXCEPT ![p] = label] /\ UNCHANGED waiters

\* p goes on to label after n signals: up to n waiters are woken.
Notify(p, n, label) ==
  \E woken \in SUBSET waiters :
    /\ Cardinality(woken) = IF Cardinality(waiters) < n THEN Cardinality(waiters) ELSE n
    /\ waiters' = waiters \ woken
    /\ pc' = [q \in Procs |-> CASE q = p -> label
                                [] q \in woken -> "woken"
                                [] OTHER -> pc[q]]

SpuriousWake(w) ==
  /\ build = "pthread"
  /\ At(w, "waiting") /\ w \in waiters
  /\ waiters' = waiters \ {w}
  /\ pc' = [pc EXCEPT ![w] = "woken"]
  /\ UNCHANGED <<build, no_of_threads, queueVars, mutex, task, ghosts>>

----------------------------------------------------------------------------
\* threadpool_scheduler: one worker's loop

Test(w) ==
  /\ At(w, "test") /\ no_of_tasks_in_Q # 0
  /\ pc' = [pc EXCEPT ![w] = "take"]
  /\ UNCHANGED <<build, no_of_threads, queueVars, mutex, waiters, task, ghosts>>

CondWait(w) ==
  /\ OnLibrary
  /\ At(w, "test") /\ no_of_tasks_in_Q = 0
  /\ mutex' = Nobody
  /\ waiters' = waiters \cup {w}
  /\ pc' = [pc EXCEPT ![w] = "waiting"]
  /\ UNCHANGED <<build, no_of_threads, queueVars, task, ghosts>>

UnlockFirst(w) ==
  /\ build = "pthread"
  /\ At(w, "test") /\ no_of_tasks_in_Q = 0
  /\ mutex' = Nobody
  /\ pc' = [pc EXCEPT ![w] = "cw_call"]
  /\ UNCHANGED <<build, no_of_threads, queueVars, waiters, task, ghosts>>

PthreadCondWait(w) ==
  /\ At(w, "cw_call")
  /\ mutex' = Nobody
  /\ waiters' = waiters \cup {w}
  /\ pc' = [pc EXCEPT ![w] = IF mutex = Nobody THEN "waiting" ELSE "undef"]
  /\ UNCHANGED <<build, no_of_threads, queueVars, task, ghosts>>

\* (Bug) The counter is not decremented.
PopTaskUncounted ==
  /\ UNCHANGED no_of_tasks_in_Q
  /\ IF no_of_tasks_in_Q = 1
     THEN taskQ_front' = NoTask /\ taskQ_rear' = NoTask
     ELSE taskQ_front' = tnext[taskQ_front] /\ UNCHANGED taskQ_rear

PopTask ==
  /\ no_of_tasks_in_Q' = no_of_tasks_in_Q - 1
  /\ IF no_of_tasks_in_Q = 1
     THEN taskQ_front' = NoTask /\ taskQ_rear' = NoTask
     ELSE taskQ_front' = tnext[taskQ_front] /\ UNCHANGED taskQ_rear

\* The worker that takes the last task signals the others, who find none.
Take(w) ==
  /\ At(w, "take")
  /\ task' = [task EXCEPT ![w] = taskQ_front]
  /\ PopTask
  /\ Notify(w, IF no_of_tasks_in_Q' = 0 THEN 1 ELSE 0, "unlock")
  /\ UNCHANGED <<build, no_of_threads, tnext, mutex, ghosts>>

Unlock(w) ==
  /\ At(w, "unlock")
  /\ mutex' = Nobody
  /\ pc' = [pc EXCEPT ![w] = "run"]
  /\ UNCHANGED <<build, no_of_threads, queueVars, waiters, task, ghosts>>

\* The call, and free(cur).
Run(w) ==
  /\ At(w, "run")
  /\ done' = done \cup {task[w]}
  /\ task' = [task EXCEPT ![w] = NoTask]
  /\ pc' = [pc EXCEPT ![w] = "lock"]
  /\ UNCHANGED <<build, no_of_threads, queueVars, mutex, waiters, dispatched, destroyed>>

WorkerStep(w) ==
  \/ Locks(w, "lock", "test") \/ Locks(w, "woken", "test")
  \/ Test(w) \/ CondWait(w) \/ UnlockFirst(w) \/ PthreadCondWait(w)
  \/ Take(w) \/ Unlock(w) \/ Run(w)

----------------------------------------------------------------------------
\* dispatch

\* Each task of the model is one call of dispatch.
Dispatch(c, t) ==
  /\ At(c, "outside") /\ pc[Main] # "creating" /\ ~destroyed
  /\ t \notin dispatched
  /\ dispatched' = dispatched \cup {t}
  /\ task' = [task EXCEPT ![c] = t]
  /\ pc' = [pc EXCEPT ![c] = "d_lock"]
  /\ UNCHANGED <<build, no_of_threads, queueVars, mutex, waiters, done, destroyed>>

\* &(pool->no_of_threads) == &(pool->no_of_tasks_in_Q): the addresses of two
\* fields, never equal: dispatch always pushes.
QueueFull == FALSE

\* (Bug) The link goes from the new task to the last one.
PushTaskBackwards(t) ==
  /\ no_of_tasks_in_Q' = no_of_tasks_in_Q + 1
  /\ tnext' = [tnext EXCEPT ![t] = taskQ_rear]
  /\ taskQ_rear' = t
  /\ taskQ_front' = IF no_of_tasks_in_Q = 0 THEN t ELSE taskQ_front

\* push_task
PushTask(t) ==
  /\ no_of_tasks_in_Q' = no_of_tasks_in_Q + 1
  /\ taskQ_rear' = t
  /\ IF no_of_tasks_in_Q = 0
     THEN taskQ_front' = t /\ tnext' = [tnext EXCEPT ![t] = NoTask]
     ELSE /\ tnext' = [tnext EXCEPT ![taskQ_rear] = t, ![t] = NoTask]
          /\ UNCHANGED taskQ_front

\* Two signals follow the push.
Push(c) ==
  /\ At(c, "d_push")
  /\ ~QueueFull
  /\ PushTask(task[c])
  /\ Notify(c, 2, "d_unlock")
  /\ UNCHANGED <<build, no_of_threads, mutex, task, ghosts>>

\* The unlock, and the yield.
DispatchReturns(c) ==
  /\ At(c, "d_unlock")
  /\ mutex' = Nobody
  /\ task' = [task EXCEPT ![c] = NoTask]
  /\ pc' = [pc EXCEPT ![c] = "outside"]
  /\ UNCHANGED <<build, no_of_threads, queueVars, waiters, ghosts>>

DispatchStep(c) ==
  Locks(c, "d_lock", "d_push") \/ Push(c) \/ DispatchReturns(c)

----------------------------------------------------------------------------
\* destroy_threadpool: the mutex and the condition variable are initialised
\* again, the queues of threads that wait on them forgotten; then the client
\* exits.  No worker hears of it.  A client calls it once, last.  (What
\* pthreads make of a destroyed mutex with users is undefined: that pool's
\* clients keep it, as its test does.)

Destroy(c) ==
  /\ OnLibrary
  /\ At(c, "outside") /\ pc[Main] # "creating" /\ ~destroyed
  /\ \A d \in Clients : pc[d] = "outside"
  /\ destroyed' = TRUE
  /\ mutex' = Nobody
  /\ waiters' = {}
  /\ pc' = [pc EXCEPT ![c] = IF mutex = Nobody THEN "gone" ELSE "undef"]
  /\ UNCHANGED <<build, no_of_threads, queueVars, task, dispatched, done>>

----------------------------------------------------------------------------
ClientStep(c) == (\E t \in Tasks : Dispatch(c, t)) \/ DispatchStep(c)

Create == CreateReturns \/ \E w \in Workers : CreateWorker(w)

\* Where a thread lets another have its kernel thread: cond_wait, the yield
\* after a dispatch, an exit; a task and a client outside the pool may, too.
GivesWayAt == {"waiting", "outside", "gone", "run", "undef"}

\* Under ULONLY p has the turn until it gives way.
InTurn(p) ==
  /\ turn \in {p, Nobody}
  /\ turn' = IF build = "ulonly" /\ pc'[p] \notin GivesWayAt THEN p ELSE Nobody

MainCreates == Create /\ InTurn(Main)
WorkerRuns(w) == WorkerStep(w) /\ InTurn(w)
Dispatches(c) == DispatchStep(c) /\ InTurn(c)

Next ==
  \/ MainCreates
  \/ \E w \in Workers : WorkerRuns(w) \/ (SpuriousWake(w) /\ InTurn(w))
  \/ \E c \in Clients : (ClientStep(c) \/ Destroy(c)) /\ InTurn(c)

Spec == Init /\ [][Next]_vars

\* Threads are scheduled fairly (NoStarvation) and a called task returns; a
\* client outside the pool gives way.  Clients need not dispatch, nor destroy;
\* spurious wake-ups need not come.
Fairness ==
  /\ WF_vars(MainCreates)
  /\ \A w \in Workers : WF_vars(WorkerRuns(w))
  /\ \A c \in Clients : WF_vars(Dispatches(c))

FairSpec == Spec /\ Fairness

----------------------------------------------------------------------------
(***************************************************************************)
(* Properties.  They speak of executions up to the first data race.        *)
(***************************************************************************)

\* Every variable has its type.
PoolTypeOK ==
  /\ build \in Builds
  /\ turn \in Procs \cup {Nobody}
  /\ no_of_threads \in Cardinality(Workers)..(2 * Cardinality(Workers))
  /\ no_of_tasks_in_Q \in 0..Cardinality(Tasks)
  /\ {taskQ_front, taskQ_rear} \subseteq Tasks \cup {NoTask}
  /\ tnext \in [Tasks -> Tasks \cup {NoTask}]
  /\ mutex \in Procs \cup {Nobody}
  /\ waiters \subseteq Workers
  /\ pc \in [Procs -> {"unborn", "creating", "outside", "lock", "test", "take", "unlock",
                       "run", "waiting", "woken", "cw_call", "d_lock", "d_push",
                       "d_unlock", "blocked", "gone", "undef"}]
  /\ task \in [Procs -> Tasks \cup {NoTask}]
  /\ \A w \in Workers : pc[w] \in {"unlock", "run"} => task[w] \in Tasks
  /\ dispatched \subseteq Tasks /\ done \subseteq Tasks /\ destroyed \in BOOLEAN

\* The walk from the front over as many tasks as the counter says.
Walk ==
  LET node[i \in 1..no_of_tasks_in_Q] ==
        IF i = 1 THEN taskQ_front ELSE tnext[node[i - 1]]
  IN  node

\* The linked list, its counter and the monitor around them keep the pool's
\* promise: every task is started once, first come first served.
Promise == INSTANCE AbstractPool WITH
             queue   <- Walk,
             running <- {task[w] : w \in {v \in Workers : pc[v] \in {"unlock", "run"}}}
ImplementsPool == Promise!Spec

Undefined == \E p \in Procs : pc[p] = "undef"

InQueue(t) == \E i \in 1..no_of_tasks_in_Q : Walk[i] = t

\* Under ULONLY a task that is in the queue is run, whoever takes the last
\* task, and although a wait that ends may find no task.  (With several kernel
\* threads a worker can be lost in the lock, and with it the mutex; on pthreads
\* the worker unlocks before it waits, and a task can be missed.)
QueuedRuns == \A t \in Tasks : (build = "ulonly" /\ InQueue(t)) ~> t \in done

=============================================================================
