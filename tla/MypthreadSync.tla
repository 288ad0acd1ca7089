--------------------------- MODULE MypthreadSync ---------------------------
(***************************************************************************)
(* The mutexes and condition variables of pthreads/mypthread.c, on top of  *)
(* the scheduler of Mypthread.                                             *)
(*                                                                         *)
(* A blocked thread is in two lists: the mutex's or condition variable's,  *)
(* and the run queue, where its state keeps the dequeue from taking it.    *)
(*                                                                         *)
(* Client discipline, besides Mypthread's: a thread unlocks, and passes to *)
(* cond_wait, only mutexes it holds; it does not lock a mutex it holds,    *)
(* nor exit with one; it destroys (or initialises again) only unlocked     *)
(* mutexes and condition variables nobody waits on.                        *)
(***************************************************************************)
EXTENDS Mypthread

CONSTANTS Mutexes, Conds, NoCond

ASSUME SyncAssumption == NoCond \notin Conds /\ Mutexes # {}

VARIABLES
  lock,      \* mutex->lock
  blocked,   \* the walk from mutex->blocked_q_head
  cq,        \* the walk from cond->cond_q_head
  mutex_sem, cond_sem,
  want,      \* the mutex argument of the thread's last lock or cond_wait
  cond,      \* the condition variable of the call a kernel thread executes
  owner,     \* ghost: whose lock or trylock call got the mutex
  actor,     \* ghost: the thread whose call last got or released a mutex
  waits      \* ghost: of each condition variable, the threads whose cond_wait
             \* has released the mutex and that no notification has taken

ownerVars == <<owner, actor>>
mutexVars == <<lock, blocked, ownerVars>>
condVars == <<cq, waits>>
semVars == <<mutex_sem, cond_sem>>
syncVars == <<mutexVars, condVars, semVars, want, cond>>
allVars == <<vars, syncVars>>

\* What none of the calls below changes.
coreUnchanged == <<confVars, mypthread_count, current_kthread_count,
                   mypthread_sem, dep, listVars, th, joinVars, last, next, tl>>

Nobody == NoThread
Holds(t, m) == owner[m] = t

SyncInit ==
  /\ Init
  /\ lock = [m \in Mutexes |-> FALSE]
  /\ blocked = [m \in Mutexes |-> <<>>]
  /\ cq = [c \in Conds |-> <<>>]
  /\ mutex_sem = 0 /\ cond_sem = 0
  /\ want = [t \in Threads |-> CHOOSE m \in Mutexes : TRUE]
  /\ cond = [k \in KThreads |-> NoCond]
  /\ owner = [m \in Mutexes |-> Nobody] /\ actor = Nobody
  /\ waits = [c \in Conds |-> {}]

----------------------------------------------------------------------------
\* mypthread_mutex_lock, trylock, unlock, init and destroy

\* makecontext on a context nobody initialised leaves most of it so.
Relock(t) == IF ctx[t] = "uninit" THEN "uninit" ELSE "relock"

\* if (!(mutex->lock))
Free(m) == ~lock[m]

\* The ghosts, when k's thread gets m, or releases it.
Gets(k, m) == owner' = [owner EXCEPT ![m] = th[k]] /\ actor' = th[k]
LetsGo(k, m) == owner' = [owner EXCEPT ![m] = Nobody] /\ actor' = th[k]

\* The critical section of mutex_lock; a free mutex sends k on to after.
TakeMutex(k, m, after) ==
  /\ mutex_sem = 1
  /\ \/ /\ Free(m)
        /\ lock' = [lock EXCEPT ![m] = TRUE]
        /\ Gets(k, m)
        /\ Goto(k, after)
        /\ UNCHANGED <<state, ctx, blocked, mutex_sem, want>>
     \/ /\ ~Free(m) /\ ~Registered(k)
        /\ mutex_sem' = 0
        /\ Goto(k, "crashed")
        /\ UNCHANGED <<state, ctx, mutexVars, want>>
     \/ /\ ~Free(m) /\ Registered(k)
        /\ mutex_sem' = 0
        /\ state' = [state EXCEPT ![th[k]] = "blocked"]
        /\ blocked' = [blocked EXCEPT ![m] = Append(@, th[k])]
        /\ ctx' = [ctx EXCEPT ![th[k]] = Relock(th[k])]
        /\ want' = [want EXCEPT ![th[k]] = m]
        /\ Goto(k, "lock_enq")
        /\ UNCHANGED <<lock, ownerVars>>
  /\ UNCHANGED <<coreUnchanged, queueVars, save, condVars, cond_sem, cond>>

Lock(k, m) ==
  /\ CallingStarted(k, "lock")
  /\ ~Holds(th[k], m)
  /\ TakeMutex(k, m, "user")

\* The lock at the end of cond_wait.
LockAgain(k) == At(k, "lock") /\ TakeMutex(k, want[th[k]], "user")

\* A thread that was blocked starts mutex_lock afresh on an empty stack.  Once
\* it has the mutex that call returns to uc_link, which nobody set: the kernel
\* thread ends.
LockFromBlocked(k) == At(k, "relock") /\ TakeMutex(k, want[th[k]], "gone")

\* The end of the blocking path: enqueue, post both semaphores, setcontext.
LockEnqueue(k) ==
  /\ At(k, "lock_enq")
  /\ mypthread_sem = 1
  /\ Enqueue(th[k])
  /\ mutex_sem' = 1
  /\ EnterScheduler(k, "none")
  /\ UNCHANGED <<coreUnchanged, state, ctx, mutexVars, condVars, cond_sem, want, cond>>

\* The failure path returns EBUSY without posting mutex_sem.
TryLock(k, m) ==
  /\ CallingStarted(k, "trylock")
  /\ mutex_sem = 1
  /\ IF Free(m)
     THEN /\ lock' = [lock EXCEPT ![m] = TRUE]
          /\ Gets(k, m)
          /\ UNCHANGED mutex_sem
     ELSE mutex_sem' = 0 /\ UNCHANGED <<lock, ownerVars>>
  /\ UNCHANGED <<coreUnchanged, state, ctx, queueVars, pc, save, blocked,
                 condVars, cond_sem, want, cond>>

\* (Bug) The queue keeps its freed nodes.
ReleaseMutexKeepsQueue(k, m) ==
  /\ mutex_sem = 1
  /\ lock' = [lock EXCEPT ![m] = FALSE]
  /\ LetsGo(k, m)
  /\ state' = LlFree(blocked[m], state)
  /\ UNCHANGED <<blocked, mutex_sem>>

ReleaseMutex(k, m) ==
  /\ mutex_sem = 1
  /\ lock' = [lock EXCEPT ![m] = FALSE]
  /\ LetsGo(k, m)
  /\ state' = LlFree(blocked[m], state)
  /\ blocked' = [blocked EXCEPT ![m] = <<>>]
  /\ UNCHANGED mutex_sem

Unlock(k, m) ==
  /\ CallingStarted(k, "unlock")
  /\ Holds(th[k], m)
  /\ ReleaseMutex(k, m)
  /\ UNCHANGED <<coreUnchanged, ctx, queueVars, pc, save, condVars, cond_sem, want, cond>>

MutexDestroy(k, m) ==
  /\ CallingStarted(k, "destroy")
  /\ ~lock[m]
  /\ mutex_sem = 1
  /\ lock' = [lock EXCEPT ![m] = FALSE]
  /\ blocked' = [blocked EXCEPT ![m] = <<>>]
  /\ UNCHANGED <<vars, ownerVars, condVars, semVars, want, cond>>

----------------------------------------------------------------------------
\* mypthread_cond_wait, signal, broadcast, init and destroy

\* (Bug) The semaphore is not waited for.
BargeCondSem == cond_sem' = 0

TakeCondSem == cond_sem = 1 /\ cond_sem' = 0

CondWait(k, c, m) ==
  /\ CallingStarted(k, "wait")
  /\ Holds(th[k], m)
  /\ TakeCondSem
  /\ cond' = [cond EXCEPT ![k] = c]
  /\ want' = [want EXCEPT ![th[k]] = m]
  /\ Goto(k, "cw_unlock")
  /\ UNCHANGED <<coreUnchanged, state, ctx, queueVars, save, mutexVars, condVars, mutex_sem>>

\* The release, and the wait that starts with it.
LetGo(k) ==
  /\ ReleaseMutex(k, want[th[k]])
  /\ waits' = [waits EXCEPT ![cond[k]] = @ \cup {th[k]}]
  /\ UNCHANGED <<coreUnchanged, ctx, queueVars, save, cq, cond_sem, want, cond>>

\* (Bug) The mutex may be unlocked once more.
CondWaitUnlockAgain(k) ==
  /\ At(k, "cw_unlock")
  /\ LetGo(k)
  /\ Goto(k, "cw_unlock") \/ Goto(k, "cw_block")

CondWaitUnlock(k) ==
  /\ At(k, "cw_unlock")
  /\ LetGo(k)
  /\ Goto(k, "cw_block")

CondWaitBlock(k) ==
  /\ At(k, "cw_block")
  /\ IF Registered(k)
     THEN /\ mypthread_sem = 1
          /\ state' = [state EXCEPT ![th[k]] = "blocked"]
          /\ cq' = [cq EXCEPT ![cond[k]] = Append(@, th[k])]
          /\ Enqueue(th[k])
          /\ cond_sem' = 1
          /\ cond' = [cond EXCEPT ![k] = NoCond]
          /\ EnterScheduler(k, "lock")
     ELSE /\ Goto(k, "crashed")
          /\ UNCHANGED <<state, cq, queueVars, cond_sem, cond, save>>
  /\ UNCHANGED <<coreUnchanged, ctx, mutexVars, waits, mutex_sem, want>>

\* signal and broadcast take cond_sem, then mypthread_sem.
CondNotify(k, c, call) ==
  /\ CallingStarted(k, call)
  /\ TakeCondSem
  /\ cond' = [cond EXCEPT ![k] = c]
  /\ Goto(k, call)
  /\ UNCHANGED <<coreUnchanged, state, ctx, queueVars, save, mutexVars, condVars,
                 mutex_sem, want>>

\* (Bug) cond_sem is not posted.
NotifyKeepsSem(k) ==
  /\ cond' = [cond EXCEPT ![k] = NoCond]
  /\ Goto(k, "user")
  /\ UNCHANGED <<coreUnchanged, ctx, queueVars, save, mutexVars, semVars, want>>

NotifyReturns(k) ==
  /\ cond_sem' = 1
  /\ cond' = [cond EXCEPT ![k] = NoCond]
  /\ Goto(k, "user")
  /\ UNCHANGED <<coreUnchanged, ctx, queueVars, save, mutexVars, mutex_sem, want>>

CondSignal(k) ==
  /\ At(k, "signal")
  /\ mypthread_sem = 1
  /\ state' = LlFreeOne(cq[cond[k]], state)
  /\ cq' = [cq EXCEPT ![cond[k]] = IF @ = <<>> THEN @ ELSE Tail(@)]
  /\ waits' = [waits EXCEPT ![cond[k]] =
                 {t \in @ : cq[cond[k]] = <<>> \/ t # Head(cq[cond[k]])}]
  /\ NotifyReturns(k)

CondBroadcast(k) ==
  /\ At(k, "broadcast")
  /\ mypthread_sem = 1
  /\ state' = LlFree(cq[cond[k]], state)
  /\ cq' = [cq EXCEPT ![cond[k]] = <<>>]
  /\ waits' = [waits EXCEPT ![cond[k]] = {t \in @ : ~Contains(cq[cond[k]], t)}]
  /\ NotifyReturns(k)

CondDestroy(k, c) ==
  /\ CallingStarted(k, "destroy")
  /\ cq[c] = <<>>
  /\ cond_sem = 1
  /\ cq' = [cq EXCEPT ![c] = <<>>]
  /\ UNCHANGED <<vars, mutexVars, waits, semVars, want, cond>>

----------------------------------------------------------------------------
\* The scheduler's steps beside these.  init_locks readies every semaphore.

StartLibrary(k, t) ==
  /\ FirstCreate(k, t)
  /\ mutex_sem' = 1 /\ cond_sem' = 1
  /\ UNCHANGED <<mutexVars, condVars, want, cond>>

ExitClean(k) == Exit(k) /\ \A m \in Mutexes : ~Holds(th[k], m)

CoreCall(k) ==
  /\ \/ \E t \in Threads : Create(k, t) \/ JoinLook(k, t)
     \/ ExitClean(k) \/ Yield(k)
  /\ UNCHANGED syncVars

SyncCall(k) ==
  \/ \E m \in Mutexes : Lock(k, m) \/ TryLock(k, m) \/ Unlock(k, m)
  \/ \E c \in Conds : CondNotify(k, c, "signal") \/ CondNotify(k, c, "broadcast")
  \/ \E c \in Conds, m \in Mutexes : CondWait(k, c, m)

SyncStep(k) ==
  \/ LibraryStep(k) /\ UNCHANGED syncVars
  \/ LockAgain(k) \/ LockFromBlocked(k) \/ LockEnqueue(k)
  \/ CondWaitUnlock(k) \/ CondWaitBlock(k)
  \/ CondSignal(k) \/ CondBroadcast(k)

Destroy(k) ==
  \/ \E m \in Mutexes : MutexDestroy(k, m)
  \/ \E c \in Conds : CondDestroy(k, c)

SyncNext ==
  \E k \in KThreads :
    \/ \E kt \in Policies : MypthreadInit(k, kt) /\ UNCHANGED syncVars
    \/ \E t \in Threads : StartLibrary(k, t)
    \/ CoreCall(k)
    \/ SyncCall(k)
    \/ SyncStep(k)
    \/ Destroy(k)

SyncSpec == SyncInit /\ [][SyncNext]_allVars

\* The calls that let another thread have the kernel thread.
GivesWay(k) ==
  \/ \E c \in Conds, m \in Mutexes : CondWait(k, c, m)
  \/ (\/ ExitClean(k) \/ Yield(k) \/ \E t \in Threads : JoinLook(k, t)) /\ UNCHANGED syncVars

\* As in Mypthread: kernel threads run, and clients go on calling.  A client
\* can call lock and unlock forever without giving way; one that can give way
\* again and again is assumed to do so (nothing preempts it).
SyncFairSpec ==
  /\ SyncSpec
  /\ \A k \in KThreads :
       /\ WF_allVars(SyncStep(k))
       /\ WF_allVars(CoreCall(k) \/ SyncCall(k) \/ \E t \in Threads : StartLibrary(k, t))
       /\ SF_allVars(GivesWay(k))

----------------------------------------------------------------------------
(***************************************************************************)
(* Properties.  They speak of executions up to the first undefined switch. *)
(***************************************************************************)

\* Every variable has its type.
SyncTypeOK ==
  /\ state \in [Threads -> {"unborn", "active", "running", "waiting",
                            "blocked", "dead"}]
  /\ ctx \in [Threads -> {"uninit", "start", "yielded", "joined", "lock", "relock"}]
  /\ pc \in [KThreads -> {"unborn"} \cup BirthPcs \cup UserPcs \cup SchedPcs
                           \cup EndPcs]
  /\ save \in [KThreads -> {"none", "yielded", "joined", "lock"}]
  /\ runq \in Seq(Threads)
  /\ lock \in [Mutexes -> BOOLEAN]
  /\ blocked \in [Mutexes -> Seq(Threads)]
  /\ cq \in [Conds -> Seq(Threads)]
  /\ mutex_sem \in {0, 1}
  /\ cond_sem \in {0, 1}
  /\ want \in [Threads -> Mutexes]
  /\ cond \in [KThreads -> Conds \cup {NoCond}]
  /\ owner \in [Mutexes -> Threads \cup {Nobody}]
  /\ actor \in Threads \cup {Nobody}
  /\ waits \in [Conds -> SUBSET Threads]

\* Mutexes behave as AbstractMutex promises: at most one holder, taken only
\* when free, and given up only in a call of the thread that holds it; through
\* every block, context switch, lock that starts afresh, and through the two
\* semaphores a cond_wait passes before it releases the mutex.
Holder == [m \in Mutexes |-> IF lock[m] THEN owner[m] ELSE Nobody]
Abstract == INSTANCE AbstractMutex WITH holder <- Holder
ImplementsMutex == Abstract!Spec

\* Nobody is queued on a free mutex: the unlock that frees it has woken every
\* blocked thread, and none can slip in between its test and its queueing.
BlockedOnHeldMutex == \A m \in Mutexes : blocked[m] # <<>> => lock[m]

\* Every blocked thread is on a list from which an unlock, a signal or a
\* broadcast will take it.
BlockedIsListed ==
  \A t \in Threads : state[t] = "blocked" =>
    \/ \E m \in Mutexes : Contains(blocked[m], t)
    \/ \E c \in Conds : Contains(cq[c], t)

\* A signal or broadcast finds in the condition variable's queue every thread
\* that waits on it, counted from the release of its mutex: although cond_wait
\* releases first and queues later (lines 437 and 441), no notification can
\* come between and be lost.
WaitBeforeNotify ==
  \A k \in KThreads : pc[k] \in {"signal", "broadcast"} =>
    \A t \in waits[cond[k]] : Contains(cq[cond[k]], t)

SwitchUndefined == \E k \in KThreads : pc[k] = "undef"

\* A semaphore a call takes is given back (unless a switch was undefined).
SemsReleased ==
  /\ (mutex_sem = 0 /\ klist # <<>>) ~> (mutex_sem = 1 \/ SwitchUndefined)
  /\ (cond_sem = 0 /\ klist # <<>>) ~> (cond_sem = 1 \/ SwitchUndefined)

\* On one kernel thread, whoever a signal or broadcast takes out of its wait
\* runs again, and goes on to lock its mutex again, unless an enqueue has lost
\* a thread.  (Nobody in a monitor blocks on a mutex there, since its holder
\* does not give way; HolderGoesOn is about those that do elsewhere.)
WokenRuns ==
  \A t \in Threads :
    (mypthread_policy = "ULONLY" /\ state[t] = "active" /\ \A k \in KThreads : ~Carries(k, t))
      ~> (Runs(t) \/ SwitchUndefined \/ ~NoThreadLost)

\* The comment of mypthread.c:350: a blocked thread that becomes runnable
\* "executes the mutex lock logic again"; then, like every caller of
\* mutex_lock that got the mutex, it goes on to use it.
HolderGoesOn ==
  \A k \in KThreads, m \in Mutexes : pc[k] = "gone" => owner[m] # th[k]

=============================================================================
