----------------------------- MODULE Mypthread -----------------------------
(***************************************************************************)
(* The M:N thread library of pthreads/mypthread.c: user threads are        *)
(* carried by kernel threads that share one run queue.  This module models *)
(* mypthread_init, create, exit, yield, join and self, the scheduler, and  *)
(* the birth and registration of kernel threads; MypthreadSync adds        *)
(* mutexes and condition variables.                                        *)
(*                                                                         *)
(* One action is one stretch of a kernel thread's code between two points  *)
(* where another kernel thread can get in: a sem_wait, or an unprotected   *)
(* access to shared data.  A critical section that no step can leave half  *)
(* done is one action, enabled while its semaphore is free, so only a      *)
(* semaphore that is never posted again shows as 0.                        *)
(*                                                                         *)
(* The client is any program whose threads make the calls Calls allows     *)
(* them, in any order.  Its discipline: main creates a thread before it    *)
(* makes any other call (it may call mypthread_init before that, once or   *)
(* more), threads end with mypthread_exit, nobody joins itself.            *)
(*                                                                         *)
(* Running on a stack that another kernel thread still uses, or from a     *)
(* context nobody saved, is undefined: the kernel thread's pc becomes      *)
(* "undef" and the model stops there.                                      *)
(***************************************************************************)
EXTENDS Naturals, Sequences, FiniteSets, QueueUtil

CONSTANTS
  Threads,      \* the mypthread_t records of the client, main_thread included
  Main,         \* main_thread
  KThreads,     \* the kernel threads clone can return, the first one included
  K0,           \* the kernel thread main starts on
  NoThread,     \* the null mypthread_t pointer, and the th_id nobody has
  NoKThread,    \* a null list pointer
  Policies,     \* the arguments main may pass to mypthread_init
  Cores,        \* cores per socket, as lscpu would print it
  HyperThreads, \* threads per core, as lscpu would print it
  PopenFails,   \* can popen return NULL?
  CloneFails,   \* can clone return -1?
  DepInit,      \* what dependent_th can hold in a record nobody initialised
  Calls         \* the calls each thread makes

AllPolicies == {"ULONLY", "KLMATCHCORES", "KLMATCHHYPER", "KLALWAYS"}

ASSUME ConstantsAssumption ==
  /\ Main \in Threads
  /\ K0 \in KThreads
  /\ NoThread \notin Threads
  /\ NoKThread \notin KThreads
  /\ Policies \subseteq AllPolicies
  /\ Cores \in Nat /\ Cores < 10^6
  /\ HyperThreads \in Nat /\ HyperThreads < 10^6
  /\ PopenFails \in BOOLEAN
  /\ CloneFails \in BOOLEAN
  /\ DepInit \subseteq Threads \cup {NoThread}
  /\ IsFiniteSet(Threads)
  /\ IsFiniteSet(KThreads)

VARIABLES
  mypthread_policy,
  max_kthread_count,
  mypthread_count,
  current_kthread_count,
  mypthread_sem,  \* 1 free; 0 not yet initialised, or taken and never posted
  state,          \* th->state, "unborn" before mypthread_create(th)
  dep,            \* th->dependent_th
  ctx,            \* where th->ctx resumes
  runq, tail_ok,  \* the mypthread queue (see QueueUtil)
  klist, ktail,   \* the kthread list: walk from the head, tail pointer
  pc,             \* what each kernel thread executes next
  th,             \* kth->th
  cur,            \* join's current_kthread is not NULL
  target,         \* join's argument
  save,           \* mode 1: where last_running_pthread will resume;
                  \* "none": mode 0, nothing is saved
  last,           \* last_running_pthread
  next,           \* next_active_th
  tl              \* the tail pointer mykthread_add has read

confVars == <<mypthread_policy, max_kthread_count>>
threadVars == <<state, dep, ctx>>
queueVars == <<runq, tail_ok>>
listVars == <<klist, ktail>>
joinVars == <<cur, target>>
schedVars == <<save, last, next>>
vars == <<confVars, mypthread_count, current_kthread_count, mypthread_sem,
          threadVars, queueVars, listVars, pc, th, joinVars, schedVars, tl>>

----------------------------------------------------------------------------
\* Who is where.

\* Labels at which a kernel thread runs client code or a call of its thread;
\* SyncPcs are those of MypthreadSync.
SyncPcs == {"lock", "relock", "lock_enq", "cw_unlock", "cw_block", "signal",
            "broadcast"}
UserPcs == {"user", "create_kt", "clone", "join_found", "join_missing",
            "join_wait"} \cup SyncPcs

SchedPcs == {"sched_check", "sched_pick", "set_th", "switch"}
BirthPcs == {"born", "kt_link", "kt_tail"}
EndPcs   == {"gone", "crashed", "undef"}

\* Kernel thread k executes thread t.
Executes(k, t) == pc[k] \in UserPcs /\ th[k] = t

\* k has taken t off the run queue and will switch to it.
Chose(k, t) == pc[k] \in {"set_th", "switch"} /\ next[k] = t

\* The thread on whose stack k's scheduler loop runs (a new kernel thread has
\* a stack of its own).
StackOwner(k) == IF pc[k] = "sched_check" THEN th[k] ELSE last[k]

\* Another kernel thread's scheduler loop still runs on t's stack.
StackBusy(k, t) ==
  \E j \in KThreads \ {k} : pc[j] \in SchedPcs /\ StackOwner(j) = t

\* mykthread_get(gettid()) finds k.
Registered(k) == Contains(klist, k)

Live == {t \in Threads : state[t] \notin {"unborn", "dead"}}

At(k, label) == pc[k] = label /\ \A j \in KThreads : pc[j] # "undef"
Goto(k, label) == pc' = [pc EXCEPT ![k] = label]

\* k is in client code and its thread may call op.
Calling(k, op) == At(k, "user") /\ op \in Calls[th[k]]

\* The same once the library is started (client discipline, see above).
CallingStarted(k, op) == Calling(k, op) /\ mypthread_count > 0

Init ==
  /\ mypthread_policy = "ULONLY"
  /\ max_kthread_count = 0
  /\ mypthread_count = 0
  /\ current_kthread_count = 0
  /\ mypthread_sem = 0
  /\ state = [t \in Threads |-> "unborn"]
  /\ dep = [t \in Threads |-> NoThread]
  /\ ctx = [t \in Threads |-> "uninit"]
  /\ runq = <<>>
  /\ tail_ok = TRUE
  /\ klist = <<>>
  /\ ktail = NoKThread
  /\ pc = [k \in KThreads |-> IF k = K0 THEN "user" ELSE "unborn"]
  /\ th = [k \in KThreads |-> IF k = K0 THEN Main ELSE NoThread]
  /\ cur = [k \in KThreads |-> FALSE]
  /\ target = [k \in KThreads |-> NoThread]
  /\ save = [k \in KThreads |-> "none"]
  /\ last = [k \in KThreads |-> NoThread]
  /\ next = [k \in KThreads |-> NoThread]
  /\ tl = [k \in KThreads |-> NoKThread]

----------------------------------------------------------------------------
\* mypthread_init

\* fgets(resultString, 2, fp) reads one character: the first digit of n.
FirstDigits(n) ==
  {d \in 0..9 : \E e \in 0..5 : d * 10^e <= n /\ n < (d + 1) * 10^e /\ (d = 0 => n = 0)}

\* get_cpu_cores and get_hyperthreads, with their value for a failed popen.
Readings(n, default) == FirstDigits(n) \cup (IF PopenFails THEN {default} ELSE {})

MypthreadInit(k, kt) ==
  /\ Calling(k, "init")
  /\ mypthread_count = 0
  /\ mypthread_policy' = kt
  /\ \E cpu_cores \in Readings(Cores, 2), per_core \in Readings(HyperThreads, 1) :
       max_kthread_count' =
         CASE kt = "ULONLY"       -> 1
           [] kt = "KLMATCHCORES" -> cpu_cores
           [] kt = "KLMATCHHYPER" -> cpu_cores * per_core
           [] kt = "KLALWAYS"     -> max_kthread_count
  /\ UNCHANGED <<mypthread_count, current_kthread_count, mypthread_sem,
                 threadVars, queueVars, listVars, pc, th, joinVars, schedVars, tl>>

----------------------------------------------------------------------------
\* mypthread_create and the kernel threads it makes

Enqueue(t) ==
  /\ runq' = LlAdd(runq, tail_ok, t)
  /\ tail_ok' = TailAfterAdd(runq, tail_ok)

AfterCreate(k) ==
  Goto(k, IF mypthread_policy = "ULONLY" THEN "user" ELSE "create_kt")

\* (Bug) The count is not incremented.
MakeThreadUncounted(t, count, states) ==
  /\ mypthread_count' = count
  /\ state' = [states EXCEPT ![t] = "active"]
  /\ \E d \in DepInit : dep' = [dep EXCEPT ![t] = d]
  /\ ctx' = [ctx EXCEPT ![t] = "start"]
  /\ Enqueue(t)

\* The new thread's record, the count and the run queue, given what they were.
MakeThread(t, count, states) ==
  /\ mypthread_count' = count + 1
  /\ state' = [states EXCEPT ![t] = "active"]
  /\ \E d \in DepInit : dep' = [dep EXCEPT ![t] = d]
  /\ ctx' = [ctx EXCEPT ![t] = "start"]
  /\ Enqueue(t)

\* The first call: init_locks, then main_thread and its kernel thread are
\* registered, then the new thread is made and queued.
FirstCreate(k, t) ==
  /\ Calling(k, "create")
  /\ mypthread_count = 0
  /\ state[t] = "unborn" /\ t # Main
  /\ mypthread_sem' = 1
  /\ current_kthread_count' = 1
  /\ klist' = KtLink(klist, ktail, k)
  /\ ktail' = k
  /\ th' = [th EXCEPT ![k] = Main]
  /\ MakeThread(t, 1, [state EXCEPT ![Main] = "running"])
  /\ AfterCreate(k)
  /\ UNCHANGED <<confVars, joinVars, schedVars, tl>>

Create(k, t) ==
  /\ CallingStarted(k, "create")
  /\ state[t] = "unborn" /\ t # Main
  /\ mypthread_sem = 1
  /\ MakeThread(t, mypthread_count, state)
  /\ AfterCreate(k)
  /\ UNCHANGED <<confVars, current_kthread_count, mypthread_sem, listVars, th,
                 joinVars, schedVars, tl>>

\* (Bug) Off by one.
KthreadDueLate ==
  \/ mypthread_policy = "KLALWAYS"
  \/ current_kthread_count <= max_kthread_count

\* Under kthread_sem: is another kernel thread due?
KthreadDue ==
  \/ mypthread_policy = "KLALWAYS"
  \/ current_kthread_count < max_kthread_count

CreateKthread(k) ==
  /\ At(k, "create_kt")
  /\ IF KthreadDue
     THEN /\ current_kthread_count' = current_kthread_count + 1
          /\ Goto(k, "clone")
     ELSE /\ Goto(k, "user")
          /\ UNCHANGED current_kthread_count
  /\ UNCHANGED <<confVars, mypthread_count, mypthread_sem, threadVars,
                 queueVars, listVars, th, joinVars, schedVars, tl>>

\* clone returns the new kernel thread n, which starts in schedule_kthread.
Clone(k, n) ==
  /\ At(k, "clone")
  /\ pc[n] = "unborn"
  /\ pc' = [pc EXCEPT ![k] = "user", ![n] = "born"]
  /\ UNCHANGED <<confVars, mypthread_count, current_kthread_count,
                 mypthread_sem, threadVars, queueVars, listVars, th, joinVars,
                 schedVars, tl>>

\* clone fails: exit(EXIT_FAILURE) ends the caller, and nothing but the caller,
\* since no kernel thread is made with CLONE_THREAD.
CloneFailure(k) ==
  /\ CloneFails
  /\ At(k, "clone")
  /\ Goto(k, "gone")
  /\ UNCHANGED <<confVars, mypthread_count, current_kthread_count,
                 mypthread_sem, threadVars, queueVars, listVars, th, joinVars,
                 schedVars, tl>>

----------------------------------------------------------------------------
\* schedule_kthread: mykthread_add without kthread_sem, in its three accesses

ReadTail(k) ==
  /\ At(k, "born")
  /\ tl' = [tl EXCEPT ![k] = ktail]
  /\ Goto(k, "kt_link")
  /\ UNCHANGED <<confVars, mypthread_count, current_kthread_count,
                 mypthread_sem, threadVars, queueVars, listVars, th, joinVars,
                 schedVars>>

LinkNode(k) ==
  /\ At(k, "kt_link")
  /\ klist' = KtLink(klist, tl[k], k)
  /\ tl' = [tl EXCEPT ![k] = NoKThread]
  /\ Goto(k, "kt_tail")
  /\ UNCHANGED <<confVars, mypthread_count, current_kthread_count,
                 mypthread_sem, threadVars, queueVars, ktail, th, joinVars,
                 schedVars>>

MoveTail(k) ==
  /\ At(k, "kt_tail")
  /\ ktail' = k
  /\ Goto(k, "sched_check")
  /\ UNCHANGED <<confVars, mypthread_count, current_kthread_count,
                 mypthread_sem, threadVars, queueVars, klist, th, joinVars,
                 schedVars, tl>>

----------------------------------------------------------------------------
\* mythread_scheduler

EnterScheduler(k, label) ==
  /\ Goto(k, "sched_check")
  /\ save' = [save EXCEPT ![k] = label]

\* With no thread left the scheduler returns: from an exit or a new kernel
\* thread into the end of the kernel thread, from any other call to its caller.
SchedCheck(k) ==
  /\ At(k, "sched_check")
  /\ mypthread_sem = 1
  /\ IF mypthread_count = 0
     THEN /\ Goto(k, IF save[k] = "none" THEN "gone" ELSE "user")
          /\ save' = [save EXCEPT ![k] = "none"]
          /\ UNCHANGED last
     ELSE /\ Goto(k, "sched_pick")
          /\ last' = [last EXCEPT ![k] = th[k]]
          /\ UNCHANGED save
  /\ UNCHANGED <<confVars, mypthread_count, current_kthread_count,
                 mypthread_sem, threadVars, queueVars, listVars, th, joinVars,
                 next, tl>>

\* The dequeue; while it returns NULL the loop sleeps and tries again.
SchedPick(k) ==
  /\ At(k, "sched_pick")
  /\ mypthread_sem = 1
  /\ \E i \in FirstActive(runq, state) :
       /\ next' = [next EXCEPT ![k] = runq[i]]
       /\ runq' = Unlink(runq, i)
       /\ tail_ok' = TailAfterUnlink(runq, tail_ok, i)
  /\ Goto(k, "set_th")
  /\ UNCHANGED <<confVars, mypthread_count, current_kthread_count,
                 mypthread_sem, threadVars, listVars, th, joinVars, save, last, tl>>

\* current_kthread->th = next_active_th under kthread_sem.
SetTh(k) ==
  /\ At(k, "set_th")
  /\ th' = [th EXCEPT ![k] = next[k]]
  /\ Goto(k, "switch")
  /\ UNCHANGED <<confVars, mypthread_count, current_kthread_count,
                 mypthread_sem, threadVars, queueVars, listVars, joinVars,
                 schedVars, tl>>

\* (Bug) The old context is not saved.
SavedNothing(k) == ctx

\* The contexts once swapcontext has saved the old one (setcontext saves none).
SavedCtx(k) ==
  IF save[k] = "none" THEN ctx ELSE [ctx EXCEPT ![last[k]] = save[k]]

\* (Bug) A context saved in join is not taken for thread code.
LandingNoJoin(label) == IF label \in {"start", "yielded"} THEN "user" ELSE label

\* Where a resumed context continues: thread code, or the label of a call.
Landing(label) ==
  IF label \in {"start", "yielded", "joined"} THEN "user" ELSE label

Switch(k) ==
  /\ At(k, "switch")
  /\ ctx' = SavedCtx(k)
  /\ IF StackBusy(k, next[k]) \/ ctx'[next[k]] = "uninit"
     THEN Goto(k, "undef")
     ELSE Goto(k, Landing(ctx'[next[k]]))
  /\ save' = [save EXCEPT ![k] = "none"]
  /\ last' = [last EXCEPT ![k] = NoThread]
  /\ next' = [next EXCEPT ![k] = NoThread]
  /\ UNCHANGED <<confVars, mypthread_count, current_kthread_count,
                 mypthread_sem, state, dep, queueVars, listVars, th, joinVars, tl>>

----------------------------------------------------------------------------
\* mypthread_exit, mypthread_yield, mypthread_self

\* A kernel thread that mykthread_get does not find dereferences NULL after
\* it decremented the count, and dies with mypthread_sem taken.
Exit(k) ==
  /\ CallingStarted(k, "exit")
  /\ mypthread_sem = 1
  /\ mypthread_count' = mypthread_count - 1
  /\ IF Registered(k)
     THEN /\ state' = UpdateWaiting(runq, [state EXCEPT ![th[k]] = "dead"], dep,
                                    th[k])
          /\ EnterScheduler(k, "none")
          /\ UNCHANGED mypthread_sem
     ELSE /\ Goto(k, "crashed")
          /\ mypthread_sem' = 0
          /\ UNCHANGED <<state, save>>
  /\ UNCHANGED <<confVars, current_kthread_count, dep, ctx, queueVars, listVars,
                 th, joinVars, last, next, tl>>

Yield(k) ==
  /\ CallingStarted(k, "yield")
  /\ IF Registered(k)
     THEN /\ mypthread_sem = 1
          /\ state' = [state EXCEPT ![th[k]] = "active"]
          /\ Enqueue(th[k])
          /\ EnterScheduler(k, "yielded")
     ELSE /\ Goto(k, "crashed")
          /\ UNCHANGED <<state, queueVars, save>>
  /\ UNCHANGED <<confVars, mypthread_count, current_kthread_count,
                 mypthread_sem, dep, ctx, listVars, th, joinVars, last, next, tl>>

Self(k) ==
  /\ CallingStarted(k, "self")
  /\ Goto(k, IF Registered(k) THEN "user" ELSE "crashed")
  /\ UNCHANGED <<confVars, mypthread_count, current_kthread_count,
                 mypthread_sem, threadVars, queueVars, listVars, th, joinVars,
                 schedVars, tl>>

----------------------------------------------------------------------------
\* mypthread_join

\* Under mypthread_sem: is the target in the run queue?
JoinLook(k, t) ==
  /\ CallingStarted(k, "join")
  /\ t # th[k] /\ state[t] # "unborn"
  /\ mypthread_sem = 1
  /\ target' = [target EXCEPT ![k] = t]
  /\ cur' = [cur EXCEPT ![k] = Registered(k)]
  /\ Goto(k, IF Contains(runq, t) THEN "join_found" ELSE "join_missing")
  /\ UNCHANGED <<confVars, mypthread_count, current_kthread_count,
                 mypthread_sem, threadVars, queueVars, listVars, th, schedVars, tl>>

JoinReturn(k) ==
  /\ Goto(k, "user")
  /\ target' = [target EXCEPT ![k] = NoThread]
  /\ cur' = [cur EXCEPT ![k] = FALSE]

\* (Bug) The test is the wrong way round.
JoinFoundInverted(k) ==
  /\ At(k, "join_found")
  /\ IF state[target[k]] = "dead"
     THEN Goto(k, "join_wait") /\ UNCHANGED joinVars
     ELSE JoinReturn(k)
  /\ UNCHANGED <<confVars, mypthread_count, current_kthread_count,
                 mypthread_sem, threadVars, queueVars, listVars, th, schedVars, tl>>

\* Found: its state is read without the semaphore.
JoinFound(k) ==
  /\ At(k, "join_found")
  /\ IF state[target[k]] = "dead"
     THEN JoinReturn(k)
     ELSE Goto(k, "join_wait") /\ UNCHANGED joinVars
  /\ UNCHANGED <<confVars, mypthread_count, current_kthread_count,
                 mypthread_sem, threadVars, queueVars, listVars, th, schedVars, tl>>

\* Not found: the kthread list is walked without kthread_sem (as one step).
JoinMissing(k) ==
  /\ At(k, "join_missing")
  /\ \/ /\ WalkFaults(klist, th, target[k], NoThread)
        /\ Goto(k, "crashed")
        /\ UNCHANGED joinVars
     \/ /\ IsRunning(klist, th, target[k], NoThread)
        /\ Goto(k, "join_wait")
        /\ UNCHANGED joinVars
     \/ /\ WalkEnd(klist, th, target[k], NoThread) = {}
        /\ JoinReturn(k)
  /\ UNCHANGED <<confVars, mypthread_count, current_kthread_count,
                 mypthread_sem, threadVars, queueVars, listVars, th, schedVars, tl>>

\* The caller becomes a waiting member of the run queue.
JoinWait(k) ==
  /\ At(k, "join_wait")
  /\ IF cur[k]
     THEN /\ mypthread_sem = 1
          /\ state' = [state EXCEPT ![th[k]] = "waiting"]
          /\ dep' = [dep EXCEPT ![th[k]] = target[k]]
          /\ Enqueue(th[k])
          /\ EnterScheduler(k, "joined")
          /\ target' = [target EXCEPT ![k] = NoThread]
          /\ cur' = [cur EXCEPT ![k] = FALSE]
     ELSE /\ Goto(k, "crashed")
          /\ UNCHANGED <<state, dep, queueVars, save, joinVars>>
  /\ UNCHANGED <<confVars, mypthread_count, current_kthread_count,
                 mypthread_sem, ctx, listVars, th, last, next, tl>>

----------------------------------------------------------------------------
\* A client call, the library's own steps, and the whole.

ClientCall(k) ==
  \/ \E t \in Threads : FirstCreate(k, t) \/ Create(k, t) \/ JoinLook(k, t)
  \/ Exit(k) \/ Yield(k)

LibraryStep(k) ==
  \/ CreateKthread(k)
  \/ \E n \in KThreads : Clone(k, n)
  \/ ReadTail(k) \/ LinkNode(k) \/ MoveTail(k)
  \/ SchedCheck(k) \/ SchedPick(k) \/ SetTh(k) \/ Switch(k)
  \/ JoinFound(k) \/ JoinMissing(k) \/ JoinWait(k)

Next ==
  \E k \in KThreads :
    \/ \E kt \in Policies : MypthreadInit(k, kt)
    \/ ClientCall(k)
    \/ Self(k)
    \/ LibraryStep(k)
    \/ CloneFailure(k)

Spec == Init /\ [][Next]_vars

\* Kernel threads are scheduled fairly, and a thread in client code makes its
\* next call eventually (the threads are cooperative: a thread that never
\* calls the library is never preempted by it).
Fairness ==
  \A k \in KThreads : WF_vars(LibraryStep(k)) /\ WF_vars(ClientCall(k))

FairSpec == Spec /\ Fairness

----------------------------------------------------------------------------
(***************************************************************************)
(* Properties.  They speak of executions up to the first undefined switch. *)
(***************************************************************************)

Pcs == {"unborn"} \cup BirthPcs \cup (UserPcs \ SyncPcs) \cup SchedPcs \cup EndPcs

\* Every variable has its type.
TypeOK ==
  /\ mypthread_policy \in AllPolicies
  /\ max_kthread_count \in Nat
  /\ mypthread_count \in Nat
  /\ current_kthread_count \in Nat
  /\ mypthread_sem \in {0, 1}
  /\ state \in [Threads -> {"unborn", "active", "running", "waiting", "dead"}]
  /\ dep \in [Threads -> Threads \cup {NoThread}]
  /\ ctx \in [Threads -> {"uninit", "start", "yielded", "joined"}]
  /\ runq \in Seq(Threads)
  /\ tail_ok \in BOOLEAN
  /\ klist \in Seq(KThreads)
  /\ ktail \in KThreads \cup {NoKThread}
  /\ pc \in [KThreads -> Pcs]
  /\ th \in [KThreads -> Threads \cup {NoThread}]
  /\ cur \in [KThreads -> BOOLEAN]
  /\ target \in [KThreads -> Threads \cup {NoThread}]
  /\ save \in [KThreads -> {"none", "yielded", "joined"}]
  /\ last \in [KThreads -> Threads \cup {NoThread}]
  /\ next \in [KThreads -> Threads \cup {NoThread}]
  /\ tl \in [KThreads -> KThreads \cup {NoKThread}]

Carries(k, t) == Executes(k, t) \/ Chose(k, t)

\* A thread is in at most one place from which it can run: one position of the
\* run queue, or one kernel thread that executes it or has chosen it.  And
\* whoever is in such a place has been created and has not exited.  (Enqueue
\* before the context is saved, two dequeuing kernel threads, and exits must
\* never make two carriers or revive a dead thread.)
OneCarrier ==
  /\ \A k1, k2 \in KThreads, t \in Threads :
       Carries(k1, t) /\ Carries(k2, t) => k1 = k2
  /\ \A i, j \in DOMAIN runq : runq[i] = runq[j] => i = j
  /\ \A t \in Threads : Contains(runq, t) =>
       t \in Live /\ \A k \in KThreads : ~Carries(k, t)
  /\ \A k \in KThreads, t \in Threads : Carries(k, t) =>
       t \in Live \/ (t = Main /\ klist = <<>>)

\* mypthread_count is the number of threads created and not exited, so the
\* scheduler's test for 0 sees the end of the last one; it is one less only
\* after an exit died with the semaphore taken.
CountMatches ==
  klist # <<>> => mypthread_count + (1 - mypthread_sem) = Cardinality(Live)

\* The number of kernel threads each policy allows, those in the making
\* included, whatever creates race for the last place.
KthreadBound ==
  LET inUse == {k \in KThreads : pc[k] # "unborn"}
      due   == {k \in KThreads : pc[k] = "clone"}
      bound == CASE mypthread_policy = "ULONLY" -> 1
                 [] mypthread_policy = "KLALWAYS" ->
                      Cardinality({t \in Threads : state[t] # "unborn"})
                 [] OTHER -> max_kthread_count
  IN Cardinality(inUse) + Cardinality(due) <= IF bound > 1 THEN bound ELSE 1

\* No live thread is lost: it is in the run queue or a kernel thread carries
\* it.  (What a dangling mypthread_q_tail breaks.)
NoThreadLost ==
  \A t \in Live : Contains(runq, t) \/ \E k \in KThreads : Carries(k, t)

\* A join returns only after the exit of the thread it joined, whether it
\* returns at once or is resumed.
JoinWaitsForExit ==
  [][\A k \in KThreads :
       /\ pc[k] \in {"join_found", "join_missing"} /\ pc'[k] = "user"
            => state[target[k]] = "dead"
       /\ pc[k] = "switch" /\ pc'[k] = "user" /\ ctx'[next[k]] = "joined"
            => state[dep[next[k]]] = "dead"]_vars

Runs(t) == \E k \in KThreads : pc[k] = "user" /\ th[k] = t

\* Every thread that waits in a join runs again: the exit of its target finds it,
\* since mypthread_exit wakes only whom it finds queued.
JoinersReleased == \A t \in Threads : state[t] = "waiting" ~> Runs(t)

\* Every runnable thread in the run queue gets to run, however long the
\* others go on yielding.
NoStarvation ==
  \A t \in Threads : (Contains(runq, t) /\ state[t] = "active") ~> Runs(t)

\* The comment of queue_util.c:164, ll_add "Adds mypthread_queue_node in the
\* linked list pointed by head": after an enqueue the run queue holds the
\* thread.
EnqueueReaches ==
  [][\A k \in KThreads :
       pc[k] # "sched_check" /\ pc'[k] = "sched_check" /\ save'[k] # "none"
         => Contains(runq', th[k])]_vars

\* The comments of mypthread.c:249 and 273, "Swap context to next runnable
\* thread": the context switched to is one that was saved, on a stack that
\* nobody uses.  It holds on one kernel thread; on two, a thread is in the run
\* queue before it has saved its context, and can be taken too early.
SwitchIsDefined == \A k \in KThreads : pc[k] # "undef"

=============================================================================
