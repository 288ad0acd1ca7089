# A verification project for the thread library and its clients

The repository holds a user-level thread library (`src/pthreads`), a file server
whose thread pool runs on it (`src/server`), and an earlier version of the
library (`src/hw1`). This directory models them and the sample programs in TLA+,
checks them with TLC on small instances and proves with TLAPS, for all sizes, the main
invariants of the scheduler, the mutexes, the pool, the server and the sort. All source references are to `src/`.

    tlc -config pool.cfg Threadpool        # one run: the cfg and its module
    tlapm Mypthread_proofs.tla             # the proofs

## 1. Inventory

| Part | State it keeps | Operations | Talks to |
|---|---|---|---|
| Scheduler and thread calls, `pthreads/mypthread.c` | per thread: `state`, `dependent_th`, `ctx`; the counts, the policy, `mypthread_sem`; per kernel thread: `th` | init, create, exit, yield, join, self, `mythread_scheduler`, `create_kthread`, `schedule_kthread` | queues, core counting; `clone`, `swapcontext` (external) |
| Run queue and kernel-thread list, `pthreads/queue_util.c` | two linked lists, each with head and tail | enqueue, dequeue of the first active thread, update of waiting threads, `ll_free`, `ll_free_one`, add/get/is_running on kernel threads | called by the library, partly under its semaphores |
| Mutexes, condition variables, `mypthread.c:310-449` | lock bit, one queue each, `mutex_sem`, `cond_sem` | lock, trylock, unlock, init, destroy; wait, signal, broadcast, init, destroy | scheduler, run queue |
| Core counting, `pthreads/utilities.c` | none | `get_cpu_cores`, `get_hyperthreads`, `gettid` | `lscpu` through `popen` |
| Thread pool, `server/threadpool.c` and `threadpool_pthread.c` | a linked task list with a counter; one mutex, one condition variable | create, the worker loop, dispatch, destroy | mutexes and condition variables |
| Message layer, `server/SocketLibrary/smessages.c` | per socket: the bytes of an incomplete message | receive, get next, send, handle, clean up | sockets |
| Socket helpers, `SocketLibrary/s*.c` | `serrno`, `sename` | bind, listen, accept, connect | sockets |
| File server and client, `server/server.c`, `server_io.c`, `client.c`, `common.c` | per connection: descriptors, the request and the response, how much of them has been moved | accept, dispatch, `request_client` (`correct_read`, process, `correct_write`, close); connect, request, answer | pool, sockets, files |
| First homework library, `hw1/` | circular run queue, thread numbers, policy | push, pop, create, init | `/proc/cpuinfo`, `clone` |
| Sample clients (`mtsort.c`, `mypthread_sample*.c`, `example_thread.c`) | their own | fork and join, yield loops, critical sections, monitors | the library |

How the parts meet: every call of the library finds its kernel thread by walking
the kernel-thread list (`mykthread_get(gettid())`) and leaves by the scheduler,
which takes the next thread off the run queue. A thread that waits or is blocked
stays *in* the run queue; its state keeps the dequeue from choosing it. A blocked
thread is also in the queue of its mutex or condition variable.

What is hard:

- several kernel threads run the library at once under four semaphores, and some
  accesses are outside all of them (`mykthread_add` of a new kernel thread, the
  walk in `is_running`, the window in which a thread is queued and its context is
  not yet saved, the window between dequeue and `th = next_active_th`);
- lists with a tail pointer that the dequeue never moves;
- joins that look, release the semaphore, and queue themselves later;
- the restart of `mutex_lock` on an empty stack when a blocked thread is woken;
- failures half-way: `clone` fails after the count was raised, `mykthread_get`
  returns NULL after the semaphore was taken;
- in the pool, the monitor around the task list, and a wait that ends for no reason;
- in the server, reads and writes of any part, connections that end at any time,
  descriptor numbers that are given again, and a descriptor read from an
  uninitialised variable;
- in the samples, flags and counters that are tested without the lock they are
  changed under, signals that may find nobody, and mutexes of overlapping pairs.

What makes each part correct: a thread has one carrier, is not lost, and runs
again; a join returns after the exit it waits for; the counts match what exists;
a mutex has one holder and no queued thread is forgotten; a notification finds
every waiter; semaphores are given back; a queued task is run once, in order; a
client gets its own answer or the end of its connection; the sort ends with its
list sorted, and the samples end with the counts they print.
`PROJECT.json` lists the hazards one by one, with the properties that watch them.

## 2. The modules

**QueueUtil** (`queue_util.c`). A list is the sequence its head pointer leads
through. The run queue's tail pointer is the bit `tail_ok`: does it point at the
last node of that walk? Where it does not, `ll_add` writes into a freed chunk and
the new node is not met from the head: `LlAdd` returns the old list. Abstracted:
the freed chunk may by then be a node of another list, which the write would alter.

**Mypthread** (`mypthread.c`, `utilities.c`). One action is one stretch of a
kernel thread's code between two points where another can get in: a `sem_wait`,
or an access to shared data that no semaphore covers. A critical section that no
step can leave half done is one action, enabled while its semaphore is free.
`pc[k]` is what kernel thread `k` executes next; `pc[k] = "user"` is client code.

| code | actions |
|---|---|
| `mypthread_init` | `MypthreadInit` (reads one *digit* of lscpu's answer) |
| `mypthread_create` | `FirstCreate`, `Create`, then `CreateKthread`, `Clone`, `CloneFailure` |
| `schedule_kthread` | `ReadTail`, `LinkNode`, `MoveTail` (`mykthread_add` without its semaphore) |
| `mythread_scheduler` | `SchedCheck`, `SchedPick`, `SetTh`, `Switch` |
| `mypthread_exit`, `yield`, `self` | `Exit`, `Yield`, `Self` |
| `mypthread_join` | `JoinLook`, then `JoinFound` or `JoinMissing`, then `JoinWait` |

A switch to a context nobody has saved, or onto a stack on which another kernel
thread's scheduler loop still runs, is undefined in C. The model sets that kernel
thread's `pc` to `"undef"` and stops: the properties speak of executions up to
there. A dereferenced NULL is `"crashed"`, with what the code left taken.

**MypthreadSync** EXTENDS Mypthread: mutexes and condition variables, at the same
grain. `LockFromBlocked` is the fresh `mutex_lock` of a woken thread, whose return
has nowhere to go. **AbstractMutex** is what a mutex promises: it is taken only when
nobody has it, and released only by a step of its holder. The ghosts `owner` (whose
call got the mutex) and `actor` (whose call last got or released one) map to its
variables, so that a release in another thread's call would be no step of it. The ghost
`waits` counts a thread among a condition variable's waiters from the moment its
`cond_wait` has released the mutex, which is before the code queues it.

**Threadpool** (`threadpool.c`, `threadpool_pthread.c`): the pool, with the links of
the task list, in three builds: on mypthreads with one kernel thread ("ulonly") or with
several ("mypthread"), and on pthreads. They differ in the wait, and in what a lock
does that finds the mutex taken. On pthreads it waits. In the library the thread blocks
(`Block`) and, once an unlock has woken it, runs `mutex_lock` from an empty stack, gets
the mutex and is gone with it (`Restart`; main, whose context may be unsaved, may
instead go anywhere). With one kernel thread nobody finds it taken: `turn` keeps a
thread running until it gives way, which none does with the mutex. That a mutex has one
holder and that no notification falls between `cond_wait`'s release and its queueing
is taken from MypthreadSync. **AbstractPool** is what a pool promises: tasks are
started once, first come first served.

**Smessages** (`smessages.c`): the one list of complete and incomplete messages of
all sockets. Peers send strings with their null byte, or what one write takes of
them; `ReadBytes` is a read of any size and the splitting after it (`Split`, which
walks over the bytes as the code does, and `Handle`), `ReadEOF` the end of a connection with `CleanList`, and `Counted`,
`GetNext`, `EmptyIncoming` what the three callers of `incoming_messages` do when
nothing more is ready. Socket numbers are used again (`Reconnect`). The ghosts say
what was sent on the connection, what the program took off the list, and what of
earlier connections the list still held.

**PthreadCalls** is what the samples' calls do to them, under a `policy`: mypthread on
one kernel thread ("ULONLY"), mypthread on several ("KLALWAYS" stands for the other
policies), or the system's pthreads ("pthread"). Of mypthread it keeps three things that
pthreads do not do: a contended lock (`BlockAt`), also the one at the end of a wait,
restarts on an empty stack and never comes back (`RestartAt`), its mutex then held for
ever; a trylock that fails keeps `mutex_sem`, so that the next mutex call of anybody
waits for ever (`TryLockAt`); and under ULONLY the thread that runs goes on until it gives
way (`turn`). The queues behind the mutexes are the matter of MypthreadSync. On it:

- **MtSort** (`mtsort.c`): one action per access to the list, the flag or a mutex;
  `fnsort`, `fncheck` and `main` with their loop variables, under both policies of
  mypthread. Every mutex is `Raw`, free, held or `Destroyed`.
- **Samples**: `mypthread_sample4.c` (`thread_function`), `mypthread_sample5.c`
  (`functionCount1`, `functionCount2`), under every policy, as `pthread_sample4.c` and
  `pthread_sample5.c` are the same programs on pthreads; and `example_thread.c`
  (`do_pingpong`), which exists on pthreads only. An increment is a read and a write.
- **MCSamples** starts one of the programs.

**SocketLib** (`SocketLibrary`): `sconnect`, `slisten` and `saccept` by their
outcomes: which of their steps can fail, and whether a socket stays open then.

**Server** (`server.c`, `server_io.c`, `common.c`, `client.c`): the accept loop
(`SetupListen`, `Accept`, `AcceptFails`), the pool as AbstractPool promises it
(Threadpool implements that), a worker's way through `request_client`, with one
action per `read` and `write`, and clients that connect, ask and read. `file` says
which connection a descriptor is at the moment. `StartTask` takes *any* number for
`socket_talk`, which the code reads from itself uninitialised (`server.c:40`); the
ghost `lucky` tells whether all of them happened to be the dispatched ones.
`prog` chooses the server; in that of `server_io.c` a request may end the process
(`FileMissing`, `FreesLocal`). Bytes carry the connection and place they are from.

**Hw1Queue** (`hw1/mypthread.c`, `mypthread_queue.c`, `kernelthreadcount.c`): the
ring with `front`, `rear` and `next`, on nodes that `malloc` gives out again, and
the creates, numbers and policies above it. `program` chooses between the library
and the queue's test program.

**MCSmessages**: the messages of Smessages. **MCMypthread**, **MCMypthreadSync**: which calls each thread of the client may
make, and symmetry sets. The modules whose names end in **_proofs**: section 5.

*Client discipline.* Main creates a thread before any other call (before that the
semaphores do not exist), threads end with `mypthread_exit`, nobody joins itself,
and a thread unlocks, or waits with, a mutex it holds; it does not lock it twice nor
exit with it; destroy finds mutexes unlocked and conditions without waiters. Within
that, any order of the calls in `Calls`.

Definitions marked `(Bug)` are altered copies of the definition next to them. No
specification uses them; they are there to be put in its place and show that a
property notices.

## 3. The runs

| run | instance | shows |
|---|---|---|
| `ulonly_forkjoin` | 1 kernel thread, 4 threads, any `dependent_th` | `NoThreadLost`, `JoinWaitsForExit`, `JoinersReleased`: fork and join as in the samples is right on one kernel thread, though `dependent_th` is never initialised |
| `ulonly_yield` | 1 kernel thread, 4 threads that create, yield, exit | `NoStarvation`: first come, first served, whoever yields; `SwitchIsDefined`: only saved contexts are resumed |
| `klmatch_all` | 3 kernel threads, 4 threads that all create, `KLMATCHHYPER` and `KLALWAYS`, failing clone | `TypeOK`, `OneCarrier`, `CountMatches`; `KthreadBound`, also when creates on two kernel threads race for the last place |
| `sync_klmatch` | 2 kernel threads, 3 threads, all calls, failing trylock included | `SyncTypeOK`, `BlockedOnHeldMutex`, `BlockedIsListed`; `WaitBeforeNotify`: a notifier finds whoever has released its mutex in a wait; `ImplementsMutex`: taken when free, released by the holder's calls only |
| `sync_monitor` | 3 threads, one monitor, on 1 and on 2 kernel threads | `SemsReleased`: no cyclic wait among the semaphores; `WokenRuns`: on one kernel thread, whom a signal or broadcast wakes runs again |
| `pool` | three builds, 2 workers, 2 clients, 3 tasks | `PoolTypeOK`, `ImplementsPool` in every build, also where threads are lost; `QueuedRuns` on one kernel thread |
| `messages` | 2 sockets, 4 messages, reads of 1 to 3 bytes, one reused number | `SmTypeOK`, `NothingLost`, `IncompleteIsLast`, `CompleteIsEnded`: every cut of the streams is put together again |
| `samples` | mtsort on 4 elements, on one and on several kernel threads; 3 threads of sample 4 and the two of sample 5 on these and on pthreads; pingpong with its own numbers, one spurious wake-up | `TypesOK` (no step uses a destroyed mutex), `ListIsPermutation`, `QuitIsSorted`; `SortEnds` on one kernel thread; `HaltsBetween`; `BothCountersEnd` on one kernel thread and on pthreads; `CountEnds`: sample 4 counts every thread once, sample 5 passes its end by one at most; `TurnsAlternate`, `BothPlayersLeave` |
| `server` | both servers, 2 workers, 2 clients, 2 connections in all, 2 descriptors, 3 bytes | `ServerTypeOK` (with it: a client that goes on has one socket); `AnswerIsOwn`, `WorkerHasConnection`, `DoneIsClosed`, `ClientGoesOn` while `lucky` |
| `hw1queue` | 4 nodes, 4 threads, main | `Hw1TypeOK`; `RingIntact`, `QueueIsFifo`: empty, full and the last element are told apart |
| `thread_lost` | 1 kernel thread, 2 threads | violates `EnqueueReaches`: join, yield, yield leave the tail dangling |
| `lock_lost` | 1 kernel thread, 2 threads | violates `HolderGoesOn`: a woken thread gets the mutex and ends |

*Bounds.* Four threads on one kernel thread put a waiting, an active and an
exiting thread in the queue at once, with one more behind them, which is what the
dequeue and the update of waiting threads distinguish. Three kernel threads are the
fewest where two *new* ones register at once, so that a node is cut off and one of
them runs unregistered; two are enough for every window between two steps of a
call. Three threads on one mutex give a holder, a blocked thread and one between
its test and its queueing. Two workers and three tasks let the list go through
empty, one and several elements while a worker waits, and two clients let pushes
interleave. Four messages on two sockets give the list a foreign head, two messages
of one socket behind it (what `clean_list` stumbles over), and one more for the new
connection; three bytes of a read take a whole message, its null byte included, or
the end of one and the start of the next. `MaxSends` and `MaxReconnects` bound
that module. Four elements give the sort two pairs that share no place and one
that overlaps both. In the server two descriptors let a number be given again to
the second connection, of the same client or the other, while the other worker is
still busy, and three bytes are split in every way, with one byte that the
processing leaves in its place and two that it moves; a fourth, which only
`server_io.c` may send, outlives its reader; `MaxConns`
bounds the connections. Four nodes let the ring grow to main and three
threads, shrink to its last element and be rebuilt from freed nodes; `MaxCount`
bounds its creates. One spurious wake-up (`spurious`) is enough to
repeat a test. Nothing in the library's modules is cut off by a bound in a guard: a thread record
is created once, each task is dispatched once, and the kernel threads that `clone`
may return are those of `KThreads`. That set is a bound in one case: in `klmatch_all`, with
`KLALWAYS`, a third create would make a fourth kernel thread, and its clone fails or
never returns there (the theorems of section 5 have no such bound). The fourth thread
is there for creates that race: when main and a worker create at once, each on its own
kernel thread, one of `KLMATCHHYPER`'s three places is left.

`CHECK_DEADLOCK FALSE` but in `samples`, where a thread that waits for ever is an
error, unless mypthread on several kernel threads has lost a lock (`Lost`): elsewhere a program ends, a kernel thread that finds no
runnable thread sleeps, an undefined switch stops the model, a pool may have
nothing to do, and a server may be dead. Symmetry is used only where no liveness is checked.

*Fairness.* Kernel threads are scheduled by the operating system: weak fairness of
each one's library steps and calls. Threads are cooperative, so that a thread in
client code calls the library eventually is an assumption about the client (weak
fairness of `ClientCall`; init and self are not in it). A client of a mutex could
lock and unlock for ever without giving way; `SyncFairSpec` assumes that one which
again and again can give way does (strong fairness of `GivesWay`). In the pool,
every thread runs (`NoStarvation`) and a called task returns; a client outside the pool
gives way; dispatches, spurious wake-ups and
destroys need not happen. There `QueuedRuns` begins where the task is in the list,
not at the call of dispatch. That the scheduler serves every thread is an
assumption, and a real one: with clients that both join and yield while workers wait,
the run queue may lose a thread (the run `thread_lost`).

In the samples every thread that can go on does (weak fairness); under `ULONLY`, where the run queue
is first come, first served (`NoStarvation`), a thread gets its turn again and again
(strong fairness of `TakesTurn`). In the server, accept takes a
connection that waits, and workers and clients go on; errors of reads, writes and
calls need not happen, and a connect need not succeed.

`SemsReleased` has no trylock in its client (see below), and at most two kernel threads:
with three, a lost registration lets `mutex_lock` die with `mutex_sem` taken.

## 4. Where the code and its comments part

The two violation runs above have their findings in `PROJECT.json`. Others are in
the models as the code has them, and were met on the way:

- yield, join and cond_wait make a thread available in the run queue before its
  context is saved (`mypthread.c:247`): with two kernel threads the other one may
  resume a stale context, on a stack in use (`SwitchIsDefined` holds on one);
- `threadpool_pthread.c:63` unlocks and only then waits: a dispatch in between
  signals to nobody, and its task stays queued while the workers sleep
  (`QueuedRuns`, stated for one kernel thread of mypthread, fails on pthreads);
- with several kernel threads of mypthread a worker that finds the pool's mutex taken,
  in its lock or in the lock at the end of `cond_wait` (`mypthread.c:447`), ends with the
  mutex (`mypthread.c:351`, the run `lock_lost`): no task is run after that
  (`QueuedRuns` fails there). The same happens to sample 5 and to the checker of the
  sort (`BothCountersEnd` and `SortEnds` fail there);
- a failed trylock of the sort (`mtsort.c:46`) keeps `mutex_sem` (`mypthread.c:377`), and the
  unlock that follows (`mtsort.c:47`) waits for ever: with several kernel threads
  the sort need not end;
- `sconnect.c:9-11` says that it "perror()s and exits" on errors; it returns -1, and
  leaves the socket of a failed bind or connect open (`slisten` likewise);
- `request_client` initialises `socket_talk` with itself and never reads its
  argument (`server.c:40`, `server_io.c:34`). With another number than the
  dispatched one, `AnswerIsOwn`, `WorkerHasConnection`, `DoneIsClosed` and `ClientGoesOn`
  all fail: a worker serves another's connection, or none;
- `server_io.c:178` returns a local array, whose length nobody sets and which
  is freed at line 57;
- `server.c:4` and `server_io.c:4` call the server single-threaded; it has a pool;
- the threads of `example_thread.c` change `threads_left` without a lock, and main may
  find 0 before they have started, or never;
- in `hw1/mypthread.c`, `no_of_kt` is never incremented, so a policy that clones does so
  with every create (lines 130-133 promise a limit), main and the first thread have
  number 1 both, `pop_thread` returns unwritten memory when one element is left, and
  `pid`, `threadFunction` and `stack` are not declared: the file does not compile;
- `hw1/kernelthreadcount.c` divides by a core count (line 34) that is unset when the
  file cannot be read, and 0 when no line of it names the cores;
- join decides to wait, releases the semaphore and queues itself later
  (`mypthread.c:264-292`): an exit in between, on another kernel thread, does not
  find it, and nobody wakes it (`JoinersReleased` holds on one kernel thread);
- with two kernel threads a join can return early: between the dequeue and
  `th = next_active_th` (`mypthread.c:131-135`) its target is in neither list;
- an idle kernel thread's `th` still names the thread that exited on it, so
  `mykthread_is_running` may find an exited thread, and the join waits for it;
- two kernel threads that register at once lose one of the nodes
  (`mypthread.c:109`), and the lost one crashes in its next call;
- `utilities.c:20` reads one digit: a machine with 12 cores counts as 1;
- an exit makes active whoever in the queue has its number in `dependent_th`, also
  a thread blocked on a mutex (`queue_util.c:86`);
- dispatch compares the addresses of two fields (`threadpool.c:148`) and so never
  blocks, while `threadpool.h:36` says it does when all workers are busy;
- a null byte at the start of a read is skipped, also when it ends the message
  whose text the read before delivered: that message is joined with the next one
  (`smessages.c:84`), and marked "whole message captured" (`smessages.c:25`);
- `clean_list` may leave messages of a closed connection, which a new one with the
  same number gets (`smessages.c:256-264`; the ghost `left` accounts for them);
- `empty_incoming_messages` goes on from a pointer nobody set, or to an element it has just
  freed, when the list holds messages of other sockets (`smessages.c:380-397`);
- a mutex, condition or yield call before the first create waits on semaphores that nobody
  has initialised, and an idle kernel thread sleeps 1000 seconds before it looks again;
- `destroy_threadpool` tells no worker, while `threadpool.h:51` says that they end.

## 5. The proofs

Every theorem below holds for all values of the constants that satisfy the named
assumption of its module (`ConstantsAssumption`, `SyncAssumption`, `PoolAssumption`,
`SortAssumption`, `ServerAssumption`, `Hw1Assumption`, `SmAssumption`: finite sets, null values outside them, a list
or a buffer of at least one element). TLC has checked every inductive invariant on
the runs' instances before its proof.

| module | theorems |
|---|---|
| `Mypthread_proofs` | `TypeCorrect`, `OneCarrierHolds`, `CountIsExact`, `KthreadsBounded`; of the policy ULONLY `UlonlyIsDefined`; of its fork-join client `NobodyLost` and `JoinIsRight` |
| `MypthreadSync_proofs` | `SyncTypeCorrect`, `BlockedListed`, `BlockedOnHeld`, `WaitFirst`, `MutexImplemented` (a refinement) |
| `Threadpool_proofs` | `PoolTypeCorrect`, `PoolKeepsPromise` (a refinement) |
| `Server_proofs` | `ServerTypeCorrect`, `ConnectionKept`, `DoneClosed`, `OwnAnswer` |
| `Smessages_proofs` | `SmTypeCorrect`, `NothingIsLost`, `IncompleteLast`, `CompleteEnded` |
| `Samples_proofs` | `TypesCorrect`; of the sort `PermutationHolds`, `QuitSorted`; of the counting samples `HaltsOnce`, `CountExact`, `TurnsTaken` |
| `Hw1Queue_proofs` | `Hw1TypeCorrect`, `RingHolds`, `FifoHolds` |
| `QueueUtil_proofs` | what the list operators return and keep; induction over the naturals |

None of the properties is inductive alone; what each proof had to add says why
the code is right.

**The scheduler.** `IInv` is the conjunction of the types (`Typed`) and of `Safe`:

- `OneCarrier` itself;
- `Savers`: a thread whose context a scheduler loop is still to save is alive, no
  kernel thread executes it, and one loop only saves it. A yield queues its thread
  before that save, so another kernel thread may choose it meanwhile; a switch must
  not start it while the save is due;
- `CountMatches`, and `Leaked`: if the semaphore is 0 after the start, an exit died
  with it, and there is a live thread that is neither queued nor carried. The
  scheduler returns to its caller, and create starts over, only when the count is 0:
  the two show that a thread that still runs is then always counted;
- `Beginning`: until the first create nothing exists but main on `K0`, which is in
  client code while its state is still "unborn".

`KthreadsBounded` rests on `KthreadsCounted`: the kernel threads that run, with those
that are due at a clone, are at most `current_kthread_count`, which in turn stays
within `max_kthread_count`, or, with KLALWAYS and counting the creates that have not
counted theirs yet (`Making`), within the threads created. That no create overtakes
another between test and count is what the invariant says of `Making`.

The other three hold under a hypothesis on the constants that their statements name,
because without it they are false. `UlonlyIsDefined` assumes that the clients ask for the
policy ULONLY only (a comment in section 4 says what two kernel threads do), and
nothing of their calls: `OneKthread` says that `K0` alone moves, and `Resumable` that
whoever is queued or chosen has a saved context, or will have by the switch.
`NobodyLost` and `JoinIsRight` assume `ForkJoinClient` besides: main inits, creates, joins and
exits, the others only exit, which is the client of the run `ulonly_forkjoin` with any number
of threads. (The run `thread_lost` shows that another client loses threads.) The
argument is `InTurn`: main waits behind everybody else, so the dequeue always takes
the first node, and `mypthread_q_tail` stays good; and `MainJoins`: what main has found of
its target is still so when it acts on it.

**Mutexes and condition variables.** `SyncIInv` does not contain `OneCarrier`, which
fails here: a thread that exits while a stale `dependent_th` has left it in a
mutex's list is made active by the unlock. `Alone` says without states that no two
kernel threads execute one thread, and `Counted` that `mypthread_count` is at
least the number of threads that can come to run (so that nobody finds the scheduler's
loop ended while another still runs). With these, whoever unlocks is who locked
(`OwnerLocks`), and `BlockedOnHeldMutex` and `BlockedIsListed` carry each other through
the window of a lock between its test and its queueing, and through the restart of a
woken thread.

`MutexImplemented` rests on two facts beside it. `HolderIsOwner`: the abstract
holder is the ghost `owner`. `OwnerStep`: a step that changes the owner of a mutex is
either the getting of a free one by the acting thread, or a release by the acting
thread, which is its owner. In an unlock the client's discipline says so; in the
release inside a `cond_wait` it is `CondCalls` that keeps the caller the owner from
the call, through the semaphore, to the release. `WaitFirst` rests on
`GhostsOK`: by `WaitsListed`, a thread that has released its mutex in a `cond_wait` and
is not in the condition's queue is the one whose call holds `cond_sem`, which a notifier needs.

**The pool.** `Chain` relates the two ends, the links and the counter: the list is
what `Walk` follows, without repetition, and its last element is the rear.
`Exclusive` gives the critical sections to the holder of the mutex, `TakesOne` says
that a worker's test still holds when it takes, `OnceEach` that a task is with one
client, in the list once, with one worker, or done; up to the first data race of the
"pthread" build, or switch of the "mypthread" build, that is undefined (`Undefined`).
The blocks and restarts of a lock (`Detour`) touch nothing of the list: a restarted lock gives the
mutex to a thread that never opens it, and `Exclusive` has nothing to say of one that is gone.
From it every step is a step of AbstractPool, or none.
`PoolTypeCorrect` needs the tasks to be finitely many, for a cardinality in `PoolTypeOK`;
`PoolAssumption` says that workers and clients are different threads.

**The server.** `Places`: a connection the server has is at one place, waiting for
accept, in the pool's queue, with one worker, or done. From it follows `Files`: no two
of them have the same number, though closed numbers are given again. `Requests` and
`Answers`: what is in a buffer and what is on its way are consecutive pieces of one
message, however it is cut. Both are stated while `lucky` holds, as the properties are;
`Types` and `Bounds` always.

**The message layer.** `SmInv` says, besides the types, that of a socket's elements
only the last can be incomplete (`LastIncomplete`), that a connection known to be gone
has no byte on its way (`GoneIsRead`), and `Balanced`: what was sent on a connection is
what was read of it and then what is on its way, and what was read is, without its null
bytes, the text of the elements given out and of those in the list, behind what earlier
connections left; each complete one ends at a null byte (`Accounts`, `Ends`). The lemmas
say what an operation does to one socket's elements, which the list mixes with the others':
`HandleAdds` that a piece is added to the last or behind it, `SplitAdds` that after each
byte the text has grown by what was walked over, `TakeKeeps`, `DropHeadKeeps` and
`CleanKeeps` what the three ways of removing leave. `CleanKeeps` says nothing
of the closed connection's own elements, since `clean_list` may leave some.

**The sort.** `Lifetimes`: a mutex is used after it was initialised and before it is
destroyed. `Ownership`: who holds which of the overlapping pairs of mutexes.
`Exchanging`: what a sorter has compared stays so until its exchange is done.
`Truthful`: the checker has found the places behind it in order, and once the flag is
set no exchange is under way and none starts. By it a list that is sorted when the
flag is read stays sorted.

**The counting samples.** `Holding` says at which labels who has which mutex, and `Fresh`
that what was read to be incremented is still the count. `Counting`: the count of sample
4 is the number of those who have counted. `Ending`: sample 5's count passes
`CountDone - 1` only by the threads that have incremented and not tested since.
`Halting`: while the count is between the marks, a first thread past its test tested
before the first mark, and has not yet incremented between them. `Turning`: in the
ping-pong, who is a round ahead waits, and only the other's next round wakes it; its last
signal, which is no round, finds nobody ahead, as the loops have ended by then.
`RunIInv` joins these with the sort's invariant, as one of the programs runs; the
books of the calls (`CallsOK`: `mutex_sem` and `blocked`) are kept beside it, as no
other part needs them. Under mypthread every lock has two ways to go: `BlockKeeps` and
`RestartKeeps` show that a thread that leaves the program in a lock takes none of these
invariants with it, since `Holding` lets a mutex be held by one that is gone.

**The first homework.** That `Walk` comes back to the front does not say where each link
leads. `RingThere` names the sequence of the ring's nodes (`IsRing`); a push appends to
it and a pop takes its tail, whichever freed node is used again, and `WalkMeetsNodes`
reads the sequence off the links. `EmptyAtFirst`: the ring is empty until the first
create, which may therefore push main first. `Hw1Assumption` wants `MaxCount`, the bound
on the threads created, to be at least 2, as the first create counts main as well.

*Lists and recursion.* `QueueUtil_proofs` has the facts on lists: an enqueue adds one
position or none, `Unlink` removes exactly one, the dequeue returns an active member.
Its `SetInduction` (a set that holds 0 and the successor of each of its numbers
holds all of them, from WellFoundedInduction) takes a set where the library's theorem
takes a predicate; with it Threadpool_proofs and Hw1Queue_proofs show what their
recursive functions `Walk` return (`WalkUnique`, `WalkSteps`). A recursive function is a
CHOOSE, of which nothing is known until there is a function that satisfies its
definition: `Recursion` in Smessages_proofs finds one for any sequence of steps, and
`AtSteps`, `FlatSteps`, `SplitSteps` and `DropSteps` read the definitions of Smessages,
and of the library's fold, off it.

Every invariant and action property of a passing run is the subject of a theorem.

*Only model-checked*: liveness and what needs `ENABLED`, out of the prover's reach
(`JoinersReleased`, `NoStarvation`, `SemsReleased`, `WokenRuns`, `QueuedRuns`, `SortEnds`,
`BothCountersEnd`, `BothPlayersLeave`, `ClientGoesOn`); for
clients other than fork-join, `NoThreadLost` and `JoinWaitsForExit` on the runs that check them.

## 6. Not modelled

- the heap below the lists (a freed node that another list reuses), and
  `mykthread_update`, which nothing calls;
- client stacks, beyond where a context resumes; running out of memory;
- that the sleeping kernel threads of `mythread_scheduler` never look for the end
  of the program again;
- what the samples and servers print, the timing in `server.c`, and the checks of
  arguments; samples 1 to 3 and the performance program, whose calls are among those
  of the library's clients (section 2);
- `serrno`, `sename` and `sperror`, which no program reads; `test_accept` and
  `sportnum`, which none calls;
- errors of mutex calls in `example_thread.c`, and threads whose creation fails there;
- what a kernel thread of the first homework runs: the function is not in the source.

## 7. Plan

1. *Done*: QueueUtil, Mypthread, MypthreadSync with AbstractMutex, Threadpool with
   AbstractPool; their runs; type correctness, one carrier and the exact count proved.
   Smessages, its run and its theorems.
   PthreadCalls, MtSort, Samples, SocketLib, Server and Hw1Queue with their runs.
2. For Smessages, an abstract specification (a stream of text with the ends
   of messages) in place of the ghosts; for Server, one of a client's exchange.
3. `QueueHeap`: the run queue with nodes, next pointers and a free list, shown to
   implement QueueUtil while the tail is good.
