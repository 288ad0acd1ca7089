------------------------------ MODULE Samples ------------------------------
(***************************************************************************)
(* Three programs that count together:                                     *)
(*   "sample4"  pthreads/mypthread_sample4.c (and 3, with two threads):    *)
(*              threads increment a counter under a mutex, main joins;     *)
(*   "sample5"  pthreads/mypthread_sample5.c: the first thread waits while *)
(*              the count is between two marks, the second signals;        *)
(*   "pingpong" server/example_thread.c: two threads hand each other the   *)
(*              turn by signals, main polls the number of threads left.    *)
(* The first two exist on mypthread and, with the same calls, on the       *)
(* system's pthreads (pthread_sample4.c, pthread_sample5.c); the last on   *)
(* pthreads only.                                                          *)
(***************************************************************************)
EXTENDS PthreadCalls, FiniteSets

CONSTANTS Threads, First, Second,
          CountHalt1, CountHalt2, CountDone, Rounds

\* Both marks are passed before the end, by more than the signaller's last step.
ASSUME SamplesAssumption ==
  /\ IsFiniteSet(Threads) /\ {First, Second} \subseteq Threads /\ First # Second
  /\ MainThread \notin Threads /\ Nobody \notin Threads
  /\ {CountHalt1, CountHalt2, CountDone, Rounds} \subseteq Nat
  /\ CountHalt1 <= CountHalt2 /\ CountHalt2 + 1 < CountDone

VARIABLES
  count,     \* counter, count or threads_left: incremented in two steps
  reg,       \* the value a thread has read to increment or decrement
  rounds,    \* pingpong: each thread's local count
  late,      \* ghost: increments of sample5's first thread between the marks
  spurious   \* ghost: a wait has returned without a signal

samplesVars == <<count, reg, rounds, late, spurious>>
ghosts == <<late, spurious>>

SamplesData ==
  /\ count = 0 /\ late = 0 /\ spurious = FALSE
  /\ reg = [t \in Threads |-> 0]
  /\ rounds = [t \in Threads |-> 0]

Players(p) == IF p = "sample4" THEN Threads ELSE {First, Second}

SamplesStart ==
  /\ program \in {"sample4", "sample5", "pingpong"} /\ policy \in Policies
  /\ program = "pingpong" => policy = "pthread"
  /\ pc = [t \in Players(program) \cup {MainThread} |->
             IF t = MainThread THEN "create" ELSE "unborn"]
  /\ holder = [m \in {"count_mutex", "condition_mutex"} |-> Nobody]

----------------------------------------------------------------------------
\* Steps that the programs share.

Between == CountHalt1 <= count /\ count <= CountHalt2

\* count++ and count-- : a read, then a write.
Read(t, from, to) ==
  /\ MoveAt(t, from, to)
  /\ reg' = [reg EXCEPT ![t] = count]
  /\ UNCHANGED <<asleep, count, rounds, ghosts>>

Write(t, from, by, to) ==
  /\ MoveAt(t, from, to)
  /\ count' = reg[t] + by
  /\ late' = late + IF program = "sample5" /\ t = First /\ Between THEN 1 ELSE 0
  /\ UNCHANGED <<asleep, reg, rounds, spurious>>

\* Steps that change no data.
Quietly(step) == step /\ UNCHANGED <<asleep, samplesVars>>

\* Main creates the threads, in any order, then goes on.
MainCreates(to) ==
  LET unborn == {t \in Players(program) : At(t, "unborn")} IN
  /\ At(MainThread, "create")
  /\ \/ \E t \in unborn : Goto(t, "start")
     \/ unborn = {} /\ Goto(MainThread, to)
  /\ UNCHANGED <<holder, mutex_sem, blocked>>

MainJoins ==
  /\ \A t \in Players(program) : At(t, "done")
  /\ MoveAt(MainThread, "join", "done")

MainJoinsAll == Quietly(MainCreates("join") \/ MainJoins)

----------------------------------------------------------------------------
\* sample4

thread_function(t) ==
  \/ Quietly(LockAt(t, "start", "count_mutex", "read"))
  \/ Read(t, "read", "write")
  \/ Write(t, "write", 1, "unlock")
  \/ Quietly(UnlockAt(t, "unlock", "count_mutex", "done") \/ RestartAt(t))

----------------------------------------------------------------------------
\* sample5.  The count changes under count_mutex; the wait and the signal go
\* with condition_mutex, and the tests of lines 59 and 79 with none.

\* (Bug) if instead of while: the test is not repeated after the wait.
WaitIfBetween(t) ==
  \/ /\ Between /\ SleepAt(t, "test", "condition_mutex")
     /\ UNCHANGED samplesVars
  \/ WakeAt(t, "condition_mutex", "unlock") /\ UNCHANGED samplesVars
  \/ ~Between /\ Quietly(MoveAt(t, "test", "unlock"))

\* (Bug) The wait is left out: the thread spins with the mutex.
SpinWhileBetween(t) ==
  Quietly(MoveAt(t, "test", IF Between THEN "test" ELSE "unlock"))

WaitWhileBetween(t) ==
  \/ /\ Between /\ SleepAt(t, "test", "condition_mutex")
     /\ UNCHANGED samplesVars
  \/ WakeAt(t, "condition_mutex", "test") /\ UNCHANGED samplesVars
  \/ ~Between /\ Quietly(MoveAt(t, "test", "unlock"))

SignalOutside(t) ==
  /\ MoveAt(t, "test", "unlock")
  /\ IF ~Between THEN Signal ELSE UNCHANGED asleep
  /\ UNCHANGED samplesVars

\* (Bug) Only the exact number ends the loop.
EndWhenEqual(t) == MoveAt(t, "end", IF count = CountDone THEN "done" ELSE "start")

EndWhenDone(t) == MoveAt(t, "end", IF count >= CountDone THEN "done" ELSE "start")

\* What the loops of functionCount1 and functionCount2 have in common.
CountRound(t) ==
  \/ Quietly(\/ LockAt(t, "start", "condition_mutex", "test")
             \/ UnlockAt(t, "unlock", "condition_mutex", "lock")
             \/ LockAt(t, "lock", "count_mutex", "read")
             \/ UnlockAt(t, "unlock2", "count_mutex", "end")
             \/ EndWhenDone(t) \/ RestartAt(t))
  \/ Read(t, "read", "write")
  \/ Write(t, "write", 1, "unlock2")

functionCount1 == CountRound(First) \/ WaitWhileBetween(First)
functionCount2 == CountRound(Second) \/ SignalOutside(Second)

----------------------------------------------------------------------------
\* pingpong.  threads_left changes without any lock.

\* (Bug) The loop goes on with the mutex held, without the wait.
HelloAgain(t) ==
  /\ rounds[t] < Rounds
  /\ MoveAt(t, "hello", "hello")
  /\ rounds' = [rounds EXCEPT ![t] = @ + 1]
  /\ Signal
  /\ UNCHANGED <<count, reg, ghosts>>

\* The loop's test, the greeting and the signal.
Hello(t) ==
  /\ rounds[t] < Rounds
  /\ MoveAt(t, "hello", "wait")
  /\ rounds' = [rounds EXCEPT ![t] = @ + 1]
  /\ Signal
  /\ UNCHANGED <<count, reg, ghosts>>

\* (Bug) The last signal is missing.
LeaveSilently(t) == Quietly(MoveAt(t, "signal", "done"))

\* The signal that lets the other thread out of its last wait.
Leave(t) ==
  /\ MoveAt(t, "signal", "done")
  /\ Signal
  /\ UNCHANGED samplesVars

do_pingpong(t) ==
  \/ Read(t, "start", "born") \/ Write(t, "born", 1, "lock")
  \/ Hello(t)
  \/ SleepAt(t, "wait", "condition_mutex") /\ UNCHANGED samplesVars
  \/ WakeAt(t, "condition_mutex", "hello") /\ UNCHANGED samplesVars
  \/ Quietly(\/ LockAt(t, "lock", "condition_mutex", "hello")
             \/ rounds[t] = Rounds /\ MoveAt(t, "hello", "unlock")
             \/ UnlockAt(t, "unlock", "condition_mutex", "dying"))
  \/ Read(t, "dying", "dead") \/ Write(t, "dead", -1, "signal")
  \/ Leave(t)

\* Main sleeps, looks, and ends the program when nobody is left.
MainPolls ==
  Quietly(\/ MainCreates("poll")
          \/ count = 0 /\ MoveAt(MainThread, "poll", "exited"))

----------------------------------------------------------------------------
\* POSIX lets a wait return without a signal.  Once in a run: a bound.
SpuriousWake ==
  /\ policy = "pthread" /\ ~spurious
  /\ \E t \in asleep : asleep' = asleep \ {t}
  /\ spurious' = TRUE
  /\ UNCHANGED <<program, policy, turn, pc, holder, mutex_sem, blocked, count, reg, rounds, late>>

SamplesStep(t) ==
  /\ MayRun(t)
  /\ \/ /\ program \in {"sample4", "sample5"}
        /\ t = MainThread /\ MainJoinsAll
     \/ program = "sample4" /\ t \in Threads /\ thread_function(t)
     \/ program = "sample5" /\ t = First /\ functionCount1
     \/ program = "sample5" /\ t = Second /\ functionCount2
     \/ /\ program = "pingpong" /\ ~At(MainThread, "exited")
        /\ \/ t = MainThread /\ MainPolls
           \/ t \in {First, Second} /\ do_pingpong(t)
  /\ PassTurn(t)
  /\ UNCHANGED <<program, policy>>

SamplesNext ==
  \/ \E t \in Threads \cup {MainThread} : SamplesStep(t)
  \/ SpuriousWake

----------------------------------------------------------------------------
(***************************************************************************)
(* Properties                                                              *)
(***************************************************************************)

\* Every variable has its type.
SamplesTypeOK ==
  program # "mtsort" =>
    /\ count \in Int /\ late \in Nat /\ spurious \in BOOLEAN
    /\ reg \in [Threads -> Int] /\ rounds \in [Threads -> 0 .. Rounds]
    /\ holder \in [{"count_mutex", "condition_mutex"} -> Threads \cup {Nobody}]
    /\ asleep \subseteq {First, Second}
    /\ CallsTyped(Threads \cup {MainThread}, {"count_mutex", "condition_mutex"})

\* sample5: although the count moves under a mutex that the test does not
\* hold, the first thread increments between the marks at most once, with a
\* test from before the first mark (lines 48 to 57).
HaltsBetween == late <= 1

\* What main prints after the joins of sample4 counts every thread once.  In
\* sample5 the tests of the end, made without a mutex, let the count pass
\* COUNT_DONE by no more than the other thread's last increment.
CountEnds ==
  /\ program = "sample4" /\ At(MainThread, "done") => count = Cardinality(Threads)
  /\ program = "sample5" => count <= CountDone + 1

\* sample5: the waiting thread is always signalled once the count has passed
\* the second mark, and both threads end: on pthreads however they interleave,
\* and on one kernel thread of mypthread.  (On several, a lock or a wait that
\* finds its mutex taken never comes back: mypthread.c:351.)
BothCountersEnd ==
  (program = "sample5" /\ policy \in {"ULONLY", "pthread"}) ~> At(MainThread, "done")

\* pingpong: the two take turns, unless a wake-up was spurious.
TurnsAlternate ==
  program = "pingpong" /\ ~spurious => rounds[First] - rounds[Second] \in -1 .. 1

\* pingpong: both threads leave their loops, the second by the signal that
\* the first gives after its own (line 58), unless a wake-up was spurious or
\* main, polling an unprotected counter, has ended the program before.
BothPlayersLeave ==
  (program = "pingpong") ~>
    \/ program = "pingpong" /\ \A t \in {First, Second} : At(t, "done")
    \/ spurious \/ At(MainThread, "exited")

=============================================================================
