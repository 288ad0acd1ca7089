---------------------------- MODULE PthreadCalls ----------------------------
(***************************************************************************)
(* What the sample programs' thread calls do, in three builds: mypthread   *)
(* (pthreads/mypthread.c) on one kernel thread ("ULONLY"), mypthread on    *)
(* several ("KLALWAYS" stands for the three other policies), and the       *)
(* system's pthreads ("pthread").  Of mypthread it keeps what its mutexes  *)
(* do to the program; MypthreadSync has the queues behind them, and        *)
(* Mypthread the scheduler, whose switches are taken to be defined here.   *)
(***************************************************************************)
EXTENDS Integers

CONSTANTS MainThread, Nobody,
          Policies   \* among "ULONLY", "KLALWAYS", "pthread"

VARIABLES
  program,    \* which sample runs
  policy,     \* on which threads
  turn,       \* under ULONLY, the thread that has not yet given way
  pc,         \* where each of the program's threads is
  holder,     \* of each of its mutexes
  mutex_sem,  \* mypthread: the semaphore around every mutex
  blocked,    \* mypthread: <<p, m>> when p has blocked in a lock of m
  asleep      \* the threads in a wait for the condition variable

callVars == <<program, policy, turn, pc, holder, mutex_sem, blocked, asleep>>

CallsInit == turn = Nobody /\ mutex_sem = 1 /\ blocked = {} /\ asleep = {}

At(p, label) == pc[p] = label
Goto(p, label) == pc' = [pc EXCEPT ![p] = label]

\* Thread p goes from one label to another, with no lock or unlock.
MoveAt(p, from, to) == At(p, from) /\ Goto(p, to) /\ UNCHANGED <<holder, mutex_sem, blocked>>

\* The mutex is free.
TakeAt(p, from, m, to) ==
  /\ At(p, from) /\ Goto(p, to)
  /\ mutex_sem = 1 /\ holder[m] = Nobody
  /\ holder' = [holder EXCEPT ![m] = p]
  /\ UNCHANGED <<mutex_sem, blocked>>

\* mypthread: the mutex is taken.  The context saved for p restarts the lock on
\* an empty stack, so that p never comes back to its caller.
BlockAt(p, from, m) ==
  /\ At(p, from) /\ Goto(p, "blocked")
  /\ policy # "pthread" /\ mutex_sem = 1 /\ holder[m] # Nobody
  /\ blocked' = blocked \cup {<<p, m>>}
  /\ UNCHANGED <<holder, mutex_sem>>

\* (An unlock has activated p.)  The restarted lock takes the mutex and
\* returns to nowhere; if it finds the mutex taken, p blocks as before.
RestartAt(p) ==
  /\ At(p, "blocked") /\ Goto(p, "gone")
  /\ mutex_sem = 1
  /\ \E m \in DOMAIN holder :
       /\ <<p, m>> \in blocked /\ holder[m] = Nobody
       /\ holder' = [holder EXCEPT ![m] = p]
       /\ blocked' = blocked \ {<<p, m>>}
  /\ UNCHANGED mutex_sem

LockAt(p, from, m, to) == TakeAt(p, from, m, to) \/ BlockAt(p, from, m)

\* A trylock of mypthread that fails keeps mutex_sem.
TryLockAt(p, from, m, to, busy) ==
  \/ TakeAt(p, from, m, to)
  \/ /\ At(p, from) /\ Goto(p, busy)
     /\ mutex_sem = 1 /\ holder[m] # Nobody
     /\ mutex_sem' = IF policy = "pthread" THEN 1 ELSE 0
     /\ UNCHANGED <<holder, blocked>>

UnlockAt(p, from, m, to) ==
  /\ At(p, from) /\ Goto(p, to)
  /\ mutex_sem = 1
  /\ holder' = [holder EXCEPT ![m] = Nobody]
  /\ UNCHANGED <<mutex_sem, blocked>>

\* A wait gives up the mutex; when woken, it calls lock.
SleepAt(p, from, m) ==
  /\ UnlockAt(p, from, m, "awake")
  /\ asleep' = asleep \cup {p}

WakeAt(p, m, to) ==
  /\ p \notin asleep
  /\ LockAt(p, "awake", m, to)
  /\ UNCHANGED asleep

Signal ==
  \/ asleep = {} /\ UNCHANGED asleep
  \/ \E p \in asleep : asleep' = asleep \ {p}

\* On one kernel thread, whoever runs goes on until it yields (back to the head
\* of its loop), exits, joins, waits or blocks.
MayRun(p) == turn \in {p, Nobody}
GivesWayAt == {"loop", "join", "done", "awake", "blocked", "gone"}
PassTurn(p) == turn' = IF policy = "ULONLY" /\ pc'[p] \notin GivesWayAt THEN p ELSE Nobody

\* The types of the variables, for a program with these threads and mutexes.
CallsTyped(threads, mutexes) ==
  /\ policy \in Policies /\ turn \in threads \cup {Nobody}
  /\ mutex_sem \in {0, 1} /\ blocked \subseteq threads \X mutexes

=============================================================================
