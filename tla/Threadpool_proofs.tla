-------------------------- MODULE Threadpool_proofs --------------------------
(***************************************************************************)
(* That the pool keeps AbstractPool's promise, for all workers, clients    *)
(* and tasks, in every build, up to the first data race.                   *)
(*                                                                         *)
(* The linked list is what Walk follows; Chain says what the links, both   *)
(* ends and the counter have to do with each other.  OnceEach says where a *)
(* task can be: brought by one client, in the list once, run by one        *)
(* worker, or done.  That nobody else changes the list between a worker's  *)
(* test and its take is Exclusive.                                         *)
(***************************************************************************)
EXTENDS Threadpool, QueueUtil_proofs, FiniteSetTheorems

----------------------------------------------------------------------------
\* Walk, as a function of what it reads.

WalkOf(n, front, link) ==
  LET node[i \in 1..n] == IF i = 1 THEN front ELSE link[node[i - 1]]
  IN  node

LEMMA WalkIsWalkOf ==
  /\ Walk = WalkOf(no_of_tasks_in_Q, taskQ_front, tnext)
  /\ Walk' = WalkOf(no_of_tasks_in_Q', taskQ_front', tnext')
BY DEF Walk, WalkOf

\* The walk is whatever follows the links from the front.
LEMMA WalkUnique ==
  ASSUME NEW n \in Nat, NEW front, NEW link, NEW q,
         q = [i \in 1..n |-> IF i = 1 THEN front ELSE link[q[i - 1]]]
  PROVE  WalkOf(n, front, link) = q
<1> DEFINE w == WalkOf(n, front, link)
<1>1. w = [i \in 1..n |-> IF i = 1 THEN front ELSE link[w[i - 1]]]
  BY DEF WalkOf
<1> HIDE DEF w
<1>2. Nat \subseteq {j \in Nat : j \in 1..n => w[j] = q[j]}
  <2> DEFINE S == {j \in Nat : j \in 1..n => w[j] = q[j]}
  <2>1. 0 \in S
    OBVIOUS
  <2>2. ASSUME NEW j \in Nat, j \in S
        PROVE  j + 1 \in S
    <3>1. CASE j = 0 \/ j + 1 \notin 1..n
      BY <1>1, <3>1
    <3>2. CASE j # 0 /\ j + 1 \in 1..n
      <4>1. /\ j + 1 # 1 /\ (j + 1) - 1 = j /\ j \in 1..n
        BY <3>2
      <4>2. w[j + 1] = link[w[j]] /\ q[j + 1] = link[q[j]]
        BY <1>1, <3>2, <4>1
      <4> QED
        BY <2>2, <4>1, <4>2
    <3> QED
      BY <3>1, <3>2
  <2> HIDE DEF S
  <2>3. Nat \subseteq S
    BY <2>1, <2>2, SetInduction
  <2> QED
    BY <2>3 DEF S
<1>3. \A i \in 1..n : w[i] = q[i]
  BY <1>2
<1>4. w = [i \in 1..n |-> w[i]] /\ q = [i \in 1..n |-> q[i]]
  BY <1>1
<1>5. w = q
  BY <1>3, <1>4
<1> QED
  BY <1>5 DEF w

\* q is the linked list.
Linked(q, n, front, rear, link) ==
  /\ q \in Seq(Tasks) /\ Len(q) = n
  /\ Distinct(q)
  /\ n = 0 => front = NoTask /\ rear = NoTask
  /\ n # 0 => front = q[1] /\ rear = q[n]
  /\ \A i \in 2..n : q[i] = link[q[i - 1]]

LEMMA LinkedIsWalk ==
  ASSUME NEW q, NEW n, NEW front, NEW rear, NEW link, Linked(q, n, front, rear, link)
  PROVE  WalkOf(n, front, link) = q
<1>1. /\ n \in Nat /\ q = [i \in 1..n |-> q[i]]
      /\ \A i \in 1..n : q[i] = IF i = 1 THEN front ELSE link[q[i - 1]]
  BY DEF Linked
<1>2. q = [i \in 1..n |-> IF i = 1 THEN front ELSE link[q[i - 1]]]
  BY <1>1
<1> QED
  BY <1>1, <1>2, WalkUnique

Chain == Linked(Walk, no_of_tasks_in_Q, taskQ_front, taskQ_rear, tnext)

\* push_task makes t the last of the list.
LEMMA PushLinks ==
  ASSUME NEW q, NEW n, NEW front, NEW rear, NEW link \in [Tasks -> Tasks \cup {NoTask}],
         Linked(q, n, front, rear, link), NEW t \in Tasks, ~Contains(q, t)
  PROVE  Linked(Append(q, t), n + 1, IF n = 0 THEN t ELSE front, t,
                IF n = 0 THEN [link EXCEPT ![t] = NoTask]
                         ELSE [link EXCEPT ![rear] = t, ![t] = NoTask])
<1> DEFINE r == Append(q, t)
           newLink == IF n = 0 THEN [link EXCEPT ![t] = NoTask]
                               ELSE [link EXCEPT ![rear] = t, ![t] = NoTask]
<1>1. /\ r \in Seq(Tasks) /\ Len(r) = n + 1 /\ n \in Nat /\ n = Len(q)
      /\ \A i \in 1..n : r[i] = q[i] /\ q[i] # t /\ q[i] \in Tasks
      /\ r[n + 1] = t
  BY DEF Linked, Contains
<1>2. \A i, j \in 1..n : q[i] = q[j] => i = j
  <2>1. q \in Seq(Tasks) /\ Distinct(q) /\ Len(q) = n
    BY DEF Linked
  <2>2. DOMAIN q = 1..n
    BY <2>1
  <2> QED
    BY <2>1, <2>2 DEF Distinct
<1>3. n # 0 => rear = q[n]
  BY DEF Linked
<1> HIDE DEF r
<1>4. DOMAIN r = 1..(n + 1)
  BY <1>1
<1>5. Distinct(r)
  BY <1>1, <1>2, <1>4 DEF Distinct
<1>6. \A i \in 2..(n + 1) : r[i] = newLink[r[i - 1]]
  <2>1. ASSUME NEW i \in 2..n
        PROVE  r[i] = newLink[r[i - 1]]
    <3>1. /\ n # 0 /\ i \in 1..n /\ i - 1 \in 1..n /\ i - 1 # n
          /\ r[i] = q[i] /\ r[i - 1] = q[i - 1] /\ q[i] = link[q[i - 1]]
      BY <1>1, <2>1 DEF Linked
    <3>2. q[i - 1] # rear /\ q[i - 1] # t /\ q[i - 1] \in Tasks
      BY <1>1, <1>2, <1>3, <3>1
    <3> QED
      BY <3>1, <3>2
  <2>2. n # 0 => r[n + 1] = newLink[r[n]]
    <3>1. n # 0 => rear \in Tasks /\ rear # t /\ r[n] = rear
      BY <1>1, <1>3
    <3> QED
      BY <1>1, <3>1
  <2> QED
    BY <1>1, <2>1, <2>2
<1>7. r[1] = IF n = 0 THEN t ELSE front
  BY <1>1 DEF Linked
<1> HIDE DEF newLink
<1>8. Linked(r, n + 1, IF n = 0 THEN t ELSE front, t, newLink)
  BY <1>1, <1>5, <1>6, <1>7 DEF Linked
<1> QED
  BY <1>8 DEF r, newLink

\* Taking the front leaves the rest of the list.
LEMMA PopLinks ==
  ASSUME NEW q, NEW n, NEW front, NEW rear, NEW link, Linked(q, n, front, rear, link), n # 0
  PROVE  /\ front = Head(q) /\ front \in Tasks /\ Contains(q, front)
         /\ \A u : Contains(Tail(q), u) => Contains(q, u) /\ u # front
         /\ \A u : Contains(q, u) => Contains(Tail(q), u) \/ u = front
         /\ n = 1 => Linked(Tail(q), n - 1, NoTask, NoTask, link)
         /\ n # 1 => Linked(Tail(q), n - 1, link[front], rear, link)
<1> DEFINE r == Tail(q)
<1>1. /\ q \in Seq(Tasks) /\ n \in Nat \ {0} /\ n = Len(q) /\ front = q[1] /\ rear = q[n]
      /\ \A i, j \in 1..n : q[i] = q[j] => i = j
      /\ \A i \in 2..n : q[i] = link[q[i - 1]]
  <2>1. /\ q \in Seq(Tasks) /\ n \in Nat \ {0} /\ n = Len(q) /\ front = q[1] /\ rear = q[n]
        /\ Distinct(q) /\ \A i \in 2..n : q[i] = link[q[i - 1]]
    BY DEF Linked
  <2>2. DOMAIN q = 1..n
    BY <2>1
  <2> QED
    BY <2>1, <2>2 DEF Distinct
<1>2. /\ r \in Seq(Tasks) /\ Len(r) = n - 1 /\ DOMAIN r = 1..(n - 1)
      /\ \A i \in 1..(n - 1) : r[i] = q[i + 1] /\ i + 1 \in 2..n
      /\ Head(q) = q[1]
  BY <1>1
<1> HIDE DEF r
<1>3. \A i, j \in 1..(n - 1) : r[i] = r[j] => i = j
  BY <1>1, <1>2
<1>4. Distinct(r)
  BY <1>2, <1>3 DEF Distinct
<1>5. \A u : Contains(r, u) => Contains(q, u) /\ u # front
  BY <1>1, <1>2 DEF Contains
<1>6. \A u : Contains(q, u) => Contains(r, u) \/ u = front
  <2>1. ASSUME NEW i \in 1..n, i # 1
        PROVE  i - 1 \in 1..(n - 1) /\ r[i - 1] = q[i]
    <3>1. i - 1 \in 1..(n - 1) /\ (i - 1) + 1 = i
      BY <1>1, <2>1
    <3> QED
      BY <1>2, <3>1
  <2> QED
    BY <1>1, <1>2, <2>1 DEF Contains
<1>7. \A i \in 2..(n - 1) : r[i] = link[r[i - 1]]
  <2>1. ASSUME NEW i \in 2..(n - 1)
        PROVE  r[i] = link[r[i - 1]]
    <3>1. /\ i \in 1..(n - 1) /\ i - 1 \in 1..(n - 1) /\ (i - 1) + 1 = i
          /\ i + 1 \in 2..n /\ (i + 1) - 1 = i
      BY <1>1, <2>1
    <3>2. r[i] = q[i + 1] /\ r[i - 1] = q[i] /\ q[i + 1] = link[q[i]]
      BY <1>1, <1>2, <3>1
    <3> QED
      BY <3>2
  <2> QED
    BY <2>1
<1>8. n = 1 => Linked(r, n - 1, NoTask, NoTask, link)
  BY <1>1, <1>2, <1>4 DEF Linked
<1>9. n # 1 => Linked(r, n - 1, link[front], rear, link)
  <2>1. n # 1 => n - 1 \in 1..(n - 1) /\ 1 \in 1..(n - 1) /\ (n - 1) + 1 = n /\ 1 + 1 \in 2..n
    BY <1>1
  <2>2. n # 1 => r[n - 1] = rear /\ r[1] = q[2] /\ q[2] = link[q[1]]
    BY <1>1, <1>2, <2>1
  <2> QED
    BY <1>1, <1>2, <1>4, <1>7, <2>2 DEF Linked
<1>10. front \in Tasks /\ Contains(q, front)
  BY <1>1 DEF Contains
<1> QED
  BY <1>1, <1>2, <1>5, <1>6, <1>8, <1>9, <1>10 DEF r

----------------------------------------------------------------------------
\* The inductive invariant.

\* The steps, without the turns.  A detour is a lock that finds the mutex taken.
Detour(p) == Block(p, "lock") \/ Block(p, "woken") \/ Block(p, "d_lock") \/ Restart(p)

WorkerActs(w) ==
  \/ TakeMutex(w, "lock", "test") \/ TakeMutex(w, "woken", "test")
  \/ Test(w) \/ CondWait(w) \/ UnlockFirst(w) \/ PthreadCondWait(w)
  \/ Take(w) \/ Unlock(w) \/ Run(w)

DispatchActs(c) == TakeMutex(c, "d_lock", "d_push") \/ Push(c) \/ DispatchReturns(c)
ClientActs(c) == (\E t \in Tasks : Dispatch(c, t)) \/ DispatchActs(c)

AnyStep ==
  \/ Create
  \/ \E w \in Workers : WorkerActs(w) \/ SpuriousWake(w)
  \/ \E c \in Clients : ClientActs(c) \/ Destroy(c)
  \/ \E p \in Procs : Detour(p)

LEMMA NextIsAnyStep ==
  ASSUME Next
  PROVE  AnyStep /\ turn' \in Procs \cup {Nobody}
<1>1. \A p \in Procs : InTurn(p) => turn' \in Procs \cup {Nobody}
  BY DEF InTurn
<1>2. Main \in Procs /\ Workers \subseteq Procs /\ Clients \subseteq Procs
  BY PoolAssumption DEF Procs
<1>3. turn' \in Procs \cup {Nobody}
  BY <1>1, <1>2 DEF Next, MainCreates, WorkerRuns
<1>4. AnyStep
  <2>1. ASSUME NEW w \in Workers, WorkerStep(w)
        PROVE  WorkerActs(w) \/ Detour(w)
    BY <2>1 DEF WorkerStep, WorkerActs, Locks, Detour
  <2>2. ASSUME NEW c \in Clients, ClientStep(c)
        PROVE  ClientActs(c) \/ Detour(c)
    BY <2>2 DEF ClientStep, ClientActs, DispatchStep, DispatchActs, Locks, Detour
  <2> QED
    BY <1>2, <2>1, <2>2 DEF Next, MainCreates, WorkerRuns, AnyStep
<1> QED
  BY <1>3, <1>4

\* What the variables are, but for how far the two counters go.
Shapes ==
  /\ build \in Builds /\ turn \in Procs \cup {Nobody}
  /\ no_of_threads \in Nat /\ no_of_tasks_in_Q \in Nat
  /\ tnext \in [Tasks -> Tasks \cup {NoTask}]
  /\ mutex \in Procs \cup {Nobody}
  /\ waiters \subseteq Workers
  /\ pc \in [Procs -> {"unborn", "creating", "outside", "lock", "test", "take", "unlock",
                       "run", "waiting", "woken", "cw_call", "d_lock", "d_push", "d_unlock",
                       "blocked", "gone", "undef"}]
  /\ task \in [Procs -> Tasks \cup {NoTask}]
  /\ dispatched \subseteq Tasks /\ done \subseteq Tasks /\ destroyed \in BOOLEAN

Roles ==
  /\ \A w \in Workers : pc[w] \in {"unborn", "lock", "test", "take", "unlock", "run",
                                   "waiting", "woken", "cw_call", "blocked", "gone", "undef"}
  /\ \A c \in Clients : pc[c] \in {"creating", "outside", "d_lock", "d_push", "d_unlock",
                                   "blocked", "gone", "undef"}
  /\ \A w \in waiters : pc[w] \in {"waiting", "undef"}

\* Whoever is in the critical section holds the mutex, and nobody else, but for
\* a thread that ended with it.
Critical == {"test", "take", "unlock", "d_push", "d_unlock"}
Exclusive ==
  ~Undefined => \A p \in Procs :
                  /\ pc[p] \in Critical => mutex = p
                  /\ mutex = p => pc[p] \in Critical \cup {"gone"}

\* The test still holds when the worker takes.
TakesOne == ~Undefined => \A w \in Workers : pc[w] = "take" => no_of_tasks_in_Q # 0

Brings(c, t) == pc[c] \in {"d_lock", "d_push"} /\ task[c] = t
Runs(w, t) == pc[w] \in {"unlock", "run"} /\ task[w] = t

\* No task is in two places.
OnceEach ==
  /\ \A c \in Clients : pc[c] \in {"d_lock", "d_push"} => task[c] \in dispatched
  /\ \A w \in Workers : pc[w] \in {"unlock", "run"} => task[w] \in dispatched
  /\ \A t \in Tasks : Contains(Walk, t) \/ t \in done => t \in dispatched
  /\ \A c, d \in Clients, t \in Tasks : Brings(c, t) /\ Brings(d, t) => c = d
  /\ \A v, w \in Workers, t \in Tasks : Runs(v, t) /\ Runs(w, t) => v = w
  /\ \A c \in Clients, w \in Workers, t \in Tasks : Brings(c, t) => ~Runs(w, t)
  /\ \A c \in Clients, t \in Tasks : Brings(c, t) => ~Contains(Walk, t) /\ t \notin done
  /\ \A w \in Workers, t \in Tasks : Runs(w, t) => ~Contains(Walk, t) /\ t \notin done
  /\ \A t \in Tasks : Contains(Walk, t) => t \notin done

Born == no_of_threads = Cardinality(Workers) + Cardinality({w \in Workers : pc[w] # "unborn"})

PoolIInv == Shapes /\ Roles /\ Exclusive /\ TakesOne /\ Chain /\ OnceEach /\ Born

LEMMA PoolInitIInv == Init => PoolIInv
<1> SUFFICES ASSUME Init
             PROVE  PoolIInv
  OBVIOUS
<1>1. \A w \in Workers : pc[w] = "unborn"
  BY PoolAssumption DEF Init, Procs
<1>2. \A c \in Clients : pc[c] \in {"creating", "outside"}
  BY PoolAssumption DEF Init, Procs
<1>3. Linked(<<>>, 0, NoTask, NoTask, tnext)
  BY DEF Linked, Distinct
<1>4. Walk = <<>>
  BY <1>3, LinkedIsWalk, WalkIsWalkOf DEF Init
<1>5. Chain
  BY <1>3, <1>4 DEF Init, Chain
<1>6. \A t : ~Contains(Walk, t)
  BY <1>4 DEF Contains
<1>7. OnceEach
  BY <1>1, <1>2, <1>6 DEF Init, OnceEach, Brings, Runs
<1>8. Cardinality(Workers) \in Nat /\ {w \in Workers : pc[w] # "unborn"} = {}
  BY <1>1, PoolAssumption
<1>9. Born
  BY <1>8, FS_EmptySet DEF Init, Born
<1>10. pc \in [Procs -> {"unborn", "creating", "outside"}]
  BY <1>1, <1>2 DEF Init, Procs
<1>11. Shapes
  BY <1>8, <1>10 DEF Init, Shapes
<1>12. Roles
  BY <1>1, <1>2 DEF Init, Roles
<1>13. \A p \in Procs : pc[p] \notin Critical /\ pc[p] # "take" /\ mutex # p
  BY <1>10, PoolAssumption DEF Init, Critical, Procs
<1> QED
  BY <1>5, <1>7, <1>9, <1>11, <1>12, <1>13 DEF PoolIInv, Exclusive, TakesOne, Procs

----------------------------------------------------------------------------
\* Steps.  Most leave the list alone and take one thread p to another label.

Elsewhere == UNCHANGED <<no_of_tasks_in_Q, taskQ_front, taskQ_rear, tnext, dispatched, done>>

LEMMA ListKept ==
  ASSUME Chain, UNCHANGED <<no_of_tasks_in_Q, taskQ_front, taskQ_rear, tnext>>
  PROVE  Chain' /\ Walk' = Walk
<1>1. Walk' = WalkOf(no_of_tasks_in_Q', taskQ_front', tnext')
  BY WalkIsWalkOf
<1>2. Walk' = Walk
  BY <1>1, WalkIsWalkOf
<1> QED
  BY <1>2 DEF Chain

\* Where a thread that brings or runs no task is makes no difference to OnceEach.
LEMMA OnceKept ==
  ASSUME OnceEach, Walk' = Walk, done' = done, dispatched \subseteq dispatched',
         \A p \in Procs :
           /\ pc'[p] \in {"d_lock", "d_push"} => pc[p] \in {"d_lock", "d_push"} /\ task'[p] = task[p]
           /\ pc'[p] \in {"unlock", "run"} => pc[p] \in {"unlock", "run"} /\ task'[p] = task[p]
  PROVE  OnceEach'
<1>1. ASSUME NEW p \in Procs, NEW t
      PROVE  (Brings(p, t)' => Brings(p, t)) /\ (Runs(p, t)' => Runs(p, t))
  BY DEF Brings, Runs
<1> QED
  BY <1>1 DEF OnceEach, Procs

\* A detour changes where its thread is and, at its end, who has the mutex.
LEMMA DetourIs ==
  ASSUME NEW p \in Procs, Detour(p)
  PROVE  /\ UNCHANGED <<build, no_of_threads, no_of_tasks_in_Q, taskQ_front, taskQ_rear,
                         tnext, waiters, task, dispatched, done, destroyed>>
         /\ ~Undefined
         /\ \E b : /\ pc' = [pc EXCEPT ![p] = b]
                  /\ \/ /\ pc[p] \in {"lock", "woken", "d_lock"} /\ b = "blocked"
                        /\ mutex' = mutex
                     \/ /\ pc[p] = "blocked" /\ b \in {"gone", "undef"}
                        /\ mutex = Nobody /\ mutex' = p
<1>1. /\ UNCHANGED <<build, no_of_threads, queueVars, waiters, task, ghosts>>
      /\ ~Undefined
  BY DEF Detour, Block, Restart, At, Undefined
<1>2. CASE Restart(p)
  BY <1>1, <1>2 DEF Restart, At, queueVars, ghosts
<1>3. CASE ~Restart(p)
  BY <1>1, <1>3 DEF Detour, Block, At, queueVars, ghosts
<1> QED
  BY <1>2, <1>3

\* The labels as far as the invariant speaks of them: waking changes only those
\* of waiting workers.
LEMMA NotifyEffect ==
  ASSUME PoolIInv, NEW p \in Procs, NEW n, NEW label, Notify(p, n, label),
         pc[p] \notin {"waiting", "undef"}
  PROVE  /\ waiters' \subseteq waiters /\ pc'[p] = label
         /\ \A q \in waiters' : q # p /\ pc'[q] = pc[q]
         /\ \A q \in Procs \ {p} :
              pc'[q] = pc[q] \/ (pc[q] \in {"waiting", "undef"} /\ pc'[q] = "woken" /\ q \in Workers)
         /\ pc' = [q \in Procs |-> pc'[q]]
<1>1. PICK woken \in SUBSET waiters :
        /\ waiters' = waiters \ woken
        /\ pc' = [q \in Procs |-> CASE q = p -> label
                                    [] q \in woken -> "woken"
                                    [] OTHER -> pc[q]]
  BY DEF Notify
<1>2. waiters \subseteq Workers /\ \A q \in waiters : pc[q] \in {"waiting", "undef"}
  BY DEF PoolIInv, Shapes, Roles
<1>3. p \notin waiters /\ Workers \subseteq Procs
  BY <1>2 DEF Procs
<1>4. \A q \in Procs : pc'[q] = CASE q = p -> label [] q \in woken -> "woken" [] OTHER -> pc[q]
  BY <1>1
<1>5. /\ pc'[p] = label
      /\ \A q \in woken : q \in waiters /\ pc'[q] = "woken"
      /\ \A q \in Procs \ {p} : q \notin woken => pc'[q] = pc[q]
  <2>1. woken \subseteq waiters /\ waiters \subseteq Procs /\ p \notin woken
    BY <1>2, <1>3
  <2>2. pc'[p] = label
    BY <1>4, <2>1
  <2>3. ASSUME NEW q \in woken
        PROVE  pc'[q] = "woken"
    BY <1>4, <2>1, <2>3
  <2>4. ASSUME NEW q \in Procs \ {p}, q \notin woken
        PROVE  pc'[q] = pc[q]
    BY <1>4, <2>4
  <2> QED
    BY <2>1, <2>2, <2>3, <2>4
<1> QED
  BY <1>1, <1>2, <1>3, <1>5

LEMMA ShapesKept ==
  ASSUME PoolIInv, AnyStep, turn' \in Procs \cup {Nobody}
  PROVE  Shapes'
<1>0. Shapes /\ Roles /\ Chain /\ Cardinality(Workers) \in Nat
  BY PoolAssumption DEF PoolIInv
<1>1. ASSUME Create
      PROVE  Shapes'
  BY <1>0, <1>1 DEF Create, CreateReturns, CreateWorker, queueVars, ghosts, Shapes, Procs
<1>2. ASSUME NEW p \in Procs,
             \/ TakeMutex(p, "lock", "test") \/ TakeMutex(p, "woken", "test")
             \/ TakeMutex(p, "d_lock", "d_push") \/ DispatchReturns(p)
             \/ \E t \in Tasks : Dispatch(p, t)
      PROVE  Shapes'
  BY <1>0, <1>2 DEF TakeMutex, DispatchReturns, Dispatch, queueVars, ghosts, Shapes
<1>3. ASSUME NEW w \in Workers,
             \/ Test(w) \/ CondWait(w) \/ UnlockFirst(w) \/ PthreadCondWait(w)
             \/ Unlock(w) \/ SpuriousWake(w)
      PROVE  Shapes'
  <2>1. w \in Procs
    BY DEF Procs
  <2> QED
    BY <1>0, <1>3, <2>1 DEF Test, CondWait, UnlockFirst, PthreadCondWait, Unlock, SpuriousWake,
                            queueVars, ghosts, Shapes
<1>4. ASSUME NEW w \in Workers, Run(w)
      PROVE  Shapes'
  <2>1. w \in Procs /\ task[w] \in Tasks
    BY <1>4 DEF Procs, PoolIInv, OnceEach, Shapes, Run, At
  <2> QED
    BY <1>0, <1>4, <2>1 DEF Run, queueVars, Shapes
<1>5. ASSUME NEW w \in Workers, Take(w)
      PROVE  Shapes'
  <2>1. w \in Procs /\ pc[w] = "take" /\ no_of_tasks_in_Q # 0
    BY <1>5 DEF Procs, PoolIInv, TakesOne, Take, At, Undefined
  <2>2. PICK m : Notify(w, m, "unlock")
    BY <1>5 DEF Take
  <2>3. pc' \in [Procs -> {"unborn", "creating", "outside", "lock", "test", "take", "unlock",
                       "run", "waiting", "woken", "cw_call", "d_lock", "d_push", "d_unlock",
                       "blocked", "gone", "undef"}] /\ waiters' \subseteq Workers
    BY <1>0, <2>1, <2>2, NotifyEffect DEF Shapes
  <2>4. taskQ_front \in Tasks
    BY <1>0, <2>1, PopLinks DEF Chain
  <2>5. no_of_tasks_in_Q' \in Nat
    BY <1>0, <1>5, <2>1 DEF Take, PopTask, Shapes
  <2> QED
    BY <1>0, <1>5, <2>1, <2>3, <2>4, <2>5 DEF Take, Shapes, ghosts
<1>6. ASSUME NEW c \in Clients, Push(c)
      PROVE  Shapes'
  <2>1. c \in Procs /\ pc[c] = "d_push" /\ task[c] \in Tasks
    BY <1>6 DEF Procs, PoolIInv, OnceEach, Shapes, Push, At
  <2>3. pc' \in [Procs -> {"unborn", "creating", "outside", "lock", "test", "take", "unlock",
                       "run", "waiting", "woken", "cw_call", "d_lock", "d_push", "d_unlock",
                       "blocked", "gone", "undef"}] /\ waiters' \subseteq Workers
    BY <1>0, <1>6, <2>1, NotifyEffect DEF Shapes, Push
  <2>4. no_of_tasks_in_Q' \in Nat /\ tnext' \in [Tasks -> Tasks \cup {NoTask}]
    BY <1>0, <1>6, <2>1 DEF Push, PushTask, Shapes
  <2> QED
    BY <1>0, <1>6, <2>1, <2>3, <2>4 DEF Push, Shapes, ghosts
<1>7. ASSUME NEW c \in Clients, Destroy(c)
      PROVE  Shapes'
  <2>1. c \in Procs
    BY DEF Procs
  <2> QED
    BY <1>0, <1>7, <2>1 DEF Destroy, queueVars, Shapes
<1>8. ASSUME NEW p \in Procs, Detour(p)
      PROVE  Shapes'
  <2>1. UNCHANGED <<build, no_of_threads, no_of_tasks_in_Q, taskQ_front, taskQ_rear,
                    tnext, waiters, task, dispatched, done, destroyed>>
    BY <1>8, DetourIs
  <2>2. PICK b \in {"blocked", "gone", "undef"} :
          pc' = [pc EXCEPT ![p] = b] /\ (mutex' = mutex \/ mutex' = p)
    BY <1>8, DetourIs
  <2> QED
    BY <1>0, <2>1, <2>2 DEF Shapes
<1> QED
  BY <1>1, <1>2, <1>3, <1>4, <1>5, <1>6, <1>7, <1>8
     DEF AnyStep, WorkerActs, ClientActs, DispatchActs, Procs

\* What a step does to the labels and the mutex: p moves, waiters may wake.
WorkerMoves(p) ==
  \/ /\ <<pc[p], pc'[p]>> \in {<<"unborn", "lock">>, <<"waiting", "woken">>, <<"test", "take">>,
                               <<"take", "unlock">>, <<"run", "lock">>, <<"cw_call", "waiting">>}
     /\ mutex' = mutex
  \/ /\ <<pc[p], pc'[p]>> \in {<<"lock", "test">>, <<"woken", "test">>}
     /\ mutex = Nobody /\ mutex' = p
  \/ /\ <<pc[p], pc'[p]>> \in {<<"test", "waiting">>, <<"test", "cw_call">>, <<"unlock", "run">>}
     /\ mutex' = Nobody
  \/ <<pc[p], pc'[p]>> = <<"cw_call", "undef">>

ClientMoves(p) ==
  \/ /\ <<pc[p], pc'[p]>> \in {<<"creating", "outside">>, <<"outside", "d_lock">>,
                               <<"d_push", "d_unlock">>, <<"outside", "gone">>}
     /\ mutex' = mutex
  \/ <<pc[p], pc'[p]>> = <<"d_lock", "d_push">> /\ mutex = Nobody /\ mutex' = p
  \/ <<pc[p], pc'[p]>> = <<"d_unlock", "outside">> /\ mutex' = Nobody
  \/ <<pc[p], pc'[p]>> = <<"outside", "undef">>

DetourMoves(p) ==
  \/ pc[p] \in {"lock", "woken", "d_lock"} /\ pc'[p] = "blocked" /\ mutex' = mutex
  \/ pc[p] = "blocked" /\ pc'[p] \in {"gone", "undef"} /\ mutex = Nobody /\ mutex' = p

Moves(p) ==
  /\ \/ p \in Workers /\ WorkerMoves(p)
     \/ p \in Clients /\ ClientMoves(p)
     \/ DetourMoves(p)
  /\ \A q \in Procs \ {p} :
       pc'[q] = pc[q] \/ (q \in Workers /\ pc[q] = "waiting" /\ pc'[q] = "woken")

LEMMA NextMoves ==
  ASSUME PoolIInv, AnyStep
  PROVE  /\ ~Undefined
         /\ \E p \in Procs : /\ Moves(p)
                            /\ (pc[p] = "unborn" => CreateWorker(p))
                            /\ (pc'[p] = "take" => no_of_tasks_in_Q # 0)
         /\ \A w \in waiters' : pc'[w] \in {"waiting", "undef"}
<1> DEFINE Goal == /\ ~Undefined
                   /\ \E p \in Procs : /\ Moves(p)
                                      /\ (pc[p] = "unborn" => CreateWorker(p))
                                      /\ (pc'[p] = "take" => no_of_tasks_in_Q # 0)
                   /\ \A w \in waiters' : pc'[w] \in {"waiting", "undef"}
<1>0. /\ DOMAIN pc = Procs /\ Main \in Procs /\ waiters \subseteq Workers
      /\ \A w \in waiters : pc[w] \in {"waiting", "undef"}
      /\ Workers \subseteq Procs /\ Clients \subseteq Procs
  BY PoolAssumption DEF PoolIInv, Shapes, Roles, Procs
<1>1. ASSUME NEW p \in Procs, NEW a, NEW b, At(p, a), pc' = [pc EXCEPT ![p] = b]
      PROVE  /\ ~Undefined /\ pc[p] = a /\ pc'[p] = b
             /\ \A q \in Procs \ {p} : pc'[q] = pc[q]
  BY <1>0, <1>1 DEF At, Undefined
<1>2. ASSUME NEW w \in Workers, CreateWorker(w)
      PROVE  Goal
  <2>1. pc[w] = "unborn" /\ pc' = [pc EXCEPT ![w] = "lock"] /\ mutex' = mutex
        /\ waiters' = waiters /\ ~Undefined
    BY <1>2 DEF CreateWorker, At, Undefined
  <2>2. w \in Procs /\ pc'[w] = "lock" /\ \A q \in Procs \ {w} : pc'[q] = pc[q]
    BY <1>0, <2>1
  <2>3. WorkerMoves(w)
    BY <2>1, <2>2 DEF WorkerMoves
  <2>4. Moves(w)
    BY <2>2, <2>3 DEF Moves
  <2> QED
    BY <1>0, <1>2, <2>1, <2>2, <2>4
<1>3. ASSUME CreateReturns
      PROVE  Goal
  <2>1. At(Main, "creating") /\ pc' = [pc EXCEPT ![Main] = "outside"] /\ mutex' = mutex
        /\ waiters' = waiters
    BY <1>3 DEF CreateReturns
  <2>2. /\ ~Undefined /\ pc[Main] = "creating" /\ pc'[Main] = "outside"
        /\ \A q \in Procs \ {Main} : pc'[q] = pc[q]
    BY <1>0, <1>1, <2>1
  <2>3. Moves(Main)
    BY <2>1, <2>2, PoolAssumption DEF Moves, ClientMoves
  <2> QED
    BY <1>0, <2>1, <2>2, <2>3
<1>4. ASSUME NEW w \in Workers, WorkerActs(w) \/ SpuriousWake(w), ~Take(w)
      PROVE  Goal
  <2>1. PICK a, b : /\ At(w, a) /\ pc' = [pc EXCEPT ![w] = b]
                    /\ waiters' = waiters \/ (waiters' = waiters \cup {w} /\ b \in {"waiting", "undef"})
                       \/ waiters' = waiters \ {w}
                    /\ waiters' = waiters => a # "waiting"
                    /\ b = "take" => no_of_tasks_in_Q # 0
                    /\ \/ <<a, b>> \in {<<"waiting", "woken">>, <<"test", "take">>,
                               <<"run", "lock">>} /\ mutex' = mutex
                       \/ <<a, b>> = <<"cw_call", "waiting">> /\ mutex = Nobody /\ mutex' = Nobody
                       \/ <<a, b>> \in {<<"lock", "test">>, <<"woken", "test">>}
                            /\ mutex = Nobody /\ mutex' = w
                       \/ <<a, b>> \in {<<"test", "waiting">>, <<"test", "cw_call">>, <<"unlock", "run">>}
                            /\ mutex' = Nobody
                       \/ <<a, b>> = <<"cw_call", "undef">>
    <3>1. CASE TakeMutex(w, "lock", "test")
      BY <3>1 DEF TakeMutex
    <3>2. CASE TakeMutex(w, "woken", "test")
      BY <3>2 DEF TakeMutex
    <3>3. CASE Test(w)
      BY <3>3 DEF Test
    <3>4. CASE CondWait(w)
      BY <3>4 DEF CondWait
    <3>5. CASE UnlockFirst(w)
      BY <3>5 DEF UnlockFirst
    <3>6. CASE PthreadCondWait(w)
      BY <3>6 DEF PthreadCondWait
    <3>7. CASE Unlock(w)
      BY <3>7 DEF Unlock
    <3>8. CASE Run(w)
      BY <3>8 DEF Run
    <3>9. CASE SpuriousWake(w)
      BY <3>9 DEF SpuriousWake
    <3> QED
      BY <1>4, <3>1, <3>2, <3>3, <3>4, <3>5, <3>6, <3>7, <3>8, <3>9 DEF WorkerActs
  <2>2. w \in Procs /\ ~Undefined /\ pc[w] = a /\ pc'[w] = b
        /\ \A q \in Procs \ {w} : pc'[q] = pc[q]
    BY <1>0, <1>1, <2>1
  <2>3. Moves(w)
    <3>1. <<pc[w], pc'[w]>> = <<a, b>>
      BY <2>2
    <3>2. WorkerMoves(w)
      BY <2>1, <3>1 DEF WorkerMoves
    <3> QED
      BY <2>2, <3>2 DEF Moves
  <2>4. \A v \in waiters' : pc'[v] \in {"waiting", "undef"}
    BY <1>0, <2>1, <2>2
  <2>5. a # "unborn" /\ (b = "take" => no_of_tasks_in_Q # 0)
    BY <2>1
  <2> QED
    BY <2>2, <2>3, <2>4, <2>5
<1>5. ASSUME NEW w \in Workers, Take(w)
      PROVE  Goal
  <2>1. PICK m : Notify(w, m, "unlock") /\ pc[w] = "take" /\ mutex' = mutex /\ ~Undefined
    BY <1>5 DEF Take, At, Undefined
  <2>2. /\ waiters' \subseteq waiters /\ pc'[w] = "unlock" /\ w \in Procs
        /\ \A q \in waiters' : pc'[q] = pc[q]
        /\ \A q \in Procs \ {w} :
              pc'[q] = pc[q] \/ (pc[q] \in {"waiting", "undef"} /\ pc'[q] = "woken" /\ q \in Workers)
    BY <1>0, <2>1, NotifyEffect
  <2>3. Moves(w)
    <3>1. WorkerMoves(w)
      BY <2>1, <2>2 DEF WorkerMoves
    <3> QED
      BY <2>1, <2>2, <3>1 DEF Moves, Undefined
  <2> QED
    BY <1>0, <2>1, <2>2, <2>3
<1>6. ASSUME NEW c \in Clients, Push(c)
      PROVE  Goal
  <2>1. Notify(c, 2, "d_unlock") /\ pc[c] = "d_push" /\ mutex' = mutex /\ ~Undefined
    BY <1>6 DEF Push, At, Undefined
  <2>2. /\ waiters' \subseteq waiters /\ pc'[c] = "d_unlock" /\ c \in Procs
        /\ \A q \in waiters' : pc'[q] = pc[q]
        /\ \A q \in Procs \ {c} :
              pc'[q] = pc[q] \/ (pc[q] \in {"waiting", "undef"} /\ pc'[q] = "woken" /\ q \in Workers)
    BY <1>0, <2>1, NotifyEffect
  <2>3. Moves(c)
    BY <2>1, <2>2 DEF Moves, ClientMoves, Undefined
  <2> QED
    BY <1>0, <2>1, <2>2, <2>3
<1>7. ASSUME NEW c \in Clients, ClientActs(c) \/ Destroy(c), ~Push(c)
      PROVE  Goal
  <2>1. PICK a, b : /\ At(c, a) /\ pc' = [pc EXCEPT ![c] = b]
                    /\ waiters' \subseteq waiters
                    /\ \/ <<a, b>> = <<"outside", "d_lock">> /\ mutex' = mutex
                       \/ <<a, b>> = <<"outside", "gone">> /\ mutex = Nobody /\ mutex' = Nobody
                       \/ <<a, b>> = <<"d_lock", "d_push">> /\ mutex = Nobody /\ mutex' = c
                       \/ <<a, b>> = <<"d_unlock", "outside">> /\ mutex' = Nobody
                       \/ <<a, b>> = <<"outside", "undef">>
    <3>1. CASE \E t \in Tasks : Dispatch(c, t)
      BY <3>1 DEF Dispatch
    <3>2. CASE TakeMutex(c, "d_lock", "d_push")
      BY <3>2 DEF TakeMutex
    <3>3. CASE DispatchReturns(c)
      BY <3>3 DEF DispatchReturns
    <3>4. CASE Destroy(c)
      BY <3>4 DEF Destroy
    <3> QED
      BY <1>7, <3>1, <3>2, <3>3, <3>4 DEF ClientActs, DispatchActs
  <2>2. c \in Procs /\ ~Undefined /\ pc[c] = a /\ pc'[c] = b
        /\ \A q \in Procs \ {c} : pc'[q] = pc[q]
    BY <1>0, <1>1, <2>1
  <2>3. Moves(c)
    BY <2>1, <2>2 DEF Moves, ClientMoves
  <2>4. \A v \in waiters' : pc'[v] \in {"waiting", "undef"}
    <3>1. c \notin Workers
      BY PoolAssumption
    <3> QED
      BY <1>0, <2>1, <2>2, <3>1
  <2>5. a # "unborn" /\ (b = "take" => no_of_tasks_in_Q # 0)
    BY <2>1
  <2> QED
    BY <2>2, <2>3, <2>4, <2>5
<1>8. ASSUME NEW p \in Procs, Detour(p)
      PROVE  Goal
  <2>1. waiters' = waiters /\ ~Undefined
    BY <1>8, DetourIs
  <2>2. PICK b : /\ pc' = [pc EXCEPT ![p] = b]
                 /\ \/ /\ pc[p] \in {"lock", "woken", "d_lock"} /\ b = "blocked"
                       /\ mutex' = mutex
                    \/ /\ pc[p] = "blocked" /\ b \in {"gone", "undef"}
                       /\ mutex = Nobody /\ mutex' = p
    BY <1>8, DetourIs
  <2>3. pc'[p] = b /\ \A q \in Procs \ {p} : pc'[q] = pc[q]
    BY <1>0, <2>2
  <2>4. Moves(p)
    BY <2>2, <2>3 DEF Moves, DetourMoves
  <2>5. \A v \in waiters' : pc'[v] \in {"waiting", "undef"}
    BY <1>0, <2>1, <2>2, <2>3
  <2> QED
    BY <2>1, <2>2, <2>3, <2>4, <2>5
<1> QED
  BY <1>2, <1>3, <1>4, <1>5, <1>6, <1>7, <1>8 DEF AnyStep, Create

LEMMA RolesKept ==
  ASSUME PoolIInv, AnyStep
  PROVE  Roles'
<1>1. PICK p \in Procs : Moves(p)
  BY NextMoves
<1>2. \A w \in waiters' : pc'[w] \in {"waiting", "undef"}
  BY NextMoves
<1>3. Roles /\ Workers \cap Clients = {} /\ Workers \cup Clients = Procs
  BY PoolAssumption DEF PoolIInv, Procs
<1>4. \A w \in Workers : pc'[w] \in {"unborn", "lock", "test", "take", "unlock", "run",
                                     "waiting", "woken", "cw_call", "blocked", "gone", "undef"}
  <2>1. ASSUME p \in Workers, WorkerMoves(p)
        PROVE  pc'[p] \in {"lock", "test", "take", "unlock", "run", "waiting", "woken",
                           "cw_call", "undef"}
    BY <2>1 DEF WorkerMoves
  <2>2. DetourMoves(p) => pc'[p] \in {"blocked", "gone", "undef"}
    BY DEF DetourMoves
  <2> QED
    BY <1>1, <1>3, <2>1, <2>2 DEF Moves, Roles
<1>5. \A c \in Clients : pc'[c] \in {"creating", "outside", "d_lock", "d_push", "d_unlock",
                                     "blocked", "gone", "undef"}
  <2>1. ASSUME p \in Clients, ClientMoves(p)
        PROVE  pc'[p] \in {"outside", "d_lock", "d_push", "d_unlock", "gone", "undef"}
    BY <2>1 DEF ClientMoves
  <2>2. DetourMoves(p) => pc'[p] \in {"blocked", "gone", "undef"}
    BY DEF DetourMoves
  <2> QED
    BY <1>1, <1>3, <2>1, <2>2 DEF Moves, Roles
<1> QED
  BY <1>2, <1>4, <1>5 DEF Roles

LEMMA ExclusiveKept ==
  ASSUME PoolIInv, AnyStep
  PROVE  Exclusive'
<1> SUFFICES ASSUME ~Undefined'
             PROVE  \A q \in Procs :
                      /\ pc'[q] \in Critical => mutex' = q
                      /\ mutex' = q => pc'[q] \in Critical \cup {"gone"}
  BY DEF Exclusive
<1>1. PICK p \in Procs : Moves(p)
  BY NextMoves
<1>2. /\ \A q \in Procs : /\ pc[q] \in Critical => mutex = q
                          /\ mutex = q => pc[q] \in Critical \cup {"gone"}
      /\ \A q \in Procs : pc'[q] # "undef"
      /\ \A q \in Procs : q # Nobody
  BY NextMoves, PoolAssumption DEF PoolIInv, Exclusive, Undefined, Procs
<1>3. \/ /\ mutex' = mutex /\ pc[p] # "gone"
         /\ pc[p] \in Critical <=> pc'[p] \in Critical
      \/ mutex = Nobody /\ mutex' = p /\ pc'[p] \in Critical \cup {"gone"}
      \/ pc[p] \in Critical /\ mutex' = Nobody /\ pc'[p] \notin Critical
  <2>1. CASE p \in Workers /\ WorkerMoves(p)
    BY <1>2, <2>1 DEF WorkerMoves, Critical
  <2>2. CASE p \in Clients /\ ClientMoves(p)
    BY <1>2, <2>2 DEF ClientMoves, Critical
  <2>3. CASE DetourMoves(p)
    BY <1>2, <2>3 DEF DetourMoves, Critical
  <2> QED
    BY <1>1, <2>1, <2>2, <2>3 DEF Moves
<1>4. \A q \in Procs \ {p} : /\ pc[q] \in Critical <=> pc'[q] \in Critical
                             /\ pc[q] = "gone" <=> pc'[q] = "gone"
  BY <1>1 DEF Moves, Critical
<1>5. ASSUME NEW q \in Procs \ {p}
      PROVE  /\ pc'[q] \in Critical => mutex' = q
             /\ mutex' = q => pc'[q] \in Critical \cup {"gone"}
  <2>1. /\ pc[q] \in Critical <=> pc'[q] \in Critical
        /\ pc[q] = "gone" <=> pc'[q] = "gone"
    BY <1>4, <1>5
  <2>2. /\ pc[q] \in Critical => mutex = q
        /\ mutex = q => pc[q] \in Critical \cup {"gone"}
        /\ q # Nobody /\ q # p
    BY <1>2, <1>5
  <2>3. pc[p] \in Critical => mutex = p
    BY <1>1, <1>2
  <2> QED
    BY <1>3, <2>1, <2>2, <2>3
<1>6. /\ pc'[p] \in Critical => mutex' = p
      /\ mutex' = p => pc'[p] \in Critical \cup {"gone"}
  <2>1. /\ pc[p] \in Critical => mutex = p
        /\ mutex = p => pc[p] \in Critical \cup {"gone"}
        /\ p # Nobody
    BY <1>1, <1>2
  <2> QED
    BY <1>3, <2>1
<1> QED
  BY <1>5, <1>6

LEMMA BornKept ==
  ASSUME PoolIInv, AnyStep
  PROVE  Born'
<1> DEFINE B == {w \in Workers : pc[w] # "unborn"}
<1>0. /\ IsFiniteSet(Workers) /\ Cardinality(Workers) \in Nat
      /\ DOMAIN pc = Procs /\ Workers \subseteq Procs /\ Workers \cap Clients = {}
      /\ no_of_threads = Cardinality(Workers) + Cardinality(B)
  BY PoolAssumption DEF PoolIInv, Shapes, Procs, Born
<1>1. CASE \E w \in Workers : CreateWorker(w)
  <2>1. PICK w \in Workers : CreateWorker(w)
    BY <1>1
  <2>2. pc[w] = "unborn" /\ pc' = [pc EXCEPT ![w] = "lock"] /\ no_of_threads' = no_of_threads + 1
    BY <2>1 DEF CreateWorker
  <2>3. B' = B \cup {w} /\ w \notin B
    BY <1>0, <2>2
  <2>4. IsFiniteSet(B)
    BY <1>0, FS_Subset
  <2>5. Cardinality(B') = Cardinality(B) + 1 /\ Cardinality(B) \in Nat
    BY <2>3, <2>4, FS_AddElement, FS_CardinalityType
  <2> QED
    BY <1>0, <2>2, <2>5 DEF Born
<1>2. CASE ~\E w \in Workers : CreateWorker(w)
  <2>0. \A p \in Procs : Detour(p) => no_of_threads' = no_of_threads
    BY DetourIs
  <2>1. no_of_threads' = no_of_threads
    BY <1>2, <2>0 DEF AnyStep, Create, CreateReturns, WorkerActs, TakeMutex, Test, CondWait, UnlockFirst,
       PthreadCondWait, Take, Unlock, Run, SpuriousWake, ClientActs, Dispatch, DispatchActs,
       Push, DispatchReturns, Destroy
  <2>2. \A w \in Workers : pc[w] # "unborn" <=> pc'[w] # "unborn"
    <3>1. PICK p \in Procs : Moves(p) /\ (pc[p] = "unborn" => CreateWorker(p))
      BY NextMoves
    <3>2. ASSUME p \in Workers
          PROVE  pc[p] # "unborn" /\ pc'[p] # "unborn"
      <4>1. WorkerMoves(p) \/ DetourMoves(p)
        BY <1>0, <3>1, <3>2 DEF Moves
      <4>2. pc'[p] # "unborn"
        BY <4>1 DEF WorkerMoves, DetourMoves
      <4> QED
        BY <1>2, <3>1, <3>2, <4>2
    <3> QED
      BY <1>0, <3>1, <3>2 DEF Moves
  <2>3. B' = B
    BY <2>2
  <2> QED
    BY <1>0, <2>1, <2>3 DEF Born
<1> QED
  BY <1>1, <1>2

\* Only a worker that takes and a client that pushes touch the list.
LEMMA ListTouched ==
  ASSUME AnyStep
  PROVE  \/ \E w \in Workers : Take(w)
         \/ \E c \in Clients : Push(c)
         \/ UNCHANGED <<no_of_tasks_in_Q, taskQ_front, taskQ_rear, tnext>>
BY DetourIs DEF AnyStep, Create, CreateWorker, CreateReturns, WorkerActs, TakeMutex, Test, CondWait,
       UnlockFirst, PthreadCondWait, Unlock, Run, SpuriousWake, ClientActs, Dispatch,
       DispatchActs, DispatchReturns, Destroy, queueVars

LEMMA TakesOneKept ==
  ASSUME PoolIInv, AnyStep
  PROVE  TakesOne'
<1> SUFFICES ASSUME NEW w \in Workers, pc'[w] = "take"
             PROVE  no_of_tasks_in_Q' # 0
  BY DEF TakesOne
<1>0. /\ ~Undefined /\ w \in Procs
      /\ \A q \in Procs : pc[q] \in Critical => mutex = q
      /\ \A v \in Workers : pc[v] = "take" => no_of_tasks_in_Q # 0
      /\ DOMAIN pc = Procs
  BY NextMoves DEF PoolIInv, Exclusive, TakesOne, Procs, Shapes
<1>1. PICK p \in Procs : Moves(p) /\ (pc'[p] = "take" => no_of_tasks_in_Q # 0)
  BY NextMoves
<1>2. pc[w] \in {"test", "take"}
  <2>1. CASE w = p /\ p \in Workers /\ WorkerMoves(p)
    BY <2>1 DEF WorkerMoves
  <2>2. CASE w = p /\ p \in Clients
    BY <2>2, PoolAssumption
  <2>3. CASE w # p
    BY <1>0, <1>1, <2>3 DEF Moves
  <2>4. CASE w = p /\ DetourMoves(p)
    BY <2>4 DEF DetourMoves
  <2> QED
    BY <1>1, <2>1, <2>2, <2>3, <2>4 DEF Moves
<1>3. mutex = w
  BY <1>0, <1>2 DEF Critical
<1>4. CASE \E v \in Workers : Take(v)
  <2>1. PICK v \in Workers : Take(v)
    BY <1>4
  <2>2. v \in Procs /\ pc[v] = "take" /\ mutex = v
    BY <1>0, <2>1 DEF Take, At, Critical, Procs
  <2>3. pc'[v] = "unlock"
    <3>1. PICK n : Notify(v, n, "unlock")
      BY <2>1 DEF Take
    <3> QED
      BY <2>2, <3>1, NotifyEffect
  <2> QED
    BY <1>3, <2>2, <2>3
<1>5. CASE \E c \in Clients : Push(c)
  <2>1. PICK c \in Clients : Push(c)
    BY <1>5
  <2>2. c \in Procs /\ mutex = c
    BY <1>0, <2>1 DEF Push, At, Critical, Procs
  <2> QED
    BY <1>3, <2>2, PoolAssumption
<1>6. CASE UNCHANGED no_of_tasks_in_Q
  <2>1. CASE pc[w] = "take"
    BY <1>0, <1>6, <2>1
  <2>2. CASE pc[w] = "test" /\ no_of_tasks_in_Q = 0
    BY <1>0, <1>1, <2>2 DEF Moves
  <2> QED
    BY <1>2, <1>6, <2>1, <2>2
<1> QED
  BY <1>4, <1>5, <1>6, ListTouched

LEMMA ChainKept ==
  ASSUME PoolIInv, AnyStep
  PROVE  /\ Chain'
         /\ \A w \in Workers : Take(w) => Walk # <<>> /\ taskQ_front = Head(Walk) /\ Walk' = Tail(Walk)
         /\ \A c \in Clients : Push(c) => Walk' = Append(Walk, task[c])
<1>0. Chain /\ Shapes
  BY DEF PoolIInv
<1>1. ASSUME NEW w \in Workers, Take(w)
      PROVE  Chain' /\ Walk # <<>> /\ taskQ_front = Head(Walk) /\ Walk' = Tail(Walk)
  <2>1. no_of_tasks_in_Q # 0
    BY <1>1, NextMoves DEF Take, At, PoolIInv, TakesOne
  <2>2. Linked(Tail(Walk), no_of_tasks_in_Q', taskQ_front', taskQ_rear', tnext')
    BY <1>0, <1>1, <2>1, PopLinks DEF Take, PopTask, Chain
  <2>3. Walk' = Tail(Walk)
    BY <2>2, LinkedIsWalk, WalkIsWalkOf
  <2>4. taskQ_front = Head(Walk) /\ Walk # <<>>
    BY <1>0, <2>1, PopLinks DEF Chain, Linked
  <2> QED
    BY <2>2, <2>3, <2>4 DEF Chain
<1>2. ASSUME NEW c \in Clients, Push(c)
      PROVE  Chain' /\ Walk' = Append(Walk, task[c])
  <2>1. task[c] \in Tasks /\ ~Contains(Walk, task[c])
    BY <1>0, <1>2 DEF Push, At, PoolIInv, OnceEach, Brings, Shapes
  <2>2. Linked(Append(Walk, task[c]), no_of_tasks_in_Q', taskQ_front', taskQ_rear', tnext')
    <3>1. /\ no_of_tasks_in_Q' = no_of_tasks_in_Q + 1 /\ taskQ_rear' = task[c]
          /\ taskQ_front' = IF no_of_tasks_in_Q = 0 THEN task[c] ELSE taskQ_front
          /\ tnext' = IF no_of_tasks_in_Q = 0
                      THEN [tnext EXCEPT ![task[c]] = NoTask]
                      ELSE [tnext EXCEPT ![taskQ_rear] = task[c], ![task[c]] = NoTask]
      BY <1>2 DEF Push, PushTask
    <3> QED
      BY <1>0, <2>1, <3>1, PushLinks DEF Chain, Shapes
  <2>3. Walk' = Append(Walk, task[c])
    BY <2>2, LinkedIsWalk, WalkIsWalkOf
  <2> QED
    BY <2>2, <2>3 DEF Chain
<1> QED
  BY <1>0, <1>1, <1>2, ListTouched, ListKept

\* The four steps that move a task, and the others.
LEMMA OnceEachKept ==
  ASSUME PoolIInv, AnyStep
  PROVE  OnceEach'
<1>0. /\ OnceEach /\ Chain /\ DOMAIN pc = Procs /\ DOMAIN task = Procs
      /\ Workers \subseteq Procs /\ Clients \subseteq Procs /\ Workers \cap Clients = {}
      /\ task \in [Procs -> Tasks \cup {NoTask}]
  BY PoolAssumption DEF PoolIInv, Shapes, Procs
<1>1. ASSUME NEW w \in Workers, Take(w)
      PROVE  OnceEach'
  <2>1. PICK m : Notify(w, m, "unlock")
    BY <1>1 DEF Take
  <2>2. pc[w] = "take" /\ w \in Procs /\ task' = [task EXCEPT ![w] = taskQ_front]
        /\ UNCHANGED <<dispatched, done>>
    BY <1>0, <1>1 DEF Take, At, ghosts
  <2>3. /\ pc'[w] = "unlock" /\ task'[w] = taskQ_front
        /\ \A q \in Procs \ {w} : task'[q] = task[q] /\ (pc'[q] = pc[q] \/ pc'[q] = "woken")
    BY <1>0, <2>1, <2>2, NotifyEffect
  <2>4. Walk' = Tail(Walk) /\ no_of_tasks_in_Q # 0
    BY <1>1, <2>2, ChainKept, NextMoves DEF PoolIInv, TakesOne
  <2>5. /\ taskQ_front \in Tasks /\ Contains(Walk, taskQ_front)
        /\ \A u : Contains(Walk', u) => Contains(Walk, u) /\ u # taskQ_front
    BY <1>0, <2>4, PopLinks DEF Chain
  <2>6. \A c \in Clients : \A t : Brings(c, t)' => Brings(c, t)
    BY <1>0, <2>3 DEF Brings
  <2>7. \A v \in Workers : \A t : Runs(v, t)' => IF v = w THEN t = taskQ_front ELSE Runs(v, t)
    BY <1>0, <2>3 DEF Runs
  <2>8. \A c \in Clients : pc'[c] \in {"d_lock", "d_push"} =>
            pc[c] \in {"d_lock", "d_push"} /\ task'[c] = task[c]
    BY <1>0, <2>3
  <2>9. \A v \in Workers : pc'[v] \in {"unlock", "run"} =>
            IF v = w THEN task'[v] = taskQ_front ELSE pc[v] \in {"unlock", "run"} /\ task'[v] = task[v]
    BY <1>0, <2>3
  <2> QED
    BY <1>0, <2>2, <2>5, <2>6, <2>7, <2>8, <2>9 DEF OnceEach
<1>2. ASSUME NEW c \in Clients, Push(c)
      PROVE  OnceEach'
  <2>1. Notify(c, 2, "d_unlock")
    BY <1>2 DEF Push
  <2>2. pc[c] = "d_push" /\ c \in Procs /\ UNCHANGED <<task, dispatched, done>>
    BY <1>0, <1>2 DEF Push, At, ghosts
  <2>3. pc'[c] = "d_unlock" /\ \A q \in Procs \ {c} : pc'[q] = pc[q] \/ pc'[q] = "woken"
    BY <2>1, <2>2, NotifyEffect
  <2>4. Walk' = Append(Walk, task[c]) /\ Walk \in Seq(Tasks)
    BY <1>0, <1>2, ChainKept DEF Chain, Linked
  <2>5. \A u : Contains(Walk', u) => Contains(Walk, u) \/ u = task[c]
    <3>1. task[c] \in Tasks
      BY <2>2 DEF OnceEach, PoolIInv, Shapes
    <3>2. /\ Len(Walk') = Len(Walk) + 1 /\ Len(Walk) \in Nat
          /\ \A i \in 1..Len(Walk) : Walk'[i] = Walk[i]
          /\ Walk'[Len(Walk) + 1] = task[c]
      BY <2>4, <3>1
    <3> QED
      BY <2>4, <3>1, <3>2 DEF Contains
  <2>6. Brings(c, task[c])
    BY <2>2 DEF Brings
  <2>7. \A d \in Clients : \A t : Brings(d, t)' => Brings(d, t) /\ d # c
    BY <1>0, <2>2, <2>3 DEF Brings
  <2>8. \A v \in Workers : \A t : Runs(v, t)' => Runs(v, t)
    BY <1>0, <2>2, <2>3 DEF Runs
  <2>9. /\ \A d \in Clients : pc'[d] \in {"d_lock", "d_push"} => pc[d] \in {"d_lock", "d_push"}
        /\ \A v \in Workers : pc'[v] \in {"unlock", "run"} => pc[v] \in {"unlock", "run"}
    BY <1>0, <2>2, <2>3
  <2>10. task[c] \in dispatched
    BY <1>0, <2>2 DEF OnceEach
  <2> QED
    BY <1>0, <2>2, <2>5, <2>6, <2>7, <2>8, <2>9, <2>10 DEF OnceEach
<1>3. ASSUME NEW w \in Workers, Run(w)
      PROVE  OnceEach'
  <2>1. /\ pc[w] = "run" /\ pc' = [pc EXCEPT ![w] = "lock"] /\ task' = [task EXCEPT ![w] = NoTask]
        /\ done' = done \cup {task[w]} /\ dispatched' = dispatched
    BY <1>3 DEF Run, At
  <2>2. Walk' = Walk
    BY <1>0, <1>3, ListKept DEF Run, queueVars
  <2>3. pc'[w] = "lock" /\ \A q \in Procs \ {w} : pc'[q] = pc[q] /\ task'[q] = task[q]
    BY <1>0, <2>1
  <2>4. Runs(w, task[w]) /\ task[w] \in dispatched
    BY <1>0, <2>1 DEF Runs, OnceEach
  <2>5. \A c \in Clients : \A t : Brings(c, t)' => Brings(c, t)
    BY <1>0, <2>3 DEF Brings
  <2>6. \A v \in Workers : \A t : Runs(v, t)' => Runs(v, t) /\ v # w
    BY <1>0, <2>3 DEF Runs
  <2>7. /\ \A c \in Clients : pc'[c] \in {"d_lock", "d_push"} =>
              pc[c] \in {"d_lock", "d_push"} /\ task'[c] = task[c]
        /\ \A v \in Workers : pc'[v] \in {"unlock", "run"} =>
              pc[v] \in {"unlock", "run"} /\ task'[v] = task[v]
    BY <1>0, <2>3
  <2> QED
    BY <1>0, <2>1, <2>2, <2>4, <2>5, <2>6, <2>7 DEF OnceEach
<1>4. ASSUME NEW c \in Clients, NEW t \in Tasks, Dispatch(c, t)
      PROVE  OnceEach'
  <2>1. /\ pc' = [pc EXCEPT ![c] = "d_lock"] /\ task' = [task EXCEPT ![c] = t]
        /\ done' = done /\ dispatched' = dispatched \cup {t} /\ t \notin dispatched
    BY <1>4 DEF Dispatch, At
  <2>2. Walk' = Walk
    BY <1>0, <1>4, ListKept DEF Dispatch, queueVars
  <2>3. /\ pc'[c] = "d_lock" /\ task'[c] = t
        /\ \A q \in Procs \ {c} : pc'[q] = pc[q] /\ task'[q] = task[q]
    BY <1>0, <2>1
  <2>4. /\ ~Contains(Walk, t) /\ t \notin done
        /\ \A d \in Clients : ~Brings(d, t)
        /\ \A w \in Workers : ~Runs(w, t)
    BY <1>0, <2>1 DEF Brings, Runs, OnceEach
  <2>5. \A d \in Clients : \A u : Brings(d, u)' => IF d = c THEN u = t ELSE Brings(d, u)
    BY <1>0, <2>3 DEF Brings
  <2>6. \A v \in Workers : \A u : Runs(v, u)' => Runs(v, u)
    BY <1>0, <2>3 DEF Runs
  <2>7. /\ \A d \in Clients : pc'[d] \in {"d_lock", "d_push"} =>
              IF d = c THEN task'[d] = t ELSE pc[d] \in {"d_lock", "d_push"} /\ task'[d] = task[d]
        /\ \A v \in Workers : pc'[v] \in {"unlock", "run"} =>
              pc[v] \in {"unlock", "run"} /\ task'[v] = task[v]
    BY <1>0, <2>3
  <2> QED
    BY <1>0, <2>1, <2>2, <2>4, <2>5, <2>6, <2>7 DEF OnceEach
<1>5. ASSUME NEW p \in Procs, NEW a, NEW b, pc[p] = a, pc' = [pc EXCEPT ![p] = b],
             b \in {"d_lock", "d_push"} => a \in {"d_lock", "d_push"},
             b \in {"unlock", "run"} => a \in {"unlock", "run"},
             task' = task \/ (task' = [task EXCEPT ![p] = NoTask] /\ b = "outside"),
             UNCHANGED <<no_of_tasks_in_Q, taskQ_front, taskQ_rear, tnext, dispatched, done>>
      PROVE  OnceEach'
  <2>1. pc'[p] = b /\ \A q \in Procs \ {p} : pc'[q] = pc[q] /\ task'[q] = task[q]
    BY <1>0, <1>5
  <2>2. b # "outside" => task' = task
    BY <1>5
  <2>3. ASSUME NEW q \in Procs
        PROVE  /\ (pc'[q] \in {"d_lock", "d_push"} =>
                     pc[q] \in {"d_lock", "d_push"} /\ task'[q] = task[q])
               /\ (pc'[q] \in {"unlock", "run"} =>
                     pc[q] \in {"unlock", "run"} /\ task'[q] = task[q])
    BY <1>5, <2>1, <2>2
  <2> QED
    BY <1>0, <1>5, <2>3, ListKept, OnceKept
<1>6. ASSUME NEW w \in Workers,
             \/ TakeMutex(w, "lock", "test") \/ TakeMutex(w, "woken", "test")
             \/ Test(w) \/ CondWait(w) \/ UnlockFirst(w) \/ PthreadCondWait(w)
             \/ Unlock(w) \/ SpuriousWake(w) \/ CreateWorker(w)
      PROVE  OnceEach'
  <2>1. PICK a, b : /\ pc[w] = a /\ pc' = [pc EXCEPT ![w] = b] /\ b \notin {"d_lock", "d_push"}
                    /\ (b \in {"unlock", "run"} => a \in {"unlock", "run"}) /\ task' = task
                    /\ UNCHANGED <<no_of_tasks_in_Q, taskQ_front, taskQ_rear, tnext, dispatched, done>>
    <3>1. CASE TakeMutex(w, "lock", "test") \/ TakeMutex(w, "woken", "test")
      BY <3>1 DEF TakeMutex, At, queueVars, ghosts
    <3>2. CASE Test(w) \/ CondWait(w) \/ UnlockFirst(w)
      BY <3>2 DEF Test, CondWait, UnlockFirst, At, queueVars, ghosts
    <3>3. CASE PthreadCondWait(w)
      <4>1. PICK b \in {"waiting", "undef"} : pc' = [pc EXCEPT ![w] = b]
        BY <3>3 DEF PthreadCondWait
      <4> QED
        BY <3>3, <4>1 DEF PthreadCondWait, At, queueVars, ghosts
    <3>4. CASE Unlock(w) \/ SpuriousWake(w) \/ CreateWorker(w)
      BY <3>4 DEF Unlock, SpuriousWake, CreateWorker, At, queueVars, ghosts
    <3> QED
      BY <1>6, <3>1, <3>2, <3>3, <3>4
  <2> QED
    BY <1>0, <1>5, <2>1
<1>7. ASSUME NEW c \in Clients,
             TakeMutex(c, "d_lock", "d_push") \/ DispatchReturns(c) \/ Destroy(c)
      PROVE  OnceEach'
  <2>1. PICK a, b : /\ pc[c] = a /\ pc' = [pc EXCEPT ![c] = b]
                    /\ (b \in {"d_lock", "d_push"} => a \in {"d_lock", "d_push"})
                    /\ b \notin {"unlock", "run"}
                    /\ (task' = task \/ (task' = [task EXCEPT ![c] = NoTask] /\ b = "outside"))
                    /\ UNCHANGED <<no_of_tasks_in_Q, taskQ_front, taskQ_rear, tnext, dispatched, done>>
    <3>1. CASE TakeMutex(c, "d_lock", "d_push") \/ DispatchReturns(c)
      BY <3>1 DEF TakeMutex, DispatchReturns, At, queueVars, ghosts
    <3>2. CASE Destroy(c)
      <4>1. PICK b \in {"gone", "undef"} : pc' = [pc EXCEPT ![c] = b]
        BY <3>2 DEF Destroy
      <4> QED
        BY <3>2, <4>1 DEF Destroy, At, queueVars
    <3> QED
      BY <1>7, <3>1, <3>2
  <2> QED
    BY <1>0, <1>5, <2>1
<1>8. CASE CreateReturns
  <2>1. /\ pc[Main] = "creating" /\ pc' = [pc EXCEPT ![Main] = "outside"] /\ task' = task
        /\ UNCHANGED <<no_of_tasks_in_Q, taskQ_front, taskQ_rear, tnext, dispatched, done>>
        /\ Main \in Procs
    BY <1>8, PoolAssumption DEF CreateReturns, At, queueVars, ghosts, Procs
  <2> QED
    BY <1>5, <2>1
<1>9. ASSUME NEW p \in Procs, Detour(p)
      PROVE  OnceEach'
  <2>1. UNCHANGED <<no_of_tasks_in_Q, taskQ_front, taskQ_rear, tnext, task, dispatched, done>>
    BY <1>9, DetourIs
  <2>2. PICK b \in {"blocked", "gone", "undef"} : pc' = [pc EXCEPT ![p] = b]
    BY <1>9, DetourIs
  <2> QED
    BY <1>5, <2>1, <2>2
<1> QED
  BY <1>1, <1>2, <1>3, <1>4, <1>6, <1>7, <1>8, <1>9
     DEF AnyStep, Create, WorkerActs, ClientActs, DispatchActs

LEMMA PoolInvariance == Spec => []PoolIInv
<1>1. ASSUME PoolIInv, Next
      PROVE  PoolIInv'
  BY <1>1, NextIsAnyStep, ShapesKept, RolesKept, ExclusiveKept, TakesOneKept, ChainKept, OnceEachKept, BornKept
     DEF PoolIInv
<1>2. ASSUME PoolIInv, UNCHANGED vars
      PROVE  PoolIInv'
  <2>1. Walk' = Walk /\ Chain'
    BY <1>2, ListKept DEF PoolIInv, vars, queueVars
  <2>2. (Undefined' <=> Undefined) /\ \A p, t : (Brings(p, t)' <=> Brings(p, t)) /\ (Runs(p, t)' <=> Runs(p, t))
    BY <1>2 DEF vars, Undefined, Brings, Runs
  <2>3. Shapes' /\ Roles' /\ Born'
    BY <1>2 DEF PoolIInv, vars, queueVars, ghosts, Shapes, Roles, Born
  <2>4. Exclusive' /\ TakesOne'
    BY <1>2, <2>2 DEF PoolIInv, vars, queueVars, Exclusive, TakesOne
  <2>5. OnceEach'
    BY <1>2, <2>1, <2>2 DEF PoolIInv, vars, ghosts, OnceEach
  <2> QED
    BY <2>1, <2>3, <2>4, <2>5 DEF PoolIInv
<1> QED
  BY <1>1, <1>2, PoolInitIInv, PTL DEF Spec

----------------------------------------------------------------------------
(***************************************************************************)
(* The theorems.                                                           *)
(***************************************************************************)

\* A list without repetitions is no longer than its elements are many.
LEMMA DistinctIsShort ==
  ASSUME NEW S, IsFiniteSet(S), NEW q \in Seq(S), Distinct(q)
  PROVE  Len(q) <= Cardinality(S)
<1>1. q \in Injection(1..Len(q), S)
  BY DEF Distinct, Injection, IsInjective
<1> DEFINE N == Len(q)
<1>2. N \in Nat /\ N \in Int /\ 1 \in Int
  OBVIOUS
<1> HIDE DEF N
<1>3. Cardinality(1..N) = N
  <2>1. Cardinality(1..N) = IF 1 > N THEN 0 ELSE N - 1 + 1
    BY ONLY <1>2, FS_Interval
  <2> QED
    BY <1>2, <2>1
<1> QED
  BY <1>1, <1>3, FS_Injection DEF N

\* Each variable of the pool keeps its type in every build: the counters stay
\* within the tasks and the threads there are, and whoever runs has a task
\* (create_threadpool, threadpool_scheduler, dispatch, destroy_threadpool).
THEOREM PoolTypeCorrect ==
  ASSUME IsFiniteSet(Tasks)
  PROVE  Spec => []PoolTypeOK
<1>1. ASSUME PoolIInv
      PROVE  PoolTypeOK
  <2>0. Shapes /\ Chain /\ OnceEach /\ Born
    BY <1>1 DEF PoolIInv
  <2>1. no_of_tasks_in_Q \in 0..Cardinality(Tasks)
    <3>1. Walk \in Seq(Tasks) /\ Distinct(Walk) /\ no_of_tasks_in_Q = Len(Walk)
      BY <2>0 DEF Chain, Linked
    <3>2. no_of_tasks_in_Q <= Cardinality(Tasks) /\ Cardinality(Tasks) \in Nat
      BY <3>1, DistinctIsShort, FS_CardinalityType
    <3> QED
      BY <2>0, <3>2 DEF Shapes
  <2>2. no_of_threads \in Cardinality(Workers)..(2 * Cardinality(Workers))
    <3> DEFINE B == {w \in Workers : pc[w] # "unborn"}
    <3>1. IsFiniteSet(Workers) /\ B \subseteq Workers
      BY PoolAssumption
    <3>2. /\ Cardinality(B) <= Cardinality(Workers)
          /\ Cardinality(B) \in Nat /\ Cardinality(Workers) \in Nat
      BY <3>1, FS_Subset, FS_CardinalityType
    <3> QED
      BY <2>0, <3>2 DEF Born
  <2>3. {taskQ_front, taskQ_rear} \subseteq Tasks \cup {NoTask}
    BY <2>0 DEF Chain, Linked
  <2>4. \A w \in Workers : pc[w] \in {"unlock", "run"} => task[w] \in Tasks
    BY <2>0 DEF OnceEach, Shapes
  <2> QED
    BY <2>0, <2>1, <2>2, <2>3, <2>4 DEF PoolTypeOK, Shapes
<1> QED
  BY <1>1, PoolInvariance, PTL

\* The tasks that are being run.
Running == {task[w] : w \in {v \in Workers : pc[v] \in {"unlock", "run"}}}

LEMMA RunningIs == \A t : t \in Running <=> \E w \in Workers : Runs(w, t)
BY DEF Running, Runs

\* A step of the pool is a step of the promise: the push hands a task in, the
\* take starts it, the call's return finishes it; no other step moves a task.
LEMMA PoolStepImplements ==
  ASSUME PoolIInv, AnyStep
  PROVE  \/ \E t \in Tasks : Promise!Submit(t) \/ Promise!Finish(t)
         \/ Promise!Start
         \/ UNCHANGED <<Walk, Running, done>>
<1>0. /\ Shapes /\ OnceEach /\ Chain /\ OnceEach' /\ Chain' /\ DOMAIN pc = Procs /\ DOMAIN task = Procs
      /\ Workers \subseteq Procs /\ Clients \subseteq Procs /\ Workers \cap Clients = {}
  BY ChainKept, OnceEachKept, PoolAssumption DEF PoolIInv, Shapes, Procs
<1>1. ASSUME NEW w \in Workers, Take(w)
      PROVE  Promise!Start
  <2>1. Walk # <<>> /\ Walk' = Tail(Walk) /\ taskQ_front = Head(Walk)
    BY <1>1, ChainKept
  <2>2. PICK m : Notify(w, m, "unlock")
    BY <1>1 DEF Take
  <2>3. pc[w] = "take" /\ w \in Procs /\ task' = [task EXCEPT ![w] = taskQ_front] /\ done' = done
    BY <1>0, <1>1 DEF Take, At, ghosts
  <2>4. /\ pc'[w] = "unlock" /\ task'[w] = taskQ_front
        /\ \A q \in Procs \ {w} : task'[q] = task[q]
             /\ (pc'[q] = pc[q] \/ (pc[q] \in {"waiting", "undef"} /\ pc'[q] = "woken"))
    BY <1>0, <2>2, <2>3, NotifyEffect
  <2>5. \A v \in Workers : \A t : Runs(v, t)' <=> IF v = w THEN t = taskQ_front ELSE Runs(v, t)
    BY <1>0, <2>4 DEF Runs
  <2>6. \A t : ~Runs(w, t)
    BY <2>3 DEF Runs
  <2>7. \A t : t \in Running' <=> t \in Running \/ t = taskQ_front
    BY <2>5, <2>6 DEF Running, Runs
  <2>8. Running' = Running \cup {Head(Walk)}
    BY <2>1, <2>7
  <2> QED
    BY <2>1, <2>3, <2>8 DEF Promise!Start, Running
<1>2. ASSUME NEW c \in Clients, Push(c)
      PROVE  \E t \in Tasks : Promise!Submit(t)
  <2>1. Walk' = Append(Walk, task[c])
    BY <1>2, ChainKept
  <2>2. Notify(c, 2, "d_unlock")
    BY <1>2 DEF Push
  <2>3. pc[c] = "d_push" /\ c \in Procs /\ task' = task /\ done' = done
    BY <1>0, <1>2 DEF Push, At, ghosts
  <2>4. /\ pc'[c] = "d_unlock"
        /\ \A q \in Procs \ {c} : pc'[q] = pc[q]
                                  \/ (pc[q] \in {"waiting", "undef"} /\ pc'[q] = "woken")
    BY <1>0, <2>2, <2>3, NotifyEffect
  <2>5. Running' = Running
    BY <1>0, <2>3, <2>4 DEF Running
  <2>6. Brings(c, task[c]) /\ task[c] \in Tasks
    BY <1>0, <2>3 DEF Brings, OnceEach, Shapes
  <2>7. task[c] \notin Running /\ task[c] \notin done /\ ~Contains(Walk, task[c])
    BY <1>0, <2>6, RunningIs DEF OnceEach
  <2>8. Promise!Submit(task[c])
    BY <2>1, <2>3, <2>5, <2>6, <2>7 DEF Promise!Submit, Promise!Contains, Contains, Running
  <2> QED
    BY <2>6, <2>8
<1>3. ASSUME NEW w \in Workers, Run(w)
      PROVE  \E t \in Tasks : Promise!Finish(t)
  <2>1. /\ pc[w] = "run" /\ pc' = [pc EXCEPT ![w] = "lock"] /\ task' = [task EXCEPT ![w] = NoTask]
        /\ done' = done \cup {task[w]}
    BY <1>3 DEF Run, At
  <2>2. Walk' = Walk
    BY <1>0, <1>3, ListKept DEF Run, queueVars
  <2>3. pc'[w] = "lock" /\ \A q \in Procs \ {w} : pc'[q] = pc[q] /\ task'[q] = task[q]
    BY <1>0, <2>1
  <2>4. Runs(w, task[w]) /\ task[w] \in Tasks
    BY <1>0, <2>1 DEF Runs, OnceEach, Shapes
  <2>5. \A v \in Workers : \A t : Runs(v, t)' <=> Runs(v, t) /\ v # w
    BY <1>0, <2>3 DEF Runs
  <2>6. \A t : Runs(w, t) => t = task[w]
    BY DEF Runs
  <2>7. \A v \in Workers : Runs(v, task[w]) => v = w
    BY <1>0, <2>4 DEF OnceEach
  <2>8. \A t : t \in Running' <=> t \in Running /\ t # task[w]
    <3>1. \A t : t \in Running' <=> \E v \in Workers : Runs(v, t)'
      BY DEF Running, Runs
    <3> QED
      BY <2>5, <2>6, <2>7, <3>1, RunningIs
  <2>9. Running' = Running \ {task[w]}
    BY <2>8
  <2>10. task[w] \in Running
    BY <2>4, RunningIs
  <2>11. Promise!Finish(task[w])
    BY <2>1, <2>2, <2>4, <2>9, <2>10 DEF Promise!Finish, Running
  <2> QED
    BY <2>4, <2>11
<1>4. CASE (\A w \in Workers : ~Take(w) /\ ~Run(w)) /\ \A c \in Clients : ~Push(c)
  <2> SUFFICES UNCHANGED <<Walk, Running, done>>
    OBVIOUS
  <2>1. Walk' = Walk
    BY <1>0, <1>4, ListTouched, ListKept
  <2>2. \A p \in Procs : Detour(p) => done' = done /\ task' = task
    BY DetourIs
  <2>3. done' = done
    BY <1>4, <2>2 DEF AnyStep, Create, CreateWorker, CreateReturns, WorkerActs, TakeMutex, Test, CondWait,
       UnlockFirst, PthreadCondWait, Unlock, SpuriousWake, ClientActs, Dispatch,
       DispatchActs, DispatchReturns, Destroy, ghosts
  <2>4. \A w \in Workers : task'[w] = task[w]
    BY <1>0, <1>4, <2>2 DEF AnyStep, Create, CreateWorker, CreateReturns, WorkerActs, TakeMutex, Test,
       CondWait, UnlockFirst, PthreadCondWait, Unlock, SpuriousWake, ClientActs, Dispatch,
       DispatchActs, DispatchReturns, Destroy
  <2>5. PICK p \in Procs : \E b :
          /\ pc' = [pc EXCEPT ![p] = b]
          /\ (p \in Workers => (b \in {"unlock", "run"} <=> pc[p] \in {"unlock", "run"}))
    <3> DEFINE Moved(p) == \E b :
                 /\ pc' = [pc EXCEPT ![p] = b]
                 /\ (p \in Workers => (b \in {"unlock", "run"} <=> pc[p] \in {"unlock", "run"}))
    <3>1. ASSUME NEW c \in Clients, ClientActs(c) \/ Destroy(c)
          PROVE  \E b : pc' = [pc EXCEPT ![c] = b]
      BY <1>4, <3>1 DEF ClientActs, Dispatch, DispatchActs, TakeMutex, DispatchReturns, Destroy
    <3>2. ASSUME NEW w \in Workers, WorkerActs(w) \/ SpuriousWake(w) \/ CreateWorker(w)
          PROVE  \E b : /\ pc' = [pc EXCEPT ![w] = b]
                        /\ b \in {"unlock", "run"} <=> pc[w] \in {"unlock", "run"}
      <4>1. CASE PthreadCondWait(w)
        <5>1. PICK b \in {"waiting", "undef"} : pc' = [pc EXCEPT ![w] = b]
          BY <4>1 DEF PthreadCondWait
        <5> QED
          BY <4>1, <5>1 DEF PthreadCondWait, At
      <4>2. CASE TakeMutex(w, "lock", "test") \/ TakeMutex(w, "woken", "test")
        BY <4>2 DEF TakeMutex, At
      <4>3. CASE Test(w) \/ CondWait(w) \/ UnlockFirst(w)
        BY <4>3 DEF Test, CondWait, UnlockFirst, At
      <4>4. CASE Unlock(w) \/ SpuriousWake(w) \/ CreateWorker(w)
        BY <4>4 DEF Unlock, SpuriousWake, CreateWorker, At
      <4> QED
        BY <1>4, <3>2, <4>1, <4>2, <4>3, <4>4 DEF WorkerActs
    <3>3. ASSUME CreateReturns
          PROVE  \E p \in Procs : Moved(p)
      BY <3>3, PoolAssumption DEF CreateReturns, Procs
    <3>4. \A c \in Clients : c \notin Workers /\ c \in Procs
      BY PoolAssumption DEF Procs
    <3>5. ASSUME NEW c \in Clients, ClientActs(c) \/ Destroy(c)
          PROVE  \E p \in Procs : Moved(p)
      BY <3>1, <3>4, <3>5
    <3>6. ASSUME NEW w \in Workers, WorkerActs(w) \/ SpuriousWake(w) \/ CreateWorker(w)
          PROVE  \E p \in Procs : Moved(p)
      BY <1>0, <3>2, <3>6
    <3>8. ASSUME NEW q \in Procs, Detour(q)
          PROVE  \E p \in Procs : Moved(p)
      <4>1. PICK b \in {"blocked", "gone", "undef"} : pc' = [pc EXCEPT ![q] = b]
        BY <3>8, DetourIs
      <4>2. pc[q] \in {"lock", "woken", "d_lock", "blocked"}
        BY <3>8, DetourIs
      <4> QED
        BY <4>1, <4>2
    <3>7. \E p \in Procs : Moved(p)
      <4> HIDE DEF Moved
      <4> QED
        BY <3>3, <3>5, <3>6, <3>8 DEF AnyStep, Create
    <3> QED
      BY <3>7
  <2>6. \A w \in Workers : pc'[w] \in {"unlock", "run"} <=> pc[w] \in {"unlock", "run"}
    BY <1>0, <2>5
  <2> QED
    BY <2>1, <2>3, <2>4, <2>6 DEF Running
<1> QED
  BY <1>1, <1>2, <1>3, <1>4

\* In every build and up to the first data race the linked list, its counter and
\* the monitor around them start every task once and in the order of the calls of
\* dispatch, whatever order the workers are woken and scheduled in.
THEOREM PoolKeepsPromise == Spec => ImplementsPool
<1>1. Init => Promise!Init
  <2> SUFFICES ASSUME Init
               PROVE  Promise!Init
    OBVIOUS
  <2>1. Linked(<<>>, 0, NoTask, NoTask, tnext)
    BY DEF Linked, Distinct
  <2>2. Walk = <<>>
    BY <2>1, LinkedIsWalk, WalkIsWalkOf DEF Init
  <2>3. \A w \in Workers : pc[w] = "unborn"
    BY PoolAssumption DEF Init, Procs
  <2> QED
    BY <2>2, <2>3 DEF Init, Promise!Init
<1>2. ASSUME PoolIInv, [Next]_vars
      PROVE  [Promise!Next]_(Promise!poolVars)
  <2>1. CASE Next
    BY <1>2, <2>1, NextIsAnyStep, PoolStepImplements DEF Promise!Next, Promise!poolVars, Running
  <2>2. CASE UNCHANGED vars
    <3>1. Walk' = Walk
      BY <1>2, <2>2, ListKept DEF PoolIInv, vars, queueVars
    <3> QED
      BY <2>2, <3>1 DEF vars, ghosts, Promise!poolVars
  <2> QED
    BY <1>2, <2>1, <2>2
<1> QED
  BY <1>1, <1>2, PoolInvariance, PTL DEF Spec, ImplementsPool, Promise!Spec

=============================================================================
