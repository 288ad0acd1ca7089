------------------------------ MODULE Hw1Queue ------------------------------
(***************************************************************************)
(* The first homework library: hw1/mypthread.c with its circular run queue *)
(* ("library"), and the test program hw1/mypthread_queue.c of the same     *)
(* queue ("queue").  Nodes are malloc's: a freed one is given out again    *)
(* with what it held.                                                      *)
(***************************************************************************)
EXTENDS Integers, FiniteSets, Sequences

CONSTANTS
  Threads, MainThread,  \* the clients' mypthread_t or tcb structures
  Nodes, NULL, Junk,    \* Junk: what fresh memory holds
  Programs, Policies,   \* subsets of {"library", "queue"} and 0 .. 4
  CpuCores,             \* the "cpu cores" lines there may be, or NoLine, NoFile
  NoLine, NoFile,
  NumCpus,              \* sysconf's
  MaxCount              \* bound on thread_count

ASSUME Hw1Assumption ==
  /\ IsFiniteSet(Nodes) /\ NULL \notin Nodes /\ Junk \notin Nodes
  /\ MainThread \notin Threads /\ Junk \notin Threads
  /\ Policies \subseteq Nat /\ NumCpus \in Nat \ {0} /\ MaxCount \in Nat \ {0, 1}
  /\ CpuCores \subseteq Nat \cup {NoLine, NoFile}

VARIABLES
  program, cpuinfo,
  front, rear, next, tcb, allocated,
  thread_count, thread_id, policy_defined,
  popped,     \* what the last pop returned
  ended       \* crash, or exit of the process

ring == <<front, rear, next, tcb, allocated>>
threads == <<thread_count, thread_id, policy_defined>>
fixed == <<program, cpuinfo>>
vars == <<fixed, ring, threads, popped, ended>>

Init ==
  /\ program \in Programs /\ cpuinfo \in CpuCores
  /\ front = NULL /\ rear = NULL /\ allocated = {}
  /\ next = [m \in Nodes |-> Junk] /\ tcb = [m \in Nodes |-> Junk]
  /\ thread_count = 0 /\ policy_defined = 0
  /\ thread_id = [t \in Threads \cup {MainThread} |-> 0]
  /\ popped = Junk /\ ended = FALSE

Crash == ended' = TRUE /\ UNCHANGED <<fixed, ring, threads, popped>>

----------------------------------------------------------------------------
\* The ring.  r holds its front, rear, next, tcb and allocated nodes.

Ring == [front |-> front, rear |-> rear, next |-> next, tcb |-> tcb, allocated |-> allocated]
RingBecomes(r) ==
  /\ front' = r.front /\ rear' = r.rear /\ next' = r.next
  /\ tcb' = r.tcb /\ allocated' = r.allocated

\* (Bug) rear->next = front is missing: the new node's link stays null.
PushOpen(r, t, temp) ==
  [front |-> IF r.front = NULL THEN temp ELSE r.front, rear |-> temp,
   next |-> [IF r.front = NULL THEN r.next ELSE [r.next EXCEPT ![r.rear] = temp]
             EXCEPT ![temp] = NULL],
   tcb |-> [r.tcb EXCEPT ![temp] = t],
   allocated |-> r.allocated \cup {temp}]

\* push and push_thread, into the fresh node temp
push(r, t, temp) ==
  LET first == IF r.front = NULL THEN temp ELSE r.front
      linked == IF r.front = NULL THEN r.next ELSE [r.next EXCEPT ![r.rear] = temp]
  IN  [front |-> first, rear |-> temp,
       next |-> [linked EXCEPT ![temp] = first],
       tcb |-> [r.tcb EXCEPT ![temp] = t],
       allocated |-> r.allocated \cup {temp}]

\* (Bug) Only an empty ring counts as empty: the last element leaves it.
AtMostNone == front = NULL

\* pop's test for an empty ring takes a ring of one element for empty, too.
AtMostOne == front = rear \/ front = NULL

\* pop and pop_thread.  Of a ring that counts as empty they return memory that
\* nobody has written; mypthread_queue.c, which passes a character to printf
\* as its format, crashes.
Pop ==
  /\ \/ /\ ~AtMostOne
        /\ popped' = tcb[front]
        /\ front' = next[front]
        /\ next' = [next EXCEPT ![rear] = next[front]]
        /\ allocated' = allocated \ {front}
        /\ UNCHANGED <<rear, tcb, ended>>
     \/ /\ AtMostOne /\ program = "library"
        /\ popped' = Junk
        /\ UNCHANGED <<ring, ended>>
     \/ /\ AtMostOne /\ program = "queue"
        /\ ended' = TRUE
        /\ UNCHANGED <<ring, popped>>
  /\ UNCHANGED <<fixed, threads>>

\* traverse follows the null front of an empty ring.
Traverse == front = NULL /\ Crash

Walk[j \in 0 .. Cardinality(Nodes)] == IF j = 0 THEN front ELSE next[Walk[j - 1]]
Contents == IF front = NULL THEN <<>> ELSE [j \in 1 .. Cardinality(allocated) |-> tcb[Walk[j - 1]]]
Queued(t) == \E m \in allocated : tcb[m] = t

\* main of mypthread_queue.c: a thread that is not in the ring is pushed.
Push(t) ==
  /\ program = "queue" /\ ~Queued(t)
  /\ \E temp \in Nodes \ allocated : RingBecomes(push(Ring, t, temp))
  /\ UNCHANGED <<fixed, threads, popped, ended>>

----------------------------------------------------------------------------
\* kernelthreadcount.c

\* Without the line, the last one read gives 0; without the file, the result
\* is what the stack holds.
get_no_of_cores ==
  CASE cpuinfo = NoFile -> {-1, 0, 1}
    [] cpuinfo = NoLine -> {0}
    [] OTHER -> {cpuinfo}

\* no_of_kt stays 0: a policy asks for a kernel thread with every create, or
\* never.  (What the thread would run is not in the source: of the clone only
\* its failure is modelled.)  get_no_of_hyperthreads divides by the cores.
WantsKthread(cores) ==
  CASE policy_defined = 1 -> 0 < cores
    [] policy_defined = 2 -> 0 < cores /\ cores <= NumCpus
    [] OTHER -> policy_defined = 3

DividesByZero(cores) == policy_defined = 2 /\ cores = 0

----------------------------------------------------------------------------
\* mypthread.c

mypthread_init(kt) ==
  /\ program = "library"
  /\ policy_defined' = kt
  /\ UNCHANGED <<fixed, ring, thread_count, thread_id, popped, ended>>

\* (Bug) Both are counted before they are numbered.
NumberedAhead(t) ==
  IF thread_count = 0
  THEN /\ thread_id' = [thread_id EXCEPT ![MainThread] = 1, ![t] = 2]
       /\ thread_count' = 2
  ELSE /\ thread_id' = [thread_id EXCEPT ![t] = thread_count + 1]
       /\ thread_count' = thread_count + 1

\* The first create counts main before it numbers it (++thread_count), t after.
Numbered(t) ==
  IF thread_count = 0
  THEN /\ thread_id' = [thread_id EXCEPT ![MainThread] = 1, ![t] = 1]
       /\ thread_count' = 2
  ELSE /\ thread_id' = [thread_id EXCEPT ![t] = thread_count]
       /\ thread_count' = thread_count + 1

\* The first create pushes main as well.
mypthread_create(t) ==
  /\ program = "library" /\ ~Queued(t) /\ thread_count < MaxCount
  /\ \E cores \in get_no_of_cores : ~DividesByZero(cores)
  /\ \E temp, temp2 \in Nodes \ allocated :
       IF thread_count = 0
       THEN temp # temp2 /\ RingBecomes(push(push(Ring, MainThread, temp), t, temp2))
       ELSE temp = temp2 /\ RingBecomes(push(Ring, t, temp))
  /\ Numbered(t)
  /\ UNCHANGED <<fixed, policy_defined, popped, ended>>

\* A clone that fails, or a division by zero, ends the process.
CreateDies ==
  /\ program = "library"
  /\ \E cores \in get_no_of_cores : WantsKthread(cores) \/ DividesByZero(cores)
  /\ Crash

Next ==
  /\ ~ended
  /\ \/ Pop \/ Traverse \/ CreateDies
     \/ \E t \in Threads : Push(t) \/ mypthread_create(t)
     \/ \E kt \in Policies : mypthread_init(kt)

Spec == Init /\ [][Next]_vars

----------------------------------------------------------------------------
(***************************************************************************)
(* Properties                                                              *)
(***************************************************************************)

\* Every variable has its type.
Hw1TypeOK ==
  /\ front \in Nodes \cup {NULL} /\ rear \in Nodes \cup {NULL}
  /\ next \in [Nodes -> Nodes \cup {NULL, Junk}]
  /\ tcb \in [Nodes -> Threads \cup {MainThread, Junk}] /\ allocated \subseteq Nodes
  /\ thread_count \in 0 .. MaxCount
  /\ thread_id \in [Threads \cup {MainThread} -> 0 .. MaxCount - 1]
  /\ popped \in Threads \cup {MainThread, Junk} /\ ended \in BOOLEAN

\* From the front, the links lead through every node that is not freed to the
\* rear and back to the front; an empty ring has no node (push and pop).
RingIntact ==
  IF front = NULL THEN allocated = {}
  ELSE LET size == Cardinality(allocated) IN
       /\ size > 0 /\ {Walk[j] : j \in 0 .. size - 1} = allocated
       /\ Walk[size - 1] = rear /\ Walk[size] = front

\* The ring is a queue: threads are added at its end, and taken from its front
\* unless one is left, which stays.
QueueIsFifo ==
  [][\/ Contents' = Contents
     \/ \E t \in Threads : Contents' \in {Append(Contents, t), <<MainThread, t>>}
     \/ Len(Contents) > 1 /\ Contents' = Tail(Contents) /\ popped' = Head(Contents)]_vars

=============================================================================
