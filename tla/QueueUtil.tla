----------------------------- MODULE QueueUtil -----------------------------
(***************************************************************************)
(* The linked lists of pthreads/queue_util.c as operators on sequences.    *)
(*                                                                         *)
(* A list is the sequence of what a walk from its head pointer visits.     *)
(* The run queue's tail pointer is one bit, tail_ok: it points at the last *)
(* node of the walk.  When it does not, mypthread_dequeue_first_active     *)
(* has freed the node it points at.  A write through it lands in the freed *)
(* chunk (or in the new node itself when malloc hands the chunk out        *)
(* again), and the walk from head never meets the new node.                *)
(* Abstracted: that chunk now being a node of another list.                *)
(***************************************************************************)
EXTENDS Naturals, Sequences, SequencesExt

----------------------------------------------------------------------------
\* The mypthread queue: q is the walk from mypthread_q_head.

\* (Bugs) The link from the old tail is forgotten; the node goes to the head.
LlAddNoLink(q, tail_ok, t) == IF q = <<>> THEN <<t>> ELSE q
LlAddFirst(q, tail_ok, t) == <<t>> \o q

\* ll_add: the node is reachable when the list was empty or its tail is good.
LlAdd(q, tail_ok, t) ==
  IF q = <<>> \/ tail_ok THEN Append(q, t) ELSE q

\* Is *tail the last node of the walk once ll_add is done?
TailAfterAdd(q, tail_ok) == q = <<>> \/ tail_ok

\* The positions mypthread_dequeue_first_active would stop at: at most one.
FirstActive(q, state) ==
  {i \in DOMAIN q : /\ state[q[i]] = "active"
                    /\ \A j \in 1..(i - 1) : state[q[j]] # "active"}

\* (Bug) The node stays linked.
UnlinkNothing(q, i) == q

\* The list without its i-th node (lines 51-60: head and both neighbours).
Unlink(q, i) == RemoveAt(q, i)

\* mypthread_q_tail is never assigned by the dequeue: taking the last node
\* leaves it dangling, unless the list is empty, where ll_add sets it anew.
TailAfterUnlink(q, tail_ok, i) ==
  \/ Len(q) = 1
  \/ tail_ok /\ i < Len(q)

\* (Bug) Nobody is woken.
UpdateNobody(q, state, dep, t) == state

\* mypthread_update_waiting_threads: whoever in the queue depends on t is made
\* active, whatever state it is in.
UpdateWaiting(q, state, dep, t) ==
  [u \in DOMAIN state |->
     IF Contains(q, u) /\ dep[u] = t THEN "active" ELSE state[u]]

\* (Bug) The list is freed, its threads are not woken.
LlFreeNoWake(q, state) == state

\* ll_free: every thread of the list is made active; the list becomes empty.
LlFree(q, state) ==
  [u \in DOMAIN state |-> IF Contains(q, u) THEN "active" ELSE state[u]]

\* ll_free_one: the head's thread is made active; the list becomes Tail(q).
LlFreeOne(q, state) ==
  IF q = <<>> THEN state ELSE [state EXCEPT ![Head(q)] = "active"]

----------------------------------------------------------------------------
\* The kthread list: l is the walk from mykthread_ll_head, tl the node whose
\* next pointer mykthread_add writes.

\* The first node becomes the head.  Otherwise tl->next = k: what followed tl
\* is cut off, and a tl outside the walk takes k along with it.
KtLink(l, tl, k) ==
  IF l = <<>> THEN <<k>>
  ELSE IF Contains(l, tl)
       THEN LET i == CHOOSE i \in DOMAIN l : l[i] = tl
            IN  Append(SubSeq(l, 1, i), k)
       ELSE l

\* Where the walk of mykthread_is_running(t) ends early: the first kthread that
\* executes t, or that has no thread yet (its th pointer is null).
WalkEnd(l, th, t, null) ==
  {i \in DOMAIN l : /\ th[l[i]] \in {t, null}
                    /\ \A j \in 1..(i - 1) : th[l[j]] \notin {t, null}}

\* mykthread_is_running: does the walk find t?
IsRunning(l, th, t, null) ==
  \E i \in WalkEnd(l, th, t, null) : th[l[i]] = t

\* temp->kth->th->th_id with a null th: the walk faults before it finds t.
WalkFaults(l, th, t, null) ==
  \E i \in WalkEnd(l, th, t, null) : th[l[i]] = null

=============================================================================
