--------------------------- MODULE AbstractMutex ---------------------------
(***************************************************************************)
(* What a mutex promises its clients: it has at most one holder, a thread  *)
(* gets it only when nobody has it, and only the thread that has it gives  *)
(* it up.  actor is the thread whose step it is, so that a release by      *)
(* anybody but the holder is no step of this specification.                *)
(***************************************************************************)
CONSTANTS Threads, Mutexes, NoThread

VARIABLES holder, actor

Init ==
  /\ holder = [m \in Mutexes |-> NoThread]
  /\ actor = NoThread

Acquire(t, m) ==
  /\ actor' = t
  /\ holder[m] = NoThread
  /\ holder' = [holder EXCEPT ![m] = t]

Release(t, m) ==
  /\ actor' = t
  /\ holder[m] = t
  /\ holder' = [holder EXCEPT ![m] = NoThread]

Next == \E t \in Threads, m \in Mutexes : Acquire(t, m) \/ Release(t, m)

Spec == Init /\ [][Next]_<<holder, actor>>

=============================================================================
