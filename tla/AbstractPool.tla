---------------------------- MODULE AbstractPool ----------------------------
(***************************************************************************)
(* What a thread pool promises: a task handed in is started once, in the   *)
(* order in which tasks were handed in, and finishes once.                 *)
(***************************************************************************)
EXTENDS Sequences, SequencesExt

CONSTANT Tasks

VARIABLES queue, running, done

poolVars == <<queue, running, done>>

Init == queue = <<>> /\ running = {} /\ done = {}

Submit(t) ==
  /\ t \notin running \cup done /\ ~Contains(queue, t)
  /\ queue' = Append(queue, t)
  /\ UNCHANGED <<running, done>>

Start ==
  /\ queue # <<>>
  /\ queue' = Tail(queue)
  /\ running' = running \cup {Head(queue)}
  /\ UNCHANGED done

Finish(t) ==
  /\ t \in running
  /\ running' = running \ {t}
  /\ done' = done \cup {t}
  /\ UNCHANGED queue

Next == Start \/ \E t \in Tasks : Submit(t) \/ Finish(t)

Spec == Init /\ [][Next]_poolVars

=============================================================================
