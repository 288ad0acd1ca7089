----------------------------- MODULE MCSamples -----------------------------
(***************************************************************************)
(* The sort and the counting samples for TLC: one of the programs runs.    *)
(***************************************************************************)
EXTENDS MtSort, Samples

programVars == <<callVars, sortVars, samplesVars>>

Init ==
  /\ SortData /\ SamplesData /\ CallsInit
  /\ SortStart \/ SamplesStart

\* mypthread on several kernel threads has lost a thread or the semaphore of
\* its mutexes: the others may wait for ever.
Lost ==
  /\ policy = "KLALWAYS"
  /\ mutex_sem = 0 \/ blocked # {} \/ \E t \in DOMAIN pc : At(t, "gone")

\* The end of a program, and a look of pingpong's main that finds threads left.
Ended ==
  /\ pc[MainThread] \in {"done", "fatal", "exited", "poll"} \/ Lost
  /\ UNCHANGED programVars

Next ==
  \/ SortNext /\ UNCHANGED samplesVars
  \/ SamplesNext /\ UNCHANGED sortVars
  \/ Ended

Spec ==
  /\ Init /\ [][Next]_programVars
  /\ \A t \in SortThreads : WF_programVars(SortStep(t) /\ UNCHANGED samplesVars)
  /\ \A t \in SortThreads : SF_programVars(TakesTurn(t) /\ UNCHANGED samplesVars)
  /\ \A t \in Threads \cup {MainThread} : WF_programVars(SamplesStep(t) /\ UNCHANGED sortVars)

\* Every variable of both modules has its type (and mutexes live long enough).
TypesOK == SortTypeOK /\ SamplesTypeOK

=============================================================================
