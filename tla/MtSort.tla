------------------------------- MODULE MtSort -------------------------------
(***************************************************************************)
(* pthreads/mtsort.c: one thread per pair of neighbours orders its pair    *)
(* under the mutexes of both places; a checker takes all mutexes, looks    *)
(* whether the list is sorted, and if so sets the flag that everybody      *)
(* reads, unlocked, at the head of its loop.                               *)
(*                                                                         *)
(* It runs on mypthread only.  Under ULONLY the threads are cooperative:   *)
(* one that runs goes on until it yields, exits or joins.  The other       *)
(* policies interleave them, and there a lock that is contended loses its  *)
(* thread and a trylock that fails stops every mutex (PthreadCalls): what  *)
(* the list then is still holds, but the sort need not end.                *)
(***************************************************************************)
EXTENDS PthreadCalls

CONSTANTS Size,            \* nListSize
          Checker,
          Raw, Destroyed   \* of a mutex not yet initialised, or no more

ASSUME SortAssumption ==
  /\ Size \in Nat \ {0}
  /\ Checker # MainThread /\ {Checker, MainThread} \cap Nat = {}
  /\ {Raw, Destroyed, Nobody} \cap (Nat \cup {Checker, MainThread}) = {}
  /\ Raw # Nobody /\ Destroyed # Nobody

Places == 0 .. Size - 1
Sorters == 0 .. Size - 2
SortThreads == Sorters \cup {Checker, MainThread}

VARIABLES
  num,       \* the list
  swap,      \* each sorter's local
  quitting,
  check,     \* the checker's local
  i          \* the loop variable of the checker and of main

sortVars == <<num, swap, quitting, check, i>>
listVars == <<num, swap>>
sharedVars == <<program, policy, asleep>>

\* The list is filled in decreasing order.
SortData ==
  /\ num = [p \in Places |-> Size - p]
  /\ swap = [s \in Sorters |-> 0]
  /\ quitting = FALSE /\ check = TRUE
  /\ i = [t \in {Checker, MainThread} |-> 0]

SortStart ==
  /\ program = "mtsort" /\ policy \in Policies \ {"pthread"}
  /\ pc = [t \in SortThreads |-> IF t = MainThread THEN "create" ELSE "unborn"]
  /\ holder = [p \in Places |-> IF p = 0 THEN Nobody ELSE Raw]

SortInit == SortData /\ SortStart /\ CallsInit

----------------------------------------------------------------------------
\* fnsort, for the places s and s + 1

\* (Bug) The flag is not read.
LoopForever(t) == MoveAt(t, "loop", "lock")

Loop(t) == MoveAt(t, "loop", IF quitting THEN "done" ELSE "lock")

\* (Bug) The result of trylock is not looked at.
TryNextUnchecked(s) == TryLockAt(s, "try", s + 1, "compare", "compare")

TryNext(s) == TryLockAt(s, "try", s + 1, "compare", "back")

\* A failed trylock makes the sorter let go of the first mutex and yield (it
\* will wait there: the trylock has kept mutex_sem); an exchange, of both.
LetGo(s) ==
  \/ \E from \in {"back", "unlock"} :
       UnlockAt(s, from, s, IF from = "back" THEN "loop" ELSE "unlock2")
  \/ UnlockAt(s, "unlock2", s + 1, "loop")

\* The exchange: three assignments, the first with the comparison.
Exchange(s) ==
  \/ /\ num[s + 1] < num[s] /\ MoveAt(s, "compare", "first")
     /\ swap' = [swap EXCEPT ![s] = num[s]]
     /\ UNCHANGED num
  \/ /\ MoveAt(s, "first", "second")
     /\ num' = [num EXCEPT ![s] = num[s + 1]]
     /\ UNCHANGED swap
  \/ /\ MoveAt(s, "second", "unlock")
     /\ num' = [num EXCEPT ![s + 1] = swap[s]]
     /\ UNCHANGED swap

fnsort(s) ==
  /\ \/ Exchange(s)
     \/ /\ \/ Loop(s) \/ LockAt(s, "lock", s, "try") \/ TryNext(s)
           \/ ~(num[s + 1] < num[s]) /\ MoveAt(s, "compare", "unlock")
           \/ LetGo(s) \/ RestartAt(s)
        /\ UNCHANGED listVars
  /\ UNCHANGED <<quitting, check, i>>

----------------------------------------------------------------------------
\* fncheck

\* (Bug) The loop variable does not start afresh.
RoundGoesOn(t, n) == i' = [i EXCEPT ![t] = @ + 1]

\* for (i = 0; i < n; i++): the next round, or the start of the next loop
Round(t, n) == i' = [i EXCEPT ![t] = (@ + 1) % n]

\* (Bug) The checker looks at the pairs without the mutexes.
LockNone ==
  /\ MoveAt(Checker, "lock", IF i[Checker] + 1 = Size THEN "check" ELSE "lock")
  /\ Round(Checker, Size)
  /\ check' = TRUE
  /\ UNCHANGED quitting

LockAll ==
  /\ \/ /\ TakeAt(Checker, "lock", i[Checker], IF i[Checker] + 1 = Size THEN "check" ELSE "lock")
        /\ Round(Checker, Size)
        /\ check' = TRUE
     \/ (BlockAt(Checker, "lock", i[Checker]) \/ RestartAt(Checker)) /\ UNCHANGED <<i, check>>
  /\ UNCHANGED quitting

Look ==
  \/ /\ i[Checker] < Size - 1 /\ check
     /\ MoveAt(Checker, "check", "check")
     /\ check' = (num[i[Checker]] <= num[i[Checker] + 1])
     /\ i' = [i EXCEPT ![Checker] = @ + 1]
     /\ UNCHANGED quitting
  \/ /\ ~(i[Checker] < Size - 1 /\ check)
     /\ MoveAt(Checker, "check", "unlock")
     /\ quitting' = check
     /\ i' = [i EXCEPT ![Checker] = 0]
     /\ UNCHANGED check

UnlockAll ==
  /\ UnlockAt(Checker, "unlock", i[Checker], IF i[Checker] + 1 = Size THEN "loop" ELSE "unlock")
  /\ Round(Checker, Size)
  /\ UNCHANGED <<check, quitting>>

fncheck ==
  /\ \/ Loop(Checker) /\ UNCHANGED <<quitting, check, i>>
     \/ LockAll \/ Look \/ UnlockAll
  /\ UNCHANGED listVars

----------------------------------------------------------------------------
\* main

\* The mutex of the next place is initialised, then the sorter created; the
\* checker comes last.
CreateThreads ==
  LET k == i[MainThread] IN
  /\ At(MainThread, "create")
  /\ \/ /\ k < Size - 1
        /\ pc' = [pc EXCEPT ![k] = "loop"]
        /\ holder' = [holder EXCEPT ![k + 1] = Nobody]
        /\ UNCHANGED <<mutex_sem, blocked>>
     \/ /\ k = Size - 1
        /\ pc' = [pc EXCEPT ![Checker] = "loop", ![MainThread] = "join"]
        /\ UNCHANGED <<holder, mutex_sem, blocked>>
  /\ Round(MainThread, Size)

\* A create that returns an error ends the program.
CreateFails == MoveAt(MainThread, "create", "fatal") /\ UNCHANGED i

\* The sorters in their order, then the checker.
JoinThreads ==
  LET k == i[MainThread] IN
  /\ IF k < Size - 1 THEN At(k, "done") ELSE At(Checker, "done")
  /\ MoveAt(MainThread, "join", IF k < Size - 1 THEN "join" ELSE "destroy")
  /\ Round(MainThread, Size)

DestroyMutexes ==
  LET k == i[MainThread] IN
  /\ At(MainThread, "destroy")
  /\ mutex_sem = 1 /\ UNCHANGED <<mutex_sem, blocked>>
  /\ holder' = [holder EXCEPT ![k] = Destroyed]
  /\ Goto(MainThread, IF k < Size - 1 THEN "destroy" ELSE "done")
  /\ Round(MainThread, Size)

main ==
  /\ CreateThreads \/ CreateFails \/ JoinThreads \/ DestroyMutexes
  /\ UNCHANGED <<listVars, quitting, check>>

----------------------------------------------------------------------------
SortStep(t) ==
  /\ program = "mtsort" /\ ~At(MainThread, "fatal")
  /\ MayRun(t)
  /\ \/ t \in Sorters /\ fnsort(t)
     \/ t = Checker /\ fncheck
     \/ t = MainThread /\ main
  /\ PassTurn(t)
  /\ UNCHANGED sharedVars

SortNext == \E t \in SortThreads : SortStep(t)

\* Under ULONLY the run queue's order gives each thread its turn again and again.
TakesTurn(t) == policy = "ULONLY" /\ SortStep(t)

----------------------------------------------------------------------------
(***************************************************************************)
(* Properties                                                              *)
(***************************************************************************)

\* Every variable has its type, and nobody is in its loop with a mutex that is
\* not yet initialised or already destroyed (lines 158-160 and 189-190).
SortTypeOK ==
  program = "mtsort" =>
    /\ num \in [Places -> 1 .. Size] /\ swap \in [Sorters -> 0 .. Size]
    /\ holder \in [Places -> SortThreads \cup {Raw, Nobody, Destroyed}]
    /\ check \in BOOLEAN /\ quitting \in BOOLEAN
    /\ i \in [{Checker, MainThread} -> Places]
    /\ CallsTyped(SortThreads, Places)
    /\ \A s \in Sorters : pc[s] \notin {"unborn", "done"} =>
         {holder[s], holder[s + 1]} \cap {Raw, Destroyed} = {}
    /\ pc[Checker] \notin {"unborn", "done"} =>
         \A p \in Places : holder[p] \notin {Raw, Destroyed}

\* The list, with the second half of every exchange under way done.
Settled(p) ==
  IF p - 1 \in Sorters /\ At(p - 1, "second") THEN swap[p - 1] ELSE num[p]

\* No element is lost or doubled by exchanges of neighbouring pairs that
\* overlap in a place, each of three assignments (lines 53 to 55).
ListIsPermutation ==
  program = "mtsort" => {Settled(p) : p \in Places} = 1 .. Size

\* The flag is set only on a list that is sorted, and that stays sorted while
\* the sorters that have not read the flag go on (line 96).
QuitIsSorted ==
  program = "mtsort" /\ quitting => \A s \in Sorters : num[s] <= num[s + 1]

\* Threads of one kernel thread, which give way only at their yields, sort the
\* list to the end: the checker, which takes every mutex, meets none taken,
\* every thread reads the flag, and main joins them all.  (On several kernel
\* threads it need not: line 46's trylock keeps mutex_sem when it fails.)
SortEnds ==
  (program = "mtsort" /\ policy = "ULONLY") ~> pc[MainThread] \in {"done", "fatal"}

=============================================================================
