--------------------------- MODULE Samples_proofs ---------------------------
(***************************************************************************)
(* What holds of the sample programs for every number of threads, rounds   *)
(* and marks, and of the merge sort for lists of every length.             *)
(***************************************************************************)
EXTENDS MCSamples, FiniteSetTheorems, TLAPS

(***************************************************************************)
(* The merge sort: the mutexes are used while they live, no element is     *)
(* lost, and the flag tells the truth.                                     *)
(***************************************************************************)

SorterPcs == {"unborn", "loop", "lock", "try", "compare", "first", "second",
              "unlock", "unlock2", "back", "done", "blocked", "gone"}
CheckerPcs == {"unborn", "loop", "lock", "check", "unlock", "done", "blocked", "gone"}
MainPcs == {"create", "fatal", "join", "destroy", "done"}

SortTyped ==
  /\ program = "mtsort"
  /\ num \in [Places -> 1 .. Size] /\ swap \in [Sorters -> 0 .. Size]
  /\ holder \in [Places -> SortThreads \cup {Raw, Nobody, Destroyed}]
  /\ check \in BOOLEAN /\ quitting \in BOOLEAN
  /\ i \in [{Checker, MainThread} -> Places]
  /\ pc \in [SortThreads -> SorterPcs \cup CheckerPcs \cup MainPcs]
  /\ \A s \in Sorters : pc[s] \in SorterPcs
  /\ pc[Checker] \in CheckerPcs /\ pc[MainThread] \in MainPcs

\* Main creates the sorters in their order, joins them in their order and
\* then destroys the mutexes; a mutex is usable in between.
Usable(p) ==
  \/ pc[MainThread] \in {"create", "fatal"} /\ p <= i[MainThread]
  \/ pc[MainThread] = "join"
  \/ pc[MainThread] = "destroy" /\ p >= i[MainThread]

Lifetimes ==
  /\ \A p \in Places : Usable(p) => holder[p] \notin {Raw, Destroyed}
  /\ pc[MainThread] \in {"create", "fatal"} =>
       /\ \A s \in Sorters : pc[s] # "unborn" => s < i[MainThread]
       /\ pc[Checker] = "unborn"
  /\ pc[MainThread] = "join" =>
       \A s \in Sorters : s < i[MainThread] => pc[s] = "done"
  /\ pc[MainThread] \in {"destroy", "done"} =>
       pc[Checker] = "done" /\ \A s \in Sorters : pc[s] = "done"

\* Who holds which mutex, by where it is; the checker's loops start afresh.
SorterHolds(s, p) ==
  \/ p = s /\ pc[s] \in {"try", "compare", "first", "second", "unlock", "back"}
  \/ p = s + 1 /\ pc[s] \in {"compare", "first", "second", "unlock", "unlock2"}

CheckerHolds(p) ==
  \/ pc[Checker] = "lock" /\ p < i[Checker]
  \/ pc[Checker] = "check"
  \/ pc[Checker] = "unlock" /\ p >= i[Checker]

Ownership ==
  /\ pc[Checker] \in {"unborn", "loop", "done"} => i[Checker] = 0
  /\ \A p \in Places :
       /\ \A s \in Sorters : SorterHolds(s, p) => holder[p] = s
       /\ CheckerHolds(p) => holder[p] = Checker

\* What a sorter has found or copied stays true until its exchange is done.
Exchanging ==
  \A s \in Sorters :
    /\ pc[s] = "first" => swap[s] = num[s] /\ num[s + 1] < num[s]
    /\ pc[s] = "second" => num[s] = num[s + 1] /\ num[s] < swap[s]

\* The checker has found the places before i[Checker] in order; once the flag
\* is set no exchange is under way, and none starts.
Truthful ==
  /\ pc[Checker] = "check" =>
       /\ ~quitting
       /\ check => \A s \in Sorters : s < i[Checker] => num[s] <= num[s + 1]
  /\ pc[Checker] = "lock" => ~quitting
  /\ quitting => \A s \in Sorters :
       num[s] <= num[s + 1] /\ pc[s] \notin {"first", "second"}

SortIInv ==
  SortTyped /\ Lifetimes /\ Ownership /\ Exchanging /\ Truthful /\ ListIsPermutation

----------------------------------------------------------------------------
LEMMA ModStep ==
  ASSUME NEW n \in Nat \ {0}, NEW k \in 0 .. n - 1
  PROVE  (k + 1) % n = IF k + 1 = n THEN 0 ELSE k + 1
<1>1. CASE k + 1 = n
  <2>1. n % n = 0
    OBVIOUS
  <2> QED
    BY <1>1, <2>1
<1>2. CASE k + 1 # n
  <2>1. k + 1 \in 0 .. n - 1
    BY <1>2
  <2>2. \A m \in 0 .. n - 1 : m % n = m
    OBVIOUS
  <2> QED
    BY <1>2, <2>1, <2>2
<1> QED
  BY <1>1, <1>2

LEMMA RoundIs ==
  ASSUME SortTyped, NEW t \in {Checker, MainThread}, Round(t, Size)
  PROVE  i' = [i EXCEPT ![t] = IF i[t] + 1 = Size THEN 0 ELSE i[t] + 1]
<1>1. i[t] \in 0 .. Size - 1 /\ Size \in Nat \ {0}
  BY SortAssumption DEF SortTyped, Places
<1>2. (i[t] + 1) % Size = IF i[t] + 1 = Size THEN 0 ELSE i[t] + 1
  BY <1>1, ModStep
<1> QED
  BY <1>2 DEF Round

LEMMA RoundTyped ==
  ASSUME SortTyped, NEW t \in {Checker, MainThread}, Round(t, Size)
  PROVE  i' \in [{Checker, MainThread} -> Places]
BY RoundIs, SortAssumption DEF SortTyped, Places

\* Main, the checker and the sorters are different threads.
LEMMA ThreadsDiffer ==
  /\ Checker # MainThread /\ Checker \notin Sorters /\ MainThread \notin Sorters
  /\ \A t \in SortThreads : t \notin {Raw, Destroyed, Nobody}
  /\ Nobody \notin {Raw, Destroyed}
  /\ \A s \in Sorters : s \in Places /\ s + 1 \in Places /\ s # s + 1
  /\ Places = Sorters \cup {Size - 1}
BY SortAssumption DEF SortThreads, Sorters, Places

LEMMA SortInitTyped == SortInit => SortTyped
<1> SUFFICES ASSUME SortInit
             PROVE  SortTyped
  OBVIOUS
<1> USE ThreadsDiffer, SortAssumption DEF SortInit, SortData, SortStart
<1>1. num \in [Places -> 1 .. Size] /\ swap \in [Sorters -> 0 .. Size]
  BY DEF Places, Sorters
<1>2. /\ pc \in [SortThreads -> SorterPcs \cup CheckerPcs \cup MainPcs]
      /\ \A s \in Sorters : pc[s] = "unborn"
      /\ pc[Checker] = "unborn" /\ pc[MainThread] = "create"
  BY DEF SorterPcs, CheckerPcs, MainPcs, SortThreads
<1>3. i \in [{Checker, MainThread} -> Places]
  BY DEF Places
<1> QED
  BY <1>1, <1>2, <1>3 DEF SortTyped, SorterPcs, CheckerPcs, MainPcs

LEMMA SortInitIInv == SortInit => SortIInv
<1> SUFFICES ASSUME SortInit
             PROVE  SortIInv
  OBVIOUS
<1>1. /\ \A s \in Sorters : pc[s] = "unborn"
      /\ pc[Checker] = "unborn" /\ pc[MainThread] = "create"
      /\ \A t \in {Checker, MainThread} : i[t] = 0
      /\ quitting = FALSE
      /\ num = [p \in Places |-> Size - p]
      /\ holder = [p \in Places |-> IF p = 0 THEN Nobody ELSE Raw]
  BY ThreadsDiffer DEF SortInit, SortStart, SortData, SortThreads
<1>2. Lifetimes /\ Ownership /\ Exchanging /\ Truthful
  BY <1>1, ThreadsDiffer, SortAssumption
     DEF Lifetimes, Usable, Ownership, SorterHolds, CheckerHolds, Exchanging,
         Truthful, Places
<1>3. ListIsPermutation
  <2>1. \A p \in Places : Settled(p) = Size - p
    BY <1>1 DEF Settled, At
  <2>2. \A x \in 1 .. Size : Size - x \in Places /\ Size - (Size - x) = x
    BY SortAssumption DEF Places
  <2>3. \A p \in Places : Size - p \in 1 .. Size
    BY SortAssumption DEF Places
  <2> QED
    BY <2>1, <2>2, <2>3 DEF ListIsPermutation
<1> QED
  BY <1>2, <1>3, SortInitTyped DEF SortIInv

----------------------------------------------------------------------------
\* What a step of a sorter does to the labels, the mutexes and the list.
SorterMove(s, l) ==
  /\ Goto(s, l) /\ l # "unborn" /\ pc[s] \notin {"unborn", "done"}
  /\ \/ /\ pc[s] = "lock" /\ l = "try" /\ holder[s] = Nobody
        /\ holder' = [holder EXCEPT ![s] = s]
     \/ /\ pc[s] = "try" /\ l = "compare" /\ holder[s + 1] = Nobody
        /\ holder' = [holder EXCEPT ![s + 1] = s]
     \/ pc[s] = "back" /\ l = "loop" /\ holder' = [holder EXCEPT ![s] = Nobody]
     \/ pc[s] = "unlock" /\ l = "unlock2" /\ holder' = [holder EXCEPT ![s] = Nobody]
     \/ pc[s] = "unlock2" /\ l = "loop" /\ holder' = [holder EXCEPT ![s + 1] = Nobody]
     \/ /\ pc[s] = "blocked" /\ l = "gone"
        /\ \E m \in Places : holder[m] = Nobody /\ holder' = [holder EXCEPT ![m] = s]
     \/ /\ holder' = holder
        /\ \/ pc[s] = "loop" /\ l \in {"lock", "done"}
           \/ pc[s] = "lock" /\ l = "blocked"
           \/ pc[s] = "try" /\ l = "back"
           \/ pc[s] = "compare" /\ l \in {"first", "unlock"}
           \/ pc[s] = "first" /\ l = "second"
           \/ pc[s] = "second" /\ l = "unlock"

LEMMA SorterMoves ==
  ASSUME SortTyped, NEW s \in Sorters, fnsort(s)
  PROVE  \E l \in SorterPcs : SorterMove(s, l)
<1>1. CASE RestartAt(s)
  <2>1. DOMAIN holder = Places
    BY DEF SortTyped
  <2> QED
    BY <1>1, <2>1 DEF RestartAt, At, Goto, SorterPcs, SorterMove
<1>2. CASE LetGo(s)
  BY <1>2 DEF LetGo, UnlockAt, At, Goto, SorterPcs, SorterMove
<1>3. CASE Exchange(s)
  BY <1>3 DEF Exchange, MoveAt, At, Goto, SorterPcs, SorterMove
<1>4. CASE LockAt(s, "lock", s, "try") \/ TryNext(s)
  BY <1>4 DEF LockAt, TryNext, TryLockAt, TakeAt, BlockAt, At, Goto, SorterPcs, SorterMove
<1>5. CASE Loop(s) \/ MoveAt(s, "compare", "unlock")
  BY <1>5 DEF Loop, MoveAt, At, Goto, SorterPcs, SorterMove
<1> QED
  BY <1>1, <1>2, <1>3, <1>4, <1>5 DEF fnsort

\* What a step of a sorter does to the list.
SorterWrites(s) ==
  \/ num' = num /\ swap' = swap
     /\ pc[s] \notin {"first", "second"} /\ pc'[s] \notin {"first", "second"}
  \/ /\ pc[s] = "compare" /\ pc'[s] = "first" /\ num[s + 1] < num[s]
     /\ num' = num /\ swap' = [swap EXCEPT ![s] = num[s]]
  \/ /\ pc[s] = "first" /\ pc'[s] = "second"
     /\ swap' = swap /\ num' = [num EXCEPT ![s] = num[s + 1]]
  \/ /\ pc[s] = "second" /\ pc'[s] = "unlock"
     /\ swap' = swap /\ num' = [num EXCEPT ![s + 1] = swap[s]]

LEMMA SorterWritesOnly ==
  ASSUME SortTyped, NEW s \in Sorters, fnsort(s)
  PROVE  SorterWrites(s) /\ (pc[s] = "loop" /\ quitting => pc'[s] = "done")
<1>0. \A l : Goto(s, l) => pc'[s] = l
  BY DEF Goto, SortTyped, SortThreads
<1>1. CASE RestartAt(s)
  BY <1>0, <1>1 DEF fnsort, RestartAt, Exchange, MoveAt, At, SorterWrites, listVars
<1>2. CASE Exchange(s)
  BY <1>0, <1>2 DEF Exchange, MoveAt, At, SorterWrites
<1>3. CASE LetGo(s) /\ UNCHANGED listVars
  BY <1>0, <1>3 DEF LetGo, UnlockAt, At, SorterWrites, listVars
<1>4. CASE (LockAt(s, "lock", s, "try") \/ TryNext(s)) /\ UNCHANGED listVars
  BY <1>0, <1>4 DEF LockAt, TryNext, TryLockAt, TakeAt, BlockAt, At, SorterWrites, listVars
<1>5. CASE (Loop(s) \/ MoveAt(s, "compare", "unlock")) /\ UNCHANGED listVars
  BY <1>0, <1>5 DEF Loop, MoveAt, At, SorterWrites, listVars
<1> QED
  BY <1>1, <1>2, <1>3, <1>4, <1>5 DEF fnsort

LEMMA SorterStepTyped ==
  ASSUME SortTyped, Exchanging, NEW s \in Sorters, fnsort(s), UNCHANGED program
  PROVE  SortTyped'
<1>1. /\ num' \in [Places -> 1 .. Size] /\ swap' \in [Sorters -> 0 .. Size]
  <2>1. \A x \in 1 .. Size : x \in 0 .. Size
    OBVIOUS
  <2>2. /\ num \in [Places -> 1 .. Size] /\ swap \in [Sorters -> 0 .. Size]
        /\ s \in Places /\ s + 1 \in Places
    BY ThreadsDiffer DEF SortTyped
  <2>3. CASE pc[s] = "second"
    <3>1. swap[s] \in 1 .. Size
      BY <2>2, <2>3, SortAssumption DEF SortTyped, Exchanging
    <3> QED
      BY <2>2, <2>3, <3>1, SorterWritesOnly DEF SorterWrites
  <2>4. CASE pc[s] # "second"
    BY <2>1, <2>2, <2>4, SorterWritesOnly DEF SorterWrites
  <2> QED
    BY <2>3, <2>4
<1>2. PICK l \in SorterPcs : SorterMove(s, l)
  BY SorterMoves
<1>3. /\ pc' \in [SortThreads -> SorterPcs \cup CheckerPcs \cup MainPcs]
      /\ \A r \in Sorters : pc'[r] \in SorterPcs
      /\ pc'[Checker] \in CheckerPcs /\ pc'[MainThread] \in MainPcs
  BY <1>2, ThreadsDiffer DEF SortTyped, Goto, SortThreads, SorterMove
<1>4. holder' \in [Places -> SortThreads \cup {Raw, Nobody, Destroyed}]
  BY <1>2, ThreadsDiffer DEF SortTyped, SortThreads, SorterMove
<1>5. check' = check /\ quitting' = quitting /\ i' = i
  BY DEF fnsort
<1> QED
  BY <1>1, <1>3, <1>4, <1>5 DEF SortTyped

LEMMA SorterStepLifetimes ==
  ASSUME SortTyped, Lifetimes, NEW s \in Sorters, fnsort(s)
  PROVE  Lifetimes'
<1>1. PICK l \in SorterPcs : SorterMove(s, l)
  BY SorterMoves
<1>2. i' = i /\ pc' = [pc EXCEPT ![s] = l]
  BY <1>1 DEF fnsort, Goto, SorterMove
<1>3. /\ pc'[MainThread] = pc[MainThread] /\ pc'[Checker] = pc[Checker]
      /\ \A r \in Sorters : r # s => pc'[r] = pc[r]
  BY <1>2, ThreadsDiffer DEF SortTyped, SortThreads
<1>4. \A p \in Places : holder[p] \notin {Raw, Destroyed} => holder'[p] \notin {Raw, Destroyed}
  BY <1>1, ThreadsDiffer DEF SortTyped, SortThreads, SorterMove
<1> QED
  BY <1>1, <1>2, <1>3, <1>4 DEF Lifetimes, Usable, SorterMove, Goto, SortTyped

LEMMA SorterStepOwnership ==
  ASSUME SortTyped, Ownership, NEW s \in Sorters, fnsort(s)
  PROVE  Ownership'
<1>1. PICK l \in SorterPcs : SorterMove(s, l)
  BY SorterMoves
<1>2. i' = i /\ pc' = [pc EXCEPT ![s] = l]
  BY <1>1 DEF fnsort, Goto, SorterMove
<1>3. /\ pc'[Checker] = pc[Checker] /\ pc'[s] = l
      /\ \A r \in Sorters : r # s => pc'[r] = pc[r]
  BY <1>2, ThreadsDiffer DEF SortTyped, SortThreads
<1>4. \A p \in Places : SorterHolds(s, p)' => holder'[p] = s
  BY <1>1, <1>3, ThreadsDiffer DEF SortTyped, SorterHolds, Ownership, SorterMove
<1>5. \A p \in Places : holder'[p] = holder[p] \/ holder[p] = Nobody \/ holder[p] = s
  BY <1>1, ThreadsDiffer DEF SortTyped, SorterHolds, Ownership, SorterMove
<1>6. \A p \in Places : CheckerHolds(p)' => holder'[p] = Checker
  BY <1>2, <1>3, <1>5, ThreadsDiffer DEF CheckerHolds, Ownership, SortThreads
<1>7. \A p \in Places, r \in Sorters : SorterHolds(r, p)' => holder'[p] = r
  BY <1>3, <1>4, <1>5, ThreadsDiffer DEF SorterHolds, Ownership, SortThreads
<1> QED
  BY <1>2, <1>3, <1>6, <1>7 DEF Ownership

\* Two neighbours never exchange at the same time.
LEMMA NoOverlap ==
  ASSUME SortTyped, Ownership, NEW r \in Sorters, NEW s \in Sorters, r # s,
         pc[r] \in {"compare", "first", "second"}, pc[s] \in {"compare", "first", "second"}
  PROVE  r # s + 1 /\ s # r + 1
BY ThreadsDiffer DEF Ownership, SorterHolds

LEMMA SorterStepExchanging ==
  ASSUME SortTyped, Ownership, Exchanging, NEW s \in Sorters, fnsort(s)
  PROVE  Exchanging'
<1>1. PICK l \in SorterPcs : SorterMove(s, l)
  BY SorterMoves
<1>2. pc' = [pc EXCEPT ![s] = l] /\ pc'[s] = l /\ \A r \in Sorters : r # s => pc'[r] = pc[r]
  BY <1>1 DEF Goto, SortTyped, SortThreads, SorterMove
<1>3. ASSUME NEW r \in Sorters, r # s, pc[r] \in {"first", "second"}
      PROVE  num'[r] = num[r] /\ num'[r + 1] = num[r + 1] /\ swap'[r] = swap[r]
  <2>1. swap'[r] = swap[r] /\ (pc[s] \notin {"first", "second"} => num' = num)
    BY <1>3, SorterWritesOnly DEF SorterWrites, SortTyped
  <2>2. /\ pc[s] = "first" => num' = [num EXCEPT ![s] = num[s + 1]]
        /\ pc[s] = "second" => num' = [num EXCEPT ![s + 1] = swap[s]]
    BY SorterWritesOnly DEF SorterWrites
  <2>3. pc[s] \in {"first", "second"} => r # s + 1 /\ s # r + 1
    BY <1>3, NoOverlap
  <2>4. num \in [Places -> 1 .. Size] /\ r \in Int /\ s \in Int
    BY DEF SortTyped, Sorters
  <2> QED
    BY <1>3, <2>1, <2>2, <2>3, <2>4, ThreadsDiffer
<1>4. /\ l = "first" => swap'[s] = num'[s] /\ num'[s + 1] < num'[s]
      /\ l = "second" => num'[s] = num'[s + 1] /\ num'[s] < swap'[s]
  BY <1>2, ThreadsDiffer, SorterWritesOnly DEF SorterWrites, SortTyped, Exchanging
<1> QED
  BY <1>2, <1>3, <1>4 DEF Exchanging

LEMMA SorterStepTruthful ==
  ASSUME SortTyped, Ownership, Truthful, NEW s \in Sorters, fnsort(s)
  PROVE  Truthful'
<1>1. PICK l \in SorterPcs : SorterMove(s, l)
  BY SorterMoves
<1>2. /\ pc' = [pc EXCEPT ![s] = l] /\ pc'[s] = l
      /\ pc'[Checker] = pc[Checker]
      /\ \A r \in Sorters : r # s => pc'[r] = pc[r]
  BY <1>1, ThreadsDiffer DEF Goto, SortTyped, SortThreads, SorterMove
<1>3. check' = check /\ quitting' = quitting /\ i' = i
  BY DEF fnsort
<1>4. CASE pc[s] \in {"first", "second"}
  <2>1. pc[Checker] # "check" /\ ~quitting
    BY <1>4, ThreadsDiffer DEF Ownership, SorterHolds, CheckerHolds, Truthful
  <2> QED
    BY <1>2, <1>3, <2>1 DEF Truthful
<1>5. CASE pc[s] \notin {"first", "second"}
  <2>1. num' = num
    BY <1>5, SorterWritesOnly DEF SorterWrites
  <2>2. quitting => l \notin {"first", "second"}
    <3>1. ASSUME quitting, num[s + 1] < num[s]
          PROVE  FALSE
      <4>1. num[s] <= num[s + 1] /\ num[s] \in Int /\ num[s + 1] \in Int
        BY <3>1, ThreadsDiffer DEF Truthful, SortTyped
      <4> QED
        BY <3>1, <4>1
    <3> QED
      BY <1>2, <1>5, <3>1, SorterWritesOnly DEF SorterWrites
  <2> QED
    BY <1>2, <1>3, <2>1, <2>2 DEF Truthful
<1> QED
  BY <1>4, <1>5

\* Only the first write of an exchange changes the settled list, and it
\* exchanges two of its places.
LEMMA SorterStepPermutation ==
  ASSUME SortTyped, Ownership, Exchanging, ListIsPermutation,
         NEW s \in Sorters, fnsort(s), program' = program
  PROVE  ListIsPermutation'
<1>1. PICK l \in SorterPcs : SorterMove(s, l)
  BY SorterMoves
<1>2. /\ pc' = [pc EXCEPT ![s] = l] /\ pc'[s] = l
      /\ \A r \in Sorters : r # s => pc'[r] = pc[r]
  BY <1>1, ThreadsDiffer DEF Goto, SortTyped, SortThreads, SorterMove
<1>3. /\ num \in [Places -> 1 .. Size] /\ s \in Int /\ s \in Places /\ s + 1 \in Places
      /\ swap \in [Sorters -> 0 .. Size]
      /\ \A p \in Places : p \in Int
  BY ThreadsDiffer DEF SortTyped, Places, Sorters
<1>4. {Settled(p) : p \in Places} = 1 .. Size
  BY DEF ListIsPermutation, SortTyped
<1>5. CASE pc[s] = "first"
  <2>1. num' = [num EXCEPT ![s] = num[s + 1]] /\ swap' = swap /\ l = "second"
    BY <1>1, <1>2, <1>5, SorterWritesOnly DEF SorterMove, SorterWrites
  <2>2. swap[s] = num[s]
    BY <1>5 DEF Exchanging
  <2>3. /\ s - 1 \in Sorters => pc[s - 1] # "second"
        /\ \A p \in Places : p - 1 \in Sorters /\ p - 1 = s <=> p = s + 1
    BY <1>3, <1>5, NoOverlap DEF Sorters
  <2>4. Settled(s) = num[s] /\ Settled(s + 1) = num[s + 1]
    BY <1>3, <1>5, <2>3 DEF Settled, At
  <2>5. Settled(s)' = Settled(s + 1) /\ Settled(s + 1)' = Settled(s)
    BY <1>2, <1>3, <2>1, <2>2, <2>3, <2>4 DEF Settled, At
  <2>6. \A p \in Places \ {s, s + 1} : Settled(p)' = Settled(p)
    BY <1>2, <1>3, <2>1, <2>3 DEF Settled, At
  <2>7. {Settled(p)' : p \in Places} = {Settled(p) : p \in Places}
    BY <1>3, <2>5, <2>6
  <2> QED
    BY <1>4, <2>7 DEF ListIsPermutation
<1>6. CASE pc[s] # "first"
  <2>1. \A p \in Places : Settled(p)' = Settled(p)
    <3>1. CASE pc[s] = "second"
      <4>1. num' = [num EXCEPT ![s + 1] = swap[s]] /\ swap' = swap /\ l # "second"
        BY <1>1, <1>2, <3>1, SorterWritesOnly DEF SorterMove, SorterWrites
      <4>2. Settled(s + 1) = swap[s] /\ Settled(s + 1)' = swap[s]
        BY <1>2, <1>3, <3>1, <4>1 DEF Settled, At
      <4> QED
        BY <1>2, <1>3, <4>1, <4>2 DEF Settled, At
    <3>2. CASE pc[s] # "second"
      <4>1. num' = num /\ l # "second" /\ \A r \in Sorters : r # s => swap'[r] = swap[r]
        <5>1. l # "second"
          BY <1>1, <1>6 DEF SorterMove
        <5>2. num' = num
          BY <1>6, <3>2, SorterWritesOnly DEF SorterWrites
        <5>3. \A r \in Sorters : r # s => swap'[r] = swap[r]
          BY <1>3, SorterWritesOnly DEF SorterWrites
        <5> QED
          BY <5>1, <5>2, <5>3
      <4> QED
        BY <1>2, <1>3, <3>2, <4>1 DEF Settled, At
    <3> QED
      BY <3>1, <3>2
  <2>2. {Settled(p)' : p \in Places} = {Settled(p) : p \in Places}
    BY <2>1
  <2> QED
    BY <1>4, <2>2 DEF ListIsPermutation
<1> QED
  BY <1>5, <1>6

----------------------------------------------------------------------------
\* What a step of the checker or of main does to the labels and the mutexes.
CheckerMove(l) ==
  /\ Goto(Checker, l)
  /\ \/ /\ pc[Checker] = "loop" /\ l = (IF quitting THEN "done" ELSE "lock")
        /\ UNCHANGED <<holder, i, check, quitting>>
     \/ /\ pc[Checker] = "lock" /\ holder[i[Checker]] = Nobody
        /\ holder' = [holder EXCEPT ![i[Checker]] = Checker]
        /\ \/ i[Checker] + 1 = Size /\ l = "check" /\ i' = [i EXCEPT ![Checker] = 0]
           \/ /\ i[Checker] + 1 # Size /\ l = "lock"
              /\ i' = [i EXCEPT ![Checker] = i[Checker] + 1]
        /\ check' = TRUE /\ UNCHANGED quitting
     \/ /\ pc[Checker] = "lock" /\ l = "blocked"
        /\ UNCHANGED <<holder, i, check, quitting>>
     \/ /\ pc[Checker] = "blocked" /\ l = "gone"
        /\ \E m \in Places : holder[m] = Nobody /\ holder' = [holder EXCEPT ![m] = Checker]
        /\ UNCHANGED <<i, check, quitting>>
     \/ /\ pc[Checker] = "check" /\ l = "check" /\ i[Checker] < Size - 1 /\ check
        /\ check' = (num[i[Checker]] <= num[i[Checker] + 1])
        /\ i' = [i EXCEPT ![Checker] = i[Checker] + 1]
        /\ UNCHANGED <<holder, quitting>>
     \/ /\ pc[Checker] = "check" /\ l = "unlock" /\ ~(i[Checker] < Size - 1 /\ check)
        /\ quitting' = check /\ i' = [i EXCEPT ![Checker] = 0]
        /\ UNCHANGED <<holder, check>>
     \/ /\ pc[Checker] = "unlock"
        /\ holder' = [holder EXCEPT ![i[Checker]] = Nobody]
        /\ \/ i[Checker] + 1 = Size /\ l = "loop" /\ i' = [i EXCEPT ![Checker] = 0]
           \/ /\ i[Checker] + 1 # Size /\ l = "unlock"
              /\ i' = [i EXCEPT ![Checker] = i[Checker] + 1]
        /\ UNCHANGED <<check, quitting>>

LEMMA CheckerMoves ==
  ASSUME SortTyped, fncheck
  PROVE  \E l \in CheckerPcs \ {"unborn"} : CheckerMove(l)
<1>1. CASE Loop(Checker) /\ UNCHANGED <<quitting, check, i>>
  BY <1>1 DEF Loop, MoveAt, At, CheckerMove, CheckerPcs
<1>2. CASE LockAll
  <2>1. Round(Checker, Size) =>
          i' = [i EXCEPT ![Checker] = IF i[Checker] + 1 = Size THEN 0 ELSE i[Checker] + 1]
    BY RoundIs
  <2>2. DOMAIN holder = Places
    BY DEF SortTyped
  <2>3. CASE RestartAt(Checker) /\ UNCHANGED <<i, check, quitting>>
    BY <2>2, <2>3 DEF RestartAt, At, CheckerMove, CheckerPcs
  <2>4. CASE BlockAt(Checker, "lock", i[Checker]) /\ UNCHANGED <<i, check, quitting>>
    BY <2>4 DEF BlockAt, At, CheckerMove, CheckerPcs
  <2>5. CASE /\ TakeAt(Checker, "lock", i[Checker],
                        IF i[Checker] + 1 = Size THEN "check" ELSE "lock")
             /\ Round(Checker, Size) /\ check' = TRUE /\ UNCHANGED quitting
    BY <2>1, <2>5 DEF TakeAt, At, CheckerMove, CheckerPcs
  <2> QED
    BY <1>2, <2>3, <2>4, <2>5 DEF LockAll
<1>3. CASE Look
  BY <1>3 DEF Look, MoveAt, At, CheckerMove, CheckerPcs
<1>4. CASE UnlockAll
  <2>1. i' = [i EXCEPT ![Checker] = IF i[Checker] + 1 = Size THEN 0 ELSE i[Checker] + 1]
    BY <1>4, RoundIs DEF UnlockAll
  <2> QED
    BY <1>4, <2>1 DEF UnlockAll, UnlockAt, At, CheckerMove, CheckerPcs
<1> QED
  BY <1>1, <1>2, <1>3, <1>4 DEF fncheck

LEMMA CheckerStepTyped ==
  ASSUME SortTyped, fncheck, UNCHANGED <<program, swap>>
  PROVE  SortTyped'
<1>1. PICK l \in CheckerPcs \ {"unborn"} : CheckerMove(l)
  BY CheckerMoves
<1>2. num' = num /\ swap' = swap
  BY DEF fncheck, listVars
<1>3. /\ pc' \in [SortThreads -> SorterPcs \cup CheckerPcs \cup MainPcs]
      /\ \A r \in Sorters : pc'[r] \in SorterPcs
      /\ pc'[Checker] \in CheckerPcs /\ pc'[MainThread] \in MainPcs
  BY <1>1, ThreadsDiffer DEF SortTyped, Goto, SortThreads, CheckerMove
<1>4. holder' \in [Places -> SortThreads \cup {Raw, Nobody, Destroyed}]
  BY <1>1 DEF SortTyped, SortThreads, CheckerMove
<1>5. i' \in [{Checker, MainThread} -> Places]
  <2>1. i[Checker] \in Places /\ Places = 0 .. Size - 1 /\ Size \in Nat \ {0}
    BY SortAssumption DEF SortTyped, Places
  <2>2. 0 \in Places /\ (i[Checker] + 1 # Size => i[Checker] + 1 \in Places)
    BY <2>1
  <2> QED
    BY <1>1, <2>1, <2>2 DEF SortTyped, CheckerMove
<1>6. check' \in BOOLEAN /\ quitting' \in BOOLEAN
  <2>1. check \in BOOLEAN /\ quitting \in BOOLEAN
    BY DEF SortTyped
  <2>2. (num[i[Checker]] <= num[i[Checker] + 1]) \in BOOLEAN
    OBVIOUS
  <2> QED
    BY <1>1, <2>1, <2>2 DEF CheckerMove
<1> QED
  BY <1>2, <1>3, <1>4, <1>5, <1>6 DEF SortTyped

LEMMA CheckerStepSafe ==
  ASSUME SortIInv, fncheck, UNCHANGED <<program, swap>>
  PROVE  /\ Lifetimes' /\ Ownership' /\ Exchanging' /\ Truthful'
         /\ ListIsPermutation'
<1>0. SortTyped /\ Lifetimes /\ Ownership /\ Exchanging /\ Truthful /\ ListIsPermutation
  BY DEF SortIInv
<1>1. PICK l \in CheckerPcs \ {"unborn"} : CheckerMove(l)
  BY <1>0, CheckerMoves
<1>2. /\ num' = num /\ swap' = swap
      /\ pc'[Checker] = l /\ pc'[MainThread] = pc[MainThread]
      /\ \A s \in Sorters : pc'[s] = pc[s]
      /\ i'[MainThread] = i[MainThread]
  BY <1>0, <1>1, ThreadsDiffer DEF fncheck, listVars, CheckerMove, Goto, SortTyped, SortThreads
<1>3. i[Checker] \in Places /\ Places = 0 .. Size - 1 /\ Size \in Nat \ {0}
  BY <1>0, SortAssumption DEF SortTyped, Places
<1>4. Lifetimes'
  <2>1. \A p \in Places : holder[p] \notin {Raw, Destroyed} => holder'[p] \notin {Raw, Destroyed}
    BY <1>0, <1>1, <1>3, ThreadsDiffer DEF SortTyped, SortThreads, CheckerMove
  <2>2. pc[Checker] \notin {"unborn", "done"}
    BY <1>1 DEF CheckerMove
  <2> QED
    BY <1>0, <1>2, <2>1, <2>2 DEF Lifetimes, Usable
<1>5. Ownership'
  <2>1. pc'[Checker] \in {"unborn", "loop", "done"} => i'[Checker] = 0
    BY <1>0, <1>1, <1>2 DEF CheckerMove, Ownership, SortTyped
  <2>2. \A p \in Places : CheckerHolds(p)' => holder'[p] = Checker
    BY SMTT(30), <1>0, <1>1, <1>2, <1>3 DEF CheckerMove, Ownership, CheckerHolds, SortTyped
  <2>3. \A p \in Places : holder'[p] = holder[p] \/ holder[p] = Nobody \/ holder[p] = Checker
    BY <1>0, <1>1, <1>3 DEF CheckerMove, Ownership, CheckerHolds, SortTyped
  <2>4. \A p \in Places, s \in Sorters : SorterHolds(s, p)' => holder'[p] = s
    BY <1>0, <1>2, <2>3, ThreadsDiffer DEF Ownership, SorterHolds, SortThreads
  <2> QED
    BY <2>1, <2>2, <2>4 DEF Ownership
<1>6. Exchanging'
  BY <1>0, <1>2 DEF Exchanging
<1>7. Truthful'
  <2>1. CASE pc[Checker] = "check" /\ l = "unlock"
    <3>1. quitting' = check /\ (check => i[Checker] >= Size - 1)
      BY <1>0, <1>1, <1>3, <2>1 DEF CheckerMove, SortTyped
    <3>2. \A s \in Sorters : pc[s] \notin {"first", "second"}
      BY <1>0, <2>1, ThreadsDiffer DEF Ownership, SorterHolds, CheckerHolds
    <3>3. check => \A s \in Sorters : num[s] <= num[s + 1]
      BY <1>0, <1>3, <2>1, <3>1 DEF Truthful, Sorters
    <3> QED
      BY <1>2, <2>1, <3>1, <3>2, <3>3 DEF Truthful
  <2>2. CASE ~(pc[Checker] = "check" /\ l = "unlock")
    <3>1. quitting' = quitting
      BY <1>1, <2>2 DEF CheckerMove
    <3>2. l \in {"lock", "check"} => ~quitting
      BY <1>0, <1>1, <2>2 DEF CheckerMove, Truthful
    <3>3. l = "check" /\ check' => \A s \in Sorters : s < i'[Checker] => num[s] <= num[s + 1]
      <4>1. CASE pc[Checker] = "check"
        <5>1. ASSUME l = "check"
              PROVE  /\ check /\ i'[Checker] = i[Checker] + 1
                     /\ check' = (num[i[Checker]] <= num[i[Checker] + 1])
          BY <1>0, <1>1, <4>1, <5>1 DEF CheckerMove, SortTyped
        <5>2. ASSUME l = "check", check', NEW s \in Sorters, s < i'[Checker]
              PROVE  num[s] <= num[s + 1]
          <6>1. s < i[Checker] \/ s = i[Checker]
            BY <1>3, <5>1, <5>2 DEF Sorters
          <6>2. num[i[Checker]] <= num[i[Checker] + 1]
            BY <5>1, <5>2
          <6> QED
            BY <1>0, <4>1, <5>1, <5>2, <6>1, <6>2 DEF Truthful
        <5> QED
          BY <5>2
      <4>2. CASE pc[Checker] # "check"
        <5>1. l = "check" => i'[Checker] = 0
          BY <1>0, <1>1, <4>2 DEF CheckerMove, SortTyped
        <5> QED
          BY <5>1 DEF Sorters
      <4> QED
        BY <4>1, <4>2
    <3> QED
      BY <1>0, <1>2, <3>1, <3>2, <3>3 DEF Truthful
  <2> QED
    BY <2>1, <2>2
<1>8. ListIsPermutation'
  <2>1. \A p \in Places : Settled(p)' = Settled(p)
    BY <1>2 DEF Settled, At
  <2>2. {Settled(p)' : p \in Places} = {Settled(p) : p \in Places}
    BY <2>1
  <2> QED
    BY <1>0, <2>2 DEF ListIsPermutation
<1> QED
  BY <1>4, <1>5, <1>6, <1>7, <1>8

LEMMA MainStepTyped ==
  ASSUME SortTyped, main, UNCHANGED program
  PROVE  SortTyped'
<1>0. /\ i[MainThread] \in Places /\ Places = 0 .. Size - 1 /\ Size \in Nat \ {0}
      /\ i[MainThread] < Size - 1 => i[MainThread] \in Sorters
  BY SortAssumption DEF SortTyped, Places, Sorters
<1>1. num' = num /\ swap' = swap /\ check' = check /\ quitting' = quitting
  BY DEF main, listVars
<1>2. /\ pc' \in [SortThreads -> SorterPcs \cup CheckerPcs \cup MainPcs]
      /\ \A r \in Sorters : pc'[r] \in SorterPcs
      /\ pc'[Checker] \in CheckerPcs /\ pc'[MainThread] \in MainPcs
  BY ZenonT(40), <1>0, ThreadsDiffer
     DEF main, CreateThreads, CreateFails, JoinThreads, DestroyMutexes, MoveAt, At, Goto,
         SortTyped, SortThreads, SorterPcs, CheckerPcs, MainPcs
<1>3. holder' \in [Places -> SortThreads \cup {Raw, Nobody, Destroyed}]
  BY <1>0, ThreadsDiffer
     DEF main, CreateThreads, CreateFails, JoinThreads, DestroyMutexes, MoveAt, SortTyped
<1>4. i' \in [{Checker, MainThread} -> Places]
  BY RoundTyped
     DEF main, CreateThreads, CreateFails, JoinThreads, DestroyMutexes, SortTyped
<1> QED
  BY <1>1, <1>2, <1>3, <1>4 DEF SortTyped

LEMMA MainStepSafe ==
  ASSUME SortIInv, main, UNCHANGED program
  PROVE  /\ Lifetimes' /\ Ownership' /\ Exchanging' /\ Truthful'
         /\ ListIsPermutation'
<1>0. SortTyped /\ Lifetimes /\ Ownership /\ Exchanging /\ Truthful /\ ListIsPermutation
  BY DEF SortIInv
<1> DEFINE k == i[MainThread]
<1>1. /\ k \in Places /\ Places = 0 .. Size - 1 /\ Size \in Nat \ {0}
      /\ k < Size - 1 => k \in Sorters
  BY <1>0, SortAssumption DEF SortTyped, Places, Sorters
<1>2. num' = num /\ swap' = swap /\ check' = check /\ quitting' = quitting
  BY DEF main, listVars
<1>3. i'[Checker] = i[Checker]
  BY <1>0, ThreadsDiffer
     DEF main, CreateThreads, CreateFails, JoinThreads, DestroyMutexes, Round, SortTyped
<1>4. /\ pc'[Checker] = pc[Checker] \/ (pc[Checker] = "unborn" /\ pc'[Checker] = "loop")
      /\ \A s \in Sorters : pc'[s] = pc[s] \/ (pc[s] = "unborn" /\ pc'[s] = "loop")
  <2>1. CASE CreateThreads
    <3>1. pc[Checker] = "unborn" /\ pc[MainThread] = "create"
      BY <1>0, <2>1 DEF CreateThreads, At, Lifetimes
    <3>2. k \in Sorters => pc[k] = "unborn"
      BY <1>0, <1>1, <3>1 DEF Lifetimes
    <3> QED
      BY <1>0, <1>1, <2>1, <3>1, <3>2, ThreadsDiffer
         DEF CreateThreads, SortTyped, SortThreads
  <2>2. CASE CreateFails \/ JoinThreads \/ DestroyMutexes
    BY <1>0, <2>2, ThreadsDiffer
       DEF CreateFails, JoinThreads, DestroyMutexes, MoveAt, Goto, SortTyped, SortThreads
  <2> QED
    BY <2>1, <2>2 DEF main
<1>5. Lifetimes'
  <2>1. CASE CreateThreads
    <3>1. pc[MainThread] = "create" /\ pc[Checker] = "unborn"
          /\ \A s \in Sorters : pc[s] # "unborn" => s < k
      BY <1>0, <2>1 DEF CreateThreads, At, Lifetimes
    <3>2. i'[MainThread] = IF k + 1 = Size THEN 0 ELSE k + 1
      BY <1>0, <2>1, RoundIs DEF CreateThreads, SortTyped
    <3>3. CASE k < Size - 1
      <4>1. /\ pc' = [pc EXCEPT ![k] = "loop"]
            /\ holder' = [holder EXCEPT ![k + 1] = Nobody]
            /\ i'[MainThread] = k + 1
        BY <1>1, <2>1, <3>2, <3>3 DEF CreateThreads
      <4>2. /\ pc'[MainThread] = "create" /\ pc'[Checker] = "unborn"
            /\ \A s \in Sorters : pc'[s] # "unborn" => s < k + 1
        <5>1. /\ pc'[MainThread] = "create" /\ pc'[Checker] = "unborn"
              /\ \A s \in Sorters : s # k => pc'[s] = pc[s]
          BY <1>0, <1>1, <3>1, <3>3, <4>1, ThreadsDiffer DEF SortTyped, SortThreads
        <5> QED
          BY <1>1, <3>1, <5>1 DEF Sorters
      <4>3. \A p \in Places : p <= k + 1 => holder'[p] \notin {Raw, Destroyed}
        BY <1>0, <1>1, <3>1, <4>1, ThreadsDiffer DEF Lifetimes, Usable, SortTyped
      <4> QED
        BY <4>1, <4>2, <4>3 DEF Lifetimes, Usable
    <3>4. CASE k = Size - 1
      <4>1. /\ pc' = [pc EXCEPT ![Checker] = "loop", ![MainThread] = "join"]
            /\ holder' = holder /\ i'[MainThread] = 0
        BY <1>1, <2>1, <3>2, <3>4 DEF CreateThreads
      <4>2. pc'[MainThread] = "join"
        BY <1>0, <4>1, ThreadsDiffer DEF SortTyped, SortThreads
      <4>3. \A p \in Places : holder[p] \notin {Raw, Destroyed}
        BY <1>0, <1>1, <3>1, <3>4 DEF Lifetimes, Usable
      <4> QED
        BY <4>1, <4>2, <4>3 DEF Lifetimes, Usable, Sorters
    <3> QED
      BY <1>1, <3>3, <3>4
  <2>2. CASE CreateFails
    <3>1. /\ pc[MainThread] = "create" /\ pc'[MainThread] = "fatal"
          /\ pc'[Checker] = pc[Checker] /\ \A s \in Sorters : pc'[s] = pc[s]
          /\ i' = i /\ holder' = holder
      BY <1>0, <2>2, ThreadsDiffer
         DEF CreateFails, MoveAt, At, Goto, SortTyped, SortThreads
    <3> QED
      BY <1>0, <3>1 DEF Lifetimes, Usable
  <2>3. CASE JoinThreads
    <3>1. /\ pc[MainThread] = "join"
          /\ pc'[MainThread] = IF k < Size - 1 THEN "join" ELSE "destroy"
          /\ pc'[Checker] = pc[Checker] /\ \A s \in Sorters : pc'[s] = pc[s]
          /\ holder' = holder
          /\ IF k < Size - 1 THEN pc[k] = "done" ELSE pc[Checker] = "done"
      BY <1>0, <2>3, ThreadsDiffer
         DEF JoinThreads, MoveAt, At, Goto, SortTyped, SortThreads
    <3>2. i'[MainThread] = IF k + 1 = Size THEN 0 ELSE k + 1
      BY <1>0, <2>3, RoundIs DEF JoinThreads, SortTyped
    <3>3. \A s \in Sorters : s < k => pc[s] = "done"
      BY <1>0, <3>1 DEF Lifetimes
    <3>4. \A s \in Sorters : s < i'[MainThread] => pc'[s] = "done"
      BY <1>1, <3>1, <3>2, <3>3 DEF Sorters
    <3>5. k = Size - 1 => \A s \in Sorters : pc'[s] = "done"
      BY <1>1, <3>1, <3>3 DEF Sorters
    <3>6. \A p \in Places : holder'[p] \notin {Raw, Destroyed}
      BY <1>0, <3>1 DEF Lifetimes, Usable
    <3> QED
      BY <1>1, <3>1, <3>4, <3>5, <3>6 DEF Lifetimes
  <2>4. CASE DestroyMutexes
    <3>1. /\ pc[MainThread] = "destroy"
          /\ pc'[MainThread] = IF k < Size - 1 THEN "destroy" ELSE "done"
          /\ pc'[Checker] = pc[Checker] /\ \A s \in Sorters : pc'[s] = pc[s]
          /\ holder' = [holder EXCEPT ![k] = Destroyed]
      BY <1>0, <2>4, ThreadsDiffer
         DEF DestroyMutexes, At, Goto, SortTyped, SortThreads
    <3>2. i'[MainThread] = IF k + 1 = Size THEN 0 ELSE k + 1
      BY <1>0, <2>4, RoundIs DEF DestroyMutexes, SortTyped
    <3>3. k < Size - 1 => \A p \in Places : p >= k + 1 => holder'[p] \notin {Raw, Destroyed}
      BY <1>0, <1>1, <3>1 DEF Lifetimes, Usable, SortTyped
    <3> QED
      BY <1>0, <1>1, <3>1, <3>2, <3>3 DEF Lifetimes, Usable
  <2> QED
    BY <2>1, <2>2, <2>3, <2>4 DEF main
<1>6. Ownership'
  <2>1. \A p \in Places : CheckerHolds(p)' => holder'[p] = Checker
    <3>1. CASE pc[MainThread] = "create"
      BY <1>0, <1>4, <3>1 DEF Lifetimes, CheckerHolds
    <3>2. CASE pc[MainThread] = "join"
      <4>1. holder' = holder
        BY <3>2 DEF main, CreateThreads, CreateFails, JoinThreads, DestroyMutexes, MoveAt, At
      <4> QED
        BY <1>0, <1>3, <1>4, <4>1 DEF Ownership, CheckerHolds
    <3>3. CASE pc[MainThread] = "destroy"
      BY <1>0, <1>4, <3>3 DEF Lifetimes, CheckerHolds
    <3> QED
      BY <3>1, <3>2, <3>3
         DEF main, CreateThreads, CreateFails, JoinThreads, DestroyMutexes, MoveAt, At
  <2>2. \A p \in Places, s \in Sorters : SorterHolds(s, p)' => holder'[p] = s
    <3>1. ASSUME NEW p \in Places, NEW s \in Sorters, SorterHolds(s, p)'
          PROVE  holder[p] = s /\ pc[s] \notin {"unborn", "done"} /\ p \in {s, s + 1}
      BY <1>0, <1>4, <3>1 DEF SorterHolds, Ownership
    <3>2. CASE CreateThreads
      <4>1. \A s \in Sorters : pc[s] # "unborn" => s < k
        BY <1>0, <3>2 DEF Lifetimes, CreateThreads, At
      <4>2. \A p \in Places : p # k + 1 => holder'[p] = holder[p]
        BY <1>0, <3>2 DEF CreateThreads, SortTyped
      <4> QED
        BY <1>1, <3>1, <4>1, <4>2 DEF Sorters
    <3>3. CASE CreateFails \/ JoinThreads
      <4>1. holder' = holder
        BY <3>3 DEF CreateFails, JoinThreads, MoveAt
      <4> QED
        BY <3>1, <4>1
    <3>4. CASE DestroyMutexes
      <4>1. \A s \in Sorters : pc[s] = "done"
        BY <1>0, <3>4 DEF Lifetimes, DestroyMutexes, At
      <4> QED
        BY <3>1, <4>1
    <3> QED
      BY <3>2, <3>3, <3>4 DEF main
  <2>3. pc'[Checker] \in {"unborn", "loop", "done"} => i'[Checker] = 0
    BY <1>0, <1>3, <1>4 DEF Ownership
  <2> QED
    BY <2>1, <2>2, <2>3 DEF Ownership
<1>7. Exchanging'
  BY <1>0, <1>2, <1>4 DEF Exchanging
<1>8. Truthful'
  BY <1>0, <1>2, <1>3, <1>4 DEF Truthful
<1>9. ListIsPermutation'
  <2>1. \A p \in Places : Settled(p)' = Settled(p)
    BY <1>2, <1>4 DEF Settled, At
  <2>2. {Settled(p)' : p \in Places} = {Settled(p) : p \in Places}
    BY <2>1
  <2> QED
    BY <1>0, <2>2 DEF ListIsPermutation
<1> QED
  BY <1>5, <1>6, <1>7, <1>8, <1>9

----------------------------------------------------------------------------
LEMMA SortNextIInv ==
  ASSUME SortIInv, [SortNext]_<<callVars, sortVars>>
  PROVE  SortIInv'
<1>0. SortTyped /\ Lifetimes /\ Ownership /\ Exchanging /\ Truthful /\ ListIsPermutation
  BY DEF SortIInv
<1>1. ASSUME NEW s \in Sorters, fnsort(s), UNCHANGED sharedVars
      PROVE  SortIInv'
  BY <1>0, <1>1, SorterStepTyped, SorterStepLifetimes, SorterStepOwnership,
     SorterStepExchanging, SorterStepTruthful, SorterStepPermutation
     DEF SortIInv, sharedVars
<1>2. ASSUME fncheck, UNCHANGED sharedVars
      PROVE  SortIInv'
  <2>1. swap' = swap
    BY <1>2 DEF fncheck, listVars
  <2> QED
    BY <1>0, <1>2, <2>1, CheckerStepTyped, CheckerStepSafe DEF SortIInv, sharedVars
<1>3. ASSUME main, UNCHANGED sharedVars
      PROVE  SortIInv'
  BY <1>0, <1>3, MainStepTyped, MainStepSafe DEF SortIInv, sharedVars
<1>4. CASE UNCHANGED <<callVars, sortVars>>
  <2> USE <1>0, <1>4 DEF callVars, sortVars
  <2>1. SortTyped' /\ Exchanging' /\ Truthful'
    BY DEF SortTyped, Exchanging, Truthful
  <2>2. Lifetimes' /\ Ownership'
    BY DEF Lifetimes, Usable, Ownership, SorterHolds, CheckerHolds
  <2>3. ListIsPermutation'
    BY DEF ListIsPermutation, Settled, At
  <2> QED
    BY <2>1, <2>2, <2>3 DEF SortIInv
<1> QED
  BY <1>1, <1>2, <1>3, <1>4 DEF SortNext, SortStep

LEMMA SortTypes == SortIInv /\ CallsTyped(SortThreads, Places) => SortTypeOK
<1> SUFFICES ASSUME SortIInv, CallsTyped(SortThreads, Places)
             PROVE  SortTypeOK
  OBVIOUS
<1>0. SortTyped /\ Lifetimes
  BY DEF SortIInv
<1>1. ASSUME NEW s \in Sorters, pc[s] \notin {"unborn", "done"}
      PROVE  {holder[s], holder[s + 1]} \cap {Raw, Destroyed} = {}
  <2>1. Usable(s) /\ Usable(s + 1)
    BY SMTT(30), <1>0, <1>1, SortAssumption DEF SortTyped, Lifetimes, Usable, MainPcs, Sorters, Places
  <2> QED
    BY <1>0, <2>1, ThreadsDiffer DEF Lifetimes
<1>2. pc[Checker] \notin {"unborn", "done"} =>
        \A p \in Places : holder[p] \notin {Raw, Destroyed}
  BY <1>0 DEF SortTyped, Lifetimes, Usable, MainPcs
<1> QED
  BY <1>0, <1>1, <1>2 DEF SortTypeOK, SortTyped

----------------------------------------------------------------------------
(***************************************************************************)
(* The programs that count together.                                       *)
(***************************************************************************)

Mutexes == {"count_mutex", "condition_mutex"}

LabelsOf(p) ==
  CASE p = "sample4" -> {"unborn", "start", "read", "write", "unlock", "done",
                         "blocked", "gone"}
    [] p = "sample5" -> {"unborn", "start", "test", "awake", "unlock", "lock", "read", "write",
                         "unlock2", "end", "done", "blocked", "gone"}
    [] p = "pingpong" -> {"unborn", "start", "born", "lock", "hello", "wait", "awake", "unlock",
                          "dying", "dead", "signal", "done", "blocked", "gone"}

MainLabels == {"create", "join", "poll", "exited", "done"}

SamplesTyped ==
  /\ program \in {"sample4", "sample5", "pingpong"}
  /\ count \in Int /\ late \in Nat /\ spurious \in BOOLEAN
  /\ reg \in [Threads -> Int] /\ rounds \in [Threads -> 0..Rounds]
  /\ holder \in [Mutexes -> Threads \cup {Nobody}]
  /\ asleep \subseteq {First, Second}
  /\ pc \in [Players(program) \cup {MainThread} -> MainLabels \cup LabelsOf(program)]
  /\ pc[MainThread] \in MainLabels
  /\ \A t \in Players(program) : pc[t] \in LabelsOf(program)
  /\ \A t \in asleep : program # "sample4" /\ pc[t] = "awake"

\* At which labels a thread holds which mutex.
CountLabels(p) ==
  CASE p = "sample4" -> {"read", "write", "unlock"}
    [] p = "sample5" -> {"read", "write", "unlock2"}
    [] p = "pingpong" -> {}
ConditionLabels(p) ==
  CASE p = "sample4" -> {}
    [] p = "sample5" -> {"test", "unlock"}
    [] p = "pingpong" -> {"hello", "wait", "unlock"}
LabelsWith(m, p) == IF m = "count_mutex" THEN CountLabels(p) ELSE ConditionLabels(p)

Holding ==
  \A m \in Mutexes, t \in Players(program) :
    pc[t] \in LabelsWith(m, program) => holder[m] = t

\* What has been read to be incremented is still the count.
Fresh ==
  program \in {"sample4", "sample5"} =>
    \A t \in Players(program) : pc[t] = "write" => reg[t] = count

\* sample4: who has counted; main waits for all.
Counted4 == {t \in Threads : pc[t] \in {"unlock", "done"}}
Counting ==
  program = "sample4" =>
    /\ count = Cardinality(Counted4)
    /\ pc[MainThread] = "done" => \A t \in Threads : pc[t] = "done"

\* sample5: the count passes its end only by those who will not increment
\* before the next test.
Over(t) == pc[t] \in {"unlock2", "end", "done"}
Ending ==
  program = "sample5" =>
    count <= CountDone - 1 + (IF Over(First) THEN 1 ELSE 0) + (IF Over(Second) THEN 1 ELSE 0)

\* sample5: a thread that is past the test with the count between the marks
\* has tested before the first one.
PastTest(t) == pc[t] \in {"unlock", "lock", "read", "write"}
Halting ==
  IF program = "sample5"
  THEN /\ late <= 1
       /\ count < CountHalt1 => late = 0
       /\ Between /\ PastTest(First) => late = 0
  ELSE late = 0

\* pingpong: whoever is a round ahead waits, until the other has caught up.
Waits(t) == pc[t] = "wait" \/ t \in asleep
Turning ==
  program = "pingpong" =>
    /\ \A t \in {First, Second} :
         pc[t] \in {"unlock", "dying", "dead", "signal", "done"} => rounds[t] = Rounds
    /\ ~spurious => \A t, u \in {First, Second} :
         rounds[t] > rounds[u] => rounds[t] = rounds[u] + 1 /\ Waits(t)

SamplesIInv == SamplesTyped /\ Holding /\ Fresh /\ Counting /\ Ending /\ Halting /\ Turning

----------------------------------------------------------------------------
LEMMA PlayersAre ==
  /\ Players(program) \subseteq Threads /\ MainThread \notin Threads /\ Nobody \notin Threads
  /\ First \in Players(program) /\ Second \in Players(program) /\ First # Second
  /\ program # "sample4" => Players(program) = {First, Second}
  /\ program = "sample4" => Players(program) = Threads
BY SamplesAssumption DEF Players

LEMMA Goes ==
  ASSUME SamplesTyped, NEW t \in Players(program), NEW l \in LabelsOf(program), Goto(t, l),
         program' = program
  PROVE  /\ pc' \in [Players(program) \cup {MainThread} -> MainLabels \cup LabelsOf(program)]
         /\ pc'[t] = l /\ pc'[MainThread] = pc[MainThread]
         /\ \A u \in Players(program) \ {t} : pc'[u] = pc[u]
BY PlayersAre DEF SamplesTyped, Goto

LEMMA GoesTyped ==
  ASSUME SamplesTyped, NEW t \in Players(program), NEW l \in LabelsOf(program), Goto(t, l),
         program' = program,
         count' \in Int, late' \in Nat, spurious' \in BOOLEAN,
         reg' \in [Threads -> Int], rounds' \in [Threads -> 0..Rounds],
         holder' \in [Mutexes -> Threads \cup {Nobody}],
         asleep' \subseteq {First, Second},
         \A u \in asleep' : program # "sample4" /\ pc'[u] = "awake"
  PROVE  SamplesTyped'
<1>1. /\ pc' \in [Players(program) \cup {MainThread} -> MainLabels \cup LabelsOf(program)]
      /\ pc'[t] = l /\ pc'[MainThread] = pc[MainThread]
      /\ \A u \in Players(program) \ {t} : pc'[u] = pc[u]
  BY Goes
<1>2. \A u \in Players(program) : pc'[u] \in LabelsOf(program)
  BY <1>1 DEF SamplesTyped
<1>3. Players(program') = Players(program) /\ LabelsOf(program') = LabelsOf(program)
  OBVIOUS
<1> QED
  BY <1>1, <1>2, <1>3 DEF SamplesTyped

LEMMA MoveHolding ==
  ASSUME SamplesTyped, Holding, NEW t \in Players(program), NEW from,
         NEW to \in LabelsOf(program), MoveAt(t, from, to), program' = program,
         \A m \in Mutexes : to \in LabelsWith(m, program) => from \in LabelsWith(m, program)
  PROVE  Holding' /\ holder' \in [Mutexes -> Threads \cup {Nobody}]
<1>1. /\ pc'[t] = to /\ pc[t] = from /\ holder' = holder
      /\ \A u \in Players(program) \ {t} : pc'[u] = pc[u]
  BY Goes DEF MoveAt, At
<1>2. ASSUME NEW m \in Mutexes, NEW u \in Players(program), pc'[u] \in LabelsWith(m, program)
      PROVE  holder'[m] = u
  <2>1. pc[u] \in LabelsWith(m, program)
    BY <1>1, <1>2
  <2> QED
    BY <1>1, <2>1 DEF Holding
<1>3. Players(program') = Players(program) /\ \A m : LabelsWith(m, program') = LabelsWith(m, program)
  OBVIOUS
<1> QED
  BY <1>1, <1>2, <1>3 DEF Holding, SamplesTyped

LEMMA LockHolding ==
  ASSUME SamplesTyped, Holding, NEW t \in Players(program), NEW from, NEW n \in Mutexes,
         NEW to \in LabelsOf(program), TakeAt(t, from, n, to), program' = program,
         \A m \in Mutexes \ {n} :
           to \in LabelsWith(m, program) => from \in LabelsWith(m, program)
  PROVE  Holding' /\ holder' \in [Mutexes -> Threads \cup {Nobody}]
<1>1. /\ pc'[t] = to /\ pc[t] = from /\ holder[n] = Nobody
      /\ holder' = [holder EXCEPT ![n] = t]
      /\ \A u \in Players(program) \ {t} : pc'[u] = pc[u]
  BY Goes DEF TakeAt, At
<1>2. t \in Threads /\ holder \in [Mutexes -> Threads \cup {Nobody}]
  BY PlayersAre DEF SamplesTyped
<1>3. holder'[n] = t /\ \A m \in Mutexes \ {n} : holder'[m] = holder[m]
  BY <1>1, <1>2
<1>4. ASSUME NEW m \in Mutexes, NEW u \in Players(program), pc'[u] \in LabelsWith(m, program)
      PROVE  holder'[m] = u
  <2>1. CASE m = n /\ u # t
    <3>1. holder[n] = u
      BY <1>1, <1>4, <2>1 DEF Holding
    <3> QED
      BY <1>1, <3>1, PlayersAre
  <2>2. CASE m = n /\ u = t
    BY <1>3, <2>2
  <2>3. CASE m # n
    <3>1. pc[u] \in LabelsWith(m, program)
      BY <1>1, <1>4, <2>3
    <3> QED
      BY <1>3, <2>3, <3>1 DEF Holding
  <2> QED
    BY <2>1, <2>2, <2>3
<1>5. Players(program') = Players(program) /\ \A m : LabelsWith(m, program') = LabelsWith(m, program)
  OBVIOUS
<1> QED
  BY <1>1, <1>2, <1>4, <1>5 DEF Holding

LEMMA UnlockHolding ==
  ASSUME SamplesTyped, Holding, NEW t \in Players(program), NEW from, NEW n \in Mutexes,
         NEW to \in LabelsOf(program), UnlockAt(t, from, n, to), program' = program,
         from \in LabelsWith(n, program), to \notin LabelsWith(n, program),
         \A m \in Mutexes \ {n} :
           to \in LabelsWith(m, program) => from \in LabelsWith(m, program)
  PROVE  Holding' /\ holder' \in [Mutexes -> Threads \cup {Nobody}]
<1>1. /\ pc'[t] = to /\ pc[t] = from
      /\ holder' = [holder EXCEPT ![n] = Nobody]
      /\ \A u \in Players(program) \ {t} : pc'[u] = pc[u]
  BY Goes DEF UnlockAt, At
<1>2. holder \in [Mutexes -> Threads \cup {Nobody}]
  BY DEF SamplesTyped
<1>3. \A m \in Mutexes \ {n} : holder'[m] = holder[m]
  BY <1>1, <1>2
<1>4. ASSUME NEW m \in Mutexes, NEW u \in Players(program), pc'[u] \in LabelsWith(m, program)
      PROVE  holder'[m] = u
  <2>1. CASE m = n
    <3>1. u # t /\ pc[u] \in LabelsWith(n, program)
      BY <1>1, <1>4, <2>1
    <3>2. holder[n] = u /\ holder[n] = t
      BY <1>1, <3>1 DEF Holding
    <3> QED
      BY <3>1, <3>2
  <2>2. CASE m # n
    <3>1. pc[u] \in LabelsWith(m, program)
      BY <1>1, <1>4, <2>2
    <3> QED
      BY <1>3, <2>2, <3>1 DEF Holding
  <2> QED
    BY <2>1, <2>2
<1>5. Players(program') = Players(program) /\ \A m : LabelsWith(m, program') = LabelsWith(m, program)
  OBVIOUS
<1> QED
  BY <1>1, <1>2, <1>4, <1>5 DEF Holding

\* A thread of mypthread that finds a mutex taken, and one that restarts its
\* lock, leave everything else as it is.
LEMMA DetourKeeps ==
  ASSUME SamplesIInv, program' = program, NEW t \in Players(program),
         pc[t] \in {"start", "lock", "awake", "blocked"}, t \notin asleep,
         NEW to \in {"blocked", "gone"}, Goto(t, to), UNCHANGED <<asleep, samplesVars>>,
         \/ holder' = holder
         \/ \E m \in Mutexes : holder[m] = Nobody /\ holder' = [holder EXCEPT ![m] = t]
  PROVE  SamplesIInv'
<1>1. SamplesTyped /\ Holding /\ Fresh /\ UNCHANGED <<count, reg, rounds, late, spurious>>
  BY DEF SamplesIInv, samplesVars
<1>2. /\ to \in LabelsOf(program)
      /\ \A m \in Mutexes : to \notin LabelsWith(m, program)
  BY <1>1 DEF SamplesTyped, LabelsOf, LabelsWith, CountLabels, ConditionLabels
<1>3. /\ pc'[t] = to /\ pc'[MainThread] = pc[MainThread]
      /\ \A u \in Players(program) \ {t} : pc'[u] = pc[u]
  BY <1>1, <1>2, Goes
<1>4. Holding' /\ holder' \in [Mutexes -> Threads \cup {Nobody}]
  <2>1. /\ holder \in [Mutexes -> Threads \cup {Nobody}] /\ t \in Threads
        /\ Nobody \notin Players(program)
    BY <1>1, PlayersAre DEF SamplesTyped
  <2>2. ASSUME NEW m \in Mutexes, NEW u \in Players(program), pc'[u] \in LabelsWith(m, program)
        PROVE  holder'[m] = u
    <3>1. pc[u] \in LabelsWith(m, program)
      BY <1>2, <1>3, <2>2
    <3>2. holder[m] = u
      BY <1>1, <3>1 DEF Holding
    <3> QED
      BY <2>1, <3>2
  <2>3. Players(program') = Players(program)
        /\ \A m : LabelsWith(m, program') = LabelsWith(m, program)
    OBVIOUS
  <2>4. holder' \in [Mutexes -> Threads \cup {Nobody}]
    BY <2>1
  <2> QED
    BY <2>2, <2>3, <2>4 DEF Holding
<1>5. SamplesTyped'
  <2>1. /\ count' \in Int /\ late' \in Nat /\ spurious' \in BOOLEAN
        /\ reg' \in [Threads -> Int] /\ rounds' \in [Threads -> 0..Rounds]
        /\ asleep' \subseteq {First, Second}
    BY <1>1 DEF SamplesTyped
  <2>2. \A u \in asleep : program # "sample4" /\ u \in Players(program) /\ pc[u] = "awake"
    BY <1>1, PlayersAre DEF SamplesTyped
  <2>3. \A u \in asleep' : program # "sample4" /\ pc'[u] = "awake"
    BY <1>3, <2>2
  <2> QED
    BY <1>1, <1>2, <1>4, <2>1, <2>3, GoesTyped
<1>6. Fresh'
  BY <1>1, <1>3 DEF Fresh, Players
<1>7. Counting'
  <2> SUFFICES ASSUME program = "sample4"
               PROVE  Counting'
    BY DEF Counting
  <2>1. Players(program) = Threads
    BY PlayersAre
  <2>2. Counted4' = Counted4
    BY <1>3, <2>1 DEF Counted4
  <2>3. pc[MainThread] # "done"
    BY <2>1 DEF SamplesIInv, Counting
  <2> QED
    BY <1>1, <1>3, <2>2, <2>3 DEF SamplesIInv, Counting
<1>8. Ending' /\ Halting' /\ Turning'
  <2>1. /\ First \in Players(program) /\ Second \in Players(program)
    BY PlayersAre
  <2>2. \A u \in {First, Second} : (Over(u)' <=> Over(u)) /\ (PastTest(u)' => PastTest(u))
    BY <1>3, <2>1 DEF Over, PastTest
  <2>3. \A u \in {First, Second} :
          /\ Waits(u) => Waits(u)'
          /\ pc'[u] \in {"unlock", "dying", "dead", "signal", "done"} => pc'[u] = pc[u]
    BY <1>3, <2>1 DEF Waits
  <2>4. Ending'
    BY <1>1, <2>2 DEF SamplesIInv, Ending
  <2>5. Halting'
    BY <1>1, <2>2 DEF SamplesIInv, Halting, Between
  <2>6. Turning'
    BY <1>1, <2>3 DEF SamplesIInv, Turning
  <2> QED
    BY <2>4, <2>5, <2>6
<1> QED
  BY <1>1, <1>4, <1>5, <1>6, <1>7, <1>8 DEF SamplesIInv

LEMMA BlockKeeps ==
  ASSUME SamplesIInv, program' = program, NEW t \in Players(program),
         NEW from \in {"start", "lock", "awake"}, NEW m, BlockAt(t, from, m),
         t \notin asleep, UNCHANGED <<asleep, samplesVars>>
  PROVE  SamplesIInv'
BY DetourKeeps DEF BlockAt, At

LEMMA RestartKeeps ==
  ASSUME SamplesIInv, program' = program, NEW t \in Players(program), RestartAt(t),
         UNCHANGED <<asleep, samplesVars>>
  PROVE  SamplesIInv'
<1>1. /\ pc[t] = "blocked" /\ Goto(t, "gone")
      /\ \E m \in DOMAIN holder : holder[m] = Nobody /\ holder' = [holder EXCEPT ![m] = t]
  BY DEF RestartAt, At
<1>2. DOMAIN holder = Mutexes /\ t \notin asleep
  BY <1>1 DEF SamplesIInv, SamplesTyped
<1> QED
  BY <1>1, <1>2, DetourKeeps

\* Only at "awake" is a thread asleep.
LEMMA NotAsleep ==
  ASSUME SamplesIInv, NEW t, pc[t] # "awake"
  PROVE  t \notin asleep
BY DEF SamplesIInv, SamplesTyped

\* The holder of the counter's mutex is alone.
LEMMA Alone ==
  ASSUME Holding, NEW t \in Players(program), NEW u \in Players(program), NEW m \in Mutexes,
         pc[t] \in LabelsWith(m, program), pc[u] \in LabelsWith(m, program)
  PROVE  t = u
BY DEF Holding

----------------------------------------------------------------------------
\* sample4

LEMMA Sample4Counts ==
  ASSUME NEW t \in Threads, NEW Q, t \notin Q, Q \subseteq Threads
  PROVE  Cardinality(Q \cup {t}) = Cardinality(Q) + 1 /\ Cardinality(Q) \in Nat
<1>1. IsFiniteSet(Q)
  BY SamplesAssumption, FS_Subset
<1> QED
  BY <1>1, FS_AddElement, FS_CardinalityType

LEMMA Sample4Step ==
  ASSUME SamplesIInv, program = "sample4", NEW t \in Threads, thread_function(t),
         program' = program
  PROVE  SamplesIInv'
<1>1. /\ SamplesTyped /\ Holding /\ Fresh /\ Counting
      /\ t \in Players(program) /\ Players(program) = Threads
  BY PlayersAre DEF SamplesIInv
<1>2. LabelsOf(program) = {"unborn", "start", "read", "write", "unlock", "done",
                           "blocked", "gone"}
  BY DEF LabelsOf
<1>3. /\ LabelsWith("count_mutex", program) = {"read", "write", "unlock"}
      /\ LabelsWith("condition_mutex", program) = {}
      /\ Mutexes = {"count_mutex", "condition_mutex"}
  BY DEF LabelsWith, CountLabels, ConditionLabels, Mutexes
<1>4. Ending' /\ Turning' /\ (late' = late => Halting')
  BY DEF SamplesIInv, Ending, Halting, Turning
<1>5. /\ count \in Int /\ late \in Nat /\ spurious \in BOOLEAN /\ reg \in [Threads -> Int]
      /\ rounds \in [Threads -> 0..Rounds] /\ asleep = {}
      /\ MainThread \notin Threads /\ pc[MainThread] \in MainLabels
  BY PlayersAre DEF SamplesIInv, SamplesTyped
<1>6. ASSUME NEW l \in LabelsOf(program), Goto(t, l)
      PROVE  /\ pc'[t] = l /\ pc'[MainThread] = pc[MainThread]
             /\ \A u \in Threads \ {t} : pc'[u] = pc[u]
  BY <1>1, <1>6, Goes DEF SamplesIInv
<1>7. CASE Quietly(TakeAt(t, "start", "count_mutex", "read"))
  <2>1. TakeAt(t, "start", "count_mutex", "read") /\ UNCHANGED <<asleep, samplesVars>>
    BY <1>7 DEF Quietly
  <2>2. Goto(t, "read") /\ pc[t] = "start"
    BY <2>1 DEF TakeAt, At
  <2>3. Holding' /\ holder' \in [Mutexes -> Threads \cup {Nobody}]
    BY SMTT(30), <1>1, <1>2, <1>3, <2>1, LockHolding DEF SamplesIInv
  <2>4. /\ pc'[t] = "read" /\ pc'[MainThread] = pc[MainThread]
        /\ \A u \in Threads \ {t} : pc'[u] = pc[u]
    BY <1>2, <1>6, <2>2
  <2>5. UNCHANGED <<asleep, count, reg, rounds, late, spurious>>
    BY <2>1 DEF samplesVars
  <2>6. SamplesTyped'
    BY <1>1, <1>2, <1>5, <2>2, <2>3, <2>5, GoesTyped DEF SamplesIInv
  <2>7. Fresh'
    BY <1>1, <2>4, <2>5 DEF SamplesIInv, Fresh
  <2>8. Counted4' = Counted4
    BY <2>2, <2>4 DEF Counted4
  <2>9. Counting'
    BY <2>2, <2>4, <2>5, <2>8 DEF SamplesIInv, Counting
  <2> QED
    BY <1>4, <2>1, <2>3, <2>5, <2>6, <2>7, <2>9 DEF SamplesIInv
<1>8. CASE Read(t, "read", "write")
  <2>1. MoveAt(t, "read", "write") /\ reg' = [reg EXCEPT ![t] = count]
        /\ UNCHANGED <<asleep, count, rounds, late, spurious>>
    BY <1>8 DEF Read, ghosts
  <2>2. Goto(t, "write") /\ pc[t] = "read"
    BY <2>1 DEF MoveAt, At
  <2>3. Holding' /\ holder' \in [Mutexes -> Threads \cup {Nobody}]
    BY <1>1, <1>2, <1>3, <2>1, MoveHolding DEF SamplesIInv
  <2>4. /\ pc'[t] = "write" /\ pc'[MainThread] = pc[MainThread]
        /\ \A u \in Threads \ {t} : pc'[u] = pc[u]
    BY <1>2, <1>6, <2>2
  <2>5. reg' \in [Threads -> Int] /\ reg'[t] = count /\ \A u \in Threads \ {t} : reg'[u] = reg[u]
    BY <1>5, <2>1
  <2>6. SamplesTyped'
    BY <1>1, <1>2, <1>5, <2>1, <2>2, <2>3, <2>5, GoesTyped DEF SamplesIInv
  <2>7. Fresh'
    BY <1>1, <2>1, <2>4, <2>5 DEF SamplesIInv, Fresh
  <2>8. Counted4' = Counted4
    BY <2>2, <2>4 DEF Counted4
  <2>9. Counting'
    BY <2>1, <2>2, <2>4, <2>8 DEF SamplesIInv, Counting
  <2> QED
    BY <1>4, <2>1, <2>3, <2>5, <2>6, <2>7, <2>9 DEF SamplesIInv
<1>9. CASE Write(t, "write", 1, "unlock")
  <2>1. MoveAt(t, "write", "unlock") /\ count' = reg[t] + 1 /\ late' = late
        /\ UNCHANGED <<asleep, reg, rounds, spurious>>
    BY <1>5, <1>9 DEF Write
  <2>2. Goto(t, "unlock") /\ pc[t] = "write"
    BY <2>1 DEF MoveAt, At
  <2>3. Holding' /\ holder' \in [Mutexes -> Threads \cup {Nobody}]
    BY <1>1, <1>2, <1>3, <2>1, MoveHolding DEF SamplesIInv
  <2>4. /\ pc'[t] = "unlock" /\ pc'[MainThread] = pc[MainThread]
        /\ \A u \in Threads \ {t} : pc'[u] = pc[u]
    BY <1>2, <1>6, <2>2
  <2>5. count' = count + 1
    BY <1>1, <2>1, <2>2 DEF SamplesIInv, Fresh
  <2>6. SamplesTyped'
    BY <1>1, <1>2, <1>5, <2>1, <2>2, <2>3, <2>5, GoesTyped DEF SamplesIInv
  <2>7. Fresh'
    <3>1. ASSUME NEW u \in Threads, pc'[u] = "write"
          PROVE  FALSE
      <4>1. u # t /\ pc[u] = "write"
        BY <2>4, <3>1
      <4> QED
        BY <1>1, <1>3, <2>2, <4>1, Alone DEF SamplesIInv
    <3> QED
      BY <1>1, <3>1 DEF Fresh
  <2>8. Counted4' = Counted4 \cup {t} /\ t \notin Counted4 /\ Counted4 \subseteq Threads
    BY <2>2, <2>4 DEF Counted4
  <2>9. Counting'
    <3>1. Cardinality(Counted4') = Cardinality(Counted4) + 1
      BY <2>8, Sample4Counts
    <3> QED
      BY <2>2, <2>4, <2>5, <3>1 DEF SamplesIInv, Counting
  <2> QED
    BY <1>4, <2>1, <2>3, <2>5, <2>6, <2>7, <2>9 DEF SamplesIInv
<1>10. CASE Quietly(UnlockAt(t, "unlock", "count_mutex", "done"))
  <2>1. UnlockAt(t, "unlock", "count_mutex", "done") /\ UNCHANGED <<asleep, samplesVars>>
    BY <1>10 DEF Quietly
  <2>2. Goto(t, "done") /\ pc[t] = "unlock"
    BY <2>1 DEF UnlockAt, At
  <2>3. Holding' /\ holder' \in [Mutexes -> Threads \cup {Nobody}]
    BY <1>1, <1>2, <1>3, <2>1, UnlockHolding DEF SamplesIInv
  <2>4. /\ pc'[t] = "done" /\ pc'[MainThread] = pc[MainThread]
        /\ \A u \in Threads \ {t} : pc'[u] = pc[u]
    BY <1>2, <1>6, <2>2
  <2>5. UNCHANGED <<asleep, count, reg, rounds, late, spurious>>
    BY <2>1 DEF samplesVars
  <2>6. SamplesTyped'
    BY <1>1, <1>2, <1>5, <2>2, <2>3, <2>5, GoesTyped DEF SamplesIInv
  <2>7. Fresh'
    BY <1>1, <2>4, <2>5 DEF SamplesIInv, Fresh
  <2>8. Counted4' = Counted4
    BY <2>2, <2>4 DEF Counted4
  <2>9. Counting'
    BY <2>2, <2>4, <2>5, <2>8 DEF SamplesIInv, Counting
  <2> QED
    BY <1>4, <2>1, <2>3, <2>5, <2>6, <2>7, <2>9 DEF SamplesIInv
<1>11. CASE Quietly(BlockAt(t, "start", "count_mutex") \/ RestartAt(t))
  <2>1. BlockAt(t, "start", "count_mutex") => t \notin asleep
    BY <1>5
  <2> QED
    BY <1>1, <1>11, <2>1, BlockKeeps, RestartKeeps DEF Quietly
<1> QED
  BY <1>7, <1>8, <1>9, <1>10, <1>11 DEF thread_function, Quietly, LockAt

----------------------------------------------------------------------------
\* sample5

LEMMA Sample5Labels ==
  ASSUME program = "sample5"
  PROVE  /\ LabelsOf(program) = {"unborn", "start", "test", "awake", "unlock", "lock", "read",
                                 "write", "unlock2", "end", "done", "blocked", "gone"}
         /\ LabelsWith("count_mutex", program) = {"read", "write", "unlock2"}
         /\ LabelsWith("condition_mutex", program) = {"test", "unlock"}
         /\ Mutexes = {"count_mutex", "condition_mutex"}
         /\ Players(program) = {First, Second} /\ First # Second
BY PlayersAre DEF LabelsOf, LabelsWith, CountLabels, ConditionLabels, Mutexes

\* A step that leaves the count and what was read of it alone.
LEMMA Sample5Quiet ==
  ASSUME SamplesIInv, program = "sample5", program' = program,
         NEW t \in {First, Second}, NEW to \in LabelsOf(program), Goto(t, to), to # "write",
         UNCHANGED samplesVars, Holding', holder' \in [Mutexes -> Threads \cup {Nobody}],
         asleep' \subseteq {First, Second}, \A u \in asleep' : pc'[u] = "awake",
         Over(t) => to \in {"unlock2", "end", "done"} \/ count < CountDone,
         t = First /\ to \in {"unlock", "lock", "read"} => PastTest(First) \/ ~Between
  PROVE  SamplesIInv'
<1>1. t \in Players(program) /\ Players(program) = {First, Second} /\ First # Second
  BY Sample5Labels
<1>2. /\ pc'[t] = to /\ \A u \in {First, Second} \ {t} : pc'[u] = pc[u]
  BY <1>1, Goes DEF SamplesIInv
<1>3. UNCHANGED <<count, reg, rounds, late, spurious>>
  BY DEF samplesVars
<1>4. SamplesTyped'
  <2>1. /\ count' \in Int /\ late' \in Nat /\ spurious' \in BOOLEAN
        /\ reg' \in [Threads -> Int] /\ rounds' \in [Threads -> 0..Rounds]
    BY <1>3 DEF SamplesIInv, SamplesTyped
  <2> QED
    BY <1>1, <2>1, GoesTyped DEF SamplesIInv
<1>5. Fresh'
  BY <1>1, <1>2, <1>3 DEF SamplesIInv, Fresh
<1>6. Ending'
  <2>1. count \in Int /\ CountDone \in Nat
    BY SamplesAssumption DEF SamplesIInv, SamplesTyped
  <2>2. \A u \in {First, Second} \ {t} : Over(u)' <=> Over(u)
    BY <1>2 DEF Over
  <2>3. Over(t)' <=> to \in {"unlock2", "end", "done"}
    BY <1>2 DEF Over
  <2>4. count <= CountDone - 1 + (IF Over(First) THEN 1 ELSE 0) + (IF Over(Second) THEN 1 ELSE 0)
    BY DEF SamplesIInv, Ending
  <2>5. count' <= CountDone - 1 + (IF Over(First)' THEN 1 ELSE 0) + (IF Over(Second)' THEN 1 ELSE 0)
    <3>1. CASE Over(t) /\ ~Over(t)'
      BY <1>3, <2>1, <2>3, <3>1
    <3>2. CASE Over(t) => Over(t)'
      BY <1>1, <1>3, <2>1, <2>2, <2>4, <3>2
    <3> QED
      BY <3>1, <3>2
  <2> QED
    BY <2>5 DEF Ending
<1>7. Halting'
  <2>1. Between' <=> Between
    BY <1>3 DEF Between
  <2>2. PastTest(First)' => PastTest(First) \/ ~Between
    BY <1>1, <1>2 DEF PastTest
  <2> QED
    BY <1>3, <2>1, <2>2 DEF SamplesIInv, Halting
<1>8. Counting' /\ Turning'
  BY DEF Counting, Turning
<1> QED
  BY <1>4, <1>5, <1>6, <1>7, <1>8 DEF SamplesIInv

LEMMA Sample5Round ==
  ASSUME SamplesIInv, program = "sample5", program' = program,
         NEW t \in {First, Second}, CountRound(t)
  PROVE  SamplesIInv'
<1>1. /\ SamplesTyped /\ Holding /\ Fresh /\ Ending /\ Halting
      /\ t \in Players(program) /\ t \in Threads
  BY Sample5Labels, PlayersAre DEF SamplesIInv
<1>2. /\ count \in Int /\ late \in Nat /\ spurious \in BOOLEAN /\ reg \in [Threads -> Int]
      /\ rounds \in [Threads -> 0..Rounds] /\ asleep \subseteq {First, Second}
      /\ \A u \in asleep : pc[u] = "awake"
  BY <1>1 DEF SamplesTyped
<1>3. ASSUME NEW l \in LabelsOf(program), Goto(t, l)
      PROVE  pc'[t] = l /\ \A u \in {First, Second} \ {t} : pc'[u] = pc[u]
  BY <1>1, <1>3, Goes, Sample5Labels
<1>4. CASE Quietly(TakeAt(t, "start", "condition_mutex", "test"))
  <2>1. TakeAt(t, "start", "condition_mutex", "test") /\ UNCHANGED <<asleep, samplesVars>>
        /\ Goto(t, "test") /\ pc[t] = "start"
    BY <1>4 DEF Quietly, TakeAt, At
  <2>2. Holding' /\ holder' \in [Mutexes -> Threads \cup {Nobody}]
    BY ZenonT(40), <1>1, <2>1, LockHolding, Sample5Labels
  <2>3. \A u \in asleep' : pc'[u] = "awake"
    BY <1>2, <1>3, <2>1, Sample5Labels
  <2>4. ~Over(t)
    BY <2>1 DEF Over
  <2> QED
    BY <1>2, <2>1, <2>2, <2>3, <2>4, Sample5Labels, Sample5Quiet
<1>5. CASE Quietly(UnlockAt(t, "unlock", "condition_mutex", "lock"))
  <2>1. UnlockAt(t, "unlock", "condition_mutex", "lock") /\ UNCHANGED <<asleep, samplesVars>>
        /\ Goto(t, "lock") /\ pc[t] = "unlock"
    BY <1>5 DEF Quietly, UnlockAt, At
  <2>2. Holding' /\ holder' \in [Mutexes -> Threads \cup {Nobody}]
    BY <1>1, <2>1, UnlockHolding, Sample5Labels
  <2>3. \A u \in asleep' : pc'[u] = "awake"
    BY <1>2, <1>3, <2>1, Sample5Labels
  <2>4. ~Over(t) /\ PastTest(t)
    BY <2>1 DEF Over, PastTest
  <2> QED
    BY <1>2, <2>1, <2>2, <2>3, <2>4, Sample5Labels, Sample5Quiet
<1>6. CASE Quietly(TakeAt(t, "lock", "count_mutex", "read"))
  <2>1. TakeAt(t, "lock", "count_mutex", "read") /\ UNCHANGED <<asleep, samplesVars>>
        /\ Goto(t, "read") /\ pc[t] = "lock"
    BY <1>6 DEF Quietly, TakeAt, At
  <2>2. Holding' /\ holder' \in [Mutexes -> Threads \cup {Nobody}]
    BY <1>1, <2>1, LockHolding, Sample5Labels
  <2>3. \A u \in asleep' : pc'[u] = "awake"
    BY <1>2, <1>3, <2>1, Sample5Labels
  <2>4. ~Over(t) /\ PastTest(t)
    BY <2>1 DEF Over, PastTest
  <2> QED
    BY <1>2, <2>1, <2>2, <2>3, <2>4, Sample5Labels, Sample5Quiet
<1>7. CASE Quietly(UnlockAt(t, "unlock2", "count_mutex", "end"))
  <2>1. UnlockAt(t, "unlock2", "count_mutex", "end") /\ UNCHANGED <<asleep, samplesVars>>
        /\ Goto(t, "end") /\ pc[t] = "unlock2"
    BY <1>7 DEF Quietly, UnlockAt, At
  <2>2. Holding' /\ holder' \in [Mutexes -> Threads \cup {Nobody}]
    BY SMTT(30), <1>1, <2>1, UnlockHolding, Sample5Labels
  <2>3. \A u \in asleep' : pc'[u] = "awake"
    BY <1>2, <1>3, <2>1, Sample5Labels
  <2> QED
    BY <1>2, <2>1, <2>2, <2>3, Sample5Labels, Sample5Quiet
<1>8. CASE Quietly(EndWhenDone(t))
  <2> DEFINE to == IF count >= CountDone THEN "done" ELSE "start"
  <2>1. MoveAt(t, "end", to) /\ UNCHANGED <<asleep, samplesVars>> /\ Goto(t, to) /\ pc[t] = "end"
    BY <1>8 DEF Quietly, EndWhenDone, MoveAt, At
  <2>2. to \in {"start", "done"} /\ (to = "start" => count < CountDone)
    BY <1>2, SamplesAssumption
  <2> HIDE DEF to
  <2>3. Holding' /\ holder' \in [Mutexes -> Threads \cup {Nobody}]
    BY <1>1, <2>1, <2>2, MoveHolding, Sample5Labels
  <2>4. \A u \in asleep' : pc'[u] = "awake"
    BY <1>2, <1>3, <2>1, <2>2, Sample5Labels
  <2> QED
    BY <1>2, <2>1, <2>2, <2>3, <2>4, Sample5Labels, Sample5Quiet
<1>9. CASE Read(t, "read", "write")
  <2>1. MoveAt(t, "read", "write") /\ Goto(t, "write") /\ pc[t] = "read"
        /\ reg' = [reg EXCEPT ![t] = count]
        /\ UNCHANGED <<asleep, count, rounds, late, spurious>>
    BY <1>9 DEF Read, MoveAt, At, ghosts
  <2>2. Holding' /\ holder' \in [Mutexes -> Threads \cup {Nobody}]
    BY <1>1, <2>1, MoveHolding, Sample5Labels
  <2>3. pc'[t] = "write" /\ \A u \in {First, Second} \ {t} : pc'[u] = pc[u]
    BY <1>3, <2>1, Sample5Labels
  <2>4. /\ reg' \in [Threads -> Int] /\ reg'[t] = count
        /\ \A u \in {First, Second} \ {t} : reg'[u] = reg[u]
    BY <1>1, <1>2, <2>1, PlayersAre, Sample5Labels
  <2>5. \A u \in asleep' : pc'[u] = "awake"
    BY <1>2, <2>1, <2>3
  <2>6. SamplesTyped'
    BY <1>1, <1>2, <2>1, <2>2, <2>4, <2>5, GoesTyped, Sample5Labels
  <2>7. Fresh'
    BY <1>1, <2>1, <2>3, <2>4, Sample5Labels DEF Fresh
  <2>8. Ending'
    <3>1. (Over(First)' <=> Over(First)) /\ (Over(Second)' <=> Over(Second))
      BY <2>1, <2>3 DEF Over
    <3> QED
      BY <1>1, <2>1, <3>1 DEF Ending
  <2>9. Halting'
    <3>1. (PastTest(First)' <=> PastTest(First)) /\ (Between' <=> Between)
      BY <2>1, <2>3 DEF PastTest, Between
    <3> QED
      BY <1>1, <2>1, <3>1 DEF Halting
  <2>10. Counting' /\ Turning'
    BY DEF Counting, Turning
  <2> QED
    BY <2>2, <2>6, <2>7, <2>8, <2>9, <2>10 DEF SamplesIInv
<1>10. CASE Write(t, "write", 1, "unlock2")
  <2>1. MoveAt(t, "write", "unlock2") /\ Goto(t, "unlock2") /\ pc[t] = "write"
        /\ count' = reg[t] + 1 /\ late' = late + (IF t = First /\ Between THEN 1 ELSE 0)
        /\ UNCHANGED <<asleep, reg, rounds, spurious>>
    BY <1>10 DEF Write, MoveAt, At
  <2>2. Holding' /\ holder' \in [Mutexes -> Threads \cup {Nobody}]
    BY <1>1, <2>1, MoveHolding, Sample5Labels
  <2>3. pc'[t] = "unlock2" /\ \A u \in {First, Second} \ {t} : pc'[u] = pc[u]
    BY <1>3, <2>1, Sample5Labels
  <2>4. count' = count + 1
    BY <1>1, <2>1 DEF Fresh
  <2>5. \A u \in asleep' : pc'[u] = "awake"
    BY <1>2, <2>1, <2>3
  <2>6. SamplesTyped'
    <3>1. late' \in Nat /\ count' \in Int
      BY <1>2, <2>1, <2>4
    <3> QED
      BY <1>1, <1>2, <2>1, <2>2, <2>5, <3>1, GoesTyped, Sample5Labels
  <2>7. Fresh'
    <3>1. ASSUME NEW u \in {First, Second}, pc'[u] = "write"
          PROVE  FALSE
      <4>1. u # t /\ pc[u] = "write" /\ u \in Players(program)
        BY <2>3, <3>1, Sample5Labels
      <4> QED
        BY <1>1, <2>1, <4>1, Alone, Sample5Labels
    <3> QED
      BY <3>1, Sample5Labels DEF Fresh
  <2>8. Ending'
    <3>1. /\ ~Over(t) /\ Over(t)'
          /\ \A u \in {First, Second} \ {t} : Over(u)' <=> Over(u)
      BY <2>1, <2>3 DEF Over
    <3>2. count <= CountDone - 1 + (IF Over(First) THEN 1 ELSE 0) + (IF Over(Second) THEN 1 ELSE 0)
      BY <1>1 DEF Ending
    <3>3. count' <= CountDone - 1 + (IF Over(First)' THEN 1 ELSE 0) + (IF Over(Second)' THEN 1 ELSE 0)
      BY <1>2, <2>4, <3>1, <3>2, SamplesAssumption
    <3> QED
      BY <3>3 DEF Ending
  <2>9. Halting'
    <3>1. PastTest(t) /\ ~PastTest(t)'
          /\ \A u \in {First, Second} \ {t} : PastTest(u)' <=> PastTest(u)
      BY <2>1, <2>3 DEF PastTest
    <3>2. /\ CountHalt1 \in Nat /\ CountHalt2 \in Nat
          /\ (Between <=> CountHalt1 <= count /\ count <= CountHalt2)
          /\ (Between' <=> CountHalt1 <= count + 1 /\ count + 1 <= CountHalt2)
      BY <2>4, SamplesAssumption DEF Between
    <3>3. /\ late <= 1 /\ (count < CountHalt1 => late = 0)
          /\ (Between /\ PastTest(First) => late = 0)
      BY <1>1 DEF Halting
    <3>4. CASE t = First
      <4>1. late' <= 1 /\ ~PastTest(First)'
        BY <1>2, <2>1, <3>1, <3>3, <3>4
      <4>2. count' < CountHalt1 => late' = 0
        BY <1>2, <2>1, <2>4, <3>2, <3>3
      <4> QED
        BY <4>1, <4>2 DEF Halting
    <3>5. CASE t # First
      <4>1. late' = late /\ (PastTest(First)' <=> PastTest(First))
        BY <1>2, <2>1, <3>1, <3>5
      <4>2. Between' => Between \/ count < CountHalt1
        BY <1>2, <3>2
      <4>3. count' < CountHalt1 => count < CountHalt1
        BY <1>2, <2>4, <3>2
      <4> QED
        BY <3>3, <4>1, <4>2, <4>3 DEF Halting
    <3> QED
      BY <3>4, <3>5
  <2>10. Counting' /\ Turning'
    BY DEF Counting, Turning
  <2> QED
    BY <2>2, <2>6, <2>7, <2>8, <2>9, <2>10 DEF SamplesIInv
<1>11. CASE Quietly(\/ BlockAt(t, "start", "condition_mutex")
                    \/ BlockAt(t, "lock", "count_mutex") \/ RestartAt(t))
  <2>1. BlockAt(t, "start", "condition_mutex") \/ BlockAt(t, "lock", "count_mutex") => t \notin asleep
    BY NotAsleep DEF BlockAt, At
  <2> QED
    BY <1>1, <1>11, <2>1, BlockKeeps, RestartKeeps DEF Quietly
<1> QED
  BY <1>4, <1>5, <1>6, <1>7, <1>8, <1>9, <1>10, <1>11 DEF CountRound, Quietly, LockAt

LEMMA Sample5Waits ==
  ASSUME SamplesIInv, program = "sample5", program' = program, WaitWhileBetween(First)
  PROVE  SamplesIInv'
<1> DEFINE t == First
<1>1. SamplesTyped /\ Holding /\ t \in Players(program) /\ t \in {First, Second}
  BY Sample5Labels DEF SamplesIInv
<1>2. asleep \subseteq {First, Second} /\ \A u \in asleep : pc[u] = "awake"
  BY <1>1 DEF SamplesTyped
<1>3. ASSUME NEW l \in LabelsOf(program), Goto(t, l)
      PROVE  pc'[t] = l /\ \A u \in {First, Second} \ {t} : pc'[u] = pc[u]
  BY <1>1, <1>3, Goes, Sample5Labels
<1>4. CASE SleepAt(t, "test", "condition_mutex") /\ UNCHANGED samplesVars
  <2>1. UnlockAt(t, "test", "condition_mutex", "awake") /\ UNCHANGED samplesVars
        /\ Goto(t, "awake") /\ pc[t] = "test" /\ asleep' = asleep \cup {t}
    BY <1>4 DEF SleepAt, UnlockAt, At
  <2>2. Holding' /\ holder' \in [Mutexes -> Threads \cup {Nobody}]
    BY <1>1, <2>1, UnlockHolding, Sample5Labels
  <2>3. asleep' \subseteq {First, Second} /\ \A u \in asleep' : pc'[u] = "awake"
    BY <1>2, <1>3, <2>1, Sample5Labels
  <2>4. ~Over(t)
    BY <2>1 DEF Over
  <2> QED
    BY <2>1, <2>2, <2>3, <2>4, Sample5Labels, Sample5Quiet
<1>5. CASE WakeAt(t, "condition_mutex", "test") /\ TakeAt(t, "awake", "condition_mutex", "test")
           /\ UNCHANGED samplesVars
  <2>1. TakeAt(t, "awake", "condition_mutex", "test") /\ UNCHANGED samplesVars
        /\ Goto(t, "test") /\ pc[t] = "awake" /\ asleep' = asleep /\ t \notin asleep
    BY <1>5 DEF WakeAt, TakeAt, At
  <2>2. Holding' /\ holder' \in [Mutexes -> Threads \cup {Nobody}]
    BY <1>1, <2>1, LockHolding, Sample5Labels
  <2>3. asleep' \subseteq {First, Second} /\ \A u \in asleep' : pc'[u] = "awake"
    BY <1>2, <1>3, <2>1, Sample5Labels
  <2>4. ~Over(t)
    BY <2>1 DEF Over
  <2> QED
    BY <2>1, <2>2, <2>3, <2>4, Sample5Labels, Sample5Quiet
<1>6. CASE ~Between /\ Quietly(MoveAt(t, "test", "unlock"))
  <2>1. MoveAt(t, "test", "unlock") /\ UNCHANGED <<asleep, samplesVars>>
        /\ Goto(t, "unlock") /\ pc[t] = "test"
    BY <1>6 DEF Quietly, MoveAt, At
  <2>2. Holding' /\ holder' \in [Mutexes -> Threads \cup {Nobody}]
    BY <1>1, <2>1, MoveHolding, Sample5Labels
  <2>3. \A u \in asleep' : pc'[u] = "awake"
    BY <1>2, <1>3, <2>1, Sample5Labels
  <2>4. ~Over(t)
    BY <2>1 DEF Over
  <2> QED
    BY <1>2, <1>6, <2>1, <2>2, <2>3, <2>4, Sample5Labels, Sample5Quiet
<1>7. CASE WakeAt(t, "condition_mutex", "test") /\ BlockAt(t, "awake", "condition_mutex")
           /\ UNCHANGED samplesVars
  BY <1>1, <1>7, BlockKeeps DEF WakeAt
<1> QED
  BY <1>4, <1>5, <1>6, <1>7 DEF WaitWhileBetween, WakeAt, LockAt

LEMMA Sample5Signals ==
  ASSUME SamplesIInv, program = "sample5", program' = program, SignalOutside(Second)
  PROVE  SamplesIInv'
<1> DEFINE t == Second
<1>1. SamplesTyped /\ Holding /\ t \in Players(program) /\ t \in {First, Second}
  BY Sample5Labels DEF SamplesIInv
<1>2. asleep \subseteq {First, Second} /\ \A u \in asleep : pc[u] = "awake"
  BY <1>1 DEF SamplesTyped
<1>3. MoveAt(t, "test", "unlock") /\ Goto(t, "unlock") /\ pc[t] = "test" /\ UNCHANGED samplesVars
      /\ asleep' \subseteq asleep
  BY DEF SignalOutside, Signal, MoveAt, At
<1>4. Holding' /\ holder' \in [Mutexes -> Threads \cup {Nobody}]
  BY <1>1, <1>3, MoveHolding, Sample5Labels
<1>5. pc'[t] = "unlock" /\ \A u \in {First, Second} \ {t} : pc'[u] = pc[u]
  BY <1>1, <1>3, Goes, Sample5Labels
<1>6. asleep' \subseteq {First, Second} /\ \A u \in asleep' : pc'[u] = "awake"
  BY <1>2, <1>3, <1>5
<1>7. ~Over(t) /\ t # First
  BY <1>3, Sample5Labels DEF Over
<1> QED
  BY <1>1, <1>3, <1>4, <1>6, <1>7, Sample5Labels, Sample5Quiet

----------------------------------------------------------------------------
\* pingpong

Leaving == {"unlock", "dying", "dead", "signal", "done"}

LEMMA PingpongLabels ==
  ASSUME program = "pingpong"
  PROVE  /\ LabelsOf(program) = {"unborn", "start", "born", "lock", "hello", "wait", "awake",
                                 "unlock", "dying", "dead", "signal", "done", "blocked",
                                 "gone"}
         /\ LabelsWith("count_mutex", program) = {}
         /\ LabelsWith("condition_mutex", program) = {"hello", "wait", "unlock"}
         /\ Mutexes = {"count_mutex", "condition_mutex"}
         /\ Players(program) = {First, Second} /\ First # Second
BY PlayersAre DEF LabelsOf, LabelsWith, CountLabels, ConditionLabels, Mutexes

\* A step that begins no round.
LEMMA PingpongQuiet ==
  ASSUME SamplesIInv, program = "pingpong", program' = program,
         NEW t \in {First, Second}, NEW to \in LabelsOf(program), Goto(t, to),
         count' \in Int, reg' \in [Threads -> Int], UNCHANGED <<rounds, late, spurious>>,
         Holding', holder' \in [Mutexes -> Threads \cup {Nobody}],
         asleep' \subseteq {First, Second}, \A u \in asleep' : pc'[u] = "awake",
         to \in Leaving => rounds[t] = Rounds,
         \A u, v \in {First, Second} : rounds[u] > rounds[v] /\ Waits(u) => Waits(u)'
  PROVE  SamplesIInv'
<1>1. t \in Players(program) /\ Players(program) = {First, Second} /\ First # Second
  BY PingpongLabels
<1>2. /\ pc'[t] = to /\ \A u \in {First, Second} \ {t} : pc'[u] = pc[u]
  BY <1>1, Goes DEF SamplesIInv
<1>3. SamplesTyped'
  <2>1. late' \in Nat /\ spurious' \in BOOLEAN /\ rounds' \in [Threads -> 0..Rounds]
    BY DEF SamplesIInv, SamplesTyped
  <2> QED
    BY <1>1, <2>1, GoesTyped DEF SamplesIInv
<1>4. Turning'
  <2>1. \A u \in {First, Second} : pc'[u] \in Leaving => rounds'[u] = Rounds
    BY <1>2 DEF SamplesIInv, Turning, Leaving
  <2>2. ~spurious' => \A u, v \in {First, Second} :
          rounds'[u] > rounds'[v] => rounds'[u] = rounds'[v] + 1 /\ Waits(u)'
    BY DEF SamplesIInv, Turning
  <2> QED
    BY <2>1, <2>2 DEF Turning, Leaving
<1>5. Fresh' /\ Counting' /\ Ending' /\ Halting'
  BY DEF SamplesIInv, Fresh, Counting, Ending, Halting
<1> QED
  BY <1>3, <1>4, <1>5 DEF SamplesIInv

LEMMA PingpongStep ==
  ASSUME SamplesIInv, program = "pingpong", program' = program,
         NEW t \in {First, Second}, do_pingpong(t)
  PROVE  SamplesIInv'
<1>1. /\ SamplesTyped /\ Holding /\ Turning
      /\ t \in Players(program) /\ t \in Threads /\ First \in Threads /\ Second \in Threads
  BY PingpongLabels, PlayersAre DEF SamplesIInv
<1>2. /\ count \in Int /\ late \in Nat /\ spurious \in BOOLEAN /\ reg \in [Threads -> Int]
      /\ rounds \in [Threads -> 0..Rounds] /\ asleep \subseteq {First, Second}
      /\ \A u \in asleep : pc[u] = "awake"
  BY <1>1 DEF SamplesTyped
<1>3. ASSUME NEW l \in LabelsOf(program), Goto(t, l)
      PROVE  pc'[t] = l /\ \A u \in {First, Second} \ {t} : pc'[u] = pc[u]
  BY <1>1, <1>3, Goes, PingpongLabels
\* A step of t, which does not wait, that leaves the sleepers alone.
<1>4. ASSUME NEW l \in LabelsOf(program), Goto(t, l), UNCHANGED asleep, ~Waits(t)
      PROVE  /\ asleep' \subseteq {First, Second} /\ \A u \in asleep' : pc'[u] = "awake"
             /\ \A u \in {First, Second} : Waits(u) => Waits(u)'
  BY <1>2, <1>3, <1>4 DEF Waits
<1>5. CASE \/ Read(t, "start", "born") \/ Read(t, "dying", "dead")
           \/ Write(t, "born", 1, "lock") \/ Write(t, "dead", -1, "signal")
  <2>1. PICK from \in {"start", "born", "dying", "dead"}, to \in {"born", "lock", "dead", "signal"} :
          /\ MoveAt(t, from, to) /\ (to \in Leaving => from \in Leaving)
          /\ Read(t, from, to) \/ Write(t, from, 1, to) \/ Write(t, from, -1, to)
    BY <1>5 DEF Read, Write, Leaving
  <2>2. Goto(t, to) /\ pc[t] = from
    BY <2>1 DEF MoveAt, At
  <2>3. Holding' /\ holder' \in [Mutexes -> Threads \cup {Nobody}]
    BY <1>1, <2>1, MoveHolding, PingpongLabels
  <2>4. count' \in Int /\ reg' \in [Threads -> Int] /\ UNCHANGED <<asleep, rounds, late, spurious>>
    <3>1. CASE Read(t, from, to)
      BY <1>1, <1>2, <3>1 DEF Read, ghosts
    <3>2. CASE Write(t, from, 1, to) \/ Write(t, from, -1, to)
      BY <1>1, <1>2, <3>2 DEF Write
    <3> QED
      BY <2>1, <3>1, <3>2
  <2>5. ~Waits(t) /\ (to \in Leaving => rounds[t] = Rounds)
    BY <1>1, <1>2, <2>1, <2>2 DEF Waits, Leaving, Turning
  <2> QED
    BY <1>4, <2>2, <2>3, <2>4, <2>5, PingpongLabels, PingpongQuiet
<1>6. CASE Quietly(TakeAt(t, "lock", "condition_mutex", "hello"))
  <2>1. TakeAt(t, "lock", "condition_mutex", "hello") /\ Goto(t, "hello") /\ pc[t] = "lock"
        /\ UNCHANGED <<asleep, count, reg, rounds, late, spurious>>
    BY <1>6 DEF Quietly, TakeAt, At, samplesVars
  <2>2. Holding' /\ holder' \in [Mutexes -> Threads \cup {Nobody}]
    BY <1>1, <2>1, LockHolding, PingpongLabels
  <2>3. ~Waits(t) /\ "hello" \notin Leaving
    BY <1>2, <2>1 DEF Waits, Leaving
  <2> QED
    BY <1>2, <1>4, <2>1, <2>2, <2>3, PingpongLabels, PingpongQuiet
<1>7. CASE rounds[t] = Rounds /\ Quietly(MoveAt(t, "hello", "unlock"))
  <2>1. MoveAt(t, "hello", "unlock") /\ Goto(t, "unlock") /\ pc[t] = "hello"
        /\ UNCHANGED <<asleep, count, reg, rounds, late, spurious>>
    BY <1>7 DEF Quietly, MoveAt, At, samplesVars
  <2>2. Holding' /\ holder' \in [Mutexes -> Threads \cup {Nobody}]
    BY <1>1, <2>1, MoveHolding, PingpongLabels
  <2>3. ~Waits(t)
    BY <1>2, <2>1 DEF Waits
  <2> QED
    BY <1>2, <1>4, <1>7, <2>1, <2>2, <2>3, PingpongLabels, PingpongQuiet
<1>8. CASE Quietly(UnlockAt(t, "unlock", "condition_mutex", "dying"))
  <2>1. UnlockAt(t, "unlock", "condition_mutex", "dying") /\ Goto(t, "dying") /\ pc[t] = "unlock"
        /\ UNCHANGED <<asleep, count, reg, rounds, late, spurious>>
    BY <1>8 DEF Quietly, UnlockAt, At, samplesVars
  <2>2. Holding' /\ holder' \in [Mutexes -> Threads \cup {Nobody}]
    BY <1>1, <2>1, UnlockHolding, PingpongLabels
  <2>3. ~Waits(t) /\ rounds[t] = Rounds
    BY <1>1, <1>2, <2>1 DEF Waits, Turning
  <2> QED
    BY <1>2, <1>4, <2>1, <2>2, <2>3, PingpongLabels, PingpongQuiet
<1>9. CASE SleepAt(t, "wait", "condition_mutex") /\ UNCHANGED samplesVars
  <2>1. UnlockAt(t, "wait", "condition_mutex", "awake") /\ Goto(t, "awake") /\ pc[t] = "wait"
        /\ asleep' = asleep \cup {t} /\ UNCHANGED <<count, reg, rounds, late, spurious>>
    BY <1>9 DEF SleepAt, UnlockAt, At, samplesVars
  <2>2. Holding' /\ holder' \in [Mutexes -> Threads \cup {Nobody}]
    BY <1>1, <2>1, UnlockHolding, PingpongLabels
  <2>3. pc'[t] = "awake" /\ \A u \in {First, Second} \ {t} : pc'[u] = pc[u]
    BY <1>3, <2>1, PingpongLabels
  <2>4. /\ asleep' \subseteq {First, Second} /\ \A u \in asleep' : pc'[u] = "awake"
        /\ \A u \in {First, Second} : Waits(u) => Waits(u)'
    BY <1>2, <2>1, <2>3 DEF Waits
  <2>5. "awake" \notin Leaving
    BY DEF Leaving
  <2> QED
    BY <1>2, <2>1, <2>2, <2>4, <2>5, PingpongLabels, PingpongQuiet
<1>10. CASE WakeAt(t, "condition_mutex", "hello") /\ TakeAt(t, "awake", "condition_mutex", "hello")
            /\ UNCHANGED samplesVars
  <2>1. TakeAt(t, "awake", "condition_mutex", "hello") /\ Goto(t, "hello") /\ pc[t] = "awake"
        /\ t \notin asleep /\ UNCHANGED <<asleep, count, reg, rounds, late, spurious>>
    BY <1>10 DEF WakeAt, TakeAt, At, samplesVars
  <2>2. Holding' /\ holder' \in [Mutexes -> Threads \cup {Nobody}]
    BY ZenonT(40), <1>1, <2>1, LockHolding, PingpongLabels
  <2>3. ~Waits(t) /\ "hello" \notin Leaving
    BY <2>1 DEF Waits, Leaving
  <2> QED
    BY <1>2, <1>4, <2>1, <2>2, <2>3, PingpongLabels, PingpongQuiet
<1>11. CASE Leave(t)
  <2>1. MoveAt(t, "signal", "done") /\ Goto(t, "done") /\ pc[t] = "signal"
        /\ asleep' \subseteq asleep /\ UNCHANGED <<count, reg, rounds, late, spurious>>
    BY <1>11 DEF Leave, Signal, MoveAt, At, samplesVars
  <2>2. Holding' /\ holder' \in [Mutexes -> Threads \cup {Nobody}]
    BY <1>1, <2>1, MoveHolding, PingpongLabels
  <2>3. pc'[t] = "done" /\ \A u \in {First, Second} \ {t} : pc'[u] = pc[u]
    BY <1>3, <2>1, PingpongLabels
  <2>4. asleep' \subseteq {First, Second} /\ \A u \in asleep' : pc'[u] = "awake"
    BY <1>2, <2>1, <2>3
  <2>5. rounds[t] = Rounds
    BY <1>1, <2>1 DEF Turning
  \* Nobody that waits is ahead: t does not wait, and nobody is ahead of t.
  <2>6. \A u, v \in {First, Second} : ~(rounds[u] > rounds[v] /\ Waits(u))
    <3>1. ASSUME NEW u \in {First, Second}, NEW v \in {First, Second},
                 rounds[u] > rounds[v], Waits(u)
          PROVE  FALSE
      <4>1. u # t
        BY <1>2, <2>1, <3>1 DEF Waits
      <4>2. v = t
        BY <1>1, <1>2, <3>1, <4>1
      <4>3. rounds[u] \in 0..Rounds /\ Rounds \in Nat
        BY <1>1, <1>2, SamplesAssumption
      <4> QED
        BY <2>5, <3>1, <4>2, <4>3
    <3> QED
      BY <3>1
  <2> QED
    BY <1>2, <2>1, <2>2, <2>4, <2>5, <2>6, PingpongLabels, PingpongQuiet
<1>12. CASE Hello(t)
  <2>1. MoveAt(t, "hello", "wait") /\ Goto(t, "wait") /\ pc[t] = "hello"
        /\ rounds[t] < Rounds /\ rounds' = [rounds EXCEPT ![t] = rounds[t] + 1]
        /\ asleep' \subseteq asleep /\ UNCHANGED <<count, reg, late, spurious>>
    BY <1>12 DEF Hello, Signal, MoveAt, At, ghosts
  <2>2. Holding' /\ holder' \in [Mutexes -> Threads \cup {Nobody}]
    BY <1>1, <2>1, MoveHolding, PingpongLabels
  <2>3. pc'[t] = "wait" /\ \A u \in {First, Second} \ {t} : pc'[u] = pc[u]
    BY <1>3, <2>1, PingpongLabels
  <2>4. asleep' \subseteq {First, Second} /\ \A u \in asleep' : pc'[u] = "awake"
    BY <1>2, <2>1, <2>3
  <2>5. \A u \in Threads : rounds[u] \in 0..Rounds
    BY <1>2
  <2>6. Rounds \in Nat
    BY SamplesAssumption
  <2>7. /\ rounds' \in [Threads -> 0..Rounds] /\ rounds'[t] = rounds[t] + 1
        /\ \A u \in {First, Second} \ {t} : rounds'[u] = rounds[u]
    <3>1. rounds[t] + 1 \in 0..Rounds
      BY <1>1, <2>1, <2>5, <2>6
    <3> QED
      BY <1>1, <1>2, <2>1, <3>1
  <2>8. SamplesTyped'
    BY <1>1, <1>2, <2>1, <2>2, <2>4, <2>7, GoesTyped, PingpongLabels
  <2>9. Turning'
    <3>1. \A u \in {First, Second} : pc'[u] \in Leaving => rounds'[u] = Rounds
      BY <1>1, <2>3, <2>7 DEF Turning, Leaving
    <3>2. ASSUME ~spurious, NEW u \in {First, Second}, NEW v \in {First, Second},
                 rounds'[u] > rounds'[v]
          PROVE  rounds'[u] = rounds'[v] + 1 /\ Waits(u)'
      <4>1. ~Waits(t)
        BY <1>2, <2>1 DEF Waits
      <4>2. /\ rounds[t] \in Nat /\ rounds[u] \in Nat /\ rounds[v] \in Nat
            /\ (rounds[u] > rounds[v] => rounds[u] = rounds[v] + 1 /\ Waits(u))
            /\ (rounds[v] > rounds[u] => rounds[v] = rounds[u] + 1 /\ Waits(v))
        BY <1>1, <2>5, <3>2 DEF Turning
      <4>3. CASE u = t
        <5>1. v # t
          BY <2>7, <3>2, <4>2, <4>3
        <5>2. rounds'[v] = rounds[v] /\ rounds[u] <= rounds[v]
          BY <2>7, <4>1, <4>2, <4>3, <5>1
        <5>3. rounds'[u] = rounds[v] + 1
          BY <2>7, <3>2, <4>2, <4>3, <5>2
        <5> QED
          BY <2>3, <4>3, <5>2, <5>3 DEF Waits
      <4>4. CASE u # t
        <5>1. rounds'[u] = rounds[u]
          BY <2>7, <4>4
        <5>2. v = t
          BY <2>7, <3>2, <4>2, <4>4
        <5>3. rounds[u] > rounds[t] + 1
          BY <2>7, <3>2, <5>1, <5>2
        <5> QED
          BY <4>2, <5>2, <5>3
      <4> QED
        BY <4>3, <4>4
    <3> QED
      BY <2>1, <3>1, <3>2 DEF Turning, Leaving
  <2>10. Fresh' /\ Counting' /\ Ending' /\ Halting'
    BY <2>1 DEF SamplesIInv, Fresh, Counting, Ending, Halting
  <2> QED
    BY <2>2, <2>8, <2>9, <2>10 DEF SamplesIInv
<1>13. CASE /\ \/ BlockAt(t, "lock", "condition_mutex") /\ UNCHANGED asleep
               \/ BlockAt(t, "awake", "condition_mutex") /\ t \notin asleep /\ UNCHANGED asleep
            /\ UNCHANGED samplesVars
  <2>1. BlockAt(t, "lock", "condition_mutex") => t \notin asleep
    BY NotAsleep DEF BlockAt, At
  <2> QED
    BY <1>1, <1>13, <2>1, BlockKeeps
<1> QED
  BY <1>5, <1>6, <1>7, <1>8, <1>9, <1>10, <1>11, <1>12, <1>13
     DEF do_pingpong, Quietly, LockAt, WakeAt

----------------------------------------------------------------------------
\* Main, and what else may happen

LEMMA MainGoes ==
  ASSUME SamplesIInv, program' = program, NEW to \in MainLabels, Goto(MainThread, to),
         UNCHANGED <<holder, asleep, samplesVars>>,
         to = "done" => \A t \in Players(program) : pc[t] = "done"
  PROVE  SamplesIInv'
<1>1. /\ pc' \in [Players(program) \cup {MainThread} -> MainLabels \cup LabelsOf(program)]
      /\ pc'[MainThread] = to /\ \A u \in Players(program) : pc'[u] = pc[u]
  BY PlayersAre DEF SamplesIInv, SamplesTyped, Goto
<1>2. UNCHANGED <<count, reg, rounds, late, spurious>>
  BY DEF samplesVars
<1>3. asleep \subseteq Players(program) \/ program = "sample4"
  BY PlayersAre DEF SamplesIInv, SamplesTyped
<1>4. SamplesTyped'
  <2>1. \A u \in asleep : program # "sample4" /\ pc'[u] = "awake"
    BY <1>1, <1>3 DEF SamplesIInv, SamplesTyped
  <2>2. Players(program') = Players(program) /\ LabelsOf(program') = LabelsOf(program)
    OBVIOUS
  <2> QED
    BY <1>1, <1>2, <2>1, <2>2 DEF SamplesIInv, SamplesTyped
<1>5. Holding' /\ Fresh'
  BY <1>1, <1>2 DEF SamplesIInv, Holding, Fresh, Players, LabelsWith
<1>6. Counting'
  <2> SUFFICES ASSUME program = "sample4"
               PROVE  Counting'
    BY DEF Counting
  <2>1. Players(program) = Threads
    BY PlayersAre
  <2>2. Counted4' = Counted4
    BY <1>1, <2>1 DEF Counted4
  <2>3. pc'[MainThread] = "done" => \A t \in Threads : pc'[t] = "done"
    BY <1>1, <2>1
  <2> QED
    BY <1>2, <2>2, <2>3 DEF SamplesIInv, Counting
<1>7. Ending' /\ Halting' /\ Turning'
  <2>1. pc'[First] = pc[First] /\ pc'[Second] = pc[Second]
    BY <1>1, PlayersAre
  <2> QED
    BY <1>2, <2>1 DEF SamplesIInv, Ending, Over, Halting, PastTest, Between, Turning, Waits
<1> QED
  BY <1>4, <1>5, <1>6, <1>7 DEF SamplesIInv

LEMMA BornKeeps ==
  ASSUME SamplesIInv, program' = program, NEW t \in Players(program), pc[t] = "unborn",
         Goto(t, "start"), UNCHANGED <<holder, mutex_sem, blocked, asleep, samplesVars>>
  PROVE  SamplesIInv'
<1>1. SamplesTyped /\ Holding /\ Fresh
  BY DEF SamplesIInv
<1>2. MoveAt(t, "unborn", "start") /\ UNCHANGED <<count, reg, rounds, late, spurious>>
  BY DEF MoveAt, At, samplesVars
<1>3. "start" \in LabelsOf(program) /\ \A m \in Mutexes : "start" \notin LabelsWith(m, program)
  BY <1>1 DEF SamplesTyped, LabelsOf, LabelsWith, CountLabels, ConditionLabels
<1>4. Holding' /\ holder' \in [Mutexes -> Threads \cup {Nobody}]
  BY <1>1, <1>2, <1>3, MoveHolding
<1>5. /\ pc'[t] = "start" /\ pc'[MainThread] = pc[MainThread]
      /\ \A u \in Players(program) \ {t} : pc'[u] = pc[u]
  BY <1>1, <1>3, Goes
<1>6. \A u \in asleep : program # "sample4" /\ u \in Players(program) /\ pc[u] = "awake"
  BY <1>1, PlayersAre DEF SamplesTyped
<1>7. SamplesTyped'
  <2>1. /\ count' \in Int /\ late' \in Nat /\ spurious' \in BOOLEAN
        /\ reg' \in [Threads -> Int] /\ rounds' \in [Threads -> 0..Rounds]
        /\ asleep' \subseteq {First, Second}
    BY <1>1, <1>2 DEF SamplesTyped
  <2>2. \A u \in asleep' : program # "sample4" /\ pc'[u] = "awake"
    BY <1>5, <1>6
  <2> QED
    BY <1>1, <1>3, <1>4, <2>1, <2>2, GoesTyped
<1>8. Fresh'
  BY <1>1, <1>2, <1>5 DEF Fresh, Players
<1>9. Counting'
  <2> SUFFICES ASSUME program = "sample4"
               PROVE  Counting'
    BY DEF Counting
  <2>1. Players(program) = Threads
    BY PlayersAre
  <2>2. Counted4' = Counted4
    BY <1>5, <2>1 DEF Counted4
  <2> QED
    BY <1>2, <1>5, <2>1, <2>2 DEF SamplesIInv, Counting
<1>10. Ending' /\ Halting' /\ Turning'
  <2>1. \A u \in {First, Second} : pc'[u] = pc[u] \/ (pc[u] = "unborn" /\ pc'[u] = "start")
    BY <1>5, PlayersAre
  <2> QED
    BY <1>2, <2>1 DEF SamplesIInv, Ending, Over, Halting, PastTest, Between, Turning, Waits
<1> QED
  BY <1>4, <1>7, <1>8, <1>9, <1>10 DEF SamplesIInv

LEMMA MainKeeps ==
  ASSUME SamplesIInv, program' = program, MainJoinsAll \/ MainPolls
  PROVE  SamplesIInv'
<1>1. UNCHANGED <<asleep, samplesVars>>
  BY DEF MainJoinsAll, MainPolls, Quietly
<1>2. ASSUME NEW to \in {"join", "poll"}, MainCreates(to)
      PROVE  SamplesIInv'
  <2>1. UNCHANGED <<holder, mutex_sem, blocked>>
    BY <1>2 DEF MainCreates
  <2>2. CASE \E t \in Players(program) : pc[t] = "unborn" /\ Goto(t, "start")
    BY <1>1, <2>1, <2>2, BornKeeps
  <2>3. CASE Goto(MainThread, to)
    <3>1. to \in MainLabels /\ to # "done"
      BY DEF MainLabels
    <3> QED
      BY <1>1, <2>1, <2>3, <3>1, MainGoes
  <2> QED
    BY <1>2, <2>2, <2>3 DEF MainCreates, At
<1>3. CASE MainJoins
  BY <1>1, <1>3, MainGoes DEF MainJoins, MoveAt, At, MainLabels
<1>4. CASE MoveAt(MainThread, "poll", "exited")
  BY <1>1, <1>4, MainGoes DEF MoveAt, MainLabels
<1> QED
  BY <1>2, <1>3, <1>4 DEF MainJoinsAll, MainPolls, Quietly

LEMMA SpuriousKeeps ==
  ASSUME SamplesIInv, program' = program, SpuriousWake
  PROVE  SamplesIInv'
<1>1. /\ UNCHANGED <<pc, holder, count, reg, rounds, late>> /\ spurious' = TRUE
      /\ asleep' \subseteq asleep
  BY DEF SpuriousWake
<1>2. SamplesTyped' /\ Holding' /\ Fresh'
  BY <1>1 DEF SamplesIInv, SamplesTyped, Holding, Fresh, Players, LabelsOf, LabelsWith,
              CountLabels, ConditionLabels
<1>3. Counting' /\ Ending' /\ Halting'
  BY <1>1 DEF SamplesIInv, Counting, Counted4, Ending, Over, Halting, PastTest, Between
<1>4. Turning'
  BY <1>1 DEF SamplesIInv, Turning
<1> QED
  BY <1>2, <1>3, <1>4 DEF SamplesIInv

LEMMA SamplesStay ==
  ASSUME SamplesIInv, UNCHANGED programVars
  PROVE  SamplesIInv'
<1>1. UNCHANGED <<program, pc, holder, asleep, count, reg, rounds, late, spurious>>
  BY DEF programVars, callVars, samplesVars
<1>2. SamplesTyped' /\ Holding' /\ Fresh'
  BY <1>1 DEF SamplesIInv, SamplesTyped, Holding, Fresh, Players, LabelsOf, LabelsWith,
              CountLabels, ConditionLabels
<1>3. Counting' /\ Ending' /\ Halting' /\ Turning'
  BY <1>1 DEF SamplesIInv, Counting, Counted4, Ending, Over, Halting, PastTest, Between,
              Turning, Waits
<1> QED
  BY <1>2, <1>3 DEF SamplesIInv

LEMMA SamplesStepKeeps ==
  ASSUME SamplesIInv, SamplesNext
  PROVE  SamplesIInv'
<1>1. CASE SpuriousWake
  BY <1>1, SpuriousKeeps DEF SpuriousWake
<1>2. CASE \E t \in Threads \cup {MainThread} : SamplesStep(t)
  <2>1. PICK t \in Threads \cup {MainThread} : SamplesStep(t)
    BY <1>2
  <2>2. program' = program
    BY <2>1 DEF SamplesStep
  <2>3. CASE MainJoinsAll \/ MainPolls
    BY <2>2, <2>3, MainKeeps
  <2>4. CASE program = "sample4" /\ t \in Threads /\ thread_function(t)
    BY <2>2, <2>4, Sample4Step
  <2>5. CASE program = "sample5" /\ functionCount1
    BY <2>2, <2>5, Sample5Round, Sample5Waits DEF functionCount1
  <2>6. CASE program = "sample5" /\ functionCount2
    BY <2>2, <2>6, Sample5Round, Sample5Signals DEF functionCount2
  <2>7. CASE program = "pingpong" /\ t \in {First, Second} /\ do_pingpong(t)
    BY <2>2, <2>7, PingpongStep
  <2> QED
    BY <2>1, <2>3, <2>4, <2>5, <2>6, <2>7 DEF SamplesStep
<1> QED
  BY <1>1, <1>2 DEF SamplesNext

LEMMA SamplesInitIInv ==
  ASSUME SamplesData, CallsInit, SamplesStart
  PROVE  SamplesIInv
<1>1. /\ program \in {"sample4", "sample5", "pingpong"} /\ count = 0 /\ late = 0
      /\ spurious = FALSE /\ reg = [t \in Threads |-> 0] /\ rounds = [t \in Threads |-> 0]
      /\ holder = [m \in Mutexes |-> Nobody] /\ asleep = {}
  BY DEF SamplesData, SamplesStart, CallsInit, Mutexes
<1>2. /\ pc \in [Players(program) \cup {MainThread} -> {"create", "unborn"}]
      /\ pc[MainThread] = "create" /\ \A t \in Players(program) : pc[t] = "unborn"
  BY PlayersAre DEF SamplesStart
<1>3. "unborn" \in LabelsOf(program) /\ "create" \in MainLabels
      /\ \A m \in Mutexes : "unborn" \notin LabelsWith(m, program)
  BY <1>1 DEF LabelsOf, MainLabels, LabelsWith, CountLabels, ConditionLabels
<1>4. SamplesTyped
  <2>1. 0 \in 0..Rounds
    BY SamplesAssumption
  <2>2. pc \in [Players(program) \cup {MainThread} -> MainLabels \cup LabelsOf(program)]
    BY <1>2, <1>3
  <2>3. /\ reg \in [Threads -> Int] /\ rounds \in [Threads -> 0..Rounds]
        /\ holder \in [Mutexes -> Threads \cup {Nobody}]
    BY <1>1, <2>1
  <2>4. count \in Int /\ late \in Nat /\ spurious \in BOOLEAN
    <3>1. count \in Int /\ late \in Nat
      BY <1>1
    <3>2. spurious \in BOOLEAN
      BY <1>1, Zenon
    <3> QED
      BY <3>1, <3>2
  <2> QED
    BY <1>1, <1>2, <1>3, <2>2, <2>3, <2>4 DEF SamplesTyped
<1>5. Holding /\ Fresh
  BY <1>2, <1>3 DEF Holding, Fresh
<1>6. Counting
  <2>1. Cardinality({}) = 0
    BY FS_EmptySet
  <2>2. program = "sample4" => Counted4 = {}
    BY <1>2, PlayersAre DEF Counted4
  <2> QED
    BY <1>1, <1>2, <2>1, <2>2 DEF Counting
<1>7. Ending /\ Halting
  <2>1. CountDone \in Nat /\ CountDone >= 1
    BY SamplesAssumption
  <2>2. ~Over(First) /\ ~Over(Second) /\ ~PastTest(First)
    BY <1>2, PlayersAre DEF Over, PastTest
  <2> QED
    BY <1>1, <2>1, <2>2 DEF Ending, Halting
<1>8. Turning
  <2>1. pc[First] = "unborn" /\ pc[Second] = "unborn"
    BY <1>2, PlayersAre
  <2>2. rounds[First] = 0 /\ rounds[Second] = 0
    BY <1>1, PlayersAre
  <2> QED
    BY <2>1, <2>2 DEF Turning
<1> QED
  BY <1>4, <1>5, <1>6, <1>7, <1>8 DEF SamplesIInv

----------------------------------------------------------------------------
(***************************************************************************)
(* Whichever program runs.                                                 *)
(***************************************************************************)

\* A step of t leaves the calls' own variables well typed: it blocks in a lock
\* of one of the program's mutexes, or restarts that lock.
Books(t, ms) ==
  /\ mutex_sem' \in {0, 1, mutex_sem}
  /\ \A b \in blocked' : b \in blocked \/ \E m \in ms : b = <<t, m>>

LEMMA BooksKept ==
  ASSUME NEW ts, NEW ms, NEW t \in ts, CallsTyped(ts, ms), Books(t, ms),
         policy' = policy, PassTurn(t)
  PROVE  CallsTyped(ts, ms)'
<1>1. turn' \in ts \cup {Nobody}
  BY DEF PassTurn
<1>2. blocked' \subseteq ts \X ms
  BY DEF CallsTyped, Books
<1>3. mutex_sem' \in {0, 1}
  BY DEF CallsTyped, Books
<1> QED
  BY <1>1, <1>2, <1>3 DEF CallsTyped

LEMMA CallBooks ==
  ASSUME NEW t, NEW ms, NEW m \in ms, NEW from, NEW to, NEW busy,
         \/ MoveAt(t, from, to) \/ LockAt(t, from, m, to) \/ UnlockAt(t, from, m, to)
         \/ BlockAt(t, from, m) \/ TakeAt(t, from, m, to)
         \/ TryLockAt(t, from, m, to, busy) \/ RestartAt(t)
  PROVE  Books(t, ms)
BY DEF MoveAt, LockAt, UnlockAt, TryLockAt, TakeAt, BlockAt, RestartAt, Books

LEMMA SortBooks ==
  ASSUME SortTyped, NEW t \in SortThreads, SortStep(t)
  PROVE  Books(t, Places)
<1>1. CASE t \in Sorters /\ fnsort(t)
  <2>1. t \in Places /\ t + 1 \in Places
    BY <1>1, ThreadsDiffer
  <2>2. CASE Exchange(t) \/ Loop(t) \/ MoveAt(t, "compare", "unlock")
    BY <2>1, <2>2, CallBooks DEF Exchange, Loop
  <2>3. CASE LockAt(t, "lock", t, "try") \/ TryNext(t) \/ LetGo(t) \/ RestartAt(t)
    BY <2>1, <2>3, CallBooks DEF TryNext, LetGo
  <2> QED
    BY <1>1, <2>2, <2>3 DEF fnsort
<1>2. CASE t = Checker /\ fncheck
  <2>1. i[Checker] \in Places
    BY DEF SortTyped
  <2> QED
    BY <1>2, <2>1, CallBooks DEF fncheck, Loop, LockAll, Look, UnlockAll
<1>3. CASE t = MainThread /\ main
  BY <1>3 DEF main, CreateThreads, CreateFails, JoinThreads, DestroyMutexes, MoveAt, Books
<1> QED
  BY <1>1, <1>2, <1>3 DEF SortStep

LEMMA SamplesBooks ==
  ASSUME NEW t \in Threads \cup {MainThread}, SamplesStep(t)
  PROVE  Books(t, Mutexes)
<1>1. "count_mutex" \in Mutexes /\ "condition_mutex" \in Mutexes
  BY DEF Mutexes
<1>2. CASE t = MainThread /\ (MainJoinsAll \/ MainPolls)
  BY <1>2 DEF MainJoinsAll, MainPolls, MainCreates, MainJoins, Quietly, MoveAt, Books
<1>3. CASE thread_function(t)
  BY <1>1, <1>3, CallBooks DEF thread_function, Quietly, Read, Write
<1>4. CASE CountRound(t)
  BY <1>1, <1>4, CallBooks DEF CountRound, Quietly, Read, Write, EndWhenDone
<1>5. CASE WaitWhileBetween(t) \/ SignalOutside(t)
  BY <1>1, <1>5, CallBooks DEF WaitWhileBetween, SignalOutside, Quietly, SleepAt, WakeAt
<1>6. CASE do_pingpong(t)
  BY <1>1, <1>6, CallBooks
     DEF do_pingpong, Quietly, Read, Write, Hello, Leave, SleepAt, WakeAt
<1> QED
  BY <1>2, <1>3, <1>4, <1>5, <1>6 DEF SamplesStep, functionCount1, functionCount2

CallsOK ==
  IF program = "mtsort" THEN CallsTyped(SortThreads, Places)
                        ELSE CallsTyped(Threads \cup {MainThread}, Mutexes)

LEMMA CallsKept ==
  ASSUME SortIInv \/ SamplesIInv, CallsOK, [Next]_programVars
  PROVE  CallsOK'
<1>1. CASE SortNext
  <2>1. PICK t \in SortThreads : SortStep(t)
    BY <1>1 DEF SortNext
  <2>2. program = "mtsort" /\ program' = program /\ policy' = policy /\ PassTurn(t)
    BY <2>1 DEF SortStep, sharedVars
  <2>3. SortTyped
    BY <2>2 DEF SortIInv, SamplesIInv, SamplesTyped
  <2> QED
    BY <2>1, <2>2, <2>3, SortBooks, BooksKept DEF CallsOK
<1>2. CASE SamplesNext /\ ~SpuriousWake
  <2>1. PICK t \in Threads \cup {MainThread} : SamplesStep(t)
    BY <1>2 DEF SamplesNext
  <2>2. program # "mtsort" /\ program' = program /\ policy' = policy /\ PassTurn(t)
    BY <2>1 DEF SamplesStep
  <2> QED
    BY <2>1, <2>2, SamplesBooks, BooksKept DEF CallsOK
<1>3. CASE SpuriousWake \/ UNCHANGED programVars
  <2>1. UNCHANGED <<program, policy, turn, mutex_sem, blocked>>
    BY <1>3 DEF SpuriousWake, programVars, callVars
  <2> QED
    BY <2>1 DEF CallsOK, CallsTyped
<1> QED
  BY <1>1, <1>2, <1>3 DEF Next, Ended

LEMMA CallsStart ==
  ASSUME Init
  PROVE  CallsOK
<1>1. turn = Nobody /\ mutex_sem = 1 /\ blocked = {} /\ policy \in Policies
  BY DEF Init, CallsInit, SortStart, SamplesStart
<1> QED
  BY <1>1 DEF CallsOK, CallsTyped

RunIInv == (SortIInv /\ late = 0) \/ SamplesIInv

LEMMA RunInit == Init => RunIInv
<1>1. CASE Init /\ SortStart
  BY <1>1, SortInitIInv DEF Init, SortInit, SamplesData, RunIInv
<1>2. CASE Init /\ SamplesStart
  BY <1>2, SamplesInitIInv DEF Init, RunIInv
<1> QED
  BY <1>1, <1>2 DEF Init

LEMMA RunNext == RunIInv /\ [Next]_programVars => RunIInv'
<1> SUFFICES ASSUME RunIInv, [Next]_programVars
             PROVE  RunIInv'
  OBVIOUS
<1>1. CASE SortNext /\ SortIInv /\ late = 0 /\ UNCHANGED samplesVars
  BY <1>1, SortNextIInv DEF samplesVars, RunIInv
<1>2. CASE SamplesNext /\ SamplesIInv
  BY <1>2, SamplesStepKeeps DEF RunIInv
<1>3. CASE UNCHANGED programVars /\ SamplesIInv
  BY <1>3, SamplesStay DEF RunIInv
<1>4. CASE UNCHANGED programVars /\ SortIInv /\ late = 0
  <2>1. UNCHANGED <<callVars, sortVars, late>>
    BY <1>4 DEF programVars, samplesVars
  <2> QED
    BY <1>4, <2>1, SortNextIInv DEF RunIInv
<1>5. ~(SortNext /\ SamplesIInv)
  BY DEF SortNext, SortStep, SamplesIInv, SamplesTyped
\* A spurious wake-up, of which the sort has none, would do it no harm.
<1>6. CASE SamplesNext /\ SortIInv /\ late = 0 /\ UNCHANGED sortVars
  <2>1. program = "mtsort"
    BY <1>6 DEF SortIInv, SortTyped
  <2>2. UNCHANGED <<program, pc, holder, late>>
    BY <1>6, <2>1 DEF SamplesNext, SamplesStep, SpuriousWake
  <2>3. UNCHANGED <<num, swap, quitting, check, i>>
    BY <1>6 DEF sortVars
  <2>4. SortTyped' /\ Exchanging' /\ Truthful'
    BY <1>6, <2>2, <2>3 DEF SortIInv, SortTyped, Exchanging, Truthful
  <2>5. Lifetimes' /\ Ownership'
    BY <1>6, <2>2, <2>3 DEF SortIInv, Lifetimes, Usable, Ownership, SorterHolds, CheckerHolds
  <2>6. ListIsPermutation'
    BY <1>6, <2>2, <2>3 DEF SortIInv, ListIsPermutation, Settled, At
  <2> QED
    BY <1>6, <2>2, <2>4, <2>5, <2>6 DEF SortIInv, RunIInv
<1> QED
  BY <1>1, <1>2, <1>3, <1>4, <1>5, <1>6 DEF Next, Ended, RunIInv

LEMMA RunInvariant == Spec => [](RunIInv /\ CallsOK)
<1>1. Init => RunIInv /\ CallsOK
  BY RunInit, CallsStart
<1>2. RunIInv /\ CallsOK /\ [Next]_programVars => (RunIInv /\ CallsOK)'
  BY RunNext, CallsKept DEF RunIInv
<1> QED
  BY <1>1, <1>2, PTL DEF Spec

\* Every variable of whichever program runs keeps its type; the sort uses no
\* mutex that is not initialised or is destroyed.
THEOREM TypesCorrect == Spec => []TypesOK
<1>1. SortIInv /\ CallsOK => TypesOK
  <2> SUFFICES ASSUME SortIInv, CallsOK
               PROVE  TypesOK
    OBVIOUS
  <2>1. program = "mtsort"
    BY DEF SortIInv, SortTyped
  <2> QED
    BY <2>1, SortTypes DEF TypesOK, SamplesTypeOK, CallsOK
<1>2. SamplesIInv /\ CallsOK => TypesOK
  BY DEF TypesOK, SortTypeOK, SamplesTypeOK, SamplesIInv, SamplesTyped, Mutexes, CallsOK
<1> QED
  BY <1>1, <1>2, RunInvariant, PTL DEF RunIInv

\* However the sorters' exchanges interleave, the list stays a permutation of
\* what it was.
THEOREM PermutationHolds == Spec => []ListIsPermutation
<1>1. SortIInv => ListIsPermutation
  BY DEF SortIInv
<1>2. SamplesIInv => ListIsPermutation
  BY DEF SamplesIInv, SamplesTyped, ListIsPermutation
<1> QED
  BY <1>1, <1>2, RunInvariant, PTL DEF RunIInv

\* The flag is never set on a list that is not sorted or does not stay so.
THEOREM QuitSorted == Spec => []QuitIsSorted
<1>1. SortIInv => QuitIsSorted
  BY DEF SortIInv, Truthful, QuitIsSorted
<1>2. SamplesIInv => QuitIsSorted
  BY DEF SamplesIInv, SamplesTyped, QuitIsSorted
<1> QED
  BY <1>1, <1>2, RunInvariant, PTL DEF RunIInv

\* sample5: between its marks the first thread increments once at most, with
\* a test from before the first mark.
THEOREM HaltsOnce == Spec => []HaltsBetween
<1>1. RunIInv => HaltsBetween
  BY DEF RunIInv, SamplesIInv, Halting, HaltsBetween
<1> QED
  BY <1>1, RunInvariant, PTL

\* sample4 counts every thread once; sample5 passes its end by one at most.
THEOREM CountExact == Spec => []CountEnds
<1>1. SortIInv => CountEnds
  BY DEF SortIInv, SortTyped, CountEnds
<1>2. SamplesIInv => CountEnds
  <2> SUFFICES ASSUME SamplesIInv
               PROVE  CountEnds
    OBVIOUS
  <2>1. ASSUME program = "sample4", At(MainThread, "done")
        PROVE  count = Cardinality(Threads)
    <3>1. Counted4 = Threads
      BY <2>1 DEF SamplesIInv, Counting, Counted4, At
    <3> QED
      BY <2>1, <3>1 DEF SamplesIInv, Counting
  <2>2. program = "sample5" => count <= CountDone + 1
    BY SamplesAssumption DEF SamplesIInv, SamplesTyped, Ending
  <2> QED
    BY <2>1, <2>2 DEF CountEnds
<1> QED
  BY <1>1, <1>2, RunInvariant, PTL DEF RunIInv

\* pingpong: unless a wake-up was spurious, the two threads take turns.
THEOREM TurnsTaken == Spec => []TurnsAlternate
<1>1. SortIInv => TurnsAlternate
  BY DEF SortIInv, SortTyped, TurnsAlternate
<1>2. SamplesIInv => TurnsAlternate
  <2> SUFFICES ASSUME SamplesIInv, program = "pingpong", ~spurious
               PROVE  rounds[First] - rounds[Second] \in -1 .. 1
    BY DEF TurnsAlternate
  <2>1. rounds[First] \in 0..Rounds /\ rounds[Second] \in 0..Rounds /\ Rounds \in Nat
    BY PlayersAre, SamplesAssumption DEF SamplesIInv, SamplesTyped
  <2>2. /\ rounds[First] > rounds[Second] => rounds[First] = rounds[Second] + 1
        /\ rounds[Second] > rounds[First] => rounds[Second] = rounds[First] + 1
    BY DEF SamplesIInv, Turning
  <2> QED
    BY <2>1, <2>2
<1> QED
  BY <1>1, <1>2, RunInvariant, PTL DEF RunIInv

=============================================================================
