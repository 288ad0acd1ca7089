------------------------ MODULE MypthreadSync_proofs ------------------------
(***************************************************************************)
(* What holds of the mutexes and condition variables for all threads,      *)
(* kernel threads, policies and clients.                                   *)
(*                                                                         *)
(* All of it rests on one fact: no two kernel threads execute the same     *)
(* thread, so that whoever unlocks is the one who locked.  OneCarrier of   *)
(* Mypthread_proofs is no help: a thread that exits while a stale          *)
(* dependent_th has left it in a mutex's list is made active again by the  *)
(* unlock, and is live by its state.  Alone says the same without states,  *)
(* and Counted bounds mypthread_count by the threads that can come to run. *)
(***************************************************************************)
EXTENDS MypthreadSync, Mypthread_proofs

\* Whoever can come to run: in the queue, on a kernel thread, or being saved.
Around == {t \in Threads :
             Contains(runq, t) \/ \E k \in KThreads : Carries(k, t) \/ Saves(k, t)}

Alone ==
  /\ \A j, k \in KThreads, t \in Threads : Carries(j, t) /\ Carries(k, t) => j = k
  /\ Distinct(runq)
  /\ \A k \in KThreads, t \in Threads : Contains(runq, t) => ~Carries(k, t)
  /\ \A j, k \in KThreads, t \in Threads : Saves(k, t) => ~Executes(j, t)
  /\ \A j, k \in KThreads, t \in Threads : Saves(j, t) /\ Saves(k, t) => j = k

Counted ==
  Started => /\ mypthread_count >= Cardinality(Around)
             /\ \A t \in Around : state[t] # "unborn"

SyncCore == Typed /\ Alone /\ Counted /\ Beginning

LEMMA AroundFinite ==
  /\ IsFiniteSet(Around) /\ Cardinality(Around) \in Nat
  /\ Around # {} => Cardinality(Around) > 0
<1>1. IsFiniteSet(Around)
  BY ConstantsAssumption, FS_Subset DEF Around
<1> QED
  BY <1>1, FS_CardinalityType, FS_EmptySet

LEMMA ExecutingCounts ==
  ASSUME SyncCore, Started, NEW k \in KThreads, pc[k] \in UserPcs
  PROVE  /\ th[k] \in Threads /\ th[k] \in Around /\ mypthread_count > 0
         /\ state[th[k]] # "unborn"
         /\ Executes(k, th[k]) /\ Carries(k, th[k])
         /\ \A j \in KThreads : Carries(j, th[k]) => j = k
         /\ ~Contains(runq, th[k])
         /\ \A j \in KThreads : ~Saves(j, th[k])
<1>1. th[k] \in Threads
  BY DEF SyncCore, Typed, Placed
<1>2. Executes(k, th[k]) /\ Carries(k, th[k])
  BY DEF Executes, Carries
<1>3. th[k] \in Around
  BY <1>1, <1>2 DEF Around
<1>4. mypthread_count \in Nat /\ mypthread_count >= Cardinality(Around)
  BY DEF SyncCore, Typed, TypeIn, Counted
<1>5. mypthread_count > 0
  BY <1>3, <1>4, AroundFinite
<1> QED
  BY <1>1, <1>2, <1>3, <1>5 DEF SyncCore, Alone, Counted

LEMMA SyncStartedBy ==
  ASSUME SyncCore, NEW k \in KThreads,
         pc[k] \notin {"user", "unborn"} \/ mypthread_count > 0
  PROVE  Started
BY ConstantsAssumption DEF SyncCore, Typed, TypeIn, Beginning

\* Fewer threads are around, none of them newly made.
LEMMA FewerCounted ==
  ASSUME SyncCore, Started, Around' \subseteq Around,
         mypthread_count' = mypthread_count,
         \A t \in Threads : state[t] # "unborn" => state'[t] # "unborn"
  PROVE  Counted'
<1>1. Cardinality(Around') <= Cardinality(Around) /\ Cardinality(Around') \in Nat
  BY AroundFinite, FS_Subset, FS_CardinalityType
<1>2. mypthread_count \in Nat /\ mypthread_count >= Cardinality(Around)
  BY DEF SyncCore, Typed, TypeIn, Counted
<1>3. mypthread_count' >= Cardinality(Around')
  BY <1>1, <1>2, AroundFinite
<1>4. Around' \subseteq Threads
  BY DEF Around
<1> QED
  BY <1>3, <1>4 DEF Counted, SyncCore

\* A step of kernel thread k that concerns only its own place.
LEMMA AsideKeeps ==
  ASSUME SyncCore, Started, Started', NEW k \in KThreads,
         UNCHANGED <<runq, mypthread_count>>,
         \A t \in Threads : state[t] # "unborn" => state'[t] # "unborn",
         \A j \in KThreads \ {k} :
           /\ pc'[j] = pc[j] \/ pc'[j] \in BirthPcs
           /\ th'[j] = th[j] /\ next'[j] = next[j]
           /\ save'[j] = save[j] /\ last'[j] = last[j],
         \A t \in Threads :
           /\ Carries(k, t)' => Carries(k, t)
           /\ Executes(k, t)' => Executes(k, t)
           /\ Saves(k, t)' => Saves(k, t)
  PROVE  Alone' /\ Counted' /\ Beginning'
<1>1. ASSUME NEW j \in KThreads, NEW t \in Threads
      PROVE  /\ Carries(j, t)' => Carries(j, t)
             /\ Executes(j, t)' => Executes(j, t)
             /\ Saves(j, t)' => Saves(j, t)
  <2>1. CASE j # k /\ pc'[j] = pc[j]
    BY <2>1 DEF Carries, Executes, Chose, Saves, StackOwner
  <2>2. CASE j # k /\ pc'[j] \in BirthPcs
    BY <2>2 DEF Carries, Executes, Chose, Saves, BirthPcs, UserPcs, SyncPcs, SchedPcs
  <2> QED
    BY <2>1, <2>2
<1>2. Alone'
  BY <1>1 DEF SyncCore, Alone, Contains, Distinct
<1>3. Around' \subseteq Around
  BY <1>1 DEF Around, Contains
<1> QED
  BY <1>2, <1>3, FewerCounted DEF Beginning, Started

\* The same where k stays in the calls of its thread, or ends.
LEMMA CallStepKeeps ==
  ASSUME SyncCore, Started, NEW k \in KThreads, NEW l \in UserPcs \cup EndPcs,
         pc[k] \in UserPcs, Goto(k, l),
         \A t \in Threads : state[t] # "unborn" => state'[t] # "unborn",
         UNCHANGED <<runq, klist, mypthread_count, th, save, last, next>>
  PROVE  Alone' /\ Counted' /\ Beginning'
<1>1. pc'[k] = l /\ \A j \in KThreads \ {k} : pc'[j] = pc[j]
  BY DEF Goto, SyncCore, Typed, TypeIn
<1>2. \A t \in Threads :
        /\ Carries(k, t)' => Carries(k, t)
        /\ Executes(k, t)' => Executes(k, t)
        /\ Saves(k, t)' => Saves(k, t)
  BY <1>1 DEF Carries, Executes, Chose, Saves, UserPcs, SyncPcs, EndPcs, SchedPcs
<1> QED
  BY <1>1, <1>2, AsideKeeps DEF Started

\* Nothing happens to who is where.
LEMMA NothingKeeps ==
  ASSUME SyncCore,
         \A t \in Threads : state[t] = "unborn" <=> state'[t] = "unborn",
         UNCHANGED <<runq, klist, mypthread_count, pc, th, save, last, next>>
  PROVE  Alone' /\ Counted' /\ Beginning'
<1>1. Around' = Around
  BY DEF Around, Carries, Executes, Chose, Saves, StackOwner, Contains
<1>2. Around \subseteq Threads
  BY DEF Around
<1> QED
  BY <1>1, <1>2 DEF SyncCore, Alone, Counted, Beginning, Started, Carries, Executes,
     Chose, Saves, StackOwner, Contains, Distinct

\* Yield, a join that waits, a lock or wait that blocks: k's thread is queued.
LEMMA SuspendKeeps ==
  ASSUME SyncCore, Started, NEW k \in KThreads, pc[k] \in UserPcs,
         \A t \in Threads : state[t] # "unborn" => state'[t] # "unborn",
         NEW l \in AllSaves, EnterScheduler(k, l), Enqueue(th[k]),
         UNCHANGED <<klist, mypthread_count, th, last, next>>
  PROVE  Alone' /\ Counted' /\ Beginning'
<1> DEFINE t == th[k]
<1>0. /\ t \in Threads /\ t \in Around /\ Carries(k, t)
      /\ \A j \in KThreads : Carries(j, t) => j = k
      /\ ~Contains(runq, t)
      /\ \A j \in KThreads : ~Saves(j, t)
  BY ExecutingCounts
<1> HIDE DEF t
<1>1. /\ pc'[k] = "sched_check"
      /\ \A j \in KThreads \ {k} : pc'[j] = pc[j] /\ save'[j] = save[j]
  BY DEF SyncCore, Typed, TypeIn, EnterScheduler, Goto
<1>2. \A j \in KThreads, u \in Threads :
        /\ Carries(j, u)' => Carries(j, u) /\ j # k
        /\ Executes(j, u)' => Executes(j, u) /\ j # k
        /\ Saves(j, u)' => Saves(j, u) \/ (j = k /\ u = t)
  BY <1>1 DEF Carries, Executes, Chose, Saves, StackOwner, UserPcs, SyncPcs, t
<1>3. /\ \A u : Contains(runq', u) => Contains(runq, u) \/ u = t
      /\ Distinct(runq')
  <2>1. runq \in Seq(Threads) /\ tail_ok \in BOOLEAN /\ runq' = LlAdd(runq, tail_ok, t)
    BY DEF SyncCore, Typed, TypeIn, Enqueue, t
  <2> QED
    BY <1>0, <2>1, LlAddKeeps DEF SyncCore, Alone
<1>4. Alone'
  <2>1. \A i, j \in KThreads, u \in Threads : Carries(i, u)' /\ Carries(j, u)' => i = j
    BY <1>2 DEF SyncCore, Alone
  <2>2. \A j \in KThreads, u \in Threads : Contains(runq', u) => ~Carries(j, u)'
    BY <1>0, <1>2, <1>3 DEF SyncCore, Alone
  <2>3. \A i, j \in KThreads, u \in Threads : Saves(j, u)' => ~Executes(i, u)'
    BY <1>0, <1>2 DEF SyncCore, Alone, Carries
  <2>4. \A i, j \in KThreads, u \in Threads : Saves(i, u)' /\ Saves(j, u)' => i = j
    BY <1>0, <1>2 DEF SyncCore, Alone
  <2> QED
    BY <1>3, <2>1, <2>2, <2>3, <2>4 DEF Alone, Contains
<1>5. Around' \subseteq Around
  BY <1>0, <1>2, <1>3 DEF Around, Contains
<1> QED
  BY <1>4, <1>5, FewerCounted DEF Beginning, Started

----------------------------------------------------------------------------
\* The core's steps.

LEMMA YieldKeeps ==
  ASSUME SyncCore, NEW k \in KThreads, Yield(k)
  PROVE  Alone' /\ Counted' /\ Beginning'
<1>1. Started /\ pc[k] = "user" /\ pc[k] \in UserPcs
  BY SyncStartedBy DEF Yield, CallingStarted, Calling, At, UserPcs
<1>2. CASE Registered(k)
  <2>1. \A t \in Threads : state[t] # "unborn" => state'[t] # "unborn"
    BY <1>2 DEF Yield, SyncCore, Typed, TypeIn
  <2> QED
    BY <1>1, <1>2, <2>1, SuspendKeeps DEF Yield, listVars, AllSaves, CoreSaves
<1>3. CASE ~Registered(k)
  BY <1>1, <1>3, CallStepKeeps DEF Yield, EndPcs, listVars, queueVars
<1> QED
  BY <1>2, <1>3

LEMMA JoinWaitKeeps ==
  ASSUME SyncCore, NEW k \in KThreads, JoinWait(k)
  PROVE  Alone' /\ Counted' /\ Beginning'
<1>1. Started /\ pc[k] = "join_wait" /\ pc[k] \in UserPcs
  BY SyncStartedBy DEF JoinWait, At, UserPcs
<1>2. CASE cur[k]
  <2>1. \A t \in Threads : state[t] # "unborn" => state'[t] # "unborn"
    BY <1>2 DEF JoinWait, SyncCore, Typed, TypeIn
  <2> QED
    BY <1>1, <1>2, <2>1, SuspendKeeps DEF JoinWait, listVars, AllSaves, CoreSaves
<1>3. CASE ~cur[k]
  BY <1>1, <1>3, CallStepKeeps DEF JoinWait, EndPcs, listVars, queueVars
<1> QED
  BY <1>2, <1>3

LEMMA ExitKeeps ==
  ASSUME SyncCore, NEW k \in KThreads, Exit(k)
  PROVE  Alone' /\ Counted' /\ Beginning'
<1> DEFINE t == th[k]
<1>1. Started /\ pc[k] = "user" /\ pc[k] \in UserPcs
  BY SyncStartedBy DEF Exit, CallingStarted, Calling, At, UserPcs
<1>2. /\ t \in Threads /\ t \in Around /\ Carries(k, t)
      /\ \A j \in KThreads : Carries(j, t) => j = k
      /\ ~Contains(runq, t)
      /\ \A j \in KThreads : ~Saves(j, t)
  BY <1>1, ExecutingCounts
<1>3. /\ UNCHANGED <<runq, klist, th, last, next>> /\ mypthread_count' = mypthread_count - 1
      /\ mypthread_count \in Nat /\ mypthread_count >= Cardinality(Around)
  BY <1>1 DEF Exit, queueVars, listVars, SyncCore, Typed, TypeIn, Counted
<1>4. \A u \in Threads : state[u] # "unborn" => state'[u] # "unborn"
  BY <1>2 DEF Exit, UpdateWaiting, SyncCore, Typed, TypeIn
<1> HIDE DEF t
<1>5. PICK l \in {"sched_check", "crashed"} :
        /\ Goto(k, l)
        /\ l = "sched_check" => save' = [save EXCEPT ![k] = "none"]
        /\ l = "crashed" => save' = save
  BY DEF Exit, EnterScheduler
<1>6. /\ pc'[k] = l /\ (l = "sched_check" => save'[k] = "none")
      /\ \A j \in KThreads \ {k} : pc'[j] = pc[j] /\ save'[j] = save[j]
  BY <1>5 DEF Goto, SyncCore, Typed, TypeIn
<1>7. \A j \in KThreads, u \in Threads :
        /\ Carries(j, u)' => Carries(j, u) /\ j # k
        /\ Executes(j, u)' => Executes(j, u) /\ j # k
        /\ Saves(j, u)' => Saves(j, u)
  BY <1>3, <1>6
     DEF Carries, Executes, Chose, Saves, StackOwner, UserPcs, SyncPcs, SchedPcs
<1>8. Alone'
  BY <1>3, <1>7 DEF SyncCore, Alone, Contains, Distinct
<1>9. Around' \subseteq Around \ {t}
  BY <1>2, <1>3, <1>7 DEF Around, Contains
<1>10. mypthread_count' >= Cardinality(Around')
  <2>1. Cardinality(Around \ {t}) = Cardinality(Around) - 1 /\ IsFiniteSet(Around \ {t})
    BY <1>2, AroundFinite, FS_RemoveElement
  <2>2. Cardinality(Around') <= Cardinality(Around \ {t}) /\ Cardinality(Around') \in Nat
    BY <1>9, <2>1, FS_Subset, FS_CardinalityType
  <2> QED
    BY <1>3, <2>1, <2>2, AroundFinite
<1>11. Counted'
  <2>1. Around \subseteq Threads
    BY DEF Around
  <2> QED
    BY <1>1, <1>4, <1>9, <1>10, <2>1 DEF SyncCore, Counted
<1> QED
  BY <1>1, <1>3, <1>8, <1>11 DEF Beginning, Started

LEMMA SchedPickKeeps ==
  ASSUME SyncCore, NEW k \in KThreads, SchedPick(k)
  PROVE  Alone' /\ Counted' /\ Beginning'
<1>1. Started /\ pc[k] = "sched_pick"
  BY SyncStartedBy DEF SchedPick, At
<1>2. PICK i \in FirstActive(runq, state) :
        /\ next' = [next EXCEPT ![k] = runq[i]]
        /\ runq' = Unlink(runq, i)
  BY DEF SchedPick
<1> DEFINE t == runq[i]
<1>3. /\ runq \in Seq(Threads) /\ Distinct(runq)
      /\ i \in DOMAIN runq /\ t \in Threads /\ Contains(runq, t)
  BY FirstActiveIsActive, <1>2 DEF SyncCore, Typed, TypeIn, Alone
<1>4. \A j \in KThreads : ~Carries(j, t)
  BY <1>3 DEF SyncCore, Alone
<1>5. /\ \A u : Contains(runq', u) => Contains(runq, u)
      /\ Distinct(runq') /\ ~Contains(runq', t)
  BY <1>2, <1>3, UnlinkKeeps
<1> HIDE DEF t
<1>6. /\ UNCHANGED <<state, klist, th, save, last, mypthread_count>> /\ Goto(k, "set_th")
  BY DEF SchedPick, threadVars, listVars
<1>7. /\ pc'[k] = "set_th" /\ next'[k] = t
      /\ \A j \in KThreads \ {k} : pc'[j] = pc[j] /\ next'[j] = next[j]
  BY <1>2, <1>6 DEF Goto, SyncCore, Typed, TypeIn, t
<1>8. \A j \in KThreads, u \in Threads :
        /\ Carries(j, u)' => Carries(j, u) \/ (j = k /\ u = t)
        /\ Executes(j, u)' => Executes(j, u)
        /\ Saves(j, u)' => Saves(j, u)
  BY <1>1, <1>6, <1>7
     DEF Carries, Executes, Chose, Saves, StackOwner, UserPcs, SyncPcs, SchedPcs
<1>9. Alone'
  <2>1. \A i1, j \in KThreads, u \in Threads : Carries(i1, u)' /\ Carries(j, u)' => i1 = j
    BY <1>4, <1>8 DEF SyncCore, Alone
  <2>2. \A j \in KThreads, u \in Threads : Contains(runq', u) => ~Carries(j, u)'
    BY <1>5, <1>8 DEF SyncCore, Alone
  <2>3. /\ \A j, m \in KThreads, u \in Threads : Saves(m, u)' => ~Executes(j, u)'
        /\ \A j, m \in KThreads, u \in Threads : Saves(j, u)' /\ Saves(m, u)' => j = m
    BY <1>8 DEF SyncCore, Alone
  <2> QED
    BY <1>5, <2>1, <2>2, <2>3 DEF Alone, Contains
<1>10. Around' \subseteq Around
  BY <1>3, <1>5, <1>8 DEF Around, Contains
<1> QED
  BY <1>1, <1>6, <1>9, <1>10, FewerCounted DEF Beginning, Started

LEMMA SwitchKeeps ==
  ASSUME SyncCore, NEW k \in KThreads, Switch(k)
  PROVE  Alone' /\ Counted' /\ Beginning'
<1> DEFINE t == next[k]
<1>1. /\ Started /\ pc[k] = "switch" /\ t \in Threads /\ th[k] = t
  BY SyncStartedBy DEF Switch, At, SyncCore, Typed, Placed
<1>2. /\ UNCHANGED <<state, runq, klist, th, mypthread_count>>
      /\ save' = [save EXCEPT ![k] = "none"]
      /\ last' = [last EXCEPT ![k] = NoThread]
      /\ next' = [next EXCEPT ![k] = NoThread]
  BY DEF Switch, queueVars, listVars
<1>3. PICK l \in {"undef", "user", "lock", "relock"} :
        Goto(k, l) /\ (l # "undef" => ~StackBusy(k, t))
  <2>1. ctx'[t] \in AllCtxs
    BY NextTyped, <1>1 DEF SyncCore, Typed, TypeIn, Next, LibraryStep
  <2> QED
    BY <2>1 DEF Switch, Landing, AllCtxs, CoreCtxs
<1> HIDE DEF t
<1>4. /\ pc'[k] = l /\ save'[k] = "none"
      /\ \A j \in KThreads \ {k} :
           /\ pc'[j] = pc[j] /\ save'[j] = save[j]
           /\ last'[j] = last[j] /\ next'[j] = next[j]
  BY <1>2, <1>3 DEF Goto, SyncCore, Typed, TypeIn
<1>5. \A j \in KThreads, u \in Threads :
        /\ Carries(j, u)' => Carries(j, u)
        /\ Executes(j, u)' => Executes(j, u) \/ (j = k /\ u = t /\ ~StackBusy(k, t))
        /\ Saves(j, u)' => Saves(j, u) /\ j # k
  <2>1. next[k] = t
    BY DEF t
  <2>2. ASSUME NEW j \in KThreads \ {k}, NEW u \in Threads
        PROVE  /\ Carries(j, u)' => Carries(j, u)
               /\ Executes(j, u)' => Executes(j, u)
               /\ Saves(j, u)' => Saves(j, u)
    BY <1>2, <1>4 DEF Carries, Executes, Chose, Saves, StackOwner
  <2>3. ASSUME NEW u \in Threads
        PROVE  /\ Carries(k, u)' => Carries(k, u)
               /\ Executes(k, u)' => u = t /\ ~StackBusy(k, t)
               /\ ~Saves(k, u)'
    BY <1>1, <1>2, <1>3, <1>4, <2>1
       DEF Carries, Executes, Chose, Saves, UserPcs, SyncPcs
  <2> QED
    BY <2>2, <2>3
<1>6. \A j \in KThreads \ {k} : Saves(j, t) => StackBusy(k, t)
  BY DEF Saves, StackBusy
<1>7. Alone'
  <2>1. /\ \A j, i \in KThreads, u \in Threads : Carries(i, u)' /\ Carries(j, u)' => i = j
        /\ \A j \in KThreads, u \in Threads : Contains(runq', u) => ~Carries(j, u)'
        /\ Distinct(runq')
    BY <1>2, <1>5 DEF SyncCore, Alone, Distinct
  <2>2. /\ \A j, i \in KThreads, u \in Threads : Saves(i, u)' => ~Executes(j, u)'
        /\ \A j, i \in KThreads, u \in Threads : Saves(j, u)' /\ Saves(i, u)' => i = j
    BY <1>5, <1>6 DEF SyncCore, Alone
  <2> QED
    BY <2>1, <2>2 DEF Alone, Contains
<1>8. Around' \subseteq Around
  BY <1>2, <1>5 DEF Around, Contains
<1> QED
  BY <1>1, <1>2, <1>7, <1>8, FewerCounted DEF Beginning, Started

\* The scheduler returns to a caller only when nobody is left: not while it
\* has a context to save.
LEMMA SchedCheckKeeps ==
  ASSUME SyncCore, NEW k \in KThreads, SchedCheck(k)
  PROVE  Alone' /\ Counted' /\ Beginning'
<1>1. /\ Started /\ pc[k] = "sched_check"
      /\ UNCHANGED <<state, runq, klist, mypthread_count, th, next>>
  BY SyncStartedBy DEF SchedCheck, At, threadVars, queueVars, listVars
<1>2. mypthread_count = 0 => save[k] = "none"
  <2>1. SUFFICES ASSUME save[k] # "none"
                 PROVE  mypthread_count # 0
    OBVIOUS
  <2>2. th[k] \in Threads /\ Saves(k, th[k])
    BY <1>1, <2>1 DEF SyncCore, Typed, Placed, Saves, StackOwner, SchedPcs
  <2>3. th[k] \in Around /\ mypthread_count >= Cardinality(Around) /\ mypthread_count \in Nat
    BY <1>1, <2>2 DEF Around, SyncCore, Typed, TypeIn, Counted
  <2> QED
    BY <2>3, AroundFinite
<1>3. \E l \in {"gone", "sched_pick"} :
        /\ Goto(k, l)
        /\ l = "sched_pick" => last' = [last EXCEPT ![k] = th[k]] /\ save' = save
        /\ l = "gone" => save' = [save EXCEPT ![k] = "none"] /\ last' = last
  BY <1>2 DEF SchedCheck
<1>4. /\ \A j \in KThreads \ {k} : pc'[j] = pc[j] /\ save'[j] = save[j] /\ last'[j] = last[j]
      /\ \/ pc'[k] = "gone"
         \/ pc'[k] = "sched_pick" /\ last'[k] = th[k] /\ save'[k] = save[k]
  BY <1>3 DEF Goto, SyncCore, Typed, TypeIn
<1>5. \A t \in Threads :
        /\ Carries(k, t)' => Carries(k, t)
        /\ Executes(k, t)' => Executes(k, t)
        /\ Saves(k, t)' => Saves(k, t)
  BY <1>1, <1>4 DEF Carries, Executes, Chose, Saves, StackOwner, UserPcs, SyncPcs, SchedPcs
<1> QED
  BY <1>1, <1>4, <1>5, AsideKeeps DEF Started

LEMMA SetThKeeps ==
  ASSUME SyncCore, NEW k \in KThreads, SetTh(k)
  PROVE  Alone' /\ Counted' /\ Beginning'
<1>1. /\ Started /\ pc[k] = "set_th"
      /\ UNCHANGED <<state, runq, klist, mypthread_count, next, save, last>>
      /\ Goto(k, "switch") /\ th' = [th EXCEPT ![k] = next[k]]
  BY SyncStartedBy DEF SetTh, At, threadVars, queueVars, listVars, schedVars
<1>2. /\ pc'[k] = "switch"
      /\ \A j \in KThreads \ {k} : pc'[j] = pc[j] /\ th'[j] = th[j]
  BY <1>1 DEF Goto, SyncCore, Typed, TypeIn
<1>3. \A t \in Threads :
        /\ Carries(k, t)' => Carries(k, t)
        /\ Executes(k, t)' => Executes(k, t)
        /\ Saves(k, t)' => Saves(k, t)
  BY <1>1, <1>2 DEF Carries, Executes, Chose, Saves, StackOwner, UserPcs, SyncPcs, SchedPcs
<1> QED
  BY <1>1, <1>2, <1>3, AsideKeeps DEF Started

LEMMA BirthKeeps ==
  ASSUME SyncCore, NEW k \in KThreads, ReadTail(k) \/ LinkNode(k) \/ MoveTail(k)
  PROVE  Alone' /\ Counted' /\ Beginning'
<1>1. /\ Started /\ pc[k] \in BirthPcs /\ save[k] = "none"
      /\ UNCHANGED <<state, runq, mypthread_count, th, next, save, last>>
  BY SyncStartedBy
     DEF ReadTail, LinkNode, MoveTail, At, BirthPcs, threadVars, queueVars, schedVars,
         SyncCore, Typed, Placed
<1>2. PICK l \in {"kt_link", "kt_tail", "sched_check"} : Goto(k, l)
  BY DEF ReadTail, LinkNode, MoveTail
<1>3. pc'[k] = l /\ \A j \in KThreads \ {k} : pc'[j] = pc[j]
  BY <1>2 DEF Goto, SyncCore, Typed, TypeIn
<1>4. Started'
  <2>1. klist \in Seq(KThreads)
    BY DEF SyncCore, Typed, TypeIn
  <2> QED
    BY <1>1, <2>1, KtLinkKeeps DEF ReadTail, LinkNode, MoveTail, Started, listVars
<1>5. \A t \in Threads : ~Carries(k, t)' /\ ~Executes(k, t)' /\ ~Saves(k, t)'
  BY <1>1, <1>3 DEF Carries, Executes, Chose, Saves, UserPcs, SyncPcs, SchedPcs
<1> QED
  BY <1>1, <1>3, <1>4, <1>5, AsideKeeps

LEMMA CloneKeeps ==
  ASSUME SyncCore, NEW k \in KThreads, NEW n \in KThreads, Clone(k, n)
  PROVE  Alone' /\ Counted' /\ Beginning'
<1>1. /\ Started /\ pc[k] = "clone" /\ pc[n] = "unborn"
      /\ UNCHANGED <<state, runq, klist, mypthread_count, th, next, save, last>>
  BY SyncStartedBy DEF Clone, At, threadVars, queueVars, listVars, schedVars
<1>2. /\ pc'[k] = "user"
      /\ \A j \in KThreads \ {k} : pc'[j] = pc[j] \/ pc'[j] \in BirthPcs
  BY <1>1 DEF Clone, BirthPcs, SyncCore, Typed, TypeIn
<1>3. \A t \in Threads :
        /\ Carries(k, t)' => Carries(k, t)
        /\ Executes(k, t)' => Executes(k, t)
        /\ Saves(k, t)' => Saves(k, t)
  BY <1>1, <1>2 DEF Carries, Executes, Chose, Saves, UserPcs, SyncPcs, SchedPcs
<1> QED
  BY <1>1, <1>2, <1>3, AsideKeeps DEF Started

LEMMA CallsKeep ==
  ASSUME SyncCore, NEW k \in KThreads,
         \/ CreateKthread(k) \/ CloneFailure(k) \/ Self(k)
         \/ \E t \in Threads : JoinLook(k, t)
         \/ JoinFound(k) \/ JoinMissing(k)
  PROVE  Alone' /\ Counted' /\ Beginning'
<1>1. /\ Started
      /\ pc[k] \in {"user", "create_kt", "clone", "join_found", "join_missing"}
  BY SyncStartedBy
     DEF CreateKthread, CloneFailure, Self, JoinLook, JoinFound, JoinMissing,
         CallingStarted, Calling, At
<1>2. /\ UNCHANGED <<state, runq, klist, mypthread_count, th, next, save, last>>
      /\ \E l \in {"user", "clone", "gone", "crashed", "join_found", "join_missing",
                   "join_wait"} : Goto(k, l)
  BY DEF CreateKthread, CloneFailure, Self, JoinLook, JoinFound, JoinMissing, JoinReturn,
         threadVars, queueVars, listVars, schedVars
<1> QED
  BY <1>1, <1>2, CallStepKeeps DEF UserPcs, EndPcs

LEMMA CreateKeeps ==
  ASSUME SyncCore, NEW k \in KThreads, NEW t \in Threads, Create(k, t)
  PROVE  Alone' /\ Counted' /\ Beginning'
<1>1. /\ Started /\ pc[k] = "user" /\ state[t] = "unborn"
      /\ state' = [state EXCEPT ![t] = "active"]
      /\ mypthread_count' = mypthread_count + 1
      /\ runq' = LlAdd(runq, tail_ok, t)
      /\ UNCHANGED <<klist, th, next, save, last>>
      /\ \E l \in {"user", "create_kt"} : Goto(k, l)
  BY SyncStartedBy
     DEF Create, CallingStarted, Calling, At, MakeThread, Enqueue, AfterCreate,
         listVars, schedVars
<1>2. /\ pc'[k] \in {"user", "create_kt"}
      /\ \A j \in KThreads \ {k} : pc'[j] = pc[j]
  BY <1>1 DEF Goto, SyncCore, Typed, TypeIn
<1>3. \A j \in KThreads, u \in Threads :
        /\ Carries(j, u)' => Carries(j, u)
        /\ Executes(j, u)' => Executes(j, u)
        /\ Saves(j, u)' => Saves(j, u)
  BY <1>1, <1>2 DEF Carries, Executes, Chose, Saves, StackOwner, UserPcs, SyncPcs, SchedPcs
<1>4. t \notin Around
  BY <1>1 DEF SyncCore, Counted
<1>5. /\ ~Contains(runq, t)
      /\ \A j \in KThreads : ~Carries(j, t) /\ ~Saves(j, t)
  BY <1>4 DEF Around
<1>6. /\ \A u : Contains(runq', u) => Contains(runq, u) \/ u = t
      /\ Distinct(runq')
  <2>1. runq \in Seq(Threads) /\ tail_ok \in BOOLEAN /\ Distinct(runq)
    BY DEF SyncCore, Typed, TypeIn, Alone
  <2> QED
    BY <1>1, <1>5, <2>1, LlAddKeeps
<1>7. Alone'
  <2>1. \A i, j \in KThreads, u \in Threads : Carries(i, u)' /\ Carries(j, u)' => i = j
    BY <1>3 DEF SyncCore, Alone
  <2>2. \A j \in KThreads, u \in Threads : Contains(runq', u) => ~Carries(j, u)'
    BY <1>3, <1>5, <1>6 DEF SyncCore, Alone
  <2>3. /\ \A i, j \in KThreads, u \in Threads : Saves(i, u)' => ~Executes(j, u)'
        /\ \A i, j \in KThreads, u \in Threads : Saves(i, u)' /\ Saves(j, u)' => i = j
    BY <1>3 DEF SyncCore, Alone
  <2> QED
    BY <1>6, <2>1, <2>2, <2>3 DEF Alone, Contains
<1>8. Around' \subseteq Around \cup {t}
  BY <1>3, <1>6 DEF Around, Contains
<1>9. mypthread_count' >= Cardinality(Around')
  <2>1. /\ Cardinality(Around \cup {t}) = Cardinality(Around) + 1
        /\ IsFiniteSet(Around \cup {t})
    BY <1>4, AroundFinite, FS_AddElement
  <2>2. Cardinality(Around') <= Cardinality(Around \cup {t}) /\ Cardinality(Around') \in Nat
    BY <1>8, <2>1, FS_Subset, FS_CardinalityType
  <2>3. mypthread_count >= Cardinality(Around) /\ mypthread_count \in Nat
    BY <1>1 DEF SyncCore, Typed, TypeIn, Counted
  <2> QED
    BY <1>1, <2>1, <2>2, <2>3, AroundFinite
<1>10. \A u \in Around' : state'[u] # "unborn"
  BY <1>1, <1>8 DEF SyncCore, Typed, TypeIn, Counted, Around
<1> QED
  BY <1>1, <1>7, <1>9, <1>10 DEF Counted, Beginning, Started

LEMMA FirstCreateKeeps ==
  ASSUME SyncCore, NEW k \in KThreads, NEW t \in Threads, FirstCreate(k, t)
  PROVE  ~Started /\ Alone' /\ Counted' /\ Beginning'
<1>1. /\ pc[k] = "user" /\ mypthread_count = 0 /\ t # Main
      /\ state' = [state EXCEPT ![Main] = "running", ![t] = "active"]
      /\ mypthread_count' = 2
      /\ runq' = LlAdd(runq, tail_ok, t)
      /\ klist' = KtLink(klist, ktail, k)
      /\ th' = [th EXCEPT ![k] = Main]
      /\ \E l \in {"user", "create_kt"} : Goto(k, l)
  BY DEF FirstCreate, Calling, At, MakeThread, Enqueue, AfterCreate, schedVars
<1>2. ~Started
  BY <1>1, ExecutingCounts DEF UserPcs
<1>3. /\ runq = <<>> /\ k = K0
      /\ \A j \in KThreads \ {k} : pc[j] = "unborn"
  BY <1>1, <1>2, ConstantsAssumption DEF SyncCore, Beginning
<1>4. /\ pc'[k] \in {"user", "create_kt"}
      /\ \A j \in KThreads \ {k} : pc'[j] = "unborn"
  BY <1>1, <1>3 DEF Goto, SyncCore, Typed, TypeIn
<1>5. runq' = <<t>> /\ Started' /\ th'[k] = Main
  <2>1. klist \in Seq(KThreads) /\ th \in [KThreads -> Threads \cup {NoThread}]
    BY DEF SyncCore, Typed, TypeIn
  <2> QED
    BY <1>1, <1>3, <2>1, KtLinkKeeps DEF LlAdd, Started
<1>6. \A j \in KThreads, u \in Threads :
        /\ Carries(j, u)' => j = k /\ u = Main
        /\ ~Saves(j, u)'
  BY <1>4, <1>5 DEF Carries, Executes, Chose, Saves, UserPcs, SyncPcs, SchedPcs
<1>7. (\A u : Contains(runq, u)' => u = t) /\ Distinct(runq')
  BY <1>5 DEF Contains, Distinct
<1>8. Alone'
  BY <1>1, <1>6, <1>7 DEF Alone
<1>9. Around' \subseteq {Main, t}
  BY <1>6, <1>7 DEF Around
<1>10. Counted'
  <2>1. Cardinality({Main, t}) = 2 /\ IsFiniteSet({Main, t})
    <3>1. {Main, t} = {Main} \cup {t} /\ t \notin {Main}
      BY <1>1
    <3>2. IsFiniteSet({Main}) /\ Cardinality({Main}) = 1
      BY FS_Singleton
    <3> QED
      BY <3>1, <3>2, FS_AddElement
  <2>2. Cardinality(Around') <= 2 /\ Cardinality(Around') \in Nat
    BY <1>9, <2>1, FS_Subset, FS_CardinalityType
  <2>3. state'[Main] # "unborn" /\ state'[t] # "unborn"
    BY <1>1, ConstantsAssumption DEF SyncCore, Typed, TypeIn
  <2> QED
    BY <1>1, <1>9, <2>2, <2>3 DEF Counted
<1> QED
  BY <1>2, <1>5, <1>8, <1>10 DEF Beginning

LEMMA NextKeeps ==
  ASSUME SyncCore, [Next]_vars
  PROVE  SyncCore'
<1>1. ASSUME NEW k \in KThreads, NEW kt \in Policies, MypthreadInit(k, kt)
      PROVE  Alone' /\ Counted' /\ Beginning'
  BY <1>1, NothingKeeps DEF MypthreadInit, threadVars, queueVars, listVars, schedVars
<1>2. ASSUME UNCHANGED vars
      PROVE  Alone' /\ Counted' /\ Beginning'
  <2>1. /\ UNCHANGED <<runq, klist, mypthread_count, pc, th, save, last, next>>
        /\ state' = state
    BY <1>2 DEF vars, threadVars, queueVars, listVars, schedVars
  <2>2. \A t \in Threads : state[t] = "unborn" <=> state'[t] = "unborn"
    BY <2>1
  <2> QED
    BY <2>1, <2>2, NothingKeeps
<1>3. ASSUME NEW k \in KThreads, ClientCall(k) \/ Self(k) \/ LibraryStep(k) \/ CloneFailure(k)
      PROVE  Alone' /\ Counted' /\ Beginning'
  <2>1. CASE ClientCall(k)
    BY <2>1, FirstCreateKeeps, CreateKeeps, ExitKeeps, YieldKeeps, CallsKeep DEF ClientCall
  <2>2. CASE LibraryStep(k)
    BY <2>2, CallsKeep, CloneKeeps, BirthKeeps, SchedCheckKeeps, SchedPickKeeps,
       SetThKeeps, SwitchKeeps, JoinWaitKeeps DEF LibraryStep
  <2>3. CASE Self(k) \/ CloneFailure(k)
    BY <2>3, CallsKeep
  <2> QED
    BY <1>3, <2>1, <2>2, <2>3
<1>4. Alone' /\ Counted' /\ Beginning'
  <2>1. ASSUME Next
        PROVE  Alone' /\ Counted' /\ Beginning'
    BY <1>1, <1>3, <2>1 DEF Next
  <2> QED
    BY <1>2, <2>1
<1> QED
  BY <1>4, NextTyped, NextPlaced DEF SyncCore, Typed

----------------------------------------------------------------------------
(***************************************************************************)
(* The mutexes and condition variables.  At most one kernel thread is      *)
(* between the sem_wait and the sem_post of cond_sem, and the mutex that a *)
(* cond_wait is about to release is still its caller's.                    *)
(***************************************************************************)

SyncVarsOK ==
  /\ lock \in [Mutexes -> BOOLEAN]
  /\ blocked \in [Mutexes -> Seq(Threads)]
  /\ cq \in [Conds -> Seq(Threads)]
  /\ mutex_sem \in {0, 1}
  /\ cond_sem \in {0, 1}
  /\ want \in [Threads -> Mutexes]
  /\ cond \in [KThreads -> Conds \cup {NoCond}]
  /\ owner \in [Mutexes -> Threads \cup {Nobody}]

\* The ghost agrees with the bit.
OwnerLocks == \A m \in Mutexes : lock[m] <=> owner[m] # Nobody

CondPcs == {"cw_unlock", "cw_block", "signal", "broadcast"}

CondCalls ==
  /\ \A k \in KThreads : pc[k] \in CondPcs => cond_sem = 0 /\ cond[k] \in Conds
  /\ \A j, k \in KThreads : pc[j] \in CondPcs /\ pc[k] \in CondPcs => j = k
  /\ \A k \in KThreads : pc[k] = "cw_unlock" => Holds(th[k], want[th[k]])

SyncSafe == OwnerLocks /\ CondCalls /\ BlockedOnHeldMutex /\ BlockedIsListed

SyncIInv == SyncCore /\ SyncVarsOK /\ SyncSafe

LEMMA SyncInitIInv == SyncInit => SyncIInv
<1> SUFFICES ASSUME SyncInit
             PROVE  SyncIInv
  OBVIOUS
<1>1. Init
  BY DEF SyncInit
<1>2. Typed /\ Beginning
  BY <1>1, InitTyped, InitSafe DEF Safe
<1>3. Alone /\ Counted
  <2>1. \A k \in KThreads, t \in Threads :
          /\ Carries(k, t) => k = K0 /\ t = Main
          /\ ~Saves(k, t)
    BY <1>1 DEF Init, Carries, Executes, Chose, Saves, UserPcs, SyncPcs, SchedPcs
  <2>2. klist = <<>> /\ runq = <<>> /\ \A t \in Threads : ~Contains(runq, t)
    BY <1>1 DEF Init, Contains
  <2> QED
    BY <2>1, <2>2 DEF Alone, Counted, Started, Distinct
<1>4. SyncVarsOK
  <2>1. (CHOOSE m \in Mutexes : TRUE) \in Mutexes
    BY SyncAssumption
  <2> QED
    BY <2>1 DEF SyncInit, SyncVarsOK
<1>5. SyncSafe
  <2>1. CondCalls
    BY <1>1 DEF Init, CondCalls, CondPcs
  <2>2. OwnerLocks /\ BlockedOnHeldMutex
    BY DEF SyncInit, OwnerLocks, BlockedOnHeldMutex
  <2>3. BlockedIsListed
    BY <1>1 DEF Init, BlockedIsListed
  <2> QED
    BY <2>1, <2>2, <2>3 DEF SyncSafe
<1> QED
  BY <1>2, <1>3, <1>4, <1>5 DEF SyncIInv, SyncCore

\* The core's steps begin no call of a condition variable and block nobody.
LEMMA CoreIsQuiet ==
  ASSUME Typed, [Next]_vars
  PROVE  /\ \A j \in KThreads : pc'[j] \in CondPcs => pc'[j] = pc[j] /\ th'[j] = th[j]
         /\ \A t \in Threads : state'[t] = "blocked" => state[t] = "blocked"
<1> DEFINE Quiet == \A j \in KThreads : pc'[j] \in CondPcs => pc'[j] = pc[j] /\ th'[j] = th[j]
           Wakes == \A t \in Threads : state'[t] = "blocked" => state[t] = "blocked"
<1>0. /\ pc \in [KThreads -> AllPcs] /\ th \in [KThreads -> Threads \cup {NoThread}]
      /\ state \in [Threads -> AllStates]
      /\ {"user", "create_kt", "clone", "join_found", "join_missing", "join_wait",
          "sched_check", "sched_pick", "set_th", "switch", "born", "kt_link",
          "kt_tail", "gone", "crashed", "undef", "lock", "relock"} \cap CondPcs = {}
  BY DEF Typed, TypeIn, CondPcs
<1>1. ASSUME NEW k \in KThreads,
             \/ \E kt \in Policies : MypthreadInit(k, kt)
             \/ Self(k) \/ CloneFailure(k) \/ CreateKthread(k)
             \/ \E n \in KThreads : Clone(k, n)
             \/ ReadTail(k) \/ LinkNode(k) \/ MoveTail(k) \/ SchedCheck(k) \/ SchedPick(k)
             \/ JoinFound(k) \/ JoinMissing(k) \/ \E t \in Threads : JoinLook(k, t)
      PROVE  Quiet /\ Wakes
  <2>1. state' = state /\ th' = th
    BY <1>1 DEF MypthreadInit, Self, CloneFailure, CreateKthread, Clone, ReadTail,
                LinkNode, MoveTail, SchedCheck, SchedPick, JoinFound, JoinMissing,
                JoinLook, threadVars
  <2>2. CASE \E n \in KThreads : Clone(k, n)
    <3>1. PICK n \in KThreads : pc' = [pc EXCEPT ![k] = "user", ![n] = "born"]
      BY <2>2 DEF Clone
    <3> QED
      BY <1>0, <2>1, <3>1
  <2>3. CASE ~\E n \in KThreads : Clone(k, n)
    <3>1. pc' = pc \/ \E l \in {"user", "create_kt", "clone", "join_found", "join_missing",
            "join_wait", "sched_check", "sched_pick", "set_th", "kt_link", "kt_tail",
            "gone", "crashed"} : Goto(k, l)
      BY <1>1, <2>3
         DEF MypthreadInit, Self, CloneFailure, CreateKthread, ReadTail, LinkNode,
             MoveTail, SchedCheck, SchedPick, JoinFound, JoinMissing, JoinReturn, JoinLook
    <3> QED
      BY <1>0, <2>1, <3>1 DEF Goto
  <2> QED
    BY <2>2, <2>3
<1>2. ASSUME NEW k \in KThreads, SetTh(k) \/ Switch(k)
      PROVE  Quiet /\ Wakes
  <2>1. state' = state /\ \A j \in KThreads : j # k => th'[j] = th[j]
    BY <1>0, <1>2 DEF SetTh, Switch, threadVars
  <2>2. \E l \in {"switch", "undef", "user", "lock", "relock"} : Goto(k, l)
    <3>1. CASE SetTh(k)
      BY <3>1 DEF SetTh
    <3>2. CASE Switch(k)
      <4>1. ctx' \in [Threads -> AllCtxs] /\ next[k] \in Threads
        BY <3>2, NextTyped DEF TypeIn, Placed, Typed, Switch, At, Next, LibraryStep
      <4>2. Landing(ctx'[next[k]]) \in {"user", "lock", "relock"} \/ ctx'[next[k]] = "uninit"
        BY <4>1 DEF Landing, AllCtxs, CoreCtxs
      <4> QED
        BY <3>2, <4>2 DEF Switch
    <3> QED
      BY <1>2, <3>1, <3>2
  <2> QED
    BY <1>0, <2>1, <2>2 DEF Goto
<1>3. ASSUME NEW k \in KThreads, Exit(k) \/ Yield(k) \/ JoinWait(k)
      PROVE  Quiet /\ Wakes
  <2>1. th' = th /\ (Goto(k, "sched_check") \/ Goto(k, "crashed"))
    BY <1>3 DEF Exit, Yield, JoinWait, EnterScheduler
  <2>2. Wakes
    BY <1>0, <1>3 DEF Exit, Yield, JoinWait, UpdateWaiting
  <2> QED
    BY <1>0, <2>1, <2>2 DEF Goto
<1>4. ASSUME NEW k \in KThreads, NEW t \in Threads, FirstCreate(k, t) \/ Create(k, t)
      PROVE  Quiet /\ Wakes
  <2>1. (Goto(k, "user") \/ Goto(k, "create_kt")) /\ \A j \in KThreads : j # k => th'[j] = th[j]
    BY <1>0, <1>4 DEF FirstCreate, Create, AfterCreate
  <2>2. Wakes
    BY <1>0, <1>4 DEF FirstCreate, Create, MakeThread
  <2> QED
    BY <1>0, <2>1, <2>2 DEF Goto
<1>5. ASSUME UNCHANGED vars
      PROVE  Quiet /\ Wakes
  BY <1>5 DEF vars, threadVars
<1> QED
  BY <1>1, <1>2, <1>3, <1>4, <1>5 DEF Next, ClientCall, LibraryStep

LEMMA CoreKeepsSync ==
  ASSUME SyncIInv, [Next]_vars, UNCHANGED syncVars
  PROVE  SyncIInv'
<1>1. SyncCore' /\ Typed
  BY NextKeeps DEF SyncIInv, SyncCore
<1>2. UNCHANGED <<lock, blocked, owner, cq, mutex_sem, cond_sem, want, cond>>
  BY DEF syncVars, mutexVars, ownerVars, condVars, semVars
<1>3. SyncVarsOK' /\ OwnerLocks' /\ BlockedOnHeldMutex'
  BY <1>2 DEF SyncIInv, SyncVarsOK, SyncSafe, OwnerLocks, BlockedOnHeldMutex
<1>4. CondCalls'
  BY <1>1, <1>2, CoreIsQuiet DEF SyncIInv, SyncSafe, CondCalls, CondPcs, Holds
<1>5. BlockedIsListed'
  BY <1>1, <1>2, CoreIsQuiet DEF SyncIInv, SyncSafe, BlockedIsListed, Contains
<1> QED
  BY <1>1, <1>3, <1>4, <1>5 DEF SyncIInv, SyncSafe

\* init_locks, with the first create: nobody is in a call.
LEMMA StartKeepsSync ==
  ASSUME SyncIInv, NEW k \in KThreads, NEW t \in Threads, StartLibrary(k, t)
  PROVE  SyncIInv'
<1>1. FirstCreate(k, t) /\ [Next]_vars
  BY DEF StartLibrary, Next, ClientCall
<1>2. SyncCore' /\ Typed /\ ~Started /\ Beginning
  BY <1>1, NextKeeps, FirstCreateKeeps DEF SyncIInv, SyncCore
<1>3. /\ UNCHANGED <<lock, blocked, owner, cq, want, cond>>
      /\ mutex_sem' = 1 /\ cond_sem' = 1
  BY DEF StartLibrary, mutexVars, ownerVars, condVars
<1>4. SyncVarsOK' /\ OwnerLocks' /\ BlockedOnHeldMutex'
  BY <1>3 DEF SyncIInv, SyncVarsOK, SyncSafe, OwnerLocks, BlockedOnHeldMutex
<1>5. CondCalls'
  <2>1. \A j \in KThreads : pc[j] \notin CondPcs
    BY <1>2 DEF Beginning, CondPcs
  <2> QED
    BY <1>1, <1>2, <2>1, CoreIsQuiet DEF CondCalls, CondPcs
<1>6. BlockedIsListed'
  BY <1>1, <1>2, <1>3, CoreIsQuiet DEF SyncIInv, SyncSafe, BlockedIsListed, Contains
<1> QED
  BY <1>2, <1>4, <1>5, <1>6 DEF SyncIInv, SyncSafe

----------------------------------------------------------------------------
\* The steps of the calls themselves.

\* Whoever executes a thread is alone in it.
LEMMA CallerIsAlone ==
  ASSUME SyncIInv, NEW k \in KThreads, pc[k] \in UserPcs, Started
  PROVE  /\ th[k] \in Threads /\ th[k] # Nobody /\ want[th[k]] \in Mutexes
         /\ \A j \in KThreads : pc[j] \in UserPcs /\ th[j] = th[k] => j = k
<1>1. th[k] \in Threads /\ \A j \in KThreads : Carries(j, th[k]) => j = k
  BY ExecutingCounts DEF SyncIInv
<1> QED
  BY <1>1, ConstantsAssumption DEF Carries, Executes, SyncIInv, SyncVarsOK, Nobody

\* A step that leaves the core's data alone, but for one thread's state and
\* context, and moves k to another label of its calls.
LEMMA CallMoves ==
  ASSUME SyncIInv, Started, NEW k \in KThreads, pc[k] \in UserPcs,
         NEW l \in UserPcs \cup EndPcs, Goto(k, l), UNCHANGED <<coreUnchanged, queueVars, save>>,
         state' \in [Threads -> AllStates], ctx' \in [Threads -> AllCtxs],
         \A t \in Threads : state[t] # "unborn" => state'[t] # "unborn"
  PROVE  SyncCore'
<1>1. /\ UNCHANGED <<mypthread_policy, max_kthread_count, mypthread_count,
                     current_kthread_count, mypthread_sem, dep, klist, ktail, th,
                     cur, target, last, next, tl, runq, tail_ok, save>>
      /\ Typed
  BY DEF coreUnchanged, confVars, listVars, joinVars, queueVars, SyncIInv, SyncCore
<1>2. Alone' /\ Counted' /\ Beginning'
  BY <1>1, CallStepKeeps DEF SyncIInv
<1>3. Placed'
  BY <1>1, CallStepPlaced
<1>4. TypeIn(AllStates, AllCtxs, AllPcs, AllSaves)'
  <2>1. l \in AllPcs
    BY DEF AllPcs, Pcs
  <2>2. pc' \in [KThreads -> AllPcs]
    BY <1>1, <2>1 DEF Goto, Typed, TypeIn
  <2> QED
    BY <1>1, <2>2 DEF Typed, TypeIn
<1> QED
  BY <1>2, <1>3, <1>4 DEF SyncCore, Typed

\* The same where k's thread is queued and k enters the scheduler.
LEMMA CallSuspends ==
  ASSUME SyncIInv, Started, NEW k \in KThreads, pc[k] \in UserPcs,
         NEW l \in AllSaves, EnterScheduler(k, l), Enqueue(th[k]),
         UNCHANGED <<coreUnchanged, ctx>>,
         state' \in [Threads -> AllStates],
         \A t \in Threads : state[t] # "unborn" => state'[t] # "unborn"
  PROVE  SyncCore'
<1>1. /\ UNCHANGED <<mypthread_policy, max_kthread_count, mypthread_count,
                     current_kthread_count, mypthread_sem, dep, klist, ktail, th,
                     cur, target, last, next, tl, ctx>>
      /\ Typed
  BY DEF coreUnchanged, confVars, listVars, joinVars, SyncIInv, SyncCore
<1>2. Alone' /\ Counted' /\ Beginning'
  BY <1>1, SuspendKeeps DEF SyncIInv
<1>3. th[k] \in Threads
  BY CallerIsAlone
<1>4. TypeIn(AllStates, AllCtxs, AllPcs, AllSaves)'
  <2>1. "sched_check" \in AllPcs
    BY DEF AllPcs, Pcs, SchedPcs
  <2>2. pc' \in [KThreads -> AllPcs] /\ save' \in [KThreads -> AllSaves]
    BY <1>1, <2>1 DEF EnterScheduler, Goto, Typed, TypeIn
  <2>3. runq' \in Seq(Threads) /\ tail_ok' \in BOOLEAN
    BY <1>1, <1>3, EnqueueType DEF Typed, TypeIn
  <2> QED
    BY <1>1, <2>2, <2>3 DEF Typed, TypeIn
<1>5. Placed'
  <2>1. pc' = [pc EXCEPT ![k] = "sched_check"] /\ save' = [save EXCEPT ![k] = l]
    BY DEF EnterScheduler, Goto
  <2> QED
    BY <1>1, <1>3, <2>1 DEF Typed, TypeIn, Placed, UserPcs, SyncPcs, BirthPcs
<1> QED
  BY <1>2, <1>4, <1>5 DEF SyncCore, Typed

\* mutex_lock, from whichever of its three entries.
LEMMA TakeMutexKeeps ==
  ASSUME SyncIInv, Started, NEW k \in KThreads, NEW m \in Mutexes,
         NEW after \in {"user", "gone"}, pc[k] \in UserPcs \ CondPcs,
         TakeMutex(k, m, after)
  PROVE  SyncIInv'
<1>0. /\ SyncCore /\ Typed /\ SyncVarsOK /\ OwnerLocks /\ CondCalls
      /\ BlockedOnHeldMutex /\ BlockedIsListed
  BY DEF SyncIInv, SyncCore, SyncSafe
<1>1. /\ th[k] \in Threads /\ th[k] # Nobody
      /\ \A j \in KThreads : pc[j] \in UserPcs /\ th[j] = th[k] => j = k
  BY CallerIsAlone
<1>2. /\ UNCHANGED <<coreUnchanged, queueVars, save>> /\ th' = th
      /\ UNCHANGED <<cq, cond_sem, cond>>
  BY DEF TakeMutex, coreUnchanged, condVars
<1>3. /\ pc \in [KThreads -> AllPcs] /\ state \in [Threads -> AllStates]
      /\ ctx \in [Threads -> AllCtxs]
  BY <1>0 DEF Typed, TypeIn
<1>4. CASE Free(m)
  <2>1. /\ lock' = [lock EXCEPT ![m] = TRUE] /\ owner' = [owner EXCEPT ![m] = th[k]]
        /\ Goto(k, after)
        /\ UNCHANGED <<state, ctx, blocked, mutex_sem, want>>
    BY <1>4 DEF TakeMutex, Gets
  <2>2. SyncCore'
    BY <1>2, <1>3, <2>1, CallMoves DEF UserPcs, EndPcs
  <2>3. SyncVarsOK'
    BY <1>0, <1>1, <1>2, <2>1 DEF SyncVarsOK
  <2>4. OwnerLocks' /\ BlockedOnHeldMutex' /\ BlockedIsListed'
    <3>1. OwnerLocks'
      BY <1>0, <1>1, <1>2, <2>1 DEF OwnerLocks, SyncVarsOK
    <3>2. BlockedOnHeldMutex'
      BY <1>0, <1>1, <1>2, <2>1 DEF BlockedOnHeldMutex, SyncVarsOK
    <3>3. BlockedIsListed'
      <4>1. UNCHANGED <<state, blocked, cq>>
        BY <1>2, <2>1
      <4> QED
        BY <1>0, <4>1 DEF BlockedIsListed
    <3> QED
      BY <3>1, <3>2, <3>3
  <2>5. CondCalls'
    <3>1. owner[m] = Nobody
      BY <1>0, <1>4 DEF OwnerLocks, Free
    <3>2. \A j \in KThreads : pc'[j] \in CondPcs => pc'[j] = pc[j] /\ j # k
      BY <1>3, <2>1 DEF Goto, CondPcs
    <3>3. \A j \in KThreads : pc[j] = "cw_unlock" => Holds(th[j], want[th[j]]) /\ th[j] # Nobody
      BY <1>0, ConstantsAssumption
         DEF CondCalls, Typed, Placed, UserPcs, SyncPcs, Nobody
    <3>4. \A j \in KThreads : pc'[j] = "cw_unlock" => Holds(th[j], want[th[j]])'
      <4>1. ASSUME NEW j \in KThreads, pc'[j] = "cw_unlock"
            PROVE  Holds(th[j], want[th[j]])'
        <5>1. Holds(th[j], want[th[j]]) /\ th[j] # Nobody
          BY <3>2, <3>3, <4>1 DEF CondPcs
        <5>2. want[th[j]] # m
          BY <3>1, <5>1 DEF Holds
        <5>3. owner \in [Mutexes -> Threads \cup {Nobody}]
          BY <1>0 DEF SyncVarsOK
        <5> QED
          BY <1>2, <2>1, <5>1, <5>2, <5>3 DEF Holds
      <4> QED
        BY <4>1
    <3> QED
      BY <1>0, <1>2, <3>2, <3>4 DEF CondCalls, CondPcs
  <2> QED
    BY <2>2, <2>3, <2>4, <2>5 DEF SyncIInv, SyncSafe
<1>5. CASE ~Free(m) /\ ~Registered(k)
  <2>1. /\ Goto(k, "crashed") /\ mutex_sem' = 0
        /\ UNCHANGED <<state, ctx, lock, blocked, owner, want>>
    BY <1>5 DEF TakeMutex, mutexVars, ownerVars
  <2>2. SyncCore'
    BY <1>2, <1>3, <2>1, CallMoves DEF UserPcs, EndPcs
  <2>3. SyncVarsOK' /\ OwnerLocks' /\ BlockedOnHeldMutex' /\ BlockedIsListed'
    <3>1. SyncVarsOK'
      BY <1>0, <1>2, <2>1 DEF SyncVarsOK
    <3>2. OwnerLocks'
      BY <1>0, <1>2, <2>1 DEF OwnerLocks
    <3>3. BlockedOnHeldMutex'
      BY <1>0, <1>2, <2>1 DEF BlockedOnHeldMutex
    <3>4. BlockedIsListed'
      BY <1>0, <1>2, <2>1 DEF BlockedIsListed, Contains
    <3> QED
      BY <3>1, <3>2, <3>3, <3>4
  <2>4. CondCalls'
    <3>1. \A j \in KThreads : pc'[j] \in CondPcs => pc'[j] = pc[j]
      BY <1>3, <2>1 DEF Goto, CondPcs
    <3> QED
      BY <1>0, <1>2, <2>1, <3>1 DEF CondCalls, CondPcs, Holds
  <2> QED
    BY <2>2, <2>3, <2>4 DEF SyncIInv, SyncSafe
<1>6. CASE ~Free(m) /\ Registered(k)
  <2>1. /\ mutex_sem' = 0
        /\ state' = [state EXCEPT ![th[k]] = "blocked"]
        /\ blocked' = [blocked EXCEPT ![m] = Append(blocked[m], th[k])]
        /\ ctx' = [ctx EXCEPT ![th[k]] = Relock(th[k])]
        /\ want' = [want EXCEPT ![th[k]] = m]
        /\ Goto(k, "lock_enq")
        /\ UNCHANGED <<lock, owner>>
    BY <1>6 DEF TakeMutex, ownerVars
  <2>2. SyncCore'
    <3>1. state' \in [Threads -> AllStates] /\ ctx' \in [Threads -> AllCtxs]
      BY <1>1, <1>3, <2>1 DEF AllStates, AllCtxs, CoreCtxs, Relock
    <3>2. \A t \in Threads : state[t] # "unborn" => state'[t] # "unborn"
      BY <1>1, <1>3, <2>1
    <3> QED
      BY <1>2, <2>1, <3>1, <3>2, CallMoves DEF UserPcs, SyncPcs
  <2>3. /\ Append(blocked[m], th[k]) \in Seq(Threads)
        /\ Contains(Append(blocked[m], th[k]), th[k])
        /\ \A u : Contains(blocked[m], u) => Contains(Append(blocked[m], th[k]), u)
    BY <1>0, <1>1, AppendKeeps DEF SyncVarsOK
  <2>4. SyncVarsOK'
    BY <1>0, <1>1, <1>2, <2>1, <2>3 DEF SyncVarsOK
  <2>5. OwnerLocks' /\ BlockedOnHeldMutex'
    BY <1>0, <1>6, <2>1 DEF OwnerLocks, BlockedOnHeldMutex, SyncVarsOK, Free
  <2>6. BlockedIsListed'
    <3>1. ASSUME NEW t \in Threads, state'[t] = "blocked"
          PROVE  \/ \E n \in Mutexes : Contains(blocked'[n], t)
                 \/ \E c \in Conds : Contains(cq'[c], t)
      <4>1. CASE t = th[k]
        BY <1>0, <2>1, <2>3, <4>1 DEF SyncVarsOK
      <4>2. CASE t # th[k]
        <5>1. state[t] = "blocked"
          BY <1>3, <2>1, <3>1, <4>2
        <5>2. \A n \in Mutexes : Contains(blocked[n], t) => Contains(blocked'[n], t)
          BY <1>0, <2>1, <2>3 DEF SyncVarsOK
        <5> QED
          BY <1>0, <1>2, <5>1, <5>2 DEF BlockedIsListed
      <4> QED
        BY <4>1, <4>2
    <3> QED
      BY <3>1 DEF BlockedIsListed, Contains
  <2>7. CondCalls'
    <3>1. \A j \in KThreads : pc'[j] \in CondPcs => pc'[j] = pc[j] /\ j # k
      BY <1>3, <2>1 DEF Goto, CondPcs
    <3>2. \A j \in KThreads : pc'[j] = "cw_unlock" => want'[th[j]] = want[th[j]]
      BY <1>0, <1>1, <2>1, <3>1 DEF CondPcs, UserPcs, SyncPcs, SyncVarsOK, Typed, Placed
    <3> QED
      BY <1>0, <1>2, <2>1, <3>1, <3>2 DEF CondCalls, CondPcs, Holds
  <2> QED
    BY <2>2, <2>4, <2>5, <2>6, <2>7 DEF SyncIInv, SyncSafe
<1> QED
  BY <1>4, <1>5, <1>6

LEMMA LockKeeps ==
  ASSUME SyncIInv, NEW k \in KThreads,
         \/ \E m \in Mutexes : Lock(k, m)
         \/ LockAgain(k) \/ LockFromBlocked(k)
  PROVE  SyncIInv'
<1>1. CASE \E m \in Mutexes : Lock(k, m)
  <2>1. pc[k] = "user" /\ Started
    BY <1>1, SyncStartedBy DEF Lock, CallingStarted, Calling, At, SyncIInv
  <2> QED
    BY <1>1, <2>1, TakeMutexKeeps DEF Lock, UserPcs, CondPcs
<1>2. CASE LockAgain(k)
  <2>1. pc[k] = "lock" /\ Started /\ pc[k] \in UserPcs \ CondPcs
    BY <1>2, SyncStartedBy DEF LockAgain, At, SyncIInv, UserPcs, SyncPcs, CondPcs
  <2>2. want[th[k]] \in Mutexes
    BY <2>1, CallerIsAlone
  <2> QED
    BY <1>2, <2>1, <2>2, TakeMutexKeeps DEF LockAgain
<1>3. CASE LockFromBlocked(k)
  <2>1. pc[k] = "relock" /\ Started /\ pc[k] \in UserPcs \ CondPcs
    BY <1>3, SyncStartedBy DEF LockFromBlocked, At, SyncIInv, UserPcs, SyncPcs, CondPcs
  <2>2. want[th[k]] \in Mutexes
    BY <2>1, CallerIsAlone
  <2> QED
    BY <1>3, <2>1, <2>2, TakeMutexKeeps DEF LockFromBlocked
<1> QED
  BY <1>1, <1>2, <1>3

LEMMA LockEnqueueKeeps ==
  ASSUME SyncIInv, NEW k \in KThreads, LockEnqueue(k)
  PROVE  SyncIInv'
<1>0. /\ Typed /\ SyncVarsOK /\ OwnerLocks /\ CondCalls
      /\ BlockedOnHeldMutex /\ BlockedIsListed
      /\ pc \in [KThreads -> AllPcs] /\ state \in [Threads -> AllStates]
  BY DEF SyncIInv, SyncCore, SyncSafe, Typed, TypeIn
<1>1. pc[k] = "lock_enq" /\ pc[k] \in UserPcs /\ Started
  BY SyncStartedBy DEF LockEnqueue, At, SyncIInv, UserPcs, SyncPcs
<1>2. /\ UNCHANGED <<coreUnchanged, ctx>> /\ mutex_sem' = 1 /\ th' = th
      /\ UNCHANGED <<state, lock, blocked, owner, cq, cond_sem, want, cond>>
      /\ Enqueue(th[k]) /\ EnterScheduler(k, "none") /\ Goto(k, "sched_check")
  BY DEF LockEnqueue, mutexVars, ownerVars, condVars, EnterScheduler, coreUnchanged
<1>3. SyncCore'
  BY <1>0, <1>1, <1>2, CallSuspends DEF AllSaves, CoreSaves
<1>4. SyncVarsOK' /\ OwnerLocks' /\ BlockedOnHeldMutex' /\ BlockedIsListed'
  BY <1>0, <1>2 DEF SyncVarsOK, OwnerLocks, BlockedOnHeldMutex, BlockedIsListed, Contains
<1>5. CondCalls'
  <2>1. \A j \in KThreads : pc'[j] \in CondPcs => pc'[j] = pc[j]
    BY <1>0, <1>2 DEF Goto, CondPcs
  <2> QED
    BY <1>0, <1>2, <2>1 DEF CondCalls, CondPcs, Holds
<1> QED
  BY <1>3, <1>4, <1>5 DEF SyncIInv, SyncSafe

\* A call that neither moves a kernel thread nor queues one: it may wake some.
LEMMA CallStays ==
  ASSUME SyncIInv, Started, UNCHANGED <<coreUnchanged, queueVars, save, ctx, pc>>,
         state' \in [Threads -> AllStates],
         \A t \in Threads : state[t] # "unborn" => state'[t] # "unborn"
  PROVE  SyncCore'
<1>1. /\ UNCHANGED <<mypthread_policy, max_kthread_count, mypthread_count,
                     current_kthread_count, mypthread_sem, dep, klist, ktail, th,
                     cur, target, last, next, tl, runq, tail_ok, save, ctx, pc>>
      /\ SyncCore /\ Typed
  BY DEF coreUnchanged, confVars, listVars, joinVars, queueVars, SyncIInv, SyncCore
<1>2. TypeIn(AllStates, AllCtxs, AllPcs, AllSaves)' /\ Placed'
  BY <1>1 DEF Typed, TypeIn, Placed
<1>3. Started'
  BY <1>1 DEF Started
<1>4. \A t \in Threads, k \in KThreads :
        /\ Carries(k, t)' => Carries(k, t)
        /\ Executes(k, t)' => Executes(k, t)
        /\ Saves(k, t)' => Saves(k, t)
  BY <1>1 DEF Carries, Executes, Chose, Saves, StackOwner
<1>5. Alone' /\ Counted' /\ Beginning'
  BY <1>1, <1>3, <1>4, AsideKeeps, ConstantsAssumption
<1> QED
  BY <1>2, <1>5 DEF SyncCore, Typed

LEMMA TryLockKeeps ==
  ASSUME SyncIInv, NEW k \in KThreads, NEW m \in Mutexes, TryLock(k, m)
  PROVE  SyncIInv'
<1>0. /\ Typed /\ SyncVarsOK /\ OwnerLocks /\ CondCalls
      /\ BlockedOnHeldMutex /\ BlockedIsListed
      /\ pc \in [KThreads -> AllPcs] /\ state \in [Threads -> AllStates]
  BY DEF SyncIInv, SyncCore, SyncSafe, Typed, TypeIn
<1>1. pc[k] = "user" /\ pc[k] \in UserPcs /\ Started
  BY SyncStartedBy DEF TryLock, CallingStarted, Calling, At, SyncIInv, UserPcs
<1>2. th[k] \in Threads /\ th[k] # Nobody
  BY <1>1, CallerIsAlone
<1>3. /\ UNCHANGED <<coreUnchanged, queueVars, save, ctx, pc, th>>
      /\ UNCHANGED <<state, blocked, cq, cond_sem, want, cond>>
  BY DEF TryLock, coreUnchanged, condVars
<1>4. SyncCore'
  BY <1>0, <1>1, <1>3, CallStays
<1>5. CASE Free(m)
  <2>1. /\ lock' = [lock EXCEPT ![m] = TRUE] /\ owner' = [owner EXCEPT ![m] = th[k]]
        /\ mutex_sem' = mutex_sem
    BY <1>5 DEF TryLock, Gets
  <2>2. SyncVarsOK'
    BY <1>0, <1>2, <1>3, <2>1 DEF SyncVarsOK
  <2>3. OwnerLocks' /\ BlockedOnHeldMutex' /\ BlockedIsListed'
    BY <1>0, <1>2, <1>3, <2>1
       DEF OwnerLocks, BlockedOnHeldMutex, BlockedIsListed, SyncVarsOK, Contains
  <2>4. CondCalls'
    <3>1. owner[m] = Nobody
      BY <1>0, <1>5 DEF OwnerLocks, Free
    <3>2. \A j \in KThreads : pc[j] = "cw_unlock" => Holds(th[j], want[th[j]]) /\ th[j] # Nobody
      BY <1>0, ConstantsAssumption
         DEF CondCalls, Typed, Placed, UserPcs, SyncPcs, Nobody
    <3>3. \A j \in KThreads : pc'[j] = "cw_unlock" => Holds(th[j], want[th[j]])'
      BY <1>0, <1>3, <2>1, <3>1, <3>2 DEF Holds, SyncVarsOK
    <3> QED
      BY <1>0, <1>3, <3>3 DEF CondCalls, CondPcs
  <2> QED
    BY <1>4, <2>2, <2>3, <2>4 DEF SyncIInv, SyncSafe
<1>6. CASE ~Free(m)
  <2>1. mutex_sem' = 0 /\ UNCHANGED <<lock, owner>>
    BY <1>6 DEF TryLock, ownerVars
  <2>2. SyncVarsOK' /\ OwnerLocks' /\ BlockedOnHeldMutex' /\ BlockedIsListed'
    BY <1>0, <1>3, <2>1
       DEF SyncVarsOK, OwnerLocks, BlockedOnHeldMutex, BlockedIsListed, Contains
  <2>3. CondCalls'
    BY <1>0, <1>3, <2>1 DEF CondCalls, CondPcs, Holds
  <2> QED
    BY <1>4, <2>2, <2>3 DEF SyncIInv, SyncSafe
<1> QED
  BY <1>5, <1>6

\* What the release itself does, in unlock and in cond_wait.
LEMMA ReleaseFrees ==
  ASSUME SyncIInv, NEW k, NEW m \in Mutexes, ReleaseMutex(k, m),
         UNCHANGED <<cq, cond_sem, want>>
  PROVE  /\ state' \in [Threads -> AllStates]
         /\ \A t \in Threads : state[t] # "unborn" => state'[t] # "unborn"
         /\ OwnerLocks' /\ BlockedOnHeldMutex' /\ BlockedIsListed'
         /\ lock' \in [Mutexes -> BOOLEAN] /\ blocked' \in [Mutexes -> Seq(Threads)]
         /\ owner' \in [Mutexes -> Threads \cup {Nobody}]
<1>0. /\ SyncVarsOK /\ OwnerLocks /\ BlockedOnHeldMutex /\ BlockedIsListed
      /\ state \in [Threads -> AllStates] /\ "active" \in AllStates
  BY DEF SyncIInv, SyncCore, SyncSafe, Typed, TypeIn, AllStates, CoreStates
<1>1. /\ lock' = [lock EXCEPT ![m] = FALSE] /\ owner' = [owner EXCEPT ![m] = Nobody]
      /\ blocked' = [blocked EXCEPT ![m] = <<>>]
      /\ state' = LlFree(blocked[m], state)
  BY DEF ReleaseMutex, LetsGo
<1>2. /\ state' \in [Threads -> AllStates]
      /\ \A t \in Threads :
           state'[t] = IF Contains(blocked[m], t) THEN "active" ELSE state[t]
  BY <1>0, <1>1, LlFreeWakes
<1>3. OwnerLocks' /\ BlockedOnHeldMutex'
  BY <1>0, <1>1 DEF OwnerLocks, BlockedOnHeldMutex, SyncVarsOK
<1>4. BlockedIsListed'
  <2>1. ASSUME NEW t \in Threads, state'[t] = "blocked"
        PROVE  \/ \E n \in Mutexes : Contains(blocked'[n], t)
               \/ \E c \in Conds : Contains(cq'[c], t)
    <3>1. state[t] = "blocked" /\ ~Contains(blocked[m], t)
      BY <1>2, <2>1
    <3>2. \A n \in Mutexes \ {m} : blocked'[n] = blocked[n]
      BY <1>0, <1>1 DEF SyncVarsOK
    <3> QED
      BY <1>0, <3>1, <3>2 DEF BlockedIsListed
  <2> QED
    BY <2>1 DEF BlockedIsListed, Contains
<1>5. /\ lock' \in [Mutexes -> BOOLEAN] /\ blocked' \in [Mutexes -> Seq(Threads)]
      /\ owner' \in [Mutexes -> Threads \cup {Nobody}]
  BY <1>0, <1>1 DEF SyncVarsOK
<1> QED
  BY <1>2, <1>3, <1>4, <1>5

LEMMA UnlockKeeps ==
  ASSUME SyncIInv, NEW k \in KThreads, NEW m \in Mutexes, Unlock(k, m)
  PROVE  SyncIInv'
<1>0. /\ SyncVarsOK /\ CondCalls
  BY DEF SyncIInv, SyncSafe
<1>1. pc[k] = "user" /\ pc[k] \in UserPcs /\ Started /\ Holds(th[k], m)
  BY SyncStartedBy DEF Unlock, CallingStarted, Calling, At, SyncIInv, UserPcs
<1>2. /\ th[k] \in Threads /\ th[k] # Nobody
      /\ \A j \in KThreads : pc[j] \in UserPcs /\ th[j] = th[k] => j = k
  BY <1>1, CallerIsAlone
<1>3. /\ UNCHANGED <<coreUnchanged, queueVars, save, ctx, pc, th>>
      /\ UNCHANGED <<cq, cond_sem, want, cond, mutex_sem>>
      /\ ReleaseMutex(k, m) /\ owner' = [owner EXCEPT ![m] = Nobody]
  BY DEF Unlock, ReleaseMutex, LetsGo, condVars, coreUnchanged
<1>4. SyncCore'
  BY <1>1, <1>3, ReleaseFrees, CallStays
<1>5. SyncVarsOK'
  BY <1>0, <1>3, ReleaseFrees DEF SyncVarsOK
<1>6. CondCalls'
  <2>1. ASSUME NEW j \in KThreads, pc[j] = "cw_unlock"
        PROVE  Holds(th[j], want[th[j]])'
    <3>1. Holds(th[j], want[th[j]]) /\ j # k /\ pc[j] \in UserPcs
      BY <1>0, <1>1, <2>1 DEF CondCalls, UserPcs, SyncPcs
    <3>2. th[j] # th[k] /\ want[th[j]] # m
      BY <1>1, <1>2, <3>1 DEF Holds
    <3> QED
      BY <1>0, <1>3, <3>1, <3>2 DEF Holds, SyncVarsOK
  <2> QED
    BY <1>0, <1>3, <2>1 DEF CondCalls, CondPcs
<1> QED
  BY <1>3, <1>4, <1>5, <1>6, ReleaseFrees DEF SyncIInv, SyncSafe

LEMMA CondWaitUnlockKeeps ==
  ASSUME SyncIInv, NEW k \in KThreads, CondWaitUnlock(k)
  PROVE  SyncIInv'
<1> DEFINE m == want[th[k]]
<1>0. /\ SyncVarsOK /\ CondCalls /\ pc \in [KThreads -> AllPcs] /\ ctx \in [Threads -> AllCtxs]
  BY DEF SyncIInv, SyncSafe, SyncCore, Typed, TypeIn
<1>1. pc[k] = "cw_unlock" /\ pc[k] \in UserPcs /\ Started
  BY SyncStartedBy DEF CondWaitUnlock, At, SyncIInv, UserPcs, SyncPcs
<1>2. m \in Mutexes
  BY <1>1, CallerIsAlone
<1>3. /\ UNCHANGED <<coreUnchanged, queueVars, save, ctx, th>>
      /\ UNCHANGED <<cq, cond_sem, want, cond, mutex_sem>>
      /\ ReleaseMutex(k, m) /\ Goto(k, "cw_block")
  BY DEF CondWaitUnlock, LetGo, ReleaseMutex, coreUnchanged
<1> HIDE DEF m
<1>4. SyncCore'
  BY <1>0, <1>1, <1>2, <1>3, ReleaseFrees, CallMoves DEF UserPcs, SyncPcs
<1>5. SyncVarsOK'
  BY <1>0, <1>2, <1>3, ReleaseFrees DEF SyncVarsOK
<1>6. CondCalls'
  <2>1. \A j \in KThreads : pc'[j] \in CondPcs => (pc'[j] = pc[j] /\ j # k) \/ j = k
    BY <1>0, <1>3 DEF Goto
  <2>2. \A j \in KThreads : pc[j] \in CondPcs => j = k
    BY <1>0, <1>1 DEF CondCalls, CondPcs
  <2>3. pc'[k] = "cw_block"
    BY <1>0, <1>3 DEF Goto
  <2> QED
    BY <1>0, <1>1, <1>3, <2>1, <2>2, <2>3 DEF CondCalls, CondPcs
<1> QED
  BY <1>2, <1>3, <1>4, <1>5, <1>6, ReleaseFrees DEF SyncIInv, SyncSafe

LEMMA MutexDestroyKeeps ==
  ASSUME SyncIInv, NEW k \in KThreads, NEW m \in Mutexes, MutexDestroy(k, m)
  PROVE  SyncIInv'
<1>0. /\ SyncVarsOK /\ OwnerLocks /\ CondCalls /\ BlockedOnHeldMutex /\ BlockedIsListed
  BY DEF SyncIInv, SyncSafe
<1>1. /\ UNCHANGED vars /\ UNCHANGED <<owner, cq, mutex_sem, cond_sem, want, cond>>
      /\ UNCHANGED <<state, pc, th>>
      /\ ~lock[m] /\ lock' = [lock EXCEPT ![m] = FALSE]
      /\ blocked' = [blocked EXCEPT ![m] = <<>>]
  BY DEF MutexDestroy, ownerVars, condVars, semVars, vars, threadVars
<1>2. SyncCore'
  BY <1>1, NextKeeps DEF SyncIInv
<1>3. lock' = lock /\ blocked[m] = <<>> /\ blocked' = blocked
  BY <1>0, <1>1 DEF SyncVarsOK, BlockedOnHeldMutex
<1>4. SyncVarsOK' /\ OwnerLocks' /\ BlockedOnHeldMutex' /\ BlockedIsListed'
  <2>1. SyncVarsOK'
    BY <1>0, <1>1, <1>3 DEF SyncVarsOK
  <2>2. OwnerLocks' /\ BlockedOnHeldMutex'
    BY <1>0, <1>1, <1>3 DEF OwnerLocks, BlockedOnHeldMutex
  <2>3. BlockedIsListed'
    BY <1>0, <1>1, <1>3 DEF BlockedIsListed, Contains
  <2> QED
    BY <2>1, <2>2, <2>3
<1>5. CondCalls'
  BY <1>0, <1>1 DEF CondCalls, CondPcs, Holds
<1> QED
  BY <1>2, <1>4, <1>5 DEF SyncIInv, SyncSafe

\* A call of a condition variable that takes cond_sem: nobody else is in one.
LEMMA TakesCondSem ==
  ASSUME SyncIInv, cond_sem = 1, cond_sem' = 0, NEW k \in KThreads, NEW c \in Conds,
         NEW l \in CondPcs, Goto(k, l), cond' = [cond EXCEPT ![k] = c],
         l = "cw_unlock" => Holds(th[k], want[th[k]])'
  PROVE  CondCalls'
<1>1. /\ pc \in [KThreads -> AllPcs] /\ cond \in [KThreads -> Conds \cup {NoCond}]
      /\ \A j \in KThreads : pc[j] \notin CondPcs
  BY DEF SyncIInv, SyncCore, Typed, TypeIn, SyncVarsOK, SyncSafe, CondCalls
<1>2. /\ pc'[k] = l /\ cond'[k] = c
      /\ \A j \in KThreads : pc'[j] \in CondPcs => j = k
  BY <1>1 DEF Goto
<1>3. \A j \in KThreads : pc'[j] = "cw_unlock" => Holds(th[j], want[th[j]])'
  BY <1>2 DEF CondPcs
<1> QED
  BY <1>2, <1>3 DEF CondCalls, CondPcs

LEMMA CondWaitKeeps ==
  ASSUME SyncIInv, NEW k \in KThreads, NEW c \in Conds, NEW m \in Mutexes, CondWait(k, c, m)
  PROVE  SyncIInv'
<1>0. /\ SyncVarsOK /\ OwnerLocks /\ CondCalls /\ BlockedOnHeldMutex /\ BlockedIsListed
      /\ state \in [Threads -> AllStates] /\ ctx \in [Threads -> AllCtxs]
  BY DEF SyncIInv, SyncSafe, SyncCore, Typed, TypeIn
<1>1. pc[k] = "user" /\ pc[k] \in UserPcs /\ Started /\ Holds(th[k], m)
  BY SyncStartedBy DEF CondWait, CallingStarted, Calling, At, SyncIInv, UserPcs
<1>2. th[k] \in Threads
  BY <1>1, CallerIsAlone
<1>3. /\ UNCHANGED <<coreUnchanged, queueVars, save, ctx, state, th>>
      /\ UNCHANGED <<lock, blocked, owner, cq, mutex_sem>>
      /\ cond_sem = 1 /\ cond_sem' = 0
      /\ cond' = [cond EXCEPT ![k] = c] /\ want' = [want EXCEPT ![th[k]] = m]
      /\ Goto(k, "cw_unlock")
  BY DEF CondWait, TakeCondSem, coreUnchanged, mutexVars, ownerVars, condVars
<1>4. SyncCore'
  BY <1>0, <1>1, <1>3, CallMoves DEF UserPcs, SyncPcs
<1>5. SyncVarsOK' /\ OwnerLocks' /\ BlockedOnHeldMutex' /\ BlockedIsListed'
  <2>1. SyncVarsOK'
    BY <1>0, <1>2, <1>3 DEF SyncVarsOK
  <2>2. OwnerLocks' /\ BlockedOnHeldMutex'
    BY <1>0, <1>3 DEF OwnerLocks, BlockedOnHeldMutex
  <2>3. BlockedIsListed'
    BY <1>0, <1>3 DEF BlockedIsListed, Contains
  <2> QED
    BY <2>1, <2>2, <2>3
<1>6. CondCalls'
  <2>1. Holds(th[k], want[th[k]])'
    BY <1>0, <1>1, <1>2, <1>3 DEF Holds, SyncVarsOK
  <2> QED
    BY <1>3, <2>1, TakesCondSem DEF CondPcs
<1> QED
  BY <1>4, <1>5, <1>6 DEF SyncIInv, SyncSafe

LEMMA CondNotifyKeeps ==
  ASSUME SyncIInv, NEW k \in KThreads, NEW c \in Conds, NEW call \in {"signal", "broadcast"},
         CondNotify(k, c, call)
  PROVE  SyncIInv'
<1>0. /\ SyncVarsOK /\ OwnerLocks /\ CondCalls /\ BlockedOnHeldMutex /\ BlockedIsListed
      /\ state \in [Threads -> AllStates] /\ ctx \in [Threads -> AllCtxs]
  BY DEF SyncIInv, SyncSafe, SyncCore, Typed, TypeIn
<1>1. pc[k] = "user" /\ pc[k] \in UserPcs /\ Started
  BY SyncStartedBy DEF CondNotify, CallingStarted, Calling, At, SyncIInv, UserPcs
<1>3. /\ UNCHANGED <<coreUnchanged, queueVars, save, ctx, state, th>>
      /\ UNCHANGED <<lock, blocked, owner, cq, mutex_sem, want>>
      /\ cond_sem = 1 /\ cond_sem' = 0
      /\ cond' = [cond EXCEPT ![k] = c] /\ Goto(k, call)
  BY DEF CondNotify, TakeCondSem, coreUnchanged, mutexVars, ownerVars, condVars
<1>4. SyncCore'
  BY <1>0, <1>1, <1>3, CallMoves DEF UserPcs, SyncPcs
<1>5. SyncVarsOK' /\ OwnerLocks' /\ BlockedOnHeldMutex' /\ BlockedIsListed'
  <2>1. SyncVarsOK'
    BY <1>0, <1>3 DEF SyncVarsOK
  <2>2. OwnerLocks' /\ BlockedOnHeldMutex'
    BY <1>0, <1>3 DEF OwnerLocks, BlockedOnHeldMutex
  <2>3. BlockedIsListed'
    BY <1>0, <1>3 DEF BlockedIsListed, Contains
  <2> QED
    BY <2>1, <2>2, <2>3
<1>6. CondCalls'
  BY <1>3, TakesCondSem DEF CondPcs
<1> QED
  BY <1>4, <1>5, <1>6 DEF SyncIInv, SyncSafe

\* A call of a condition variable that posts cond_sem, or ends in a fault:
\* nobody is in one.
LEMMA LeavesCondCall ==
  ASSUME CondCalls, NEW k \in KThreads, NEW l, l \notin CondPcs, pc[k] \in CondPcs,
         Goto(k, l), pc \in [KThreads -> AllPcs]
  PROVE  CondCalls'
<1>1. \A j \in KThreads : pc'[j] \notin CondPcs
  BY DEF Goto, CondCalls
<1> QED
  BY <1>1 DEF CondCalls, CondPcs

\* The thread is queued on the condition variable before it leaves the mutex
\* call, so no list loses it.
LEMMA CondWaitBlockKeeps ==
  ASSUME SyncIInv, NEW k \in KThreads, CondWaitBlock(k)
  PROVE  SyncIInv'
<1>0. /\ SyncVarsOK /\ OwnerLocks /\ CondCalls /\ BlockedOnHeldMutex /\ BlockedIsListed
      /\ state \in [Threads -> AllStates] /\ ctx \in [Threads -> AllCtxs]
      /\ pc \in [KThreads -> AllPcs]
  BY DEF SyncIInv, SyncSafe, SyncCore, Typed, TypeIn
<1>1. /\ pc[k] = "cw_block" /\ pc[k] \in UserPcs /\ pc[k] \in CondPcs /\ Started
      /\ cond[k] \in Conds
  BY <1>0, SyncStartedBy
     DEF CondWaitBlock, At, SyncIInv, UserPcs, SyncPcs, CondPcs, CondCalls
<1>2. th[k] \in Threads
  BY <1>1, CallerIsAlone
<1>3. /\ UNCHANGED <<coreUnchanged, ctx, th>>
      /\ UNCHANGED <<lock, blocked, owner, mutex_sem, want>>
  BY DEF CondWaitBlock, coreUnchanged, mutexVars, ownerVars
<1>4. OwnerLocks' /\ BlockedOnHeldMutex'
  BY <1>0, <1>3 DEF OwnerLocks, BlockedOnHeldMutex
<1>5. CASE Registered(k)
  <2>1. /\ state' = [state EXCEPT ![th[k]] = "blocked"]
        /\ cq' = [cq EXCEPT ![cond[k]] = Append(cq[cond[k]], th[k])]
        /\ Enqueue(th[k]) /\ EnterScheduler(k, "lock") /\ Goto(k, "sched_check")
        /\ cond_sem' = 1 /\ cond' = [cond EXCEPT ![k] = NoCond]
    BY <1>5 DEF CondWaitBlock, EnterScheduler
  <2>2. /\ state' \in [Threads -> AllStates]
        /\ \A t \in Threads : state[t] # "unborn" => state'[t] # "unborn"
        /\ \A t \in Threads \ {th[k]} : state'[t] = state[t]
    BY <1>0, <1>2, <2>1 DEF AllStates
  <2>3. SyncCore'
    BY <1>1, <1>3, <2>1, <2>2, CallSuspends DEF AllSaves
  <2>4. /\ Append(cq[cond[k]], th[k]) \in Seq(Threads)
        /\ Contains(Append(cq[cond[k]], th[k]), th[k])
        /\ \A u : Contains(cq[cond[k]], u) => Contains(Append(cq[cond[k]], th[k]), u)
    BY <1>0, <1>1, <1>2, AppendKeeps DEF SyncVarsOK
  <2>5. SyncVarsOK'
    BY <1>0, <1>1, <1>3, <2>1, <2>4 DEF SyncVarsOK
  <2>6. BlockedIsListed'
    <3>1. /\ Contains(cq'[cond[k]], th[k])
          /\ \A c \in Conds, u \in Threads : Contains(cq[c], u) => Contains(cq'[c], u)
      BY <1>0, <1>1, <2>1, <2>4 DEF SyncVarsOK
    <3>2. ASSUME NEW t \in Threads, state'[t] = "blocked"
          PROVE  \/ \E n \in Mutexes : Contains(blocked'[n], t)
                 \/ \E c \in Conds : Contains(cq'[c], t)
      BY <1>0, <1>1, <1>3, <2>2, <3>1, <3>2 DEF BlockedIsListed
    <3> QED
      BY <3>2 DEF BlockedIsListed, Contains
  <2>7. CondCalls'
    BY <1>0, <1>1, <2>1, LeavesCondCall DEF CondPcs
  <2> QED
    BY <1>4, <2>3, <2>5, <2>6, <2>7 DEF SyncIInv, SyncSafe
<1>6. CASE ~Registered(k)
  <2>1. Goto(k, "crashed") /\ UNCHANGED <<state, cq, queueVars, cond_sem, cond, save>>
    BY <1>6 DEF CondWaitBlock
  <2>2. SyncCore'
    BY <1>0, <1>1, <1>3, <2>1, CallMoves DEF EndPcs
  <2>3. SyncVarsOK'
    BY <1>0, <1>3, <2>1 DEF SyncVarsOK
  <2>4. BlockedIsListed'
    BY <1>0, <1>3, <2>1 DEF BlockedIsListed, Contains
  <2>5. CondCalls'
    BY <1>0, <1>1, <2>1, LeavesCondCall DEF CondPcs
  <2> QED
    BY <1>4, <2>2, <2>3, <2>4, <2>5 DEF SyncIInv, SyncSafe
<1> QED
  BY <1>5, <1>6

\* signal wakes the thread it takes off the list, broadcast all of them.
LEMMA NotifyKeeps ==
  ASSUME SyncIInv, NEW k \in KThreads, CondSignal(k) \/ CondBroadcast(k)
  PROVE  SyncIInv'
<1> DEFINE c == cond[k]
<1>0. /\ SyncVarsOK /\ OwnerLocks /\ CondCalls /\ BlockedOnHeldMutex /\ BlockedIsListed
      /\ state \in [Threads -> AllStates] /\ ctx \in [Threads -> AllCtxs]
      /\ pc \in [KThreads -> AllPcs] /\ "active" \in AllStates
  BY DEF SyncIInv, SyncSafe, SyncCore, Typed, TypeIn, AllStates, CoreStates
<1>1. /\ pc[k] \in {"signal", "broadcast"} /\ pc[k] \in UserPcs /\ pc[k] \in CondPcs /\ Started
      /\ c \in Conds /\ cq[c] \in Seq(Threads)
  BY <1>0, SyncStartedBy
     DEF CondSignal, CondBroadcast, At, SyncIInv, UserPcs, SyncPcs, CondPcs, CondCalls,
         SyncVarsOK
<1>2. /\ UNCHANGED <<coreUnchanged, ctx, queueVars, save, th>>
      /\ UNCHANGED <<lock, blocked, owner, mutex_sem, want>>
      /\ cond_sem' = 1 /\ cond' = [cond EXCEPT ![k] = NoCond] /\ Goto(k, "user")
  BY DEF CondSignal, CondBroadcast, NotifyReturns, coreUnchanged, mutexVars, ownerVars
<1> HIDE DEF c
<1>3. PICK q \in Seq(Threads) :
        /\ cq' = [cq EXCEPT ![c] = q]
        /\ state' \in [Threads -> AllStates]
        /\ \A t \in Threads : state'[t] \in {"active", state[t]}
        /\ \A t \in Threads : Contains(cq[c], t) /\ state'[t] # "active" => Contains(q, t)
  <2>1. CASE CondSignal(k)
    <3>1. /\ state' = LlFreeOne(cq[c], state)
          /\ cq' = [cq EXCEPT ![c] = IF cq[c] = <<>> THEN cq[c] ELSE Tail(cq[c])]
      BY <2>1 DEF CondSignal, c
    <3>2. (IF cq[c] = <<>> THEN cq[c] ELSE Tail(cq[c])) \in Seq(Threads)
      BY <1>1
    <3>3. /\ state' \in [Threads -> AllStates]
          /\ \A t \in Threads : state'[t] \in {"active", state[t]}
          /\ \A t \in Threads : Contains(cq[c], t) /\ state'[t] # "active" =>
               cq[c] # <<>> /\ Contains(Tail(cq[c]), t)
      BY <1>0, <1>1, <3>1, LlFreeOneWakes
    <3> QED
      BY <3>1, <3>2, <3>3
  <2>2. CASE CondBroadcast(k)
    <3>1. state' = LlFree(cq[c], state) /\ cq' = [cq EXCEPT ![c] = <<>>]
      BY <2>2 DEF CondBroadcast, c
    <3>2. /\ state' \in [Threads -> AllStates]
          /\ \A t \in Threads :
               state'[t] = IF Contains(cq[c], t) THEN "active" ELSE state[t]
      BY <1>0, <3>1, LlFreeWakes
    <3>3. <<>> \in Seq(Threads)
      OBVIOUS
    <3> QED
      BY <3>1, <3>2, <3>3
  <2> QED
    BY <2>1, <2>2
<1>4. SyncCore'
  BY <1>0, <1>1, <1>2, <1>3, CallMoves DEF UserPcs
<1>5. SyncVarsOK'
  BY <1>0, <1>1, <1>2, <1>3 DEF SyncVarsOK
<1>6. OwnerLocks' /\ BlockedOnHeldMutex'
  BY <1>0, <1>2 DEF OwnerLocks, BlockedOnHeldMutex
<1>7. BlockedIsListed'
  <2>1. ASSUME NEW t \in Threads, state'[t] = "blocked"
        PROVE  \/ \E n \in Mutexes : Contains(blocked'[n], t)
               \/ \E d \in Conds : Contains(cq'[d], t)
    <3>1. state[t] = "blocked" /\ (Contains(cq[c], t) => Contains(q, t))
      BY <1>3, <2>1
    <3>2. cq'[c] = q /\ \A d \in Conds \ {c} : cq'[d] = cq[d]
      BY <1>0, <1>1, <1>3 DEF SyncVarsOK
    <3> QED
      BY <1>0, <1>1, <1>2, <3>1, <3>2 DEF BlockedIsListed
  <2> QED
    BY <2>1 DEF BlockedIsListed, Contains
<1>8. CondCalls'
  BY <1>0, <1>1, <1>2, LeavesCondCall DEF CondPcs
<1> QED
  BY <1>4, <1>5, <1>6, <1>7, <1>8 DEF SyncIInv, SyncSafe

LEMMA CondDestroyKeeps ==
  ASSUME SyncIInv, NEW k \in KThreads, NEW c \in Conds, CondDestroy(k, c)
  PROVE  SyncIInv'
<1>1. SyncVarsOK
  BY DEF SyncIInv
<1>2. /\ UNCHANGED vars
      /\ UNCHANGED <<mutexVars, waits, semVars, want, cond>>
      /\ cq[c] = <<>> /\ cq' = [cq EXCEPT ![c] = <<>>]
  BY DEF CondDestroy
<1>3. cq' = cq
  BY <1>1, <1>2 DEF SyncVarsOK
<1>4. UNCHANGED syncVars
  BY <1>2, <1>3 DEF syncVars, condVars
<1> QED
  BY <1>2, <1>4, CoreKeepsSync

----------------------------------------------------------------------------
\* The theorems.

LEMMA SyncNextKeeps ==
  ASSUME SyncIInv, [SyncNext]_allVars
  PROVE  SyncIInv'
<1>1. ASSUME NEW k \in KThreads, NEW kt \in Policies, MypthreadInit(k, kt), UNCHANGED syncVars
      PROVE  SyncIInv'
  BY <1>1, CoreKeepsSync DEF Next, ClientCall
<1>2. ASSUME NEW k \in KThreads, CoreCall(k)
      PROVE  SyncIInv'
  BY <1>2, CoreKeepsSync DEF CoreCall, ExitClean, Next, ClientCall
<1>3. ASSUME NEW k \in KThreads, SyncCall(k)
      PROVE  SyncIInv'
  BY <1>3, LockKeeps, TryLockKeeps, UnlockKeeps, CondNotifyKeeps, CondWaitKeeps DEF SyncCall
<1>4. ASSUME NEW k \in KThreads, SyncStep(k)
      PROVE  SyncIInv'
  <2>1. CASE LibraryStep(k) /\ UNCHANGED syncVars
    BY <2>1, CoreKeepsSync DEF Next
  <2>2. CASE ~(LibraryStep(k) /\ UNCHANGED syncVars)
    BY <1>4, <2>2, LockKeeps, LockEnqueueKeeps, CondWaitUnlockKeeps, CondWaitBlockKeeps,
       NotifyKeeps DEF SyncStep
  <2> QED
    BY <2>1, <2>2
<1>5. ASSUME NEW k \in KThreads, Destroy(k)
      PROVE  SyncIInv'
  BY <1>5, MutexDestroyKeeps, CondDestroyKeeps DEF Destroy
<1>6. CASE UNCHANGED allVars
  BY <1>6, CoreKeepsSync DEF allVars
<1> QED
  BY <1>1, <1>2, <1>3, <1>4, <1>5, <1>6, StartKeepsSync DEF SyncNext

----------------------------------------------------------------------------
\* A wait that has released its mutex and is not queued yet: it keeps cond_sem,
\* and no other call of a condition variable is under way.
Unqueued(c, t) == t \in waits[c] /\ ~Contains(cq[c], t)

InBetween(c, t) ==
  /\ Started /\ cond_sem = 0
  /\ \A k \in KThreads : pc[k] \in CondPcs => pc[k] = "cw_block" /\ cond[k] = c /\ th[k] = t

WaitsListed == \A c \in Conds, t \in Threads : Unqueued(c, t) => InBetween(c, t)

GhostsOK ==
  /\ actor \in Threads \cup {Nobody}
  /\ waits \in [Conds -> SUBSET Threads]
  /\ WaitsListed

\* A step that leaves the calls of condition variables as they are.
LEMMA WaitsStay ==
  ASSUME GhostsOK, Started => Started', actor' \in Threads \cup {Nobody},
         UNCHANGED <<cq, waits, cond, cond_sem>>,
         \A j \in KThreads : pc'[j] \in CondPcs => pc'[j] = pc[j] /\ th'[j] = th[j]
  PROVE  GhostsOK'
<1>1. ASSUME NEW c \in Conds, NEW t \in Threads, Unqueued(c, t)'
      PROVE  InBetween(c, t)'
  <2>1. Unqueued(c, t)
    BY <1>1 DEF Unqueued, Contains
  <2>2. InBetween(c, t)
    BY <2>1 DEF GhostsOK, WaitsListed
  <2> QED
    BY <2>2 DEF InBetween, CondPcs
<1> QED
  BY <1>1 DEF GhostsOK, WaitsListed

\* Nobody is in between: nobody released a mutex and waits to be queued.
LEMMA AllQueued ==
  ASSUME GhostsOK, \/ cond_sem = 1 \/ ~Started
                   \/ \E k \in KThreads : pc[k] \in CondPcs /\ pc[k] # "cw_block"
  PROVE  \A c \in Conds, t \in Threads : ~Unqueued(c, t)
BY DEF GhostsOK, WaitsListed, InBetween

LEMMA CoreGhosts ==
  ASSUME SyncIInv, GhostsOK, [Next]_vars, UNCHANGED syncVars
  PROVE  GhostsOK'
<1>1. UNCHANGED <<cq, waits, cond, cond_sem, actor>>
  BY DEF syncVars, condVars, semVars, mutexVars, ownerVars
<1>2. Started => Started'
  <2>1. CASE \E k \in KThreads, t \in Threads : FirstCreate(k, t)
    BY <2>1, FirstCreateKeeps DEF SyncIInv
  <2>2. CASE \E k \in KThreads : ReadTail(k) \/ LinkNode(k) \/ MoveTail(k)
    <3>1. klist \in Seq(KThreads)
      BY DEF SyncIInv, SyncCore, Typed, TypeIn
    <3> QED
      BY <2>2, <3>1, KtLinkKeeps DEF ReadTail, LinkNode, MoveTail, Started, listVars
  <2>3. CASE ~(\E k \in KThreads, t \in Threads : FirstCreate(k, t))
             /\ ~(\E k \in KThreads : ReadTail(k) \/ LinkNode(k) \/ MoveTail(k))
    <3>1. UNCHANGED vars => klist' = klist
      BY DEF vars, listVars
    <3>2. (\E k \in KThreads : LibraryStep(k)) => klist' = klist
      BY <2>3 DEF LibraryStep, CreateKthread, Clone, SchedCheck, SchedPick, SetTh,
                   Switch, JoinFound, JoinMissing, JoinWait, listVars
    <3>3. (\E k \in KThreads : ClientCall(k)) => klist' = klist
      BY <2>3 DEF ClientCall, Create, JoinLook, Exit, Yield, listVars
    <3>4. (\E k \in KThreads : (\E kt \in Policies : MypthreadInit(k, kt)) \/ Self(k)
                                   \/ CloneFailure(k)) => klist' = klist
      BY DEF MypthreadInit, Self, CloneFailure, listVars, vars
    <3>5. klist' = klist
      BY <3>1, <3>2, <3>3, <3>4 DEF Next
    <3> QED
      BY <3>5 DEF Started
  <2> QED
    BY <2>1, <2>2, <2>3
<1>3. Typed
  BY DEF SyncIInv, SyncCore
<1> QED
  BY <1>1, <1>2, <1>3, CoreIsQuiet, WaitsStay DEF GhostsOK

\* The library's start readies cond_sem: nobody waits yet.
LEMMA StartGhosts ==
  ASSUME SyncIInv, GhostsOK, NEW k \in KThreads, NEW t \in Threads, StartLibrary(k, t)
  PROVE  GhostsOK'
<1>1. ~Started
  BY FirstCreateKeeps DEF StartLibrary, SyncIInv
<1>2. UNCHANGED <<cq, waits, actor>>
  BY DEF StartLibrary, condVars, mutexVars, ownerVars
<1>3. \A c \in Conds, u \in Threads : ~Unqueued(c, u)'
  BY <1>1, <1>2, AllQueued DEF Unqueued, Contains
<1> QED
  BY <1>2, <1>3 DEF GhostsOK, WaitsListed

\* lock, trylock, unlock and the blocking path.
LEMMA LockGhosts ==
  ASSUME SyncIInv, GhostsOK, NEW k \in KThreads, SyncIInv',
         \/ \E m \in Mutexes : Lock(k, m) \/ TryLock(k, m) \/ Unlock(k, m)
         \/ LockAgain(k) \/ LockFromBlocked(k) \/ LockEnqueue(k)
  PROVE  GhostsOK'
<1>1. /\ UNCHANGED <<cq, waits, cond, cond_sem, klist, th>>
      /\ pc' = pc \/ \E l \in {"user", "gone", "crashed", "lock_enq", "sched_check"} : Goto(k, l)
      /\ actor' = actor \/ actor' = th[k]
  <2>1. ASSUME NEW m, NEW after \in {"user", "gone"}, TakeMutex(k, m, after)
        PROVE  /\ UNCHANGED <<condVars, cond, cond_sem, coreUnchanged>>
               /\ \E l \in {"user", "gone", "crashed", "lock_enq", "sched_check"} : Goto(k, l)
               /\ actor' = actor \/ actor' = th[k]
    BY <2>1 DEF TakeMutex, Gets, mutexVars, ownerVars
  <2>2. ASSUME NEW m \in Mutexes, TryLock(k, m) \/ Unlock(k, m)
        PROVE  /\ UNCHANGED <<condVars, cond, cond_sem, coreUnchanged, pc>>
               /\ actor' = actor \/ actor' = th[k]
    BY <2>2 DEF TryLock, Unlock, ReleaseMutex, Gets, LetsGo, ownerVars
  <2>3. ASSUME LockEnqueue(k)
        PROVE  /\ UNCHANGED <<condVars, cond, cond_sem, coreUnchanged>>
               /\ Goto(k, "sched_check") /\ actor' = actor
    BY <2>3 DEF LockEnqueue, EnterScheduler, mutexVars, ownerVars
  <2>4. /\ UNCHANGED <<condVars, cond, cond_sem, coreUnchanged>>
        /\ pc' = pc \/ \E l \in {"user", "gone", "crashed", "lock_enq", "sched_check"} : Goto(k, l)
        /\ actor' = actor \/ actor' = th[k]
    BY <2>1, <2>2, <2>3 DEF Lock, LockAgain, LockFromBlocked
  <2> QED
    BY <2>4 DEF condVars, coreUnchanged, listVars
<1>2. \A j \in KThreads : pc'[j] \in CondPcs => pc'[j] = pc[j] /\ th'[j] = th[j]
  <2>1. pc \in [KThreads -> AllPcs]
    BY DEF SyncIInv, SyncCore, Typed, TypeIn
  <2> QED
    BY <1>1, <2>1 DEF Goto, CondPcs
<1>3. th[k] \in Threads \cup {Nobody}
  BY DEF SyncIInv, SyncCore, Typed, TypeIn, Nobody
<1> QED
  BY <1>1, <1>2, <1>3, WaitsStay DEF GhostsOK, Started

\* A wait, or a notification, begins: cond_sem was free.
LEMMA CondCallGhosts ==
  ASSUME GhostsOK, NEW k \in KThreads, NEW c \in Conds,
         \/ \E m \in Mutexes : CondWait(k, c, m)
         \/ CondNotify(k, c, "signal") \/ CondNotify(k, c, "broadcast")
  PROVE  GhostsOK'
<1>1. UNCHANGED <<cq, waits, actor>> /\ cond_sem = 1
  BY DEF CondWait, CondNotify, TakeCondSem, condVars, mutexVars, ownerVars
<1>2. \A d \in Conds, u \in Threads : ~Unqueued(d, u)'
  BY <1>1, AllQueued DEF Unqueued, Contains
<1> QED
  BY <1>1, <1>2 DEF GhostsOK, WaitsListed

\* The release starts a wait.
LEMMA ReleaseGhosts ==
  ASSUME SyncIInv, GhostsOK, NEW k \in KThreads, CondWaitUnlock(k)
  PROVE  GhostsOK'
<1> DEFINE c == cond[k]
           t == th[k]
<1>1. /\ pc[k] = "cw_unlock" /\ pc[k] \in CondPcs /\ pc[k] \in UserPcs /\ Started
      /\ pc \in [KThreads -> AllPcs]
  BY SyncStartedBy DEF CondWaitUnlock, At, SyncIInv, SyncCore, Typed, TypeIn, UserPcs,
     SyncPcs, CondPcs
<1>2. t \in Threads /\ c \in Conds /\ cond_sem = 0 /\ \A j \in KThreads : pc[j] \in CondPcs => j = k
  BY <1>1, CallerIsAlone DEF SyncIInv, SyncSafe, CondCalls
<1>3. /\ UNCHANGED <<cq, cond, cond_sem, th, klist>> /\ actor' = t
      /\ waits' = [waits EXCEPT ![c] = waits[c] \cup {t}] /\ Goto(k, "cw_block")
  BY DEF CondWaitUnlock, LetGo, ReleaseMutex, LetsGo, coreUnchanged, listVars
<1>4. \A d \in Conds, u \in Threads : ~Unqueued(d, u)
  BY <1>1, AllQueued
<1>5. cond[k] = c /\ th[k] = t
  OBVIOUS
<1> HIDE DEF c, t
<1>6. waits' \in [Conds -> SUBSET Threads]
  BY <1>2, <1>3 DEF GhostsOK
<1>7. ASSUME NEW d \in Conds, NEW u \in Threads, Unqueued(d, u)'
      PROVE  InBetween(d, u)'
  <2>1. d = c /\ u = t
    BY <1>2, <1>3, <1>4, <1>7 DEF Unqueued, Contains, GhostsOK
  <2>2. pc'[k] = "cw_block" /\ \A j \in KThreads : pc'[j] \in CondPcs => j = k
    BY <1>1, <1>2, <1>3 DEF Goto
  <2> QED
    BY <1>1, <1>2, <1>3, <1>5, <2>1, <2>2 DEF InBetween, Started
<1> QED
  BY <1>2, <1>3, <1>6, <1>7 DEF GhostsOK, WaitsListed

\* The wait is queued, or ends in a fault with cond_sem.
LEMMA BlockGhosts ==
  ASSUME SyncIInv, GhostsOK, NEW k \in KThreads, CondWaitBlock(k)
  PROVE  GhostsOK'
<1> DEFINE c == cond[k]
           t == th[k]
<1>1. /\ pc[k] = "cw_block" /\ pc[k] \in CondPcs /\ pc[k] \in UserPcs /\ Started
      /\ pc \in [KThreads -> AllPcs]
  BY SyncStartedBy DEF CondWaitBlock, At, SyncIInv, SyncCore, Typed, TypeIn, UserPcs,
     SyncPcs, CondPcs
<1>2. /\ t \in Threads /\ c \in Conds /\ cond_sem = 0 /\ cq \in [Conds -> Seq(Threads)]
      /\ \A j \in KThreads : pc[j] \in CondPcs => j = k
  BY <1>1, CallerIsAlone DEF SyncIInv, SyncSafe, SyncVarsOK, CondCalls
<1>3. UNCHANGED <<waits, actor, th, klist>>
  BY DEF CondWaitBlock, coreUnchanged, listVars, mutexVars, ownerVars
<1>4. \A d \in Conds, u \in Threads : Unqueued(d, u) => d = c /\ u = t
  BY <1>1 DEF GhostsOK, WaitsListed, InBetween
<1>5. CASE Registered(k)
  <2>1. cq' = [cq EXCEPT ![c] = Append(cq[c], t)]
    BY <1>5 DEF CondWaitBlock
  <2> HIDE DEF c, t
  <2>2. /\ Contains(Append(cq[c], t), t)
        /\ \A u : Contains(cq[c], u) => Contains(Append(cq[c], t), u)
    BY <1>2, AppendKeeps
  <2>3. /\ Contains(cq'[c], t)
        /\ \A d \in Conds, u \in Threads : Contains(cq[d], u) => Contains(cq'[d], u)
    BY <1>2, <2>1, <2>2
  <2>4. \A d \in Conds, u \in Threads : Unqueued(d, u)' => Unqueued(d, u) /\ ~(d = c /\ u = t)
    BY <1>3, <2>3 DEF Unqueued, Contains
  <2> QED
    BY <1>3, <1>4, <2>4 DEF GhostsOK, WaitsListed
<1>6. CASE ~Registered(k)
  <2>1. UNCHANGED <<cq, cond, cond_sem>> /\ Goto(k, "crashed")
    BY <1>6 DEF CondWaitBlock
  <2>2. \A j \in KThreads : pc'[j] \in CondPcs => pc'[j] = pc[j]
    BY <1>1, <2>1 DEF Goto, CondPcs
  <2> QED
    BY <1>1, <1>3, <2>1, <2>2, WaitsStay DEF GhostsOK, Started
<1> QED
  BY <1>5, <1>6

\* Whoever a notification does not take is still queued.
LEMMA NotifyGhosts ==
  ASSUME SyncIInv, GhostsOK, NEW k \in KThreads, CondSignal(k) \/ CondBroadcast(k)
  PROVE  GhostsOK'
<1> DEFINE c == cond[k]
<1>1. /\ pc[k] \in {"signal", "broadcast"} /\ pc[k] \in CondPcs /\ pc[k] # "cw_block"
      /\ c \in Conds /\ cq \in [Conds -> Seq(Threads)]
  BY DEF CondSignal, CondBroadcast, At, CondPcs, SyncIInv, SyncSafe, SyncVarsOK, CondCalls
<1>2. actor' = actor
  BY DEF CondSignal, CondBroadcast, NotifyReturns, mutexVars, ownerVars
<1>3. \A d \in Conds, u \in Threads : ~Unqueued(d, u)
  BY <1>1, AllQueued
<1>4. PICK q, w :
        /\ cq' = [cq EXCEPT ![c] = q] /\ waits' = [waits EXCEPT ![c] = w]
        /\ w \subseteq waits[c]
        /\ \A u \in w : Contains(cq[c], u) => Contains(q, u)
  <2>1. CASE CondSignal(k)
    <3> DEFINE q == IF cq[c] = <<>> THEN cq[c] ELSE Tail(cq[c])
               w == {u \in waits[c] : cq[c] = <<>> \/ u # Head(cq[c])}
    <3>1. cq' = [cq EXCEPT ![c] = q] /\ waits' = [waits EXCEPT ![c] = w]
      BY <2>1 DEF CondSignal
    <3>2. \A u \in w : Contains(cq[c], u) => Contains(q, u)
      <4>1. ASSUME NEW u \in w, cq[c] # <<>>, Contains(cq[c], u)
            PROVE  Contains(Tail(cq[c]), u)
        <5>1. PICK i \in DOMAIN cq[c] : cq[c][i] = u
          BY <4>1 DEF Contains
        <5>2. cq[c] \in Seq(Threads) /\ i # 1 /\ i \in 1 .. Len(cq[c])
          <6>1. u # Head(cq[c])
            BY <4>1
          <6>2. cq[c] \in Seq(Threads)
            BY <1>1
          <6> QED
            BY <5>1, <6>1, <6>2
        <5>3. i - 1 \in DOMAIN Tail(cq[c]) /\ Tail(cq[c])[i - 1] = u
          BY <4>1, <5>1, <5>2
        <5> QED
          BY <5>3 DEF Contains
      <4> QED
        BY <4>1
    <3>3. w \subseteq waits[c]
      OBVIOUS
    <3> HIDE DEF q, w
    <3> QED
      BY <3>1, <3>2, <3>3
  <2>2. CASE CondBroadcast(k)
    <3> DEFINE w == {u \in waits[c] : ~Contains(cq[c], u)}
    <3>1. cq' = [cq EXCEPT ![c] = <<>>] /\ waits' = [waits EXCEPT ![c] = w]
      BY <2>2 DEF CondBroadcast
    <3>2. w \subseteq waits[c] /\ \A u \in w : ~Contains(cq[c], u)
      OBVIOUS
    <3> HIDE DEF w
    <3> QED
      BY <3>1, <3>2
  <2> QED
    BY <2>1, <2>2
<1> HIDE DEF c
<1>5. waits' \in [Conds -> SUBSET Threads]
  BY <1>1, <1>4 DEF GhostsOK
<1>6. \A d \in Conds, u \in Threads : ~Unqueued(d, u)'
  <2>1. ASSUME NEW d \in Conds, NEW u \in Threads, u \in waits'[d]
        PROVE  Contains(cq'[d], u)
    <3>1. CASE d = c
      BY <1>1, <1>3, <1>4, <2>1, <3>1 DEF GhostsOK, Unqueued
    <3>2. CASE d # c
      BY <1>1, <1>3, <1>4, <2>1, <3>2 DEF GhostsOK, Unqueued
    <3> QED
      BY <3>1, <3>2
  <2> QED
    BY <2>1 DEF Unqueued, Contains
<1> QED
  BY <1>2, <1>5, <1>6 DEF GhostsOK, WaitsListed

LEMMA DestroyGhosts ==
  ASSUME SyncIInv, GhostsOK, NEW k \in KThreads, Destroy(k)
  PROVE  GhostsOK'
<1>1. /\ UNCHANGED <<vars, waits, semVars, cond, ownerVars>>
      /\ cq' = cq
  BY DEF Destroy, MutexDestroy, CondDestroy, condVars, mutexVars, SyncIInv, SyncVarsOK
<1>2. UNCHANGED <<pc, th, klist>>
  BY <1>1 DEF vars, threadVars, listVars
<1> QED
  BY <1>1, <1>2, WaitsStay DEF GhostsOK, Started, semVars, ownerVars

LEMMA GhostsNext ==
  ASSUME SyncIInv, GhostsOK, [SyncNext]_allVars
  PROVE  GhostsOK'
<1>0. SyncIInv'
  BY SyncNextKeeps
<1>1. ASSUME NEW k \in KThreads, NEW kt \in Policies, MypthreadInit(k, kt), UNCHANGED syncVars
      PROVE  GhostsOK'
  BY <1>1, CoreGhosts DEF Next, ClientCall
<1>2. ASSUME NEW k \in KThreads, CoreCall(k)
      PROVE  GhostsOK'
  BY <1>2, CoreGhosts DEF CoreCall, ExitClean, Next, ClientCall
<1>3. ASSUME NEW k \in KThreads, SyncCall(k)
      PROVE  GhostsOK'
  BY <1>0, <1>3, LockGhosts, CondCallGhosts DEF SyncCall
<1>4. ASSUME NEW k \in KThreads, SyncStep(k)
      PROVE  GhostsOK'
  <2>1. CASE LibraryStep(k) /\ UNCHANGED syncVars
    BY <2>1, CoreGhosts DEF Next
  <2>2. CASE ~(LibraryStep(k) /\ UNCHANGED syncVars)
    BY <1>0, <1>4, <2>2, LockGhosts, ReleaseGhosts, BlockGhosts, NotifyGhosts DEF SyncStep
  <2> QED
    BY <2>1, <2>2
<1>5. CASE UNCHANGED allVars
  BY <1>5, CoreGhosts DEF allVars
<1> QED
  BY <1>1, <1>2, <1>3, <1>4, <1>5, StartGhosts, DestroyGhosts DEF SyncNext

LEMMA SyncInvariance == SyncSpec => [](SyncIInv /\ GhostsOK)
<1>1. SyncInit => GhostsOK
  BY DEF SyncInit, GhostsOK, WaitsListed, Unqueued
<1>2. SyncIInv /\ GhostsOK /\ [SyncNext]_allVars => SyncIInv' /\ GhostsOK'
  BY SyncNextKeeps, GhostsNext
<1> QED
  BY <1>1, <1>2, SyncInitIInv, PTL DEF SyncSpec

\* Every variable of the mutexes, condition variables and scheduler keeps its
\* type.  (SyncTypeOK of run sync_klmatch.)
THEOREM SyncTypeCorrect == SyncSpec => []SyncTypeOK
<1>1. SyncIInv /\ GhostsOK => SyncTypeOK
  <2>1. SyncIInv => /\ state \in [Threads -> AllStates] /\ ctx \in [Threads -> AllCtxs]
                    /\ pc \in [KThreads -> AllPcs] /\ save \in [KThreads -> AllSaves]
                    /\ runq \in Seq(Threads)
    BY DEF SyncIInv, SyncCore, Typed, TypeIn
  <2>2. /\ AllStates \subseteq {"unborn", "active", "running", "waiting", "blocked", "dead"}
        /\ AllCtxs \subseteq {"uninit", "start", "yielded", "joined", "lock", "relock"}
        /\ AllPcs \subseteq {"unborn"} \cup BirthPcs \cup UserPcs \cup SchedPcs \cup EndPcs
        /\ AllSaves \subseteq {"none", "yielded", "joined", "lock"}
    BY DEF AllStates, CoreStates, AllCtxs, CoreCtxs, AllPcs, Pcs, AllSaves, CoreSaves, UserPcs
  <2>3. SyncIInv => SyncVarsOK
    BY DEF SyncIInv
  <2>4. SyncIInv =>
          /\ state \in [Threads -> {"unborn", "active", "running", "waiting", "blocked", "dead"}]
          /\ ctx \in [Threads -> {"uninit", "start", "yielded", "joined", "lock", "relock"}]
          /\ pc \in [KThreads -> {"unborn"} \cup BirthPcs \cup UserPcs \cup SchedPcs \cup EndPcs]
          /\ save \in [KThreads -> {"none", "yielded", "joined", "lock"}]
    BY <2>1, <2>2
  <2> QED
    BY <2>1, <2>3, <2>4 DEF SyncTypeOK, SyncVarsOK, GhostsOK
<1> QED
  BY <1>1, SyncInvariance, PTL

\* An unlock, signal or broadcast finds whoever is blocked: a blocked thread is
\* on the list of a mutex or of a condition variable, in every interleaving of
\* the two critical sections of lock and wait with the notifiers'.
THEOREM BlockedListed == SyncSpec => []BlockedIsListed
<1>1. SyncIInv => BlockedIsListed
  BY DEF SyncIInv, SyncSafe
<1> QED
  BY <1>1, SyncInvariance, PTL

\* Nobody waits in the list of a free mutex: mutex_lock's test of the bit and
\* its queueing cannot straddle an unlock.
THEOREM BlockedOnHeld == SyncSpec => []BlockedOnHeldMutex
<1>1. SyncIInv => BlockedOnHeldMutex
  BY DEF SyncIInv, SyncSafe
<1> QED
  BY <1>1, SyncInvariance, PTL

\* A signal or broadcast finds in the queue every thread whose cond_wait has
\* released its mutex: the code releases first and queues second, and cond_sem
\* keeps the notifiers out of the gap.
THEOREM WaitFirst == SyncSpec => []WaitBeforeNotify
<1>1. SyncIInv /\ GhostsOK => WaitBeforeNotify
  <2>1. SUFFICES ASSUME SyncIInv, GhostsOK, NEW k \in KThreads,
                        pc[k] \in {"signal", "broadcast"}, NEW t \in waits[cond[k]]
                 PROVE  Contains(cq[cond[k]], t)
    BY DEF WaitBeforeNotify
  <2>2. cond[k] \in Conds /\ pc[k] \in CondPcs /\ pc[k] # "cw_block"
    BY <2>1 DEF SyncIInv, SyncSafe, CondCalls, CondPcs
  <2>3. t \in Threads
    BY <2>1, <2>2 DEF GhostsOK
  <2>4. ~Unqueued(cond[k], t)
    BY <2>1, <2>2, <2>3, AllQueued
  <2> QED
    BY <2>4 DEF Unqueued
<1> QED
  BY <1>1, SyncInvariance, PTL

\* The bit and the ghost tell the same holder.
LEMMA HolderIsOwner ==
  ASSUME SyncVarsOK, OwnerLocks
  PROVE  Holder = owner
BY DEF SyncVarsOK, OwnerLocks, Holder

\* What a step may do to the owners.
Gotten(t, m) == actor' = t /\ owner[m] = NoThread /\ owner' = [owner EXCEPT ![m] = t]
GivenUp(t, m) == actor' = t /\ owner[m] = t /\ owner' = [owner EXCEPT ![m] = NoThread]
OwnerStep == \/ UNCHANGED ownerVars
             \/ \E t \in Threads, m \in Mutexes : Gotten(t, m) \/ GivenUp(t, m)

LEMMA StepImplements ==
  ASSUME SyncIInv, [SyncNext]_allVars
  PROVE  OwnerStep
<1>0. OwnerLocks /\ CondCalls
  BY DEF SyncIInv, SyncSafe
<1>1. ASSUME NEW k \in KThreads, NEW m \in Mutexes, th[k] \in Threads, Free(m), Gets(k, m)
      PROVE  OwnerStep
  <2>1. Gotten(th[k], m)
    BY <1>0, <1>1 DEF OwnerLocks, Free, Nobody, Gets, Gotten
  <2> QED
    BY <1>1, <2>1 DEF OwnerStep
<1>2. ASSUME NEW k \in KThreads, NEW m \in Mutexes, th[k] \in Threads, Holds(th[k], m),
             ReleaseMutex(k, m)
      PROVE  OwnerStep
  <2>1. GivenUp(th[k], m)
    BY <1>2 DEF ReleaseMutex, LetsGo, Holds, Nobody, GivenUp
  <2> QED
    BY <1>2, <2>1 DEF OwnerStep
<1>3. ASSUME NEW k \in KThreads, pc[k] \in UserPcs
      PROVE  th[k] \in Threads
  BY <1>3 DEF SyncIInv, SyncCore, Typed, Placed
<1>4. ASSUME NEW k \in KThreads, NEW m \in Mutexes, NEW after, TakeMutex(k, m, after),
             pc[k] \in UserPcs
      PROVE  OwnerStep
  <2>1. UNCHANGED ownerVars \/ (Free(m) /\ Gets(k, m))
    BY <1>4 DEF TakeMutex, mutexVars
  <2> QED
    BY <1>1, <1>3, <1>4, <2>1 DEF OwnerStep
<1>5. ASSUME NEW k \in KThreads, SyncCall(k)
      PROVE  OwnerStep
  <2>1. pc[k] \in UserPcs
    BY <1>5 DEF SyncCall, Lock, TryLock, Unlock, CondNotify, CondWait, CallingStarted,
                Calling, At, UserPcs
  <2>2. ASSUME NEW m \in Mutexes, Lock(k, m)
        PROVE  OwnerStep
    BY <1>4, <2>1, <2>2 DEF Lock
  <2>3. ASSUME NEW m \in Mutexes, TryLock(k, m)
        PROVE  OwnerStep
    <3>1. UNCHANGED ownerVars \/ (Free(m) /\ Gets(k, m))
      BY <2>3 DEF TryLock
    <3> QED
      BY <1>1, <1>3, <2>1, <3>1 DEF OwnerStep
  <2>4. ASSUME NEW m \in Mutexes, Unlock(k, m)
        PROVE  OwnerStep
    BY <1>2, <1>3, <2>1, <2>4 DEF Unlock
  <2>5. ASSUME NEW c \in Conds, NEW m \in Mutexes,
               CondWait(k, c, m) \/ CondNotify(k, c, "signal") \/ CondNotify(k, c, "broadcast")
        PROVE  OwnerStep
    BY <2>5 DEF CondWait, CondNotify, mutexVars, OwnerStep
  <2> QED
    BY <1>5, <2>2, <2>3, <2>4, <2>5, SyncAssumption DEF SyncCall
<1>6. ASSUME NEW k \in KThreads, SyncStep(k)
      PROVE  OwnerStep
  <2>1. CASE LockAgain(k) \/ LockFromBlocked(k)
    <3>1. pc[k] \in UserPcs /\ Started
      BY <2>1, SyncStartedBy DEF LockAgain, LockFromBlocked, At, UserPcs, SyncPcs, SyncIInv
    <3>2. want[th[k]] \in Mutexes
      BY <3>1, CallerIsAlone
    <3> QED
      BY <1>4, <2>1, <3>1, <3>2 DEF LockAgain, LockFromBlocked
  <2>2. CASE CondWaitUnlock(k)
    <3>1. pc[k] = "cw_unlock" /\ pc[k] \in UserPcs /\ Started
      BY <2>2, SyncStartedBy DEF CondWaitUnlock, At, UserPcs, SyncPcs, SyncIInv
    <3>2. want[th[k]] \in Mutexes /\ Holds(th[k], want[th[k]])
      BY <1>0, <3>1, CallerIsAlone DEF CondCalls
    <3> QED
      BY <1>2, <1>3, <2>2, <3>1, <3>2 DEF CondWaitUnlock, LetGo
  <2>3. CASE LockEnqueue(k) \/ CondWaitBlock(k) \/ CondSignal(k) \/ CondBroadcast(k)
             \/ UNCHANGED syncVars
    BY <2>3 DEF LockEnqueue, CondWaitBlock, CondSignal, CondBroadcast, NotifyReturns,
                mutexVars, syncVars, OwnerStep
  <2> QED
    BY <1>6, <2>1, <2>2, <2>3 DEF SyncStep
<1>7. ASSUME NEW k \in KThreads, CoreCall(k) \/ Destroy(k) \/ UNCHANGED syncVars
             \/ \E t \in Threads : StartLibrary(k, t)
      PROVE  UNCHANGED ownerVars
  BY <1>7 DEF CoreCall, Destroy, MutexDestroy, CondDestroy, StartLibrary, mutexVars, syncVars
<1>8. CASE UNCHANGED allVars
  BY <1>8 DEF allVars, syncVars, mutexVars, OwnerStep
<1> QED
  BY <1>5, <1>6, <1>7, <1>8 DEF SyncNext, OwnerStep

\* Mutual exclusion, as a refinement: a mutex passes from nobody to one thread,
\* and back only in an unlock or cond_wait that this very thread executes,
\* wherever contexts, restarted locks and semaphores have taken it meanwhile.
THEOREM MutexImplemented == SyncSpec => ImplementsMutex
<1>1. SyncInit => Abstract!Init
  BY DEF SyncInit, Holder, Nobody, Abstract!Init
<1>2. SyncIInv /\ [SyncNext]_allVars => [Abstract!Next]_<<Holder, actor>>
  <2>1. SUFFICES ASSUME SyncIInv, [SyncNext]_allVars
                 PROVE  [Abstract!Next]_<<Holder, actor>>
    OBVIOUS
  <2>2. Holder = owner
    BY <2>1, HolderIsOwner DEF SyncIInv, SyncSafe
  <2>3. Holder' = owner'
    <3>1. (SyncVarsOK /\ OwnerLocks)'
      BY <2>1, SyncNextKeeps DEF SyncIInv, SyncSafe
    <3> QED
      BY <3>1 DEF SyncVarsOK, OwnerLocks, Holder
  <2> QED
    BY <2>1, <2>2, <2>3, StepImplements
       DEF OwnerStep, ownerVars, Gotten, GivenUp, Abstract!Next, Abstract!Acquire,
           Abstract!Release
<1> QED
  BY <1>1, <1>2, SyncInvariance, PTL DEF SyncSpec, ImplementsMutex, Abstract!Spec

=============================================================================
