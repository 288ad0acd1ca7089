------------------------- MODULE Mypthread_proofs -------------------------
(***************************************************************************)
(* What holds of Mypthread for all threads, kernel threads, policies and   *)
(* clients.                                                                *)
(***************************************************************************)
EXTENDS Mypthread, QueueUtil_proofs, FiniteSetTheorems

\* A kernel thread that executes a thread, chose one or has one to save, has
\* one; a new kernel thread has none to save.
Placed ==
  \A k \in KThreads :
    /\ pc[k] \in {"unborn"} \cup BirthPcs => save[k] = "none"
    /\ pc[k] = "sched_check" /\ save[k] # "none" => th[k] \in Threads
    /\ pc[k] \in UserPcs => th[k] \in Threads
    /\ pc[k] \in {"set_th", "switch"} => next[k] \in Threads
    /\ pc[k] = "switch" => th[k] = next[k]

\* The types with the states, contexts, labels and saved labels as parameters:
\* MypthreadSync has more of each.
TypeIn(states, ctxs, labels, saves) ==
  /\ mypthread_policy \in AllPolicies
  /\ max_kthread_count \in Nat
  /\ mypthread_count \in Nat
  /\ current_kthread_count \in Nat
  /\ mypthread_sem \in {0, 1}
  /\ state \in [Threads -> states]
  /\ dep \in [Threads -> Threads \cup {NoThread}]
  /\ ctx \in [Threads -> ctxs]
  /\ runq \in Seq(Threads)
  /\ tail_ok \in BOOLEAN
  /\ klist \in Seq(KThreads)
  /\ ktail \in KThreads \cup {NoKThread}
  /\ pc \in [KThreads -> labels]
  /\ th \in [KThreads -> Threads \cup {NoThread}]
  /\ cur \in [KThreads -> BOOLEAN]
  /\ target \in [KThreads -> Threads \cup {NoThread}]
  /\ save \in [KThreads -> saves]
  /\ last \in [KThreads -> Threads \cup {NoThread}]
  /\ next \in [KThreads -> Threads \cup {NoThread}]
  /\ tl \in [KThreads -> KThreads \cup {NoKThread}]

CoreStates == {"unborn", "active", "running", "waiting", "dead"}
CoreCtxs == {"uninit", "start", "yielded", "joined"}
CoreSaves == {"none", "yielded", "joined"}

AllStates == CoreStates \cup {"blocked"}
AllCtxs == CoreCtxs \cup {"lock", "relock"}
AllPcs == Pcs \cup SyncPcs
AllSaves == CoreSaves \cup {"lock"}

\* What the core's steps need of such sets.
Closed(states, ctxs, labels, saves) ==
  /\ CoreStates \subseteq states /\ CoreCtxs \subseteq ctxs
  /\ Pcs \subseteq labels /\ CoreSaves \subseteq saves
  /\ saves \ {"none"} \subseteq ctxs
  /\ \A c \in ctxs \ {"uninit"} : Landing(c) \in labels

Typed == TypeIn(AllStates, AllCtxs, AllPcs, AllSaves) /\ Placed

LEMMA CoreIsClosed == Closed(CoreStates, CoreCtxs, Pcs, CoreSaves)
BY DEF Closed, CoreStates, CoreCtxs, CoreSaves, Landing, Pcs, UserPcs, SyncPcs

LEMMA AllIsClosed == Closed(AllStates, AllCtxs, AllPcs, AllSaves)
BY DEF Closed, AllStates, AllCtxs, AllSaves, AllPcs, CoreStates, CoreCtxs, CoreSaves,
       Landing, Pcs, UserPcs, SyncPcs

LEMMA TypeOKIsCore == TypeOK <=> TypeIn(CoreStates, CoreCtxs, Pcs, CoreSaves)
BY DEF TypeOK, TypeIn, CoreStates, CoreCtxs, CoreSaves

LEMMA EnqueueType ==
  ASSUME runq \in Seq(Threads), tail_ok \in BOOLEAN, NEW t \in Threads, Enqueue(t)
  PROVE  runq' \in Seq(Threads) /\ tail_ok' \in BOOLEAN
BY LlAddKeeps DEF Enqueue, TailAfterAdd

LEMMA GotoType ==
  ASSUME NEW labels, pc \in [KThreads -> labels], NEW k \in KThreads,
         NEW l \in labels, Goto(k, l)
  PROVE  pc' \in [KThreads -> labels]
BY DEF Goto

\* The labels the actions go to.
LEMMA LabelsArePcs ==
  /\ {"user", "create_kt", "clone", "join_found", "join_missing", "join_wait",
      "sched_check", "sched_pick", "set_th", "switch", "born", "kt_link",
      "kt_tail", "gone", "crashed", "undef"} \subseteq Pcs
BY DEF Pcs, BirthPcs, UserPcs, SyncPcs, SchedPcs, EndPcs

LEMMA InitTyped == Init => TypeOK /\ Typed
<1>1. Init => TypeOK
  BY ConstantsAssumption
     DEF Init, TypeOK, AllPolicies, Pcs, UserPcs, SyncPcs, SchedPcs, BirthPcs, EndPcs
<1>2. Init => TypeIn(AllStates, AllCtxs, AllPcs, AllSaves)
  BY ConstantsAssumption
     DEF Init, TypeIn, AllStates, AllCtxs, AllPcs, AllSaves, CoreStates, CoreCtxs,
         CoreSaves, AllPolicies, Pcs, UserPcs, SyncPcs, SchedPcs, BirthPcs, EndPcs
<1>3. Init => Placed
  BY ConstantsAssumption DEF Init, Placed, UserPcs, SyncPcs, SchedPcs, BirthPcs, EndPcs
<1> QED
  BY <1>1, <1>2, <1>3 DEF Typed

----------------------------------------------------------------------------
LEMMA NextTypeIn ==
  ASSUME NEW S, NEW C, NEW P, NEW L, Closed(S, C, P, L),
         TypeIn(S, C, P, L), Placed, [Next]_vars
  PROVE  TypeIn(S, C, P, L)'
<1>0. \A k \in KThreads : pc[k] = "user" \/ pc[k] = "join_wait" => th[k] \in Threads
  BY DEF Placed, UserPcs
<1>00. /\ {"active", "running", "waiting", "dead"} \subseteq S /\ "start" \in C
       /\ {"user", "create_kt", "clone", "join_found", "join_missing", "join_wait",
           "sched_check", "sched_pick", "set_th", "switch", "born", "kt_link",
           "kt_tail", "gone", "crashed", "undef"} \subseteq P
       /\ {"none", "yielded", "joined"} \subseteq L
       /\ L \ {"none"} \subseteq C /\ \A c \in C \ {"uninit"} : Landing(c) \in P
  BY LabelsArePcs DEF Closed, CoreStates, CoreCtxs, CoreSaves
<1> USE <1>0, <1>00
    DEF TypeIn, confVars, threadVars, queueVars, listVars, joinVars, schedVars
<1>1. ASSUME NEW k \in KThreads, NEW kt \in Policies, MypthreadInit(k, kt)
      PROVE  TypeIn(S, C, P, L)'
  <2>1. kt \in AllPolicies
    BY ConstantsAssumption
  <2>2. Readings(Cores, 2) \subseteq Nat /\ Readings(HyperThreads, 1) \subseteq Nat
    BY DEF Readings, FirstDigits
  <2>3. max_kthread_count' \in Nat
    BY <1>1, <2>1, <2>2 DEF MypthreadInit, AllPolicies
  <2> QED
    BY <1>1, <2>1, <2>3 DEF MypthreadInit
<1>2. ASSUME NEW k \in KThreads, NEW t \in Threads, FirstCreate(k, t)
      PROVE  TypeIn(S, C, P, L)'
  <2>1. klist' \in Seq(KThreads)
    BY <1>2, KtLinkKeeps DEF FirstCreate
  <2>2. runq' \in Seq(Threads) /\ tail_ok' \in BOOLEAN
    BY <1>2, EnqueueType DEF FirstCreate, MakeThread
  <2>3. pc' \in [KThreads -> P]
    BY <1>2, GotoType DEF FirstCreate, AfterCreate
  <2>4. /\ state' \in [Threads -> S]
        /\ ctx' \in [Threads -> C]
        /\ mypthread_count' \in Nat
    <3>1. state' \in [Threads -> S]
      BY <1>2 DEF FirstCreate, MakeThread
    <3>2. ctx' \in [Threads -> C] /\ mypthread_count' \in Nat
      BY <1>2 DEF FirstCreate, MakeThread
    <3> QED
      BY <3>1, <3>2
  <2>5. /\ dep' \in [Threads -> Threads \cup {NoThread}]
        /\ th' \in [KThreads -> Threads \cup {NoThread}]
    BY <1>2, ConstantsAssumption DEF FirstCreate, MakeThread
  <2> QED
    BY <1>2, <2>1, <2>2, <2>3, <2>4, <2>5 DEF FirstCreate
<1>3. ASSUME NEW k \in KThreads, NEW t \in Threads, Create(k, t)
      PROVE  TypeIn(S, C, P, L)'
  <2>1. runq' \in Seq(Threads) /\ tail_ok' \in BOOLEAN
    BY <1>3, EnqueueType DEF Create, MakeThread
  <2>2. pc' \in [KThreads -> P]
    BY <1>3, GotoType DEF Create, AfterCreate
  <2> QED
    BY <1>3, <2>1, <2>2, ConstantsAssumption DEF Create, MakeThread
<1>4. ASSUME NEW k \in KThreads, CreateKthread(k)
      PROVE  TypeIn(S, C, P, L)'
  <2>1. pc' \in [KThreads -> P]
    BY <1>4, GotoType DEF CreateKthread
  <2>2. current_kthread_count' \in Nat
    BY <1>4 DEF CreateKthread
  <2> QED
    BY <1>4, <2>1, <2>2 DEF CreateKthread
<1>5. ASSUME NEW k \in KThreads, NEW n \in KThreads, Clone(k, n)
      PROVE  TypeIn(S, C, P, L)'
  BY <1>5 DEF Clone
<1>6. ASSUME NEW k \in KThreads, CloneFailure(k)
      PROVE  TypeIn(S, C, P, L)'
  BY <1>6, GotoType DEF CloneFailure
<1>7. ASSUME NEW k \in KThreads, ReadTail(k)
      PROVE  TypeIn(S, C, P, L)'
  BY <1>7, GotoType DEF ReadTail
<1>8. ASSUME NEW k \in KThreads, LinkNode(k)
      PROVE  TypeIn(S, C, P, L)'
  <2>1. klist' \in Seq(KThreads)
    BY <1>8, KtLinkKeeps DEF LinkNode
  <2> QED
    BY <1>8, <2>1, GotoType DEF LinkNode
<1>9. ASSUME NEW k \in KThreads, MoveTail(k)
      PROVE  TypeIn(S, C, P, L)'
  BY <1>9, GotoType DEF MoveTail
<1>10. ASSUME NEW k \in KThreads, SchedCheck(k)
       PROVE  TypeIn(S, C, P, L)'
  <2>1. pc' \in [KThreads -> P]
    BY <1>10, GotoType DEF SchedCheck
  <2>2. /\ save' \in [KThreads -> L]
        /\ last' \in [KThreads -> Threads \cup {NoThread}]
    BY <1>10 DEF SchedCheck
  <2> QED
    BY <1>10, <2>1, <2>2 DEF SchedCheck
<1>11. ASSUME NEW k \in KThreads, SchedPick(k)
       PROVE  TypeIn(S, C, P, L)'
  <2>1. PICK i \in FirstActive(runq, state) :
          /\ next' = [next EXCEPT ![k] = runq[i]]
          /\ runq' = Unlink(runq, i)
          /\ tail_ok' = TailAfterUnlink(runq, tail_ok, i)
    BY <1>11 DEF SchedPick
  <2>2. runq[i] \in Threads /\ runq' \in Seq(Threads) /\ tail_ok' \in BOOLEAN
    BY <2>1, FirstActiveIsActive, UnlinkKeeps DEF TailAfterUnlink
  <2> QED
    BY <1>11, <2>1, <2>2, GotoType DEF SchedPick
<1>12. ASSUME NEW k \in KThreads, SetTh(k)
       PROVE  TypeIn(S, C, P, L)'
  BY <1>12, GotoType DEF SetTh
<1>13. ASSUME NEW k \in KThreads, Switch(k)
       PROVE  TypeIn(S, C, P, L)'
  <2>1. ctx' \in [Threads -> C]
    BY <1>13 DEF Switch, SavedCtx
  <2>2. next[k] \in Threads
    BY <1>13 DEF Placed, Switch, At
  <2>3. Landing(ctx'[next[k]]) \in P \/ ctx'[next[k]] = "uninit"
    BY <2>1, <2>2
  <2>4. pc' \in [KThreads -> P]
    BY <1>13, <2>3, GotoType DEF Switch
  <2> QED
    BY <1>13, <2>1, <2>4 DEF Switch
<1>14. ASSUME NEW k \in KThreads, Exit(k)
       PROVE  TypeIn(S, C, P, L)'
  <2>1. mypthread_count' \in Nat
    BY <1>14 DEF Exit, CallingStarted
  <2>2. state' \in [Threads -> S]
    BY <1>14 DEF Exit, UpdateWaiting
  <2>3. pc' \in [KThreads -> P]
    BY <1>14, GotoType DEF Exit, EnterScheduler
  <2>4. /\ save' \in [KThreads -> L]
        /\ mypthread_sem' \in {0, 1}
    BY <1>14 DEF Exit, EnterScheduler
  <2> QED
    BY <1>14, <2>1, <2>2, <2>3, <2>4 DEF Exit
<1>15. ASSUME NEW k \in KThreads, Yield(k)
       PROVE  TypeIn(S, C, P, L)'
  <2>1. runq' \in Seq(Threads) /\ tail_ok' \in BOOLEAN
    BY <1>15, EnqueueType DEF Yield, CallingStarted, Calling, At
  <2>2. pc' \in [KThreads -> P]
    BY <1>15, GotoType DEF Yield, EnterScheduler
  <2>3. /\ save' \in [KThreads -> L]
        /\ state' \in [Threads -> S]
    BY <1>15 DEF Yield, EnterScheduler
  <2> QED
    BY <1>15, <2>1, <2>2, <2>3 DEF Yield
<1>16. ASSUME NEW k \in KThreads, Self(k)
       PROVE  TypeIn(S, C, P, L)'
  BY <1>16, GotoType DEF Self
<1>17. ASSUME NEW k \in KThreads, NEW t \in Threads, JoinLook(k, t)
       PROVE  TypeIn(S, C, P, L)'
  <2>1. Registered(k) \in BOOLEAN
    BY DEF Registered, Contains
  <2>2. pc' \in [KThreads -> P]
    BY <1>17, GotoType DEF JoinLook
  <2> QED
    BY <1>17, <2>1, <2>2 DEF JoinLook
<1>18. ASSUME NEW k \in KThreads, JoinFound(k) \/ JoinMissing(k)
       PROVE  TypeIn(S, C, P, L)'
  <2>1. pc' \in [KThreads -> P]
    BY <1>18, GotoType DEF JoinFound, JoinMissing, JoinReturn
  <2>2. cur' \in [KThreads -> BOOLEAN]
    BY <1>18, Zenon DEF JoinFound, JoinMissing, JoinReturn
  <2>3. target' \in [KThreads -> Threads \cup {NoThread}]
    BY <1>18 DEF JoinFound, JoinMissing, JoinReturn
  <2> QED
    BY <1>18, <2>1, <2>2, <2>3 DEF JoinFound, JoinMissing
<1>19. ASSUME NEW k \in KThreads, JoinWait(k)
       PROVE  TypeIn(S, C, P, L)'
  <2>1. runq' \in Seq(Threads) /\ tail_ok' \in BOOLEAN
    BY <1>19, EnqueueType DEF JoinWait, At
  <2>2. pc' \in [KThreads -> P]
    BY <1>19, GotoType DEF JoinWait, EnterScheduler
  <2>3. cur' \in [KThreads -> BOOLEAN]
    BY <1>19, Zenon DEF JoinWait
  <2>4. save' \in [KThreads -> L]
    BY <1>19 DEF JoinWait, EnterScheduler
  <2>5. /\ state' \in [Threads -> S]
        /\ dep' \in [Threads -> Threads \cup {NoThread}]
    BY <1>19 DEF JoinWait
  <2>6. target' \in [KThreads -> Threads \cup {NoThread}]
    BY <1>19 DEF JoinWait
  <2> QED
    BY <1>19, <2>1, <2>2, <2>3, <2>4, <2>5, <2>6 DEF JoinWait
<1>20. CASE UNCHANGED vars
  BY <1>20 DEF vars
<1> QED
  BY <1>1, <1>2, <1>3, <1>4, <1>5, <1>6, <1>7, <1>8, <1>9, <1>10, <1>11, <1>12,
     <1>13, <1>14, <1>15, <1>16, <1>17, <1>18, <1>19, <1>20
     DEF Next, ClientCall, LibraryStep

LEMMA NextTyped ==
  ASSUME Typed, [Next]_vars
  PROVE  TypeIn(AllStates, AllCtxs, AllPcs, AllSaves)'
BY NextTypeIn, AllIsClosed DEF Typed

\* A step that only moves one kernel thread between labels of its calls, or
\* ends it, keeps everyone placed.
LEMMA CallStepPlaced ==
  ASSUME Typed, NEW k \in KThreads, NEW l \in UserPcs \cup EndPcs,
         pc[k] \in UserPcs, Goto(k, l), UNCHANGED <<th, next, save>>
  PROVE  Placed'
BY DEF Typed, TypeIn, Placed, Goto, UserPcs, SyncPcs, BirthPcs, EndPcs

LEMMA NextPlaced ==
  ASSUME Typed, [Next]_vars
  PROVE  Placed'
<1> DEFINE Keep == UNCHANGED <<th, next, save>>
<1>0. /\ Placed
      /\ pc \in [KThreads -> AllPcs] /\ th \in [KThreads -> Threads \cup {NoThread}]
      /\ next \in [KThreads -> Threads \cup {NoThread}]
      /\ save \in [KThreads -> AllSaves]
  BY DEF Typed, TypeIn
<1>00. /\ {"user", "create_kt", "clone", "join_found", "join_missing", "join_wait"} \subseteq UserPcs
       /\ {"gone", "crashed", "undef"} \subseteq EndPcs
  BY DEF UserPcs, EndPcs
<1>1. ASSUME NEW k \in KThreads, NEW kt \in Policies, MypthreadInit(k, kt)
      PROVE  Placed'
  BY <1>0, <1>1 DEF MypthreadInit, schedVars, Placed
<1>2. ASSUME NEW k \in KThreads, NEW t \in Threads, FirstCreate(k, t)
      PROVE  Placed'
  <2>1. /\ pc[k] = "user"
        /\ th' = [th EXCEPT ![k] = Main] /\ UNCHANGED <<next, save>>
        /\ Goto(k, "user") \/ Goto(k, "create_kt")
    BY <1>2 DEF FirstCreate, AfterCreate, Calling, At, schedVars
  <2> QED
    BY <1>0, <2>1, ConstantsAssumption DEF Placed, Goto, UserPcs, SyncPcs, BirthPcs
<1>3. ASSUME NEW k \in KThreads, NEW t \in Threads, Create(k, t)
      PROVE  Placed'
  <2>1. pc[k] = "user" /\ Keep /\ (Goto(k, "user") \/ Goto(k, "create_kt"))
    BY <1>3 DEF Create, AfterCreate, CallingStarted, Calling, At, schedVars
  <2> QED
    BY <1>00, <2>1, CallStepPlaced
<1>4. ASSUME NEW k \in KThreads, CreateKthread(k)
      PROVE  Placed'
  <2>1. pc[k] = "create_kt" /\ Keep /\ (Goto(k, "user") \/ Goto(k, "clone"))
    BY <1>4 DEF CreateKthread, At, schedVars
  <2> QED
    BY <1>00, <2>1, CallStepPlaced
<1>5. ASSUME NEW k \in KThreads, NEW n \in KThreads, Clone(k, n)
      PROVE  Placed'
  BY <1>0, <1>5 DEF Clone, At, schedVars, Placed, UserPcs, SyncPcs, BirthPcs
<1>6. ASSUME NEW k \in KThreads, CloneFailure(k)
      PROVE  Placed'
  <2>1. pc[k] = "clone" /\ Keep /\ Goto(k, "gone")
    BY <1>6 DEF CloneFailure, At, schedVars
  <2> QED
    BY <1>00, <2>1, CallStepPlaced
<1>7. ASSUME NEW k \in KThreads, ReadTail(k) \/ LinkNode(k) \/ MoveTail(k)
      PROVE  Placed'
  <2>1. /\ pc[k] \in BirthPcs /\ Keep
        /\ Goto(k, "kt_link") \/ Goto(k, "kt_tail") \/ Goto(k, "sched_check")
    BY <1>7 DEF ReadTail, LinkNode, MoveTail, At, schedVars, BirthPcs
  <2> QED
    BY <1>0, <2>1 DEF Placed, Goto, UserPcs, SyncPcs, BirthPcs
<1>8. ASSUME NEW k \in KThreads, SchedCheck(k)
      PROVE  Placed'
  <2>1. pc[k] = "sched_check" /\ UNCHANGED <<th, next>>
    BY <1>8 DEF SchedCheck, At
  <2>2. CASE mypthread_count = 0 /\ save[k] = "none"
    <3>1. Goto(k, "gone") /\ save' = [save EXCEPT ![k] = "none"]
      BY <1>8, <2>2 DEF SchedCheck
    <3> QED
      BY <1>0, <2>1, <3>1 DEF Placed, Goto, UserPcs, SyncPcs, BirthPcs
  <2>3. CASE mypthread_count = 0 /\ save[k] # "none"
    <3>1. Goto(k, "user") /\ save' = [save EXCEPT ![k] = "none"] /\ th[k] \in Threads
      BY <1>0, <1>8, <2>1, <2>3 DEF SchedCheck, Placed
    <3> QED
      BY <1>0, <2>1, <3>1 DEF Placed, Goto, UserPcs, SyncPcs, BirthPcs
  <2>4. CASE mypthread_count # 0
    <3>1. Goto(k, "sched_pick") /\ UNCHANGED save
      BY <1>8, <2>4 DEF SchedCheck
    <3> QED
      BY <1>0, <2>1, <3>1 DEF Placed, Goto, UserPcs, SyncPcs, BirthPcs
  <2> QED
    BY <2>2, <2>3, <2>4
<1>9. ASSUME NEW k \in KThreads, SchedPick(k)
      PROVE  Placed'
  <2>1. PICK i \in FirstActive(runq, state) : next' = [next EXCEPT ![k] = runq[i]]
    BY <1>9 DEF SchedPick
  <2>2. runq[i] \in Threads
    BY <2>1, FirstActiveIsActive DEF Typed, TypeIn
  <2>3. pc[k] = "sched_pick" /\ Goto(k, "set_th") /\ UNCHANGED <<th, save>>
    BY <1>9 DEF SchedPick, At
  <2> QED
    BY <1>0, <2>1, <2>2, <2>3 DEF Placed, Goto, UserPcs, SyncPcs, BirthPcs
<1>10. ASSUME NEW k \in KThreads, SetTh(k)
       PROVE  Placed'
  BY <1>0, <1>10 DEF SetTh, At, schedVars, Placed, Goto, UserPcs, SyncPcs, BirthPcs
<1>11. ASSUME NEW k \in KThreads, Switch(k)
       PROVE  Placed'
  <2>1. /\ pc[k] = "switch" /\ th' = th
        /\ save' = [save EXCEPT ![k] = "none"]
        /\ next' = [next EXCEPT ![k] = NoThread]
        /\ \E l \in {"user", "lock", "relock", "undef"} : Goto(k, l)
    <3>1. ctx' \in [Threads -> AllCtxs] /\ next[k] \in Threads
      BY <1>11, NextTyped DEF TypeIn, Placed, Typed, Switch, At, Next, LibraryStep
    <3>2. Landing(ctx'[next[k]]) \in {"user", "lock", "relock"} \/ ctx'[next[k]] = "uninit"
      BY <3>1 DEF Landing, AllCtxs, CoreCtxs
    <3> QED
      BY <1>11, <3>2, LabelsArePcs DEF Switch, At
  <2> QED
    BY <1>0, <2>1 DEF Placed, Goto, UserPcs, SyncPcs, BirthPcs
<1>12. ASSUME NEW k \in KThreads, Exit(k)
       PROVE  Placed'
  <2>1. pc[k] = "user" /\ UNCHANGED <<th, next>>
    BY <1>12 DEF Exit, CallingStarted, Calling, At
  <2>2. \/ Goto(k, "crashed") /\ Keep
        \/ Goto(k, "sched_check") /\ save' = [save EXCEPT ![k] = "none"]
    BY <1>12, <2>1 DEF Exit, EnterScheduler
  <2> QED
    BY <1>0, <2>1, <2>2 DEF Placed, Goto, UserPcs, SyncPcs, BirthPcs
<1>13. ASSUME NEW k \in KThreads, Yield(k)
       PROVE  Placed'
  <2>1. pc[k] = "user" /\ UNCHANGED <<th, next>>
    BY <1>13 DEF Yield, CallingStarted, Calling, At
  <2>2. \/ Goto(k, "crashed") /\ Keep
        \/ Goto(k, "sched_check") /\ save' = [save EXCEPT ![k] = "yielded"]
    BY <1>13, <2>1 DEF Yield, EnterScheduler
  <2> QED
    BY <1>0, <2>1, <2>2 DEF Placed, Goto, UserPcs, SyncPcs, BirthPcs
<1>14. ASSUME NEW k \in KThreads, Self(k)
       PROVE  Placed'
  <2>1. pc[k] = "user" /\ Keep /\ (Goto(k, "user") \/ Goto(k, "crashed"))
    BY <1>14 DEF Self, CallingStarted, Calling, At, schedVars
  <2> QED
    BY <1>00, <2>1, CallStepPlaced
<1>15. ASSUME NEW k \in KThreads, NEW t \in Threads, JoinLook(k, t)
       PROVE  Placed'
  <2>1. pc[k] = "user" /\ Keep /\ (Goto(k, "join_found") \/ Goto(k, "join_missing"))
    BY <1>15 DEF JoinLook, CallingStarted, Calling, At, schedVars
  <2> QED
    BY <1>00, <2>1, CallStepPlaced
<1>16. ASSUME NEW k \in KThreads, JoinFound(k) \/ JoinMissing(k)
       PROVE  Placed'
  <2>1. /\ pc[k] \in {"join_found", "join_missing"} /\ Keep
        /\ Goto(k, "user") \/ Goto(k, "join_wait") \/ Goto(k, "crashed")
    BY <1>16 DEF JoinFound, JoinMissing, JoinReturn, At, schedVars
  <2> QED
    BY <1>00, <2>1, CallStepPlaced
<1>17. ASSUME NEW k \in KThreads, JoinWait(k)
       PROVE  Placed'
  <2>1. pc[k] = "join_wait" /\ UNCHANGED <<th, next>>
    BY <1>17 DEF JoinWait, At
  <2>2. \/ Goto(k, "crashed") /\ Keep
        \/ Goto(k, "sched_check") /\ save' = [save EXCEPT ![k] = "joined"]
    BY <1>17, <2>1 DEF JoinWait, EnterScheduler
  <2> QED
    BY <1>0, <2>1, <2>2 DEF Placed, Goto, UserPcs, SyncPcs, BirthPcs
<1>18. CASE UNCHANGED vars
  BY <1>0, <1>18 DEF vars, schedVars, Placed
<1> QED
  BY <1>1, <1>2, <1>3, <1>4, <1>5, <1>6, <1>7, <1>8, <1>9, <1>10, <1>11, <1>12,
     <1>13, <1>14, <1>15, <1>16, <1>17, <1>18
     DEF Next, ClientCall, LibraryStep

\* Every variable keeps its type, for every client and every policy.
THEOREM TypeCorrect == Spec => []TypeOK
<1>1. TypeOK /\ Typed /\ [Next]_vars => (TypeOK /\ Typed)'
  <2> SUFFICES ASSUME TypeOK, Typed, [Next]_vars
               PROVE  TypeOK' /\ Typed'
    OBVIOUS
  <2>1. TypeIn(CoreStates, CoreCtxs, Pcs, CoreSaves)'
    BY NextTypeIn, CoreIsClosed, TypeOKIsCore DEF Typed
  <2>2. TypeOK'
    BY <2>1 DEF TypeOK, TypeIn, CoreStates, CoreCtxs, CoreSaves
  <2> QED
    BY <2>2, NextTyped, NextPlaced DEF Typed
<1> QED
  BY InitTyped, <1>1, PTL DEF Spec

----------------------------------------------------------------------------
(***************************************************************************)
(* OneCarrier is not inductive.  An enqueue may follow only an execution   *)
(* nobody shares, and a switch starts one on a stack nobody is about to    *)
(* save: Savers.  The scheduler returns to its caller only when the count  *)
(* is 0, and mypthread_create starts over only then: CountMatches and      *)
(* Leaked show that a thread that still runs, or has a context to save, is *)
(* counted.                                                                *)
(***************************************************************************)

Started == klist # <<>>

\* Before the first create only main runs, in client code.
Beginning ==
  ~Started =>
    /\ runq = <<>> /\ mypthread_count = 0
    /\ \A t \in Threads : state[t] = "unborn"
    /\ \A k \in KThreads : pc[k] = IF k = K0 THEN "user" ELSE "unborn"
    /\ th[K0] = Main

\* k's scheduler loop will save the context of t.
Saves(k, t) == pc[k] \in SchedPcs /\ save[k] # "none" /\ StackOwner(k) = t

Savers ==
  /\ \A k \in KThreads, t \in Threads : Saves(k, t) =>
       t \in Live /\ \A j \in KThreads : ~Executes(j, t)
  /\ \A j, k \in KThreads, t \in Threads : Saves(j, t) /\ Saves(k, t) => j = k

\* After an exit that died with the semaphore a live thread can never run.
Leaked ==
  Started /\ mypthread_sem = 0 =>
    \E t \in Live : ~Contains(runq, t) /\ \A k \in KThreads : ~Carries(k, t)

Safe == OneCarrier /\ Savers /\ CountMatches /\ Leaked /\ Beginning

IInv == Typed /\ Safe

LEMMA LiveFinite ==
  /\ IsFiniteSet(Live) /\ Cardinality(Live) \in Nat
  /\ Cardinality(Live) = 0 <=> Live = {}
  /\ \A x : Live = {x} => Cardinality(Live) = 1
  /\ Cardinality(Live) = 1 => \E x : Live = {x}
<1>1. IsFiniteSet(Live)
  BY ConstantsAssumption, FS_Subset DEF Live
<1> QED
  BY <1>1, FS_CardinalityType, FS_EmptySet, FS_Singleton

\* While a kernel thread executes a thread, the count is 0 only before the
\* library is started.
LEMMA ExecutingIsCounted ==
  ASSUME IInv, Started, NEW k \in KThreads, pc[k] \in UserPcs
  PROVE  mypthread_count > 0 /\ th[k] \in Live
<1>1. th[k] \in Threads /\ Carries(k, th[k])
  BY DEF IInv, Typed, Placed, Carries, Executes
<1>2. th[k] \in Live
  BY <1>1 DEF IInv, Safe, OneCarrier, Started
<1>3. mypthread_count \in Nat /\ mypthread_sem \in {0, 1}
  BY DEF IInv, Typed, TypeIn
<1>4. mypthread_count + (1 - mypthread_sem) = Cardinality(Live)
  BY DEF IInv, Safe, CountMatches, Started
<1>5. CASE mypthread_sem = 1
  BY <1>2, <1>3, <1>4, <1>5, LiveFinite
<1>6. CASE mypthread_sem = 0
  <2>1. PICK t \in Live : ~Carries(k, t)
    BY <1>6 DEF IInv, Safe, Leaked
  <2>2. t # th[k]
    BY <1>1, <2>1
  <2>3. Cardinality(Live) # 1 /\ Cardinality(Live) # 0
    BY <1>2, <2>1, <2>2, LiveFinite
  <2> QED
    BY <1>2, <1>3, <1>4, <1>6, <2>3, LiveFinite
<1> QED
  BY <1>2, <1>3, <1>5, <1>6

LEMMA SavingIsCounted ==
  ASSUME IInv, Started, mypthread_sem = 1,
         NEW k \in KThreads, NEW t \in Threads, Saves(k, t)
  PROVE  mypthread_count > 0
<1>1. t \in Live
  BY DEF IInv, Safe, Savers
<1>2. mypthread_count \in Nat /\ mypthread_count = Cardinality(Live)
  BY LiveFinite DEF IInv, Typed, TypeIn, Safe, CountMatches, Started
<1> QED
  BY <1>1, <1>2, LiveFinite

\* No kernel thread takes up a thread that it did not carry.
Shrinks ==
  \A k \in KThreads, t \in Threads : Carries(k, t)' => Carries(k, t)

LEMMA ShrinkingIsSafe ==
  ASSUME IInv, Started, Started', Shrinks, Savers', Live' = Live,
         UNCHANGED <<runq, mypthread_count, mypthread_sem>>
  PROVE  Safe'
<1>1. OneCarrier'
  <2>1. \A k1, k2 \in KThreads, t \in Threads :
          Carries(k1, t)' /\ Carries(k2, t)' => k1 = k2
    BY DEF IInv, Safe, OneCarrier, Shrinks
  <2>2. \A t \in Threads : Contains(runq, t)' =>
          t \in Live' /\ \A k \in KThreads : ~Carries(k, t)'
    BY DEF IInv, Safe, OneCarrier, Shrinks, Contains
  <2>3. \A k \in KThreads, t \in Threads : Carries(k, t)' => t \in Live'
    BY DEF IInv, Safe, OneCarrier, Shrinks, Started
  <2>4. \A i, j \in DOMAIN runq' : runq'[i] = runq'[j] => i = j
    BY DEF IInv, Safe, OneCarrier
  <2> QED
    BY <2>1, <2>2, <2>3, <2>4 DEF OneCarrier
<1>2. CountMatches'
  BY DEF IInv, Safe, CountMatches, Started
<1>3. Leaked'
  <2>1. SUFFICES ASSUME mypthread_sem = 0
                 PROVE  Leaked'
    BY DEF Leaked
  <2>2. PICK t \in Live : ~Contains(runq, t) /\ \A k \in KThreads : ~Carries(k, t)
    BY <2>1 DEF IInv, Safe, Leaked
  <2>3. t \in Threads /\ t \in Live'
    BY DEF Live
  <2>4. ~Contains(runq, t)' /\ \A k \in KThreads : ~Carries(k, t)'
    BY <2>2, <2>3 DEF Shrinks, Contains
  <2> QED
    BY <2>3, <2>4 DEF Leaked
<1> QED
  BY <1>1, <1>2, <1>3 DEF Safe, Beginning, Started

LEMMA StartedBy ==
  ASSUME IInv, NEW k \in KThreads,
         pc[k] \notin {"user", "unborn"} \/ mypthread_count > 0
  PROVE  Started
BY ConstantsAssumption DEF IInv, Typed, TypeIn, Safe, Beginning

\* A step of kernel thread k that concerns only its own place.
LEMMA AsideIsSafe ==
  ASSUME IInv, Started, Started', NEW k \in KThreads,
         UNCHANGED <<state, runq, mypthread_count, mypthread_sem>>,
         \A j \in KThreads \ {k} :
           /\ pc'[j] = pc[j] \/ pc'[j] \in BirthPcs
           /\ th'[j] = th[j] /\ next'[j] = next[j]
           /\ save'[j] = save[j] /\ last'[j] = last[j],
         \A t \in Threads :
           /\ Carries(k, t)' => Carries(k, t)
           /\ Executes(k, t)' => Executes(k, t)
           /\ Saves(k, t)' => Saves(k, t)
  PROVE  Safe'
<1>1. ASSUME NEW j \in KThreads \ {k}, NEW t \in Threads
      PROVE  /\ Carries(j, t)' => Carries(j, t)
             /\ Executes(j, t)' => Executes(j, t)
             /\ Saves(j, t)' => Saves(j, t)
  <2>1. CASE pc'[j] = pc[j]
    BY <2>1 DEF Carries, Executes, Chose, Saves, StackOwner
  <2>2. CASE pc'[j] \in BirthPcs
    BY <2>2 DEF Carries, Executes, Chose, Saves, BirthPcs, UserPcs, SyncPcs, SchedPcs
  <2> QED
    BY <2>1, <2>2
<1>2. Shrinks
  BY <1>1 DEF Shrinks
<1>3. Live' = Live
  BY DEF Live
<1>4. Savers'
  BY <1>1, <1>3 DEF IInv, Safe, Savers
<1> QED
  BY <1>2, <1>3, <1>4, ShrinkingIsSafe

\* The same where k stays in the calls of its thread, or ends.
LEMMA CallStepIsSafe ==
  ASSUME IInv, Started, NEW k \in KThreads, NEW l \in UserPcs \cup EndPcs,
         pc[k] \in UserPcs, Goto(k, l),
         UNCHANGED <<state, runq, klist, mypthread_count, mypthread_sem, th,
                     save, last, next>>
  PROVE  Safe'
<1>1. pc'[k] = l /\ \A j \in KThreads \ {k} : pc'[j] = pc[j]
  BY DEF Goto, IInv, Typed, TypeIn
<1>2. \A t \in Threads :
        /\ Carries(k, t)' => Carries(k, t)
        /\ Executes(k, t)' => Executes(k, t)
        /\ Saves(k, t)' => Saves(k, t)
  BY <1>1 DEF Carries, Executes, Chose, Saves, UserPcs, SyncPcs, EndPcs, SchedPcs
<1> QED
  BY <1>1, <1>2, AsideIsSafe DEF Started

\* Nothing happens to who is where.
LEMMA NothingIsSafe ==
  ASSUME IInv,
         UNCHANGED <<state, runq, klist, mypthread_count, mypthread_sem, pc, th,
                     save, last, next>>
  PROVE  Safe'
BY DEF IInv, Safe, OneCarrier, Savers, CountMatches, Leaked, Beginning, Started,
       Carries, Executes, Chose, Saves, StackOwner, Live, Contains

----------------------------------------------------------------------------
LEMMA InitSafe == Init => Safe
<1> SUFFICES ASSUME Init
             PROVE  Safe
  OBVIOUS
<1>1. \A k \in KThreads, t \in Threads :
        /\ Carries(k, t) => k = K0 /\ t = Main
        /\ ~Saves(k, t)
  BY DEF Init, Carries, Executes, Chose, Saves, UserPcs, SyncPcs, SchedPcs
<1>2. klist = <<>> /\ runq = <<>> /\ \A t \in Threads : ~Contains(runq, t)
  BY DEF Init, Contains
<1> QED
  BY <1>1, <1>2, ConstantsAssumption
     DEF Init, Safe, OneCarrier, Savers, CountMatches, Leaked, Beginning, Started

\* A thread that executes is carried by nobody else, is not queued, and no
\* scheduler is about to save it.
LEMMA ExecutingAlone ==
  ASSUME IInv, Started, NEW k \in KThreads, pc[k] \in UserPcs
  PROVE  /\ th[k] \in Threads /\ th[k] \in Live
         /\ Executes(k, th[k]) /\ Carries(k, th[k])
         /\ \A j \in KThreads : Carries(j, th[k]) => j = k
         /\ ~Contains(runq, th[k])
         /\ \A j \in KThreads : ~Saves(j, th[k])
<1>1. th[k] \in Threads
  BY DEF IInv, Typed, Placed
<1>2. Executes(k, th[k]) /\ Carries(k, th[k])
  BY DEF Executes, Carries
<1>3. th[k] \in Live
  BY ExecutingIsCounted
<1> QED
  BY <1>1, <1>2, <1>3 DEF IInv, Safe, OneCarrier, Savers

\* Yield, and a join that waits: the thread is queued, then saved.
LEMMA SuspendIsSafe ==
  ASSUME IInv, Started, NEW k \in KThreads, pc[k] \in UserPcs,
         mypthread_sem = 1,
         NEW s \in {"active", "waiting"}, state' = [state EXCEPT ![th[k]] = s],
         NEW l \in {"yielded", "joined"}, EnterScheduler(k, l),
         Enqueue(th[k]),
         UNCHANGED <<klist, mypthread_count, mypthread_sem, th, last, next>>
  PROVE  Safe'
<1> DEFINE t == th[k]
<1>0. /\ t \in Threads /\ t \in Live /\ Carries(k, t)
      /\ \A j \in KThreads : Carries(j, t) => j = k
      /\ ~Contains(runq, t)
      /\ \A j \in KThreads : ~Saves(j, t)
  BY ExecutingAlone
<1> HIDE DEF t
<1>1. /\ pc'[k] = "sched_check" /\ save'[k] # "none"
      /\ \A j \in KThreads \ {k} : pc'[j] = pc[j] /\ save'[j] = save[j]
  BY DEF IInv, Typed, TypeIn, EnterScheduler, Goto
<1>2. Live' = Live
  BY <1>0 DEF Live, IInv, Typed, TypeIn, t
<1>3. \A j \in KThreads, u \in Threads :
        /\ Carries(j, u)' => Carries(j, u) /\ j # k
        /\ Executes(j, u)' => Executes(j, u) /\ j # k
        /\ Saves(j, u)' => Saves(j, u) \/ (j = k /\ u = t)
  BY <1>1 DEF Carries, Executes, Chose, Saves, StackOwner, UserPcs, SyncPcs, t
<1>4. /\ \A u : Contains(runq', u) => Contains(runq, u) \/ u = t
      /\ Distinct(runq')
  <2>1. Distinct(runq)
    BY DEF Distinct, IInv, Safe, OneCarrier
  <2>2. runq \in Seq(Threads) /\ tail_ok \in BOOLEAN /\ runq' = LlAdd(runq, tail_ok, t)
    BY DEF IInv, Typed, TypeIn, Enqueue, t
  <2> QED
    BY <1>0, <2>1, <2>2, LlAddKeeps
<1>5. OneCarrier'
  <2>1. \A k1, k2 \in KThreads, u \in Threads :
          Carries(k1, u)' /\ Carries(k2, u)' => k1 = k2
    BY <1>3 DEF IInv, Safe, OneCarrier
  <2>2. \A u \in Threads : Contains(runq, u)' =>
          u \in Live' /\ \A j \in KThreads : ~Carries(j, u)'
    BY <1>0, <1>2, <1>3, <1>4 DEF IInv, Safe, OneCarrier, Contains
  <2>3. \A j \in KThreads, u \in Threads : Carries(j, u)' => u \in Live'
    BY <1>2, <1>3 DEF IInv, Safe, OneCarrier, Started
  <2> QED
    BY <1>4, <2>1, <2>2, <2>3 DEF OneCarrier, Distinct
<1>6. Savers'
  <2>1. \A j \in KThreads, u \in Threads : Saves(j, u)' =>
          u \in Live' /\ \A i \in KThreads : ~Executes(i, u)'
    BY <1>0, <1>2, <1>3 DEF IInv, Safe, Savers, Carries
  <2>2. \A i, j \in KThreads, u \in Threads : Saves(i, u)' /\ Saves(j, u)' => i = j
    BY <1>0, <1>3 DEF IInv, Safe, Savers
  <2> QED
    BY <2>1, <2>2 DEF Savers
<1> QED
  BY <1>2, <1>5, <1>6 DEF Safe, IInv, CountMatches, Leaked, Beginning, Started

LEMMA YieldIsSafe ==
  ASSUME IInv, NEW k \in KThreads, Yield(k)
  PROVE  Safe'
<1>1. Started /\ pc[k] = "user" /\ pc[k] \in UserPcs
  BY StartedBy DEF Yield, CallingStarted, Calling, At, UserPcs
<1>2. CASE Registered(k)
  BY <1>1, <1>2, SuspendIsSafe DEF Yield, listVars
<1>3. CASE ~Registered(k)
  BY <1>1, <1>3, CallStepIsSafe DEF Yield, EndPcs, listVars, queueVars
<1> QED
  BY <1>2, <1>3

LEMMA JoinWaitIsSafe ==
  ASSUME IInv, NEW k \in KThreads, JoinWait(k)
  PROVE  Safe'
<1>1. Started /\ pc[k] = "join_wait" /\ pc[k] \in UserPcs
  BY StartedBy DEF JoinWait, At, UserPcs
<1>2. CASE cur[k]
  BY <1>1, <1>2, SuspendIsSafe DEF JoinWait, listVars
<1>3. CASE ~cur[k]
  BY <1>1, <1>3, CallStepIsSafe DEF JoinWait, EndPcs, listVars, queueVars
<1> QED
  BY <1>2, <1>3

LEMMA ExitIsSafe ==
  ASSUME IInv, NEW k \in KThreads, Exit(k)
  PROVE  Safe'
<1> DEFINE t == th[k]
<1>1. Started /\ pc[k] = "user" /\ pc[k] \in UserPcs /\ mypthread_sem = 1
  BY StartedBy DEF Exit, CallingStarted, Calling, At, UserPcs
<1>2. /\ t \in Threads /\ t \in Live /\ Carries(k, t)
      /\ \A j \in KThreads : Carries(j, t) => j = k
      /\ ~Contains(runq, t)
      /\ \A j \in KThreads : ~Saves(j, t)
  BY <1>1, ExecutingAlone
<1>3. /\ UNCHANGED <<runq, klist, th, last, next>> /\ mypthread_count' = mypthread_count - 1
      /\ mypthread_count \in Nat /\ mypthread_count = Cardinality(Live)
  BY <1>1, LiveFinite
     DEF Exit, queueVars, listVars, IInv, Typed, TypeIn, Safe, CountMatches, Started
<1> HIDE DEF t
<1>4. CASE Registered(k)
  <2>1. /\ state' = UpdateWaiting(runq, [state EXCEPT ![t] = "dead"], dep, t)
        /\ EnterScheduler(k, "none") /\ mypthread_sem' = 1
    BY <1>1, <1>4 DEF Exit, t
  <2>2. /\ pc'[k] = "sched_check" /\ save'[k] = "none"
        /\ \A j \in KThreads \ {k} : pc'[j] = pc[j] /\ save'[j] = save[j]
    BY <2>1 DEF EnterScheduler, Goto, IInv, Typed, TypeIn
  <2>3. Live' = Live \ {t}
    <3>1. \A u \in Threads : state'[u] =
            IF Contains(runq, u) /\ dep[u] = t THEN "active"
            ELSE IF u = t THEN "dead" ELSE state[u]
      BY <1>2, <2>1 DEF UpdateWaiting, IInv, Typed, TypeIn
    <3>2. \A u \in Threads : Contains(runq, u) => u \in Live
      BY DEF IInv, Safe, OneCarrier
    <3> QED
      BY <1>2, <3>1, <3>2 DEF Live
  <2>4. \A j \in KThreads, u \in Threads :
          /\ Carries(j, u)' => Carries(j, u) /\ j # k
          /\ Executes(j, u)' => Executes(j, u) /\ j # k
          /\ Saves(j, u)' => Saves(j, u)
    BY <1>3, <2>2 DEF Carries, Executes, Chose, Saves, StackOwner, UserPcs, SyncPcs
  <2>5. OneCarrier'
    BY <1>1, <1>2, <1>3, <2>3, <2>4 DEF IInv, Safe, OneCarrier, Started, Contains
  <2>6. Savers'
    BY <1>2, <2>3, <2>4 DEF IInv, Safe, Savers
  <2>7. CountMatches'
    <3>1. Cardinality(Live') = Cardinality(Live) - 1
      BY <1>2, <2>3, LiveFinite, FS_RemoveElement
    <3> QED
      BY <1>3, <2>1, <3>1 DEF CountMatches
  <2> QED
    BY <1>1, <1>3, <2>1, <2>5, <2>6, <2>7 DEF Safe, Leaked, Beginning, Started
<1>5. CASE ~Registered(k)
  <2>1. /\ UNCHANGED <<state, save>> /\ Goto(k, "crashed") /\ mypthread_sem' = 0
    BY <1>5 DEF Exit
  <2>2. pc'[k] = "crashed" /\ \A j \in KThreads \ {k} : pc'[j] = pc[j]
    BY <2>1 DEF Goto, IInv, Typed, TypeIn
  <2>3. Live' = Live
    BY <2>1 DEF Live
  <2>4. \A j \in KThreads, u \in Threads :
          /\ Carries(j, u)' => Carries(j, u) /\ j # k
          /\ Executes(j, u)' => Executes(j, u)
          /\ Saves(j, u)' => Saves(j, u)
    BY <1>3, <2>1, <2>2
       DEF Carries, Executes, Chose, Saves, StackOwner, UserPcs, SyncPcs, SchedPcs
  <2>5. OneCarrier'
    BY <1>1, <1>3, <2>3, <2>4 DEF IInv, Safe, OneCarrier, Started, Contains
  <2>6. Savers'
    BY <2>3, <2>4 DEF IInv, Safe, Savers
  <2>7. CountMatches'
    BY <1>3, <2>1, <2>3 DEF CountMatches
  <2>8. PICK u \in Live : u = t
    BY <1>2
  <2>9. ~Contains(runq, u)' /\ \A j \in KThreads : ~Carries(j, u)'
    BY <1>2, <1>3, <2>4, <2>8 DEF Contains
  <2>10. Leaked'
    BY <2>3, <2>8, <2>9 DEF Leaked
  <2> QED
    BY <1>1, <1>3, <2>5, <2>6, <2>7, <2>10 DEF Safe, Beginning, Started
<1> QED
  BY <1>4, <1>5

LEMMA SchedPickIsSafe ==
  ASSUME IInv, NEW k \in KThreads, SchedPick(k)
  PROVE  Safe'
<1>1. Started /\ pc[k] = "sched_pick"
  BY StartedBy DEF SchedPick, At
<1>2. PICK i \in FirstActive(runq, state) :
        /\ next' = [next EXCEPT ![k] = runq[i]]
        /\ runq' = Unlink(runq, i)
  BY DEF SchedPick
<1> DEFINE t == runq[i]
<1>3. /\ runq \in Seq(Threads) /\ Distinct(runq)
      /\ i \in DOMAIN runq /\ t \in Threads /\ Contains(runq, t)
  BY FirstActiveIsActive, <1>2
     DEF IInv, Typed, TypeIn, Safe, OneCarrier, Distinct
<1>4. t \in Live /\ \A j \in KThreads : ~Carries(j, t)
  BY <1>3 DEF IInv, Safe, OneCarrier
<1>5. /\ \A u : Contains(runq', u) => Contains(runq, u)
      /\ Distinct(runq') /\ ~Contains(runq', t)
  BY <1>2, <1>3, UnlinkKeeps
<1> HIDE DEF t
<1>6. /\ UNCHANGED <<state, klist, th, save, last, mypthread_count, mypthread_sem>>
      /\ mypthread_sem = 1 /\ Goto(k, "set_th")
  BY DEF SchedPick, threadVars, listVars
<1>7. /\ pc'[k] = "set_th" /\ next'[k] = t
      /\ \A j \in KThreads \ {k} : pc'[j] = pc[j] /\ next'[j] = next[j]
  BY <1>2, <1>6 DEF Goto, IInv, Typed, TypeIn, t
<1>8. Live' = Live
  BY <1>6 DEF Live
<1>9. \A j \in KThreads, u \in Threads :
        /\ Carries(j, u)' => Carries(j, u) \/ (j = k /\ u = t)
        /\ Executes(j, u)' => Executes(j, u)
        /\ Saves(j, u)' => Saves(j, u)
  BY <1>1, <1>6, <1>7 DEF Carries, Executes, Chose, Saves, StackOwner, UserPcs,
                          SyncPcs, SchedPcs
<1>10. OneCarrier'
  <2>1. \A k1, k2 \in KThreads, u \in Threads :
          Carries(k1, u)' /\ Carries(k2, u)' => k1 = k2
    BY <1>4, <1>9 DEF IInv, Safe, OneCarrier
  <2>2. \A u \in Threads : Contains(runq, u)' =>
          u \in Live' /\ \A j \in KThreads : ~Carries(j, u)'
    BY <1>5, <1>8, <1>9 DEF IInv, Safe, OneCarrier, Contains
  <2>3. \A j \in KThreads, u \in Threads : Carries(j, u)' => u \in Live'
    BY <1>1, <1>4, <1>8, <1>9 DEF IInv, Safe, OneCarrier, Started
  <2> QED
    BY <1>5, <2>1, <2>2, <2>3 DEF OneCarrier, Distinct
<1>11. Savers'
  BY <1>8, <1>9 DEF IInv, Safe, Savers
<1> QED
  BY <1>1, <1>6, <1>8, <1>10, <1>11
     DEF Safe, IInv, CountMatches, Leaked, Beginning, Started

LEMMA SwitchIsSafe ==
  ASSUME IInv, NEW k \in KThreads, Switch(k)
  PROVE  Safe'
<1> DEFINE t == next[k]
<1>1. /\ Started /\ pc[k] = "switch" /\ t \in Threads /\ th[k] = t
  BY StartedBy DEF Switch, At, IInv, Typed, Placed
<1>2. /\ UNCHANGED <<state, runq, klist, th, mypthread_count, mypthread_sem>>
      /\ save' = [save EXCEPT ![k] = "none"]
      /\ last' = [last EXCEPT ![k] = NoThread]
      /\ next' = [next EXCEPT ![k] = NoThread]
      /\ \E l : Goto(k, l)
  BY DEF Switch, queueVars, listVars
<1>3. PICK l \in {"undef", "user", "lock", "relock"} :
        Goto(k, l) /\ (l # "undef" => ~StackBusy(k, t))
  <2>1. ctx'[t] \in AllCtxs
    BY NextTyped, <1>1 DEF IInv, Typed, TypeIn, Next, LibraryStep
  <2> QED
    BY <2>1 DEF Switch, Landing, AllCtxs, CoreCtxs
<1> HIDE DEF t
<1>4. /\ pc'[k] = l /\ save'[k] = "none"
      /\ \A j \in KThreads \ {k} :
           /\ pc'[j] = pc[j] /\ save'[j] = save[j]
           /\ last'[j] = last[j] /\ next'[j] = next[j]
  BY <1>2, <1>3 DEF Goto, IInv, Typed, TypeIn
<1>5. \A j \in KThreads, u \in Threads :
        /\ Carries(j, u)' => Carries(j, u)
        /\ Executes(j, u)' => Executes(j, u) \/ (j = k /\ u = t /\ ~StackBusy(k, t))
        /\ Saves(j, u)' => Saves(j, u) /\ j # k
  <2>1. next[k] = t
    BY DEF t
  <2>2. ASSUME NEW j \in KThreads \ {k}, NEW u \in Threads
        PROVE  /\ Carries(j, u)' => Carries(j, u)
               /\ Executes(j, u)' => Executes(j, u)
               /\ Saves(j, u)' => Saves(j, u)
    BY <1>2, <1>4 DEF Carries, Executes, Chose, Saves, StackOwner
  <2>3. ASSUME NEW u \in Threads
        PROVE  /\ Carries(k, u)' => Carries(k, u)
               /\ Executes(k, u)' => u = t /\ ~StackBusy(k, t)
               /\ ~Saves(k, u)'
    BY <1>1, <1>2, <1>3, <1>4, <2>1
       DEF Carries, Executes, Chose, Saves, UserPcs, SyncPcs
  <2> QED
    BY <2>2, <2>3
<1>6. Live' = Live
  BY <1>2 DEF Live
<1>7. Savers'
  <2>1. \A j \in KThreads \ {k} : Saves(j, t) => StackBusy(k, t)
    BY DEF Saves, StackBusy
  <2> QED
    BY <1>5, <1>6, <2>1 DEF IInv, Safe, Savers
<1>8. Started' /\ Shrinks
  BY <1>1, <1>2, <1>5 DEF Started, Shrinks
<1> QED
  BY <1>1, <1>2, <1>6, <1>7, <1>8, ShrinkingIsSafe

\* The scheduler gives up only on an exit or in a new kernel thread: whoever
\* has a context to save is counted.
LEMMA SchedCheckIsSafe ==
  ASSUME IInv, NEW k \in KThreads, SchedCheck(k)
  PROVE  Safe'
<1>1. /\ Started /\ pc[k] = "sched_check" /\ mypthread_sem = 1
      /\ UNCHANGED <<state, runq, klist, mypthread_count, mypthread_sem, th, next>>
  BY StartedBy DEF SchedCheck, At, threadVars, queueVars, listVars
<1>2. mypthread_count = 0 => save[k] = "none"
  <2>1. SUFFICES ASSUME mypthread_count = 0, save[k] # "none"
                 PROVE  FALSE
    OBVIOUS
  <2>2. th[k] \in Threads /\ Saves(k, th[k])
    BY <1>1, <2>1 DEF IInv, Typed, Placed, Saves, StackOwner, SchedPcs
  <2> QED
    BY <1>1, <2>1, <2>2, SavingIsCounted
<1>3. \E l \in {"gone", "sched_pick"} :
        /\ Goto(k, l)
        /\ l = "sched_pick" => last' = [last EXCEPT ![k] = th[k]] /\ save' = save
        /\ l = "gone" => save' = [save EXCEPT ![k] = "none"] /\ last' = last
  BY <1>2 DEF SchedCheck
<1>4. /\ \A j \in KThreads \ {k} : pc'[j] = pc[j] /\ save'[j] = save[j] /\ last'[j] = last[j]
      /\ \/ pc'[k] = "gone"
         \/ pc'[k] = "sched_pick" /\ last'[k] = th[k] /\ save'[k] = save[k]
  BY <1>3 DEF Goto, IInv, Typed, TypeIn
<1>5. \A t \in Threads :
        /\ Carries(k, t)' => Carries(k, t)
        /\ Executes(k, t)' => Executes(k, t)
        /\ Saves(k, t)' => Saves(k, t)
  BY <1>1, <1>4 DEF Carries, Executes, Chose, Saves, StackOwner, UserPcs, SyncPcs, SchedPcs
<1> QED
  BY <1>1, <1>4, <1>5, AsideIsSafe DEF Started

LEMMA SetThIsSafe ==
  ASSUME IInv, NEW k \in KThreads, SetTh(k)
  PROVE  Safe'
<1>1. /\ Started /\ pc[k] = "set_th"
      /\ UNCHANGED <<state, runq, klist, mypthread_count, mypthread_sem, next, save, last>>
      /\ Goto(k, "switch") /\ th' = [th EXCEPT ![k] = next[k]]
  BY StartedBy DEF SetTh, At, threadVars, queueVars, listVars, schedVars
<1>2. /\ pc'[k] = "switch"
      /\ \A j \in KThreads \ {k} : pc'[j] = pc[j] /\ th'[j] = th[j]
  BY <1>1 DEF Goto, IInv, Typed, TypeIn
<1>3. \A t \in Threads :
        /\ Carries(k, t)' => Carries(k, t)
        /\ Executes(k, t)' => Executes(k, t)
        /\ Saves(k, t)' => Saves(k, t)
  BY <1>1, <1>2 DEF Carries, Executes, Chose, Saves, StackOwner, UserPcs, SyncPcs, SchedPcs
<1> QED
  BY <1>1, <1>2, <1>3, AsideIsSafe DEF Started

\* A new kernel thread registers itself.
LEMMA BirthIsSafe ==
  ASSUME IInv, NEW k \in KThreads, ReadTail(k) \/ LinkNode(k) \/ MoveTail(k)
  PROVE  Safe'
<1>1. /\ Started /\ pc[k] \in BirthPcs /\ save[k] = "none"
      /\ UNCHANGED <<state, runq, mypthread_count, mypthread_sem, th, next, save, last>>
  BY StartedBy
     DEF ReadTail, LinkNode, MoveTail, At, BirthPcs, threadVars, queueVars, schedVars,
         IInv, Typed, Placed
<1>2. PICK l \in {"kt_link", "kt_tail", "sched_check"} : Goto(k, l)
  BY DEF ReadTail, LinkNode, MoveTail
<1>3. pc'[k] = l /\ \A j \in KThreads \ {k} : pc'[j] = pc[j]
  BY <1>2 DEF Goto, IInv, Typed, TypeIn
<1>4. Started'
  <2>1. klist \in Seq(KThreads)
    BY DEF IInv, Typed, TypeIn
  <2> QED
    BY <1>1, <2>1, KtLinkKeeps DEF ReadTail, LinkNode, MoveTail, Started, listVars
<1>5. \A t \in Threads : ~Carries(k, t)' /\ ~Executes(k, t)' /\ ~Saves(k, t)'
  BY <1>1, <1>3 DEF Carries, Executes, Chose, Saves, UserPcs, SyncPcs, SchedPcs
<1> QED
  BY <1>1, <1>3, <1>4, <1>5, AsideIsSafe

LEMMA CloneIsSafe ==
  ASSUME IInv, NEW k \in KThreads, NEW n \in KThreads, Clone(k, n)
  PROVE  Safe'
<1>1. /\ Started /\ pc[k] = "clone" /\ pc[n] = "unborn"
      /\ UNCHANGED <<state, runq, klist, mypthread_count, mypthread_sem, th, next, save, last>>
  BY StartedBy DEF Clone, At, threadVars, queueVars, listVars, schedVars
<1>2. /\ pc'[k] = "user"
      /\ \A j \in KThreads \ {k} : pc'[j] = pc[j] \/ pc'[j] \in BirthPcs
  BY <1>1 DEF Clone, BirthPcs, IInv, Typed, TypeIn
<1>3. \A t \in Threads :
        /\ Carries(k, t)' => Carries(k, t)
        /\ Executes(k, t)' => Executes(k, t)
        /\ Saves(k, t)' => Saves(k, t)
  BY <1>1, <1>2 DEF Carries, Executes, Chose, Saves, UserPcs, SyncPcs, SchedPcs
<1> QED
  BY <1>1, <1>2, <1>3, AsideIsSafe DEF Started

\* The calls that keep the thread on its kernel thread.
LEMMA CallsAreSafe ==
  ASSUME IInv, NEW k \in KThreads,
         \/ CreateKthread(k) \/ CloneFailure(k) \/ Self(k)
         \/ \E t \in Threads : JoinLook(k, t)
         \/ JoinFound(k) \/ JoinMissing(k)
  PROVE  Safe'
<1>1. /\ Started
      /\ pc[k] \in {"user", "create_kt", "clone", "join_found", "join_missing"}
  BY StartedBy
     DEF CreateKthread, CloneFailure, Self, JoinLook, JoinFound, JoinMissing,
         CallingStarted, Calling, At
<1>2. /\ UNCHANGED <<state, runq, klist, mypthread_count, mypthread_sem, th, next, save, last>>
      /\ \E l \in {"user", "clone", "gone", "crashed", "join_found", "join_missing",
                   "join_wait"} : Goto(k, l)
  BY DEF CreateKthread, CloneFailure, Self, JoinLook, JoinFound, JoinMissing, JoinReturn,
         threadVars, queueVars, listVars, schedVars
<1> QED
  BY <1>1, <1>2, CallStepIsSafe DEF UserPcs, EndPcs

\* A second create.
LEMMA CreateIsSafe ==
  ASSUME IInv, NEW k \in KThreads, NEW t \in Threads, Create(k, t)
  PROVE  Safe'
<1>1. /\ Started /\ pc[k] = "user" /\ mypthread_sem = 1 /\ t \notin Live
      /\ state' = [state EXCEPT ![t] = "active"]
      /\ mypthread_count' = mypthread_count + 1
      /\ runq' = LlAdd(runq, tail_ok, t)
      /\ UNCHANGED <<klist, mypthread_sem, th, next, save, last>>
      /\ \E l \in {"user", "create_kt"} : Goto(k, l)
  BY StartedBy
     DEF Create, CallingStarted, Calling, At, MakeThread, Enqueue, AfterCreate, Live,
         listVars, schedVars
<1>2. /\ pc'[k] \in {"user", "create_kt"}
      /\ \A j \in KThreads \ {k} : pc'[j] = pc[j]
  BY <1>1 DEF Goto, IInv, Typed, TypeIn
<1>3. Live' = Live \cup {t}
  BY <1>1 DEF Live, IInv, Typed, TypeIn
<1>4. \A j \in KThreads, u \in Threads :
        /\ Carries(j, u)' => Carries(j, u)
        /\ Executes(j, u)' => Executes(j, u)
        /\ Saves(j, u)' => Saves(j, u)
  BY <1>1, <1>2 DEF Carries, Executes, Chose, Saves, StackOwner, UserPcs, SyncPcs, SchedPcs
<1>5. /\ ~Contains(runq, t)
      /\ \A j \in KThreads : ~Carries(j, t) /\ ~Saves(j, t)
  BY <1>1 DEF IInv, Safe, OneCarrier, Savers, Started
<1>6. /\ \A u : Contains(runq', u) => Contains(runq, u) \/ u = t
      /\ Distinct(runq')
  <2>1. Distinct(runq)
    BY DEF Distinct, IInv, Safe, OneCarrier
  <2>2. runq \in Seq(Threads) /\ tail_ok \in BOOLEAN
    BY DEF IInv, Typed, TypeIn
  <2> QED
    BY <1>1, <1>5, <2>1, <2>2, LlAddKeeps
<1>7. OneCarrier'
  <2>1. \A k1, k2 \in KThreads, u \in Threads :
          Carries(k1, u)' /\ Carries(k2, u)' => k1 = k2
    BY <1>4 DEF IInv, Safe, OneCarrier
  <2>2. \A u \in Threads : Contains(runq, u)' =>
          u \in Live' /\ \A j \in KThreads : ~Carries(j, u)'
    BY <1>3, <1>4, <1>5, <1>6 DEF IInv, Safe, OneCarrier, Contains
  <2>3. \A j \in KThreads, u \in Threads : Carries(j, u)' => u \in Live'
    BY <1>1, <1>3, <1>4 DEF IInv, Safe, OneCarrier, Started
  <2> QED
    BY <1>6, <2>1, <2>2, <2>3 DEF OneCarrier, Distinct
<1>8. Savers'
  BY <1>3, <1>4 DEF IInv, Safe, Savers
<1>9. CountMatches'
  <2>1. Cardinality(Live') = Cardinality(Live) + 1
    BY <1>1, <1>3, LiveFinite, FS_AddElement
  <2>2. mypthread_count = Cardinality(Live) /\ mypthread_count \in Nat
    BY <1>1, LiveFinite DEF IInv, Typed, TypeIn, Safe, CountMatches, Started
  <2> QED
    BY <1>1, <2>1, <2>2 DEF CountMatches
<1> QED
  BY <1>1, <1>7, <1>8, <1>9 DEF Safe, Leaked, Beginning, Started

\* The first create makes two threads live: the caller's and the new one.
LEMMA FirstCreateIsSafe ==
  ASSUME IInv, NEW k \in KThreads, NEW t \in Threads, FirstCreate(k, t)
  PROVE  Safe'
<1>1. /\ pc[k] = "user" /\ mypthread_count = 0 /\ t # Main
      /\ state' = [state EXCEPT ![Main] = "running", ![t] = "active"]
      /\ mypthread_count' = 2 /\ mypthread_sem' = 1
      /\ runq' = LlAdd(runq, tail_ok, t)
      /\ klist' = KtLink(klist, ktail, k)
      /\ th' = [th EXCEPT ![k] = Main]
      /\ UNCHANGED <<next, save, last>>
      /\ \E l \in {"user", "create_kt"} : Goto(k, l)
  BY DEF FirstCreate, Calling, At, MakeThread, Enqueue, AfterCreate, schedVars
<1>2. ~Started
  BY <1>1, ExecutingIsCounted DEF UserPcs
<1>3. /\ runq = <<>> /\ Live = {} /\ k = K0
      /\ \A j \in KThreads \ {k} : pc[j] = "unborn"
  BY <1>1, <1>2, ConstantsAssumption DEF IInv, Safe, Beginning, Live
<1>4. /\ pc'[k] \in {"user", "create_kt"}
      /\ \A j \in KThreads \ {k} : pc'[j] = "unborn"
  BY <1>1, <1>3 DEF Goto, IInv, Typed, TypeIn
<1>5. runq' = <<t>> /\ Started' /\ th'[k] = Main
  <2>1. klist \in Seq(KThreads) /\ th \in [KThreads -> Threads \cup {NoThread}]
    BY DEF IInv, Typed, TypeIn
  <2> QED
    BY <1>1, <1>3, <2>1, KtLinkKeeps DEF LlAdd, Started
<1>6. Live' = {Main, t}
  BY <1>1, <1>3, ConstantsAssumption DEF Live, IInv, Typed, TypeIn
<1>7. \A j \in KThreads, u \in Threads :
        /\ Carries(j, u)' => j = k /\ u = Main
        /\ ~Saves(j, u)'
  BY <1>4, <1>5 DEF Carries, Executes, Chose, Saves, UserPcs, SyncPcs, SchedPcs
<1>8. \A u : Contains(runq, u)' => u = t
  BY <1>5 DEF Contains
<1>9. OneCarrier'
  BY <1>1, <1>5, <1>6, <1>7, <1>8 DEF OneCarrier
<1>10. CountMatches'
  <2>1. Cardinality(Live') = 2
    <3>1. Live' = {Main} \cup {t} /\ t \notin {Main}
      BY <1>1, <1>6
    <3>2. IsFiniteSet({Main}) /\ Cardinality({Main}) = 1
      BY FS_Singleton
    <3> QED
      BY <3>1, <3>2, FS_AddElement
  <2> QED
    BY <1>1, <2>1 DEF CountMatches
<1> QED
  BY <1>1, <1>5, <1>7, <1>9, <1>10 DEF Safe, Savers, Leaked, Beginning

LEMMA NextSafe ==
  ASSUME IInv, [Next]_vars
  PROVE  Safe'
<1>1. ASSUME NEW k \in KThreads, NEW kt \in Policies, MypthreadInit(k, kt)
      PROVE  Safe'
  BY <1>1, NothingIsSafe DEF MypthreadInit, threadVars, queueVars, listVars, schedVars
<1>2. CASE UNCHANGED vars
  BY <1>2, NothingIsSafe DEF vars, threadVars, queueVars, listVars, schedVars
<1> QED
  BY <1>1, <1>2, FirstCreateIsSafe, CreateIsSafe, ExitIsSafe, YieldIsSafe, CallsAreSafe,
     CloneIsSafe, BirthIsSafe, SchedCheckIsSafe, SchedPickIsSafe, SetThIsSafe,
     SwitchIsSafe, JoinWaitIsSafe
     DEF Next, ClientCall, LibraryStep

LEMMA Invariance == Spec => []IInv
<1>1. Init => IInv
  BY InitTyped, InitSafe DEF IInv
<1>2. IInv /\ [Next]_vars => IInv'
  BY NextTyped, NextPlaced, NextSafe DEF IInv, Typed
<1> QED
  BY <1>1, <1>2, PTL DEF Spec

\* No interleaving of enqueues, dequeues and exits lets two kernel threads run
\* one thread, queues a thread twice, or brings an exited thread back.
THEOREM OneCarrierHolds == Spec => []OneCarrier
<1>1. IInv => OneCarrier
  BY DEF IInv, Safe
<1> QED
  BY <1>1, Invariance, PTL

\* The scheduler's test of mypthread_count for 0 is exact.
THEOREM CountIsExact == Spec => []CountMatches
<1>1. IInv => CountMatches
  BY DEF IInv, Safe
<1> QED
  BY <1>1, Invariance, PTL

----------------------------------------------------------------------------
(***************************************************************************)
(* The number of kernel threads.  current_kthread_count counts those that  *)
(* exist or are about to be made; under KLALWAYS every thread created pays *)
(* for at most one of them, though its creator may still be on the way.    *)
(***************************************************************************)

InUse == {k \in KThreads : pc[k] # "unborn"}
Due == {k \in KThreads : pc[k] = "clone"}
Making == {k \in KThreads : pc[k] = "create_kt"}
Created == {t \in Threads : state[t] # "unborn"}

KthreadsCounted ==
  Started =>
    /\ Cardinality(InUse) + Cardinality(Due) <= current_kthread_count
    /\ mypthread_policy = "ULONLY" => current_kthread_count = 1 /\ Making = {}
    /\ mypthread_policy \in {"KLMATCHCORES", "KLMATCHHYPER"} =>
         current_kthread_count <= max_kthread_count \/ current_kthread_count = 1
    /\ mypthread_policy = "KLALWAYS" =>
         current_kthread_count + Cardinality(Making) <= Cardinality(Created)

LEMMA KthreadSetsFinite ==
  /\ IsFiniteSet(InUse) /\ IsFiniteSet(Due) /\ IsFiniteSet(Making) /\ IsFiniteSet(Created)
  /\ Cardinality(InUse) \in Nat /\ Cardinality(Due) \in Nat
  /\ Cardinality(Making) \in Nat /\ Cardinality(Created) \in Nat
<1>1. /\ InUse \subseteq KThreads /\ Due \subseteq KThreads /\ Making \subseteq KThreads
      /\ Created \subseteq Threads
  BY DEF InUse, Due, Making, Created
<1>2. IsFiniteSet(InUse) /\ IsFiniteSet(Due) /\ IsFiniteSet(Making) /\ IsFiniteSet(Created)
  BY <1>1, ConstantsAssumption, FS_Subset
<1> QED
  BY <1>2, FS_CardinalityType

LEMMA InitCounted == Init => KthreadsCounted
BY DEF Init, KthreadsCounted, Started

\* A step that makes no kernel thread and lets none be made.
LEMMA QuietCounts ==
  ASSUME IInv, KthreadsCounted, Started,
         InUse' \subseteq InUse, Due' \subseteq Due, Making' \subseteq Making,
         Created \subseteq Created',
         UNCHANGED <<mypthread_policy, max_kthread_count, current_kthread_count>>
  PROVE  KthreadsCounted'
<1>1. Created' \subseteq Threads
  BY DEF Created
<1>2. IsFiniteSet(Created')
  BY <1>1, ConstantsAssumption, FS_Subset
<1>3. /\ Cardinality(InUse') <= Cardinality(InUse) /\ Cardinality(Due') <= Cardinality(Due)
      /\ Cardinality(Making') <= Cardinality(Making)
      /\ Cardinality(Created) <= Cardinality(Created')
  BY <1>2, KthreadSetsFinite, FS_Subset
<1>4. /\ Cardinality(InUse') \in Nat /\ Cardinality(Due') \in Nat
      /\ Cardinality(Making') \in Nat /\ Cardinality(Created') \in Nat
  BY <1>2, KthreadSetsFinite, FS_Subset, FS_CardinalityType
<1>5. current_kthread_count \in Nat
  BY DEF IInv, Typed, TypeIn
<1> QED
  BY <1>3, <1>4, <1>5, KthreadSetsFinite DEF KthreadsCounted

\* One kernel thread goes on with something else than a create.
LEMMA QuietStep ==
  ASSUME IInv, KthreadsCounted, Started, NEW k \in KThreads, pc[k] # "unborn",
         NEW l, l \notin {"clone", "create_kt"}, Goto(k, l),
         \A t \in Threads : state[t] # "unborn" => state'[t] # "unborn",
         UNCHANGED <<mypthread_policy, max_kthread_count, current_kthread_count>>
  PROVE  KthreadsCounted'
<1>1. pc'[k] = l /\ \A j \in KThreads \ {k} : pc'[j] = pc[j]
  BY DEF Goto, IInv, Typed, TypeIn
<1>2. /\ InUse' \subseteq InUse /\ Due' \subseteq Due /\ Making' \subseteq Making
      /\ Created \subseteq Created'
  BY <1>1 DEF InUse, Due, Making, Created
<1> QED
  BY <1>2, QuietCounts

\* Everything but the creates and what follows them.
LEMMA OthersCount ==
  ASSUME IInv, KthreadsCounted, NEW k \in KThreads,
         \/ \E t \in Threads : JoinLook(k, t)
         \/ Exit(k) \/ Yield(k) \/ Self(k) \/ CloneFailure(k)
         \/ ReadTail(k) \/ LinkNode(k) \/ MoveTail(k)
         \/ SchedCheck(k) \/ SchedPick(k) \/ SetTh(k) \/ Switch(k)
         \/ JoinFound(k) \/ JoinMissing(k) \/ JoinWait(k)
  PROVE  KthreadsCounted'
<1>1. Started /\ pc[k] # "unborn"
  BY StartedBy
     DEF JoinLook, Exit, Yield, Self, CloneFailure, ReadTail, LinkNode, MoveTail, SchedCheck,
         SchedPick, SetTh, Switch, JoinFound, JoinMissing, JoinWait, CallingStarted, Calling, At
<1>2. UNCHANGED <<mypthread_policy, max_kthread_count, current_kthread_count>>
  BY DEF JoinLook, Exit, Yield, Self, CloneFailure, ReadTail, LinkNode, MoveTail, SchedCheck,
         SchedPick, SetTh, Switch, JoinFound, JoinMissing, JoinWait, confVars
<1>3. \A t \in Threads : state[t] # "unborn" => state'[t] # "unborn"
  <2>1. state \in [Threads -> AllStates]
    BY DEF IInv, Typed, TypeIn
  <2>2. CASE Exit(k)
    BY <2>1, <2>2 DEF Exit, UpdateWaiting
  <2>3. CASE Yield(k) \/ JoinWait(k)
    BY <2>1, <2>3 DEF Yield, JoinWait
  <2>4. CASE \/ \E t \in Threads : JoinLook(k, t)
             \/ Self(k) \/ CloneFailure(k)
             \/ ReadTail(k) \/ LinkNode(k) \/ MoveTail(k)
             \/ SchedCheck(k) \/ SchedPick(k) \/ SetTh(k) \/ Switch(k)
             \/ JoinFound(k) \/ JoinMissing(k)
    BY <2>4 DEF JoinLook, Self, CloneFailure, ReadTail, LinkNode, MoveTail, SchedCheck,
         SchedPick, SetTh, Switch, JoinFound, JoinMissing, threadVars
  <2> QED
    BY <2>2, <2>3, <2>4
<1>4. PICK l : l \notin {"clone", "create_kt"} /\ Goto(k, l)
  <2>1. CASE Switch(k)
    <3>1. ctx' \in [Threads -> AllCtxs]
      BY <2>1, NextTyped DEF Next, LibraryStep, Typed, TypeIn, IInv
    <3>2. next[k] \in Threads
      BY <2>1 DEF Switch, At, IInv, Typed, Placed
    <3>3. Landing(ctx'[next[k]]) \notin {"clone", "create_kt"}
      BY <3>1, <3>2 DEF Landing, AllCtxs, CoreCtxs
    <3> QED
      BY <2>1, <3>3 DEF Switch
  <2>2. CASE \/ \E t \in Threads : JoinLook(k, t)
             \/ Exit(k) \/ Yield(k) \/ Self(k) \/ CloneFailure(k)
             \/ ReadTail(k) \/ LinkNode(k) \/ MoveTail(k)
    BY <2>2 DEF JoinLook, Exit, Yield, Self, CloneFailure, ReadTail, LinkNode, MoveTail,
                EnterScheduler
  <2>3. CASE SchedCheck(k) \/ SchedPick(k) \/ SetTh(k) \/ JoinFound(k) \/ JoinMissing(k) \/ JoinWait(k)
    BY <2>3 DEF SchedCheck, SchedPick, SetTh, JoinFound, JoinMissing, JoinWait, JoinReturn,
                EnterScheduler
  <2> QED
    BY <2>1, <2>2, <2>3
<1> QED
  BY <1>1, <1>2, <1>3, <1>4, QuietStep

LEMMA FirstCreateCounts ==
  ASSUME IInv, NEW k \in KThreads, NEW t \in Threads, FirstCreate(k, t)
  PROVE  KthreadsCounted'
<1>1. /\ pc[k] = "user" /\ mypthread_count = 0 /\ t # Main
      /\ state' = [state EXCEPT ![Main] = "running", ![t] = "active"]
      /\ current_kthread_count' = 1 /\ mypthread_policy' = mypthread_policy
      /\ Goto(k, IF mypthread_policy = "ULONLY" THEN "user" ELSE "create_kt")
  BY DEF FirstCreate, Calling, At, MakeThread, AfterCreate, confVars
<1>2. ~Started
  BY <1>1, ExecutingIsCounted DEF UserPcs
<1>3. \A j \in KThreads \ {k} : pc[j] = "unborn"
  BY <1>1, <1>2 DEF IInv, Safe, Beginning
<1>4. /\ pc'[k] = IF mypthread_policy = "ULONLY" THEN "user" ELSE "create_kt"
      /\ \A j \in KThreads \ {k} : pc'[j] = "unborn"
  BY <1>1, <1>3 DEF Goto, IInv, Typed, TypeIn
<1>5. /\ InUse' = {k} /\ Due' = {}
      /\ Making' = IF mypthread_policy = "ULONLY" THEN {} ELSE {k}
  BY <1>4 DEF InUse, Due, Making
<1>6. {Main, t} \subseteq Created'
  BY <1>1, ConstantsAssumption DEF Created, IInv, Typed, TypeIn
<1>7. 2 <= Cardinality(Created')
  <2>1. {Main, t} = {Main} \cup {t} /\ t \notin {Main}
    BY <1>1
  <2>2. Cardinality({Main, t}) = 2
    <3>1. IsFiniteSet({Main}) /\ Cardinality({Main}) = 1
      BY FS_Singleton
    <3> QED
      BY <2>1, <3>1, FS_AddElement
  <2>3. Created' \subseteq Threads
    BY DEF Created
  <2> QED
    BY <1>6, <2>2, <2>3, ConstantsAssumption, FS_Subset
<1>8. Cardinality(InUse') = 1 /\ Cardinality(Due') = 0 /\ Cardinality(Making') <= 1
  BY <1>5, FS_Singleton, FS_EmptySet
<1>9. Cardinality(Created') \in Nat /\ Cardinality(Making') \in Nat
  <2>1. Created' \subseteq Threads
    BY DEF Created
  <2> QED
    BY <1>5, <2>1, ConstantsAssumption, FS_Subset, FS_CardinalityType, FS_Singleton, FS_EmptySet
<1>10. mypthread_policy = "ULONLY" => Making' = {}
  BY <1>5
<1> QED
  BY <1>1, <1>7, <1>8, <1>9, <1>10 DEF KthreadsCounted

LEMMA CreateCounts ==
  ASSUME IInv, KthreadsCounted, NEW k \in KThreads, NEW t \in Threads, Create(k, t)
  PROVE  KthreadsCounted'
<1>1. /\ Started /\ pc[k] = "user" /\ state[t] = "unborn"
      /\ state' = [state EXCEPT ![t] = "active"]
      /\ UNCHANGED <<mypthread_policy, max_kthread_count, current_kthread_count>>
      /\ Goto(k, IF mypthread_policy = "ULONLY" THEN "user" ELSE "create_kt")
  BY StartedBy DEF Create, CallingStarted, Calling, At, MakeThread, AfterCreate, confVars
<1>2. /\ pc'[k] = IF mypthread_policy = "ULONLY" THEN "user" ELSE "create_kt"
      /\ \A j \in KThreads \ {k} : pc'[j] = pc[j]
  BY <1>1 DEF Goto, IInv, Typed, TypeIn
<1>3. /\ InUse' = InUse /\ Due' = Due
      /\ Making' = IF mypthread_policy = "ULONLY" THEN Making ELSE Making \cup {k}
  BY <1>1, <1>2 DEF InUse, Due, Making
<1>4. Created' = Created \cup {t} /\ t \notin Created
  BY <1>1 DEF Created, IInv, Typed, TypeIn
<1>5. Cardinality(Created') = Cardinality(Created) + 1
  BY <1>4, KthreadSetsFinite, FS_AddElement
<1>6. Cardinality(Making') \in Nat /\ Cardinality(Making') <= Cardinality(Making) + 1
  <2>1. /\ IsFiniteSet(Making \cup {k})
        /\ Cardinality(Making \cup {k}) = IF k \in Making THEN Cardinality(Making)
                                                           ELSE Cardinality(Making) + 1
    BY KthreadSetsFinite, FS_AddElement
  <2>2. Cardinality(Making \cup {k}) \in Nat /\ Cardinality(Making \cup {k}) <= Cardinality(Making) + 1
    BY <2>1, KthreadSetsFinite
  <2> QED
    BY <1>3, <2>2, KthreadSetsFinite
<1>7. current_kthread_count \in Nat
  BY DEF IInv, Typed, TypeIn
<1>8. mypthread_policy = "ULONLY" => Making' = Making
  BY <1>3
<1> QED
  BY <1>1, <1>3, <1>5, <1>6, <1>7, <1>8, KthreadSetsFinite DEF KthreadsCounted

\* The test and the increment are one step under kthread_sem.
LEMMA CreateKthreadCounts ==
  ASSUME IInv, KthreadsCounted, NEW k \in KThreads, CreateKthread(k)
  PROVE  KthreadsCounted'
<1>1. /\ Started /\ pc[k] = "create_kt"
      /\ UNCHANGED <<mypthread_policy, max_kthread_count, state>>
  BY StartedBy DEF CreateKthread, At, confVars, threadVars
<1>2. CASE ~KthreadDue
  <2>1. Goto(k, "user") /\ UNCHANGED current_kthread_count
    BY <1>2 DEF CreateKthread
  <2> QED
    BY <1>1, <2>1, QuietStep
<1>3. CASE KthreadDue
  <2>1. Goto(k, "clone") /\ current_kthread_count' = current_kthread_count + 1
    BY <1>3 DEF CreateKthread
  <2>2. /\ pc'[k] = "clone" /\ \A j \in KThreads \ {k} : pc'[j] = pc[j]
    BY <2>1 DEF Goto, IInv, Typed, TypeIn
  <2>3. /\ InUse' = InUse /\ Due' = Due \cup {k} /\ Making' = Making \ {k} /\ k \in Making
        /\ Created' = Created /\ k \notin Due
    BY <1>1, <2>2 DEF InUse, Due, Making, Created
  <2>4. /\ Cardinality(Due') = Cardinality(Due) + 1
        /\ Cardinality(Making') = Cardinality(Making) - 1
    BY <2>3, KthreadSetsFinite, FS_AddElement, FS_RemoveElement
  <2>5. current_kthread_count \in Nat /\ max_kthread_count \in Nat
    BY DEF IInv, Typed, TypeIn
  <2>6. mypthread_policy # "ULONLY"
    BY <1>1, <2>3 DEF KthreadsCounted
  <2>7. mypthread_policy = "KLALWAYS" \/ current_kthread_count < max_kthread_count
    BY <1>3 DEF KthreadDue
  <2> QED
    BY <1>1, <2>1, <2>3, <2>4, <2>5, <2>6, <2>7, KthreadSetsFinite DEF KthreadsCounted
<1> QED
  BY <1>2, <1>3

LEMMA CloneCounts ==
  ASSUME IInv, KthreadsCounted, NEW k \in KThreads, NEW n \in KThreads, Clone(k, n)
  PROVE  KthreadsCounted'
<1>1. /\ Started /\ pc[k] = "clone" /\ pc[n] = "unborn"
      /\ UNCHANGED <<mypthread_policy, max_kthread_count, current_kthread_count, state>>
  BY StartedBy DEF Clone, At, confVars, threadVars
<1>2. /\ pc'[k] = "user" /\ pc'[n] = "born" /\ k # n
      /\ \A j \in KThreads \ {k, n} : pc'[j] = pc[j]
  BY <1>1 DEF Clone, IInv, Typed, TypeIn
<1>3. /\ InUse' = InUse \cup {n} /\ n \notin InUse
      /\ Due' = Due \ {k} /\ k \in Due
      /\ Making' = Making /\ Created' = Created
  BY <1>1, <1>2 DEF InUse, Due, Making, Created
<1>4. /\ Cardinality(InUse') = Cardinality(InUse) + 1
      /\ Cardinality(Due') = Cardinality(Due) - 1
  BY <1>3, KthreadSetsFinite, FS_AddElement, FS_RemoveElement
<1>5. current_kthread_count \in Nat
  BY DEF IInv, Typed, TypeIn
<1> QED
  BY <1>1, <1>3, <1>4, <1>5, KthreadSetsFinite DEF KthreadsCounted

LEMMA NextCounts ==
  ASSUME IInv, KthreadsCounted, [Next]_vars
  PROVE  KthreadsCounted'
<1>1. ASSUME NEW k \in KThreads, NEW kt \in Policies, MypthreadInit(k, kt)
      PROVE  KthreadsCounted'
  <2>1. /\ pc[k] = "user" /\ mypthread_count = 0 /\ klist' = klist
    BY <1>1 DEF MypthreadInit, Calling, At, listVars
  <2>2. ~Started
    BY <2>1, ExecutingIsCounted DEF UserPcs
  <2> QED
    BY <2>1, <2>2 DEF KthreadsCounted, Started
<1>2. CASE UNCHANGED vars
  BY <1>2 DEF vars, confVars, threadVars, listVars, KthreadsCounted, Started, InUse, Due, Making,
              Created
<1> QED
  BY <1>1, <1>2, OthersCount, FirstCreateCounts, CreateCounts, CreateKthreadCounts, CloneCounts
     DEF Next, ClientCall, LibraryStep

\* However creates race for the last place, and whatever clones fail, there
\* are at most as many kernel threads as the policy allows.
THEOREM KthreadsBounded == Spec => []KthreadBound
<1>1. IInv /\ KthreadsCounted => KthreadBound
  <2> SUFFICES ASSUME IInv, KthreadsCounted
               PROVE  KthreadBound
    OBVIOUS
  <2> DEFINE bound == CASE mypthread_policy = "ULONLY" -> 1
                        [] mypthread_policy = "KLALWAYS" -> Cardinality(Created)
                        [] OTHER -> max_kthread_count
  <2>1. /\ mypthread_policy \in AllPolicies /\ max_kthread_count \in Nat
        /\ current_kthread_count \in Nat
    BY DEF IInv, Typed, TypeIn
  <2>2. bound \in Nat
    BY <2>1, KthreadSetsFinite
  <2>3. CASE ~Started
    <3>1. \A k \in KThreads : pc[k] = IF k = K0 THEN "user" ELSE "unborn"
      BY <2>3 DEF IInv, Safe, Beginning
    <3>2. InUse = {K0} /\ Due = {}
      BY <3>1, ConstantsAssumption DEF InUse, Due
    <3>3. Cardinality(InUse) + Cardinality(Due) = 1
      <4>1. Cardinality({K0}) = 1 /\ Cardinality({}) = 0
        BY FS_Singleton, FS_EmptySet
      <4> QED
        BY <3>2, <4>1
    <3> HIDE DEF bound
    <3>4. Cardinality(InUse) + Cardinality(Due) <= IF bound > 1 THEN bound ELSE 1
      BY <3>3, <2>2
    <3> QED
      BY <3>4 DEF KthreadBound, InUse, Due, Created, bound
  <2>4. CASE Started
    <3>1. Cardinality(InUse) + Cardinality(Due) <= current_kthread_count
      BY <2>4 DEF KthreadsCounted
    <3>2. current_kthread_count <= bound \/ current_kthread_count = 1
      <4>1. CASE mypthread_policy = "ULONLY"
        BY <2>4, <4>1 DEF KthreadsCounted
      <4>2. CASE mypthread_policy = "KLALWAYS"
        BY <2>1, <2>4, <4>2, KthreadSetsFinite DEF KthreadsCounted
      <4>3. CASE mypthread_policy \in {"KLMATCHCORES", "KLMATCHHYPER"}
        BY <2>4, <4>3 DEF KthreadsCounted
      <4> QED
        BY <2>1, <4>1, <4>2, <4>3 DEF AllPolicies
    <3> HIDE DEF bound
    <3>3. Cardinality(InUse) + Cardinality(Due) <= IF bound > 1 THEN bound ELSE 1
      BY <2>1, <2>2, <3>1, <3>2, KthreadSetsFinite
    <3> QED
      BY <3>3 DEF KthreadBound, InUse, Due, Created, bound
  <2> QED
    BY <2>3, <2>4
<1>2. IInv /\ KthreadsCounted /\ [Next]_vars => KthreadsCounted'
  BY NextCounts
<1> QED
  BY <1>1, <1>2, InitCounted, Invariance, PTL DEF Spec
----------------------------------------------------------------------------
(***************************************************************************)
(* The policy ULONLY, which is also the one without mypthread_init: no     *)
(* second kernel thread is ever made, so between the queueing of a thread  *)
(* and the saving of its context nobody can take it.                       *)
(***************************************************************************)

UlonlyPcs == (UserPcs \ {"create_kt", "clone"}) \cup SchedPcs \cup {"gone", "crashed"}

\* Whoever is queued or chosen has a saved context, or will have at the switch.
Resumable ==
  \A t \in Threads : Contains(runq, t) \/ Chose(K0, t) => ctx[t] # "uninit" \/ Saves(K0, t)

OneKthread ==
  /\ mypthread_policy = "ULONLY"
  /\ \A k \in KThreads \ {K0} : pc[k] = "unborn"
  /\ pc[K0] \in UlonlyPcs
  /\ Resumable

LEMMA InitOneKthread == Init => OneKthread
BY ConstantsAssumption
   DEF Init, OneKthread, Resumable, UlonlyPcs, UserPcs, Contains, Chose

\* Only K0 does anything, and never makes a kernel thread.
LEMMA OnlyK0 ==
  ASSUME IInv, OneKthread, NEW k \in KThreads, pc[k] # "unborn"
  PROVE  k = K0 /\ pc[k] \in UlonlyPcs
BY DEF OneKthread

LEMMA K0Goes ==
  ASSUME IInv, OneKthread, NEW l, Goto(K0, l)
  PROVE  pc'[K0] = l /\ \A k \in KThreads \ {K0} : pc'[k] = "unborn"
BY ConstantsAssumption DEF OneKthread, Goto, IInv, Typed, TypeIn

\* A call that queues nobody.
LEMMA UlonlyCalls ==
  ASSUME IInv, OneKthread, NEW k \in KThreads,
         \/ CreateKthread(k) \/ CloneFailure(k) \/ Self(k) \/ Exit(k)
         \/ \E n \in KThreads : Clone(k, n)
         \/ \E t \in Threads : JoinLook(k, t)
         \/ JoinFound(k) \/ JoinMissing(k)
         \/ ReadTail(k) \/ LinkNode(k) \/ MoveTail(k)
  PROVE  OneKthread'
<1>1. k = K0 /\ pc[k] \in UlonlyPcs
  <2>1. pc[k] # "unborn"
    BY DEF CreateKthread, CloneFailure, Self, Exit, Clone, JoinLook, JoinFound, JoinMissing,
           ReadTail, LinkNode, MoveTail, CallingStarted, Calling, At
  <2> QED
    BY <2>1, OnlyK0
<1>2. /\ pc[k] \in UserPcs
      /\ UNCHANGED <<mypthread_policy, ctx, runq>>
      /\ \E l \in {"user", "join_found", "join_missing", "join_wait", "crashed", "sched_check"} :
           Goto(k, l)
  BY <1>1
     DEF CreateKthread, CloneFailure, Self, Exit, Clone, JoinLook, JoinFound, JoinMissing,
         ReadTail, LinkNode, MoveTail, CallingStarted, Calling, At, JoinReturn, EnterScheduler,
         UlonlyPcs, UserPcs, SyncPcs, SchedPcs, confVars, threadVars, queueVars
<1>3. PICK l \in {"user", "join_found", "join_missing", "join_wait", "crashed", "sched_check"} :
        Goto(k, l)
  BY <1>2
<1>4. pc'[K0] = l /\ \A j \in KThreads \ {K0} : pc'[j] = "unborn"
  BY <1>1, <1>3, K0Goes
<1>5. \A t \in Threads : ~Saves(K0, t) /\ ~Chose(K0, t)'
  BY <1>1, <1>2, <1>4 DEF Saves, Chose, UserPcs, SyncPcs, SchedPcs
<1>6. Resumable'
  BY <1>2, <1>5 DEF OneKthread, Resumable, Contains
<1> QED
  BY <1>2, <1>4, <1>6 DEF OneKthread, UlonlyPcs, UserPcs, SchedPcs

\* A new thread is queued with its start context.
LEMMA UlonlyCreates ==
  ASSUME IInv, OneKthread, NEW k \in KThreads, NEW t \in Threads,
         FirstCreate(k, t) \/ Create(k, t)
  PROVE  OneKthread'
<1>1. k = K0 /\ pc[k] = "user"
  BY OnlyK0 DEF FirstCreate, Create, CallingStarted, Calling, At
<1>2. /\ mypthread_policy' = mypthread_policy /\ ctx' = [ctx EXCEPT ![t] = "start"]
      /\ runq' = LlAdd(runq, tail_ok, t) /\ Goto(k, "user")
  BY DEF FirstCreate, Create, MakeThread, Enqueue, AfterCreate, confVars, OneKthread
<1>3. pc'[K0] = "user" /\ \A j \in KThreads \ {K0} : pc'[j] = "unborn"
  BY <1>1, <1>2, K0Goes
<1>4. \A u \in Threads : ~Saves(K0, u) /\ ~Chose(K0, u)'
  BY <1>1, <1>3 DEF Saves, Chose, SchedPcs
<1>5. /\ runq \in Seq(Threads) /\ tail_ok \in BOOLEAN /\ ctx \in [Threads -> AllCtxs]
  BY DEF IInv, Typed, TypeIn
<1>6. \A u \in Threads : Contains(runq', u) => Contains(runq, u) \/ u = t
  BY <1>2, <1>5, LlAddKeeps
<1>7. Resumable'
  BY <1>2, <1>4, <1>5, <1>6 DEF OneKthread, Resumable, Contains
<1> QED
  BY <1>2, <1>3, <1>7 DEF OneKthread, UlonlyPcs, UserPcs

\* A thread queues itself, and enters the scheduler that will save it.
LEMMA UlonlySuspends ==
  ASSUME IInv, OneKthread, NEW k \in KThreads, Yield(k) \/ JoinWait(k)
  PROVE  OneKthread'
<1>1. k = K0 /\ pc[k] \in {"user", "join_wait"}
  BY OnlyK0 DEF Yield, JoinWait, CallingStarted, Calling, At
<1>2. UNCHANGED <<mypthread_policy, ctx, th>>
  BY DEF Yield, JoinWait, confVars, threadVars
<1>3. \A u \in Threads : ~Saves(K0, u)
  BY <1>1 DEF Saves, SchedPcs
<1>4. CASE Goto(k, "crashed") /\ runq' = runq
  <2>1. pc'[K0] = "crashed" /\ \A j \in KThreads \ {K0} : pc'[j] = "unborn"
    BY <1>1, <1>4, K0Goes
  <2>2. \A u \in Threads : ~Chose(K0, u)'
    BY <2>1 DEF Chose
  <2> QED
    BY <1>2, <1>3, <1>4, <2>1, <2>2 DEF OneKthread, Resumable, UlonlyPcs, Contains
<1>5. CASE /\ Goto(k, "sched_check") /\ runq' = LlAdd(runq, tail_ok, th[k])
           /\ \E l \in {"yielded", "joined"} : save' = [save EXCEPT ![k] = l]
  <2>1. pc'[K0] = "sched_check" /\ \A j \in KThreads \ {K0} : pc'[j] = "unborn"
    BY <1>1, <1>5, K0Goes
  <2>2. /\ runq \in Seq(Threads) /\ tail_ok \in BOOLEAN /\ th[k] \in Threads
        /\ save \in [KThreads -> AllSaves]
    BY <1>1 DEF IInv, Typed, TypeIn, Placed, UserPcs
  <2>3. \A u \in Threads : Contains(runq', u) => Contains(runq, u) \/ u = th[k]
    BY <1>5, <2>2, LlAddKeeps
  <2>4. save'[K0] # "none" /\ th'[K0] = th[k]
    BY <1>1, <1>2, <1>5, <2>2
  <2>5. \A u \in Threads : ~Chose(K0, u)' /\ (u = th[k] => Saves(K0, u)')
    BY <2>1, <2>4 DEF Saves, StackOwner, Chose, SchedPcs
  <2>6. Resumable'
    BY <1>2, <1>3, <2>3, <2>5 DEF OneKthread, Resumable, Contains
  <2> QED
    BY <1>2, <2>1, <2>6 DEF OneKthread, UlonlyPcs, SchedPcs
<1> QED
  BY <1>4, <1>5 DEF Yield, JoinWait, EnterScheduler, Enqueue, queueVars

\* The scheduler keeps the context to save, until the switch.
LEMMA UlonlyScheduler ==
  ASSUME IInv, OneKthread, NEW k \in KThreads, SchedCheck(k) \/ SchedPick(k) \/ SetTh(k)
  PROVE  OneKthread'
<1>1. k = K0 /\ UNCHANGED <<mypthread_policy, ctx>>
  BY OnlyK0 DEF SchedCheck, SchedPick, SetTh, At, confVars, threadVars
<1>2. CASE SchedCheck(k) /\ mypthread_count = 0
  <2>1. Started /\ mypthread_sem = 1 /\ pc[k] = "sched_check"
    BY <1>2, StartedBy DEF SchedCheck, At
  <2>2. Live = {}
    BY <1>2, <2>1, LiveFinite DEF IInv, Typed, TypeIn, Safe, CountMatches, Started
  <2>3. \A t \in Threads : ~Contains(runq, t)
    BY <2>2 DEF IInv, Safe, OneCarrier
  <2>4. runq' = runq /\ \E l \in {"gone", "user"} : Goto(k, l)
    BY <1>2 DEF SchedCheck, queueVars
  <2>5. pc'[K0] \in {"gone", "user"} /\ \A j \in KThreads \ {K0} : pc'[j] = "unborn"
    BY <1>1, <2>4, K0Goes
  <2>6. \A t \in Threads : ~Contains(runq', t) /\ ~Chose(K0, t)'
    BY <2>3, <2>4, <2>5 DEF Chose, Contains
  <2> QED
    BY <1>1, <2>5, <2>6 DEF OneKthread, Resumable, UlonlyPcs, UserPcs, Contains
<1>3. CASE SchedCheck(k) /\ mypthread_count # 0
  <2>1. /\ pc[k] = "sched_check" /\ Goto(k, "sched_pick") /\ last' = [last EXCEPT ![k] = th[k]]
        /\ UNCHANGED <<save, runq, th>>
    BY <1>3 DEF SchedCheck, At, queueVars
  <2>2. pc'[K0] = "sched_pick" /\ \A j \in KThreads \ {K0} : pc'[j] = "unborn"
    BY <1>1, <2>1, K0Goes
  <2>3. last'[K0] = th[K0]
    BY <1>1, <2>1 DEF IInv, Typed, TypeIn
  <2>4. \A t \in Threads : ~Chose(K0, t)' /\ (Saves(K0, t) => Saves(K0, t)')
    BY <1>1, <2>1, <2>2, <2>3 DEF Chose, Saves, StackOwner, SchedPcs
  <2> QED
    BY <1>1, <2>1, <2>2, <2>4 DEF OneKthread, Resumable, UlonlyPcs, SchedPcs, Contains
<1>4. CASE SchedPick(k)
  <2>1. PICK i \in FirstActive(runq, state) :
          next' = [next EXCEPT ![k] = runq[i]] /\ runq' = Unlink(runq, i)
    BY <1>4 DEF SchedPick
  <2>2. /\ runq \in Seq(Threads) /\ next \in [KThreads -> Threads \cup {NoThread}]
    BY DEF IInv, Typed, TypeIn
  <2>3. /\ i \in DOMAIN runq /\ Contains(runq, runq[i])
        /\ \A u : Contains(runq', u) => Contains(runq, u)
    BY <2>1, <2>2, FirstActiveIsActive, UnlinkKeeps
  <2>4. pc[k] = "sched_pick" /\ Goto(k, "set_th") /\ UNCHANGED <<save, last>>
    BY <1>4 DEF SchedPick, At
  <2>5. pc'[K0] = "set_th" /\ \A j \in KThreads \ {K0} : pc'[j] = "unborn"
    BY <1>1, <2>4, K0Goes
  <2>6. next'[K0] = runq[i]
    BY <1>1, <2>1, <2>2
  <2>7. \A t \in Threads :
          /\ Chose(K0, t)' => t = runq[i]
          /\ Saves(K0, t) => Saves(K0, t)'
    BY <1>1, <2>4, <2>5, <2>6 DEF Chose, Saves, StackOwner, SchedPcs
  <2>8. Resumable'
    <3>1. ASSUME NEW t \in Threads, Contains(runq', t) \/ Chose(K0, t)'
          PROVE  ctx'[t] # "uninit" \/ Saves(K0, t)'
      <4>1. Contains(runq, t)
        BY <2>3, <2>7, <3>1
      <4> QED
        BY <1>1, <2>7, <4>1 DEF OneKthread, Resumable
    <3> QED
      BY <3>1 DEF Resumable, Contains
  <2> QED
    BY <1>1, <2>5, <2>8 DEF OneKthread, UlonlyPcs, SchedPcs
<1>5. CASE SetTh(k)
  <2>1. pc[k] = "set_th" /\ Goto(k, "switch") /\ UNCHANGED <<runq, save, last, next>>
    BY <1>5 DEF SetTh, At, queueVars, schedVars
  <2>2. pc'[K0] = "switch" /\ \A j \in KThreads \ {K0} : pc'[j] = "unborn"
    BY <1>1, <2>1, K0Goes
  <2>3. \A t \in Threads : (Chose(K0, t)' => Chose(K0, t)) /\ (Saves(K0, t) => Saves(K0, t)')
    BY <1>1, <2>1, <2>2 DEF Chose, Saves, StackOwner, SchedPcs
  <2> QED
    BY <1>1, <2>1, <2>2, <2>3 DEF OneKthread, Resumable, UlonlyPcs, SchedPcs, Contains
<1> QED
  BY <1>2, <1>3, <1>4, <1>5

LEMMA UlonlySwitches ==
  ASSUME IInv, OneKthread, NEW k \in KThreads, Switch(k)
  PROVE  OneKthread'
<1> DEFINE t == next[k]
<1>1. k = K0 /\ pc[k] = "switch"
  BY OnlyK0 DEF Switch, At
<1>2. /\ UNCHANGED <<mypthread_policy, runq>>
      /\ ctx' = IF save[k] = "none" THEN ctx ELSE [ctx EXCEPT ![last[k]] = save[k]]
  BY DEF Switch, SavedCtx, confVars, queueVars
<1>3. t \in Threads /\ Chose(K0, t)
  BY <1>1 DEF Chose, IInv, Typed, Placed
<1>4. \A u \in Threads : Saves(K0, u) => u = last[k] /\ save[k] # "none"
  BY <1>1 DEF Saves, StackOwner
<1>5. ctx \in [Threads -> AllCtxs] /\ ctx' \in [Threads -> AllCtxs] /\ save[k] \in AllSaves
  BY NextTyped DEF Next, LibraryStep, Typed, TypeIn, IInv
<1>6. \A u \in Threads : ctx[u] # "uninit" \/ Saves(K0, u) => ctx'[u] # "uninit"
  BY <1>2, <1>4, <1>5 DEF AllSaves, CoreSaves
<1>7. \A u \in Threads : Contains(runq, u) \/ u = t => ctx'[u] # "uninit"
  BY <1>3, <1>6 DEF OneKthread, Resumable
<1>8. ~StackBusy(k, t)
  BY <1>1 DEF StackBusy, OneKthread, SchedPcs
<1>9. Goto(k, Landing(ctx'[t]))
  BY <1>3, <1>7, <1>8 DEF Switch
<1>10. Landing(ctx'[t]) \in {"user", "lock", "relock"}
  BY <1>3, <1>5, <1>7 DEF Landing, AllCtxs, CoreCtxs
<1>11. /\ pc'[K0] \in {"user", "lock", "relock"}
       /\ \A j \in KThreads \ {K0} : pc'[j] = "unborn"
  BY <1>1, <1>9, <1>10, K0Goes
<1>12. Resumable'
  BY <1>2, <1>7, <1>11 DEF Resumable, Chose, Contains
<1> QED
  BY <1>2, <1>11, <1>12 DEF OneKthread, UlonlyPcs, UserPcs, SyncPcs

LEMMA NextOneKthread ==
  ASSUME Policies \subseteq {"ULONLY"}, IInv, OneKthread, [Next]_vars
  PROVE  OneKthread'
<1>1. ASSUME NEW k \in KThreads, NEW kt \in Policies, MypthreadInit(k, kt)
      PROVE  OneKthread'
  <2>1. /\ mypthread_policy' = "ULONLY"
        /\ UNCHANGED <<runq, ctx, pc, th, save, last, next>>
    BY <1>1 DEF MypthreadInit, threadVars, queueVars, schedVars
  <2> QED
    BY <2>1 DEF OneKthread, Resumable, Chose, Saves, StackOwner, Contains
<1>2. CASE UNCHANGED vars
  BY <1>2 DEF vars, confVars, threadVars, queueVars, schedVars, OneKthread, Resumable, Chose,
              Saves, StackOwner, Contains
<1> QED
  BY <1>1, <1>2, UlonlyCalls, UlonlyCreates, UlonlySuspends, UlonlyScheduler, UlonlySwitches
     DEF Next, ClientCall, LibraryStep

\* With user threads only, every switch is to a context that was saved, on a
\* stack nobody uses, whatever the threads call.
THEOREM UlonlyIsDefined ==
  ASSUME Policies \subseteq {"ULONLY"}
  PROVE  Spec => []SwitchIsDefined
<1>1. IInv /\ OneKthread => SwitchIsDefined
  BY DEF OneKthread, SwitchIsDefined, UlonlyPcs, UserPcs, SyncPcs, SchedPcs
<1>2. IInv /\ OneKthread /\ [Next]_vars => OneKthread'
  BY NextOneKthread
<1> QED
  BY <1>1, <1>2, InitOneKthread, Invariance, PTL DEF Spec

----------------------------------------------------------------------------
(***************************************************************************)
(* Fork and join, as in the sample clients: main creates and joins, the    *)
(* others run to their exit.  Then main is the only one that ever waits,   *)
(* and waits behind everybody else, so that the dequeue always takes the   *)
(* first node and mypthread_q_tail stays good: nobody is lost.             *)
(***************************************************************************)

ForkJoinClient ==
  /\ Policies \subseteq {"ULONLY"}
  /\ Calls[Main] \subseteq {"init", "create", "join", "exit"}
  /\ \A t \in Threads \ {Main} : Calls[t] \subseteq {"exit"}

InTurn ==
  /\ klist \in {<<>>, <<K0>>}
  /\ tail_ok
  /\ \A t \in Threads \ {Main} : Contains(runq, t) => state[t] = "active"
  /\ \A i \in DOMAIN runq : runq[i] = Main => i = Len(runq)

JoinPcs == {"join_found", "join_missing", "join_wait"}

\* What main's join has seen, and what it knows when it is woken.
MainJoins ==
  /\ pc[K0] \in JoinPcs => th[K0] = Main /\ target[K0] \in Threads \ {Main} /\ cur[K0]
  /\ pc[K0] = "join_missing" => state[target[K0]] = "dead"
  /\ \A t \in Threads \ {Main} : ctx[t] \in {"uninit", "start"}
  /\ save[K0] # "none" => pc[K0] \in SchedPcs /\ StackOwner(K0) = Main
  /\ \A t \in Threads : Chose(K0, t) => state[t] = "active"
  /\ Contains(runq, Main) \/ Chose(K0, Main) =>
       dep[Main] \in Threads /\ (state[Main] = "active" => state[dep[Main]] = "dead")

ForkJoinInv == InTurn /\ MainJoins /\ NoThreadLost

Ulonly == TypeOK /\ IInv /\ OneKthread

LEMMA InitForkJoin == Init => ForkJoinInv
BY ConstantsAssumption
   DEF Init, ForkJoinInv, InTurn, MainJoins, NoThreadLost, Live, JoinPcs, Contains, Chose

\* K0's step, and what it means for who is carried.
LEMMA K0Steps ==
  ASSUME Ulonly, NEW l, Goto(K0, l)
  PROVE  /\ pc'[K0] = l
         /\ \A k \in KThreads, t \in Threads : Carries(k, t) => k = K0
BY K0Goes DEF Ulonly, OneKthread, Carries, Executes, Chose, UserPcs, SyncPcs

\* The queue grows at its end, as the tail is good.
LEMMA QueueAtEnd ==
  ASSUME Ulonly, tail_ok, NEW t \in Threads, Enqueue(t)
  PROVE  /\ tail_ok' /\ Len(runq') = Len(runq) + 1 /\ DOMAIN runq' = 1..(Len(runq) + 1)
         /\ runq'[Len(runq) + 1] = t /\ \A i \in 1..Len(runq) : runq'[i] = runq[i]
         /\ DOMAIN runq = 1..Len(runq) /\ Len(runq) \in Nat
         /\ \A u : Contains(runq', u) <=> Contains(runq, u) \/ u = t
<1>1. runq \in Seq(Threads) /\ Len(runq) \in Nat
  BY DEF Ulonly, TypeOK
<1>2. runq' = Append(runq, t) /\ tail_ok'
  BY DEF Enqueue, LlAdd, TailAfterAdd
<1>3. /\ Len(runq') = Len(runq) + 1 /\ DOMAIN runq' = 1..(Len(runq) + 1)
      /\ runq'[Len(runq) + 1] = t /\ \A i \in 1..Len(runq) : runq'[i] = runq[i]
      /\ DOMAIN runq = 1..Len(runq)
  BY <1>1, <1>2
<1>4. /\ \A i \in 1..(Len(runq) + 1) : i \in 1..Len(runq) \/ i = Len(runq) + 1
      /\ \A i \in 1..Len(runq) : i \in 1..(Len(runq) + 1)
      /\ Len(runq) + 1 \in 1..(Len(runq) + 1)
  BY <1>1
<1>5. \A u : Contains(runq', u) <=> Contains(runq, u) \/ u = t
  BY <1>3, <1>4 DEF Contains
<1> QED
  BY <1>1, <1>2, <1>3, <1>5

\* The dequeue takes the first.
LEMMA UnlinkFirst ==
  ASSUME NEW S, NEW q \in Seq(S), q # <<>>
  PROVE  /\ Unlink(q, 1) \in Seq(S) /\ Len(Unlink(q, 1)) = Len(q) - 1
         /\ \A j \in 1..(Len(q) - 1) : Unlink(q, 1)[j] = q[j + 1]
<1>1. Len(q) \in Nat /\ Len(q) >= 1
  OBVIOUS
<1>2. SubSeq(q, 1, 0) = <<>>
  BY <1>1
<1> DEFINE b == SubSeq(q, 2, Len(q))
<1>3. /\ b \in Seq(S) /\ Len(b) = Len(q) - 1
      /\ \A j \in 1..(Len(q) - 1) : b[j] = q[j + 1]
  <2>1. \A j \in 2..Len(q) : q[j] \in S
    BY <1>1
  <2>2. /\ b \in Seq(S) /\ Len(b) = IF 2 <= Len(q) THEN Len(q) - 2 + 1 ELSE 0
        /\ \A j \in 1..(Len(q) - 2 + 1) : b[j] = q[2 + j - 1]
    BY <1>1, <2>1, SubSeqProperties
  <2>3. \A j \in Int : 2 + j - 1 = j + 1
    OBVIOUS
  <2> HIDE DEF b
  <2>4. Len(q) - 2 + 1 = Len(q) - 1 /\ (~(2 <= Len(q)) => Len(q) - 1 = 0)
    <3>1. \A n \in Nat : n >= 1 => n - 2 + 1 = n - 1 /\ (~(2 <= n) => n - 1 = 0)
      OBVIOUS
    <3> QED
      BY <1>1, <3>1
  <2>5. \A j \in 1..(Len(q) - 1) : b[j] = q[2 + j - 1]
    BY <2>2, <2>4
  <2>6. \A j \in 1..(Len(q) - 1) : b[j] = q[j + 1]
    BY <2>3, <2>5
  <2> QED
    BY <2>2, <2>4, <2>6
<1> HIDE DEF b
<1>4. Unlink(q, 1) = <<>> \o b
  BY <1>2 DEF Unlink, RemoveAt, b
<1>5. <<>> \o b = b
  BY <1>3
<1> QED
  BY <1>3, <1>4, <1>5

LEMMA PickFirst ==
  ASSUME Ulonly, InTurn, NEW i \in FirstActive(runq, state)
  PROVE  i = 1 /\ runq # <<>> /\ runq[1] \in Threads /\ state[runq[1]] = "active"
<1>1. /\ runq \in Seq(Threads) /\ DOMAIN runq = 1..Len(runq) /\ Len(runq) \in Nat
      /\ i \in 1..Len(runq) /\ 1 \in 1..Len(runq)
  BY DEF FirstActive, Ulonly, TypeOK
<1>2. CASE runq[1] = Main
  <2>1. Len(runq) = 1
    BY <1>1, <1>2 DEF InTurn
  <2> QED
    BY <1>1, <2>1 DEF FirstActive
<1>3. CASE runq[1] # Main
  <2>1. state[runq[1]] = "active"
    BY <1>1, <1>3 DEF InTurn, Contains
  <2>2. i > 1 => 1 \in 1..(i - 1)
    BY <1>1
  <2> QED
    BY <1>1, <2>1, <2>2 DEF FirstActive
<1> QED
  BY <1>2, <1>3

----------------------------------------------------------------------------
\* Main's calls that queue nobody.
LEMMA ForkJoinCalls ==
  ASSUME ForkJoinClient, Ulonly, ForkJoinInv, NEW k \in KThreads,
         \/ \E t \in Threads : JoinLook(k, t)
         \/ JoinFound(k) \/ JoinMissing(k)
  PROVE  ForkJoinInv'
<1>1. k = K0 /\ Started /\ pc[k] \in {"user", "join_found", "join_missing"}
  BY OnlyK0, StartedBy
     DEF JoinLook, JoinFound, JoinMissing, CallingStarted, Calling, At, Ulonly
<1>2. klist = <<K0>> /\ Contains(klist, K0)
  <2>1. klist = <<K0>>
    BY <1>1 DEF Started, ForkJoinInv, InTurn
  <2> QED
    BY <2>1 DEF Contains
<1>3. UNCHANGED <<state, dep, ctx, runq, tail_ok, klist, th, save, last, next>>
  BY DEF JoinLook, JoinFound, JoinMissing, threadVars, queueVars, listVars, schedVars
<1>4. /\ th[K0] = Main
      /\ pc'[K0] \in {"user", "join_found", "join_missing", "join_wait"}
      /\ pc'[K0] \in JoinPcs => target'[K0] \in Threads \ {Main} /\ cur'[K0]
      /\ pc'[K0] = "join_missing" => state[target'[K0]] = "dead"
  <2>1. ASSUME NEW t \in Threads, JoinLook(k, t)
        PROVE  <1>4!:
    <3>1. /\ th[K0] \in Threads /\ "join" \in Calls[th[K0]] /\ t # th[K0]
          /\ state[t] # "unborn" /\ pc[K0] = "user"
      BY <1>1, <2>1 DEF JoinLook, CallingStarted, Calling, At, Ulonly, IInv, Typed, Placed, UserPcs
    <3>2. th[K0] = Main
      BY <3>1 DEF ForkJoinClient
    <3>3. /\ Goto(K0, IF Contains(runq, t) THEN "join_found" ELSE "join_missing")
          /\ target' = [target EXCEPT ![K0] = t] /\ cur' = [cur EXCEPT ![K0] = TRUE]
      BY <1>1, <1>2, <2>1 DEF JoinLook, Registered
    <3>4. /\ pc'[K0] = IF Contains(runq, t) THEN "join_found" ELSE "join_missing"
          /\ \A j \in KThreads : Carries(j, t) => j = K0
      BY <3>3, K0Steps
    <3>5. target'[K0] = t /\ cur'[K0] = TRUE
      BY <3>3, ConstantsAssumption DEF Ulonly, TypeOK
    <3>6. ~Contains(runq, t) => state[t] = "dead"
      <4>1. ~Carries(K0, t)
        BY <3>1 DEF Carries, Executes, Chose
      <4> QED
        BY <3>1, <3>4, <4>1 DEF ForkJoinInv, NoThreadLost, Live
    <3> QED
      BY <3>1, <3>2, <3>4, <3>5, <3>6
  <2>2. CASE JoinFound(k)
    <3>1. /\ pc[K0] = "join_found"
          /\ \/ Goto(K0, "user")
             \/ Goto(K0, "join_wait") /\ UNCHANGED <<target, cur>>
      BY <1>1, <2>2 DEF JoinFound, JoinReturn, At, joinVars
    <3>2. th[K0] = Main /\ target[K0] \in Threads \ {Main} /\ cur[K0]
      BY <3>1 DEF ForkJoinInv, MainJoins, JoinPcs
    <3> QED
      BY <3>1, <3>2, K0Steps DEF JoinPcs
  <2>3. CASE JoinMissing(k)
    <3>1. pc[K0] = "join_missing"
      BY <1>1, <2>3 DEF JoinMissing, At
    <3>2. th[K0] = Main /\ target[K0] \in Threads \ {Main}
      BY <3>1 DEF ForkJoinInv, MainJoins, JoinPcs
    <3>3. WalkEnd(klist, th, target[K0], NoThread) = {}
      <4>1. \A i \in DOMAIN klist : klist[i] = K0
        BY <1>2
      <4> QED
        BY <3>2, <4>1, ConstantsAssumption DEF WalkEnd
    <3>4. Goto(K0, "user")
      BY <1>1, <2>3, <3>3 DEF JoinMissing, IsRunning, WalkFaults, JoinReturn
    <3>5. pc'[K0] = "user"
      BY <3>4, K0Steps
    <3> QED
      BY <3>2, <3>5 DEF JoinPcs
  <2> QED
    BY <2>1, <2>2, <2>3
<1>5. InTurn'
  BY <1>3 DEF ForkJoinInv, InTurn, Contains
<1>6. save[K0] = "none"
  BY <1>1 DEF ForkJoinInv, MainJoins, SchedPcs
<1>7. MainJoins'
  BY <1>3, <1>4, <1>6 DEF ForkJoinInv, MainJoins, JoinPcs, Chose, Contains
<1>8. NoThreadLost'
  <2>1. \A t \in Threads : Carries(K0, t) => Carries(K0, t)'
    BY <1>1, <1>3, <1>4 DEF Carries, Executes, Chose, UserPcs
  <2>2. \A j \in KThreads, t \in Threads : Carries(j, t) => j = K0
    BY <1>1 DEF Ulonly, OneKthread, Carries, Executes, Chose, UserPcs, SyncPcs
  <2> QED
    BY <1>3, <2>1, <2>2, ConstantsAssumption DEF ForkJoinInv, NoThreadLost, Live, Contains
<1> QED
  BY <1>5, <1>7, <1>8 DEF ForkJoinInv

\* A thread that executes on K0 is the only one carried.
LEMMA UserCarries ==
  ASSUME Ulonly, pc[K0] \in UserPcs
  PROVE  /\ th[K0] \in Threads
         /\ \A k \in KThreads, t \in Threads : Carries(k, t) <=> k = K0 /\ t = th[K0]
         /\ \A t \in Threads : ~Chose(K0, t)
BY ConstantsAssumption
   DEF Ulonly, OneKthread, IInv, Typed, Placed, Carries, Executes, Chose, UserPcs, SyncPcs

LEMMA ForkJoinCreates ==
  ASSUME ForkJoinClient, Ulonly, ForkJoinInv, NEW k \in KThreads, NEW t \in Threads,
         FirstCreate(k, t) \/ Create(k, t)
  PROVE  ForkJoinInv'
<1>1. k = K0 /\ pc[K0] = "user" /\ t # Main
  BY OnlyK0 DEF FirstCreate, Create, CallingStarted, Calling, At, Ulonly
<1>2. th[K0] = Main
  <2>1. th[K0] \in Threads /\ "create" \in Calls[th[K0]]
    BY <1>1, UserCarries DEF FirstCreate, Create, CallingStarted, Calling, UserPcs
  <2> QED
    BY <2>1 DEF ForkJoinClient
<1>3. /\ ctx' = [ctx EXCEPT ![t] = "start"]
      /\ \E d \in DepInit : dep' = [dep EXCEPT ![t] = d]
      /\ Enqueue(t) /\ Goto(K0, "user") /\ UNCHANGED <<save, last, next>>
  BY <1>1 DEF FirstCreate, Create, MakeThread, AfterCreate, OneKthread, schedVars, Ulonly
<1>4. pc'[K0] = "user" /\ \A j \in KThreads \ {K0} : pc'[j] = "unborn"
  BY <1>3, K0Goes DEF Ulonly
<1>5. klist' = <<K0>> /\ th'[K0] = Main
  <2>1. CASE FirstCreate(k, t)
    <3>1. ~Started
      BY <1>1, <2>1, ExecutingIsCounted DEF FirstCreate, UserPcs, Ulonly
    <3>2. klist = <<>>
      BY <3>1 DEF Started
    <3> QED
      BY <1>1, <2>1, <3>2, ConstantsAssumption DEF FirstCreate, KtLink, Ulonly, TypeOK
  <2>2. CASE Create(k, t)
    <3>1. Started
      BY <2>2, StartedBy DEF Create, CallingStarted, Ulonly
    <3> QED
      BY <1>2, <2>2, <3>1 DEF Create, listVars, Started, ForkJoinInv, InTurn
  <2> QED
    BY <2>1, <2>2
<1>6. /\ tail_ok' /\ Len(runq') = Len(runq) + 1 /\ DOMAIN runq' = 1..(Len(runq) + 1)
      /\ runq'[Len(runq) + 1] = t /\ \A i \in 1..Len(runq) : runq'[i] = runq[i]
      /\ DOMAIN runq = 1..Len(runq) /\ Len(runq) \in Nat
      /\ \A u : Contains(runq', u) <=> Contains(runq, u) \/ u = t
  BY <1>3, QueueAtEnd DEF ForkJoinInv, InTurn
<1>7. ~Contains(runq, Main)
  <2>1. CASE Started
    BY <1>1, <1>2, <2>1, ExecutingAlone DEF Ulonly, UserPcs
  <2>2. CASE ~Started
    BY <2>2 DEF Ulonly, IInv, Safe, Beginning, Contains
  <2> QED
    BY <2>1, <2>2
<1>8. /\ state'[t] = "active" /\ \A u \in Threads \ {t, Main} : state'[u] = state[u]
  BY <1>1 DEF FirstCreate, Create, MakeThread, Ulonly, TypeOK
<1>9. InTurn'
  <2>1. \A i \in DOMAIN runq : runq[i] # Main
    BY <1>7 DEF Contains
  <2>2. \A i \in DOMAIN runq' : runq'[i] # Main
    BY <1>1, <1>6, <2>1
  <2>3. \A u \in Threads \ {Main} : Contains(runq', u) => state'[u] = "active"
    BY <1>6, <1>8 DEF ForkJoinInv, InTurn
  <2> QED
    BY <1>5, <1>6, <2>2, <2>3 DEF InTurn, Contains
<1>10. MainJoins'
  <2>1. save[K0] = "none"
    BY <1>1 DEF ForkJoinInv, MainJoins, SchedPcs
  <2>2. \A u \in Threads : ~Chose(K0, u)'
    BY <1>4 DEF Chose
  <2>3. ~Contains(runq, Main)'
    BY <1>1, <1>6, <1>7 DEF Contains
  <2>4. \A u \in Threads \ {Main} : ctx'[u] \in {"uninit", "start"}
    BY <1>3 DEF ForkJoinInv, MainJoins, Ulonly, TypeOK
  <2> QED
    BY <1>3, <1>4, <2>1, <2>2, <2>3, <2>4, ConstantsAssumption DEF MainJoins, JoinPcs
<1>11. NoThreadLost'
  <2>1. \A u \in Threads : Carries(K0, u) => u = Main
    BY <1>1, <1>2, UserCarries DEF UserPcs
  <2>2. Carries(K0, Main)'
    BY <1>4, <1>5 DEF Carries, Executes, UserPcs
  <2>3. \A u \in Threads : u \in Live' => u \in Live \/ u \in {t, Main}
    BY <1>8 DEF Live
  <2>4. \A u \in Live : Contains(runq, u) \/ u = Main
    BY <1>1, <1>2, UserCarries DEF UserPcs, ForkJoinInv, NoThreadLost, Live
  <2>5. \A u \in Live' : Contains(runq', u) \/ u = Main
    BY <1>6, <2>3, <2>4 DEF Live
  <2> QED
    BY <2>2, <2>5, ConstantsAssumption DEF NoThreadLost, Contains
<1> QED
  BY <1>9, <1>10, <1>11 DEF ForkJoinInv

LEMMA ForkJoinExit ==
  ASSUME ForkJoinClient, Ulonly, ForkJoinInv, NEW k \in KThreads, Exit(k)
  PROVE  ForkJoinInv'
<1> DEFINE u == th[K0]
<1>1. k = K0 /\ pc[K0] = "user" /\ Started
  BY OnlyK0, StartedBy DEF Exit, CallingStarted, Calling, At, Ulonly
<1>2. klist = <<K0>> /\ Contains(klist, K0)
  <2>1. klist = <<K0>>
    BY <1>1 DEF Started, ForkJoinInv, InTurn
  <2> QED
    BY <2>1 DEF Contains
<1>3. /\ state' = UpdateWaiting(runq, [state EXCEPT ![u] = "dead"], dep, u)
      /\ save' = [save EXCEPT ![K0] = "none"] /\ Goto(K0, "sched_check")
      /\ UNCHANGED <<dep, ctx, runq, tail_ok, klist, th, last, next>>
  BY <1>1, <1>2 DEF Exit, Registered, EnterScheduler, queueVars, listVars
<1>4. /\ u \in Threads /\ ~Contains(runq, u)
      /\ \A j \in KThreads, t \in Threads : Carries(j, t) => t = u
  BY <1>1, UserCarries, ExecutingAlone DEF Ulonly, UserPcs
<1> HIDE DEF u
<1>5. /\ state'[u] = "dead"
      /\ \A t \in Threads \ {u} :
           state'[t] = IF Contains(runq, t) /\ dep[t] = u THEN "active" ELSE state[t]
  BY <1>3, <1>4 DEF UpdateWaiting, Ulonly, TypeOK
<1>6. pc'[K0] = "sched_check" /\ save'[K0] = "none"
  BY <1>3, K0Steps, ConstantsAssumption DEF Ulonly, TypeOK
<1>7. InTurn'
  BY <1>3, <1>4, <1>5 DEF ForkJoinInv, InTurn, Contains
<1>8. \A t \in Threads : state[t] = "dead" => state'[t] = "dead"
  <2>1. \A t \in Threads : Contains(runq, t) => state[t] # "dead"
    BY DEF Ulonly, IInv, Safe, OneCarrier, Live
  <2> QED
    BY <1>5, <2>1
<1>9. \A t \in Threads : ~Chose(K0, t)'
  BY <1>6 DEF Chose
<1>10. Contains(runq, Main) =>
         dep[Main] \in Threads /\ (state'[Main] = "active" => state'[dep[Main]] = "dead")
  <2>1. Contains(runq, Main) => Main # u
    BY <1>4
  <2> QED
    BY <1>5, <1>8, <2>1, ConstantsAssumption DEF ForkJoinInv, MainJoins
<1>11. MainJoins'
  <2>1. UNCHANGED <<dep, ctx, runq>>
    BY <1>3
  <2>2. pc'[K0] \notin JoinPcs
    BY <1>6 DEF JoinPcs
  <2>3. \A t \in Threads \ {Main} : ctx'[t] \in {"uninit", "start"}
    BY <2>1 DEF ForkJoinInv, MainJoins
  <2>4. Contains(runq, Main)' \/ Chose(K0, Main)' =>
          dep'[Main] \in Threads /\ (state'[Main] = "active" => state'[dep'[Main]] = "dead")
    BY <1>9, <1>10, <2>1, ConstantsAssumption DEF Contains
  <2> QED
    BY <1>6, <1>9, <2>2, <2>3, <2>4 DEF MainJoins, JoinPcs
<1>12. NoThreadLost'
  <2>1. \A t \in Threads : t \in Live' => t # u /\ (t \in Live \/ Contains(runq, t))
    BY <1>5 DEF Live
  <2>2. \A t \in Live : t = u \/ Contains(runq, t)
    BY <1>4 DEF ForkJoinInv, NoThreadLost, Live
  <2> QED
    BY <1>3, <2>1, <2>2 DEF NoThreadLost, Live, Contains
<1> QED
  BY <1>7, <1>11, <1>12 DEF ForkJoinInv

\* Main goes to the end of the queue, waiting.
LEMMA ForkJoinWaits ==
  ASSUME ForkJoinClient, Ulonly, ForkJoinInv, NEW k \in KThreads, JoinWait(k)
  PROVE  ForkJoinInv'
<1>1. k = K0 /\ pc[K0] = "join_wait" /\ Started
  BY OnlyK0, StartedBy DEF JoinWait, At, Ulonly
<1>2. th[K0] = Main /\ target[K0] \in Threads \ {Main} /\ cur[K0]
  BY <1>1 DEF ForkJoinInv, MainJoins, JoinPcs
<1>3. /\ state' = [state EXCEPT ![Main] = "waiting"]
      /\ dep' = [dep EXCEPT ![Main] = target[K0]]
      /\ Enqueue(Main) /\ Goto(K0, "sched_check") /\ save' = [save EXCEPT ![K0] = "joined"]
      /\ UNCHANGED <<ctx, klist, th, last, next>>
  BY <1>1, <1>2 DEF JoinWait, EnterScheduler, listVars
<1>4. /\ tail_ok' /\ Len(runq') = Len(runq) + 1 /\ DOMAIN runq' = 1..(Len(runq) + 1)
      /\ runq'[Len(runq) + 1] = Main /\ \A i \in 1..Len(runq) : runq'[i] = runq[i]
      /\ DOMAIN runq = 1..Len(runq) /\ Len(runq) \in Nat
      /\ \A u : Contains(runq', u) <=> Contains(runq, u) \/ u = Main
  BY <1>3, QueueAtEnd, ConstantsAssumption DEF ForkJoinInv, InTurn
<1>5. ~Contains(runq, Main)
  BY <1>1, <1>2, ExecutingAlone DEF Ulonly, UserPcs
<1>6. pc'[K0] = "sched_check" /\ save'[K0] = "joined" /\ th'[K0] = Main
  BY <1>2, <1>3, K0Steps, ConstantsAssumption DEF Ulonly, TypeOK
<1>7. /\ state'[Main] = "waiting" /\ dep'[Main] = target[K0]
      /\ \A t \in Threads \ {Main} : state'[t] = state[t]
  BY <1>3, ConstantsAssumption DEF Ulonly, TypeOK
<1>8. InTurn'
  <2>1. \A i \in 1..Len(runq) : runq[i] # Main
    BY <1>4, <1>5 DEF Contains
  <2>2. \A i \in DOMAIN runq' : runq'[i] = Main => i = Len(runq')
    BY <1>4, <2>1
  <2>3. \A t \in Threads \ {Main} : Contains(runq', t) => state'[t] = "active"
    BY <1>4, <1>7 DEF ForkJoinInv, InTurn
  <2> QED
    BY <1>3, <1>4, <2>2, <2>3 DEF ForkJoinInv, InTurn, Contains
<1>9. MainJoins'
  <2>1. \A t \in Threads : ~Chose(K0, t)'
    BY <1>6 DEF Chose
  <2>2. StackOwner(K0)' = Main
    BY <1>6 DEF StackOwner
  <2> QED
    BY <1>2, <1>3, <1>6, <1>7, <2>1, <2>2 DEF ForkJoinInv, MainJoins, JoinPcs, SchedPcs, Contains
<1>10. NoThreadLost'
  <2>1. \A t \in Live : Contains(runq, t) \/ t = Main
    BY <1>1, <1>2, UserCarries DEF UserPcs, ForkJoinInv, NoThreadLost, Live
  <2>2. \A t \in Threads : t \in Live' => t \in Live \/ t = Main
    BY <1>7 DEF Live
  <2>3. \A t \in Live' : Contains(runq', t)
    BY <1>4, <2>1, <2>2 DEF Live
  <2> QED
    BY <2>3 DEF NoThreadLost, Contains
<1> QED
  BY <1>8, <1>9, <1>10 DEF ForkJoinInv

\* The scheduler before the dequeue: it only looks.
LEMMA ForkJoinChecks ==
  ASSUME ForkJoinClient, Ulonly, ForkJoinInv, NEW k \in KThreads, SchedCheck(k)
  PROVE  ForkJoinInv'
<1>1. k = K0 /\ pc[K0] = "sched_check" /\ Started /\ mypthread_sem = 1
  BY OnlyK0, StartedBy DEF SchedCheck, At, Ulonly
<1>2. UNCHANGED <<state, dep, ctx, runq, tail_ok, klist, th, next>>
  BY DEF SchedCheck, threadVars, queueVars, listVars
<1>3. \A t \in Threads : ~Chose(K0, t) /\ ~Carries(K0, t)
  BY <1>1 DEF Chose, Carries, Executes, UserPcs, SyncPcs
<1>4. \A j \in KThreads, t \in Threads : ~Carries(j, t)
  BY <1>3 DEF Ulonly, OneKthread, Carries, Executes, Chose, UserPcs, SyncPcs
<1>5. pc'[K0] \in {"gone", "user", "sched_pick"}
  <2>1. \E l \in {"gone", "user", "sched_pick"} : Goto(K0, l)
    BY <1>1 DEF SchedCheck
  <2> QED
    BY <2>1, K0Steps
<1>6. InTurn'
  BY <1>2 DEF ForkJoinInv, InTurn, Contains
<1>7. NoThreadLost'
  <2>1. \A t \in Live : Contains(runq, t)
    BY <1>4 DEF ForkJoinInv, NoThreadLost, Live
  <2> QED
    BY <1>2, <2>1 DEF NoThreadLost, Live, Contains
<1>8. \A t \in Threads : ~Chose(K0, t)'
  BY <1>5 DEF Chose
<1>9. save'[K0] # "none" => pc'[K0] \in SchedPcs /\ StackOwner(K0)' = Main
  <2>1. CASE mypthread_count = 0
    BY <1>1, <2>1, ConstantsAssumption DEF SchedCheck, Ulonly, TypeOK
  <2>2. CASE mypthread_count # 0
    <3>1. Goto(K0, "sched_pick") /\ last' = [last EXCEPT ![K0] = th[K0]] /\ save' = save
      BY <1>1, <2>2 DEF SchedCheck
    <3>2. pc'[K0] = "sched_pick" /\ last'[K0] = th[K0]
      BY <3>1, K0Steps, ConstantsAssumption DEF Ulonly, TypeOK
    <3> QED
      BY <1>1, <1>2, <3>1, <3>2 DEF StackOwner, SchedPcs, ForkJoinInv, MainJoins
  <2> QED
    BY <2>1, <2>2
<1>10. MainJoins'
  <2>1. pc'[K0] \notin JoinPcs
    BY <1>5 DEF JoinPcs
  <2>2. Contains(runq, Main)' \/ Chose(K0, Main)' =>
          dep'[Main] \in Threads /\ (state'[Main] = "active" => state'[dep'[Main]] = "dead")
    BY <1>2, <1>8, ConstantsAssumption DEF Contains, ForkJoinInv, MainJoins
  <2> QED
    BY <1>2, <1>8, <1>9, <2>1, <2>2 DEF ForkJoinInv, MainJoins, JoinPcs
<1> QED
  BY <1>6, <1>7, <1>10 DEF ForkJoinInv

LEMMA ForkJoinPicks ==
  ASSUME ForkJoinClient, Ulonly, ForkJoinInv, NEW k \in KThreads, SchedPick(k)
  PROVE  ForkJoinInv'
<1>1. k = K0 /\ pc[K0] = "sched_pick"
  BY OnlyK0 DEF SchedPick, At, Ulonly
<1>2. /\ UNCHANGED <<state, dep, ctx, klist, th, save, last>> /\ Goto(K0, "set_th")
  BY <1>1 DEF SchedPick, threadVars, listVars
<1>3. PICK i \in FirstActive(runq, state) :
        /\ next' = [next EXCEPT ![K0] = runq[i]] /\ runq' = Unlink(runq, i)
        /\ tail_ok' = TailAfterUnlink(runq, tail_ok, i)
  BY <1>1 DEF SchedPick
<1>4. i = 1 /\ runq # <<>> /\ runq[1] \in Threads /\ state[runq[1]] = "active"
  BY PickFirst DEF ForkJoinInv
<1> DEFINE m == Len(runq)
           t == runq[1]
<1>5. /\ runq \in Seq(Threads) /\ m \in Nat /\ m >= 1 /\ DOMAIN runq = 1..m
  BY <1>4 DEF Ulonly, TypeOK
<1>6. /\ Len(runq') = m - 1 /\ DOMAIN runq' = 1..(m - 1)
      /\ \A j \in 1..(m - 1) : runq'[j] = runq[j + 1]
  <2>1. runq' \in Seq(Threads) /\ Len(runq') = m - 1 /\ \A j \in 1..(m - 1) : runq'[j] = runq[j + 1]
    BY <1>3, <1>4, <1>5, UnlinkFirst
  <2> QED
    BY <2>1
<1>7. tail_ok'
  BY <1>3, <1>4, <1>5 DEF TailAfterUnlink, ForkJoinInv, InTurn
<1>8. pc'[K0] = "set_th" /\ next'[K0] = t
  BY <1>2, <1>3, <1>4, K0Steps, ConstantsAssumption DEF Ulonly, TypeOK
<1>9. \A u \in Threads : Chose(K0, u)' <=> u = t
  BY <1>8 DEF Chose
<1> HIDE DEF m
<1>10. \A u : /\ Contains(runq', u) => Contains(runq, u)
              /\ Contains(runq, u) => Contains(runq', u) \/ u = t
  <2>1. \A j \in 1..(m - 1) : j + 1 \in 1..m
    BY <1>5
  <2>2. \A j \in 1..m : j = 1 \/ (j - 1 \in 1..(m - 1) /\ (j - 1) + 1 = j)
    BY <1>5
  <2>3. \A u : Contains(runq', u) => Contains(runq, u)
    BY <1>5, <1>6, <2>1 DEF Contains
  <2>4. ASSUME NEW u, Contains(runq, u)
        PROVE  Contains(runq', u) \/ u = t
    <3>1. PICK j \in 1..m : runq[j] = u
      BY <1>5, <2>4 DEF Contains
    <3>2. CASE j = 1
      BY <3>1, <3>2
    <3>3. CASE j # 1
      <4>1. runq'[j - 1] = u /\ j - 1 \in 1..(m - 1)
        BY <1>6, <2>2, <3>1, <3>3
      <4> QED
        BY <1>6, <4>1 DEF Contains
    <3> QED
      BY <3>2, <3>3
  <2> QED
    BY <2>3, <2>4
<1>11. Contains(runq, t)
  BY <1>5 DEF Contains
<1> HIDE DEF t
<1>12. InTurn'
  <2>1. ASSUME NEW j \in DOMAIN runq', runq'[j] = Main
        PROVE  j = Len(runq')
    <3>1. j \in 1..(m - 1) /\ j + 1 \in 1..m /\ runq[j + 1] = Main
      BY <1>5, <1>6, <2>1
    <3>2. j + 1 = m
      BY <1>5, <3>1 DEF ForkJoinInv, InTurn, m
    <3> QED
      BY <1>5, <1>6, <3>1, <3>2
  <2> QED
    BY <1>2, <1>7, <1>10, <2>1 DEF ForkJoinInv, InTurn
<1>13. MainJoins'
  <2>1. Contains(runq', Main) \/ Chose(K0, Main)' => Contains(runq, Main)
    BY <1>9, <1>10, <1>11, ConstantsAssumption
  <2>2. \A u \in Threads : Chose(K0, u)' => state'[u] = "active"
    BY <1>2, <1>4, <1>9 DEF t
  <2>3. StackOwner(K0)' = StackOwner(K0) /\ pc'[K0] \in SchedPcs /\ pc'[K0] \notin JoinPcs
    BY <1>1, <1>2, <1>8 DEF StackOwner, SchedPcs, JoinPcs
  <2> QED
    BY <1>2, <2>1, <2>2, <2>3 DEF ForkJoinInv, MainJoins, JoinPcs
<1>14. NoThreadLost'
  <2>1. \A j \in KThreads, u \in Threads : ~Carries(j, u)
    BY <1>1 DEF Ulonly, OneKthread, Carries, Executes, Chose, UserPcs, SyncPcs
  <2>2. \A u \in Live : Contains(runq', u) \/ u = t
    BY <1>10, <2>1 DEF ForkJoinInv, NoThreadLost, Live
  <2>3. \A u \in Threads : u = t => Carries(K0, u)'
    BY <1>9 DEF Carries
  <2> QED
    BY <1>2, <2>2, <2>3, ConstantsAssumption DEF NoThreadLost, Live, Contains
<1> QED
  BY <1>12, <1>13, <1>14 DEF ForkJoinInv

LEMMA ForkJoinSetTh ==
  ASSUME ForkJoinClient, Ulonly, ForkJoinInv, NEW k \in KThreads, SetTh(k)
  PROVE  ForkJoinInv'
<1>1. k = K0 /\ pc[K0] = "set_th"
  BY OnlyK0 DEF SetTh, At, Ulonly
<1>2. /\ UNCHANGED <<state, dep, ctx, runq, tail_ok, klist, save, last, next>>
      /\ Goto(K0, "switch")
  BY <1>1 DEF SetTh, threadVars, queueVars, listVars, schedVars
<1>3. pc'[K0] = "switch"
  BY <1>2, K0Steps
<1>4. \A t \in Threads : Chose(K0, t)' <=> Chose(K0, t)
  BY <1>1, <1>2, <1>3 DEF Chose
<1>5. StackOwner(K0)' = StackOwner(K0) /\ pc'[K0] \in SchedPcs /\ pc'[K0] \notin JoinPcs
  BY <1>1, <1>2, <1>3 DEF StackOwner, SchedPcs, JoinPcs
<1>6. InTurn'
  BY <1>2 DEF ForkJoinInv, InTurn, Contains
<1>7. MainJoins'
  <2>1. Contains(runq, Main)' \/ Chose(K0, Main)' => Contains(runq, Main) \/ Chose(K0, Main)
    BY <1>2, <1>4, ConstantsAssumption DEF Contains
  <2> QED
    BY <1>2, <1>4, <1>5, <2>1 DEF ForkJoinInv, MainJoins, JoinPcs
<1>8. NoThreadLost'
  <2>1. \A j \in KThreads, t \in Threads : Carries(j, t) => j = K0 /\ Chose(K0, t)
    BY <1>1 DEF Ulonly, OneKthread, Carries, Executes, Chose, UserPcs, SyncPcs
  <2>2. \A t \in Threads : Chose(K0, t) => Carries(K0, t)'
    BY <1>4 DEF Carries
  <2> QED
    BY <1>2, <2>1, <2>2, ConstantsAssumption DEF ForkJoinInv, NoThreadLost, Live, Contains
<1> QED
  BY <1>6, <1>7, <1>8 DEF ForkJoinInv

\* Only main is ever saved, so only main can be resumed in a join.
LEMMA ForkJoinSwitches ==
  ASSUME ForkJoinClient, Ulonly, ForkJoinInv, NEW k \in KThreads, Switch(k), TypeOK', OneKthread'
  PROVE  /\ ForkJoinInv'
         /\ ctx'[next[K0]] = "joined" => state[dep[next[K0]]] = "dead"
<1> DEFINE t == next[K0]
<1>1. k = K0 /\ pc[K0] = "switch"
  BY OnlyK0 DEF Switch, At, Ulonly
<1>2. /\ UNCHANGED <<state, dep, runq, tail_ok, klist, th>>
      /\ ctx' = IF save[K0] = "none" THEN ctx ELSE [ctx EXCEPT ![last[K0]] = save[K0]]
      /\ save' = [save EXCEPT ![K0] = "none"]
      /\ \E l : Goto(K0, l)
  BY <1>1 DEF Switch, SavedCtx, queueVars, listVars
<1>3. t \in Threads /\ Chose(K0, t) /\ th[K0] = t
  BY <1>1 DEF Chose, Ulonly, IInv, Typed, Placed
<1>4. \A u \in Threads \ {Main} : ctx'[u] \in {"uninit", "start"}
  <2>1. save[K0] # "none" => last[K0] = Main
    BY <1>1 DEF ForkJoinInv, MainJoins, StackOwner
  <2> QED
    BY <1>2, <2>1 DEF ForkJoinInv, MainJoins, Ulonly, TypeOK
<1>5. ctx'[t] = "joined" => state[dep[t]] = "dead"
  <2>1. ctx'[t] = "joined" => t = Main
    BY <1>3, <1>4
  <2> QED
    BY <1>3, <2>1 DEF ForkJoinInv, MainJoins
<1>6. pc'[K0] = "user"
  <2>1. pc'[K0] # "undef"
    BY DEF OneKthread, UlonlyPcs, UserPcs, SyncPcs, SchedPcs
  <2>2. PICK l : Goto(K0, l) /\ l \in {"undef", Landing(ctx'[t])}
    BY <1>1 DEF Switch
  <2>3. l = Landing(ctx'[t]) /\ pc'[K0] = l
    BY <2>1, <2>2, K0Steps
  <2>4. ctx'[t] \in CoreCtxs /\ pc'[K0] \in Pcs
    BY <1>3, ConstantsAssumption DEF TypeOK, CoreCtxs
  <2>5. "uninit" \notin Pcs
    BY DEF Pcs, BirthPcs, UserPcs, SyncPcs, SchedPcs, EndPcs
  <2> QED
    BY <2>3, <2>4, <2>5 DEF Landing, CoreCtxs
<1>7. save'[K0] = "none"
  BY <1>2, ConstantsAssumption DEF Ulonly, TypeOK
<1>8. \A u \in Threads : ~Chose(K0, u)'
  BY <1>6 DEF Chose
<1> HIDE DEF t
<1>9. InTurn'
  BY <1>2 DEF ForkJoinInv, InTurn, Contains
<1>10. MainJoins'
  <2>1. Contains(runq, Main)' \/ Chose(K0, Main)' => Contains(runq, Main)
    BY <1>2, <1>8, ConstantsAssumption DEF Contains
  <2> QED
    BY <1>2, <1>4, <1>6, <1>7, <1>8, <2>1 DEF ForkJoinInv, MainJoins, JoinPcs
<1>11. NoThreadLost'
  <2>1. \A j \in KThreads, u \in Threads : Carries(j, u) => u = t
    BY <1>1, <1>3 DEF Ulonly, OneKthread, Carries, Executes, Chose, UserPcs, SyncPcs
  <2>2. \A u \in Threads : u = t => Carries(K0, u)'
    BY <1>2, <1>3, <1>6 DEF Carries, Executes, UserPcs
  <2> QED
    BY <1>2, <2>1, <2>2, ConstantsAssumption DEF ForkJoinInv, NoThreadLost, Live, Contains
<1> QED
  BY <1>5, <1>9, <1>10, <1>11 DEF ForkJoinInv, t

LEMMA NextForkJoin ==
  ASSUME ForkJoinClient, Ulonly, ForkJoinInv, [Next]_vars, TypeOK', OneKthread'
  PROVE  ForkJoinInv'
<1>1. ASSUME NEW k \in KThreads, NEW kt \in Policies, MypthreadInit(k, kt)
      PROVE  ForkJoinInv'
  BY <1>1 DEF MypthreadInit, threadVars, queueVars, listVars, joinVars, schedVars,
              ForkJoinInv, InTurn, MainJoins, NoThreadLost, Live, Carries, Executes, Chose,
              StackOwner, Contains
<1>2. CASE UNCHANGED vars
  BY <1>2 DEF vars, threadVars, queueVars, listVars, joinVars, schedVars,
              ForkJoinInv, InTurn, MainJoins, NoThreadLost, Live, Carries, Executes, Chose,
              StackOwner, Contains
<1>3. ASSUME NEW k \in KThreads,
             \/ CreateKthread(k) \/ CloneFailure(k) \/ \E n \in KThreads : Clone(k, n)
             \/ ReadTail(k) \/ LinkNode(k) \/ MoveTail(k) \/ Yield(k) \/ Self(k)
      PROVE  FALSE
  <2>1. k = K0 /\ pc[K0] \in UlonlyPcs
    BY <1>3, OnlyK0
       DEF CreateKthread, CloneFailure, Clone, ReadTail, LinkNode, MoveTail, Yield, Self,
           CallingStarted, Calling, At, Ulonly
  <2>2. Yield(k) \/ Self(k)
    BY <1>3, <2>1
       DEF CreateKthread, CloneFailure, Clone, ReadTail, LinkNode, MoveTail, At, UlonlyPcs,
           UserPcs, SyncPcs, SchedPcs
  <2>3. pc[K0] = "user" /\ (Calls[th[K0]] \cap {"yield", "self"}) # {}
    BY <2>1, <2>2 DEF Yield, Self, CallingStarted, Calling, At
  <2>4. th[K0] \in Threads
    BY <2>3, UserCarries DEF UserPcs
  <2> QED
    BY <2>3, <2>4 DEF ForkJoinClient
<1> QED
  BY <1>1, <1>2, <1>3, ForkJoinCalls, ForkJoinCreates, ForkJoinExit, ForkJoinWaits,
     ForkJoinChecks, ForkJoinPicks, ForkJoinSetTh, ForkJoinSwitches
     DEF Next, ClientCall, LibraryStep

LEMMA ForkJoinInvariance ==
  ASSUME ForkJoinClient
  PROVE  Spec => [](Ulonly /\ ForkJoinInv)
<1>1. Init => OneKthread /\ ForkJoinInv
  BY InitOneKthread, InitForkJoin
<1>2. IInv /\ OneKthread /\ [Next]_vars => OneKthread'
  BY NextOneKthread DEF ForkJoinClient
<1>3. TypeOK /\ IInv /\ OneKthread /\ ForkJoinInv /\ [Next]_vars /\ TypeOK' /\ OneKthread' => ForkJoinInv'
  BY NextForkJoin DEF Ulonly
<1>4. Spec => []TypeOK
  BY TypeCorrect
<1>5. Spec => []OneKthread
  BY <1>1, <1>2, Invariance, PTL DEF Spec
<1>6. Spec => []ForkJoinInv
  BY <1>1, <1>3, <1>4, <1>5, Invariance, PTL DEF Spec
<1>7. TypeOK /\ IInv /\ OneKthread => Ulonly
  BY DEF Ulonly
<1> QED
  BY <1>4, <1>5, <1>6, <1>7, Invariance, PTL

\* Every live thread stays within reach of the dequeue: with fork and join on
\* one kernel thread the tail pointer never dangles.
THEOREM NobodyLost ==
  ASSUME ForkJoinClient
  PROVE  Spec => []NoThreadLost
<1>1. Ulonly /\ ForkJoinInv => NoThreadLost
  BY DEF ForkJoinInv
<1> QED
  BY <1>1, ForkJoinInvariance, PTL

LEMMA JoinReturnsRight ==
  ASSUME ForkJoinClient, Ulonly, ForkJoinInv, Next, TypeOK', OneKthread', NEW j \in KThreads
  PROVE  /\ pc[j] \in {"join_found", "join_missing"} /\ pc'[j] = "user"
              => state[target[j]] = "dead"
         /\ pc[j] = "switch" /\ pc'[j] = "user" /\ ctx'[next[j]] = "joined"
              => state[dep[next[j]]] = "dead"
<1>1. CASE j # K0
  BY <1>1 DEF Ulonly, OneKthread
<1>2. CASE j = K0 /\ pc[K0] = "join_missing"
  BY <1>2 DEF ForkJoinInv, MainJoins
<1>3. PICK k \in KThreads :
        \/ \E kt \in Policies : MypthreadInit(k, kt)
        \/ ClientCall(k) \/ Self(k) \/ LibraryStep(k) \/ CloneFailure(k)
  BY DEF Next
<1>4. k = K0
  BY <1>3, OnlyK0
     DEF MypthreadInit, ClientCall, Self, LibraryStep, CloneFailure, FirstCreate, Create, JoinLook,
         Exit, Yield, CreateKthread, Clone, ReadTail, LinkNode, MoveTail, SchedCheck, SchedPick,
         SetTh, Switch, JoinFound, JoinMissing, JoinWait, CallingStarted, Calling, At, Ulonly
<1>5. CASE j = K0 /\ pc[K0] = "join_found"
  <2>1. JoinFound(K0)
    BY <1>3, <1>4, <1>5
       DEF MypthreadInit, ClientCall, Self, LibraryStep, CloneFailure, FirstCreate, Create, JoinLook,
           Exit, Yield, CreateKthread, Clone, ReadTail, LinkNode, MoveTail, SchedCheck, SchedPick,
           SetTh, Switch, JoinMissing, JoinWait, CallingStarted, Calling, At
  <2>2. CASE state[target[K0]] # "dead"
    <3>1. Goto(K0, "join_wait")
      BY <2>1, <2>2 DEF JoinFound
    <3> QED
      BY <1>5, <3>1, K0Steps
  <2> QED
    BY <1>5, <2>2
<1>6. CASE j = K0 /\ pc[K0] = "switch"
  <2>1. Switch(K0)
    BY <1>3, <1>4, <1>6
       DEF MypthreadInit, ClientCall, Self, LibraryStep, CloneFailure, FirstCreate, Create, JoinLook,
           Exit, Yield, CreateKthread, Clone, ReadTail, LinkNode, MoveTail, SchedCheck, SchedPick,
           SetTh, JoinFound, JoinMissing, JoinWait, CallingStarted, Calling, At
  <2> QED
    BY <1>6, <2>1, ForkJoinSwitches
<1> QED
  BY <1>1, <1>2, <1>5, <1>6

\* Whether a join returns at once, or main is resumed in it, the thread it
\* named has exited, whatever dependent_th held in records nobody initialised.
THEOREM JoinIsRight ==
  ASSUME ForkJoinClient
  PROVE  Spec => JoinWaitsForExit
<1>1. /\ Ulonly /\ ForkJoinInv /\ Ulonly' /\ [Next]_vars
      => [\A k \in KThreads :
            /\ pc[k] \in {"join_found", "join_missing"} /\ pc'[k] = "user"
                 => state[target[k]] = "dead"
            /\ pc[k] = "switch" /\ pc'[k] = "user" /\ ctx'[next[k]] = "joined"
                 => state[dep[next[k]]] = "dead"]_vars
  BY JoinReturnsRight DEF Ulonly
<1> QED
  BY <1>1, ForkJoinInvariance, PTL DEF Spec, JoinWaitsForExit
=============================================================================
