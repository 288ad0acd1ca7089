-------------------------- MODULE QueueUtil_proofs --------------------------
(***************************************************************************)
(* What the list operations of QueueUtil keep and return.                  *)
(***************************************************************************)
EXTENDS QueueUtil, SequenceTheorems, TLAPS, WellFoundedInduction

\* Nothing is twice in q.
Distinct(q) == \A i, j \in DOMAIN q : q[i] = q[j] => i = j

\* ll_add yields a list of threads that holds what it held, at most t besides,
\* and t at most once if it was not there.
LEMMA LlAddKeeps ==
  ASSUME NEW S, NEW q \in Seq(S), NEW t \in S, NEW ok \in BOOLEAN
  PROVE  /\ LlAdd(q, ok, t) \in Seq(S)
         /\ \A u : Contains(LlAdd(q, ok, t), u) => Contains(q, u) \/ u = t
         /\ Distinct(q) /\ ~Contains(q, t) => Distinct(LlAdd(q, ok, t))
<1>1. /\ Append(q, t) \in Seq(S)
      /\ Len(Append(q, t)) = Len(q) + 1
      /\ \A i \in 1..Len(q) : Append(q, t)[i] = q[i]
      /\ Append(q, t)[Len(q) + 1] = t
  OBVIOUS
<1>2. DOMAIN q = 1..Len(q) /\ DOMAIN Append(q, t) = 1..(Len(q) + 1) /\ Len(q) \in Nat
  OBVIOUS
<1>3. \A u : Contains(Append(q, t), u) => Contains(q, u) \/ u = t
  BY <1>1, <1>2 DEF Contains
<1>4. Distinct(q) /\ ~Contains(q, t) => Distinct(Append(q, t))
  BY <1>1, <1>2 DEF Contains, Distinct
<1> QED
  BY <1>1, <1>3, <1>4 DEF LlAdd

\* What is left when the element at a position is taken out.
LEMMA RemoveAtIs ==
  ASSUME NEW S, NEW q \in Seq(S), NEW i \in DOMAIN q
  PROVE  /\ RemoveAt(q, i) \in Seq(S) /\ Len(RemoveAt(q, i)) = Len(q) - 1
         /\ \A j \in 1..(Len(q) - 1) : RemoveAt(q, i)[j] = IF j < i THEN q[j] ELSE q[j + 1]
<1> DEFINE r == RemoveAt(q, i)
<1>1. DOMAIN q = 1..Len(q) /\ Len(q) \in Nat /\ i \in 1..Len(q)
  OBVIOUS
<1>2. /\ SubSeq(q, 1, i - 1) \in Seq(S) /\ Len(SubSeq(q, 1, i - 1)) = i - 1
      /\ \A j \in 1..(i - 1) : SubSeq(q, 1, i - 1)[j] = q[j]
  BY <1>1, SubSeqProperties
<1>3. /\ SubSeq(q, i + 1, Len(q)) \in Seq(S)
      /\ Len(SubSeq(q, i + 1, Len(q))) = Len(q) - i
      /\ \A j \in 1..(Len(q) - i) : SubSeq(q, i + 1, Len(q))[j] = q[i + j]
  BY <1>1, SubSeqProperties
<1>4. /\ r \in Seq(S) /\ Len(r) = Len(q) - 1
      /\ \A j \in 1..(Len(q) - 1) : r[j] = IF j < i THEN q[j] ELSE q[j + 1]
  <2> DEFINE a == SubSeq(q, 1, i - 1)
             b == SubSeq(q, i + 1, Len(q))
  <2> HIDE DEF a, b
  <2>1. r = a \o b
    BY DEF RemoveAt, a, b
  <2>2. /\ a \in Seq(S) /\ Len(a) = i - 1 /\ \A j \in 1..(i - 1) : a[j] = q[j]
        /\ b \in Seq(S) /\ Len(b) = Len(q) - i
        /\ \A j \in 1..(Len(q) - i) : b[j] = q[i + j]
    BY <1>2, <1>3 DEF a, b
  <2>3. /\ a \o b \in Seq(S) /\ Len(a \o b) = Len(a) + Len(b)
        /\ \A j \in 1..(Len(a) + Len(b)) :
             (a \o b)[j] = IF j <= Len(a) THEN a[j] ELSE b[j - Len(a)]
    BY <2>2, ConcatProperties
  <2>4. ASSUME NEW j \in 1..(Len(q) - 1)
        PROVE  r[j] = IF j < i THEN q[j] ELSE q[j + 1]
    <3>1. CASE j < i
      BY <1>1, <2>1, <2>2, <2>3, <3>1
    <3>2. CASE ~(j < i)
      <4>1. j - (i - 1) \in 1..(Len(q) - i) /\ i + (j - (i - 1)) = j + 1
        BY <1>1, <3>2
      <4>2. r[j] = b[j - (i - 1)]
        <5>1. j \in 1..(Len(a) + Len(b)) /\ ~(j <= Len(a)) /\ Len(a) = i - 1
          BY <1>1, <2>2, <3>2
        <5> QED
          BY <2>1, <2>3, <5>1
      <4>3. b[j - (i - 1)] = q[i + (j - (i - 1))]
        BY <2>2, <4>1
      <4> QED
        BY <3>2, <4>1, <4>2, <4>3
    <3> QED
      BY <3>1, <3>2
  <2> QED
    BY <1>1, <2>1, <2>2, <2>3, <2>4
<1> QED
  BY <1>4

\* Unlinking a node yields a list of threads that held nothing else, and not
\* the node's thread any more if it was there once.
LEMMA UnlinkKeeps ==
  ASSUME NEW S, NEW q \in Seq(S), NEW i \in DOMAIN q
  PROVE  /\ Unlink(q, i) \in Seq(S)
         /\ \A u : Contains(Unlink(q, i), u) => Contains(q, u)
         /\ Distinct(q) => Distinct(Unlink(q, i)) /\ ~Contains(Unlink(q, i), q[i])
<1> DEFINE r == Unlink(q, i)
<1>1. DOMAIN q = 1..Len(q) /\ Len(q) \in Nat /\ i \in 1..Len(q)
  OBVIOUS
<1>2. /\ r \in Seq(S) /\ Len(r) = Len(q) - 1
      /\ \A j \in 1..(Len(q) - 1) : r[j] = IF j < i THEN q[j] ELSE q[j + 1]
  BY RemoveAtIs DEF Unlink
<1> HIDE DEF r
<1>3. \A u : Contains(r, u) => Contains(q, u)
  BY <1>1, <1>2 DEF Contains
<1>4. Distinct(q) => Distinct(r) /\ ~Contains(r, q[i])
  <2> SUFFICES ASSUME Distinct(q) PROVE Distinct(r) /\ ~Contains(r, q[i])
    OBVIOUS
  <2>1. DOMAIN r = 1..(Len(q) - 1)
    BY <1>2
  <2>2. \A j, l \in 1..Len(q) : q[j] = q[l] => j = l
    BY <1>1 DEF Distinct
  <2>3. Distinct(r)
    <3> SUFFICES ASSUME NEW j \in 1..(Len(q) - 1), NEW l \in 1..(Len(q) - 1), r[j] = r[l]
                 PROVE  j = l
      BY <2>1 DEF Distinct
    <3> DEFINE at(k) == IF k < i THEN k ELSE k + 1
    <3>1. r[j] = q[at(j)] /\ r[l] = q[at(l)]
      BY <1>2
    <3>2. at(j) \in 1..Len(q) /\ at(l) \in 1..Len(q)
      BY <1>1
    <3>3. at(j) = at(l)
      BY <2>2, <3>1, <3>2
    <3> QED
      BY <1>1, <3>3
  <2>4. ~Contains(r, q[i])
    BY <1>1, <1>2, <2>1, <2>2 DEF Contains
  <2> QED
    BY <2>3, <2>4
<1> QED
  BY <1>2, <1>3, <1>4 DEF r

\* The dequeue returns a member of the queue that is active.
LEMMA FirstActiveIsActive ==
  ASSUME NEW S, NEW q \in Seq(S), NEW state, NEW i \in FirstActive(q, state)
  PROVE  /\ i \in DOMAIN q /\ q[i] \in S /\ Contains(q, q[i])
         /\ state[q[i]] = "active"
BY DEF FirstActive, Contains

\* Registering k yields a list of kernel threads, and never the empty list.
LEMMA KtLinkKeeps ==
  ASSUME NEW S, NEW l \in Seq(S), NEW k \in S, NEW p
  PROVE  KtLink(l, p, k) \in Seq(S) /\ KtLink(l, p, k) # <<>>
<1> DEFINE i == CHOOSE i \in DOMAIN l : l[i] = p
<1>1. CASE l # <<>> /\ Contains(l, p)
  <2>1. i \in 1..Len(l)
    BY <1>1 DEF Contains
  <2>2. SubSeq(l, 1, i) \in Seq(S)
    <3> HIDE DEF i
    <3>1. \A j \in 1..i : l[j] \in S
      BY <2>1
    <3> QED
      BY <2>1, <3>1, SubSeqProperties
  <2> HIDE DEF i
  <2>3. Append(SubSeq(l, 1, i), k) \in Seq(S) /\ Append(SubSeq(l, 1, i), k) # <<>>
    BY <2>2
  <2> QED
    BY <1>1, <2>3 DEF KtLink, i
<1>2. CASE ~(l # <<>> /\ Contains(l, p))
  BY <1>2 DEF KtLink
<1> QED
  BY <1>1, <1>2

----------------------------------------------------------------------------
\* A mutex's or a condition variable's list gets a thread, and wakes threads.
LEMMA AppendKeeps ==
  ASSUME NEW S, NEW q \in Seq(S), NEW t \in S
  PROVE  /\ Append(q, t) \in Seq(S) /\ Append(q, t) # <<>>
         /\ Contains(Append(q, t), t)
         /\ \A u : Contains(q, u) => Contains(Append(q, t), u)
<1>1. /\ Append(q, t) \in Seq(S)
      /\ Len(q) \in Nat /\ Len(Append(q, t)) = Len(q) + 1
      /\ \A i \in 1..Len(q) : Append(q, t)[i] = q[i]
      /\ Append(q, t)[Len(q) + 1] = t
  OBVIOUS
<1>2. \A i \in 1..Len(q) : i \in 1..(Len(q) + 1)
  BY <1>1
<1>3. Len(q) + 1 \in 1..(Len(q) + 1)
  BY <1>1
<1> QED
  BY <1>1, <1>2, <1>3 DEF Contains

LEMMA LlFreeWakes ==
  ASSUME NEW T, NEW S, NEW state \in [T -> S], "active" \in S, NEW q
  PROVE  /\ LlFree(q, state) \in [T -> S]
         /\ \A t \in T : LlFree(q, state)[t] = IF Contains(q, t) THEN "active" ELSE state[t]
BY DEF LlFree

LEMMA LlFreeOneWakes ==
  ASSUME NEW T, NEW S, NEW state \in [T -> S], "active" \in S, NEW q \in Seq(T)
  PROVE  /\ LlFreeOne(q, state) \in [T -> S]
         /\ \A t \in T : LlFreeOne(q, state)[t] \in {"active", state[t]}
         /\ \A t \in T : Contains(q, t) /\ LlFreeOne(q, state)[t] # "active" =>
              q # <<>> /\ Contains(Tail(q), t)
<1>1. CASE q = <<>>
  BY <1>1 DEF LlFreeOne, Contains
<1>2. CASE q # <<>>
  <2>1. LlFreeOne(q, state) = [state EXCEPT ![Head(q)] = "active"] /\ Head(q) = q[1]
    BY <1>2 DEF LlFreeOne
  <2>2. /\ Tail(q) \in Seq(T) /\ Len(Tail(q)) = Len(q) - 1 /\ Len(q) \in Nat \ {0}
        /\ \A i \in 1..Len(Tail(q)) : Tail(q)[i] = q[i + 1]
    BY <1>2
  <2>3. ASSUME NEW t \in T, Contains(q, t), LlFreeOne(q, state)[t] # "active"
        PROVE  Contains(Tail(q), t)
    <3>1. PICK i \in 1..Len(q) : q[i] = t
      BY <2>3 DEF Contains
    <3>2. i # 1
      BY <2>1, <2>3, <3>1
    <3>3. i - 1 \in 1..Len(Tail(q)) /\ Tail(q)[i - 1] = q[(i - 1) + 1] /\ (i - 1) + 1 = i
      BY <2>2, <3>1, <3>2
    <3> QED
      BY <3>1, <3>3 DEF Contains
  <2>4. q[1] \in T
    BY <1>2
  <2> QED
    BY <1>2, <2>1, <2>3, <2>4
<1> QED
  BY <1>1, <1>2

----------------------------------------------------------------------------
(***************************************************************************)
(* Induction.  The library states it with a predicate as a parameter; here *)
(* it is stated with a set, and follows from < being well-founded.  What a *)
(* recursive function is, where one was found, it is by this induction.    *)
(***************************************************************************)

LEMMA NatOrder ==
  \E R : IsWellFoundedOn(R, Nat) /\ \A x, y \in Nat : x < y => <<x, y>> \in R
<1> DEFINE R == OpToRel(<, Nat)
<1>1. IsWellFoundedOn(R, Nat)
  BY NatLessThanWellFounded
<1>2. \A x, y \in Nat : x < y => <<x, y>> \in R
  BY Zenon DEF OpToRel
<1> HIDE DEF R
<1> QED
  BY <1>1, <1>2

LEMMA LeastNatural ==
  ASSUME NEW T, T \subseteq Nat, T # {}
  PROVE  \E x \in T : \A y \in T : x <= y
<1>1. PICK R : IsWellFoundedOn(R, Nat) /\ \A x, y \in Nat : x < y => <<x, y>> \in R
  BY NatOrder
<1>2. PICK x \in T : \A y \in T : ~(<<y, x>> \in R)
  <2>1. IsWellFoundedOn(R, Nat)
    BY <1>1
  <2> QED
    BY <2>1, WFMin
<1>3. \A y \in T : ~(y < x)
  BY <1>1, <1>2
<1> QED
  BY <1>3

LEMMA SetInduction ==
  ASSUME NEW S, 0 \in S, \A n \in Nat : n \in S => n + 1 \in S
  PROVE  Nat \subseteq S
<1> SUFFICES ASSUME NEW b \in Nat, b \notin S
             PROVE  FALSE
  OBVIOUS
<1>1. Nat \ S \subseteq Nat /\ Nat \ S # {}
  OBVIOUS
<1>2. PICK x \in Nat \ S : \A y \in Nat \ S : x <= y
  BY <1>1, LeastNatural
<1>3. x # 0 /\ x - 1 \in Nat
  BY <1>2
<1>4. x - 1 \in S
  BY <1>2, <1>3
<1>5. (x - 1) + 1 \in S
  BY <1>3, <1>4
<1> QED
  BY <1>2, <1>3, <1>5

=============================================================================
