-------------------------- MODULE Hw1Queue_proofs --------------------------
(***************************************************************************)
(* The circular queue of the first homework library, for any number of     *)
(* threads and nodes: its links always close to one ring, and it is first  *)
(* come, first served.                                                     *)
(*                                                                         *)
(* Walk follows the links for as many steps as there are nodes.  That it   *)
(* returns to the front is not inductive, as it does not say where each    *)
(* link leads: IsRing names the sequence of the ring's nodes.              *)
(***************************************************************************)
EXTENDS Hw1Queue, QueueUtil_proofs, FiniteSetTheorems

\* What next and tcb may hold.
LinkValues == Nodes \cup {NULL, Junk}
ThreadValues == Threads \cup {MainThread, Junk}

----------------------------------------------------------------------------
\* Walk, as a function of what it reads.

WalkOf(from, link) ==
  LET node[j \in 0..Cardinality(Nodes)] == IF j = 0 THEN from ELSE link[node[j - 1]]
  IN  node

LEMMA WalkIsWalkOf ==
  Walk = WalkOf(front, next) /\ Walk' = WalkOf(front', next')
BY DEF Walk, WalkOf

LEMMA NodesCounted == Cardinality(Nodes) \in Nat
BY Hw1Assumption, FS_CardinalityType

\* Such a function exists, for any number of steps.
Follows(f, from, link, n) == f = [j \in 0..n |-> IF j = 0 THEN from ELSE link[f[j - 1]]]

LEMMA StepsExist ==
  ASSUME NEW from, NEW link, NEW N \in Nat
  PROVE  \E f : Follows(f, from, link, N)
<1> DEFINE S == {n \in Nat : \E f : Follows(f, from, link, n)}
<1>1. 0 \in S
  <2>1. Follows([j \in 0..0 |-> from], from, link, 0)
    BY \A j \in 0..0 : j = 0 DEF Follows
  <2> QED
    BY <2>1
<1>2. ASSUME NEW n \in Nat, n \in S
      PROVE  n + 1 \in S
  <2>1. PICK f : Follows(f, from, link, n)
    BY <1>2
  <2> DEFINE g == [j \in 0..(n + 1) |-> IF j <= n THEN f[j] ELSE link[f[n]]]
  <2>2. \A j \in 0..n : g[j] = f[j] /\ f[j] = IF j = 0 THEN from ELSE link[f[j - 1]]
    BY <2>1 DEF Follows
  <2>3. \A j \in 0..(n + 1) : g[j] = IF j = 0 THEN from ELSE link[g[j - 1]]
    <3>1. ASSUME NEW j \in 0..(n + 1)
          PROVE  g[j] = IF j = 0 THEN from ELSE link[g[j - 1]]
      <4>1. CASE j = 0
        <5>1. 0 \in 0..n
          OBVIOUS
        <5>2. g[0] = from
          BY <2>2, <5>1
        <5> QED
          BY <4>1, <5>2
      <4>2. CASE j # 0 /\ j <= n
        <5>1. j \in 0..n /\ j - 1 \in 0..n
          BY <4>2
        <5> QED
          BY <2>2, <4>2, <5>1
      <4>3. CASE j = n + 1
        <5>1. n \in 0..n /\ j - 1 = n /\ j # 0 /\ ~(j <= n)
          BY <4>3
        <5> QED
          BY <2>2, <4>3, <5>1
      <4> QED
        BY <4>1, <4>2, <4>3
    <3> QED
      BY <3>1
  <2>4. g = [j \in 0..(n + 1) |-> g[j]]
    OBVIOUS
  <2> HIDE DEF g
  <2>5. Follows(g, from, link, n + 1)
    BY <2>3, <2>4 DEF Follows
  <2> QED
    BY <2>5
<1> HIDE DEF S
<1>3. Nat \subseteq S
  BY <1>1, <1>2, SetInduction
<1> QED
  BY <1>3 DEF S

LEMMA WalkSteps ==
  ASSUME NEW from, NEW link
  PROVE  /\ WalkOf(from, link)[0] = from
         /\ \A j \in 1..Cardinality(Nodes) :
              WalkOf(from, link)[j] = link[WalkOf(from, link)[j - 1]]
<1> DEFINE N == Cardinality(Nodes)
           w == WalkOf(from, link)
<1>1. N \in Nat
  BY NodesCounted
<1> HIDE DEF N
<1>2. \E f : Follows(f, from, link, N)
  BY <1>1, StepsExist
<1>3. Follows(w, from, link, N)
  BY <1>2 DEF WalkOf, Follows, N
<1>4. w = [j \in 0..N |-> IF j = 0 THEN from ELSE link[w[j - 1]]]
  BY <1>3 DEF Follows
<1> HIDE DEF w
<1>5. 0 \in 0..N /\ \A j \in 1..N : j \in 0..N /\ j # 0
  BY <1>1
<1>6. w[0] = from /\ \A j \in 1..N : w[j] = link[w[j - 1]]
  BY <1>4, <1>5
<1> QED
  BY <1>6 DEF w, N

----------------------------------------------------------------------------
\* The ring as a sequence.

\* From first, the links lead through the nodes of q to last and back.
IsRing(q, first, last, link, nodes) ==
  /\ q \in Seq(Nodes) /\ Distinct(q)
  /\ nodes = {q[i] : i \in 1..Len(q)} /\ Cardinality(nodes) = Len(q)
  /\ q = <<>> => first = NULL
  /\ q # <<>> => first = q[1] /\ last = q[Len(q)] /\ link[q[Len(q)]] = q[1]
  /\ \A i \in 1..(Len(q) - 1) : link[q[i]] = q[i + 1]

\* The threads in the nodes of q.
Held(q, c) == [i \in 1..Len(q) |-> c[q[i]]]

LEMMA SeqFacts ==
  ASSUME NEW q \in Seq(Nodes)
  PROVE  /\ Len(q) \in Nat /\ DOMAIN q = 1..Len(q)
         /\ \A i \in 1..Len(q) : q[i] \in Nodes
         /\ q # <<>> => Len(q) > 0 /\ 1 \in 1..Len(q) /\ Len(q) \in 1..Len(q)
         /\ q = <<>> => Len(q) = 0
OBVIOUS

LEMMA NodesFit ==
  ASSUME NEW q, NEW first, NEW last, NEW link, NEW nodes,
         IsRing(q, first, last, link, nodes)
  PROVE  /\ nodes \subseteq Nodes /\ IsFiniteSet(nodes)
         /\ Len(q) <= Cardinality(Nodes) /\ Cardinality(nodes) = Len(q)
         /\ first = NULL <=> q = <<>>
<1>1. q \in Seq(Nodes) /\ nodes \in SUBSET Nodes /\ Cardinality(nodes) = Len(q)
  BY SeqFacts DEF IsRing
<1>2. IsFiniteSet(nodes) /\ Cardinality(nodes) <= Cardinality(Nodes)
  BY <1>1, FS_Subset, Hw1Assumption
<1>3. first = NULL <=> q = <<>>
  <2>1. q # <<>> => q[1] \in Nodes
    BY <1>1, SeqFacts
  <2> QED
    BY <2>1, Hw1Assumption DEF IsRing
<1> QED
  BY <1>1, <1>2, <1>3

\* Walking a ring meets its nodes in their order.
LEMMA WalkMeetsNodes ==
  ASSUME NEW q, NEW first, NEW last, NEW link, NEW nodes,
         IsRing(q, first, last, link, nodes), q # <<>>
  PROVE  /\ \A i \in 1..Len(q) : WalkOf(first, link)[i - 1] = q[i]
         /\ WalkOf(first, link)[Len(q)] = q[1]
<1> DEFINE w == WalkOf(first, link)
           n == Len(q)
<1>1. /\ n \in Nat \ {0} /\ n <= Cardinality(Nodes) /\ Cardinality(Nodes) \in Nat
      /\ first = q[1] /\ link[q[n]] = q[1]
      /\ \A i \in 1..(n - 1) : link[q[i]] = q[i + 1]
  <2>1. n \in Nat \ {0}
    <3>1. q \in Seq(Nodes)
      BY DEF IsRing
    <3> QED
      BY <3>1
  <2>2. n <= Cardinality(Nodes)
    BY NodesFit
  <2>3. first = q[1] /\ link[q[n]] = q[1] /\ \A i \in 1..(n - 1) : link[q[i]] = q[i + 1]
    BY DEF IsRing
  <2> QED
    BY <2>1, <2>2, <2>3, NodesCounted
<1>2. w[0] = first /\ \A j \in 1..Cardinality(Nodes) : w[j] = link[w[j - 1]]
  BY WalkSteps
<1> HIDE DEF w, n
<1> DEFINE S == {i \in Nat : i + 1 \in 1..n => w[i] = q[i + 1]}
<1>3. 0 \in S
  BY <1>1, <1>2
<1>4. ASSUME NEW i \in Nat, i \in S
      PROVE  i + 1 \in S
  <2> SUFFICES ASSUME (i + 1) + 1 \in 1..n
               PROVE  w[i + 1] = q[(i + 1) + 1]
    OBVIOUS
  <2>1. i + 1 \in 1..(n - 1) /\ i + 1 \in 1..n /\ i + 1 \in 1..Cardinality(Nodes)
        /\ (i + 1) - 1 = i
    BY <1>1
  <2>2. w[i] = q[i + 1]
    BY <1>4, <2>1
  <2>3. w[i + 1] = link[w[i]]
    BY <1>2, <2>1
  <2>4. link[q[i + 1]] = q[(i + 1) + 1]
    BY <1>1, <2>1
  <2> QED
    BY <2>2, <2>3, <2>4
<1> HIDE DEF S
<1>5. Nat \subseteq S
  BY <1>3, <1>4, SetInduction
<1>6. ASSUME NEW i \in 1..n
      PROVE  w[i - 1] = q[i]
  <2>1. i - 1 \in Nat /\ (i - 1) + 1 = i
    BY <1>1
  <2>2. i - 1 \in S
    BY <1>5, <2>1
  <2> QED
    BY <2>1, <2>2 DEF S
<1>7. w[n] = q[1]
  <2>1. n \in 1..n /\ n \in 1..Cardinality(Nodes)
    BY <1>1
  <2> QED
    BY <1>1, <1>2, <1>6, <2>1
<1> QED
  BY <1>6, <1>7 DEF w, n

\* The same of a ring that is a record.
RingOf(q, r) ==
  /\ IsRing(q, r.front, r.rear, r.next, r.allocated)
  /\ r.next \in [Nodes -> LinkValues] /\ r.tcb \in [Nodes -> ThreadValues]

\* A thread pushed into a fresh node is the ring's last.
LEMMA PushRing ==
  ASSUME NEW q, NEW r, NEW t \in ThreadValues, NEW temp \in Nodes, temp \notin r.allocated,
         RingOf(q, r)
  PROVE  /\ RingOf(Append(q, temp), push(r, t, temp))
         /\ Held(Append(q, temp), push(r, t, temp).tcb) = Append(Held(q, r.tcb), t)
<1> DEFINE n == Len(q)
           s == Append(q, temp)
           p == push(r, t, temp)
           first == IF r.front = NULL THEN temp ELSE r.front
           linked == IF r.front = NULL THEN r.next ELSE [r.next EXCEPT ![r.rear] = temp]
<1> USE DEF RingOf
<1>1. /\ q \in Seq(Nodes) /\ temp \in Nodes /\ n \in Nat
      /\ \A i \in 1..n : q[i] \in Nodes /\ q[i] # temp
      /\ DOMAIN q = 1..n
  BY SeqFacts DEF IsRing
<1>2. /\ s \in Seq(Nodes) /\ s # <<>> /\ Len(s) = n + 1
      /\ \A i \in 1..n : s[i] = q[i]
      /\ s[n + 1] = temp /\ DOMAIN s = 1..(n + 1)
  BY <1>1, AppendProperties, SeqFacts
<1>3. /\ p.front = first /\ p.rear = temp /\ p.next = [linked EXCEPT ![temp] = first]
      /\ p.tcb = [r.tcb EXCEPT ![temp] = t] /\ p.allocated = r.allocated \cup {temp}
  BY DEF push
<1>4. r.front = NULL <=> q = <<>>
  BY NodesFit
<1>5. first = s[1] /\ first \in Nodes
  <2>1. CASE q = <<>>
    BY <1>1, <1>2, <1>4, <2>1, SeqFacts
  <2>2. CASE q # <<>>
    BY <1>1, <1>2, <1>4, <2>2, SeqFacts DEF IsRing
  <2> QED
    BY <2>1, <2>2
<1>6. linked \in [Nodes -> LinkValues] /\ Nodes \subseteq LinkValues
  BY <1>1 DEF LinkValues
<1>7. p.next \in [Nodes -> LinkValues] /\ p.tcb \in [Nodes -> ThreadValues]
  BY <1>1, <1>3, <1>5, <1>6
<1>8. p.next[temp] = s[1] /\ \A m \in Nodes : m # temp => p.next[m] = linked[m]
  BY <1>1, <1>3, <1>5, <1>6
<1>9. ASSUME NEW i \in 1..n
      PROVE  p.next[s[i]] = s[i + 1]
  <2>1. q # <<>> /\ r.rear = q[n] /\ r.front # NULL
    <3>1. q # <<>>
      BY <1>1
    <3> QED
      BY <1>4, <3>1 DEF IsRing
  <2>2. s[i] = q[i] /\ q[i] \in Nodes /\ p.next[q[i]] = linked[q[i]]
    BY <1>1, <1>2, <1>8
  <2>3. CASE i = n
    BY <1>1, <1>2, <2>1, <2>2, <2>3
  <2>4. CASE i # n
    <3>1. i \in 1..(n - 1) /\ i + 1 \in 1..n /\ n \in 1..n
      BY <1>1, <2>4
    <3>2. q[i] # q[n]
      BY <1>1, <2>4, <3>1 DEF IsRing, Distinct
    <3>3. r.next[q[i]] = q[i + 1]
      BY <3>1 DEF IsRing
    <3>4. linked[q[i]] = r.next[q[i]]
      BY <1>1, <2>1, <3>1, <3>2
    <3> QED
      BY <1>2, <2>2, <3>1, <3>3, <3>4
  <2> QED
    BY <2>3, <2>4
<1>10. p.allocated = {s[i] : i \in 1..(n + 1)}
  <2>1. r.allocated = {q[i] : i \in 1..n}
    BY DEF IsRing
  <2>2. 1..(n + 1) = 1..n \cup {n + 1}
    BY <1>1
  <2> QED
    BY <1>2, <1>3, <2>1, <2>2
<1>11. Cardinality(p.allocated) = n + 1
  <2>1. IsFiniteSet(r.allocated) /\ Cardinality(r.allocated) = n
    BY NodesFit
  <2> QED
    BY <1>3, <2>1, FS_AddElement
<1>12. Distinct(s)
  <2>1. \A i, j \in 1..n : q[i] = q[j] => i = j
    BY <1>1 DEF IsRing, Distinct
  <2> SUFFICES ASSUME NEW i \in 1..(n + 1), NEW j \in 1..(n + 1), s[i] = s[j]
               PROVE  i = j
    BY <1>2 DEF Distinct
  <2>2. (i \in 1..n \/ i = n + 1) /\ (j \in 1..n \/ j = n + 1)
    BY <1>1
  <2> QED
    BY <1>1, <1>2, <2>1, <2>2
<1>13. IsRing(s, p.front, p.rear, p.next, p.allocated)
  <2>1. (n + 1) - 1 = n
    BY <1>1
  <2> HIDE DEF p, s, n, first, linked
  <2> QED
    BY <1>2, <1>3, <1>5, <1>8, <1>9, <1>10, <1>11, <1>12, <2>1 DEF IsRing
<1>14. Held(s, p.tcb) = Append(Held(q, r.tcb), t)
  <2>1. p.tcb[temp] = t /\ \A i \in 1..n : p.tcb[q[i]] = r.tcb[q[i]] /\ r.tcb[q[i]] \in ThreadValues
    BY <1>1, <1>3
  <2> HIDE DEF p, n
  <2>2. Held(q, r.tcb) \in Seq(ThreadValues) /\ Len(Held(q, r.tcb)) = n
        /\ \A i \in 1..n : Held(q, r.tcb)[i] = r.tcb[q[i]]
    BY <1>1, <2>1 DEF Held, n
  <2>3. Held(s, p.tcb) \in Seq(ThreadValues) /\ Len(Held(s, p.tcb)) = n + 1
        /\ \A i \in 1..(n + 1) : Held(s, p.tcb)[i] = p.tcb[s[i]]
    <3> DEFINE h == Held(s, p.tcb)
    <3>1. h = [i \in 1..(n + 1) |-> p.tcb[s[i]]]
      BY <1>2 DEF Held
    <3>2. \A i \in 1..(n + 1) : p.tcb[s[i]] \in ThreadValues
      <4>1. \A i \in 1..(n + 1) : i \in 1..n \/ i = n + 1
        BY <1>1
      <4> QED
        BY <1>2, <2>1, <4>1
    <3> HIDE DEF h
    <3> QED
      BY <1>1, <3>1, <3>2 DEF h
  <2>4. Append(Held(q, r.tcb), t) \in Seq(ThreadValues) /\ Len(Append(Held(q, r.tcb), t)) = n + 1
        /\ \A i \in 1..n : Append(Held(q, r.tcb), t)[i] = r.tcb[q[i]]
        /\ Append(Held(q, r.tcb), t)[n + 1] = t
    BY <2>2, AppendProperties
  <2>5. \A i \in 1..(n + 1) : Held(s, p.tcb)[i] = Append(Held(q, r.tcb), t)[i]
    <3>1. \A i \in 1..(n + 1) : i \in 1..n \/ i = n + 1
      BY <1>1
    <3> QED
      BY <1>2, <2>1, <2>3, <2>4, <3>1
  <2> QED
    BY <2>3, <2>4, <2>5, SeqEqual
<1> QED
  BY <1>7, <1>13, <1>14 DEF p, s

\* Of two nodes and more, pop takes the first and links the last to the second.
LEMMA PopRing ==
  ASSUME NEW q, NEW first, NEW last, NEW link, NEW nodes,
         IsRing(q, first, last, link, nodes), first # last, first # NULL,
         link \in [Nodes -> LinkValues], NEW c \in [Nodes -> ThreadValues]
  PROVE  /\ IsRing(Tail(q), link[first], last, [link EXCEPT ![last] = link[first]],
                   nodes \ {first})
         /\ [link EXCEPT ![last] = link[first]] \in [Nodes -> LinkValues]
         /\ link[first] \in Nodes /\ first \in Nodes /\ last \in Nodes
         /\ Len(Held(q, c)) > 1 /\ Held(Tail(q), c) = Tail(Held(q, c))
         /\ c[first] = Head(Held(q, c))
<1> DEFINE n == Len(q)
           s == Tail(q)
           l == [link EXCEPT ![last] = link[first]]
<1>1. q \in Seq(Nodes) /\ q # <<>>
  BY NodesFit DEF IsRing
<1>2. /\ n \in Nat /\ n > 0 /\ DOMAIN q = 1..n /\ \A i \in 1..n : q[i] \in Nodes
      /\ first = q[1] /\ last = q[n] /\ \A i \in 1..(n - 1) : link[q[i]] = q[i + 1]
  <2>1. first = q[1] /\ last = q[n] /\ \A i \in 1..(n - 1) : link[q[i]] = q[i + 1]
    BY <1>1 DEF IsRing
  <2> QED
    BY <1>1, <2>1, SeqFacts
<1>3. n > 1 /\ \A i, j \in 1..n : q[i] = q[j] => i = j
  <2>1. n # 1
    BY <1>2
  <2>2. \A i, j \in 1..n : q[i] = q[j] => i = j
    BY <1>2 DEF IsRing, Distinct
  <2> QED
    BY <1>2, <2>1, <2>2
<1>4. first \in Nodes /\ last \in Nodes /\ link[first] = q[2] /\ q[2] \in Nodes
  <2>1. 1 \in 1..(n - 1) /\ 1 \in 1..n /\ 2 \in 1..n /\ n \in 1..n /\ 1 + 1 = 2
    BY <1>2, <1>3
  <2> QED
    BY <1>2, <2>1
<1>5. /\ s \in Seq(Nodes) /\ Len(s) = n - 1 /\ DOMAIN s = 1..(n - 1)
      /\ \A i \in 1..(n - 1) : s[i] = q[i + 1]
  <2>1. s \in Seq(Nodes) /\ Len(s) = n - 1 /\ \A i \in 1..Len(s) : s[i] = q[i + 1]
    BY <1>1, HeadTailProperties
  <2> QED
    BY <2>1, SeqFacts
<1>6. s # <<>>
  <2>1. n - 1 # 0 /\ Len(<<>>) = 0
    BY <1>2, <1>3
  <2> QED
    BY <1>5, <2>1
<1>7. l \in [Nodes -> LinkValues] /\ l[last] = q[2] /\ \A m \in Nodes : m # last => l[m] = link[m]
  <2>1. q[2] \in LinkValues
    BY <1>4 DEF LinkValues
  <2> QED
    BY <1>4, <2>1
<1>8. Distinct(s)
  <2> SUFFICES ASSUME NEW i \in 1..(n - 1), NEW j \in 1..(n - 1), s[i] = s[j]
               PROVE  i = j
    BY <1>5 DEF Distinct
  <2>1. i + 1 \in 1..n /\ j + 1 \in 1..n
    BY <1>2
  <2>2. i + 1 = j + 1
    BY <1>3, <1>5, <2>1
  <2> QED
    BY <1>2, <2>2
<1>9. nodes \ {first} = {s[i] : i \in 1..(n - 1)}
  <2>1. nodes = {q[i] : i \in 1..n}
    BY DEF IsRing
  <2>2. ASSUME NEW m \in nodes \ {first}
        PROVE  m \in {s[i] : i \in 1..(n - 1)}
    <3>1. PICK i \in 1..n : m = q[i]
      BY <2>1
    <3>2. i - 1 \in 1..(n - 1) /\ (i - 1) + 1 = i
      BY <1>2, <3>1
    <3>3. m = s[i - 1]
      BY <1>5, <3>1, <3>2
    <3> QED
      BY <3>2, <3>3
  <2>3. ASSUME NEW i \in 1..(n - 1)
        PROVE  s[i] \in nodes \ {first}
    <3>1. i + 1 \in 1..n /\ 1 \in 1..n /\ i + 1 # 1
      BY <1>2, <1>3
    <3>2. q[i + 1] \in nodes /\ q[i + 1] # q[1]
      BY <1>3, <2>1, <3>1
    <3> QED
      BY <1>2, <1>5, <3>2
  <2> QED
    BY <2>2, <2>3
<1>10. Cardinality(nodes \ {first}) = n - 1
  <2>1. IsFiniteSet(nodes) /\ Cardinality(nodes) = n
    BY NodesFit
  <2>2. first \in nodes
    <3>1. nodes = {q[i] : i \in 1..n} /\ 1 \in 1..n
      <4>1. nodes = {q[i] : i \in 1..n}
        BY DEF IsRing
      <4> QED
        BY <1>2, <4>1
    <3> QED
      BY <1>2, <3>1
  <2> QED
    BY <2>1, <2>2, FS_RemoveElement
<1>11. link[first] = s[1] /\ last = s[n - 1] /\ l[s[n - 1]] = s[1]
  <2>1. 1 \in 1..(n - 1) /\ n - 1 \in 1..(n - 1) /\ (n - 1) + 1 = n /\ 1 + 1 = 2
    BY <1>2, <1>3
  <2>2. s[1] = q[2] /\ s[n - 1] = q[n]
    BY <1>5, <2>1
  <2> QED
    BY <1>2, <1>4, <1>7, <2>2
<1>12. ASSUME NEW i \in 1..((n - 1) - 1)
       PROVE  l[s[i]] = s[i + 1]
  <2>1. /\ i \in 1..(n - 1) /\ i + 1 \in 1..(n - 1) /\ i + 1 \in 1..n /\ n \in 1..n
        /\ i + 1 # n
    <3>1. \A k \in Nat : \A j \in 1..((k - 1) - 1) :
            j \in 1..(k - 1) /\ j + 1 \in 1..(k - 1) /\ j + 1 \in 1..k /\ k \in 1..k /\ j + 1 # k
      OBVIOUS
    <3> QED
      BY <1>2, <3>1
  <2>2. s[i] = q[i + 1] /\ s[i + 1] = q[(i + 1) + 1] /\ q[i + 1] # q[n] /\ q[i + 1] \in Nodes
    BY <1>2, <1>3, <1>5, <2>1
  <2>3. link[q[i + 1]] = q[(i + 1) + 1]
    BY <1>2, <2>1
  <2> QED
    BY <1>2, <1>7, <2>2, <2>3
<1>13. IsRing(s, link[first], last, l, nodes \ {first})
  <2> HIDE DEF s, l, n
  <2> QED
    BY <1>5, <1>6, <1>8, <1>9, <1>10, <1>11, <1>12 DEF IsRing
<1>14. \A i \in 1..n : c[q[i]] \in ThreadValues
  BY <1>2
<1>15. /\ Held(q, c) \in Seq(ThreadValues) /\ Len(Held(q, c)) = n /\ Held(q, c) # <<>>
       /\ \A i \in 1..n : Held(q, c)[i] = c[q[i]]
  <2> DEFINE h == Held(q, c)
  <2>1. h = [i \in 1..n |-> c[q[i]]]
    BY DEF Held
  <2> HIDE DEF h, n
  <2>2. h \in Seq(ThreadValues) /\ Len(h) = n /\ \A i \in 1..n : h[i] = c[q[i]]
    BY <1>2, <1>14, <2>1
  <2> QED
    BY <1>2, <2>2 DEF h
<1>16. \A i \in 1..(n - 1) : i + 1 \in 1..n
  BY <1>2
<1>17. /\ Held(s, c) \in Seq(ThreadValues) /\ Len(Held(s, c)) = n - 1
       /\ \A i \in 1..(n - 1) : Held(s, c)[i] = c[q[i + 1]]
  <2> DEFINE h == Held(s, c)
  <2>1. h = [i \in 1..(n - 1) |-> c[q[i + 1]]]
    BY <1>5 DEF Held
  <2>2. n - 1 \in Nat
    BY <1>2, <1>3
  <2> HIDE DEF h, n
  <2>3. h \in Seq(ThreadValues) /\ Len(h) = n - 1 /\ \A i \in 1..(n - 1) : h[i] = c[q[i + 1]]
    BY <1>14, <1>16, <2>1, <2>2
  <2> QED
    BY <2>3 DEF h
<1>18. Held(s, c) = Tail(Held(q, c))
  <2>1. /\ Tail(Held(q, c)) \in Seq(ThreadValues) /\ Len(Tail(Held(q, c))) = n - 1
        /\ \A i \in 1..(n - 1) : Tail(Held(q, c))[i] = Held(q, c)[i + 1]
    BY <1>15, HeadTailProperties
  <2>2. \A i \in 1..(n - 1) : Held(s, c)[i] = Tail(Held(q, c))[i]
    BY <1>15, <1>16, <1>17, <2>1
  <2> QED
    BY <1>17, <2>1, <2>2, SeqEqual
<1>19. c[first] = Head(Held(q, c))
  <2>1. Head(Held(q, c)) = Held(q, c)[1] /\ 1 \in 1..n
    BY <1>2, <1>15
  <2> QED
    BY <1>2, <1>15, <2>1
<1> QED
  <2> HIDE DEF s, l
  <2>1. Len(Held(q, c)) > 1
    BY <1>3, <1>15
  <2> QED
    BY <1>4, <1>7, <1>13, <1>18, <1>19, <2>1 DEF s, l

----------------------------------------------------------------------------
\* What the walk finds, as a function of what it reads.

ContentsOf(first, link, c, nodes) ==
  IF first = NULL THEN <<>>
  ELSE [j \in 1..Cardinality(nodes) |-> c[WalkOf(first, link)[j - 1]]]

LEMMA ContentsIsContentsOf ==
  /\ Contents = ContentsOf(front, next, tcb, allocated)
  /\ Contents' = ContentsOf(front', next', tcb', allocated')
BY WalkIsWalkOf DEF Contents, ContentsOf

LEMMA ContentsAreHeld ==
  ASSUME NEW q, NEW first, NEW last, NEW link, NEW nodes, NEW c,
         IsRing(q, first, last, link, nodes)
  PROVE  ContentsOf(first, link, c, nodes) = Held(q, c)
<1>1. Cardinality(nodes) = Len(q) /\ (first = NULL <=> q = <<>>) /\ q \in Seq(Nodes)
  BY NodesFit DEF IsRing
<1>2. CASE q = <<>>
  <2>1. 1..Len(q) = {}
    BY <1>2
  <2>2. Held(q, c) = <<>>
    BY <2>1 DEF Held
  <2> QED
    BY <1>1, <1>2, <2>2 DEF ContentsOf
<1>3. CASE q # <<>>
  <2>1. \A i \in 1..Len(q) : WalkOf(first, link)[i - 1] = q[i]
    BY <1>3, WalkMeetsNodes
  <2> QED
    BY <1>1, <1>3, <2>1 DEF ContentsOf, Held
<1> QED
  BY <1>2, <1>3

LEMMA RingCloses ==
  ASSUME NEW q, IsRing(q, front, rear, next, allocated)
  PROVE  RingIntact
<1> DEFINE n == Len(q)
<1>1. Cardinality(allocated) = n /\ (front = NULL <=> q = <<>>) /\ q \in Seq(Nodes)
      /\ allocated = {q[i] : i \in 1..n}
  BY NodesFit DEF IsRing
<1>2. CASE q = <<>>
  <2>1. 1..n = {}
    BY <1>2
  <2> QED
    BY <1>1, <1>2, <2>1 DEF RingIntact
<1>3. CASE q # <<>>
  <2>1. /\ \A i \in 1..n : Walk[i - 1] = q[i]
        /\ Walk[n] = q[1] /\ front = q[1] /\ rear = q[n]
    <3>1. Walk = WalkOf(front, next)
      BY WalkIsWalkOf
    <3>2. front = q[1] /\ rear = q[n]
      BY <1>3 DEF IsRing
    <3> QED
      BY <1>3, <3>1, <3>2, WalkMeetsNodes
  <2>2. n \in Nat /\ n > 0 /\ n \in 1..n
    BY <1>1, <1>3, SeqFacts
  <2> HIDE DEF n
  <2>3. {Walk[j] : j \in 0..(n - 1)} = {q[i] : i \in 1..n}
    <3>1. ASSUME NEW j \in 0..(n - 1)
          PROVE  \E i \in 1..n : Walk[j] = q[i]
      <4>1. j + 1 \in 1..n /\ (j + 1) - 1 = j
        BY <2>2
      <4>2. Walk[j] = q[j + 1]
        BY <2>1, <4>1
      <4> QED
        BY <4>1, <4>2
    <3>2. ASSUME NEW i \in 1..n
          PROVE  \E j \in 0..(n - 1) : q[i] = Walk[j]
      <4>1. i - 1 \in 0..(n - 1)
        BY <2>2
      <4> QED
        BY <2>1, <4>1
    <3> QED
      BY <3>1, <3>2
  <2>4. front # NULL
    BY <1>1, <1>3
  <2> QED
    BY <1>1, <2>1, <2>2, <2>3, <2>4 DEF RingIntact
<1> QED
  BY <1>2, <1>3

----------------------------------------------------------------------------
\* The inductive invariant: the nodes form a ring, which is empty until the
\* first create.
RingThere == \E q : IsRing(q, front, rear, next, allocated)
EmptyAtFirst == program = "library" /\ thread_count = 0 => front = NULL
Hw1IInv == Hw1TypeOK /\ RingThere /\ EmptyAtFirst

\* What QueueIsFifo says of a step.
FifoStep ==
  \/ Contents' = Contents
  \/ \E t \in Threads : Contents' \in {Append(Contents, t), <<MainThread, t>>}
  \/ Len(Contents) > 1 /\ Contents' = Tail(Contents) /\ popped' = Head(Contents)

LEMMA Hw1IInitial == Init => Hw1IInv
<1> SUFFICES ASSUME Init
             PROVE  Hw1IInv
  OBVIOUS
<1>1. Hw1TypeOK
  <2>1. 0 \in 0..MaxCount /\ 0 \in 0..(MaxCount - 1)
    BY Hw1Assumption
  <2> QED
    BY <2>1 DEF Init, Hw1TypeOK
<1>2. IsRing(<<>>, front, rear, next, allocated)
  <2>1. Cardinality({}) = 0
    BY FS_EmptySet
  <2>2. <<>> \in Seq(Nodes) /\ Len(<<>>) = 0 /\ 1..0 = {} /\ Distinct(<<>>)
    BY DEF Distinct
  <2> QED
    BY <2>1, <2>2 DEF IsRing, Init
<1> QED
  BY <1>1, <1>2 DEF Hw1IInv, RingThere, EmptyAtFirst, Init

LEMMA RingStays ==
  ASSUME Hw1IInv, UNCHANGED ring
  PROVE  RingThere' /\ FifoStep
<1>1. /\ front' = front /\ rear' = rear /\ next' = next /\ tcb' = tcb
      /\ allocated' = allocated
  BY DEF ring
<1>2. RingThere'
  BY <1>1 DEF Hw1IInv, RingThere
<1>3. Contents' = Contents
  BY <1>1, ContentsIsContentsOf
<1> QED
  BY <1>2, <1>3 DEF FifoStep

LEMMA PopKeeps ==
  ASSUME Hw1IInv, Pop
  PROVE  Hw1IInv' /\ FifoStep
<1>1. CASE ~AtMostOne
  <2>1. /\ popped' = tcb[front] /\ front' = next[front] /\ rear' = rear /\ tcb' = tcb
        /\ next' = [next EXCEPT ![rear] = next[front]] /\ allocated' = allocated \ {front}
        /\ UNCHANGED <<program, thread_count, thread_id, ended>>
    BY <1>1 DEF Pop, fixed, threads
  <2>2. PICK q : IsRing(q, front, rear, next, allocated)
    BY DEF Hw1IInv, RingThere
  <2>3. front # rear /\ front # NULL
    BY <1>1 DEF AtMostOne
  <2>4. next \in [Nodes -> LinkValues] /\ tcb \in [Nodes -> ThreadValues]
    BY DEF Hw1IInv, Hw1TypeOK, LinkValues, ThreadValues
  <2>5. /\ IsRing(Tail(q), next[front], rear, [next EXCEPT ![rear] = next[front]],
                  allocated \ {front})
        /\ [next EXCEPT ![rear] = next[front]] \in [Nodes -> LinkValues]
        /\ next[front] \in Nodes /\ front \in Nodes /\ rear \in Nodes
        /\ Len(Held(q, tcb)) > 1 /\ Held(Tail(q), tcb) = Tail(Held(q, tcb))
        /\ tcb[front] = Head(Held(q, tcb))
    BY <2>2, <2>3, <2>4, PopRing
  <2>6. IsRing(Tail(q), front', rear', next', allocated')
    BY <2>1, <2>5
  <2>7. Contents = Held(q, tcb) /\ Contents' = Held(Tail(q), tcb)
    <3>1. Contents = Held(q, tcb)
      BY <2>2, ContentsAreHeld, ContentsIsContentsOf
    <3>2. ContentsOf(front', next', tcb', allocated') = Held(Tail(q), tcb')
      BY <2>6, ContentsAreHeld
    <3> QED
      BY <2>1, <3>1, <3>2, ContentsIsContentsOf
  <2>8. Hw1TypeOK'
    <3>1. tcb[front] \in ThreadValues
      BY <2>4, <2>5
    <3> QED
      BY <2>1, <2>5, <3>1 DEF Hw1IInv, Hw1TypeOK, LinkValues, ThreadValues
  <2>9. EmptyAtFirst'
    BY <2>1, <2>3 DEF EmptyAtFirst, Hw1IInv
  <2> QED
    BY <2>1, <2>5, <2>6, <2>7, <2>8, <2>9 DEF Hw1IInv, RingThere, FifoStep
<1>2. CASE AtMostOne
  <2>1. UNCHANGED ring /\ UNCHANGED threads /\ UNCHANGED program
        /\ popped' \in {popped, Junk} /\ ended' \in {ended, TRUE}
    BY <1>2 DEF Pop, fixed
  <2>2. RingThere' /\ FifoStep
    BY <2>1, RingStays
  <2>3. Hw1TypeOK' /\ EmptyAtFirst'
    BY <2>1 DEF Hw1IInv, Hw1TypeOK, EmptyAtFirst, ring, threads
  <2> QED
    BY <2>2, <2>3 DEF Hw1IInv
<1> QED
  BY <1>1, <1>2

LEMMA RingEnds ==
  ASSUME NEW q, NEW first, NEW last, NEW link, NEW nodes,
         IsRing(q, first, last, link, nodes), q # <<>>
  PROVE  first \in Nodes /\ last \in Nodes /\ nodes \subseteq Nodes
<1>1. nodes \subseteq Nodes
  BY NodesFit
<1>2. q \in Seq(Nodes) /\ first = q[1] /\ last = q[Len(q)]
  BY DEF IsRing
<1> QED
  BY <1>1, <1>2, SeqFacts

\* The current ring, as a record and as a sequence of nodes.
LEMMA RingNow ==
  ASSUME Hw1IInv
  PROVE  \E q : RingOf(q, Ring) /\ Contents = Held(q, Ring.tcb) /\ (front = NULL <=> q = <<>>)
<1>1. PICK q : IsRing(q, front, rear, next, allocated)
  BY DEF Hw1IInv, RingThere
<1>2. /\ Ring.front = front /\ Ring.rear = rear /\ Ring.next = next /\ Ring.tcb = tcb
      /\ Ring.allocated = allocated
  BY DEF Ring
<1>3. Contents = Held(q, tcb) /\ (front = NULL <=> q = <<>>)
  BY <1>1, ContentsAreHeld, ContentsIsContentsOf, NodesFit
<1>4. next \in [Nodes -> LinkValues] /\ tcb \in [Nodes -> ThreadValues]
  BY DEF Hw1IInv, Hw1TypeOK, LinkValues, ThreadValues
<1> QED
  BY <1>1, <1>2, <1>3, <1>4 DEF RingOf

\* The ring p, of the nodes s, becomes the next state's.
LEMMA RingNext ==
  ASSUME NEW p, RingBecomes(p), NEW s, s # <<>>, RingOf(s, p)
  PROVE  /\ RingThere' /\ front' # NULL /\ Contents' = Held(s, p.tcb)
         /\ front' \in Nodes \cup {NULL} /\ rear' \in Nodes \cup {NULL}
         /\ next' \in [Nodes -> LinkValues]
         /\ tcb' \in [Nodes -> ThreadValues] /\ allocated' \subseteq Nodes
<1>1. /\ front' = p.front /\ rear' = p.rear /\ next' = p.next /\ tcb' = p.tcb
      /\ allocated' = p.allocated
  BY DEF RingBecomes
<1>2. IsRing(s, front', rear', next', allocated')
  BY <1>1 DEF RingOf
<1>3. RingThere'
  BY <1>2 DEF RingThere
<1>4. front' # NULL /\ front' \in Nodes /\ rear' \in Nodes /\ allocated' \subseteq Nodes
  BY <1>2, NodesFit, RingEnds
<1>5. Contents' = Held(s, p.tcb)
  BY <1>1, <1>2, ContentsAreHeld, ContentsIsContentsOf
<1> QED
  BY <1>1, <1>3, <1>4, <1>5 DEF RingOf

\* One push into the current ring.
LEMMA PushOnce ==
  ASSUME Hw1IInv, NEW t \in Threads \cup {MainThread}, NEW temp \in Nodes \ allocated
  PROVE  \E s : /\ s # <<>> /\ RingOf(s, push(Ring, t, temp))
                /\ Held(s, push(Ring, t, temp).tcb) = Append(Contents, t)
<1>1. PICK q : RingOf(q, Ring) /\ Contents = Held(q, Ring.tcb)
  BY RingNow
<1>2. t \in ThreadValues /\ temp \in Nodes /\ temp \notin Ring.allocated
  BY DEF ThreadValues, Ring
<1>3. /\ RingOf(Append(q, temp), push(Ring, t, temp))
      /\ Held(Append(q, temp), push(Ring, t, temp).tcb) = Append(Held(q, Ring.tcb), t)
  BY <1>1, <1>2, PushRing
<1>4. q \in Seq(Nodes)
  BY <1>1 DEF IsRing, RingOf
<1>5. Append(q, temp) # <<>>
  BY <1>4, AppendProperties
<1> QED
  BY <1>1, <1>3, <1>5

LEMMA PushKeeps ==
  ASSUME Hw1IInv, NEW t \in Threads, Push(t)
  PROVE  Hw1IInv' /\ FifoStep
<1>1. PICK temp \in Nodes \ allocated : RingBecomes(push(Ring, t, temp))
  BY DEF Push
<1>2. UNCHANGED <<program, thread_count, thread_id, popped, ended>>
  BY DEF Push, fixed, threads
<1> DEFINE p == push(Ring, t, temp)
<1>3. PICK s : s # <<>> /\ RingOf(s, p) /\ Held(s, p.tcb) = Append(Contents, t)
  BY PushOnce
<1>4. RingBecomes(p)
  BY <1>1
<1> HIDE DEF p
<1>5. /\ RingThere' /\ front' # NULL /\ Contents' = Held(s, p.tcb)
      /\ front' \in Nodes \cup {NULL} /\ rear' \in Nodes \cup {NULL}
      /\ next' \in [Nodes -> LinkValues] /\ tcb' \in [Nodes -> ThreadValues]
      /\ allocated' \subseteq Nodes
  BY <1>3, <1>4, RingNext
<1>6. EmptyAtFirst'
  BY <1>2, <1>4 DEF Hw1IInv, EmptyAtFirst, Push
<1>7. Hw1TypeOK'
  BY <1>2, <1>5 DEF Hw1IInv, Hw1TypeOK, LinkValues, ThreadValues
<1> QED
  BY <1>3, <1>5, <1>6, <1>7 DEF Hw1IInv, FifoStep

\* The first create pushes main, and then the thread.
LEMMA PushTwice ==
  ASSUME Hw1IInv, front = NULL, NEW t \in Threads,
         NEW temp \in Nodes \ allocated, NEW temp2 \in Nodes \ allocated, temp # temp2
  PROVE  \E s : /\ s # <<>> /\ RingOf(s, push(push(Ring, MainThread, temp), t, temp2))
                /\ Held(s, push(push(Ring, MainThread, temp), t, temp2).tcb) = <<MainThread, t>>
<1>1. RingOf(<<>>, Ring)
  BY RingNow
<1>2. /\ MainThread \in ThreadValues /\ t \in ThreadValues
      /\ temp \in Nodes /\ temp \notin Ring.allocated
  BY DEF ThreadValues, Ring
<1> DEFINE r == push(Ring, MainThread, temp)
           h == Held(<<>>, Ring.tcb)
<1>3. /\ RingOf(Append(<<>>, temp), r)
      /\ Held(Append(<<>>, temp), r.tcb) = Append(h, MainThread)
  BY <1>1, <1>2, PushRing
<1>4. temp2 \in Nodes /\ temp2 \notin r.allocated
  <2>1. r.allocated = allocated \cup {temp}
    BY DEF push, Ring
  <2> QED
    BY <2>1
<1> HIDE DEF r
<1>5. /\ RingOf(Append(Append(<<>>, temp), temp2), push(r, t, temp2))
      /\ Held(Append(Append(<<>>, temp), temp2), push(r, t, temp2).tcb)
           = Append(Held(Append(<<>>, temp), r.tcb), t)
  BY <1>2, <1>3, <1>4, PushRing
<1>6. h = <<>>
  <2>1. Len(<<>>) = 0 /\ 1..0 = {}
    OBVIOUS
  <2> QED
    BY <2>1 DEF Held
<1> HIDE DEF h
<1>7. Append(Append(h, MainThread), t) = <<MainThread, t>>
  <2>1. Append(Append(<<>>, MainThread), t) = <<MainThread, t>>
    <3>1. <<MainThread>> \in Seq(ThreadValues) /\ <<MainThread, t>> \in Seq(ThreadValues)
      BY <1>2
    <3>2. Append(<<>>, MainThread) = <<MainThread>>
      OBVIOUS
    <3>3. /\ Append(<<MainThread>>, t) \in Seq(ThreadValues)
          /\ Len(Append(<<MainThread>>, t)) = 2
          /\ Append(<<MainThread>>, t)[1] = MainThread /\ Append(<<MainThread>>, t)[2] = t
      BY <1>2, <3>1
    <3>4. /\ Len(<<MainThread, t>>) = 2 /\ <<MainThread, t>>[1] = MainThread
          /\ <<MainThread, t>>[2] = t /\ \A i \in 1..2 : i = 1 \/ i = 2
      OBVIOUS
    <3>5. Append(<<MainThread>>, t) = <<MainThread, t>>
      BY <3>1, <3>3, <3>4, SeqEqual
    <3> QED
      BY <3>2, <3>5
  <2> QED
    BY <1>6, <2>1
<1>8. Append(Append(<<>>, temp), temp2) # <<>>
  OBVIOUS
<1> QED
  BY <1>3, <1>5, <1>7, <1>8 DEF r

LEMMA CreateKeeps ==
  ASSUME Hw1IInv, NEW t \in Threads, mypthread_create(t)
  PROVE  Hw1IInv' /\ FifoStep
<1>1. /\ program = "library" /\ thread_count < MaxCount /\ Numbered(t)
      /\ UNCHANGED <<program, popped, ended>>
  BY DEF mypthread_create, fixed
<1>2. /\ MaxCount \in Nat \ {0, 1} /\ thread_count \in 0..MaxCount
      /\ thread_id \in [Threads \cup {MainThread} -> 0..(MaxCount - 1)]
  BY Hw1Assumption DEF Hw1IInv, Hw1TypeOK
<1>3. /\ thread_count' \in 1..MaxCount
      /\ thread_id' \in [Threads \cup {MainThread} -> 0..(MaxCount - 1)]
  <2>1. CASE thread_count = 0
    <3>1. 1 \in 0..(MaxCount - 1) /\ 2 \in 1..MaxCount
      BY <1>2
    <3>2. thread_count' = 2 /\ thread_id' = [thread_id EXCEPT ![MainThread] = 1, ![t] = 1]
      BY <1>1, <2>1 DEF Numbered
    <3> QED
      BY <1>2, <3>1, <3>2
  <2>2. CASE thread_count # 0
    <3>1. thread_count \in 0..(MaxCount - 1) /\ thread_count + 1 \in 1..MaxCount
      BY <1>1, <1>2
    <3>2. /\ thread_count' = thread_count + 1
          /\ thread_id' = [thread_id EXCEPT ![t] = thread_count]
      BY <1>1, <2>2 DEF Numbered
    <3> QED
      BY <1>2, <3>1, <3>2
  <2> QED
    BY <2>1, <2>2
<1>4. \E p, s : /\ RingBecomes(p) /\ s # <<>> /\ RingOf(s, p)
                /\ Held(s, p.tcb) \in {Append(Contents, t), <<MainThread, t>>}
  <2>1. CASE thread_count = 0
    <3>1. PICK temp \in Nodes \ allocated, temp2 \in Nodes \ allocated :
            temp # temp2 /\ RingBecomes(push(push(Ring, MainThread, temp), t, temp2))
      BY <2>1 DEF mypthread_create
    <3>2. front = NULL
      BY <1>1, <2>1 DEF Hw1IInv, EmptyAtFirst
    <3> QED
      BY <3>1, <3>2, PushTwice
  <2>2. CASE thread_count # 0
    <3>1. PICK temp \in Nodes \ allocated : RingBecomes(push(Ring, t, temp))
      BY <2>2 DEF mypthread_create
    <3> QED
      BY <3>1, PushOnce
  <2> QED
    BY <2>1, <2>2
<1>5. PICK p, s : /\ RingBecomes(p) /\ s # <<>> /\ RingOf(s, p)
                  /\ Held(s, p.tcb) \in {Append(Contents, t), <<MainThread, t>>}
  BY <1>4
<1>6. /\ RingThere' /\ front' # NULL /\ Contents' = Held(s, p.tcb)
      /\ front' \in Nodes \cup {NULL} /\ rear' \in Nodes \cup {NULL}
      /\ next' \in [Nodes -> LinkValues] /\ tcb' \in [Nodes -> ThreadValues]
      /\ allocated' \subseteq Nodes
  BY <1>5, RingNext
<1>7. Hw1TypeOK'
  <2>1. thread_count' \in 0..MaxCount
    BY <1>2, <1>3
  <2> QED
    BY <1>1, <1>3, <1>6, <2>1 DEF Hw1IInv, Hw1TypeOK, LinkValues, ThreadValues
<1>8. EmptyAtFirst'
  BY <1>2, <1>3 DEF EmptyAtFirst
<1> QED
  BY <1>5, <1>6, <1>7, <1>8 DEF Hw1IInv, FifoStep

LEMMA OthersKeep ==
  ASSUME Hw1IInv, Crash \/ (\E kt \in Policies : mypthread_init(kt)) \/ UNCHANGED vars
  PROVE  Hw1IInv' /\ FifoStep
<1>1. /\ UNCHANGED ring /\ UNCHANGED <<program, thread_count, thread_id, popped>>
      /\ ended' \in {ended, TRUE}
  BY DEF Crash, mypthread_init, vars, threads, fixed
<1>2. RingThere' /\ FifoStep
  BY <1>1, RingStays
<1>3. Hw1TypeOK' /\ EmptyAtFirst'
  BY <1>1 DEF Hw1IInv, Hw1TypeOK, EmptyAtFirst, ring
<1> QED
  BY <1>2, <1>3 DEF Hw1IInv

LEMMA Hw1Step == Hw1IInv /\ [Next]_vars => Hw1IInv' /\ FifoStep
<1> SUFFICES ASSUME Hw1IInv, [Next]_vars
             PROVE  Hw1IInv' /\ FifoStep
  OBVIOUS
<1>1. CASE Pop
  BY <1>1, PopKeeps
<1>2. CASE Traverse \/ CreateDies
  BY <1>2, OthersKeep DEF Traverse, CreateDies
<1>3. CASE \E t \in Threads : Push(t)
  BY <1>3, PushKeeps
<1>4. CASE \E t \in Threads : mypthread_create(t)
  BY <1>4, CreateKeeps
<1>5. CASE (\E kt \in Policies : mypthread_init(kt)) \/ UNCHANGED vars
  BY <1>5, OthersKeep
<1> QED
  BY <1>1, <1>2, <1>3, <1>4, <1>5 DEF Next

LEMMA Hw1Invariant == Spec => []Hw1IInv
<1>1. Hw1IInv /\ [Next]_vars => Hw1IInv'
  BY Hw1Step
<1> QED
  BY <1>1, Hw1IInitial, PTL DEF Spec

\* Every variable of the first homework library keeps its type, for any number
\* of threads, nodes and creates.
THEOREM Hw1TypeCorrect == Spec => []Hw1TypeOK
<1>1. Hw1IInv => Hw1TypeOK
  BY DEF Hw1IInv
<1> QED
  BY <1>1, Hw1Invariant, PTL

\* push and pop keep one ring: the links lead from front through every node
\* that is not freed to rear, and back.
THEOREM RingHolds == Spec => []RingIntact
<1>1. Hw1IInv => RingIntact
  BY RingCloses DEF Hw1IInv, RingThere
<1> QED
  BY <1>1, Hw1Invariant, PTL

\* The ring is first come, first served: push adds at the end of what traverse
\* would meet, and pop takes from its front.
THEOREM FifoHolds == Spec => QueueIsFifo
<1>1. Hw1IInv /\ [Next]_vars => [FifoStep]_vars
  BY Hw1Step
<1> QED
  BY <1>1, Hw1Invariant, PTL DEF Spec, QueueIsFifo, FifoStep
============================================================================
