-------------------------- MODULE Smessages_proofs --------------------------
(***************************************************************************)
(* The message layer, for any sockets, messages and reads: the list keeps  *)
(* its type, of a socket's elements only the last can be incomplete, every *)
(* byte read is in one message, and a complete one ends at a null byte.    *)
(*                                                                         *)
(* First the recursive functions, then what each operation of the list     *)
(* does to the elements of one socket, then the invariant, step by step.   *)
(***************************************************************************)
EXTENDS Smessages, QueueUtil_proofs

Bytes == Chars \cup {NUL}
Elements == [s : Sockets, message : Seq(Chars) \ {<<>>}, complete : BOOLEAN]

\* IncompleteIsLast, of any list.
LastIncomplete(list) ==
  \A i, j \in DOMAIN list : list[i].s = list[j].s /\ ~list[i].complete => j <= i

----------------------------------------------------------------------------
(***************************************************************************)
(* The recursive functions.  Each is a CHOOSE; Recursion finds one, and so *)
(* what the definition says of each value is true.                         *)
(***************************************************************************)

\* Induction up to a number, and along a sequence of values.
LEMMA InductionUpTo ==
  ASSUME NEW T, NEW N \in Nat, 0 \in T, \A n \in 1..N : n - 1 \in T => n \in T
  PROVE  0..N \subseteq T
<1> DEFINE S == {n \in Nat : n <= N => n \in T}
<1>1. 0 \in S
  OBVIOUS
<1>2. ASSUME NEW n \in Nat, n \in S
      PROVE  n + 1 \in S
  <2>1. n + 1 <= N => n + 1 \in 1..N /\ (n + 1) - 1 = n /\ n <= N
    OBVIOUS
  <2> QED
    BY <1>2, <2>1
<1> HIDE DEF S
<1>3. Nat \subseteq S
  BY <1>1, <1>2, SetInduction
<1> QED
  BY <1>3 DEF S

LEMMA StaysIn ==
  ASSUME NEW X, NEW N \in Nat, NEW h, h[0] \in X,
         \A n \in 1..N : h[n - 1] \in X => h[n] \in X
  PROVE  \A n \in 0..N : h[n] \in X
<1> DEFINE T == {n \in 0..N : h[n] \in X}
<1>1. 0 \in T
  OBVIOUS
<1>2. \A n \in 1..N : n - 1 \in T => n \in T
  OBVIOUS
<1> HIDE DEF T
<1>3. 0..N \subseteq T
  BY <1>1, <1>2, InductionUpTo
<1> QED
  BY <1>3 DEF T

\* f starts with base and takes the first n of step's steps.
Steps(X, N, step) == step \in [1..N -> [X -> X]]
Runs(f, X, base, step, n) ==
  /\ f \in [0..n -> X] /\ f[0] = base
  /\ \A j \in 1..n : f[j] = step[j][f[j - 1]]

LEMMA Recursion ==
  ASSUME NEW X, NEW base \in X, NEW N \in Nat, NEW step, Steps(X, N, step)
  PROVE  \E f : Runs(f, X, base, step, N)
<1> DEFINE R(f, n) == Runs(f, X, base, step, n)
           S == {n \in Nat : n <= N => \E f : R(f, n)}
<1>1. 0 \in S
  <2>1. R([j \in 0..0 |-> base], 0)
    BY \A j \in 0..0 : j = 0 DEF Runs
  <2> QED
    BY <2>1
<1>2. ASSUME NEW n \in Nat, n \in S
      PROVE  n + 1 \in S
  <2> SUFFICES ASSUME n + 1 <= N
               PROVE  \E f : R(f, n + 1)
    OBVIOUS
  <2>1. PICK f : R(f, n)
    BY <1>2
  <2> DEFINE g == [j \in 0..(n + 1) |-> IF j <= n THEN f[j] ELSE step[n + 1][f[n]]]
  <2>2. /\ \A j \in 0..n : f[j] \in X /\ g[j] = f[j]
        /\ n \in 0..n /\ 0 \in 0..n
    BY <2>1 DEF Runs
  <2>3. g[n + 1] = step[n + 1][f[n]] /\ step[n + 1][f[n]] \in X
    <3>1. n + 1 \in 1..N
      OBVIOUS
    <3>2. step[n + 1] \in [X -> X] /\ f[n] \in X
      BY <2>2, <3>1 DEF Steps
    <3>3. ~(n + 1 <= n) /\ n + 1 \in 0..(n + 1)
      OBVIOUS
    <3> QED
      BY <3>2, <3>3
  <2>4. g \in [0..(n + 1) -> X]
    <3>1. \A j \in 0..(n + 1) : j \in 0..n \/ j = n + 1
      OBVIOUS
    <3>2. g = [j \in 0..(n + 1) |-> g[j]]
      OBVIOUS
    <3> HIDE DEF g
    <3> QED
      BY <2>2, <2>3, <3>1, <3>2
  <2>5. ASSUME NEW j \in 1..(n + 1)
        PROVE  g[j] = step[j][g[j - 1]]
    <3>1. CASE j = n + 1
      <4>1. j - 1 = n
        BY <3>1
      <4> HIDE DEF g
      <4> QED
        BY <2>2, <2>3, <3>1, <4>1
    <3>2. CASE j # n + 1
      <4>1. j \in 1..n /\ j \in 0..n /\ j - 1 \in 0..n
        BY <3>2
      <4> HIDE DEF g
      <4> QED
        BY <2>1, <2>2, <4>1 DEF Runs
    <3> QED
      BY <2>2, <2>3, <3>1, <3>2
  <2> HIDE DEF g
  <2>6. R(g, n + 1)
    BY <2>1, <2>2, <2>4, <2>5 DEF Runs
  <2> QED
    BY <2>6
<1> HIDE DEF S
<1>3. N \in S
  BY <1>1, <1>2, SetInduction
<1> QED
  BY <1>3 DEF S

\* At's function.
AtTo(q, positions) ==
  LET at[n \in 0..Len(q)] ==
        IF n = 0 THEN <<>>
        ELSE IF n \in positions THEN Append(at[n - 1], q[n])
        ELSE at[n - 1]
  IN  at

LEMMA AtSteps ==
  ASSUME NEW S, NEW q \in Seq(S), NEW I
  PROVE  /\ At(q, I) = AtTo(q, I)[Len(q)]
         /\ AtTo(q, I) \in [0..Len(q) -> Seq(S)]
         /\ AtTo(q, I)[0] = <<>>
         /\ \A n \in 1..Len(q) :
              AtTo(q, I)[n] = IF n \in I THEN Append(AtTo(q, I)[n - 1], q[n])
                                         ELSE AtTo(q, I)[n - 1]
<1> DEFINE N == Len(q)
           X == Seq(S)
           step == [n \in 1..N |-> [x \in X |-> IF n \in I THEN Append(x, q[n]) ELSE x]]
           Is(f) == f = [n \in 0..N |-> IF n = 0 THEN <<>>
                                        ELSE IF n \in I THEN Append(f[n - 1], q[n])
                                        ELSE f[n - 1]]
<1>1. N \in Nat /\ <<>> \in X
  OBVIOUS
<1>2. \A n \in 1..N : q[n] \in S
  OBVIOUS
<1>3. Steps(X, N, step)
  BY <1>2 DEF Steps
<1>4. \A n \in 1..N, x \in X :
        step[n][x] = IF n \in I THEN Append(x, q[n]) ELSE x
  OBVIOUS
<1>5. \A n \in 1..N, x \in X : Append(x, q[n]) \in X
  BY <1>2
<1> HIDE DEF step, X, N
<1>6. PICK f : Runs(f, X, <<>>, step, N)
  BY <1>1, <1>3, Recursion
<1>7. \A n \in 1..N : f[n - 1] \in X /\ n \in 0..N /\ n # 0
  BY <1>1, <1>6 DEF Runs
<1>8. Is(f)
  <2>1. \A n \in 1..N : f[n] = IF n \in I THEN Append(f[n - 1], q[n]) ELSE f[n - 1]
    BY <1>4, <1>6, <1>7 DEF Runs
  <2>2. \A n \in 0..N : n = 0 \/ n \in 1..N
    BY <1>1
  <2> QED
    BY <1>6, <2>1, <2>2 DEF Runs
<1>9. AtTo(q, I) = CHOOSE g : Is(g)
  BY DEF AtTo, N
<1> DEFINE h == AtTo(q, I)
<1>10. Is(h)
  <2> HIDE DEF Is
  <2> QED
    BY <1>8, <1>9
<1> HIDE DEF h
<1>11. h[0] = <<>> /\ \A n \in 1..N : h[n] = IF n \in I THEN Append(h[n - 1], q[n])
                                                       ELSE h[n - 1]
  <2>1. 0 \in 0..N /\ \A n \in 1..N : n \in 0..N /\ n # 0
    BY <1>1
  <2> QED
    BY <1>10, <2>1
<1>12. \A n \in 1..N : h[n - 1] \in X => h[n] \in X
  BY <1>11, <1>5
<1>13. \A n \in 0..N : h[n] \in X
  <2>1. N \in Nat /\ h[0] \in X
    BY <1>1, <1>11
  <2> QED
    BY <1>12, <2>1, StaysIn
<1>14. h \in [0..N -> X]
  BY <1>10, <1>13
<1> QED
  BY <1>11, <1>14 DEF h, N, X, At, AtTo


\* At reads no further than the sequence.
LEMMA AtAgree ==
  ASSUME NEW S, NEW q \in Seq(S), NEW r \in Seq(S), NEW I, NEW J,
         NEW N \in Nat, N <= Len(q), N <= Len(r),
         \A n \in 1..N : q[n] = r[n] /\ (n \in I <=> n \in J)
  PROVE  AtTo(q, I)[N] = AtTo(r, J)[N]
<1> DEFINE T == {n \in 0..N : AtTo(q, I)[n] = AtTo(r, J)[n]}
<1>1. 0 \in T
  BY AtSteps
<1>2. ASSUME NEW n \in 1..N, n - 1 \in T
      PROVE  n \in T
  <2>1. n \in 1..Len(q) /\ n \in 1..Len(r)
    OBVIOUS
  <2>2. AtTo(q, I)[n] = IF n \in I THEN Append(AtTo(q, I)[n - 1], q[n])
                                   ELSE AtTo(q, I)[n - 1]
    BY <2>1, AtSteps
  <2>3. AtTo(r, J)[n] = IF n \in J THEN Append(AtTo(r, J)[n - 1], r[n])
                                   ELSE AtTo(r, J)[n - 1]
    BY <2>1, AtSteps
  <2>4. AtTo(q, I)[n - 1] = AtTo(r, J)[n - 1]
    BY <1>2
  <2> QED
    BY <2>2, <2>3, <2>4
<1> HIDE DEF T
<1>3. 0..N \subseteq T
  BY <1>1, <1>2, InductionUpTo
<1> QED
  BY <1>3 DEF T

LEMMA AtAppend ==
  ASSUME NEW S, NEW q \in Seq(S), NEW x \in S, NEW I, NEW J,
         \A n \in 1..Len(q) : n \in I <=> n \in J
  PROVE  At(Append(q, x), J) = IF Len(q) + 1 \in J THEN Append(At(q, I), x) ELSE At(q, I)
<1> DEFINE r == Append(q, x)
<1>1. r \in Seq(S) /\ Len(r) = Len(q) + 1 /\ Len(q) \in Nat
      /\ (\A n \in 1..Len(q) : r[n] = q[n]) /\ r[Len(q) + 1] = x
  OBVIOUS
<1> HIDE DEF r
<1> DEFINE N == Len(q)
<1>2. AtTo(q, I)[N] = AtTo(r, J)[N]
  <2>1. N \in Nat /\ N <= Len(q) /\ N <= Len(r)
    BY <1>1
  <2>2. \A n \in 1..N : q[n] = r[n] /\ (n \in I <=> n \in J)
    BY <1>1
  <2>3. q \in Seq(S) /\ r \in Seq(S)
    BY <1>1
  <2> HIDE DEF N
  <2> QED
    BY <2>1, <2>2, <2>3, AtAgree
<1>3. Len(r) \in 1..Len(r) /\ Len(r) - 1 = Len(q)
  BY <1>1
<1>4. At(r, J) = AtTo(r, J)[Len(r)] /\ At(q, I) = AtTo(q, I)[Len(q)]
  BY <1>1, AtSteps
<1>5. AtTo(r, J)[Len(r)] = IF Len(r) \in J THEN Append(AtTo(r, J)[Len(r) - 1], r[Len(r)])
                                           ELSE AtTo(r, J)[Len(r) - 1]
  BY <1>1, <1>3, AtSteps
<1>6. At(r, J) = IF Len(q) + 1 \in J THEN Append(At(q, I), x) ELSE At(q, I)
  BY <1>1, <1>2, <1>3, <1>4, <1>5
<1> QED
  BY <1>6 DEF r

LEMMA AtType ==
  ASSUME NEW S, NEW q \in Seq(S), NEW I
  PROVE  At(q, I) \in Seq(S) /\ (q = <<>> => At(q, I) = <<>>)
<1>1. Len(q) \in 0..Len(q) /\ (q = <<>> => Len(q) = 0)
  OBVIOUS
<1> QED
  BY <1>1, AtSteps

----------------------------------------------------------------------------
\* Of and Text take what is in a set.

Among(q, K) == At(q, {i \in DOMAIN q : q[i] \in K})

LEMMA AmongAppend ==
  ASSUME NEW S, NEW q \in Seq(S), NEW x \in S, NEW K
  PROVE  Among(Append(q, x), K) = IF x \in K THEN Append(Among(q, K), x) ELSE Among(q, K)
<1> DEFINE r == Append(q, x)
           I == {i \in DOMAIN q : q[i] \in K}
           J == {i \in DOMAIN r : r[i] \in K}
<1>1. r \in Seq(S) /\ Len(r) = Len(q) + 1 /\ Len(q) \in Nat
      /\ (\A n \in 1..Len(q) : r[n] = q[n]) /\ r[Len(q) + 1] = x
      /\ DOMAIN q = 1..Len(q) /\ DOMAIN r = 1..(Len(q) + 1)
  OBVIOUS
<1> HIDE DEF r
<1>2. (\A n \in 1..Len(q) : n \in I <=> n \in J) /\ (Len(q) + 1 \in J <=> x \in K)
  BY <1>1
<1> HIDE DEF I, J
<1>3. At(Append(q, x), J) = IF Len(q) + 1 \in J THEN Append(At(q, I), x) ELSE At(q, I)
  BY <1>2, AtAppend
<1> QED
  BY <1>2, <1>3 DEF Among, I, J, r

LEMMA AmongType ==
  ASSUME NEW S, NEW q \in Seq(S), NEW K
  PROVE  Among(q, K) \in Seq(S)
BY AtType DEF Among

LEMMA AmongEmpty ==
  ASSUME NEW K
  PROVE  Among(<<>>, K) = <<>>
<1>1. <<>> \in Seq({})
  OBVIOUS
<1> QED
  BY <1>1, AtType DEF Among

\* A sequence's first n + 1 elements are the first n and the next.
LEMMA OneMore ==
  ASSUME NEW S, NEW r \in Seq(S), NEW n \in 1..Len(r)
  PROVE  /\ SubSeq(r, 1, n - 1) \in Seq(S) /\ Len(SubSeq(r, 1, n - 1)) = n - 1
         /\ r[n] \in S
         /\ SubSeq(r, 1, n) = Append(SubSeq(r, 1, n - 1), r[n])
         /\ \A p \in Seq(S) :
              p \o SubSeq(r, 1, n) = Append(p \o SubSeq(r, 1, n - 1), r[n])
OBVIOUS

LEMMA Whole ==
  ASSUME NEW S, NEW r \in Seq(S)
  PROVE  SubSeq(r, 1, 0) = <<>> /\ SubSeq(r, 1, Len(r)) = r /\ r \o <<>> = r /\ <<>> \o r = r
OBVIOUS

LEMMA AmongConcat ==
  ASSUME NEW S, NEW p \in Seq(S), NEW r \in Seq(S), NEW K
  PROVE  Among(p \o r, K) = Among(p, K) \o Among(r, K)
<1> DEFINE E(n) == Among(p \o SubSeq(r, 1, n), K)
                     = Among(p, K) \o Among(SubSeq(r, 1, n), K)
           T == {n \in 0..Len(r) : E(n)}
<1>1. E(0)
  <2>1. Among(p, K) \in Seq(S)
    BY AmongType
  <2> DEFINE P == Among(p, K)
  <2> HIDE DEF P
  <2>2. SubSeq(r, 1, 0) = <<>> /\ p \o <<>> = p /\ P \o <<>> = P
    BY <2>1, Whole DEF P
  <2> QED
    BY <2>2, AmongEmpty, Zenon DEF P
<1>2. ASSUME NEW n \in 1..Len(r), E(n - 1)
      PROVE  E(n)
  <2> DEFINE b == SubSeq(r, 1, n - 1)
             a == p \o b
             x == r[n]
             A == Among(a, K)
             P == Among(p, K)
             B == Among(b, K)
  <2>1. b \in Seq(S) /\ x \in S /\ SubSeq(r, 1, n) = Append(b, x)
        /\ p \o SubSeq(r, 1, n) = Append(a, x)
    BY OneMore
  <2>2. a \in Seq(S)
    BY <2>1
  <2>3. A = P \o B
    BY <1>2
  <2> HIDE DEF a, b, x
  <2>4. A \in Seq(S) /\ P \in Seq(S) /\ B \in Seq(S)
    BY <2>1, <2>2, AmongType
  <2>5. /\ Among(Append(a, x), K) = IF x \in K THEN Append(A, x) ELSE A
        /\ Among(Append(b, x), K) = IF x \in K THEN Append(B, x) ELSE B
    BY <2>1, <2>2, AmongAppend
  <2> HIDE DEF A, P, B
  <2>6. P \o Append(B, x) = Append(P \o B, x)
    <3>1. x \in S /\ P \in Seq(S) /\ B \in Seq(S)
      BY <2>1, <2>4
    <3> QED
      BY ONLY <3>1
  <2>7. Among(Append(a, x), K) = P \o Among(Append(b, x), K)
    BY <2>3, <2>5, <2>6
  <2> QED
    BY <2>1, <2>7, Zenon DEF P
<1> HIDE DEF E
<1>3. Len(r) \in Nat /\ Len(r) \in 0..Len(r) /\ 0 \in 0..Len(r)
  OBVIOUS
<1>4. 0 \in T /\ \A n \in 1..Len(r) : n - 1 \in T => n \in T
  BY <1>1, <1>2, <1>3
<1> HIDE DEF T
<1>5. 0..Len(r) \subseteq T
  BY <1>3, <1>4, InductionUpTo
<1>6. E(Len(r))
  BY <1>3, <1>5 DEF T
<1>7. SubSeq(r, 1, Len(r)) = r
  BY Whole
<1> QED
  BY <1>6, <1>7, Zenon DEF E

----------------------------------------------------------------------------
\* Texts: the messages of a list, one behind the other.

FlatTo(q) ==
  LET flatten[i \in 1..Len(q)] ==
        IF i = 1 THEN q[i] ELSE flatten[i - 1] \o q[i]
  IN  flatten

LEMMA FlatSteps ==
  ASSUME NEW S, NEW q \in Seq(Seq(S)), q # <<>>
  PROVE  /\ FlattenSeq(q) = FlatTo(q)[Len(q)]
         /\ FlatTo(q)[1] = q[1]
         /\ \A n \in 2..Len(q) : FlatTo(q)[n] = FlatTo(q)[n - 1] \o q[n]
         /\ \A n \in 1..Len(q) : FlatTo(q)[n] \in Seq(S)
<1> DEFINE N == Len(q)
           X == Seq(S)
           step == [n \in 1..N |-> [x \in X |-> x \o q[n]]]
           Is(f) == f = [i \in 1..N |-> IF i = 1 THEN q[i] ELSE f[i - 1] \o q[i]]
<1>1. N \in Nat \ {0} /\ <<>> \in X
  OBVIOUS
<1>2. \A n \in 1..N : q[n] \in Seq(S) /\ <<>> \o q[n] = q[n]
  OBVIOUS
<1>3. Steps(X, N, step)
  BY <1>2 DEF Steps
<1>4. \A n \in 1..N, x \in X : step[n][x] = x \o q[n] /\ x \o q[n] \in X
  BY <1>2
<1> HIDE DEF step, X, N
<1>5. PICK f : Runs(f, X, <<>>, step, N)
  BY <1>1, <1>3, Recursion
<1>6. \A n \in 1..N : f[n] = f[n - 1] \o q[n]
  <2>1. \A n \in 1..N : f[n - 1] \in X
    BY <1>1, <1>5 DEF Runs
  <2> QED
    BY <1>4, <1>5, <2>1 DEF Runs
<1>7. 1 \in 1..N /\ \A n \in 1..N : n # 1 => n \in 2..N /\ n - 1 \in 1..N
  BY <1>1
<1>8. Is([n \in 1..N |-> f[n]])
  <2>1. 1 - 1 = 0 /\ f[0] = <<>>
    BY <1>5 DEF Runs
  <2>2. f[1] = q[1]
    <3>1. f[1] = f[1 - 1] \o q[1]
      BY <1>6, <1>7
    <3>2. f[1] = <<>> \o q[1]
      BY <2>1, <3>1, Zenon
    <3> QED
      BY <1>2, <1>7, <3>2
  <2>3. \A n \in 1..N : f[n] = IF n = 1 THEN q[n] ELSE [i \in 1..N |-> f[i]][n - 1] \o q[n]
    BY <1>6, <1>7, <2>2
  <2> QED
    BY <2>3
<1>9. FlatTo(q) = CHOOSE g : Is(g)
  BY DEF FlatTo, N
<1> DEFINE h == FlatTo(q)
<1>10. Is(h)
  <2> HIDE DEF Is
  <2> QED
    BY <1>8, <1>9
<1> HIDE DEF h
<1>11. h[1] = q[1] /\ \A n \in 2..N : h[n] = h[n - 1] \o q[n]
  <2>1. \A n \in 2..N : n \in 1..N /\ n # 1
    BY <1>1
  <2> QED
    BY <1>7, <1>10, <2>1
<1>12. \A n \in 1..N : h[n] \in X
  <2> DEFINE T == {n \in 0..N : n = 0 \/ h[n] \in X}
  <2>1. 0 \in T
    BY <1>1
  <2>2. ASSUME NEW n \in 1..N, n - 1 \in T
        PROVE  n \in T
    <3>1. CASE n = 1
      <4>1. q[1] \in X
        BY <1>2, <1>7 DEF X
      <4> QED
        BY <1>1, <1>11, <3>1, <4>1
    <3>2. CASE n # 1
      <4>1. n \in 2..N /\ n - 1 # 0
        BY <1>7, <3>2
      <4>2. h[n - 1] \in X
        BY <2>2, <4>1
      <4> QED
        <5>1. h[n - 1] \o q[n] \in X
          BY <1>4, <4>2
        <5>2. h[n] = h[n - 1] \o q[n]
          BY <1>11, <4>1
        <5>3. h[n] \in X
          BY <5>1, <5>2, Zenon
        <5> QED
          BY <1>1, <5>3
    <3> QED
      BY <3>1, <3>2
  <2> HIDE DEF T
  <2>3. 0..N \subseteq T
    BY <1>1, <2>1, <2>2, InductionUpTo
  <2> QED
    BY <1>1, <2>3 DEF T
<1>13. FlattenSeq(q) = h[N]
  BY <1>1 DEF FlattenSeq, FlatTo, h, N
<1> QED
  BY <1>11, <1>12, <1>13 DEF h, N, X

\* FlattenSeq of a sequence with one more.
LEMMA FlatAppend ==
  ASSUME NEW S, NEW q \in Seq(Seq(S)), NEW x \in Seq(S)
  PROVE  /\ FlattenSeq(q) \in Seq(S)
         /\ FlattenSeq(Append(q, x)) = FlattenSeq(q) \o x
<1> DEFINE r == Append(q, x)
<1>1. r \in Seq(Seq(S)) /\ r # <<>> /\ Len(r) = Len(q) + 1 /\ Len(q) \in Nat
      /\ (\A n \in 1..Len(q) : r[n] = q[n]) /\ r[Len(q) + 1] = x
  <2> DEFINE X == Seq(S)
  <2> HIDE DEF X
  <2>1. q \in Seq(X) /\ x \in X
    BY DEF X
  <2>2. r \in Seq(X) /\ r # <<>> /\ Len(r) = Len(q) + 1 /\ Len(q) \in Nat
        /\ (\A n \in 1..Len(q) : r[n] = q[n]) /\ r[Len(q) + 1] = x
    BY <2>1
  <2> HIDE DEF r
  <2> QED
    BY <2>2, Zenon DEF X
<1> HIDE DEF r
<1>2. CASE q = <<>>
  <2>1. Len(q) = 0 /\ Len(r) = 1 /\ r[1] = x
    BY <1>1, <1>2
  <2>2. FlattenSeq(q) = <<>>
    BY <1>2, <2>1 DEF FlattenSeq
  <2>3. FlattenSeq(r) = x
    BY <1>1, <2>1, FlatSteps
  <2>4. <<>> \in Seq(S) /\ <<>> \o x = x
    OBVIOUS
  <2> QED
    BY <2>2, <2>3, <2>4 DEF r
<1>3. CASE q # <<>>
  <2> DEFINE N == Len(q)
             T == {n \in 0..N : n = 0 \/ FlatTo(q)[n] = FlatTo(r)[n]}
  <2>1. N \in Nat \ {0} /\ 0 \in T
    BY <1>1, <1>3
  <2>2. ASSUME NEW n \in 1..N, n - 1 \in T
        PROVE  n \in T
    <3>1. FlatTo(q)[1] = q[1] /\ FlatTo(r)[1] = r[1] /\ r[n] = q[n]
      BY <1>1, <1>3, FlatSteps
    <3>2. CASE n = 1
      BY <3>1, <3>2
    <3>3. CASE n # 1
      <4>1. n \in 2..Len(q) /\ n \in 2..Len(r)
        BY <1>1, <3>3
      <4>2. FlatTo(q)[n] = FlatTo(q)[n - 1] \o q[n] /\ FlatTo(r)[n] = FlatTo(r)[n - 1] \o r[n]
        BY <1>1, <1>3, <4>1, FlatSteps
      <4>3. FlatTo(q)[n - 1] = FlatTo(r)[n - 1]
        BY <2>2, <3>3
      <4> QED
        <5>1. FlatTo(q)[n] = FlatTo(r)[n]
          BY <3>1, <4>2, <4>3, Zenon
        <5> QED
          BY <5>1
    <3> QED
      BY <3>2, <3>3
  <2> HIDE DEF T
  <2>3. 0..N \subseteq T
    BY <2>1, <2>2, InductionUpTo
  <2>4. FlatTo(q)[N] = FlatTo(r)[N]
    BY <2>1, <2>3 DEF T
  <2>5. Len(r) \in 2..Len(r) /\ Len(r) - 1 = N /\ N \in 1..Len(q)
    BY <1>1, <2>1
  <2>6. FlatTo(r)[Len(r)] = FlatTo(r)[Len(r) - 1] \o r[Len(r)]
    BY <1>1, <2>5, FlatSteps
  <2>7. /\ FlattenSeq(q) = FlatTo(q)[N] /\ FlatTo(q)[N] \in Seq(S)
        /\ FlattenSeq(r) = FlatTo(r)[Len(r)]
    BY <1>1, <1>3, <2>5, FlatSteps
  <2> HIDE DEF N
  <2>8. FlattenSeq(r) = FlattenSeq(q) \o x
    BY <1>1, <2>4, <2>5, <2>6, <2>7 DEF N
  <2> QED
    BY <2>7, <2>8 DEF r
<1> QED
  BY <1>2, <1>3

LEMMA TextsAppend ==
  ASSUME NEW list \in Seq(Elements), NEW el \in Elements
  PROVE  /\ Texts(list) \in Seq(Chars)
         /\ Texts(Append(list, el)) = Texts(list) \o el.message
<1> DEFINE M(l) == [i \in DOMAIN l |-> l[i].message]
           r == Append(list, el)
<1>1. \A l \in Seq(Elements) : M(l) \in Seq(Seq(Chars))
  <2> DEFINE X == Seq(Chars)
  <2>1. \A e \in Elements : e.message \in X
    BY DEF Elements
  <2> HIDE DEF X
  <2>2. \A l \in Seq(Elements) : M(l) \in Seq(X)
    BY <2>1
  <2> HIDE DEF M
  <2> QED
    BY <2>2, Zenon DEF X
<1>2. el.message \in Seq(Chars)
  BY DEF Elements
<1>3. M(r) = Append(M(list), el.message)
  OBVIOUS
<1> QED
  BY <1>1, <1>2, <1>3, FlatAppend DEF Texts

LEMMA TextsEmpty == Texts(<<>>) = <<>>
<1>1. [i \in DOMAIN <<>> |-> <<>>[i].message] = <<>>
  OBVIOUS
<1> QED
  BY <1>1 DEF Texts, FlattenSeq

LEMMA TextsType ==
  ASSUME NEW list \in Seq(Elements)
  PROVE  Texts(list) \in Seq(Chars)
<1>1. CASE list = <<>>
  <2>1. Texts(list) = <<>>
    BY <1>1, TextsEmpty, Zenon
  <2> QED
    BY <2>1
<1>2. CASE list # <<>>
  <2>1. list[1] \in Elements
    BY <1>2
  <2> QED
    BY <2>1, TextsAppend
<1> QED
  BY <1>1, <1>2

LEMMA TextsConcat ==
  ASSUME NEW p \in Seq(Elements), NEW r \in Seq(Elements)
  PROVE  Texts(p \o r) = Texts(p) \o Texts(r)
<1> DEFINE E(n) == Texts(p \o SubSeq(r, 1, n)) = Texts(p) \o Texts(SubSeq(r, 1, n))
           T == {n \in 0..Len(r) : E(n)}
<1>1. E(0)
  <2> DEFINE P == Texts(p)
  <2>1. P \in Seq(Chars)
    BY TextsType
  <2> HIDE DEF P
  <2>2. SubSeq(r, 1, 0) = <<>> /\ p \o <<>> = p /\ P \o <<>> = P
    BY <2>1, Whole
  <2> QED
    BY <2>2, TextsEmpty, Zenon DEF P
<1>2. ASSUME NEW n \in 1..Len(r), E(n - 1)
      PROVE  E(n)
  <2> DEFINE b == SubSeq(r, 1, n - 1)
             a == p \o b
             x == r[n]
             m == x.message
             A == Texts(a)
             P == Texts(p)
             B == Texts(b)
  <2>1. b \in Seq(Elements) /\ x \in Elements /\ SubSeq(r, 1, n) = Append(b, x)
        /\ p \o SubSeq(r, 1, n) = Append(a, x)
    BY OneMore
  <2>2. a \in Seq(Elements)
    BY <2>1
  <2>3. A = P \o B
    BY <1>2
  <2>4. m \in Seq(Chars)
    BY <2>1 DEF Elements
  <2> HIDE DEF a, b, x
  <2>5. /\ A \in Seq(Chars) /\ Texts(Append(a, x)) = A \o m
        /\ B \in Seq(Chars) /\ Texts(Append(b, x)) = B \o m
        /\ P \in Seq(Chars)
    BY <2>1, <2>2, TextsAppend
  <2> HIDE DEF A, P, B, m
  <2>6. (P \o B) \o m = P \o (B \o m)
    <3>1. P \in Seq(Chars) /\ B \in Seq(Chars) /\ m \in Seq(Chars)
      BY <2>4, <2>5
    <3> QED
      BY ONLY <3>1
  <2>7. Texts(Append(a, x)) = P \o Texts(Append(b, x))
    BY <2>3, <2>5, <2>6, Zenon
  <2> QED
    BY <2>1, <2>7, Zenon DEF P
<1> HIDE DEF E
<1>3. Len(r) \in Nat /\ Len(r) \in 0..Len(r) /\ 0 \in 0..Len(r)
  OBVIOUS
<1>4. 0 \in T /\ \A n \in 1..Len(r) : n - 1 \in T => n \in T
  BY <1>1, <1>2, <1>3
<1> HIDE DEF T
<1>5. 0..Len(r) \subseteq T
  BY <1>3, <1>4, InductionUpTo
<1>6. E(Len(r))
  BY <1>3, <1>5 DEF T
<1>7. SubSeq(r, 1, Len(r)) = r
  BY Whole
<1> QED
  BY <1>6, <1>7, Zenon DEF E

\* All or nothing of a sequence is taken.
LEMMA AmongAllNone ==
  ASSUME NEW S, NEW q \in Seq(S), NEW K
  PROVE  /\ (\A i \in DOMAIN q : q[i] \in K) => Among(q, K) = q
         /\ (\A i \in DOMAIN q : q[i] \notin K) => Among(q, K) = <<>>
<1> DEFINE A(n) == Among(SubSeq(q, 1, n), K) = SubSeq(q, 1, n)
           B(n) == Among(SubSeq(q, 1, n), K) = <<>>
           T == {n \in 0..Len(q) : A(n)}
           U == {n \in 0..Len(q) : B(n)}
<1>1. A(0) /\ B(0)
  <2>1. SubSeq(q, 1, 0) = <<>>
    OBVIOUS
  <2> QED
    BY <2>1, AmongEmpty, Zenon
<1>2. ASSUME NEW n \in 1..Len(q)
      PROVE  /\ A(n - 1) /\ q[n] \in K => A(n)
             /\ B(n - 1) /\ q[n] \notin K => B(n)
  <2> DEFINE b == SubSeq(q, 1, n - 1)
             x == q[n]
  <2>1. b \in Seq(S) /\ x \in S /\ SubSeq(q, 1, n) = Append(b, x)
    BY OneMore
  <2> HIDE DEF b, x
  <2>2. Among(Append(b, x), K) = IF x \in K THEN Append(Among(b, K), x) ELSE Among(b, K)
    BY <2>1, AmongAppend
  <2> QED
    BY <2>1, <2>2, Zenon DEF b, x
<1> HIDE DEF A, B
<1>3. Len(q) \in Nat /\ Len(q) \in 0..Len(q) /\ 0 \in 0..Len(q) /\ DOMAIN q = 1..Len(q)
  OBVIOUS
<1>4. SubSeq(q, 1, Len(q)) = q
  BY Whole
<1>5. ASSUME \A i \in DOMAIN q : q[i] \in K
      PROVE  Among(q, K) = q
  <2>1. 0 \in T /\ \A n \in 1..Len(q) : n - 1 \in T => n \in T
    BY <1>1, <1>2, <1>3, <1>5
  <2> HIDE DEF T
  <2>2. 0..Len(q) \subseteq T
    BY <1>3, <2>1, InductionUpTo
  <2>3. A(Len(q))
    BY <1>3, <2>2 DEF T
  <2> QED
    BY <1>4, <2>3, Zenon DEF A
<1>6. ASSUME \A i \in DOMAIN q : q[i] \notin K
      PROVE  Among(q, K) = <<>>
  <2>1. 0 \in U /\ \A n \in 1..Len(q) : n - 1 \in U => n \in U
    BY <1>1, <1>2, <1>3, <1>6
  <2> HIDE DEF U
  <2>2. 0..Len(q) \subseteq U
    BY <1>3, <2>1, InductionUpTo
  <2>3. B(Len(q))
    BY <1>3, <2>2 DEF U
  <2> QED
    BY <1>4, <2>3, Zenon DEF B
<1> QED
  BY <1>5, <1>6

----------------------------------------------------------------------------
\* Of.

ElementsOf(s) == {el \in Elements : el.s = s}

LEMMA OfIs ==
  ASSUME NEW list \in Seq(Elements), NEW s
  PROVE  Of(s, list) = Among(list, ElementsOf(s)) /\ Of(s, list) \in Seq(Elements)
<1>1. {i \in DOMAIN list : list[i].s = s} = {i \in DOMAIN list : list[i] \in ElementsOf(s)}
  BY DEF ElementsOf
<1>2. Of(s, list) = Among(list, ElementsOf(s))
  BY <1>1, Zenon DEF Of, Among
<1> QED
  BY <1>2, AmongType

LEMMA OfAppend ==
  ASSUME NEW list \in Seq(Elements), NEW el \in Elements, NEW s
  PROVE  Of(s, Append(list, el)) = IF el.s = s THEN Append(Of(s, list), el) ELSE Of(s, list)
<1>1. Append(list, el) \in Seq(Elements)
  OBVIOUS
<1>2. /\ Of(s, list) = Among(list, ElementsOf(s))
      /\ Of(s, Append(list, el)) = Among(Append(list, el), ElementsOf(s))
  BY <1>1, OfIs
<1>3. el \in ElementsOf(s) <=> el.s = s
  BY DEF ElementsOf
<1>4. Among(Append(list, el), ElementsOf(s))
        = IF el \in ElementsOf(s) THEN Append(Among(list, ElementsOf(s)), el)
                                  ELSE Among(list, ElementsOf(s))
  BY AmongAppend, Zenon
<1> QED
  BY <1>2, <1>3, <1>4, Zenon

LEMMA OfConcat ==
  ASSUME NEW p \in Seq(Elements), NEW r \in Seq(Elements), NEW s
  PROVE  Of(s, p \o r) = Of(s, p) \o Of(s, r)
<1>1. p \o r \in Seq(Elements)
  OBVIOUS
<1>2. /\ Of(s, p) = Among(p, ElementsOf(s)) /\ Of(s, r) = Among(r, ElementsOf(s))
      /\ Of(s, p \o r) = Among(p \o r, ElementsOf(s))
  BY <1>1, OfIs
<1>3. Among(p \o r, ElementsOf(s)) = Among(p, ElementsOf(s)) \o Among(r, ElementsOf(s))
  BY AmongConcat
<1> QED
  BY <1>2, <1>3, Zenon

LEMMA OfAllNone ==
  ASSUME NEW list \in Seq(Elements), NEW s
  PROVE  /\ (\A i \in DOMAIN list : list[i].s = s) => Of(s, list) = list
         /\ (\A i \in DOMAIN list : list[i].s # s) => Of(s, list) = <<>>
<1>1. Of(s, list) = Among(list, ElementsOf(s))
  BY OfIs
<1>2. \A i \in DOMAIN list : list[i] \in ElementsOf(s) <=> list[i].s = s
  BY DEF ElementsOf
<1> QED
  BY <1>1, <1>2, AmongAllNone

----------------------------------------------------------------------------
\* handle.

PutAt(q, i, x) == [q EXCEPT ![i] = x]
Between(p, x, r) == Append(p, x) \o r

\* What is before and behind a position.
LEMMA Around ==
  ASSUME NEW S, NEW q \in Seq(S), NEW i \in DOMAIN q
  PROVE  /\ SubSeq(q, 1, i - 1) \in Seq(S) /\ SubSeq(q, i + 1, Len(q)) \in Seq(S)
         /\ DOMAIN SubSeq(q, 1, i - 1) = 1..(i - 1)
         /\ \A j \in 1..(i - 1) : SubSeq(q, 1, i - 1)[j] = q[j]
         /\ DOMAIN SubSeq(q, i + 1, Len(q)) = 1..(Len(q) - i)
         /\ \A j \in 1..(Len(q) - i) : SubSeq(q, i + 1, Len(q))[j] = q[i + j]
         /\ q = Append(SubSeq(q, 1, i - 1), q[i]) \o SubSeq(q, i + 1, Len(q))
         /\ \A x \in S : PutAt(q, i, x) = Between(SubSeq(q, 1, i - 1), x, SubSeq(q, i + 1, Len(q)))
<1>1. i \in 1..Len(q) /\ DOMAIN q = 1..Len(q)
  OBVIOUS
<1>2. \A x \in S : [q EXCEPT ![i] = x]
                     = Append(SubSeq(q, 1, i - 1), x) \o SubSeq(q, i + 1, Len(q))
  <2> SUFFICES ASSUME NEW x \in S
               PROVE  [q EXCEPT ![i] = x]
                        = Append(SubSeq(q, 1, i - 1), x) \o SubSeq(q, i + 1, Len(q))
    OBVIOUS
  <2> DEFINE a == SubSeq(q, 1, i - 1)
             b == SubSeq(q, i + 1, Len(q))
             c == Append(a, x) \o b
             e == [q EXCEPT ![i] = x]
  <2>1. /\ a \in Seq(S) /\ Len(a) = i - 1 /\ \A j \in 1..(i - 1) : a[j] = q[j]
        /\ b \in Seq(S) /\ Len(b) = Len(q) - i
        /\ \A j \in 1..(Len(q) - i) : b[j] = q[i + j]
    <3>1. a \in Seq(S) /\ Len(a) = i - 1 /\ \A j \in 1..(i - 1) : a[j] = q[j]
      BY <1>1
    <3>2. b \in Seq(S) /\ Len(b) = Len(q) - i
      BY <1>1
    <3>3. \A j \in 1..(Len(q) - i) : b[j] = q[i + j]
      BY <1>1
    <3> QED
      BY <3>1, <3>2, <3>3
  <2>2. e \in Seq(S) /\ Len(e) = Len(q)
        /\ \A j \in 1..Len(q) : e[j] = IF j = i THEN x ELSE q[j]
    BY <1>1
  <2> HIDE DEF a, b, e
  <2>3. c \in Seq(S) /\ Len(c) = Len(q)
        /\ \A j \in 1..Len(q) : c[j] = IF j < i THEN a[j] ELSE IF j = i THEN x ELSE b[j - i]
    <3> DEFINE d == Append(a, x)
    <3>1. /\ d \in Seq(S) /\ Len(d) = i /\ d[i] = x
          /\ \A j \in 1..(i - 1) : d[j] = a[j]
      BY <1>1, <2>1
    <3> HIDE DEF d
    <3> DEFINE D == d \o b
    <3>2. /\ D \in Seq(S) /\ Len(D) = Len(d) + Len(b)
          /\ \A j \in 1..(Len(d) + Len(b)) :
               D[j] = IF j <= Len(d) THEN d[j] ELSE b[j - Len(d)]
      <4>1. b \in Seq(S) /\ d \in Seq(S)
        BY <2>1, <3>1
      <4> QED
        BY ONLY <4>1, ConcatProperties
    <3> HIDE DEF D
    <3>3. Len(d) + Len(b) = Len(q) /\ Len(d) = i
      BY <1>1, <2>1, <3>1
    <3>4. \A j \in 1..Len(q) :
            D[j] = IF j < i THEN a[j] ELSE IF j = i THEN x ELSE b[j - i]
      <4>1. \A j \in 1..Len(q) : D[j] = IF j <= i THEN d[j] ELSE b[j - i]
        BY <3>2, <3>3
      <4>2. \A j \in 1..Len(q) : j < i => j <= i /\ j \in 1..(i - 1)
        BY <1>1
      <4>3. \A j \in 1..Len(q) : ~(j < i) /\ j # i => ~(j <= i)
        BY <1>1
      <4> SUFFICES ASSUME NEW j \in 1..Len(q)
                   PROVE  D[j] = IF j < i THEN a[j] ELSE IF j = i THEN x ELSE b[j - i]
        OBVIOUS
      <4>4. CASE j < i
        BY <3>1, <4>1, <4>2, <4>4
      <4>5. CASE j = i
        <5>1. D[i] = d[i]
          BY <1>1, <4>1
        <5> QED
          BY <1>1, <3>1, <4>5, <5>1
      <4>6. CASE ~(j < i) /\ j # i
        BY <4>1, <4>3, <4>6
      <4> QED
        BY <4>4, <4>5, <4>6
    <3> QED
      BY <3>2, <3>3, <3>4 DEF d, D
  <2> HIDE DEF c
  <2>4. \A j \in 1..Len(q) : e[j] = c[j]
    <3> SUFFICES ASSUME NEW j \in 1..Len(q)
                 PROVE  e[j] = c[j]
      OBVIOUS
    <3>1. CASE j < i
      BY <1>1, <2>1, <2>2, <2>3, <3>1
    <3>2. CASE j = i
      BY <2>2, <2>3, <3>2
    <3>3. CASE j > i
      <4>1. j - i \in 1..(Len(q) - i) /\ i + (j - i) = j
        BY <1>1, <3>3
      <4>2. b[j - i] = q[i + (j - i)]
        BY <2>1, <4>1
      <4>3. c[j] = b[j - i] /\ e[j] = q[j]
        BY <1>1, <2>2, <2>3, <3>3
      <4> QED
        BY <4>1, <4>2, <4>3
    <3> QED
      BY <1>1, <3>1, <3>2, <3>3
  <2>5. e = c
    BY <2>2, <2>3, <2>4
  <2> QED
    BY <2>5 DEF a, b, c, e
<1>3. q = [q EXCEPT ![i] = q[i]] /\ q[i] \in S
  BY <1>1
<1>4. q = Append(SubSeq(q, 1, i - 1), q[i]) \o SubSeq(q, i + 1, Len(q))
  BY <1>2, <1>3
<1> QED
  <2>1. DOMAIN SubSeq(q, 1, i - 1) = 1..(i - 1)
        /\ DOMAIN SubSeq(q, i + 1, Len(q)) = 1..(Len(q) - i)
    BY <1>1
  <2>2. SubSeq(q, 1, i - 1) \in Seq(S) /\ SubSeq(q, i + 1, Len(q)) \in Seq(S)
    BY <1>1
  <2>3. /\ \A j \in 1..(i - 1) : SubSeq(q, 1, i - 1)[j] = q[j]
        /\ \A j \in 1..(Len(q) - i) : SubSeq(q, i + 1, Len(q))[j] = q[i + j]
    BY <1>1
  <2> QED
    BY <1>2, <1>4, <2>1, <2>2, <2>3, Zenon DEF PutAt, Between

LEMMA MinIs ==
  ASSUME NEW T, T \subseteq Nat, T # {}
  PROVE  Min(T) \in T /\ \A y \in T : Min(T) <= y
BY LeastNatural DEF Min

\* Nothing of s is behind its incomplete element; nothing of s is before its
\* first complete one.
LEMMA OnlyAround ==
  ASSUME NEW list \in Seq(Elements), LastIncomplete(list), NEW s, NEW i \in DOMAIN list,
         list[i].s = s
  PROVE  /\ ~list[i].complete => Of(s, SubSeq(list, i + 1, Len(list))) = <<>>
         /\ (\A j \in DOMAIN list : list[j].s = s /\ list[j].complete => i <= j)
              => Of(s, SubSeq(list, 1, i - 1)) = <<>>
<1>1. DOMAIN list = 1..Len(list) /\ Len(list) \in Nat
  OBVIOUS
<1>2. ASSUME ~list[i].complete
      PROVE  Of(s, SubSeq(list, i + 1, Len(list))) = <<>>
  <2> DEFINE r == SubSeq(list, i + 1, Len(list))
  <2>1. /\ r \in Seq(Elements) /\ DOMAIN r = 1..(Len(list) - i)
        /\ \A j \in 1..(Len(list) - i) : r[j] = list[i + j]
    BY Around
  <2> HIDE DEF r
  <2>2. ASSUME NEW j \in DOMAIN r
        PROVE  r[j].s # s
    <3>1. j \in 1..(Len(list) - i) /\ i + j \in DOMAIN list /\ ~(i + j <= i)
      BY <1>1, <2>1
    <3> QED
      BY <1>2, <2>1, <3>1 DEF LastIncomplete
  <2>3. Of(s, r) = <<>>
    BY <2>1, <2>2, OfAllNone
  <2> QED
    BY <2>3 DEF r
<1>3. ASSUME \A j \in DOMAIN list : list[j].s = s /\ list[j].complete => i <= j
      PROVE  Of(s, SubSeq(list, 1, i - 1)) = <<>>
  <2> DEFINE p == SubSeq(list, 1, i - 1)
  <2>1. /\ p \in Seq(Elements) /\ DOMAIN p = 1..(i - 1)
        /\ \A j \in 1..(i - 1) : p[j] = list[j]
    BY Around
  <2> HIDE DEF p
  <2>2. ASSUME NEW j \in DOMAIN p
        PROVE  p[j].s # s
    <3>1. j \in 1..(i - 1) /\ j \in DOMAIN list /\ ~(i <= j)
      BY <1>1, <2>1
    <3> QED
      BY <1>3, <2>1, <3>1 DEF LastIncomplete
  <2>3. Of(s, p) = <<>>
    BY <2>1, <2>2, OfAllNone
  <2> QED
    BY <2>3 DEF p
<1> QED
  BY <1>2, <1>3

\* A list with something in its middle.
Lists == Seq(Elements)

LEMMA OfBetween ==
  ASSUME NEW p \in Lists, NEW el \in Elements, NEW r \in Lists
  PROVE  /\ Between(p, el, r) \in Lists
         /\ Of(el.s, Between(p, el, r)) = Between(Of(el.s, p), el, Of(el.s, r))
         /\ \A t : el.s # t => Of(t, Between(p, el, r)) = Of(t, p) \o Of(t, r)
<1>1. p \in Seq(Elements) /\ r \in Seq(Elements)
  BY DEF Lists
<1>2. Append(p, el) \in Seq(Elements)
  BY <1>1
<1>3. Append(p, el) \o r \in Seq(Elements)
  BY <1>1, <1>2
<1>4. ASSUME NEW t
      PROVE  Of(t, Append(p, el) \o r)
               = IF el.s = t THEN Append(Of(t, p), el) \o Of(t, r) ELSE Of(t, p) \o Of(t, r)
  <2>1. Of(t, Append(p, el) \o r) = Of(t, Append(p, el)) \o Of(t, r)
    BY <1>1, <1>2, OfConcat
  <2>2. Of(t, Append(p, el)) = IF el.s = t THEN Append(Of(t, p), el) ELSE Of(t, p)
    BY <1>1, OfAppend
  <2> QED
    BY <2>1, <2>2, Zenon
<1> QED
  BY <1>3, <1>4, Zenon DEF Lists, Between

LEMMA IsBetween ==
  ASSUME NEW list \in Lists, NEW i \in DOMAIN list, NEW el \in Elements
  PROVE  LET p == SubSeq(list, 1, i - 1)
             r == SubSeq(list, i + 1, Len(list))
         IN  /\ p \in Lists /\ r \in Lists
             /\ list = Between(p, list[i], r)
             /\ [list EXCEPT ![i] = el] = Between(p, el, r)
             /\ RemoveAt(list, i) = p \o r
<1>1. list \in Seq(Elements)
  BY DEF Lists
<1>2. /\ SubSeq(list, 1, i - 1) \in Seq(Elements)
      /\ SubSeq(list, i + 1, Len(list)) \in Seq(Elements)
  BY <1>1, Around
<1>3. list = Append(SubSeq(list, 1, i - 1), list[i]) \o SubSeq(list, i + 1, Len(list))
  BY <1>1, Around
<1>4. PutAt(list, i, el) = Between(SubSeq(list, 1, i - 1), el, SubSeq(list, i + 1, Len(list)))
  BY <1>1, Around
<1> QED
  BY <1>2, <1>3, <1>4, Zenon DEF Lists, Between, RemoveAt, PutAt

\* o grows to p: an element is added at the end, or the last one changed.
Grows(o, p, whole) ==
  \E q \in Lists, el \in Elements :
    /\ p = Append(q, el) /\ el.complete = whole
    /\ o = q \/ \E old \in Elements : o = Append(q, old)

\* handle puts the text behind the text of s, and leaves the others alone.
LEMMA HandleAdds ==
  ASSUME NEW list \in Seq(Elements), LastIncomplete(list), NEW s \in Sockets,
         NEW text \in Seq(Chars) \ {<<>>}, NEW whole \in BOOLEAN
  PROVE  /\ Handle(list, s, text, whole) \in Seq(Elements)
         /\ LastIncomplete(Handle(list, s, text, whole))
         /\ Texts(Of(s, Handle(list, s, text, whole))) = Texts(Of(s, list)) \o text
         /\ Grows(Of(s, list), Of(s, Handle(list, s, text, whole)), whole)
         /\ \A t : t # s => Of(t, Handle(list, s, text, whole)) = Of(t, list)
<1> DEFINE h == Handle(list, s, text, whole)
           new == Element(s, text, whole)
<1>1. new \in Elements /\ new.s = s /\ new.message = text /\ new.complete = whole
  BY DEF Element, Elements
<1>2. DOMAIN list = 1..Len(list) /\ Len(list) \in Nat
  OBVIOUS
<1>3. CASE Incomplete(s, list) = {}
  <2> HIDE DEF new
  <2>1. h = Append(list, new)
    BY <1>3 DEF Handle, new
  <2>2. /\ h \in Seq(Elements) /\ DOMAIN h = 1..(Len(list) + 1)
        /\ (\A j \in 1..Len(list) : h[j] = list[j]) /\ h[Len(list) + 1] = new
    BY <1>1, <2>1
  <2> HIDE DEF h
  <2>3. LastIncomplete(h)
    <3> SUFFICES ASSUME NEW i \in DOMAIN h, NEW j \in DOMAIN h, h[i].s = h[j].s, ~h[i].complete
                 PROVE  j <= i
      BY DEF LastIncomplete
    <3>1. CASE i = Len(list) + 1
      BY <1>2, <2>2, <3>1
    <3>2. CASE i # Len(list) + 1
      <4>1. i \in 1..Len(list) /\ h[i] = list[i]
        BY <1>2, <2>2, <3>2
      <4>2. list[i].s # s
        BY <1>2, <1>3, <4>1 DEF Incomplete
      <4>3. j # Len(list) + 1
        BY <1>1, <2>2, <4>1, <4>2
      <4>4. j \in 1..Len(list) /\ h[j] = list[j]
        BY <1>2, <2>2, <4>3
      <4> QED
        BY <1>2, <4>1, <4>4 DEF LastIncomplete
    <3> QED
      BY <3>1, <3>2
  <2>4. Of(s, h) = Append(Of(s, list), new) /\ \A t : t # s => Of(t, h) = Of(t, list)
    BY <1>1, <2>1, OfAppend
  <2>5. Texts(Of(s, h)) = Texts(Of(s, list)) \o text
    <3>1. Of(s, list) \in Seq(Elements)
      BY OfIs
    <3>2. Texts(Append(Of(s, list), new)) = Texts(Of(s, list)) \o new.message
      BY <1>1, <3>1, TextsAppend
    <3> QED
      BY <1>1, <2>4, <3>2, Zenon
  <2>6. Grows(Of(s, list), Of(s, h), whole)
    <3>1. Of(s, list) \in Lists
      BY OfIs DEF Lists
    <3> QED
      BY <1>1, <2>4, <3>1, Zenon DEF Grows
  <2> QED
    BY <2>2, <2>3, <2>4, <2>5, <2>6 DEF h
<1>4. CASE Incomplete(s, list) # {}
  <2> DEFINE i == Min(Incomplete(s, list))
             old == list[i]
             el == Element(s, old.message \o text, whole)
             p == SubSeq(list, 1, i - 1)
             r == SubSeq(list, i + 1, Len(list))
  <2>1. i \in Incomplete(s, list)
    <3>1. Incomplete(s, list) \subseteq Nat
      BY <1>2 DEF Incomplete
    <3> QED
      BY <1>4, <3>1, MinIs
  <2>2. i \in DOMAIN list /\ old.s = s /\ ~old.complete /\ old \in Elements
    BY <1>2, <2>1 DEF Incomplete
  <2>3. h = [list EXCEPT ![i] = el]
    BY <1>4 DEF Handle
  <2> HIDE DEF i
  <2>4. old.message \in Seq(Chars) \ {<<>>}
    BY <2>2 DEF Elements
  <2>5. old.message \o text \in Seq(Chars) \ {<<>>}
    BY <2>4
  <2>6. el \in Elements /\ el.s = s /\ el.message = old.message \o text /\ el.complete = whole
    BY <2>5 DEF Element, Elements
  <2> HIDE DEF el
  <2>7. /\ p \in Lists /\ r \in Lists
        /\ list = Between(p, old, r) /\ h = Between(p, el, r)
    <3>1. list \in Lists
      BY DEF Lists
    <3> QED
      BY <2>2, <2>3, <2>6, <3>1, IsBetween, Zenon
  <2>8. Of(s, r) = <<>>
    BY <2>2, OnlyAround
  <2>9. h \in Seq(Elements) /\ DOMAIN h = DOMAIN list
        /\ \A j \in DOMAIN list : h[j].s = list[j].s /\ (j # i => h[j] = list[j])
    BY <1>2, <2>2, <2>3, <2>6
  <2>10. LastIncomplete(h)
    <3> HIDE DEF h, old
    <3> SUFFICES ASSUME NEW j \in DOMAIN h, NEW k \in DOMAIN h, h[j].s = h[k].s, ~h[j].complete
                 PROVE  k <= j
      BY DEF LastIncomplete
    <3>1. ~list[j].complete
      BY <2>2, <2>9 DEF old
    <3> QED
      BY <2>9, <3>1 DEF LastIncomplete
  <2> HIDE DEF p, r, h, old
  <2>11. /\ Of(s, list) = Between(Of(s, p), old, Of(s, r))
         /\ Of(s, h) = Between(Of(s, p), el, Of(s, r))
         /\ \A t : t # s => Of(t, h) = Of(t, list)
    <3>1. p \in Lists /\ r \in Lists /\ el \in Elements /\ old \in Elements
      BY <2>2, <2>6, <2>7
    <3>2. /\ Of(old.s, Between(p, old, r)) = Between(Of(old.s, p), old, Of(old.s, r))
          /\ \A t : old.s # t => Of(t, Between(p, old, r)) = Of(t, p) \o Of(t, r)
      BY <3>1, OfBetween
    <3>3. /\ Of(el.s, Between(p, el, r)) = Between(Of(el.s, p), el, Of(el.s, r))
          /\ \A t : el.s # t => Of(t, Between(p, el, r)) = Of(t, p) \o Of(t, r)
      BY <3>1, OfBetween
    <3> QED
      BY <2>2, <2>6, <2>7, <3>2, <3>3, Zenon
  <2>12. Of(s, list) = Append(Of(s, p), old) /\ Of(s, h) = Append(Of(s, p), el)
    <3> DEFINE P == Of(s, p)
    <3>1. P \in Seq(Elements)
      BY <2>7, OfIs DEF Lists
    <3> HIDE DEF P
    <3>2. Append(P, old) \o <<>> = Append(P, old) /\ Append(P, el) \o <<>> = Append(P, el)
      BY <2>2, <2>6, <3>1
    <3> QED
      BY <2>8, <2>11, <3>2, Zenon DEF P, Between
  <2>13. Texts(Of(s, h)) = Texts(Of(s, list)) \o text
    <3> DEFINE P == Of(s, p)
    <3>1. P \in Seq(Elements)
      BY <2>7, OfIs DEF Lists
    <3>2. /\ Texts(P) \in Seq(Chars)
          /\ Texts(Append(P, old)) = Texts(P) \o old.message
          /\ Texts(Append(P, el)) = Texts(P) \o el.message
      BY <2>2, <2>6, <3>1, TextsAppend
    <3> DEFINE a == Texts(P)
               b == old.message
    <3> HIDE DEF P, a, b
    <3>3. a \o (b \o text) = (a \o b) \o text
      <4>1. a \in Seq(Chars) /\ b \in Seq(Chars) /\ text \in Seq(Chars)
        BY <2>4, <3>2 DEF a, b
      <4> QED
        BY ONLY <4>1
    <3> QED
      BY <2>6, <2>12, <3>2, <3>3, Zenon DEF P, a, b
  <2>14. Grows(Of(s, list), Of(s, h), whole)
    <3>1. Of(s, p) \in Lists
      BY <2>7, OfIs DEF Lists
    <3> QED
      BY <2>2, <2>6, <2>12, <3>1, Zenon DEF Grows
  <2> QED
    BY <2>9, <2>10, <2>11, <2>13, <2>14, Zenon DEF h
<1> QED
  BY <1>3, <1>4

----------------------------------------------------------------------------
\* Text.

LEMMA TextIs ==
  ASSUME NEW q \in Seq(Bytes)
  PROVE  Text(q) = Among(q, Chars) /\ Text(q) \in Seq(Chars)
<1>1. {i \in DOMAIN q : q[i] # NUL} = {i \in DOMAIN q : q[i] \in Chars}
  BY SmAssumption DEF Bytes
<1>2. Text(q) = Among(q, Chars)
  BY <1>1, Zenon DEF Text, Among
<1> DEFINE E(n) == Among(SubSeq(q, 1, n), Chars) \in Seq(Chars)
           T == {n \in 0..Len(q) : E(n)}
<1>3. E(0)
  <2>1. SubSeq(q, 1, 0) = <<>> /\ <<>> \in Seq(Chars)
    OBVIOUS
  <2> QED
    BY <2>1, AmongEmpty, Zenon
<1>4. ASSUME NEW n \in 1..Len(q), E(n - 1)
      PROVE  E(n)
  <2> DEFINE b == SubSeq(q, 1, n - 1)
             x == q[n]
             B == Among(b, Chars)
  <2>1. b \in Seq(Bytes) /\ x \in Bytes /\ SubSeq(q, 1, n) = Append(b, x)
    BY OneMore
  <2>2. B \in Seq(Chars)
    BY <1>4
  <2> HIDE DEF b, x
  <2>3. Among(Append(b, x), Chars) = IF x \in Chars THEN Append(B, x) ELSE B
    BY <2>1, AmongAppend
  <2> HIDE DEF B
  <2>4. Among(Append(b, x), Chars) \in Seq(Chars)
    BY <2>2, <2>3
  <2> QED
    BY <2>1, <2>4, Zenon
<1> HIDE DEF E
<1>5. Len(q) \in Nat /\ Len(q) \in 0..Len(q) /\ 0 \in 0..Len(q)
  OBVIOUS
<1>6. 0 \in T /\ \A n \in 1..Len(q) : n - 1 \in T => n \in T
  BY <1>3, <1>4, <1>5
<1> HIDE DEF T
<1>7. 0..Len(q) \subseteq T
  BY <1>5, <1>6, InductionUpTo
<1>8. E(Len(q))
  BY <1>5, <1>7 DEF T
<1>9. SubSeq(q, 1, Len(q)) = q
  BY Whole
<1>10. Among(q, Chars) \in Seq(Chars)
  BY <1>8, <1>9, Zenon DEF E
<1> QED
  BY <1>2, <1>10, Zenon

LEMMA TextAppend ==
  ASSUME NEW q \in Seq(Bytes), NEW x \in Bytes
  PROVE  Text(Append(q, x)) = IF x = NUL THEN Text(q) ELSE Append(Text(q), x)
<1>1. Append(q, x) \in Seq(Bytes)
  OBVIOUS
<1>2. Text(q) = Among(q, Chars) /\ Text(Append(q, x)) = Among(Append(q, x), Chars)
  BY <1>1, TextIs
<1>3. x \in Chars <=> x # NUL
  BY SmAssumption DEF Bytes
<1>4. Among(Append(q, x), Chars) = IF x \in Chars THEN Append(Among(q, Chars), x) ELSE Among(q, Chars)
  BY AmongAppend
<1> QED
  BY <1>2, <1>3, <1>4, Zenon

LEMMA TextConcat ==
  ASSUME NEW p \in Seq(Bytes), NEW r \in Seq(Bytes)
  PROVE  Text(p \o r) = Text(p) \o Text(r)
<1>1. p \o r \in Seq(Bytes)
  OBVIOUS
<1>2. /\ Text(p) = Among(p, Chars) /\ Text(r) = Among(r, Chars)
      /\ Text(p \o r) = Among(p \o r, Chars)
  BY <1>1, TextIs
<1>3. Among(p \o r, Chars) = Among(p, Chars) \o Among(r, Chars)
  BY AmongConcat
<1> QED
  BY <1>2, <1>3, Zenon

LEMMA TextEmpty == Text(<<>>) = <<>>
<1>1. <<>> \in Seq(Bytes)
  OBVIOUS
<1> QED
  BY <1>1, TextIs, AmongEmpty

----------------------------------------------------------------------------
\* What was read is split.

SplitTo(list, s, bytes) ==
  LET walk[n \in 0..(Len(bytes) + 1)] ==
        IF n = 0 THEN [the_list |-> list, tmpprev |-> 1]
        ELSE IF n <= Len(bytes) /\ bytes[n] # NUL THEN walk[n - 1]
        ELSE [the_list |->
                IF walk[n - 1].tmpprev = n
                THEN walk[n - 1].the_list
                ELSE Handle(walk[n - 1].the_list, s,
                            SubSeq(bytes, walk[n - 1].tmpprev, n - 1), Ended(bytes, n)),
              tmpprev |-> NextPiece(n)]
  IN  walk

\* One turn of the loop.
Turn(w, s, bytes, n) ==
  IF n <= Len(bytes) /\ bytes[n] # NUL THEN w
  ELSE [the_list |->
          IF w.tmpprev = n
          THEN w.the_list
          ELSE Handle(w.the_list, s, SubSeq(bytes, w.tmpprev, n - 1), Ended(bytes, n)),
        tmpprev |-> NextPiece(n)]

\* Any element, and what handle makes of a list of them.
AnyElements == [s : Sockets, message : Seq(Bytes), complete : BOOLEAN]

LEMMA HandleType ==
  ASSUME NEW list \in Seq(AnyElements), NEW s \in Sockets, NEW text \in Seq(Bytes),
         NEW whole \in BOOLEAN
  PROVE  Handle(list, s, text, whole) \in Seq(AnyElements)
<1>1. \A m \in Seq(Bytes) : Element(s, m, whole) \in AnyElements
  BY DEF Element, AnyElements
<1>2. CASE Incomplete(s, list) = {}
  <2>1. Element(s, text, whole) \in AnyElements
    BY <1>1
  <2> QED
    BY <1>2, <2>1 DEF Handle
<1>3. CASE Incomplete(s, list) # {}
  <2> DEFINE i == Min(Incomplete(s, list))
             el == Element(s, list[i].message \o text, whole)
  <2>1. Incomplete(s, list) \subseteq Nat
    BY DEF Incomplete
  <2>2. i \in DOMAIN list
    BY <1>3, <2>1, MinIs DEF Incomplete
  <2>3. Handle(list, s, text, whole) = [list EXCEPT ![i] = el]
    BY <1>3 DEF Handle
  <2> HIDE DEF i
  <2>4. list[i].message \in Seq(Bytes)
    <3>1. list[i] \in AnyElements
      BY <2>2
    <3> QED
      BY <3>1 DEF AnyElements
  <2>5. list[i].message \o text \in Seq(Bytes)
    BY <2>4
  <2>6. el \in AnyElements
    BY <1>1, <2>5
  <2> HIDE DEF el
  <2>7. [list EXCEPT ![i] = el] \in Seq(AnyElements)
    BY <2>2, <2>6
  <2> QED
    BY <2>3, <2>7
<1> QED
  BY <1>2, <1>3

LEMMA SplitSteps ==
  ASSUME NEW list \in Seq(AnyElements), NEW s \in Sockets, NEW bytes \in Seq(Bytes)
  PROVE  /\ Split(list, s, bytes) = SplitTo(list, s, bytes)[Len(bytes) + 1].the_list
         /\ SplitTo(list, s, bytes)[0] = [the_list |-> list, tmpprev |-> 1]
         /\ \A n \in 1..(Len(bytes) + 1) :
              SplitTo(list, s, bytes)[n] = Turn(SplitTo(list, s, bytes)[n - 1], s, bytes, n)
<1> DEFINE N == Len(bytes) + 1
           X == [the_list : Seq(AnyElements), tmpprev : Nat \ {0}]
           base == [the_list |-> list, tmpprev |-> 1]
           step == [n \in 1..N |-> [w \in X |-> Turn(w, s, bytes, n)]]
           Is(f) == f = [n \in 0..N |-> IF n = 0 THEN base ELSE Turn(f[n - 1], s, bytes, n)]
<1>1. N \in Nat /\ base \in X
  OBVIOUS
<1>2. ASSUME NEW n \in 1..N, NEW w \in X
      PROVE  Turn(w, s, bytes, n) \in X
  <2>1. w.the_list \in Seq(AnyElements) /\ w.tmpprev \in Nat \ {0}
    OBVIOUS
  <2>2. SubSeq(bytes, w.tmpprev, n - 1) \in Seq(Bytes)
    BY <2>1
  <2>3. Ended(bytes, n) \in BOOLEAN /\ NextPiece(n) \in Nat \ {0}
    BY DEF Ended, NextPiece
  <2>4. Handle(w.the_list, s, SubSeq(bytes, w.tmpprev, n - 1), Ended(bytes, n)) \in Seq(AnyElements)
    BY <2>1, <2>2, <2>3, HandleType
  <2> QED
    BY <2>1, <2>3, <2>4 DEF Turn
<1>3. Steps(X, N, step)
  BY <1>2 DEF Steps
<1>4. \A n \in 1..N, w \in X : step[n][w] = Turn(w, s, bytes, n)
  OBVIOUS
<1> HIDE DEF step, X, N, base
<1>5. PICK f : Runs(f, X, base, step, N)
  BY <1>1, <1>3, Recursion
<1>6. \A n \in 1..N : f[n - 1] \in X /\ n \in 0..N /\ n # 0
  BY <1>1, <1>5 DEF Runs
<1>7. Is(f)
  <2>1. \A n \in 1..N : f[n] = Turn(f[n - 1], s, bytes, n)
    BY <1>4, <1>5, <1>6 DEF Runs
  <2>2. \A n \in 0..N : n = 0 \/ n \in 1..N
    BY <1>1
  <2> QED
    BY <1>5, <2>1, <2>2 DEF Runs
<1>8. SplitTo(list, s, bytes) = CHOOSE g : Is(g)
  BY DEF SplitTo, Turn, N, base
<1> DEFINE h == SplitTo(list, s, bytes)
<1>9. Is(h)
  <2> HIDE DEF Is
  <2> QED
    BY <1>7, <1>8
<1> HIDE DEF h
<1>10. h[0] = base /\ \A n \in 1..N : h[n] = Turn(h[n - 1], s, bytes, n)
  <2>1. 0 \in 0..N /\ \A n \in 1..N : n \in 0..N /\ n # 0
    BY <1>1
  <2> QED
    BY <1>9, <2>1
<1> QED
  BY <1>10 DEF h, N, base, Split, SplitTo

\* A run of a sequence, and the next one.
LEMMA RunGrows ==
  ASSUME NEW S, NEW z \in Seq(S), NEW n \in 1..Len(z), NEW f \in 1..n
  PROVE  /\ SubSeq(z, f, n - 1) \in Seq(S) /\ z[n] \in S
         /\ SubSeq(z, f, n) = Append(SubSeq(z, f, n - 1), z[n])
         /\ SubSeq(z, n + 1, n) = <<>>
OBVIOUS

SamePiece(q, r, f, n) == SubSeq(r, f, n) = SubSeq(q, f, n)

LEMMA PieceOfAppend ==
  ASSUME NEW S, NEW q \in Seq(S), NEW x \in S, NEW n \in 1..(Len(q) + 1), NEW f \in 1..n
  PROVE  SamePiece(q, Append(q, x), f, n - 1)
BY DEF SamePiece

Appends(p, b, x) == p \o Append(b, x) = Append(p \o b, x)

LEMMA AppendLast ==
  ASSUME NEW S, NEW p \in Seq(S), NEW b \in Seq(S), NEW x \in S
  PROVE  Appends(p, b, x)
BY DEF Appends

\* A turn changes no list, or at a null byte adds all the text before it.
Adds(l, list, s, bytes, n) ==
  \/ l[n] = l[n - 1]
  \/ /\ Grows(Of(s, l[n - 1]), Of(s, l[n]), Ended(bytes, n))
     /\ n <= Len(bytes) => bytes[n] = NUL
     /\ Texts(Of(s, l[n])) = Texts(Of(s, list)) \o Text(SubSeq(Append(bytes, NUL), 1, n))

\* new is list with text at the end of the text of s.
Added(list, s, text, new) ==
  /\ new \in Seq(Elements) /\ LastIncomplete(new)
  /\ Texts(Of(s, new)) = Texts(Of(s, list)) \o text
  /\ \A t : t # s => Of(t, new) = Of(t, list)

\* l are the lists after each turn.
Lengthens(l, list, s, bytes) ==
  /\ l[0] = list /\ l[Len(bytes) + 1] = Split(list, s, bytes)
  /\ \A n \in 0..(Len(bytes) + 1) : l[n] \in Lists
  /\ \A n \in 1..(Len(bytes) + 1) : Adds(l, list, s, bytes, n)

\* What was read goes to the end of the text of s, turn by turn.
LEMMA SplitAdds ==
  ASSUME NEW list \in Seq(Elements), LastIncomplete(list), NEW s \in Sockets,
         NEW bytes \in Seq(Bytes)
  PROVE  /\ Added(list, s, Text(bytes), Split(list, s, bytes))
         /\ \E l : Lengthens(l, list, s, bytes)
<1> DEFINE z == Append(bytes, NUL)
           N == Len(bytes) + 1
           walk == SplitTo(list, s, bytes)
           L(n) == walk[n].the_list
           f(n) == walk[n].tmpprev
           Good(n) == /\ L(n) \in Seq(Elements) /\ LastIncomplete(L(n))
                      /\ \A t : t # s => Of(t, L(n)) = Of(t, list)
           Piece(n) == /\ f(n) \in 1..(n + 1)
                       /\ \A j \in f(n)..n : z[j] # NUL
           Sum(n) == Texts(Of(s, L(n))) \o SubSeq(z, f(n), n)
                       = Texts(Of(s, list)) \o Text(SubSeq(z, 1, n))
           all == [n \in 0..N |-> L(n)]
           Step(n) == n = 0 \/ Adds(all, list, s, bytes, n)
           E(n) == Good(n) /\ Piece(n) /\ Sum(n) /\ Step(n)
           T == {n \in 0..N : E(n)}
<1>1. /\ NUL \in Bytes /\ z \in Seq(Bytes) /\ Len(z) = N /\ N \in Nat /\ z[N] = NUL
      /\ \A n \in 1..Len(bytes) : z[n] = bytes[n]
  BY DEF Bytes
<1>2. list \in Seq(AnyElements)
  <2>1. \A el \in Elements : el \in AnyElements
    BY DEF Elements, AnyElements, Bytes
  <2> QED
    BY <2>1
<1>3. /\ Split(list, s, bytes) = L(N)
      /\ walk[0] = [the_list |-> list, tmpprev |-> 1]
      /\ \A n \in 1..N : walk[n] = Turn(walk[n - 1], s, bytes, n)
  BY <1>2, SplitSteps
<1> HIDE DEF z, walk
<1>4. E(0)
  <2>1. L(0) = list /\ f(0) = 1
    BY <1>3
  <2>2. SubSeq(z, 1, 0) = <<>>
    BY <1>1
  <2>3. Sum(0)
    BY <2>1, <2>2, TextEmpty, Zenon
  <2> QED
    BY <2>1, <2>3
<1>5. ASSUME NEW n \in 1..N, E(n - 1)
      PROVE  E(n)
  <2> DEFINE w == walk[n - 1]
             l == w.the_list
             from == w.tmpprev
             b == SubSeq(z, 1, n - 1)
             a == SubSeq(z, from, n - 1)
             A == Texts(Of(s, l))
             B == Texts(Of(s, list))
  <2>1. l \in Seq(Elements) /\ LastIncomplete(l) /\ \A t : t # s => Of(t, l) = Of(t, list)
    BY <1>5
  <2>2. from \in 1..n /\ \A j \in from..(n - 1) : z[j] # NUL
    BY <1>5
  <2>3. A \o a = B \o Text(b)
    BY <1>5
  <2>4. walk[n] = Turn(w, s, bytes, n)
    BY <1>3
  <2>5. (n <= Len(bytes) /\ bytes[n] # NUL) <=> z[n] # NUL
    BY <1>1
  <2> HIDE DEF w
  <2>6. /\ b \in Seq(Bytes) /\ z[n] \in Bytes
        /\ SubSeq(z, 1, n) = Append(b, z[n])
    BY <1>1, RunGrows
  <2>7. /\ a \in Seq(Bytes) /\ SubSeq(z, from, n) = Append(a, z[n])
        /\ SubSeq(z, n + 1, n) = <<>>
    <3>1. z \in Seq(Bytes) /\ n \in 1..Len(z) /\ from \in 1..n
      BY <1>1, <2>2
    <3> QED
      BY <3>1, RunGrows
  <2>8. A \in Seq(Chars) /\ B \in Seq(Chars)
    BY <2>1, OfIs, TextsType
  <2>9. Text(Append(b, z[n])) = IF z[n] = NUL THEN Text(b) ELSE Append(Text(b), z[n])
    BY <2>6, TextAppend
  <2>10. Text(b) \in Seq(Chars)
    BY <2>6, TextIs
  <2>11. CASE z[n] # NUL
    <3>1. walk[n] = w
      BY <2>4, <2>5, <2>11 DEF Turn
    <3>2. Good(n)
      BY <2>1, <3>1
    <3>3. Piece(n)
      <4>1. \A j \in from..n : j \in from..(n - 1) \/ j = n
        BY <2>2
      <4> QED
        BY <2>2, <2>11, <3>1, <4>1
    <3>4. Step(n)
      <4>1. all[n] = L(n) /\ all[n - 1] = L(n - 1)
        BY <1>1
      <4>2. L(n) = L(n - 1)
        BY <3>1 DEF w
      <4> HIDE DEF all
      <4> QED
        BY <4>1, <4>2 DEF Adds
    <3>5. Sum(n)
      <4> DEFINE x == z[n]
                 C == Text(b)
      <4>1. A \o Append(a, x) = B \o Append(C, x)
        <5> HIDE DEF a, b, A, B, C, x
        <5>1. A \in Seq(Bytes) /\ B \in Seq(Bytes) /\ C \in Seq(Bytes) /\ a \in Seq(Bytes)
              /\ x \in Bytes
          BY <2>6, <2>7, <2>8, <2>10 DEF C, x, Bytes
        <5>2. Appends(A, a, x) /\ Appends(B, C, x)
          BY <5>1, AppendLast
        <5>3. A \o a = B \o C
          BY <2>3 DEF C
        <5> QED
          BY <5>2, <5>3, Zenon DEF Appends
      <4>2. A \o SubSeq(z, from, n) = B \o Text(SubSeq(z, 1, n))
        BY <2>6, <2>7, <2>9, <2>11, <4>1, Zenon
      <4> QED
        BY <3>1, <4>2, Zenon
    <3> QED
      BY <3>2, <3>3, <3>4, <3>5
  <2>12. CASE z[n] = NUL
    <3> DEFINE h == IF from = n THEN l
                    ELSE Handle(l, s, SubSeq(bytes, from, n - 1), Ended(bytes, n))
    <3>1. L(n) = h /\ f(n) = n + 1
      BY <2>4, <2>5, <2>12 DEF Turn, NextPiece
    <3>2. Piece(n)
      BY <3>1
    <3>3. /\ h \in Seq(Elements) /\ LastIncomplete(h)
          /\ Texts(Of(s, h)) = A \o a
          /\ \A t : t # s => Of(t, h) = Of(t, list)
          /\ h = l \/ Grows(Of(s, l), Of(s, h), Ended(bytes, n))
      <4>1. CASE from = n
        <5>1. a = <<>>
          BY <1>1, <4>1
        <5>2. A \o a = A
          <6> HIDE DEF A, a
          <6>1. A \o <<>> = A
            BY <2>8, Whole
          <6> QED
            BY <5>1, <6>1
        <5> QED
          BY <2>1, <4>1, <5>2
      <4>2. CASE from # n
        <5> DEFINE text == SubSeq(bytes, from, n - 1)
        <5>1. text = a
          <6>1. from \in 1..n /\ n \in 1..(Len(bytes) + 1) /\ NUL \in Bytes
            BY <1>1, <2>2
          <6>2. SamePiece(bytes, Append(bytes, NUL), from, n - 1)
            BY <6>1, PieceOfAppend
          <6> QED
            BY <6>2, Zenon DEF SamePiece, z
        <5>2. text \in Seq(Chars) \ {<<>>}
          <6>1. \A j \in from..(n - 1) : bytes[j] \in Chars
            BY <1>1, <2>2 DEF Bytes
          <6>2. from \in 1..Len(bytes) /\ n - 1 \in from..Len(bytes)
            BY <1>1, <2>2, <4>2
          <6>3. text \in Seq(Chars) /\ Len(text) = (n - 1) - from + 1
            BY <6>1, <6>2, SubSeqProperties
          <6> HIDE DEF text
          <6>4. Len(text) # 0
            BY <6>2, <6>3
          <6> QED
            BY <6>3, <6>4
        <5>3. Ended(bytes, n) \in BOOLEAN
          BY DEF Ended
        <5> HIDE DEF text
        <5>4. h = Handle(l, s, text, Ended(bytes, n))
          BY <4>2 DEF text
        <5> HIDE DEF h, a
        <5>5. /\ h \in Seq(Elements) /\ LastIncomplete(h)
              /\ Texts(Of(s, h)) = A \o text
              /\ \A t : t # s => Of(t, h) = Of(t, l)
              /\ Grows(Of(s, l), Of(s, h), Ended(bytes, n))
          <6>1. l \in Seq(Elements) /\ LastIncomplete(l)
            BY <2>1
          <6> HIDE DEF l
          <6>2. /\ Handle(l, s, text, Ended(bytes, n)) \in Seq(Elements)
                /\ LastIncomplete(Handle(l, s, text, Ended(bytes, n)))
                /\ Texts(Of(s, Handle(l, s, text, Ended(bytes, n)))) = Texts(Of(s, l)) \o text
                /\ \A t : t # s => Of(t, Handle(l, s, text, Ended(bytes, n))) = Of(t, l)
                /\ Grows(Of(s, l), Of(s, Handle(l, s, text, Ended(bytes, n))), Ended(bytes, n))
            BY <5>2, <5>3, <6>1, HandleAdds
          <6> QED
            BY <5>4, <6>2, Zenon
        <5> QED
          BY <2>1, <5>1, <5>5
      <4> QED
        BY <4>1, <4>2
    <3>4. Sum(n)
      <4> HIDE DEF h
      <4>1. Texts(Of(s, h)) \o <<>> = Texts(Of(s, h))
        <5>1. Texts(Of(s, h)) \in Seq(Chars)
          BY <3>3, OfIs, TextsType
        <5> DEFINE H == Texts(Of(s, h))
        <5> HIDE DEF H
        <5>2. H \o <<>> = H
          BY <5>1, Whole DEF H
        <5> QED
          BY <5>2 DEF H
      <4>2. Texts(Of(s, h)) \o SubSeq(z, n + 1, n) = B \o Text(SubSeq(z, 1, n))
        BY <2>3, <2>6, <2>7, <2>9, <2>12, <3>3, <4>1, Zenon
      <4> QED
        BY <3>1, <4>2, Zenon
    <3>5. Good(n)
      BY <3>1, <3>3, Zenon
    <3>6. Step(n)
      <4>1. all[n] = h /\ all[n - 1] = l
        BY <1>1, <3>1 DEF w
      <4>2. n <= Len(bytes) => bytes[n] = NUL
        BY <1>1, <2>12
      <4> HIDE DEF all, h, l
      <4>3. Texts(Of(s, h)) = Texts(Of(s, list)) \o Text(SubSeq(z, 1, n))
        BY <2>3, <2>6, <2>9, <2>12, <3>3, Zenon
      <4> QED
        BY <3>3, <4>1, <4>2, <4>3, Zenon DEF Adds, z
    <3> QED
      BY <3>2, <3>4, <3>5, <3>6
  <2> QED
    BY <2>11, <2>12
<1> HIDE DEF E
<1>6. 0 \in T /\ (\A n \in 1..N : n - 1 \in T => n \in T) /\ N \in 0..N
  BY <1>1, <1>4, <1>5
<1> HIDE DEF T
<1>7. 0..N \subseteq T
  BY <1>1, <1>6, InductionUpTo
<1>8. E(N)
  BY <1>6, <1>7 DEF T
<1>9. Text(z) = Text(bytes)
  BY <1>1, TextAppend DEF z
<1>10. f(N) = N + 1
  <2>1. f(N) \in 1..(N + 1) /\ (f(N) <= N => z[N] # NUL)
    BY <1>1, <1>8 DEF E
  <2> QED
    BY <1>1, <2>1
<1>11. Texts(Of(s, L(N))) = Texts(Of(s, list)) \o Text(bytes)
  <2> DEFINE H == Texts(Of(s, L(N)))
  <2>1. H \o SubSeq(z, f(N), N) = Texts(Of(s, list)) \o Text(SubSeq(z, 1, N))
    BY <1>8 DEF E
  <2>2. SubSeq(z, N + 1, N) = <<>> /\ SubSeq(z, 1, N) = z
    BY <1>1
  <2>3. H \in Seq(Chars)
    BY <1>8, OfIs, TextsType DEF E
  <2> HIDE DEF H
  <2>4. H \o <<>> = H
    BY <2>3, Whole
  <2> QED
    BY <1>9, <1>10, <2>1, <2>2, <2>4, Zenon DEF H
<1>12. /\ all[0] = list /\ all[N] = Split(list, s, bytes)
       /\ \A n \in 0..N : all[n] \in Lists
       /\ \A n \in 1..N : Adds(all, list, s, bytes, n)
  <2>1. \A n \in 0..N : E(n) /\ all[n] = L(n)
    BY <1>7 DEF T
  <2>2. 0 \in 0..N /\ N \in 0..N /\ \A n \in 1..N : n \in 0..N /\ n # 0
    BY <1>1
  <2>3. \A n \in 0..N : all[n] \in Lists
    BY <2>1 DEF E, Lists
  <2>4. \A n \in 1..N : Adds(all, list, s, bytes, n)
    <3> HIDE DEF all
    <3> QED
      BY <2>1, <2>2 DEF E
  <2>5. all[0] = list /\ all[N] = Split(list, s, bytes)
    BY <1>3, <2>1, <2>2
  <2> QED
    BY <2>3, <2>4, <2>5
<1>13. LastIncomplete(L(N)) /\ L(N) \in Seq(Elements) /\ \A t : t # s => Of(t, L(N)) = Of(t, list)
  BY <1>8 DEF E
<1>14. Lengthens(all, list, s, bytes)
  BY <1>12, Zenon DEF Lengthens
<1> HIDE DEF all, L, N
<1>15. Added(list, s, Text(bytes), Split(list, s, bytes))
  BY <1>3, <1>11, <1>13, Zenon DEF Added
<1> QED
  BY <1>14, <1>15, Zenon

----------------------------------------------------------------------------
\* clean_list, and what else takes elements off the list.

\* Whatever positions are kept.
LEMMA AtKeeps ==
  ASSUME NEW list \in Seq(Elements), LastIncomplete(list), NEW I
  PROVE  /\ At(list, I) \in Seq(Elements)
         /\ LastIncomplete(At(list, I))
         /\ \A t : (\A i \in DOMAIN list : list[i].s = t => i \in I)
                     => Of(t, At(list, I)) = Of(t, list)
<1> DEFINE N == Len(list)
           k == AtTo(list, I)
           From(n) == \A a \in DOMAIN k[n] : \E j \in 1..n : k[n][a] = list[j]
           Same(n) == \A t : (\A i \in DOMAIN list : list[i].s = t => i \in I)
                               => Of(t, k[n]) = Of(t, SubSeq(list, 1, n))
           E(n) == From(n) /\ LastIncomplete(k[n]) /\ Same(n)
           T == {n \in 0..N : E(n)}
<1>1. /\ At(list, I) = k[N]
      /\ k \in [0..N -> Seq(Elements)]
      /\ k[0] = <<>>
      /\ \A n \in 1..N : k[n] = IF n \in I THEN Append(k[n - 1], list[n]) ELSE k[n - 1]
  BY AtSteps
<1>2. N \in Nat /\ N \in 0..N /\ 0 \in 0..N /\ DOMAIN list = 1..N
  OBVIOUS
<1>3. SubSeq(list, 1, 0) = <<>> /\ SubSeq(list, 1, N) = list
  BY Whole
<1> HIDE DEF k
<1>4. E(0)
  <2>1. DOMAIN k[0] = {}
    BY <1>1
  <2>2. Same(0)
    BY <1>1, <1>3, Zenon
  <2> QED
    BY <2>1, <2>2 DEF LastIncomplete
<1>5. ASSUME NEW n \in 1..N, E(n - 1)
      PROVE  E(n)
  <2> DEFINE q == k[n - 1]
             x == list[n]
             b == SubSeq(list, 1, n - 1)
  <2>1. /\ b \in Seq(Elements) /\ x \in Elements
        /\ SubSeq(list, 1, n) = Append(b, x)
    BY OneMore
  <2>2. q \in Seq(Elements)
    BY <1>1, <1>2
  <2>3. k[n] = IF n \in I THEN Append(q, x) ELSE q
    BY <1>1
  <2>4. \A t : Of(t, Append(b, x)) = IF x.s = t THEN Append(Of(t, b), x) ELSE Of(t, b)
    BY <2>1, OfAppend
  <2>5. \A t : Of(t, Append(q, x)) = IF x.s = t THEN Append(Of(t, q), x) ELSE Of(t, q)
    BY <2>1, <2>2, OfAppend
  <2>6. Same(n)
    <3> SUFFICES ASSUME NEW t, \A i \in DOMAIN list : list[i].s = t => i \in I
                 PROVE  Of(t, k[n]) = Of(t, SubSeq(list, 1, n))
      OBVIOUS
    <3>1. Of(t, q) = Of(t, b)
      BY <1>5
    <3>2. x.s = t => n \in I
      BY <1>2
    <3> HIDE DEF q, b, x
    <3> QED
      BY <2>1, <2>3, <2>4, <2>5, <3>1, <3>2, Zenon
  <2>7. CASE n \in I
    <3>1. /\ DOMAIN q = 1..Len(q) /\ DOMAIN Append(q, x) = 1..(Len(q) + 1) /\ Len(q) \in Nat
          /\ (\A a \in 1..Len(q) : Append(q, x)[a] = q[a]) /\ Append(q, x)[Len(q) + 1] = x
      BY <2>1, <2>2
    <3>2. \A a \in DOMAIN q : \E j \in 1..(n - 1) : q[a] = list[j]
      BY <1>5
    <3>3. LastIncomplete(q)
      BY <1>5
    <3>4. k[n] = Append(q, x)
      BY <2>3, <2>7
    <3>5. From(n)
      <4> SUFFICES ASSUME NEW a \in DOMAIN k[n]
                   PROVE  \E j \in 1..n : k[n][a] = list[j]
        OBVIOUS
      <4>1. CASE a = Len(q) + 1
        BY <3>1, <3>4, <4>1
      <4>2. CASE a # Len(q) + 1
        <5>1. a \in DOMAIN q /\ k[n][a] = q[a]
          BY <3>1, <3>4, <4>2
        <5>2. PICK j \in 1..(n - 1) : q[a] = list[j]
          BY <3>2, <5>1
        <5> QED
          BY <5>1, <5>2
      <4> QED
        BY <4>1, <4>2
    <3> HIDE DEF q
    <3>6. LastIncomplete(Append(q, x))
      <4> SUFFICES ASSUME NEW i \in 1..(Len(q) + 1), NEW j \in 1..(Len(q) + 1),
                          Append(q, x)[i].s = Append(q, x)[j].s, ~Append(q, x)[i].complete
                   PROVE  j <= i
        BY <3>1 DEF LastIncomplete
      <4>1. CASE i = Len(q) + 1
        BY <3>1, <4>1
      <4>2. CASE i # Len(q) + 1
        <5>1. i \in DOMAIN q /\ Append(q, x)[i] = q[i]
          BY <3>1, <4>2
        <5>2. PICK l \in 1..(n - 1) : q[i] = list[l]
          BY <3>2, <5>1
        <5>3. CASE j = Len(q) + 1
          <6>1. list[l].s = list[n].s /\ ~list[l].complete
            BY <3>1, <5>1, <5>2, <5>3
          <6>2. l \in DOMAIN list /\ n \in DOMAIN list /\ ~(n <= l)
            BY <1>2
          <6> QED
            BY <6>1, <6>2 DEF LastIncomplete
        <5>4. CASE j # Len(q) + 1
          <6>1. j \in DOMAIN q /\ Append(q, x)[j] = q[j]
            BY <3>1, <5>4
          <6> QED
            BY <3>3, <5>1, <6>1 DEF LastIncomplete
        <5> QED
          BY <5>3, <5>4
      <4> QED
        BY <4>1, <4>2
    <3> QED
      BY <2>6, <3>4, <3>5, <3>6
  <2>8. CASE n \notin I
    <3>1. k[n] = q
      BY <2>3, <2>8
    <3>2. From(n)
      <4>1. \A a \in DOMAIN q : \E j \in 1..(n - 1) : q[a] = list[j]
        BY <1>5
      <4>2. \A j \in 1..(n - 1) : j \in 1..n
        OBVIOUS
      <4> HIDE DEF q
      <4> QED
        BY <3>1, <4>1, <4>2, Zenon
    <3>3. LastIncomplete(k[n])
      BY <1>5, <3>1
    <3> QED
      BY <2>6, <3>2, <3>3
  <2> QED
    BY <2>7, <2>8
<1> HIDE DEF E
<1>6. 0 \in T /\ \A n \in 1..N : n - 1 \in T => n \in T
  BY <1>2, <1>4, <1>5
<1> HIDE DEF T
<1>7. 0..N \subseteq T
  BY <1>2, <1>6, InductionUpTo
<1>8. E(N)
  BY <1>2, <1>7 DEF T
<1>9. k[N] \in Seq(Elements)
  BY <1>1, <1>2
<1> QED
  BY <1>1, <1>3, <1>8, <1>9, Zenon DEF E

\* The positions clean_list drops.
DropTo(list, s) ==
  LET others == {i \in DOMAIN list : list[i].s # s}
      first  == IF others = {} THEN Len(list) + 1 ELSE Min(others)
      dropped[i \in 0..Len(list)] ==
        IF i = 0 THEN {}
        ELSE IF list[i].s = s /\ (i < first \/ (i > first /\ i - 1 \notin dropped[i - 1]))
        THEN dropped[i - 1] \cup {i}
        ELSE dropped[i - 1]
  IN  dropped

LEMMA DropSteps ==
  ASSUME NEW list \in Seq(Elements), NEW s
  PROVE  DropTo(list, s)[Len(list)] \subseteq {i \in DOMAIN list : list[i].s = s}
<1> DEFINE N == Len(list)
           of == {i \in DOMAIN list : list[i].s = s}
           X == SUBSET of
           others == {i \in DOMAIN list : list[i].s # s}
           first == IF others = {} THEN Len(list) + 1 ELSE Min(others)
           Drops(i, d) == list[i].s = s /\ (i < first \/ (i > first /\ i - 1 \notin d))
           step == [i \in 1..N |-> [d \in X |-> IF Drops(i, d) THEN d \cup {i} ELSE d]]
           Is(f) == f = [i \in 0..N |-> IF i = 0 THEN {}
                                        ELSE IF Drops(i, f[i - 1]) THEN f[i - 1] \cup {i}
                                        ELSE f[i - 1]]
<1>1. N \in Nat /\ {} \in X /\ DOMAIN list = 1..N
  OBVIOUS
<1> HIDE DEF first
<1>2. \A i \in 1..N, d \in X : (IF Drops(i, d) THEN d \cup {i} ELSE d) \in X
  BY <1>1
<1> HIDE DEF Drops
<1>3. \A i \in 1..N, d \in X : step[i][d] = IF Drops(i, d) THEN d \cup {i} ELSE d
  OBVIOUS
<1>4. Steps(X, N, step)
  BY <1>2 DEF Steps
<1> HIDE DEF step, X, N
<1>5. PICK f : Runs(f, X, {}, step, N)
  BY <1>1, <1>4, Recursion
<1>6. \A n \in 1..N : f[n - 1] \in X /\ n \in 0..N /\ n # 0
  BY <1>1, <1>5 DEF Runs
<1>7. Is(f)
  <2>1. \A n \in 1..N : f[n] = IF Drops(n, f[n - 1]) THEN f[n - 1] \cup {n} ELSE f[n - 1]
    BY <1>3, <1>5, <1>6 DEF Runs
  <2>2. \A n \in 0..N : n = 0 \/ n \in 1..N
    BY <1>1
  <2> QED
    BY <1>5, <2>1, <2>2 DEF Runs
<1>8. DropTo(list, s) = CHOOSE g : Is(g)
  BY DEF DropTo, N, Drops, first
<1> DEFINE h == DropTo(list, s)
<1>9. Is(h)
  <2> HIDE DEF Is
  <2> QED
    BY <1>7, <1>8
<1> HIDE DEF h
<1>10. h[0] = {} /\ \A n \in 1..N : h[n] = IF Drops(n, h[n - 1]) THEN h[n - 1] \cup {n}
                                                               ELSE h[n - 1]
  <2>1. 0 \in 0..N /\ \A n \in 1..N : n \in 0..N /\ n # 0
    BY <1>1
  <2> QED
    BY <1>9, <2>1
<1>11. \A n \in 0..N : h[n] \in X
  <2>1. h[0] \in X /\ \A n \in 1..N : h[n - 1] \in X => h[n] \in X
    BY <1>1, <1>2, <1>10
  <2> QED
    BY <1>1, <2>1, StaysIn
<1>12. h[N] \in X
  BY <1>1, <1>11
<1> QED
  BY <1>12 DEF h, X, N

LEMMA CleanKeeps ==
  ASSUME NEW list \in Seq(Elements), LastIncomplete(list), NEW s
  PROVE  /\ CleanList(list, s) \in Seq(Elements)
         /\ LastIncomplete(CleanList(list, s))
         /\ \A t : t # s => Of(t, CleanList(list, s)) = Of(t, list)
<1> DEFINE I == DOMAIN list \ DropTo(list, s)[Len(list)]
<1>1. CleanList(list, s) = At(list, I)
  BY DEF CleanList, DropTo
<1>2. \A t : t # s => \A i \in DOMAIN list : list[i].s = t => i \in I
  BY DropSteps
<1> HIDE DEF I
<1>3. /\ At(list, I) \in Seq(Elements)
      /\ LastIncomplete(At(list, I))
      /\ \A t : (\A i \in DOMAIN list : list[i].s = t => i \in I)
                  => Of(t, At(list, I)) = Of(t, list)
  BY AtKeeps
<1> QED
  BY <1>1, <1>2, <1>3, Zenon

Associates(a, b, c) == (a \o b) \o c = a \o (b \o c)

LEMMA Associative ==
  ASSUME NEW S, NEW a \in Seq(S), NEW b \in Seq(S), NEW c \in Seq(S)
  PROVE  Associates(a, b, c)
BY DEF Associates

\* rest is list without the elements taken, which are the first of s's.
Takes(list, s, taken, rest) ==
  /\ taken \in Seq(Elements) /\ rest \in Seq(Elements)
  /\ LastIncomplete(rest)
  /\ Of(s, list) = taken \o Of(s, rest)
  /\ \A t : t # s => Of(t, rest) = Of(t, list)

\* get_next_message takes out the first of s's elements.
LEMMA TakeKeeps ==
  ASSUME NEW list \in Seq(Elements), LastIncomplete(list), NEW i \in DOMAIN list, NEW s,
         list[i].s = s,
         \A j \in DOMAIN list : list[j].s = s /\ list[j].complete => i <= j
  PROVE  Takes(list, s, <<list[i]>>, RemoveAt(list, i))
<1> DEFINE r == RemoveAt(list, i)
           a == SubSeq(list, 1, i - 1)
           b == SubSeq(list, i + 1, Len(list))
           x == list[i]
<1>1. DOMAIN list = 1..Len(list) /\ Len(list) \in Nat /\ x \in Elements /\ list \in Lists
  BY DEF Lists
<1>2. /\ r \in Seq(Elements) /\ Len(r) = Len(list) - 1
      /\ \A j \in 1..(Len(list) - 1) : r[j] = IF j < i THEN list[j] ELSE list[j + 1]
  BY RemoveAtIs
<1>3. LastIncomplete(r)
  <2> HIDE DEF r
  <2> SUFFICES ASSUME NEW k \in DOMAIN r, NEW j \in DOMAIN r, r[k].s = r[j].s, ~r[k].complete
               PROVE  j <= k
    BY DEF LastIncomplete
  <2> DEFINE at(n) == IF n < i THEN n ELSE n + 1
  <2>1. k \in 1..(Len(list) - 1) /\ j \in 1..(Len(list) - 1)
    BY <1>2
  <2>2. r[k] = list[at(k)] /\ r[j] = list[at(j)]
    BY <1>2, <2>1
  <2>3. at(k) \in DOMAIN list /\ at(j) \in DOMAIN list
    BY <1>1, <2>1
  <2>4. at(j) <= at(k)
    BY <2>2, <2>3 DEF LastIncomplete
  <2> QED
    BY <1>1, <2>1, <2>4
<1>4. a \in Lists /\ b \in Lists /\ list = Between(a, x, b) /\ r = a \o b
  BY <1>1, IsBetween
<1>5. Of(s, a) = <<>>
  BY OnlyAround
<1> HIDE DEF r, a, b, x
<1>6. /\ Of(x.s, list) = Between(Of(x.s, a), x, Of(x.s, b))
      /\ \A t : x.s # t => Of(t, list) = Of(t, a) \o Of(t, b)
  BY <1>1, <1>4, OfBetween
<1>7. \A t : Of(t, r) = Of(t, a) \o Of(t, b)
  BY <1>4, OfConcat DEF Lists
<1>8. x.s = s
  BY DEF x
<1>9. <<>> \o Of(s, b) = Of(s, b) /\ Append(<<>>, x) = <<x>>
  <2> DEFINE B == Of(s, b)
  <2>1. B \in Seq(Elements)
    BY <1>4, OfIs DEF Lists
  <2> HIDE DEF B
  <2>2. <<>> \o B = B /\ Append(<<>>, x) = <<x>>
    BY <2>1, Whole
  <2> QED
    BY <2>2 DEF B
<1>10. Of(s, list) = <<x>> \o Of(s, r)
  BY <1>5, <1>6, <1>7, <1>8, <1>9, Zenon DEF Between
<1>11. \A t : t # s => Of(t, r) = Of(t, list)
  BY <1>6, <1>7, <1>8, Zenon
<1>12. <<x>> \in Seq(Elements)
  BY <1>1
<1> QED
  BY <1>2, <1>3, <1>10, <1>11, <1>12, Zenon DEF r, x, Takes

\* empty_incoming_messages drops the elements at the head, which are of s.
LEMMA DropHeadKeeps ==
  ASSUME NEW list \in Seq(Elements), LastIncomplete(list), NEW n \in 0..Len(list), NEW s,
         \A i \in 1..n : list[i].s = s
  PROVE  Takes(list, s, SubSeq(list, 1, n), SubSeq(list, n + 1, Len(list)))
<1> DEFINE a == SubSeq(list, 1, n)
           b == SubSeq(list, n + 1, Len(list))
<1>1. /\ a \in Seq(Elements) /\ DOMAIN a = 1..n /\ Len(a) = n
      /\ \A i \in 1..n : a[i] = list[i]
  OBVIOUS
<1>2. /\ b \in Seq(Elements) /\ DOMAIN b = 1..(Len(list) - n) /\ Len(b) = Len(list) - n
      /\ \A i \in 1..(Len(list) - n) : b[i] = list[n + i]
  OBVIOUS
<1>3. DOMAIN list = 1..Len(list) /\ Len(list) \in Nat
  OBVIOUS
<1> HIDE DEF a, b
<1>4. list = a \o b
  <2> DEFINE c == a \o b
  <2>1. Len(a) = n /\ Len(b) = Len(list) - n
    BY <1>1, <1>2, <1>3
  <2>2. /\ c \in Seq(Elements) /\ Len(c) = Len(a) + Len(b)
        /\ \A j \in 1..(Len(a) + Len(b)) : c[j] = IF j <= Len(a) THEN a[j] ELSE b[j - Len(a)]
    BY <1>1, <1>2, ConcatProperties
  <2> HIDE DEF c
  <2>3. ASSUME NEW j \in 1..Len(list)
        PROVE  list[j] = c[j]
    <3>1. c[j] = IF j <= n THEN a[j] ELSE b[j - n]
      BY <1>3, <2>1, <2>2
    <3>2. CASE j <= n
      BY <1>1, <3>1, <3>2
    <3>3. CASE ~(j <= n)
      <4>1. j - n \in 1..(Len(list) - n) /\ n + (j - n) = j
        BY <1>3, <3>3
      <4>2. b[j - n] = list[n + (j - n)]
        BY <1>2, <4>1
      <4> QED
        BY <3>1, <3>3, <4>1, <4>2
    <3> QED
      BY <3>2, <3>3
  <2>4. Len(list) = Len(c)
    BY <1>3, <2>1, <2>2
  <2>5. list = c
    BY <2>2, <2>3, <2>4, SeqEqual
  <2> QED
    BY <2>5 DEF c
<1>5. LastIncomplete(b)
  <2> SUFFICES ASSUME NEW i \in DOMAIN b, NEW j \in DOMAIN b, b[i].s = b[j].s, ~b[i].complete
               PROVE  j <= i
    BY DEF LastIncomplete
  <2>1. n + i \in DOMAIN list /\ n + j \in DOMAIN list
    BY <1>2, <1>3
  <2>2. n + j <= n + i
    BY <1>2, <2>1 DEF LastIncomplete
  <2> QED
    BY <1>2, <2>2
<1>6. \A t : Of(t, list) = Of(t, a) \o Of(t, b)
  BY <1>1, <1>2, <1>4, OfConcat
<1>7. Of(s, a) = a
  BY <1>1, OfAllNone
<1>8. ASSUME NEW t, t # s
      PROVE  Of(t, b) = Of(t, list)
  <2>1. Of(t, a) = <<>>
    BY <1>1, <1>8, OfAllNone
  <2> DEFINE B == Of(t, b)
  <2>2. B \in Seq(Elements)
    BY <1>2, OfIs
  <2> HIDE DEF B
  <2>3. <<>> \o B = B
    BY <2>2, Whole
  <2> QED
    BY <1>6, <2>1, <2>3, Zenon DEF B
<1> QED
  BY <1>1, <1>2, <1>5, <1>6, <1>7, <1>8, Zenon DEF a, b, Takes

----------------------------------------------------------------------------
\* Where complete messages end.

\* In out, of which before characters are older, each complete element ends
\* where a null byte ends what was read.
Ends(out, before, read) ==
  \A i \in DOMAIN out :
    LET len == Len(Texts(SubSeq(out, 1, i)))
    IN  out[i].complete /\ len > before =>
          \E p \in DOMAIN read :
            read[p] = NUL /\ len - before = Len(Text(SubSeq(read, 1, p)))

\* What was read is read still when more was.
LEMMA EndsMore ==
  ASSUME NEW out, NEW before, NEW read \in Seq(Bytes), NEW b \in Seq(Bytes),
         Ends(out, before, read)
  PROVE  Ends(out, before, read \o b)
<1> DEFINE more == read \o b
<1>1. ASSUME NEW p \in DOMAIN read
      PROVE  p \in DOMAIN more /\ more[p] = read[p] /\ SubSeq(more, 1, p) = SubSeq(read, 1, p)
  OBVIOUS
<1> HIDE DEF more
<1>2. Ends(out, before, more)
  BY <1>1 DEF Ends
<1> QED
  BY <1>2 DEF more

\* The last element is changed or added.
LEMMA EndsGrow ==
  ASSUME NEW a \in Lists, NEW el \in Elements, NEW o, NEW before, NEW more,
         Ends(o, before, more),
         o = a \/ \E old \in Elements : o = Append(a, old),
         el.complete => \E p \in DOMAIN more :
           more[p] = NUL /\ Len(Texts(Append(a, el))) - before = Len(Text(SubSeq(more, 1, p)))
  PROVE  Ends(Append(a, el), before, more)
<1> DEFINE r == Append(a, el)
           N == Len(a) + 1
<1>1. DOMAIN r = 1..N /\ N \in Nat /\ r[N] = el /\ SubSeq(r, 1, N) = r
  BY DEF Lists
<1>2. ASSUME NEW i \in 1..Len(a)
      PROVE  i \in DOMAIN o /\ r[i] = o[i] /\ SubSeq(r, 1, i) = SubSeq(o, 1, i)
  <2>1. CASE o = a
    BY <2>1 DEF Lists
  <2>2. CASE \E old \in Elements : o = Append(a, old)
    <3>1. PICK old \in Elements : o = Append(a, old)
      BY <2>2
    <3> QED
      BY <3>1 DEF Lists
  <2> QED
    BY <2>1, <2>2
<1>3. \A i \in 1..N : i = N \/ i \in 1..Len(a)
  BY <1>1
<1> HIDE DEF r, N
<1>4. ASSUME NEW i \in DOMAIN r, r[i].complete, Len(Texts(SubSeq(r, 1, i))) > before
      PROVE  \E p \in DOMAIN more :
               more[p] = NUL /\ Len(Texts(SubSeq(r, 1, i))) - before = Len(Text(SubSeq(more, 1, p)))
  <2>1. CASE i = N
    <3>1. SubSeq(r, 1, i) = r /\ el.complete
      BY <1>1, <1>4, <2>1
    <3> QED
      BY <3>1, Zenon DEF r
  <2>2. CASE i # N
    <3>1. i \in DOMAIN o /\ r[i] = o[i] /\ SubSeq(r, 1, i) = SubSeq(o, 1, i)
      BY <1>1, <1>2, <1>3, <2>2
    <3> QED
      BY <1>4, <3>1, Zenon DEF Ends
  <2> QED
    BY <2>1, <2>2
<1>5. Ends(r, before, more)
  BY <1>4, Zenon DEF Ends
<1> QED
  BY <1>5 DEF r

\* What is added at one end of an equation is added at the other.
Regrouped(g, o, l, r, b) ==
  /\ g \o (o \o b) = l \o (r \o b)
  /\ Len(l \o (r \o b)) - Len(l) = Len(r \o b)

LEMMA Regroup ==
  ASSUME NEW g \in Seq(Chars), NEW o \in Seq(Chars), NEW l \in Seq(Chars),
         NEW r \in Seq(Chars), NEW b \in Seq(Chars), g \o o = l \o r
  PROVE  Regrouped(g, o, l, r, b)
<1>1. Associates(g, o, b)
  BY Associative
<1>2. Associates(l, r, b)
  BY Associative
<1>3. r \o b \in Seq(Chars)
  OBVIOUS
<1>4. Len(l \o (r \o b)) = Len(l) + Len(r \o b) /\ Len(l) \in Nat /\ Len(r \o b) \in Nat
  BY <1>3
<1>5. Len(l \o (r \o b)) - Len(l) = Len(r \o b)
  BY ONLY <1>4
<1> QED
  BY <1>1, <1>2, <1>5, Zenon DEF Associates, Regrouped

\* What split makes of the list ends where it should.
LEMMA SplitEnds ==
  ASSUME NEW list \in Seq(Elements), LastIncomplete(list), NEW s \in Sockets,
         NEW bytes \in Seq(Bytes), NEW g \in Seq(Elements), NEW old \in Seq(Chars),
         NEW read \in Seq(Bytes),
         Texts(g \o Of(s, list)) = old \o Text(read),
         Ends(g \o Of(s, list), Len(old), read)
  PROVE  Ends(g \o Of(s, Split(list, s, bytes)), Len(old), read \o bytes)
<1> DEFINE N == Len(bytes) + 1
           more == read \o bytes
<1>1. PICK l : /\ l[0] = list /\ l[N] = Split(list, s, bytes)
               /\ \A n \in 0..N : l[n] \in Lists
               /\ \A n \in 1..N : Adds(l, list, s, bytes, n)
  BY SplitAdds, Zenon DEF Lengthens
<1> DEFINE E(n) == Ends(g \o Of(s, l[n]), Len(old), more)
           T == {n \in 0..N : E(n)}
<1>2. N \in Nat /\ N \in 0..N /\ 0 \in 0..N
  OBVIOUS
<1>3. E(0)
  BY <1>1, EndsMore
<1>4. ASSUME NEW n \in 1..N, E(n - 1)
      PROVE  E(n)
  <2>1. CASE l[n] = l[n - 1]
    BY <1>4, <2>1
  <2>2. CASE /\ Grows(Of(s, l[n - 1]), Of(s, l[n]), Ended(bytes, n))
             /\ n <= Len(bytes) => bytes[n] = NUL
             /\ Texts(Of(s, l[n])) = Texts(Of(s, list)) \o Text(SubSeq(Append(bytes, NUL), 1, n))
    <3>1. PICK q \in Lists, el \in Elements :
            /\ Of(s, l[n]) = Append(q, el) /\ el.complete = Ended(bytes, n)
            /\ \/ Of(s, l[n - 1]) = q
               \/ \E e \in Elements : Of(s, l[n - 1]) = Append(q, e)
      BY <2>2, Zenon DEF Grows
    <3> DEFINE a == g \o q
    <3>2. a \in Lists /\ \A e \in Elements : g \o Append(q, e) = Append(a, e)
      BY DEF Lists
    <3> HIDE DEF a
    <3>3. /\ g \o Of(s, l[n]) = Append(a, el)
          /\ \/ g \o Of(s, l[n - 1]) = a
             \/ \E e \in Elements : g \o Of(s, l[n - 1]) = Append(a, e)
      BY <3>1, <3>2, Zenon DEF a
    <3>4. ASSUME el.complete
          PROVE  \E p \in DOMAIN more :
                   /\ more[p] = NUL
                   /\ Len(Texts(Append(a, el))) - Len(old) = Len(Text(SubSeq(more, 1, p)))
      <4> DEFINE p == Len(read) + n
                 b == SubSeq(bytes, 1, n)
                 G == Texts(g)
                 O == Texts(Of(s, list))
                 R == Text(read)
                 B == Text(b)
      <4>1. n \in 1..Len(bytes) /\ bytes[n] = NUL
        <5>1. Ended(bytes, n)
          BY <3>1, <3>4, Zenon
        <5>2. n <= Len(bytes)
          BY <5>1 DEF Ended
        <5>3. bytes[n] = NUL
          BY <2>2, <5>2, Zenon
        <5> QED
          BY <5>2, <5>3
      <4>2. /\ p \in DOMAIN more /\ more[p] = bytes[n]
            /\ SubSeq(more, 1, p) = read \o b
            /\ b \in Seq(Bytes)
            /\ SubSeq(Append(bytes, NUL), 1, n) = b
        BY <4>1
      <4>3. Text(SubSeq(more, 1, p)) = R \o B
        BY <4>2, TextConcat
      <4>4. Of(s, list) \in Seq(Elements) /\ Of(s, l[n]) \in Seq(Elements)
        <5>1. l[n] \in Seq(Elements)
          BY <1>1 DEF Lists
        <5> QED
          BY <5>1, OfIs
      <4>5. Texts(g \o Of(s, list)) = G \o O
        BY <4>4, TextsConcat
      <4>6. Texts(g \o Of(s, l[n])) = G \o Texts(Of(s, l[n]))
        BY <4>4, TextsConcat
      <4>7. Texts(Of(s, l[n])) = O \o B
        BY <2>2, <4>2, Zenon
      <4>8. /\ G \in Seq(Chars) /\ O \in Seq(Chars) /\ R \in Seq(Chars) /\ B \in Seq(Chars)
            /\ old \in Seq(Chars)
        BY <4>2, <4>4, TextsType, TextIs
      <4>9. G \o O = old \o R
        BY <4>5
      <4> HIDE DEF p, b, G, O, R, B
      <4>10. Regrouped(G, O, old, R, B)
        BY <4>8, <4>9, Regroup
      <4>11. Texts(Append(a, el)) = old \o (R \o B)
        BY <3>3, <4>6, <4>7, <4>10, Zenon DEF Regrouped
      <4>12. Len(Texts(Append(a, el))) - Len(old) = Len(Text(SubSeq(more, 1, p)))
        BY <4>3, <4>10, <4>11, Zenon DEF Regrouped
      <4> QED
        BY <4>1, <4>2, <4>12, Zenon
    <3> DEFINE o == g \o Of(s, l[n - 1])
    <3>5. Ends(o, Len(old), more) /\ (o = a \/ \E e \in Elements : o = Append(a, e))
      BY <1>4, <3>3
    <3> HIDE DEF o, more
    <3>6. Ends(Append(a, el), Len(old), more)
      BY <3>2, <3>4, <3>5, EndsGrow
    <3> QED
      BY <3>3, <3>6, Zenon
  <2>3. Adds(l, list, s, bytes, n)
    BY <1>1
  <2> QED
    BY <2>1, <2>2, <2>3, Zenon DEF Adds
<1> HIDE DEF E, N
<1>5. 0 \in T /\ \A n \in 1..N : n - 1 \in T => n \in T
  BY <1>2, <1>3, <1>4
<1> HIDE DEF T
<1>6. 0..N \subseteq T
  BY <1>2, <1>5, InductionUpTo
<1>7. E(N)
  BY <1>2, <1>6 DEF T
<1> QED
  BY <1>1, <1>7, Zenon DEF E

\* At a new connection all is older.
LEMMA EndsNew ==
  ASSUME NEW out \in Seq(Elements)
  PROVE  Ends(out, Len(Texts(out)), <<>>)
<1> SUFFICES ASSUME NEW i \in DOMAIN out
             PROVE  ~(Len(Texts(SubSeq(out, 1, i))) > Len(Texts(out)))
  BY Zenon DEF Ends
<1> DEFINE p == SubSeq(out, 1, i)
           r == SubSeq(out, i + 1, Len(out))
<1>1. p \in Seq(Elements) /\ r \in Seq(Elements) /\ out = p \o r
  <2>1. /\ SubSeq(out, 1, i - 1) \in Seq(Elements) /\ r \in Seq(Elements)
        /\ out = Append(SubSeq(out, 1, i - 1), out[i]) \o r
    BY Around
  <2>2. p \in Seq(Elements) /\ p = Append(SubSeq(out, 1, i - 1), out[i])
    BY OneMore
  <2> QED
    BY <2>1, <2>2, Zenon
<1> HIDE DEF p, r
<1>2. Texts(out) = Texts(p) \o Texts(r) /\ Texts(p) \in Seq(Chars) /\ Texts(r) \in Seq(Chars)
  BY <1>1, TextsConcat, TextsType
<1> DEFINE P == Texts(p)
           R == Texts(r)
<1> HIDE DEF P, R
<1>3. Len(P \o R) >= Len(P)
  <2>1. P \in Seq(Chars) /\ R \in Seq(Chars)
    BY <1>2 DEF P, R
  <2> QED
    BY ONLY <2>1
<1>4. Len(P) \in Nat /\ Len(P \o R) \in Nat
  BY <1>2 DEF P, R
<1>5. ~(Len(P) > Len(P \o R))
  BY <1>3, <1>4
<1> QED
  BY <1>2, <1>5, Zenon DEF p, P, R

----------------------------------------------------------------------------
(***************************************************************************)
(* The inductive invariant.  NothingLost alone is not inductive: what a    *)
(* read adds to s's text is at its end only if s's incomplete element is   *)
(* its last (LastIncomplete), and what is still on the wire is the rest of *)
(* what was sent (Balanced); a number used again starts with an empty wire *)
(* (GoneIsRead).  CompleteIsEnded needs the same of what is read: Ends is  *)
(* part of the account.                                                    *)
(***************************************************************************)

SmTypes ==
  /\ the_list \in Seq(Elements)
  /\ wire \in [Sockets -> Seq(Bytes)] /\ stream \in [Sockets -> Seq(Bytes)]
  /\ conn \in [Sockets -> {"open", "closed", "gone"}]
  /\ reading \in Sockets \cup {NoSocket}
  /\ call \in {"none", "count", "get", "empty"}
  /\ call = "none" <=> reading = NoSocket
  /\ undefined \in BOOLEAN
  /\ given \in [Sockets -> Seq(Elements)] /\ left \in [Sockets -> Seq(Elements)]

GoneIsRead == \A s \in Sockets : conn[s] = "gone" => wire[s] = <<>>

\* read is what was read of s's connection.
Accounts(s, read) ==
  /\ read \in Seq(Bytes)
  /\ stream[s] = read \o wire[s]
  /\ Texts(given[s] \o Of(s, the_list)) = Texts(left[s]) \o Text(read)
  /\ Ends(given[s] \o Of(s, the_list), Len(Texts(left[s])), read)

Balanced == \A s \in Sockets : conn[s] # "gone" => \E read : Accounts(s, read)

SmInv == SmTypes /\ LastIncomplete(the_list) /\ GoneIsRead /\ Balanced

LEMMA InitKeeps == Init => SmInv
<1> SUFFICES ASSUME Init
             PROVE  SmInv
  OBVIOUS
<1>1. SmTypes /\ GoneIsRead /\ LastIncomplete(the_list)
  <2>1. <<>> \in Seq(Elements) /\ <<>> \in Seq(Bytes) /\ DOMAIN <<>> = {}
    OBVIOUS
  <2>2. SmTypes
    BY <2>1 DEF Init, SmTypes
  <2>3. GoneIsRead
    BY DEF Init, GoneIsRead
  <2>4. the_list = <<>>
    BY DEF Init
  <2>5. LastIncomplete(the_list)
    BY <2>1, <2>4, Zenon DEF LastIncomplete
  <2> QED
    BY <2>2, <2>3, <2>5
<1>2. ASSUME NEW s \in Sockets
      PROVE  Accounts(s, <<>>)
  <2>1. <<>> \in Seq(Bytes) /\ <<>> \in Seq(Elements) /\ <<>> \o <<>> = <<>>
    OBVIOUS
  <2>2. Of(s, <<>>) = <<>>
    BY <2>1, OfIs, AmongEmpty
  <2>3. /\ wire[s] = <<>> /\ stream[s] = <<>> /\ given[s] = <<>> /\ left[s] = <<>>
        /\ the_list = <<>>
    BY DEF Init
  <2>4. Ends(<<>>, Len(Texts(<<>>)), <<>>)
    BY <2>1, EndsNew
  <2> QED
    BY <2>1, <2>2, <2>3, <2>4, TextsEmpty, TextEmpty, Zenon DEF Accounts
<1> QED
  BY <1>1, <1>2 DEF SmInv, Balanced

LEMMA PeerSendKeeps ==
  ASSUME SmInv, NEW s \in Sockets, NEW c \in Messages, PeerSend(s, c)
  PROVE  SmInv'
<1> USE DEF SmInv
<1>1. PICK n \in 1..(Len(c) + 1) :
        /\ wire' = [wire EXCEPT ![s] = @ \o SubSeq(Append(c, NUL), 1, n)]
        /\ stream' = [stream EXCEPT ![s] = @ \o SubSeq(Append(c, NUL), 1, n)]
  BY DEF PeerSend
<1> DEFINE b == SubSeq(Append(c, NUL), 1, n)
<1>2. b \in Seq(Bytes)
  <2>1. c \in Seq(Chars)
    BY SmAssumption
  <2>2. Append(c, NUL) \in Seq(Bytes) /\ Len(Append(c, NUL)) = Len(c) + 1
    BY <2>1 DEF Bytes
  <2> QED
    BY <2>2, OneMore
<1> HIDE DEF b
<1>3. wire' = [wire EXCEPT ![s] = wire[s] \o b] /\ stream' = [stream EXCEPT ![s] = stream[s] \o b]
  BY <1>1 DEF b
<1>4. /\ wire \in [Sockets -> Seq(Bytes)] /\ stream \in [Sockets -> Seq(Bytes)]
      /\ conn[s] = "open"
      /\ UNCHANGED <<the_list, conn, reading, call, undefined, given, left>>
  BY DEF PeerSend, SmTypes
<1>5. wire[s] \o b \in Seq(Bytes) /\ stream[s] \o b \in Seq(Bytes)
  BY <1>2, <1>4
<1>6. wire' \in [Sockets -> Seq(Bytes)] /\ stream' \in [Sockets -> Seq(Bytes)]
  BY <1>3, <1>4, <1>5
<1>7. SmTypes' /\ LastIncomplete(the_list)'
  BY <1>4, <1>6 DEF SmTypes, LastIncomplete
<1>8. /\ wire'[s] = wire[s] \o b /\ stream'[s] = stream[s] \o b
      /\ \A t \in Sockets : t # s => wire'[t] = wire[t] /\ stream'[t] = stream[t]
  BY <1>3, <1>4
<1>9. GoneIsRead'
  BY <1>4, <1>8 DEF GoneIsRead
<1>10. Balanced'
  <2> SUFFICES ASSUME NEW t \in Sockets, conn'[t] # "gone"
               PROVE  \E read : Accounts(t, read)'
    BY DEF Balanced
  <2>1. PICK read : Accounts(t, read)
    BY <1>4 DEF Balanced
  <2>2. CASE t = s
    <3> DEFINE w == wire[s]
    <3>1. (read \o w) \o b = read \o (w \o b)
      <4> HIDE DEF w
      <4>1. read \in Seq(Bytes) /\ w \in Seq(Bytes) /\ b \in Seq(Bytes)
        BY <1>2, <1>4, <2>1 DEF Accounts, w
      <4>2. Associates(read, w, b)
        BY <4>1, Associative
      <4> QED
        BY <4>2, Zenon DEF Associates
    <3>2. stream'[s] = read \o wire'[s]
      BY <1>8, <2>1, <2>2, <3>1, Zenon DEF Accounts
    <3>3. Accounts(s, read)'
      BY <1>4, <2>1, <2>2, <3>2, Zenon DEF Accounts
    <3> QED
      BY <2>2, <3>3
  <2>3. CASE t # s
    <3>1. Accounts(t, read)'
      BY <1>4, <1>8, <2>1, <2>3, Zenon DEF Accounts
    <3> QED
      BY <3>1
  <2> QED
    BY <2>2, <2>3
<1> QED
  BY <1>7, <1>9, <1>10

LEMMA ReadBytesKeeps ==
  ASSUME SmInv, NEW s \in Sockets, ReadBytes(s)
  PROVE  SmInv'
<1> USE DEF SmInv
<1>1. PICK n \in 1..MaxRead :
        /\ n <= Len(wire[s])
        /\ the_list' = Split(the_list, s, SubSeq(wire[s], 1, n))
        /\ wire' = [wire EXCEPT ![s] = SubSeq(@, n + 1, Len(@))]
  BY DEF ReadBytes
<1> DEFINE w == wire[s]
           b == SubSeq(w, 1, n)
           rest == SubSeq(w, n + 1, Len(w))
<1>2. /\ wire \in [Sockets -> Seq(Bytes)] /\ the_list \in Seq(Elements)
      /\ LastIncomplete(the_list) /\ n \in Nat
      /\ UNCHANGED <<conn, reading, call, undefined, stream, given, left>>
  BY SmAssumption DEF ReadBytes, SmTypes, ghosts
<1>3. w \in Seq(Bytes) /\ n \in 1..Len(w)
  BY <1>1, <1>2
<1>4. the_list' = Split(the_list, s, b) /\ wire' = [wire EXCEPT ![s] = rest]
  BY <1>1
<1> HIDE DEF w
<1>5. b \in Seq(Bytes) /\ rest \in Seq(Bytes) /\ w = b \o rest
  <2>1. n \in DOMAIN w
    BY <1>3
  <2>2. /\ SubSeq(w, 1, n - 1) \in Seq(Bytes) /\ rest \in Seq(Bytes)
        /\ w = Append(SubSeq(w, 1, n - 1), w[n]) \o rest
    BY <1>3, <2>1, Around
  <2>3. b \in Seq(Bytes) /\ b = Append(SubSeq(w, 1, n - 1), w[n])
    BY <1>3, OneMore
  <2> QED
    BY <2>2, <2>3, Zenon
<1> HIDE DEF b, rest
<1>6. /\ the_list' \in Seq(Elements) /\ LastIncomplete(the_list')
      /\ Texts(Of(s, the_list')) = Texts(Of(s, the_list)) \o Text(b)
      /\ \A t : t # s => Of(t, the_list') = Of(t, the_list)
  <2>1. Added(the_list, s, Text(b), Split(the_list, s, b))
    BY <1>2, <1>5, SplitAdds
  <2> QED
    BY <1>4, <2>1, Zenon DEF Added
<1>7. wire' \in [Sockets -> Seq(Bytes)]
  BY <1>2, <1>4, <1>5
<1>8. SmTypes'
  BY <1>2, <1>6, <1>7 DEF SmTypes
<1>9. wire'[s] = rest /\ \A t \in Sockets : t # s => wire'[t] = wire[t]
  BY <1>2, <1>4
<1>10. conn[s] # "gone"
  BY <1>3 DEF GoneIsRead, w
<1>11. GoneIsRead'
  BY <1>2, <1>9, <1>10 DEF GoneIsRead
<1>12. \E read : Accounts(s, read)'
  <2>1. PICK read : Accounts(s, read)
    BY <1>10 DEF Balanced
  <2> DEFINE g == given[s]
             o == Of(s, the_list)
             p == Of(s, the_list')
             l == left[s]
  <2>2. g \in Seq(Elements) /\ o \in Seq(Elements) /\ p \in Seq(Elements) /\ l \in Seq(Elements)
    BY <1>2, <1>6, OfIs DEF SmTypes
  <2>3. read \in Seq(Bytes) /\ stream[s] = read \o w /\ Texts(g \o o) = Texts(l) \o Text(read)
    BY <2>1 DEF Accounts, w
  <2>4. Texts(p) = Texts(o) \o Text(b)
    BY <1>6
  <2> HIDE DEF g, o, p, l
  <2>5. Texts(g \o o) = Texts(g) \o Texts(o) /\ Texts(g \o p) = Texts(g) \o Texts(p)
    BY <2>2, TextsConcat
  <2>6. Text(read \o b) = Text(read) \o Text(b)
    BY <1>5, <2>3, TextConcat
  <2> DEFINE G == Texts(g)
             O == Texts(o)
             L == Texts(l)
             R == Text(read)
             B == Text(b)
  <2>7. G \in Seq(Chars) /\ O \in Seq(Chars) /\ L \in Seq(Chars) /\ R \in Seq(Chars) /\ B \in Seq(Chars)
    BY <1>5, <2>2, <2>3, TextsType, TextIs
  <2>8. G \o O = L \o R
    BY <2>3, <2>5
  <2>9. G \o (O \o B) = L \o (R \o B)
    <3> HIDE DEF G, O, L, R, B
    <3>1. Regrouped(G, O, L, R, B)
      BY <2>7, <2>8, Regroup
    <3> QED
      BY <3>1, Zenon DEF Regrouped
  <2>10. Texts(g \o p) = Texts(l) \o Text(read \o b)
    BY <2>4, <2>5, <2>6, <2>9, Zenon
  <2>11. read \o b \in Seq(Bytes) /\ read \o w = (read \o b) \o rest
    <3>1. read \o b \in Seq(Bytes) /\ read \o (b \o rest) = (read \o b) \o rest
      <4>1. read \in Seq(Bytes) /\ b \in Seq(Bytes) /\ rest \in Seq(Bytes)
        BY <1>5, <2>3
      <4> QED
        BY ONLY <4>1
    <3> QED
      BY <1>5, <3>1, Zenon
  <2>12. stream'[s] = (read \o b) \o wire'[s]
    BY <1>2, <1>9, <2>3, <2>11, Zenon
  <2>13. PICK more : more = read \o b
    OBVIOUS
  <2>14. Ends(g \o p, Len(Texts(l)), more)
    <3>1. PICK old : old = Texts(l)
      OBVIOUS
    <3>2. old \in Seq(Chars)
      BY <2>7, <3>1
    <3>3. Texts(g \o o) = old \o Text(read) /\ Ends(g \o o, Len(old), read)
      BY <2>1, <2>3, <3>1, Zenon DEF Accounts, g, o, l
    <3>4. p = Of(s, Split(the_list, s, b))
      BY <1>4, Zenon DEF p
    <3>5. Ends(g \o Of(s, Split(the_list, s, b)), Len(old), read \o b)
      BY <1>2, <1>5, <2>2, <2>3, <3>2, <3>3, SplitEnds DEF o
    <3> QED
      BY <2>13, <3>1, <3>4, <3>5, Zenon
  <2>15. Accounts(s, more)'
    <3>1. given'[s] = given[s] /\ left'[s] = left[s]
      BY <1>2
    <3>2. Texts(given'[s] \o Of(s, the_list')) = Texts(left'[s]) \o Text(more)
      BY <2>10, <2>13, <3>1, Zenon DEF g, p, l
    <3>3. more \in Seq(Bytes) /\ stream'[s] = more \o wire'[s]
      BY <2>11, <2>12, <2>13, Zenon
    <3>4. Ends(given'[s] \o Of(s, the_list'), Len(Texts(left'[s])), more)
      BY <2>14, <3>1, Zenon DEF g, p, l
    <3> QED
      BY <3>2, <3>3, <3>4, Zenon DEF Accounts
  <2> QED
    BY <2>15
<1>13. Balanced'
  <2> SUFFICES ASSUME NEW t \in Sockets, conn'[t] # "gone"
               PROVE  \E read : Accounts(t, read)'
    BY DEF Balanced
  <2>1. CASE t = s
    BY <1>12, <2>1
  <2>2. CASE t # s
    <3>1. PICK read : Accounts(t, read)
      BY <1>2 DEF Balanced
    <3>2. Accounts(t, read)'
      BY <1>2, <1>6, <1>9, <2>2, <3>1, Zenon DEF Accounts
    <3> QED
      BY <3>2
  <2> QED
    BY <2>1, <2>2
<1> QED
  BY <1>6, <1>8, <1>11, <1>13

LEMMA ReadEOFKeeps ==
  ASSUME SmInv, NEW s \in Sockets, ReadEOF(s)
  PROVE  SmInv'
<1> USE DEF SmInv
<1>1. /\ the_list' = CleanList(the_list, s)
      /\ conn' = [conn EXCEPT ![s] = "gone"]
      /\ reading' = NoSocket /\ call' = "none"
      /\ wire[s] = <<>>
      /\ UNCHANGED <<wire, undefined, stream, given, left>>
  BY DEF ReadEOF, Return, ghosts
<1>2. /\ the_list' \in Seq(Elements) /\ LastIncomplete(the_list')
      /\ \A t : t # s => Of(t, the_list') = Of(t, the_list)
  BY <1>1, CleanKeeps DEF SmTypes
<1>3. conn' \in [Sockets -> {"open", "closed", "gone"}]
      /\ conn'[s] = "gone" /\ \A t \in Sockets : t # s => conn'[t] = conn[t]
  BY <1>1 DEF SmTypes
<1>4. SmTypes'
  BY <1>1, <1>2, <1>3 DEF SmTypes
<1>5. GoneIsRead'
  BY <1>1, <1>3 DEF GoneIsRead
<1>6. Balanced'
  <2> SUFFICES ASSUME NEW t \in Sockets, conn'[t] # "gone"
               PROVE  \E read : Accounts(t, read)'
    BY DEF Balanced
  <2>1. t # s /\ conn[t] # "gone"
    BY <1>3
  <2>2. PICK read : Accounts(t, read)
    BY <2>1 DEF Balanced
  <2>3. Accounts(t, read)'
    BY <1>1, <1>2, <2>1, <2>2, Zenon DEF Accounts
  <2> QED
    BY <2>3
<1> QED
  BY <1>2, <1>4, <1>5, <1>6

\* The first of s's elements are given out: the account is the same.
LEMMA GiveKeeps ==
  ASSUME SmInv, NEW s \in Sockets, NEW taken, Takes(the_list, s, taken, the_list'),
         given' = [given EXCEPT ![s] = @ \o taken],
         undefined' \in BOOLEAN, reading' = NoSocket, call' = "none",
         UNCHANGED <<wire, conn, stream, left>>
  PROVE  SmInv'
<1> USE DEF SmInv
<1>1. /\ given \in [Sockets -> Seq(Elements)] /\ taken \in Seq(Elements)
      /\ the_list' \in Seq(Elements) /\ LastIncomplete(the_list')
      /\ Of(s, the_list) = taken \o Of(s, the_list')
      /\ \A t : t # s => Of(t, the_list') = Of(t, the_list)
  BY DEF SmTypes, Takes
<1>2. /\ given[s] \in Seq(Elements) /\ given'[s] = given[s] \o taken
      /\ \A t \in Sockets : t # s => given'[t] = given[t]
  BY <1>1
<1>3. given[s] \o taken \in Seq(Elements)
  BY <1>1, <1>2
<1>4. given' \in [Sockets -> Seq(Elements)]
  BY <1>1, <1>3
<1>5. SmTypes'
  BY <1>1, <1>4 DEF SmTypes
<1>6. GoneIsRead'
  BY DEF GoneIsRead
<1>7. given'[s] \o Of(s, the_list') = given[s] \o Of(s, the_list)
  <2> DEFINE g == given[s]
             o == Of(s, the_list')
  <2>1. o \in Seq(Elements)
    BY <1>1, OfIs
  <2>2. g \in Seq(Elements)
    BY <1>2
  <2> HIDE DEF g, o
  <2>3. (g \o taken) \o o = g \o (taken \o o)
    <3>1. Associates(g, taken, o)
      BY <1>1, <2>1, <2>2, Associative
    <3> QED
      BY <3>1 DEF Associates
  <2> QED
    BY <1>1, <1>2, <2>3, Zenon DEF g, o
<1>8. Balanced'
  <2> SUFFICES ASSUME NEW t \in Sockets, conn'[t] # "gone"
               PROVE  \E read : Accounts(t, read)'
    BY DEF Balanced
  <2>1. PICK read : Accounts(t, read)
    BY DEF Balanced
  <2>2. given'[t] \o Of(t, the_list') = given[t] \o Of(t, the_list)
    BY <1>1, <1>2, <1>7, Zenon
  <2>3. wire'[t] = wire[t] /\ stream'[t] = stream[t] /\ left'[t] = left[t]
    OBVIOUS
  <2>4. Accounts(t, read)'
    BY <2>1, <2>2, <2>3, Zenon DEF Accounts
  <2> QED
    BY <2>4
<1> QED
  BY <1>1, <1>5, <1>6, <1>8

\* Nothing is taken.
LEMMA ReturnKeeps ==
  ASSUME SmInv, Return, UNCHANGED <<the_list, wire, conn, undefined, stream, given, left>>
  PROVE  SmInv'
<1> USE DEF SmInv
<1>1. SmTypes'
  BY DEF Return, SmTypes
<1>2. GoneIsRead'
  BY DEF GoneIsRead
<1>3. ASSUME NEW t \in Sockets, NEW read, Accounts(t, read)
      PROVE  Accounts(t, read)'
  BY <1>3, Zenon DEF Accounts
<1>4. Balanced'
  BY <1>3 DEF Balanced
<1> QED
  BY <1>1, <1>2, <1>4

LEMMA GetNextKeeps ==
  ASSUME SmInv, NEW s \in Sockets, GetNext(s)
  PROVE  SmInv'
<1>1. CASE Complete(s, the_list) = {}
  BY <1>1, ReturnKeeps DEF GetNext, peerVars
<1>2. CASE Complete(s, the_list) # {}
  <2> DEFINE first == Min(Complete(s, the_list))
  <2>1. PICK i : i = first
    OBVIOUS
  <2>2. the_list \in Seq(Elements) /\ LastIncomplete(the_list)
    BY DEF SmInv, SmTypes
  <2>3. Complete(s, the_list) \subseteq Nat
    BY <2>2 DEF Complete
  <2>4. first \in Complete(s, the_list) /\ \A j \in Complete(s, the_list) : first <= j
    BY <1>2, <2>3, MinIs
  <2> HIDE DEF first
  <2>5. /\ i \in DOMAIN the_list /\ the_list[i].s = s /\ the_list[i] \in Elements
        /\ \A j \in DOMAIN the_list : the_list[j].s = s /\ the_list[j].complete => i <= j
    BY <2>1, <2>2, <2>4 DEF Complete
  <2>6. /\ the_list' = RemoveAt(the_list, i)
        /\ given' = [given EXCEPT ![s] = Append(@, the_list[i])]
    BY <1>2, <2>1 DEF GetNext, first
  <2>7. Takes(the_list, s, <<the_list[i]>>, RemoveAt(the_list, i))
    BY <2>2, <2>5, TakeKeeps
  <2>8. PICK x : x = the_list[i]
    OBVIOUS
  <2>9. x \in Elements /\ <<x>> \in Seq(Elements)
    BY <2>5, <2>8
  <2>10. given' = [given EXCEPT ![s] = @ \o <<x>>]
    <3>1. given[s] \in Seq(Elements)
      BY DEF SmInv, SmTypes
    <3>2. Append(given[s], x) = given[s] \o <<x>>
      <4> DEFINE g == given[s]
      <4> HIDE DEF g
      <4>1. g \in Seq(Elements) /\ x \in Elements
        BY <2>9, <3>1 DEF g
      <4>2. Append(g, x) = g \o <<x>>
        BY ONLY <4>1
      <4> QED
        BY <4>2 DEF g
    <3> QED
      BY <2>6, <2>8, <3>2
  <2>11. /\ reading' = NoSocket /\ call' = "none" /\ undefined' = undefined
         /\ UNCHANGED <<wire, conn, stream, left>>
    BY DEF GetNext, Return, peerVars
  <2>12. undefined' \in BOOLEAN
    BY <2>11 DEF SmInv, SmTypes
  <2>13. Takes(the_list, s, <<x>>, the_list')
    BY <2>6, <2>7, <2>8, Zenon
  <2> QED
    BY <2>10, <2>11, <2>12, <2>13, GiveKeeps
<1> QED
  BY <1>1, <1>2

LEMMA EmptyIncomingKeeps ==
  ASSUME SmInv, NEW s \in Sockets, EmptyIncoming(s)
  PROVE  SmInv'
<1>1. CASE Complete(s, the_list) = {}
  BY <1>1, ReturnKeeps DEF EmptyIncoming, peerVars
<1>2. CASE Complete(s, the_list) # {}
  <2> DEFINE others == {i \in DOMAIN the_list : the_list[i].s # s}
             heads == IF others = {} THEN Len(the_list) ELSE Min(others) - 1
  <2>1. PICK n : n = heads
    OBVIOUS
  <2>2. the_list \in Seq(Elements) /\ LastIncomplete(the_list)
    BY DEF SmInv, SmTypes
  <2>3. n \in 0..Len(the_list) /\ \A i \in 1..n : the_list[i].s = s
    <3>1. CASE others = {}
      BY <2>1, <2>2, <3>1
    <3>2. CASE others # {}
      <4>1. others \subseteq Nat
        BY <2>2
      <4>2. Min(others) \in others /\ \A i \in others : Min(others) <= i
        BY <3>2, <4>1, MinIs
      <4>3. n = Min(others) - 1
        BY <2>1, <3>2
      <4>4. Min(others) \in 1..Len(the_list)
        BY <2>2, <4>2
      <4>5. \A i \in 1..Len(the_list) : i \notin others => the_list[i].s = s
        BY <2>2
      <4> HIDE DEF others
      <4> QED
        BY <4>2, <4>3, <4>4, <4>5
    <3> QED
      BY <3>1, <3>2
  <2>4. PICK taken : taken = SubSeq(the_list, 1, n)
    OBVIOUS
  <2>5. /\ the_list' = SubSeq(the_list, n + 1, Len(the_list))
        /\ given' = [given EXCEPT ![s] = @ \o taken]
    BY <1>2, <2>1, <2>4 DEF EmptyIncoming
  <2>6. /\ undefined' \in BOOLEAN /\ reading' = NoSocket /\ call' = "none"
        /\ UNCHANGED <<wire, conn, stream, left>>
    BY <1>2 DEF EmptyIncoming, Return, peerVars
  <2>7. Takes(the_list, s, SubSeq(the_list, 1, n), SubSeq(the_list, n + 1, Len(the_list)))
    BY <2>2, <2>3, DropHeadKeeps
  <2>8. Takes(the_list, s, taken, the_list')
    BY <2>4, <2>5, <2>7, Zenon
  <2> QED
    BY <2>5, <2>6, <2>8, GiveKeeps
<1> QED
  BY <1>1, <1>2

LEMMA ReconnectKeeps ==
  ASSUME SmInv, NEW s \in Sockets, Reconnect(s)
  PROVE  SmInv'
<1> USE DEF SmInv
<1>1. /\ conn[s] = "gone" /\ conn' = [conn EXCEPT ![s] = "open"]
      /\ stream' = [stream EXCEPT ![s] = <<>>]
      /\ given' = [given EXCEPT ![s] = <<>>]
      /\ left' = [left EXCEPT ![s] = Of(s, the_list)]
      /\ UNCHANGED <<the_list, wire, reading, call, undefined>>
  BY DEF Reconnect
<1>2. Of(s, the_list) \in Seq(Elements) /\ <<>> \in Seq(Elements) /\ <<>> \in Seq(Bytes)
  <2>1. the_list \in Seq(Elements)
    BY DEF SmTypes
  <2> QED
    BY <2>1, OfIs
<1>3. SmTypes'
  BY <1>1, <1>2 DEF SmTypes
<1>4. /\ stream'[s] = <<>> /\ given'[s] = <<>> /\ left'[s] = Of(s, the_list)
      /\ \A t \in Sockets : t # s => /\ stream'[t] = stream[t] /\ given'[t] = given[t]
                                     /\ left'[t] = left[t] /\ conn'[t] = conn[t]
  BY <1>1 DEF SmTypes
<1>5. wire[s] = <<>>
  BY <1>1 DEF GoneIsRead
<1>6. GoneIsRead'
  BY <1>1, <1>4, <1>5 DEF GoneIsRead
<1>7. Accounts(s, <<>>)'
  <2> DEFINE o == Of(s, the_list)
             O == Texts(o)
  <2>1. O \in Seq(Chars)
    BY <1>2, TextsType
  <2>2. o \in Seq(Elements)
    BY <1>2
  <2> HIDE DEF o
  <2>3. <<>> \o o = o
    BY <2>2, Whole
  <2> HIDE DEF O
  <2>4. O \o <<>> = O
    BY <2>1, Whole
  <2>5. <<>> \o <<>> = <<>>
    OBVIOUS
  <2>6. Ends(o, Len(Texts(o)), <<>>)
    BY <2>2, EndsNew
  <2> QED
    BY <1>1, <1>2, <1>4, <1>5, <2>3, <2>4, <2>5, <2>6, TextEmpty, Zenon DEF Accounts, o, O
<1>8. Balanced'
  <2> SUFFICES ASSUME NEW t \in Sockets, conn'[t] # "gone"
               PROVE  \E read : Accounts(t, read)'
    BY DEF Balanced
  <2>1. CASE t = s
    BY <1>7, <2>1
  <2>2. CASE t # s
    <3>1. PICK read : Accounts(t, read)
      BY <1>4, <2>2 DEF Balanced
    <3>2. Accounts(t, read)'
      BY <1>1, <1>4, <2>2, <3>1, Zenon DEF Accounts
    <3> QED
      BY <3>2
  <2> QED
    BY <2>1, <2>2
<1> QED
  BY <1>1, <1>3, <1>6, <1>8 DEF LastIncomplete

\* What changes neither the list nor what was sent and read.
LEMMA OthersKeep ==
  ASSUME SmInv, NEW s \in Sockets,
         \/ PeerClose(s)
         \/ \E op \in {"count", "get", "empty"} : Call(s, op)
         \/ UNCHANGED vars
  PROVE  SmInv'
<1> USE DEF SmInv
<1>1. UNCHANGED <<the_list, wire, undefined, stream, given, left>>
  BY DEF PeerClose, Call, vars, peerVars, ghosts
<1>2. SmTypes'
  BY SmAssumption DEF SmTypes, PeerClose, Call, vars, peerVars, ghosts
<1>3. \A t \in Sockets : conn'[t] = "gone" <=> conn[t] = "gone"
  BY DEF SmTypes, PeerClose, Call, vars, peerVars
<1>4. GoneIsRead'
  BY <1>1, <1>3 DEF GoneIsRead
<1>5. ASSUME NEW t \in Sockets, NEW read, Accounts(t, read)
      PROVE  Accounts(t, read)'
  BY <1>1, <1>5, Zenon DEF Accounts
<1>6. Balanced'
  BY <1>3, <1>5 DEF Balanced
<1> QED
  BY <1>1, <1>2, <1>4, <1>6 DEF LastIncomplete

LEMMA StepKeeps == SmInv /\ [Next]_vars => SmInv'
<1> SUFFICES ASSUME SmInv, [Next]_vars
             PROVE  SmInv'
  OBVIOUS
<1>1. ASSUME NEW s \in Sockets, NEW c \in Messages, PeerSend(s, c)
      PROVE  SmInv'
  BY <1>1, PeerSendKeeps
<1>2. ASSUME NEW s \in Sockets, PeerClose(s)
      PROVE  SmInv'
  BY <1>2, OthersKeep
<1>3. ASSUME NEW s \in Sockets, NEW op \in {"count", "get", "empty"}, Call(s, op)
      PROVE  SmInv'
  BY <1>3, OthersKeep
<1>4. ASSUME NEW s \in Sockets, ReadBytes(s)
      PROVE  SmInv'
  BY <1>4, ReadBytesKeeps
<1>5. ASSUME NEW s \in Sockets, ReadEOF(s)
      PROVE  SmInv'
  BY <1>5, ReadEOFKeeps
<1>6. ASSUME NEW s \in Sockets, Counted(s)
      PROVE  SmInv'
  BY <1>6, ReturnKeeps DEF Counted, peerVars, ghosts
<1>7. ASSUME NEW s \in Sockets, GetNext(s)
      PROVE  SmInv'
  BY <1>7, GetNextKeeps
<1>8. ASSUME NEW s \in Sockets, EmptyIncoming(s)
      PROVE  SmInv'
  BY <1>8, EmptyIncomingKeeps
<1>9. ASSUME NEW s \in Sockets, Reconnect(s)
      PROVE  SmInv'
  BY <1>9, ReconnectKeeps
<1>10. ASSUME UNCHANGED vars
       PROVE  SmInv'
  <2>1. SmTypes' /\ GoneIsRead' /\ LastIncomplete(the_list)'
    BY <1>10 DEF SmInv, SmTypes, GoneIsRead, LastIncomplete, vars, peerVars, ghosts
  <2>2. ASSUME NEW t \in Sockets, NEW read, Accounts(t, read)
        PROVE  Accounts(t, read)'
    <3>1. UNCHANGED <<the_list, wire, stream, given, left>>
      BY <1>10 DEF vars, peerVars, ghosts
    <3> QED
      BY <2>2, <3>1, Zenon DEF Accounts
  <2>3. Balanced'
    BY <1>10, <2>2 DEF SmInv, Balanced, vars, peerVars
  <2> QED
    BY <2>1, <2>3 DEF SmInv
<1> QED
  BY <1>1, <1>2, <1>3, <1>4, <1>5, <1>6, <1>7, <1>8, <1>9, <1>10 DEF Next

LEMMA InvariantHolds == Spec => []SmInv
BY InitKeeps, StepKeeps, PTL DEF Spec

\* What an account gives as read is what was read.
LEMMA ReadIs ==
  ASSUME SmInv, NEW s \in Sockets, NEW read, Accounts(s, read)
  PROVE  /\ ReadSoFar(s) = read
         /\ \A p \in DOMAIN read :
              stream[s][p] = read[p] /\ SubSeq(stream[s], 1, p) = SubSeq(read, 1, p)
<1> DEFINE w == wire[s]
<1>1. w \in Seq(Bytes) /\ read \in Seq(Bytes) /\ stream[s] = read \o w
  BY DEF SmInv, SmTypes, Accounts
<1> HIDE DEF w
<1>2. Len(read \o w) - Len(w) = Len(read) /\ SubSeq(read \o w, 1, Len(read)) = read
  BY ONLY <1>1
<1>3. ReadSoFar(s) = read
  BY <1>1, <1>2, Zenon DEF ReadSoFar, w
<1>4. ASSUME NEW p \in DOMAIN read
      PROVE  (read \o w)[p] = read[p] /\ SubSeq(read \o w, 1, p) = SubSeq(read, 1, p)
  BY <1>1
<1> QED
  BY <1>1, <1>3, <1>4, Zenon

\* Every variable has its type, and no null byte is stored, nor an empty
\* message: for any sockets, messages and sizes of reads.
THEOREM SmTypeCorrect == Spec => []SmTypeOK
<1>1. SmInv => SmTypeOK
  <2> SUFFICES ASSUME SmInv
               PROVE  SmTypeOK
    OBVIOUS
  <2>1. \A i \in DOMAIN the_list : the_list[i] \in Elements
    BY DEF SmInv, SmTypes
  <2>2. \A el \in Elements : /\ el.s \in Sockets /\ el.complete \in BOOLEAN
                             /\ el.message \in Seq(Chars) \ {<<>>}
    BY DEF Elements
  <2>3. (call = "none") = (reading = NoSocket)
    BY DEF SmInv, SmTypes
  <2>4. /\ wire \in [Sockets -> Seq(Bytes)]
        /\ conn \in [Sockets -> {"open", "closed", "gone"}]
        /\ reading \in Sockets \cup {NoSocket}
        /\ call \in {"none", "count", "get", "empty"}
        /\ undefined \in BOOLEAN
    BY DEF SmInv, SmTypes
  <2> QED
    BY <2>1, <2>2, <2>3, <2>4, Zenon DEF SmTypeOK, Bytes
<1> QED
  BY <1>1, InvariantHolds, PTL

\* An incomplete message is the last of its socket, so handle joins the next
\* piece to it and the count may stop there.
THEOREM IncompleteLast == Spec => []IncompleteIsLast
<1>1. SmInv => IncompleteIsLast
  BY DEF SmInv, LastIncomplete, IncompleteIsLast
<1> QED
  BY <1>1, InvariantHolds, PTL

\* However the bytes are cut into reads and the sockets interleave, each byte
\* read is in one message, of its socket, in order.
THEOREM NothingIsLost == Spec => []NothingLost
<1>1. SmInv => NothingLost
  <2> SUFFICES ASSUME SmInv, NEW s \in Sockets, conn[s] # "gone"
               PROVE  Texts(Out(s)) = Texts(left[s]) \o Text(ReadSoFar(s))
    BY DEF NothingLost
  <2>1. PICK read : Accounts(s, read)
    BY DEF SmInv, Balanced
  <2>2. ReadSoFar(s) = read
    BY <2>1, ReadIs
  <2> QED
    BY <2>1, <2>2, Zenon DEF Accounts, Out
<1> QED
  BY <1>1, InvariantHolds, PTL

\* A complete message, given out or in the list, ends where the peer put a null
\* byte: handle never takes the end of a read for the end of a message.
THEOREM CompleteEnded == Spec => []CompleteIsEnded
<1>1. SmInv => CompleteIsEnded
  <2> SUFFICES ASSUME SmInv, NEW s \in Sockets, NEW i \in DOMAIN Out(s),
                      conn[s] # "gone", Out(s)[i].complete,
                      Len(Texts(SubSeq(Out(s), 1, i))) > Len(Texts(left[s]))
               PROVE  \E p \in DOMAIN ReadSoFar(s) :
                        /\ stream[s][p] = NUL
                        /\ Len(Texts(SubSeq(Out(s), 1, i))) - Len(Texts(left[s]))
                             = Len(Text(SubSeq(stream[s], 1, p)))
    BY Zenon DEF CompleteIsEnded
  <2>1. PICK read : Accounts(s, read)
    BY DEF SmInv, Balanced
  <2>2. /\ ReadSoFar(s) = read
        /\ \A p \in DOMAIN read :
             stream[s][p] = read[p] /\ SubSeq(stream[s], 1, p) = SubSeq(read, 1, p)
    BY <2>1, ReadIs
  <2>3. Ends(Out(s), Len(Texts(left[s])), read)
    BY <2>1, Zenon DEF Accounts, Out
  <2>4. PICK p \in DOMAIN read :
          /\ read[p] = NUL
          /\ Len(Texts(SubSeq(Out(s), 1, i))) - Len(Texts(left[s])) = Len(Text(SubSeq(read, 1, p)))
    BY <2>3, Zenon DEF Ends
  <2> QED
    BY <2>2, <2>4, Zenon
<1> QED
  BY <1>1, InvariantHolds, PTL
====
