------------------------------ MODULE SeqFacts ------------------------------
(***************************************************************************)
(* What a queue holds, and how often: facts about membership and about the *)
(* absence of repetitions that the proofs about queues and buffers share;  *)
(* concatenation; and induction.                                           *)
(***************************************************************************)
EXTENDS Naturals, Sequences, WellFoundedInduction, TLAPS

\* e is an element of s.
Has(s, e) == \E k \in 1 .. Len(s) : s[k] = e

\* No element is at two places of s.
Distinct(s) == \A j, k \in 1 .. Len(s) : s[j] = s[k] => j = k

\* The elements of s come in ascending order.
Ascending(s) == \A j, k \in 1 .. Len(s) : j < k => s[j] < s[k]

\* An element of a queue has the type of the queue's elements.
LEMMA HasType ==
    ASSUME NEW S, NEW s \in Seq(S), NEW e, Has(s, e)
    PROVE  e \in S
  BY DEF Has

\* A fresh queue.
LEMMA EmptyHas ==
    /\ \A e : ~Has(<< >>, e)
    /\ Distinct(<< >>)
    /\ \A S : << >> \in Seq(S)
  BY DEF Has, Distinct

\* A queue with one element.
LEMMA SingleHas ==
    ASSUME NEW S, NEW x \in S
    PROVE  /\ <<x>> \in Seq(S)
           /\ \A e : Has(<<x>>, e) <=> e = x
           /\ Distinct(<<x>>)
  <1>1. <<x>> \in Seq(S) /\ Len(<<x>>) = 1 /\ <<x>>[1] = x
    OBVIOUS
  <1>2. \A k : k \in 1 .. 1 <=> k = 1
    OBVIOUS
  <1> QED BY <1>1, <1>2 DEF Has, Distinct

\* An empty queue is the one without elements.
LEMMA EmptyIff ==
    ASSUME NEW S, NEW s \in Seq(S)
    PROVE  s = << >> <=> \A e \in S : ~Has(s, e)
  <1>1. ASSUME s # << >> PROVE \E e \in S : Has(s, e)
    <2>1. 1 \in 1 .. Len(s) /\ s[1] \in S
      BY <1>1
    <2> QED BY <2>1 DEF Has
  <1> QED BY <1>1, EmptyHas

\* Pushing at the end.
LEMMA AppendHas ==
    ASSUME NEW S, NEW s \in Seq(S), NEW x \in S
    PROVE  /\ Append(s, x) \in Seq(S)
           /\ \A e : Has(Append(s, x), e) <=> Has(s, e) \/ e = x
           /\ Distinct(s) /\ ~Has(s, x) => Distinct(Append(s, x))
  <1> DEFINE t == Append(s, x)
             n == Len(s)
  <1>1. /\ t \in Seq(S) /\ n \in Nat /\ Len(t) = n + 1 /\ t[n + 1] = x
        /\ \A k \in 1 .. n : t[k] = s[k]
    OBVIOUS
  <1> HIDE DEF t
  <1>2. /\ \A k \in 1 .. Len(t) : k \in 1 .. n \/ k = n + 1
        /\ \A k \in 1 .. n : k \in 1 .. Len(t)
        /\ n + 1 \in 1 .. Len(t)
    BY <1>1
  <1> HIDE DEF n
  <1>3. ASSUME NEW e PROVE Has(t, e) <=> Has(s, e) \/ e = x
    BY <1>1, <1>2 DEF Has, n
  <1>4. Distinct(s) /\ ~Has(s, x) => Distinct(t)
    BY <1>1, <1>2 DEF Has, Distinct, n
  <1> QED BY <1>1, <1>3, <1>4 DEF t

\* Taking the front.
LEMMA TailHas ==
    ASSUME NEW S, NEW s \in Seq(S), s # << >>
    PROVE  /\ Head(s) \in S /\ Tail(s) \in Seq(S)
           /\ Len(Tail(s)) = Len(s) - 1
           /\ \A e : Has(s, e) <=> Has(Tail(s), e) \/ e = Head(s)
           /\ Distinct(s) => Distinct(Tail(s)) /\ ~Has(Tail(s), Head(s))
  <1> DEFINE t == Tail(s)
             n == Len(s)
             h == Head(s)
  <1>1. /\ h \in S /\ t \in Seq(S) /\ n \in Nat /\ n > 0 /\ Len(t) = n - 1 /\ s[1] = h
        /\ \A k \in 1 .. n - 1 : t[k] = s[k + 1]
    OBVIOUS
  <1> HIDE DEF t, h
  <1>2. /\ \A k \in 1 .. Len(t) : k + 1 \in 1 .. n /\ t[k] = s[k + 1] /\ k + 1 # 1
        /\ \A k \in 1 .. n : k # 1 => k - 1 \in 1 .. Len(t) /\ t[k - 1] = s[k]
        /\ 1 \in 1 .. n
    BY <1>1
  <1>3. \A j, k \in 1 .. Len(t) : j + 1 = k + 1 => j = k
    BY <1>1
  <1> HIDE DEF n
  <1>4. ASSUME NEW e PROVE Has(s, e) <=> Has(t, e) \/ e = h
    <2>1. Has(t, e) \/ e = h => Has(s, e)
      BY <1>1, <1>2 DEF Has, n
    <2>2. Has(s, e) => Has(t, e) \/ e = h
      BY <1>1, <1>2 DEF Has, n
    <2> QED BY <2>1, <2>2
  <1>5. Distinct(s) => Distinct(t)
    BY <1>2, <1>3 DEF Distinct, n
  <1>6. Distinct(s) => ~Has(t, h)
    BY <1>1, <1>2 DEF Distinct, Has, n
  <1> QED BY <1>1, <1>4, <1>5, <1>6 DEF t, h, n

\* One queue after another.
LEMMA ConcatHas ==
    ASSUME NEW S, NEW s \in Seq(S), NEW t \in Seq(S)
    PROVE  /\ s \o t \in Seq(S)
           /\ \A e : Has(s \o t, e) <=> Has(s, e) \/ Has(t, e)
           /\ Distinct(s \o t) <=>
                Distinct(s) /\ Distinct(t) /\ \A e \in S : ~(Has(s, e) /\ Has(t, e))
  <1> DEFINE u == s \o t
             m == Len(s)
             n == Len(t)
  <1>1. /\ u \in Seq(S) /\ m \in Nat /\ n \in Nat /\ Len(u) = m + n
        /\ \A k \in 1 .. m : u[k] = s[k]
        /\ \A k \in 1 .. n : u[m + k] = t[k]
    OBVIOUS
  <1> HIDE DEF u
  <1>2. /\ \A k \in 1 .. Len(u) : k \in 1 .. m \/ (k - m \in 1 .. n /\ k = m + (k - m))
        /\ \A k \in 1 .. m : k \in 1 .. Len(u)
        /\ \A k \in 1 .. n : m + k \in 1 .. Len(u)
        /\ \A j \in 1 .. m, k \in 1 .. n : j # m + k
        /\ \A j, k \in 1 .. n : m + j = m + k => j = k
    BY <1>1
  <1> HIDE DEF m, n
  <1>3. ASSUME NEW e PROVE Has(u, e) <=> Has(s, e) \/ Has(t, e)
    <2>1. Has(s, e) => Has(u, e)
      BY <1>1, <1>2 DEF Has, m
    <2>2. Has(t, e) => Has(u, e)
      BY <1>1, <1>2 DEF Has, n
    <2>3. ASSUME Has(u, e) PROVE Has(s, e) \/ Has(t, e)
      <3>1. PICK k \in 1 .. Len(u) : u[k] = e
        BY <2>3 DEF Has
      <3>2. CASE k \in 1 .. m
        BY <1>1, <3>1, <3>2 DEF Has, m
      <3>3. CASE k - m \in 1 .. n /\ k = m + (k - m)
        BY <1>1, <3>1, <3>3 DEF Has, n
      <3> QED BY <1>2, <3>2, <3>3
    <2> QED BY <2>1, <2>2, <2>3
  <1>4. ASSUME Distinct(u)
        PROVE  Distinct(s) /\ Distinct(t) /\ \A e \in S : ~(Has(s, e) /\ Has(t, e))
    <2>1. Distinct(s)
      BY <1>1, <1>2, <1>4 DEF Distinct, m
    <2>2. Distinct(t)
      BY <1>1, <1>2, <1>4 DEF Distinct, n
    <2>3. \A e \in S : ~(Has(s, e) /\ Has(t, e))
      BY <1>1, <1>2, <1>4 DEF Distinct, Has, m, n
    <2> QED BY <2>1, <2>2, <2>3
  <1>5. ASSUME Distinct(s), Distinct(t), \A e \in S : ~(Has(s, e) /\ Has(t, e))
        PROVE  Distinct(u)
    <2> SUFFICES ASSUME NEW j \in 1 .. Len(u), NEW k \in 1 .. Len(u), u[j] = u[k]
                 PROVE  j = k
      BY DEF Distinct
    <2>1. ASSUME NEW a \in 1 .. m, NEW b \in 1 .. n PROVE s[a] # t[b]
      <3>1. s[a] \in S
        BY DEF m
      <3> QED BY <1>5, <3>1 DEF Has, m, n
    <2>2. CASE j \in 1 .. m /\ k \in 1 .. m
      BY <1>1, <1>5, <2>2 DEF Distinct, m
    <2>3. CASE j - m \in 1 .. n /\ j = m + (j - m) /\ k - m \in 1 .. n /\ k = m + (k - m)
      <3>1. u[j] = t[j - m] /\ u[k] = t[k - m]
        BY <1>1, <2>3
      <3>2. j - m = k - m
        BY <1>5, <2>3, <3>1 DEF Distinct, n
      <3> QED BY <2>3, <3>2
    <2>4. CASE j \in 1 .. m /\ k - m \in 1 .. n /\ k = m + (k - m)
      <3>1. u[j] = s[j] /\ u[k] = t[k - m]
        BY <1>1, <2>4
      <3> QED BY <2>1, <2>4, <3>1
    <2>5. CASE k \in 1 .. m /\ j - m \in 1 .. n /\ j = m + (j - m)
      <3>1. u[k] = s[k] /\ u[j] = t[j - m]
        BY <1>1, <2>5
      <3> QED BY <2>1, <2>5, <3>1
    <2> QED BY <1>2, <2>2, <2>3, <2>4, <2>5
  <1> QED BY <1>1, <1>3, <1>4, <1>5 DEF u

\* A queue stays in order when something larger is pushed, or the front taken.
LEMMA AscendingSteps ==
    ASSUME NEW S \in SUBSET Nat, NEW s \in Seq(S), Ascending(s)
    PROVE  /\ \A x \in S : (\A e \in S : Has(s, e) => e < x) => Ascending(Append(s, x))
           /\ s # << >> => /\ Ascending(Tail(s))
                           /\ \A e \in S : Has(Tail(s), e) => Head(s) < e
  <1>1. ASSUME NEW x \in S, \A e \in S : Has(s, e) => e < x
        PROVE  Ascending(Append(s, x))
    <2> DEFINE t == Append(s, x)
               n == Len(s)
    <2>1. /\ n \in Nat /\ Len(t) = n + 1 /\ t[n + 1] = x
          /\ \A k \in 1 .. n : t[k] = s[k] /\ s[k] \in S
      OBVIOUS
    <2> HIDE DEF t
    <2>2. \A k \in 1 .. n : s[k] < x
      BY <1>1, <2>1 DEF Has
    <2> SUFFICES ASSUME NEW j \in 1 .. Len(t), NEW k \in 1 .. Len(t), j < k
                 PROVE  t[j] < t[k]
      BY DEF Ascending, t
    <2>3. j \in 1 .. n
      BY <2>1
    <2>4. CASE k \in 1 .. n
      BY <2>1, <2>3, <2>4 DEF Ascending
    <2>5. CASE k = n + 1
      BY <2>1, <2>2, <2>3, <2>5
    <2> QED BY <2>1, <2>4, <2>5
  <1>2. ASSUME s # << >>
        PROVE  Ascending(Tail(s)) /\ \A e \in S : Has(Tail(s), e) => Head(s) < e
    <2> DEFINE t == Tail(s)
               n == Len(s)
    <2>1. /\ n \in Nat /\ n > 0 /\ Len(t) = n - 1 /\ s[1] = Head(s)
          /\ \A k \in 1 .. n - 1 : t[k] = s[k + 1] /\ k + 1 \in 1 .. n
      BY <1>2
    <2> HIDE DEF t
    <2>2. Ascending(t)
      BY <2>1 DEF Ascending
    <2>3. ASSUME NEW e \in S, Has(t, e) PROVE Head(s) < e
      <3>1. PICK k \in 1 .. Len(t) : t[k] = e
        BY <2>3 DEF Has
      <3>2. e = s[k + 1] /\ k + 1 \in 1 .. n /\ 1 \in 1 .. n /\ 1 < k + 1
        BY <2>1, <3>1
      <3> QED BY <2>1, <3>2 DEF Ascending
    <2> QED BY <2>2, <2>3 DEF t
  <1> QED BY <1>1, <1>2
\* What a concatenation is, element by element.
LEMMA ConcatFacts ==
    ASSUME NEW S, NEW a \in Seq(S), NEW b \in Seq(S)
    PROVE  /\ a \o b \in Seq(S) /\ Len(a) \in Nat /\ Len(b) \in Nat /\ Len(a \o b) = Len(a) + Len(b)
           /\ \A k \in 1 .. Len(a) : (a \o b)[k] = a[k]
           /\ \A k \in 1 .. Len(b) : (a \o b)[Len(a) + k] = b[k]
           /\ a \o << >> = a /\ << >> \o b = b
  OBVIOUS

\* Two sequences with the same elements.
LEMMA SameSeq ==
    ASSUME NEW S, NEW a \in Seq(S), NEW b \in Seq(S), Len(a) = Len(b),
           \A k \in 1 .. Len(a) : a[k] = b[k]
    PROVE  a = b
  OBVIOUS

\* A part of a sequence, element by element.
LEMMA SubSeqFacts ==
    ASSUME NEW S, NEW s \in Seq(S), NEW m \in Nat \ {0}, NEW n \in Nat, n <= Len(s)
    PROVE  /\ SubSeq(s, m, n) \in Seq(S)
           /\ Len(SubSeq(s, m, n)) = IF m <= n THEN n - m + 1 ELSE 0
           /\ \A k \in 1 .. n - m + 1 : SubSeq(s, m, n)[k] = s[m + k - 1]
  OBVIOUS

\* Concatenation is associative.
LEMMA ConcatAssoc ==
    ASSUME NEW S, NEW a \in Seq(S), NEW b \in Seq(S), NEW c \in Seq(S)
    PROVE  a \o (b \o c) = (a \o b) \o c
  <1> DEFINE ab == a \o b
             bc == b \o c
             x == a \o bc
             y == ab \o c
             i == Len(a)
             j == Len(b)
             k == Len(c)
  <1>1. /\ ab \in Seq(S) /\ i \in Nat /\ j \in Nat /\ Len(ab) = i + j
        /\ \A e \in 1 .. i : ab[e] = a[e]
        /\ \A e \in 1 .. j : ab[i + e] = b[e]
    BY ConcatFacts
  <1>2. /\ bc \in Seq(S) /\ k \in Nat /\ Len(bc) = j + k
        /\ \A e \in 1 .. j : bc[e] = b[e]
        /\ \A e \in 1 .. k : bc[j + e] = c[e]
    BY ConcatFacts
  <1> HIDE DEF ab, bc
  <1>3. /\ x \in Seq(S) /\ Len(x) = i + Len(bc)
        /\ \A e \in 1 .. i : x[e] = a[e]
        /\ \A e \in 1 .. Len(bc) : x[i + e] = bc[e]
    <2>1. bc \in Seq(S)
      BY <1>2
    <2> QED BY ONLY a \in Seq(S), <2>1, ConcatFacts
  <1>4. /\ y \in Seq(S) /\ Len(y) = Len(ab) + k
        /\ \A e \in 1 .. Len(ab) : y[e] = ab[e]
        /\ \A e \in 1 .. k : y[Len(ab) + e] = c[e]
    <2>1. ab \in Seq(S)
      BY <1>1
    <2> QED BY ONLY c \in Seq(S), <2>1, ConcatFacts
  <1> HIDE DEF x, y, i, j, k
  <1>5. Len(x) = i + (j + k) /\ Len(y) = i + (j + k) /\ i + (j + k) \in Nat
    BY <1>1, <1>2, <1>3, <1>4
  <1>6. ASSUME NEW e \in 1 .. i + (j + k) PROVE x[e] = y[e]
    <2>1. CASE e \in 1 .. i
      <3>1. e \in 1 .. Len(ab)
        BY <1>1, <2>1
      <3> QED BY <1>1, <1>3, <1>4, <2>1, <3>1
    <2>2. CASE e - i \in 1 .. j
      <3>1. e \in 1 .. Len(ab) /\ e - i \in 1 .. Len(bc) /\ i + (e - i) = e
        BY <1>1, <1>2, <2>2
      <3>2. x[e] = bc[e - i] /\ bc[e - i] = b[e - i]
        BY <1>2, <1>3, <2>2, <3>1
      <3>3. y[e] = ab[e] /\ ab[e] = b[e - i]
        BY <1>1, <1>4, <2>2, <3>1
      <3> QED BY <3>2, <3>3
    <2>3. CASE ~(e \in 1 .. i) /\ ~(e - i \in 1 .. j)
      <3>1. /\ e - i \in 1 .. Len(bc) /\ i + (e - i) = e /\ (e - i) - j \in 1 .. k
            /\ j + ((e - i) - j) = e - i /\ Len(ab) + ((e - i) - j) = e
        BY <1>1, <1>2, <2>3
      <3>2. x[e] = bc[e - i] /\ bc[e - i] = c[(e - i) - j]
        BY <1>2, <1>3, <3>1
      <3>3. y[e] = c[(e - i) - j]
        BY <1>4, <3>1
      <3> QED BY <3>2, <3>3
    <2> QED BY <2>1, <2>2, <2>3
  <1>7. x = y
    BY <1>3, <1>4, <1>5, <1>6, SameSeq
  <1> QED BY <1>7 DEF x, y, ab, bc

-----------------------------------------------------------------------------
(***************************************************************************)
(* Induction.  A set that contains 0 and the successor of each of its      *)
(* elements is Nat: a proof by induction puts the numbers its claim holds  *)
(* for into such a set.                                                    *)
(***************************************************************************)
\* The relation that NatLessThanWellFounded is about.
LEMMA SmallerPairs == \A i, j \in Nat : i < j => <<i, j>> \in OpToRel(<, Nat)
  BY DEF OpToRel

\* Induction over the natural numbers.
LEMMA SetInduction ==
    ASSUME NEW T \in SUBSET Nat, 0 \in T, \A n \in T : n + 1 \in T
    PROVE  T = Nat
  <1> SUFFICES ASSUME Nat \ T # {} PROVE FALSE
    OBVIOUS
  <1> DEFINE R == OpToRel(<, Nat)
  <1>1. IsWellFoundedOn(R, Nat)
    BY NatLessThanWellFounded
  <1>2. \A i, j \in Nat : i < j => <<i, j>> \in R
    BY SmallerPairs
  <1> HIDE DEF R
  <1>3. PICK x \in Nat \ T : \A y \in Nat \ T : ~(<<y, x>> \in R)
    BY <1>1, WFMin
  <1>4. x - 1 \in Nat /\ x - 1 < x
    OBVIOUS
  <1>5. x - 1 \in T
    BY <1>2, <1>3, <1>4
  <1>6. (x - 1) + 1 \in T
    BY <1>5
  <1> QED BY <1>4, <1>6

\* A set of natural numbers has a least one.
LEMMA LeastNat ==
    ASSUME NEW T \in SUBSET Nat, T # {}
    PROVE  \E x \in T : \A y \in T : x <= y
  <1> DEFINE R == OpToRel(<, Nat)
  <1>1. IsWellFoundedOn(R, Nat)
    BY NatLessThanWellFounded
  <1>2. \A i, j \in Nat : i < j => <<i, j>> \in R
    BY SmallerPairs
  <1> HIDE DEF R
  <1>3. PICK x \in T : \A y \in T : ~(<<y, x>> \in R)
    BY <1>1, WFMin
  <1>4. \A y \in T : ~(y < x)
    BY <1>2, <1>3
  <1>5. \A y \in T : x <= y
    BY <1>4
  <1> QED BY <1>5

\* The states st of n steps: the first is x, and f[i] takes one to the i-th.
Steps(st, D, x, f, n) ==
    /\ st \in [0 .. n -> D]
    /\ st[0] = x
    /\ \A i \in 1 .. n : st[i] = f[i][st[i - 1]]

\* Such states exist, so that a function defined by recursion is what its
\* definition says.
LEMMA Recursion ==
    ASSUME NEW D, NEW x \in D, NEW f \in [Nat -> [D -> D]]
    PROVE  \A n \in Nat : \E st : Steps(st, D, x, f, n)
  <1> DEFINE Is(st, n) == /\ st \in [0 .. n -> D]
                          /\ st[0] = x /\ \A i \in 1 .. n : st[i] = f[i][st[i - 1]]
             T == {n \in Nat : \E st : Is(st, n)}
  <1>1. 0 \in T
    <2> DEFINE st == [i \in 0 .. 0 |-> x]
    <2>1. st \in [0 .. 0 -> D] /\ st[0] = x /\ \A i \in 1 .. 0 : FALSE
      OBVIOUS
    <2> QED BY <2>1
  <1>2. ASSUME NEW n \in T PROVE n + 1 \in T
    <2>1. PICK st : Is(st, n)
      OBVIOUS
    <2>2. n \in Nat
      OBVIOUS
    <2> DEFINE y == f[n + 1][st[n]]
               next == [i \in 0 .. n + 1 |-> IF i = n + 1 THEN y ELSE st[i]]
    <2>3. n \in 0 .. n /\ n + 1 \in Nat
      BY <2>2
    <2>4. y \in D
      BY <2>1, <2>3
    <2> HIDE DEF y
    <2>5. \A i \in 0 .. n + 1 : i = n + 1 \/ i \in 0 .. n
      BY <2>2
    <2>6. next \in [0 .. n + 1 -> D]
      BY <2>1, <2>4, <2>5
    <2>7. /\ next[n + 1] = y
          /\ \A i \in 0 .. n : next[i] = st[i]
      BY <2>2
    <2> HIDE DEF next
    <2>8. next[0] = x
      BY <2>1, <2>2, <2>7
    <2>9. ASSUME NEW i \in 1 .. n + 1 PROVE next[i] = f[i][next[i - 1]]
      <3>1. CASE i = n + 1
        <4>1. i - 1 = n
          BY <2>2, <3>1
        <4> QED BY <2>3, <2>7, <3>1, <4>1 DEF y
      <3>2. CASE i # n + 1
        <4>1. i \in 1 .. n /\ i \in 0 .. n /\ i - 1 \in 0 .. n
          BY <2>2, <3>2
        <4> QED BY <2>1, <2>7, <4>1
      <3> QED BY <3>1, <3>2
    <2>10. Is(next, n + 1)
      BY <2>6, <2>8, <2>9
    <2> QED BY <2>3, <2>10
  <1> HIDE DEF T
  <1>3. T = Nat
    <2>1. T \in SUBSET Nat
      BY DEF T
    <2> QED BY <1>1, <1>2, <2>1, SetInduction
  <1> QED BY <1>3 DEF T, Steps
=============================================================================
