---------------------------- MODULE Lists_proofs -----------------------------
(***************************************************************************)
(* What Filter returns, for every sequence: the facts that the proofs      *)
(* about queues and lists cite.                                            *)
(***************************************************************************)
EXTENDS Lists, SequencesExt, NaturalsInduction, WellFoundedInduction, TLAPS

\* f is the function that Walk defines, up to m.
IsWalk(f, s, T, m) ==
  f = [n \in 0..m |->
         IF n = 0 THEN <<>> ELSE IF s[n] \in T THEN Append(f[n-1], s[n]) ELSE f[n-1]]

\* Induction over the natural numbers, for a set.
LEMMA SetInduction ==
  ASSUME NEW P, 0 \in P, \A n \in Nat : n \in P => n + 1 \in P
  PROVE  Nat \subseteq P
<1> DEFINE B == Nat \ P
           R == OpToRel(<, Nat)
<1> SUFFICES ASSUME B # {} PROVE FALSE
  OBVIOUS
<1>1. PICK x \in B : \A y \in B : ~(<<y, x>> \in R)
  <2>1. IsWellFoundedOn(R, Nat)
    BY NatLessThanWellFounded DEF R
  <2>2. B \subseteq Nat
    OBVIOUS
  <2> HIDE DEF B, R
  <2> QED BY <2>1, <2>2, WFMin
<1>2. x \in Nat /\ x # 0 /\ x - 1 \in Nat /\ x - 1 < x /\ (x - 1) + 1 = x
  OBVIOUS
<1>3. x - 1 \in B
  BY <1>2
<1>4. <<x - 1, x>> \in R
  BY <1>2 DEF OpToRel
<1> QED BY <1>1, <1>3, <1>4

\* The recursion defines a function.
LEMMA WalkExists ==
  ASSUME NEW S, NEW s \in Seq(S), NEW T
  PROVE  IsWalk(Walk(s, T), s, T, Len(s))
<1> DEFINE P == {m \in Nat : m <= Len(s) => \E f : IsWalk(f, s, T, m)}
<1>1. 0 \in P
  <2>1. IsWalk([n \in 0..0 |-> <<>>], s, T, 0)
    BY DEF IsWalk
  <2> QED BY <2>1
<1>2. ASSUME NEW m \in Nat, m \in P PROVE m + 1 \in P
  <2> SUFFICES ASSUME m + 1 <= Len(s) PROVE \E f : IsWalk(f, s, T, m + 1)
    OBVIOUS
  <2>1. PICK f : IsWalk(f, s, T, m)
    BY <1>2
  <2> DEFINE g == [n \in 0..(m+1) |->
                     IF n <= m THEN f[n] ELSE IF s[n] \in T THEN Append(f[n-1], s[n]) ELSE f[n-1]]
  <2>2. \A n \in 0..m : f[n] = IF n = 0 THEN <<>> ELSE IF s[n] \in T THEN Append(f[n-1], s[n]) ELSE f[n-1]
    BY <2>1 DEF IsWalk
  <2>3. \A n \in 0..(m+1) : g[n] = IF n = 0 THEN <<>> ELSE IF s[n] \in T THEN Append(g[n-1], s[n]) ELSE g[n-1]
    <3> SUFFICES ASSUME NEW n \in 0..(m+1)
                 PROVE g[n] = IF n = 0 THEN <<>> ELSE IF s[n] \in T THEN Append(g[n-1], s[n]) ELSE g[n-1]
      OBVIOUS
    <3>1. n # 0 => n - 1 \in 0..m /\ g[n-1] = f[n-1]
      OBVIOUS
    <3>2. CASE n = m + 1
      BY <3>1, <3>2
    <3>3. CASE n \in 0..m
      BY <3>1, <3>3, <2>2
    <3> QED BY <3>2, <3>3
  <2>4. IsWalk(g, s, T, m + 1)
    <3>1. g = [n \in 0..(m+1) |-> g[n]]
      OBVIOUS
    <3> HIDE DEF g
    <3> QED BY <3>1, <2>3 DEF IsWalk
  <2> QED BY <2>4
<1>3. Nat \subseteq P
  <2> HIDE DEF P
  <2> QED BY <1>1, <1>2, SetInduction
<1>4. Len(s) \in P
  BY <1>3
<1>5. \E f : IsWalk(f, s, T, Len(s))
  BY <1>4
<1> QED BY <1>5 DEF Walk, IsWalk

\* A filter keeps the elements of T, each as often as it is there, and their order.
LEMMA FilterFacts ==
  ASSUME NEW S, NEW s \in Seq(S), NEW T
  PROVE  /\ Filter(s, T) \in Seq(S) /\ Len(Filter(s, T)) \in Nat
         /\ \A i \in 1..Len(Filter(s, T)) : Filter(s, T)[i] \in T /\ \E a \in 1..Len(s) : s[a] = Filter(s, T)[i]
         /\ \A a \in 1..Len(s) : s[a] \in T => \E i \in 1..Len(Filter(s, T)) : Filter(s, T)[i] = s[a]
         /\ \A i, j \in 1..Len(Filter(s, T)) : i < j =>
              \E a, b \in 1..Len(s) : a < b /\ s[a] = Filter(s, T)[i] /\ s[b] = Filter(s, T)[j]
<1> DEFINE f == Walk(s, T)
           Good(n) == /\ f[n] \in Seq(S)
                      /\ \A i \in 1..Len(f[n]) : f[n][i] \in T /\ \E a \in 1..n : s[a] = f[n][i]
                      /\ \A a \in 1..n : s[a] \in T => \E i \in 1..Len(f[n]) : f[n][i] = s[a]
                      /\ \A i, j \in 1..Len(f[n]) : i < j =>
                           \E a, b \in 1..n : a < b /\ s[a] = f[n][i] /\ s[b] = f[n][j]
           P == {n \in Nat : n <= Len(s) => Good(n)}
<1>0. IsWalk(f, s, T, Len(s)) /\ Len(s) \in Nat
  BY WalkExists
<1> HIDE DEF f
<1>1. \A n \in 0..Len(s) : f[n] = IF n = 0 THEN <<>> ELSE IF s[n] \in T THEN Append(f[n-1], s[n]) ELSE f[n-1]
  BY <1>0 DEF IsWalk
<1>2. 0 \in P
  <2>1. f[0] = <<>> /\ 1..0 = {} /\ Len(<<>>) = 0 /\ <<>> \in Seq(S)
    BY <1>0, <1>1
  <2>2. Good(0)
    BY <2>1
  <2> QED BY <2>2
<1>3. ASSUME NEW n \in Nat, n \in P PROVE n + 1 \in P
  <2> SUFFICES ASSUME n + 1 <= Len(s) PROVE Good(n + 1)
    <3> HIDE DEF Good
    <3> QED OBVIOUS
  <2>1. Good(n)
    <3> HIDE DEF Good
    <3> QED BY <1>0, <1>3
  <2>2. f[n+1] = IF s[n+1] \in T THEN Append(f[n], s[n+1]) ELSE f[n]
    <3>1. n + 1 \in 0..Len(s) /\ n + 1 # 0 /\ (n + 1) - 1 = n
      OBVIOUS
    <3> QED BY <3>1, <1>1
  <2> DEFINE x == f[n]  y == f[n+1]
  <2>3. /\ x \in Seq(S) /\ Len(x) \in Nat /\ s[n+1] \in S /\ n + 1 \in 1..(n+1)
        /\ \A a \in 1..n : a \in 1..(n+1) /\ a < n + 1
        /\ \A a \in 1..(n+1) : a \in 1..n \/ a = n + 1
    BY <2>1
  <2> HIDE DEF f
  <2>4. CASE s[n+1] \notin T
    <3>1. y = x
      BY <2>2, <2>4
    <3> QED BY <3>1, <2>1, <2>3, <2>4
  <2>5. CASE s[n+1] \in T
    <3>1. /\ y \in Seq(S) /\ Len(y) = Len(x) + 1 /\ y[Len(x) + 1] = s[n+1]
          /\ \A i \in 1..Len(x) : y[i] = x[i] /\ i \in 1..Len(y)
          /\ \A i \in 1..Len(y) : i \in 1..Len(x) \/ i = Len(x) + 1
          /\ Len(x) + 1 \in 1..Len(y)
      BY <2>2, <2>3, <2>5
    <3>2. /\ \A i \in 1..Len(x) : x[i] \in T /\ \E a \in 1..n : s[a] = x[i]
          /\ \A a \in 1..n : s[a] \in T => \E i \in 1..Len(x) : x[i] = s[a]
          /\ \A i, j \in 1..Len(x) : i < j => \E a, b \in 1..n : a < b /\ s[a] = x[i] /\ s[b] = x[j]
      BY <2>1
    <3> HIDE DEF x, y
    <3>3. \A i \in 1..Len(y) : y[i] \in T /\ \E a \in 1..(n+1) : s[a] = y[i]
      <4> SUFFICES ASSUME NEW i \in 1..Len(y) PROVE y[i] \in T /\ \E a \in 1..(n+1) : s[a] = y[i]
        OBVIOUS
      <4>1. CASE i \in 1..Len(x)
        <5>1. PICK a \in 1..n : s[a] = x[i]
          BY <4>1, <3>2
        <5> QED BY <5>1, <4>1, <3>1, <3>2, <2>3
      <4>2. CASE i = Len(x) + 1
        BY <4>2, <3>1, <2>3, <2>5
      <4> QED BY <4>1, <4>2, <3>1
    <3>4. \A a \in 1..(n+1) : s[a] \in T => \E i \in 1..Len(y) : y[i] = s[a]
      BY <3>1, <3>2, <2>3
    <3>5. ASSUME NEW i \in 1..Len(y), NEW j \in 1..Len(y), i < j
          PROVE  \E a, b \in 1..(n+1) : a < b /\ s[a] = y[i] /\ s[b] = y[j]
      <4>1. i \in 1..Len(x) /\ (j \in 1..Len(x) \/ j = Len(x) + 1)
        BY <3>1, <3>5, <2>3
      <4>2. CASE j \in 1..Len(x)
        <5>1. PICK a, b \in 1..n : a < b /\ s[a] = x[i] /\ s[b] = x[j]
          BY <4>1, <4>2, <3>2, <3>5
        <5> QED BY <5>1, <4>1, <4>2, <3>1, <2>3
      <4>3. CASE j = Len(x) + 1
        <5>1. PICK a \in 1..n : s[a] = x[i]
          BY <4>1, <3>2
        <5> QED BY <5>1, <4>1, <4>3, <3>1, <2>3
      <4> QED BY <4>1, <4>2, <4>3
    <3> QED BY <3>1, <3>3, <3>4, <3>5 DEF y
  <2> QED BY <2>4, <2>5
<1>4. Nat \subseteq P
  <2> HIDE DEF P
  <2> QED BY <1>2, <1>3, SetInduction
<1>5. Len(s) \in P
  <2> HIDE DEF P
  <2> QED BY <1>0, <1>4
<1>6. Good(Len(s))
  <2> HIDE DEF Good
  <2> QED BY <1>5, <1>0
<1>7. Len(f[Len(s)]) \in Nat
  BY <1>6
<1> QED BY <1>6, <1>7 DEF Filter, f

-----------------------------------------------------------------------------
(* What a list holds, and in which order.                                  *)

Has(s, x) == \E i \in 1..Len(s) : s[i] = x
Precedes(s, a, b) == \E i, j \in 1..Len(s) : i < j /\ s[i] = a /\ s[j] = b
Distinct(s) == \A i, j \in 1..Len(s) : s[i] = s[j] => i = j

\* The empty list.
LEMMA EmptyList == (\A x : ~Has(<<>>, x)) /\ (\A a, b : ~Precedes(<<>>, a, b)) /\ Distinct(<<>>)
  BY DEF Has, Precedes, Distinct

\* A list of one element.
LEMMA OneList ==
  ASSUME NEW e
  PROVE  (\A x : Has(<<e>>, x) <=> x = e) /\ (\A a, b : ~Precedes(<<e>>, a, b)) /\ Distinct(<<e>>)
<1>1. Len(<<e>>) = 1 /\ <<e>>[1] = e /\ \A i \in 1..1 : i = 1
  OBVIOUS
<1> QED BY <1>1 DEF Has, Precedes, Distinct

\* What a list holds is in the set it is over.
LEMMA HasType ==
  ASSUME NEW S, NEW s \in Seq(S)
  PROVE  /\ \A x : Has(s, x) => x \in S
         /\ \A a, b : Precedes(s, a, b) => Has(s, a) /\ Has(s, b)
         /\ (\A x : ~Has(s, x)) => s = <<>>
<1>1. \A x : Has(s, x) => x \in S
  BY DEF Has
<1>2. \A a, b : Precedes(s, a, b) => Has(s, a) /\ Has(s, b)
  BY DEF Has, Precedes
<1>3. s # <<>> => 1 \in 1..Len(s)
  OBVIOUS
<1>4. s # <<>> => Has(s, s[1])
  BY <1>3 DEF Has
<1> QED BY <1>1, <1>2, <1>4

\* The first element is taken.
LEMMA TailList ==
  ASSUME NEW S, NEW s \in Seq(S), s # <<>>
  PROVE  /\ Tail(s) \in Seq(S) /\ Head(s) \in S /\ Has(s, Head(s))
         /\ \A x : Has(s, x) => x = Head(s) \/ (Has(Tail(s), x) /\ Precedes(s, Head(s), x))
         /\ \A x : Has(Tail(s), x) => Has(s, x)
         /\ \A a, b : Precedes(Tail(s), a, b) => Precedes(s, a, b)
         /\ Distinct(s) => Distinct(Tail(s)) /\ ~Has(Tail(s), Head(s))
<1> DEFINE t == Tail(s)
<1>1. /\ t \in Seq(S) /\ Len(s) \in Nat /\ Len(s) >= 1 /\ Len(t) = Len(s) - 1 /\ Head(s) = s[1]
      /\ \A i \in 1..Len(t) : t[i] = s[i+1] /\ i + 1 \in 1..Len(s) /\ i + 1 # 1
      /\ 1 \in 1..Len(s) /\ s[1] \in S
      /\ \A i \in 1..Len(s) : i = 1 \/ (i - 1 \in 1..Len(t) /\ t[i-1] = s[i] /\ 1 < i)
  OBVIOUS
<1>2. \A i, j \in 1..Len(t) : (i < j => i + 1 < j + 1) /\ (i + 1 = j + 1 => i = j)
  BY <1>1
<1> HIDE DEF t
<1>3. \A x : Has(s, x) => x = Head(s) \/ (Has(t, x) /\ Precedes(s, Head(s), x))
  BY <1>1 DEF Has, Precedes
<1>4. \A x : Has(t, x) => Has(s, x)
  BY <1>1 DEF Has
<1>5. \A a, b : Precedes(t, a, b) => Precedes(s, a, b)
  BY <1>1, <1>2 DEF Precedes
<1>6. Distinct(s) => Distinct(t) /\ ~Has(t, Head(s))
  <2> SUFFICES ASSUME Distinct(s) PROVE Distinct(t) /\ ~Has(t, Head(s))
    OBVIOUS
  <2>1. Distinct(t)
    BY <1>1, <1>2 DEF Distinct
  <2>2. \A i \in 1..Len(t) : t[i] # Head(s)
    BY <1>1 DEF Distinct
  <2> QED BY <2>1, <2>2 DEF Has
<1>7. Has(s, Head(s)) /\ Head(s) \in S
  BY <1>1 DEF Has
<1> QED BY <1>1, <1>3, <1>4, <1>5, <1>6, <1>7 DEF t

\* An element is put at the end.
LEMMA AppendList ==
  ASSUME NEW S, NEW s \in Seq(S), NEW e \in S
  PROVE  /\ Append(s, e) \in Seq(S)
         /\ \A x : Has(Append(s, e), x) <=> Has(s, x) \/ x = e
         /\ \A a, b : Precedes(Append(s, e), a, b) => Precedes(s, a, b) \/ (Has(s, a) /\ b = e)
         /\ Distinct(s) /\ ~Has(s, e) => Distinct(Append(s, e))
<1> DEFINE t == Append(s, e)
<1>1. /\ t \in Seq(S) /\ Len(s) \in Nat /\ Len(t) = Len(s) + 1 /\ t[Len(s) + 1] = e
      /\ \A i \in 1..Len(s) : t[i] = s[i] /\ i \in 1..Len(t)
      /\ Len(s) + 1 \in 1..Len(t)
      /\ \A i \in 1..Len(t) : i \in 1..Len(s) \/ i = Len(s) + 1
  OBVIOUS
<1> HIDE DEF t
<1>2. \A x : Has(t, x) <=> Has(s, x) \/ x = e
  BY <1>1 DEF Has
<1>3. \A a, b : Precedes(t, a, b) => Precedes(s, a, b) \/ (Has(s, a) /\ b = e)
  <2> SUFFICES ASSUME NEW a, NEW b, NEW i \in 1..Len(t), NEW j \in 1..Len(t), i < j, t[i] = a, t[j] = b
               PROVE  Precedes(s, a, b) \/ (Has(s, a) /\ b = e)
    BY DEF Precedes
  <2>1. i \in 1..Len(s)
    BY <1>1
  <2> QED BY <1>1, <2>1 DEF Has, Precedes
<1>4. Distinct(s) /\ ~Has(s, e) => Distinct(t)
  BY <1>1 DEF Has, Distinct
<1> QED BY <1>1, <1>2, <1>3, <1>4 DEF t

\* Elements are taken out.
LEMMA FilterList ==
  ASSUME NEW S, NEW s \in Seq(S), NEW T
  PROVE  /\ Filter(s, T) \in Seq(S)
         /\ \A x : Has(Filter(s, T), x) <=> Has(s, x) /\ x \in T
         /\ \A a, b : Precedes(Filter(s, T), a, b) => Precedes(s, a, b)
         /\ Distinct(s) => Distinct(Filter(s, T))
<1> DEFINE r == Filter(s, T)
<1>1. /\ r \in Seq(S) /\ Len(r) \in Nat
      /\ \A i \in 1..Len(r) : r[i] \in T /\ \E a \in 1..Len(s) : s[a] = r[i]
      /\ \A a \in 1..Len(s) : s[a] \in T => \E i \in 1..Len(r) : r[i] = s[a]
      /\ \A i, j \in 1..Len(r) : i < j =>
           \E a, b \in 1..Len(s) : a < b /\ s[a] = r[i] /\ s[b] = r[j]
  BY FilterFacts
<1> HIDE DEF r
<1>2. \A x : Has(r, x) <=> Has(s, x) /\ x \in T
  <2>1. ASSUME NEW x, Has(r, x) PROVE Has(s, x) /\ x \in T
    <3>1. PICK i \in 1..Len(r) : r[i] = x
      BY <2>1 DEF Has
    <3>2. PICK a \in 1..Len(s) : s[a] = r[i]
      BY <1>1
    <3> QED BY <3>1, <3>2, <1>1 DEF Has
  <2>2. ASSUME NEW x, Has(s, x), x \in T PROVE Has(r, x)
    <3>1. PICK a \in 1..Len(s) : s[a] = x
      BY <2>2 DEF Has
    <3> QED BY <3>1, <2>2, <1>1 DEF Has
  <2> QED BY <2>1, <2>2
<1>3. ASSUME NEW x, NEW y, Precedes(r, x, y) PROVE Precedes(s, x, y)
  <2>1. PICK i, j \in 1..Len(r) : i < j /\ r[i] = x /\ r[j] = y
    BY <1>3 DEF Precedes
  <2>2. PICK a, b \in 1..Len(s) : a < b /\ s[a] = r[i] /\ s[b] = r[j]
    BY <1>1, <2>1
  <2> QED BY <2>1, <2>2 DEF Precedes
<1>4. Distinct(s) => Distinct(r)
  <2> SUFFICES ASSUME Distinct(s) PROVE Distinct(r)
    OBVIOUS
  <2>1. \A i, j \in 1..Len(r) : i < j => r[i] # r[j]
    BY <1>1 DEF Distinct
  <2>2. \A i, j \in 1..Len(r) : i < j \/ j < i \/ i = j
    BY <1>1
  <2> QED BY <2>1, <2>2 DEF Distinct
<1> QED BY <1>1, <1>2, <1>3, <1>4 DEF r

\* One list after another.
LEMMA ConcatList ==
  ASSUME NEW S, NEW s \in Seq(S), NEW t \in Seq(S)
  PROVE  /\ s \o t \in Seq(S)
         /\ \A x : Has(s \o t, x) => Has(s, x) \/ Has(t, x)
         /\ \A a, b : Precedes(s \o t, a, b) =>
              Precedes(s, a, b) \/ Precedes(t, a, b) \/ (Has(s, a) /\ Has(t, b))
<1> DEFINE r == s \o t
<1>1. /\ r \in Seq(S) /\ Len(s) \in Nat /\ Len(t) \in Nat /\ Len(r) = Len(s) + Len(t)
      /\ \A i \in 1..Len(s) : r[i] = s[i]
      /\ \A i \in 1..Len(r) : i \in 1..Len(s) \/ (i - Len(s) \in 1..Len(t) /\ r[i] = t[i - Len(s)])
  OBVIOUS
<1> HIDE DEF r
<1>2. \A i \in 1..Len(r) : \/ i \in 1..Len(s) /\ Has(s, r[i])
                           \/ i - Len(s) \in 1..Len(t) /\ Has(t, r[i]) /\ ~(i \in 1..Len(s))
  <2> TAKE i \in 1..Len(r)
  <2>1. CASE i \in 1..Len(s)
    <3>1. r[i] = s[i]
      BY <2>1, <1>1
    <3>2. Has(s, s[i])
      BY <2>1 DEF Has
    <3> QED BY <2>1, <3>1, <3>2
  <2>2. CASE i \notin 1..Len(s)
    <3>1. i - Len(s) \in 1..Len(t) /\ r[i] = t[i - Len(s)]
      BY <2>2, <1>1
    <3> QED BY <2>2, <3>1 DEF Has
  <2> QED BY <2>1, <2>2
<1>3. \A x : Has(r, x) => Has(s, x) \/ Has(t, x)
  BY <1>2 DEF Has
<1>4. ASSUME NEW a, NEW b, Precedes(r, a, b)
      PROVE  Precedes(s, a, b) \/ Precedes(t, a, b) \/ (Has(s, a) /\ Has(t, b))
  <2>1. PICK i, j \in 1..Len(r) : i < j /\ r[i] = a /\ r[j] = b
    BY <1>4 DEF Precedes
  <2>2. CASE j \in 1..Len(s)
    <3>1. i \in 1..Len(s)
      BY <2>1, <2>2, <1>1
    <3> QED BY <2>1, <2>2, <3>1, <1>1 DEF Precedes
  <2>3. CASE i \in 1..Len(s) /\ j \notin 1..Len(s)
    BY <2>1, <2>3, <1>2
  <2>4. CASE i \notin 1..Len(s) /\ j \notin 1..Len(s)
    <3>1. /\ i - Len(s) \in 1..Len(t) /\ t[i - Len(s)] = a
          /\ j - Len(s) \in 1..Len(t) /\ t[j - Len(s)] = b
          /\ i - Len(s) < j - Len(s)
      BY <2>1, <2>4, <1>1
    <3> QED BY <3>1 DEF Precedes
  <2> QED BY <2>2, <2>3, <2>4
<1> QED BY <1>1, <1>3, <1>4 DEF r

\* Of two elements of a list one comes first.
LEMMA Trichotomy ==
  ASSUME NEW S, NEW s \in Seq(S), NEW a, NEW b, Has(s, a), Has(s, b)
  PROVE  a = b \/ Precedes(s, a, b) \/ Precedes(s, b, a)
<1>1. PICK i \in 1..Len(s) : s[i] = a
  BY DEF Has
<1>2. PICK j \in 1..Len(s) : s[j] = b
  BY DEF Has
<1>3. i = j \/ i < j \/ j < i
  OBVIOUS
<1> QED BY <1>1, <1>2, <1>3 DEF Precedes

\* A set of natural numbers that is not empty has a least element.
LEMMA LeastNumber ==
  ASSUME NEW B, B \subseteq Nat, B # {}
  PROVE  \E x \in B : \A y \in B : ~(y < x)
<1>1. IsWellFoundedOn(OpToRel(<, Nat), Nat)
  BY NatLessThanWellFounded
<1>2. PICK x \in B : \A y \in B : ~(<<y, x>> \in OpToRel(<, Nat))
  <2> DEFINE R == OpToRel(<, Nat)
  <2>1. IsWellFoundedOn(R, Nat)
    BY <1>1
  <2> HIDE DEF R
  <2>2. \E x \in B : \A y \in B : ~(<<y, x>> \in R)
    BY <2>1, WFMin
  <2> QED BY <2>2 DEF R
<1>3. \A y \in B : y < x => <<y, x>> \in OpToRel(<, Nat)
  BY DEF OpToRel
<1> QED BY <1>2, <1>3

\* The last element is taken.
LEMMA FrontList ==
  ASSUME NEW S, NEW s \in Seq(S), s # <<>>
  PROVE  /\ Front(s) \in Seq(S) /\ Len(s) \in Nat \ {0} /\ Len(Front(s)) = Len(s) - 1
         /\ \A i \in 1..(Len(s) - 1) : Front(s)[i] = s[i]
         /\ Last(s) \in S /\ Has(s, Last(s))
         /\ \A x : Has(Front(s), x) => Has(s, x)
         /\ Distinct(s) => Distinct(Front(s)) /\ ~Has(Front(s), Last(s))
<1> DEFINE t == Front(s)
<1>1. /\ t \in Seq(S) /\ Len(s) \in Nat \ {0} /\ Len(t) = Len(s) - 1
      /\ \A i \in 1..(Len(s) - 1) : t[i] = s[i] /\ i \in 1..Len(s) /\ i # Len(s)
      /\ Len(s) \in 1..Len(s) /\ s[Len(s)] \in S /\ Last(s) = s[Len(s)]
  <2>1. Len(s) \in Nat \ {0} /\ Len(s) - 1 \in Nat
    OBVIOUS
  <2>2. t = SubSeq(s, 1, Len(s) - 1)
    BY DEF Front
  <2>3. t \in Seq(S)
    BY <2>1, <2>2
  <2>4. Len(t) = Len(s) - 1 /\ \A i \in 1..(Len(s) - 1) : t[i] = s[i]
    <3> DEFINE n == Len(s) - 1
    <3>1. n \in Nat /\ 1 <= n + 1 /\ n <= Len(s)
      BY <2>1
    <3>2. t = SubSeq(s, 1, n)
      BY <2>2
    <3> HIDE DEF n, t
    <3>3. Len(t) = n
      BY <3>1, <3>2
    <3>4. \A i \in 1..n : t[i] = s[i]
      BY <3>1, <3>2
    <3> QED BY <3>3, <3>4 DEF n
  <2>5. Last(s) = s[Len(s)]
    BY DEF Last
  <2> HIDE DEF t
  <2> QED BY <2>1, <2>3, <2>4, <2>5
<1> HIDE DEF t
<1>2. Has(s, Last(s))
  BY <1>1 DEF Has
<1>3. \A x : Has(t, x) => Has(s, x)
  BY <1>1 DEF Has
<1>4. Distinct(s) => Distinct(t) /\ ~Has(t, Last(s))
  BY <1>1 DEF Has, Distinct
<1> QED BY <1>1, <1>2, <1>3, <1>4 DEF t

\* A call.
LEMMA PushFacts ==
  ASSUME NEW S, NEW s \in Seq(S), NEW f \in S
  PROVE  /\ Append(s, f) \in Seq(S) /\ Append(s, f) # <<>>
         /\ Len(s) \in Nat /\ Len(Append(s, f)) = Len(s) + 1
         /\ \A i \in 1..Len(s) : Append(s, f)[i] = s[i] /\ i \in 1..Len(Append(s, f))
         /\ Append(s, f)[Len(s) + 1] = f /\ Len(s) + 1 \in 1..Len(Append(s, f))
         /\ \A i \in 1..Len(Append(s, f)) : i \in 1..Len(s) \/ i = Len(s) + 1
<1> DEFINE r == Append(s, f)
<1>1. r \in Seq(S) /\ Len(s) \in Nat /\ Len(r) = Len(s) + 1 /\ r[Len(s) + 1] = f
  OBVIOUS
<1>2. \A i \in 1..Len(s) : r[i] = s[i]
  OBVIOUS
<1> HIDE DEF r
<1>3. r # <<>>
  BY <1>1
<1> QED BY <1>1, <1>2, <1>3 DEF r

\* The innermost call goes on.
LEMMA SetTopFacts ==
  ASSUME NEW S, NEW s \in Seq(S), s # <<>>, NEW f \in S
  PROVE  /\ [s EXCEPT ![Len(s)] = f] \in Seq(S) /\ [s EXCEPT ![Len(s)] = f] # <<>>
         /\ Len(s) \in 1..Len(s) /\ Len([s EXCEPT ![Len(s)] = f]) = Len(s)
         /\ \A i \in 1..Len(s) : i # Len(s) => [s EXCEPT ![Len(s)] = f][i] = s[i]
         /\ [s EXCEPT ![Len(s)] = f][Len(s)] = f
<1> DEFINE r == [s EXCEPT ![Len(s)] = f]
<1>1. r \in Seq(S) /\ Len(s) \in 1..Len(s) /\ Len(r) = Len(s)
  OBVIOUS
<1>2. \A i \in 1..Len(s) : r[i] = IF i = Len(s) THEN f ELSE s[i]
  OBVIOUS
<1> HIDE DEF r
<1>3. r # <<>>
  BY <1>1
<1> QED BY <1>1, <1>2, <1>3 DEF r

=============================================================================
