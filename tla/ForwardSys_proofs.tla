-------------------------- MODULE ForwardSys_proofs --------------------------
(***************************************************************************)
(* Proofs about ForwardSys, for any forwards, plugins, functions, list     *)
(* nodes and nesting of calls, with callbacks that add functions or not.   *)
(* The invariant is stated of a state's parts, so that a step that changes *)
(* the lists and the calls can be taken in two halves.                     *)
(***************************************************************************)
EXTENDS ForwardSys, Lists_proofs, FiniteSetTheorems

\* An iterator at n has gone past u.
Behind(s, n, u) == IF n = NULL THEN Has(s, u) ELSE Precedes(s, u, n)

\* What call f has visited of list s is behind its iterator or under it, and
\* what is behind it and was there from the beginning has been visited.
Walking(f, s) ==
  /\ \A u \in Nodes : u \in f.had \/ u \in f.seen => Has(s, u)
  /\ f.twice = {}
  /\ f.impl_ # NULL => Has(s, f.impl_)
  /\ \A u \in f.seen : Behind(s, f.impl_, u) \/ (u = f.impl_ /\ f.pc # "loop" /\ ~f.mutated_)
  /\ \A u \in f.had : Behind(s, f.impl_, u) => u \in f.seen
  /\ f.pc = "call" /\ ~f.mutated_ => f.impl_ \in f.seen

\* A call of Execute, or of SetPauseState.
Shape(f) ==
  /\ f.pc = "loop" => ~f.mutated_
  /\ f.fwd = NULL => f.pc = "call" /\ f.impl_ = NULL /\ f.twice = {} /\ f.plugin \in Plugins
  /\ f.fwd # NULL => f.plugin = NULL

CallsOf(K, w) == {i \in 1..Len(K) : K[i].fwd = w}

\* Forwards F under the calls K: only the innermost call is not in a callback.
Walks(F, K) ==
  /\ F \in [Forwards -> CForward]
  /\ K \in Seq(Frame) /\ Len(K) <= MaxDepth
  /\ \A w \in Forwards : Distinct(F[w].m_functions)
  /\ \A i \in 1..Len(K) :
       /\ Shape(K[i])
       /\ i # Len(K) => K[i].pc = "call"
       /\ K[i].fwd # NULL => Walking(K[i], F[K[i].fwd].m_functions)
  /\ \A w \in Forwards :
       /\ F[w].m_ExecDepth = Cardinality(CallsOf(K, w))
       /\ F[w].m_ExecDepth > 0 => F[w].alive
       /\ F[w].m_deleted => F[w].m_ExecDepth > 0

\* Function f is at most once in the list s of nodes that hold fn; it is there.
Once(s, fn, f) == \A n, m \in Nodes : Has(s, n) /\ Has(s, m) /\ fn[n] = f /\ fn[m] = f => n = m
In(s, fn, f) == \E n \in Nodes : Has(s, n) /\ fn[n] = f

\* Plugin p is being told that it is resumed.
Told(K, p) == \E i \in 1..Len(K) : K[i].plugin = p

\* Forwards F whose nodes hold fn, plugins of status st, calls K.
Registered(F, fn, st, K) ==
  /\ \A w \in Forwards, n \in Nodes : Has(F[w].m_functions, n) => st[Owner[fn[n]]] # "none"
  /\ \A w \in Forwards, f \in Public : F[w].alive /\ F[w].managed =>
       /\ Once(F[w].m_functions, fn, f)
       /\ st[Owner[f]] = "running" /\ ~Told(K, Owner[f]) => In(F[w].m_functions, fn, f)

Statuses == {"none", "running", "paused", "error"}

IInv ==
  /\ Walks(fwd, stack)
  /\ func \in [Nodes -> Funcs] /\ status \in [Plugins -> Statuses]
  /\ Registered(fwd, func, status, stack)

-----------------------------------------------------------------------------
(* Lists.                                                                  *)

\* The least number of a set.
LEMMA MinFacts ==
  ASSUME NEW B, B \subseteq Nat, B # {}
  PROVE  Min(B) \in B /\ \A y \in B : Min(B) <= y
<1>1. PICK x \in B : \A y \in B : ~(y < x)
  BY LeastNumber
<1>2. \A y \in B : x <= y
  BY <1>1
<1> QED BY <1>2 DEF Min

\* Range, in the words of the other lemmas.
LEMMA RangeHas ==
  ASSUME NEW S, NEW s \in Seq(S)
  PROVE  /\ \A x : x \in Range(s) <=> Has(s, x)
         /\ DOMAIN s = 1..Len(s)
<1>1. DOMAIN s = 1..Len(s)
  OBVIOUS
<1> QED BY <1>1 DEF Range, Has

\* In a list of distinct elements nothing is on both sides of another.
LEMMA OneOrder ==
  ASSUME NEW S, NEW s \in Seq(S), Distinct(s), NEW a, NEW b, Precedes(s, a, b)
  PROVE  ~Precedes(s, b, a)
<1> SUFFICES ASSUME Precedes(s, b, a) PROVE FALSE
  OBVIOUS
<1>1. PICK i, j \in 1..Len(s) : i < j /\ s[i] = a /\ s[j] = b
  BY DEF Precedes
<1>2. PICK k, m \in 1..Len(s) : k < m /\ s[k] = b /\ s[m] = a
  BY DEF Precedes
<1>3. i = m /\ j = k
  BY <1>1, <1>2 DEF Distinct
<1> QED BY <1>1, <1>2, <1>3

\* A position says what is before it.
LEMMA AtPosition ==
  ASSUME NEW S, NEW s \in Seq(S), Distinct(s), NEW k \in 1..Len(s), NEW j \in 1..Len(s)
  PROVE  Precedes(s, s[j], s[k]) <=> j < k
<1>1. j < k => Precedes(s, s[j], s[k])
  BY DEF Precedes
<1>2. k < j => Precedes(s, s[k], s[j])
  BY DEF Precedes
<1>3. Precedes(s, s[j], s[k]) => ~Precedes(s, s[k], s[j])
  BY OneOrder
<1>4. j < k \/ k < j \/ j = k
  OBVIOUS
<1>5. j = k => ~Precedes(s, s[j], s[k])
  BY <1>3
<1> QED BY <1>1, <1>2, <1>3, <1>4, <1>5

\* What is left keeps its order.
LEMMA FilterOrder ==
  ASSUME NEW S, NEW s \in Seq(S), Distinct(s), NEW T, NEW a \in T, NEW b \in T
  PROVE  Precedes(Filter(s, T), a, b) <=> Precedes(s, a, b)
<1> DEFINE r == Filter(s, T)
<1>1. /\ r \in Seq(S) /\ (\A x : Has(r, x) <=> Has(s, x) /\ x \in T)
      /\ (\A x, y : Precedes(r, x, y) => Precedes(s, x, y))
  BY FilterList
<1> HIDE DEF r
<1>2. ASSUME Precedes(s, a, b) PROVE Precedes(r, a, b)
  <2>1. Has(s, a) /\ Has(s, b)
    BY <1>2, HasType
  <2>2. ~Precedes(s, b, a)
    BY <1>2, OneOrder
  <2>3. a # b
    BY <1>2, <2>2
  <2>4. a = b \/ Precedes(r, a, b) \/ Precedes(r, b, a)
    BY <1>1, <2>1, Trichotomy
  <2> QED BY <1>1, <2>2, <2>3, <2>4
<1> QED BY <1>1, <1>2 DEF r

\* Where iterator::remove puts an iterator that stands on a removed node n: of
\* what is kept, the same is behind it.
LEMMA KeptList ==
  ASSUME NULL \notin Nodes, NEW s \in Seq(Nodes), Distinct(s), NEW gone, NEW n \in gone, Has(s, n)
  PROVE  /\ FirstKept(s, n, gone) # NULL =>
              Has(s, FirstKept(s, n, gone)) /\ FirstKept(s, n, gone) \in Nodes \ gone
         /\ \A u : Has(s, u) /\ u \notin gone => (Behind(s, FirstKept(s, n, gone), u) <=> Precedes(s, u, n))
<1> DEFINE k == Index(s, n)
           B == {i \in k..Len(s) : s[i] \notin gone}
           r == FirstKept(s, n, gone)
<1>1. k \in 1..Len(s) /\ s[k] = n /\ Len(s) \in Nat
  BY DEF Index, Has
<1>2. r = IF B = {} THEN NULL ELSE s[Min(B)]
  BY DEF FirstKept
<1> HIDE DEF k, r
<1>3. CASE B = {}
  <2>1. r = NULL
    BY <1>2, <1>3
  <2>2. ASSUME NEW u, Has(s, u), u \notin gone PROVE Precedes(s, u, n)
    <3>1. PICK j \in 1..Len(s) : s[j] = u
      BY <2>2 DEF Has
    <3>2. j < k
      BY <1>1, <1>3, <2>2, <3>1
    <3> QED BY <1>1, <3>1, <3>2, AtPosition
  <2> QED BY <2>1, <2>2 DEF Behind, r
<1>4. CASE B # {}
  <2>1. B \subseteq Nat
    BY <1>1
  <2>2. PICK m : m = Min(B)
    OBVIOUS
  <2>3. m \in B /\ \A y \in B : m <= y
    <3> HIDE DEF B
    <3> QED BY <1>4, <2>1, <2>2, MinFacts
  <2>4. m \in 1..Len(s) /\ k <= m /\ s[m] \notin gone /\ r = s[m] /\ s[m] \in Nodes
    BY <1>1, <1>2, <1>4, <2>2, <2>3
  <2>5. Has(s, r) /\ r \in Nodes \ gone
    BY <2>4 DEF Has
  <2>6. ASSUME NEW u, Has(s, u), u \notin gone PROVE Precedes(s, u, r) <=> Precedes(s, u, n)
    <3>1. PICK j \in 1..Len(s) : s[j] = u
      BY <2>6 DEF Has
    <3>2. Precedes(s, u, r) <=> j < m
      BY <2>4, <3>1, AtPosition
    <3>3. Precedes(s, u, n) <=> j < k
      BY <1>1, <3>1, AtPosition
    <3>4. ~(j < k) => j \in B
      BY <1>1, <2>6, <3>1
    <3>5. j < m => j < k
      <4> HIDE DEF B
      <4> QED BY <1>1, <2>3, <2>4, <3>4
    <3>6. j < k => j < m
      BY <1>1, <2>4
    <3> QED BY <3>2, <3>3, <3>5, <3>6
  <2>7. r # NULL
    BY <2>5
  <2> QED BY <2>5, <2>6, <2>7 DEF Behind, r
<1> QED BY <1>3, <1>4

\* iterator::next: what is behind the iterator then is the node passed, or was
\* behind it before.
LEMMA AfterList ==
  ASSUME NULL \notin Nodes, NEW s \in Seq(Nodes), Distinct(s), NEW n \in Nodes, Has(s, n)
  PROVE  /\ After(s, n) # NULL => Has(s, After(s, n)) /\ After(s, n) \in Nodes
         /\ \A u : Behind(s, After(s, n), u) <=> u = n \/ Precedes(s, u, n)
<1> DEFINE k == Index(s, n)
           r == After(s, n)
<1>1. k \in 1..Len(s) /\ s[k] = n /\ Len(s) \in Nat /\ Len(s) \in 1..Len(s)
  BY DEF Index, Has
<1>2. r = IF n = s[Len(s)] THEN NULL ELSE s[k + 1]
  BY DEF After, Last
<1> HIDE DEF k, r
<1>3. n = s[Len(s)] <=> k = Len(s)
  BY <1>1 DEF Distinct
<1>4. \A u : Precedes(s, u, n) => Has(s, u)
  BY HasType
<1>5. CASE k = Len(s)
  <2>1. r = NULL
    BY <1>2, <1>3, <1>5
  <2>2. ASSUME NEW u, Has(s, u) PROVE u = n \/ Precedes(s, u, n)
    <3>1. PICK j \in 1..Len(s) : s[j] = u
      BY <2>2 DEF Has
    <3>2. j = k \/ j < k
      BY <1>1, <1>5
    <3> QED BY <1>1, <3>1, <3>2, AtPosition
  <2> QED BY <1>4, <2>1, <2>2 DEF Behind, r
<1>6. CASE k # Len(s)
  <2>1. k + 1 \in 1..Len(s) /\ r = s[k + 1] /\ r \in Nodes
    BY <1>1, <1>2, <1>3, <1>6
  <2>2. Has(s, r)
    BY <2>1 DEF Has
  <2>3. ASSUME NEW u, Has(s, u) PROVE Precedes(s, u, r) <=> u = n \/ Precedes(s, u, n)
    <3>1. PICK j \in 1..Len(s) : s[j] = u
      BY <2>3 DEF Has
    <3>2. Precedes(s, u, r) <=> j < k + 1
      BY <2>1, <3>1, AtPosition
    <3>3. Precedes(s, u, n) <=> j < k
      BY <1>1, <3>1, AtPosition
    <3>4. u = n <=> j = k
      BY <1>1, <3>1 DEF Distinct
    <3>5. j < k + 1 <=> j = k \/ j < k
      BY <1>1
    <3> QED BY <3>2, <3>3, <3>4, <3>5
  <2>4. \A u : Precedes(s, u, r) => Has(s, u)
    BY HasType
  <2>5. r # NULL
    BY <2>1
  <2> QED BY <1>4, <2>1, <2>2, <2>3, <2>4, <2>5 DEF Behind, r
<1> QED BY <1>5, <1>6

\* begin(): nothing is behind the iterator.
LEMMA FirstList ==
  ASSUME NULL \notin Nodes, NEW s \in Seq(Nodes), Distinct(s)
  PROVE  /\ First(s) # NULL => Has(s, First(s)) /\ First(s) \in Nodes
         /\ \A u : ~Behind(s, First(s), u)
<1>1. CASE s = <<>>
  BY <1>1, EmptyList DEF First, Behind
<1>2. CASE s # <<>>
  <2>1. First(s) = s[1] /\ 1 \in 1..Len(s) /\ s[1] \in Nodes /\ s[1] # NULL
    BY <1>2 DEF First
  <2>2. Has(s, s[1])
    BY <2>1 DEF Has
  <2>3. ASSUME NEW u, Precedes(s, u, s[1]) PROVE FALSE
    <3>1. Has(s, u)
      BY <2>3, HasType
    <3>2. PICK j \in 1..Len(s) : s[j] = u
      BY <3>1 DEF Has
    <3>3. j < 1
      BY <2>1, <2>3, <3>2, AtPosition
    <3> QED BY <3>3
  <2> QED BY <2>1, <2>2, <2>3 DEF Behind
<1> QED BY <1>1, <1>2

\* A node is put at the end: of what was there, the same is behind an iterator.
LEMMA AppendBehind ==
  ASSUME NULL \notin Nodes, NEW s \in Seq(Nodes), NEW n \in Nodes, ~Has(s, n), NEW m, m # NULL => Has(s, m)
  PROVE  \A u : Has(s, u) => (Behind(Append(s, n), m, u) <=> Behind(s, m, u))
<1> DEFINE t == Append(s, n)
<1>1. /\ t \in Seq(Nodes) /\ (\A x : Has(t, x) <=> Has(s, x) \/ x = n)
      /\ (\A a, b : Precedes(t, a, b) => Precedes(s, a, b) \/ (Has(s, a) /\ b = n))
  BY AppendList
<1>2. /\ Len(s) \in Nat /\ Len(t) = Len(s) + 1
      /\ \A i \in 1..Len(s) : t[i] = s[i] /\ i \in 1..Len(t)
  BY PushFacts
<1> HIDE DEF t
<1>3. \A a, b : Precedes(s, a, b) => Precedes(t, a, b)
  BY <1>2 DEF Precedes
<1>4. m # NULL => m # n
  OBVIOUS
<1> QED BY <1>1, <1>3, <1>4 DEF Behind, t

\* The list that a set is gone over in.
LEMMA SetToSeqFacts ==
  ASSUME NEW S, IsFiniteSet(S)
  PROVE  /\ SetToSeq(S) \in Seq(S) /\ Distinct(SetToSeq(S)) /\ \A x \in S : Has(SetToSeq(S), x)
         /\ DOMAIN SetToSeq(S) = 1..Len(SetToSeq(S))
<1> DEFINE n == Cardinality(S)
           r == SetToSeq(S)
<1>1. n \in Nat /\ \E f : f \in Bijection(1..n, S)
  BY FS_CardinalityType DEF ExistsBijection
<1>2. PICK f \in [1..n -> S] : IsInjective(f)
  BY <1>1 DEF Bijection, Injection
<1>3. r \in [1..n -> S] /\ IsInjective(r)
  BY <1>2 DEF SetToSeq
<1> HIDE DEF r
<1>4. r \in Injection(1..n, S)
  BY <1>3 DEF Injection
<1>5. Cardinality(1..n) = n
  BY <1>1, FS_Interval
<1>6. r \in Surjection(1..n, S)
  BY <1>4, <1>5, FS_Injection
<1> HIDE DEF n
<1>7. r \in Seq(S) /\ Len(r) = n /\ DOMAIN r = 1..n
  BY <1>1, <1>3
<1>8. Distinct(r)
  BY <1>3, <1>7 DEF Distinct, IsInjective
<1>9. \A x \in S : Has(r, x)
  BY <1>6, <1>7 DEF Has, Surjection
<1> QED BY <1>7, <1>8, <1>9 DEF r

-----------------------------------------------------------------------------
(* Walks.                                                                  *)

\* A function is added at the end of a list that is being walked.
LEMMA AppendWalk ==
  ASSUME NULL \notin Nodes, NEW s \in Seq(Nodes), NEW n \in Nodes, ~Has(s, n),
         NEW f \in Frame, Walking(f, s)
  PROVE  Walking(f, Append(s, n))
<1> DEFINE t == Append(s, n)
<1>1. \A u : Has(s, u) => Has(t, u)
  BY AppendList
<1>2. \A u : Has(s, u) => (Behind(t, f.impl_, u) <=> Behind(s, f.impl_, u))
  BY AppendBehind DEF Walking
<1>3. f.had \subseteq Nodes /\ f.seen \subseteq Nodes
  BY DEF Frame
<1> HIDE DEF t
<1>4. \A u \in Nodes : u \in f.had \/ u \in f.seen => Has(s, u)
  BY DEF Walking
<1>5. \A u \in f.seen : Behind(t, f.impl_, u) \/ (u = f.impl_ /\ f.pc # "loop" /\ ~f.mutated_)
  BY <1>2, <1>3, <1>4 DEF Walking
<1>6. \A u \in f.had : Behind(t, f.impl_, u) => u \in f.seen
  BY <1>2, <1>3, <1>4 DEF Walking
<1> QED BY <1>1, <1>4, <1>5, <1>6 DEF Walking, t

\* Nodes are removed from a list that is being walked, whatever they are.
LEMMA RemoveWalk ==
  ASSUME NULL \notin Nodes, NEW s \in Seq(Nodes), Distinct(s), NEW gone \in SUBSET Nodes,
         NEW f \in Frame, Walking(f, s), f.pc = "call", NEW g \in Frame,
         g.had = f.had \ gone, g.seen = f.seen \ gone, g.twice = f.twice \ gone, g.pc = f.pc,
         f.impl_ \in gone => g.impl_ = FirstKept(s, f.impl_, gone) /\ g.mutated_,
         f.impl_ \notin gone => g.impl_ = f.impl_ /\ (g.mutated_ <=> f.mutated_)
  PROVE  Walking(g, Filter(s, Nodes \ gone))
<1> DEFINE T == Nodes \ gone
           r == Filter(s, T)
<1>1. r \in Seq(Nodes) /\ \A x : Has(r, x) <=> Has(s, x) /\ x \in T
  BY FilterList
<1>2. f.had \subseteq Nodes /\ f.seen \subseteq Nodes /\ f.impl_ \in Nodes \cup {NULL}
  BY DEF Frame
<1>3. /\ \A u \in Nodes : u \in f.had \/ u \in f.seen => Has(s, u)
      /\ f.twice = {} /\ (f.impl_ # NULL => Has(s, f.impl_))
      /\ \A u \in f.seen : Behind(s, f.impl_, u) \/ (u = f.impl_ /\ ~f.mutated_)
      /\ \A u \in f.had : Behind(s, f.impl_, u) => u \in f.seen
      /\ ~f.mutated_ => f.impl_ \in f.seen
  BY DEF Walking
<1>4. \A u : Has(s, u) => u \in Nodes
  BY HasType
<1>5. g.impl_ # NULL => Has(r, g.impl_) /\ g.impl_ \in T /\ Has(s, g.impl_)
  <2>1. CASE f.impl_ \in gone
    <3>1. f.impl_ # NULL
      BY <2>1
    <3>2. g.impl_ # NULL => Has(s, g.impl_) /\ g.impl_ \in T
      BY <1>3, <2>1, <3>1, KeptList
    <3> QED BY <1>1, <3>2
  <2>2. CASE f.impl_ \notin gone
    BY <1>1, <1>2, <1>3, <2>2
  <2> QED BY <2>1, <2>2
<1>6. ASSUME NEW u \in T, Has(s, u)
      PROVE  Behind(r, g.impl_, u) <=> Behind(s, f.impl_, u)
  <2>1. Behind(r, g.impl_, u) <=> Behind(s, g.impl_, u)
    <3>1. CASE g.impl_ = NULL
      BY <1>1, <1>6, <3>1 DEF Behind
    <3>2. CASE g.impl_ # NULL
      <4>1. Precedes(r, u, g.impl_) <=> Precedes(s, u, g.impl_)
        BY <1>5, <3>2, FilterOrder
      <4> QED BY <3>2, <4>1 DEF Behind
    <3> QED BY <3>1, <3>2
  <2>2. CASE f.impl_ \in gone
    <3>1. f.impl_ # NULL
      BY <2>2
    <3>2. Behind(s, g.impl_, u) <=> Precedes(s, u, f.impl_)
      BY <1>3, <1>6, <2>2, <3>1, KeptList
    <3> QED BY <2>1, <3>1, <3>2 DEF Behind
  <2>3. CASE f.impl_ \notin gone
    BY <2>1, <2>3
  <2> QED BY <2>2, <2>3
<1> HIDE DEF r
<1>7. \A u \in Nodes : u \in g.had \/ u \in g.seen => u \in T /\ Has(s, u) /\ Has(r, u)
  BY <1>1, <1>3
<1>8. \A u \in g.seen : Behind(r, g.impl_, u) \/ (u = g.impl_ /\ ~g.mutated_)
  BY <1>2, <1>3, <1>6, <1>7
<1>9. \A u \in g.had : Behind(r, g.impl_, u) => u \in g.seen
  BY <1>2, <1>3, <1>6, <1>7
<1>10. ~g.mutated_ => g.impl_ \in g.seen
  BY <1>3
<1>11. g.twice = {}
  BY <1>3
<1> QED BY <1>5, <1>7, <1>8, <1>9, <1>10, <1>11 DEF Walking, r

\* The callback returns and the iterator goes on, or stays where a removal put it.
LEMMA ReturnWalk ==
  ASSUME NULL \notin Nodes, NEW s \in Seq(Nodes), Distinct(s),
         NEW f \in Frame, Walking(f, s), f.pc = "call", NEW g \in Frame,
         g.had = f.had, g.seen = f.seen, g.twice = f.twice, g.pc = "loop", ~g.mutated_,
         g.impl_ = IF f.mutated_ THEN f.impl_ ELSE After(s, f.impl_)
  PROVE  Walking(g, s)
<1>1. f.had \subseteq Nodes /\ f.seen \subseteq Nodes
  BY DEF Frame
<1>2. CASE f.mutated_
  BY <1>2 DEF Walking
<1>3. CASE ~f.mutated_
  <2>1. f.impl_ \in Nodes /\ Has(s, f.impl_) /\ f.impl_ \in f.seen
    BY <1>1, <1>3 DEF Walking
  <2>2. PICK n : n = f.impl_
    OBVIOUS
  <2>3. f.impl_ # NULL
    BY <2>1
  <2>4. /\ g.impl_ = After(s, n) /\ n # NULL /\ n \in Nodes /\ Has(s, n)
    BY <1>3, <2>1, <2>2
  <2>5. /\ g.impl_ # NULL => Has(s, g.impl_)
        /\ \A u : Behind(s, g.impl_, u) <=> u = n \/ Precedes(s, u, n)
    BY <2>4, AfterList
  <2>6. \A u : Behind(s, f.impl_, u) <=> Precedes(s, u, n)
    BY <2>2, <2>4 DEF Behind
  <2> QED BY <2>1, <2>2, <2>5, <2>6 DEF Walking
<1> QED BY <1>2, <1>3

\* A function is called.
LEMMA VisitWalk ==
  ASSUME NULL \notin Nodes, NEW s \in Seq(Nodes), Distinct(s),
         NEW f \in Frame, Walking(f, s), f.pc = "loop", ~f.mutated_, f.impl_ # NULL, NEW g \in Frame,
         g.had = f.had, g.seen = f.seen \cup {f.impl_}, g.pc = "call", ~g.mutated_, g.impl_ = f.impl_,
         g.twice = IF f.impl_ \in f.seen THEN f.twice \cup {f.impl_} ELSE f.twice
  PROVE  Walking(g, s)
<1>1. ~Precedes(s, f.impl_, f.impl_)
  BY OneOrder
<1>2. f.impl_ \notin f.seen
  BY <1>1 DEF Walking, Behind
<1>3. g.twice = {}
  BY <1>2 DEF Walking
<1>4. Has(s, f.impl_)
  BY DEF Walking
<1> QED BY <1>1, <1>3, <1>4 DEF Walking

\* A walk begins.
LEMMA EnterWalk ==
  ASSUME NULL \notin Nodes, NEW s \in Seq(Nodes), Distinct(s), NEW f \in Frame,
         f.had = Range(s), f.seen = {}, f.twice = {}, f.pc = "loop", f.impl_ = First(s)
  PROVE  Walking(f, s)
<1>1. (f.impl_ # NULL => Has(s, f.impl_)) /\ \A u : ~Behind(s, f.impl_, u)
  BY FirstList
<1>2. \A u : u \in f.had => Has(s, u)
  BY RangeHas
<1> QED BY <1>1, <1>2 DEF Walking

-----------------------------------------------------------------------------
(* Forwards and calls.                                                     *)

\* The calls of a forward are finitely many.
LEMMA CallsFinite ==
  ASSUME NEW K \in Seq(Frame), NEW w
  PROVE  /\ IsFiniteSet(CallsOf(K, w)) /\ Cardinality(CallsOf(K, w)) \in Nat
         /\ Cardinality(CallsOf(K, w)) = 0 <=> \A i \in 1..Len(K) : K[i].fwd # w
<1>1. IsFiniteSet(1..Len(K))
  BY FS_Interval
<1>2. CallsOf(K, w) \in SUBSET (1..Len(K))
  BY DEF CallsOf
<1>3. IsFiniteSet(CallsOf(K, w))
  BY <1>1, <1>2, FS_Subset
<1>4. Cardinality(CallsOf(K, w)) \in Nat /\ (Cardinality(CallsOf(K, w)) = 0 <=> CallsOf(K, w) = {})
  BY <1>3, FS_CardinalityType, FS_EmptySet
<1>5. CallsOf(K, w) = {} <=> \A i \in 1..Len(K) : K[i].fwd # w
  BY DEF CallsOf
<1> QED BY <1>3, <1>4, <1>5

\* What Walks says, of one forward and of one call.
LEMMA WalksFacts ==
  ASSUME NEW F, NEW K, Walks(F, K)
  PROVE  /\ F \in [Forwards -> CForward] /\ K \in Seq(Frame) /\ Len(K) <= MaxDepth /\ Len(K) \in Nat
         /\ \A w \in Forwards : /\ F[w] \in CForward
                                /\ Distinct(F[w].m_functions) /\ F[w].m_functions \in Seq(Nodes)
                                /\ F[w].m_ExecDepth = Cardinality(CallsOf(K, w)) /\ F[w].m_ExecDepth \in Nat
                                /\ (F[w].m_ExecDepth > 0 => F[w].alive) /\ (F[w].m_deleted => F[w].m_ExecDepth > 0)
         /\ \A i \in 1..Len(K) : /\ K[i] \in Frame /\ K[i].fwd \in Forwards \cup {NULL}
                                 /\ Shape(K[i]) /\ (i # Len(K) => K[i].pc = "call")
                                 /\ K[i].fwd # NULL => Walking(K[i], F[K[i].fwd].m_functions)
<1>1. F \in [Forwards -> CForward] /\ K \in Seq(Frame) /\ Len(K) <= MaxDepth
  BY DEF Walks
<1>2. ASSUME NEW c \in CForward PROVE c.m_functions \in Seq(Nodes) /\ c.m_ExecDepth \in Nat
  BY DEF CForward
<1>3. ASSUME NEW f \in Frame PROVE f.fwd \in Forwards \cup {NULL}
  BY DEF Frame
<1>4. \A w \in Forwards : F[w] \in CForward
  BY <1>1
<1>5. Len(K) \in Nat /\ \A i \in 1..Len(K) : K[i] \in Frame
  BY <1>1
<1>6. \A w \in Forwards : /\ Distinct(F[w].m_functions) /\ F[w].m_ExecDepth = Cardinality(CallsOf(K, w))
                          /\ (F[w].m_ExecDepth > 0 => F[w].alive) /\ (F[w].m_deleted => F[w].m_ExecDepth > 0)
  BY DEF Walks
<1>7. \A i \in 1..Len(K) : /\ Shape(K[i]) /\ (i # Len(K) => K[i].pc = "call")
                           /\ K[i].fwd # NULL => Walking(K[i], F[K[i].fwd].m_functions)
  BY DEF Walks
<1> QED BY <1>1, <1>2, <1>3, <1>4, <1>5, <1>6, <1>7

\* The lists change under the calls K: functions are added at their ends, and
\* a forward that does not execute may come or go.
LEMMA ListsChange ==
  ASSUME NEW F, NEW K, Walks(F, K), NEW G \in [Forwards -> CForward],
         \A w \in Forwards :
           /\ G[w].m_ExecDepth = F[w].m_ExecDepth
           /\ G[w].m_ExecDepth > 0 => G[w].alive
           /\ G[w].m_deleted => G[w].m_ExecDepth > 0
           /\ \/ G[w].m_functions = F[w].m_functions
              \/ F[w].m_ExecDepth = 0 /\ Distinct(G[w].m_functions)
              \/ \E n \in Nodes : ~Has(F[w].m_functions, n) /\ G[w].m_functions = Append(F[w].m_functions, n)
  PROVE  Walks(G, K)
<1>1. /\ F \in [Forwards -> CForward] /\ K \in Seq(Frame) /\ Len(K) <= MaxDepth /\ NULL \notin Nodes
      /\ \A w \in Forwards : /\ Distinct(F[w].m_functions) /\ F[w].m_functions \in Seq(Nodes)
                             /\ F[w].m_ExecDepth = Cardinality(CallsOf(K, w))
      /\ \A i \in 1..Len(K) : K[i] \in Frame /\ K[i].fwd \in Forwards \cup {NULL}
  BY WalksFacts, ForwardAssumption
<1>2. ASSUME NEW w \in Forwards PROVE Distinct(G[w].m_functions)
  <2>1. PICK s \in Seq(Nodes) : s = F[w].m_functions /\ Distinct(s)
    BY <1>1
  <2>2. \A n \in Nodes : ~Has(s, n) => Distinct(Append(s, n))
    BY <2>1, AppendList
  <2> QED BY <2>1, <2>2
<1>3. ASSUME NEW i \in 1..Len(K), K[i].fwd # NULL PROVE Walking(K[i], G[K[i].fwd].m_functions)
  <2>1. PICK f \in Frame : f = K[i]
    BY <1>1
  <2>2. PICK w \in Forwards : w = f.fwd
    BY <1>1, <1>3, <2>1
  <2>3. Walking(f, F[w].m_functions)
    BY <1>3, <2>1, <2>2 DEF Walks
  <2>4. F[w].m_ExecDepth # 0
    BY <1>1, <2>1, <2>2, CallsFinite
  <2>5. CASE G[w].m_functions = F[w].m_functions
    BY <2>1, <2>2, <2>3, <2>5
  <2>6. CASE G[w].m_functions # F[w].m_functions
    <3>1. PICK n \in Nodes : ~Has(F[w].m_functions, n) /\ G[w].m_functions = Append(F[w].m_functions, n)
      BY <2>4, <2>6
    <3>2. Walking(f, Append(F[w].m_functions, n))
      BY <1>1, <2>3, <3>1, AppendWalk
    <3> QED BY <2>1, <2>2, <3>1, <3>2
  <2> QED BY <2>5, <2>6
<1>4. \A i \in 1..Len(K) : Shape(K[i]) /\ (i # Len(K) => K[i].pc = "call")
  BY DEF Walks
<1>5. \A w \in Forwards : /\ G[w].m_ExecDepth = Cardinality(CallsOf(K, w))
                          /\ G[w].m_ExecDepth > 0 => G[w].alive
                          /\ G[w].m_deleted => G[w].m_ExecDepth > 0
  BY <1>1
<1> QED BY <1>1, <1>2, <1>3, <1>4, <1>5 DEF Walks

\* A call begins.
LEMMA PushWalks ==
  ASSUME NEW F, NEW K, Walks(F, K), Len(K) < MaxDepth, K # <<>> => Last(K).pc = "call",
         NEW f \in Frame, Shape(f), NEW G \in [Forwards -> CForward],
         f.fwd # NULL => F[f.fwd].alive /\ Walking(f, F[f.fwd].m_functions),
         \A w \in Forwards :
           /\ G[w].m_ExecDepth = F[w].m_ExecDepth + (IF w = f.fwd THEN 1 ELSE 0)
           /\ (G[w].alive <=> F[w].alive) /\ (G[w].m_deleted <=> F[w].m_deleted)
           /\ G[w].m_functions = F[w].m_functions
  PROVE  Walks(G, Append(K, f))
<1> DEFINE M == Append(K, f)
           l == Len(K) + 1
<1>1. /\ F \in [Forwards -> CForward] /\ K \in Seq(Frame)
      /\ \A w \in Forwards : /\ Distinct(F[w].m_functions)
                             /\ F[w].m_ExecDepth = Cardinality(CallsOf(K, w)) /\ F[w].m_ExecDepth \in Nat
                             /\ (F[w].m_ExecDepth > 0 => F[w].alive) /\ (F[w].m_deleted => F[w].m_ExecDepth > 0)
      /\ \A i \in 1..Len(K) : K[i] \in Frame /\ K[i].fwd \in Forwards \cup {NULL}
  BY WalksFacts
<1>2. /\ M \in Seq(Frame) /\ Len(K) \in Nat /\ Len(M) = l
      /\ \A i \in 1..Len(K) : M[i] = K[i] /\ i \in 1..Len(M)
      /\ M[l] = f /\ l \in 1..Len(M)
      /\ \A i \in 1..Len(M) : i \in 1..Len(K) \/ i = l
  BY <1>1, PushFacts
<1> HIDE DEF M
<1>3. Len(M) <= MaxDepth
  BY <1>2, ForwardAssumption
<1>4. \A i \in 1..Len(K) : K[i].pc = "call" /\ Shape(K[i]) /\ (K[i].fwd # NULL => Walking(K[i], F[K[i].fwd].m_functions))
  <2>1. Len(K) \in 1..Len(K) => K # <<>> /\ Last(K) = K[Len(K)]
    BY <1>1 DEF Last
  <2> QED BY <2>1 DEF Walks
<1>5. ASSUME NEW i \in 1..Len(M)
      PROVE  /\ Shape(M[i]) /\ (i # Len(M) => M[i].pc = "call")
             /\ M[i].fwd # NULL => Walking(M[i], G[M[i].fwd].m_functions)
  <2>1. CASE i \in 1..Len(K)
    <3>1. i # Len(M)
      BY <1>2, <2>1
    <3>2. M[i].fwd # NULL => M[i].fwd \in Forwards
      BY <1>1, <1>2, <2>1
    <3> QED BY <1>2, <1>4, <2>1, <3>1, <3>2
  <2>2. CASE i = l
    <3>1. f.fwd # NULL => f.fwd \in Forwards
      BY DEF Frame
    <3> QED BY <1>2, <2>2, <3>1
  <2> QED BY <1>2, <2>1, <2>2
<1>6. ASSUME NEW w \in Forwards
      PROVE  Cardinality(CallsOf(M, w)) = Cardinality(CallsOf(K, w)) + (IF w = f.fwd THEN 1 ELSE 0)
  <2>1. IsFiniteSet(CallsOf(K, w)) /\ Cardinality(CallsOf(K, w)) \in Nat
    BY <1>1, CallsFinite
  <2>2. l \notin CallsOf(K, w)
    BY <1>2 DEF CallsOf
  <2>3. CASE w = f.fwd
    <3>1. CallsOf(M, w) = CallsOf(K, w) \cup {l}
      BY <1>2, <2>3 DEF CallsOf
    <3>2. Cardinality(CallsOf(K, w) \cup {l}) = Cardinality(CallsOf(K, w)) + 1
      <4> HIDE DEF l
      <4> QED BY <2>1, <2>2, FS_AddElement
    <3> QED BY <2>3, <3>1, <3>2
  <2>4. CASE w # f.fwd
    <3>1. CallsOf(M, w) = CallsOf(K, w)
      BY <1>2, <2>4 DEF CallsOf
    <3> QED BY <2>1, <2>4, <3>1
  <2> QED BY <2>3, <2>4
<1>7. ASSUME NEW w \in Forwards
      PROVE  /\ Distinct(G[w].m_functions)
             /\ G[w].m_ExecDepth = Cardinality(CallsOf(M, w))
             /\ G[w].m_ExecDepth > 0 => G[w].alive
             /\ G[w].m_deleted => G[w].m_ExecDepth > 0
  <2>1. f.fwd = w => f.fwd # NULL
    BY ForwardAssumption
  <2>2. G[w].m_ExecDepth = Cardinality(CallsOf(M, w)) /\ Distinct(G[w].m_functions)
    BY <1>1, <1>6
  <2>3. G[w].m_ExecDepth > 0 => G[w].alive
    BY <1>1, <2>1
  <2>4. G[w].m_deleted => G[w].m_ExecDepth > 0
    BY <1>1
  <2> QED BY <2>2, <2>3, <2>4
<1> QED BY <1>2, <1>3, <1>5, <1>7 DEF Walks, M

\* The innermost call ends.
LEMMA PopWalks ==
  ASSUME NEW F, NEW K, Walks(F, K), K # <<>>, NEW G \in [Forwards -> CForward],
         \A w \in Forwards : w # Last(K).fwd => G[w] = F[w],
         \A w \in Forwards : w = Last(K).fwd =>
           /\ G[w].m_ExecDepth = F[w].m_ExecDepth - 1
           /\ G[w].m_ExecDepth > 0 => G[w].alive
           /\ G[w].m_deleted => G[w].m_ExecDepth > 0
           /\ \/ G[w].m_functions = F[w].m_functions
              \/ G[w].m_ExecDepth = 0 /\ Distinct(G[w].m_functions)
  PROVE  Walks(G, Front(K))
<1> DEFINE M == Front(K)
           l == Len(K)
<1>1. /\ F \in [Forwards -> CForward] /\ K \in Seq(Frame) /\ Len(K) <= MaxDepth
      /\ \A w \in Forwards : /\ Distinct(F[w].m_functions)
                             /\ F[w].m_ExecDepth = Cardinality(CallsOf(K, w)) /\ F[w].m_ExecDepth \in Nat
                             /\ (F[w].m_ExecDepth > 0 => F[w].alive) /\ (F[w].m_deleted => F[w].m_ExecDepth > 0)
      /\ \A i \in 1..Len(K) : /\ K[i] \in Frame /\ K[i].fwd \in Forwards \cup {NULL}
                              /\ Shape(K[i]) /\ (i # Len(K) => K[i].pc = "call")
                              /\ K[i].fwd # NULL => Walking(K[i], F[K[i].fwd].m_functions)
  BY WalksFacts
<1>2. /\ M \in Seq(Frame) /\ l \in Nat \ {0} /\ Len(M) = l - 1
      /\ \A i \in 1..(l - 1) : M[i] = K[i]
  BY <1>1, FrontList
<1>3. Last(K) = K[l]
  BY DEF Last
<1> HIDE DEF M
<1>4. Len(M) <= MaxDepth /\ (\A i \in 1..Len(M) : i \in 1..Len(K) /\ i # l /\ M[i] = K[i]) /\ l \in 1..Len(K)
  BY <1>1, <1>2, ForwardAssumption
<1>5. ASSUME NEW w \in Forwards
      PROVE  Cardinality(CallsOf(M, w)) = Cardinality(CallsOf(K, w)) - (IF w = K[l].fwd THEN 1 ELSE 0)
  <2>1. IsFiniteSet(CallsOf(K, w)) /\ Cardinality(CallsOf(K, w)) \in Nat
    BY <1>1, CallsFinite
  <2>2. \A i \in 1..Len(K) : i = l \/ i \in 1..Len(M)
    BY <1>2
  <2>3. CallsOf(M, w) = CallsOf(K, w) \ {l}
    BY <1>4, <2>2 DEF CallsOf
  <2>4. l \in CallsOf(K, w) <=> w = K[l].fwd
    BY <1>4 DEF CallsOf
  <2>5. Cardinality(CallsOf(K, w) \ {l}) = IF l \in CallsOf(K, w) THEN Cardinality(CallsOf(K, w)) - 1
                                           ELSE Cardinality(CallsOf(K, w))
    <3> HIDE DEF l
    <3> QED BY <2>1, FS_RemoveElement
  <2> QED BY <2>1, <2>3, <2>4, <2>5
<1>6. ASSUME NEW w \in Forwards
      PROVE  /\ Distinct(G[w].m_functions)
             /\ G[w].m_ExecDepth = Cardinality(CallsOf(M, w))
             /\ G[w].m_ExecDepth > 0 => G[w].alive
             /\ G[w].m_deleted => G[w].m_ExecDepth > 0
  <2>1. CASE w = K[l].fwd
    BY <1>1, <1>3, <1>5, <2>1
  <2>2. CASE w # K[l].fwd
    <3>1. G[w] = F[w]
      BY <1>3, <2>2
    <3>2. Cardinality(CallsOf(M, w)) = Cardinality(CallsOf(K, w))
      BY <1>1, <1>5, <2>2
    <3> QED BY <1>1, <3>1, <3>2
  <2> QED BY <2>1, <2>2
<1>7. ASSUME NEW i \in 1..Len(M), M[i].fwd # NULL PROVE Walking(M[i], G[M[i].fwd].m_functions)
  <2>1. PICK w \in Forwards : w = M[i].fwd
    BY <1>1, <1>4, <1>7
  <2>2. Cardinality(CallsOf(M, w)) # 0
    BY <1>2, <2>1, CallsFinite
  <2>3. G[w].m_functions = F[w].m_functions
    BY <1>3, <1>6, <2>2
  <2> QED BY <1>1, <1>4, <1>7, <2>1, <2>3
<1>8. \A i \in 1..Len(M) : Shape(M[i]) /\ (i # Len(M) => M[i].pc = "call")
  BY <1>1, <1>4
<1> QED BY <1>2, <1>4, <1>6, <1>7, <1>8 DEF Walks, M

\* The innermost call goes on.
LEMMA TopWalks ==
  ASSUME NEW F, NEW K, Walks(F, K), K # <<>>, NEW f \in Frame, Shape(f),
         f.fwd = Last(K).fwd, f.fwd # NULL => Walking(f, F[f.fwd].m_functions)
  PROVE  Walks(F, [K EXCEPT ![Len(K)] = f])
<1> DEFINE M == [K EXCEPT ![Len(K)] = f]
<1>1. K \in Seq(Frame)
  BY DEF Walks
<1>2. /\ M \in Seq(Frame) /\ Len(K) \in 1..Len(K) /\ Len(M) = Len(K)
      /\ \A i \in 1..Len(K) : i # Len(K) => M[i] = K[i]
      /\ M[Len(K)] = f /\ f.fwd = K[Len(K)].fwd
  BY <1>1, SetTopFacts DEF Last
<1> HIDE DEF M
<1>3. \A w : CallsOf(M, w) = CallsOf(K, w)
  BY <1>2 DEF CallsOf
<1>4. ASSUME NEW i \in 1..Len(M)
      PROVE  /\ Shape(M[i]) /\ (i # Len(M) => M[i].pc = "call")
             /\ M[i].fwd # NULL => Walking(M[i], F[M[i].fwd].m_functions)
  BY <1>2 DEF Walks
<1> QED BY <1>2, <1>3, <1>4 DEF Walks, M

\* What iterator::remove and the removal make of a call.
Left(f, w, gone) == [Patched(f, w, gone) EXCEPT !.had = @ \ gone, !.seen = @ \ gone, !.twice = @ \ gone]

\* Its fields.
IsLeft(g, f, s, gone) ==
  /\ g \in Frame /\ g.fwd = f.fwd /\ g.plugin = f.plugin /\ g.pc = f.pc
  /\ g.had = f.had \ gone /\ g.seen = f.seen \ gone /\ g.twice = f.twice \ gone
  /\ f.impl_ \in gone => g.impl_ = FirstKept(s, f.impl_, gone) /\ g.mutated_
  /\ f.impl_ \notin gone => g.impl_ = f.impl_ /\ (g.mutated_ <=> f.mutated_)

\* Left is such a call.
LEMMA RemovedFrame ==
  ASSUME NULL \notin Nodes \cup Forwards, NEW w \in Forwards, NEW gone \in SUBSET Nodes,
         NEW s \in Seq(Nodes), s = fwd[w].m_functions, Distinct(s),
         NEW f \in Frame, f.fwd = w, Walking(f, s),
         NEW g, g = Left(f, w, gone)
  PROVE  IsLeft(g, f, s, gone)
<1>1. CASE f.impl_ \in gone
  <2>1. f.impl_ # NULL /\ Has(s, f.impl_)
    BY <1>1 DEF Walking
  <2>2. PICK n : n = FirstKept(s, f.impl_, gone)
    OBVIOUS
  <2>3. n \in Nodes \cup {NULL}
    BY <1>1, <2>1, <2>2, KeptList
  <2>4. g = [[f EXCEPT !.impl_ = n, !.mutated_ = TRUE]
               EXCEPT !.had = @ \ gone, !.seen = @ \ gone, !.twice = @ \ gone]
    BY <1>1, <2>2 DEF Patched, Left
  <2>5. /\ g \in Frame /\ g.fwd = f.fwd /\ g.plugin = f.plugin /\ g.pc = f.pc
        /\ g.had = f.had \ gone /\ g.seen = f.seen \ gone /\ g.twice = f.twice \ gone
        /\ g.impl_ = n /\ g.mutated_ = TRUE
    BY ONLY <2>3, <2>4, f \in Frame DEF Frame
  <2> QED BY <1>1, <2>2, <2>5 DEF IsLeft
<1>2. CASE f.impl_ \notin gone
  <2>1. g = [f EXCEPT !.had = @ \ gone, !.seen = @ \ gone, !.twice = @ \ gone]
    BY <1>2 DEF Patched, Left
  <2>2. /\ g \in Frame /\ g.fwd = f.fwd /\ g.plugin = f.plugin /\ g.pc = f.pc
        /\ g.had = f.had \ gone /\ g.seen = f.seen \ gone /\ g.twice = f.twice \ gone
        /\ g.impl_ = f.impl_ /\ g.mutated_ = f.mutated_
    BY ONLY <2>1, f \in Frame DEF Frame
  <2> QED BY <1>2, <2>2 DEF IsLeft
<1> QED BY <1>1, <1>2

\* Nodes are removed while every call is in a callback.
LEMMA RemoveWalks ==
  ASSUME Walks(fwd, stack), ClientTurn,
         NEW w \in Forwards, NEW gone \in SUBSET Nodes, NEW G \in [Forwards -> CForward],
         \A v \in Forwards : v # w => G[v] = fwd[v],
         G[w].m_functions = Filter(fwd[w].m_functions, Nodes \ gone),
         G[w].m_ExecDepth = fwd[w].m_ExecDepth,
         (G[w].alive <=> fwd[w].alive) /\ (G[w].m_deleted <=> fwd[w].m_deleted)
  PROVE  /\ Walks(G, Removed(w, gone))
         /\ \A p : Told(Removed(w, gone), p) <=> Told(stack, p)
<1>1. PICK K : K = Removed(w, gone)
  OBVIOUS
<1>2. PICK s \in Seq(Nodes) : s = fwd[w].m_functions /\ Distinct(s)
  BY WalksFacts
<1>3. /\ stack \in Seq(Frame) /\ Len(stack) <= MaxDepth /\ Len(stack) \in Nat
      /\ NULL \notin Nodes /\ NULL \notin Forwards /\ NULL \notin Nodes \cup Forwards
  BY WalksFacts, ForwardAssumption
<1>4. \A i \in 1..Len(stack) : stack[i] \in Frame /\ stack[i].pc = "call" /\ Shape(stack[i])
  <2>1. stack # <<>> => Last(stack) = stack[Len(stack)]
    BY DEF Last
  <2> QED BY <2>1, <1>3, WalksFacts DEF ClientTurn, Top
<1>5. DOMAIN K = 1..Len(stack) /\ \A i \in 1..Len(stack) :
        K[i] = IF stack[i].fwd = w
               THEN Left(stack[i], w, gone)
               ELSE stack[i]
  <2>1. DOMAIN stack = 1..Len(stack)
    BY <1>3
  <2>2. \A i \in 1..Len(stack) : Patched(stack[i], w, gone).fwd = stack[i].fwd /\ (stack[i].fwd # w => Patched(stack[i], w, gone) = stack[i])
    <3> SUFFICES ASSUME NEW f \in Frame PROVE Patched(f, w, gone).fwd = f.fwd /\ (f.fwd # w => Patched(f, w, gone) = f)
      BY <1>4
    <3> QED BY DEF Patched, Frame
  <2> QED BY <1>1, <2>1, <2>2 DEF Removed, Left
<1>6. ASSUME NEW i \in 1..Len(stack)
      PROVE  /\ K[i] \in Frame /\ K[i].fwd = stack[i].fwd /\ K[i].plugin = stack[i].plugin
             /\ K[i].pc = "call" /\ Shape(K[i])
             /\ K[i].fwd # NULL => Walking(K[i], G[K[i].fwd].m_functions)
  <2>1. PICK f \in Frame : f = stack[i] /\ f.pc = "call" /\ Shape(f)
    BY <1>4
  <2>2. PICK g : g = K[i]
    OBVIOUS
  <2>3. CASE f.fwd = w
    <3>1. Walking(f, s)
      BY <1>2, <1>3, <2>1, <2>3, WalksFacts
    <3>2. g = Left(f, w, gone)
      BY <1>5, <2>1, <2>2, <2>3
    <3>3. /\ g \in Frame /\ g.fwd = f.fwd /\ g.plugin = f.plugin /\ g.pc = f.pc
          /\ g.had = f.had \ gone /\ g.seen = f.seen \ gone /\ g.twice = f.twice \ gone
          /\ f.impl_ \in gone => g.impl_ = FirstKept(s, f.impl_, gone) /\ g.mutated_
          /\ f.impl_ \notin gone => g.impl_ = f.impl_ /\ (g.mutated_ <=> f.mutated_)
      <4>1. IsLeft(g, f, s, gone)
        BY <1>2, <1>3, <2>3, <3>1, <3>2, RemovedFrame
      <4> QED BY <4>1 DEF IsLeft
    <3>4. Walking(g, Filter(s, Nodes \ gone))
      BY <1>2, <1>3, <2>1, <3>1, <3>3, RemoveWalk
    <3>5. Shape(g)
      BY <1>3, <2>1, <2>3, <3>3 DEF Shape
    <3> QED BY <1>2, <2>1, <2>2, <2>3, <3>3, <3>4, <3>5
  <2>4. CASE f.fwd # w
    <3>1. g = f
      BY <1>5, <2>1, <2>2, <2>4
    <3>2. f.fwd # NULL => f.fwd \in Forwards /\ Walking(f, fwd[f.fwd].m_functions)
      BY <2>1, WalksFacts
    <3> QED BY <2>1, <2>2, <2>4, <3>1, <3>2
  <2> QED BY <2>3, <2>4
<1>7. K \in Seq(Frame) /\ Len(K) = Len(stack)
  <2>1. K = [i \in 1..Len(stack) |-> K[i]]
    BY <1>1, <1>5 DEF Removed
  <2>2. PICK m \in Nat : m = Len(stack)
    BY <1>3
  <2>3. K \in [1..m -> Frame]
    BY <1>6, <2>1, <2>2
  <2>4. K \in Seq(Frame) /\ Len(K) = m
    BY ONLY <2>3, m \in Nat
  <2> QED BY <2>2, <2>4
<1>8. \A v : CallsOf(K, v) = CallsOf(stack, v)
  BY <1>6, <1>7 DEF CallsOf
<1>9. ASSUME NEW v \in Forwards
      PROVE  /\ Distinct(G[v].m_functions) /\ G[v].m_ExecDepth = Cardinality(CallsOf(K, v))
             /\ (G[v].m_ExecDepth > 0 => G[v].alive) /\ (G[v].m_deleted => G[v].m_ExecDepth > 0)
  <2>1. Distinct(Filter(s, Nodes \ gone))
    BY <1>2, FilterList
  <2> QED BY <1>2, <1>8, <2>1, WalksFacts
<1>10. Walks(G, K)
  BY <1>3, <1>6, <1>7, <1>9 DEF Walks
<1>11. \A p : Told(K, p) <=> Told(stack, p)
  BY <1>6, <1>7 DEF Told
<1> QED BY <1>1, <1>10, <1>11

-----------------------------------------------------------------------------
(* Registration.                                                           *)

\* What Registered says is kept when lists only lose functions, the managed
\* forwards keep theirs, and no plugin starts to run that is not told first.
LEMMA KeepRegistered ==
  ASSUME NEW F, NEW G, NEW fn \in [Nodes -> Funcs], NEW st, NEW su, NEW K, NEW M, Registered(F, fn, st, K),
         \A w \in Forwards : \A n \in Nodes : Has(G[w].m_functions, n) => Has(F[w].m_functions, n),
         \A w \in Forwards : G[w].alive /\ G[w].managed =>
           F[w].alive /\ F[w].managed /\ G[w].m_functions = F[w].m_functions,
         \A p \in Plugins : /\ st[p] # "none" => su[p] # "none"
                            /\ su[p] = "running" /\ ~Told(M, p) => st[p] = "running" /\ ~Told(K, p)
  PROVE  Registered(G, fn, su, M)
<1>1. (\A n \in Nodes : Owner[fn[n]] \in Plugins) /\ (\A f \in Public : Owner[f] \in Plugins)
  BY ForwardAssumption
<1>2. \A w \in Forwards, n \in Nodes : Has(G[w].m_functions, n) => su[Owner[fn[n]]] # "none"
  BY <1>1 DEF Registered
<1>3. ASSUME NEW w \in Forwards, NEW f \in Public, G[w].alive /\ G[w].managed
      PROVE  /\ Once(G[w].m_functions, fn, f)
             /\ su[Owner[f]] = "running" /\ ~Told(M, Owner[f]) => In(G[w].m_functions, fn, f)
  BY <1>1, <1>3 DEF Registered
<1> QED BY <1>2, <1>3 DEF Registered

\* A free node is in no list.
LEMMA FreeNodes ==
  ASSUME NEW n, n \notin UsedNodes, NEW w \in Forwards, fwd[w].m_functions \in Seq(Nodes)
  PROVE  ~Has(fwd[w].m_functions, n)
  BY RangeHas DEF UsedNodes

\* What free nodes hold does not matter.
LEMMA FreshNodes ==
  ASSUME NEW F, NEW fn, NEW gn, NEW st, NEW K, Registered(F, fn, st, K),
         \A w \in Forwards, n \in Nodes : Has(F[w].m_functions, n) => gn[n] = fn[n]
  PROVE  Registered(F, gn, st, K)
<1>1. \A w \in Forwards, n \in Nodes : Has(F[w].m_functions, n) => st[Owner[gn[n]]] # "none"
  BY DEF Registered
<1>2. ASSUME NEW w \in Forwards, NEW f \in Public, F[w].alive /\ F[w].managed
      PROVE  /\ Once(F[w].m_functions, gn, f)
             /\ st[Owner[f]] = "running" /\ ~Told(K, Owner[f]) => In(F[w].m_functions, gn, f)
  <2>1. Once(F[w].m_functions, fn, f)
    BY <1>2 DEF Registered
  <2>2. Once(F[w].m_functions, gn, f)
    BY <2>1 DEF Once
  <2>3. In(F[w].m_functions, fn, f) => In(F[w].m_functions, gn, f)
    BY DEF In
  <2> QED BY <1>2, <2>2, <2>3 DEF Registered
<1> QED BY <1>1, <1>2 DEF Registered

-----------------------------------------------------------------------------
(* Steps of clients.                                                       *)

\* The record of an address that holds no forward.
LEMMA DeadFacts ==
  ASSUME NEW c, c = [New(FALSE, <<>>, <<>>) EXCEPT !.alive = FALSE]
  PROVE  /\ c \in CForward /\ c.alive = FALSE /\ c.managed = FALSE
         /\ c.m_ExecDepth = 0 /\ c.m_deleted = FALSE /\ c.m_functions = <<>>
<1>1. c = [ alive |-> FALSE, managed |-> FALSE, m_ExecDepth |-> 0, m_deleted |-> FALSE,
            m_functions |-> <<>>, m_paused |-> <<>> ]
  BY DEF New
<1>2. <<>> \in Seq(Nodes) /\ <<>> \in Seq(Funcs)
  OBVIOUS
<1> QED BY ONLY <1>1, <1>2 DEF CForward

\* The state's parts.
LEMMA Parts ==
  ASSUME IInv
  PROVE  /\ Walks(fwd, stack) /\ Registered(fwd, func, status, stack)
         /\ func \in [Nodes -> Funcs] /\ status \in [Plugins -> Statuses]
         /\ fwd \in [Forwards -> CForward] /\ stack \in Seq(Frame)
         /\ \A w \in Forwards : /\ fwd[w] \in CForward /\ fwd[w].m_ExecDepth \in Nat
                                /\ fwd[w].m_functions \in Seq(Nodes) /\ Distinct(fwd[w].m_functions)
  BY WalksFacts DEF IInv

\* A private forward is created.
LEMMA CreateForwardExStep ==
  ASSUME IInv, NEW w \in Forwards, CreateForwardEx(w)
  PROVE  IInv'
<1>1. PICK c : c = New(FALSE, <<>>, <<>>)
  OBVIOUS
<1>2. /\ c \in CForward /\ c.alive = TRUE /\ c.managed = FALSE
      /\ c.m_ExecDepth = 0 /\ c.m_deleted = FALSE /\ c.m_functions = <<>>
  <2>1. <<>> \in Seq(Nodes) /\ <<>> \in Seq(Funcs)
    OBVIOUS
  <2> QED BY ONLY <1>1, <2>1 DEF New, CForward
<1>3. fwd' = [fwd EXCEPT ![w] = c] /\ ~fwd[w].alive /\ func' = func /\ status' = status /\ stack' = stack
  BY <1>1 DEF CreateForwardEx
<1>4. fwd' \in [Forwards -> CForward] /\ fwd'[w] = c /\ \A v \in Forwards : v # w => fwd'[v] = fwd[v]
  BY <1>2, <1>3, Parts
<1>5. fwd[w].m_ExecDepth = 0
  BY <1>3, Parts, WalksFacts
<1>6. Walks(fwd', stack)
  <2>1. Distinct(<<>>)
    BY EmptyList
  <2>2. \A v \in Forwards :
          /\ fwd'[v].m_ExecDepth = fwd[v].m_ExecDepth
          /\ fwd'[v].m_ExecDepth > 0 => fwd'[v].alive
          /\ fwd'[v].m_deleted => fwd'[v].m_ExecDepth > 0
          /\ \/ fwd'[v].m_functions = fwd[v].m_functions
             \/ fwd[v].m_ExecDepth = 0 /\ Distinct(fwd'[v].m_functions)
    BY <1>2, <1>4, <1>5, <2>1, Parts, WalksFacts
  <2> QED BY <1>4, <2>2, Parts, ListsChange
<1>7. Registered(fwd', func, status, stack)
  <2>1. \A v \in Forwards : \A n \in Nodes : Has(fwd'[v].m_functions, n) => Has(fwd[v].m_functions, n)
    BY <1>2, <1>4, EmptyList
  <2>2. \A v \in Forwards : fwd'[v].alive /\ fwd'[v].managed =>
          fwd[v].alive /\ fwd[v].managed /\ fwd'[v].m_functions = fwd[v].m_functions
    BY <1>2, <1>4
  <2> QED BY <2>1, <2>2, Parts, KeepRegistered
<1> QED BY <1>3, <1>6, <1>7, Parts DEF IInv

\* A forward is released: deleted now, or marked while it executes.
LEMMA ReleaseForwardStep ==
  ASSUME IInv, NEW w \in Forwards, ReleaseForward(w)
  PROVE  IInv'
<1>1. PICK c : c = fwd'[w]
  OBVIOUS
<1>2. fwd[w].alive /\ func' = func /\ status' = status /\ stack' = stack
  BY DEF ReleaseForward, Held
<1>3. /\ fwd' = [fwd EXCEPT ![w] = c] /\ c \in CForward /\ c.m_ExecDepth = fwd[w].m_ExecDepth
      /\ (c.m_ExecDepth > 0 => c.alive) /\ (c.m_deleted => c.m_ExecDepth > 0)
      /\ \/ c.m_functions = fwd[w].m_functions /\ (c.managed <=> fwd[w].managed)
         \/ fwd[w].m_ExecDepth = 0 /\ c.m_functions = <<>> /\ ~c.managed
  <2>1. CASE fwd[w].m_ExecDepth > 0
    <3>1. fwd' = [fwd EXCEPT ![w].m_deleted = TRUE]
      BY <2>1 DEF ReleaseForward, Release
    <3>2. PICK d \in CForward : d = fwd[w]
      BY Parts
    <3>3. c = [d EXCEPT !.m_deleted = TRUE] /\ fwd' = [fwd EXCEPT ![w] = c]
      BY <1>1, <3>1, <3>2, Parts
    <3>4. /\ c \in CForward /\ c.m_ExecDepth = d.m_ExecDepth /\ c.alive = d.alive
          /\ c.m_functions = d.m_functions /\ c.managed = d.managed
      BY ONLY <3>3, d \in CForward DEF CForward
    <3> QED BY <1>2, <2>1, <3>2, <3>3, <3>4
  <2>2. CASE ~(fwd[w].m_ExecDepth > 0)
    <3>1. fwd[w].m_ExecDepth = 0
      BY <2>2, Parts
    <3>2. PICK d : d = [New(FALSE, <<>>, <<>>) EXCEPT !.alive = FALSE]
      OBVIOUS
    <3>3. fwd' = [fwd EXCEPT ![w] = d]
      BY <2>2, <3>2 DEF ReleaseForward, Release
    <3>4. c = d
      BY <1>1, <3>3, Parts
    <3>5. /\ d \in CForward /\ d.alive = FALSE /\ d.managed = FALSE
          /\ d.m_ExecDepth = 0 /\ d.m_deleted = FALSE /\ d.m_functions = <<>>
      BY <3>2, DeadFacts
    <3> QED BY <3>1, <3>3, <3>4, <3>5
  <2> QED BY <2>1, <2>2
<1>4. fwd' \in [Forwards -> CForward] /\ fwd'[w] = c /\ \A v \in Forwards : v # w => fwd'[v] = fwd[v]
  BY <1>3, Parts
<1>5. Walks(fwd', stack)
  <2>1. Distinct(<<>>)
    BY EmptyList
  <2>2. \A v \in Forwards :
          /\ fwd'[v].m_ExecDepth = fwd[v].m_ExecDepth
          /\ fwd'[v].m_ExecDepth > 0 => fwd'[v].alive
          /\ fwd'[v].m_deleted => fwd'[v].m_ExecDepth > 0
          /\ \/ fwd'[v].m_functions = fwd[v].m_functions
             \/ fwd[v].m_ExecDepth = 0 /\ Distinct(fwd'[v].m_functions)
    BY <1>3, <1>4, <2>1, Parts, WalksFacts
  <2> QED BY <1>4, <2>2, Parts, ListsChange
<1>6. Registered(fwd', func, status, stack)
  <2>1. \A v \in Forwards : \A n \in Nodes : Has(fwd'[v].m_functions, n) => Has(fwd[v].m_functions, n)
    BY <1>3, <1>4, EmptyList
  <2>2. \A v \in Forwards : fwd'[v].alive /\ fwd'[v].managed =>
          fwd[v].alive /\ fwd[v].managed /\ fwd'[v].m_functions = fwd[v].m_functions
    BY <1>2, <1>3, <1>4
  <2> QED BY <2>1, <2>2, Parts, KeepRegistered
<1> QED BY <1>2, <1>5, <1>6, Parts DEF IInv

\* m_paused does not matter.
LEMMA SamePaused ==
  ASSUME IInv, NEW G \in [Forwards -> CForward],
         \A v \in Forwards :
           /\ (G[v].alive <=> fwd[v].alive) /\ (G[v].managed <=> fwd[v].managed)
           /\ G[v].m_ExecDepth = fwd[v].m_ExecDepth
           /\ (G[v].m_deleted <=> fwd[v].m_deleted) /\ G[v].m_functions = fwd[v].m_functions
  PROVE  Walks(G, stack) /\ Registered(G, func, status, stack)
<1>1. \A v \in Forwards :
        /\ G[v].m_ExecDepth = fwd[v].m_ExecDepth
        /\ G[v].m_ExecDepth > 0 => G[v].alive
        /\ G[v].m_deleted => G[v].m_ExecDepth > 0
        /\ G[v].m_functions = fwd[v].m_functions
  BY Parts, WalksFacts
<1>2. Walks(G, stack)
  BY <1>1, Parts, ListsChange
<1>3. Registered(G, func, status, stack)
  BY Parts, KeepRegistered
<1> QED BY <1>2, <1>3

\* A function is added to a private forward.
LEMMA AddFunctionStep ==
  ASSUME IInv, NEW w \in Forwards, NEW f \in Funcs, NEW n \in Nodes, AddFunction(w, f, n)
  PROVE  IInv'
<1>1. PICK d \in CForward : d = fwd[w]
  BY Parts
<1>2. d.alive /\ ~d.managed /\ status[Owner[f]] # "none" /\ status' = status /\ stack' = stack
  BY <1>1 DEF AddFunction, Held, Loaded
<1>3. CASE IsRunnable(f)
  <2>1. /\ n \notin UsedNodes /\ fwd' = [fwd EXCEPT ![w].m_functions = Append(@, n)]
        /\ func' = [func EXCEPT ![n] = f]
    BY <1>3 DEF AddFunction, Add
  <2>2. \A v \in Forwards : ~Has(fwd[v].m_functions, n)
    BY <2>1, Parts, FreeNodes
  <2>3. PICK c : c = [d EXCEPT !.m_functions = Append(@, n)]
    OBVIOUS
  <2>4. d.m_functions \in Seq(Nodes)
    BY ONLY d \in CForward DEF CForward
  <2>5. Append(d.m_functions, n) \in Seq(Nodes)
    BY <2>4
  <2>6. /\ c \in CForward /\ c.alive = d.alive /\ c.managed = d.managed /\ c.m_ExecDepth = d.m_ExecDepth
        /\ c.m_deleted = d.m_deleted /\ c.m_functions = Append(d.m_functions, n)
    BY ONLY <2>3, <2>5, d \in CForward DEF CForward
  <2>7. fwd' \in [Forwards -> CForward] /\ fwd'[w] = c /\ \A v \in Forwards : v # w => fwd'[v] = fwd[v]
    BY <1>1, <2>1, <2>3, <2>6, Parts
  <2>8. func' \in [Nodes -> Funcs] /\ func'[n] = f /\ \A m \in Nodes : m # n => func'[m] = func[m]
    BY <2>1, Parts
  <2>9. Walks(fwd', stack)
    <3>1. \A v \in Forwards :
            /\ fwd'[v].m_ExecDepth = fwd[v].m_ExecDepth
            /\ fwd'[v].m_ExecDepth > 0 => fwd'[v].alive
            /\ fwd'[v].m_deleted => fwd'[v].m_ExecDepth > 0
            /\ \/ fwd'[v].m_functions = fwd[v].m_functions
               \/ \E m \in Nodes : ~Has(fwd[v].m_functions, m) /\ fwd'[v].m_functions = Append(fwd[v].m_functions, m)
      <4>1. \A v \in Forwards : /\ fwd[v].m_ExecDepth > 0 => fwd[v].alive
                                /\ fwd[v].m_deleted => fwd[v].m_ExecDepth > 0
        BY Parts, WalksFacts
      <4>2. /\ fwd'[w].m_ExecDepth = fwd[w].m_ExecDepth /\ fwd'[w].alive = fwd[w].alive
            /\ fwd'[w].m_deleted = fwd[w].m_deleted /\ fwd'[w].m_functions = Append(fwd[w].m_functions, n)
        BY <1>1, <2>6, <2>7
      <4> QED BY <2>2, <2>7, <4>1, <4>2
    <3> QED BY <2>7, <3>1, Parts, ListsChange
  <2>10. Registered(fwd, func', status, stack)
    <3>1. \A v \in Forwards, m \in Nodes : Has(fwd[v].m_functions, m) => func'[m] = func[m]
      BY <2>2, <2>8
    <3> QED BY <3>1, Parts, FreshNodes
  <2>11. Registered(fwd', func', status, stack)
    <3>1. ASSUME NEW v \in Forwards, NEW m \in Nodes, Has(fwd'[v].m_functions, m)
          PROVE  status[Owner[func'[m]]] # "none"
      <4>1. Has(fwd[v].m_functions, m) \/ m = n
        <5>1. Has(Append(d.m_functions, n), m) => Has(d.m_functions, m) \/ m = n
          BY <2>4, AppendList
        <5>2. v = w => fwd'[v].m_functions = Append(d.m_functions, n) /\ fwd[v].m_functions = d.m_functions
          BY <1>1, <2>6, <2>7
        <5>3. v # w => fwd'[v] = fwd[v]
          BY <2>7
        <5> QED BY <3>1, <5>1, <5>2, <5>3
      <4> QED BY <1>2, <2>8, <2>10, <4>1 DEF Registered
    <3>2. \A v \in Forwards : fwd'[v].alive /\ fwd'[v].managed => fwd'[v] = fwd[v]
      BY <1>2, <2>6, <2>7
    <3> QED BY <2>10, <3>1, <3>2 DEF Registered
  <2> QED BY <1>2, <2>8, <2>9, <2>11, Parts DEF IInv
<1>4. CASE ~IsRunnable(f)
  <2>1. fwd' = [fwd EXCEPT ![w].m_paused = Append(@, f)] /\ func' = func
    BY <1>4 DEF AddFunction, Add
  <2>2. PICK c : c = [d EXCEPT !.m_paused = Append(@, f)]
    OBVIOUS
  <2>3. d.m_paused \in Seq(Funcs)
    BY ONLY d \in CForward DEF CForward
  <2>4. Append(d.m_paused, f) \in Seq(Funcs)
    BY <2>3
  <2>5. /\ c \in CForward /\ c.alive = d.alive /\ c.managed = d.managed /\ c.m_ExecDepth = d.m_ExecDepth
        /\ c.m_deleted = d.m_deleted /\ c.m_functions = d.m_functions
    BY ONLY <2>2, <2>4, d \in CForward DEF CForward
  <2>6. fwd' \in [Forwards -> CForward] /\ fwd'[w] = c /\ \A v \in Forwards : v # w => fwd'[v] = fwd[v]
    BY <1>1, <2>1, <2>2, <2>5, Parts
  <2>7. Walks(fwd', stack) /\ Registered(fwd', func, status, stack)
    BY <1>1, <2>5, <2>6, SamePaused
  <2> QED BY <1>2, <2>1, <2>7, Parts DEF IInv
<1> QED BY <1>3, <1>4

\* Nothing is removed.
LEMMA NothingRemoved ==
  ASSUME IInv, NEW w \in Forwards
  PROVE  Removed(w, {}) = stack
<1>1. DOMAIN stack = 1..Len(stack) /\ \A i \in 1..Len(stack) : stack[i] \in Frame
  BY Parts
<1>2. ASSUME NEW f \in Frame
      PROVE  /\ Patched(f, w, {}) = f
             /\ [f EXCEPT !.had = @ \ {}, !.seen = @ \ {}, !.twice = @ \ {}] = f
  <2>1. Patched(f, w, {}) = f
    BY DEF Patched
  <2>2. f.had \ {} = f.had /\ f.seen \ {} = f.seen /\ f.twice \ {} = f.twice
    OBVIOUS
  <2>3. [f EXCEPT !.had = f.had, !.seen = f.seen, !.twice = f.twice] = f
    BY ONLY f \in Frame DEF Frame
  <2> QED BY <2>1, <2>2, <2>3
<1>3. \A i \in 1..Len(stack) : Removed(w, {})[i] = stack[i]
  BY <1>1, <1>2 DEF Removed
<1>4. Removed(w, {}) = [i \in 1..Len(stack) |-> Removed(w, {})[i]]
  BY <1>1 DEF Removed
<1>5. stack = [i \in 1..Len(stack) |-> stack[i]]
  BY Parts
<1> QED BY <1>3, <1>4, <1>5

\* Nodes of a private forward are removed.
LEMMA RemoveStep ==
  ASSUME IInv, ClientTurn, NEW w \in Forwards, ~fwd[w].managed, NEW gone \in SUBSET Nodes,
         fwd' = [fwd EXCEPT ![w].m_functions = WithoutNodes(@, gone)], stack' = Removed(w, gone),
         func' = func, status' = status
  PROVE  IInv'
<1>1. PICK d \in CForward : d = fwd[w]
  BY Parts
<1>2. PICK c : c = [d EXCEPT !.m_functions = Filter(@, Nodes \ gone)]
  OBVIOUS
<1>3. d.m_functions \in Seq(Nodes)
  BY ONLY d \in CForward DEF CForward
<1>4. Filter(d.m_functions, Nodes \ gone) \in Seq(Nodes)
  BY <1>3, FilterList
<1>5. /\ c \in CForward /\ c.alive = d.alive /\ c.managed = d.managed /\ c.m_ExecDepth = d.m_ExecDepth
      /\ c.m_deleted = d.m_deleted /\ c.m_functions = Filter(d.m_functions, Nodes \ gone)
  BY ONLY <1>2, <1>4, d \in CForward DEF CForward
<1>6. fwd' \in [Forwards -> CForward] /\ fwd'[w] = c /\ \A v \in Forwards : v # w => fwd'[v] = fwd[v]
  BY <1>1, <1>2, <1>5, Parts DEF WithoutNodes
<1>7. Walks(fwd', stack') /\ \A p : Told(stack', p) <=> Told(stack, p)
  <2>1. /\ fwd'[w].m_functions = Filter(fwd[w].m_functions, Nodes \ gone)
        /\ fwd'[w].m_ExecDepth = fwd[w].m_ExecDepth
        /\ (fwd'[w].alive <=> fwd[w].alive) /\ (fwd'[w].m_deleted <=> fwd[w].m_deleted)
    BY <1>1, <1>5, <1>6
  <2>2. Walks(fwd, stack)
    BY Parts
  <2> QED BY <1>6, <2>1, <2>2, RemoveWalks
<1>8. Registered(fwd', func, status, stack')
  <2>1. \A v \in Forwards : \A n \in Nodes : Has(fwd'[v].m_functions, n) => Has(fwd[v].m_functions, n)
    <3>1. \A n : Has(Filter(d.m_functions, Nodes \ gone), n) => Has(d.m_functions, n)
      BY <1>3, FilterList
    <3> QED BY <1>1, <1>5, <1>6, <3>1
  <2>2. \A v \in Forwards : fwd'[v].alive /\ fwd'[v].managed =>
          fwd[v].alive /\ fwd[v].managed /\ fwd'[v].m_functions = fwd[v].m_functions
    BY <1>1, <1>5, <1>6
  <2> QED BY <1>7, <2>1, <2>2, Parts, KeepRegistered
<1> QED BY <1>7, <1>8, Parts DEF IInv

\* RemoveFromForward.
LEMMA RemoveFunctionStep ==
  ASSUME IInv, NEW w \in Forwards, NEW f \in Funcs, RemoveFunction(w, f)
  PROVE  IInv'
<1>1. PICK s \in Seq(Nodes) : s = fwd[w].m_functions
  BY Parts
<1> DEFINE B == {i \in DOMAIN s : func[s[i]] = f}
           gone == IF IsRunnable(f) /\ B # {} THEN {s[Min(B)]} ELSE {}
<1>2. /\ ClientTurn /\ ~fwd[w].managed /\ func' = func /\ status' = status /\ stack' = Removed(w, gone)
      /\ fwd' = IF IsRunnable(f) THEN [fwd EXCEPT ![w].m_functions = WithoutNodes(@, gone)]
                ELSE [fwd EXCEPT ![w].m_paused = Filter(@, Funcs \ {f})]
  BY <1>1 DEF RemoveFunction
<1>3. gone \in SUBSET Nodes
  <2>1. B \subseteq Nat /\ \A i \in B : s[i] \in Nodes
    OBVIOUS
  <2>2. B # {} => Min(B) \in B
    <3> HIDE DEF B
    <3> QED BY <2>1, MinFacts
  <2> QED BY <2>1, <2>2
<1>4. CASE IsRunnable(f)
  <2> HIDE DEF gone
  <2> QED BY <1>2, <1>3, <1>4, RemoveStep
<1>5. CASE ~IsRunnable(f)
  <2>1. gone = {}
    BY <1>5
  <2>2. PICK d \in CForward : d = fwd[w]
    BY Parts
  <2>3. PICK c : c = [d EXCEPT !.m_paused = Filter(@, Funcs \ {f})]
    OBVIOUS
  <2>4. d.m_paused \in Seq(Funcs)
    BY ONLY d \in CForward DEF CForward
  <2>5. Filter(d.m_paused, Funcs \ {f}) \in Seq(Funcs)
    BY <2>4, FilterList
  <2>6. /\ c \in CForward /\ c.alive = d.alive /\ c.managed = d.managed /\ c.m_ExecDepth = d.m_ExecDepth
        /\ c.m_deleted = d.m_deleted /\ c.m_functions = d.m_functions
    BY ONLY <2>3, <2>5, d \in CForward DEF CForward
  <2>7. fwd' \in [Forwards -> CForward] /\ fwd'[w] = c /\ \A v \in Forwards : v # w => fwd'[v] = fwd[v]
    BY <1>2, <1>5, <2>2, <2>3, <2>6, Parts
  <2>8. Walks(fwd', stack) /\ Registered(fwd', func, status, stack)
    BY <2>2, <2>6, <2>7, SamePaused
  <2>9. stack' = stack
    BY <1>2, <2>1, NothingRemoved
  <2> QED BY <1>2, <2>8, <2>9, Parts DEF IInv
<1> QED BY <1>4, <1>5

\* RemoveFromForward of all functions of a plugin.
LEMMA RemoveFunctionsOfPluginStep ==
  ASSUME IInv, NEW w \in Forwards, NEW p \in Plugins, RemoveFunctionsOfPlugin(w, p)
  PROVE  IInv'
<1>1. NodesOf(w, p) \in SUBSET Nodes
  BY Parts, RangeHas, HasType DEF NodesOf
<1> QED BY <1>1, RemoveStep DEF RemoveFunctionsOfPlugin

\* A plugin is paused.
LEMMA PauseStep ==
  ASSUME IInv, NEW p \in Plugins, NEW as \in {"paused", "error"}, Pause(p, as)
  PROVE  IInv'
<1>1. /\ status[p] = "running" /\ status' = [status EXCEPT ![p] = as]
      /\ fwd' = fwd /\ func' = func /\ stack' = stack
  BY DEF Pause
<1>2. /\ status' \in [Plugins -> Statuses] /\ status'[p] = as
      /\ \A q \in Plugins : q # p => status'[q] = status[q]
  BY <1>1, Parts DEF Statuses
<1>3. \A q \in Plugins : /\ status[q] # "none" => status'[q] # "none"
                         /\ status'[q] = "running" => status[q] = "running"
  BY <1>2
<1>4. Registered(fwd, func, status', stack)
  BY <1>3, Parts, KeepRegistered
<1> QED BY <1>1, <1>2, <1>4, Parts DEF IInv

\* A plugin runs again and is told so.
LEMMA ResumeStep ==
  ASSUME IInv, NEW p \in Plugins, Resume(p)
  PROVE  IInv'
<1>1. PICK f : f = [ fwd |-> NULL, plugin |-> p, pc |-> "call", impl_ |-> NULL, mutated_ |-> FALSE,
                     had |-> {}, seen |-> {}, twice |-> {} ]
  OBVIOUS
<1>2. /\ ClientTurn /\ status[p] # "none" /\ Len(stack) < MaxDepth
      /\ status' = [status EXCEPT ![p] = "running"] /\ stack' = Append(stack, f)
      /\ fwd' = fwd /\ func' = func
  BY <1>1 DEF Resume
<1>3. f \in Frame /\ f.fwd = NULL /\ f.plugin = p /\ f.pc = "call" /\ f.impl_ = NULL /\ f.twice = {}
  BY ONLY <1>1, p \in Plugins DEF Frame
<1>4. Walks(fwd, stack')
  <2>1. Shape(f) /\ \A w \in Forwards : w # f.fwd
    BY <1>3, ForwardAssumption DEF Shape
  <2>2. \A w \in Forwards : fwd[w].m_ExecDepth = fwd[w].m_ExecDepth + (IF w = f.fwd THEN 1 ELSE 0)
    BY <2>1, Parts
  <2>3. stack # <<>> => Last(stack).pc = "call"
    BY <1>2 DEF ClientTurn, Top
  <2> QED BY <1>2, <1>3, <2>1, <2>2, <2>3, Parts, PushWalks
<1>5. /\ status' \in [Plugins -> Statuses] /\ status'[p] = "running"
      /\ \A q \in Plugins : q # p => status'[q] = status[q]
  BY <1>2, Parts DEF Statuses
<1>6. Told(stack', p) /\ \A q : Told(stack, q) => Told(stack', q)
  <2>1. /\ \A i \in 1..Len(stack) : stack'[i] = stack[i] /\ i \in 1..Len(stack')
        /\ stack'[Len(stack) + 1] = f /\ Len(stack) + 1 \in 1..Len(stack')
    BY <1>2, <1>3, Parts, PushFacts
  <2> QED BY <1>3, <2>1 DEF Told
<1>7. Registered(fwd, func, status', stack')
  <2>1. \A q \in Plugins : /\ status[q] # "none" => status'[q] # "none"
                           /\ status'[q] = "running" /\ ~Told(stack', q) => status[q] = "running" /\ ~Told(stack, q)
    BY <1>2, <1>5, <1>6
  <2> QED BY <2>1, Parts, KeepRegistered
<1> QED BY <1>2, <1>4, <1>5, <1>7, Parts DEF IInv

-----------------------------------------------------------------------------
(* Steps of Execute.                                                       *)

\* Two states with the same lists, functions and plugins, and calls that tell
\* the same plugins.
LEMMA SameLists ==
  ASSUME IInv, NEW G, NEW M, \A p \in Plugins : Told(stack, p) => Told(M, p),
         \A w \in Forwards : /\ G[w].m_functions = fwd[w].m_functions
                             /\ (G[w].alive <=> fwd[w].alive) /\ (G[w].managed <=> fwd[w].managed)
  PROVE  Registered(G, func, status, M)
  BY Parts, KeepRegistered

\* A forward is executed.
LEMMA ExecuteStep ==
  ASSUME IInv, NEW w \in Forwards, Execute(w)
  PROVE  IInv'
<1>1. PICK d \in CForward : d = fwd[w]
  BY Parts
<1>2. PICK s \in Seq(Nodes) : s = fwd[w].m_functions /\ Distinct(s)
  BY Parts
<1>3. PICK f : f = [ fwd |-> w, plugin |-> NULL, pc |-> "loop", impl_ |-> First(s), mutated_ |-> FALSE,
                     had |-> Range(s), seen |-> {}, twice |-> {} ]
  OBVIOUS
<1>4. /\ ClientTurn /\ d.alive /\ Len(stack) < MaxDepth /\ stack' = Append(stack, f)
      /\ fwd' = [fwd EXCEPT ![w].m_ExecDepth = @ + 1] /\ func' = func /\ status' = status
  BY <1>1, <1>2, <1>3 DEF Execute, Held, Entered
<1>5. First(s) \in Nodes \cup {NULL} /\ Range(s) \subseteq Nodes
  BY <1>2, FirstList, RangeHas, HasType, ForwardAssumption
<1>6. /\ f \in Frame /\ f.fwd = w /\ f.plugin = NULL /\ f.pc = "loop" /\ f.impl_ = First(s) /\ f.mutated_ = FALSE
      /\ f.had = Range(s) /\ f.seen = {} /\ f.twice = {}
  BY ONLY <1>3, <1>5, w \in Forwards DEF Frame
<1>7. Walking(f, s) /\ Shape(f)
  <2>1. w # NULL /\ NULL \notin Nodes
    BY ForwardAssumption
  <2>2. Walking(f, s)
    BY <1>2, <1>6, <2>1, EnterWalk
  <2> QED BY <1>6, <2>1, <2>2 DEF Shape
<1>8. PICK c : c = [d EXCEPT !.m_ExecDepth = @ + 1]
  OBVIOUS
<1>9. /\ c \in CForward /\ c.alive = d.alive /\ c.managed = d.managed /\ c.m_ExecDepth = d.m_ExecDepth + 1
      /\ c.m_deleted = d.m_deleted /\ c.m_functions = d.m_functions
  BY ONLY <1>8, d \in CForward DEF CForward
<1>10. fwd' \in [Forwards -> CForward] /\ fwd'[w] = c /\ \A v \in Forwards : v # w => fwd'[v] = fwd[v]
  BY <1>1, <1>4, <1>8, <1>9, Parts
<1>11. Walks(fwd', stack')
  <2>1. \A v \in Forwards :
          /\ fwd'[v].m_ExecDepth = fwd[v].m_ExecDepth + (IF v = f.fwd THEN 1 ELSE 0)
          /\ (fwd'[v].alive <=> fwd[v].alive) /\ (fwd'[v].m_deleted <=> fwd[v].m_deleted)
          /\ fwd'[v].m_functions = fwd[v].m_functions
    BY <1>1, <1>6, <1>9, <1>10, Parts
  <2>2. stack # <<>> => Last(stack).pc = "call"
    BY <1>4 DEF ClientTurn, Top
  <2>3. f.fwd # NULL => fwd[f.fwd].alive /\ Walking(f, fwd[f.fwd].m_functions)
    BY <1>1, <1>2, <1>4, <1>6, <1>7
  <2>4. Walks(fwd, stack) /\ Len(stack) < MaxDepth /\ f \in Frame /\ Shape(f) /\ fwd' \in [Forwards -> CForward]
    BY <1>4, <1>6, <1>7, <1>10, Parts
  <2>5. Walks(fwd', Append(stack, f))
    BY <2>1, <2>2, <2>3, <2>4, PushWalks
  <2> QED BY <1>4, <2>5
<1>12. Registered(fwd', func, status, stack')
  <2>1. \A i \in 1..Len(stack) : stack'[i] = stack[i] /\ i \in 1..Len(stack')
    BY <1>4, <1>6, Parts, PushFacts
  <2>2. \A p \in Plugins : Told(stack, p) => Told(stack', p)
    BY <2>1 DEF Told
  <2> QED BY <1>1, <1>9, <1>10, <2>2, SameLists
<1> QED BY <1>4, <1>11, <1>12, Parts DEF IInv

\* The innermost call of Execute.
LEMMA TopFacts ==
  ASSUME IInv, stack # <<>>, Top.fwd # NULL
  PROVE  /\ Top \in Frame /\ Top.fwd \in Forwards /\ Shape(Top) /\ Top = Last(stack) /\ Top = stack[Len(stack)]
         /\ Walking(Top, fwd[Top.fwd].m_functions) /\ Len(stack) \in 1..Len(stack)
         /\ fwd[Top.fwd].m_functions \in Seq(Nodes) /\ Distinct(fwd[Top.fwd].m_functions)
<1>1. Top = Last(stack) /\ Top = stack[Len(stack)] /\ Len(stack) \in 1..Len(stack)
  BY Parts DEF Top, Last
<1>2. Top \in Frame /\ Top.fwd \in Forwards /\ Shape(Top) /\ Walking(Top, fwd[Top.fwd].m_functions)
  BY <1>1, Parts, WalksFacts
<1> QED BY <1>1, <1>2, Parts

\* It goes on with frame g.
LEMMA TopStep ==
  ASSUME IInv, stack # <<>>, Top.fwd # NULL, NEW g \in Frame, Shape(g), g.fwd = Top.fwd, g.plugin = Top.plugin,
         Walking(g, fwd[g.fwd].m_functions), stack' = [stack EXCEPT ![Len(stack)] = g],
         fwd' = fwd, func' = func, status' = status
  PROVE  IInv'
<1>1. Walks(fwd, stack')
  BY Parts, TopFacts, TopWalks
<1>2. /\ Len(stack') = Len(stack) /\ (\A i \in 1..Len(stack) : i # Len(stack) => stack'[i] = stack[i])
      /\ stack'[Len(stack)] = g
  BY Parts, SetTopFacts
<1>3. \A p \in Plugins : Told(stack, p) => Told(stack', p)
  BY <1>2, TopFacts DEF Told
<1>4. Registered(fwd, func, status, stack')
  BY <1>3, SameLists
<1> QED BY <1>1, <1>4, Parts DEF IInv

\* iterator::next in the walk of frame f.
LEMMA AdvancedFacts ==
  ASSUME NEW f \in Frame, NEW s \in Seq(Nodes), s = fwd[f.fwd].m_functions, Distinct(s), f.fwd # NULL,
         Walking(f, s), f.pc = "call", Shape(f), NEW e \in Frame, e = [f EXCEPT !.pc = "loop"]
  PROVE  /\ Advanced(e) \in Frame /\ Advanced(e).fwd = f.fwd /\ Advanced(e).plugin = f.plugin
         /\ Walking(Advanced(e), s) /\ Shape(Advanced(e))
<1>1. /\ e.fwd = f.fwd /\ e.plugin = f.plugin /\ e.pc = "loop" /\ e.impl_ = f.impl_ /\ e.mutated_ = f.mutated_
      /\ e.had = f.had /\ e.seen = f.seen /\ e.twice = f.twice
  BY DEF Frame
<1>2. PICK n : n = IF f.mutated_ THEN f.impl_ ELSE After(s, f.impl_)
  OBVIOUS
<1>3. n \in Nodes \cup {NULL}
  <2>1. CASE f.mutated_
    BY <1>2, <2>1 DEF Frame
  <2>2. CASE ~f.mutated_
    <3>1. f.seen \subseteq Nodes
      BY DEF Frame
    <3>2. f.impl_ \in Nodes
      BY <2>2, <3>1 DEF Walking
    <3>3. Has(s, f.impl_) /\ NULL \notin Nodes
      BY <3>2, ForwardAssumption DEF Walking
    <3> QED BY <1>2, <2>2, <3>2, <3>3, AfterList
  <2> QED BY <2>1, <2>2
<1>4. PICK g : g = Advanced(e)
  OBVIOUS
<1>5. /\ g \in Frame /\ g.fwd = e.fwd /\ g.plugin = e.plugin /\ g.pc = e.pc /\ g.impl_ = n /\ g.mutated_ = FALSE
      /\ g.had = e.had /\ g.seen = e.seen /\ g.twice = e.twice
  <2>1. CASE f.mutated_
    <3>1. g = [e EXCEPT !.mutated_ = FALSE]
      BY <1>1, <1>4, <2>1 DEF Advanced
    <3>2. n = e.impl_
      BY <1>1, <1>2, <2>1
    <3> QED BY ONLY <3>1, <3>2, e \in Frame DEF Frame
  <2>2. CASE ~f.mutated_
    <3>1. g = [e EXCEPT !.impl_ = n]
      BY <1>1, <1>2, <1>4, <2>2 DEF Advanced
    <3>2. e.mutated_ = FALSE
      BY <1>1, <2>2 DEF Frame
    <3> QED BY ONLY <1>3, <3>1, <3>2, e \in Frame DEF Frame
  <2> QED BY <2>1, <2>2
<1>6. Walking(g, s)
  BY <1>1, <1>2, <1>5, ReturnWalk, ForwardAssumption
<1>7. Shape(g)
  BY <1>1, <1>5 DEF Shape
<1> QED BY <1>1, <1>4, <1>5, <1>6, <1>7

\* The callback returns.
LEMMA ReturnStep ==
  ASSUME IInv, NEW stop \in BOOLEAN, Return(stop)
  PROVE  IInv'
<1>1. stack # <<>> /\ Top.pc = "call" /\ Top.fwd # NULL /\ fwd' = fwd /\ func' = func /\ status' = status
  BY DEF Return
<1>2. PICK f \in Frame : f = Top
  BY <1>1, TopFacts
<1>3. PICK s \in Seq(Nodes) : s = fwd[f.fwd].m_functions /\ Distinct(s) /\ Walking(f, s) /\ Shape(f)
  BY <1>1, <1>2, TopFacts
<1>4. CASE stop
  <2>1. PICK g : g = [f EXCEPT !.pc = "stopped"]
    OBVIOUS
  <2>2. /\ g \in Frame /\ g.fwd = f.fwd /\ g.plugin = f.plugin /\ g.pc = "stopped" /\ g.impl_ = f.impl_
        /\ g.mutated_ = f.mutated_ /\ g.had = f.had /\ g.seen = f.seen /\ g.twice = f.twice
    BY ONLY <2>1, f \in Frame DEF Frame
  <2>3. stack' = [stack EXCEPT ![Len(stack)] = g]
    BY <1>2, <1>4, <2>1 DEF Return, SetTop
  <2>4. Shape(g)
    BY <1>1, <1>2, <1>3, <2>2 DEF Shape
  <2>5. Walking(g, s)
    BY <1>1, <1>2, <1>3, <2>2 DEF Walking
  <2> QED BY <1>1, <1>2, <1>3, <2>2, <2>3, <2>4, <2>5, TopStep
<1>5. CASE ~stop
  <2>1. PICK e : e = [f EXCEPT !.pc = "loop"]
    OBVIOUS
  <2>2. e \in Frame
    BY ONLY <2>1, f \in Frame DEF Frame
  <2>3. PICK g : g = Advanced(e)
    OBVIOUS
  <2>4. stack' = [stack EXCEPT ![Len(stack)] = g]
    BY <1>2, <1>5, <2>1, <2>3 DEF Return, SetTop
  <2>5. g \in Frame /\ g.fwd = f.fwd /\ g.plugin = f.plugin /\ Walking(g, s) /\ Shape(g)
    BY <1>1, <1>2, <1>3, <2>1, <2>2, <2>3, AdvancedFacts
  <2> QED BY <1>1, <1>2, <1>3, <2>4, <2>5, TopStep
<1> QED BY <1>4, <1>5

\* One turn of the loop.
LEMMA VisitStep ==
  ASSUME IInv, Visit
  PROVE  IInv'
<1>1. /\ stack # <<>> /\ Top.pc = "loop" /\ Top.impl_ # NULL /\ fwd' = fwd /\ func' = func /\ status' = status
  BY DEF Visit, InLoop
<1>2. Top.fwd # NULL
  <2>1. Top = stack[Len(stack)] /\ Len(stack) \in 1..Len(stack)
    BY <1>1, Parts DEF Top, Last
  <2>2. Shape(Top)
    BY <2>1, Parts, WalksFacts
  <2> QED BY <1>1, <2>2 DEF Shape
<1>3. PICK f \in Frame : f = Top
  BY <1>1, <1>2, TopFacts
<1>4. PICK s \in Seq(Nodes) : s = fwd[f.fwd].m_functions /\ Distinct(s) /\ Walking(f, s) /\ Shape(f)
  BY <1>1, <1>2, <1>3, TopFacts
<1>5. PICK n \in Nodes : n = f.impl_
  BY <1>1, <1>3 DEF Frame
<1>6. PICK t : t = IF n \in f.seen THEN f.twice \cup {n} ELSE f.twice
  OBVIOUS
<1>7. PICK h : h = [f EXCEPT !.seen = @ \cup {n}, !.twice = t]
  OBVIOUS
<1>8. t \subseteq Nodes
  BY <1>6 DEF Frame
<1>9. /\ h \in Frame /\ h.fwd = f.fwd /\ h.plugin = f.plugin /\ h.pc = f.pc /\ h.impl_ = f.impl_
      /\ h.mutated_ = f.mutated_ /\ h.had = f.had /\ h.seen = f.seen \cup {n} /\ h.twice = t
  BY ONLY <1>7, <1>8, n \in Nodes, f \in Frame DEF Frame
<1>10. stack' = [stack EXCEPT ![Len(stack)] = IF IsRunnable(func[n]) THEN [h EXCEPT !.pc = "call"] ELSE Advanced(h)]
  <2>1. h = [Top EXCEPT !.seen = @ \cup {Top.impl_},
                        !.twice = IF Top.impl_ \in Top.seen THEN @ \cup {Top.impl_} ELSE @]
    BY <1>3, <1>5, <1>6, <1>7 DEF Frame
  <2> QED BY <1>3, <1>5, <2>1 DEF Visit, SetTop
<1>11. PICK g : g = [h EXCEPT !.pc = "call"]
  OBVIOUS
<1>12. /\ g \in Frame /\ g.fwd = h.fwd /\ g.plugin = h.plugin /\ g.pc = "call" /\ g.impl_ = h.impl_
       /\ g.mutated_ = h.mutated_ /\ g.had = h.had /\ g.seen = h.seen /\ g.twice = h.twice
  BY ONLY <1>11, <1>9 DEF Frame
<1>13. ~f.mutated_ /\ f.pc = "loop"
  BY <1>1, <1>3, <1>4 DEF Shape
<1>14. Walking(g, s)
  <2>1. /\ g.had = f.had /\ g.seen = f.seen \cup {f.impl_} /\ g.pc = "call" /\ ~g.mutated_ /\ g.impl_ = f.impl_
        /\ g.twice = IF f.impl_ \in f.seen THEN f.twice \cup {f.impl_} ELSE f.twice
    BY <1>5, <1>6, <1>9, <1>12, <1>13
  <2>2. NULL \notin Nodes /\ f.impl_ # NULL /\ f.pc = "loop" /\ ~f.mutated_ /\ g \in Frame
    BY <1>1, <1>3, <1>12, <1>13, ForwardAssumption
  <2> QED BY <1>4, <2>1, <2>2, VisitWalk
<1>15. Shape(g)
  BY <1>2, <1>3, <1>4, <1>9, <1>12 DEF Shape
<1>16. CASE IsRunnable(func[n])
  <2>1. stack' = [stack EXCEPT ![Len(stack)] = g]
    BY <1>10, <1>11, <1>16
  <2> QED BY <1>1, <1>2, <1>3, <1>4, <1>9, <1>12, <1>14, <1>15, <2>1, TopStep
<1>17. CASE ~IsRunnable(func[n])
  <2>1. PICK a : a = Advanced(h)
    OBVIOUS
  <2>2. stack' = [stack EXCEPT ![Len(stack)] = a]
    BY <1>10, <1>17, <2>1
  <2>3. a \in Frame /\ a.fwd = g.fwd /\ a.plugin = g.plugin /\ Walking(a, s) /\ Shape(a)
    <3>1. g.fwd # NULL /\ s = fwd[g.fwd].m_functions
      BY <1>2, <1>3, <1>4, <1>9, <1>12
    <3>2. h = [g EXCEPT !.pc = "loop"]
      <4>1. h \in Frame /\ h.pc = "loop"
        BY <1>9, <1>13
      <4> QED BY ONLY <4>1, <1>11 DEF Frame
    <3> QED BY <1>4, <1>9, <1>12, <1>14, <1>15, <2>1, <3>1, <3>2, AdvancedFacts
  <2> QED BY <1>1, <1>2, <1>3, <1>4, <1>9, <1>12, <2>2, <2>3, TopStep
<1> QED BY <1>16, <1>17

\* Execute ends; the last one deletes a forward that was released meanwhile.
LEMMA FinishStep ==
  ASSUME IInv, Finish
  PROVE  IInv'
<1>1. stack # <<>> /\ Top.pc # "call" /\ stack' = Front(stack) /\ func' = func /\ status' = status
  BY DEF Finish
<1>2. Top.fwd # NULL /\ Shape(Top)
  <2>1. Top = stack[Len(stack)] /\ Len(stack) \in 1..Len(stack)
    BY <1>1, Parts DEF Top, Last
  <2>2. Shape(Top)
    BY <2>1, Parts, WalksFacts
  <2> QED BY <1>1, <2>2 DEF Shape
<1>3. PICK w \in Forwards : w = Top.fwd
  BY <1>1, <1>2, TopFacts
<1>4. fwd[w].m_ExecDepth > 0 /\ fwd[w].alive
  <2>1. stack[Len(stack)].fwd = w /\ Len(stack) \in 1..Len(stack)
    BY <1>1, <1>2, <1>3, TopFacts
  <2>2. fwd[w].m_ExecDepth # 0
    BY <2>1, Parts, WalksFacts, CallsFinite
  <2> QED BY <2>2, Parts, WalksFacts
<1>5. PICK c : c = fwd'[w]
  OBVIOUS
<1>6. /\ fwd' = [fwd EXCEPT ![w] = c] /\ c \in CForward /\ c.m_ExecDepth = fwd[w].m_ExecDepth - 1
      /\ (c.m_ExecDepth > 0 => c.alive) /\ (c.m_deleted => c.m_ExecDepth > 0)
      /\ \/ c.m_functions = fwd[w].m_functions /\ (c.managed <=> fwd[w].managed)
         \/ c.m_ExecDepth = 0 /\ c.m_functions = <<>> /\ ~c.managed
  <2>1. CASE LastOut(w)
    <3>1. fwd[w].m_ExecDepth = 1
      BY <2>1 DEF LastOut
    <3>2. PICK d : d = [New(FALSE, <<>>, <<>>) EXCEPT !.alive = FALSE]
      OBVIOUS
    <3>3. fwd' = [fwd EXCEPT ![w] = d]
      BY <1>3, <2>1, <3>2 DEF Finish
    <3>4. c = d
      BY <1>5, <3>3, Parts
    <3>5. /\ d \in CForward /\ d.alive = FALSE /\ d.managed = FALSE
          /\ d.m_ExecDepth = 0 /\ d.m_deleted = FALSE /\ d.m_functions = <<>>
      BY <3>2, DeadFacts
    <3> QED BY <3>1, <3>3, <3>4, <3>5
  <2>2. CASE ~LastOut(w)
    <3>1. fwd' = [fwd EXCEPT ![w].m_ExecDepth = @ - 1]
      BY <1>3, <2>2 DEF Finish
    <3>2. PICK d \in CForward : d = fwd[w]
      BY Parts
    <3>3. c = [d EXCEPT !.m_ExecDepth = @ - 1] /\ fwd' = [fwd EXCEPT ![w] = c]
      BY <1>5, <3>1, <3>2, Parts
    <3>4. d.m_ExecDepth \in Nat /\ d.m_ExecDepth > 0
      BY <1>4, <3>2, Parts
    <3>5. /\ c \in CForward /\ c.m_ExecDepth = d.m_ExecDepth - 1 /\ c.alive = d.alive
          /\ c.m_functions = d.m_functions /\ c.managed = d.managed /\ c.m_deleted = d.m_deleted
      BY ONLY <3>3, <3>4, d \in CForward DEF CForward
    <3>6. d.m_deleted => d.m_ExecDepth # 1
      BY <2>2, <3>2 DEF LastOut
    <3> QED BY <1>4, <3>2, <3>3, <3>4, <3>5, <3>6
  <2> QED BY <2>1, <2>2
<1>7. fwd' \in [Forwards -> CForward] /\ fwd'[w] = c /\ \A v \in Forwards : v # w => fwd'[v] = fwd[v]
  BY <1>6, Parts
<1>8. Walks(fwd', stack')
  <2>1. Distinct(<<>>)
    BY EmptyList
  <2>2. \A v \in Forwards : v = Last(stack).fwd =>
          /\ fwd'[v].m_ExecDepth = fwd[v].m_ExecDepth - 1
          /\ fwd'[v].m_ExecDepth > 0 => fwd'[v].alive
          /\ fwd'[v].m_deleted => fwd'[v].m_ExecDepth > 0
          /\ \/ fwd'[v].m_functions = fwd[v].m_functions
             \/ fwd'[v].m_ExecDepth = 0 /\ Distinct(fwd'[v].m_functions)
    BY <1>3, <1>6, <1>7, <2>1 DEF Top
  <2>3. \A v \in Forwards : v # Last(stack).fwd => fwd'[v] = fwd[v]
    BY <1>3, <1>7 DEF Top
  <2> QED BY <1>1, <1>7, <2>2, <2>3, Parts, PopWalks
<1>9. \A p \in Plugins : Told(stack, p) => Told(stack', p)
  <2>1. /\ Len(stack) \in Nat \ {0} /\ Len(stack') = Len(stack) - 1
        /\ \A i \in 1..(Len(stack) - 1) : stack'[i] = stack[i]
    BY <1>1, Parts, FrontList
  <2>2. \A i \in 1..Len(stack) : i = Len(stack) \/ i \in 1..Len(stack')
    BY <2>1
  <2>3. stack[Len(stack)].plugin \notin Plugins
    BY <1>1, <1>2, TopFacts, ForwardAssumption DEF Shape
  <2> QED BY <2>1, <2>2, <2>3 DEF Told
<1>10. Registered(fwd', func, status, stack')
  <2>1. \A v \in Forwards : \A n \in Nodes : Has(fwd'[v].m_functions, n) => Has(fwd[v].m_functions, n)
    BY <1>6, <1>7, EmptyList
  <2>2. \A v \in Forwards : fwd'[v].alive /\ fwd'[v].managed =>
          fwd[v].alive /\ fwd[v].managed /\ fwd'[v].m_functions = fwd[v].m_functions
    BY <1>4, <1>6, <1>7
  <2> QED BY <1>9, <2>1, <2>2, Parts, KeepRegistered
<1> QED BY <1>1, <1>8, <1>10, Parts DEF IInv

-----------------------------------------------------------------------------
(* Steps of the plugin system.                                             *)

\* A managed forward is created with the public functions of the plugins that
\* are there.
LEMMA CreateForwardStep ==
  ASSUME IInv, NEW w \in Forwards, CreateForward(w)
  PROVE  IInv'
<1>1. PICK R : R = {f \in Public : IsRunnable(f)}
  OBVIOUS
<1>2. PICK P : P = {f \in Public : status[Owner[f]] = "paused"}
  OBVIOUS
<1>3. PICK r : r = SetToSeq(R)
  OBVIOUS
<1>4. PICK q : q = SetToSeq(P)
  OBVIOUS
<1>5. IsFiniteSet(R) /\ IsFiniteSet(P) /\ R \subseteq Public /\ P \subseteq Public /\ Public \subseteq Funcs
  <2>1. R \in SUBSET Funcs /\ P \in SUBSET Funcs /\ IsFiniteSet(Funcs) /\ R \subseteq Public /\ P \subseteq Public
    BY <1>1, <1>2, ForwardAssumption
  <2> QED BY <2>1, FS_Subset, ForwardAssumption
<1>6. /\ r \in Seq(R) /\ Distinct(r) /\ (\A f \in R : Has(r, f)) /\ DOMAIN r = 1..Len(r)
      /\ q \in Seq(P)
  BY <1>3, <1>4, <1>5, SetToSeqFacts
<1>7. /\ ~fwd[w].alive /\ status' = status /\ stack' = stack
      /\ \E x \in [DOMAIN r -> Nodes \ UsedNodes] :
           /\ IsInjective(x) /\ fwd' = [fwd EXCEPT ![w] = New(TRUE, x, q)]
           /\ func' = [n \in Nodes |-> IF n \in Range(x) THEN r[Index(x, n)] ELSE func[n]]
  BY ONLY CreateForward(w), <1>1, <1>2, <1>3, <1>4 DEF CreateForward
<1>8. PICK s \in [DOMAIN r -> Nodes \ UsedNodes] :
           /\ IsInjective(s) /\ fwd' = [fwd EXCEPT ![w] = New(TRUE, s, q)]
           /\ func' = [n \in Nodes |-> IF n \in Range(s) THEN r[Index(s, n)] ELSE func[n]]
  BY <1>7
<1>9. s \in Seq(Nodes) /\ Len(s) = Len(r) /\ Distinct(s) /\ Len(r) \in Nat
  <2>1. s \in [1..Len(r) -> Nodes] /\ Len(r) \in Nat
    BY <1>6
  <2>2. s \in Seq(Nodes) /\ Len(s) = Len(r) /\ DOMAIN s = 1..Len(s)
    BY <2>1
  <2> QED BY <1>8, <2>1, <2>2 DEF IsInjective, Distinct
<1>10. PICK c : c = New(TRUE, s, q)
  OBVIOUS
<1>11. /\ c \in CForward /\ c.alive = TRUE /\ c.managed = TRUE
       /\ c.m_ExecDepth = 0 /\ c.m_deleted = FALSE /\ c.m_functions = s
  <2>1. q \in Seq(Funcs)
    BY <1>5, <1>6
  <2>2. s \in Seq(Nodes)
    BY <1>9
  <2> QED BY ONLY <1>10, <2>1, <2>2 DEF New, CForward
<1>12. fwd' \in [Forwards -> CForward] /\ fwd'[w] = c /\ \A v \in Forwards : v # w => fwd'[v] = fwd[v]
  BY <1>8, <1>10, <1>11, Parts
<1>13. fwd[w].m_ExecDepth = 0
  BY <1>7, Parts, WalksFacts
<1>14. Walks(fwd', stack)
  <2>1. \A v \in Forwards :
          /\ fwd'[v].m_ExecDepth = fwd[v].m_ExecDepth
          /\ fwd'[v].m_ExecDepth > 0 => fwd'[v].alive
          /\ fwd'[v].m_deleted => fwd'[v].m_ExecDepth > 0
          /\ \/ fwd'[v].m_functions = fwd[v].m_functions
             \/ fwd[v].m_ExecDepth = 0 /\ Distinct(fwd'[v].m_functions)
    BY <1>9, <1>11, <1>12, <1>13, Parts, WalksFacts
  <2> QED BY <1>12, <2>1, Parts, ListsChange
<1>15. \A n \in Nodes : Has(s, n) => n \notin UsedNodes
  <2>1. \A i \in 1..Len(s) : s[i] \notin UsedNodes
    BY <1>6, <1>8, <1>9
  <2> QED BY <2>1 DEF Has
<1>16. \A v \in Forwards, n \in Nodes : Has(fwd[v].m_functions, n) => ~Has(s, n)
  BY <1>15, Parts, FreeNodes
<1>17. \A i \in 1..Len(s) : s[i] \in Nodes /\ Has(s, s[i]) /\ func'[s[i]] = r[i] /\ r[i] \in R
  <2> SUFFICES ASSUME NEW i \in 1..Len(s)
               PROVE  s[i] \in Nodes /\ Has(s, s[i]) /\ func'[s[i]] = r[i] /\ r[i] \in R
    OBVIOUS
  <2>1. s[i] \in Nodes /\ Has(s, s[i]) /\ r[i] \in R
    BY <1>6, <1>9 DEF Has
  <2>2. s[i] \in Range(s)
    BY <1>9, <2>1, RangeHas
  <2>3. Index(s, s[i]) = i
    BY <1>9 DEF Index, Distinct
  <2> QED BY <1>8, <2>1, <2>2, <2>3
<1>18. \A n \in Nodes : ~Has(s, n) => func'[n] = func[n]
  BY <1>8, <1>9, RangeHas
<1>19. \A n \in Nodes : Has(s, n) => func'[n] \in R
  BY <1>17 DEF Has
<1>20. func' \in [Nodes -> Funcs]
  <2>1. \A n \in Nodes : func'[n] \in Funcs
    BY <1>5, <1>18, <1>19, Parts
  <2>2. func' = [n \in Nodes |-> func'[n]]
    BY <1>8
  <2> QED BY <2>1, <2>2
<1>21. Registered(fwd, func', status, stack)
  BY <1>16, <1>18, Parts, FreshNodes
<1>22. ASSUME NEW v \in Forwards, NEW n \in Nodes, Has(fwd'[v].m_functions, n)
       PROVE  status[Owner[func'[n]]] # "none"
  <2>1. CASE v = w
    BY <1>1, <1>11, <1>12, <1>19, <1>22, <2>1 DEF IsRunnable
  <2>2. CASE v # w
    BY <1>12, <1>21, <1>22, <2>2 DEF Registered
  <2> QED BY <2>1, <2>2
<1>23. ASSUME NEW f \in Public
       PROVE  Once(s, func', f) /\ (status[Owner[f]] = "running" => In(s, func', f))
  <2>1. ASSUME NEW n \in Nodes, NEW m \in Nodes, Has(s, n), Has(s, m), func'[n] = f, func'[m] = f
        PROVE  n = m
    <3>1. PICK i \in 1..Len(s) : s[i] = n
      BY <2>1 DEF Has
    <3>2. PICK j \in 1..Len(s) : s[j] = m
      BY <2>1 DEF Has
    <3>3. r[i] = f /\ r[j] = f
      BY <1>17, <2>1, <3>1, <3>2
    <3>4. i = j
      BY <1>6, <1>9, <3>3 DEF Distinct
    <3> QED BY <3>1, <3>2, <3>4
  <2>2. ASSUME status[Owner[f]] = "running" PROVE In(s, func', f)
    <3>1. f \in R
      BY <1>1, <2>2 DEF IsRunnable
    <3>2. PICK i \in 1..Len(r) : r[i] = f
      BY <1>6, <3>1 DEF Has
    <3> QED BY <1>9, <1>17, <3>2 DEF In
  <2> QED BY <2>1, <2>2 DEF Once
<1>24. ASSUME NEW v \in Forwards, NEW f \in Public, fwd'[v].alive /\ fwd'[v].managed
       PROVE  /\ Once(fwd'[v].m_functions, func', f)
              /\ status[Owner[f]] = "running" /\ ~Told(stack, Owner[f]) => In(fwd'[v].m_functions, func', f)
  <2>1. CASE v = w
    BY <1>11, <1>12, <1>23, <2>1
  <2>2. CASE v # w
    BY <1>12, <1>21, <1>24, <2>2 DEF Registered
  <2> QED BY <2>1, <2>2
<1>25. Registered(fwd', func', status, stack)
  BY <1>22, <1>24 DEF Registered
<1> QED BY <1>7, <1>14, <1>20, <1>25, Parts DEF IInv

\* A plugin is unloaded: no list keeps a function of it.
LEMMA OnPluginUnloadedStep ==
  ASSUME IInv, NEW p \in Plugins, OnPluginUnloaded(p)
  PROVE  IInv'
<1>1. /\ stack = <<>> /\ status' = [status EXCEPT ![p] = "none"] /\ func' = func /\ stack' = stack
      /\ fwd' = [w \in Forwards |-> [fwd[w] EXCEPT !.m_functions = WithoutNodes(@, NodesOf(w, p))]]
  BY DEF OnPluginUnloaded
<1>2. ASSUME NEW w \in Forwards
      PROVE  /\ fwd'[w] \in CForward /\ (fwd'[w].alive <=> fwd[w].alive) /\ (fwd'[w].managed <=> fwd[w].managed)
             /\ fwd'[w].m_ExecDepth = fwd[w].m_ExecDepth /\ (fwd'[w].m_deleted <=> fwd[w].m_deleted)
             /\ Distinct(fwd'[w].m_functions)
             /\ \A n \in Nodes : Has(fwd'[w].m_functions, n) <=> Has(fwd[w].m_functions, n) /\ Owner[func[n]] # p
  <2>1. PICK d \in CForward : d = fwd[w]
    BY Parts
  <2>2. PICK s \in Seq(Nodes) : s = d.m_functions /\ Distinct(s)
    BY <2>1, Parts
  <2>3. PICK T : T = Nodes \ NodesOf(w, p)
    OBVIOUS
  <2>4. Filter(s, T) \in Seq(Nodes) /\ Distinct(Filter(s, T)) /\ \A n : Has(Filter(s, T), n) <=> Has(s, n) /\ n \in T
    BY <2>2, FilterList
  <2>5. PICK c : c = [d EXCEPT !.m_functions = Filter(s, T)]
    OBVIOUS
  <2>6. /\ c \in CForward /\ c.alive = d.alive /\ c.managed = d.managed /\ c.m_ExecDepth = d.m_ExecDepth
        /\ c.m_deleted = d.m_deleted /\ c.m_functions = Filter(s, T)
    BY ONLY <2>4, <2>5, d \in CForward DEF CForward
  <2>7. fwd'[w] = c
    BY <1>1, <2>1, <2>2, <2>3, <2>5 DEF WithoutNodes
  <2>8. \A n \in Nodes : Has(s, n) => (n \in T <=> Owner[func[n]] # p)
    BY <2>1, <2>2, <2>3, RangeHas DEF NodesOf
  <2> QED BY <2>1, <2>2, <2>4, <2>6, <2>7, <2>8
<1>3. fwd' \in [Forwards -> CForward]
  <2>1. fwd' = [w \in Forwards |-> fwd'[w]]
    BY <1>1
  <2> QED BY <1>2, <2>1
<1>4. Walks(fwd', stack)
  <2>1. \A w \in Forwards : fwd[w].m_ExecDepth = 0
    BY <1>1, Parts, WalksFacts, CallsFinite
  <2>2. \A v \in Forwards :
          /\ fwd'[v].m_ExecDepth = fwd[v].m_ExecDepth
          /\ fwd'[v].m_ExecDepth > 0 => fwd'[v].alive
          /\ fwd'[v].m_deleted => fwd'[v].m_ExecDepth > 0
          /\ fwd[v].m_ExecDepth = 0 /\ Distinct(fwd'[v].m_functions)
    BY <1>2, <2>1, Parts, WalksFacts
  <2> QED BY <1>3, <2>2, Parts, ListsChange
<1>5. /\ status' \in [Plugins -> Statuses] /\ status'[p] = "none"
      /\ \A q \in Plugins : q # p => status'[q] = status[q]
  BY <1>1, Parts DEF Statuses
<1>6. (\A n \in Nodes : Owner[func[n]] \in Plugins) /\ (\A f \in Public : Owner[f] \in Plugins)
  BY Parts, ForwardAssumption
<1>7. \A w \in Forwards, n \in Nodes : Has(fwd'[w].m_functions, n) => status'[Owner[func[n]]] # "none"
  BY <1>2, <1>5, <1>6, Parts DEF Registered
<1>8. ASSUME NEW w \in Forwards, NEW f \in Public, fwd'[w].alive /\ fwd'[w].managed
      PROVE  /\ Once(fwd'[w].m_functions, func, f)
             /\ status'[Owner[f]] = "running" /\ ~Told(stack, Owner[f]) => In(fwd'[w].m_functions, func, f)
  <2>1. /\ Once(fwd[w].m_functions, func, f)
        /\ status[Owner[f]] = "running" /\ ~Told(stack, Owner[f]) => In(fwd[w].m_functions, func, f)
    BY <1>2, <1>8, Parts DEF Registered
  <2>2. Once(fwd'[w].m_functions, func, f)
    BY <1>2, <2>1 DEF Once
  <2>3. Owner[f] # p /\ In(fwd[w].m_functions, func, f) => In(fwd'[w].m_functions, func, f)
    BY <1>2 DEF In
  <2>4. status'[Owner[f]] = "running" => Owner[f] # p /\ status[Owner[f]] = "running"
    BY <1>5, <1>6
  <2> QED BY <2>1, <2>2, <2>3, <2>4
<1>9. Registered(fwd', func, status', stack)
  BY <1>7, <1>8 DEF Registered
<1> QED BY <1>1, <1>4, <1>5, <1>9, Parts DEF IInv

\* What Registered says, except that plugin p may still have to join.
RegisteredBut(F, fn, st, K, p) ==
  /\ \A w \in Forwards, n \in Nodes : Has(F[w].m_functions, n) => st[Owner[fn[n]]] # "none"
  /\ \A w \in Forwards, f \in Public : F[w].alive /\ F[w].managed =>
       /\ Once(F[w].m_functions, fn, f)
       /\ st[Owner[f]] = "running" /\ ~Told(K, Owner[f]) /\ Owner[f] # p => In(F[w].m_functions, fn, f)

\* The lists of ws get the nodes place, which hold f.
Longer(ws, place) ==
  [w \in Forwards |-> IF w \in ws THEN [fwd[w] EXCEPT !.m_functions = Append(@, place[w])] ELSE fwd[w]]
Holding(place, f) == [n \in Nodes |-> IF n \in Range(place) THEN f ELSE func[n]]

\* The function of a running plugin is put into free nodes of the managed
\* forwards that do not have it.
LEMMA JoinRunning ==
  ASSUME IInv, NEW p \in Plugins, NEW f \in Public, Owner[f] = p, NEW ws, ws \subseteq Managed,
         NEW st, NEW K, st[p] = "running", RegisteredBut(fwd, func, st, K, p),
         \A w \in ws : ~In(fwd[w].m_functions, func, f),
         \A w \in Managed : w \notin ws => In(fwd[w].m_functions, func, f),
         NEW place \in [ws -> Nodes \ UsedNodes], IsInjective(place),
         fwd' = Longer(ws, place), func' = Holding(place, f)
  PROVE  /\ Walks(fwd', stack) /\ fwd' \in [Forwards -> CForward] /\ func' \in [Nodes -> Funcs]
         /\ Registered(fwd', func', st, K)
<1>1. f \in Funcs
  BY ForwardAssumption
<1>2. ASSUME NEW w \in ws
      PROVE  /\ w \in Forwards /\ place[w] \in Nodes /\ (\A v \in Forwards : ~Has(fwd[v].m_functions, place[w]))
             /\ fwd'[w] \in CForward /\ (fwd'[w].alive <=> fwd[w].alive) /\ (fwd'[w].managed <=> fwd[w].managed)
             /\ fwd'[w].m_ExecDepth = fwd[w].m_ExecDepth /\ (fwd'[w].m_deleted <=> fwd[w].m_deleted)
             /\ fwd'[w].m_functions = Append(fwd[w].m_functions, place[w])
             /\ \A n : Has(fwd'[w].m_functions, n) <=> Has(fwd[w].m_functions, n) \/ n = place[w]
  <2>1. w \in Forwards /\ place[w] \in Nodes /\ place[w] \notin UsedNodes
    BY DEF Managed
  <2>2. \A v \in Forwards : ~Has(fwd[v].m_functions, place[w])
    BY <2>1, Parts, FreeNodes
  <2>3. PICK d \in CForward : d = fwd[w]
    BY <2>1, Parts
  <2>4. PICK s \in Seq(Nodes) : s = d.m_functions
    BY <2>1, <2>3, Parts
  <2>5. PICK n \in Nodes : n = place[w]
    BY <2>1
  <2>6. Append(s, n) \in Seq(Nodes) /\ \A x : Has(Append(s, n), x) <=> Has(s, x) \/ x = n
    BY <2>4, AppendList
  <2>7. PICK c : c = [d EXCEPT !.m_functions = Append(s, n)]
    OBVIOUS
  <2>8. /\ c \in CForward /\ c.alive = d.alive /\ c.managed = d.managed /\ c.m_ExecDepth = d.m_ExecDepth
        /\ c.m_deleted = d.m_deleted /\ c.m_functions = Append(s, n)
    BY ONLY <2>6, <2>7, d \in CForward DEF CForward
  <2>9. fwd'[w] = c
    BY <2>1, <2>3, <2>4, <2>5, <2>7 DEF Longer
  <2> QED BY <2>1, <2>2, <2>3, <2>4, <2>5, <2>6, <2>8, <2>9
<1>3. \A w \in Forwards : w \notin ws => fwd'[w] = fwd[w]
  BY DEF Longer
<1>4. fwd' \in [Forwards -> CForward]
  <2>1. \A w \in Forwards : fwd'[w] \in CForward
    BY <1>2, <1>3, Parts
  <2>2. fwd' = [w \in Forwards |-> fwd'[w]]
    BY DEF Longer
  <2> QED BY <2>1, <2>2
<1>5. Walks(fwd', stack)
  <2>1. ASSUME NEW v \in Forwards
        PROVE  /\ fwd'[v].m_ExecDepth = fwd[v].m_ExecDepth
               /\ fwd'[v].m_ExecDepth > 0 => fwd'[v].alive
               /\ fwd'[v].m_deleted => fwd'[v].m_ExecDepth > 0
               /\ \/ fwd'[v].m_functions = fwd[v].m_functions
                  \/ \E m \in Nodes : ~Has(fwd[v].m_functions, m) /\ fwd'[v].m_functions = Append(fwd[v].m_functions, m)
    <3>1. /\ fwd[v].m_ExecDepth > 0 => fwd[v].alive
          /\ fwd[v].m_deleted => fwd[v].m_ExecDepth > 0
      BY Parts, WalksFacts
    <3>2. CASE v \in ws
      BY <1>2, <3>1, <3>2
    <3>3. CASE v \notin ws
      BY <1>3, <3>1, <3>3
    <3> QED BY <3>2, <3>3
  <2>2. Walks(fwd, stack)
    BY Parts
  <2> QED BY <1>4, <2>1, <2>2, ListsChange
<1>6. /\ \A w \in ws : func'[place[w]] = f
      /\ \A n \in Nodes : func'[n] = f \/ func'[n] = func[n]
      /\ \A v \in Forwards, n \in Nodes : Has(fwd[v].m_functions, n) => func'[n] = func[n]
  <2>1. \A w \in ws : place[w] \in Range(place) /\ place[w] \in Nodes
    BY <1>2 DEF Range
  <2>2. \A n \in Range(place) : \E w \in ws : n = place[w]
    BY DEF Range
  <2>3. \A v \in Forwards, n \in Nodes : Has(fwd[v].m_functions, n) => n \notin Range(place)
    <3>1. \A w \in ws : \A v \in Forwards : ~Has(fwd[v].m_functions, place[w])
      BY <1>2
    <3> QED BY <2>2, <3>1
  <2> QED BY <2>1, <2>3 DEF Holding
<1>7. func' \in [Nodes -> Funcs]
  <2>1. \A n \in Nodes : func'[n] \in Funcs
    BY <1>1, <1>6, Parts
  <2>2. func' = [n \in Nodes |-> func'[n]]
    BY DEF Holding
  <2> QED BY <2>1, <2>2
<1>8. ASSUME NEW v \in Forwards, NEW n \in Nodes, Has(fwd'[v].m_functions, n)
      PROVE  st[Owner[func'[n]]] # "none"
  <2>1. CASE Has(fwd[v].m_functions, n)
    BY <1>6, <2>1 DEF RegisteredBut
  <2>2. CASE ~Has(fwd[v].m_functions, n)
    <3>1. v \in ws
      BY <1>3, <1>8, <2>2
    <3>2. n = place[v]
      BY <1>2, <1>8, <2>2, <3>1
    <3>3. func'[n] = f
      BY <1>6, <3>1, <3>2
    <3> QED BY <3>3
  <2> QED BY <2>1, <2>2
<1>9. ASSUME NEW v \in Forwards, NEW g \in Public, fwd'[v].alive /\ fwd'[v].managed
      PROVE  /\ Once(fwd'[v].m_functions, func', g)
             /\ st[Owner[g]] = "running" /\ ~Told(K, Owner[g]) => In(fwd'[v].m_functions, func', g)
  <2>1. v \in Managed /\ fwd[v].alive /\ fwd[v].managed
    BY <1>2, <1>3, <1>9 DEF Managed
  <2>2. /\ Once(fwd[v].m_functions, func, g)
        /\ st[Owner[g]] = "running" /\ ~Told(K, Owner[g]) /\ Owner[g] # p => In(fwd[v].m_functions, func, g)
    BY <2>1 DEF RegisteredBut
  <2>3. g # f => Owner[g] # p
    BY ForwardAssumption
  <2>4. Once(fwd[v].m_functions, func', g) /\ (In(fwd[v].m_functions, func, g) => In(fwd[v].m_functions, func', g))
    <3>1. \A n \in Nodes : Has(fwd[v].m_functions, n) => func'[n] = func[n]
      BY <1>6
    <3> QED BY <2>2, <3>1 DEF Once, In
  <2>5. CASE v \notin ws
    <3>1. g = f => In(fwd[v].m_functions, func, g)
      BY <2>1, <2>5
    <3> QED BY <1>3, <2>2, <2>3, <2>4, <2>5, <3>1
  <2>6. CASE v \in ws
    <3>1. /\ place[v] \in Nodes /\ func'[place[v]] = f
          /\ \A n : Has(fwd'[v].m_functions, n) <=> Has(fwd[v].m_functions, n) \/ n = place[v]
      BY <1>2, <1>6, <2>6
    <3>2. \A n \in Nodes : Has(fwd[v].m_functions, n) => func'[n] # f
      BY <1>6, <2>6 DEF In
    <3>3. Once(fwd'[v].m_functions, func', g)
      BY <2>4, <3>1, <3>2 DEF Once
    <3>4. g = f => In(fwd'[v].m_functions, func', g)
      BY <3>1 DEF In
    <3>5. In(fwd[v].m_functions, func', g) => In(fwd'[v].m_functions, func', g)
      BY <3>1 DEF In
    <3> QED BY <2>2, <2>3, <2>4, <3>3, <3>4, <3>5
  <2> QED BY <2>5, <2>6
<1>10. Registered(fwd', func', st, K)
  BY <1>8, <1>9 DEF Registered
<1> QED BY <1>4, <1>5, <1>7, <1>10

\* The function of a plugin that does not run goes to m_paused.
LEMMA JoinPaused ==
  ASSUME IInv, NEW f \in Funcs, NEW ws, ws \subseteq Managed,
         fwd' = [w \in Forwards |-> IF w \in ws
                  THEN [fwd[w] EXCEPT !.m_paused = Append(@, f)] ELSE fwd[w]]
  PROVE  /\ fwd' \in [Forwards -> CForward]
         /\ \A v \in Forwards :
              /\ (fwd'[v].alive <=> fwd[v].alive) /\ (fwd'[v].managed <=> fwd[v].managed)
              /\ fwd'[v].m_ExecDepth = fwd[v].m_ExecDepth
              /\ (fwd'[v].m_deleted <=> fwd[v].m_deleted) /\ fwd'[v].m_functions = fwd[v].m_functions
<1>1. ASSUME NEW w \in Forwards
      PROVE  /\ fwd'[w] \in CForward /\ (fwd'[w].alive <=> fwd[w].alive) /\ (fwd'[w].managed <=> fwd[w].managed)
             /\ fwd'[w].m_ExecDepth = fwd[w].m_ExecDepth
             /\ (fwd'[w].m_deleted <=> fwd[w].m_deleted) /\ fwd'[w].m_functions = fwd[w].m_functions
  <2>1. PICK d \in CForward : d = fwd[w]
    BY Parts
  <2>2. CASE w \in ws
    <3>1. PICK c : c = [d EXCEPT !.m_paused = Append(@, f)]
      OBVIOUS
    <3>2. d.m_paused \in Seq(Funcs)
      BY ONLY d \in CForward DEF CForward
    <3>3. Append(d.m_paused, f) \in Seq(Funcs)
      BY <3>2
    <3>4. /\ c \in CForward /\ c.alive = d.alive /\ c.managed = d.managed /\ c.m_ExecDepth = d.m_ExecDepth
          /\ c.m_deleted = d.m_deleted /\ c.m_functions = d.m_functions
      BY ONLY <3>1, <3>3, d \in CForward DEF CForward
    <3>5. fwd'[w] = c
      BY <2>1, <2>2, <3>1
    <3> QED BY <2>1, <3>4, <3>5
  <2>3. CASE w \notin ws
    BY <2>1, <2>3
  <2> QED BY <2>2, <2>3
<1>2. fwd' = [w \in Forwards |-> fwd'[w]]
  OBVIOUS
<1> QED BY <1>1, <1>2

\* The public function of plugin p joins the managed forwards.
LEMMA JoinStep ==
  ASSUME IInv, NEW p \in Plugins, NEW into, JoinAll(p, into), NEW K, RegisteredBut(fwd, func, status', K, p),
         \A f \in Public : Owner[f] = p => into[f] \subseteq Managed,
         \A f \in Public : Owner[f] = p /\ status'[p] = "running" =>
           /\ \A w \in into[f] : ~In(fwd[w].m_functions, func, f)
           /\ \A w \in Managed : w \notin into[f] => In(fwd[w].m_functions, func, f)
  PROVE  /\ Walks(fwd', stack) /\ fwd' \in [Forwards -> CForward] /\ func' \in [Nodes -> Funcs]
         /\ Registered(fwd', func', status', K)
<1>1. CASE \A f \in Public : Owner[f] # p
  <2>1. fwd' = fwd /\ func' = func
    BY <1>1 DEF JoinAll
  <2>2. Registered(fwd, func, status', K)
    BY <1>1 DEF Registered, RegisteredBut
  <2> QED BY <2>1, <2>2, Parts
<1>2. CASE \E f \in Public : Owner[f] = p
  <2>1. PICK f : f = CHOOSE g \in Public : Owner[g] = p
    OBVIOUS
  <2>2. f \in Public /\ Owner[f] = p /\ f \in Funcs
    BY <1>2, <2>1, ForwardAssumption
  <2>3. PICK ws : ws = into[f]
    OBVIOUS
  <2>4. ws \subseteq Managed
    BY <2>2, <2>3
  <2>5. CASE status'[p] = "running"
    <3>1. PICK place \in [ws -> Nodes \ UsedNodes] :
            IsInjective(place) /\ fwd' = Longer(ws, place) /\ func' = Holding(place, f)
      BY <1>2, <2>1, <2>3, <2>5 DEF JoinAll, Longer, Holding
    <3>2. /\ \A w \in ws : ~In(fwd[w].m_functions, func, f)
          /\ \A w \in Managed : w \notin ws => In(fwd[w].m_functions, func, f)
      BY <2>2, <2>3, <2>5
    <3>3. PICK st : st = status'
      OBVIOUS
    <3>4. st[p] = "running" /\ RegisteredBut(fwd, func, st, K, p)
      BY <2>5, <3>3
    <3>5. /\ Walks(fwd', stack) /\ fwd' \in [Forwards -> CForward] /\ func' \in [Nodes -> Funcs]
          /\ Registered(fwd', func', st, K)
      BY <2>2, <2>4, <3>1, <3>2, <3>4, JoinRunning
    <3> QED BY <3>3, <3>5
  <2>6. CASE status'[p] # "running"
    <3>1. /\ fwd' = [w \in Forwards |-> IF w \in ws
                      THEN [fwd[w] EXCEPT !.m_paused = Append(@, f)] ELSE fwd[w]]
          /\ func' = func
      BY <1>2, <2>1, <2>3, <2>6 DEF JoinAll
    <3>2. /\ fwd' \in [Forwards -> CForward]
          /\ \A v \in Forwards :
               /\ (fwd'[v].alive <=> fwd[v].alive) /\ (fwd'[v].managed <=> fwd[v].managed)
               /\ fwd'[v].m_ExecDepth = fwd[v].m_ExecDepth
               /\ (fwd'[v].m_deleted <=> fwd[v].m_deleted) /\ fwd'[v].m_functions = fwd[v].m_functions
      BY <2>2, <2>4, <3>1, JoinPaused
    <3>3. Walks(fwd', stack)
      BY <3>2, SamePaused
    <3>4. Registered(fwd', func, status', K)
      BY <2>6, <3>2 DEF Registered, RegisteredBut
    <3> QED BY <3>1, <3>2, <3>3, <3>4, Parts
  <2> QED BY <2>5, <2>6
<1> QED BY <1>1, <1>2

\* A plugin is loaded.
LEMMA OnPluginLoadedStep ==
  ASSUME IInv, NEW p \in Plugins, OnPluginLoaded(p)
  PROVE  IInv'
<1>1. PICK into : into = [f \in Public |-> Managed]
  OBVIOUS
<1>2. /\ status[p] = "none" /\ status' = [status EXCEPT ![p] = "running"] /\ stack' = stack /\ JoinAll(p, into)
  BY <1>1 DEF OnPluginLoaded
<1>3. /\ status' \in [Plugins -> Statuses] /\ status'[p] = "running"
      /\ \A q \in Plugins : q # p => status'[q] = status[q]
  BY <1>2, Parts DEF Statuses
<1>4. (\A n \in Nodes : Owner[func[n]] \in Plugins) /\ (\A f \in Public : Owner[f] \in Plugins)
  BY Parts, ForwardAssumption
<1>5. \A w \in Forwards, n \in Nodes : Has(fwd[w].m_functions, n) =>
        Owner[func[n]] # p /\ status'[Owner[func[n]]] # "none"
  BY <1>2, <1>3, <1>4, Parts DEF Registered
<1>6. RegisteredBut(fwd, func, status', stack, p)
  BY <1>3, <1>4, <1>5, Parts DEF Registered, RegisteredBut
<1>7. \A f \in Public : Owner[f] = p =>
        /\ into[f] = Managed
        /\ \A w \in Managed : ~In(fwd[w].m_functions, func, f)
  BY <1>1, <1>5 DEF In, Managed
<1>8. /\ Walks(fwd', stack) /\ func' \in [Nodes -> Funcs]
      /\ Registered(fwd', func', status', stack)
  <2>1. \A f \in Public : Owner[f] = p => into[f] \subseteq Managed
    BY <1>7
  <2>2. \A f \in Public : Owner[f] = p /\ status'[p] = "running" =>
          /\ \A w \in into[f] : ~In(fwd[w].m_functions, func, f)
          /\ \A w \in Managed : w \notin into[f] => In(fwd[w].m_functions, func, f)
    BY <1>7
  <2> QED BY <1>2, <1>6, <2>1, <2>2, JoinStep
<1> QED BY <1>2, <1>3, <1>8 DEF IInv

\* A resumed plugin joins the forwards that do not have its function.
LEMMA OnPluginPauseChangeStep ==
  ASSUME IInv, OnPluginPauseChange
  PROVE  IInv'
<1>1. PICK into : into = [f \in Public |-> NotRegistered(f)]
  OBVIOUS
<1>2. PICK p : p = Top.plugin
  OBVIOUS
<1>3. /\ stack # <<>> /\ Top.fwd = NULL /\ stack' = Front(stack) /\ status' = status /\ JoinAll(p, into)
  BY <1>1, <1>2 DEF OnPluginPauseChange
<1>4. /\ Front(stack) \in Seq(Frame) /\ Len(stack) \in Nat \ {0} /\ Len(stack') = Len(stack) - 1
      /\ \A i \in 1..(Len(stack) - 1) : stack'[i] = stack[i]
  BY <1>3, Parts, FrontList
<1>5. Top = stack[Len(stack)] /\ Top = Last(stack)
  BY DEF Top, Last
<1>6. \A q : q # p /\ Told(stack, q) => Told(stack', q)
  <2>1. \A i \in 1..Len(stack) : i = Len(stack) \/ i \in 1..Len(stack')
    BY <1>4
  <2> QED BY <1>2, <1>4, <1>5, <2>1 DEF Told
<1>7. RegisteredBut(fwd, func, status', stack', p)
  BY <1>3, <1>6, Parts DEF Registered, RegisteredBut
<1>8. CASE p \in Plugins
  <2>1. \A f \in Public : Owner[f] = p => into[f] \subseteq Managed
    BY <1>1 DEF NotRegistered
  <2>2. ASSUME NEW f \in Public, Owner[f] = p, status'[p] = "running"
        PROVE  /\ \A w \in into[f] : ~In(fwd[w].m_functions, func, f)
               /\ \A w \in Managed : w \notin into[f] => In(fwd[w].m_functions, func, f)
    <3>1. into[f] = {w \in Managed : \A n \in Range(fwd[w].m_functions) : func[n] # f}
      BY <1>1, <1>3, <2>2 DEF NotRegistered, IsRunnable
    <3>2. \A w \in Managed : w \in Forwards
      BY DEF Managed
    <3>3. \A w \in Managed : (\A n \in Range(fwd[w].m_functions) : func[n] # f) <=> ~In(fwd[w].m_functions, func, f)
      <4> SUFFICES ASSUME NEW w \in Managed
                   PROVE  (\A n \in Range(fwd[w].m_functions) : func[n] # f) <=> ~In(fwd[w].m_functions, func, f)
        OBVIOUS
      <4>1. fwd[w].m_functions \in Seq(Nodes)
        BY <3>2, Parts
      <4>2. \A n : n \in Range(fwd[w].m_functions) <=> Has(fwd[w].m_functions, n)
        BY <4>1, RangeHas
      <4>3. \A n : Has(fwd[w].m_functions, n) => n \in Nodes
        BY <4>1, HasType
      <4> QED BY <4>2, <4>3 DEF In
    <3> QED BY <3>1, <3>3
  <2>3. /\ Walks(fwd', stack) /\ fwd' \in [Forwards -> CForward] /\ func' \in [Nodes -> Funcs]
        /\ Registered(fwd', func', status', stack')
    BY <1>3, <1>7, <1>8, <2>1, <2>2, JoinStep
  <2>4. Walks(fwd', stack')
    <3>1. \A w \in Forwards : w # Last(stack).fwd
      BY <1>3, <1>5, ForwardAssumption
    <3>2. Walks(fwd', Front(stack))
      BY <1>3, <2>3, <3>1, PopWalks
    <3> QED BY <1>3, <3>2
  <2> QED BY <1>3, <2>3, <2>4, Parts DEF IInv
<1>9. p \in Plugins
  <2>1. Shape(Top)
    <3>1. Len(stack) \in 1..Len(stack)
      BY <1>4
    <3>2. Walks(fwd, stack)
      BY Parts
    <3>3. \A i \in 1..Len(stack) : Shape(stack[i])
      BY <3>2 DEF Walks
    <3> QED BY <1>5, <3>1, <3>3
  <2> QED BY <1>2, <1>3, <2>1 DEF Shape
<1> QED BY <1>8, <1>9

-----------------------------------------------------------------------------
(* The invariant.                                                          *)

\* Nothing is there at the start.
LEMMA InitOK == Init => IInv
<1> SUFFICES ASSUME Init PROVE IInv
  OBVIOUS
<1>1. PICK c : c = [New(FALSE, <<>>, <<>>) EXCEPT !.alive = FALSE]
  OBVIOUS
<1>2. /\ c \in CForward /\ c.alive = FALSE /\ c.managed = FALSE
      /\ c.m_ExecDepth = 0 /\ c.m_deleted = FALSE /\ c.m_functions = <<>>
  BY <1>1, DeadFacts
<1>3. fwd = [w \in Forwards |-> c] /\ stack = <<>>
  BY <1>1 DEF Init
<1>4. func \in [Nodes -> Funcs] /\ status \in [Plugins -> Statuses]
  BY ForwardAssumption DEF Init, Statuses
<1>5. /\ stack \in Seq(Frame) /\ Len(stack) = 0 /\ 1..Len(stack) = {} /\ Len(stack) <= MaxDepth
  BY <1>3, ForwardAssumption
<1>6. Distinct(<<>>) /\ \A n : ~Has(<<>>, n)
  BY EmptyList
<1>7. \A w : Cardinality(CallsOf(stack, w)) = 0
  BY <1>5, CallsFinite
<1>8. \A w \in Forwards : fwd[w] = c
  BY <1>3
<1>9. fwd \in [Forwards -> CForward]
  BY <1>2, <1>3
<1>10. Walks(fwd, stack)
  BY <1>2, <1>5, <1>6, <1>7, <1>8, <1>9 DEF Walks
<1>11. Registered(fwd, func, status, stack)
  BY <1>2, <1>6, <1>8 DEF Registered
<1> QED BY <1>4, <1>10, <1>11 DEF IInv

\* Every step keeps the invariant.
LEMMA NextInv == IInv /\ [Next]_vars => IInv'
<1> SUFFICES ASSUME IInv, [Next]_vars PROVE IInv'
  OBVIOUS
<1>1. CASE Clients
  <2>1. ASSUME NEW w \in Forwards, CreateForward(w) PROVE IInv'
    BY <2>1, CreateForwardStep
  <2>2. ASSUME NEW w \in Forwards, CreateForwardEx(w) PROVE IInv'
    BY <2>2, CreateForwardExStep
  <2>3. ASSUME NEW w \in Forwards, ReleaseForward(w) PROVE IInv'
    BY <2>3, ReleaseForwardStep
  <2>4. ASSUME NEW w \in Forwards, Execute(w) PROVE IInv'
    BY <2>4, ExecuteStep
  <2>5. ASSUME NEW w \in Forwards, NEW f \in Funcs, RemoveFunction(w, f) PROVE IInv'
    BY <2>5, RemoveFunctionStep
  <2>6. ASSUME NEW w \in Forwards, NEW f \in Funcs, NEW n \in Nodes, AddFunction(w, f, n) PROVE IInv'
    BY <2>6, AddFunctionStep
  <2>7. ASSUME NEW w \in Forwards, NEW p \in Plugins, RemoveFunctionsOfPlugin(w, p) PROVE IInv'
    BY <2>7, RemoveFunctionsOfPluginStep
  <2>8. ASSUME NEW p \in Plugins, OnPluginLoaded(p) PROVE IInv'
    BY <2>8, OnPluginLoadedStep
  <2>9. ASSUME NEW p \in Plugins, OnPluginUnloaded(p) PROVE IInv'
    BY <2>9, OnPluginUnloadedStep
  <2>10. ASSUME NEW p \in Plugins, Resume(p) PROVE IInv'
    BY <2>10, ResumeStep
  <2>11. ASSUME NEW p \in Plugins, NEW as \in {"paused", "error"}, Pause(p, as) PROVE IInv'
    BY <2>11, PauseStep
  <2> QED BY <1>1, <2>1, <2>2, <2>3, <2>4, <2>5, <2>6, <2>7, <2>8, <2>9, <2>10, <2>11 DEF Clients
<1>2. CASE Loop
  BY <1>2, VisitStep, FinishStep DEF Loop
<1>3. CASE Returns
  BY <1>3, OnPluginPauseChangeStep, ReturnStep DEF Returns
<1>4. CASE UNCHANGED vars
  BY <1>4 DEF vars, IInv
<1> QED BY <1>1, <1>2, <1>3, <1>4 DEF Next

\* IInv holds in every reachable state.
THEOREM Invariance == Spec => []IInv
<1> QED BY InitOK, NextInv, PTL DEF Spec

-----------------------------------------------------------------------------
(* What follows from it.                                                   *)

\* ReentrantList.h keeps every walk of Execute right, whatever the callbacks
\* add and remove: no iterator stands on a removed node or is read in between
\* a removal and the next next(), nothing is visited twice, and nothing that
\* stays in the list from the beginning of the walk to its end is left out.
THEOREM WalksAreRight == Spec => []WalkOK
<1>1. IInv => WalkOK
  <2> SUFFICES ASSUME IInv, NEW i \in DOMAIN stack
               PROVE  /\ stack[i].impl_ # NULL => stack[i].impl_ \in Range(fwd[stack[i].fwd].m_functions)
                      /\ stack[i].pc = "loop" => ~stack[i].mutated_
                      /\ stack[i].twice = {}
                      /\ stack[i].pc = "loop" /\ stack[i].impl_ = NULL => stack[i].had \subseteq stack[i].seen
    BY DEF WalkOK, IteratorsValid, ExactlyOnce
  <2>1. i \in 1..Len(stack)
    BY Parts, RangeHas
  <2>2. PICK f \in Frame : f = stack[i] /\ Shape(f) /\ (f.fwd # NULL => Walking(f, fwd[f.fwd].m_functions) /\ f.fwd \in Forwards)
    BY <2>1, Parts, WalksFacts
  <2>3. CASE f.fwd = NULL
    BY <2>2, <2>3 DEF Shape
  <2>4. CASE f.fwd # NULL
    <3>1. PICK s \in Seq(Nodes) : s = fwd[f.fwd].m_functions
      BY <2>2, <2>4, Parts
    <3>2. Walking(f, s)
      BY <2>2, <2>4, <3>1
    <3>3. f.impl_ # NULL => f.impl_ \in Range(s)
      BY <3>1, <3>2, RangeHas DEF Walking
    <3>4. f.had \subseteq Nodes
      BY DEF Frame
    <3>5. f.impl_ = NULL => f.had \subseteq f.seen
      BY <3>2, <3>4 DEF Walking, Behind
    <3>6. f.twice = {}
      BY <3>2 DEF Walking
    <3> QED BY <2>2, <3>1, <3>3, <3>5, <3>6 DEF Shape
  <2> QED BY <2>3, <2>4
<1> QED BY <1>1, Invariance, PTL

\* Nothing is deleted under a call: ReleaseForward defers to the last Execute
\* of the forward, and the lists hold functions of loaded plugins only.
THEOREM CallsAreSafe == Spec => []CallsSafe
<1>1. ASSUME IInv PROVE TypeOK
  BY <1>1, Parts, WalksFacts DEF TypeOK, Statuses
<1>2. ASSUME IInv PROVE DepthOK
  <2>1. DOMAIN stack = 1..Len(stack)
    BY <1>2, Parts, RangeHas
  <2>2. \A w : CallsOf(stack, w) = {i \in DOMAIN stack : stack[i].fwd = w}
    BY <2>1 DEF CallsOf
  <2>3. \A w \in Forwards : /\ fwd[w].m_ExecDepth = Cardinality(CallsOf(stack, w))
                            /\ (fwd[w].m_ExecDepth > 0 => fwd[w].alive) /\ (fwd[w].m_deleted => fwd[w].m_ExecDepth > 0)
    BY <1>2, Parts, WalksFacts
  <2> QED BY <2>2, <2>3 DEF DepthOK
<1>3. ASSUME IInv PROVE CallsLoaded
  <2> SUFFICES ASSUME NEW w \in Forwards, NEW n \in Nodes, n \in Range(fwd[w].m_functions)
               PROVE  Owner[func[n]] \in Loaded
    BY DEF CallsLoaded
  <2>1. Has(fwd[w].m_functions, n)
    BY <1>3, Parts, RangeHas
  <2>2. Owner[func[n]] \in Plugins
    BY <1>3, Parts, ForwardAssumption
  <2> QED BY <1>3, <2>1, <2>2, Parts DEF Registered, Loaded
<1>4. IInv => CallsSafe
  BY <1>1, <1>2, <1>3 DEF CallsSafe
<1> QED BY <1>4, Invariance, PTL

\* A managed forward has the public function of every running plugin once,
\* whenever plugins are loaded, paused, resumed and unloaded and whenever the
\* forward is created, also from within callbacks.
THEOREM ManagedForwardsComplete == Spec => []ManagedComplete
<1>1. IInv => ManagedComplete
  <2> SUFFICES ASSUME IInv, NEW w \in Managed, NEW f \in Public, IsRunnable(f),
                      \A i \in DOMAIN stack : stack[i].plugin # Owner[f]
               PROVE  Cardinality({n \in Range(fwd[w].m_functions) : func[n] = f}) = 1
    BY DEF ManagedComplete
  <2>1. w \in Forwards /\ fwd[w].alive /\ fwd[w].managed
    BY DEF Managed
  <2>2. PICK s \in Seq(Nodes) : s = fwd[w].m_functions
    BY <2>1, Parts
  <2>3. ~Told(stack, Owner[f])
    BY Parts, RangeHas DEF Told
  <2>4. Once(s, func, f) /\ In(s, func, f)
    BY <2>1, <2>2, <2>3, Parts DEF Registered, IsRunnable
  <2>5. PICK m \in Nodes : Has(s, m) /\ func[m] = f
    BY <2>4 DEF In
  <2>6. \A n : n \in Range(s) <=> Has(s, n) /\ n \in Nodes
    BY <2>2, RangeHas, HasType
  <2>7. {n \in Range(s) : func[n] = f} = {m}
    BY <2>4, <2>5, <2>6 DEF Once
  <2>8. Cardinality({m}) = 1
    BY FS_Singleton
  <2> QED BY <2>2, <2>7, <2>8
<1> QED BY <1>1, Invariance, PTL

=============================================================================
