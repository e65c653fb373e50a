--------------------------- MODULE TimerSys_proofs ---------------------------
(***************************************************************************)
(* Proofs about TimerSys, for any timers, intervals and nesting of         *)
(* callbacks.  The inductive invariant IInv says in which list each timer  *)
(* is (HomesOK), what the calls on the stack rely on while those above     *)
(* them run (StackOK, RunningOK), what the stack of timers to be killed    *)
(* may hold (TokillOK), and how far the frame has come (OrderOK, WalkOK).  *)
(* LowOK adds to it how far the timers that wait for the think may be      *)
(* behind.                                                                 *)
(***************************************************************************)
EXTENDS TimerSys, Lists_proofs, FiniteSetTheorems

\* TypeOK without the depth of the stack, which follows from StackOK.
Typed ==
  /\ timer \in [Timers -> ITimer]
  /\ lists \in [ListNames -> Seq(Timers)]
  /\ m_FreeTimers \in Seq(Timers) /\ s_tokill \in Seq(Timers)
  /\ g_fTimerThink \in Int
  /\ stack \in Seq(Frame)
  /\ ends \in [Timers -> Nat] /\ fresh \subseteq Timers

HomesOK ==
  /\ \A l \in ListNames : Distinct(lists[l])
  /\ Distinct(m_FreeTimers)
  /\ \A t \in Timers :
       /\ \A l \in ListNames : Has(lists[l], t) => l = ListOf(t)
       /\ Has(m_FreeTimers, t) => ~Has(lists[ListOf(t)], t)

\* A timer in use is in its list, and is marked; the loops of RunFrame and
\* RemoveMapChangeTimers are at the bottom.
StackOK ==
  /\ \A i \in 1..Len(stack) :
       /\ stack[i].proc = "RunFrame" => i = 1 /\ (stack[i].pc = "loop" => Len(stack) = 1)
       /\ stack[i].proc = "RemoveMapChangeTimers" => i = 1 /\ stack[i].pc = "loop" /\ stack[i].timer = NULL
       /\ stack[i].proc \in {"FireTimerOnce", "KillTimer"} => stack[i].pc # "loop"
       /\ stack[i].timer = NULL => stack[i].pc = "loop"
       /\ stack[i].timer # NULL => Has(lists[stack[i].list], stack[i].timer)
       /\ stack[i].pc # "loop" => timer[stack[i].timer].m_InExec
  /\ \A i, j \in 1..Len(stack) : stack[i].timer = stack[j].timer /\ stack[i].timer # NULL => i = j

\* A timer that is marked is in use.
RunningOK ==
  \A t \in Timers : Has(lists[ListOf(t)], t) /\ timer[t].m_InExec =>
    \E i \in 1..Len(stack) : stack[i].timer = t /\ stack[i].pc # "loop"

\* What is to be killed is there, or looks as if it ran.
TokillOK ==
  \A t \in Timers : Has(s_tokill, t) => Has(lists[ListOf(t)], t) \/ timer[t].m_InExec

Ending(t) == \E i \in 1..Len(stack) : stack[i].timer = t /\ stack[i].pc = "OnTimerEnd"

EndsOK ==
  \A t \in Timers :
    /\ Has(m_FreeTimers, t) => ends[t] = 1
    /\ Has(lists[ListOf(t)], t) => ends[t] = IF Ending(t) THEN 1 ELSE 0

OrderOK ==
  \A t, u \in Timers : Precedes(lists["Single"], t, u) => timer[t].m_ToExec <= timer[u].m_ToExec

\* The loop of call f is past u.
Passed(f, u) == IF f.timer = NULL THEN Has(lists[f.list], u) ELSE Precedes(lists[f.list], u, f.timer)

\* What the loops have done so far: of what was due when the frame began,
\* nothing is behind the iterator.
Walked(f) ==
  /\ \A u \in Timers \ fresh :
       /\ f.list = "Single" /\ Passed(f, u) /\ timer[u].m_ToExec <= 0 => ~ThisFrame(u, f.flag)
       /\ f.list # "Single" /\ Has(lists["Single"], u) /\ timer[u].m_ToExec <= 0 => ~ThisFrame(u, f.flag)
  /\ \A u \in Timers : f.list = "High" /\ Passed(f, u) => -timer[u].m_ToExec <= Accuracy
  /\ ~f.flag => g_fTimerThink > 0

CaughtUp ==
  /\ -g_fTimerThink <= Accuracy
  /\ \A u \in Timers : Has(lists["High"], u) => -timer[u].m_ToExec <= Accuracy

WalkOK == IF InFrame THEN Walked(stack[1]) ELSE CaughtUp

IInv == Typed /\ HomesOK /\ StackOK /\ RunningOK /\ TokillOK /\ EndsOK /\ OrderOK /\ WalkOK

-----------------------------------------------------------------------------
(* Lists.                                                                  *)

\* iter++: what is before the next element is the one passed, or before it.
LEMMA AfterList ==
  ASSUME NEW S, NULL \notin S, NEW s \in Seq(S), Distinct(s), NEW t, Has(s, t)
  PROVE  /\ After(s, t) # NULL => After(s, t) \in S /\ Has(s, After(s, t)) /\ After(s, t) # t
         /\ After(s, t) # NULL => \A u : Precedes(s, u, After(s, t)) => u = t \/ Precedes(s, u, t)
         /\ After(s, t) = NULL => \A u : Has(s, u) => u = t \/ Precedes(s, u, t)
<1> DEFINE n == CHOOSE i \in 1..Len(s) : s[i] = t
           v == After(s, t)
<1>1. n \in 1..Len(s) /\ s[n] = t
  BY DEF Has
<1>2. v = IF n = Len(s) THEN NULL ELSE s[n + 1]
  BY DEF After
<1> HIDE DEF n, v
<1>3. Len(s) \in Nat /\ \A i, j \in 1..Len(s) : s[i] = s[j] => i = j
  BY DEF Distinct
<1>4. CASE n = Len(s)
  <2>1. v = NULL
    BY <1>2, <1>4
  <2>2. ASSUME NEW u, Has(s, u) PROVE u = t \/ Precedes(s, u, t)
    <3>1. PICK i \in 1..Len(s) : s[i] = u
      BY <2>2 DEF Has
    <3>2. i = n \/ i < n
      BY <1>4
    <3> QED BY <3>1, <3>2, <1>1 DEF Precedes
  <2> QED BY <2>1, <2>2 DEF v
<1>5. CASE n # Len(s)
  <2>1. n + 1 \in 1..Len(s) /\ v = s[n + 1] /\ n + 1 # n
    BY <1>1, <1>2, <1>3, <1>5
  <2>2. v \in S /\ Has(s, v) /\ v # t
    BY <2>1, <1>1, <1>3 DEF Has
  <2>3. ASSUME NEW u, Precedes(s, u, v) PROVE u = t \/ Precedes(s, u, t)
    <3>1. PICK i, j \in 1..Len(s) : i < j /\ s[i] = u /\ s[j] = v
      BY <2>3 DEF Precedes
    <3>2. j = n + 1
      BY <3>1, <2>1, <1>3
    <3>3. i = n \/ i < n
      BY <3>1, <3>2, <1>1
    <3> QED BY <3>1, <3>3, <1>1 DEF Precedes
  <2>4. v # NULL
    BY <2>2
  <2> QED BY <2>2, <2>3, <2>4 DEF v
<1> QED BY <1>4, <1>5

\* Nothing is before the first element.
LEMMA FirstList ==
  ASSUME NEW S, NULL \notin S, NEW s \in Seq(S), Distinct(s)
  PROVE  /\ First(s) # NULL => First(s) \in S /\ Has(s, First(s)) /\ \A u : ~Precedes(s, u, First(s))
         /\ First(s) = NULL => \A u : ~Has(s, u)
<1>1. CASE s = <<>>
  BY <1>1, EmptyList DEF First
<1>2. CASE s # <<>>
  <2>1. First(s) = s[1] /\ 1 \in 1..Len(s) /\ s[1] \in S /\ s[1] # NULL
    BY <1>2 DEF First
  <2>2. Has(s, s[1])
    BY <2>1 DEF Has
  <2>3. ASSUME NEW u, Precedes(s, u, s[1]) PROVE FALSE
    <3>1. PICK i, j \in 1..Len(s) : i < j /\ s[i] = u /\ s[j] = s[1]
      BY <2>3 DEF Precedes
    <3>2. j = 1
      BY <3>1, <2>1 DEF Distinct
    <3> QED BY <3>1, <3>2
  <2> QED BY <2>1, <2>2, <2>3
<1> QED BY <1>1, <1>2

\* An element is put before position k.
LEMMA InsertAtList ==
  ASSUME NEW S, NEW s \in Seq(S), NEW e \in S, NEW k \in 1..Len(s), Distinct(s), ~Has(s, e)
  PROVE  /\ InsertAt(s, k, e) \in Seq(S)
         /\ \A x : Has(InsertAt(s, k, e), x) <=> Has(s, x) \/ x = e
         /\ Distinct(InsertAt(s, k, e))
         /\ \A a, b : Precedes(InsertAt(s, k, e), a, b) =>
              \/ Precedes(s, a, b)
              \/ a = e /\ \E i \in 1..Len(s) : k <= i /\ s[i] = b
              \/ b = e /\ \E i \in 1..Len(s) : i < k /\ s[i] = a
<1> DEFINE r == InsertAt(s, k, e)
<1>1. /\ r \in Seq(S) /\ Len(s) \in Nat /\ Len(r) = Len(s) + 1 /\ r[k] = e /\ k \in 1..Len(r)
      /\ \A i \in 1..Len(r) : i < k => r[i] = s[i] /\ i \in 1..Len(s)
      /\ \A i \in 1..Len(r) : k < i => r[i] = s[i - 1] /\ i - 1 \in 1..Len(s) /\ k <= i - 1
  <2> DEFINE a == SubSeq(s, 1, k - 1)
             b == SubSeq(s, k, Len(s))
             c == a \o <<e>>
  <2>1. /\ Len(s) \in Nat /\ k \in Nat /\ 1 <= k /\ k <= Len(s)
        /\ a \in Seq(S) /\ Len(a) = k - 1 /\ \A i \in 1..(k-1) : a[i] = s[i]
    OBVIOUS
  <2>2. b \in Seq(S) /\ Len(b) = Len(s) - k + 1 /\ \A i \in 1..(Len(s)-k+1) : b[i] = s[k+i-1]
    OBVIOUS
  <2> HIDE DEF a, b
  <2>3. c \in Seq(S) /\ Len(c) = k /\ c[k] = e /\ \A i \in 1..(k-1) : c[i] = s[i]
    BY <2>1
  <2> HIDE DEF c
  <2>4. r = c \o b
    BY DEF InsertAt, a, b, c
  <2> HIDE DEF r
  <2>5. r \in Seq(S) /\ Len(r) = Len(s) + 1
    <3>1. b \in Seq(S) /\ c \in Seq(S)
      BY <2>2, <2>3
    <3>2. c \o b \in Seq(S)
      BY <3>1
    <3>3. Len(c \o b) = Len(c) + Len(b)
      BY <3>1
    <3>4. Len(c) + Len(b) = Len(s) + 1
      BY ONLY <2>1, <2>2, <2>3
    <3>5. Len(r) = Len(s) + 1
      BY ONLY <2>4, <3>3, <3>4
    <3>6. r \in Seq(S)
      BY ONLY <2>4, <3>2
    <3> QED BY <3>5, <3>6
  <2>6. \A i \in 1..k : r[i] = c[i]
    BY <2>1, <2>2, <2>3, <2>4
  <2>7. ASSUME NEW i \in 1..Len(r), k < i PROVE r[i] = s[i-1] /\ i - 1 \in 1..Len(s) /\ k <= i - 1
    <3>1. r[i] = b[i - k] /\ i - k \in 1..(Len(s)-k+1)
      BY <2>1, <2>2, <2>3, <2>4, <2>5, <2>7
    <3>2. b[i - k] = s[k + (i - k) - 1] /\ k + (i - k) - 1 = i - 1
      BY <2>1, <2>2, <2>5, <3>1
    <3> QED BY <2>1, <2>5, <2>7, <3>1, <3>2
  <2> QED BY <2>1, <2>3, <2>5, <2>6, <2>7
<1>2. \A i \in 1..Len(s) : IF i < k THEN i \in 1..Len(r) /\ r[i] = s[i] ELSE i + 1 \in 1..Len(r) /\ r[i + 1] = s[i]
  BY DEF InsertAt
<1> HIDE DEF r
<1>3. \A i \in 1..Len(r) : i < k \/ i = k \/ k < i
  OBVIOUS
<1>4. \A x : Has(r, x) => Has(s, x) \/ x = e
  BY <1>1, <1>3 DEF Has
<1>5. \A x : Has(s, x) \/ x = e => Has(r, x)
  BY <1>1, <1>2 DEF Has
<1>6. \A i \in 1..Len(r) : i # k => Has(s, r[i])
  BY <1>1, <1>3 DEF Has
<1>7. ASSUME NEW i \in 1..Len(r), NEW j \in 1..Len(r), r[i] = r[j] PROVE i = j
  <2>1. \A a, b \in 1..Len(s) : s[a] = s[b] => a = b
    BY DEF Distinct
  <2>2. (i = k => j = k) /\ (j = k => i = k)
    BY <1>1, <1>6, <1>7
  <2>3. CASE i # k /\ j # k
    <3>1. CASE i < k /\ j < k
      BY <3>1, <1>1, <1>7, <2>1
    <3>2. CASE k < i /\ k < j
      <4>1. i - 1 = j - 1
        BY <3>2, <1>1, <1>7, <2>1
      <4> QED BY <4>1
    <3>3. CASE i < k /\ k < j
      <4>1. i = j - 1 /\ k <= j - 1
        BY <3>3, <1>1, <1>7, <2>1
      <4> QED BY <4>1, <3>3
    <3>4. CASE k < i /\ j < k
      <4>1. j = i - 1 /\ k <= i - 1
        BY <3>4, <1>1, <1>7, <2>1
      <4> QED BY <4>1, <3>4
    <3> QED BY <2>3, <3>1, <3>2, <3>3, <3>4, <1>3
  <2> QED BY <2>2, <2>3
<1>8. ASSUME NEW a, NEW b, Precedes(r, a, b)
      PROVE  \/ Precedes(s, a, b)
             \/ a = e /\ \E i \in 1..Len(s) : k <= i /\ s[i] = b
             \/ b = e /\ \E i \in 1..Len(s) : i < k /\ s[i] = a
  <2>1. PICK i, j \in 1..Len(r) : i < j /\ r[i] = a /\ r[j] = b
    BY <1>8 DEF Precedes
  <2>2. CASE i = k
    <3>1. k < j
      BY <2>1, <2>2
    <3> QED BY <2>1, <2>2, <3>1, <1>1
  <2>3. CASE j = k
    <3>1. i < k
      BY <2>1, <2>3
    <3> QED BY <2>1, <2>3, <3>1, <1>1
  <2>4. CASE j < k
    <3>1. i < k
      BY <2>1, <2>4
    <3> QED BY <2>1, <2>4, <3>1, <1>1 DEF Precedes
  <2>5. CASE i < k /\ k < j
    <3>1. i < j - 1
      BY <2>5
    <3> QED BY <2>1, <2>5, <3>1, <1>1 DEF Precedes
  <2>6. CASE k < i
    <3>1. k < j /\ i - 1 < j - 1
      BY <2>1, <2>6
    <3> QED BY <2>1, <2>6, <3>1, <1>1 DEF Precedes
  <2>7. i = k \/ j = k \/ j < k \/ (i < k /\ k < j) \/ k < i
    BY <1>3
  <2> QED BY <2>2, <2>3, <2>4, <2>5, <2>6, <2>7
<1> QED BY <1>1, <1>4, <1>5, <1>7, <1>8 DEF r, Distinct

\* The single timers stay sorted: what CreateTimer puts the new one before is
\* not earlier, and what it puts it behind not later.
LEMMA InsertSortedList ==
  ASSUME timer \in [Timers -> ITimer], NEW s \in Seq(Timers), Distinct(s),
         NEW t \in Timers, ~Has(s, t), NEW x \in Int,
         \A a, b \in Timers : Precedes(s, a, b) => timer[a].m_ToExec <= timer[b].m_ToExec
  PROVE  /\ InsertSorted(s, t, x) \in Seq(Timers)
         /\ \A y : Has(InsertSorted(s, t, x), y) <=> Has(s, y) \/ y = t
         /\ Distinct(InsertSorted(s, t, x))
         /\ \A a, b \in Timers : Precedes(InsertSorted(s, t, x), a, b) =>
              \/ Precedes(s, a, b)
              \/ a = t /\ b # t /\ x <= timer[b].m_ToExec
              \/ b = t /\ a # t /\ timer[a].m_ToExec <= x
<1> DEFINE r == InsertSorted(s, t, x)
           Place(i) == /\ timer[s[i]].m_ToExec >= x
                       /\ \A j \in 1..(i-1) : timer[s[j]].m_ToExec < x
           k == CHOOSE i \in 1..Len(s) : Place(i)
<1>1. Len(s) \in Nat /\ \A i \in 1..Len(s) : s[i] \in Timers /\ s[i] # t /\ Has(s, s[i])
  BY DEF Has
<1>2. \A a \in Timers : timer[a].m_ToExec \in Int
  BY DEF ITimer
<1>3. \A i, j \in 1..Len(s) : i < j => timer[s[i]].m_ToExec <= timer[s[j]].m_ToExec
  BY <1>1 DEF Precedes
<1>4. CASE s = <<>> \/ timer[Last(s)].m_ToExec <= x
  <2>1. r = Append(s, t)
    BY <1>4 DEF InsertSorted
  <2>2. \A a \in Timers : Has(s, a) => a # t /\ timer[a].m_ToExec <= x
    <3> SUFFICES ASSUME NEW i \in 1..Len(s) PROVE s[i] # t /\ timer[s[i]].m_ToExec <= x
      BY DEF Has
    <3>1. s # <<>> /\ Len(s) \in 1..Len(s) /\ Last(s) = s[Len(s)]
      BY DEF Last
    <3>2. timer[s[Len(s)]].m_ToExec <= x
      BY <1>4, <3>1
    <3>3. CASE i = Len(s)
      BY <3>2, <3>3, <1>1
    <3>4. CASE i < Len(s)
      <4>1. timer[s[i]].m_ToExec <= timer[s[Len(s)]].m_ToExec
        BY <3>1, <3>4, <1>3
      <4> QED BY <4>1, <3>1, <3>2, <1>1, <1>2
    <3> QED BY <3>3, <3>4, <1>1
  <2>3. /\ Append(s, t) \in Seq(Timers) /\ Distinct(Append(s, t))
        /\ \A y : Has(Append(s, t), y) <=> Has(s, y) \/ y = t
        /\ \A a, b : Precedes(Append(s, t), a, b) => Precedes(s, a, b) \/ (Has(s, a) /\ b = t)
    BY AppendList
  <2> HIDE DEF r
  <2> QED BY <2>1, <2>2, <2>3 DEF r
<1>5. CASE ~(s = <<>> \/ timer[Last(s)].m_ToExec <= x)
  <2>1. r = InsertAt(s, k, t)
    BY <1>5 DEF InsertSorted
  <2>2. k \in 1..Len(s) /\ Place(k)
    <3> DEFINE B == {i \in 1..Len(s) : timer[s[i]].m_ToExec >= x}
    <3>1. Len(s) \in B
      <4>1. Len(s) \in 1..Len(s) /\ Last(s) = s[Len(s)]
        BY <1>1, <1>5 DEF Last
      <4> QED BY <4>1, <1>1, <1>2, <1>5
    <3>2. PICK i \in B : \A y \in B : ~(y < i)
      <4>1. B \subseteq Nat /\ B # {}
        BY <3>1
      <4> HIDE DEF B
      <4> QED BY <4>1, LeastNumber
    <3>3. ASSUME NEW j \in 1..(i-1) PROVE timer[s[j]].m_ToExec < x
      <4>1. j \in 1..Len(s) /\ j < i
        BY <1>1
      <4>2. j \notin B
        BY <3>2, <4>1
      <4> QED BY <4>1, <4>2, <1>1, <1>2
    <3>4. Place(i)
      BY <3>3
    <3> HIDE DEF Place
    <3> QED BY <3>4
  <2> HIDE DEF r, k
  <2>3. \A i \in 1..Len(s) : k <= i => x <= timer[s[i]].m_ToExec
    <3> SUFFICES ASSUME NEW i \in 1..Len(s), k <= i PROVE x <= timer[s[i]].m_ToExec
      OBVIOUS
    <3>1. CASE k = i
      BY <3>1, <2>2, <1>1, <1>2
    <3>2. CASE k < i
      <4>1. timer[s[k]].m_ToExec <= timer[s[i]].m_ToExec
        BY <3>2, <2>2, <1>3
      <4> QED BY <4>1, <2>2, <1>1, <1>2
    <3> QED BY <3>1, <3>2, <2>2
  <2>4. \A i \in 1..Len(s) : i < k => timer[s[i]].m_ToExec <= x
    BY <2>2, <1>1, <1>2
  <2>5. /\ r \in Seq(Timers) /\ Distinct(r)
        /\ \A y : Has(r, y) <=> Has(s, y) \/ y = t
        /\ \A a, b : Precedes(r, a, b) =>
              \/ Precedes(s, a, b)
              \/ a = t /\ \E i \in 1..Len(s) : k <= i /\ s[i] = b
              \/ b = t /\ \E i \in 1..Len(s) : i < k /\ s[i] = a
    BY <2>1, <2>2, InsertAtList
  <2>6. \A a, b \in Timers : Precedes(r, a, b) =>
              \/ Precedes(s, a, b)
              \/ a = t /\ b # t /\ x <= timer[b].m_ToExec
              \/ b = t /\ a # t /\ timer[a].m_ToExec <= x
    BY <2>3, <2>4, <2>5, <1>1
  <2> QED BY <2>5, <2>6 DEF r
<1> QED BY <1>4, <1>5

\* A live timer is in the list its flags name.
LEMMA LiveHas ==
  ASSUME Typed, HomesOK, NEW t \in Timers
  PROVE  /\ Live(t) <=> Has(lists[ListOf(t)], t)
         /\ ListOf(t) \in ListNames
<1>1. ListOf(t) \in ListNames
  BY DEF ListOf, ListFor, ListNames
<1>2. \A l \in ListNames : lists[l] \in Seq(Timers)
  BY DEF Typed
<1>3. \A l \in ListNames : t \in Range(lists[l]) <=> Has(lists[l], t)
  BY <1>2 DEF Range, Has
<1> QED BY <1>1, <1>3 DEF Live, HomesOK

\* The top of the stack.
LEMMA TopFacts ==
  ASSUME Typed, stack # <<>>
  PROVE  /\ Len(stack) \in Nat /\ 1 <= Len(stack) /\ Len(stack) \in 1..Len(stack)
         /\ Top = stack[Len(stack)] /\ Top \in Frame
  BY DEF Typed, Top, Last

-----------------------------------------------------------------------------
(* What most steps have in common.                                         *)

\* What the loops have passed stays as it is when the frame at the bottom does
\* and what is new is of this frame.
LEMMA WalkKept ==
  ASSUME Typed, Typed', WalkOK, g_fTimerThink' = g_fTimerThink, InFrame' <=> InFrame,
         InFrame => /\ stack'[1].timer = stack[1].timer /\ stack'[1].list = stack[1].list
                    /\ stack'[1].flag = stack[1].flag /\ stack[1] \in Frame,
         InFrame => \A u \in Timers : Passed(stack[1], u)' =>
           Passed(stack[1], u) \/ (u \in fresh' /\ -timer'[u].m_ToExec <= Accuracy),
         \A u \in Timers \ fresh' : Has(lists'["Single"], u) =>
           /\ u \notin fresh /\ Has(lists["Single"], u)
           /\ timer'[u].m_ToExec = timer[u].m_ToExec /\ timer'[u].m_Flags = timer[u].m_Flags,
         \A u \in Timers : Has(lists'["High"], u) =>
           \/ Has(lists["High"], u) /\ timer'[u].m_ToExec = timer[u].m_ToExec
           \/ -timer'[u].m_ToExec <= Accuracy
  PROVE  WalkOK'
<1>1. CASE ~InFrame
  <2>1. CaughtUp
    BY <1>1 DEF WalkOK
  <2>2. CaughtUp'
    BY <2>1 DEF CaughtUp
  <2> QED BY <1>1, <2>2 DEF WalkOK
<1>2. CASE InFrame
  <2>1. Walked(stack[1])
    BY <1>2 DEF WalkOK
  <2>2. PICK f, f2 : f = stack[1] /\ f2 = stack'[1]
    OBVIOUS
  <2>3. f2.timer = f.timer /\ f2.list = f.list /\ f2.flag = f.flag /\ f.list \in ListNames
    BY <1>2, <2>2 DEF Frame
  <2>4. \A u \in Timers : Passed(f2, u)' => Passed(f, u) \/ (u \in fresh' /\ -timer'[u].m_ToExec <= Accuracy)
    BY <1>2, <2>2, <2>3 DEF Passed
  <2>5. \A u \in Timers : Passed(f2, u)' => Has(lists'[f.list], u)
    <3>1. lists'[f.list] \in Seq(Timers)
      BY <2>3 DEF Typed
    <3> QED BY <2>3, <3>1, HasType DEF Passed
  <2>6. Walked(f)
    BY <2>1, <2>2
  <2>7. ASSUME NEW u \in Timers \ fresh', f2.list = "Single", Passed(f2, u)', timer'[u].m_ToExec <= 0
        PROVE  ~ThisFrame(u, f2.flag)'
    <3>1. Passed(f, u) /\ Has(lists'["Single"], u)
      BY <2>3, <2>4, <2>5, <2>7
    <3>2. u \in Timers \ fresh /\ timer[u].m_ToExec <= 0 /\ timer'[u].m_Flags = timer[u].m_Flags
      BY <2>7, <3>1
    <3>3. ~ThisFrame(u, f.flag)
      BY <2>3, <2>6, <2>7, <3>1, <3>2 DEF Walked
    <3> QED BY <2>3, <3>2, <3>3 DEF ThisFrame
  <2>8. ASSUME NEW u \in Timers \ fresh', f2.list # "Single", Has(lists'["Single"], u), timer'[u].m_ToExec <= 0
        PROVE  ~ThisFrame(u, f2.flag)'
    <3>1. /\ u \in Timers \ fresh /\ timer[u].m_ToExec <= 0 /\ timer'[u].m_Flags = timer[u].m_Flags
          /\ Has(lists["Single"], u)
      BY <2>8
    <3>2. ~ThisFrame(u, f.flag)
      BY <2>3, <2>6, <2>8, <3>1 DEF Walked
    <3> QED BY <2>3, <3>1, <3>2 DEF ThisFrame
  <2>9. ASSUME NEW u \in Timers, f2.list = "High", Passed(f2, u)' PROVE -timer'[u].m_ToExec <= Accuracy
    BY <2>3, <2>4, <2>5, <2>6, <2>9 DEF Walked
  <2>10. ~f2.flag => g_fTimerThink' > 0
    BY <2>3, <2>6 DEF Walked
  <2>11. Walked(f2)'
    BY <2>7, <2>8, <2>9, <2>10 DEF Walked
  <2> QED BY <1>2, <2>2, <2>11 DEF WalkOK
<1> QED BY <1>1, <1>2

\* A client calls FireTimerOnce, or KillTimer ends a timer that nobody uses.
LEMMA PushStep ==
  ASSUME IInv, NEW t \in Timers, NEW f \in Frame, f.timer = t, f.list = ListOf(t),
         f.pc # "loop", f.proc \in {"FireTimerOnce", "KillTimer"},
         Has(lists[ListOf(t)], t), ~timer[t].m_InExec,
         \A i \in 1..Len(stack) : stack[i].pc = "loop" => stack[i].proc = "RemoveMapChangeTimers",
         stack' = Append(stack, f),
         timer' = [timer EXCEPT ![t].m_InExec = TRUE],
         ends' = [ends EXCEPT ![t] = IF f.pc = "OnTimerEnd" THEN @ + 1 ELSE @],
         s_tokill' \in Seq(Timers), \A x : Has(s_tokill', x) => Has(s_tokill, x),
         UNCHANGED <<lists, m_FreeTimers, g_fTimerThink, fresh>>
  PROVE  IInv'
<1> USE DEF IInv
<1>1. \A i \in 1..Len(stack) : stack[i].timer # t
  BY TimerAssumption DEF StackOK
<1>2. /\ Len(stack) \in Nat /\ Len(stack') = Len(stack) + 1
      /\ \A i \in 1..Len(stack) : stack'[i] = stack[i] /\ i \in 1..Len(stack')
      /\ stack'[Len(stack) + 1] = f /\ Len(stack) + 1 \in 1..Len(stack')
      /\ \A i \in 1..Len(stack') : i \in 1..Len(stack) \/ i = Len(stack) + 1
      /\ stack' \in Seq(Frame) /\ stack' # <<>>
  <2>1. stack \in Seq(Frame) /\ stack' = Append(stack, f)
    BY DEF Typed
  <2> QED BY ONLY <2>1, f \in Frame, PushFacts
<1>3. /\ timer' \in [Timers -> ITimer]
      /\ \A u \in Timers : /\ timer'[u].m_ToExec = timer[u].m_ToExec /\ timer'[u].m_Flags = timer[u].m_Flags
                           /\ u # t => timer'[u].m_InExec = timer[u].m_InExec
                           /\ u = t => timer'[u].m_InExec
  <2>1. timer[t] \in ITimer /\ timer \in [Timers -> ITimer]
    BY DEF Typed
  <2>2. PICK y : y = [timer[t] EXCEPT !.m_InExec = TRUE]
    OBVIOUS
  <2>3. y \in ITimer /\ y.m_InExec /\ y.m_ToExec = timer[t].m_ToExec /\ y.m_Flags = timer[t].m_Flags
    BY ONLY <2>1, <2>2 DEF ITimer
  <2>4. timer' = [timer EXCEPT ![t] = y]
    BY <2>2
  <2> QED BY ONLY <2>1, <2>3, <2>4, t \in Timers
<1>4. \A u \in Timers : ListOf(u)' = ListOf(u)
  BY <1>3 DEF ListOf
<1>5. Typed'
  <2>1. ends' \in [Timers -> Nat]
    BY DEF Typed
  <2> QED BY <1>2, <1>3, <2>1 DEF Typed
<1>6. HomesOK'
  BY <1>4 DEF HomesOK
<1>7. StackOK'
  <2>1. ASSUME NEW i \in 1..Len(stack')
        PROVE  /\ stack'[i].proc = "RunFrame" => i = 1 /\ (stack'[i].pc = "loop" => Len(stack') = 1)
               /\ stack'[i].proc = "RemoveMapChangeTimers" => i = 1 /\ stack'[i].pc = "loop" /\ stack'[i].timer = NULL
               /\ stack'[i].proc \in {"FireTimerOnce", "KillTimer"} => stack'[i].pc # "loop"
               /\ stack'[i].timer = NULL => stack'[i].pc = "loop"
               /\ stack'[i].timer # NULL => Has(lists'[stack'[i].list], stack'[i].timer)
               /\ stack'[i].pc # "loop" => timer'[stack'[i].timer].m_InExec
    <3>1. CASE i = Len(stack) + 1
      BY <1>2, <1>3, <3>1, TimerAssumption
    <3>2. CASE i \in 1..Len(stack)
      <4>1. stack[i] \in Frame /\ stack'[i] = stack[i]
        BY <1>2, <3>2 DEF Typed
      <4>2. stack[i].timer \in Timers \/ stack[i].timer = NULL
        BY <4>1 DEF Frame
      <4> QED BY <1>1, <1>3, <3>2, <4>1, <4>2 DEF StackOK
    <3> QED BY <1>2, <3>1, <3>2
  <2>2. ASSUME NEW i \in 1..Len(stack'), NEW j \in 1..Len(stack'),
               stack'[i].timer = stack'[j].timer, stack'[i].timer # NULL
        PROVE  i = j
    BY <1>1, <1>2, <2>2 DEF StackOK
  <2> QED BY <2>1, <2>2 DEF StackOK
<1>8. RunningOK'
  <2> SUFFICES ASSUME NEW u \in Timers, Has(lists[ListOf(u)], u), timer'[u].m_InExec
               PROVE  \E i \in 1..Len(stack') : stack'[i].timer = u /\ stack'[i].pc # "loop"
    BY <1>4 DEF RunningOK
  <2> QED BY <1>2, <1>3 DEF RunningOK
<1>9. TokillOK'
  BY <1>3, <1>4 DEF TokillOK
<1>10. EndsOK'
  <2>1. \A u \in Timers : u # t => (Ending(u)' <=> Ending(u))
    BY <1>2 DEF Ending
  <2>2. ~Ending(t) /\ (Ending(t)' <=> f.pc = "OnTimerEnd")
    BY <1>1, <1>2 DEF Ending
  <2>3. ~Has(m_FreeTimers, t) /\ ends[t] = 0
    BY <2>2 DEF HomesOK, EndsOK
  <2>4. \A u \in Timers : u # t => ends'[u] = ends[u]
    BY DEF Typed
  <2>5. ends'[t] = IF Ending(t)' THEN 1 ELSE 0
    BY <2>2, <2>3 DEF Typed
  <2> QED BY <1>4, <2>1, <2>3, <2>4, <2>5 DEF EndsOK
<1>11. OrderOK'
  BY <1>3 DEF OrderOK
<1>12. WalkOK'
  <2>1. /\ InFrame' <=> InFrame
        /\ InFrame => stack'[1] = stack[1] /\ stack[1] \in Frame
    <3>1. CASE stack = <<>>
      BY <1>2, <3>1 DEF InFrame
    <3>2. CASE stack # <<>>
      <4>1. 1 \in 1..Len(stack)
        BY <3>2 DEF Typed
      <4> QED BY <1>2, <3>2, <4>1 DEF InFrame, Typed
    <3> QED BY <3>1, <3>2
  <2>2. InFrame => \A u \in Timers : Passed(stack[1], u)' => Passed(stack[1], u)
    BY <2>1 DEF Passed
  <2> QED BY <1>3, <1>5, <2>1, <2>2, WalkKept
<1> QED BY <1>5, <1>6, <1>7, <1>8, <1>9, <1>10, <1>11, <1>12

\* A timer in use is marked to be killed, or nothing happens at all.
LEMMA DeferStep ==
  ASSUME IInv, timer' \in [Timers -> ITimer],
         \A u \in Timers : /\ timer'[u].m_ToExec = timer[u].m_ToExec /\ timer'[u].m_Flags = timer[u].m_Flags
                           /\ timer'[u].m_InExec = timer[u].m_InExec,
         s_tokill' \in Seq(Timers), \A x : Has(s_tokill', x) => Has(s_tokill, x),
         UNCHANGED <<lists, m_FreeTimers, g_fTimerThink, stack, ends, fresh>>
  PROVE  IInv'
<1> USE DEF IInv
<1>1. \A u \in Timers : ListOf(u)' = ListOf(u) /\ (Ending(u)' <=> Ending(u))
  BY DEF ListOf, Ending
<1>2. Typed'
  BY DEF Typed
<1>3. HomesOK'
  BY <1>1 DEF HomesOK
<1>4. StackOK'
  <2>1. \A i \in 1..Len(stack) : stack[i].pc # "loop" => stack[i].timer \in Timers
    <3> TAKE i \in 1..Len(stack)
    <3>1. stack[i] \in Frame
      BY DEF Typed
    <3>2. stack[i].timer \in Timers \/ stack[i].timer = NULL
      BY <3>1 DEF Frame
    <3> QED BY <3>2 DEF StackOK
  <2> QED BY <2>1 DEF StackOK
<1>5. RunningOK'
  BY <1>1 DEF RunningOK
<1>6. TokillOK'
  BY <1>1 DEF TokillOK
<1>7. EndsOK'
  BY <1>1 DEF EndsOK
<1>8. OrderOK'
  BY DEF OrderOK
<1>9. WalkOK'
  <2>1. /\ InFrame' <=> InFrame
        /\ InFrame => stack'[1] = stack[1] /\ stack[1] \in Frame
    BY DEF InFrame, Typed
  <2>2. InFrame => \A u \in Timers : Passed(stack[1], u)' => Passed(stack[1], u)
    BY <2>1 DEF Passed
  <2> QED BY <1>2, <2>1, <2>2, WalkKept
<1> QED BY <1>2, <1>3, <1>4, <1>5, <1>6, <1>7, <1>8, <1>9

\* While a client has its turn, no loop is at a timer.
LEMMA TurnFacts ==
  ASSUME IInv, ClientTurn
  PROVE  \A i \in 1..Len(stack) : stack[i].pc = "loop" => stack[i].proc = "RemoveMapChangeTimers"
<1> SUFFICES ASSUME NEW i \in 1..Len(stack), stack[i].pc = "loop" PROVE stack[i].proc = "RemoveMapChangeTimers"
  OBVIOUS
<1>1. stack # <<>> /\ stack[i] \in Frame /\ Len(stack) \in Nat
  BY DEF IInv, Typed
<1>2. Top = stack[Len(stack)]
  BY <1>1, TopFacts DEF IInv
<1>3. stack[i].proc = "RunFrame" => i = Len(stack)
  BY <1>1 DEF IInv, StackOK
<1> QED BY <1>1, <1>2, <1>3 DEF ClientTurn, IInv, StackOK, Frame

\* FireTimerOnce.
LEMMA FireStep ==
  ASSUME IInv, NEW t \in Timers, NEW d \in BOOLEAN, FireTimerOnce(t, d)
  PROVE  IInv'
<1> USE DEF FireTimerOnce, MayFire
<1>1. Has(lists[ListOf(t)], t) /\ ListOf(t) \in ListNames
  BY LiveHas DEF IInv
<1>2. PICK f : f = Call("FireTimerOnce", "OnTimer", t, ListOf(t), d)
  OBVIOUS
<1>3. /\ f \in Frame /\ f.timer = t /\ f.list = ListOf(t) /\ f.pc = "OnTimer" /\ f.proc = "FireTimerOnce"
  BY <1>1, <1>2 DEF Call, Frame
<1>4. ends' = [ends EXCEPT ![t] = IF f.pc = "OnTimerEnd" THEN @ + 1 ELSE @]
  BY <1>3 DEF IInv, Typed
<1>5. s_tokill' \in Seq(Timers) /\ s_tokill' = s_tokill
  BY DEF IInv, Typed
<1> QED BY <1>1, <1>2, <1>3, <1>4, <1>5, TurnFacts, PushStep

\* KillTimer, past its test of m_KillMe.
LEMMA KillStep ==
  ASSUME IInv, NEW t \in Timers, Has(lists[ListOf(t)], t) \/ timer[t].m_InExec,
         \A i \in 1..Len(stack) : stack[i].pc = "loop" => stack[i].proc = "RemoveMapChangeTimers",
         Kill(t, stack),
         s_tokill' \in Seq(Timers), \A x : Has(s_tokill', x) => Has(s_tokill, x),
         UNCHANGED <<lists, m_FreeTimers, g_fTimerThink, fresh>>
  PROVE  IInv'
<1>1. CASE timer[t].m_InExec
  <2>1. timer' = [timer EXCEPT ![t].m_KillMe = TRUE] /\ stack' = stack /\ ends' = ends
    BY <1>1 DEF Kill, MustDefer
  <2>2. /\ timer' \in [Timers -> ITimer]
        /\ \A u \in Timers : /\ timer'[u].m_ToExec = timer[u].m_ToExec /\ timer'[u].m_Flags = timer[u].m_Flags
                             /\ timer'[u].m_InExec = timer[u].m_InExec
    BY <2>1 DEF IInv, Typed, ITimer
  <2> QED BY <2>1, <2>2, DeferStep
<1>2. CASE ~timer[t].m_InExec
  <2>1. ListOf(t) \in ListNames
    BY LiveHas DEF IInv
  <2>2. PICK f : f = Call("KillTimer", "OnTimerEnd", t, ListOf(t), FALSE)
    OBVIOUS
  <2>3. /\ f \in Frame /\ f.timer = t /\ f.list = ListOf(t) /\ f.pc = "OnTimerEnd" /\ f.proc = "KillTimer"
    BY <2>1, <2>2 DEF Call, Frame
  <2>4. /\ timer' = [timer EXCEPT ![t].m_InExec = TRUE] /\ stack' = Append(stack, f)
        /\ ends' = [ends EXCEPT ![t] = IF f.pc = "OnTimerEnd" THEN @ + 1 ELSE @]
    BY <1>2, <2>2, <2>3 DEF Kill, MustDefer, MarkInExec
  <2> QED BY <1>2, <2>3, <2>4, PushStep
<1> QED BY <1>1, <1>2

\* KillTimer.
LEMMA KillTimerStep ==
  ASSUME IInv, NEW t \in Timers, KillTimer(t)
  PROVE  IInv'
<1>1. Has(lists[ListOf(t)], t)
  BY LiveHas DEF IInv, KillTimer
<1>2. s_tokill' \in Seq(Timers) /\ s_tokill' = s_tokill
  BY DEF IInv, Typed, KillTimer
<1>3. \A i \in 1..Len(stack) : stack[i].pc = "loop" => stack[i].proc = "RemoveMapChangeTimers"
  BY TurnFacts DEF KillTimer
<1>4. Kill(t, stack) /\ UNCHANGED <<lists, m_FreeTimers, g_fTimerThink, fresh>>
  BY DEF KillTimer
<1> QED BY <1>1, <1>2, <1>3, <1>4, KillStep

-----------------------------------------------------------------------------
(* The bottom of the stack.                                                *)

\* One call.
LEMMA OneFrame ==
  ASSUME NEW f \in Frame
  PROVE  /\ <<f>> \in Seq(Frame) /\ Len(<<f>>) = 1 /\ <<f>>[1] = f /\ <<f>> # <<>>
         /\ \A i \in 1..1 : i = 1 /\ 1 \in 1..1
  OBVIOUS

\* RemoveMapChangeTimers collects timers that are there.
LEMMA RemoveMapChangeStep ==
  ASSUME IInv, RemoveMapChangeTimers
  PROVE  IInv'
<1> USE DEF IInv
<1>1. PICK f : f = Call("RemoveMapChangeTimers", "loop", NULL, "Single", FALSE)
  OBVIOUS
<1>2. /\ f \in Frame /\ f.timer = NULL /\ f.pc = "loop" /\ f.proc = "RemoveMapChangeTimers"
  BY <1>1 DEF Call, Frame, ListNames
<1>3. /\ stack = <<>> /\ stack' = <<f>>
      /\ timer' = timer /\ lists' = lists /\ m_FreeTimers' = m_FreeTimers
      /\ g_fTimerThink' = g_fTimerThink /\ ends' = ends /\ fresh' = fresh
  BY <1>1 DEF RemoveMapChangeTimers
<1>4. /\ stack' \in Seq(Frame) /\ Len(stack') = 1 /\ stack'[1] = f /\ stack' # <<>> /\ Len(stack) = 0
      /\ \A i \in 1..1 : i = 1 /\ 1 \in 1..1
  BY <1>2, <1>3, OneFrame
<1>5. s_tokill' \in Seq(Timers) /\ \A x : Has(s_tokill', x) => Has(s_tokill, x) \/ \E l \in ListNames : Has(lists[l], x)
  <2> DEFINE mapped == {t \in Timers : timer[t].m_Flags.NO_MAPCHANGE}
             a == Filter(lists["Single"], mapped)
             b == Filter(lists["Low"], mapped)
             c == Filter(lists["High"], mapped)
  <2>1. s_tokill' = s_tokill \o a \o b \o c
    BY DEF RemoveMapChangeTimers
  <2>2. /\ "Single" \in ListNames /\ "Low" \in ListNames /\ "High" \in ListNames
        /\ s_tokill \in Seq(Timers)
        /\ lists["Single"] \in Seq(Timers) /\ lists["Low"] \in Seq(Timers) /\ lists["High"] \in Seq(Timers)
    BY DEF Typed, ListNames
  <2> HIDE DEF mapped
  <2>3. /\ a \in Seq(Timers) /\ b \in Seq(Timers) /\ c \in Seq(Timers)
        /\ \A x : Has(a, x) => Has(lists["Single"], x)
        /\ \A x : Has(b, x) => Has(lists["Low"], x)
        /\ \A x : Has(c, x) => Has(lists["High"], x)
    BY <2>2, FilterList
  <2> HIDE DEF a, b, c
  <2>4. s_tokill \o a \in Seq(Timers) /\ \A x : Has(s_tokill \o a, x) => Has(s_tokill, x) \/ Has(a, x)
    BY <2>2, <2>3, ConcatList
  <2>5. s_tokill \o a \o b \in Seq(Timers) /\ \A x : Has(s_tokill \o a \o b, x) => Has(s_tokill \o a, x) \/ Has(b, x)
    BY <2>3, <2>4, ConcatList
  <2>6. /\ s_tokill \o a \o b \o c \in Seq(Timers)
        /\ \A x : Has(s_tokill \o a \o b \o c, x) => Has(s_tokill \o a \o b, x) \/ Has(c, x)
    BY <2>3, <2>5, ConcatList
  <2> QED BY <2>1, <2>2, <2>3, <2>4, <2>5, <2>6
<1>6. \A u \in Timers : ListOf(u)' = ListOf(u) /\ ~Ending(u)' /\ ~Ending(u)
  BY <1>2, <1>3, <1>4 DEF ListOf, Ending
<1>7. Typed'
  BY <1>3, <1>4, <1>5 DEF Typed
<1>8. HomesOK'
  BY <1>3, <1>6 DEF HomesOK
<1>9. StackOK'
  BY <1>2, <1>4 DEF StackOK
<1>10. RunningOK'
  BY <1>3, <1>4, <1>6 DEF RunningOK
<1>11. TokillOK'
  BY <1>3, <1>5, <1>6 DEF TokillOK, HomesOK
<1>12. EndsOK'
  BY <1>3, <1>6 DEF EndsOK
<1>13. OrderOK'
  BY <1>3 DEF OrderOK
<1>14. WalkOK'
  <2>1. ~InFrame /\ ~InFrame'
    BY <1>2, <1>3, <1>4 DEF InFrame
  <2> QED BY <1>3, <2>1 DEF WalkOK, CaughtUp
<1> QED BY <1>7, <1>8, <1>9, <1>10, <1>11, <1>12, <1>13, <1>14

\* KillCollected: what it kills is there or looks as if it ran.
LEMMA KillCollectedStep ==
  ASSUME IInv, KillCollected
  PROVE  IInv'
<1> USE DEF IInv
<1>1. /\ stack # <<>> /\ Len(stack) \in Nat /\ Len(stack) \in 1..Len(stack)
      /\ stack[Len(stack)].proc = "RemoveMapChangeTimers"
  BY TopFacts DEF KillCollected
<1>2. Len(stack) = 1 /\ stack[1].proc = "RemoveMapChangeTimers" /\ stack[1].timer = NULL /\ stack[1].pc = "loop"
  BY <1>1 DEF StackOK
<1>3. lists' = lists /\ m_FreeTimers' = m_FreeTimers /\ g_fTimerThink' = g_fTimerThink /\ fresh' = fresh
  BY DEF KillCollected
<1>4. \A i \in 1..Len(stack) : i = 1
  BY <1>2
<1>5. CASE s_tokill = <<>>
  <2>1. /\ stack' = Front(stack) /\ timer' = timer /\ ends' = ends /\ s_tokill' = s_tokill
    BY <1>5 DEF KillCollected, Pop
  <2>2. stack' \in Seq(Frame) /\ Len(stack') = 0
    <3>1. stack \in Seq(Frame)
      BY DEF Typed
    <3>2. Front(stack) \in Seq(Frame) /\ Len(Front(stack)) = Len(stack) - 1
      BY ONLY <1>1, <3>1, FrontList
    <3> QED BY <1>2, <2>1, <3>2
  <2>3. stack' = <<>> /\ 1..Len(stack') = {}
    BY <2>2
  <2>4. \A u \in Timers : ListOf(u)' = ListOf(u) /\ ~Ending(u)' /\ ~Ending(u)
    BY <1>2, <1>4, <2>1, <2>3 DEF ListOf, Ending
  <2>5. Typed' /\ OrderOK' /\ StackOK'
    BY <1>3, <2>1, <2>2, <2>3 DEF Typed, OrderOK, StackOK
  <2>6. HomesOK' /\ TokillOK' /\ EndsOK'
    BY <1>3, <2>1, <2>4 DEF HomesOK, TokillOK, EndsOK
  <2>7. RunningOK'
    BY <1>2, <1>3, <1>4, <2>1, <2>4 DEF RunningOK
  <2>8. WalkOK'
    <3>1. ~InFrame /\ ~InFrame'
      BY <1>2, <2>3 DEF InFrame
    <3> QED BY <1>3, <2>1, <3>1 DEF WalkOK, CaughtUp
  <2> QED BY <2>5, <2>6, <2>7, <2>8
<1>6. CASE s_tokill # <<>>
  <2>1. PICK t : t = Last(s_tokill)
    OBVIOUS
  <2>2. /\ s_tokill' = Front(s_tokill)
        /\ IF timer[t].m_KillMe THEN UNCHANGED <<timer, ends, stack>> ELSE Kill(t, stack)
    BY <1>6, <2>1 DEF KillCollected
  <2>3. /\ s_tokill' \in Seq(Timers) /\ t \in Timers /\ Has(s_tokill, t)
        /\ \A x : Has(s_tokill', x) => Has(s_tokill, x)
    BY <1>6, <2>1, <2>2, FrontList DEF Typed
  <2>4. Has(lists[ListOf(t)], t) \/ timer[t].m_InExec
    BY <2>3 DEF TokillOK
  <2>5. CASE timer[t].m_KillMe
    <3>1. timer' = timer /\ ends' = ends /\ stack' = stack /\ timer' \in [Timers -> ITimer]
      BY <2>2, <2>5 DEF Typed
    <3> QED BY <1>3, <2>3, <3>1, DeferStep
  <2>6. CASE ~timer[t].m_KillMe
    <3>1. Kill(t, stack)
      BY <2>2, <2>6
    <3>2. \A i \in 1..Len(stack) : stack[i].pc = "loop" => stack[i].proc = "RemoveMapChangeTimers"
      BY <1>2, <1>4
    <3> QED BY <1>3, <2>3, <2>4, <3>1, <3>2, KillStep
  <2> QED BY <2>5, <2>6
<1> QED BY <1>5, <1>6

-----------------------------------------------------------------------------
(* CreateTimer.                                                            *)

\* The object CreateTimer takes is in no list.
LEMMA NextTimerFacts ==
  ASSUME IInv, NEW t \in Timers, NextTimer(t)
  PROVE  /\ \A l \in ListNames : ~Has(lists[l], t)
         /\ \A i \in 1..Len(stack) : stack[i].timer # t
<1>1. ~Has(lists[ListOf(t)], t)
  <2>1. CASE m_FreeTimers # <<>>
    <3>1. Has(m_FreeTimers, t)
      BY <2>1, FrontList DEF NextTimer, IInv, Typed
    <3> QED BY <3>1 DEF IInv, HomesOK
  <2>2. CASE m_FreeTimers = <<>>
    BY <2>2, LiveHas DEF NextTimer, IInv
  <2> QED BY <2>1, <2>2
<1>2. \A l \in ListNames : ~Has(lists[l], t)
  BY <1>1 DEF IInv, HomesOK
<1>3. \A i \in 1..Len(stack) : stack[i].timer # t
  <2> TAKE i \in 1..Len(stack)
  <2>1. stack[i] \in Frame
    BY DEF IInv, Typed
  <2>2. stack[i].list \in ListNames
    BY <2>1 DEF Frame
  <2> QED BY <1>2, <2>2, TimerAssumption DEF IInv, StackOK
<1> QED BY <1>2, <1>3

\* The lists after CreateTimer.
LEMMA CreateLists ==
  ASSUME IInv, NEW t \in Timers, NEW interval \in Intervals, NEW flags \in Kinds, CreateTimer(t, interval, flags)
  PROVE  /\ lists' \in [ListNames -> Seq(Timers)] /\ ListFor(flags) \in ListNames
         /\ \A l \in ListNames :
              /\ Distinct(lists'[l])
              /\ \A x : Has(lists'[l], x) <=> Has(lists[l], x) \/ (l = ListFor(flags) /\ x = t)
              /\ \A a, b \in Timers : a # t /\ b # t /\ Precedes(lists'[l], a, b) => Precedes(lists[l], a, b)
         /\ \A a, b \in Timers : Precedes(lists'["Single"], a, b) =>
              \/ Precedes(lists["Single"], a, b) /\ a # t /\ b # t
              \/ a = t /\ b # t /\ interval <= timer[b].m_ToExec
              \/ b = t /\ a # t /\ timer[a].m_ToExec <= interval
<1>1. PICK L : L = ListFor(flags)
  OBVIOUS
<1>2. L \in ListNames /\ (L = "Single" <=> ~flags.REPEAT) /\ interval \in Int /\ "Single" \in ListNames
  BY <1>1, TimerAssumption DEF ListFor, ListNames
<1>3. /\ timer \in [Timers -> ITimer] /\ lists \in [ListNames -> Seq(Timers)]
      /\ lists[L] \in Seq(Timers) /\ Distinct(lists[L]) /\ \A l \in ListNames : ~Has(lists[l], t)
  BY <1>2, NextTimerFacts DEF IInv, Typed, HomesOK, CreateTimer
<1>4. PICK r : r = IF flags.REPEAT THEN Append(lists[L], t) ELSE InsertSorted(lists[L], t, interval)
  OBVIOUS
<1>5. lists' = [lists EXCEPT ![L] = r]
  BY <1>1, <1>3, <1>4 DEF CreateTimer
<1>6. /\ r \in Seq(Timers) /\ Distinct(r)
      /\ \A x : Has(r, x) <=> Has(lists[L], x) \/ x = t
      /\ \A a, b \in Timers : Precedes(r, a, b) =>
           \/ Precedes(lists[L], a, b)
           \/ a = t /\ b # t /\ (L = "Single" => interval <= timer[b].m_ToExec)
           \/ b = t /\ a # t /\ (L = "Single" => timer[a].m_ToExec <= interval)
  <2>1. CASE flags.REPEAT
    <3>1. r = Append(lists[L], t)
      BY <1>4, <2>1
    <3>2. /\ r \in Seq(Timers) /\ Distinct(r)
          /\ \A x : Has(r, x) <=> Has(lists[L], x) \/ x = t
          /\ \A a, b : Precedes(r, a, b) => Precedes(lists[L], a, b) \/ (Has(lists[L], a) /\ b = t)
      BY <1>2, <1>3, <3>1, AppendList
    <3>3. \A a : Has(lists[L], a) => a # t
      BY <1>2, <1>3
    <3> QED BY <1>2, <2>1, <3>2, <3>3
  <2>2. CASE ~flags.REPEAT
    <3>1. r = InsertSorted(lists["Single"], t, interval) /\ L = "Single"
      BY <1>2, <1>4, <2>2
    <3>2. \A a, b \in Timers : Precedes(lists["Single"], a, b) => timer[a].m_ToExec <= timer[b].m_ToExec
      BY DEF IInv, OrderOK
    <3> QED BY <1>2, <1>3, <3>1, <3>2, InsertSortedList
  <2> QED BY <2>1, <2>2
<1>7. \A a, b \in Timers : \A l \in ListNames : Precedes(lists[l], a, b) => a # t /\ b # t
  BY <1>3, HasType
<1>8. /\ \A l \in ListNames : lists'[l] = IF l = L THEN r ELSE lists[l]
      /\ lists' \in [ListNames -> Seq(Timers)]
  BY <1>2, <1>3, <1>5, <1>6
<1>9. ASSUME NEW l \in ListNames
      PROVE  /\ Distinct(lists'[l])
             /\ \A x : Has(lists'[l], x) <=> Has(lists[l], x) \/ (l = L /\ x = t)
             /\ \A a, b \in Timers : a # t /\ b # t /\ Precedes(lists'[l], a, b) => Precedes(lists[l], a, b)
  <2>1. CASE l = L
    BY <1>6, <1>8, <2>1
  <2>2. CASE l # L
    <3>1. lists'[l] = lists[l]
      BY <1>8, <2>2
    <3> QED BY <2>2, <3>1 DEF IInv, HomesOK
  <2> QED BY <2>1, <2>2
<1>10. ASSUME NEW a \in Timers, NEW b \in Timers, Precedes(lists'["Single"], a, b)
       PROVE  \/ Precedes(lists["Single"], a, b) /\ a # t /\ b # t
              \/ a = t /\ b # t /\ interval <= timer[b].m_ToExec
              \/ b = t /\ a # t /\ timer[a].m_ToExec <= interval
  <2>1. CASE L = "Single"
    BY <1>2, <1>6, <1>7, <1>8, <1>10, <2>1
  <2>2. CASE L # "Single"
    BY <1>2, <1>7, <1>8, <1>10, <2>2
  <2> QED BY <2>1, <2>2
<1> QED BY <1>1, <1>2, <1>8, <1>9, <1>10

\* CreateTimer.
LEMMA CreateStep ==
  ASSUME IInv, NEW t \in Timers, NEW interval \in Intervals, NEW flags \in Kinds, CreateTimer(t, interval, flags)
  PROVE  IInv'
<1> USE DEF IInv
<1>1. /\ \A l \in ListNames : ~Has(lists[l], t)
      /\ \A i \in 1..Len(stack) : stack[i].timer # t
  BY NextTimerFacts DEF CreateTimer
<1>2. PICK L : L = ListFor(flags)
  OBVIOUS
<1>3. /\ lists' \in [ListNames -> Seq(Timers)] /\ L \in ListNames
      /\ \A l \in ListNames :
           /\ Distinct(lists'[l])
           /\ \A x : Has(lists'[l], x) <=> Has(lists[l], x) \/ (l = L /\ x = t)
           /\ \A a, b \in Timers : a # t /\ b # t /\ Precedes(lists'[l], a, b) => Precedes(lists[l], a, b)
  <2>1. /\ lists' \in [ListNames -> Seq(Timers)] /\ ListFor(flags) \in ListNames
        /\ \A l \in ListNames :
             /\ Distinct(lists'[l])
             /\ \A x : Has(lists'[l], x) <=> Has(lists[l], x) \/ (l = ListFor(flags) /\ x = t)
             /\ \A a, b \in Timers : a # t /\ b # t /\ Precedes(lists'[l], a, b) => Precedes(lists[l], a, b)
    BY CreateLists
  <2> QED BY ONLY <1>2, <2>1
<1>4. \A a, b \in Timers : Precedes(lists'["Single"], a, b) =>
           \/ Precedes(lists["Single"], a, b) /\ a # t /\ b # t
           \/ a = t /\ b # t /\ interval <= timer[b].m_ToExec
           \/ b = t /\ a # t /\ timer[a].m_ToExec <= interval
  BY CreateLists
<1>5. interval \in Nat /\ Accuracy \in Nat /\ flags \in Flags
  BY TimerAssumption
<1>6. /\ timer' \in [Timers -> ITimer]
      /\ \A u \in Timers : u # t => timer'[u] = timer[u]
      /\ timer'[t].m_ToExec = interval /\ ~timer'[t].m_InExec /\ timer'[t].m_Flags = flags
  <2>1. timer' = [timer EXCEPT ![t] =
           [ m_ToExec |-> interval, m_Interval |-> interval, m_InExec |-> FALSE, m_KillMe |-> FALSE,
             m_Flags |-> flags ]]
    BY DEF CreateTimer
  <2>2. timer \in [Timers -> ITimer]
    BY DEF Typed
  <2> QED BY <1>5, <2>1, <2>2 DEF ITimer
<1>7. /\ \A u \in Timers : u # t => ListOf(u)' = ListOf(u)
      /\ ListOf(t)' = L
  BY <1>2, <1>6 DEF ListOf
<1>8. /\ m_FreeTimers' \in Seq(Timers) /\ Distinct(m_FreeTimers')
      /\ \A x : Has(m_FreeTimers', x) => Has(m_FreeTimers, x) /\ x # t
  <2>1. CASE m_FreeTimers = <<>>
    BY <2>1, EmptyList DEF CreateTimer
  <2>2. CASE m_FreeTimers # <<>>
    <3>1. m_FreeTimers \in Seq(Timers) /\ Distinct(m_FreeTimers)
      BY DEF Typed, HomesOK
    <3>2. m_FreeTimers' = Front(m_FreeTimers) /\ t = Last(m_FreeTimers)
      BY <2>2 DEF CreateTimer, NextTimer
    <3> QED BY <2>2, <3>1, <3>2, FrontList
  <2> QED BY <2>1, <2>2
<1>9. s_tokill' = s_tokill /\ g_fTimerThink' = g_fTimerThink /\ stack' = stack
  BY DEF CreateTimer
<1>10. ends' \in [Timers -> Nat] /\ ends'[t] = 0 /\ \A u \in Timers : u # t => ends'[u] = ends[u]
  BY DEF CreateTimer, Typed
<1>11. fresh' \subseteq Timers /\ (InFrame => fresh' = fresh \cup {t})
  BY DEF CreateTimer, Typed
<1>12. Typed'
  BY <1>3, <1>6, <1>8, <1>9, <1>10, <1>11 DEF Typed
<1>13. HomesOK'
  <2>1. ASSUME NEW u \in Timers
        PROVE  /\ \A l \in ListNames : Has(lists'[l], u) => l = ListOf(u)'
               /\ Has(m_FreeTimers', u) => ~Has(lists'[ListOf(u)'], u)
    <3>1. CASE u = t
      BY <1>1, <1>3, <1>7, <1>8, <3>1
    <3>2. CASE u # t
      <4>1. ListOf(u) \in ListNames /\ ListOf(u)' = ListOf(u)
        BY <1>7, <3>2, LiveHas
      <4>2. \A l \in ListNames : Has(lists'[l], u) => Has(lists[l], u)
        BY <1>3, <3>2
      <4> QED BY <1>8, <4>1, <4>2 DEF HomesOK
    <3> QED BY <3>1, <3>2
  <2> QED BY <1>3, <1>8, <2>1 DEF HomesOK
<1>14. StackOK'
  <2>1. ASSUME NEW i \in 1..Len(stack)
        PROVE  /\ stack[i].timer # NULL => Has(lists'[stack[i].list], stack[i].timer)
               /\ stack[i].pc # "loop" => timer'[stack[i].timer].m_InExec
    <3>1. stack[i] \in Frame
      BY DEF Typed
    <3>2. (stack[i].timer \in Timers \/ stack[i].timer = NULL) /\ stack[i].list \in ListNames
      BY <3>1 DEF Frame
    <3> QED BY <1>1, <1>3, <1>6, <3>2 DEF StackOK
  <2> QED BY <1>9, <2>1 DEF StackOK
<1>15. RunningOK'
  <2> SUFFICES ASSUME NEW u \in Timers, Has(lists[ListOf(u)], u)', timer'[u].m_InExec
               PROVE  \E i \in 1..Len(stack) : stack[i].timer = u /\ stack[i].pc # "loop"
    BY <1>9 DEF RunningOK
  <2>1. u # t
    BY <1>6
  <2>2. ListOf(u) \in ListNames
    BY LiveHas
  <2>3. Has(lists[ListOf(u)], u) /\ timer[u].m_InExec
    BY <1>3, <1>6, <1>7, <2>1, <2>2
  <2> QED BY <2>3 DEF RunningOK
<1>16. TokillOK'
  <2> SUFFICES ASSUME NEW u \in Timers, Has(s_tokill, u) PROVE Has(lists'[ListOf(u)'], u) \/ timer'[u].m_InExec
    BY <1>9 DEF TokillOK
  <2>1. CASE u = t
    BY <1>3, <1>7, <2>1
  <2>2. CASE u # t
    <3>1. ListOf(u) \in ListNames
      BY LiveHas
    <3> QED BY <1>3, <1>6, <1>7, <2>2, <3>1 DEF TokillOK
  <2> QED BY <2>1, <2>2
<1>17. EndsOK'
  <2> SUFFICES ASSUME NEW u \in Timers
               PROVE  /\ Has(m_FreeTimers', u) => ends'[u] = 1
                      /\ Has(lists'[ListOf(u)'], u) => ends'[u] = IF Ending(u)' THEN 1 ELSE 0
    BY DEF EndsOK
  <2>1. Ending(u)' <=> Ending(u)
    BY <1>9 DEF Ending
  <2>2. CASE u = t
    <3>1. ~Ending(t)
      BY <1>1 DEF Ending
    <3> QED BY <1>8, <1>10, <2>1, <2>2, <3>1
  <2>3. CASE u # t
    <3>1. ListOf(u) \in ListNames
      BY LiveHas
    <3> QED BY <1>3, <1>7, <1>8, <1>10, <2>1, <2>3, <3>1 DEF EndsOK
  <2> QED BY <2>2, <2>3
<1>18. OrderOK'
  BY <1>4, <1>6 DEF OrderOK
<1>19. WalkOK'
  <2>1. /\ InFrame' <=> InFrame
        /\ InFrame => stack'[1] = stack[1] /\ stack[1] \in Frame /\ stack[1].timer # t
    BY <1>1, <1>9 DEF InFrame, Typed
  <2>2. InFrame => \A u \in Timers : Passed(stack[1], u)' =>
           Passed(stack[1], u) \/ (u \in fresh' /\ -timer'[u].m_ToExec <= Accuracy)
    <3> SUFFICES ASSUME InFrame, NEW u \in Timers, Passed(stack[1], u)'
                 PROVE  Passed(stack[1], u) \/ (u \in fresh' /\ -timer'[u].m_ToExec <= Accuracy)
      OBVIOUS
    <3>1. stack[1].list \in ListNames /\ (stack[1].timer \in Timers \/ stack[1].timer = NULL)
      BY <2>1 DEF Frame
    <3>2. CASE u = t
      BY <1>5, <1>6, <1>11, <3>2
    <3>3. CASE u # t
      BY <1>3, <2>1, <3>1, <3>3 DEF Passed
    <3> QED BY <3>2, <3>3
  <2>3. "Single" \in ListNames /\ "High" \in ListNames
    BY DEF ListNames
  <2>4. \A u \in Timers : Has(lists'["High"], u) =>
           \/ Has(lists["High"], u) /\ timer'[u].m_ToExec = timer[u].m_ToExec
           \/ -timer'[u].m_ToExec <= Accuracy
    BY <1>1, <1>3, <1>5, <1>6, <2>3
  <2>5. CASE InFrame
    <3>1. \A u \in Timers \ fresh' : Has(lists'["Single"], u) =>
           /\ u \notin fresh /\ Has(lists["Single"], u)
           /\ timer'[u].m_ToExec = timer[u].m_ToExec /\ timer'[u].m_Flags = timer[u].m_Flags
      BY <1>3, <1>6, <1>11, <2>3, <2>5
    <3> QED BY <1>9, <1>12, <2>1, <2>2, <2>4, <3>1, WalkKept
  <2>6. CASE ~InFrame
    BY <1>9, <2>1, <2>4, <2>6 DEF WalkOK, CaughtUp
  <2> QED BY <2>5, <2>6
<1> QED BY <1>12, <1>13, <1>14, <1>15, <1>16, <1>17, <1>18, <1>19

-----------------------------------------------------------------------------
(* The frame.                                                              *)

\* GameFrame: time passes for every live timer alike, and the loop is before all
\* of them.
LEMMA GameFrameStep ==
  ASSUME IInv, NEW dt \in Steps, GameFrame(dt)
  PROVE  IInv'
<1> USE DEF IInv
<1>1. dt \in Nat /\ Accuracy \in Nat /\ NULL \notin Timers
  BY TimerAssumption
<1>2. lists["Single"] \in Seq(Timers) /\ Distinct(lists["Single"]) /\ "Single" \in ListNames
  BY DEF Typed, HomesOK, ListNames
<1>3. PICK v : v = First(lists["Single"])
  OBVIOUS
<1>4. /\ v # NULL => v \in Timers /\ Has(lists["Single"], v) /\ \A u : ~Precedes(lists["Single"], u, v)
      /\ v = NULL => \A u : ~Has(lists["Single"], u)
  BY ONLY <1>1, <1>2, <1>3, FirstList
<1>5. PICK f : f = Call("RunFrame", "loop", v, "Single", g_fTimerThink - dt <= 0)
  OBVIOUS
<1>6. /\ f \in Frame /\ f.timer = v /\ f.list = "Single" /\ f.proc = "RunFrame" /\ f.pc = "loop"
      /\ f.flag <=> g_fTimerThink - dt <= 0
  <2>1. CASE g_fTimerThink - dt <= 0
    <3>1. (g_fTimerThink - dt <= 0) = TRUE
      BY <2>1
    <3>2. f = Call("RunFrame", "loop", v, "Single", TRUE)
      BY <1>5, <3>1
    <3> QED BY <1>2, <1>4, <2>1, <3>2 DEF Call, Frame
  <2>2. CASE ~(g_fTimerThink - dt <= 0)
    <3>1. (g_fTimerThink - dt <= 0) = FALSE
      BY <2>2
    <3>2. f = Call("RunFrame", "loop", v, "Single", FALSE)
      BY <1>5, <3>1
    <3> QED BY <1>2, <1>4, <2>2, <3>2 DEF Call, Frame
  <2> QED BY <2>1, <2>2
<1>7. /\ stack = <<>> /\ stack' = <<f>> /\ g_fTimerThink' = g_fTimerThink - dt
      /\ lists' = lists /\ m_FreeTimers' = m_FreeTimers /\ s_tokill' = s_tokill
      /\ ends' = ends /\ fresh' = fresh
  BY <1>3, <1>5 DEF GameFrame
<1>8. /\ stack' \in Seq(Frame) /\ Len(stack') = 1 /\ stack'[1] = f /\ stack' # <<>> /\ Len(stack) = 0
      /\ \A i \in 1..1 : i = 1 /\ 1 \in 1..1
  BY <1>6, <1>7, OneFrame
<1>9. /\ timer' \in [Timers -> ITimer]
      /\ \A u \in Timers :
           /\ timer'[u].m_InExec = timer[u].m_InExec /\ timer'[u].m_Flags = timer[u].m_Flags
           /\ timer[u].m_ToExec \in Int
           /\ timer'[u].m_ToExec = IF Live(u) THEN timer[u].m_ToExec - dt ELSE timer[u].m_ToExec
  <2>1. timer' = [t \in Timers |-> IF Live(t) THEN [timer[t] EXCEPT !.m_ToExec = @ - dt] ELSE timer[t]]
    BY DEF GameFrame
  <2>2. \A u \in Timers : timer[u] \in ITimer
    BY DEF Typed
  <2>3. ASSUME NEW u \in Timers
        PROVE  /\ timer'[u] \in ITimer
               /\ timer'[u].m_InExec = timer[u].m_InExec /\ timer'[u].m_Flags = timer[u].m_Flags
               /\ timer[u].m_ToExec \in Int
               /\ timer'[u].m_ToExec = IF Live(u) THEN timer[u].m_ToExec - dt ELSE timer[u].m_ToExec
    <3>1. CASE Live(u)
      BY <1>1, <2>1, <2>2, <3>1 DEF ITimer
    <3>2. CASE ~Live(u)
      BY <1>1, <2>1, <2>2, <3>2 DEF ITimer
    <3> QED BY <3>1, <3>2
  <2>4. timer' \in [Timers -> ITimer]
    BY <2>1, <2>3
  <2> QED BY <2>3, <2>4
<1>10. \A u \in Timers : ListOf(u)' = ListOf(u) /\ ~Ending(u)' /\ ~Ending(u)
  BY <1>6, <1>7, <1>8, <1>9 DEF ListOf, Ending
<1>11. Typed'
  BY <1>1, <1>7, <1>8, <1>9 DEF Typed
<1>12. HomesOK'
  BY <1>7, <1>10 DEF HomesOK
<1>13. StackOK'
  BY <1>4, <1>6, <1>7, <1>8 DEF StackOK
<1>14. RunningOK'
  BY <1>7, <1>8, <1>9, <1>10 DEF RunningOK
<1>15. TokillOK'
  BY <1>7, <1>9, <1>10 DEF TokillOK
<1>16. EndsOK'
  BY <1>7, <1>10 DEF EndsOK
<1>17. OrderOK'
  <2> SUFFICES ASSUME NEW a \in Timers, NEW b \in Timers, Precedes(lists["Single"], a, b)
               PROVE  timer'[a].m_ToExec <= timer'[b].m_ToExec
    BY <1>7 DEF OrderOK
  <2>1. Has(lists["Single"], a) /\ Has(lists["Single"], b)
    BY <1>2, HasType
  <2>2. "Single" = ListOf(a) /\ "Single" = ListOf(b)
    BY <1>2, <2>1 DEF HomesOK
  <2>3. Live(a) /\ Live(b)
    BY <2>1, <2>2, LiveHas
  <2>4. timer[a].m_ToExec <= timer[b].m_ToExec
    BY DEF OrderOK
  <2> QED BY <1>1, <1>9, <2>3, <2>4
<1>18. WalkOK'
  <2>1. InFrame'
    BY <1>6, <1>8 DEF InFrame
  <2>2. \A u \in Timers : ~Passed(f, u)'
    BY <1>4, <1>6, <1>7 DEF Passed
  <2>3. ~f.flag => g_fTimerThink' > 0
    BY <1>1, <1>6, <1>7 DEF Typed
  <2>4. Walked(f)'
    BY <1>6, <2>2, <2>3 DEF Walked
  <2> QED BY <1>8, <2>1, <2>4 DEF WalkOK
<1> QED BY <1>11, <1>12, <1>13, <1>14, <1>15, <1>16, <1>17, <1>18

\* The loops of RunFrame run with nothing above them.
LEMMA LoopFacts ==
  ASSUME IInv, InLoop("RunFrame")
  PROVE  /\ Len(stack) = 1 /\ stack # <<>> /\ stack \in Seq(Frame) /\ Top = stack[1] /\ stack[1] \in Frame
         /\ stack[1].proc = "RunFrame" /\ stack[1].pc = "loop" /\ InFrame /\ Walked(stack[1])
         /\ stack[1].list \in ListNames /\ (stack[1].timer # NULL => stack[1].timer \in Timers)
         /\ stack[1].timer # NULL => Has(lists[stack[1].list], stack[1].timer)
         /\ \A i \in 1..Len(stack) : i = 1
<1>1. /\ stack # <<>> /\ Len(stack) \in 1..Len(stack) /\ Top = stack[Len(stack)] /\ Top \in Frame
      /\ Top.proc = "RunFrame" /\ Top.pc = "loop" /\ stack \in Seq(Frame)
  BY TopFacts DEF IInv, Typed, InLoop
<1>2. Len(stack) = 1
  BY <1>1 DEF IInv, StackOK
<1>3. InFrame
  BY <1>1, <1>2 DEF InFrame
<1>4. Walked(stack[1])
  BY <1>3 DEF IInv, WalkOK
<1>5. stack[1].list \in ListNames /\ (stack[1].timer # NULL => stack[1].timer \in Timers)
  BY <1>1, <1>2 DEF Frame
<1>6. stack[1].timer # NULL => Has(lists[stack[1].list], stack[1].timer)
  BY <1>1, <1>2 DEF IInv, StackOK
<1>7. \A i \in 1..Len(stack) : i = 1
  BY <1>2
<1> QED BY <1>1, <1>2, <1>3, <1>4, <1>5, <1>6, <1>7

\* The loop of a frame goes from call f to call g, which is not at the end of a
\* timer, and the lists stay as they are.
LEMMA LoopStep ==
  ASSUME IInv, InLoop("RunFrame"), NEW g \in Frame, g.proc = "RunFrame", g.pc \in {"loop", "OnTimer"},
         stack' = <<g>>,
         g.timer # NULL => Has(lists[g.list], g.timer), g.timer = NULL => g.pc = "loop",
         timer' \in [Timers -> ITimer],
         \A u \in Timers : /\ timer'[u].m_ToExec = timer[u].m_ToExec /\ timer'[u].m_Flags = timer[u].m_Flags
                           /\ timer'[u].m_InExec <=> (timer[u].m_InExec \/ (u = g.timer /\ g.pc = "OnTimer")),
         Walked(g),
         UNCHANGED <<lists, m_FreeTimers, s_tokill, g_fTimerThink, ends, fresh>>
  PROVE  IInv'
<1> USE DEF IInv
<1>1. /\ Len(stack) = 1 /\ stack[1].pc = "loop" /\ \A i \in 1..Len(stack) : i = 1
  BY LoopFacts
<1>2. /\ stack' \in Seq(Frame) /\ Len(stack') = 1 /\ stack'[1] = g /\ stack' # <<>>
      /\ \A i \in 1..1 : i = 1 /\ 1 \in 1..1
  BY OneFrame
<1>3. \A u \in Timers : ListOf(u)' = ListOf(u) /\ ~Ending(u)' /\ ~Ending(u)
  BY <1>1, <1>2 DEF ListOf, Ending
<1>4. Typed'
  BY <1>2 DEF Typed
<1>5. HomesOK'
  BY <1>3 DEF HomesOK
<1>6. StackOK'
  <2>1. g.timer \in Timers \/ g.timer = NULL
    BY DEF Frame
  <2>2. g.pc # "loop" => timer'[g.timer].m_InExec
    BY <2>1
  <2> QED BY <1>2, <2>2 DEF StackOK
<1>7. RunningOK'
  <2> SUFFICES ASSUME NEW u \in Timers, Has(lists[ListOf(u)], u), timer'[u].m_InExec
               PROVE  \E i \in 1..Len(stack') : stack'[i].timer = u /\ stack'[i].pc # "loop"
    BY <1>3 DEF RunningOK
  <2>1. ~timer[u].m_InExec
    BY <1>1 DEF RunningOK
  <2> QED BY <1>2, <2>1
<1>8. TokillOK'
  BY <1>3 DEF TokillOK
<1>9. EndsOK'
  BY <1>3 DEF EndsOK
<1>10. OrderOK'
  BY DEF OrderOK
<1>11. WalkOK'
  <2>1. InFrame'
    BY <1>2 DEF InFrame
  <2>2. \A u \in Timers : Passed(g, u)' <=> Passed(g, u)
    BY DEF Passed
  <2>3. \A u \in Timers : ThisFrame(u, g.flag)' <=> ThisFrame(u, g.flag)
    BY DEF ThisFrame
  <2>4. Walked(g)'
    BY <2>2, <2>3 DEF Walked
  <2> QED BY <1>2, <2>1, <2>4 DEF WalkOK
<1> QED BY <1>4, <1>5, <1>6, <1>7, <1>8, <1>9, <1>10, <1>11

\* One turn of a loop.
LEMMA VisitStep ==
  ASSUME IInv, Visit
  PROVE  IInv'
<1>1. PICK f : f = stack[1]
  OBVIOUS
<1>2. InLoop("RunFrame") /\ ~ListDone
  BY DEF Visit
<1>3. /\ Len(stack) = 1 /\ stack # <<>> /\ stack \in Seq(Frame)
      /\ Top = f /\ f \in Frame /\ f.proc = "RunFrame" /\ f.pc = "loop"
      /\ Walked(f) /\ f.list \in ListNames
      /\ f.timer # NULL => f.timer \in Timers /\ Has(lists[f.list], f.timer)
  BY <1>1, <1>2, LoopFacts
<1>4. PICK t : t = f.timer
  OBVIOUS
<1>5. t \in Timers /\ Has(lists[f.list], t) /\ f.timer # NULL /\ ~(f.list = "Single" /\ timer[t].m_ToExec > 0)
  BY <1>2, <1>3, <1>4 DEF ListDone
<1>6. lists' = lists /\ m_FreeTimers' = m_FreeTimers /\ s_tokill' = s_tokill /\ g_fTimerThink' = g_fTimerThink
      /\ ends' = ends /\ fresh' = fresh
  BY DEF Visit
<1>7. \A g : [stack EXCEPT ![Len(stack)] = g] = <<g>>
  BY <1>3
<1>8. CASE timer[t].m_ToExec <= 0 /\ (f.list = "Single" => ThisFrame(t, f.flag))
  <2>1. PICK g : g = [f EXCEPT !.pc = "OnTimer"]
    OBVIOUS
  <2>2. /\ g \in Frame /\ g.pc = "OnTimer" /\ g.proc = "RunFrame" /\ g.timer = t /\ g.list = f.list /\ g.flag = f.flag
    BY <1>3, <1>4, <2>1 DEF Frame
  <2>3. timer' = [timer EXCEPT ![t].m_InExec = TRUE] /\ stack' = <<g>>
    BY <1>3, <1>4, <1>7, <1>8, <2>1 DEF Visit, SetTop
  <2>4. /\ timer' \in [Timers -> ITimer]
        /\ \A u \in Timers : /\ timer'[u].m_ToExec = timer[u].m_ToExec /\ timer'[u].m_Flags = timer[u].m_Flags
                             /\ timer'[u].m_InExec <=> (timer[u].m_InExec \/ (u = g.timer /\ g.pc = "OnTimer"))
    <3>1. timer[t] \in ITimer /\ timer \in [Timers -> ITimer]
      BY <1>5 DEF IInv, Typed
    <3>2. PICK y : y = [timer[t] EXCEPT !.m_InExec = TRUE]
      OBVIOUS
    <3>3. y \in ITimer /\ y.m_InExec /\ y.m_ToExec = timer[t].m_ToExec /\ y.m_Flags = timer[t].m_Flags
      BY ONLY <3>1, <3>2 DEF ITimer
    <3>4. timer' = [timer EXCEPT ![t] = y]
      BY <2>3, <3>2
    <3>5. timer'[t] = y /\ timer' \in [Timers -> ITimer] /\ \A u \in Timers : u # t => timer'[u] = timer[u]
      BY ONLY <1>5, <3>1, <3>3, <3>4
    <3> QED BY ONLY <2>2, <3>3, <3>5
  <2>5. \A u \in Timers : Passed(g, u) <=> Passed(f, u)
    BY <1>4, <2>2 DEF Passed
  <2>6. Walked(g)
    BY <1>3, <2>2, <2>5 DEF Walked
  <2> QED BY <1>2, <1>4, <1>5, <1>6, <2>2, <2>3, <2>4, <2>6, LoopStep
<1>9. CASE ~(timer[t].m_ToExec <= 0 /\ (f.list = "Single" => ThisFrame(t, f.flag)))
  <2>1. PICK v : v = After(lists[f.list], t)
    OBVIOUS
  <2>2. lists[f.list] \in Seq(Timers) /\ Distinct(lists[f.list]) /\ NULL \notin Timers
    BY <1>3, TimerAssumption DEF IInv, Typed, HomesOK
  <2>3. /\ v # NULL => v \in Timers /\ Has(lists[f.list], v)
        /\ v # NULL => \A u : Precedes(lists[f.list], u, v) => u = t \/ Precedes(lists[f.list], u, t)
        /\ v = NULL => \A u : Has(lists[f.list], u) => u = t \/ Precedes(lists[f.list], u, t)
    BY ONLY <1>5, <2>1, <2>2, AfterList
  <2>4. PICK g : g = [f EXCEPT !.timer = v]
    OBVIOUS
  <2>5. /\ g \in Frame /\ g.pc = "loop" /\ g.proc = "RunFrame" /\ g.timer = v /\ g.list = f.list /\ g.flag = f.flag
    BY <1>3, <2>3, <2>4 DEF Frame
  <2>6. timer' = timer /\ stack' = <<g>>
    BY <1>3, <1>4, <1>7, <1>9, <2>1, <2>4 DEF Visit, SetTop
  <2>7. /\ timer' \in [Timers -> ITimer]
        /\ \A u \in Timers : /\ timer'[u].m_ToExec = timer[u].m_ToExec /\ timer'[u].m_Flags = timer[u].m_Flags
                             /\ timer'[u].m_InExec <=> (timer[u].m_InExec \/ (u = g.timer /\ g.pc = "OnTimer"))
    BY <2>5, <2>6 DEF IInv, Typed, ITimer
  <2>8. \A u \in Timers : Passed(g, u) => u = t \/ Passed(f, u)
    BY <1>4, <1>5, <2>3, <2>5 DEF Passed
  <2>9. \A u \in Timers : timer[u].m_ToExec \in Int
    BY DEF IInv, Typed, ITimer
  <2>10. Walked(g)
    <3>1. f.list = "High" => -timer[t].m_ToExec <= Accuracy
      BY <1>5, <1>9, <2>9, TimerAssumption
    <3> QED BY <1>3, <1>9, <2>5, <2>8, <3>1 DEF Walked
  <2> QED BY <1>2, <1>6, <2>3, <2>5, <2>6, <2>7, <2>10, LoopStep
<1> QED BY <1>8, <1>9

\* The end of a loop: what is due in the single timers was fired, and what
\* repeats in every frame has caught up.
LEMMA NextListStep ==
  ASSUME IInv, NextList
  PROVE  IInv'
<1>1. PICK f : f = stack[1]
  OBVIOUS
<1>2. InLoop("RunFrame") /\ ListDone
  BY DEF NextList
<1>3. /\ Len(stack) = 1 /\ stack # <<>> /\ stack \in Seq(Frame)
      /\ Top = f /\ f \in Frame /\ f.proc = "RunFrame" /\ f.pc = "loop"
      /\ Walked(f) /\ f.list \in ListNames
      /\ f.timer # NULL => f.timer \in Timers /\ Has(lists[f.list], f.timer)
  BY <1>1, <1>2, LoopFacts
<1>4. f.timer # NULL => f.list = "Single" /\ timer[f.timer].m_ToExec > 0
  BY <1>2, <1>3 DEF ListDone
<1>5. timer' = timer /\ lists' = lists /\ m_FreeTimers' = m_FreeTimers /\ s_tokill' = s_tokill /\ ends' = ends
  BY DEF NextList
<1>6. CASE f.list = "High"
  <2> USE DEF IInv
  <2>1. /\ stack' = Front(stack) /\ fresh' = {}
        /\ g_fTimerThink' = IF f.flag THEN CalcNextThink(g_fTimerThink, Accuracy) ELSE g_fTimerThink
    BY <1>3, <1>6 DEF NextList, Pop
  <2>2. stack' \in Seq(Frame) /\ Len(stack') = 0
    <3>1. Front(stack) \in Seq(Frame) /\ Len(Front(stack)) = Len(stack) - 1
      BY ONLY <1>3, FrontList
    <3> QED BY <1>3, <2>1, <3>1
  <2>3. stack' = <<>> /\ 1..Len(stack') = {}
    BY <2>2
  <2>4. \A i \in 1..Len(stack) : i = 1
    BY <1>3
  <2>5. \A u \in Timers : ListOf(u)' = ListOf(u) /\ ~Ending(u)' /\ ~Ending(u)
    BY <1>1, <1>3, <1>5, <2>3, <2>4 DEF ListOf, Ending
  <2>6. /\ g_fTimerThink' \in Int /\ -g_fTimerThink' <= Accuracy
    <3>1. g_fTimerThink \in Int /\ Accuracy \in Nat
      BY TimerAssumption DEF Typed
    <3>2. CASE f.flag
      BY <2>1, <3>1, <3>2 DEF CalcNextThink
    <3>3. CASE ~f.flag
      BY <1>3, <2>1, <3>1, <3>3 DEF Walked
    <3> QED BY <3>2, <3>3
  <2>7. Typed' /\ OrderOK' /\ StackOK'
    BY <1>5, <2>1, <2>2, <2>3, <2>6 DEF Typed, OrderOK, StackOK
  <2>8. HomesOK' /\ TokillOK' /\ EndsOK'
    BY <1>5, <2>1, <2>5 DEF HomesOK, TokillOK, EndsOK
  <2>9. RunningOK'
    BY <1>1, <1>3, <1>5, <2>4, <2>5 DEF RunningOK
  <2>10. WalkOK'
    <3>1. ~InFrame'
      BY <2>3 DEF InFrame
    <3>2. \A u \in Timers : Has(lists["High"], u) => Passed(f, u)
      BY <1>4, <1>6 DEF Passed
    <3>3. \A u \in Timers : Has(lists["High"], u) => -timer[u].m_ToExec <= Accuracy
      BY <1>3, <1>6, <3>2 DEF Walked
    <3> QED BY <1>5, <2>6, <3>1, <3>3 DEF WalkOK, CaughtUp
  <2> QED BY <2>7, <2>8, <2>9, <2>10
<1>7. CASE f.list # "High"
  <2>1. PICK l : l = IF f.list = "Single" /\ f.flag THEN "Low" ELSE "High"
    OBVIOUS
  <2>2. l \in ListNames /\ l # "Single" /\ (f.list # "Single" => l = "High")
    BY <2>1 DEF ListNames
  <2>3. PICK v : v = First(lists[l])
    OBVIOUS
  <2>4. lists[l] \in Seq(Timers) /\ Distinct(lists[l]) /\ NULL \notin Timers
    BY <2>2, TimerAssumption DEF IInv, Typed, HomesOK
  <2>5. /\ v # NULL => v \in Timers /\ Has(lists[l], v) /\ \A u : ~Precedes(lists[l], u, v)
        /\ v = NULL => \A u : ~Has(lists[l], u)
    BY ONLY <2>3, <2>4, FirstList
  <2>6. PICK g : g = [f EXCEPT !.list = l, !.timer = v]
    OBVIOUS
  <2>7. g \in Frame /\ g.pc = "loop" /\ g.proc = "RunFrame" /\ g.timer = v /\ g.list = l /\ g.flag = f.flag
    BY <1>3, <2>2, <2>5, <2>6 DEF Frame
  <2>8. \A h : [stack EXCEPT ![Len(stack)] = h] = <<h>>
    BY <1>3
  <2>9. stack' = <<g>> /\ g_fTimerThink' = g_fTimerThink /\ fresh' = fresh
    BY <1>3, <1>7, <2>1, <2>3, <2>6, <2>8 DEF NextList, SetTop
  <2>10. /\ timer' \in [Timers -> ITimer]
         /\ \A u \in Timers : /\ timer'[u].m_ToExec = timer[u].m_ToExec /\ timer'[u].m_Flags = timer[u].m_Flags
                              /\ timer'[u].m_InExec <=> (timer[u].m_InExec \/ (u = g.timer /\ g.pc = "OnTimer"))
    BY <1>5, <2>7 DEF IInv, Typed, ITimer
  <2>11. Walked(g)
    <3>1. \A u \in Timers : ~Passed(g, u)
      BY <2>5, <2>7 DEF Passed
    <3>2. ASSUME NEW u \in Timers \ fresh, Has(lists["Single"], u), timer[u].m_ToExec <= 0
          PROVE  ~ThisFrame(u, g.flag)
      <4>1. CASE f.list # "Single"
        BY <1>3, <2>7, <3>2, <4>1 DEF Walked
      <4>2. CASE f.list = "Single" /\ f.timer = NULL
        <5>1. Passed(f, u)
          BY <3>2, <4>2 DEF Passed
        <5> QED BY <1>3, <2>7, <3>2, <4>2, <5>1 DEF Walked
      <4>3. CASE f.list = "Single" /\ f.timer # NULL
        <5>1. /\ f.timer \in Timers /\ Has(lists["Single"], f.timer) /\ timer[f.timer].m_ToExec > 0
              /\ lists["Single"] \in Seq(Timers) /\ timer[f.timer].m_ToExec \in Int /\ timer[u].m_ToExec \in Int
          BY <1>3, <1>4, <4>3 DEF IInv, Typed, ITimer, ListNames
        <5>2. u = f.timer \/ Precedes(lists["Single"], u, f.timer) \/ Precedes(lists["Single"], f.timer, u)
          BY <3>2, <5>1, Trichotomy
        <5>3. u # f.timer
          BY <3>2, <5>1
        <5>4. ~Precedes(lists["Single"], f.timer, u)
          BY <3>2, <5>1 DEF IInv, OrderOK
        <5>5. Passed(f, u)
          BY <4>3, <5>2, <5>3, <5>4 DEF Passed
        <5> QED BY <1>3, <2>7, <3>2, <4>3, <5>5 DEF Walked
      <4> QED BY <4>1, <4>2, <4>3
    <3>3. ~g.flag => g_fTimerThink > 0
      BY <1>3, <2>7 DEF Walked
    <3> QED BY <2>2, <2>7, <3>1, <3>2, <3>3 DEF Walked
  <2> QED BY <1>2, <1>5, <2>5, <2>7, <2>9, <2>10, <2>11, LoopStep
<1> QED BY <1>6, <1>7

-----------------------------------------------------------------------------
(* Callbacks that return.                                                  *)

\* What a call finds when its callback returns.
LEMMA CallbackFacts ==
  ASSUME IInv, stack # <<>>, Top.pc # "loop"
  PROVE  /\ stack \in Seq(Frame) /\ Len(stack) \in Nat /\ Len(stack) \in 1..Len(stack)
         /\ Top = stack[Len(stack)] /\ Top \in Frame
         /\ Top.timer \in Timers /\ Top.list \in ListNames /\ Top.list = ListOf(Top.timer)
         /\ Has(lists[Top.list], Top.timer) /\ timer[Top.timer].m_InExec
         /\ \A i \in 1..Len(stack) : i # Len(stack) => stack[i].timer # Top.timer
         /\ \A i \in 1..Len(stack) : stack[i].proc = "RunFrame" => i = 1 /\ stack[i].pc # "loop"
         /\ Top.proc = "RunFrame" => Len(stack) = 1
         /\ Top.proc # "RemoveMapChangeTimers"
<1> USE DEF IInv
<1>1. /\ stack \in Seq(Frame) /\ Len(stack) \in Nat /\ Len(stack) \in 1..Len(stack)
      /\ Top = stack[Len(stack)] /\ Top \in Frame
  BY TopFacts DEF Typed
<1>2. Top.timer # NULL /\ Top.proc # "RemoveMapChangeTimers" /\ (Top.proc = "RunFrame" => Len(stack) = 1)
  BY <1>1 DEF StackOK
<1>3. Top.timer \in Timers /\ Top.list \in ListNames
  BY <1>1, <1>2 DEF Frame
<1>4. Has(lists[Top.list], Top.timer) /\ timer[Top.timer].m_InExec
  BY <1>1, <1>2 DEF StackOK
<1>5. Top.list = ListOf(Top.timer)
  BY <1>3, <1>4 DEF HomesOK
<1>6. \A i \in 1..Len(stack) : i # Len(stack) => stack[i].timer # Top.timer
  BY <1>1, <1>2 DEF StackOK
<1>7. \A i \in 1..Len(stack) : stack[i].proc = "RunFrame" => i = 1 /\ stack[i].pc # "loop"
  BY <1>1 DEF StackOK
<1> QED BY <1>1, <1>2, <1>3, <1>4, <1>5, <1>6, <1>7

\* OnTimer returns and the timer ends.
LEMMA EndingStep ==
  ASSUME IInv, stack # <<>>, Top.pc = "OnTimer",
         stack' = [stack EXCEPT ![Len(stack)] = [Top EXCEPT !.pc = "OnTimerEnd"]],
         ends' = [ends EXCEPT ![Top.timer] = @ + 1],
         UNCHANGED <<timer, lists, m_FreeTimers, s_tokill, g_fTimerThink, fresh>>
  PROVE  IInv'
<1> USE DEF IInv
<1>1. PICK f, t, n : f = Top /\ t = f.timer /\ n = Len(stack)
  OBVIOUS
<1>2. /\ stack \in Seq(Frame) /\ n \in Nat /\ n \in 1..n /\ f = stack[n] /\ f \in Frame /\ f.pc = "OnTimer"
      /\ t \in Timers /\ f.list = ListOf(t) /\ Has(lists[ListOf(t)], t) /\ timer[t].m_InExec
      /\ \A i \in 1..n : i # n => stack[i].timer # t
      /\ \A i \in 1..n : stack[i].proc = "RunFrame" => i = 1 /\ stack[i].pc # "loop"
      /\ f.proc # "RemoveMapChangeTimers"
  BY <1>1, CallbackFacts
<1>3. PICK g : g = [f EXCEPT !.pc = "OnTimerEnd"]
  OBVIOUS
<1>4. g \in Frame /\ g.pc = "OnTimerEnd" /\ g.proc = f.proc /\ g.timer = t /\ g.list = f.list /\ g.flag = f.flag
  BY <1>1, <1>2, <1>3 DEF Frame
<1>5. /\ stack' \in Seq(Frame) /\ stack' # <<>> /\ Len(stack') = n
      /\ \A i \in 1..n : i # n => stack'[i] = stack[i]
      /\ stack'[n] = g
  <2>1. stack' = [stack EXCEPT ![n] = g]
    BY <1>1, <1>3
  <2> QED BY ONLY <1>1, <1>2, <1>4, <2>1, stack # <<>>, SetTopFacts
<1>6. \A u \in Timers : ListOf(u)' = ListOf(u)
  BY DEF ListOf
<1>7. /\ \A u \in Timers : u # t => (Ending(u)' <=> Ending(u))
      /\ Ending(t)' /\ ~Ending(t)
  BY <1>1, <1>2, <1>4, <1>5 DEF Ending
<1>8. ends[t] = 0 /\ ~Has(m_FreeTimers, t)
  BY <1>2, <1>7 DEF EndsOK, HomesOK
<1>9. ends' \in [Timers -> Nat] /\ ends'[t] = 1 /\ \A u \in Timers : u # t => ends'[u] = ends[u]
  BY <1>1, <1>2, <1>8 DEF Typed
<1>10. Typed'
  BY <1>5, <1>9 DEF Typed
<1>11. HomesOK' /\ TokillOK' /\ OrderOK'
  BY <1>6 DEF HomesOK, TokillOK, OrderOK
<1>12. EndsOK'
  BY <1>6, <1>7, <1>8, <1>9 DEF EndsOK
<1>13. StackOK'
  <2>1. ASSUME NEW i \in 1..n
        PROVE  /\ stack'[i].proc = "RunFrame" => i = 1 /\ (stack'[i].pc = "loop" => Len(stack') = 1)
               /\ stack'[i].proc = "RemoveMapChangeTimers" => i = 1 /\ stack'[i].pc = "loop" /\ stack'[i].timer = NULL
               /\ stack'[i].proc \in {"FireTimerOnce", "KillTimer"} => stack'[i].pc # "loop"
               /\ stack'[i].timer = NULL => stack'[i].pc = "loop"
               /\ stack'[i].timer # NULL => Has(lists'[stack'[i].list], stack'[i].timer)
               /\ stack'[i].pc # "loop" => timer'[stack'[i].timer].m_InExec
    <3>1. CASE i = n
      BY <1>1, <1>2, <1>4, <1>5, <3>1, TimerAssumption
    <3>2. CASE i # n
      BY <1>1, <1>2, <1>5, <3>2 DEF StackOK
    <3> QED BY <3>1, <3>2
  <2>2. \A i, j \in 1..n : stack'[i].timer = stack'[j].timer /\ stack'[i].timer # NULL => i = j
    BY <1>1, <1>2, <1>4, <1>5 DEF StackOK
  <2> QED BY <1>5, <2>1, <2>2 DEF StackOK
<1>14. RunningOK'
  <2> SUFFICES ASSUME NEW u \in Timers, Has(lists[ListOf(u)], u), timer[u].m_InExec
               PROVE  \E i \in 1..n : stack'[i].timer = u /\ stack'[i].pc # "loop"
    BY <1>5, <1>6 DEF RunningOK
  <2>1. PICK i \in 1..n : stack[i].timer = u /\ stack[i].pc # "loop"
    BY <1>1 DEF RunningOK
  <2>2. stack'[i].timer = u /\ stack'[i].pc # "loop"
    BY <1>1, <1>2, <1>4, <1>5, <2>1
  <2> QED BY <2>2
<1>15. WalkOK'
  <2>1. /\ 1 \in 1..n /\ stack[1] \in Frame /\ stack'[1].timer = stack[1].timer /\ stack'[1].list = stack[1].list
        /\ stack'[1].flag = stack[1].flag /\ stack'[1].proc = stack[1].proc
    BY <1>1, <1>2, <1>4, <1>5
  <2>2. InFrame' <=> InFrame
    BY <1>5, <2>1 DEF InFrame
  <2>3. \A u \in Timers : Passed(stack[1], u)' => Passed(stack[1], u)
    BY <2>1 DEF Passed
  <2> QED BY <1>10, <2>1, <2>2, <2>3, WalkKept
<1> QED BY <1>10, <1>11, <1>12, <1>13, <1>14, <1>15

\* A timer that repeats is not among the single ones.
LEMMA RepeatFacts ==
  ASSUME Typed, HomesOK, NEW t \in Timers, timer[t].m_Flags.REPEAT
  PROVE  ListOf(t) # "Single" /\ ~Has(lists["Single"], t)
<1>1. ListOf(t) # "Single"
  BY DEF ListOf, ListFor
<1> QED BY <1>1 DEF HomesOK, ListNames

\* OnTimer returns in a frame and the timer repeats.
LEMMA AgainStep ==
  ASSUME IInv, stack # <<>>, Top.pc = "OnTimer", Top.proc = "RunFrame", timer[Top.timer].m_Flags.REPEAT,
         timer' = [timer EXCEPT ![Top.timer].m_InExec = FALSE,
                     ![Top.timer].m_ToExec = CalcNextThink(@, timer[Top.timer].m_Interval)],
         stack' = [stack EXCEPT ![Len(stack)] =
                     [Top EXCEPT !.pc = "loop", !.timer = After(lists[Top.list], Top.timer)]],
         UNCHANGED <<lists, m_FreeTimers, s_tokill, g_fTimerThink, ends, fresh>>
  PROVE  IInv'
<1> USE DEF IInv
<1>1. PICK f, t : f = Top /\ t = f.timer
  OBVIOUS
<1>2. /\ stack \in Seq(Frame) /\ Len(stack) = 1
      /\ f = stack[1] /\ f \in Frame /\ f.pc = "OnTimer" /\ f.proc = "RunFrame"
      /\ t \in Timers /\ f.list \in ListNames /\ f.list = ListOf(t) /\ Has(lists[f.list], t)
  BY <1>1, CallbackFacts
<1>3. PICK v : v = After(lists[f.list], t)
  OBVIOUS
<1>4. lists[f.list] \in Seq(Timers) /\ Distinct(lists[f.list]) /\ NULL \notin Timers
  BY <1>2, TimerAssumption DEF Typed, HomesOK
<1>5. /\ v # NULL => v \in Timers /\ Has(lists[f.list], v)
      /\ v # NULL => \A u : Precedes(lists[f.list], u, v) => u = t \/ Precedes(lists[f.list], u, t)
      /\ v = NULL => \A u : Has(lists[f.list], u) => u = t \/ Precedes(lists[f.list], u, t)
  BY ONLY <1>2, <1>3, <1>4, AfterList
<1>6. PICK g : g = [f EXCEPT !.pc = "loop", !.timer = v]
  OBVIOUS
<1>7. g \in Frame /\ g.pc = "loop" /\ g.proc = "RunFrame" /\ g.timer = v /\ g.list = f.list /\ g.flag = f.flag
  BY <1>2, <1>5, <1>6 DEF Frame
<1>8. stack' = <<g>>
  <2>1. \A h : [stack EXCEPT ![Len(stack)] = h] = <<h>>
    BY <1>2
  <2> QED BY <1>1, <1>3, <1>6, <2>1
<1>9. /\ stack' \in Seq(Frame) /\ Len(stack') = 1 /\ stack'[1] = g /\ stack' # <<>>
      /\ \A i \in 1..1 : i = 1 /\ 1 \in 1..1
  BY <1>7, <1>8, OneFrame
<1>10. Accuracy \in Nat /\ Intervals \subseteq Nat
  BY TimerAssumption
<1>11. /\ timer' \in [Timers -> ITimer]
       /\ \A u \in Timers : timer'[u].m_Flags = timer[u].m_Flags /\ (u # t => timer'[u] = timer[u])
       /\ ~timer'[t].m_InExec /\ -timer'[t].m_ToExec <= Accuracy
  <2>1. timer[t] \in ITimer /\ timer \in [Timers -> ITimer]
    BY <1>2 DEF Typed
  <2>2. PICK x : x = CalcNextThink(timer[t].m_ToExec, timer[t].m_Interval)
    OBVIOUS
  <2>3. timer[t].m_ToExec \in Int /\ timer[t].m_Interval \in Nat
    BY <1>10, <2>1 DEF ITimer
  <2>4. x \in Int /\ -x <= Accuracy
    BY <1>10, <2>2, <2>3 DEF CalcNextThink
  <2>5. timer' = [timer EXCEPT ![t] = [timer[t] EXCEPT !.m_InExec = FALSE, !.m_ToExec = x]]
    BY <1>1, <1>2, <2>1, <2>2 DEF ITimer
  <2>6. PICK y : y = [timer[t] EXCEPT !.m_InExec = FALSE, !.m_ToExec = x]
    OBVIOUS
  <2>7. y \in ITimer /\ y.m_Flags = timer[t].m_Flags /\ ~y.m_InExec /\ y.m_ToExec = x
    BY <2>1, <2>4, <2>6 DEF ITimer
  <2>8. timer'[t] = y /\ timer' \in [Timers -> ITimer] /\ \A u \in Timers : u # t => timer'[u] = timer[u]
    BY ONLY <1>2, <2>1, <2>5, <2>6, <2>7
  <2> QED BY <2>4, <2>7, <2>8
<1>12. \A u \in Timers : ListOf(u)' = ListOf(u) /\ ~Ending(u)' /\ ~Ending(u)
  <2>1. \A i \in 1..Len(stack) : i = 1
    BY <1>2
  <2>2. \A u \in Timers : ListOf(u)' = ListOf(u)
    BY <1>11 DEF ListOf
  <2>3. \A u \in Timers : ~Ending(u)
    BY ONLY <1>2, <2>1 DEF Ending
  <2>4. \A u \in Timers : ~Ending(u)'
    BY ONLY <1>7, <1>9 DEF Ending
  <2> QED BY <2>2, <2>3, <2>4
<1>13. ~Has(lists["Single"], t) /\ f.list # "Single"
  BY <1>1, <1>2, RepeatFacts
<1>14. Typed'
  BY <1>9, <1>11 DEF Typed
<1>15. HomesOK' /\ EndsOK'
  BY <1>12 DEF HomesOK, EndsOK
<1>16. StackOK'
  <2>1. g.timer # NULL => Has(lists'[g.list], g.timer)
    BY <1>5, <1>7
  <2> QED BY ONLY <1>7, <1>9, <2>1 DEF StackOK
<1>17. RunningOK'
  <2> SUFFICES ASSUME NEW u \in Timers, Has(lists[ListOf(u)], u), timer'[u].m_InExec PROVE FALSE
    BY <1>12 DEF RunningOK
  <2>1. u # t /\ timer[u].m_InExec
    BY <1>11
  <2>2. PICK i \in 1..Len(stack) : stack[i].timer = u
    BY <2>1 DEF RunningOK
  <2>3. i = 1
    BY <1>2
  <2> QED BY <1>1, <1>2, <2>1, <2>2, <2>3
<1>18. TokillOK'
  <2> SUFFICES ASSUME NEW u \in Timers, Has(s_tokill, u) PROVE Has(lists[ListOf(u)], u) \/ timer'[u].m_InExec
    BY <1>12 DEF TokillOK
  <2>1. CASE u = t
    BY <1>2, <2>1
  <2>2. CASE u # t
    BY <1>11, <2>2 DEF TokillOK
  <2> QED BY <2>1, <2>2
<1>19. OrderOK'
  <2> SUFFICES ASSUME NEW a \in Timers, NEW b \in Timers, Precedes(lists["Single"], a, b)
               PROVE  timer'[a].m_ToExec <= timer'[b].m_ToExec
    BY DEF OrderOK
  <2>1. lists["Single"] \in Seq(Timers)
    BY DEF Typed, ListNames
  <2>2. a # t /\ b # t
    BY <1>13, <2>1, HasType
  <2> QED BY <1>11, <2>2 DEF OrderOK
<1>20. WalkOK'
  <2>1. InFrame' /\ InFrame
    BY <1>2, <1>7, <1>9 DEF InFrame
  <2>2. Walked(f)
    BY <1>2, <2>1 DEF WalkOK
  <2>3. \A u \in Timers : Passed(g, u)' => u = t \/ Passed(f, u)
    BY <1>1, <1>2, <1>4, <1>5, <1>7 DEF Passed
  <2>4. ASSUME NEW u \in Timers \ fresh, Has(lists["Single"], u), timer'[u].m_ToExec <= 0
        PROVE  ~ThisFrame(u, g.flag)'
    <3>1. u # t
      BY <1>13, <2>4
    <3>2. timer'[u] = timer[u]
      BY <1>11, <3>1
    <3>3. ~ThisFrame(u, f.flag)
      BY <1>13, <2>2, <2>4, <3>2 DEF Walked
    <3> QED BY <1>7, <3>2, <3>3 DEF ThisFrame
  <2>5. ASSUME NEW u \in Timers, g.list = "High", Passed(g, u)' PROVE -timer'[u].m_ToExec <= Accuracy
    <3>1. CASE u = t
      BY <1>11, <3>1
    <3>2. CASE u # t
      <4>1. timer'[u] = timer[u] /\ Passed(f, u) /\ f.list = "High"
        BY <1>7, <1>11, <2>3, <2>5, <3>2
      <4> QED BY <2>2, <4>1 DEF Walked
    <3> QED BY <3>1, <3>2
  <2>6. ~g.flag => g_fTimerThink > 0
    BY <1>7, <2>2 DEF Walked
  <2>7. Walked(g)'
    BY <1>7, <1>13, <2>4, <2>5, <2>6 DEF Walked
  <2> QED BY <1>9, <2>1, <2>7 DEF WalkOK
<1> QED BY <1>14, <1>15, <1>16, <1>17, <1>18, <1>19, <1>20

\* The innermost call returns.
LEMMA PopFacts ==
  ASSUME IInv, stack # <<>>, Top.pc # "loop", Top.proc # "RunFrame", stack' = Front(stack)
  PROVE  /\ stack' \in Seq(Frame) /\ Len(stack') = Len(stack) - 1
         /\ \A i \in 1..Len(stack') : i \in 1..Len(stack) /\ i # Len(stack) /\ stack'[i] = stack[i]
         /\ \A i \in 1..Len(stack) : i # Len(stack) => i \in 1..Len(stack')
         /\ InFrame' <=> InFrame
         /\ InFrame => stack'[1] = stack[1] /\ stack[1] \in Frame /\ 1 \in 1..Len(stack')
<1>1. /\ stack \in Seq(Frame) /\ Len(stack) \in Nat /\ Len(stack) \in 1..Len(stack) /\ Top = stack[Len(stack)]
  BY CallbackFacts
<1>2. /\ Front(stack) \in Seq(Frame) /\ Len(Front(stack)) = Len(stack) - 1
      /\ \A i \in 1..(Len(stack) - 1) : Front(stack)[i] = stack[i]
  BY ONLY <1>1, stack # <<>>, FrontList
<1>3. /\ \A i \in 1..Len(stack') : i \in 1..Len(stack) /\ i # Len(stack) /\ stack'[i] = stack[i]
      /\ \A i \in 1..Len(stack) : i # Len(stack) => i \in 1..Len(stack')
  BY <1>1, <1>2
<1>4. CASE Len(stack) = 1
  <2>1. stack' = <<>>
    BY <1>2, <1>4
  <2>2. ~InFrame /\ ~InFrame'
    BY <1>1, <1>4, <2>1 DEF InFrame
  <2> QED BY <1>2, <1>3, <2>2
<1>5. CASE Len(stack) # 1
  <2>1. 1 \in 1..Len(stack') /\ stack' # <<>> /\ stack'[1] = stack[1] /\ stack[1] \in Frame
    BY <1>1, <1>2, <1>3, <1>5
  <2>2. InFrame' <=> InFrame
    BY <2>1 DEF InFrame
  <2> QED BY <1>2, <1>3, <2>1, <2>2
<1> QED BY <1>4, <1>5

\* OnTimer returns in FireTimerOnce and the timer repeats.
LEMMA FiredStep ==
  ASSUME IInv, stack # <<>>, Top.pc = "OnTimer", Top.proc # "RunFrame", timer[Top.timer].m_Flags.REPEAT,
         timer' = [timer EXCEPT ![Top.timer].m_InExec = FALSE,
                     ![Top.timer].m_ToExec = IF Top.flag THEN timer[Top.timer].m_Interval ELSE @],
         stack' = Front(stack),
         UNCHANGED <<lists, m_FreeTimers, s_tokill, g_fTimerThink, ends, fresh>>
  PROVE  IInv'
<1> USE DEF IInv
<1>1. PICK t, n : t = Top.timer /\ n = Len(stack)
  OBVIOUS
<1>2. /\ t \in Timers /\ Top.list \in ListNames /\ Top.list = ListOf(t) /\ Has(lists[ListOf(t)], t)
      /\ n \in Nat /\ n \in 1..n /\ stack[n].timer = t /\ stack[n].pc = "OnTimer"
      /\ \A i \in 1..n : i # n => stack[i].timer # t
      /\ \A i \in 1..n : stack[i].proc = "RunFrame" => i = 1 /\ stack[i].pc # "loop"
      /\ \A i \in 1..n : stack[i] \in Frame
  BY <1>1, CallbackFacts
<1>3. /\ stack' \in Seq(Frame) /\ Len(stack') = n - 1
      /\ \A i \in 1..Len(stack') : i \in 1..n /\ i # n /\ stack'[i] = stack[i]
      /\ \A i \in 1..n : i # n => i \in 1..Len(stack')
      /\ InFrame' <=> InFrame
      /\ InFrame => stack'[1] = stack[1] /\ stack[1] \in Frame /\ 1 \in 1..Len(stack')
  BY <1>1, PopFacts
<1>4. Accuracy \in Nat /\ Intervals \subseteq Nat /\ NULL \notin Timers
  BY TimerAssumption
<1>5. /\ timer' \in [Timers -> ITimer]
      /\ \A u \in Timers : timer'[u].m_Flags = timer[u].m_Flags /\ (u # t => timer'[u] = timer[u])
      /\ ~timer'[t].m_InExec
      /\ timer'[t].m_ToExec = timer[t].m_ToExec \/ -timer'[t].m_ToExec <= Accuracy
  <2>1. timer[t] \in ITimer /\ timer \in [Timers -> ITimer]
    BY <1>2 DEF Typed
  <2>2. PICK x : x = IF Top.flag THEN timer[t].m_Interval ELSE timer[t].m_ToExec
    OBVIOUS
  <2>3. timer[t].m_ToExec \in Int /\ timer[t].m_Interval \in Nat
    BY <1>4, <2>1 DEF ITimer
  <2>4. x \in Int /\ (x = timer[t].m_ToExec \/ -x <= Accuracy)
    BY <1>4, <2>2, <2>3
  <2>5. timer' = [timer EXCEPT ![t] = [timer[t] EXCEPT !.m_InExec = FALSE, !.m_ToExec = x]]
    BY <1>1, <1>2, <2>1, <2>2 DEF ITimer
  <2>6. PICK y : y = [timer[t] EXCEPT !.m_InExec = FALSE, !.m_ToExec = x]
    OBVIOUS
  <2>7. y \in ITimer /\ y.m_Flags = timer[t].m_Flags /\ ~y.m_InExec /\ y.m_ToExec = x
    BY <2>1, <2>4, <2>6 DEF ITimer
  <2>8. timer'[t] = y /\ timer' \in [Timers -> ITimer] /\ \A u \in Timers : u # t => timer'[u] = timer[u]
    BY ONLY <1>2, <2>1, <2>5, <2>6, <2>7
  <2> QED BY <2>4, <2>7, <2>8
<1>6. \A u \in Timers : ListOf(u)' = ListOf(u)
  BY <1>5 DEF ListOf
<1>7. \A u \in Timers : Ending(u)' <=> Ending(u)
  <2> TAKE u \in Timers
  <2>1. Ending(u)' => Ending(u)
    BY <1>1, <1>3 DEF Ending
  <2>2. ASSUME Ending(u) PROVE Ending(u)'
    <3>1. PICK i \in 1..n : stack[i].timer = u /\ stack[i].pc = "OnTimerEnd"
      BY <1>1, <2>2 DEF Ending
    <3>2. i # n
      BY <1>2, <3>1
    <3> QED BY <1>3, <3>1, <3>2 DEF Ending
  <2> QED BY <2>1, <2>2
<1>8. ~Has(lists["Single"], t)
  BY <1>1, <1>2, RepeatFacts
<1>9. Typed'
  BY <1>3, <1>5 DEF Typed
<1>10. HomesOK' /\ EndsOK'
  BY <1>6, <1>7 DEF HomesOK, EndsOK
<1>11. StackOK'
  <2>1. ASSUME NEW i \in 1..Len(stack')
        PROVE  /\ stack'[i].proc = "RunFrame" => i = 1 /\ (stack'[i].pc = "loop" => Len(stack') = 1)
               /\ stack'[i].proc = "RemoveMapChangeTimers" => i = 1 /\ stack'[i].pc = "loop" /\ stack'[i].timer = NULL
               /\ stack'[i].proc \in {"FireTimerOnce", "KillTimer"} => stack'[i].pc # "loop"
               /\ stack'[i].timer = NULL => stack'[i].pc = "loop"
               /\ stack'[i].timer # NULL => Has(lists'[stack'[i].list], stack'[i].timer)
               /\ stack'[i].pc # "loop" => timer'[stack'[i].timer].m_InExec
    <3>1. stack'[i] = stack[i] /\ i \in 1..n /\ stack[i].timer # t /\ stack[i] \in Frame
      BY <1>2, <1>3
    <3>2. stack[i].timer \in Timers \/ stack[i].timer = NULL
      BY <3>1 DEF Frame
    <3> QED BY <1>1, <1>2, <1>5, <3>1, <3>2 DEF StackOK
  <2>2. \A i, j \in 1..Len(stack') : stack'[i].timer = stack'[j].timer /\ stack'[i].timer # NULL => i = j
    BY <1>1, <1>3 DEF StackOK
  <2> QED BY <2>1, <2>2 DEF StackOK
<1>12. RunningOK'
  <2> SUFFICES ASSUME NEW u \in Timers, Has(lists[ListOf(u)], u), timer'[u].m_InExec
               PROVE  \E i \in 1..Len(stack') : stack'[i].timer = u /\ stack'[i].pc # "loop"
    BY <1>6 DEF RunningOK
  <2>1. u # t /\ timer[u].m_InExec
    BY <1>5
  <2>2. PICK i \in 1..n : stack[i].timer = u /\ stack[i].pc # "loop"
    BY <1>1, <2>1 DEF RunningOK
  <2> QED BY <1>2, <1>3, <2>1, <2>2
<1>13. TokillOK'
  <2> SUFFICES ASSUME NEW u \in Timers, Has(s_tokill, u) PROVE Has(lists[ListOf(u)], u) \/ timer'[u].m_InExec
    BY <1>6 DEF TokillOK
  <2>1. CASE u = t
    BY <1>2, <2>1
  <2>2. CASE u # t
    BY <1>5, <2>2 DEF TokillOK
  <2> QED BY <2>1, <2>2
<1>14. OrderOK'
  <2> SUFFICES ASSUME NEW a \in Timers, NEW b \in Timers, Precedes(lists["Single"], a, b)
               PROVE  timer'[a].m_ToExec <= timer'[b].m_ToExec
    BY DEF OrderOK
  <2>1. lists["Single"] \in Seq(Timers)
    BY DEF Typed, ListNames
  <2>2. a # t /\ b # t
    BY <1>8, <2>1, HasType
  <2> QED BY <1>5, <2>2 DEF OrderOK
<1>15. WalkOK'
  <2>1. InFrame => \A u \in Timers : Passed(stack[1], u)' => Passed(stack[1], u)
    BY <1>3 DEF Passed
  <2>2. \A u \in Timers \ fresh' : Has(lists'["Single"], u) =>
           /\ u \notin fresh /\ Has(lists["Single"], u)
           /\ timer'[u].m_ToExec = timer[u].m_ToExec /\ timer'[u].m_Flags = timer[u].m_Flags
    BY <1>5, <1>8
  <2>3. \A u \in Timers : Has(lists'["High"], u) =>
           \/ Has(lists["High"], u) /\ timer'[u].m_ToExec = timer[u].m_ToExec
           \/ -timer'[u].m_ToExec <= Accuracy
    BY <1>5
  <2> QED BY <1>3, <1>9, <2>1, <2>2, <2>3, WalkKept
<1> QED BY <1>9, <1>10, <1>11, <1>12, <1>13, <1>14, <1>15

\* OnTimer returns.
LEMMA OnTimerReturnsStep ==
  ASSUME IInv, NEW res, OnTimerReturns(res)
  PROVE  IInv'
<1>1. stack # <<>> /\ Top.pc = "OnTimer" /\ UNCHANGED <<lists, m_FreeTimers, s_tokill, g_fTimerThink, fresh>>
  BY DEF OnTimerReturns
<1>2. CASE ~timer[Top.timer].m_Flags.REPEAT \/ timer[Top.timer].m_KillMe \/ res = "Pl_Stop"
  <2>1. /\ stack' = [stack EXCEPT ![Len(stack)] = [Top EXCEPT !.pc = "OnTimerEnd"]]
        /\ ends' = [ends EXCEPT ![Top.timer] = @ + 1] /\ timer' = timer
    BY <1>2 DEF OnTimerReturns, SetTop
  <2> QED BY <1>1, <2>1, EndingStep
<1>3. CASE /\ ~(~timer[Top.timer].m_Flags.REPEAT \/ timer[Top.timer].m_KillMe \/ res = "Pl_Stop")
           /\ Top.proc = "RunFrame"
  <2>1. /\ timer' = [timer EXCEPT ![Top.timer].m_InExec = FALSE,
                       ![Top.timer].m_ToExec = CalcNextThink(@, timer[Top.timer].m_Interval)]
        /\ stack' = [stack EXCEPT ![Len(stack)] =
                       [Top EXCEPT !.pc = "loop", !.timer = After(lists[Top.list], Top.timer)]]
        /\ ends' = ends
    BY <1>3 DEF OnTimerReturns, SetTop
  <2> QED BY <1>1, <1>3, <2>1, AgainStep
<1>4. CASE /\ ~(~timer[Top.timer].m_Flags.REPEAT \/ timer[Top.timer].m_KillMe \/ res = "Pl_Stop")
           /\ Top.proc # "RunFrame"
  <2>1. /\ timer' = [timer EXCEPT ![Top.timer].m_InExec = FALSE,
                       ![Top.timer].m_ToExec = IF Top.flag THEN timer[Top.timer].m_Interval ELSE @]
        /\ stack' = Front(stack) /\ ends' = ends
    BY <1>4 DEF OnTimerReturns, Pop
  <2> QED BY <1>1, <1>4, <2>1, FiredStep
<1> QED BY <1>2, <1>3, <1>4

\* The lists after OnTimerEnd: the timer left its own, and the others stay.
LEMMA EndLists ==
  ASSUME IInv, OnTimerEndReturns
  PROVE  /\ lists' \in [ListNames -> Seq(Timers)]
         /\ \A l \in ListNames :
              /\ Distinct(lists'[l])
              /\ \A x : Has(lists'[l], x) <=> Has(lists[l], x) /\ x # Top.timer
              /\ \A a, b : Precedes(lists'[l], a, b) => Precedes(lists[l], a, b)
<1>1. PICK t, L : t = Top.timer /\ L = Top.list
  OBVIOUS
<1>2. /\ t \in Timers /\ L \in ListNames /\ L = ListOf(t) /\ Has(lists[L], t)
  BY <1>1, CallbackFacts DEF OnTimerEndReturns
<1>3. /\ lists \in [ListNames -> Seq(Timers)] /\ \A l \in ListNames : lists[l] \in Seq(Timers) /\ Distinct(lists[l])
  BY DEF IInv, Typed, HomesOK
<1>4. PICK r : r = Filter(lists[L], Timers \ {t})
  OBVIOUS
<1>5. lists' = [lists EXCEPT ![L] = r]
  BY <1>1, <1>4 DEF OnTimerEndReturns
<1>6. /\ r \in Seq(Timers) /\ Distinct(r)
      /\ \A x : Has(r, x) <=> Has(lists[L], x) /\ x \in Timers \ {t}
      /\ \A a, b : Precedes(r, a, b) => Precedes(lists[L], a, b)
  BY ONLY <1>2, <1>3, <1>4, FilterList
<1>7. \A l \in ListNames : \A x : Has(lists[l], x) => x \in Timers
  BY <1>3, HasType
<1>8. \A l \in ListNames : lists'[l] = IF l = L THEN r ELSE lists[l]
  BY <1>2, <1>3, <1>5
<1>9. ASSUME NEW l \in ListNames
      PROVE  /\ Distinct(lists'[l])
             /\ \A x : Has(lists'[l], x) <=> Has(lists[l], x) /\ x # t
             /\ \A a, b : Precedes(lists'[l], a, b) => Precedes(lists[l], a, b)
  <2>1. CASE l = L
    BY <1>6, <1>7, <1>8, <2>1
  <2>2. CASE l # L
    <3>1. lists'[l] = lists[l]
      BY <1>8, <2>2
    <3>2. ~Has(lists[l], t)
      BY <1>2, <2>2 DEF IInv, HomesOK
    <3> QED BY <1>3, <3>1, <3>2
  <2> QED BY <2>1, <2>2
<1>10. lists' \in [ListNames -> Seq(Timers)]
  BY <1>2, <1>3, <1>5, <1>6
<1> QED BY <1>1, <1>9, <1>10

\* OnTimerEnd returns.
LEMMA OnTimerEndReturnsStep ==
  ASSUME IInv, OnTimerEndReturns
  PROVE  IInv'
<1> USE DEF IInv
<1>1. PICK f, t, n : f = Top /\ t = f.timer /\ n = Len(stack)
  OBVIOUS
<1>2. /\ stack \in Seq(Frame) /\ n \in Nat /\ n \in 1..n /\ f = stack[n] /\ f \in Frame /\ f.pc = "OnTimerEnd"
      /\ t \in Timers /\ f.list \in ListNames /\ f.list = ListOf(t) /\ Has(lists[f.list], t) /\ timer[t].m_InExec
      /\ \A i \in 1..n : i # n => stack[i].timer # t
      /\ \A i \in 1..n : stack[i].proc = "RunFrame" => i = 1 /\ stack[i].pc # "loop"
      /\ f.proc = "RunFrame" => n = 1
      /\ \A i \in 1..n : stack[i] \in Frame
      /\ stack # <<>>
  BY <1>1, CallbackFacts DEF OnTimerEndReturns
<1>3. /\ lists' \in [ListNames -> Seq(Timers)]
      /\ \A l \in ListNames :
           /\ Distinct(lists'[l])
           /\ \A x : Has(lists'[l], x) <=> Has(lists[l], x) /\ x # t
           /\ \A a, b : Precedes(lists'[l], a, b) => Precedes(lists[l], a, b)
  BY <1>1, EndLists
<1>4. /\ s_tokill' = s_tokill /\ g_fTimerThink' = g_fTimerThink /\ ends' = ends
      /\ fresh' = fresh \ {t} /\ m_FreeTimers' = Append(m_FreeTimers, t)
  BY <1>1 DEF OnTimerEndReturns
<1>5. /\ timer' \in [Timers -> ITimer]
      /\ \A u \in Timers : u # t => timer'[u] = timer[u]
      /\ timer'[t].m_InExec
  <2>1. timer[t] \in ITimer /\ timer \in [Timers -> ITimer]
    BY <1>2 DEF Typed
  <2>2. PICK y : y = [Blank EXCEPT !.m_InExec = TRUE, !.m_KillMe = timer[t].m_KillMe]
    OBVIOUS
  <2>3. Blank \in ITimer
    <3>1. (CHOOSE i \in Intervals : TRUE) \in Intervals /\ (CHOOSE k \in Kinds : TRUE) \in Kinds
      BY TimerAssumption
    <3> QED BY <3>1 DEF Blank, ITimer
  <2>4. y \in ITimer /\ y.m_InExec
    BY <2>1, <2>2, <2>3 DEF ITimer
  <2>5. timer' = [timer EXCEPT ![t] = y]
    BY <1>1, <2>2 DEF OnTimerEndReturns
  <2> QED BY ONLY <1>2, <2>1, <2>4, <2>5
<1>6. \A u \in Timers : u # t => ListOf(u)' = ListOf(u)
  BY <1>5 DEF ListOf
<1>7. \A u \in Timers : ListOf(u) \in ListNames /\ ListOf(u)' \in ListNames
  BY DEF ListOf, ListFor, ListNames
<1>8. ~Has(m_FreeTimers, t) /\ m_FreeTimers \in Seq(Timers) /\ Distinct(m_FreeTimers)
  BY <1>2 DEF HomesOK, Typed
<1>9. /\ m_FreeTimers' \in Seq(Timers) /\ Distinct(m_FreeTimers')
      /\ \A x : Has(m_FreeTimers', x) <=> Has(m_FreeTimers, x) \/ x = t
  BY ONLY <1>2, <1>4, <1>8, AppendList
<1>10. /\ stack' \in Seq(Frame)
       /\ \A i \in 1..n : i # n => i \in 1..Len(stack') /\ stack'[i] = stack[i]
       /\ \A i \in 1..Len(stack') :
            \/ i \in 1..n /\ i # n /\ stack'[i] = stack[i]
            \/ /\ i = 1 /\ n = 1 /\ Len(stack') = 1 /\ stack'[i].proc = "RunFrame" /\ stack'[i].pc = "loop"
               /\ stack'[i].timer # NULL => stack'[i].timer \in Timers /\ Has(lists'[stack'[i].list], stack'[i].timer)
       /\ WalkOK'
  <2>0. g_fTimerThink' \in Int /\ fresh' \subseteq Timers
    BY <1>4 DEF Typed
  <2>1. CASE f.proc = "RunFrame"
    <3>1. PICK v : v = After(lists[f.list], t)
      OBVIOUS
    <3>2. lists[f.list] \in Seq(Timers) /\ Distinct(lists[f.list]) /\ NULL \notin Timers
      BY <1>2, TimerAssumption DEF Typed, HomesOK
    <3>3. /\ v # NULL => v \in Timers /\ Has(lists[f.list], v) /\ v # t
          /\ v # NULL => \A u : Precedes(lists[f.list], u, v) => u = t \/ Precedes(lists[f.list], u, t)
          /\ v = NULL => \A u : Has(lists[f.list], u) => u = t \/ Precedes(lists[f.list], u, t)
      BY ONLY <1>2, <3>1, <3>2, AfterList
    <3>4. PICK g : g = [f EXCEPT !.pc = "loop", !.timer = v]
      OBVIOUS
    <3>5. g \in Frame /\ g.pc = "loop" /\ g.proc = "RunFrame" /\ g.timer = v /\ g.list = f.list /\ g.flag = f.flag
      BY <1>2, <2>1, <3>3, <3>4 DEF Frame
    <3>6. stack' = <<g>>
      <4>1. \A h : [stack EXCEPT ![Len(stack)] = h] = <<h>>
        BY <1>1, <1>2, <2>1
      <4>2. stack' = [stack EXCEPT ![Len(stack)] = g]
        BY <1>1, <2>1, <3>1, <3>4 DEF OnTimerEndReturns, SetTop, AfterErase
      <4> QED BY <4>1, <4>2
    <3>7. /\ stack' \in Seq(Frame) /\ Len(stack') = 1 /\ stack'[1] = g /\ stack' # <<>>
          /\ \A i \in 1..1 : i = 1 /\ 1 \in 1..1
      BY <3>5, <3>6, OneFrame
    <3>8. InFrame /\ InFrame' /\ Walked(f)
      <4>1. InFrame /\ f = stack[1]
        BY <1>2, <2>1 DEF InFrame
      <4>2. InFrame'
        BY <3>5, <3>7 DEF InFrame
      <4> QED BY <4>1, <4>2 DEF WalkOK
    <3>9. \A u \in Timers : Passed(g, u)' => u # t /\ Passed(f, u)
      <4> SUFFICES ASSUME NEW u \in Timers, Passed(g, u)' PROVE u # t /\ Passed(f, u)
        OBVIOUS
      <4>1. lists'[f.list] \in Seq(Timers)
        BY <1>2, <1>3
      <4>2. Has(lists'[f.list], u)
        BY <3>5, <4>1, HasType DEF Passed
      <4>3. u # t /\ Has(lists[f.list], u)
        BY <1>2, <1>3, <4>2
      <4>4. v # NULL => Precedes(lists[f.list], u, v)
        BY <1>2, <1>3, <3>5 DEF Passed
      <4>5. Precedes(lists[f.list], u, t)
        BY <3>3, <4>3, <4>4
      <4>6. f.timer = t /\ t # NULL
        BY <1>1, <1>2, <3>2
      <4> QED BY <4>3, <4>5, <4>6 DEF Passed
    <3>10. "Single" \in ListNames
      BY DEF ListNames
    <3>11. ASSUME NEW u \in Timers \ fresh', timer'[u].m_ToExec <= 0,
                  (f.list = "Single" /\ Passed(g, u)') \/ (f.list # "Single" /\ Has(lists'["Single"], u))
           PROVE  ~ThisFrame(u, g.flag)'
      <4>1. u # t
        BY <1>3, <3>9, <3>10, <3>11
      <4>2. u \in Timers \ fresh /\ timer'[u] = timer[u]
        BY <1>4, <1>5, <3>11, <4>1
      <4>3. ~ThisFrame(u, f.flag)
        BY <1>3, <3>8, <3>9, <3>10, <3>11, <4>2 DEF Walked
      <4> QED BY <3>5, <4>2, <4>3 DEF ThisFrame
    <3>12. ASSUME NEW u \in Timers, f.list = "High", Passed(g, u)' PROVE -timer'[u].m_ToExec <= Accuracy
      <4>1. u # t /\ Passed(f, u)
        BY <3>9, <3>12
      <4>2. timer'[u] = timer[u]
        BY <1>5, <4>1
      <4> QED BY <3>8, <3>12, <4>1, <4>2 DEF Walked
    <3>13. ~g.flag => g_fTimerThink' > 0
      BY <1>4, <3>5, <3>8 DEF Walked
    <3>14. Walked(g)'
      BY <3>5, <3>11, <3>12, <3>13 DEF Walked
    <3>15. WalkOK'
      BY <3>7, <3>8, <3>14 DEF WalkOK
    <3>16. v # NULL => Has(lists'[f.list], v)
      BY <1>2, <1>3, <3>3
    <3>17. n = 1 /\ \A i \in 1..n : i = n
      BY <1>2, <2>1
    <3> QED BY ONLY <3>3, <3>5, <3>7, <3>15, <3>16, <3>17
  <2>2. CASE f.proc # "RunFrame"
    <3>1. stack' = Front(stack)
      BY <1>1, <2>2 DEF OnTimerEndReturns, Pop
    <3>2. /\ stack' \in Seq(Frame) /\ Len(stack') = n - 1
          /\ \A i \in 1..Len(stack') : i \in 1..n /\ i # n /\ stack'[i] = stack[i]
          /\ \A i \in 1..n : i # n => i \in 1..Len(stack')
          /\ InFrame' <=> InFrame
          /\ InFrame => stack'[1] = stack[1] /\ stack[1] \in Frame /\ 1 \in 1..Len(stack')
      BY <1>1, <1>2, <2>2, <3>1, PopFacts
    <3>3. Typed'
      BY <1>3, <1>4, <1>5, <1>9, <2>0, <3>2 DEF Typed
    <3>4. InFrame => stack[1].list \in ListNames
      BY <3>2 DEF Frame
    <3>5. InFrame => \A u \in Timers : Passed(stack[1], u)' => Passed(stack[1], u)
      BY <1>3, <3>2, <3>4 DEF Passed
    <3>6. "Single" \in ListNames /\ "High" \in ListNames
      BY DEF ListNames
    <3>7. \A u \in Timers \ fresh' : Has(lists'["Single"], u) =>
           /\ u \notin fresh /\ Has(lists["Single"], u)
           /\ timer'[u].m_ToExec = timer[u].m_ToExec /\ timer'[u].m_Flags = timer[u].m_Flags
      BY <1>3, <1>4, <1>5, <3>6
    <3>8. \A u \in Timers : Has(lists'["High"], u) => Has(lists["High"], u) /\ timer'[u].m_ToExec = timer[u].m_ToExec
      BY <1>3, <1>5, <3>6
    <3>9. WalkOK'
      BY <1>4, <3>2, <3>3, <3>5, <3>7, <3>8, WalkKept
    <3> QED BY <3>2, <3>9
  <2> QED BY <2>1, <2>2
<1>11. Typed'
  BY <1>3, <1>4, <1>5, <1>9, <1>10 DEF Typed
<1>12. HomesOK'
  <2>1. ASSUME NEW u \in Timers
        PROVE  /\ \A l \in ListNames : Has(lists'[l], u) => l = ListOf(u)'
               /\ Has(m_FreeTimers', u) => ~Has(lists'[ListOf(u)'], u)
    <3>1. CASE u = t
      BY <1>3, <1>7, <3>1
    <3>2. CASE u # t
      BY <1>3, <1>6, <1>7, <1>9, <3>2 DEF HomesOK
    <3> QED BY <3>1, <3>2
  <2> QED BY <1>3, <1>9, <2>1 DEF HomesOK
<1>13. StackOK'
  <2>1. ASSUME NEW i \in 1..Len(stack')
        PROVE  /\ stack'[i].proc = "RunFrame" => i = 1 /\ (stack'[i].pc = "loop" => Len(stack') = 1)
               /\ stack'[i].proc = "RemoveMapChangeTimers" => i = 1 /\ stack'[i].pc = "loop" /\ stack'[i].timer = NULL
               /\ stack'[i].proc \in {"FireTimerOnce", "KillTimer"} => stack'[i].pc # "loop"
               /\ stack'[i].timer = NULL => stack'[i].pc = "loop"
               /\ stack'[i].timer # NULL => Has(lists'[stack'[i].list], stack'[i].timer)
               /\ stack'[i].pc # "loop" => timer'[stack'[i].timer].m_InExec
    <3>1. CASE i \in 1..n /\ i # n /\ stack'[i] = stack[i]
      <4>1. stack[i].timer # t /\ stack[i] \in Frame
        BY <1>2, <3>1
      <4>2. (stack[i].timer \in Timers \/ stack[i].timer = NULL) /\ stack[i].list \in ListNames
        BY <4>1 DEF Frame
      <4> QED BY <1>1, <1>2, <1>3, <1>5, <3>1, <4>1, <4>2 DEF StackOK
    <3>2. CASE /\ i = 1 /\ n = 1 /\ Len(stack') = 1 /\ stack'[i].proc = "RunFrame" /\ stack'[i].pc = "loop"
               /\ stack'[i].timer # NULL => stack'[i].timer \in Timers /\ Has(lists'[stack'[i].list], stack'[i].timer)
      BY ONLY <3>2
    <3> QED BY <1>10, <3>1, <3>2
  <2>2. ASSUME NEW i \in 1..Len(stack'), NEW j \in 1..Len(stack'),
               stack'[i].timer = stack'[j].timer, stack'[i].timer # NULL
        PROVE  i = j
    <3>1. CASE n = 1
      <4>1. \A k \in 1..n : k = n
        BY <3>1
      <4> QED BY <1>10, <4>1
    <3>2. CASE n # 1
      BY <1>1, <1>10, <2>2, <3>2 DEF StackOK
    <3> QED BY <3>1, <3>2
  <2> QED BY <2>1, <2>2 DEF StackOK
<1>14. RunningOK'
  <2> SUFFICES ASSUME NEW u \in Timers, Has(lists'[ListOf(u)'], u), timer'[u].m_InExec
               PROVE  \E i \in 1..Len(stack') : stack'[i].timer = u /\ stack'[i].pc # "loop"
    BY DEF RunningOK
  <2>1. u # t
    BY <1>3, <1>7
  <2>2. Has(lists[ListOf(u)], u) /\ timer[u].m_InExec
    BY <1>3, <1>5, <1>6, <1>7, <2>1
  <2>3. PICK i \in 1..n : stack[i].timer = u /\ stack[i].pc # "loop"
    BY <1>1, <2>2 DEF RunningOK
  <2>4. i # n
    BY <1>1, <1>2, <2>1, <2>3
  <2> QED BY <1>10, <2>3, <2>4
<1>15. TokillOK'
  <2> SUFFICES ASSUME NEW u \in Timers, Has(s_tokill, u) PROVE Has(lists'[ListOf(u)'], u) \/ timer'[u].m_InExec
    BY <1>4 DEF TokillOK
  <2>1. CASE u = t
    BY <1>5, <2>1
  <2>2. CASE u # t
    BY <1>3, <1>5, <1>6, <1>7, <2>2 DEF TokillOK
  <2> QED BY <2>1, <2>2
<1>16. EndsOK'
  <2> SUFFICES ASSUME NEW u \in Timers
               PROVE  /\ Has(m_FreeTimers', u) => ends[u] = 1
                      /\ Has(lists'[ListOf(u)'], u) => ends[u] = IF Ending(u)' THEN 1 ELSE 0
    BY <1>4 DEF EndsOK
  <2>1. CASE u = t
    <3>1. Ending(t)
      BY <1>1, <1>2 DEF Ending
    <3>2. ends[t] = 1
      BY <1>2, <3>1 DEF EndsOK
    <3> QED BY <1>3, <1>7, <2>1, <3>2
  <2>2. CASE u # t
    <3>1. Ending(u)' => Ending(u)
      BY <1>1, <1>10 DEF Ending
    <3>2. ASSUME Ending(u) PROVE Ending(u)'
      <4>1. PICK i \in 1..n : stack[i].timer = u /\ stack[i].pc = "OnTimerEnd"
        BY <1>1, <3>2 DEF Ending
      <4>2. i # n
        BY <1>1, <1>2, <2>2, <4>1
      <4> QED BY <1>10, <4>1, <4>2 DEF Ending
    <3> QED BY <1>3, <1>6, <1>7, <1>9, <2>2, <3>1, <3>2 DEF EndsOK
  <2> QED BY <2>1, <2>2
<1>17. OrderOK'
  <2> SUFFICES ASSUME NEW a \in Timers, NEW b \in Timers, Precedes(lists'["Single"], a, b)
               PROVE  timer'[a].m_ToExec <= timer'[b].m_ToExec
    BY DEF OrderOK
  <2>1. "Single" \in ListNames /\ lists'["Single"] \in Seq(Timers)
    BY <1>3 DEF ListNames
  <2>2. Has(lists'["Single"], a) /\ Has(lists'["Single"], b)
    BY <2>1, HasType
  <2>3. a # t /\ b # t /\ Precedes(lists["Single"], a, b)
    BY <1>3, <2>1, <2>2
  <2> QED BY <1>5, <2>3 DEF OrderOK
<1> QED BY <1>10, <1>11, <1>12, <1>13, <1>14, <1>15, <1>16, <1>17

-----------------------------------------------------------------------------
(* The theorems.                                                           *)

\* The invariant holds at the start.
LEMMA InitOK == Init => IInv
<1> SUFFICES ASSUME Init PROVE IInv
  OBVIOUS
<1>1. Blank \in ITimer
  <2>1. (CHOOSE i \in Intervals : TRUE) \in Intervals /\ (CHOOSE k \in Kinds : TRUE) \in Kinds
    BY TimerAssumption
  <2> QED BY <2>1 DEF Blank, ITimer
<1>2. /\ timer = [t \in Timers |-> Blank] /\ lists = [l \in ListNames |-> <<>>]
      /\ m_FreeTimers = <<>> /\ s_tokill = <<>> /\ stack = <<>> /\ g_fTimerThink = 0
      /\ ends = [t \in Timers |-> 0] /\ fresh = {}
  BY DEF Init
<1>3. Typed
  BY <1>1, <1>2 DEF Typed
<1>4. \A l \in ListNames : lists[l] = <<>>
  BY <1>2
<1>5. \A u \in Timers : ListOf(u) \in ListNames
  BY DEF ListOf, ListFor, ListNames
<1>6. "Single" \in ListNames /\ "High" \in ListNames /\ Accuracy \in Nat
  BY TimerAssumption DEF ListNames
<1>7. HomesOK /\ TokillOK /\ EndsOK
  BY <1>2, <1>4, <1>5, EmptyList DEF HomesOK, TokillOK, EndsOK
<1>8. StackOK /\ RunningOK
  BY <1>2, <1>4, <1>5, EmptyList DEF StackOK, RunningOK
<1>9. OrderOK
  BY <1>4, <1>6, EmptyList DEF OrderOK
<1>10. WalkOK
  BY <1>2, <1>4, <1>6, EmptyList DEF WalkOK, InFrame, CaughtUp
<1> QED BY <1>3, <1>7, <1>8, <1>9, <1>10 DEF IInv

\* Every step keeps it.
LEMMA NextInv == IInv /\ [Next]_vars => IInv'
<1> SUFFICES ASSUME IInv, [Next]_vars PROVE IInv'
  OBVIOUS
<1>1. ASSUME NEW t \in Timers, NEW i \in Intervals, NEW k \in Kinds, CreateTimer(t, i, k) PROVE IInv'
  BY <1>1, CreateStep
<1>2. ASSUME NEW t \in Timers, NEW d \in BOOLEAN, FireTimerOnce(t, d) PROVE IInv'
  BY <1>2, FireStep
<1>3. ASSUME NEW t \in Timers, KillTimer(t) PROVE IInv'
  BY <1>3, KillTimerStep
<1>4. CASE RemoveMapChangeTimers
  BY <1>4, RemoveMapChangeStep
<1>5. ASSUME NEW dt \in Steps, GameFrame(dt) PROVE IInv'
  BY <1>5, GameFrameStep
<1>6. CASE KillCollected
  BY <1>6, KillCollectedStep
<1>7. CASE Visit
  BY <1>7, VisitStep
<1>8. CASE NextList
  BY <1>8, NextListStep
<1>9. CASE OnTimerEndReturns
  BY <1>9, OnTimerEndReturnsStep
<1>10. ASSUME NEW res, OnTimerReturns(res) PROVE IInv'
  BY <1>10, OnTimerReturnsStep
<1>11. CASE UNCHANGED vars
  <2>1. /\ timer' = timer /\ lists' = lists /\ m_FreeTimers' = m_FreeTimers /\ s_tokill' = s_tokill
        /\ g_fTimerThink' = g_fTimerThink /\ stack' = stack /\ ends' = ends /\ fresh' = fresh
    BY <1>11 DEF vars
  <2>2. timer' \in [Timers -> ITimer] /\ s_tokill' \in Seq(Timers)
    BY <2>1 DEF IInv, Typed
  <2> QED BY <2>1, <2>2, DeferStep
<1>12. Clients => IInv'
  BY <1>1, <1>2, <1>3 DEF Clients
<1>13. Frames => IInv'
  BY <1>5 DEF Frames
<1>14. Loops => IInv'
  BY <1>6, <1>7, <1>8 DEF Loops
<1>15. Returns => IInv'
  BY <1>9, <1>10 DEF Returns
<1> QED BY <1>4, <1>11, <1>12, <1>13, <1>14, <1>15 DEF Next

\* The inductive invariant, from the source's assignments alone.
THEOREM Invariance == Spec => []IInv
  BY InitOK, NextInv, PTL DEF Spec

-----------------------------------------------------------------------------
(* The think, and the repeating timers that wait for it.                   *)

\* How far they may be behind: nothing is added while the think is due.
LowBound == IF g_fTimerThink > 0 THEN 2 * Accuracy - g_fTimerThink ELSE Accuracy

\* The think in progress, if there is one, is past u.
LowDone(u) ==
  /\ Has(lists["Low"], u)
  /\ InFrame /\ stack[1].flag => stack[1].list # "Single" /\ (stack[1].list = "Low" => Passed(stack[1], u))

LowOK ==
  /\ g_fTimerThink <= Accuracy
  /\ InFrame => (stack[1].flag <=> g_fTimerThink <= 0)
  /\ \A u \in Timers : LowDone(u) => -timer[u].m_ToExec <= LowBound

\* What the think has passed stays caught up.
LEMMA LowKept ==
  ASSUME Typed, Typed', LowOK, g_fTimerThink' = g_fTimerThink, InFrame' <=> InFrame,
         InFrame => stack'[1].flag = stack[1].flag,
         \A u \in Timers : LowDone(u)' =>
           \/ LowDone(u) /\ timer'[u].m_ToExec = timer[u].m_ToExec
           \/ -timer'[u].m_ToExec <= Accuracy
  PROVE  LowOK'
<1>1. /\ g_fTimerThink \in Int /\ Accuracy \in Nat /\ LowBound' = LowBound /\ g_fTimerThink <= Accuracy
  BY TimerAssumption DEF Typed, LowBound, LowOK
<1>2. LowBound \in Int /\ Accuracy <= LowBound
  BY <1>1 DEF LowBound
<1>3. ASSUME NEW u \in Timers, LowDone(u)' PROVE -timer'[u].m_ToExec <= LowBound'
  <2>1. timer'[u].m_ToExec \in Int
    BY DEF Typed, ITimer
  <2>2. CASE LowDone(u) /\ timer'[u].m_ToExec = timer[u].m_ToExec
    BY <1>1, <2>2 DEF LowOK
  <2>3. CASE -timer'[u].m_ToExec <= Accuracy
    BY <1>1, <1>2, <2>1, <2>3
  <2> QED BY <1>3, <2>2, <2>3
<1>4. InFrame' => (stack'[1].flag <=> g_fTimerThink' <= 0)
  BY DEF LowOK
<1> QED BY <1>1, <1>3, <1>4 DEF LowOK

\* The frame at the bottom stays as it is and no timer moves in its list.
LEMMA LowStays ==
  ASSUME Typed, Typed', LowOK, g_fTimerThink' = g_fTimerThink, InFrame' <=> InFrame,
         InFrame => /\ stack'[1].timer = stack[1].timer /\ stack'[1].list = stack[1].list
                    /\ stack'[1].flag = stack[1].flag,
         lists' = lists, \A u \in Timers : timer'[u].m_ToExec = timer[u].m_ToExec
  PROVE  LowOK'
<1>1. \A u \in Timers : LowDone(u)' => LowDone(u)
  BY DEF LowDone, Passed
<1> QED BY <1>1, LowKept

\* A call above the frame, if there is one.
LEMMA Above ==
  ASSUME Typed, NEW f \in Frame, f.proc # "RunFrame", stack' = Append(stack, f)
  PROVE  (InFrame' <=> InFrame) /\ (InFrame => stack'[1] = stack[1])
<1>1. stack \in Seq(Frame)
  BY DEF Typed
<1>2. CASE stack = <<>>
  BY <1>2 DEF InFrame
<1>3. CASE stack # <<>>
  <2>1. 1 \in 1..Len(stack) /\ stack' # <<>> /\ stack'[1] = stack[1]
    BY <1>1, <1>3
  <2> QED BY <1>3, <2>1 DEF InFrame
<1> QED BY <1>2, <1>3

\* FireTimerOnce, KillTimer and RemoveMapChangeTimers move no timer.
LEMMA LowKill ==
  ASSUME IInv, IInv', LowOK, NEW t \in Timers, Kill(t, stack), lists' = lists, g_fTimerThink' = g_fTimerThink
  PROVE  LowOK'
<1>1. Typed /\ Typed' /\ timer \in [Timers -> ITimer]
  BY DEF IInv, Typed
<1>2. CASE MustDefer(t)
  <2>1. timer' = [timer EXCEPT ![t].m_KillMe = TRUE] /\ stack' = stack
    BY <1>2 DEF Kill
  <2>2. \A u \in Timers : timer'[u].m_ToExec = timer[u].m_ToExec
    BY <1>1, <2>1 DEF ITimer
  <2>3. InFrame' <=> InFrame
    BY <2>1 DEF InFrame
  <2> QED BY <1>1, <2>1, <2>2, <2>3, LowStays
<1>3. CASE ~MustDefer(t)
  <2>1. timer' = [timer EXCEPT ![t].m_InExec = MarkInExec]
    BY <1>3 DEF Kill
  <2>2. \A u \in Timers : timer'[u].m_ToExec = timer[u].m_ToExec
    BY <1>1, <2>1 DEF ITimer
  <2>3. PICK f : f = Call("KillTimer", "OnTimerEnd", t, ListOf(t), FALSE)
    OBVIOUS
  <2>4. f \in Frame /\ f.proc # "RunFrame" /\ stack' = Append(stack, f)
    BY <1>3, <2>3 DEF Kill, Call, Frame, ListOf, ListFor, ListNames
  <2>5. (InFrame' <=> InFrame) /\ (InFrame => stack'[1] = stack[1])
    BY <1>1, <2>4, Above
  <2> QED BY <1>1, <2>2, <2>5, LowStays
<1> QED BY <1>2, <1>3

LEMMA LowFire ==
  ASSUME IInv, IInv', LowOK, NEW t \in Timers, NEW d \in BOOLEAN, FireTimerOnce(t, d)
  PROVE  LowOK'
<1>1. Typed /\ Typed' /\ timer \in [Timers -> ITimer]
  BY DEF IInv, Typed
<1>2. timer' = [timer EXCEPT ![t].m_InExec = TRUE] /\ lists' = lists /\ g_fTimerThink' = g_fTimerThink
  BY DEF FireTimerOnce
<1>3. \A u \in Timers : timer'[u].m_ToExec = timer[u].m_ToExec
  BY <1>1, <1>2 DEF ITimer
<1>4. PICK f : f = Call("FireTimerOnce", "OnTimer", t, ListOf(t), d)
  OBVIOUS
<1>5. f \in Frame /\ f.proc # "RunFrame" /\ stack' = Append(stack, f)
  BY <1>4 DEF FireTimerOnce, Call, Frame, ListOf, ListFor, ListNames
<1>6. (InFrame' <=> InFrame) /\ (InFrame => stack'[1] = stack[1])
  BY <1>1, <1>5, Above
<1> QED BY <1>1, <1>2, <1>3, <1>6, LowStays

LEMMA LowMapChange ==
  ASSUME IInv, IInv', LowOK, RemoveMapChangeTimers \/ KillCollected
  PROVE  LowOK'
<1>1. Typed /\ Typed' /\ timer \in [Timers -> ITimer]
  BY DEF IInv, Typed
<1>2. CASE RemoveMapChangeTimers
  <2>1. /\ stack = <<>> /\ stack' = <<Call("RemoveMapChangeTimers", "loop", NULL, "Single", FALSE)>>
        /\ timer' = timer /\ lists' = lists /\ g_fTimerThink' = g_fTimerThink
    BY <1>2 DEF RemoveMapChangeTimers
  <2>2. ~InFrame /\ ~InFrame'
    BY <2>1 DEF InFrame, Call
  <2> QED BY <1>1, <2>1, <2>2, LowStays
<1>3. CASE KillCollected
  <2>1. lists' = lists /\ g_fTimerThink' = g_fTimerThink /\ stack # <<>> /\ Top.proc = "RemoveMapChangeTimers"
    BY <1>3 DEF KillCollected
  <2>2. CASE s_tokill = <<>>
    <3>1. timer' = timer /\ stack' = Front(stack)
      BY <1>3, <2>2 DEF KillCollected, Pop
    <3>2. Len(stack) \in Nat /\ Len(stack) \in 1..Len(stack) /\ Top = stack[Len(stack)] /\ stack \in Seq(Frame)
      BY <1>1, <2>1, TopFacts DEF Typed
    <3>3. Len(stack) = 1
      BY <2>1, <3>2 DEF IInv, StackOK
    <3>4. Front(stack) \in Seq(Frame) /\ Len(Front(stack)) = Len(stack) - 1
      BY ONLY <2>1, <3>2, FrontList
    <3>5. stack' = <<>>
      BY <3>1, <3>3, <3>4
    <3>6. ~InFrame /\ ~InFrame'
      BY <2>1, <3>2, <3>3, <3>5 DEF InFrame
    <3> QED BY <1>1, <2>1, <3>1, <3>6, LowStays
  <2>3. CASE s_tokill # <<>>
    <3>1. PICK t : t = Last(s_tokill)
      OBVIOUS
    <3>2. t \in Timers
      BY <1>1, <2>3, <3>1, FrontList DEF Typed
    <3>3. IF timer[t].m_KillMe THEN UNCHANGED <<timer, ends, stack>> ELSE Kill(t, stack)
      BY <1>3, <2>3, <3>1 DEF KillCollected
    <3>4. CASE timer[t].m_KillMe
      <4>1. timer' = timer /\ stack' = stack
        BY <3>3, <3>4
      <4> QED BY <1>1, <2>1, <4>1, LowStays DEF InFrame
    <3>5. CASE ~timer[t].m_KillMe
      BY <2>1, <3>2, <3>3, <3>5, LowKill
    <3> QED BY <3>4, <3>5
  <2> QED BY <2>2, <2>3
<1> QED BY <1>2, <1>3

\* A new timer is not behind.
LEMMA LowCreate ==
  ASSUME IInv, IInv', LowOK, NEW t \in Timers, NEW interval \in Intervals, NEW flags \in Kinds,
         CreateTimer(t, interval, flags)
  PROVE  LowOK'
<1>1. Typed /\ Typed' /\ timer \in [Timers -> ITimer] /\ "Low" \in ListNames
  BY DEF IInv, Typed, ListNames
<1>2. g_fTimerThink' = g_fTimerThink /\ stack' = stack
  BY DEF CreateTimer
<1>3. InFrame' <=> InFrame
  BY <1>2 DEF InFrame
<1>4. /\ \A u \in Timers : u # t => timer'[u] = timer[u]
      /\ timer'[t].m_ToExec = interval
  BY <1>1 DEF CreateTimer
<1>5. \A l \in ListNames :
        /\ \A x : Has(lists'[l], x) <=> Has(lists[l], x) \/ (l = ListFor(flags) /\ x = t)
        /\ \A a, b \in Timers : a # t /\ b # t /\ Precedes(lists'[l], a, b) => Precedes(lists[l], a, b)
  BY CreateLists
<1>6. ASSUME NEW u \in Timers, LowDone(u)'
      PROVE  (LowDone(u) /\ timer'[u].m_ToExec = timer[u].m_ToExec) \/ -timer'[u].m_ToExec <= Accuracy
  <2>1. CASE u = t
    BY <1>4, <2>1, TimerAssumption
  <2>2. CASE u # t
    <3>1. timer'[u] = timer[u] /\ Has(lists["Low"], u)
      BY <1>1, <1>4, <1>5, <1>6, <2>2 DEF LowDone
    <3>2. ASSUME InFrame, stack[1].list = "Low", Passed(stack[1], u)' PROVE Passed(stack[1], u)
      <4>1. /\ stack[1].timer # t /\ (stack[1].timer = NULL \/ stack[1].timer \in Timers)
        <5>1. 1 \in 1..Len(stack) /\ stack[1] \in Frame
          BY <1>1, <3>2 DEF InFrame, Typed
        <5>2. ~Has(lists["Low"], t)
          BY <1>1, NextTimerFacts DEF CreateTimer
        <5> QED BY <3>2, <5>1, <5>2, TimerAssumption DEF IInv, StackOK, Frame
      <4> QED BY <1>1, <1>2, <1>5, <2>2, <3>1, <3>2, <4>1 DEF Passed
    <3> QED BY <1>2, <1>3, <1>6, <3>1, <3>2 DEF LowDone
  <2> QED BY <2>1, <2>2
<1> QED BY <1>1, <1>2, <1>3, <1>6, LowKept

\* The time passes; if it does not reach the think, for the timers as for the think.
LEMMA LowFrame ==
  ASSUME IInv, IInv', LowOK, NEW dt \in Steps, GameFrame(dt)
  PROVE  LowOK'
<1>1. /\ dt \in Nat /\ 0 < dt /\ Accuracy \in Nat /\ g_fTimerThink \in Int /\ timer \in [Timers -> ITimer]
      /\ "Low" \in ListNames
  BY TimerAssumption DEF IInv, Typed, ListNames
<1>2. /\ stack = <<>> /\ g_fTimerThink' = g_fTimerThink - dt /\ lists' = lists
      /\ stack' = <<Call("RunFrame", "loop", First(lists["Single"]), "Single", g_fTimerThink - dt <= 0)>>
      /\ timer' = [t \in Timers |-> IF Live(t) THEN [timer[t] EXCEPT !.m_ToExec = @ - dt] ELSE timer[t]]
  BY DEF GameFrame
<1>3. ~InFrame /\ InFrame' /\ stack'[1].list = "Single" /\ (stack'[1].flag <=> g_fTimerThink' <= 0)
  BY <1>2 DEF InFrame, Call
<1>4. g_fTimerThink <= Accuracy /\ g_fTimerThink' <= Accuracy
  BY <1>1, <1>2 DEF LowOK
<1>5. ASSUME NEW u \in Timers, LowDone(u)' PROVE -timer'[u].m_ToExec <= LowBound'
  <2>1. Has(lists["Low"], u) /\ g_fTimerThink - dt > 0
    BY <1>1, <1>2, <1>3, <1>5 DEF LowDone
  <2>2. LowDone(u) /\ Live(u) /\ timer[u].m_ToExec \in Int
    <3>1. "Low" = ListOf(u)
      BY <1>1, <2>1 DEF IInv, HomesOK
    <3> QED BY <1>1, <1>3, <2>1, <3>1, LiveHas DEF IInv, LowDone, ITimer
  <2>3. timer'[u].m_ToExec = timer[u].m_ToExec - dt
    BY <1>1, <1>2, <2>2 DEF ITimer
  <2>4. -timer[u].m_ToExec <= LowBound
    BY <2>2 DEF LowOK
  <2>5. LowBound = 2 * Accuracy - g_fTimerThink /\ LowBound' = 2 * Accuracy - (g_fTimerThink - dt)
    BY <1>1, <1>2, <2>1 DEF LowBound
  <2> QED BY <1>1, <2>2, <2>3, <2>4, <2>5
<1> QED BY <1>3, <1>4, <1>5 DEF LowOK

\* The loops: what they pass without firing it is not due.
LEMMA LowVisit ==
  ASSUME IInv, IInv', LowOK, Visit
  PROVE  LowOK'
<1>1. PICK f : f = stack[1]
  OBVIOUS
<1>2. InLoop("RunFrame") /\ ~ListDone
  BY DEF Visit
<1>3. /\ Len(stack) = 1 /\ stack # <<>> /\ stack \in Seq(Frame) /\ InFrame
      /\ Top = f /\ f \in Frame /\ f.proc = "RunFrame" /\ f.list \in ListNames
      /\ f.timer # NULL => f.timer \in Timers /\ Has(lists[f.list], f.timer)
  BY <1>1, <1>2, LoopFacts
<1>4. PICK t : t = f.timer
  OBVIOUS
<1>5. t \in Timers /\ Has(lists[f.list], t) /\ t # NULL
  BY <1>2, <1>3, <1>4 DEF ListDone
<1>6. lists' = lists /\ g_fTimerThink' = g_fTimerThink
  BY DEF Visit
<1>7. \A g : [stack EXCEPT ![Len(stack)] = g] = <<g>>
  BY <1>3
<1>8. Typed /\ Typed' /\ timer \in [Timers -> ITimer] /\ \A u \in Timers : timer[u].m_ToExec \in Int
  BY DEF IInv, Typed, ITimer
<1>9. CASE timer[t].m_ToExec <= 0 /\ (f.list = "Single" => ThisFrame(t, f.flag))
  <2>1. timer' = [timer EXCEPT ![t].m_InExec = TRUE] /\ stack' = <<[f EXCEPT !.pc = "OnTimer"]>>
    BY <1>3, <1>4, <1>7, <1>9 DEF Visit, SetTop
  <2>2. \A u \in Timers : timer'[u].m_ToExec = timer[u].m_ToExec
    BY <1>8, <2>1 DEF ITimer
  <2>3. InFrame' /\ stack'[1].timer = f.timer /\ stack'[1].list = f.list /\ stack'[1].flag = f.flag
    BY <1>3, <2>1 DEF InFrame, Frame
  <2> QED BY <1>1, <1>3, <1>6, <1>8, <2>2, <2>3, LowStays
<1>10. CASE ~(timer[t].m_ToExec <= 0 /\ (f.list = "Single" => ThisFrame(t, f.flag)))
  <2>1. PICK v : v = After(lists[f.list], t)
    OBVIOUS
  <2>2. lists[f.list] \in Seq(Timers) /\ Distinct(lists[f.list]) /\ NULL \notin Timers
    BY <1>3, TimerAssumption DEF IInv, Typed, HomesOK
  <2>3. /\ v # NULL => \A u : Precedes(lists[f.list], u, v) => u = t \/ Precedes(lists[f.list], u, t)
        /\ v = NULL => \A u : Has(lists[f.list], u) => u = t \/ Precedes(lists[f.list], u, t)
    BY ONLY <1>5, <2>1, <2>2, AfterList
  <2>4. timer' = timer /\ stack' = <<[f EXCEPT !.timer = v]>>
    BY <1>3, <1>4, <1>7, <1>10, <2>1 DEF Visit, SetTop
  <2>5. InFrame' /\ stack'[1].timer = v /\ stack'[1].list = f.list /\ stack'[1].flag = f.flag
    BY <1>3, <2>4 DEF InFrame, Frame
  <2>6. f.list = "Low" => -timer[t].m_ToExec <= Accuracy
    BY <1>5, <1>8, <1>10, TimerAssumption
  <2>7. \A u \in Timers : Passed(stack[1], u)' => u = t \/ Passed(f, u)
    BY <1>4, <1>5, <1>6, <2>3, <2>5 DEF Passed
  <2>8. \A u \in Timers : LowDone(u)' => LowDone(u) \/ (u = t /\ f.list = "Low")
    BY <1>1, <1>3, <1>6, <2>5, <2>7 DEF LowDone
  <2> QED BY <1>1, <1>3, <1>6, <1>8, <2>4, <2>5, <2>6, <2>8, LowKept
<1> QED BY <1>9, <1>10

\* The end of a list, and of the frame: after a think everyone has caught up.
LEMMA LowNextList ==
  ASSUME IInv, IInv', LowOK, NextList
  PROVE  LowOK'
<1>1. PICK f : f = stack[1]
  OBVIOUS
<1>2. InLoop("RunFrame") /\ ListDone
  BY DEF NextList
<1>3. /\ Len(stack) = 1 /\ stack # <<>> /\ stack \in Seq(Frame) /\ InFrame
      /\ Top = f /\ f \in Frame /\ f.proc = "RunFrame" /\ f.list \in ListNames
  BY <1>1, <1>2, LoopFacts
<1>4. f.timer # NULL => f.list = "Single"
  BY <1>2, <1>3 DEF ListDone
<1>5. timer' = timer /\ lists' = lists
  BY DEF NextList
<1>6. Typed /\ Typed' /\ g_fTimerThink \in Int /\ Accuracy \in Nat /\ g_fTimerThink <= Accuracy
  BY TimerAssumption DEF IInv, Typed, LowOK
<1>7. \A u \in Timers : timer[u].m_ToExec \in Int
  BY DEF IInv, Typed, ITimer
<1>8. f.flag <=> g_fTimerThink <= 0
  BY <1>1, <1>3 DEF LowOK
<1>9. CASE f.list = "High"
  <2>1. /\ stack' = Front(stack)
        /\ g_fTimerThink' = IF f.flag THEN CalcNextThink(g_fTimerThink, Accuracy) ELSE g_fTimerThink
    BY <1>3, <1>9 DEF NextList, Pop
  <2>2. stack' = <<>>
    <3>1. Front(stack) \in Seq(Frame) /\ Len(Front(stack)) = Len(stack) - 1
      BY ONLY <1>3, FrontList
    <3> QED BY <1>3, <2>1, <3>1
  <2>3. ~InFrame'
    BY <2>2 DEF InFrame
  <2>4. \A u \in Timers : Has(lists["Low"], u) => -timer[u].m_ToExec <= LowBound
    BY <1>1, <1>9 DEF LowOK, LowDone
  <2>5. g_fTimerThink' \in Int /\ g_fTimerThink' <= Accuracy
    BY <1>6, <1>8, <2>1 DEF CalcNextThink
  <2>6. LowBound \in Int /\ LowBound' \in Int /\ LowBound <= LowBound'
    BY <1>6, <1>8, <2>1, <2>5 DEF LowBound
  <2>7. \A u \in Timers : LowDone(u)' => -timer'[u].m_ToExec <= LowBound'
    BY <1>5, <1>7, <2>4, <2>6 DEF LowDone
  <2> QED BY <2>3, <2>5, <2>7 DEF LowOK
<1>10. CASE f.list # "High"
  <2>1. PICK l : l = IF f.list = "Single" /\ f.flag THEN "Low" ELSE "High"
    OBVIOUS
  <2>2. l \in ListNames
    BY <2>1 DEF ListNames
  <2>3. PICK v : v = First(lists[l])
    OBVIOUS
  <2>4. lists[l] \in Seq(Timers) /\ Distinct(lists[l]) /\ NULL \notin Timers
    BY <2>2, TimerAssumption DEF IInv, Typed, HomesOK
  <2>5. /\ v # NULL => \A u : ~Precedes(lists[l], u, v)
        /\ v = NULL => \A u : ~Has(lists[l], u)
    BY ONLY <2>3, <2>4, FirstList
  <2>6. \A h : [stack EXCEPT ![Len(stack)] = h] = <<h>>
    BY <1>3
  <2>7. stack' = <<[f EXCEPT !.list = l, !.timer = v]>> /\ g_fTimerThink' = g_fTimerThink
    BY <1>3, <1>10, <2>1, <2>3, <2>6 DEF NextList, SetTop
  <2>8. InFrame' /\ stack'[1].timer = v /\ stack'[1].list = l /\ stack'[1].flag = f.flag
    BY <1>3, <2>7 DEF InFrame, Frame
  <2>9. ASSUME NEW u \in Timers, LowDone(u)' PROVE LowDone(u)
    <3>1. Has(lists["Low"], u) /\ (f.flag /\ l = "Low" => Passed(stack[1], u)')
      BY <1>5, <2>8, <2>9 DEF LowDone
    <3>2. ~Passed(stack[1], u)'
      BY <1>5, <2>5, <2>8 DEF Passed
    <3>3. f.flag => f.list = "Low" /\ f.timer = NULL
      BY <1>3, <1>4, <1>10, <2>1, <3>1, <3>2 DEF ListNames
    <3> QED BY <1>1, <3>1, <3>3 DEF LowDone, Passed
  <2> QED BY <1>1, <1>3, <1>5, <1>6, <2>7, <2>8, <2>9, LowKept
<1> QED BY <1>9, <1>10

\* OnTimer returns: a timer that fired is due again from now on, or ends.
LEMMA LowReturns ==
  ASSUME IInv, IInv', LowOK, NEW res, OnTimerReturns(res)
  PROVE  LowOK'
<1>1. PICK f, t, n : f = Top /\ t = f.timer /\ n = Len(stack)
  OBVIOUS
<1>2. /\ stack \in Seq(Frame) /\ n \in Nat /\ n \in 1..n /\ f = stack[n] /\ f \in Frame
      /\ t \in Timers /\ f.list \in ListNames /\ Has(lists[f.list], t)
      /\ f.proc = "RunFrame" => n = 1
      /\ stack # <<>> /\ f.pc = "OnTimer"
  BY <1>1, CallbackFacts DEF OnTimerReturns
<1>3. lists' = lists /\ g_fTimerThink' = g_fTimerThink
  BY DEF OnTimerReturns
<1>4. /\ Typed /\ Typed' /\ timer \in [Timers -> ITimer] /\ Accuracy \in Nat /\ NULL \notin Timers
      /\ timer[t].m_ToExec \in Int /\ timer[t].m_Interval \in Nat
  BY <1>2, TimerAssumption DEF IInv, Typed, ITimer
<1>5. CASE ~timer[t].m_Flags.REPEAT \/ timer[t].m_KillMe \/ res = "Pl_Stop"
  <2>1. stack' = [stack EXCEPT ![n] = [f EXCEPT !.pc = "OnTimerEnd"]] /\ timer' = timer
    BY <1>1, <1>5 DEF OnTimerReturns, SetTop
  <2>2. 1 \in 1..n /\ stack'[1].proc = stack[1].proc /\ stack'[1].timer = stack[1].timer
        /\ stack'[1].list = stack[1].list /\ stack'[1].flag = stack[1].flag /\ stack' # <<>>
    <3>1. 1 \in 1..n /\ stack[1] \in Frame /\ Len(stack') = n
      BY <1>1, <1>2, <2>1
    <3>2. CASE n = 1
      BY <1>1, <1>2, <2>1, <3>1, <3>2 DEF Frame
    <3>3. CASE n # 1
      BY <1>1, <1>2, <2>1, <3>1, <3>3
    <3> QED BY <3>1, <3>2, <3>3
  <2>3. InFrame' <=> InFrame
    BY <1>2, <2>2 DEF InFrame
  <2> QED BY <1>3, <1>4, <2>1, <2>2, <2>3, LowStays
<1>6. CASE ~(~timer[t].m_Flags.REPEAT \/ timer[t].m_KillMe \/ res = "Pl_Stop") /\ f.proc = "RunFrame"
  <2>1. /\ timer' = [timer EXCEPT ![t].m_InExec = FALSE, ![t].m_ToExec = CalcNextThink(@, timer[t].m_Interval)]
        /\ stack' = [stack EXCEPT ![n] = [f EXCEPT !.pc = "loop", !.timer = After(lists[f.list], t)]]
    BY <1>1, <1>6 DEF OnTimerReturns, SetTop
  <2>2. PICK v : v = After(lists[f.list], t)
    OBVIOUS
  <2>3. lists[f.list] \in Seq(Timers) /\ Distinct(lists[f.list])
    BY <1>2 DEF IInv, Typed, HomesOK
  <2>4. /\ v # NULL => \A u : Precedes(lists[f.list], u, v) => u = t \/ Precedes(lists[f.list], u, t)
        /\ v = NULL => \A u : Has(lists[f.list], u) => u = t \/ Precedes(lists[f.list], u, t)
    BY ONLY <1>2, <1>4, <2>2, <2>3, AfterList
  <2>5. n = 1 /\ f = stack[1] /\ InFrame
    BY <1>2, <1>6 DEF InFrame
  <2>6. /\ InFrame' /\ stack'[1].timer = v /\ stack'[1].list = f.list /\ stack'[1].flag = f.flag
    BY <1>1, <1>2, <1>6, <2>1, <2>2, <2>5 DEF InFrame, Frame
  <2>7. \A u \in Timers : u # t => timer'[u].m_ToExec = timer[u].m_ToExec
    BY <1>2, <1>4, <2>1
  <2>8. -timer'[t].m_ToExec <= Accuracy
    <3>1. timer'[t].m_ToExec = CalcNextThink(timer[t].m_ToExec, timer[t].m_Interval)
      BY <1>2, <1>4, <2>1 DEF ITimer
    <3>2. CalcNextThink(timer[t].m_ToExec, timer[t].m_Interval) \in Int
      BY <1>4 DEF CalcNextThink
    <3> QED BY <1>4, <3>1, <3>2 DEF CalcNextThink
  <2>9. \A u \in Timers : Passed(stack[1], u)' => u = t \/ Passed(f, u)
    BY <1>1, <1>2, <1>3, <1>4, <2>4, <2>6 DEF Passed
  <2>10. \A u \in Timers : LowDone(u)' => LowDone(u) \/ u = t
    BY <1>3, <2>5, <2>6, <2>9 DEF LowDone
  <2> QED BY <1>3, <1>4, <2>5, <2>6, <2>7, <2>8, <2>10, LowKept
<1>7. CASE ~(~timer[t].m_Flags.REPEAT \/ timer[t].m_KillMe \/ res = "Pl_Stop") /\ f.proc # "RunFrame"
  <2>1. /\ timer' = [timer EXCEPT ![t].m_InExec = FALSE,
                       ![t].m_ToExec = IF f.flag THEN timer[t].m_Interval ELSE @]
        /\ stack' = Front(stack)
    BY <1>1, <1>7 DEF OnTimerReturns, Pop
  <2>2. (InFrame' <=> InFrame) /\ (InFrame => stack'[1] = stack[1])
    BY <1>1, <1>2, <1>7, <2>1, PopFacts
  <2>3. \A u \in Timers : u # t => timer'[u].m_ToExec = timer[u].m_ToExec
    BY <1>2, <1>4, <2>1
  <2>4. timer'[t].m_ToExec = timer[t].m_ToExec \/ -timer'[t].m_ToExec <= Accuracy
    <3>1. timer'[t].m_ToExec = IF f.flag THEN timer[t].m_Interval ELSE timer[t].m_ToExec
      BY <1>2, <1>4, <2>1 DEF ITimer
    <3> QED BY <1>4, <3>1
  <2>5. \A u \in Timers : LowDone(u)' => LowDone(u)
    BY <1>3, <2>2 DEF LowDone, Passed
  <2> QED BY <1>3, <1>4, <2>2, <2>3, <2>4, <2>5, LowKept
<1> QED BY <1>5, <1>6, <1>7

\* OnTimerEnd returns: the others stay where they are.
LEMMA LowEnds ==
  ASSUME IInv, IInv', LowOK, OnTimerEndReturns
  PROVE  LowOK'
<1>1. PICK f, t, n : f = Top /\ t = f.timer /\ n = Len(stack)
  OBVIOUS
<1>2. /\ stack \in Seq(Frame) /\ n \in Nat /\ n \in 1..n /\ f = stack[n] /\ f \in Frame /\ f.pc = "OnTimerEnd"
      /\ t \in Timers /\ f.list \in ListNames /\ Has(lists[f.list], t)
      /\ f.proc = "RunFrame" => n = 1
      /\ stack # <<>>
  BY <1>1, CallbackFacts DEF OnTimerEndReturns
<1>3. /\ lists' \in [ListNames -> Seq(Timers)]
      /\ \A l \in ListNames :
           /\ \A x : Has(lists'[l], x) <=> Has(lists[l], x) /\ x # t
           /\ \A a, b : Precedes(lists'[l], a, b) => Precedes(lists[l], a, b)
  BY <1>1, EndLists
<1>4. g_fTimerThink' = g_fTimerThink
  BY DEF OnTimerEndReturns
<1>5. /\ Typed /\ Typed' /\ timer \in [Timers -> ITimer] /\ NULL \notin Timers /\ "Low" \in ListNames
  BY TimerAssumption DEF IInv, Typed, ListNames
<1>6. \A u \in Timers : u # t => timer'[u] = timer[u]
  BY <1>1, <1>5 DEF OnTimerEndReturns
<1>7. CASE f.proc = "RunFrame"
  <2>1. PICK v : v = After(lists[f.list], t)
    OBVIOUS
  <2>2. lists[f.list] \in Seq(Timers) /\ Distinct(lists[f.list])
    BY <1>2 DEF IInv, Typed, HomesOK
  <2>3. /\ v # NULL => \A u : Precedes(lists[f.list], u, v) => u = t \/ Precedes(lists[f.list], u, t)
        /\ v = NULL => \A u : Has(lists[f.list], u) => u = t \/ Precedes(lists[f.list], u, t)
    BY ONLY <1>2, <1>5, <2>1, <2>2, AfterList
  <2>4. stack' = [stack EXCEPT ![n] = [f EXCEPT !.pc = "loop", !.timer = v]]
    BY <1>1, <1>7, <2>1 DEF OnTimerEndReturns, SetTop, AfterErase
  <2>5. n = 1 /\ f = stack[1] /\ InFrame
    BY <1>2, <1>7 DEF InFrame
  <2>6. InFrame' /\ stack'[1].timer = v /\ stack'[1].list = f.list /\ stack'[1].flag = f.flag
    BY <1>1, <1>2, <1>7, <2>4, <2>5 DEF InFrame, Frame
  <2>7. ASSUME NEW u \in Timers, LowDone(u)' PROVE LowDone(u) /\ u # t
    <3>1. Has(lists["Low"], u) /\ u # t
      BY <1>3, <1>5, <2>7 DEF LowDone
    <3>2. ASSUME f.flag, f.list = "Low" PROVE Passed(f, u)
      <4>1. Passed(stack[1], u)'
        BY <2>6, <2>7, <3>2 DEF LowDone
      <4>2. v # NULL => Precedes(lists["Low"], u, v)
        BY <1>3, <1>5, <2>6, <3>2, <4>1 DEF Passed
      <4>3. Precedes(lists["Low"], u, t)
        BY <2>3, <3>1, <3>2, <4>2
      <4> QED BY <1>1, <1>2, <1>5, <3>2, <4>3 DEF Passed
    <3>3. f.flag => f.list # "Single"
      BY <2>6, <2>7 DEF LowDone
    <3> QED BY <2>5, <3>1, <3>2, <3>3 DEF LowDone
  <2> QED BY <1>4, <1>5, <1>6, <2>5, <2>6, <2>7, LowKept
<1>8. CASE f.proc # "RunFrame"
  <2>1. stack' = Front(stack)
    BY <1>1, <1>8 DEF OnTimerEndReturns, Pop
  <2>2. /\ (InFrame' <=> InFrame)
        /\ InFrame => stack'[1] = stack[1] /\ stack[1] \in Frame
    BY <1>1, <1>2, <1>8, <2>1, PopFacts
  <2>3. ASSUME NEW u \in Timers, LowDone(u)' PROVE LowDone(u) /\ u # t
    <3>1. Has(lists["Low"], u) /\ u # t
      BY <1>3, <1>5, <2>3 DEF LowDone
    <3>2. InFrame => (Passed(stack[1], u)' => Passed(stack[1], u))
      BY <1>3, <2>2 DEF Passed, Frame
    <3> QED BY <2>2, <2>3, <3>1, <3>2 DEF LowDone
  <2> QED BY <1>4, <1>5, <1>6, <2>2, <2>3, LowKept
<1> QED BY <1>7, <1>8

LEMMA LowInit == Init => LowOK
  BY TimerAssumption, EmptyList DEF Init, LowOK, LowDone, InFrame, ListNames

LEMMA LowNext == IInv /\ IInv' /\ LowOK /\ [Next]_vars => LowOK'
<1> SUFFICES ASSUME IInv, IInv', LowOK, [Next]_vars PROVE LowOK'
  OBVIOUS
<1>1. ASSUME NEW t \in Timers, NEW i \in Intervals, NEW k \in Kinds, CreateTimer(t, i, k) PROVE LowOK'
  BY <1>1, LowCreate
<1>2. ASSUME NEW t \in Timers, NEW d \in BOOLEAN, FireTimerOnce(t, d) PROVE LowOK'
  BY <1>2, LowFire
<1>3. ASSUME NEW t \in Timers, KillTimer(t) PROVE LowOK'
  BY <1>3, LowKill DEF KillTimer
<1>4. CASE RemoveMapChangeTimers \/ KillCollected
  BY <1>4, LowMapChange
<1>5. ASSUME NEW dt \in Steps, GameFrame(dt) PROVE LowOK'
  BY <1>5, LowFrame
<1>6. CASE Visit
  BY <1>6, LowVisit
<1>7. CASE NextList
  BY <1>7, LowNextList
<1>8. CASE OnTimerEndReturns
  BY <1>8, LowEnds
<1>9. ASSUME NEW res, OnTimerReturns(res) PROVE LowOK'
  BY <1>9, LowReturns
<1>10. CASE UNCHANGED vars
  <2>1. timer' = timer /\ lists' = lists /\ g_fTimerThink' = g_fTimerThink /\ stack' = stack
    BY <1>10 DEF vars
  <2>2. Typed /\ Typed' /\ (InFrame' <=> InFrame)
    BY <2>1 DEF IInv, InFrame
  <2> QED BY <2>1, <2>2, LowStays
<1>11. Clients => LowOK'
  BY <1>1, <1>2, <1>3 DEF Clients
<1>12. Frames => LowOK'
  BY <1>5 DEF Frames
<1>13. Loops => LowOK'
  BY <1>4, <1>6, <1>7 DEF Loops
<1>14. Returns => LowOK'
  BY <1>8, <1>9 DEF Returns
<1> QED BY <1>4, <1>10, <1>11, <1>12, <1>13, <1>14 DEF Next

\* The think comes within TIMER_MIN_ACCURACY, and who waits for it has caught
\* up with it.
THEOREM ThinkInvariance == Spec => []LowOK
  BY InitOK, NextInv, LowInit, LowNext, PTL DEF Spec

\* A list that is Distinct has an element once or not at all.
LEMMA TimesFacts ==
  ASSUME NEW S, NEW s \in Seq(S), NEW t, Distinct(s)
  PROVE  Times(t, s) = IF Has(s, t) THEN 1 ELSE 0
<1>1. CASE Has(s, t)
  <2>1. PICK i \in 1..Len(s) : s[i] = t
    BY <1>1 DEF Has
  <2>2. {j \in 1..Len(s) : s[j] = t} = {i}
    BY <2>1 DEF Distinct
  <2> QED BY <1>1, <2>2, FS_Singleton DEF Times
<1>2. CASE ~Has(s, t)
  <2>1. {j \in 1..Len(s) : s[j] = t} = {}
    BY <1>2 DEF Has
  <2> QED BY <1>2, <2>1, FS_EmptySet DEF Times
<1> QED BY <1>1, <1>2

\* Range, in the words of the other lemmas.
LEMMA RangeHas ==
  ASSUME Typed
  PROVE  /\ \A l \in ListNames : \A x : x \in Range(lists[l]) <=> Has(lists[l], x)
         /\ \A x : x \in Range(m_FreeTimers) <=> Has(m_FreeTimers, x)
         /\ DOMAIN stack = 1..Len(stack) /\ \A i \in 1..Len(stack) : stack[i] \in Frame
<1>1. /\ \A l \in ListNames : lists[l] \in Seq(Timers)
      /\ m_FreeTimers \in Seq(Timers) /\ stack \in Seq(Frame)
  BY DEF Typed
<1>2. \A l \in ListNames : DOMAIN lists[l] = 1..Len(lists[l])
  BY <1>1
<1>3. DOMAIN m_FreeTimers = 1..Len(m_FreeTimers)
  BY <1>1
<1> QED BY <1>1, <1>2, <1>3 DEF Range, Has

\* Callbacks nest no deeper than there are timers: each call but the outermost
\* has a timer of its own.
LEMMA DepthOK == IInv => Len(stack) <= Cardinality(Timers) + 1
<1> SUFFICES ASSUME IInv PROVE Len(stack) <= Cardinality(Timers) + 1
  OBVIOUS
<1>1. PICK n : n = Len(stack)
  OBVIOUS
<1>2. n \in Nat /\ IsFiniteSet(Timers) /\ Cardinality(Timers) \in Nat
  BY <1>1, TimerAssumption, FS_CardinalityType DEF IInv, Typed
<1>3. CASE n < 2
  BY <1>1, <1>2, <1>3
<1>4. CASE n >= 2
  <2> DEFINE f == [i \in 2..n |-> stack[i].timer]
  <2>1. \A i \in 2..n : i \in 1..n /\ i # 1
    BY <1>2
  <2>2. ASSUME NEW i \in 2..n PROVE stack[i].timer \in Timers
    <3>1. stack[i] \in Frame /\ i \in 1..Len(stack) /\ i # 1
      BY <1>1, <2>1 DEF IInv, Typed
    <3>2. stack[i].proc \in {"FireTimerOnce", "KillTimer"}
      BY <3>1 DEF IInv, StackOK, Frame
    <3>3. stack[i].timer # NULL
      BY <3>1, <3>2 DEF IInv, StackOK
    <3> QED BY <3>1, <3>3 DEF Frame
  <2>3. \A i, j \in 2..n : f[i] = f[j] => i = j
    BY <1>1, <2>1, <2>2, TimerAssumption DEF IInv, StackOK
  <2>4. f \in [2..n -> Timers]
    BY <2>2
  <2> HIDE DEF f
  <2>5. f \in Injection(2..n, Timers)
    BY <2>3, <2>4 DEF Injection, IsInjective
  <2>6. Cardinality(2..n) <= Cardinality(Timers)
    BY ONLY <1>2, <2>5, FS_Injection
  <2>7. Cardinality(2..n) = n - 1
    BY <1>2, <1>4, FS_Interval
  <2> QED BY <1>1, <1>2, <2>6, <2>7
<1> QED BY <1>2, <1>3, <1>4

\* Whatever OnTimer and OnTimerEnd create, fire and kill while the lists are
\* walked, however deep they nest: a timer object is in one list or on the free
\* stack, once; a call finds its timer in the list where it left it, marked and
\* used by no other call, when a callback returns (RunFrame, FireTimerOnce,
\* KillTimer).
THEOREM ListsAreSafe == Spec => []ListsOK
<1>1. IInv => TypeOK
  BY DepthOK DEF IInv, Typed, TypeOK
<1>2. IInv => OneHome
  <2> SUFFICES ASSUME IInv, NEW t \in Timers
               PROVE  /\ Times(t, lists["Single"]) + Times(t, lists["Low"]) + Times(t, lists["High"])
                           + Times(t, m_FreeTimers) <= 1
                      /\ Live(t) => t \in Range(lists[ListOf(t)])
    BY DEF OneHome
  <2>1. /\ "Single" \in ListNames /\ "Low" \in ListNames /\ "High" \in ListNames
        /\ \A l \in ListNames : lists[l] \in Seq(Timers) /\ Distinct(lists[l])
        /\ m_FreeTimers \in Seq(Timers) /\ Distinct(m_FreeTimers)
    BY DEF IInv, Typed, HomesOK, ListNames
  <2>2. /\ \A l \in ListNames : Times(t, lists[l]) = IF Has(lists[l], t) THEN 1 ELSE 0
        /\ Times(t, m_FreeTimers) = IF Has(m_FreeTimers, t) THEN 1 ELSE 0
    BY <2>1, TimesFacts
  <2>3. /\ \A l \in ListNames : Has(lists[l], t) => l = ListOf(t)
        /\ Has(m_FreeTimers, t) => \A l \in ListNames : ~Has(lists[l], t)
    BY DEF IInv, HomesOK
  <2>4. Times(t, lists["Single"]) + Times(t, lists["Low"]) + Times(t, lists["High"]) + Times(t, m_FreeTimers) <= 1
    <3>1. /\ Times(t, lists["Single"]) = IF Has(lists["Single"], t) THEN 1 ELSE 0
          /\ Times(t, lists["Low"]) = IF Has(lists["Low"], t) THEN 1 ELSE 0
          /\ Times(t, lists["High"]) = IF Has(lists["High"], t) THEN 1 ELSE 0
          /\ Times(t, m_FreeTimers) = IF Has(m_FreeTimers, t) THEN 1 ELSE 0
      BY <2>1, <2>2
    <3>2. /\ Has(lists["Single"], t) => ~Has(lists["Low"], t) /\ ~Has(lists["High"], t) /\ ~Has(m_FreeTimers, t)
          /\ Has(lists["Low"], t) => ~Has(lists["High"], t) /\ ~Has(m_FreeTimers, t)
          /\ Has(lists["High"], t) => ~Has(m_FreeTimers, t)
      BY <2>1, <2>3
    <3> QED BY <3>1, <3>2
  <2>5. Live(t) => t \in Range(lists[ListOf(t)])
    BY LiveHas, RangeHas DEF IInv
  <2> QED BY <2>4, <2>5
<1>3. IInv => InUse
  <2> SUFFICES ASSUME IInv PROVE InUse
    OBVIOUS
  <2>1. DOMAIN stack = 1..Len(stack) /\ \A i \in 1..Len(stack) : stack[i] \in Frame
    BY RangeHas DEF IInv
  <2>2. ASSUME NEW i \in 1..Len(stack), stack[i].timer # NULL
        PROVE  /\ stack[i].timer \in Range(lists[stack[i].list])
               /\ stack[i].pc # "loop" => timer[stack[i].timer].m_InExec
               /\ \A j \in 1..Len(stack) : stack[j].timer = stack[i].timer => i = j
    <3>1. stack[i].list \in ListNames
      BY <2>1 DEF Frame
    <3>2. Has(lists[stack[i].list], stack[i].timer)
      BY <2>2 DEF IInv, StackOK
    <3>3. stack[i].timer \in Range(lists[stack[i].list])
      BY <3>1, <3>2, RangeHas DEF IInv
    <3> QED BY <2>2, <3>3 DEF IInv, StackOK
  <2>3. ASSUME NEW t \in Timers, Live(t), timer[t].m_InExec PROVE \E i \in 1..Len(stack) : stack[i].timer = t
    BY <2>3, LiveHas DEF IInv, RunningOK
  <2> QED BY <2>1, <2>2, <2>3 DEF InUse
<1>4. IInv => ListsOK
  BY <1>1, <1>2, <1>3 DEF ListsOK
<1> QED BY <1>4, Invariance, PTL

\* OnTimerEnd is called once in the life of every timer, also when it is killed
\* in its own callback or by another's (TimerSys.cpp, KillTimer), and before the
\* object is used again.
THEOREM EveryTimerEndsOnce == Spec => []EndOnce
<1>1. IInv => EndOnce
  <2> SUFFICES ASSUME IInv, NEW t \in Timers
               PROVE  /\ t \in Range(m_FreeTimers) => ends[t] = 1
                      /\ Live(t) => ends[t] = IF \E i \in DOMAIN stack :
                                  stack[i].timer = t /\ stack[i].pc = "OnTimerEnd" THEN 1 ELSE 0
    BY DEF EndOnce
  <2>1. /\ t \in Range(m_FreeTimers) <=> Has(m_FreeTimers, t)
        /\ DOMAIN stack = 1..Len(stack) /\ (Live(t) <=> Has(lists[ListOf(t)], t))
    BY RangeHas, LiveHas DEF IInv
  <2> QED BY <2>1 DEF IInv, EndsOK, Ending
<1> QED BY <1>1, Invariance, PTL

\* The single timers stay sorted, so that the loop that stops at the first one
\* of the future (RunFrame) misses none that is due; and after a frame, however
\* far the time jumped (CalcNextThink), no tick-precise timer is more than
\* TIMER_MIN_ACCURACY behind, and none that waits for the think twice as much.
THEOREM FramesAreOnTime == Spec => []TimingOK
<1>1. IInv => Sorted
  <2> SUFFICES ASSUME IInv PROVE Sorted
    OBVIOUS
  <2>1. PICK s : s = lists["Single"]
    OBVIOUS
  <2>2. s \in Seq(Timers)
    BY <2>1 DEF IInv, Typed, ListNames
  <2>3. ASSUME NEW i \in 1..Len(s), NEW j \in 1..Len(s), i <= j
        PROVE  timer[s[i]].m_ToExec <= timer[s[j]].m_ToExec
    <3>1. s[i] \in Timers /\ s[j] \in Timers /\ timer[s[i]].m_ToExec \in Int
      BY <2>2 DEF IInv, Typed, ITimer
    <3>2. CASE i = j
      BY <3>1, <3>2
    <3>3. CASE i < j
      <4>1. Precedes(s, s[i], s[j])
        BY <3>3 DEF Precedes
      <4> QED BY <2>1, <3>1, <4>1 DEF IInv, OrderOK
    <3> QED BY <2>3, <3>2, <3>3
  <2> QED BY <2>1, <2>3 DEF Sorted
<1>2. IInv => NoneMissed
  <2> SUFFICES ASSUME IInv, NEW i \in DOMAIN stack, stack[i].proc = "RunFrame", stack[i].list # "Single",
                      NEW t \in Range(lists["Single"]) \ fresh, timer[t].m_ToExec <= 0
               PROVE  ~ThisFrame(t, stack[i].flag)
    BY DEF NoneMissed
  <2>1. "Single" \in ListNames /\ lists["Single"] \in Seq(Timers)
    BY DEF IInv, Typed, ListNames
  <2>2. i \in 1..Len(stack) /\ Has(lists["Single"], t) /\ stack # <<>>
    <3>1. i \in 1..Len(stack) /\ Has(lists["Single"], t)
      BY <2>1, RangeHas DEF IInv
    <3> QED BY <3>1
  <2>3. t \in Timers \ fresh
    BY <2>1, <2>2, HasType
  <2>4. i = 1
    BY <2>2 DEF IInv, StackOK
  <2>5. Walked(stack[1])
    BY <2>2, <2>4 DEF IInv, WalkOK, InFrame
  <2> QED BY <2>2, <2>3, <2>4, <2>5 DEF Walked
<1>3. IInv /\ LowOK => CatchesUp
  <2> SUFFICES ASSUME IInv, LowOK, stack = <<>>
               PROVE  /\ -g_fTimerThink <= Accuracy
                      /\ \A t \in Range(lists["High"]) : -timer[t].m_ToExec <= Accuracy
                      /\ \A t \in Range(lists["Low"]) : -timer[t].m_ToExec < 2 * Accuracy
    BY DEF CatchesUp
  <2>1. CaughtUp
    BY DEF IInv, WalkOK, InFrame
  <2>2. \A t \in Range(lists["High"]) : t \in Timers /\ Has(lists["High"], t)
    <3>1. "High" \in ListNames /\ lists["High"] \in Seq(Timers)
      BY DEF IInv, Typed, ListNames
    <3> QED BY <3>1, RangeHas, HasType DEF IInv
  <2>3. ASSUME NEW t \in Range(lists["Low"]) PROVE -timer[t].m_ToExec < 2 * Accuracy
    <3>1. "Low" \in ListNames /\ lists["Low"] \in Seq(Timers)
      BY DEF IInv, Typed, ListNames
    <3>2. t \in Timers /\ Has(lists["Low"], t)
      BY <3>1, RangeHas, HasType DEF IInv
    <3>3. LowDone(t) /\ timer[t].m_ToExec \in Int /\ g_fTimerThink \in Int
      BY <3>2 DEF LowDone, InFrame, IInv, Typed, ITimer
    <3>4. -timer[t].m_ToExec <= LowBound
      BY <3>2, <3>3 DEF LowOK
    <3> QED BY <3>3, <3>4, TimerAssumption DEF LowBound
  <2> QED BY <2>1, <2>2, <2>3 DEF CaughtUp
<1>4. IInv /\ LowOK => TimingOK
  BY <1>1, <1>2, <1>3 DEF TimingOK
<1> QED BY <1>4, Invariance, ThinkInvariance, PTL

=============================================================================
