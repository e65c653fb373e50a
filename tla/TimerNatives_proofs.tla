------------------------- MODULE TimerNatives_proofs -------------------------
(***************************************************************************)
(* Proofs about TimerNatives, for any timers, plugins and data handles and *)
(* any nesting of callbacks.  The inductive invariant IInv reads the call  *)
(* stack: what each frame may rely on while the frames above it run        *)
(* (CallbacksOK, ReleasesOK, KillsOK, EndsOK), which timers are bound to   *)
(* end (DoomedOK), and how timers, TimerInfos and handles lead to each     *)
(* other (HeapOK, OpenLinked, NumbersOK, FreedClosed).                     *)
(***************************************************************************)
EXTENDS TimerNatives, SequenceTheorems, TLAPS

\* What a frame holds, by the procedure that is running.
Shape(f) ==
  \/ f.proc = "OnTimer" /\ f.pc = "callback" /\ f.timer # NULL
  \/ f.proc = "OnTimerEnd" /\ f.pc \in {"data", "handle", "info"} /\ f.timer # NULL
  \/ f.proc = "FreeHandle" /\ f.pc = "release" /\ f.timer = NULL /\ f.hndl \in Handles
  \/ f.proc = "FreeData" /\ f.pc = "callback" /\ f.timer = NULL /\ f.hndl \in Data
  \/ f.proc = "KillTimer" /\ f.pc = "killed" /\ f.timer = NULL /\ f.info # NULL
  \/ f.proc = "Unload" /\ f.pc = "loop" /\ f.timer = NULL /\ f.plugin # NULL

ShapesOK(s) == \A k \in 1..Len(s) : Shape(s[k]) /\ (s[k].proc = "Unload" => k = 1)

\* A callback of a timer: it lives, is marked as executing, and runs no other.
CallbacksOK(s) ==
  /\ \A k \in 1..Len(s) : s[k].timer # NULL => timer[s[k].timer].live /\ timer[s[k].timer].m_InExec
  /\ \A j, k \in 1..Len(s) : s[j].timer # NULL /\ s[j].timer = s[k].timer => j = k

Ends(f, t) == f.proc = "OnTimerEnd" /\ f.timer = t

\* A handle and its timer lead to each other.
Linked(h) ==
  LET i == hndl[h].info  t == info[i].Timer IN
  /\ i # NULL /\ t # NULL /\ timer[t].live /\ timer[t].m_pData = i
  /\ info[i].TimerHandle = h /\ info[i].Hook = hndl[h].owner

\* A handle is being destroyed as long as its FreeHandle runs, and its timer
\* is only gone when that has nothing more to do than to release it.
ReleasesOK(s) ==
  /\ \A k \in 1..Len(s) : s[k].proc = "FreeHandle" =>
       /\ hndl[s[k].hndl].state = "destroying"
       /\ k < Len(s) => Linked(s[k].hndl) /\ Ends(s[k+1], info[hndl[s[k].hndl].info].Timer)
  /\ \A j, k \in 1..Len(s) : s[j].proc = "FreeHandle" /\ s[k].proc = "FreeHandle" /\ s[j].hndl = s[k].hndl => j = k
  /\ \A h \in Handles : hndl[h].state = "destroying" =>
       \E k \in 1..Len(s) : s[k].proc = "FreeHandle" /\ s[k].hndl = h

\* While smn_KillTimer waits for TimerSys its TimerInfo stays in use.
KillsOK(s) ==
  \A k \in 1..Len(s) : s[k].proc = "KillTimer" =>
    /\ info[s[k].info] = s[k].was
    /\ k < Len(s) => s[k+1].proc = "OnTimerEnd" /\ timer[s[k+1].timer].m_pData = s[k].info

OpenLinked == \A h \in Handles : hndl[h].state = "open" => Linked(h)

IsOpen(h) == h \in Handles /\ hndl[h].state = "open"

\* A timer without an open handle is on its way out.
DoomedOK(s) ==
  \A t \in Timers : timer[t].live =>
    /\ ~IsOpen(info[timer[t].m_pData].TimerHandle) /\ ~timer[t].m_KillMe =>
         \E k \in 1..Len(s) : Ends(s[k], t)
    /\ timer[t].m_KillMe \/ timer[t].m_InExec => \E k \in 1..Len(s) : s[k].timer = t

HeapOK ==
  /\ \A j, k \in 1..Len(m_FreeTimers) : m_FreeTimers[j] = m_FreeTimers[k] => j = k
  /\ \A j, k \in 1..Len(freeTimers) : freeTimers[j] = freeTimers[k] => j = k
  /\ \A k \in 1..Len(freeTimers) : ~timer[freeTimers[k]].live
  /\ \A t \in Timers : timer[t].live =>
       /\ timer[t].m_pData # NULL /\ info[timer[t].m_pData].Timer = t
       /\ info[timer[t].m_pData].Hook \in loaded
       /\ info[timer[t].m_pData].TimerHandle \in Handles =>
            hndl[info[timer[t].m_pData].TimerHandle].info = timer[t].m_pData
       /\ \A k \in 1..Len(m_FreeTimers) : m_FreeTimers[k] # timer[t].m_pData
  /\ \A i \in Infos : info[i].Timer # NULL =>
       \/ timer[info[i].Timer].live /\ timer[info[i].Timer].m_pData = i
       \/ \E k \in 1..Len(m_FreeTimers) : m_FreeTimers[k] = i
  /\ \A k \in 1..Len(m_FreeTimers) : info[m_FreeTimers[k]].Timer # NULL

\* Handles are numbered as they are made.
NumbersOK ==
  /\ \A h \in Handles : hndl[h].state # "none" => h <= made
  /\ \A i \in Infos : /\ info[i].TimerHandle <= made
                      /\ info[i].UserData \in Handles => info[i].UserData <= made
                     
\* The data handle of i is closed, as far as TIMER_DATA_HNDL_CLOSE asks for it.
Closed(i) == info[i].close => info[i].UserData \notin OwnedBy(info[i].Hook)

\* OnTimerEnd has closed what its step says.
EndOK(f) ==
  f.proc = "OnTimerEnd" =>
    LET i == timer[f.timer].m_pData IN
    /\ f.pc # "data" => Closed(i)
    /\ f.pc = "info" => ~IsOpen(info[i].TimerHandle)

EndsOK(s) == \A k \in 1..Len(s) : EndOK(s[k])

FreedClosed == \A k \in 1..Len(m_FreeTimers) : Closed(m_FreeTimers[k])

IInv ==
  /\ TypeOK /\ ShapesOK(stack) /\ CallbacksOK(stack) /\ ReleasesOK(stack) /\ KillsOK(stack)
  /\ OpenLinked /\ DoomedOK(stack) /\ HeapOK /\ NumbersOK /\ EndsOK(stack) /\ FreedClosed

-----------------------------------------------------------------------------
(* The stack.                                                              *)

ReleaseCall(h) == [Call("FreeHandle", "release") EXCEPT !.hndl = h]
DataCall(d) == [Call("FreeData", "callback") EXCEPT !.hndl = d]
TimerCall(t) == [Call("OnTimer", "callback") EXCEPT !.timer = t]

\* The frames the actions push are frames of their shape.
LEMMA NewFrames ==
  /\ \A t \in Timers : /\ EndCall(t) \in Frame /\ Shape(EndCall(t))
                       /\ EndCall(t).proc = "OnTimerEnd" /\ EndCall(t).pc = "data" /\ EndCall(t).timer = t
  /\ \A t \in Timers : /\ TimerCall(t) \in Frame /\ Shape(TimerCall(t))
                       /\ TimerCall(t).proc = "OnTimer" /\ TimerCall(t).pc = "callback" /\ TimerCall(t).timer = t
  /\ \A h \in Handles : /\ ReleaseCall(h) \in Frame /\ Shape(ReleaseCall(h))
                        /\ ReleaseCall(h).proc = "FreeHandle" /\ ReleaseCall(h).timer = NULL
                        /\ ReleaseCall(h).hndl = h
  /\ \A d \in Data : /\ DataCall(d) \in Frame /\ Shape(DataCall(d))
                     /\ DataCall(d).proc = "FreeData" /\ DataCall(d).timer = NULL
<1>1. \A t \in Timers : /\ EndCall(t) \in Frame /\ Shape(EndCall(t))
                        /\ EndCall(t).proc = "OnTimerEnd" /\ EndCall(t).pc = "data" /\ EndCall(t).timer = t
  BY NativesAssumption DEF EndCall, Call, Frame, Shape, UserData
<1>2. \A t \in Timers : /\ TimerCall(t) \in Frame /\ Shape(TimerCall(t))
                        /\ TimerCall(t).proc = "OnTimer" /\ TimerCall(t).pc = "callback" /\ TimerCall(t).timer = t
  BY NativesAssumption DEF TimerCall, Call, Frame, Shape, UserData
<1>3. \A h \in Handles : /\ ReleaseCall(h) \in Frame /\ Shape(ReleaseCall(h))
                         /\ ReleaseCall(h).proc = "FreeHandle" /\ ReleaseCall(h).timer = NULL
                         /\ ReleaseCall(h).hndl = h
  BY DEF ReleaseCall, Call, Frame, Shape, UserData
<1>4. \A d \in Data : /\ DataCall(d) \in Frame /\ Shape(DataCall(d))
                      /\ DataCall(d).proc = "FreeData" /\ DataCall(d).timer = NULL
  BY DEF DataCall, Call, Frame, Shape, UserData
<1> QED BY <1>1, <1>2, <1>3, <1>4

\* What Front leaves of a sequence.
LEMMA FrontOf ==
  ASSUME NEW S, NEW s \in Seq(S), s # <<>>
  PROVE  /\ Len(s) \in Nat /\ Len(s) >= 1
         /\ Front(s) \in Seq(S) /\ Len(Front(s)) = Len(s) - 1
         /\ \A k \in 1..(Len(s) - 1) : Front(s)[k] = s[k]
         /\ Last(s) = s[Len(s)] /\ Last(s) \in S
<1>1. Len(s) \in Nat /\ Len(s) >= 1
  OBVIOUS
<1>2. Last(s) = s[Len(s)] /\ Last(s) \in S
  BY <1>1 DEF Last
<1>3. Front(s) \in Seq(S) /\ Len(Front(s)) = Len(s) - 1
  <2>1. PICK n \in Nat : Len(s) = n + 1
    BY <1>1, Len(s) - 1 \in Nat
  <2>2. n = Len(s) - 1 /\ 1 \in Int /\ n \in Int /\ \A i \in 1..n : s[i] \in S
    BY <2>1
  <2>3. SubSeq(s, 1, n) \in Seq(S)
    BY <2>2, SubSeqProperties
  <2>4. Len(SubSeq(s, 1, n)) = n
    BY <2>2, SubSeqProperties
  <2> QED BY <2>2, <2>3, <2>4, Zenon DEF Front
<1>4. \A k \in 1..(Len(s) - 1) : Front(s)[k] = s[k]
  BY <1>1 DEF Front
<1> QED BY <1>1, <1>2, <1>3, <1>4

\* What At changes of the stack.
LEMMA AtOf ==
  ASSUME stack \in Seq(Frame), stack # <<>>,
         NEW pc \in {"data", "handle", "info"}
  PROVE  /\ At(pc) \in Seq(Frame) /\ Len(At(pc)) = Len(stack) /\ Len(stack) \in Nat /\ Len(stack) >= 1
         /\ \A k \in 1..Len(stack) : k # Len(stack) => At(pc)[k] = stack[k]
         /\ At(pc)[Len(stack)] = [stack[Len(stack)] EXCEPT !.pc = pc]
         /\ Top = stack[Len(stack)] /\ Top \in Frame
<1>1. Len(stack) \in Nat /\ Len(stack) >= 1 /\ stack[Len(stack)] \in Frame
  OBVIOUS
<1>2. [stack[Len(stack)] EXCEPT !.pc = pc] \in Frame
  BY <1>1 DEF Frame
<1> QED BY <1>1, <1>2 DEF At, Top, Last

-----------------------------------------------------------------------------
(* Steps that leave the objects where they are.                            *)

\* No timer starts or ends and no handle is made; handles may be closed.
Calm ==
  /\ UNCHANGED <<freeTimers, info, m_FreeTimers, loaded, made>>
  /\ \A u \in Timers : timer'[u].live = timer[u].live /\ timer'[u].m_pData = timer[u].m_pData
  /\ \A h \in Handles : /\ hndl'[h].info = hndl[h].info /\ hndl'[h].owner = hndl[h].owner
                        /\ hndl'[h].state = "open" => hndl[h].state = "open"
                        /\ hndl[h].state = "none" => hndl'[h].state = "none"
  /\ \A d \in Data : data'[d] = "open" => data[d] = "open"

\* A step that makes nothing and opens nothing keeps what is said of the heap.
LEMMA CalmSteps ==
  ASSUME TypeOK, HeapOK, NumbersOK, FreedClosed, OpenLinked, Calm
  PROVE  /\ HeapOK' /\ NumbersOK' /\ FreedClosed' /\ OpenLinked'
         /\ \A h \in Handles : Linked(h) => Linked(h)'
         /\ \A i \in Infos : Closed(i) => Closed(i)'
         /\ \A q : OwnedBy(q)' \subseteq OwnedBy(q)
<1>1. HeapOK'
  BY DEF Calm, HeapOK, TypeOK, TimerInfo, ITimer
<1>2. NumbersOK'
  BY DEF Calm, NumbersOK
<1>3. \A q : OwnedBy(q)' \subseteq OwnedBy(q)
  BY DEF Calm, OwnedBy
<1>4. \A i \in Infos : Closed(i) => Closed(i)'
  BY <1>3 DEF Calm, Closed
<1>5. FreedClosed'
  BY <1>4 DEF FreedClosed, Calm, TypeOK
<1>6. \A h \in Handles : Linked(h) => Linked(h)'
  BY DEF Calm, Linked, TypeOK, TimerInfo
<1>7. OpenLinked'
  BY <1>6 DEF OpenLinked, Calm
<1> QED BY <1>1, <1>2, <1>3, <1>4, <1>5, <1>6, <1>7

-----------------------------------------------------------------------------
(* FreeHandle.                                                             *)

OnStack(s) == ShapesOK(s) /\ CallbacksOK(s) /\ ReleasesOK(s) /\ KillsOK(s) /\ DoomedOK(s)

\* A call may begin: nothing on top waits for a timer to end.
Pushable(s) == s # <<>> => s[Len(s)].proc \notin {"FreeHandle", "KillTimer"}

\* KillTimer does nothing to a timer but to mark it.
LEMMA Killed ==
  ASSUME TypeOK, NEW t \in Timers, timer[t].live,
         timer' = [timer EXCEPT ![t] = KilledTimer(t)]
  PROVE  /\ timer' \in [Timers -> ITimer]
         /\ \A u \in Timers : /\ timer'[u].live = timer[u].live /\ timer'[u].m_pData = timer[u].m_pData
                              /\ timer[u].m_InExec => timer'[u].m_InExec
                              /\ timer[u].m_KillMe => timer'[u].m_KillMe
                              /\ u # t => timer'[u] = timer[u]
         /\ ~timer[t].m_KillMe /\ ~timer[t].m_InExec => timer'[t].m_InExec /\ ~timer'[t].m_KillMe
         /\ timer[t].m_KillMe \/ timer[t].m_InExec => timer'[t].m_KillMe
<1>1. timer[t] \in ITimer
  BY DEF TypeOK
<1>2. /\ KilledTimer(t) \in ITimer
      /\ KilledTimer(t).live = timer[t].live /\ KilledTimer(t).m_pData = timer[t].m_pData
      /\ timer[t].m_InExec => KilledTimer(t).m_InExec
      /\ timer[t].m_KillMe => KilledTimer(t).m_KillMe
      /\ ~timer[t].m_KillMe /\ ~timer[t].m_InExec => KilledTimer(t).m_InExec /\ ~KilledTimer(t).m_KillMe
      /\ timer[t].m_KillMe \/ timer[t].m_InExec => KilledTimer(t).m_KillMe
  BY <1>1 DEF KilledTimer, Idle, ITimer
<1> HIDE DEF KilledTimer
<1> QED BY <1>2 DEF TypeOK

\* ReleasesOK of the next state, handle by handle.
LEMMA ReleasesNext ==
  ASSUME \A k \in 1..Len(stack') : stack'[k].proc = "FreeHandle" => stack'[k].hndl \in Handles,
         \A k \in 1..Len(stack'), h \in Handles :
           stack'[k].proc = "FreeHandle" /\ stack'[k].hndl = h =>
             /\ hndl'[h].state = "destroying"
             /\ k < Len(stack') => Linked(h)' /\ Ends(stack'[k+1], info'[hndl'[h].info].Timer),
         \A j, k \in 1..Len(stack') :
           stack'[j].proc = "FreeHandle" /\ stack'[k].proc = "FreeHandle" /\ stack'[j].hndl = stack'[k].hndl => j = k,
         \A h \in Handles : hndl'[h].state = "destroying" =>
           \E k \in 1..Len(stack') : stack'[k].proc = "FreeHandle" /\ stack'[k].hndl = h
  PROVE  ReleasesOK(stack)'
<1>1. ASSUME NEW k \in 1..Len(stack'), stack'[k].proc = "FreeHandle"
      PROVE  /\ hndl'[stack'[k].hndl].state = "destroying"
             /\ k < Len(stack') => Linked(stack[k].hndl)' /\ Ends(stack[k+1], info[hndl[stack[k].hndl].info].Timer)'
  <2>1. PICK h \in Handles : stack'[k].hndl = h
    BY <1>1
  <2>2. hndl'[h].state = "destroying" /\ (k < Len(stack') => Linked(h)' /\ Ends(stack'[k+1], info'[hndl'[h].info].Timer))
    BY <2>1, <1>1
  <2> QED BY <2>1, <2>2 DEF Linked, Ends
<1> QED BY <1>1 DEF ReleasesOK

\* A call that concerns no timer and no timer handle begins.
LEMMA PushedOK ==
  ASSUME NEW s \in Seq(Frame), OnStack(s), Pushable(s),
         NEW f \in Frame, Shape(f), f.timer = NULL, f.proc \notin {"FreeHandle", "KillTimer"},
         f.proc = "Unload" => s = <<>>,
         stack' \in Seq(Frame), Len(stack') = Len(s) + 1, \A k \in 1..Len(s) : stack'[k] = s[k],
         stack'[Len(s) + 1] = f, UNCHANGED <<timer, hndl, info>>
  PROVE  OnStack(stack)'
<1>a. Len(s) \in Nat /\ \A k \in 1..Len(s) : s[k] \in Frame
  OBVIOUS
<1>b. /\ \A k \in 1..Len(stack') : k \in 1..Len(s) \/ k = Len(s) + 1
      /\ 1..Len(s) \subseteq 1..Len(stack') /\ Len(s) + 1 \in 1..Len(stack')
  BY <1>a
<1>1. ShapesOK(stack)'
  BY <1>a, <1>b DEF OnStack, ShapesOK, Shape
<1>2. CallbacksOK(stack)'
  BY <1>a, <1>b DEF OnStack, CallbacksOK
<1>3. \A k \in 1..Len(s) : s[k].proc \in {"FreeHandle", "KillTimer"} => k + 1 \in 1..Len(s) /\ k < Len(s)
  BY <1>a DEF Pushable
<1>4. ReleasesOK(stack)'
  <2>1. \A h \in Handles : Linked(h) => Linked(h)'
    BY DEF Linked
  <2>2. \A k \in 1..Len(stack'), h \in Handles :
          stack'[k].proc = "FreeHandle" /\ stack'[k].hndl = h =>
            /\ hndl[h].state = "destroying"
            /\ k < Len(stack') => Linked(h)' /\ Ends(stack'[k+1], info[hndl[h].info].Timer)
    BY <2>1, <1>a, <1>b, <1>3 DEF OnStack, ReleasesOK
  <2>3. \A k \in 1..Len(stack') : stack'[k].proc = "FreeHandle" => stack'[k].hndl \in Handles
    BY <1>1 DEF ShapesOK, Shape
  <2>4. \A j, k \in 1..Len(stack') :
           stack'[j].proc = "FreeHandle" /\ stack'[k].proc = "FreeHandle" /\ stack'[j].hndl = stack'[k].hndl => j = k
    BY <1>a, <1>b DEF OnStack, ReleasesOK
  <2>5. \A h \in Handles : hndl[h].state = "destroying" =>
           \E k \in 1..Len(stack') : stack'[k].proc = "FreeHandle" /\ stack'[k].hndl = h
    BY <1>a, <1>b DEF OnStack, ReleasesOK
  <2>6. \A k \in 1..Len(stack'), h \in Handles :
          stack'[k].proc = "FreeHandle" /\ stack'[k].hndl = h =>
            /\ hndl'[h].state = "destroying"
            /\ k < Len(stack') => Linked(h)' /\ Ends(stack'[k+1], info'[hndl'[h].info].Timer)
    BY <2>2
  <2> QED BY <2>3, <2>4, <2>5, <2>6, ReleasesNext
<1>5. KillsOK(stack)'
  BY <1>a, <1>b, <1>3 DEF OnStack, KillsOK
<1>6. DoomedOK(stack)'
  BY <1>a, <1>b DEF OnStack, DoomedOK, Ends, IsOpen
<1> QED BY <1>1, <1>2, <1>4, <1>5, <1>6 DEF OnStack

\* When the heap stays as it is, frames keep what they rely on.
LEMMA SameFrames ==
  ASSUME NEW s, OnStack(s), stack' = s, UNCHANGED <<timer, info, hndl>>
  PROVE  OnStack(stack)'
<1>2. ShapesOK(stack)' /\ CallbacksOK(stack)' /\ KillsOK(stack)'
  BY DEF OnStack, ShapesOK, Shape, CallbacksOK, KillsOK
<1>3. ReleasesOK(stack)'
  BY DEF OnStack, ReleasesOK, Linked, Ends
<1>4. DoomedOK(stack)'
  BY DEF OnStack, DoomedOK, Ends, IsOpen
<1> QED BY <1>2, <1>3, <1>4 DEF OnStack

\* Nothing but the stack changes.
LEMMA SameStack ==
  ASSUME TypeOK, NEW s \in Seq(Frame), OnStack(s), stack' = s,
         UNCHANGED <<timer, freeTimers, info, m_FreeTimers, hndl, data, loaded, made>>
  PROVE  TypeOK' /\ Calm /\ OnStack(stack)'
<1>1. TypeOK' /\ Calm
  BY DEF TypeOK, Calm
<1> QED BY <1>1, SameFrames

\* Closing a handle leaves the handles of other timers open.
LEMMA OthersOpen ==
  ASSUME HeapOK, NEW x \in Handles, NEW t, t = info[hndl[x].info].Timer,
         \A h \in Handles : h # x => hndl'[h] = hndl[h]
  PROVE  \A u \in Timers, h \in Handles :
           timer[u].live /\ u # t /\ h = info[timer[u].m_pData].TimerHandle /\ IsOpen(h) => IsOpen(h)'
<1> SUFFICES ASSUME NEW u \in Timers, NEW h \in Handles, timer[u].live, u # t,
                    h = info[timer[u].m_pData].TimerHandle, IsOpen(h)
             PROVE  IsOpen(h)'
  OBVIOUS
<1>1. info[timer[u].m_pData].Timer = u /\ hndl[h].info = timer[u].m_pData
  BY DEF HeapOK
<1>2. h # x
  BY <1>1
<1> QED BY <1>2 DEF IsOpen

\* FreeHandle, called with s as what is left of the stack, leaves all in order.
LEMMA FreeHandleOK ==
  ASSUME TypeOK, HeapOK, NumbersOK, FreedClosed, OpenLinked,
         NEW s \in Seq(Frame), OnStack(s), Pushable(s),
         NEW x, NEW p, FreeHandle(x, p, s),
         UNCHANGED <<freeTimers, info, m_FreeTimers, loaded, made>>
  PROVE  /\ TypeOK' /\ OnStack(stack)' /\ Calm /\ ~(x \in OwnedBy(p))'
         /\ Len(stack') >= Len(s)
         /\ \A k \in 1..Len(s) : stack'[k] = s[k]
         /\ \A k \in 1..Len(stack') : k > Len(s) /\ stack'[k].proc = "OnTimerEnd" => stack'[k].pc = "data"
<1>a. Len(s) \in Nat /\ \A k \in 1..Len(s) : s[k] \in Frame
  OBVIOUS
<1>1. CASE x \in Handles /\ Freeable(x, p)
  <2> DEFINE t == info[hndl[x].info].Timer
  <2>a. x \in OwnedBy(p) /\ x \notin Data
    BY <1>1, NativesAssumption DEF OwnedBy, Freeable, Handles
  <2>0. /\ hndl' = [hndl EXCEPT ![x].state = "destroying"]
        /\ timer' = [timer EXCEPT ![t] = KilledTimer(t)]
        /\ stack' = Append(s, ReleaseCall(x)) \o KillCalls(t)
        /\ UNCHANGED data
    BY <1>1, <2>a DEF FreeHandle, KillTimer, ReleaseCall
  <2>1. Linked(x) /\ hndl[x].state = "open" /\ hndl[x].owner = p
    BY <1>1 DEF Freeable, OpenLinked
  <2>2. hndl[x].info \in Infos /\ t \in Timers /\ timer[t].live /\ t # NULL
    BY <2>1, <1>1 DEF Linked, TypeOK, TimerInfo
  <2>3. /\ hndl' \in [Handles -> [state : States, info : Infos \cup {NULL}, owner : Plugins \cup {NULL}]]
        /\ \A h \in Handles : hndl'[h].info = hndl[h].info /\ hndl'[h].owner = hndl[h].owner
        /\ \A h \in Handles : h # x => hndl'[h] = hndl[h]
        /\ hndl'[x].state = "destroying"
        /\ \A h \in Handles : hndl'[h].state # "none" => hndl'[h].info # NULL /\ hndl'[h].owner # NULL
    BY <2>0, <2>1, <1>1 DEF TypeOK, States
  <2>k. /\ timer' \in [Timers -> ITimer]
        /\ \A u \in Timers : /\ timer'[u].live = timer[u].live /\ timer'[u].m_pData = timer[u].m_pData
                             /\ timer[u].m_InExec => timer'[u].m_InExec
                             /\ timer[u].m_KillMe => timer'[u].m_KillMe
                             /\ u # t => timer'[u] = timer[u]
        /\ ~timer[t].m_KillMe /\ ~timer[t].m_InExec => timer'[t].m_InExec /\ ~timer'[t].m_KillMe
        /\ timer[t].m_KillMe \/ timer[t].m_InExec => timer'[t].m_KillMe
    BY <2>0, <2>2, Killed
  <2>4. Calm
    BY <2>k, <2>3, <2>0, <2>1 DEF Calm
  <2>5. \A h \in Handles : Linked(h) => Linked(h)'
    BY <2>4, CalmSteps
  <2>6. ~(x \in OwnedBy(p))'
    BY <2>3, <1>1, NativesAssumption DEF OwnedBy, Handles
  <2>f. /\ ReleaseCall(x) \in Frame /\ Shape(ReleaseCall(x)) /\ ReleaseCall(x).hndl = x
        /\ ReleaseCall(x).proc = "FreeHandle" /\ ReleaseCall(x).timer = NULL
        /\ EndCall(t) \in Frame /\ Shape(EndCall(t)) /\ EndCall(t).timer = t
        /\ EndCall(t).proc = "OnTimerEnd" /\ EndCall(t).pc = "data"
    BY <1>1, <2>2, NewFrames
  <2> HIDE DEF t
  <2>u. \A k \in 1..Len(s) : s[k].proc = "FreeHandle" => s[k].hndl # x
    BY <2>1 DEF OnStack, ReleasesOK
  <2>7. CASE ~timer[t].m_KillMe /\ ~timer[t].m_InExec
    <3>1. stack' = Append(Append(s, ReleaseCall(x)), EndCall(t))
      BY <2>0, <2>7, <2>f, <1>a DEF KillCalls, Idle
    <3>2. /\ stack' \in Seq(Frame) /\ Len(stack') = Len(s) + 2
          /\ \A k \in 1..Len(s) : stack'[k] = s[k]
          /\ stack'[Len(s) + 1] = ReleaseCall(x) /\ stack'[Len(s) + 2] = EndCall(t)
      BY <3>1, <2>f, <1>a
    <3>i. /\ \A k \in 1..Len(stack') : k \in 1..Len(s) \/ k = Len(s) + 1 \/ k = Len(s) + 2
          /\ 1..Len(s) \subseteq 1..Len(stack') /\ Len(s) + 1 \in 1..Len(stack') /\ Len(s) + 2 \in 1..Len(stack')
      BY <3>2, <1>a
    <3>3. TypeOK'
      BY <3>2, <2>3, <2>k, <2>0 DEF TypeOK
    <3>4. ShapesOK(stack)'
      BY <3>2, <2>f, <1>a DEF OnStack, ShapesOK, Shape
    <3>n. \A k \in 1..Len(s) : s[k].timer # t
      BY <2>7, <2>2 DEF OnStack, CallbacksOK
    <3>5. CallbacksOK(stack)'
      <4>1. \A k \in 1..Len(stack') : stack'[k].timer # NULL =>
               timer'[stack'[k].timer].live /\ timer'[stack'[k].timer].m_InExec
        <5>1. \A k \in 1..Len(s) : s[k].timer # NULL =>
                s[k].timer \in Timers /\ timer'[s[k].timer].live /\ timer'[s[k].timer].m_InExec
          <6>1. \A k \in 1..Len(s) : s[k].timer # NULL => s[k].timer \in Timers
            BY <1>a DEF Frame
          <6> QED BY <6>1, <2>k DEF OnStack, CallbacksOK
        <5>2. timer'[t].live /\ timer'[t].m_InExec
          BY <2>2, <2>7, <2>k
        <5> QED BY <5>1, <5>2, <3>2, <3>i, <2>f
      <4>2. \A j, k \in 1..Len(stack') : stack'[j].timer # NULL /\ stack'[j].timer = stack'[k].timer => j = k
        <5>1. \A j, k \in 1..Len(s) : s[j].timer # NULL /\ s[j].timer = s[k].timer => j = k
          BY DEF OnStack, CallbacksOK
        <5> QED BY <5>1, <3>2, <3>i, <3>n, <2>2, <2>f
      <4> QED BY <4>1, <4>2 DEF CallbacksOK
    <3>6. ReleasesOK(stack)'
      <4>1. \A k \in 1..Len(stack') : stack'[k].proc = "FreeHandle" => hndl'[stack'[k].hndl].state = "destroying"
        <5>1. \A k \in 1..Len(s) : s[k].proc = "FreeHandle" => hndl'[s[k].hndl].state = "destroying"
          BY <2>u, <2>3 DEF OnStack, ReleasesOK, ShapesOK, Shape
        <5> QED BY <5>1, <3>2, <3>i, <2>f, <2>3
      <4>2. \A k \in 1..Len(s) : s[k].proc = "FreeHandle" => k < Len(s)
        BY <1>a DEF Pushable
      <4>3. \A k \in 1..Len(s) : s[k].proc = "FreeHandle" =>
               Linked(s[k].hndl)' /\ Ends(s[k+1], info[hndl[s[k].hndl].info].Timer)
        BY <4>2, <2>5 DEF OnStack, ReleasesOK, ShapesOK, Shape
      <4>4. \A k \in 1..Len(stack'), h \in Handles :
               stack'[k].proc = "FreeHandle" /\ k < Len(stack') /\ h = stack'[k].hndl =>
               Linked(h)' /\ Ends(stack'[k+1], info[hndl[h].info].Timer)
        <5>1. \A k \in 1..Len(s), h \in Handles :
               s[k].proc = "FreeHandle" /\ h = s[k].hndl =>
               Linked(h)' /\ Ends(s[k+1], info[hndl[h].info].Timer) /\ k + 1 \in 1..Len(s)
          BY <4>2, <4>3, <1>a
        <5>2. Linked(x)' /\ Ends(EndCall(t), info[hndl[x].info].Timer)
          BY <2>1, <2>5, <2>f, <1>1 DEF Ends, t
        <5> QED BY <5>1, <5>2, <3>2, <3>i, <2>f, <1>a
      <4>5. \A j, k \in 1..Len(stack') :
               stack'[j].proc = "FreeHandle" /\ stack'[k].proc = "FreeHandle" /\ stack'[j].hndl = stack'[k].hndl => j = k
        BY SMTT(30), <3>2, <3>i, <2>f, <2>u, <1>a DEF OnStack, ReleasesOK
      <4>6. \A h \in Handles : hndl'[h].state = "destroying" =>
               \E k \in 1..Len(stack') : stack'[k].proc = "FreeHandle" /\ stack'[k].hndl = h
        BY <3>2, <3>i, <2>f, <2>3, <1>a DEF OnStack, ReleasesOK
      <4>7. \A k \in 1..Len(stack') : stack'[k].proc = "FreeHandle" => stack'[k].hndl \in Handles
        BY <3>4 DEF ShapesOK, Shape
      <4>8. \A k \in 1..Len(stack'), h \in Handles :
               stack'[k].proc = "FreeHandle" /\ stack'[k].hndl = h =>
                 /\ hndl'[h].state = "destroying"
                 /\ k < Len(stack') => Linked(h)' /\ Ends(stack'[k+1], info'[hndl'[h].info].Timer)
        BY <4>1, <4>4, <2>3
      <4> QED BY <4>5, <4>6, <4>7, <4>8, ReleasesNext
    <3>7. KillsOK(stack)'
      <4>1. \A k \in 1..Len(s) : s[k].proc = "KillTimer" =>
               /\ k + 1 \in 1..Len(s) /\ info[s[k].info] = s[k].was
               /\ s[k+1].proc = "OnTimerEnd" /\ timer[s[k+1].timer].m_pData = s[k].info
        BY <1>a DEF OnStack, KillsOK, Pushable
      <4>2. \A k \in 1..Len(s) : s[k].proc = "OnTimerEnd" => s[k].timer \in Timers
        BY <1>a DEF OnStack, ShapesOK, Shape, Frame
      <4>3. \A k \in 1..Len(s) : s[k].proc = "KillTimer" =>
               s[k+1].proc = "OnTimerEnd" /\ timer'[s[k+1].timer].m_pData = s[k].info
        BY <4>1, <4>2, <2>k
      <4> QED BY <4>1, <4>3, <3>2, <3>i, <2>f, <1>a DEF KillsOK
    <3>8. DoomedOK(stack)'
      <4>1. \A u \in Timers, h \in Handles :
              timer[u].live /\ u # t /\ h = info[timer[u].m_pData].TimerHandle /\ IsOpen(h) => IsOpen(h)'
        BY <1>1, <2>3, OthersOpen DEF t
      <4>2. \A u \in Timers : timer'[u].live /\ ~IsOpen(info[timer[u].m_pData].TimerHandle)' /\ ~timer'[u].m_KillMe =>
              \E k \in 1..Len(stack') : Ends(stack'[k], u)
        BY <4>1, <3>2, <3>i, <2>f, <2>k, <2>7 DEF OnStack, DoomedOK, Ends, IsOpen
      <4>3. \A u \in Timers : timer'[u].live /\ (timer'[u].m_KillMe \/ timer'[u].m_InExec) => \E k \in 1..Len(stack') : stack'[k].timer = u
        BY <3>2, <3>i, <2>f, <2>k, <2>7 DEF OnStack, DoomedOK
      <4> QED BY <4>2, <4>3 DEF DoomedOK, Ends
    <3> QED BY <3>2, <3>3, <3>4, <3>5, <3>6, <3>7, <3>8, <2>4, <2>6, <2>f, <1>a DEF OnStack
  <2>8. CASE timer[t].m_KillMe \/ timer[t].m_InExec
    <3>1. stack' = Append(s, ReleaseCall(x))
      BY <2>0, <2>8, <2>f, <1>a DEF KillCalls, Idle
    <3>2. /\ stack' \in Seq(Frame) /\ Len(stack') = Len(s) + 1
          /\ \A k \in 1..Len(s) : stack'[k] = s[k]
          /\ stack'[Len(s) + 1] = ReleaseCall(x)
      BY <3>1, <2>f, <1>a
    <3>i. /\ \A k \in 1..Len(stack') : k \in 1..Len(s) \/ k = Len(s) + 1
          /\ 1..Len(s) \subseteq 1..Len(stack') /\ Len(s) + 1 \in 1..Len(stack')
      BY <3>2, <1>a
    <3>3. TypeOK'
      BY <3>2, <2>3, <2>k, <2>0 DEF TypeOK
    <3>4. ShapesOK(stack)'
      BY <3>2, <2>f, <1>a DEF OnStack, ShapesOK, Shape
    <3>5. CallbacksOK(stack)'
      <4>1. \A k \in 1..Len(stack') : stack'[k].timer # NULL =>
               timer'[stack'[k].timer].live /\ timer'[stack'[k].timer].m_InExec
        BY SMTT(30), <3>2, <3>i, <2>f, <2>k, <1>a DEF OnStack, CallbacksOK, Frame
      <4>2. \A j, k \in 1..Len(stack') : stack'[j].timer # NULL /\ stack'[j].timer = stack'[k].timer => j = k
        BY <3>2, <2>f, <1>a DEF OnStack, CallbacksOK
      <4> QED BY <4>1, <4>2 DEF CallbacksOK
    <3>6. ReleasesOK(stack)'
      <4>1. \A k \in 1..Len(stack') : stack'[k].proc = "FreeHandle" => hndl'[stack'[k].hndl].state = "destroying"
        <5>1. \A k \in 1..Len(s) : s[k].proc = "FreeHandle" => hndl'[s[k].hndl].state = "destroying"
          BY <2>u, <2>3 DEF OnStack, ReleasesOK, ShapesOK, Shape
        <5> QED BY <5>1, <3>2, <3>i, <2>f, <2>3
      <4>2. \A k \in 1..Len(s) : s[k].proc = "FreeHandle" => k < Len(s)
        BY <1>a DEF Pushable
      <4>3. \A k \in 1..Len(s) : s[k].proc = "FreeHandle" =>
               Linked(s[k].hndl)' /\ Ends(s[k+1], info[hndl[s[k].hndl].info].Timer)
        BY <4>2, <2>5 DEF OnStack, ReleasesOK, ShapesOK, Shape
      <4>4. \A k \in 1..Len(stack'), h \in Handles :
               stack'[k].proc = "FreeHandle" /\ k < Len(stack') /\ h = stack'[k].hndl =>
               Linked(h)' /\ Ends(stack'[k+1], info[hndl[h].info].Timer)
        <5>1. \A k \in 1..Len(s), h \in Handles :
               s[k].proc = "FreeHandle" /\ h = s[k].hndl =>
               Linked(h)' /\ Ends(s[k+1], info[hndl[h].info].Timer) /\ k + 1 \in 1..Len(s)
          BY <4>2, <4>3, <1>a
        <5> QED BY <5>1, <3>2, <3>i, <2>f, <1>a
      <4>5. \A j, k \in 1..Len(stack') :
               stack'[j].proc = "FreeHandle" /\ stack'[k].proc = "FreeHandle" /\ stack'[j].hndl = stack'[k].hndl => j = k
        BY <3>2, <3>i, <2>f, <2>u, <1>a DEF OnStack, ReleasesOK
      <4>6. \A h \in Handles : hndl'[h].state = "destroying" =>
               \E k \in 1..Len(stack') : stack'[k].proc = "FreeHandle" /\ stack'[k].hndl = h
        BY <3>2, <3>i, <2>f, <2>3, <1>a DEF OnStack, ReleasesOK
      <4>7. \A k \in 1..Len(stack') : stack'[k].proc = "FreeHandle" => stack'[k].hndl \in Handles
        BY <3>4 DEF ShapesOK, Shape
      <4>8. \A k \in 1..Len(stack'), h \in Handles :
               stack'[k].proc = "FreeHandle" /\ stack'[k].hndl = h =>
                 /\ hndl'[h].state = "destroying"
                 /\ k < Len(stack') => Linked(h)' /\ Ends(stack'[k+1], info'[hndl'[h].info].Timer)
        BY <4>1, <4>4, <2>3
      <4> QED BY <4>5, <4>6, <4>7, <4>8, ReleasesNext
    <3>7. KillsOK(stack)'
      <4>1. \A k \in 1..Len(s) : s[k].proc = "KillTimer" =>
               /\ k + 1 \in 1..Len(s) /\ info[s[k].info] = s[k].was
               /\ s[k+1].proc = "OnTimerEnd" /\ timer[s[k+1].timer].m_pData = s[k].info
        BY <1>a DEF OnStack, KillsOK, Pushable
      <4>2. \A k \in 1..Len(s) : s[k].proc = "OnTimerEnd" => s[k].timer \in Timers
        BY <1>a DEF OnStack, ShapesOK, Shape, Frame
      <4>3. \A k \in 1..Len(s) : s[k].proc = "KillTimer" =>
               s[k+1].proc = "OnTimerEnd" /\ timer'[s[k+1].timer].m_pData = s[k].info
        BY <4>1, <4>2, <2>k
      <4> QED BY <4>1, <4>3, <3>2, <3>i, <2>f, <1>a DEF KillsOK
    <3>8. DoomedOK(stack)'
      <4>0. \E k \in 1..Len(s) : s[k].timer = t
        BY <2>8, <2>2 DEF OnStack, DoomedOK
      <4>1. \A u \in Timers, h \in Handles :
              timer[u].live /\ u # t /\ h = info[timer[u].m_pData].TimerHandle /\ IsOpen(h) => IsOpen(h)'
        BY <1>1, <2>3, OthersOpen DEF t
      <4>2. \A u \in Timers : timer'[u].live /\ ~IsOpen(info[timer[u].m_pData].TimerHandle)' /\ ~timer'[u].m_KillMe =>
              \E k \in 1..Len(stack') : Ends(stack'[k], u)
        BY <4>1, <3>2, <3>i, <2>k, <2>8 DEF OnStack, DoomedOK, Ends, IsOpen
      <4>3. \A u \in Timers : timer'[u].live /\ (timer'[u].m_KillMe \/ timer'[u].m_InExec) => \E k \in 1..Len(stack') : stack'[k].timer = u
        BY <4>0, <3>2, <3>i, <2>k, <2>8 DEF OnStack, DoomedOK
      <4> QED BY <4>2, <4>3 DEF DoomedOK, Ends
    <3> QED BY <3>2, <3>3, <3>4, <3>5, <3>6, <3>7, <3>8, <2>4, <2>6, <2>f, <1>a DEF OnStack
  <2> QED BY <2>7, <2>8
<1>2. CASE x \in Data /\ data[x] = "open" /\ DataOwner[x] = p
  <2>1. x \in OwnedBy(p) /\ x \notin Handles
    BY <1>2, NativesAssumption DEF OwnedBy, Handles
  <2>2. /\ data' = [data EXCEPT ![x] = "destroying"]
        /\ stack' = Append(s, DataCall(x)) /\ UNCHANGED <<timer, hndl>>
    BY <1>2, <2>1 DEF FreeHandle, DataCall
  <2>3. DataCall(x) \in Frame /\ Shape(DataCall(x)) /\ DataCall(x).proc = "FreeData" /\ DataCall(x).timer = NULL
    BY <1>2, NewFrames
  <2>4. /\ stack' \in Seq(Frame) /\ Len(stack') = Len(s) + 1
        /\ \A k \in 1..Len(s) : stack'[k] = s[k]
        /\ stack'[Len(s) + 1] = DataCall(x)
    BY <2>2, <2>3, <1>a
  <2>5. TypeOK'
    BY <2>2, <2>4 DEF TypeOK, States
  <2>6. Calm
    BY <2>2 DEF Calm, TypeOK
  <2>7. ~(x \in OwnedBy(p))'
    BY <2>1, <2>2, <1>2 DEF OwnedBy, TypeOK
  <2>8. OnStack(stack)'
    BY <2>2, <2>3, <2>4, PushedOK
  <2> QED BY <2>3, <2>4, <2>5, <2>6, <2>7, <2>8, <1>a
<1>3. CASE x \notin OwnedBy(p)
  <2>1. stack' = s /\ UNCHANGED <<timer, hndl, data>>
    BY <1>3 DEF FreeHandle, OwnedBy, Freeable
  <2>2. TypeOK' /\ Calm /\ OnStack(stack)'
    BY <2>1, SameStack
  <2>4. ~(x \in OwnedBy(p))'
    BY <2>1, <1>3 DEF OwnedBy
  <2> QED BY <2>1, <2>2, <2>4, <1>a
<1> QED BY <1>1, <1>2, <1>3 DEF OwnedBy, Freeable

\* KillTimer of TimerSys, with s as what is left of the stack.
LEMMA KillTimerOK ==
  ASSUME TypeOK, HeapOK, NumbersOK, FreedClosed, OpenLinked,
         NEW s \in Seq(Frame), OnStack(s),
         NEW t \in Timers, timer[t].live,
         s # <<>> => /\ s[Len(s)].proc # "FreeHandle"
                     /\ s[Len(s)].proc = "KillTimer" => s[Len(s)].info = timer[t].m_pData,
         timer' = [timer EXCEPT ![t] = KilledTimer(t)], stack' = s \o KillCalls(t),
         UNCHANGED <<freeTimers, info, m_FreeTimers, hndl, data, loaded, made>>
  PROVE  /\ TypeOK' /\ OnStack(stack)' /\ Calm
         /\ Len(stack') >= Len(s)
         /\ \A k \in 1..Len(s) : stack'[k] = s[k]
         /\ \A k \in 1..Len(stack') : k > Len(s) /\ stack'[k].proc = "OnTimerEnd" => stack'[k].pc = "data"
<1>a. Len(s) \in Nat /\ \A k \in 1..Len(s) : s[k] \in Frame
  OBVIOUS
<1>k. /\ timer' \in [Timers -> ITimer]
      /\ \A u \in Timers : /\ timer'[u].live = timer[u].live /\ timer'[u].m_pData = timer[u].m_pData
                           /\ timer[u].m_InExec => timer'[u].m_InExec
                           /\ timer[u].m_KillMe => timer'[u].m_KillMe
                           /\ u # t => timer'[u] = timer[u]
      /\ ~timer[t].m_KillMe /\ ~timer[t].m_InExec => timer'[t].m_InExec /\ ~timer'[t].m_KillMe
      /\ timer[t].m_KillMe \/ timer[t].m_InExec => timer'[t].m_KillMe
  BY Killed
<1>1. Calm
  BY <1>k DEF Calm
<1>2. \A h \in Handles : Linked(h) => Linked(h)'
  BY <1>1, CalmSteps
<1>f. /\ EndCall(t) \in Frame /\ Shape(EndCall(t)) /\ EndCall(t).timer = t
      /\ EndCall(t).proc = "OnTimerEnd" /\ EndCall(t).pc = "data"
  BY NewFrames
<1>u. info' = info /\ hndl' = hndl
  OBVIOUS
<1>n. t # NULL
  BY NativesAssumption
<1>r. \A k \in 1..Len(s), h \in Handles : s[k].proc = "FreeHandle" /\ s[k].hndl = h =>
        /\ hndl[h].state = "destroying" /\ k < Len(s) /\ k + 1 \in 1..Len(s)
        /\ Linked(h)' /\ Ends(s[k+1], info[hndl[h].info].Timer)
  <2>1. \A k \in 1..Len(s) : s[k].proc = "FreeHandle" => k < Len(s) /\ k + 1 \in 1..Len(s)
    BY <1>a
  <2> QED BY <2>1, <1>2 DEF OnStack, ReleasesOK
<1>3. CASE ~timer[t].m_KillMe /\ ~timer[t].m_InExec
  <2>1. stack' = Append(s, EndCall(t))
    BY <1>3, <1>a, <1>f DEF KillCalls, Idle
  <2>2. /\ stack' \in Seq(Frame) /\ Len(stack') = Len(s) + 1
        /\ \A k \in 1..Len(s) : stack'[k] = s[k]
        /\ stack'[Len(s) + 1] = EndCall(t)
    BY <2>1, <1>f, <1>a
  <2>i. /\ \A k \in 1..Len(stack') : k \in 1..Len(s) \/ k = Len(s) + 1
        /\ 1..Len(s) \subseteq 1..Len(stack') /\ Len(s) + 1 \in 1..Len(stack')
    BY <2>2, <1>a
  <2>3. TypeOK'
    BY <2>2, <1>k DEF TypeOK
  <2>4. ShapesOK(stack)'
    BY <2>2, <2>i, <1>f, <1>a DEF OnStack, ShapesOK, Shape
  <2>5. CallbacksOK(stack)'
    <3>1. \A k \in 1..Len(s) : s[k].timer # t
      BY <1>3, <1>n DEF OnStack, CallbacksOK
    <3>2. \A k \in 1..Len(stack') : stack'[k].timer # NULL =>
             timer'[stack'[k].timer].live /\ timer'[stack'[k].timer].m_InExec
      <4>1. \A k \in 1..Len(s) : s[k].timer # NULL => timer'[s[k].timer].live /\ timer'[s[k].timer].m_InExec
        BY <1>k, <1>a DEF OnStack, CallbacksOK, Frame
      <4> QED BY <4>1, <2>2, <2>i, <1>f, <1>k, <1>3
    <3>3. \A j, k \in 1..Len(stack') : stack'[j].timer # NULL /\ stack'[j].timer = stack'[k].timer => j = k
      BY <3>1, <2>2, <2>i, <1>f, <1>a DEF OnStack, CallbacksOK
    <3> QED BY <3>2, <3>3 DEF CallbacksOK
  <2>6. ReleasesOK(stack)'
    <3>1. \A k \in 1..Len(stack'), h \in Handles :
            stack'[k].proc = "FreeHandle" /\ stack'[k].hndl = h =>
              /\ hndl'[h].state = "destroying"
              /\ k < Len(stack') => Linked(h)' /\ Ends(stack'[k+1], info'[hndl'[h].info].Timer)
      BY <2>2, <2>i, <1>f, <1>r, <1>u, <1>a
    <3>2. \A k \in 1..Len(stack') : stack'[k].proc = "FreeHandle" => stack'[k].hndl \in Handles
      BY <2>4 DEF ShapesOK, Shape
    <3>3. \A j, k \in 1..Len(stack') :
             stack'[j].proc = "FreeHandle" /\ stack'[k].proc = "FreeHandle" /\ stack'[j].hndl = stack'[k].hndl => j = k
      BY <2>2, <2>i, <1>f, <1>a DEF OnStack, ReleasesOK
    <3>4. \A h \in Handles : hndl[h].state = "destroying" =>
             \E k \in 1..Len(stack') : stack'[k].proc = "FreeHandle" /\ stack'[k].hndl = h
      BY <2>2, <2>i, <1>a DEF OnStack, ReleasesOK
    <3> QED BY <3>1, <3>2, <3>3, <3>4, <1>u, ReleasesNext
  <2>7. KillsOK(stack)'
    <3>1. \A k \in 1..Len(s) : s[k].proc = "KillTimer" =>
             /\ info[s[k].info] = s[k].was
             /\ k < Len(s) => /\ k + 1 \in 1..Len(s) /\ s[k+1].proc = "OnTimerEnd"
                              /\ timer[s[k+1].timer].m_pData = s[k].info
             /\ k = Len(s) => s[k].info = timer[t].m_pData
      BY <1>a DEF OnStack, KillsOK
    <3>2. \A k \in 1..Len(s) : s[k].proc = "OnTimerEnd" => s[k].timer \in Timers
      BY <1>a DEF OnStack, ShapesOK, Shape, Frame
    <3>3. \A k \in 1..Len(stack') : stack'[k].proc = "KillTimer" =>
             /\ info[stack'[k].info] = stack'[k].was
             /\ k < Len(stack') => stack'[k+1].proc = "OnTimerEnd" /\ timer'[stack'[k+1].timer].m_pData = stack'[k].info
      BY <3>1, <3>2, <2>2, <2>i, <1>f, <1>k, <1>a
    <3> QED BY <3>3 DEF KillsOK
  <2>8. DoomedOK(stack)'
    <3>2. \A u \in Timers : timer'[u].live /\ ~IsOpen(info[timer[u].m_pData].TimerHandle)' /\ ~timer'[u].m_KillMe =>
            \E k \in 1..Len(stack') : Ends(stack'[k], u)
      BY <2>2, <2>i, <1>f, <1>k, <1>3 DEF OnStack, DoomedOK, Ends, IsOpen
    <3>3. \A u \in Timers : timer'[u].live /\ (timer'[u].m_KillMe \/ timer'[u].m_InExec) => \E k \in 1..Len(stack') : stack'[k].timer = u
      BY <2>2, <2>i, <1>f, <1>k, <1>3 DEF OnStack, DoomedOK
    <3> QED BY <3>2, <3>3 DEF DoomedOK, Ends
  <2> QED BY <2>2, <2>i, <2>3, <2>4, <2>5, <2>6, <2>7, <2>8, <1>1, <1>f, <1>a DEF OnStack
<1>4. CASE timer[t].m_KillMe \/ timer[t].m_InExec
  <2>1. stack' = s
    BY <1>4, <1>a DEF KillCalls, Idle
  <2>3. TypeOK'
    BY <2>1, <1>k DEF TypeOK
  <2>4. ShapesOK(stack)'
    BY <2>1 DEF OnStack, ShapesOK, Shape
  <2>5. CallbacksOK(stack)'
    <3>1. \A k \in 1..Len(s) : s[k].timer # NULL => timer'[s[k].timer].live /\ timer'[s[k].timer].m_InExec
      BY <1>k, <1>a DEF OnStack, CallbacksOK, Frame
    <3> QED BY <3>1, <2>1 DEF OnStack, CallbacksOK
  <2>6. ReleasesOK(stack)'
    <3>1. \A k \in 1..Len(s), h \in Handles :
            s[k].proc = "FreeHandle" /\ s[k].hndl = h =>
              /\ hndl[h].state = "destroying"
              /\ Linked(h)' /\ Ends(s[k+1], info[hndl[h].info].Timer)
      BY <1>r
    <3>2. \A k \in 1..Len(s) : s[k].proc = "FreeHandle" => s[k].hndl \in Handles
      BY DEF OnStack, ShapesOK, Shape
    <3>3. /\ \A j, k \in 1..Len(s) :
               s[j].proc = "FreeHandle" /\ s[k].proc = "FreeHandle" /\ s[j].hndl = s[k].hndl => j = k
          /\ \A h \in Handles : hndl[h].state = "destroying" =>
               \E k \in 1..Len(s) : s[k].proc = "FreeHandle" /\ s[k].hndl = h
      BY DEF OnStack, ReleasesOK
    <3> QED BY <3>1, <3>2, <3>3, <2>1, <1>u, ReleasesNext
  <2>7. KillsOK(stack)'
    <3>1. \A k \in 1..Len(s) : s[k].proc = "KillTimer" =>
             /\ info[s[k].info] = s[k].was
             /\ k < Len(s) => /\ k + 1 \in 1..Len(s) /\ s[k+1].proc = "OnTimerEnd"
                              /\ timer[s[k+1].timer].m_pData = s[k].info
      BY <1>a DEF OnStack, KillsOK
    <3>2. \A k \in 1..Len(s) : s[k].proc = "OnTimerEnd" => s[k].timer \in Timers
      BY <1>a DEF OnStack, ShapesOK, Shape, Frame
    <3> QED BY <3>1, <3>2, <2>1, <1>k DEF KillsOK
  <2>8. DoomedOK(stack)'
    <3>1. \E k \in 1..Len(s) : s[k].timer = t
      BY <1>4 DEF OnStack, DoomedOK
    <3>2. \A u \in Timers : timer'[u].live /\ ~IsOpen(info[timer[u].m_pData].TimerHandle)' /\ ~timer'[u].m_KillMe =>
            \E k \in 1..Len(s) : Ends(s[k], u)
      BY <1>k, <1>4 DEF OnStack, DoomedOK, IsOpen
    <3>3. \A u \in Timers : timer'[u].live /\ (timer'[u].m_KillMe \/ timer'[u].m_InExec) => \E k \in 1..Len(s) : s[k].timer = u
      BY <3>1, <1>k DEF OnStack, DoomedOK
    <3> QED BY <3>2, <3>3, <2>1 DEF DoomedOK, Ends
  <2> QED BY <2>1, <2>3, <2>4, <2>5, <2>6, <2>7, <2>8, <1>1, <1>a DEF OnStack
<1> QED BY <1>3, <1>4 DEF TypeOK, ITimer

-----------------------------------------------------------------------------
(* The steps.                                                              *)

\* What OnTimerEnd has closed stays closed.
LEMMA CalmEnds ==
  ASSUME TypeOK, HeapOK, NumbersOK, FreedClosed, OpenLinked, CallbacksOK(stack), Calm,
         NEW f \in Frame, Shape(f), f.timer # NULL => timer[f.timer].live, EndOK(f)
  PROVE  EndOK(f)'
<1> SUFFICES ASSUME f.proc = "OnTimerEnd" PROVE EndOK(f)'
  BY DEF EndOK
<1>1. f.timer \in Timers /\ timer[f.timer].live
  BY DEF Shape, Frame
<1>2. PICK i \in Infos : i = timer[f.timer].m_pData
  BY <1>1 DEF HeapOK, TypeOK, ITimer
<1>3. i = timer'[f.timer].m_pData /\ info' = info
  BY <1>1, <1>2 DEF Calm
<1>4. f.pc # "data" => Closed(i)'
  <2>1. Closed(i) => Closed(i)'
    BY CalmSteps
  <2> QED BY <2>1, <1>2 DEF EndOK
<1>5. f.pc = "info" => ~IsOpen(info[i].TimerHandle)'
  BY <1>2, <1>3 DEF EndOK, IsOpen, Calm
<1> QED BY <1>3, <1>4, <1>5 DEF EndOK, Closed, IsOpen, OwnedBy

\* A step that keeps the frames of s and only adds OnTimerEnd calls at their start.
LEMMA CalmStack ==
  ASSUME TypeOK, HeapOK, NumbersOK, FreedClosed, OpenLinked, CallbacksOK(stack), Calm,
         NEW s \in Seq(Frame), \A k \in 1..Len(s) : EndOK(s[k])',
         TypeOK', OnStack(stack)', Len(stack') >= Len(s), \A k \in 1..Len(s) : stack'[k] = s[k],
         \A k \in 1..Len(stack') : k > Len(s) /\ stack'[k].proc = "OnTimerEnd" => stack'[k].pc = "data"
  PROVE  IInv'
<1>1. HeapOK' /\ NumbersOK' /\ FreedClosed' /\ OpenLinked'
  BY CalmSteps
<1>2. ASSUME NEW k \in 1..Len(stack') PROVE EndOK(stack[k])'
  <2>1. CASE k \in 1..Len(s)
    <3>1. EndOK(s[k])' /\ stack'[k] = s[k]
      BY <2>1
    <3> QED BY <3>1 DEF EndOK
  <2>2. CASE k > Len(s)
    BY <2>2 DEF EndOK
  <2> QED BY <2>1, <2>2
<1>3. EndsOK(stack)'
  BY <1>2 DEF EndsOK
<1> QED BY <1>1, <1>3 DEF IInv, OnStack

\* OnTimerEnd frames that stay on the stack keep what they closed closed.
LEMMA FramesKept ==
  ASSUME IInv, Calm, NEW s \in Seq(Frame), Len(s) <= Len(stack), \A k \in 1..Len(s) : s[k] = stack[k]
  PROVE  \A k \in 1..Len(s) : EndOK(s[k])'
<1> SUFFICES ASSUME NEW k \in 1..Len(s) PROVE EndOK(s[k])'
  OBVIOUS
<1>1. k \in 1..Len(stack) /\ s[k] = stack[k] /\ s[k] \in Frame /\ stack \in Seq(Frame)
  BY DEF IInv, TypeOK
<1>2. Shape(s[k]) /\ EndOK(s[k]) /\ (s[k].timer # NULL => timer[s[k].timer].live)
  BY <1>1 DEF IInv, ShapesOK, EndsOK, CallbacksOK
<1> QED BY <1>1, <1>2, CalmEnds DEF IInv

\* The stack as it is, for a call that begins.
LEMMA WholeStack ==
  ASSUME IInv, NEW s, s = stack
  PROVE  /\ s \in Seq(Frame) /\ OnStack(s)
         /\ PluginTurn => Pushable(s)
         /\ Calm => \A k \in 1..Len(s) : EndOK(s[k])'
<1>1. s \in Seq(Frame) /\ OnStack(s)
  BY DEF IInv, TypeOK, OnStack
<1>2. PluginTurn => Pushable(s)
  BY <1>1 DEF PluginTurn, Pushable, Top, Last, OnStack, ShapesOK, Shape
<1>3. Calm => \A k \in 1..Len(s) : EndOK(s[k])'
  BY <1>1, FramesKept
<1> QED BY <1>1, <1>2, <1>3

\* The caller of a call that concerns no timer goes on.
LEMMA PoppedStack ==
  ASSUME IInv, stack # <<>>, Top.proc \in {"KillTimer", "FreeData", "Unload"}, NEW s, s = Caller
  PROVE  /\ s \in Seq(Frame) /\ OnStack(s) /\ Pushable(s)
         /\ Calm => \A k \in 1..Len(s) : EndOK(s[k])'
<1>1. stack \in Seq(Frame) /\ OnStack(stack)
  BY DEF IInv, TypeOK, OnStack
<1>2. /\ Len(stack) \in Nat /\ Len(stack) >= 1 /\ s \in Seq(Frame) /\ Len(s) = Len(stack) - 1
      /\ \A k \in 1..Len(s) : s[k] = stack[k]
      /\ Top = stack[Len(stack)]
  BY <1>1, FrontOf DEF Caller, Top
<1>i. /\ \A k \in 1..Len(stack) : k \in 1..Len(s) \/ k = Len(s) + 1
      /\ 1..Len(s) \subseteq 1..Len(stack) /\ Len(s) + 1 \in 1..Len(stack) /\ Len(s) + 1 = Len(stack)
      /\ \A k \in 1..Len(s) : k < Len(s) => k < Len(stack) /\ k + 1 \in 1..Len(s)
  BY <1>2
<1>t. Top.timer = NULL
  BY <1>1, <1>2, <1>i DEF OnStack, ShapesOK, Shape
<1>3. ShapesOK(s) /\ CallbacksOK(s)
  <2>1. ShapesOK(s)
    BY <1>1, <1>2, <1>i DEF OnStack, ShapesOK
  <2>2. CallbacksOK(s)
    BY <1>1, <1>2, <1>i DEF OnStack, CallbacksOK
  <2> QED BY <2>1, <2>2
<1>4. ReleasesOK(s)
  <2>0. ReleasesOK(stack) /\ Top.proc # "FreeHandle"
    BY <1>1 DEF OnStack
  <2>1. ASSUME NEW k \in 1..Len(s), s[k].proc = "FreeHandle"
        PROVE  /\ hndl[s[k].hndl].state = "destroying"
               /\ k < Len(s) => Linked(s[k].hndl) /\ Ends(s[k+1], info[hndl[s[k].hndl].info].Timer)
    <3>1. k \in 1..Len(stack) /\ k < Len(stack) /\ s[k] = stack[k] /\ (k < Len(s) => s[k+1] = stack[k+1])
      BY <1>2, <1>i
    <3> QED BY <3>1, <2>0, <2>1 DEF ReleasesOK
  <2>2. \A j, k \in 1..Len(s) :
          s[j].proc = "FreeHandle" /\ s[k].proc = "FreeHandle" /\ s[j].hndl = s[k].hndl => j = k
    BY <2>0, <1>2, <1>i DEF ReleasesOK
  <2>3. ASSUME NEW h \in Handles, hndl[h].state = "destroying"
        PROVE  \E k \in 1..Len(s) : s[k].proc = "FreeHandle" /\ s[k].hndl = h
    <3>1. PICK k \in 1..Len(stack) : stack[k].proc = "FreeHandle" /\ stack[k].hndl = h
      BY <2>0, <2>3 DEF ReleasesOK
    <3> QED BY <3>1, <2>0, <1>2, <1>i
  <2> QED BY <2>1, <2>2, <2>3 DEF ReleasesOK
<1>5. KillsOK(s)
  BY SMTT(30), <1>1, <1>2, <1>i DEF OnStack, KillsOK
<1>6. DoomedOK(s)
  <2>1. \A t \in Timers : (\E k \in 1..Len(stack) : stack[k].timer = t) => \E k \in 1..Len(s) : s[k].timer = t
    BY <1>2, <1>i, <1>t, NativesAssumption
  <2>2. \A t \in Timers : (\E k \in 1..Len(stack) : Ends(stack[k], t)) => \E k \in 1..Len(s) : Ends(s[k], t)
    BY <1>2, <1>i, <1>t, NativesAssumption DEF Ends
  <2> QED BY <2>1, <2>2, <1>1 DEF OnStack, DoomedOK
<1>7. Pushable(s)
  BY <1>1, <1>2, <1>i DEF OnStack, ReleasesOK, KillsOK, Pushable, Ends
<1>8. Calm => \A k \in 1..Len(s) : EndOK(s[k])'
  BY <1>2, FramesKept
<1> QED BY <1>2, <1>3, <1>4, <1>5, <1>6, <1>7, <1>8 DEF OnStack

\* The top frame, an OnTimerEnd, goes to its next step.
LEMMA NextStage ==
  ASSUME IInv, stack # <<>>, Top.proc = "OnTimerEnd", NEW pc \in {"handle", "info"}, NEW s, s = At(pc)
  PROVE  /\ s \in Seq(Frame) /\ OnStack(s) /\ Pushable(s) /\ Len(s) = Len(stack) /\ s[Len(s)] = [Top EXCEPT !.pc = pc]
         /\ Calm => \A k \in 1..(Len(s) - 1) : EndOK(s[k])'
<1>1. stack \in Seq(Frame) /\ OnStack(stack)
  BY DEF IInv, TypeOK, OnStack
<1>2. /\ Len(stack) \in Nat /\ Len(stack) >= 1 /\ s \in Seq(Frame) /\ Len(s) = Len(stack)
      /\ \A k \in 1..Len(s) : k # Len(s) => s[k] = stack[k]
      /\ Top = stack[Len(stack)] /\ Top \in Frame /\ s[Len(s)] = [Top EXCEPT !.pc = pc]
  BY <1>1, AtOf
<1>3. \A k \in 1..Len(s) :
         /\ s[k].proc = stack[k].proc /\ s[k].timer = stack[k].timer /\ s[k].hndl = stack[k].hndl
         /\ s[k].info = stack[k].info /\ s[k].was = stack[k].was /\ s[k].plugin = stack[k].plugin
         /\ k # Len(s) => s[k].pc = stack[k].pc
         /\ k = Len(s) => s[k].pc = pc
  BY <1>2 DEF Frame
<1>4. ShapesOK(s)
  BY <1>1, <1>2, <1>3 DEF OnStack, ShapesOK, Shape
<1>5. CallbacksOK(s)
  BY <1>1, <1>2, <1>3 DEF OnStack, CallbacksOK
<1>6. ReleasesOK(s)
  BY SMTT(30), <1>1, <1>2, <1>3 DEF OnStack, ReleasesOK, Ends
<1>7. KillsOK(s)
  BY <1>1, <1>2, <1>3 DEF OnStack, KillsOK
<1>8. DoomedOK(s)
  BY <1>1, <1>2, <1>3 DEF OnStack, DoomedOK, Ends
<1>9. Pushable(s)
  BY <1>2, <1>3 DEF Pushable
<1>10. Calm => \A k \in 1..(Len(s) - 1) : EndOK(s[k])'
  <2> SUFFICES ASSUME Calm, NEW k \in 1..(Len(s) - 1) PROVE EndOK(s[k])'
    OBVIOUS
  <2>1. k \in 1..Len(stack) /\ k # Len(s) /\ s[k] = stack[k] /\ s[k] \in Frame
    BY <1>1, <1>2
  <2>2. Shape(s[k]) /\ EndOK(s[k]) /\ (s[k].timer # NULL => timer[s[k].timer].live)
    BY <2>1 DEF IInv, ShapesOK, EndsOK, CallbacksOK
  <2> QED BY <2>1, <2>2, CalmEnds DEF IInv
<1> QED BY <1>2, <1>4, <1>5, <1>6, <1>7, <1>8, <1>9, <1>10 DEF OnStack

\* CloseHandle preserves the invariant.
LEMMA CloseHandleOK ==
  ASSUME IInv, NEW p \in Plugins, NEW x \in Handles \cup Data, CloseHandle(p, x)
  PROVE  IInv'
<1>1. PICK s : s = stack
  OBVIOUS
<1>2. s \in Seq(Frame) /\ OnStack(s) /\ Pushable(s) /\ (Calm => \A k \in 1..Len(s) : EndOK(s[k])')
  BY <1>1, WholeStack DEF CloseHandle
<1>3. FreeHandle(x, p, s) /\ UNCHANGED <<freeTimers, info, m_FreeTimers, loaded, made>>
  BY <1>1 DEF CloseHandle, FreeHandle, KillTimer
<1>4. /\ TypeOK' /\ OnStack(stack)' /\ Calm
      /\ Len(stack') >= Len(s) /\ \A k \in 1..Len(s) : stack'[k] = s[k]
      /\ \A k \in 1..Len(stack') : k > Len(s) /\ stack'[k].proc = "OnTimerEnd" => stack'[k].pc = "data"
  BY <1>2, <1>3, FreeHandleOK DEF IInv
<1> QED BY <1>2, <1>4, CalmStack DEF IInv

\* smn_KillTimerData preserves the invariant.
LEMMA smn_KillTimerDataOK ==
  ASSUME IInv, smn_KillTimerData
  PROVE  IInv'
<1>1. PICK s : s = Caller
  OBVIOUS
<1>0. stack # <<>> /\ stack \in Seq(Frame) /\ Top.pc = "killed" /\ Top.proc = "KillTimer"
  BY SMTT(30) DEF smn_KillTimerData, IInv, TypeOK, ShapesOK, Shape, Top, Last
<1>2. s \in Seq(Frame) /\ OnStack(s) /\ Pushable(s) /\ (Calm => \A k \in 1..Len(s) : EndOK(s[k])')
  BY <1>0, <1>1, PoppedStack
<1>u. UNCHANGED <<freeTimers, info, m_FreeTimers, loaded, made>>
  BY DEF smn_KillTimerData
<1>3. CASE Top.auto /\ ~info[Top.info].close
  <2>1. PICK x, p : x = info[Top.info].UserData /\ p = info[Top.info].Hook
    OBVIOUS
  <2>2. FreeHandle(x, p, s)
    BY <2>1, <1>1, <1>3 DEF smn_KillTimerData, FreeHandle, KillTimer
  <2>3. /\ TypeOK' /\ OnStack(stack)' /\ Calm
        /\ Len(stack') >= Len(s) /\ \A k \in 1..Len(s) : stack'[k] = s[k]
        /\ \A k \in 1..Len(stack') : k > Len(s) /\ stack'[k].proc = "OnTimerEnd" => stack'[k].pc = "data"
    BY <1>2, <1>u, <2>2, FreeHandleOK DEF IInv
  <2> QED BY <1>2, <2>3, CalmStack DEF IInv
<1>4. CASE ~(Top.auto /\ ~info[Top.info].close)
  <2>1. stack' = s /\ UNCHANGED <<timer, hndl, data>>
    BY <1>1, <1>4 DEF smn_KillTimerData
  <2>2. TypeOK' /\ OnStack(stack)' /\ Calm
    BY <2>1, <1>2, <1>u, SameStack DEF IInv
  <2> QED BY <1>2, <2>1, <2>2, CalmStack DEF IInv
<1> QED BY <1>3, <1>4

\* OnTimerEndData preserves the invariant.
LEMMA OnTimerEndDataOK ==
  ASSUME IInv, OnTimerEndData
  PROVE  IInv'
<1>1. PICK s : s = At("handle")
  OBVIOUS
<1>0. stack # <<>> /\ stack \in Seq(Frame) /\ Top.pc = "data" /\ Top.proc = "OnTimerEnd" /\ Top \in Frame
  <2>1. stack # <<>> /\ Top.pc = "data" /\ stack \in Seq(Frame)
    BY DEF OnTimerEndData, IInv, TypeOK
  <2> QED BY <2>1 DEF IInv, ShapesOK, Shape, Top, Last
<1>2. /\ s \in Seq(Frame) /\ OnStack(s) /\ Pushable(s) /\ Len(s) = Len(stack)
      /\ s[Len(s)] = [Top EXCEPT !.pc = "handle"]
      /\ Calm => \A k \in 1..(Len(s) - 1) : EndOK(s[k])'
  BY <1>0, <1>1, NextStage
<1>u. UNCHANGED <<freeTimers, info, m_FreeTimers, loaded, made>>
  BY DEF OnTimerEndData
<1>n. Len(s) \in Nat /\ Len(s) >= 1 /\ s[Len(s)].pc = "handle" /\ s[Len(s)].timer = Top.timer
  BY <1>0, <1>2 DEF Frame
<1>t. Top.timer \in Timers /\ timer[Top.timer].live
  BY <1>0 DEF Frame, IInv, ShapesOK, Shape, CallbacksOK, Top, Last
<1>3. PICK i \in Infos : i = timer[Top.timer].m_pData
  BY <1>t DEF IInv, HeapOK, TypeOK, ITimer
<1>4. SUFFICES /\ TypeOK' /\ OnStack(stack)' /\ Calm /\ Closed(i)'
               /\ Len(stack') >= Len(s) /\ \A k \in 1..Len(s) : stack'[k] = s[k]
               /\ \A k \in 1..Len(stack') : k > Len(s) /\ stack'[k].proc = "OnTimerEnd" => stack'[k].pc = "data"
  <2>1. timer'[s[Len(s)].timer].m_pData = i
    BY <1>4, <1>3, <1>n, <1>t DEF Calm
  <2>2. EndOK(s[Len(s)])'
    BY <2>1, <1>n, <1>4 DEF EndOK, Closed, OwnedBy
  <2>3. \A k \in 1..Len(s) : EndOK(s[k])'
    BY <2>2, <1>2, <1>4, <1>n
  <2> QED BY <2>3, <1>4, <1>2, CalmStack DEF IInv
<1>5. CASE ClosesData(i)
  <2>1. PICK x, p : x = info[i].UserData /\ p = info[i].Hook
    OBVIOUS
  <2>2. FreeHandle(x, p, s)
    BY <2>1, <1>1, <1>3, <1>5 DEF OnTimerEndData, FreeHandle, KillTimer
  <2>3. /\ TypeOK' /\ OnStack(stack)' /\ Calm /\ ~(x \in OwnedBy(p))'
        /\ Len(stack') >= Len(s) /\ \A k \in 1..Len(s) : stack'[k] = s[k]
        /\ \A k \in 1..Len(stack') : k > Len(s) /\ stack'[k].proc = "OnTimerEnd" => stack'[k].pc = "data"
    BY <1>2, <1>u, <2>2, FreeHandleOK DEF IInv
  <2>4. Closed(i)'
    BY <2>1, <2>3, <1>u DEF Closed, OwnedBy
  <2> QED BY <2>3, <2>4
<1>6. CASE ~ClosesData(i)
  <2>1. stack' = s /\ UNCHANGED <<timer, hndl, data>>
    BY <1>1, <1>3, <1>6 DEF OnTimerEndData
  <2>2. TypeOK' /\ OnStack(stack)' /\ Calm
    BY <2>1, <1>2, <1>u, SameStack DEF IInv
  <2>3. Closed(i)'
    BY <1>6, <1>u DEF Closed, ClosesData
  <2> QED BY <2>1, <2>2, <2>3, <1>n
<1> QED BY <1>5, <1>6

\* OnTimerEndHandle preserves the invariant.
LEMMA OnTimerEndHandleOK ==
  ASSUME IInv, OnTimerEndHandle
  PROVE  IInv'
<1>1. PICK s : s = At("info")
  OBVIOUS
<1>0. stack # <<>> /\ stack \in Seq(Frame) /\ Top.pc = "handle" /\ Top.proc = "OnTimerEnd" /\ Top \in Frame
  BY DEF OnTimerEndHandle, IInv, TypeOK, ShapesOK, Shape, Top, Last
<1>2. /\ s \in Seq(Frame) /\ OnStack(s) /\ Pushable(s) /\ Len(s) = Len(stack)
      /\ s[Len(s)] = [Top EXCEPT !.pc = "info"]
      /\ Calm => \A k \in 1..(Len(s) - 1) : EndOK(s[k])'
  BY <1>0, <1>1, NextStage
<1>u. UNCHANGED <<freeTimers, info, m_FreeTimers, loaded, made>>
  BY DEF OnTimerEndHandle
<1>n. Len(s) \in Nat /\ Len(s) >= 1 /\ s[Len(s)].pc = "info" /\ s[Len(s)].timer = Top.timer
  BY <1>0, <1>2 DEF Frame
<1>t. Top.timer \in Timers /\ timer[Top.timer].live
  BY <1>0 DEF Frame, IInv, ShapesOK, Shape, CallbacksOK, Top, Last
<1>3. PICK i \in Infos : i = timer[Top.timer].m_pData
  BY <1>t DEF IInv, HeapOK, TypeOK, ITimer
<1>c. Closed(i)
  BY <1>0, <1>3 DEF IInv, EndsOK, EndOK, Top, Last
<1>4. PICK x, p : x = info[i].TimerHandle /\ p = info[i].Hook
  OBVIOUS
<1>5. FreeHandle(x, p, s)
  BY <1>4, <1>1, <1>3 DEF OnTimerEndHandle, OwnHandle, FreeHandle, KillTimer
<1>6. /\ TypeOK' /\ OnStack(stack)' /\ Calm /\ ~(x \in OwnedBy(p))'
      /\ Len(stack') >= Len(s) /\ \A k \in 1..Len(s) : stack'[k] = s[k]
      /\ \A k \in 1..Len(stack') : k > Len(s) /\ stack'[k].proc = "OnTimerEnd" => stack'[k].pc = "data"
  BY <1>2, <1>u, <1>5, FreeHandleOK DEF IInv
<1>7. Closed(i)' /\ OpenLinked'
  BY <1>c, <1>6, CalmSteps DEF IInv
<1>8. ~IsOpen(x)'
  <2> SUFFICES ASSUME x \in Handles, hndl'[x].state = "open" PROVE FALSE
    BY DEF IsOpen
  <2>1. hndl[x].state = "open" /\ hndl'[x].owner = hndl[x].owner
    BY <1>6 DEF Calm
  <2>2. Linked(x) /\ hndl[x].info = i
    BY <2>1, <1>4, <1>3, <1>t DEF IInv, OpenLinked, HeapOK
  <2>3. hndl[x].owner = p
    BY <2>2, <1>4 DEF Linked
  <2> QED BY <2>1, <2>3, <1>6 DEF OwnedBy
<1>9. timer'[s[Len(s)].timer].m_pData = i
  BY <1>6, <1>3, <1>n, <1>t DEF Calm
<1>10. EndOK(s[Len(s)])'
  BY <1>9, <1>8, <1>7, <1>4, <1>n, <1>u DEF EndOK, Closed, OwnedBy, IsOpen
<1>11. \A k \in 1..Len(s) : EndOK(s[k])'
  BY <1>10, <1>2, <1>6, <1>n
<1> QED BY <1>11, <1>6, <1>2, CalmStack DEF IInv

\* ReleaseData preserves the invariant.
LEMMA ReleaseDataOK ==
  ASSUME IInv, ReleaseData
  PROVE  IInv'
<1>1. PICK s : s = Caller
  OBVIOUS
<1>0. stack # <<>> /\ stack \in Seq(Frame) /\ Top.proc = "FreeData"
  BY DEF ReleaseData, IInv, TypeOK
<1>2. s \in Seq(Frame) /\ OnStack(s) /\ Pushable(s) /\ (Calm => \A k \in 1..Len(s) : EndOK(s[k])')
  BY <1>0, <1>1, PoppedStack
<1>3. /\ stack' = s /\ data' = [data EXCEPT ![Top.hndl] = "released"]
      /\ UNCHANGED <<timer, freeTimers, info, m_FreeTimers, hndl, loaded, made>>
  BY <1>1 DEF ReleaseData
<1>4. TypeOK'
  BY <1>2, <1>3 DEF IInv, TypeOK, States
<1>5. Calm
  BY <1>3 DEF IInv, TypeOK, Calm
<1>6. OnStack(stack)'
  BY <1>2, <1>3, SameFrames
<1>7. Len(stack') >= Len(s) /\ \A k \in 1..Len(stack') : ~(k > Len(s))
  BY <1>2, <1>3
<1> QED BY <1>2, <1>3, <1>4, <1>5, <1>6, <1>7, CalmStack DEF IInv

\* MapChange preserves the invariant.
LEMMA MapChangeOK ==
  ASSUME IInv, NEW t \in Timers, MapChange(t)
  PROVE  IInv'
<1>1. PICK s : s = stack
  OBVIOUS
<1>2. s \in Seq(Frame) /\ OnStack(s) /\ (Calm => \A k \in 1..Len(s) : EndOK(s[k])')
  BY <1>1, WholeStack
<1>3. /\ timer[t].live /\ s = <<>>
      /\ timer' = [timer EXCEPT ![t] = KilledTimer(t)] /\ stack' = s \o KillCalls(t)
      /\ UNCHANGED <<freeTimers, info, m_FreeTimers, hndl, data, loaded, made>>
  BY <1>1 DEF MapChange, KillTimer
<1>4. /\ TypeOK' /\ OnStack(stack)' /\ Calm
      /\ Len(stack') >= Len(s) /\ \A k \in 1..Len(s) : stack'[k] = s[k]
      /\ \A k \in 1..Len(stack') : k > Len(s) /\ stack'[k].proc = "OnTimerEnd" => stack'[k].pc = "data"
  BY <1>2, <1>3, KillTimerOK DEF IInv
<1> QED BY <1>2, <1>4, CalmStack DEF IInv

\* The handles a plugin can read lead to a timer that lives.
LEMMA ReadableLinked ==
  ASSUME stack \in Seq(Frame), OnStack(stack), Pushable(stack), OpenLinked, NEW h \in Handles, Readable(h)
  PROVE  Linked(h)
<1>1. CASE hndl[h].state = "open"
  BY <1>1 DEF OpenLinked
<1>2. CASE hndl[h].state = "destroying"
  <2>1. PICK k \in 1..Len(stack) : stack[k].proc = "FreeHandle" /\ stack[k].hndl = h
    BY <1>2 DEF OnStack, ReleasesOK
  <2>2. k < Len(stack)
    BY <2>1 DEF Pushable
  <2> QED BY <2>1, <2>2 DEF OnStack, ReleasesOK
<1> QED BY <1>1, <1>2 DEF Readable

\* smn_KillTimer preserves the invariant.
LEMMA smn_KillTimerOK ==
  ASSUME IInv, NEW p \in Plugins, NEW h \in Handles, NEW auto \in BOOLEAN, smn_KillTimer(p, h, auto)
  PROVE  IInv'
<1>1. stack \in Seq(Frame) /\ OnStack(stack) /\ Pushable(stack)
  <2>1. PICK s : s = stack
    OBVIOUS
  <2> QED BY <2>1, WholeStack DEF smn_KillTimer
<1>2. Linked(h)
  BY <1>1, ReadableLinked DEF smn_KillTimer, IInv
<1>3. PICK i \in Infos, t \in Timers : i = hndl[h].info /\ t = info[i].Timer /\ timer[t].live /\ timer[t].m_pData = i
  BY <1>2 DEF Linked, IInv, TypeOK, TimerInfo
<1>4. PICK f : f = [Call("KillTimer", "killed") EXCEPT !.info = i, !.auto = auto, !.was = info[i]]
  OBVIOUS
<1>i. info[i] \in TimerInfo
  BY <1>3 DEF IInv, TypeOK
<1>5. /\ f \in Frame /\ f.proc = "KillTimer" /\ f.timer = NULL /\ f.info = i /\ f.was = info[i]
      /\ f.pc = "killed" /\ f.plugin = NULL /\ f.hndl = NULL
  BY <1>4, <1>i DEF Call, Frame, UserData
<1>6. PICK s : s = Append(stack, f)
  OBVIOUS
<1>7. /\ s \in Seq(Frame) /\ Len(s) = Len(stack) + 1 /\ Len(stack) \in Nat
      /\ \A k \in 1..Len(stack) : s[k] = stack[k]
      /\ s[Len(s)] = f
  BY <1>1, <1>5, <1>6
<1>8. /\ \A k \in 1..Len(s) : k \in 1..Len(stack) \/ k = Len(s)
      /\ 1..Len(stack) \subseteq 1..Len(s) /\ Len(s) \in 1..Len(s)
      /\ \A k \in 1..Len(stack) : stack[k].proc \in {"FreeHandle", "KillTimer"} => k < Len(stack) /\ k + 1 \in 1..Len(stack)
  BY <1>1, <1>7 DEF Pushable
<1>9. ShapesOK(s)
  BY <1>1, <1>3, <1>5, <1>7, <1>8, <1>i, NativesAssumption DEF OnStack, ShapesOK, Shape
<1>10. CallbacksOK(s)
  BY SMTT(30), <1>1, <1>5, <1>7, <1>8 DEF OnStack, CallbacksOK
<1>11. ReleasesOK(s)
  <2>0. ReleasesOK(stack)
    BY <1>1 DEF OnStack
  <2>1. \A k \in 1..Len(s) : s[k].proc = "FreeHandle" =>
          /\ hndl[s[k].hndl].state = "destroying"
          /\ k < Len(s) => Linked(s[k].hndl) /\ Ends(s[k+1], info[hndl[s[k].hndl].info].Timer)
    BY <2>0, <1>5, <1>7, <1>8 DEF ReleasesOK
  <2>2. \A j, k \in 1..Len(s) :
          s[j].proc = "FreeHandle" /\ s[k].proc = "FreeHandle" /\ s[j].hndl = s[k].hndl => j = k
    BY <2>0, <1>5, <1>7, <1>8 DEF ReleasesOK
  <2>3. \A x \in Handles : hndl[x].state = "destroying" =>
          \E k \in 1..Len(s) : s[k].proc = "FreeHandle" /\ s[k].hndl = x
    BY <2>0, <1>7, <1>8 DEF ReleasesOK
  <2> QED BY <2>1, <2>2, <2>3 DEF ReleasesOK
<1>12. KillsOK(s)
  BY <1>1, <1>5, <1>7, <1>8 DEF OnStack, KillsOK
<1>13. DoomedOK(s)
  BY <1>1, <1>7, <1>8 DEF OnStack, DoomedOK
<1>14. OnStack(s)
  BY <1>9, <1>10, <1>11, <1>12, <1>13 DEF OnStack
<1>15. /\ timer' = [timer EXCEPT ![t] = KilledTimer(t)] /\ stack' = s \o KillCalls(t)
       /\ UNCHANGED <<freeTimers, info, m_FreeTimers, hndl, data, loaded, made>>
  BY <1>3, <1>4, <1>6 DEF smn_KillTimer, KillTimer
<1>16. /\ TypeOK' /\ OnStack(stack)' /\ Calm
       /\ Len(stack') >= Len(s) /\ \A k \in 1..Len(s) : stack'[k] = s[k]
       /\ \A k \in 1..Len(stack') : k > Len(s) /\ stack'[k].proc = "OnTimerEnd" => stack'[k].pc = "data"
  <2>1. s[Len(s)].proc # "FreeHandle" /\ s[Len(s)].info = timer[t].m_pData
    BY <1>3, <1>5, <1>7
  <2>2. TypeOK /\ HeapOK /\ NumbersOK /\ FreedClosed /\ OpenLinked
    BY DEF IInv
  <2> QED BY <2>1, <2>2, <1>3, <1>7, <1>14, <1>15, KillTimerOK
<1>17. \A k \in 1..Len(s) : EndOK(s[k])'
  <2>1. PICK r : r = stack
    OBVIOUS
  <2>2. r \in Seq(Frame) /\ \A k \in 1..Len(r) : EndOK(r[k])'
    BY <2>1, <1>16, WholeStack
  <2>3. EndOK(f)'
    BY <1>5 DEF EndOK
  <2>4. ASSUME NEW k \in 1..Len(s) PROVE EndOK(s[k])'
    <3>1. CASE k \in 1..Len(r)
      <4>1. EndOK(r[k])' /\ r[k] = s[k]
        BY <3>1, <2>1, <2>2, <1>7
      <4> QED BY <4>1
    <3>2. CASE k = Len(s)
      <4>1. s[k] = f
        BY <3>2, <1>7
      <4> QED BY <4>1, <2>3
    <3> QED BY <3>1, <3>2, <2>1, <1>8
  <2> QED BY <2>4
<1> QED BY <1>7, <1>14, <1>16, <1>17, CalmStack DEF IInv

\* OnTimer is called for a timer that is in no callback of its own.
LEMMA FireOK ==
  ASSUME IInv, NEW t \in Timers, timer[t].live, Pushable(stack), \A k \in 1..Len(stack) : stack[k].timer # t,
         Fire(t), UNCHANGED <<freeTimers, info, m_FreeTimers, hndl, data, loaded, made>>
  PROVE  IInv'
<1>1. PICK s : s = stack
  OBVIOUS
<1>2. /\ s \in Seq(Frame) /\ OnStack(s) /\ (Calm => \A k \in 1..Len(s) : EndOK(s[k])')
      /\ Pushable(s) /\ \A k \in 1..Len(s) : s[k].timer # t
  BY <1>1, WholeStack
<1>3. timer' = [timer EXCEPT ![t].m_InExec = TRUE] /\ stack' = Append(s, TimerCall(t))
  BY <1>1 DEF Fire, TimerCall
<1>k. /\ timer' \in [Timers -> ITimer]
      /\ \A u \in Timers : /\ timer'[u].live = timer[u].live /\ timer'[u].m_pData = timer[u].m_pData
                           /\ timer'[u].m_KillMe = timer[u].m_KillMe
                           /\ u # t => timer'[u] = timer[u]
      /\ timer'[t].m_InExec
  BY ZenonT(60), <1>3 DEF IInv, TypeOK, ITimer
<1>f. /\ TimerCall(t) \in Frame /\ Shape(TimerCall(t)) /\ TimerCall(t).timer = t
      /\ TimerCall(t).proc = "OnTimer"
  BY NewFrames
<1>4. /\ stack' \in Seq(Frame) /\ Len(stack') = Len(s) + 1 /\ Len(s) \in Nat
      /\ \A k \in 1..Len(s) : stack'[k] = s[k] /\ s[k] \in Frame
      /\ stack'[Len(s) + 1] = TimerCall(t)
  BY <1>2, <1>3, <1>f
<1>i. /\ \A k \in 1..Len(stack') : k \in 1..Len(s) \/ k = Len(s) + 1
      /\ 1..Len(s) \subseteq 1..Len(stack') /\ Len(s) + 1 \in 1..Len(stack')
      /\ \A k \in 1..Len(s) : s[k].proc \in {"FreeHandle", "KillTimer"} => k < Len(s) /\ k + 1 \in 1..Len(s)
  BY <1>2, <1>4 DEF Pushable
<1>5. TypeOK'
  BY <1>4, <1>k DEF IInv, TypeOK
<1>6. Calm
  BY <1>k DEF Calm
<1>7. ShapesOK(stack)'
  BY <1>2, <1>4, <1>i, <1>f DEF OnStack, ShapesOK, Shape
<1>8. CallbacksOK(stack)'
  <2>1. \A k \in 1..Len(s) : s[k].timer # NULL => timer'[s[k].timer].live /\ timer'[s[k].timer].m_InExec
    BY <1>2, <1>4, <1>k DEF OnStack, CallbacksOK, Frame
  <2>2. \A k \in 1..Len(stack') : stack'[k].timer # NULL =>
           timer'[stack'[k].timer].live /\ timer'[stack'[k].timer].m_InExec
    BY <2>1, <1>4, <1>i, <1>f, <1>k
  <2>3. \A j, k \in 1..Len(stack') : stack'[j].timer # NULL /\ stack'[j].timer = stack'[k].timer => j = k
    BY <1>2, <1>4, <1>i, <1>f DEF OnStack, CallbacksOK
  <2> QED BY <2>2, <2>3 DEF CallbacksOK
<1>9. ReleasesOK(stack)'
  <2>0. ReleasesOK(s) /\ \A h \in Handles : Linked(h) => Linked(h)'
    BY <1>2, <1>6, CalmSteps DEF OnStack, IInv
  <2>u. info' = info /\ hndl' = hndl
    OBVIOUS
  <2>1. \A k \in 1..Len(stack'), h \in Handles :
          stack'[k].proc = "FreeHandle" /\ stack'[k].hndl = h =>
            /\ hndl'[h].state = "destroying"
            /\ k < Len(stack') => Linked(h)' /\ Ends(stack'[k+1], info'[hndl'[h].info].Timer)
    BY <2>0, <2>u, <1>4, <1>i, <1>f DEF ReleasesOK
  <2>2. \A k \in 1..Len(stack') : stack'[k].proc = "FreeHandle" => stack'[k].hndl \in Handles
    BY <1>7 DEF ShapesOK, Shape
  <2>3. \A j, k \in 1..Len(stack') :
           stack'[j].proc = "FreeHandle" /\ stack'[k].proc = "FreeHandle" /\ stack'[j].hndl = stack'[k].hndl => j = k
    BY <2>0, <1>4, <1>i, <1>f DEF ReleasesOK
  <2>4. \A h \in Handles : hndl'[h].state = "destroying" =>
           \E k \in 1..Len(stack') : stack'[k].proc = "FreeHandle" /\ stack'[k].hndl = h
    BY <2>0, <2>u, <1>4, <1>i DEF ReleasesOK
  <2> QED BY <2>1, <2>2, <2>3, <2>4, ReleasesNext
<1>10. KillsOK(stack)'
  <2>1. \A k \in 1..Len(s) : s[k].proc = "OnTimerEnd" => s[k].timer \in Timers
    BY <1>2, <1>4 DEF OnStack, ShapesOK, Shape, Frame
  <2>2. \A k \in 1..Len(s) : s[k].proc = "KillTimer" =>
           /\ info[s[k].info] = s[k].was /\ k + 1 \in 1..Len(s)
           /\ s[k+1].proc = "OnTimerEnd" /\ timer'[s[k+1].timer].m_pData = s[k].info
    BY <2>1, <1>2, <1>i, <1>k DEF OnStack, KillsOK
  <2> QED BY <2>2, <1>4, <1>i, <1>f DEF KillsOK
<1>11. DoomedOK(stack)'
  <2>1. \A u \in Timers : timer'[u].live /\ ~IsOpen(info[timer[u].m_pData].TimerHandle)' /\ ~timer'[u].m_KillMe =>
          \E k \in 1..Len(stack') : Ends(stack'[k], u)
    BY <1>2, <1>4, <1>i, <1>k DEF OnStack, DoomedOK, IsOpen
  <2>2. \A u \in Timers : timer'[u].live /\ (timer'[u].m_KillMe \/ timer'[u].m_InExec) =>
          \E k \in 1..Len(stack') : stack'[k].timer = u
    BY <1>2, <1>4, <1>i, <1>k, <1>f DEF OnStack, DoomedOK
  <2> QED BY <2>1, <2>2 DEF DoomedOK, Ends
<1>12. \A k \in 1..Len(stack') : k > Len(s) /\ stack'[k].proc = "OnTimerEnd" => stack'[k].pc = "data"
  BY <1>4, <1>i, <1>f
<1>13. OnStack(stack)'
  BY <1>7, <1>8, <1>9, <1>10, <1>11 DEF OnStack
<1> QED BY <1>2, <1>4, <1>5, <1>6, <1>12, <1>13, CalmStack DEF IInv

\* RunFrame preserves the invariant.
LEMMA RunFrameOK ==
  ASSUME IInv, NEW t \in Timers, RunFrame(t)
  PROVE  IInv'
  BY FireOK DEF RunFrame, Pushable

\* smn_TriggerTimer preserves the invariant.
LEMMA smn_TriggerTimerOK ==
  ASSUME IInv, NEW p \in Plugins, NEW h \in Handles, smn_TriggerTimer(p, h)
  PROVE  IInv'
<1>1. stack \in Seq(Frame) /\ OnStack(stack) /\ Pushable(stack)
  <2>1. PICK s : s = stack
    OBVIOUS
  <2> QED BY <2>1, WholeStack DEF smn_TriggerTimer
<1>2. Linked(h)
  BY <1>1, ReadableLinked DEF smn_TriggerTimer, IInv
<1>3. PICK t \in Timers : t = info[hndl[h].info].Timer /\ timer[t].live
  BY <1>2 DEF Linked, IInv, TypeOK, TimerInfo
<1>4. \A k \in 1..Len(stack) : stack[k].timer # t
  BY <1>1, <1>3, NativesAssumption DEF smn_TriggerTimer, OnStack, CallbacksOK
<1>5. Fire(t) /\ UNCHANGED <<freeTimers, info, m_FreeTimers, hndl, data, loaded, made>>
  BY <1>3 DEF smn_TriggerTimer, Fire
<1> QED BY <1>1, <1>3, <1>4, <1>5, FireOK

\* Unload preserves the invariant.
LEMMA UnloadOK ==
  ASSUME IInv, NEW p \in Plugins, Unload(p)
  PROVE  IInv'
<1>1. PICK s : s = stack
  OBVIOUS
<1>2. /\ s \in Seq(Frame) /\ OnStack(s) /\ (Calm => \A k \in 1..Len(s) : EndOK(s[k])')
      /\ s = <<>> /\ Pushable(s)
  BY <1>1, WholeStack DEF Unload, Pushable
<1>3. PICK f : f = [Call("Unload", "loop") EXCEPT !.plugin = p]
  OBVIOUS
<1>4. f \in Frame /\ f.proc = "Unload" /\ f.pc = "loop" /\ f.timer = NULL /\ f.plugin = p
  BY <1>3 DEF Call, Frame, UserData
<1>5. Shape(f)
  BY <1>4, NativesAssumption DEF Shape
<1>6. stack' = <<f>> /\ UNCHANGED <<timer, freeTimers, info, m_FreeTimers, hndl, data, loaded, made>>
  BY <1>3 DEF Unload
<1>7. /\ stack' \in Seq(Frame) /\ Len(stack') = Len(s) + 1 /\ Len(s) = 0
      /\ \A k \in 1..Len(s) : stack'[k] = s[k]
      /\ stack'[Len(s) + 1] = f
  BY <1>2, <1>4, <1>6
<1>8. OnStack(stack)'
  BY <1>2, <1>4, <1>5, <1>6, <1>7, PushedOK
<1>9. TypeOK' /\ Calm
  BY <1>6, <1>7 DEF IInv, TypeOK, Calm
<1>10. /\ \A k \in 1..Len(stack') : k > Len(s) /\ stack'[k].proc = "OnTimerEnd" => stack'[k].pc = "data"
       /\ Len(stack') >= Len(s)
  BY <1>4, <1>7
<1> QED BY <1>2, <1>7, <1>8, <1>9, <1>10, CalmStack DEF IInv

\* UnloadLoop preserves the invariant.
LEMMA UnloadLoopOK ==
  ASSUME IInv, UnloadLoop
  PROVE  IInv'
<1>1. stack # <<>> /\ stack \in Seq(Frame) /\ OnStack(stack) /\ Top.pc = "loop"
  BY DEF UnloadLoop, IInv, TypeOK, OnStack
<1>2. Top = stack[Len(stack)] /\ Len(stack) \in 1..Len(stack)
  BY <1>1 DEF Top, Last
<1>3. Top.proc = "Unload" /\ Len(stack) = 1
  BY <1>1, <1>2 DEF OnStack, ShapesOK, Shape
<1>4. PICK p : p = Top.plugin
  OBVIOUS
<1>5. CASE OwnedBy(p) # {}
  <2>1. PICK s : s = stack
    OBVIOUS
  <2>2. s \in Seq(Frame) /\ OnStack(s) /\ Pushable(s) /\ (Calm => \A k \in 1..Len(s) : EndOK(s[k])')
    BY <2>1, <1>2, <1>3, WholeStack DEF Pushable
  <2>3. PICK x \in OwnedBy(p) : FreeHandle(x, p, s) /\ UNCHANGED <<freeTimers, info, m_FreeTimers, loaded, made>>
    BY <2>1, <1>4, <1>5 DEF UnloadLoop, FreeHandle, KillTimer
  <2>4. /\ TypeOK' /\ OnStack(stack)' /\ Calm
        /\ Len(stack') >= Len(s) /\ \A k \in 1..Len(s) : stack'[k] = s[k]
        /\ \A k \in 1..Len(stack') : k > Len(s) /\ stack'[k].proc = "OnTimerEnd" => stack'[k].pc = "data"
    BY <2>2, <2>3, FreeHandleOK DEF IInv
  <2> QED BY <2>2, <2>4, CalmStack DEF IInv
<1>6. CASE OwnedBy(p) = {}
  <2>1. PICK s : s = Caller
    OBVIOUS
  <2>2. s \in Seq(Frame) /\ OnStack(s)
    BY <2>1, <1>1, <1>3, PoppedStack
  <2>3. Len(s) = 0
    BY <2>1, <1>1, <1>3, FrontOf DEF Caller
  <2>4. /\ stack' = s /\ loaded' = loaded \ {p}
        /\ UNCHANGED <<timer, freeTimers, info, m_FreeTimers, hndl, data, made>>
    BY <2>1, <1>4, <1>6 DEF UnloadLoop
  <2>5. OnStack(stack)'
    BY <2>2, <2>4, SameFrames
  <2>6. TypeOK'
    BY <2>2, <2>4 DEF IInv, TypeOK
  <2>7. EndsOK(stack)'
    BY <2>3, <2>4 DEF EndsOK
  <2>8. \A i \in Infos : Closed(i) => Closed(i)'
    BY <2>4 DEF Closed, OwnedBy
  <2>9. FreedClosed'
    BY <2>4, <2>8 DEF IInv, FreedClosed, TypeOK
  <2>10. NumbersOK'
    BY <2>4 DEF IInv, NumbersOK
  <2>11. OpenLinked'
    BY <2>4 DEF IInv, OpenLinked, Linked
  <2>12. ASSUME NEW t \in Timers, timer[t].live PROVE info[timer[t].m_pData].Hook # p
    <3>1. PICK i \in Infos : i = timer[t].m_pData
      BY <2>12 DEF IInv, HeapOK, TypeOK, ITimer
    <3>2. \A k \in 1..Len(s) : FALSE
      BY <2>3
    <3>3. IsOpen(info[i].TimerHandle)
      BY <2>2, <2>12, <3>1, <3>2 DEF OnStack, DoomedOK
    <3>4. PICK h \in Handles : h = info[i].TimerHandle /\ hndl[h].state = "open"
      BY <3>3 DEF IsOpen
    <3>5. Linked(h) /\ hndl[h].info = i
      BY <3>1, <3>4, <2>12 DEF IInv, OpenLinked, HeapOK
    <3>6. info[i].Hook = hndl[h].owner
      BY <3>5 DEF Linked
    <3> QED BY <3>1, <3>4, <3>6, <1>6 DEF OwnedBy
  <2>13. HeapOK'
    BY <2>4, <2>12 DEF IInv, HeapOK
  <2> QED BY <2>5, <2>6, <2>7, <2>9, <2>10, <2>11, <2>13 DEF IInv, OnStack
<1> QED BY <1>5, <1>6

\* ReleaseHandle preserves the invariant.
LEMMA ReleaseHandleOK ==
  ASSUME IInv, ReleaseHandle
  PROVE  IInv'
<1>0. stack # <<>> /\ stack \in Seq(Frame) /\ OnStack(stack) /\ Top.pc = "release"
  BY DEF ReleaseHandle, IInv, TypeOK, OnStack
<1>1. PICK s : s = Caller
  OBVIOUS
<1>2. /\ Len(stack) \in Nat /\ Len(stack) >= 1 /\ s \in Seq(Frame) /\ Len(s) = Len(stack) - 1
      /\ \A k \in 1..Len(s) : s[k] = stack[k]
      /\ Top = stack[Len(stack)] /\ Top \in Frame
  BY <1>0, <1>1, FrontOf DEF Caller, Top
<1>i. /\ \A k \in 1..Len(stack) : k \in 1..Len(s) \/ k = Len(s) + 1
      /\ 1..Len(s) \subseteq 1..Len(stack) /\ Len(s) + 1 \in 1..Len(stack) /\ Len(s) + 1 = Len(stack)
      /\ \A k \in 1..Len(s) : k < Len(s) => k < Len(stack) /\ k + 1 \in 1..Len(s)
  BY <1>2
<1>t. Top.proc = "FreeHandle" /\ Top.timer = NULL /\ Top.hndl \in Handles
  BY <1>0, <1>2, <1>i DEF OnStack, ShapesOK, Shape
<1>3. PICK h \in Handles : h = Top.hndl
  BY <1>t
<1>4. /\ hndl[h].state = "destroying"
      /\ \A k \in 1..Len(s) : s[k].proc = "FreeHandle" => s[k].hndl # h
  BY <1>0, <1>2, <1>3, <1>i, <1>t DEF OnStack, ReleasesOK
<1>5. /\ hndl' = [hndl EXCEPT ![h].state = "released"] /\ stack' = s
      /\ UNCHANGED <<timer, freeTimers, info, m_FreeTimers, data, loaded, made>>
  BY <1>1, <1>3 DEF ReleaseHandle
<1>6. /\ hndl' \in [Handles -> [state : States, info : Infos \cup {NULL}, owner : Plugins \cup {NULL}]]
      /\ \A x \in Handles : hndl'[x].info = hndl[x].info /\ hndl'[x].owner = hndl[x].owner
      /\ \A x \in Handles : x # h => hndl'[x] = hndl[x]
      /\ hndl'[h].state = "released"
      /\ \A x \in Handles : hndl'[x].state # "none" => hndl'[x].info # NULL /\ hndl'[x].owner # NULL
  BY <1>4, <1>5 DEF IInv, TypeOK, States
<1>7. TypeOK'
  BY <1>2, <1>5, <1>6 DEF IInv, TypeOK
<1>8. Calm
  BY <1>4, <1>5, <1>6 DEF Calm
<1>9. ShapesOK(stack)'
  BY <1>0, <1>2, <1>i, <1>5 DEF OnStack, ShapesOK, Shape
<1>10. CallbacksOK(stack)'
  BY <1>0, <1>2, <1>i, <1>5 DEF OnStack, CallbacksOK
<1>11. ReleasesOK(stack)'
  <2>0. ReleasesOK(stack) /\ \A x \in Handles : Linked(x) => Linked(x)'
    BY <1>0, <1>8, CalmSteps DEF OnStack, IInv
  <2>1. \A k \in 1..Len(s) : s[k].proc = "FreeHandle" => s[k].hndl \in Handles
    BY <1>9, <1>5 DEF ShapesOK, Shape
  <2>2. ASSUME NEW k \in 1..Len(s), NEW x \in Handles, s[k].proc = "FreeHandle", s[k].hndl = x
        PROVE  /\ hndl'[x].state = "destroying"
               /\ k < Len(s) => Linked(x)' /\ Ends(s[k+1], info'[hndl'[x].info].Timer)
    <3>1. k \in 1..Len(stack) /\ s[k] = stack[k] /\ (k < Len(s) => k < Len(stack) /\ s[k+1] = stack[k+1]) /\ x # h
      BY <2>2, <1>2, <1>i, <1>4
    <3> QED BY <3>1, <2>0, <2>2, <1>5, <1>6 DEF ReleasesOK
  <2>3. \A j, k \in 1..Len(s) :
           s[j].proc = "FreeHandle" /\ s[k].proc = "FreeHandle" /\ s[j].hndl = s[k].hndl => j = k
    BY <2>0, <1>2, <1>i DEF ReleasesOK
  <2>4. ASSUME NEW x \in Handles, hndl'[x].state = "destroying"
        PROVE  \E k \in 1..Len(s) : s[k].proc = "FreeHandle" /\ s[k].hndl = x
    <3>1. x # h /\ hndl[x].state = "destroying"
      BY <2>4, <1>6
    <3>2. PICK k \in 1..Len(stack) : stack[k].proc = "FreeHandle" /\ stack[k].hndl = x
      BY <3>1, <2>0 DEF ReleasesOK
    <3> QED BY <3>1, <3>2, <1>2, <1>i, <1>3
  <2> QED BY <2>1, <2>2, <2>3, <2>4, <1>5, ReleasesNext
<1>12. KillsOK(stack)'
  BY <1>0, <1>2, <1>i, <1>5 DEF OnStack, KillsOK
<1>13. DoomedOK(stack)'
  <2>1. \A t \in Timers : (\E k \in 1..Len(stack) : stack[k].timer = t) => \E k \in 1..Len(s) : s[k].timer = t
    BY <1>2, <1>i, <1>t, NativesAssumption
  <2>2. \A t \in Timers : (\E k \in 1..Len(stack) : Ends(stack[k], t)) => \E k \in 1..Len(s) : Ends(s[k], t)
    BY <1>2, <1>i, <1>t, NativesAssumption DEF Ends
  <2>3. \A x : IsOpen(x) => IsOpen(x)'
    BY <1>4, <1>6 DEF IsOpen
  <2>4. \A t \in Timers : timer[t].live =>
          /\ ~IsOpen(info[timer[t].m_pData].TimerHandle)' /\ ~timer[t].m_KillMe => \E k \in 1..Len(s) : Ends(s[k], t)
          /\ timer[t].m_KillMe \/ timer[t].m_InExec => \E k \in 1..Len(s) : s[k].timer = t
    BY <2>1, <2>2, <2>3, <1>0, <1>5, <1>4, <1>6 DEF OnStack, DoomedOK, IsOpen
  <2> QED BY <2>4, <1>5 DEF DoomedOK, Ends
<1>14. \A k \in 1..Len(s) : EndOK(s[k])'
  BY <1>2, <1>8, FramesKept
<1>15. OnStack(stack)'
  BY <1>9, <1>10, <1>11, <1>12, <1>13 DEF OnStack
<1>16. Len(stack') >= Len(s) /\ \A k \in 1..Len(stack') : ~(k > Len(s))
  BY <1>2, <1>5
<1> QED BY <1>2, <1>5, <1>7, <1>8, <1>14, <1>15, <1>16, CalmStack DEF IInv

\* OnTimerReturns preserves the invariant.
LEMMA OnTimerReturnsOK ==
  ASSUME IInv, NEW stop \in BOOLEAN, OnTimerReturns(stop)
  PROVE  IInv'
<1>0. stack # <<>> /\ stack \in Seq(Frame) /\ OnStack(stack) /\ Top.proc = "OnTimer"
  BY DEF OnTimerReturns, IInv, TypeOK, OnStack
<1>1. PICK s : s = Caller
  OBVIOUS
<1>2. /\ Len(stack) \in Nat /\ Len(stack) >= 1 /\ s \in Seq(Frame) /\ Len(s) = Len(stack) - 1
      /\ \A k \in 1..Len(s) : s[k] = stack[k] /\ s[k] \in Frame
      /\ Top = stack[Len(stack)] /\ Top \in Frame
  BY <1>0, <1>1, FrontOf DEF Caller, Top
<1>i. /\ \A k \in 1..Len(stack) : k \in 1..Len(s) \/ k = Len(s) + 1
      /\ 1..Len(s) \subseteq 1..Len(stack) /\ Len(s) + 1 \in 1..Len(stack) /\ Len(s) + 1 = Len(stack)
      /\ \A k \in 1..Len(s) : k < Len(s) => k < Len(stack) /\ k + 1 \in 1..Len(s)
  BY <1>2
<1>t. Top.timer \in Timers /\ Top.timer # NULL
  BY <1>0, <1>2, <1>i DEF OnStack, ShapesOK, Shape, Frame
<1>3. PICK t \in Timers : t = Top.timer
  BY <1>t
<1>4. timer[t].live /\ timer[t].m_InExec /\ \A k \in 1..Len(s) : s[k].timer # t
  BY <1>0, <1>2, <1>3, <1>i, <1>t DEF OnStack, CallbacksOK
<1>5. \A k \in 1..Len(s) : s[k].proc \in {"FreeHandle", "KillTimer"} => k < Len(s) /\ k + 1 \in 1..Len(s)
  <2>1. ASSUME NEW k \in 1..Len(s), s[k].proc \in {"FreeHandle", "KillTimer"}, ~(k < Len(s)) PROVE FALSE
    <3>1. k \in 1..Len(stack) /\ k + 1 = Len(stack) /\ k < Len(stack) /\ s[k] = stack[k]
      BY <2>1, <1>2, <1>i
    <3>2. stack[k+1].proc = "OnTimerEnd"
      BY <3>1, <2>1, <1>0 DEF OnStack, ReleasesOK, KillsOK, Ends
    <3> QED BY <3>1, <3>2, <1>0, <1>2
  <2> QED BY <2>1, <1>i
<1>u. UNCHANGED <<freeTimers, info, m_FreeTimers, hndl, data, loaded, made>>
  BY DEF OnTimerReturns
<1>6. SUFFICES ASSUME \/ timer' = [timer EXCEPT ![t].m_InExec = FALSE] /\ ~timer[t].m_KillMe /\ stack' = s
                      \/ stack' = Append(s, EndCall(t)) /\ timer' = timer
               PROVE  IInv'
  BY <1>1, <1>3 DEF OnTimerReturns
<1>k. /\ timer' \in [Timers -> ITimer]
      /\ \A u \in Timers : /\ timer'[u].live = timer[u].live /\ timer'[u].m_pData = timer[u].m_pData
                           /\ timer'[u].m_KillMe = timer[u].m_KillMe
                           /\ u # t => timer'[u] = timer[u]
  <2>1. CASE timer' = [timer EXCEPT ![t].m_InExec = FALSE]
    BY ZenonT(60), <2>1 DEF IInv, TypeOK, ITimer
  <2>2. CASE timer' = timer
    BY <2>2 DEF IInv, TypeOK
  <2> QED BY <2>1, <2>2, <1>6
<1>c. Calm
  BY <1>k, <1>u DEF Calm
<1>f. /\ EndCall(t) \in Frame /\ Shape(EndCall(t)) /\ EndCall(t).timer = t
      /\ EndCall(t).proc = "OnTimerEnd" /\ EndCall(t).pc = "data"
  BY NewFrames
<1>7. /\ stack' \in Seq(Frame) /\ Len(stack') >= Len(s) /\ Len(s) \in Nat
      /\ \A k \in 1..Len(s) : stack'[k] = s[k]
      /\ 1..Len(s) \subseteq 1..Len(stack')
      /\ \A k \in 1..Len(stack') : k \in 1..Len(s) \/ (k = Len(s) + 1 /\ stack'[k] = EndCall(t))
  <2>1. CASE stack' = s
    BY <2>1, <1>2
  <2>2. CASE stack' = Append(s, EndCall(t))
    <3>1. stack' \in Seq(Frame) /\ Len(stack') = Len(s) + 1 /\ Len(s) \in Nat /\ stack'[Len(s) + 1] = EndCall(t)
      BY <2>2, <1>2, <1>f
    <3>2. \A k \in 1..Len(s) : stack'[k] = s[k]
      BY <2>2, <1>2, <1>f
    <3> QED BY <3>1, <3>2
  <2> QED BY <2>1, <2>2, <1>6
<1>8. TypeOK'
  BY <1>7, <1>k, <1>u DEF IInv, TypeOK
<1>9. ShapesOK(stack)'
  BY <1>0, <1>2, <1>i, <1>7, <1>f DEF OnStack, ShapesOK, Shape
<1>10. CallbacksOK(stack)'
  <2>1. \A k \in 1..Len(s) : s[k].timer # NULL => timer'[s[k].timer].live /\ timer'[s[k].timer].m_InExec
    BY <1>0, <1>2, <1>i, <1>4, <1>k DEF OnStack, CallbacksOK, Frame
  <2>2. \A k \in 1..Len(stack') : stack'[k].timer # NULL =>
           timer'[stack'[k].timer].live /\ timer'[stack'[k].timer].m_InExec
    <3>1. CASE stack' = s
      BY <3>1, <2>1
    <3>2. CASE stack' = Append(s, EndCall(t)) /\ timer' = timer
      BY <3>2, <2>1, <1>7, <1>f, <1>4
    <3> QED BY <3>1, <3>2, <1>6
  <2>3. \A j, k \in 1..Len(stack') : stack'[j].timer # NULL /\ stack'[j].timer = stack'[k].timer => j = k
    <3>1. \A j, k \in 1..Len(s) : s[j].timer # NULL /\ s[j].timer = s[k].timer => j = k
      BY <1>0, <1>2, <1>i DEF OnStack, CallbacksOK
    <3> QED BY <3>1, <1>7, <1>f, <1>4
  <2> QED BY <2>2, <2>3 DEF CallbacksOK
<1>11. ReleasesOK(stack)'
  <2>0. ReleasesOK(stack) /\ \A x \in Handles : Linked(x) => Linked(x)'
    BY <1>0, <1>c, CalmSteps DEF OnStack, IInv
  <2>u. info' = info /\ hndl' = hndl
    BY <1>u
  <2>1. \A k \in 1..Len(stack') : stack'[k].proc = "FreeHandle" => stack'[k].hndl \in Handles
    BY <1>9 DEF ShapesOK, Shape
  <2>2. ASSUME NEW k \in 1..Len(stack'), NEW x \in Handles, stack'[k].proc = "FreeHandle", stack'[k].hndl = x
        PROVE  /\ hndl'[x].state = "destroying"
               /\ k < Len(stack') => Linked(x)' /\ Ends(stack'[k+1], info'[hndl'[x].info].Timer)
    <3>1. k \in 1..Len(s) /\ s[k] = stack'[k]
      BY <2>2, <1>7, <1>f
    <3>2. k \in 1..Len(stack) /\ k < Len(stack) /\ s[k] = stack[k] /\ stack'[k+1] = s[k+1] /\ s[k+1] = stack[k+1]
      BY <3>1, <2>2, <1>2, <1>i, <1>5, <1>7
    <3> QED BY <3>1, <3>2, <2>0, <2>2, <2>u DEF ReleasesOK
  <2>3. \A j, k \in 1..Len(stack') :
           stack'[j].proc = "FreeHandle" /\ stack'[k].proc = "FreeHandle" /\ stack'[j].hndl = stack'[k].hndl => j = k
    <3>1. \A j, k \in 1..Len(s) :
             s[j].proc = "FreeHandle" /\ s[k].proc = "FreeHandle" /\ s[j].hndl = s[k].hndl => j = k
      BY SMTT(30), <2>0, <1>2, <1>i DEF ReleasesOK
    <3> QED BY <3>1, <1>7, <1>f
  <2>4. ASSUME NEW x \in Handles, hndl'[x].state = "destroying"
        PROVE  \E k \in 1..Len(stack') : stack'[k].proc = "FreeHandle" /\ stack'[k].hndl = x
    <3>1. PICK k \in 1..Len(stack) : stack[k].proc = "FreeHandle" /\ stack[k].hndl = x
      BY <2>0, <2>4, <2>u DEF ReleasesOK
    <3> QED BY <3>1, <1>0, <1>2, <1>i, <1>7
  <2> QED BY <2>1, <2>2, <2>3, <2>4, ReleasesNext
<1>12. KillsOK(stack)'
  <2>1. \A k \in 1..Len(s) : s[k].proc = "OnTimerEnd" => s[k].timer \in Timers
    BY <1>0, <1>2, <1>i DEF OnStack, ShapesOK, Shape, Frame
  <2>2. \A k \in 1..Len(s) : s[k].proc = "KillTimer" =>
           /\ info[s[k].info] = s[k].was /\ k + 1 \in 1..Len(s) /\ k < Len(s)
           /\ s[k+1].proc = "OnTimerEnd" /\ timer'[s[k+1].timer].m_pData = s[k].info
    <3>1. \A k \in 1..Len(s) : s[k].proc = "KillTimer" =>
           /\ k + 1 \in 1..Len(s) /\ k < Len(s) /\ k < Len(stack) /\ s[k] = stack[k] /\ s[k+1] = stack[k+1]
      BY <1>2, <1>i, <1>5
    <3>2. KillsOK(stack)
      BY <1>0 DEF OnStack
    <3> QED BY <2>1, <3>1, <3>2, <1>i, <1>k DEF KillsOK
  <2> QED BY <2>2, <1>7, <1>f, <1>u DEF KillsOK
<1>13. DoomedOK(stack)'
  <2>1. \A u \in Timers : u # t /\ (\E k \in 1..Len(stack) : stack[k].timer = u) => \E k \in 1..Len(stack') : stack'[k].timer = u
    BY <1>2, <1>i, <1>3, <1>7
  <2>2. \A u \in Timers : (\E k \in 1..Len(stack) : Ends(stack[k], u)) => \E k \in 1..Len(stack') : Ends(stack'[k], u)
    BY <1>0, <1>2, <1>i, <1>7 DEF Ends
  <2>3. \A u \in Timers : timer'[u].live /\ ~IsOpen(info[timer[u].m_pData].TimerHandle)' /\ ~timer'[u].m_KillMe =>
          \E k \in 1..Len(stack') : Ends(stack'[k], u)
    BY <2>2, <1>0, <1>k, <1>u DEF OnStack, DoomedOK, IsOpen
  <2>4. timer'[t].m_KillMe \/ timer'[t].m_InExec => \E k \in 1..Len(stack') : stack'[k].timer = t
    <3>1. CASE timer' = [timer EXCEPT ![t].m_InExec = FALSE] /\ ~timer[t].m_KillMe /\ stack' = s
      BY <3>1, <1>k DEF IInv, TypeOK, ITimer
    <3>2. CASE stack' = Append(s, EndCall(t)) /\ timer' = timer
      <4>1. Len(s) + 1 \in 1..Len(stack') /\ stack'[Len(s) + 1] = EndCall(t)
        BY <3>2, <1>2, <1>f
      <4> QED BY <4>1, <1>f
    <3> QED BY <3>1, <3>2, <1>6
  <2>5. \A u \in Timers : timer'[u].live /\ (timer'[u].m_KillMe \/ timer'[u].m_InExec) =>
          \E k \in 1..Len(stack') : stack'[k].timer = u
    BY <2>1, <2>4, <1>0, <1>k DEF OnStack, DoomedOK
  <2> QED BY <2>3, <2>5 DEF DoomedOK, Ends
<1>14. \A k \in 1..Len(s) : EndOK(s[k])'
  BY <1>2, <1>c, FramesKept
<1>15. OnStack(stack)'
  BY <1>9, <1>10, <1>11, <1>12, <1>13 DEF OnStack
<1>16. \A k \in 1..Len(stack') : k > Len(s) /\ stack'[k].proc = "OnTimerEnd" => stack'[k].pc = "data"
  BY <1>7, <1>f
<1> QED BY <1>2, <1>7, <1>8, <1>c, <1>14, <1>15, <1>16, CalmStack DEF IInv

\* OnTimerEndInfo preserves the invariant.
LEMMA OnTimerEndInfoOK ==
  ASSUME IInv, OnTimerEndInfo
  PROVE  IInv'
<1>0. stack # <<>> /\ stack \in Seq(Frame) /\ OnStack(stack) /\ Top.pc = "info"
  BY DEF OnTimerEndInfo, IInv, TypeOK, OnStack
<1>1. PICK s : s = Caller
  OBVIOUS
<1>2. /\ Len(stack) \in Nat /\ Len(stack) >= 1 /\ s \in Seq(Frame) /\ Len(s) = Len(stack) - 1
      /\ \A k \in 1..Len(s) : s[k] = stack[k] /\ s[k] \in Frame
      /\ Top = stack[Len(stack)] /\ Top \in Frame
  BY <1>0, <1>1, FrontOf DEF Caller, Top
<1>i. /\ \A k \in 1..Len(stack) : k \in 1..Len(s) \/ k = Len(s) + 1
      /\ 1..Len(s) \subseteq 1..Len(stack) /\ Len(s) + 1 \in 1..Len(stack) /\ Len(s) + 1 = Len(stack)
      /\ \A k \in 1..Len(s) : k < Len(s) => k < Len(stack) /\ k + 1 \in 1..Len(s)
  BY <1>2
<1>t. Top.proc = "OnTimerEnd" /\ Top.timer \in Timers /\ Top.timer # NULL
  BY <1>0, <1>2, <1>i DEF OnStack, ShapesOK, Shape, Frame
<1>3. PICK t \in Timers : t = Top.timer
  BY <1>t
<1>4. timer[t].live /\ \A k \in 1..Len(s) : s[k].timer # t
  BY <1>0, <1>2, <1>3, <1>i, <1>t DEF OnStack, CallbacksOK
<1>5. PICK i \in Infos : i = timer[t].m_pData /\ info[i].Timer = t
  BY <1>4 DEF IInv, HeapOK, TypeOK, ITimer
<1>6. Closed(i) /\ ~IsOpen(info[i].TimerHandle)
  BY <1>0, <1>2, <1>3, <1>5, <1>i, <1>t DEF IInv, EndsOK, EndOK
<1>7. /\ m_FreeTimers' = Append(m_FreeTimers, i) /\ freeTimers' = Append(freeTimers, t)
      /\ timer' = [timer EXCEPT ![t].live = FALSE] /\ stack' = s
      /\ UNCHANGED <<info, hndl, data, loaded, made>>
  BY <1>1, <1>3, <1>5 DEF OnTimerEndInfo
<1>k. /\ timer' \in [Timers -> ITimer]
      /\ \A u \in Timers : timer'[u].m_pData = timer[u].m_pData /\ (u # t => timer'[u] = timer[u])
      /\ ~timer'[t].live
  BY <1>7 DEF IInv, TypeOK, ITimer
<1>m. /\ m_FreeTimers \in Seq(Infos) /\ freeTimers \in Seq(Timers)
      /\ m_FreeTimers' \in Seq(Infos) /\ freeTimers' \in Seq(Timers)
      /\ Len(m_FreeTimers') = Len(m_FreeTimers) + 1 /\ Len(freeTimers') = Len(freeTimers) + 1
      /\ \A k \in 1..Len(m_FreeTimers) : m_FreeTimers'[k] = m_FreeTimers[k]
      /\ \A k \in 1..Len(freeTimers) : freeTimers'[k] = freeTimers[k]
      /\ m_FreeTimers'[Len(m_FreeTimers) + 1] = i /\ freeTimers'[Len(freeTimers) + 1] = t
  BY <1>7 DEF IInv, TypeOK
<1>8. TypeOK'
  BY <1>k, <1>m, <1>2, <1>7 DEF IInv, TypeOK
<1>9. ShapesOK(stack)'
  BY <1>0, <1>2, <1>i, <1>7 DEF OnStack, ShapesOK, Shape
<1>10. CallbacksOK(stack)'
  <2>1. \A k \in 1..Len(s) : s[k].timer # NULL => timer'[s[k].timer].live /\ timer'[s[k].timer].m_InExec
    <3>1. CallbacksOK(stack) /\ \A k \in 1..Len(s) : s[k].timer \in Timers \cup {NULL}
      BY <1>0, <1>2 DEF OnStack, Frame
    <3> QED BY SMTT(30), <3>1, <1>2, <1>i, <1>4, <1>k DEF CallbacksOK
  <2>2. \A j, k \in 1..Len(s) : s[j].timer # NULL /\ s[j].timer = s[k].timer => j = k
    BY <1>0, <1>2, <1>i DEF OnStack, CallbacksOK
  <2> QED BY <2>1, <2>2, <1>7 DEF CallbacksOK
<1>l. \A x \in Handles : Linked(x) /\ info[hndl[x].info].Timer # t => Linked(x)'
  BY <1>7, <1>k DEF Linked, IInv, TypeOK, TimerInfo
<1>11. ReleasesOK(stack)'
  <2>0. ReleasesOK(stack)
    BY <1>0 DEF OnStack
  <2>1. \A k \in 1..Len(s) : s[k].proc = "FreeHandle" => s[k].hndl \in Handles
    BY <1>9, <1>7 DEF ShapesOK, Shape
  <2>2. ASSUME NEW k \in 1..Len(s), NEW x \in Handles, s[k].proc = "FreeHandle", s[k].hndl = x
        PROVE  /\ hndl'[x].state = "destroying"
               /\ k < Len(s) => Linked(x)' /\ Ends(s[k+1], info'[hndl'[x].info].Timer)
    <3>1. k \in 1..Len(stack) /\ s[k] = stack[k] /\ hndl'[x].state = "destroying"
      BY <2>0, <2>2, <1>2, <1>i, <1>7 DEF ReleasesOK
    <3>2. ASSUME k < Len(s) PROVE Linked(x)' /\ Ends(s[k+1], info'[hndl'[x].info].Timer)
      <4>1. k < Len(stack) /\ k + 1 \in 1..Len(s) /\ s[k+1] = stack[k+1]
        BY <3>2, <1>2, <1>i
      <4>2. Linked(x) /\ Ends(s[k+1], info[hndl[x].info].Timer)
        BY <4>1, <3>1, <2>0, <2>2 DEF ReleasesOK
      <4>3. info[hndl[x].info].Timer # t
        BY <4>1, <4>2, <1>4 DEF Ends
      <4> QED BY <4>2, <4>3, <1>l, <1>7
    <3> QED BY <3>1, <3>2
  <2>3. \A j, k \in 1..Len(s) :
           s[j].proc = "FreeHandle" /\ s[k].proc = "FreeHandle" /\ s[j].hndl = s[k].hndl => j = k
    BY SMTT(30), <2>0, <1>2, <1>i DEF ReleasesOK
  <2>4. ASSUME NEW x \in Handles, hndl'[x].state = "destroying"
        PROVE  \E k \in 1..Len(s) : s[k].proc = "FreeHandle" /\ s[k].hndl = x
    <3>1. PICK k \in 1..Len(stack) : stack[k].proc = "FreeHandle" /\ stack[k].hndl = x
      BY <2>4, <2>0, <1>7 DEF ReleasesOK
    <3> QED BY <3>1, <1>2, <1>i, <1>t
  <2> QED BY <2>1, <2>2, <2>3, <2>4, <1>7, ReleasesNext
<1>12. KillsOK(stack)'
  <2>1. \A k \in 1..Len(s) : s[k].proc = "OnTimerEnd" => s[k].timer \in Timers
    BY <1>2, <1>7, <1>9 DEF ShapesOK, Shape, Frame
  <2>2. KillsOK(stack)
    BY <1>0 DEF OnStack
  <2>3. ASSUME NEW k \in 1..Len(s), s[k].proc = "KillTimer"
        PROVE  /\ info[s[k].info] = s[k].was
               /\ k < Len(s) => s[k+1].proc = "OnTimerEnd" /\ timer'[s[k+1].timer].m_pData = s[k].info
    <3>1. k < Len(s) => k < Len(stack) /\ k + 1 \in 1..Len(s) /\ s[k+1] = stack[k+1]
      BY <1>2, <1>i
    <3>2. /\ info[s[k].info] = s[k].was
          /\ k < Len(s) => s[k+1].proc = "OnTimerEnd" /\ timer[s[k+1].timer].m_pData = s[k].info
      BY <2>2, <2>3, <3>1, <1>2, <1>i DEF KillsOK
    <3> QED BY <2>1, <3>1, <3>2, <1>k
  <2> QED BY <2>3, <1>7 DEF KillsOK
<1>13. DoomedOK(stack)'
  <2>1. \A u \in Timers : u # t /\ (\E k \in 1..Len(stack) : stack[k].timer = u) => \E k \in 1..Len(s) : s[k].timer = u
    BY <1>2, <1>i, <1>3
  <2>2. \A u \in Timers : u # t /\ (\E k \in 1..Len(stack) : Ends(stack[k], u)) => \E k \in 1..Len(s) : Ends(s[k], u)
    BY <1>2, <1>i, <1>3 DEF Ends
  <2>3. \A u \in Timers : timer'[u].live =>
          /\ ~IsOpen(info[timer[u].m_pData].TimerHandle) /\ ~timer'[u].m_KillMe => \E k \in 1..Len(s) : Ends(s[k], u)
          /\ timer'[u].m_KillMe \/ timer'[u].m_InExec => \E k \in 1..Len(s) : s[k].timer = u
    BY <2>1, <2>2, <1>0, <1>k DEF OnStack, DoomedOK
  <2> QED BY <2>3, <1>7, <1>k DEF DoomedOK, Ends, IsOpen
<1>14. OpenLinked'
  <2>1. ASSUME NEW x \in Handles, hndl[x].state = "open" PROVE Linked(x)'
    <3>1. Linked(x)
      BY <2>1 DEF IInv, OpenLinked
    <3>2. info[hndl[x].info].Timer # t
      BY <3>1, <2>1, <1>5, <1>6 DEF Linked, IsOpen
    <3> QED BY <3>1, <3>2, <1>l
  <2> QED BY <2>1, <1>7 DEF OpenLinked
<1>15. NumbersOK'
  BY <1>7 DEF IInv, NumbersOK
<1>16. \A j \in Infos : Closed(j) => Closed(j)'
  BY <1>7 DEF Closed, OwnedBy
<1>n. \A k \in 1..Len(m_FreeTimers') : k \in 1..Len(m_FreeTimers) \/ (k = Len(m_FreeTimers) + 1 /\ m_FreeTimers'[k] = i)
  BY <1>m
<1>17. FreedClosed'
  <2>1. \A k \in 1..Len(m_FreeTimers') : Closed(m_FreeTimers'[k])
    BY <1>6, <1>m, <1>n DEF IInv, FreedClosed
  <2>2. \A k \in 1..Len(m_FreeTimers') : m_FreeTimers'[k] \in Infos
    BY <1>m
  <2> QED BY <2>1, <2>2, <1>7 DEF FreedClosed, Closed, OwnedBy
<1>18. EndsOK(stack)'
  <2>1. ASSUME NEW k \in 1..Len(s) PROVE EndOK(s[k])'
    <3>1. EndOK(s[k]) /\ Shape(s[k]) /\ s[k] \in Frame
      BY <1>0, <1>2, <1>i DEF IInv, EndsOK, OnStack, ShapesOK
    <3>2. s[k].proc = "OnTimerEnd" => s[k].timer \in Timers
      BY <3>1 DEF Shape, Frame
    <3> QED BY <3>1, <3>2, <1>7, <1>k DEF EndOK, Closed, OwnedBy, IsOpen
  <2> QED BY <2>1, <1>7 DEF EndsOK, EndOK
<1>19. HeapOK'
  <2>h. HeapOK
    BY DEF IInv
  <2>n. \A k \in 1..Len(freeTimers') : k \in 1..Len(freeTimers) \/ (k = Len(freeTimers) + 1 /\ freeTimers'[k] = t)
    BY <1>m
  <2>1. \A j, k \in 1..Len(m_FreeTimers') : m_FreeTimers'[j] = m_FreeTimers'[k] => j = k
    <3>1. \A k \in 1..Len(m_FreeTimers) : m_FreeTimers[k] # i
      BY <2>h, <1>4, <1>5 DEF HeapOK
    <3>2. \A j, k \in 1..Len(m_FreeTimers) : m_FreeTimers[j] = m_FreeTimers[k] => j = k
      BY <2>h DEF HeapOK
    <3> QED BY <3>1, <3>2, <1>m, <1>n
  <2>2. \A j, k \in 1..Len(freeTimers') : freeTimers'[j] = freeTimers'[k] => j = k
    <3>1. \A k \in 1..Len(freeTimers) : freeTimers[k] # t
      BY <2>h, <1>4 DEF HeapOK
    <3> QED BY SMTT(30), <3>1, <2>h, <1>m, <2>n DEF HeapOK
  <2>3. \A k \in 1..Len(freeTimers') : ~timer'[freeTimers'[k]].live
    BY <2>h, <1>m, <2>n, <1>k DEF HeapOK
  <2>4. \A u \in Timers : timer'[u].live =>
          /\ u # t /\ timer[u].live /\ timer'[u] = timer[u]
          /\ timer[u].m_pData # NULL /\ info[timer[u].m_pData].Timer = u /\ timer[u].m_pData # i
          /\ info[timer[u].m_pData].Hook \in loaded
          /\ info[timer[u].m_pData].TimerHandle \in Handles =>
               hndl[info[timer[u].m_pData].TimerHandle].info = timer[u].m_pData
    BY <2>h, <1>k, <1>5 DEF HeapOK
  <2>5. \A u \in Timers : timer'[u].live => \A k \in 1..Len(m_FreeTimers') : m_FreeTimers'[k] # timer'[u].m_pData
    BY <2>h, <2>4, <1>m, <1>n DEF HeapOK
  <2>6. \A j \in Infos : info[j].Timer # NULL =>
          \/ timer'[info[j].Timer].live /\ timer'[info[j].Timer].m_pData = j
          \/ \E k \in 1..Len(m_FreeTimers') : m_FreeTimers'[k] = j
    <3> SUFFICES ASSUME NEW j \in Infos, info[j].Timer # NULL
                 PROVE  \/ timer'[info[j].Timer].live /\ timer'[info[j].Timer].m_pData = j
                        \/ \E k \in 1..Len(m_FreeTimers') : m_FreeTimers'[k] = j
      OBVIOUS
    <3>1. info[j].Timer \in Timers
      BY DEF IInv, TypeOK, TimerInfo
    <3>2. CASE \E k \in 1..Len(m_FreeTimers) : m_FreeTimers[k] = j
      BY <3>2, <1>m
    <3>3. CASE timer[info[j].Timer].live /\ timer[info[j].Timer].m_pData = j /\ info[j].Timer # t
      BY <3>3, <3>1, <1>k
    <3>4. CASE timer[info[j].Timer].m_pData = j /\ info[j].Timer = t
      <4>1. j = i /\ Len(m_FreeTimers) + 1 \in 1..Len(m_FreeTimers')
        BY <3>4, <1>5, <1>m
      <4> QED BY <4>1, <1>m
    <3> QED BY <3>2, <3>3, <3>4, <2>h DEF HeapOK
  <2>7. \A k \in 1..Len(m_FreeTimers') : info[m_FreeTimers'[k]].Timer # NULL
    BY <2>h, <1>m, <1>n, <1>5, <1>3, <1>t DEF HeapOK
  <2> QED BY <2>1, <2>2, <2>3, <2>4, <2>5, <2>6, <2>7, <1>7 DEF HeapOK
<1> QED BY <1>8, <1>9, <1>10, <1>11, <1>12, <1>13, <1>14, <1>15, <1>17, <1>18, <1>19 DEF IInv

\* An object taken from a free stack, or a new one, is not in use.
LEMMA FreshOf ==
  ASSUME NEW S, NEW q \in Seq(S), NEW busy, S \ busy # {},
         \A j, k \in 1..Len(q) : q[j] = q[k] => j = k,
         \A k \in 1..Len(q) : q[k] \notin busy,
         NEW r, r = IF q = <<>> THEN <<>> ELSE Front(q)
  PROVE  /\ Fresh(S, q, busy) \in S /\ Fresh(S, q, busy) \notin busy
         /\ r \in Seq(S) /\ \A k \in 1..Len(r) : k \in 1..Len(q) /\ r[k] = q[k] /\ r[k] # Fresh(S, q, busy)
         /\ \A k \in 1..Len(q) : q[k] # Fresh(S, q, busy) => k \in 1..Len(r)
<1>1. CASE q = <<>>
  BY <1>1 DEF Fresh
<1>2. CASE q # <<>>
  <2>1. /\ Len(q) \in Nat /\ Len(q) >= 1 /\ r \in Seq(S) /\ Len(r) = Len(q) - 1
        /\ \A k \in 1..(Len(q) - 1) : r[k] = q[k]
        /\ Last(q) = q[Len(q)] /\ Last(q) \in S
    BY <1>2, FrontOf
  <2>2. Fresh(S, q, busy) = q[Len(q)]
    BY <1>2, <2>1 DEF Fresh
  <2> QED BY <2>1, <2>2
<1> QED BY <1>1, <1>2

\* CreateTimer preserves the invariant.
LEMMA CreateTimerOK ==
  ASSUME IInv, NEW p \in Plugins, NEW repeat \in BOOLEAN, NEW close \in BOOLEAN, NEW ok \in BOOLEAN, NEW d \in Offered,
         CreateTimer(p, repeat, d, close, ok)
  PROVE  IInv'
<1>0. TypeOK /\ HeapOK /\ NumbersOK /\ PluginTurn /\ p \in loaded /\ made < MaxMade /\ made \in Nat /\ MaxMade \in Nat
  BY NativesAssumption DEF IInv, CreateTimer, Running, TypeOK
<1>1. PICK i, t, h : /\ i = Fresh(Infos, m_FreeTimers, BusyInfos) /\ t = Fresh(Timers, freeTimers, LiveTimers)
                     /\ h = IF ok THEN made + 1 ELSE BAD_HANDLE
  OBVIOUS
<1>2. /\ m_FreeTimers' = IF m_FreeTimers = <<>> THEN <<>> ELSE Front(m_FreeTimers)
      /\ freeTimers' = IF freeTimers = <<>> THEN <<>> ELSE Front(freeTimers)
      /\ info' = [info EXCEPT ![i] = [Timer |-> t, Hook |-> p, TimerHandle |-> h, UserData |-> d, close |-> close]]
      /\ timer' = [timer EXCEPT ![t] = [live |-> TRUE, m_InExec |-> ~ok, m_KillMe |-> FALSE, repeat |-> repeat, m_pData |-> i]]
      /\ hndl' = IF ok THEN [hndl EXCEPT ![h] = [state |-> "open", info |-> i, owner |-> p]] ELSE hndl
      /\ made' = made + 1
      /\ stack' = stack \o BailOut(t, ok)
      /\ UNCHANGED <<data, loaded>>
  BY <1>1 DEF CreateTimer
<1>3. /\ i \in Infos /\ i \notin BusyInfos
      /\ m_FreeTimers' \in Seq(Infos)
      /\ \A k \in 1..Len(m_FreeTimers') : k \in 1..Len(m_FreeTimers) /\ m_FreeTimers'[k] = m_FreeTimers[k] /\ m_FreeTimers'[k] # i
      /\ \A k \in 1..Len(m_FreeTimers) : m_FreeTimers[k] # i => k \in 1..Len(m_FreeTimers')
  <2>1. m_FreeTimers \in Seq(Infos) /\ Infos \ BusyInfos # {} /\ \A j, k \in 1..Len(m_FreeTimers) : m_FreeTimers[j] = m_FreeTimers[k] => j = k
    BY <1>0 DEF TypeOK, CreateTimer, HeapOK
  <2>2. \A k \in 1..Len(m_FreeTimers) : m_FreeTimers[k] \notin BusyInfos
    BY <1>0 DEF HeapOK, BusyInfos, LiveTimers
  <2> QED BY SMTT(30), <1>1, <1>2, <2>1, <2>2, FreshOf
<1>4. /\ t \in Timers /\ ~timer[t].live
      /\ freeTimers' \in Seq(Timers)
      /\ \A k \in 1..Len(freeTimers') : k \in 1..Len(freeTimers) /\ freeTimers'[k] = freeTimers[k] /\ freeTimers'[k] # t
  <2>1. freeTimers \in Seq(Timers) /\ Timers \ LiveTimers # {} /\ \A j, k \in 1..Len(freeTimers) : freeTimers[j] = freeTimers[k] => j = k
    BY <1>0 DEF TypeOK, CreateTimer, HeapOK
  <2>2. \A k \in 1..Len(freeTimers) : freeTimers[k] \notin LiveTimers
    BY <1>0 DEF HeapOK, LiveTimers
  <2>3. t \in Timers /\ t \notin LiveTimers
    BY <1>1, <1>2, <2>1, <2>2, FreshOf
  <2>4. /\ freeTimers' \in Seq(Timers)
        /\ \A k \in 1..Len(freeTimers') : k \in 1..Len(freeTimers) /\ freeTimers'[k] = freeTimers[k] /\ freeTimers'[k] # t
    BY SMTT(30), <1>1, <1>2, <2>1, <2>2, FreshOf
  <2> QED BY <2>3, <2>4 DEF LiveTimers
<1>5. /\ timer' \in [Timers -> ITimer] /\ \A u \in Timers : u # t => timer'[u] = timer[u]
      /\ timer'[t].live /\ timer'[t].m_pData = i /\ timer'[t].m_InExec = ~ok /\ ~timer'[t].m_KillMe
  BY <1>0, <1>2, <1>3, <1>4 DEF TypeOK, ITimer
<1>h. /\ h \in Handles \cup {BAD_HANDLE} /\ (ok => h \in Handles /\ h = made + 1) /\ (~ok => h = BAD_HANDLE) /\ BAD_HANDLE \notin Handles
      /\ made + 1 \in Handles
  BY <1>0, <1>1 DEF Handles, BAD_HANDLE
<1>d. d \in UserData /\ (d \in Handles => d <= made)
  BY <1>0, NativesAssumption DEF Offered, UserData, NumbersOK, Handles
<1>6. /\ info' \in [Infos -> TimerInfo] /\ \A j \in Infos : j # i => info'[j] = info[j]
      /\ info'[i].Timer = t /\ info'[i].Hook = p /\ info'[i].TimerHandle = h /\ info'[i].UserData = d /\ info'[i].close = close
  BY <1>0, <1>2, <1>3, <1>4, <1>h, <1>d DEF TypeOK, TimerInfo
<1>7. /\ hndl' \in [Handles -> [state : States, info : Infos \cup {NULL}, owner : Plugins \cup {NULL}]]
      /\ \A x \in Handles : x # made + 1 => hndl'[x] = hndl[x]
      /\ ok => hndl'[h].state = "open" /\ hndl'[h].info = i /\ hndl'[h].owner = p
      /\ ~ok => hndl' = hndl
      /\ hndl[made + 1].state = "none"
  BY <1>0, <1>2, <1>3, <1>h DEF TypeOK, States, NumbersOK
<1>8. PICK s : s = stack
  OBVIOUS
<1>9. s \in Seq(Frame) /\ OnStack(s) /\ Pushable(s) /\ EndsOK(s)
  BY <1>0, <1>8, WholeStack DEF IInv
<1>a. Len(s) \in Nat /\ \A k \in 1..Len(s) : s[k] \in Frame /\ s[k].timer \in Timers \cup {NULL}
  <2>1. Len(s) \in Nat /\ \A k \in 1..Len(s) : s[k] \in Frame
    BY <1>9
  <2> QED BY <2>1 DEF Frame
<1>b. \A u \in Timers : timer[u].live =>
        /\ u # t /\ timer[u].m_pData \in Infos /\ timer[u].m_pData # i /\ info[timer[u].m_pData].Timer = u
        /\ timer'[u] = timer[u] /\ info'[timer[u].m_pData] = info[timer[u].m_pData]
  BY <1>0, <1>3, <1>4, <1>5, <1>6 DEF HeapOK, BusyInfos, LiveTimers, TypeOK, ITimer
<1>c. \A k \in 1..Len(s) : s[k].timer # NULL => s[k].timer \in Timers /\ timer[s[k].timer].live /\ s[k].timer # t
  BY <1>9, <1>a, <1>b DEF OnStack, CallbacksOK
<1>l. \A x \in Handles : Linked(x) => Linked(x)' /\ x # made + 1
  <2> SUFFICES ASSUME NEW x \in Handles, Linked(x) PROVE Linked(x)' /\ x # made + 1
    OBVIOUS
  <2>1. PICK j \in Infos, u \in Timers : j = hndl[x].info /\ u = info[j].Timer /\ timer[u].live /\ timer[u].m_pData = j
    BY <1>0 DEF Linked, TypeOK, TimerInfo
  <2>2. info[j].TimerHandle = x /\ info[j].Hook = hndl[x].owner /\ x <= made /\ x # made + 1
    BY <2>1, <1>0, <1>h DEF Linked, NumbersOK, Handles
  <2>3. timer'[u] = timer[u] /\ info'[j] = info[j] /\ hndl'[x] = hndl[x]
    BY <2>1, <2>2, <1>b, <1>7
  <2> QED BY <2>1, <2>2, <2>3 DEF Linked
<1>f. /\ EndCall(t) \in Frame /\ Shape(EndCall(t)) /\ EndCall(t).timer = t
      /\ EndCall(t).proc = "OnTimerEnd" /\ EndCall(t).pc = "data"
  BY <1>4, NewFrames
<1>10. /\ stack' \in Seq(Frame) /\ Len(stack') = IF ok THEN Len(s) ELSE Len(s) + 1
       /\ \A k \in 1..Len(s) : stack'[k] = s[k]
       /\ ~ok => stack'[Len(s) + 1] = EndCall(t)
  BY <1>2, <1>8, <1>9, <1>a, <1>f DEF BailOut
<1>i. /\ \A k \in 1..Len(stack') : k \in 1..Len(s) \/ (k = Len(s) + 1 /\ stack'[k] = EndCall(t) /\ ~ok)
      /\ 1..Len(s) \subseteq 1..Len(stack') /\ (~ok => Len(s) + 1 \in 1..Len(stack'))
      /\ \A k \in 1..Len(s) : s[k].proc \in {"FreeHandle", "KillTimer"} => k < Len(s) /\ k + 1 \in 1..Len(s)
  <2>1. \A k \in 1..Len(s) : s[k].proc \in {"FreeHandle", "KillTimer"} => k < Len(s) /\ k + 1 \in 1..Len(s)
    BY <1>9, <1>a DEF Pushable
  <2> QED BY <2>1, <1>10, <1>a
<1>11. TypeOK'
  <2>1. \A x \in Handles : hndl'[x].state # "none" => hndl'[x].info # NULL /\ hndl'[x].owner # NULL
    BY <1>0, <1>3, <1>7, <1>h, NativesAssumption DEF TypeOK
  <2>2. made' \in 0..MaxMade
    BY <1>0, <1>2
  <2> QED BY <2>1, <2>2, <1>0, <1>2, <1>3, <1>4, <1>5, <1>6, <1>7, <1>10 DEF TypeOK
<1>12. ShapesOK(stack)'
  BY <1>9, <1>10, <1>i, <1>f DEF OnStack, ShapesOK, Shape
<1>13. CallbacksOK(stack)'
  <2>1. \A k \in 1..Len(s) : s[k].timer # NULL => timer'[s[k].timer].live /\ timer'[s[k].timer].m_InExec
    BY <1>9, <1>b, <1>c DEF OnStack, CallbacksOK
  <2>2. \A k \in 1..Len(stack') : stack'[k].timer # NULL =>
           timer'[stack'[k].timer].live /\ timer'[stack'[k].timer].m_InExec
    BY <2>1, <1>10, <1>i, <1>f, <1>5
  <2>3. \A j, k \in 1..Len(s) : s[j].timer # NULL /\ s[j].timer = s[k].timer => j = k
    BY <1>9 DEF OnStack, CallbacksOK
  <2>4. \A j, k \in 1..Len(stack') : stack'[j].timer # NULL /\ stack'[j].timer = stack'[k].timer => j = k
    BY <2>3, <1>10, <1>i, <1>f, <1>c
  <2> QED BY <2>2, <2>4 DEF CallbacksOK
<1>14. ReleasesOK(stack)'
  <2>0. ReleasesOK(s)
    BY <1>9 DEF OnStack
  <2>1. \A k \in 1..Len(stack') : stack'[k].proc = "FreeHandle" => stack'[k].hndl \in Handles
    BY <1>12 DEF ShapesOK, Shape
  <2>2. ASSUME NEW k \in 1..Len(stack'), NEW x \in Handles, stack'[k].proc = "FreeHandle", stack'[k].hndl = x
        PROVE  /\ hndl'[x].state = "destroying"
               /\ k < Len(stack') => Linked(x)' /\ Ends(stack'[k+1], info'[hndl'[x].info].Timer)
    <3>1. k \in 1..Len(s) /\ s[k] = stack'[k] /\ k < Len(s) /\ s[k+1] = stack'[k+1]
      BY <2>2, <1>10, <1>i, <1>f
    <3>2. hndl[x].state = "destroying" /\ Linked(x) /\ Ends(s[k+1], info[hndl[x].info].Timer)
      BY <3>1, <2>0, <2>2 DEF ReleasesOK
    <3>3. Linked(x)' /\ x # made + 1 /\ hndl'[x] = hndl[x]
      BY <3>2, <1>l, <1>7
    <3>4. info'[hndl[x].info].Timer = info[hndl[x].info].Timer
      BY <3>2, <1>0, <1>b DEF Linked, TypeOK, TimerInfo
    <3> QED BY <3>1, <3>2, <3>3, <3>4
  <2>3. \A j, k \in 1..Len(stack') :
           stack'[j].proc = "FreeHandle" /\ stack'[k].proc = "FreeHandle" /\ stack'[j].hndl = stack'[k].hndl => j = k
    <3>1. \A j, k \in 1..Len(s) :
             s[j].proc = "FreeHandle" /\ s[k].proc = "FreeHandle" /\ s[j].hndl = s[k].hndl => j = k
      BY <2>0 DEF ReleasesOK
    <3> QED BY <3>1, <1>10, <1>i, <1>f
  <2>4. ASSUME NEW x \in Handles, hndl'[x].state = "destroying"
        PROVE  \E k \in 1..Len(stack') : stack'[k].proc = "FreeHandle" /\ stack'[k].hndl = x
    <3>1. hndl[x].state = "destroying"
      BY <2>4, <1>7, <1>h
    <3>2. PICK k \in 1..Len(s) : s[k].proc = "FreeHandle" /\ s[k].hndl = x
      BY <3>1, <2>0 DEF ReleasesOK
    <3> QED BY <3>2, <1>10, <1>i
  <2> QED BY <2>1, <2>2, <2>3, <2>4, ReleasesNext
<1>15. KillsOK(stack)'
  <2>0. KillsOK(s) /\ ShapesOK(s)
    BY <1>9 DEF OnStack
  <2>1. ASSUME NEW k \in 1..Len(s), s[k].proc = "KillTimer"
        PROVE  /\ info'[s[k].info] = s[k].was /\ k < Len(s)
               /\ s[k+1].proc = "OnTimerEnd" /\ timer'[s[k+1].timer].m_pData = s[k].info
    <3>1. /\ k < Len(s) /\ k + 1 \in 1..Len(s) /\ info[s[k].info] = s[k].was
          /\ s[k+1].proc = "OnTimerEnd" /\ timer[s[k+1].timer].m_pData = s[k].info
      BY <2>0, <2>1, <1>i DEF KillsOK
    <3>2. s[k+1].timer # NULL
      BY <3>1, <2>0 DEF ShapesOK, Shape
    <3>3. timer'[s[k+1].timer] = timer[s[k+1].timer] /\ info'[s[k].info] = info[s[k].info]
      BY <3>1, <3>2, <1>b, <1>c
    <3> QED BY <3>1, <3>3
  <2>2. \A k \in 1..Len(stack') : stack'[k].proc = "KillTimer" =>
           /\ info'[stack'[k].info] = stack'[k].was
           /\ k < Len(stack') => stack'[k+1].proc = "OnTimerEnd" /\ timer'[stack'[k+1].timer].m_pData = stack'[k].info
    BY <2>1, <1>10, <1>i, <1>f
  <2> QED BY <2>2 DEF KillsOK
<1>o. \A x : x \in Handles /\ x # made + 1 => (IsOpen(x) <=> IsOpen(x)')
  BY <1>7 DEF IsOpen
<1>n. \A j \in Infos : info[j].TimerHandle # made + 1
  BY <1>0 DEF NumbersOK, TypeOK, TimerInfo, Handles, BAD_HANDLE
<1>16. DoomedOK(stack)'
  <2>0. DoomedOK(s)
    BY <1>9 DEF OnStack
  <2>1. ASSUME NEW u \in Timers, timer[u].live
        PROVE  /\ ~IsOpen(info[timer[u].m_pData].TimerHandle)' /\ ~timer'[u].m_KillMe =>
                    \E k \in 1..Len(stack') : Ends(stack'[k], u)
               /\ timer'[u].m_KillMe \/ timer'[u].m_InExec => \E k \in 1..Len(stack') : stack'[k].timer = u
    <3>1. PICK j \in Infos : j = timer[u].m_pData /\ timer'[u] = timer[u] /\ info'[j] = info[j]
      BY <2>1, <1>b
    <3>2. IsOpen(info[j].TimerHandle) => IsOpen(info[j].TimerHandle)'
      BY <3>1, <1>7, <1>n DEF IsOpen
    <3>3. /\ ~IsOpen(info[j].TimerHandle)' /\ ~timer'[u].m_KillMe => \E k \in 1..Len(s) : Ends(s[k], u)
          /\ timer'[u].m_KillMe \/ timer'[u].m_InExec => \E k \in 1..Len(s) : s[k].timer = u
      BY <3>1, <3>2, <2>0, <2>1 DEF DoomedOK
    <3> QED BY <3>1, <3>3, <1>10, <1>i DEF IsOpen
  <2>2. /\ ok => IsOpen(info[timer[t].m_pData].TimerHandle)'
        /\ ~ok => \E k \in 1..Len(stack') : Ends(stack'[k], t) /\ stack'[k].timer = t
    BY <1>5, <1>6, <1>7, <1>h, <1>10, <1>i, <1>f DEF IsOpen, Ends
  <2>3. \A u \in Timers : timer'[u].live /\ u # t => timer[u].live
    BY <1>5
  <2>4. \A u \in Timers : timer'[u].live =>
          /\ ~IsOpen(info[timer[u].m_pData].TimerHandle)' /\ ~timer'[u].m_KillMe =>
               \E k \in 1..Len(stack') : Ends(stack'[k], u)
          /\ timer'[u].m_KillMe \/ timer'[u].m_InExec => \E k \in 1..Len(stack') : stack'[k].timer = u
    BY ZenonT(60), <2>1, <2>2, <2>3, <1>5
  <2> QED BY <2>4 DEF DoomedOK, Ends
<1>17. OpenLinked'
  <2>1. ok => Linked(h)'
    BY <1>3, <1>4, <1>5, <1>6, <1>7, <1>h, NativesAssumption DEF Linked
  <2>2. \A x \in Handles : x # made + 1 /\ hndl'[x].state = "open" => Linked(x)'
    BY <1>7, <1>l DEF IInv, OpenLinked
  <2>3. ~ok => hndl'[made + 1].state # "open"
    BY <1>7
  <2> QED BY <2>1, <2>2, <2>3, <1>h DEF OpenLinked
<1>18. NumbersOK'
  <2>1. \A x \in Handles : hndl'[x].state # "none" => x <= made + 1
    BY <1>0, <1>7, <1>h DEF NumbersOK, Handles
  <2>2. \A j \in Infos : info'[j].TimerHandle <= made + 1 /\ (info'[j].UserData \in Handles => info'[j].UserData <= made + 1)
    <3>1. \A j \in Infos : /\ info[j].TimerHandle \in Nat /\ info[j].TimerHandle <= made
                           /\ info[j].UserData \in Handles => info[j].UserData <= made /\ info[j].UserData \in Nat
      BY <1>0 DEF NumbersOK, TypeOK, TimerInfo, Handles, BAD_HANDLE
    <3>2. h \in Nat /\ h <= made + 1 /\ (d \in Handles => d \in Nat /\ d <= made)
      BY <1>0, <1>h, <1>d DEF Handles, BAD_HANDLE
    <3> QED BY <3>1, <3>2, <1>0, <1>6
  <2> QED BY <2>1, <2>2, <1>2 DEF NumbersOK
<1>19. \A j \in Infos : j # i /\ Closed(j) => Closed(j)'
  <2> SUFFICES ASSUME NEW j \in Infos, j # i, Closed(j), info[j].close PROVE ~(info[j].UserData \in OwnedBy(info[j].Hook))'
    BY <1>6 DEF Closed
  <2>1. info'[j] = info[j] /\ info[j].UserData # made + 1
    BY <1>0, <1>6, <1>h DEF NumbersOK, Handles
  <2>2. info[j].UserData \notin OwnedBy(info[j].Hook)
    BY DEF Closed
  <2> QED BY <2>1, <2>2, <1>2, <1>7 DEF OwnedBy
<1>20. FreedClosed'
  <2>1. \A k \in 1..Len(m_FreeTimers') : /\ m_FreeTimers'[k] = m_FreeTimers[k] /\ m_FreeTimers[k] \in Infos
                                         /\ m_FreeTimers[k] # i /\ Closed(m_FreeTimers[k])
    BY <1>0, <1>3 DEF IInv, FreedClosed, TypeOK
  <2>2. ASSUME NEW k \in 1..Len(m_FreeTimers') PROVE Closed(m_FreeTimers[k])'
    <3>1. PICK j \in Infos : j = m_FreeTimers[k] /\ j = m_FreeTimers'[k] /\ j # i /\ Closed(j)
      BY <2>1
    <3>2. Closed(j)'
      BY <3>1, <1>19
    <3> QED BY <3>1, <3>2 DEF Closed, OwnedBy
  <2> QED BY <2>2 DEF FreedClosed
<1>21. EndsOK(stack)'
  <2>1. ASSUME NEW k \in 1..Len(s) PROVE EndOK(s[k])'
    <3> SUFFICES ASSUME s[k].proc = "OnTimerEnd" PROVE EndOK(s[k])'
      BY DEF EndOK
    <3>1. s[k].timer # NULL
      BY <1>9 DEF OnStack, ShapesOK, Shape
    <3>2. PICK j \in Infos : /\ j = timer[s[k].timer].m_pData /\ j = timer'[s[k].timer].m_pData
                             /\ j # i /\ info'[j] = info[j]
      BY <3>1, <1>b, <1>c
    <3>3. /\ s[k].pc # "data" => Closed(j)
          /\ s[k].pc = "info" => ~IsOpen(info[j].TimerHandle)
      BY <3>2, <1>9 DEF EndsOK, EndOK
    <3>4. Closed(j) => Closed(j)'
      BY <3>2, <1>19
    <3>5. ~IsOpen(info[j].TimerHandle) => ~IsOpen(info[j].TimerHandle)'
      BY <3>2, <1>7, <1>n DEF IsOpen
    <3> QED BY <3>2, <3>3, <3>4, <3>5 DEF EndOK, Closed, OwnedBy, IsOpen
  <2>2. ASSUME NEW k \in 1..Len(stack') PROVE EndOK(stack[k])'
    <3>1. CASE k \in 1..Len(s)
      <4>1. EndOK(s[k])' /\ stack'[k] = s[k]
        BY <3>1, <2>1, <1>10
      <4> QED BY <4>1 DEF EndOK
    <3>2. CASE stack'[k] = EndCall(t)
      BY <3>2, <1>f DEF EndOK
    <3> QED BY <3>1, <3>2, <1>i
  <2> QED BY <2>2 DEF EndsOK
<1>22. HeapOK'
  <2>1. \A j, k \in 1..Len(m_FreeTimers') : m_FreeTimers'[j] = m_FreeTimers'[k] => j = k
    BY <1>0, <1>3 DEF HeapOK
  <2>2. \A j, k \in 1..Len(freeTimers') : freeTimers'[j] = freeTimers'[k] => j = k
    BY <1>0, <1>4 DEF HeapOK
  <2>3. \A k \in 1..Len(freeTimers') : ~timer'[freeTimers'[k]].live
    BY SMTT(30), <1>0, <1>4, <1>5 DEF HeapOK, TypeOK
  <2>4. \A u \in Timers : timer'[u].live /\ u # t =>
          /\ timer'[u] = timer[u] /\ timer[u].live /\ info'[timer[u].m_pData] = info[timer[u].m_pData]
          /\ timer[u].m_pData # NULL /\ info[timer[u].m_pData].Timer = u
          /\ info[timer[u].m_pData].Hook \in loaded
          /\ info[timer[u].m_pData].TimerHandle \in Handles =>
               hndl'[info[timer[u].m_pData].TimerHandle].info = timer[u].m_pData
          /\ \A k \in 1..Len(m_FreeTimers') : m_FreeTimers'[k] # timer[u].m_pData
    BY <1>0, <1>b, <1>5, <1>7, <1>n, <1>3 DEF HeapOK
  <2>5. /\ i # NULL /\ info'[i].Timer = t /\ info'[i].Hook \in loaded
        /\ info'[i].TimerHandle \in Handles => hndl'[info'[i].TimerHandle].info = i
        /\ \A k \in 1..Len(m_FreeTimers') : m_FreeTimers'[k] # i
    BY <1>0, <1>3, <1>6, <1>7, <1>h, NativesAssumption
  <2>6. \A u \in Timers : timer'[u].live =>
          /\ timer'[u].m_pData # NULL /\ info'[timer'[u].m_pData].Timer = u
          /\ info'[timer'[u].m_pData].Hook \in loaded'
          /\ info'[timer'[u].m_pData].TimerHandle \in Handles =>
               hndl'[info'[timer'[u].m_pData].TimerHandle].info = timer'[u].m_pData
          /\ \A k \in 1..Len(m_FreeTimers') : m_FreeTimers'[k] # timer'[u].m_pData
    BY <2>4, <2>5, <1>2, <1>5
  <2>7. ASSUME NEW j \in Infos, info'[j].Timer # NULL
        PROVE  \/ timer'[info'[j].Timer].live /\ timer'[info'[j].Timer].m_pData = j
               \/ \E k \in 1..Len(m_FreeTimers') : m_FreeTimers'[k] = j
    <3>1. CASE j = i
      BY <3>1, <1>5, <1>6
    <3>2. CASE j # i
      <4>1. info'[j] = info[j] /\ info[j].Timer \in Timers
        BY <3>2, <2>7, <1>0, <1>6 DEF TypeOK, TimerInfo
      <4>2. CASE timer[info[j].Timer].live /\ timer[info[j].Timer].m_pData = j
        BY <4>1, <4>2, <1>b
      <4>3. CASE \E k \in 1..Len(m_FreeTimers) : m_FreeTimers[k] = j
        BY <4>3, <3>2, <1>3
      <4> QED BY <4>1, <4>2, <4>3, <2>7, <1>0 DEF HeapOK
    <3> QED BY <3>1, <3>2
  <2>8. \A k \in 1..Len(m_FreeTimers') : info'[m_FreeTimers'[k]].Timer # NULL
    BY <1>0, <1>3, <1>6 DEF HeapOK, TypeOK
  <2> QED BY <2>1, <2>2, <2>3, <2>6, <2>7, <2>8 DEF HeapOK
<1> QED BY <1>11, <1>12, <1>13, <1>14, <1>15, <1>16, <1>17, <1>18, <1>20, <1>21, <1>22 DEF IInv

-----------------------------------------------------------------------------
(* The theorems.                                                           *)

\* The initial state satisfies the invariant.
LEMMA InitOK ==
  ASSUME Init
  PROVE  IInv
<1>1. TypeOK
  BY NativesAssumption DEF Init, TypeOK, ITimer, TimerInfo, UserData, States, BAD_HANDLE
<1>2. stack = <<>> /\ m_FreeTimers = <<>> /\ freeTimers = <<>> /\ Len(stack) = 0 /\ Len(m_FreeTimers) = 0
  BY DEF Init
<1>3. ShapesOK(stack) /\ CallbacksOK(stack) /\ KillsOK(stack) /\ EndsOK(stack) /\ FreedClosed
  BY <1>2 DEF ShapesOK, CallbacksOK, KillsOK, EndsOK, FreedClosed
<1>4. ReleasesOK(stack) /\ OpenLinked /\ DoomedOK(stack)
  BY <1>2 DEF Init, ReleasesOK, OpenLinked, DoomedOK
<1>5. HeapOK
  BY <1>2 DEF Init, HeapOK
<1>6. NumbersOK
  BY NativesAssumption DEF Init, NumbersOK, Handles, BAD_HANDLE
<1> QED BY <1>1, <1>3, <1>4, <1>5, <1>6 DEF IInv

\* Every step keeps the invariant.
LEMMA NextOK ==
  ASSUME IInv, [Next]_vars
  PROVE  IInv'
<1>1. CASE UNCHANGED vars
  <2>1. UNCHANGED <<timer, freeTimers, info, m_FreeTimers, hndl, data, loaded, made, stack>>
    BY <1>1 DEF vars
  <2>2. PICK s : s = stack
    OBVIOUS
  <2>3. s \in Seq(Frame) /\ OnStack(s) /\ (Calm => \A k \in 1..Len(s) : EndOK(s[k])')
    BY <2>2, WholeStack
  <2>4. stack' = s
    BY <2>1, <2>2
  <2>5. TypeOK' /\ Calm /\ OnStack(stack)'
    BY <2>1, <2>3, <2>4, SameStack DEF IInv
  <2>6. Len(stack') >= Len(s) /\ \A k \in 1..Len(stack') : ~(k > Len(s))
    BY <2>3, <2>4
  <2> QED BY <2>3, <2>4, <2>5, <2>6, CalmStack DEF IInv
<1>2. ASSUME NEW p \in Plugins, Plugin(p) PROVE IInv'
  BY <1>2, CreateTimerOK, smn_TriggerTimerOK, smn_KillTimerOK, CloseHandleOK DEF Plugin
<1>3. ASSUME NEW p \in Plugins, Unload(p) PROVE IInv'
  BY <1>3, UnloadOK
<1>4. ASSUME NEW t \in Timers, RunFrame(t) \/ MapChange(t) PROVE IInv'
  BY <1>4, RunFrameOK, MapChangeOK
<1>5. ASSUME NEW stop \in BOOLEAN, OnTimerReturns(stop) PROVE IInv'
  BY <1>5, OnTimerReturnsOK
<1>6. ReleaseHandle \/ ReleaseData \/ OnTimerEndData \/ OnTimerEndHandle \/ OnTimerEndInfo => IInv'
  BY ReleaseHandleOK, ReleaseDataOK, OnTimerEndDataOK, OnTimerEndHandleOK, OnTimerEndInfoOK
<1>7. smn_KillTimerData \/ UnloadLoop => IInv'
  BY smn_KillTimerDataOK, UnloadLoopOK
<1> QED BY <1>1, <1>2, <1>3, <1>4, <1>5, <1>6, <1>7 DEF Next

\* The inductive invariant holds in every state, for any number of timers,
\* plugins and data handles and any nesting of callbacks.
THEOREM Invariance == Spec => []IInv
<1>1. Init => IInv
  BY InitOK
<1>2. IInv /\ [Next]_vars => IInv'
  BY NextOK
<1> QED BY <1>1, <1>2, PTL DEF Spec

\* A TimerInfo is recycled once, by its own timer (OnTimerEnd and
\* DeleteTimerInfo of smn_timers.cpp), whichever way the timer ends.
THEOREM InfoRecycledOnce == Spec => []InfoHome
<1>1. IInv => InfoHome
  <2> SUFFICES ASSUME IInv PROVE InfoHome
    OBVIOUS
  <2>1. HeapOK /\ TypeOK
    BY DEF IInv
  <2>2. IsInjective(m_FreeTimers)
    BY <2>1 DEF HeapOK, TypeOK, IsInjective
  <2>3. \A t, u \in LiveTimers : timer[t].m_pData = timer[u].m_pData => t = u
    BY <2>1 DEF HeapOK, LiveTimers
  <2>4. BusyInfos \cap Range(m_FreeTimers) = {}
    BY <2>1 DEF HeapOK, TypeOK, BusyInfos, LiveTimers, Range
  <2>5. \A i \in Infos : info[i].Timer # NULL => i \in BusyInfos \cup Range(m_FreeTimers)
    <3>1. \A k \in 1..Len(m_FreeTimers) : m_FreeTimers[k] \in Range(m_FreeTimers)
      BY <2>1 DEF TypeOK, Range
    <3>2. \A t \in Timers : timer[t].live => timer[t].m_pData \in BusyInfos
      BY DEF BusyInfos, LiveTimers
    <3>3. \A i \in Infos : info[i].Timer # NULL => info[i].Timer \in Timers
      BY <2>1 DEF TypeOK, TimerInfo
    <3> QED BY <2>1, <3>1, <3>2, <3>3 DEF HeapOK
  <2>6. \A i \in BusyInfos \cup Range(m_FreeTimers) : i \in Infos /\ info[i].Timer # NULL
    <3>1. \A i \in BusyInfos : \E t \in Timers : timer[t].live /\ i = timer[t].m_pData
      BY DEF BusyInfos, LiveTimers
    <3>2. \A i \in BusyInfos : i \in Infos /\ info[i].Timer # NULL
      BY <2>1, <3>1, NativesAssumption DEF HeapOK, TypeOK, ITimer
    <3>3. \A i \in Range(m_FreeTimers) : i \in Infos /\ info[i].Timer # NULL
      BY <2>1 DEF HeapOK, TypeOK, Range
    <3> QED BY <3>2, <3>3
  <2> QED BY <2>2, <2>3, <2>4, <2>5, <2>6 DEF InfoHome
<1> QED BY <1>1, Invariance, PTL

\* smn_KillTimer, which reads its TimerInfo after KillTimer has deleted it
\* (smn_timers.cpp), finds there what it left.
THEOREM KillTimerReadsOwn == Spec => []KillReadsOwn
<1>1. IInv => KillReadsOwn
  BY DEF IInv, TypeOK, ShapesOK, Shape, KillsOK, KillReadsOwn, Top, Last
<1> QED BY <1>1, Invariance, PTL

\* A timer, its TimerInfo, its handle and its data handle live and die together,
\* whichever of them is closed first and from which callback.
THEOREM TimersAndHandles == Spec => []TimerHandlesOK
<1>1. IInv => TimerHandlesOK
  <2> SUFFICES ASSUME IInv PROVE TimerHandlesOK
    OBVIOUS
  <2>0. stack \in Seq(Frame) /\ OnStack(stack) /\ (PluginTurn => Pushable(stack))
    <3>1. PICK s : s = stack
      OBVIOUS
    <3> QED BY <3>1, WholeStack
  <2>1. ReadableIsLive
    <3> SUFFICES ASSUME PluginTurn, NEW h \in Handles, Readable(h)
                 PROVE  LET i == hndl[h].info  t == info[i].Timer IN
                        i \in BusyInfos /\ info[i].TimerHandle = h /\ timer[t].live /\ timer[t].m_pData = i
      BY DEF ReadableIsLive
    <3>1. Linked(h)
      BY <2>0, ReadableLinked DEF IInv
    <3> QED BY <3>1 DEF Linked, BusyInfos, LiveTimers, IInv, TypeOK, TimerInfo
  <2>2. EveryTimerOwned
    <3> SUFFICES ASSUME stack = <<>>, NEW t \in LiveTimers
                 PROVE  LET i == timer[t].m_pData IN
                        /\ info[i].TimerHandle # BAD_HANDLE /\ hndl[info[i].TimerHandle].state = "open"
                        /\ info[i].Hook \in loaded
      BY DEF EveryTimerOwned
    <3>1. t \in Timers /\ timer[t].live /\ \A k \in 1..Len(stack) : FALSE
      BY DEF LiveTimers
    <3>2. IsOpen(info[timer[t].m_pData].TimerHandle)
      BY <3>1, <2>0 DEF OnStack, DoomedOK
    <3> QED BY <3>1, <3>2 DEF IsOpen, Handles, BAD_HANDLE, IInv, HeapOK
  <2>3. DataClosed
    BY DEF IInv, FreedClosed, Closed, DataClosed, Range, TypeOK
  <2> QED BY <2>1, <2>2, <2>3 DEF TimerHandlesOK, IInv
<1> QED BY <1>1, Invariance, PTL
=============================================================================
