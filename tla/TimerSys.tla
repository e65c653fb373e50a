------------------------------ MODULE TimerSys -------------------------------
(***************************************************************************)
(* The timers of core/TimerSys.cpp: three lists of timers, a stack of      *)
(* timer objects to be used again, and a game frame that fires what is     *)
(* due.                                                                    *)
(*                                                                         *)
(* OnTimer and OnTimerEnd are foreign code that may create, fire and kill  *)
(* timers while a list is being walked (OnTimerEnd reaches plugins too,    *)
(* smn_timers.cpp:156: closing a data handle may call a plugin).  `stack'  *)
(* is the C++ call stack; clients act when it is empty or when a callback  *)
(* is on top.                                                              *)
(*                                                                         *)
(* Only differences of times matter, so m_ToExec and g_fTimerThink are     *)
(* kept relative to g_fUniversalTime: 0 is now, and a frame subtracts its  *)
(* length.  An iterator into a list is the timer it points to, NULL at the *)
(* end.                                                                    *)
(***************************************************************************)
EXTENDS Integers, Sequences, SequencesExt, FiniteSets, Lists

CONSTANTS
  Timers,      \* addresses of ITimer objects
  NULL,
  Intervals,   \* the intervals clients ask for
  Kinds,       \* the flags they ask for
  Steps,       \* how far the time moves in a frame
  Accuracy     \* TIMER_MIN_ACCURACY

Flags == [REPEAT : BOOLEAN, NO_MAPCHANGE : BOOLEAN, TICK_PRECISE : BOOLEAN]

ASSUME TimerAssumption ==
  /\ NULL \notin Timers /\ IsFiniteSet(Timers)
  /\ Kinds \subseteq Flags /\ Kinds # {}
  /\ Intervals \subseteq Nat /\ Intervals # {}
  /\ Steps \subseteq Nat \ {0} /\ Accuracy \in Nat \ {0}

VARIABLES
  timer,          \* the ITimer at each address
  lists,          \* m_SingleTimers, m_LowSpeedLoopTimers, m_HighSpeedLoopTimers
  m_FreeTimers,   \* a stack, its top last
  s_tokill,       \* a stack, its top last
  g_fTimerThink,
  stack,          \* the calls in progress, the innermost last
  ends,           \* timer -> how often OnTimerEnd was called since CreateTimer
  fresh           \* the timers created in the frame in progress

vars == <<timer, lists, m_FreeTimers, s_tokill, g_fTimerThink, stack, ends, fresh>>

ListNames == {"Single", "Low", "High"}
ITimer ==
  [ m_ToExec : Int, m_Interval : Intervals, m_InExec : BOOLEAN, m_KillMe : BOOLEAN,
    m_Flags : Kinds ]

Blank ==
  [ m_ToExec |-> 0, m_Interval |-> CHOOSE i \in Intervals : TRUE, m_InExec |-> FALSE,
    m_KillMe |-> FALSE, m_Flags |-> CHOOSE k \in Kinds : TRUE ]

\* A call: flag is timerThink in RunFrame and delayExec in FireTimerOnce.
Frame ==
  [ proc : {"RunFrame", "FireTimerOnce", "KillTimer", "RemoveMapChangeTimers"},
    pc : {"loop", "OnTimer", "OnTimerEnd"}, timer : Timers \cup {NULL},
    list : ListNames, flag : BOOLEAN ]
Call(proc, pc, t, list, flag) ==
  [proc |-> proc, pc |-> pc, timer |-> t, list |-> list, flag |-> flag]

ListFor(flags) ==
  IF ~flags.REPEAT THEN "Single" ELSE IF flags.TICK_PRECISE THEN "High" ELSE "Low"
ListOf(t) == ListFor(timer[t].m_Flags)

Live(t) == \E l \in ListNames : t \in Range(lists[l])
Top == Last(stack)
ClientTurn == stack # <<>> => Top.pc # "loop"
InFrame == stack # <<>> /\ stack[1].proc = "RunFrame"
SetTop(frame) == stack' = [stack EXCEPT ![Len(stack)] = frame]
Pop == stack' = Front(stack)

-----------------------------------------------------------------------------
(* Time.                                                                   *)

CalcNextThink(last, interval) ==
  IF -(last + interval) <= Accuracy THEN last + interval ELSE interval

-----------------------------------------------------------------------------
(* Lists.                                                                  *)

First(s) == IF s = <<>> THEN NULL ELSE Head(s)

\* Mutants: no iter++ past a timer that is not due; iter++ after an erase.
StandStill(s, t) ==
  LET i == CHOOSE i \in 1..Len(s) : s[i] = t
  IN  IF ~timer[t].m_InExec THEN t ELSE IF i = Len(s) THEN NULL ELSE s[i + 1]
AfterTwo(s, t) ==
  LET i == CHOOSE i \in 1..Len(s) : s[i] = t IN IF i + 2 > Len(s) THEN NULL ELSE s[i + 2]

\* iter++.
After(s, t) ==
  LET i == CHOOSE i \in 1..Len(s) : s[i] = t IN IF i = Len(s) THEN NULL ELSE s[i + 1]

\* The iterator that list::erase returns.
AfterErase(s, t) == After(s, t)

\* The insertion of a single timer: at the end when nothing there is later,
\* else before the first that is not earlier.
InsertSorted(s, t, to_exec) ==
  LET at == CHOOSE i \in 1..Len(s) : /\ timer[s[i]].m_ToExec >= to_exec
                                     /\ \A j \in 1..(i-1) : timer[s[j]].m_ToExec < to_exec
  IN  IF s = <<>> \/ timer[Last(s)].m_ToExec <= to_exec THEN Append(s, t) ELSE InsertAt(s, at, t)

-----------------------------------------------------------------------------
(* The operations.                                                         *)

\* The object CreateTimer takes: the top of the free stack, or a new one.
NextTimer(t) ==
  IF m_FreeTimers # <<>> THEN t = Last(m_FreeTimers) ELSE ~Live(t)

CreateTimer(t, interval, flags) ==
  /\ ClientTurn
  /\ NextTimer(t)
  /\ m_FreeTimers' = IF m_FreeTimers = <<>> THEN <<>> ELSE Front(m_FreeTimers)
  /\ timer' = [timer EXCEPT ![t] =
       [ m_ToExec |-> interval, m_Interval |-> interval, m_InExec |-> FALSE, m_KillMe |-> FALSE,
         m_Flags |-> flags ]]
  /\ lists' = [lists EXCEPT ![ListFor(flags)] =
                 IF flags.REPEAT THEN Append(@, t) ELSE InsertSorted(@, t, interval)]
  /\ ends' = [ends EXCEPT ![t] = 0]
  /\ fresh' = IF InFrame THEN fresh \cup {t} ELSE {}
  /\ UNCHANGED <<s_tokill, g_fTimerThink, stack>>

MayFire(t) == ~timer[t].m_InExec

FireTimerOnce(t, delayExec) ==
  /\ ClientTurn /\ Live(t)
  /\ MayFire(t)
  /\ timer' = [timer EXCEPT ![t].m_InExec = TRUE]
  /\ stack' = Append(stack, Call("FireTimerOnce", "OnTimer", t, ListOf(t), delayExec))
  /\ UNCHANGED <<lists, m_FreeTimers, s_tokill, g_fTimerThink, ends, fresh>>

\* Mutants: a timer that runs is killed at once; a timer that is being killed
\* does not look as if it ran.
KillAtOnce(t) == FALSE
NotMarked == FALSE

\* The timer is in use further down the stack.
MustDefer(t) == timer[t].m_InExec
MarkInExec == TRUE

\* The body of KillTimer past the m_KillMe test; st is the stack of its caller.
Kill(t, st) ==
  IF MustDefer(t)
  THEN /\ timer' = [timer EXCEPT ![t].m_KillMe = TRUE]
       /\ stack' = st
       /\ UNCHANGED ends
  ELSE /\ timer' = [timer EXCEPT ![t].m_InExec = MarkInExec]
       /\ stack' = Append(st, Call("KillTimer", "OnTimerEnd", t, ListOf(t), FALSE))
       /\ ends' = [ends EXCEPT ![t] = @ + 1]

KillTimer(t) ==
  /\ ClientTurn /\ Live(t)
  /\ ~timer[t].m_KillMe
  /\ Kill(t, stack)
  /\ UNCHANGED <<lists, m_FreeTimers, s_tokill, g_fTimerThink, fresh>>

\* LevelShutdown: collect the timers with TIMER_FLAG_NO_MAPCHANGE.
RemoveMapChangeTimers ==
  LET mapped == {t \in Timers : timer[t].m_Flags.NO_MAPCHANGE} IN
  /\ stack = <<>>
  /\ s_tokill' = s_tokill \o Filter(lists["Single"], mapped)
                   \o Filter(lists["Low"], mapped) \o Filter(lists["High"], mapped)
  /\ stack' = <<Call("RemoveMapChangeTimers", "loop", NULL, "Single", FALSE)>>
  /\ UNCHANGED <<timer, lists, m_FreeTimers, g_fTimerThink, ends, fresh>>

\* Its second loop: KillTimer(top), then pop.
KillCollected ==
  LET t == Last(s_tokill) IN
  /\ stack # <<>> /\ Top.proc = "RemoveMapChangeTimers"
  /\ IF s_tokill = <<>>
     THEN Pop /\ UNCHANGED <<timer, ends, s_tokill>>
     ELSE /\ s_tokill' = Front(s_tokill)
          /\ IF timer[t].m_KillMe THEN UNCHANGED <<timer, ends, stack>> ELSE Kill(t, stack)
  /\ UNCHANGED <<lists, m_FreeTimers, g_fTimerThink, fresh>>

-----------------------------------------------------------------------------
(* The frame.                                                              *)

GameFrame(dt) ==
  /\ stack = <<>>
  /\ timer' = [t \in Timers |->
                 IF Live(t) THEN [timer[t] EXCEPT !.m_ToExec = @ - dt] ELSE timer[t]]
  /\ g_fTimerThink' = g_fTimerThink - dt
  /\ stack' = <<Call("RunFrame", "loop", First(lists["Single"]), "Single", g_fTimerThink - dt <= 0)>>
  /\ UNCHANGED <<lists, m_FreeTimers, s_tokill, ends, fresh>>

\* A single timer that is not tick-precise waits for the think.
ThisFrame(t, timerThink) == timerThink \/ timer[t].m_Flags.TICK_PRECISE

\* The loop over the list is over: its end, or a single timer of the future.
ListDone ==
  Top.timer # NULL => Top.list = "Single" /\ timer[Top.timer].m_ToExec > 0

InLoop(proc) == stack # <<>> /\ Top.proc = proc /\ Top.pc = "loop"

\* One turn of the loops of RunFrame and ProcessRepeatTimers.
Visit ==
  LET t == Top.timer IN
  /\ InLoop("RunFrame") /\ ~ListDone
  /\ IF timer[t].m_ToExec <= 0 /\ (Top.list = "Single" => ThisFrame(t, Top.flag))
     THEN /\ timer' = [timer EXCEPT ![t].m_InExec = TRUE]
          /\ SetTop([Top EXCEPT !.pc = "OnTimer"])
     ELSE /\ SetTop([Top EXCEPT !.timer = After(lists[Top.list], t)])
          /\ UNCHANGED timer
  /\ UNCHANGED <<lists, m_FreeTimers, s_tokill, g_fTimerThink, ends, fresh>>

NextList ==
  LET l == IF Top.list = "Single" /\ Top.flag THEN "Low" ELSE "High" IN
  /\ InLoop("RunFrame") /\ ListDone
  /\ IF Top.list = "High"
     THEN /\ Pop
          /\ fresh' = {}
          /\ g_fTimerThink' = IF Top.flag THEN CalcNextThink(g_fTimerThink, Accuracy)
                              ELSE g_fTimerThink
     ELSE /\ SetTop([Top EXCEPT !.list = l, !.timer = First(lists[l])])
          /\ UNCHANGED <<g_fTimerThink, fresh>>
  /\ UNCHANGED <<timer, lists, m_FreeTimers, s_tokill, ends>>

-----------------------------------------------------------------------------
(* Callbacks that return.                                                  *)

\* OnTimer returns res.
OnTimerReturns(res) ==
  LET t == Top.timer IN
  /\ stack # <<>> /\ Top.pc = "OnTimer"
  /\ IF ~timer[t].m_Flags.REPEAT \/ timer[t].m_KillMe \/ res = "Pl_Stop"
     THEN /\ SetTop([Top EXCEPT !.pc = "OnTimerEnd"])
          /\ ends' = [ends EXCEPT ![t] = @ + 1]
          /\ UNCHANGED timer
     ELSE IF Top.proc = "RunFrame"
     THEN /\ timer' = [timer EXCEPT ![t].m_InExec = FALSE,
                         ![t].m_ToExec = CalcNextThink(@, timer[t].m_Interval)]
          /\ SetTop([Top EXCEPT !.pc = "loop", !.timer = After(lists[Top.list], t)])
          /\ UNCHANGED ends
     ELSE /\ timer' = [timer EXCEPT ![t].m_InExec = FALSE,
                         ![t].m_ToExec = IF Top.flag THEN timer[t].m_Interval ELSE @]
          /\ Pop
          /\ UNCHANGED ends
  /\ UNCHANGED <<lists, m_FreeTimers, s_tokill, g_fTimerThink, fresh>>

\* OnTimerEnd returns: the timer leaves its list for the free stack.  Of a timer
\* on that stack only m_InExec and m_KillMe are read again (by a late KillTimer
\* of RemoveMapChangeTimers); the rest is forgotten here.
OnTimerEndReturns ==
  LET t == Top.timer IN
  /\ stack # <<>> /\ Top.pc = "OnTimerEnd"
  /\ IF Top.proc = "RunFrame"
     THEN SetTop([Top EXCEPT !.pc = "loop", !.timer = AfterErase(lists[Top.list], t)])
     ELSE Pop
  /\ lists' = [lists EXCEPT ![Top.list] = Filter(@, Timers \ {t})]
  /\ m_FreeTimers' = Append(m_FreeTimers, t)
  /\ timer' = [timer EXCEPT ![t] = [Blank EXCEPT !.m_InExec = TRUE, !.m_KillMe = timer[t].m_KillMe]]
  /\ fresh' = fresh \ {t}
  /\ UNCHANGED <<s_tokill, g_fTimerThink, ends>>

-----------------------------------------------------------------------------
Init ==
  /\ timer = [t \in Timers |-> Blank]
  /\ lists = [l \in ListNames |-> <<>>]
  /\ m_FreeTimers = <<>> /\ s_tokill = <<>>
  /\ g_fTimerThink = 0
  /\ stack = <<>>
  /\ ends = [t \in Timers |-> 0]
  /\ fresh = {}

Clients ==
  \/ \E t \in Timers, i \in Intervals, k \in Kinds : CreateTimer(t, i, k)
  \/ \E t \in Timers, d \in BOOLEAN : FireTimerOnce(t, d)
  \/ \E t \in Timers : KillTimer(t)

Loops == KillCollected \/ Visit \/ NextList
Returns == OnTimerEndReturns \/ \E res \in {"Pl_Continue", "Pl_Stop"} : OnTimerReturns(res)
Frames == \E dt \in Steps : GameFrame(dt)

Next == Clients \/ RemoveMapChangeTimers \/ Frames \/ Loops \/ Returns

Spec == Init /\ [][Next]_vars

\* Frames keep coming, loops go on, and every callback returns at last, however
\* many calls it makes before.
FairSpec ==
  /\ Spec
  /\ SF_vars(Frames) /\ WF_vars(Loops)
  /\ \A d \in 1..(Cardinality(Timers) + 1) : SF_vars(Len(stack) = d /\ Returns)

-----------------------------------------------------------------------------
(* Properties.                                                             *)

\* The types, and calls that nest no deeper than there are timers.
TypeOK ==
  /\ timer \in [Timers -> ITimer]
  /\ lists \in [ListNames -> Seq(Timers)]
  /\ m_FreeTimers \in Seq(Timers) /\ s_tokill \in Seq(Timers)
  /\ g_fTimerThink \in Int
  /\ stack \in Seq(Frame) /\ Len(stack) <= Cardinality(Timers) + 1
  /\ ends \in [Timers -> Nat] /\ fresh \subseteq Timers

Times(t, s) == Cardinality({i \in 1..Len(s) : s[i] = t})

\* A timer object is in one place, once: in the list its flags name, or on the
\* free stack; whatever callbacks do to the lists while they are walked.
OneHome ==
  \A t \in Timers :
    /\ Times(t, lists["Single"]) + Times(t, lists["Low"]) + Times(t, lists["High"])
         + Times(t, m_FreeTimers) <= 1
    /\ Live(t) => t \in Range(lists[ListOf(t)])

\* OnTimerEnd is called once in the life of a timer: not before it ends, not
\* twice when it is killed in its own callback, and before the object is used
\* again.
EndOnce ==
  \A t \in Timers :
    /\ t \in Range(m_FreeTimers) => ends[t] = 1
    /\ Live(t) => ends[t] = IF \E i \in DOMAIN stack :
                                  stack[i].timer = t /\ stack[i].pc = "OnTimerEnd" THEN 1 ELSE 0

\* A call never finds its timer gone when a callback returns: it is still in
\* the list the call walks or will remove it from, and no other call runs it.
InUse ==
  /\ \A i \in DOMAIN stack : stack[i].timer # NULL =>
       /\ stack[i].timer \in Range(lists[stack[i].list])
       /\ stack[i].pc # "loop" => timer[stack[i].timer].m_InExec
       /\ \A j \in DOMAIN stack : stack[j].timer = stack[i].timer => i = j
  /\ \A t \in Timers : Live(t) /\ timer[t].m_InExec => \E i \in DOMAIN stack : stack[i].timer = t

\* Nothing a callback does to the lists takes a timer away from the call that
\* uses it, or leaves it in two places.
ListsOK == TypeOK /\ OneHome /\ InUse

\* m_SingleTimers is sorted, as the loop over it assumes when it stops early
\* (TimerSys.cpp:289).
Sorted ==
  LET s == lists["Single"] IN
  \A i, j \in 1..Len(s) : i <= j => timer[s[i]].m_ToExec <= timer[s[j]].m_ToExec

\* When the loop over the single timers is over, none is left that was due when
\* the frame began and that this frame should fire.
NoneMissed ==
  \A i \in DOMAIN stack :
    stack[i].proc = "RunFrame" /\ stack[i].list # "Single" =>
      \A t \in Range(lists["Single"]) \ fresh :
        timer[t].m_ToExec <= 0 => ~ThisFrame(t, stack[i].flag)

\* However far the time jumps, after the frame the think and the tick-precise
\* repeating timers are at most TIMER_MIN_ACCURACY behind, and the others, which
\* wait for the think, less than twice as far: none fires "a bazillion times".
CatchesUp ==
  stack = <<>> =>
    /\ -g_fTimerThink <= Accuracy
    /\ \A t \in Range(lists["High"]) : -timer[t].m_ToExec <= Accuracy
    /\ \A t \in Range(lists["Low"]) : -timer[t].m_ToExec < 2 * Accuracy

\* A frame comes to its end.
FrameEnds == (stack # <<>> /\ stack[1].proc = "RunFrame") ~> stack = <<>>

\* A single timer fires or is killed some day.
EverySingleEnds ==
  \A t \in Timers : t \in Range(lists["Single"]) ~> t \notin Range(lists["Single"])

\* A frame fires what is due and no more, however late it comes.
TimingOK == Sorted /\ NoneMissed /\ CatchesUp

\* Frames and single timers come to their end.
TimersEnd == FrameEnds /\ EverySingleEnds

=============================================================================
