---------------------------- MODULE TimerNatives -----------------------------
(***************************************************************************)
(* The timers of plugins (core/logic/smn_timers.cpp): a TimerInfo ties a   *)
(* timer of TimerSys to a handle of the handle system and to the data the  *)
(* plugin gave, perhaps a handle that is to be closed with the timer.      *)
(*                                                                         *)
(* A timer ends by its last OnTimer, by KillTimer, by its handle being     *)
(* closed, or with its plugin; each of these ways leads through the        *)
(* others, with plugin code in OnTimer and in the destructor of the data.  *)
(* `stack' is the C++ call stack.                                          *)
(*                                                                         *)
(* Of TimerSys this module keeps what its clients see: m_InExec, m_KillMe, *)
(* the calls to OnTimer and OnTimerEnd, and the reuse of objects.  Of the  *)
(* handle system it keeps that a Handle_t is never valid again once it was *)
(* released, and can be read while its object is being destroyed.          *)
(***************************************************************************)
EXTENDS Integers, Sequences, SequencesExt, FiniteSets

CONSTANTS
  Timers,     \* addresses of ITimer objects
  Infos,      \* addresses of TimerInfo objects
  Data,       \* handles of other types, whose destructor calls plugins
  Plugins,
  DataOwner,  \* the plugin each data handle belongs to
  NULL,
  MaxMade     \* bound on the timer handles made

ASSUME NativesAssumption ==
  /\ Cardinality(Timers) >= Cardinality(Infos)
  /\ NULL \notin Timers \cup Infos \cup Data \cup Plugins \cup Nat
  /\ Data \cap Nat = {} /\ MaxMade \in Nat
  /\ DataOwner \in [Data -> Plugins]

VARIABLES
  timer,          \* the ITimer at each address
  freeTimers,     \* m_FreeTimers of TimerSystem, its top last
  info,           \* the TimerInfo at each address
  m_FreeTimers,   \* of TimerNatives, its top last
  hndl,           \* timer handle -> its state, its TimerInfo and its owner
  data,           \* data handle -> its state
  loaded,         \* the plugins that are loaded
  made,           \* the number of timer handles made
  stack           \* the calls in progress, the innermost last

vars == <<timer, freeTimers, info, m_FreeTimers, hndl, data, loaded, made, stack>>

Handles == 1..MaxMade
BAD_HANDLE == 0
States == {"none", "open", "destroying", "released"}
UserData == Data \cup Handles \cup {NULL}

ITimer ==
  [ live : BOOLEAN, m_InExec : BOOLEAN, m_KillMe : BOOLEAN, repeat : BOOLEAN, m_pData : Infos \cup {NULL} ]

\* close is TIMER_DATA_HNDL_CLOSE.
TimerInfo ==
  [ Timer : Timers \cup {NULL}, Hook : Plugins \cup {NULL}, TimerHandle : Handles \cup {BAD_HANDLE},
    UserData : UserData, close : BOOLEAN ]

\* was: what smn_KillTimer found in the TimerInfo.
Frame ==
  [ proc : {"OnTimer", "OnTimerEnd", "FreeHandle", "FreeData", "KillTimer", "Unload"},
    pc : {"callback", "data", "handle", "info", "release", "killed", "loop"},
    timer : Timers \cup {NULL}, hndl : UserData, info : Infos \cup {NULL}, auto : BOOLEAN,
    was : TimerInfo \cup {NULL}, plugin : Plugins \cup {NULL} ]

Call(proc, pc) ==
  [ proc |-> proc, pc |-> pc, timer |-> NULL, hndl |-> NULL, info |-> NULL, auto |-> FALSE,
    was |-> NULL, plugin |-> NULL ]

Top == Last(stack)
Caller == Front(stack)
At(pc) == [stack EXCEPT ![Len(stack)].pc = pc]

\* Plugin code runs between calls, in OnTimer and in destructors of data.
PluginTurn == stack # <<>> => Top.pc = "callback"
Running(p) == p \in loaded

\* What the handle system lets a plugin use.
Readable(h) == hndl[h].state \in {"open", "destroying"}

\* An object from a free stack, or a new one.
Fresh(S, s, busy) == IF s # <<>> THEN Last(s) ELSE CHOOSE x \in S \ busy : TRUE

LiveTimers == {t \in Timers : timer[t].live}
BusyInfos == {timer[t].m_pData : t \in LiveTimers}

-----------------------------------------------------------------------------
(* TimerSys and the handle system.                                         *)

\* Mutant: the timer is ended though a call uses it.
AlwaysIdle(t) == TRUE

\* Not in a callback of its own.
Idle(t) == ~timer[t].m_InExec

\* The handles p can close.
OwnedBy(p) ==
  {h \in Handles : hndl[h].state = "open" /\ hndl[h].owner = p}
    \cup {d \in Data : data[d] = "open" /\ DataOwner[d] = p}

\* KillTimer of TimerSys: the timer as it is left and the calls that begin.
KilledTimer(t) ==
  IF timer[t].m_KillMe THEN timer[t]
  ELSE IF Idle(t) THEN [timer[t] EXCEPT !.m_InExec = TRUE]
  ELSE [timer[t] EXCEPT !.m_KillMe = TRUE]

EndCall(t) == [Call("OnTimerEnd", "data") EXCEPT !.timer = t]
KillCalls(t) == IF ~timer[t].m_KillMe /\ Idle(t) THEN <<EndCall(t)>> ELSE <<>>

KillTimer(t, rest) ==
  /\ timer' = [timer EXCEPT ![t] = KilledTimer(t)]
  /\ stack' = rest \o KillCalls(t)

\* FreeHandle ignores a handle that is being destroyed and refuses a stale one
\* and one of another owner.
Freeable(h, p) == hndl[h].state = "open" /\ hndl[h].owner = p

\* FreeHandle of a timer handle, which kills the timer, or of a data handle,
\* which calls plugins, on behalf of p.
FreeHandle(x, p, rest) ==
  \/ /\ x \in Handles /\ Freeable(x, p)
     /\ hndl' = [hndl EXCEPT ![x].state = "destroying"]
     /\ KillTimer(info[hndl[x].info].Timer, Append(rest, [Call("FreeHandle", "release") EXCEPT !.hndl = x]))
     /\ UNCHANGED data
  \/ /\ x \in Data /\ data[x] = "open" /\ DataOwner[x] = p
     /\ data' = [data EXCEPT ![x] = "destroying"]
     /\ stack' = Append(rest, [Call("FreeData", "callback") EXCEPT !.hndl = x])
     /\ UNCHANGED <<timer, hndl>>
  \/ /\ x \notin OwnedBy(p)
     /\ stack' = rest /\ UNCHANGED <<timer, hndl, data>>

ReleaseHandle ==
  /\ stack # <<>> /\ Top.pc = "release"
  /\ hndl' = [hndl EXCEPT ![Top.hndl].state = "released"]
  /\ stack' = Caller
  /\ UNCHANGED <<timer, freeTimers, info, m_FreeTimers, data, loaded, made>>

\* The destructor of a data handle returns.
ReleaseData ==
  /\ stack # <<>> /\ Top.proc = "FreeData"
  /\ data' = [data EXCEPT ![Top.hndl] = "released"]
  /\ stack' = Caller
  /\ UNCHANGED <<timer, freeTimers, info, m_FreeTimers, hndl, loaded, made>>

\* RunFrame and FireTimerOnce: a timer in a callback of its own is left alone.
Fire(t) ==
  /\ timer' = [timer EXCEPT ![t].m_InExec = TRUE]
  /\ stack' = Append(stack, [Call("OnTimer", "callback") EXCEPT !.timer = t])

RunFrame(t) ==
  /\ stack = <<>> /\ timer[t].live
  /\ Fire(t)
  /\ UNCHANGED <<freeTimers, info, m_FreeTimers, hndl, data, loaded, made>>

\* RemoveMapChangeTimers.
MapChange(t) ==
  /\ stack = <<>> /\ timer[t].live
  /\ KillTimer(t, stack)
  /\ UNCHANGED <<freeTimers, info, m_FreeTimers, hndl, data, loaded, made>>

\* OnTimer returns, with Pl_Stop or not.
OnTimerReturns(stop) ==
  LET t == Top.timer IN
  /\ stack # <<>> /\ Top.proc = "OnTimer"
  /\ IF timer[t].repeat /\ ~stop /\ ~timer[t].m_KillMe
     THEN timer' = [timer EXCEPT ![t].m_InExec = FALSE] /\ stack' = Caller
     ELSE stack' = Append(Caller, EndCall(t)) /\ UNCHANGED timer
  /\ UNCHANGED <<freeTimers, info, m_FreeTimers, hndl, data, loaded, made>>

-----------------------------------------------------------------------------
(* The natives.                                                            *)

ClosesData(i) == info[i].close

\* Mutant: the TimerInfo is deleted before its data handle is closed.
DeleteFirst ==
  LET i == timer[Top.timer].m_pData IN
  /\ stack # <<>> /\ Top.pc = "data"
  /\ m_FreeTimers' = Append(m_FreeTimers, i)
  /\ IF ClosesData(i) THEN FreeHandle(info[i].UserData, info[i].Hook, At("handle"))
     ELSE stack' = At("handle") /\ UNCHANGED <<timer, hndl, data>>
  /\ UNCHANGED <<freeTimers, info, loaded, made>>

\* OnTimerEnd of TimerNatives, in three steps: the data handle ...
OnTimerEndData ==
  LET i == timer[Top.timer].m_pData IN
  /\ stack # <<>> /\ Top.pc = "data"
  /\ IF ClosesData(i) THEN FreeHandle(info[i].UserData, info[i].Hook, At("handle"))
     ELSE stack' = At("handle") /\ UNCHANGED <<timer, hndl, data>>
  /\ UNCHANGED <<freeTimers, info, m_FreeTimers, loaded, made>>

OwnHandle(i) == info[i].TimerHandle

\* ... the timer's own handle, which kills the timer again ...
OnTimerEndHandle ==
  LET i == timer[Top.timer].m_pData IN
  /\ stack # <<>> /\ Top.pc = "handle"
  /\ FreeHandle(OwnHandle(i), info[i].Hook, At("info"))
  /\ UNCHANGED <<freeTimers, info, m_FreeTimers, loaded, made>>

\* ... and DeleteTimerInfo, upon which TimerSys takes the timer back.
OnTimerEndInfo ==
  LET t == Top.timer IN
  /\ stack # <<>> /\ Top.pc = "info"
  /\ m_FreeTimers' = Append(m_FreeTimers, timer[t].m_pData)
  /\ freeTimers' = Append(freeTimers, t)
  /\ timer' = [timer EXCEPT ![t].live = FALSE]
  /\ stack' = Caller
  /\ UNCHANGED <<info, hndl, data, loaded, made>>

\* Mutant: the timer lives on without a handle.
NoBailOut(t, ok) == <<>>

\* Without a handle the timer is killed at once.
BailOut(t, ok) == IF ok THEN <<>> ELSE <<EndCall(t)>>

\* ok: CreateHandle finds a slot.
CreateTimer(p, repeat, d, close, ok) ==
  LET i == Fresh(Infos, m_FreeTimers, BusyInfos)
      t == Fresh(Timers, freeTimers, LiveTimers)
      h == IF ok THEN made + 1 ELSE BAD_HANDLE
  IN  /\ PluginTurn /\ Running(p)
      /\ Infos \ BusyInfos # {} /\ Timers \ LiveTimers # {} /\ made < MaxMade
      /\ m_FreeTimers' = IF m_FreeTimers = <<>> THEN <<>> ELSE Front(m_FreeTimers)
      /\ freeTimers' = IF freeTimers = <<>> THEN <<>> ELSE Front(freeTimers)
      /\ info' = [info EXCEPT ![i] = [Timer |-> t, Hook |-> p, TimerHandle |-> h, UserData |-> d, close |-> close]]
      /\ timer' = [timer EXCEPT ![t] = [live |-> TRUE, m_InExec |-> ~ok, m_KillMe |-> FALSE, repeat |-> repeat, m_pData |-> i]]
      /\ hndl' = IF ok THEN [hndl EXCEPT ![h] = [state |-> "open", info |-> i, owner |-> p]] ELSE hndl
      /\ made' = made + 1
      /\ stack' = stack \o BailOut(t, ok)
      /\ UNCHANGED <<data, loaded>>

\* KillTimer, up to the call of TimerSys.
smn_KillTimer(p, h, autoClose) ==
  LET i == hndl[h].info IN
  /\ PluginTurn /\ Running(p) /\ Readable(h)
  /\ KillTimer(info[i].Timer,
       Append(stack, [Call("KillTimer", "killed") EXCEPT !.info = i, !.auto = autoClose, !.was = info[i]]))
  /\ UNCHANGED <<freeTimers, info, m_FreeTimers, hndl, data, loaded, made>>

\* And after it: the TimerInfo is read again.
smn_KillTimerData ==
  LET i == Top.info IN
  /\ stack # <<>> /\ Top.pc = "killed"
  /\ IF Top.auto /\ ~info[i].close THEN FreeHandle(info[i].UserData, info[i].Hook, Caller)
     ELSE stack' = Caller /\ UNCHANGED <<timer, hndl, data>>
  /\ UNCHANGED <<freeTimers, info, m_FreeTimers, loaded, made>>

smn_TriggerTimer(p, h) ==
  LET t == info[hndl[h].info].Timer IN
  /\ PluginTurn /\ Running(p) /\ Readable(h) /\ ~timer[t].m_InExec
  /\ Fire(t)
  /\ UNCHANGED <<freeTimers, info, m_FreeTimers, hndl, data, loaded, made>>

CloseHandle(p, x) ==
  /\ PluginTurn /\ Running(p) /\ x \in OwnedBy(p)
  /\ FreeHandle(x, p, stack)
  /\ UNCHANGED <<freeTimers, info, m_FreeTimers, loaded, made>>

\* A plugin is deleted when none of its code is on the stack; the release of
\* its identity frees its handles one by one, here in any order.
Unload(p) ==
  /\ stack = <<>> /\ p \in loaded
  /\ stack' = <<[Call("Unload", "loop") EXCEPT !.plugin = p]>>
  /\ UNCHANGED <<timer, freeTimers, info, m_FreeTimers, hndl, data, loaded, made>>

UnloadLoop ==
  LET p == Top.plugin IN
  /\ stack # <<>> /\ Top.pc = "loop"
  /\ IF OwnedBy(p) # {}
     THEN (\E x \in OwnedBy(p) : FreeHandle(x, p, stack)) /\ UNCHANGED loaded
     ELSE loaded' = loaded \ {p} /\ stack' = Caller /\ UNCHANGED <<timer, hndl, data>>
  /\ UNCHANGED <<freeTimers, info, m_FreeTimers, made>>

-----------------------------------------------------------------------------
Init ==
  /\ timer = [t \in Timers |-> [live |-> FALSE, m_InExec |-> FALSE, m_KillMe |-> FALSE, repeat |-> FALSE, m_pData |-> NULL]]
  /\ info = [i \in Infos |-> [Timer |-> NULL, Hook |-> NULL, TimerHandle |-> BAD_HANDLE, UserData |-> NULL, close |-> FALSE]]
  /\ freeTimers = <<>> /\ m_FreeTimers = <<>>
  /\ hndl = [h \in Handles |-> [state |-> "none", info |-> NULL, owner |-> NULL]]
  /\ data = [d \in Data |-> "open"]
  /\ loaded = Plugins /\ made = 0 /\ stack = <<>>

\* A plugin hands over a data handle or the handle of another timer.
Offered == {NULL} \cup Data \cup {h \in Handles : hndl[h].state # "none"}

Plugin(p) ==
  \/ \E repeat, close, ok \in BOOLEAN, d \in Offered : CreateTimer(p, repeat, d, close, ok)
  \/ \E h \in Handles : smn_TriggerTimer(p, h) \/ \E auto \in BOOLEAN : smn_KillTimer(p, h, auto)
  \/ \E x \in Handles \cup Data : CloseHandle(p, x)

Next ==
  \/ \E p \in Plugins : Plugin(p) \/ Unload(p)
  \/ \E t \in Timers : RunFrame(t) \/ MapChange(t)
  \/ (\E stop \in BOOLEAN : OnTimerReturns(stop))
  \/ ReleaseHandle \/ ReleaseData \/ OnTimerEndData \/ OnTimerEndHandle \/ OnTimerEndInfo
  \/ smn_KillTimerData \/ UnloadLoop

Spec == Init /\ [][Next]_vars

-----------------------------------------------------------------------------
(* Properties.                                                             *)

TypeOK ==
  /\ timer \in [Timers -> ITimer] /\ info \in [Infos -> TimerInfo]
  /\ freeTimers \in Seq(Timers) /\ m_FreeTimers \in Seq(Infos)
  /\ hndl \in [Handles -> [state : States, info : Infos \cup {NULL}, owner : Plugins \cup {NULL}]]
  /\ \A h \in Handles : hndl[h].state # "none" => hndl[h].info # NULL /\ hndl[h].owner # NULL
  /\ data \in [Data -> States] /\ loaded \subseteq Plugins /\ made \in 0..MaxMade
  /\ stack \in Seq(Frame)

\* Every TimerInfo that was handed out is on the free stack once or belongs to
\* one timer, and never both: it is deleted once, however a timer ends in the
\* middle of another way to end it.
InfoHome ==
  /\ IsInjective(m_FreeTimers)
  /\ \A t, u \in LiveTimers : timer[t].m_pData = timer[u].m_pData => t = u
  /\ BusyInfos \cap Range(m_FreeTimers) = {}
  /\ {i \in Infos : info[i].Timer # NULL} = BusyInfos \cup Range(m_FreeTimers)

\* A handle a plugin can read leads to a TimerInfo in use and to its own timer,
\* so KillTimer and TriggerTimer never hit another one.
ReadableIsLive ==
  PluginTurn => \A h \in Handles : Readable(h) =>
    LET i == hndl[h].info  t == info[i].Timer IN
    i \in BusyInfos /\ info[i].TimerHandle = h /\ timer[t].live /\ timer[t].m_pData = i

\* smn_KillTimer reads the TimerInfo after KillTimer has deleted it
\* (smn_timers.cpp:254); it finds what it left there.
KillReadsOwn == stack # <<>> /\ Top.pc = "killed" => info[Top.info] = Top.was

\* Between calls every timer has a handle of a plugin that is loaded: none is
\* left that a plugin cannot close and whose Hook dangles after an unload.
EveryTimerOwned ==
  stack = <<>> => \A t \in LiveTimers :
    LET i == timer[t].m_pData IN
    /\ info[i].TimerHandle # BAD_HANDLE /\ hndl[info[i].TimerHandle].state = "open"
    /\ info[i].Hook \in loaded

\* TIMER_DATA_HNDL_CLOSE: when a timer is gone so is its data handle, if it
\* was the plugin's.
DataClosed ==
  stack = <<>> => \A i \in Range(m_FreeTimers) : info[i].close => info[i].UserData \notin OwnedBy(info[i].Hook)

\* Timer, TimerInfo, handle and data handle live and die together, whichever of
\* them is closed first and from which callback.
TimerHandlesOK == TypeOK /\ ReadableIsLive /\ EveryTimerOwned /\ DataClosed

=============================================================================
