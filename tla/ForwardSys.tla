----------------------------- MODULE ForwardSys ------------------------------
(***************************************************************************)
(* Forwards (core/logic/ForwardSys.cpp) and the list they keep their       *)
(* functions in (public/ReentrantList.h).                                  *)
(*                                                                         *)
(* Execute walks m_functions and calls into plugins, which may change that *)
(* list, release the forward, pause and load plugins, and execute forwards *)
(* again.  `stack' holds the Execute calls in progress with their list     *)
(* iterators.  List nodes and forwards are heap objects: their addresses   *)
(* are used again.                                                         *)
(*                                                                         *)
(* Parameters and results are data: only C++ code pushes parameters into a *)
(* forward, right before Execute (the natives keep theirs in sArgs), so    *)
(* default_args_ is empty whenever plugin code runs.  Every forward is of  *)
(* the type ET_Hook: a callback may end the walk; with the other types it  *)
(* never does.                                                             *)
(***************************************************************************)
EXTENDS Integers, Sequences, SequencesExt, FiniteSets, Lists

CONSTANTS
  Forwards,     \* addresses of CForward objects
  Nodes,        \* addresses of the nodes of m_functions lists
  Plugins,
  Funcs,        \* the IPluginFunctions
  Owner,        \* function -> its plugin
  Public,       \* the functions that bear the name of the managed forwards
  NULL,
  Habits,       \* "AddInCall": functions are added while forwards execute
  MaxDepth      \* bound on nested Execute calls

ASSUME ForwardAssumption ==
  /\ IsFiniteSet(Funcs) /\ Funcs # {} /\ Public \subseteq Funcs
  /\ Owner \in [Funcs -> Plugins]
  /\ \A f, g \in Public : Owner[f] = Owner[g] => f = g
  /\ NULL \notin Nodes \cup Forwards \cup Plugins
  /\ Habits \subseteq {"AddInCall"}
  /\ MaxDepth \in Nat

VARIABLES
  fwd,      \* the CForward at each address
  func,     \* node -> the function in it
  status,   \* plugin -> "none", "running", "paused" or "error"
  stack     \* the calls in progress, the innermost last: Execute, and the
            \* OnPluginPauseChange that a plugin gets when it is resumed

vars == <<fwd, func, status, stack>>

\* m_paused is never walked across a callback: its nodes have no identity.
CForward ==
  [ alive : BOOLEAN, managed : BOOLEAN, m_ExecDepth : Nat, m_deleted : BOOLEAN,
    m_functions : Seq(Nodes), m_paused : Seq(Funcs) ]

\* An Execute call: its iterator (NULL at the end of the list), and to judge
\* it, the nodes that were there when it began and have not been removed, the
\* nodes it visited, and those it visited twice.  fwd is NULL in the call of
\* SetPauseState to the plugin it resumes.
Frame ==
  [ fwd : Forwards \cup {NULL}, plugin : Plugins \cup {NULL}, pc : {"loop", "call", "stopped"},
    impl_ : Nodes \cup {NULL}, mutated_ : BOOLEAN,
    had : SUBSET Nodes, seen : SUBSET Nodes, twice : SUBSET Nodes ]

Loaded == {p \in Plugins : status[p] # "none"}
IsRunnable(f) == status[Owner[f]] = "running"
Top == Last(stack)

\* Plugins and extensions run between calls and in callbacks.
ClientTurn == stack # <<>> => Top.pc = "call"
MayAdd == stack # <<>> => "AddInCall" \in Habits

\* A client has the forward until it releases it.
Held(w) == fwd[w].alive /\ ~fwd[w].m_deleted

UsedNodes == UNION {Range(fwd[w].m_functions) : w \in Forwards}

-----------------------------------------------------------------------------
(* The list.                                                               *)

First(s) == IF s = <<>> THEN NULL ELSE Head(s)
Index(s, n) == CHOOSE i \in 1..Len(s) : s[i] = n
After(s, n) == IF n = Last(s) THEN NULL ELSE s[Index(s, n) + 1]

\* The first node of s, from n on, that is not in gone.
FirstKept(s, n, gone) ==
  LET left == {i \in Index(s, n)..Len(s) : s[i] \notin gone}
  IN  IF left = {} THEN NULL ELSE s[Min(left)]

\* iterator::remove moves every active iterator that stands on a removed node
\* to the next one and marks it.
Patched(frame, w, gone) ==
  IF frame.fwd = w /\ frame.impl_ \in gone
  THEN [frame EXCEPT !.impl_ = FirstKept(fwd[w].m_functions, @, gone), !.mutated_ = TRUE]
  ELSE frame

\* The calls in progress after the nodes of gone left the list of w.
Removed(w, gone) ==
  [i \in DOMAIN stack |->
     LET frame == Patched(stack[i], w, gone) IN
     IF frame.fwd = w
     THEN [frame EXCEPT !.had = @ \ gone, !.seen = @ \ gone, !.twice = @ \ gone] ELSE frame]

WithoutNodes(s, gone) == Filter(s, Nodes \ gone)

\* The nodes of w that hold functions of plugin p.
NodesOf(w, p) == {n \in Range(fwd[w].m_functions) : Owner[func[n]] = p}

-----------------------------------------------------------------------------
(* Clients.                                                                *)

New(managed, functions, paused) ==
  [ alive |-> TRUE, managed |-> managed, m_ExecDepth |-> 0, m_deleted |-> FALSE,
    m_functions |-> functions, m_paused |-> paused ]

\* AddFunctionsToForward goes over the loaded plugins, running or paused.
CreateForward(w) ==
  /\ ClientTurn /\ MayAdd
  /\ ~fwd[w].alive
  /\ LET running == SetToSeq({f \in Public : IsRunnable(f)})
         paused == SetToSeq({f \in Public : status[Owner[f]] = "paused"})
     IN  \E s \in [DOMAIN running -> Nodes \ UsedNodes] :
           /\ IsInjective(s)
           /\ fwd' = [fwd EXCEPT ![w] = New(TRUE, s, paused)]
           /\ func' = [n \in Nodes |-> IF n \in Range(s) THEN running[Index(s, n)] ELSE func[n]]
  /\ UNCHANGED <<status, stack>>

CreateForwardEx(w) ==
  /\ ClientTurn
  /\ ~fwd[w].alive
  /\ fwd' = [fwd EXCEPT ![w] = New(FALSE, <<>>, <<>>)]
  /\ UNCHANGED <<func, status, stack>>

\* Mutant: the forward is deleted under the calls in progress.
ReleaseAtOnce(w) == [fwd EXCEPT ![w].alive = FALSE]

\* ReleaseForward: deferred while the forward executes.
Release(w) ==
  IF fwd[w].m_ExecDepth > 0 THEN [fwd EXCEPT ![w].m_deleted = TRUE]
  ELSE [fwd EXCEPT ![w] = [New(FALSE, <<>>, <<>>) EXCEPT !.alive = FALSE]]

ReleaseForward(w) ==
  /\ ClientTurn /\ Held(w)
  /\ fwd' = Release(w)
  /\ UNCHANGED <<func, status, stack>>

\* CForward::AddFunction into a free node n.
Add(w, f, n) ==
  IF IsRunnable(f)
  THEN /\ n \notin UsedNodes
       /\ fwd' = [fwd EXCEPT ![w].m_functions = Append(@, n)]
       /\ func' = [func EXCEPT ![n] = f]
  ELSE /\ fwd' = [fwd EXCEPT ![w].m_paused = Append(@, f)]
       /\ UNCHANGED func

\* AddToForward of a private forward.
AddFunction(w, f, n) ==
  /\ ClientTurn /\ MayAdd /\ Held(w) /\ ~fwd[w].managed
  /\ Owner[f] \in Loaded
  /\ f \notin Range(fwd[w].m_paused)       \* a client adds no second copy there
  /\ Add(w, f, n)
  /\ UNCHANGED <<status, stack>>

\* RemoveFromForward: one instance, from the list where the function would go
\* if it were added now.
RemoveFunction(w, f) ==
  LET s == fwd[w].m_functions
      here == {i \in DOMAIN s : func[s[i]] = f}
      gone == IF IsRunnable(f) /\ here # {} THEN {s[Min(here)]} ELSE {}
  IN  /\ ClientTurn /\ Held(w) /\ ~fwd[w].managed
      /\ Owner[f] \in Loaded
      /\ fwd' = IF IsRunnable(f)
                THEN [fwd EXCEPT ![w].m_functions = WithoutNodes(@, gone)]
                ELSE [fwd EXCEPT ![w].m_paused = Filter(@, Funcs \ {f})]
      /\ stack' = Removed(w, gone)
      /\ UNCHANGED <<func, status>>

RemoveFunctionsOfPlugin(w, p) ==
  /\ ClientTurn /\ Held(w) /\ ~fwd[w].managed
  /\ p \in Loaded
  /\ fwd' = [fwd EXCEPT ![w].m_functions = WithoutNodes(@, NodesOf(w, p))]
  /\ stack' = Removed(w, NodesOf(w, p))
  /\ UNCHANGED <<func, status>>

-----------------------------------------------------------------------------
(* Plugins come and go.                                                    *)

Managed == {w \in Forwards : fwd[w].alive /\ fwd[w].managed}

\* The public function of plugin p, if it has one, is added to the forwards
\* into[f]: to their m_functions in free nodes, or to their m_paused.
JoinAll(p, into) ==
  IF \A f \in Public : Owner[f] # p THEN UNCHANGED <<fwd, func>>
  ELSE LET f == CHOOSE f \in Public : Owner[f] = p
           ws == into[f]
       IN  IF status'[p] = "running"
           THEN \E place \in [ws -> Nodes \ UsedNodes] :
                  /\ IsInjective(place)
                  /\ fwd' = [w \in Forwards |-> IF w \in ws
                       THEN [fwd[w] EXCEPT !.m_functions = Append(@, place[w])] ELSE fwd[w]]
                  /\ func' = [n \in Nodes |-> IF n \in Range(place) THEN f ELSE func[n]]
           ELSE /\ fwd' = [w \in Forwards |-> IF w \in ws
                     THEN [fwd[w] EXCEPT !.m_paused = Append(@, f)] ELSE fwd[w]]
                /\ UNCHANGED func

\* The second pass of a load.
OnPluginLoaded(p) ==
  /\ ClientTurn /\ MayAdd
  /\ status[p] = "none"
  /\ status' = [status EXCEPT ![p] = "running"]
  /\ JoinAll(p, [f \in Public |-> Managed])
  /\ UNCHANGED stack

\* Plugins are not unloaded while one executes (PluginSys.cpp:1650-1667).
OnPluginUnloaded(p) ==
  /\ stack = <<>>
  /\ p \in Loaded
  /\ status' = [status EXCEPT ![p] = "none"]
  /\ fwd' = [w \in Forwards |->
               [fwd[w] EXCEPT !.m_functions = WithoutNodes(@, NodesOf(w, p))]]
  /\ UNCHANGED <<func, stack>>

\* SetPauseState(true), after the plugin's own OnPluginPauseChange, and
\* EvictWithError: the forwards keep the functions.
Pause(p, as) ==
  /\ ClientTurn
  /\ status[p] = "running"
  /\ status' = [status EXCEPT ![p] = as]
  /\ UNCHANGED <<fwd, func, stack>>

\* SetPauseState(false): the plugin runs again, and is told so first.
Resume(p) ==
  /\ ClientTurn /\ MayAdd
  /\ status[p] \in {"paused", "error"}
  /\ Len(stack) < MaxDepth
  /\ status' = [status EXCEPT ![p] = "running"]
  /\ stack' = Append(stack,
       [ fwd |-> NULL, plugin |-> p, pc |-> "call", impl_ |-> NULL, mutated_ |-> FALSE,
         had |-> {}, seen |-> {}, twice |-> {} ])
  /\ UNCHANGED <<fwd, func>>

\* Mutant: a registered function joins again.
AllManaged(f) == Managed

\* The managed forwards that do not have f where it would go now.
NotRegistered(f) ==
  {w \in Managed : IF IsRunnable(f) THEN \A n \in Range(fwd[w].m_functions) : func[n] # f
                   ELSE f \notin Range(fwd[w].m_paused)}

\* The rest of SetPauseState: CForwardManager::OnPluginPauseChange.
OnPluginPauseChange ==
  LET p == Top.plugin IN
  /\ stack # <<>> /\ Top.fwd = NULL
  /\ stack' = Front(stack)
  /\ UNCHANGED status
  /\ JoinAll(p, [f \in Public |-> NotRegistered(f)])

-----------------------------------------------------------------------------
(* CForward::Execute.                                                      *)

Entered(w) == [fwd EXCEPT ![w].m_ExecDepth = @ + 1]

Execute(w) ==
  /\ ClientTurn /\ Held(w)
  /\ Len(stack) < MaxDepth
  /\ fwd' = Entered(w)
  /\ stack' = Append(stack,
       [ fwd |-> w, plugin |-> NULL, pc |-> "loop",
         impl_ |-> First(fwd[w].m_functions), mutated_ |-> FALSE,
         had |-> Range(fwd[w].m_functions), seen |-> {}, twice |-> {} ])
  /\ UNCHANGED <<func, status>>

\* Mutant: the iterator goes on though a removal moved it already.
Skipping(frame) ==
  [frame EXCEPT !.mutated_ = FALSE,
                !.impl_ = IF @ = NULL THEN NULL ELSE After(fwd[frame.fwd].m_functions, @)]

\* iterator::next.
Advanced(frame) ==
  IF frame.mutated_ THEN [frame EXCEPT !.mutated_ = FALSE]
  ELSE [frame EXCEPT !.impl_ = After(fwd[frame.fwd].m_functions, @)]

InLoop == stack # <<>> /\ Top.pc = "loop"
SetTop(frame) == stack' = [stack EXCEPT ![Len(stack)] = frame]

\* One turn of the loop: a paused plugin is passed over.
Visit ==
  LET n == Top.impl_
      frame == [Top EXCEPT !.seen = @ \cup {n},
                           !.twice = IF n \in Top.seen THEN @ \cup {n} ELSE @]
  IN  /\ InLoop /\ n # NULL
      /\ SetTop(IF IsRunnable(func[n]) THEN [frame EXCEPT !.pc = "call"] ELSE Advanced(frame))
      /\ UNCHANGED <<fwd, func, status>>

\* The callback returns, with Pl_Stop or not.
Return(stop) ==
  /\ stack # <<>> /\ Top.pc = "call" /\ Top.fwd # NULL
  /\ SetTop(IF stop THEN [Top EXCEPT !.pc = "stopped"] ELSE Advanced([Top EXCEPT !.pc = "loop"]))
  /\ UNCHANGED <<fwd, func, status>>

LastOut(w) == fwd[w].m_ExecDepth = 1 /\ fwd[w].m_deleted

Finish ==
  LET w == Top.fwd IN
  /\ stack # <<>>
  /\ \/ Top.pc = "stopped"
     \/ Top.pc = "loop" /\ Top.impl_ = NULL
  /\ stack' = Front(stack)
  /\ fwd' = IF LastOut(w) THEN [fwd EXCEPT ![w] = [New(FALSE, <<>>, <<>>) EXCEPT !.alive = FALSE]]
            ELSE [fwd EXCEPT ![w].m_ExecDepth = @ - 1]
  /\ UNCHANGED <<func, status>>

-----------------------------------------------------------------------------
Init ==
  /\ fwd = [w \in Forwards |-> [New(FALSE, <<>>, <<>>) EXCEPT !.alive = FALSE]]
  /\ func = [n \in Nodes |-> CHOOSE f \in Funcs : TRUE]
  /\ status = [p \in Plugins |-> "none"]
  /\ stack = <<>>

Clients ==
  \/ \E w \in Forwards :
       \/ CreateForward(w) \/ CreateForwardEx(w) \/ ReleaseForward(w) \/ Execute(w)
       \/ \E f \in Funcs : RemoveFunction(w, f) \/ \E n \in Nodes : AddFunction(w, f, n)
       \/ \E p \in Plugins : RemoveFunctionsOfPlugin(w, p)
  \/ \E p \in Plugins :
       \/ OnPluginLoaded(p) \/ OnPluginUnloaded(p) \/ Resume(p)
       \/ \E as \in {"paused", "error"} : Pause(p, as)

Loop == Visit \/ Finish
Returns == OnPluginPauseChange \/ \E stop \in BOOLEAN : Return(stop)

Next == Clients \/ Loop \/ Returns

Spec == Init /\ [][Next]_vars

-----------------------------------------------------------------------------
(* Properties.                                                             *)

TypeOK ==
  /\ fwd \in [Forwards -> CForward]
  /\ func \in [Nodes -> Funcs]
  /\ status \in [Plugins -> {"none", "running", "paused", "error"}]
  /\ stack \in Seq(Frame) /\ Len(stack) <= MaxDepth

\* An iterator never stands on a removed node, and is never read between a
\* removal and the next next() (the assertion of ReentrantList.h:95).
IteratorsValid ==
  \A i \in DOMAIN stack :
    /\ stack[i].impl_ # NULL => stack[i].impl_ \in Range(fwd[stack[i].fwd].m_functions)
    /\ stack[i].pc = "loop" => ~stack[i].mutated_

\* m_ExecDepth counts the calls in progress: no forward is deleted under one of
\* them, and a released forward is deleted when the last one is over.
DepthOK ==
  \A w \in Forwards :
    /\ fwd[w].m_ExecDepth = Cardinality({i \in DOMAIN stack : stack[i].fwd = w})
    /\ fwd[w].m_ExecDepth > 0 => fwd[w].alive
    /\ fwd[w].m_deleted => fwd[w].m_ExecDepth > 0

\* A call visits every function that is in the list from its beginning to its
\* end, and visits nothing twice, whatever callbacks add and remove.
ExactlyOnce ==
  \A i \in DOMAIN stack :
    /\ stack[i].twice = {}
    /\ stack[i].pc = "loop" /\ stack[i].impl_ = NULL => stack[i].had \subseteq stack[i].seen

\* Only functions of loaded plugins are called.
CallsLoaded ==
  \A w \in Forwards, n \in Nodes :
    n \in Range(fwd[w].m_functions) => Owner[func[n]] \in Loaded

\* However plugins are loaded, paused and resumed around it, a managed forward
\* has the public function of every running plugin, once, unless that plugin is
\* just being told that it is resumed.
ManagedComplete ==
  \A w \in Managed, f \in Public :
    IsRunnable(f) /\ (\A i \in DOMAIN stack : stack[i].plugin # Owner[f])
      => Cardinality({n \in Range(fwd[w].m_functions) : func[n] = f}) = 1

\* A walk over the list stays right though callbacks change the list under it.
WalkOK == IteratorsValid /\ ExactlyOnce

\* Nothing is deleted under a call: neither the forward it runs nor the plugin
\* of a function it may still call.
CallsSafe == TypeOK /\ DepthOK /\ CallsLoaded

=============================================================================
