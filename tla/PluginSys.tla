------------------------------ MODULE PluginSys ------------------------------
(***************************************************************************)
(* The plugin manager (core/logic/PluginSys.cpp, frame_tasks.cpp and the   *)
(* native ownership of ShareSys.cpp and NativeOwner.cpp): how a CPlugin is *)
(* loaded, linked to the natives of other plugins, evicted, unloaded and   *)
(* reloaded, while plugin code on the call stack may ask for any of these  *)
(* ("sm plugins ..." through ServerCommandEx runs at once).                *)
(*                                                                         *)
(* A CPlugin is a number, its address; `freed' are those of no object now. *)
(* `stack' is the C++ call stack.  Between two steps of it the plugin code *)
(* in an "Exec" frame, or the server console when the stack is empty, has  *)
(* its turn.  There is one native that a plugin of Providers creates in    *)
(* AskPluginLoad and that those of Users cannot do without.                *)
(***************************************************************************)
EXTENDS Integers, Sequences, SequencesExt, FiniteSetsExt

CONSTANTS
  Files,        \* the files in the plugins directory
  Providers,    \* those that create the native
  Users,        \* those that need it
  NULL,
  Habits,       \* what plugins do besides: see below
  MaxPlugins,   \* bound on the CPlugin objects at a time
  MaxCalls,     \* bound on the calls plugins and the console make
  MaxDepth      \* bound on the stack when one of them is made

\* "CallUnlisted": a plugin that is not in the list, in AskPluginLoad or while it
\*   is unloaded, calls the manager.
\* "LoadTwice": a file is loaded while an earlier plugin of it is still to be
\*   unloaded, or an earlier load of it still runs.
\* "UnloadEvicted": plugin code unloads an evicted plugin, or one that LoadAll
\*   is to start and may evict.
\* "FailNatives": AskPluginLoad fails after creating the native.
\* "FailInStart": a plugin fails while another one is started or evicted.
\* "FailInPause": a plugin fails in the OnPluginPauseChange that it gets because
\*   one it depends on fails.
ASSUME PluginAssumption ==
  /\ Providers \subseteq Files /\ Users \subseteq Files \ Providers
  /\ Habits \subseteq {"CallUnlisted", "LoadTwice", "UnloadEvicted", "FailNatives", "FailInStart", "FailInPause"}
  /\ {MaxPlugins, MaxCalls, MaxDepth} \subseteq Nat

VARIABLES
  plugin,         \* the CPlugin objects
  freed,          \* the addresses of no object
  m_plugins,      \* the plugin list
  m_LoadLookup,   \* file -> its plugin
  m_NtvCache,     \* the owner of the native, or NULL
  sNextTasks,     \* the tasks for the next frame
  sWorkTasks,     \* the tasks of this frame that are left
  heard,          \* what the listeners heard of each plugin
  calls,          \* the number of calls made
  down,           \* after Shutdown
  stack

vars == <<plugin, freed, m_plugins, m_LoadLookup, m_NtvCache, sNextTasks, sWorkTasks,
          heard, calls, down, stack>>

Objs == 1..MaxPlugins
Statuses == {"Running", "Paused", "Error", "Loaded", "Failed", "BadLoad"}
PluginState == {"Unregistered", "Registered", "WaitingToUnload", "WaitingToUnloadAndReload", "Evicted"}

\* bound: the plugin whose native it is bound to; missing: m_FakeNativesMissing;
\* entered: m_EnteredSecondPass; all: m_bGotAllLoaded.
CPlugin ==
  [ file : Files, m_status : Statuses, m_state : PluginState, m_Dependents : Seq(Objs), m_fakes : BOOLEAN,
    bound : Objs \cup {NULL}, missing : BOOLEAN, entered : BOOLEAN, all : BOOLEAN ]

NewPlugin(f) ==
  [ file |-> f, m_status |-> "Loaded", m_state |-> "Unregistered", m_Dependents |-> <<>>, m_fakes |-> FALSE,
    bound |-> NULL, missing |-> FALSE, entered |-> FALSE, all |-> FALSE ]

\* Tasks capture the plugin, or its file and its place in the list.
UnloadTask(p) == [proc |-> "UnloadPluginImpl", pl |-> p, file |-> NULL, id |-> 0]
ReloadTask(f, id) == [proc |-> "ReloadPluginImpl", pl |-> NULL, file |-> f, id |-> id]

Frame ==
  [ proc : {"Exec", "LoadPlugin", "RunSecondPass", "UnloadPluginImpl", "ReloadPluginImpl", "Purge",
            "DropEverything", "LoadAll", "FrameTasks", "Shutdown"},
    pc : {"run", "pausing", "failing", "compile", "asked", "evict", "started", "loaded", "link", "start", "failed",
          "rebind", "begin", "delete", "load", "place", "end", "notify", "unloaded", "destroyed", "loop",
          "paused", "refresh", "first", "second", "seconded", "all"},
    pl : Objs \cup {NULL}, file : Files \cup {NULL}, id : Nat,
    ok : BOOLEAN,            \* what the last call returned
    auto : BOOLEAN,          \* LoadAutoPlugin
    visited : SUBSET (Objs \cup Files) ]

Call(proc, pc, p) ==
  [ proc |-> proc, pc |-> pc, pl |-> p, file |-> NULL, id |-> 0, ok |-> TRUE, auto |-> FALSE, visited |-> {} ]

Exec(p) == Call("Exec", "run", p)

Top == Last(stack)
In(proc, pc) == stack # <<>> /\ Top.proc = proc /\ Top.pc = pc
At(pc) == [stack EXCEPT ![Len(stack)].pc = pc]
Visit(pc, x) == [stack EXCEPT ![Len(stack)].pc = pc, ![Len(stack)].visited = @ \cup {x}]

\* The innermost call returns ok to its caller.
Return(ok) == IF Len(stack) = 1 THEN <<>> ELSE [Front(stack) EXCEPT ![Len(stack) - 1].ok = ok]

Listed == Range(m_plugins)
Executing == {stack[i].pl : i \in {j \in DOMAIN stack : stack[j].proc = "Exec"}}
Waiting(p) == plugin[p].m_state \in {"WaitingToUnload", "WaitingToUnloadAndReload"}

Status(p) == IF plugin[p].m_state = "Evicted" THEN "Evicted" ELSE plugin[p].m_status

\* The next plugin of the list for a loop: ReentrantList lets it change.
Left == SelectSeq(m_plugins, LAMBDA p : p \notin Top.visited)

-----------------------------------------------------------------------------
(* Unloading.                                                              *)

\* Mutant: only the plugin itself is looked for on the call stack.
OwnActive(p) == p \in Executing

\* Any plugin of the list whose context IsInExec.
AnyActive(p) == Executing \cap Listed # {}

\* Mutant: a plugin in the unload queue is unloaded again.
QueueAgain(p) == FALSE

Queued(p) == Waiting(p)

\* Mutant: the plugin is marked and no task scheduled.
Unscheduled(p) == sNextTasks

ScheduleUnload(p) == Append(sNextTasks, UnloadTask(p))

\* UnloadPlugin on top of the calls in rest.
UnloadPlugin(p, rest) ==
  IF Queued(p) THEN stack' = rest /\ UNCHANGED <<plugin, sNextTasks>>
  ELSE IF AnyActive(p)
  THEN /\ plugin' = [plugin EXCEPT ![p].m_state = "WaitingToUnload"]
       /\ sNextTasks' = ScheduleUnload(p)
       /\ stack' = rest
  ELSE stack' = Append(rest, Call("UnloadPluginImpl", "begin", p)) /\ UNCHANGED <<plugin, sNextTasks>>

\* Mutant: the file is still found.
LookupStays(p) == m_LoadLookup

LookupRemoved(p) == [m_LoadLookup EXCEPT ![plugin[p].file] = NULL]

\* Mutant: an evicted plugin is purged like the others.
NeverPurged(p) == FALSE

\* An evicted plugin was purged before.
Purged(p) == plugin[p].m_state = "Evicted"

\* UnloadPluginImpl: off the lists.
UnloadPluginImpl ==
  LET p == Top.pl IN
  /\ In("UnloadPluginImpl", "begin")
  /\ m_plugins' = SelectSeq(m_plugins, LAMBDA q : q # p)
  /\ m_LoadLookup' = LookupRemoved(p)
  /\ stack' = IF Purged(p) THEN At("delete")
              ELSE Append(At("delete"), Call("Purge", "end", p))
  /\ UNCHANGED <<plugin, freed, m_NtvCache, sNextTasks, sWorkTasks, heard, calls, down>>

\* Loops have not seen the plugin that takes the address next.
Unseen(p, s) == [i \in DOMAIN s |-> [s[i] EXCEPT !.visited = @ \ {p}]]

UnloadPluginDelete ==
  /\ In("UnloadPluginImpl", "delete")
  /\ freed' = freed \cup {Top.pl}
  /\ stack' = Unseen(Top.pl, Return(TRUE))
  /\ UNCHANGED <<plugin, m_plugins, m_LoadLookup, m_NtvCache, sNextTasks, sWorkTasks, heard, calls, down>>

\* Purge, first OnPluginEnd ...
PurgeEnd ==
  /\ In("Purge", "end")
  /\ stack' = IF Status(Top.pl) = "Running" THEN Append(At("notify"), Exec(Top.pl)) ELSE At("notify")
  /\ UNCHANGED <<plugin, freed, m_plugins, m_LoadLookup, m_NtvCache, sNextTasks, sWorkTasks, heard, calls, down>>

\* ... then OnNotifyPluginUnloaded in the plugins that have it, of which it may
\* be one itself ...
PurgeNotify ==
  /\ In("Purge", "notify")
  /\ \/ stack' = At("unloaded")
     \/ \E q \in (Listed \cup {Top.pl}) \ Top.visited :
          Status(q) = "Running" /\ stack' = Append(Visit("notify", q), Exec(q))
  /\ UNCHANGED <<plugin, freed, m_plugins, m_LoadLookup, m_NtvCache, sNextTasks, sWorkTasks, heard, calls, down>>

\* ... then OnPluginUnloaded and DropEverything ...
PurgeUnloaded ==
  LET p == Top.pl IN
  /\ In("Purge", "unloaded")
  /\ heard' = IF plugin[p].entered THEN [heard EXCEPT ![p] = Append(@, "Unloaded")] ELSE heard
  /\ stack' = Append(At("destroyed"), Call("DropEverything", "loop", p))
  /\ UNCHANGED <<plugin, freed, m_plugins, m_LoadLookup, m_NtvCache, sNextTasks, sWorkTasks, calls, down>>

\* ... and OnPluginDestroyed.
PurgeDestroyed ==
  /\ In("Purge", "destroyed")
  /\ heard' = [heard EXCEPT ![Top.pl] = Append(@, "Destroyed")]
  /\ stack' = Return(TRUE)
  /\ UNCHANGED <<plugin, freed, m_plugins, m_LoadLookup, m_NtvCache, sNextTasks, sWorkTasks, calls, down>>

\* FinishEviction: the runtime goes, the object stays.
FinishEviction(p) ==
  plugin' = [plugin EXCEPT ![p].m_state = "Evicted", ![p].bound = NULL, ![p].all = FALSE]

-----------------------------------------------------------------------------
(* Dependencies.                                                           *)

\* BindNativesToPlugin: the owner of the native, if there is one and p is not
\* bound, gets a dependent.
Bound(p) ==
  LET o == m_NtvCache IN
  IF o = NULL \/ plugin[p].bound # NULL THEN plugin
  ELSE [plugin EXCEPT ![p].bound = o, ![o].m_Dependents = IF p \in Range(@) THEN @ ELSE Append(@, p)]

\* The native of p is taken from q.
Unbound(p, q) ==
  IF plugin[p].m_fakes THEN [plugin[q] EXCEPT !.bound = NULL, !.missing = TRUE] ELSE plugin[q]

\* What a list iterator at q has before it; at 0 it has not begun.
After(q, list) == IF q = 0 THEN list ELSE SubSeq(list, 1 + CHOOSE i \in DOMAIN list : list[i] = q, Len(list))

ToldOf(q, pc) == [stack EXCEPT ![Len(stack)].pc = pc, ![Len(stack)].id = q]

\* DropEverything walks the dependents, a std::list, with an iterator: each is
\* told, DependencyDropped, where EvictWithError pauses a running plugin first.
DropLoop ==
  LET p == Top.pl
      todo == After(Top.id, plugin[p].m_Dependents)
      q == Head(todo)
      hit == Unbound(p, q)
  IN  /\ In("DropEverything", "loop") /\ todo # <<>>
      /\ IF plugin[q].m_state = "Evicted" \/ ~hit.missing
         THEN stack' = ToldOf(q, "loop") /\ UNCHANGED plugin
         ELSE IF plugin[q].m_status = "Running"
         THEN plugin' = [plugin EXCEPT ![q] = hit] /\ stack' = Append(ToldOf(q, "paused"), Exec(q))
         ELSE plugin' = [plugin EXCEPT ![q] = [hit EXCEPT !.m_status = "Error"]] /\ stack' = ToldOf(q, "loop")
      /\ UNCHANGED <<freed, m_plugins, m_LoadLookup, m_NtvCache, sNextTasks, sWorkTasks, heard, calls, down>>

\* OnPluginPauseChange of the dependent has returned.
DropPaused ==
  /\ In("DropEverything", "paused")
  /\ plugin' = [plugin EXCEPT ![Top.id].m_status = "Error"]
  /\ stack' = At("loop")
  /\ UNCHANGED <<freed, m_plugins, m_LoadLookup, m_NtvCache, sNextTasks, sWorkTasks, heard, calls, down>>

\* Mutant: a plugin that goes stays in the lists of those it depended on.
RefsStay(p) == plugin

\* DropRefsTo for the plugins of the list.
RefsDropped(p) ==
  [q \in Objs |-> IF q \in Listed
                  THEN [plugin[q] EXCEPT !.m_Dependents = SelectSeq(@, LAMBDA r : r # p)] ELSE plugin[q]]

DropRest ==
  LET p == Top.pl IN
  /\ In("DropEverything", "loop")
  /\ After(Top.id, plugin[p].m_Dependents) = <<>>
  /\ plugin' = [RefsDropped(p) EXCEPT ![p].m_fakes = FALSE]
  /\ m_NtvCache' = IF m_NtvCache = p THEN NULL ELSE m_NtvCache
  /\ stack' = Return(TRUE)
  /\ UNCHANGED <<freed, m_plugins, m_LoadLookup, sNextTasks, sWorkTasks, heard, calls, down>>

-----------------------------------------------------------------------------
(* Loading.                                                                *)

\* What LoadPlugin does with the plugin the file has already.
Retried(p) == Status(p) \in {"BadLoad", "Error", "Failed"}

LoadCall(f, auto) == [Call("LoadPlugin", "compile", NULL) EXCEPT !.file = f, !.auto = auto]

\* Of a file that is loaded, LoadPlugin answers so.
LoadPlugin(f, auto, rest) ==
  LET cur == m_LoadLookup[f] IN
  IF cur = NULL THEN stack' = Append(rest, LoadCall(f, auto)) /\ UNCHANGED <<plugin, sNextTasks>>
  ELSE IF Retried(cur) THEN UnloadPlugin(cur, Append(rest, LoadCall(f, auto)))
  ELSE stack' = rest /\ UNCHANGED <<plugin, sNextTasks>>

\* CompileAndPrep, and AskPluginLoad if it compiled.
Compile(bad) ==
  LET p == Min(freed) IN
  /\ In("LoadPlugin", "compile")
  /\ freed' = freed \ {p}
  /\ plugin' = [plugin EXCEPT ![p] = [NewPlugin(Top.file) EXCEPT !.m_status = IF bad THEN "BadLoad" ELSE "Loaded"]]
  /\ heard' = [heard EXCEPT ![p] = <<>>]
  /\ stack' = LET s == [At("asked") EXCEPT ![Len(stack)].pl = p, ![Len(stack)].ok = ~bad] IN
              IF bad THEN s ELSE Append(s, Exec(p))
  /\ UNCHANGED <<m_plugins, m_LoadLookup, m_NtvCache, sNextTasks, sWorkTasks, calls, down>>

\* AskPluginLoad failed: EvictWithError; then "sm plugins load" deletes the
\* plugin, and LoadAll keeps it.
LoadFails ==
  LET p == Top.pl IN
  /\ In("LoadPlugin", "asked") /\ ~Top.ok /\ ~Top.auto
  /\ freed' = freed \cup {p}
  /\ stack' = Return(FALSE)
  /\ UNCHANGED <<plugin, m_plugins, m_LoadLookup, m_NtvCache, sNextTasks, sWorkTasks, heard, calls, down>>

\* IsLateLoadTime: surely so unless LoadAll is loading plugins.
LateLoadTime == IF \E i \in DOMAIN stack : stack[i].pc \in {"first", "second", "seconded"} THEN BOOLEAN ELSE {TRUE}

\* AddPlugin; one that failed is purged and evicted.
AddPlugin(late) ==
  LET p == Top.pl
      status == IF Top.ok \/ plugin[p].m_status = "BadLoad" THEN plugin[p].m_status ELSE "Failed"
  IN  /\ In("LoadPlugin", "asked") /\ (~Top.ok => Top.auto) /\ late \in LateLoadTime
      /\ m_plugins' = Append(m_plugins, p)
      /\ m_LoadLookup' = [m_LoadLookup EXCEPT ![plugin[p].file] = IF @ = NULL THEN p ELSE @]
      /\ plugin' = [plugin EXCEPT ![p].m_state = "Registered", ![p].m_status = status]
      /\ heard' = [heard EXCEPT ![p] = Append(@, "Created")]
      /\ stack' = CASE status = "Failed" -> Append(At("evict"), Call("Purge", "end", p))
                    [] status # "Failed" /\ Top.auto -> Return(TRUE)
                    [] OTHER -> IF late THEN Append(At("started"), Call("RunSecondPass", "link", p))
                                ELSE At("loaded")
      /\ UNCHANGED <<freed, m_NtvCache, sNextTasks, sWorkTasks, calls, down>>

AddPluginEvict ==
  /\ In("LoadPlugin", "evict")
  /\ FinishEviction(Top.pl)
  /\ stack' = Return(FALSE)
  /\ UNCHANGED <<freed, m_plugins, m_LoadLookup, m_NtvCache, sNextTasks, sWorkTasks, heard, calls, down>>

\* The second pass failed: LoadPlugin unloads the plugin.
LoadUnstarted ==
  /\ In("LoadPlugin", "started") /\ ~Top.ok
  /\ UnloadPlugin(Top.pl, Return(FALSE))
  /\ UNCHANGED <<freed, m_plugins, m_LoadLookup, m_NtvCache, sWorkTasks, heard, calls, down>>

\* Call_OnAllPluginsLoaded, once for a plugin that can run.
AllLoaded(p, s) ==
  IF Status(p) \in {"Running", "Paused"} /\ ~plugin[p].all
  THEN plugin' = [plugin EXCEPT ![p].all = TRUE] /\ stack' = Append(s, Exec(p))
  ELSE stack' = s /\ UNCHANGED plugin

LoadStarted ==
  /\ In("LoadPlugin", "started") /\ Top.ok
  /\ AllLoaded(Top.pl, At("loaded"))
  /\ UNCHANGED <<freed, m_plugins, m_LoadLookup, m_NtvCache, sNextTasks, sWorkTasks, heard, calls, down>>

\* The caller of a reload gets the plugin.
LoadReturns ==
  LET s == Return(TRUE) IN
  /\ In("LoadPlugin", "loaded")
  /\ stack' = IF s # <<>> /\ Last(s).proc = "ReloadPluginImpl" THEN [s EXCEPT ![Len(s)].pl = Top.pl] ELSE s
  /\ UNCHANGED <<plugin, freed, m_plugins, m_LoadLookup, m_NtvCache, sNextTasks, sWorkTasks, heard, calls, down>>

\* The binding pass of RunSecondPass.
Linked(p) == IF plugin[p].file \in Users THEN Bound(p) ELSE plugin

\* RunSecondPass: an extension or a library is missing, or after the binding
\* pass this native or another one ...
LinkFails ==
  /\ In("RunSecondPass", "link")
  /\ \E P \in {plugin, Linked(Top.pl)} : plugin' = [P EXCEPT ![Top.pl].m_status = "Failed"]
  /\ stack' = Return(FALSE)
  /\ UNCHANGED <<freed, m_plugins, m_LoadLookup, m_NtvCache, sNextTasks, sWorkTasks, heard, calls, down>>

\* ... or the plugin is bound, announced and started.
Link ==
  LET p == Top.pl
      P == Linked(p)
  IN  /\ In("RunSecondPass", "link")
      /\ plugin[p].file \in Users => P[p].bound # NULL
      /\ plugin' = [P EXCEPT ![p].m_status = "Running", ![p].entered = TRUE]
      /\ heard' = [heard EXCEPT ![p] = Append(@, "Loaded")]
      /\ stack' = Append(At("start"), Exec(p))
      /\ UNCHANGED <<freed, m_plugins, m_LoadLookup, m_NtvCache, sNextTasks, sWorkTasks, calls, down>>

InError(p) == [plugin EXCEPT ![p].m_status = "Error"]

\* OnPluginStart failed: EvictWithError, with OnPluginPauseChange if it runs.
StartFails ==
  LET p == Top.pl IN
  /\ In("RunSecondPass", "start") /\ ~Top.ok
  /\ stack' = IF plugin[p].m_status = "Running" THEN Append(At("failed"), Exec(p)) ELSE At("failed")
  /\ UNCHANGED <<plugin, freed, m_plugins, m_LoadLookup, m_NtvCache, sNextTasks, sWorkTasks, heard, calls, down>>

StartFailed ==
  /\ In("RunSecondPass", "failed")
  /\ plugin' = InError(Top.pl)
  /\ stack' = Return(FALSE)
  /\ UNCHANGED <<freed, m_plugins, m_LoadLookup, m_NtvCache, sNextTasks, sWorkTasks, heard, calls, down>>

\* With natives of its own, the plugin is offered to those that miss one ...
Started ==
  /\ In("RunSecondPass", "start") /\ Top.ok
  /\ stack' = IF plugin[Top.pl].m_fakes THEN At("rebind") ELSE Return(TRUE)
  /\ UNCHANGED <<plugin, freed, m_plugins, m_LoadLookup, m_NtvCache, sNextTasks, sWorkTasks, heard, calls, down>>

\* ... by TryRefreshDependencies, which resumes a plugin in error that has all
\* its natives again (no plugin still runs that does not get them).
Refresh ==
  LET q == Head(Left)
      P == Bound(q)
      resumes == P[q].bound # NULL /\ plugin[q].m_status = "Error"
  IN  /\ In("RunSecondPass", "rebind") /\ Left # <<>>
      /\ IF ~plugin[q].missing \/ plugin[q].m_state = "Evicted"
         THEN stack' = Visit("rebind", q) /\ UNCHANGED plugin
         ELSE /\ plugin' = [P EXCEPT ![q].m_status = IF P[q].bound = NULL THEN "Error"
                                                   ELSE IF resumes THEN "Running" ELSE @]
              /\ stack' = IF resumes THEN Append(Visit("rebind", q), Exec(q)) ELSE Visit("rebind", q)
      /\ UNCHANGED <<freed, m_plugins, m_LoadLookup, m_NtvCache, sNextTasks, sWorkTasks, heard, calls, down>>

SecondPassEnds ==
  /\ In("RunSecondPass", "rebind") /\ Left = <<>>
  /\ stack' = Return(TRUE)
  /\ UNCHANGED <<plugin, freed, m_plugins, m_LoadLookup, m_NtvCache, sNextTasks, sWorkTasks, heard, calls, down>>

-----------------------------------------------------------------------------
(* LoadAll, with RefreshAll before it.                                     *)

LoadAll ==
  /\ stack = <<>> /\ ~down /\ calls < MaxCalls
  /\ sNextTasks # <<>> => "LoadTwice" \in Habits
  /\ calls' = calls + 1
  /\ stack' = <<Call("LoadAll", "refresh", NULL)>>
  /\ UNCHANGED <<plugin, freed, m_plugins, m_LoadLookup, m_NtvCache, sNextTasks, sWorkTasks, heard, down>>

\* RefreshAll unloads a plugin whose file is newer.
RefreshAll(newer) ==
  /\ In("LoadAll", "refresh") /\ Left # <<>>
  /\ IF newer THEN UnloadPlugin(Head(Left), Visit("refresh", Head(Left)))
     ELSE stack' = Visit("refresh", Head(Left)) /\ UNCHANGED <<plugin, sNextTasks>>
  /\ UNCHANGED <<freed, m_plugins, m_LoadLookup, m_NtvCache, sWorkTasks, heard, calls, down>>

\* LoadAll_FirstPass, in the order of the directory.
FirstPass(f) ==
  /\ In("LoadAll", "first") /\ f \notin Top.visited
  /\ LoadPlugin(f, TRUE, Visit("first", f))
  /\ UNCHANGED <<freed, m_plugins, m_LoadLookup, m_NtvCache, sWorkTasks, heard, calls, down>>

\* LoadAll_SecondPass.
SecondPass ==
  LET q == Head(Left) IN
  /\ In("LoadAll", "second") /\ Left # <<>>
  /\ stack' = IF Status(q) = "Loaded"
              THEN Append([Visit("seconded", q) EXCEPT ![Len(stack)].pl = q], Call("RunSecondPass", "link", q))
              ELSE Visit("second", q)
  /\ UNCHANGED <<plugin, freed, m_plugins, m_LoadLookup, m_NtvCache, sNextTasks, sWorkTasks, heard, calls, down>>

\* A plugin that did not start is purged and evicted.
Seconded ==
  /\ In("LoadAll", "seconded")
  /\ stack' = IF Top.ok THEN At("second") ELSE Append(At("evict"), Call("Purge", "end", Top.pl))
  /\ UNCHANGED <<plugin, freed, m_plugins, m_LoadLookup, m_NtvCache, sNextTasks, sWorkTasks, heard, calls, down>>

SecondEvict ==
  /\ In("LoadAll", "evict")
  /\ FinishEviction(Top.pl)
  /\ stack' = At("second")
  /\ UNCHANGED <<freed, m_plugins, m_LoadLookup, m_NtvCache, sNextTasks, sWorkTasks, heard, calls, down>>

AllPluginsLoaded ==
  /\ In("LoadAll", "all") /\ Left # <<>>
  /\ AllLoaded(Head(Left), Visit("all", Head(Left)))
  /\ UNCHANGED <<freed, m_plugins, m_LoadLookup, m_NtvCache, sNextTasks, sWorkTasks, heard, calls, down>>

\* A loop ends and the next begins.
LoadAllNext ==
  LET To(pc) == <<[Top EXCEPT !.pc = pc, !.visited = {}, !.pl = NULL]>> IN
  /\ \/ In("LoadAll", "refresh") /\ Left = <<>> /\ stack' = To("first")
     \/ In("LoadAll", "first") /\ Files \subseteq Top.visited /\ stack' = To("second")
     \/ In("LoadAll", "second") /\ Left = <<>> /\ stack' = To("all")
     \/ In("LoadAll", "all") /\ Left = <<>> /\ stack' = <<>>
  /\ UNCHANGED <<plugin, freed, m_plugins, m_LoadLookup, m_NtvCache, sNextTasks, sWorkTasks, heard, calls, down>>

-----------------------------------------------------------------------------
(* Reloading, the frame tasks and Shutdown.                                *)

ReloadCall(f, id) == [Call("ReloadPluginImpl", "load", NULL) EXCEPT !.file = f, !.id = id]

ReloadTasks(p, id) == <<UnloadTask(p), ReloadTask(plugin[p].file, id)>>

\* ReloadPlugin: like UnloadPlugin, with the load queued behind the unload.
ReloadPlugin(p) ==
  LET id == CHOOSE i \in DOMAIN m_plugins : m_plugins[i] = p
      f == plugin[p].file
  IN  /\ plugin[p].m_state # "WaitingToUnloadAndReload"
      /\ IF plugin[p].m_state = "WaitingToUnload" \/ AnyActive(p)
         THEN /\ plugin' = [plugin EXCEPT ![p].m_state = "WaitingToUnloadAndReload"]
              /\ sNextTasks' = sNextTasks \o (IF Waiting(p) THEN <<ReloadTask(f, id)>> ELSE ReloadTasks(p, id))
              /\ stack' = stack
         ELSE /\ stack' = stack \o <<ReloadCall(f, id), Call("UnloadPluginImpl", "begin", p)>>
              /\ UNCHANGED <<plugin, sNextTasks>>

ReloadLoad ==
  LET cur == m_LoadLookup[Top.file] IN
  /\ In("ReloadPluginImpl", "load")
  /\ IF cur # NULL /\ ~Retried(cur)
     THEN stack' = [At("place") EXCEPT ![Len(stack)].pl = cur] /\ UNCHANGED <<plugin, sNextTasks>>
     ELSE LoadPlugin(Top.file, FALSE, At("place"))
  /\ UNCHANGED <<freed, m_plugins, m_LoadLookup, m_NtvCache, sWorkTasks, heard, calls, down>>

\* The new plugin takes the place of the old one.
ReloadPlace ==
  LET p == Top.pl
      others == SelectSeq(m_plugins, LAMBDA q : q # p)
  IN  /\ In("ReloadPluginImpl", "place")
      /\ m_plugins' = IF p = NULL THEN m_plugins ELSE InsertAt(others, Min({Top.id, Len(others) + 1}), p)
      /\ stack' = Return(TRUE)
      /\ UNCHANGED <<plugin, freed, m_LoadLookup, m_NtvCache, sNextTasks, sWorkTasks, heard, calls, down>>

\* RunScheduledFrameTasks.
RunFrame ==
  /\ stack = <<>> /\ ~down /\ sNextTasks # <<>>
  /\ sWorkTasks' = sNextTasks /\ sNextTasks' = <<>>
  /\ stack' = <<Call("FrameTasks", "loop", NULL)>>
  /\ UNCHANGED <<plugin, freed, m_plugins, m_LoadLookup, m_NtvCache, heard, calls, down>>

RunTask ==
  LET t == Head(sWorkTasks) IN
  /\ In("FrameTasks", "loop") /\ sWorkTasks # <<>>
  /\ sWorkTasks' = Tail(sWorkTasks)
  /\ stack' = Append(stack, IF t.proc = "UnloadPluginImpl" THEN Call("UnloadPluginImpl", "begin", t.pl)
                            ELSE ReloadCall(t.file, t.id))
  /\ UNCHANGED <<plugin, freed, m_plugins, m_LoadLookup, m_NtvCache, sNextTasks, heard, calls, down>>

FrameEnds ==
  /\ In("FrameTasks", "loop") /\ sWorkTasks = <<>>
  /\ stack' = <<>>
  /\ UNCHANGED <<plugin, freed, m_plugins, m_LoadLookup, m_NtvCache, sNextTasks, sWorkTasks, heard, calls, down>>

Shutdown ==
  /\ stack = <<>> /\ ~down
  /\ stack' = <<Call("Shutdown", "loop", NULL)>>
  /\ UNCHANGED <<plugin, freed, m_plugins, m_LoadLookup, m_NtvCache, sNextTasks, sWorkTasks, heard, calls, down>>

FinishedNow(p) == Waiting(p)

\* A plugin in the unload queue is unloaded at once.
ShutdownLoop ==
  LET q == Head(Left) IN
  /\ In("Shutdown", "loop") /\ Left # <<>>
  /\ IF FinishedNow(q)
     THEN stack' = Append(Visit("loop", q), Call("UnloadPluginImpl", "begin", q)) /\ UNCHANGED <<plugin, sNextTasks>>
     ELSE UnloadPlugin(q, Visit("loop", q))
  /\ UNCHANGED <<freed, m_plugins, m_LoadLookup, m_NtvCache, sWorkTasks, heard, calls, down>>

ClearScheduledFrameTasks == <<>>

ShutdownEnds ==
  /\ In("Shutdown", "loop") /\ Left = <<>>
  /\ sNextTasks' = ClearScheduledFrameTasks
  /\ down' = TRUE /\ stack' = <<>>
  /\ UNCHANGED <<plugin, freed, m_plugins, m_LoadLookup, m_NtvCache, sWorkTasks, heard, calls>>

-----------------------------------------------------------------------------
(* What plugins and the console do.                                        *)

Turn == IF stack = <<>> THEN ~down ELSE In("Exec", "run") /\ Len(stack) < MaxDepth

\* A call of the manager from the console or from plugin code.
Command ==
  /\ Turn /\ calls < MaxCalls
  /\ stack # <<>> /\ Top.pl \notin Listed => "CallUnlisted" \in Habits
  /\ calls' = calls + 1

Tasks == sWorkTasks \o sNextTasks

UnderWay(f) ==
  \/ \E i \in DOMAIN Tasks : Tasks[i].file = f
  \/ m_LoadLookup[f] # NULL /\ (stack # <<>> \/ Waiting(m_LoadLookup[f]))
  \/ \E i \in DOMAIN stack :
       stack[i].file = f \/ (stack[i].proc = "UnloadPluginImpl" /\ plugin[stack[i].pl].file = f)

Load(f) ==
  /\ Command
  /\ UnderWay(f) => "LoadTwice" \in Habits
  /\ LoadPlugin(f, FALSE, stack)
  /\ UNCHANGED <<freed, m_plugins, m_LoadLookup, m_NtvCache, sWorkTasks, heard, down>>

MayBeEvicted(p) ==
  Status(p) \in {"Evicted", "Loaded"} \/ \E i \in DOMAIN stack : stack[i].pl = p /\ stack[i].pc \in {"seconded", "evict"}

\* LoadAll is still to load the file.
Coming(f) ==
  \E i \in DOMAIN stack : stack[i].pc = "refresh" \/ (stack[i].pc = "first" /\ f \notin stack[i].visited)

Unloads(p) ==
  /\ Command
  /\ stack # <<>> /\ MayBeEvicted(p) => "UnloadEvicted" \in Habits
  /\ Coming(plugin[p].file) => "LoadTwice" \in Habits

Unload(p) ==
  /\ Unloads(p)
  /\ UnloadPlugin(p, stack)
  /\ UNCHANGED <<freed, m_plugins, m_LoadLookup, m_NtvCache, sWorkTasks, heard, down>>

Reload(p) ==
  /\ Unloads(p)
  /\ ReloadPlugin(p)
  /\ UNCHANGED <<freed, m_plugins, m_LoadLookup, m_NtvCache, sWorkTasks, heard, down>>

\* Whose call it is that runs: a callback of the manager, or a native.
Caller == stack[Len(stack) - 1]

\* CreateNative in AskPluginLoad.
CreateNative ==
  /\ In("Exec", "run") /\ plugin[Top.pl].file \in Providers
  /\ Caller.pc = "asked" /\ m_NtvCache = NULL
  /\ m_NtvCache' = Top.pl
  /\ plugin' = [plugin EXCEPT ![Top.pl].m_fakes = TRUE]
  /\ UNCHANGED <<freed, m_plugins, m_LoadLookup, sNextTasks, sWorkTasks, heard, calls, down, stack>>

LeavesNoNative ==
  Caller.pc = "asked" /\ ~Caller.auto /\ plugin[Top.pl].m_fakes => "FailNatives" \in Habits

\* FakeNativeRouter refuses when the owner is paused.
CallNative ==
  /\ In("Exec", "run") /\ calls < MaxCalls /\ Len(stack) < MaxDepth
  /\ plugin[Top.pl].bound # NULL /\ Status(plugin[Top.pl].bound) = "Running"
  /\ calls' = calls + 1
  /\ stack' = Append(stack, Exec(plugin[Top.pl].bound))
  /\ UNCHANGED <<plugin, freed, m_plugins, m_LoadLookup, m_NtvCache, sNextTasks, sWorkTasks, heard, down>>

\* DropEverything's iterator is at p in the dependents of a plugin of the list.
IteratorAt(p) == \E i \in DOMAIN stack : stack[i].pc = "paused" /\ stack[i].id = p /\ stack[i].pl \in Listed

\* SetFailState: EvictWithError, which calls OnPluginPauseChange of the plugin
\* itself if it runs ...
SetFailState ==
  LET p == Top.pl
      ran == plugin[p].m_status = "Running"
  IN  /\ In("Exec", "run") /\ calls < MaxCalls
      /\ LeavesNoNative
      /\ (\E i \in 1..Len(stack) - 2 : stack[i].pc \in {"start", "failed", "evict"}) => "FailInStart" \in Habits
      /\ ran /\ IteratorAt(p) => "FailInPause" \in Habits
      /\ calls' = calls + 1
      /\ stack' = IF ran THEN Append(At("pausing"), Exec(p)) ELSE At("failing")
      /\ UNCHANGED <<plugin, freed, m_plugins, m_LoadLookup, m_NtvCache, sNextTasks, sWorkTasks, heard, down>>

\* ... then drops everything ...
ExecPaused ==
  /\ In("Exec", "pausing")
  /\ plugin' = [plugin EXCEPT ![Top.pl].m_status = "Paused"]
  /\ stack' = Append(At("failing"), Call("DropEverything", "loop", Top.pl))
  /\ UNCHANGED <<freed, m_plugins, m_LoadLookup, m_NtvCache, sNextTasks, sWorkTasks, heard, calls, down>>

\* ... and ends the call with an error.
ExecAborts ==
  /\ In("Exec", "failing")
  /\ plugin' = [plugin EXCEPT ![Top.pl].m_status = "Failed"]
  /\ stack' = Return(FALSE)
  /\ UNCHANGED <<freed, m_plugins, m_LoadLookup, m_NtvCache, sNextTasks, sWorkTasks, heard, calls, down>>

\* Plugin code returns, or ends with an error where that is looked at.
ExecReturns(ok) ==
  /\ In("Exec", "run")
  /\ ~ok => Caller.pc \in {"asked", "start"}
  /\ ~ok => LeavesNoNative
  /\ stack' = Return(ok)
  /\ UNCHANGED <<plugin, freed, m_plugins, m_LoadLookup, m_NtvCache, sNextTasks, sWorkTasks, heard, calls, down>>

\* The server calls a plugin in a frame.
Callback(p) ==
  /\ stack = <<>> /\ ~down /\ calls < MaxCalls
  /\ Status(p) = "Running"
  /\ stack' = <<Call("FrameTasks", "loop", NULL), Exec(p)>>
  /\ UNCHANGED <<plugin, freed, m_plugins, m_LoadLookup, m_NtvCache, sNextTasks, sWorkTasks, heard, calls, down>>

-----------------------------------------------------------------------------
Init ==
  /\ plugin = [p \in Objs |-> NewPlugin(CHOOSE f \in Files : TRUE)]
  /\ freed = Objs /\ m_plugins = <<>> /\ m_LoadLookup = [f \in Files |-> NULL] /\ m_NtvCache = NULL
  /\ sNextTasks = <<>> /\ sWorkTasks = <<>> /\ heard = [p \in Objs |-> <<>>]
  /\ calls = 0 /\ down = FALSE /\ stack = <<>>

\* The steps of the manager.
Manager ==
  \/ UnloadPluginImpl \/ UnloadPluginDelete
  \/ PurgeEnd \/ PurgeNotify \/ PurgeUnloaded \/ PurgeDestroyed
  \/ DropLoop \/ DropPaused \/ DropRest
  \/ (\E bad \in BOOLEAN : Compile(bad)) \/ LoadFails \/ (\E late \in BOOLEAN : AddPlugin(late)) \/ AddPluginEvict
  \/ LoadUnstarted \/ LoadStarted \/ LoadReturns
  \/ LinkFails \/ Link \/ StartFails \/ StartFailed \/ Started \/ Refresh \/ SecondPassEnds
  \/ (\E newer \in BOOLEAN : RefreshAll(newer)) \/ (\E f \in Files : FirstPass(f))
  \/ SecondPass \/ Seconded \/ SecondEvict \/ AllPluginsLoaded \/ LoadAllNext
  \/ ReloadLoad \/ ReloadPlace \/ RunTask \/ FrameEnds \/ ShutdownLoop \/ ShutdownEnds
  \/ ExecPaused \/ ExecAborts \/ \E ok \in BOOLEAN : ExecReturns(ok)

Next ==
  \/ Manager \/ RunFrame \/ LoadAll \/ Shutdown
  \/ \E f \in Files : Load(f)
  \/ \E p \in Listed : Unload(p) \/ Reload(p) \/ Callback(p)
  \/ CreateNative \/ CallNative \/ SetFailState

Spec == Init /\ [][Next]_vars

\* Calls return, and the server runs frames between its calls of plugins.
FairSpec == Spec /\ WF_vars(Manager) /\ SF_vars(RunFrame)

-----------------------------------------------------------------------------
(* Properties.                                                             *)

TypeOK ==
  /\ plugin \in [Objs -> CPlugin] /\ freed \subseteq Objs /\ m_plugins \in Seq(Objs)
  /\ m_LoadLookup \in [Files -> Objs \cup {NULL}] /\ m_NtvCache \in Objs \cup {NULL}
  /\ stack \in Seq(Frame) /\ calls \in 0..MaxCalls /\ down \in BOOLEAN

TasksOf(p) == {i \in DOMAIN Tasks : Tasks[i].pl = p}
Begun(p) == \E i \in DOMAIN stack : stack[i].proc = "UnloadPluginImpl" /\ stack[i].pl = p

ShuttingDown == stack # <<>> /\ stack[1].proc = "Shutdown"

\* The task of a deferred unload captures a pointer (PluginSys.cpp:1663): the
\* plugin is there until the task runs or Shutdown drops it, and a plugin in the
\* queue has one task.
TasksLive ==
  ~ShuttingDown =>
  /\ \A i \in DOMAIN Tasks : Tasks[i].pl # NULL => Tasks[i].pl \notin freed /\ Tasks[i].pl \in Listed
  /\ \A p \in Listed : Waiting(p) => Cardinality(TasksOf(p)) = 1 \/ Begun(p)

\* No call in progress is about a plugin that was deleted.
StackLive == \A i \in DOMAIN stack : stack[i].pl # NULL => stack[i].pl \notin freed

\* A file has one plugin, and the lookup finds it.
OnePerFile ==
  /\ Cardinality(Listed) = Len(m_plugins)
  /\ \A p \in Listed : p \notin freed /\ m_LoadLookup[plugin[p].file] = p
  /\ \A f \in Files : m_LoadLookup[f] # NULL => m_LoadLookup[f] \in Listed

\* No plugin is unloaded while another is on the call stack ("It is not safe",
\* PluginSys.cpp:1650).
UnloadsAlone ==
  \A i \in DOMAIN stack : stack[i].proc = "UnloadPluginImpl" =>
    \A j \in 1..i - 1 : stack[j].proc # "Exec"

\* A plugin that can run is bound to a plugin that exists and will tell it when
\* it goes; so are the owner of the native and all dependents there, and the
\* node at which DropEverything's iterator is (PluginSys.cpp:788) is in its list.
BindingsLive ==
  /\ m_NtvCache # NULL => m_NtvCache \notin freed
  /\ \A p \in Objs \ freed :
       /\ p \in Listed \cup Executing /\ Status(p) = "Running" /\ plugin[p].bound # NULL =>
            plugin[p].bound \notin freed /\ p \in Range(plugin[plugin[p].bound].m_Dependents)
       /\ Range(plugin[p].m_Dependents) \cap freed = {}
  /\ \A i \in DOMAIN stack : stack[i].proc = "DropEverything" /\ stack[i].id # 0 =>
       stack[i].id \in Range(plugin[stack[i].pl].m_Dependents)

\* Listeners hear of each plugin in order and once, and of its end before it is
\* deleted or evicted.
HeardOK ==
  \A p \in Objs :
    /\ \/ IsPrefix(heard[p], <<"Created", "Loaded", "Unloaded", "Destroyed">>)
       \/ IsPrefix(heard[p], <<"Created", "Destroyed">>)
    /\ p \in freed \/ plugin[p].m_state = "Evicted" => heard[p] = <<>> \/ Last(heard[p]) = "Destroyed"

\* assert(IsEvictionCandidate()) in FinishEviction.
EvictsFailed == stack # <<>> /\ Top.pc = "evict" => plugin[Top.pl].m_status \in {"Error", "Failed"}

\* TryRefreshDependencies wants a runtime (assert, PluginSys.cpp:1585), which an
\* evicted plugin has no more.
RefreshesRuntimes ==
  In("RunSecondPass", "rebind") => \A q \in Listed : plugin[q].missing => plugin[q].m_state # "Evicted"

\* "If we got here, all natives are okay again!" (PluginSys.cpp:1628): a plugin
\* that is in error for want of a native is without one.
ErrorDeserved == \A p \in Listed : Status(p) = "Error" /\ plugin[p].missing => plugin[p].bound = NULL

\* Shutdown leaves no plugin and no task.
NothingLeft == down => freed = Objs /\ m_plugins = <<>> /\ sNextTasks = <<>>

\* An unload that was put off happens.
UnloadHappens == \A p \in Objs : (p \notin freed /\ Waiting(p)) ~> (p \in freed)

\* No pointer to a plugin outlives it, in a deferred task or in a call under
\* way, and Shutdown leaves none.
PointersLive == TypeOK /\ TasksLive /\ StackLive /\ NothingLeft

\* A plugin is unloaded, evicted and rebound only when it is in a state for it.
StepsDeserved == UnloadsAlone /\ EvictsFailed /\ RefreshesRuntimes

=============================================================================
