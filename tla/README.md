# A verification project for SourceMod (skial fork)

TLA+ models of the parts of SourceMod's core in which control is hard to get
right: handles and their types, threaded database operations, worker threads,
timers and their natives, forwards, plugins, menus and votes. They are
model-checked with TLC on small instances; nearly all safety properties of all
of them but the plugin manager are proved with TLAPS for every value of the
constants.

Paths are relative to the repository's root, called `src/` in `PROJECT.json`.

## 1. The system

SourceMod runs inside a game server. Plugins (scripts) and extensions (native
libraries) call the core through natives and interfaces; the core calls them
back. Almost everything happens on one thread, the game thread. What makes the
code hard is therefore mostly **reentrancy**: a callback runs in the middle of
an operation of the core, and may start any other operation, the same one
included. Objects are recycled (slots, `ITimer`s, heap addresses), so a stale
reference is not caught by anything but the code's own care. Two subsystems, the
database manager and the thread support for extensions, have second threads.

| Component | State | Operations | Hard part | What makes it correct |
|---|---|---|---|---|
| Handle table (`core/logic/HandleSys.cpp`) | slots with serial, owner, count, clone link; free stack; a chain per owner | create, clone, close, read; unload of an identity | destructors call back into the table while a close is half done | no slot lost or given out twice; an object destroyed exactly once; chains and counts agree with the slots; stale handles are refused |
| Handle types (same file) | type array with children, free chain, names | create, find, remove a type | removal destroys handles of the type while destructors run | no handle of a removed type survives; no index is lost or given out twice |
| Identities (`ShareSys.cpp`) | tokens, each with a handle | create, destroy | a token is deleted after its children are | no handle refers to a deleted token |
| Database manager (`Database.cpp`) | three priority queues, result queue, active operation, owners, cancelled set, drivers | queue, run, finish, cancel, flush, add/remove driver | two threads; owners, drivers and the worker go away at any time; addresses are reused | an operation has one home; ends once; never calls an unloaded owner; the game thread never waits for ever |
| Timers (`core/TimerSys.cpp`) | three lists, free stack, kill stack, time | create, fire, kill, map change, frame | callbacks change the list being walked | a timer ends once; none is missed; the frame ends |
| Timer natives (`smn_timers.cpp`) | `TimerInfo` objects, a handle and a data handle per timer | create, kill, trigger, close | every way to end a timer leads through the others | one end per timer; a readable handle is of a living timer |
| Forwards (`ForwardSys.cpp`, `ReentrantList.h`) | function lists, iterators of calls in progress, depth | create, add, remove, execute, release; plugins load, pause, resume, unload | callbacks change the list, release the forward, execute it again | nobody is skipped or called twice; no deleted forward is used; every running plugin is in every managed forward |
| Plugin manager (`PluginSys.cpp`, `frame_tasks.cpp`, natives in `ShareSys.cpp`) | list, lookup, status, dependents, bindings, frame tasks | load, second pass, evict, unload, reload, load all, shut down | plugin code runs between the steps; unload is deferred to the next frame while any plugin runs | no deleted plugin is used; bindings lead to plugins that exist; listeners hear of each plugin in order |
| Extension manager (`ExtensionSys.cpp`) | extensions, dependencies, interfaces | load, unload, reload | what depends on it goes first | nothing calls an unloaded library |
| Threads (`ThreadSupport.cpp`, `BaseWorker.cpp`) | a queue of tasks, its worker, thread handles | make, run, pause, stop, wait | two threads; handles delete themselves | a task runs and ends once; no use after `DestroyThis`; no lost wakeup |
| Menus and votes (`MenuVoting.cpp`, `MenuStyle_Base.cpp`) | what each client sees; the vote, its count of displays and its votes | start, vote, redraw, cancel, end; show, press, time out, close | every callback, those that draw items included, may show, cancel and close menus and start votes; clients leave | the vote ends with its last display; the votes are those of the clients in the pool; no deleted menu is used |
| Players, admins, commands, convars, events, user messages (`core/*.cpp`, `AdminCache.cpp`) | per-client and per-hook state | see the files | callbacks that close what called them; clients that leave | not modelled |

How they interact: plugins and extensions are identities (`ShareSys`) that own
handles; unloading one drops its handles (`DestroyIdentity`), its database
operations (`OnPluginWillUnload`, `OnSourceModIdentityDropped`) and its
functions in forwards (`OnPluginUnloaded`). Timers and forwards reach plugins
through handles. The database manager and the timers are driven by the game
frame. `PROJECT.json` lists every component, the ones not modelled too, and
under `hazards` what is hard to test in them, by line.

## 2. Plan

Done, in this order:

1. `HandleTable`, first in `HandleSys_proofs`: everything else holds its objects
   through it; `AbstractHandles`, what it promises, with the refinement.
2. `DBManager`: two threads and owners that go away.
3. `TimerSys`, `ForwardSys`: lists that callbacks change.
4. `HandleTypes`, which extends `HandleTable`: the loops of `RemoveType`.
5. `TimerNatives`: timers, handles and data that end each other.
6. `ThreadSupport`: the other place with true concurrency.
7. `MenuVoting`: votes over menus.
8. `PluginSys`: the life of plugins and what binds them to each other.
9. `HandleSys_proofs`, `ThreadSupport_proofs`, `TimerNatives_proofs`,
   `DBManager_proofs`, `TimerSys_proofs`, `ForwardSys_proofs` and
   `MenuVoting_proofs`, with `Lists_proofs`: the proofs of section 5.

Worth doing next: proofs about `PluginSys`, and `RemovalOK` of `HandleTypes`. Then modules for `ExtensionSys` (unload
order over `PluginSys` and `DBManager`), `PlayerManager`, `EventManager`,
`UserMessages` and `AdminCache`.

## 3. The modules

In all of them a stack variable is the C++ call stack as far as it crosses
callbacks: a call that runs foreign code is split there, and clients may act
when the stack is empty or a callback is on top. Definitions named as mutants
are plausible mistakes that are used to see that each property can fail; no
specification uses them.

### HandleTable (`HandleSys.cpp`, `HandleSys.h`, `ShareSys.cpp`)

`m_Handles`, `freeID`, `m_FreeHandles`, `m_HandleTail`, `m_HSerial` are the
members of `HandleSystem`; `opened` the counters of the types; `tokens`,
`ident`, `num_handles` the identity tokens. A `Handle_t` is the pair of slot and
serial that the code packs into 32 bits. `issued`, `birth` and `life` are
history: which handles were returned, which of them a slot was last filled for,
what became of each object.

Actions: `CreateIdentity`, `CreateHandle`, `CloneHandle`, `FastCloneHandle`,
`FreeHandle`, `DestroyIdentity`; `FinishRelease` when a destructor returns;
`ReleaseChild` and `FinishIdentity`, the child loop of `ReleasePrimHandle`.
Reads change nothing; `GetHandle` and `CheckAccess`, which decide them, are
operators that the actions and the properties use.

`AbstractHandles` is the promise without the table: numbered handles, the object
each stands for, an object destroyed in the step that closes its last handle.
`RefinesAbstract` maps a handle to the number of its creation and says that
`HandleTable` implements it. A close that is half done maps to a step of the
abstract specification at the moment the destructor is called.

Assumed of the environment: clients use only `Handle_t`s they were given; the
root's handle does not leave `ShareSystem`; a plugin is not unloaded from within
a destructor (`PluginSys.cpp:1650-1667` defers it); destructors return. At the
handle limit creation fails: `TryAndFreeSomeHandles` cannot unload a plugin at
once while one executes.

### HandleTypes (`HandleSys.cpp`, on `HandleTable`)

Extends `HandleTable` by `m_Types`: which types have a dispatch, their number of
children, names and lookup, the stack of free indices. `RemoveType` is split
into the loop over the children with its index (a nested call for each), the
walk over the slots and the end; `removing` are the unfinished calls. Between two
slots the destructor that was called may close other handles, ahead of the walk
and behind it, and make and clone handles of other types (`DestructorCall`).
Assumed: types are registered and removed when no destructor runs; and
destructors spare the removal two things at which it breaks (`RemovalSpared`,
section 4): handles of the type under removal, and handles in the slot of a
master that is released already while clones of it are left.

### DBManager (`Database.cpp`, `sm_simple_prioqueue.h`, parts of `smn_database.cpp` and `PluginSys.cpp`)

The queues and sets have the code's names. `worker` is the worker thread, with
a step per holding of a lock: `Fetch`, `RunThreadPart`, `PushThink`,
`ClearActive`, `WaitEvent`, `SpuriousWake`, `WorkerStart`, `WorkerExit`. `main`
is the game thread: a pending `KillWorkerThread` (`join`), the loop that
finalizes operations (`loop`, `todo`) and the callback that is running.
In `ops[o]` three fields are history: `fate`, what became of the operation at
address `o`; `late`, whether it was queued before its owner ran or after it was
flushed; `marked`, whether its address was in `m_CancelledOperations` when it was
made. Plugins and extensions go through phases; their tokens are addresses, `gen` tells the
loads apart.

`CancelPluginOperations` is one step although it takes two locks: it holds
`m_Lock` from end to end, and the only thing the worker does without it, the
push to the result queue, meets it at `m_ThinkLock` once.

The loops that take some operations out of a queue (`RemoveDriver`,
`WaitForPluginOperations`, `CancelPluginOperations`, `OnSourceModIdentityDropped`)
are `Filter` of the module `Lists`, a walk over the list as in the code; it is a
recursive function, so that it can be reasoned about.

`Habits` are things the code permits and most clients do not do: to query in
`AskPluginLoad2`, to query while being unloaded (clientprefs does), and, an
allocator's habit, to give out the address of a freed token again. The run `db`
has all three, and the theorems hold for all of them: the properties say what is
true then.

- An operation queued in `AskPluginLoad2` by a plugin that fails to load, or by
  an extension after the flush on which `clientprefs/extension.cpp:181` relies
  (`Database.cpp:633`), may outlive its owner. `OwnersSafe` says that only these
  (`late`) do.
- An address left behind in `m_CancelledOperations` makes a later operation at
  the same address vanish without a callback (`Database.cpp:452`). `NeverLost`
  says that nothing else does, and that a mark is left behind only when the
  owner's token, gone since, has been given to another load.

### TimerSys (`core/TimerSys.cpp`)

`lists` are the three lists, `m_FreeTimers` and `s_tokill` the stacks. Times are
relative to `g_fUniversalTime`, so the state space is finite; a frame subtracts
its length from every `m_ToExec`. The loops of `RunFrame` and
`ProcessRepeatTimers` are `Visit` (one turn) and `NextList`; the callbacks'
returns are `OnTimerReturns` and `OnTimerEndReturns`, for all four callers.
An iterator is the timer it points to; after a callback the next one is taken
from the list as it is then, as `std::list` does. `ends` and `fresh` are
history. Clients act on timers that are in a list; the one place in the code
that uses an older pointer is `s_tokill`, and that is modelled.

### TimerNatives (`smn_timers.cpp`, over what it uses of `TimerSys.cpp` and `HandleSys.cpp`)

A timer ends by its last `OnTimer`, by `KillTimer`, by the close of its handle
or with its plugin. `OnTimerEnd` is split where it calls out: `OnTimerEndData`
closes the data handle (whose destructor may call plugins), `OnTimerEndHandle`
the timer's own (whose destructor kills the timer again), `OnTimerEndInfo` gives
the `TimerInfo` and the timer back. `smn_KillTimer` has a second half,
`smn_KillTimerData`, that reads the `TimerInfo` after the timer is killed; the
call remembers in `was` what it held before. Of `TimerSys` and the handle table
only what `smn_timers.cpp` sees is kept; those have modules of their own.

### ForwardSys (`ForwardSys.cpp`, `public/ReentrantList.h`, parts of `PluginSys.cpp`)

`fwd` are the `CForward` objects, `func` the functions in the nodes of their
lists, `status` the plugins, `stack` the `Execute` calls with their iterators
and the calls of `SetPauseState(false)` to the plugin it resumes, which come
before `OnPluginPauseChange` of the manager. `Patched` is what
`iterator::remove` does to the other iterators, `Advanced` is `next()`. Each
`Execute` carries history: the nodes it should visit and those it visited.
Plugins are unloaded only between calls (`PluginSys.cpp:1650-1667`).

### ThreadSupport (`ThreadSupport.cpp`, `BaseWorker.cpp`)

The client made a `CompatWorker`, a `BaseWorker` or a `CompatThread`; `kind` says
which. `thread` is the thread that was started, `main` the client's. A region
under `mutex_` is one step; a wait on the condition variable ends only by a
notification or its timeout, so a lost wakeup shows. The clients follow the
interface: they destroy a handle after its `OnTerminate`, with a `CompatWorker`
also in it (or do not touch one made with `Thread_AutoRelease`), and do not wait
for a paused thread.

### MenuVoting (`MenuVoting.cpp`, `MenuStyle_Base.cpp`, parts of `MenuManager.cpp` and `PlayerManager.cpp`)

`player` is the per-client state of the style, `menu` the menus, the other
variables are members of `VoteMenuHandler`. A call is split at each callback;
plugins act there. The callbacks for the items (`MenuAction_DrawItem`,
`MenuAction_DisplayItem`), which `RenderMenu` makes one after the other and
before `OnMenuDisplay`, are one: `OnMenuDrawItem` for a menu that is shown and
`OnMenuRedrawItem` for another page of it; what plugins do in it may take any
number of steps. Afterwards the menu is drawn or, when all items were refused,
not. `Rooting` says which calls hold an `AutoHandleRooter`. A handle may be closed
in any callback; a menu is destroyed as soon as no rooter is left (`Doomed`,
`DestroyMenu`).
`Disconnect` calls the client listeners in the order in which they registered,
so that the style cancels the client's display and the vote handler takes its
vote back in separate steps. A menu's time may run out at any moment.

`Habits` are things plugins may do at which the code breaks (section 4).

### PluginSys (`PluginSys.cpp`, `frame_tasks.cpp`, `ShareSys.cpp`, `NativeOwner.cpp`)

`plugin` are the `CPlugin` objects, numbers are addresses and are given out
again. One native stands for all: the files in `Providers` create it in
`AskPluginLoad`, those in `Users` need it. `stack` holds the unfinished calls of
the manager and the plugins that execute; an `Exec` frame on top means that
plugin code may do anything a server command can do, call the native, or fail
(`SetFailState`, which first pauses the plugin and so calls it). A loop over
`m_plugins` keeps the plugins it has visited, which is what `ReentrantList`
iterators do when the list changes. The loop of `DropEverything` over
`m_Dependents` is one of a `std::list` with a plain iterator: it must not lose
the node it stands on (`FailInPause`, section 4). `heard` is history: what the
listeners were told of each plugin.

`Habits` are, as in `DBManager`, things the code permits and breaks at; the
passing run excludes them and section 4 says what each does.

## 4. Runs

Every property has a mutant of the code that breaks it under the same
configuration (`PROJECT.json`, `mutants`).

A run checks whole questions. Where one has several parts, the property is the
conjunction of parts that have names and comments of their own:

| Run | Property | Its parts |
|---|---|---|
| `handles` | `SlotsOK` | `TypeOK`, `FreeListOK`, `StackOK` |
| | `ReferencesOK` | `RefCountOK`, `CloneTargetOK` |
| | `OwnersOK` | `OwnersAlive`, `OwnerChainOK` |
| `handle_types` | `RemovalOK` | `TypeOK`, `RemovedTypesEmpty`, `CountsSurviveRemoval` (with `OpenedOK`, `OwnerCountsOK`), `ConsistentAfterRemoval` |
| | `TypeIndexOK` | `TypesTypeOK`, `TypeChainOK`, `LookupOK` |
| | `ReleasesEnd` | `RemovalEnds`, `IdentityReleased` |
| `db` | `OwnersSafe` | `TypeOK`, `OwnedOrCancelled`, `CallbackOwnerLoaded` |
| `timers` | `ListsOK` | `TypeOK`, `OneHome`, `InUse` |
| `timers_time` | `TimingOK` | `Sorted`, `NoneMissed`, `CatchesUp` |
| | `TimersEnd` | `FrameEnds`, `EverySingleEnds` |
| `timer_natives` | `TimerHandlesOK` | `TypeOK`, `ReadableIsLive`, `EveryTimerOwned`, `DataClosed` |
| `forwards` | `WalkOK` | `IteratorsValid`, `ExactlyOnce` |
| | `CallsSafe` | `TypeOK`, `DepthOK`, `CallsLoaded` |
| `threads` | `StopOK` | `TypeOK`, `StoppedIsQuiet`, `FlushCancelsAsked` |
| | `NobodyWaitsForever` | `EveryTaskEnds`, `CallsReturn` |
| `votes` | `DisplaysOK` | `TypeOK`, `CountOK`, `HandlerThere`, `TimerOK` |
| | `TallyOK` | `VotesOK`, `PoolOK` |
| `plugins` | `PointersLive` | `TypeOK`, `TasksLive`, `StackLive`, `NothingLeft` |
| | `StepsDeserved` | `UnloadsAlone`, `EvictsFailed`, `RefreshesRuntimes` |

| Run | Instance | Shows |
|---|---|---|
| `handles` | 5 slots (root and core take two), serials 1..3, 1 plugin and the core as owners, callers with and without rights, 6 handles made | the structural invariants, with destructors nested as deep as there are handles; the limit of the table and the wrap of the serial are reached; stale handles are refused until the serials have gone round; the abstract specification is implemented |
| `handle_types` | 6 slots, 5 handles and 3 types made (7 together), one child per type, one name, destructors that close and make handles, fair | no handle outlives its type, counts and table are consistent after a removal, the free chain and the names; a removal and the unload of an identity end |
| `db` | 2 addresses, 2 operations, 1 plugin, 1 extension, 3 loads, 1 driver, all three habits | one home, order; which operations may outlive their owner and which may be lost, and that no others do |
| `db_live` | 2 operations, 1 plugin, 1 extension, 1 load, 2 drivers, owners that query before they are loaded and while they unload, fair | the worker's drivers do not change under it; every operation ends and every join returns |
| `timers` | 3 timers, 3 kinds | one home, one end, no recycling under a call; calls nest 4 deep |
| `timers_time` | 2 timers, intervals 1 and 2, frames of 2, accuracy 3, so that frames with and without a think alternate, fair | sorted, none missed, jumps skipped (the think at most `TIMER_MIN_ACCURACY` behind after a frame, repeating timers that wait for it less than twice that); frames end, single timers that wait for a think and that do not end |
| `timer_natives` | 2 timers, 2 `TimerInfo`s, 3 handles made, 1 data handle, 1 plugin | each `TimerInfo` has one home, readable handles are of living timers, `KillTimer` reads what it found, data handles are closed |
| `forwards` | 1 forward address, 3 nodes, 2 plugins, 2 nested calls | valid iterators, exactly once, depth, completeness |
| `threads` | each kind, 3 tasks, limits 0 to 2 per frame, 3 bounded calls, fair | tasks run and end once, no use after free, a stopped worker is quiet and cancels no task it was not asked to; no lost wakeup, every task ends |
| `votes` | 2 clients, 2 items, 1 vote menu and 1 other, 3 calls of plugins, 6 deep, fair | the count of displays and the handler, also while pages are drawn, the votes and the pool, menus that are closed in any callback, timers, no client deaf to menus; every vote ends |
| `plugins` | 1 provider, 1 user, 4 plugin addresses, 4 calls, 6 deep, fair | tasks, calls and bindings lead to plugins that exist; unloading alone; listeners in order; nothing left after shutdown; deferred unloads happen |
| `plugins_error` | 2 providers, 1 user, 3 calls | **finding**, see below |

Why the bounds are enough: the hazards need few objects but particular orders.
A double release needs one slot, one clone and a nested call; a broken chain
three handles of one owner; a reused address two lives of one object; a skipped
list element three nodes and a nested walk; a miscounted vote one display that
interrupts another; a dangling plugin one deferred unload and one more call. The instances have at least these,
and the mutants show that each mistake is within reach. Addresses that are
interchangeable (operations, timers, nodes) are symmetric in the runs without
liveness. What an instance is too small for is left to the theorem of the same
property: two timers never make the sorted insert search, the instance of
`timers_time` has no tick-precise repeating timer, and two operations show little
of the order of results; `FramesAreOnTime` and `ResultsInOrder` hold for any
number and kind.

`CHECK_DEADLOCK FALSE` is set where the calls of clients are bounded (`MaxMade`,
`MaxOps`, `MaxLoads`, `MaxCalls`, `NJobs`): when a bound is exhausted there may
be nothing left to do. It is checked for the timers and the forwards.

### Fairness

- Handles, types: a destructor that runs returns, and the loops over children,
  types and slots go on (weak fairness): it is straight-line C++ on one thread.
- Database: the worker is scheduled and queries return (weak), calls on the
  game thread go on (weak), and frames keep coming (strong: commands that load
  and unload may come between two frames, but the server does run frames).
- Timers: loops go on (weak), frames come (strong), and each callback returns
  at last although it may make any number of calls before (strong, per depth of
  the stack: what a callback starts ends before it does).
- Threads: both threads are scheduled and tasks return (weak); an idle game
  thread comes to `RunFrame` with tasks queued (strong: the extension that made
  a `BaseWorker` calls it every frame, with other calls in between).
- Votes: calls go on (weak), and the time of each display that is on runs out
  (strong, per client: `ProcessWatchList` runs every second, but a client may be
  shown another menu in between). This does not hold for `MENU_TIME_FOREVER`,
  which is not put on the watch list (`MenuStyle_Base.cpp:553`): such a vote
  ends only by its clients. `MenuVoting.cpp:213` says that it should not exist.
- Plugins: calls go on and plugin code returns (weak), frames come (strong, for
  the same reason as in the database).

No fairness is assumed of clients: they need not ever call anything.

### Finding

`plugins_error`: `m_FakeNativesMissing` is never taken back, and a provider that
failed keeps its dependents. A plugin that was bound to a second provider is put
in error when the first one, which failed long before, is unloaded, though it
lacks nothing (`PluginSys.cpp:736-742`; the comment at `:1628` says that all its
natives are okay again). `PROJECT.json` quotes both sides.

### What the passing runs exclude

The models describe clients that do not do the following. Each is permitted by
the code; with the constants or the change named, TLC gives a counterexample to
the property (a part of one of the properties above, or one of them).

| Constants | Property | What happens |
|---|---|---|
| `HandleTypes`, `DestructorCall` without `type # Removal.type` | `RemovedTypesEmpty` | a destructor makes a handle of the type that is being removed, in a slot the search has passed: it outlives its type |
| `HandleTypes`, `DestructorCall` without the `Clones` conjunct of `RemovalSpared`, `MaxMade = 6`, `MaxWork = 8`, `MaxTypesMade = 2` | `RemovalOK` | a master that was closed is released before its clones (`HandleSys.cpp:951`); a destructor makes a handle of another type in its slot, and freeing the clone counts that handle down |
| `TimerSys`, `Intervals = {0}` | `FrameEnds` | the smallest interval that `ITimerSystem.h:129` documents is not enforced: a frame need not end |
| `ThreadSupport`, `DestroyThis` without its guard for `BaseWorker` | `NoUseAfterFree` | a handle destroyed in `OnTerminate` of a `BaseWorker`, which reads its flags afterwards (`BaseWorker.cpp:99,152`) |
| `MenuVoting`, `{"VoteInVoteStart"}` | `TimerOK` | a vote that is ended and replaced in `OnMenuVoteStart` leaks its display timer (`MenuVoting.cpp:371-387`) |
| `MenuVoting`, `{"CloseInStart"}` | `MenuAlive` | a menu closed in a callback of the `StartVote` that is showing it is deleted under the loop, which has no rooter (`MenuVoting.cpp:223-230`), and `m_pCurMenu` dangles |
| `MenuVoting`, `{"KickInDisplay"}` | `PoolOK` | a client kicked while a menu is on its way to it, in the callbacks of the menu that it interrupts or in those that draw it, is put in the vote's menu, or among those who may vote, after it has left |
| `MenuVoting`, `{"EndInRedraw"}` | `CountOK`, `HandlerThere` | while another page of a vote is drawn the client is still in the menu: a callback that cancels the last display ends the vote, and the next one is called through a `m_pHandler` that is NULL (`MenuVoting.cpp:522-532`); if nothing is drawn, the display is counted off twice; and if the menu was closed too, `ClientPressedKey` goes on with a deleted menu (`MenuStyle_Base.cpp:585`) |
| `PluginSys`, `{"UnloadEvicted"}` | `HeardOK`, `TasksLive` | an evicted plugin that waits for its unload no longer has the state `Evicted`, so it is purged twice (`PluginSys.cpp:1713`, against the assertion at `:1394`) |
| `PluginSys`, `{"LoadTwice"}` | `OnePerFile` | a failed plugin whose unload is put off is loaded again at once (`PluginSys.cpp:1010`): two plugins of one file, and the lookup loses the new one |
| `PluginSys`, `{"CallUnlisted"}` | `UnloadsAlone` | plugins in `AskPluginLoad`, `OnPluginEnd` or `OnNotifyPluginUnloaded` of their own unload are not in the list that is searched for one that executes (`PluginSys.cpp:1652`) |
| `PluginSys`, `{"FailNatives"}` | `BindingsLive` | a plugin that created natives and fails in `AskPluginLoad` is deleted without `DropEverything` (`PluginSys.cpp:1058`): the cache keeps them |
| `PluginSys`, `{"FailInPause"}` | `BindingsLive` | a plugin that fails in the `OnPluginPauseChange` it gets because its provider fails takes its node out of `m_Dependents` (`NativeOwner.cpp:122`) under the iterator of `DropEverything` (`PluginSys.cpp:788-794`) |
| `PluginSys`, `{"FailInStart"}` | `RefreshesRuntimes` | `TryRefreshDependencies` meets an evicted plugin (assertion at `PluginSys.cpp:1585`) |

### Read off the code while modelling

No run shows these; they are recorded for whoever works on the files.

- `HandleSys.cpp:198`: the bound on `m_TypeTail` is compared before the step is
  added, so the 512th top-level type gets an index behind the array.
- `HandleSys.cpp:951`: `RemoveType` visits a closed master and destroys its
  object before the clones are closed (the table above has
  what that breaks); `children` is never decremented; the name
  of a removed type stays at its index (`:973`), so an anonymous type that reuses
  it takes another type's name out of the lookup when it is removed.
- The range assertion of `GetHandleUnchecked` (`HandleSys.cpp:682`) excludes the
  last slot, which `TryAllocHandle` gives out and `GetHandle` accepts.
- `TimerSys.cpp:449-453`: a map change keeps raw pointers in `s_tokill` over
  callbacks; one that kills a collected timer and creates another loses the new
  one, whatever its flags (`ITimerSystem.h:109`).
- `ForwardSys.cpp:492`: functions of paused plugins stay in `m_paused` when the
  plugin is unloaded (`IForwardSys.h:385` says they are removed). A function
  added during a call is called by it (`ForwardSys.cpp:508`; `IForwardSys.h:308`
  says it is queued).
- `ThreadSupport.cpp:111`: `Stop(true)` runs what it is asked to cancel
  (`IThreader.h:356`); a `CompatWorker` never calls `OnWorkerStop`; `RunFrame`
  runs tasks while it is paused; `work_in_frame` is never reset. `Thread_Done` is
  visible before `OnTerminate` is called, so an owner that polls `GetState` may
  delete the handle too early; destroying a `CompatThread` that was not joined
  ends the process.
- `MenuVoting.cpp:174`: a client's vote is taken back on disconnect, but not from
  `m_NumVotes`, which the assertion at `:697` relies on; the time left at `:298`
  may wrap below zero.

## 5. Proofs

All theorems hold for every value of the constants that satisfies the named
assumptions of the modules, not only for the instances of the runs.

### The handle table

The first part of `HandleSys_proofs` proves, for every number of slots, serials, types,
identities, callers and handles made, that `HandleTable` keeps `SlotsOK`,
`ReferencesOK` and `OwnersOK` (theorems `SlotsCorrect`, `ReferencesCorrect`,
`OwnershipCorrect`; each part is a theorem too). The assumptions are
`TableAssumption` (room for the two core identities, at least four serials,
distinct names) and `SecurityAssumption` (types of the security records; no
client calls with the root's identity).

None of these is inductive alone. Releasing a slot keeps the free stack right
only if the slot is in use; that a child of an identity is in use is what the
chain says, for a master it is what the counts say, and for a destructor that
returns what `StackOK` says of the unfinished calls; the counts need that clones
point at masters, the chains that owners decode, and owners that tokens' handles
are released by nobody else (`IdentitiesOK`, `IssuedOK`). So there is one
inductive invariant, `IInv`, the conjunction of all of them.

The proof has three layers: what assigning one member of one slot leaves alone;
what linking, unlinking, filling and releasing a slot do to each part of the
invariant, stated for a table as a value and not for the variable, because
several of them happen in one action; and one lemma per action, which
`Invariance` puts together. `OwnerChainOK` is stated locally (neighbours point
at each other, and births increase along the chain), which is inductive without
reasoning about reachability; the order by birth is what excludes cycles.

The second part builds on it. For objects it matters only whether a step
makes a handle (of a new object, a clone, or none), closes one (with or without
the object), or does neither; `StepKinds` shows that every action is of one of
these kinds, and the rest argues about kinds. `ObjectInv` adds to `IInv` what
`life` and the serials have to do with the slots. From it follow
`ObjectsDieOnce` (`ObjectLifetime`), `StaleHandlesRefused`
(`StaleHandleRejected`: the distance in `issued` is the distance in serials
modulo `MaxSerials - 1`) and `Refinement`: the initial state maps to `AInit` and
each kind of step to one of the four abstract actions or to a stutter, so `Spec`
implies the safety specification of `AbstractHandles`.

### Handle types

The last part of `HandleSys_proofs` proves `TypeIndexOK` of `HandleTypes` for any
number of types, children, names and handles, from `TypesAssumption`. It needs
nothing of the table: what the destructors do in the middle of `RemoveType` does
not touch the types, because types come and go only between calls. Not inductive
are the free chain and the parents. The index of a parent is put on the chain
before the type is gone, so the invariant must know that the loop over the
children is over by then (`RemovingOK`: at most two calls of `RemoveType`, the
inner one for a child of the outer, and the index of the outer loop has passed
no child that is still registered); and a new index lies behind the tail only if
no type does (`TailOK`). That indices at multiples of `Stride` are never closer
than `Stride` is a few lemmas about `%` and products.

### Threads

`ThreadSupport_proofs` proves `TaskOnce`, `NoUseAfterFree` and `StopOK` for any
set of tasks, all kinds of worker and any bounds, from `ThreadAssumption`.
`TaskOnce` is not inductive: that a worker takes a task it will not run twice
needs that the task is in the queue once and in no thread (`QueueOK`), and that
the counters of a task in some thread fit how far that thread is (`RunningOK`,
`CountsOK`). `StopOK` needs to know where the worker's thread may still be at
each step of `Stop` (`WorkersOK`): it exits only after it has seen both the
request and an empty queue, and nobody adds tasks between. The object of a
single thread (`CompatThreadOK`) is deleted by whichever of thread and client
comes last. Of `Stop(true)`, which the code treats as `Stop(false)`, the theorem
says nothing that the interface contradicts (section 4). There is one lemma per
action, each of them for all of `IInv`.

### Timers

`TimerSys_proofs` proves `ListsOK`, `EndOnce` and `TimingOK` for any finite set of
timers, any intervals and lengths of frames and any nesting of callbacks, from
`TimerAssumption`. That a call finds its timer when a callback returns is not
inductive: it needs that the timers of the calls on the stack are different and
marked `m_InExec` (`StackOK`), and the converse, that a timer in a list that is
marked belongs to some call (`RunningOK`), so that what `KillTimer` ends at once
is used by nobody. `TokillOK` is what makes the raw pointers of
`RemoveMapChangeTimers` harmless: each is of a timer in a list, or of one that
still looks as if it ran, because `m_InExec` stays set on the free stack.
`DepthOK` (callbacks nest no deeper than there are timers) follows, as each call
but the outermost has a timer of its own. For `TimingOK` the invariant follows
the iterator (`WalkOK`): of the timers that were due when the frame began, none
is behind it that this frame should fire, and behind it in the list that every
frame walks none is further than `TIMER_MIN_ACCURACY` in the past. The repeating
timers that wait for the think need an invariant over frames (`LowOK`,
`ThinkInvariance`): as long as there is no think they fall behind, but by no more
than the think has come nearer since the last one, and a frame that takes them
further has the think. That the loop
may stop at the first single timer of the future rests on `OrderOK`, which
`InsertSortedList` shows for the insertion of `CreateTimer`.

### Forwards

`ForwardSys_proofs` proves `WalkOK`, `CallsSafe` and `ManagedComplete` for any
forwards, nodes, plugins and (finitely many) functions and any nesting of calls,
from `ForwardAssumption`, with callbacks that add functions and without.

An iterator divides its list: what a call has visited is behind it or under it,
and what is behind it and was there when the walk began has been visited
(`Walking`). Appending adds nothing behind an iterator that is not at the end,
and a walk at the end is over; `next` moves one node across; and when nodes are
removed, `iterator::remove` leaves it at the first kept node, which has the same
kept nodes behind it (`RemoveWalk`), for every iterator of that list at once. Only
the innermost call is outside a callback, so no removal meets an iterator that
is about to be read (`Walks`). For `CallsSafe`, `m_ExecDepth` is the number of
calls of the forward on the stack, a cardinality that a push and a pop change by
one. `ManagedComplete` splits into "at most once", which holds always, and
"there", which fails for a plugin that is just being told that it is resumed
(`Told`): its functions are added when `OnPluginPauseChange` returns, also to the
forwards that were made meanwhile, which have them already (`Registered`).

The parts of the invariant are operators of a list of forwards and a stack, not
of the variables: a step that ends a call and changes lists is proved in two
halves.

### Timers of plugins

`TimerNatives_proofs` proves `InfoHome`, `KillReadsOwn` and `TimerHandlesOK` for
any timers, plugins, data handles and depth of callbacks, from
`NativesAssumption`. The invariant is about the call stack: what each frame
relies on must survive everything the frames above it do. A handle under
`FreeHandle` stays `destroying` and, while there is a frame above, still leads
to the timer that the next frame is ending (`ReleasesOK`); a `KillTimer` frame
finds its `TimerInfo` unchanged because the frame above it is the end of that
timer, and nothing is made between the delete and the read (`KillsOK`); a timer
is in one callback at a time (`CallbacksOK`); a timer without an open handle is
marked to be killed or is being ended (`DoomedOK`). With the links between
timers, infos and handles (`HeapOK`, `OpenLinked`) these are inductive.

### Database operations

`DBManager_proofs` proves `OneHome`, `DriversFixed`, `InOrder`, `OwnersSafe` and
`NeverLost` for any operations, plugins, extensions and drivers and any number
of loads and queries, from `DBAssumption`, whatever the `Habits`: with owners
that query before they run and after they were flushed, and with addresses of
operations and of tokens given out again.

`OneHome` counts; what is inductive is that some function `home` says where
each operation is (`HomesOK`: the lists have no repetitions, and being in one of
them, in the worker's hands, in the callback and being alive are all decided by
`home`). Each action moves a set of operations to one place (`HomeMove`).
`InOrder` needs in addition that what the worker holds is older than what is
queued (`OrderOK`). That nothing of an unloading owner is left needs the handshake
of `KillWorkerThread` (`WorkerOK`): the worker is gone only when told to, with
empty queues, so the result queue holds all that is left, and `Joined` collects
it; at most one owner is on its way out (`MainOK`). `SettledOK` says what this
means for each operation that is not `late`. `CancelledOK` says where the marks
in `m_CancelledOperations` come from: each was found at the address of a new
operation, or is of an operation whose plugin is on its way out or gone
(`Orphan`); such an operation takes its mark along when it is destroyed, unless
the token of its owner stands for a later load by then.

`Lists_proofs` proves that the walk that defines `Filter` is a function, by
induction over the natural numbers for a set (`SetInduction`, from the
well-foundedness of `<`), and what `Filter`, `Tail`, `Append` and concatenation
do to membership, order and the absence of repetitions. It also has what the
other modules need of front, push and top of a stack and of the order and the
least member of sets of numbers.

### Votes

`MenuVoting_proofs` proves `MenuAlive`, `IgnoreOK`, `DisplaysOK` and `TallyOK` for
any number of clients and items, any menus and any nesting of callbacks, from
`VotingAssumption`, for plugins without the habits `EndInRedraw` and
`CloseInStart`, at which the invariant itself fails; `DisplaysOK` for plugins that
in addition do not have `VoteInVoteStart`, and `TallyOK` `KickInDisplay`. Section
4 has a counterexample for each.

The invariant is about the call stack. Calls are only added on top or taken off,
so it says of each call how it fits on those below it (`FramesOK`): whatever menu
it uses is anchored by itself or by one below that roots the menu's handle, is
cancelling it, or is starting its vote; no two calls cancel or delete the same
menu; a menu is not shown while it is cancelled; under a call that draws another
page (`Redrawing`) nothing takes the client out of its menu, and a page is drawn
by the outermost call only. With it go what clients see and
ignore (`PlayersOK`: a client for whom a menu is drawn is in none, or in that one
if it is another page of it), what a menu that is closed, being cancelled or about to be
deleted may still be used for (`MenusOK`), that `m_Clients` is the number of
clients in the vote's menu plus the number of calls that will take one out of it
(`VoteOK`; a call that draws a page will not), and that whoever has voted is not shown the vote again
(`CountedOK`). For the timer, at most one `StartVote` is under way (`TimersOK`,
without `VoteInVoteStart`); for the pool, no menu is drawn for a client who has
left (`LeaversOK`, without `KickInDisplay`).

A step makes a few calls, or changes the innermost one: lemmas for each kind of
call say what it does to the counts and to each part of the invariant, and there
is one lemma per action.

### Only model-checked

- All liveness properties: fairness and `ENABLED` are out of the prover's reach.
- `PluginSys`: its lists are filtered and searched (`SelectSeq`, `Remove`,
  `RemoveAt`), operators of which the prover knows nothing; they would have to be
  restated as `Filter` is.
- `RemovalOK` of `HandleTypes`: `RemoveType` also frees masters that are closed
  already, so that while it runs counts are one too low and clones outlive their
  master; `IInv` would have to be weakened to what is true then.
- `OpenedOK` and `OwnerCountsOK` of `HandleTable` (cardinalities over clones).

## 6. Not modelled

- Access inheritance of handle types and the unload at the handle limit.
- Database settings and the handles of databases and queries; shutdown.
- The map timer.
- Parameters of forwards (only C++ code pushes them, right before `Execute`) and
  the natives' call in preparation (`Call_StartForward` to `Call_Finish`).
- Mutexes, event signals and priorities of the threading interface: wrappers.
- Panels without a menu, what menus say, the hint box of votes and time limits.
- Libraries, optional natives and weak references, pausing by the console and
  the load lock of the plugin manager; `refresh` from plugin code (from the
  console it is `LoadAll`), `sm plugins unload_all` (`PluginSys.cpp:2404`) and
  `LoadPluginBatch` (`:1143`).
- The other components of section 1; parsing,
  formatting, the engine, drivers and wrapped libraries, for the reasons given
  in `PROJECT.json`.
