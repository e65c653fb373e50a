------------------------------ MODULE DBManager ------------------------------
(***************************************************************************)
(* Threaded database operations: DBManager of core/logic/Database.cpp, and *)
(* the life of plugins and extensions as far as it meets them              *)
(* (PluginSys.cpp Purge, ExtensionSys.cpp UnloadExtension).                *)
(*                                                                         *)
(* Two threads.  The game thread queues operations, runs their callbacks   *)
(* one per frame, and unloads plugins, extensions and drivers; the worker  *)
(* runs the queries.  A step is what happens under one holding of m_Lock   *)
(* or m_ThinkLock, or between two.  CancelPluginOperations is one step:    *)
(* it holds m_Lock throughout, and the worker's only move without m_Lock   *)
(* (push to m_ThinkQueue) meets it only at m_ThinkLock.                    *)
(*                                                                         *)
(* Operations and identity tokens are heap objects: an address is used     *)
(* again once its object is gone.                                          *)
(***************************************************************************)
EXTENDS Integers, Sequences, SequencesExt, FiniteSets, Lists

CONSTANTS
  Ops,        \* addresses an IDBThreadOperation may be allocated at
  Plugins,    \* addresses of the identity tokens of plugins
  Exts,       \* and of extensions
  Drivers,
  NULL,
  Habits,     \* what the environment may do, see below
  MaxLoads,   \* bound on the plugins and extensions ever loaded
  MaxOps      \* bound on the operations ever made

\* Habits of plugins, extensions and the allocator that the code permits:
\*   "QueryInAskPluginLoad"         a plugin queries before OnPluginStart
\*   "QueryInDependenciesDropped"   an extension queries while unloading, as
\*                                  clientprefs does to save cookies
\*   "IdentReuse"                   a freed token's address is given out again
AllHabits == {"QueryInAskPluginLoad", "QueryInDependenciesDropped", "IdentReuse"}
Tokens == Plugins \cup Exts
Prio == {"High", "Normal", "Low"}

\* Who joins the worker, and who finalizes operations.
Reasons == {"AddDriver", "RemoveDriver", "Wait", "Drop"}
Loops == {"RunFrame", "RemoveDriver", "Wait", "Drop"}

ASSUME DBAssumption ==
  /\ NULL \notin Ops \cup Tokens \cup Drivers \cup Reasons \cup Loops
  /\ Plugins \cap Exts = {}
  /\ Habits \subseteq AllHabits
  /\ MaxLoads \in Nat /\ MaxOps \in Nat

VARIABLES
  m_OpQueue, m_ThinkQueue, m_ActiveOperation, m_OperationOwners,
  m_CancelledOperations, m_Terminate, m_drivers,
  m_drSafety,   \* size of m_drSafety
  s_pAddBlock,
  worker,       \* the worker thread: [pc, op]
  main,         \* the game thread: [join, arg, loop, todo, callback]
  phase,        \* token -> stage of life of its plugin or extension
  gen,          \* token -> which load it stands for (0: never used)
  loads,
  ops,          \* address -> the operation there
  made

shared == <<m_OpQueue, m_ThinkQueue, m_ActiveOperation, m_OperationOwners,
            m_CancelledOperations>>
life == <<phase, gen, loads>>
vars == <<shared, m_Terminate, m_drivers, m_drSafety, s_pAddBlock,
          worker, main, life, ops, made>>

\* An operation: the load of its owner, and what became of it; whether it was
\* queued before its owner ran or after the owner's operations were flushed
\* (late), and at an address that m_CancelledOperations still had (marked).
Op ==
  [ alive : BOOLEAN, owner : Tokens \cup {NULL}, gen : 0..MaxLoads,
    driver : Drivers \cup {NULL}, prio : Prio, n : 0..MaxOps,
    late : BOOLEAN, marked : BOOLEAN,
    fate : {"pending", "think", "cancel", "discarded", "lost"} ]

WorkerPC == {"none", "start", "top", "waiting", "RunThreadPart", "push", "clear", "done"}

-----------------------------------------------------------------------------
(* Who may act on the game thread.                                         *)

\* Plugin and extension code runs between calls and inside callbacks.
ClientTurn == main.join = NULL /\ (main.callback # NULL \/ main.loop = NULL)

\* Nothing is in progress: frames run, commands load and unload (unloading is
\* deferred while a plugin is on the call stack, PluginSys.cpp:1650-1667).
Idle ==
  /\ main.join = NULL /\ main.loop = NULL
  /\ \A t \in Tokens : phase[t] \in {"none", "running"}

OwnerLoaded(o) == phase[ops[o].owner] # "none" /\ gen[ops[o].owner] = ops[o].gen

-----------------------------------------------------------------------------
(* Queueing.                                                               *)

\* emplace: an entry that is there stays.
RecordOwner(o, t) ==
  m_OperationOwners' = [m_OperationOwners EXCEPT ![o] = IF @ = NULL THEN t ELSE @]

\* `new TQueryOp' and AddToThreadQueue(op, prio), past the s_pAddBlock test, by
\* the load g of t.
Enqueue(o, t, g, d, prio) ==
  /\ ~ops[o].alive
  /\ made < MaxOps
  /\ made' = made + 1
  /\ ops' = [ops EXCEPT ![o] =
       [ alive |-> TRUE, owner |-> t, gen |-> g, driver |-> d, prio |-> prio,
         n |-> made + 1, late |-> g # gen[t] \/ phase[t] # "running",
         marked |-> o \in m_CancelledOperations, fate |-> "pending" ]]
  /\ RecordOwner(o, t)
  /\ m_OpQueue' = [m_OpQueue EXCEPT ![prio] = Append(@, o)]
  /\ UNCHANGED <<m_ThinkQueue, m_ActiveOperation, m_CancelledOperations, m_Terminate,
                 m_drivers, m_drSafety, s_pAddBlock, main, life>>

\* The worker after m_QueueEvent.notify_one.
Woken == IF worker.pc = "waiting" THEN [worker EXCEPT !.pc = "top"] ELSE worker

\* SQL_TQuery and SQL_TConnect, or an extension's AddToThreadQueue.  A plugin
\* that is unloading has DisallowDBThreads set: its operation is destroyed or
\* run on the spot.  An extension being dropped is refused (s_pAddBlock).
Query(t, o, d, prio) ==
  /\ ClientTurn
  /\ \/ phase[t] = "running"
     \/ phase[t] = "loading" /\ "QueryInAskPluginLoad" \in Habits
     \/ phase[t] = "dropped" /\ "QueryInDependenciesDropped" \in Habits
  /\ t # s_pAddBlock
  /\ d \in Range(m_drivers)
  /\ Enqueue(o, t, gen[t], d, prio)
  /\ worker' = IF worker.pc = "none" THEN [worker EXCEPT !.pc = "start"] ELSE Woken

\* An extension's RunThreadPart may queue more (clientprefs empties its query
\* cache when DatabaseConnect succeeds).
QueryFromThread(o, prio) ==
  LET active == ops[worker.op] IN
  /\ worker.pc = "RunThreadPart"
  /\ active.owner \in Exts /\ active.owner # s_pAddBlock
  /\ Enqueue(o, active.owner, active.gen, active.driver, prio)
  /\ UNCHANGED worker

-----------------------------------------------------------------------------
(* The worker thread.                                                      *)

\* Run(): InitializeThreadSafety of every driver.
WorkerStart ==
  /\ worker.pc = "start"
  /\ m_drSafety' = Len(m_drivers)
  /\ worker' = [worker EXCEPT !.pc = "top"]
  /\ UNCHANGED <<shared, m_Terminate, m_drivers, s_pAddBlock, main, life, ops, made>>

GetLikelyQueue ==
  IF m_OpQueue["High"] # <<>> THEN "High"
  ELSE IF m_OpQueue["Normal"] # <<>> THEN "Normal" ELSE "Low"

Fetch ==
  LET p == GetLikelyQueue
      o == Head(m_OpQueue[p])
  IN  /\ worker.pc = "top"
      /\ m_OpQueue[p] # <<>>
      /\ m_OpQueue' = [m_OpQueue EXCEPT ![p] = Tail(@)]
      /\ m_ActiveOperation' = o
      /\ worker' = [pc |-> "RunThreadPart", op |-> o]
      /\ UNCHANGED <<m_ThinkQueue, m_OperationOwners, m_CancelledOperations, m_Terminate,
                     m_drivers, m_drSafety, s_pAddBlock, main, life, ops, made>>

\* Mutant: the worker stops before it has flushed the queue.
StopAtOnce == m_Terminate

MustStop == m_OpQueue[GetLikelyQueue] = <<>> /\ m_Terminate

\* m_QueueEvent.wait.
WaitEvent ==
  /\ worker.pc = "top" /\ m_OpQueue[GetLikelyQueue] = <<>> /\ ~m_Terminate
  /\ worker' = [worker EXCEPT !.pc = "waiting"]
  /\ UNCHANGED <<shared, m_Terminate, m_drivers, m_drSafety, s_pAddBlock, main, life, ops, made>>

\* A condition variable may wake for no reason.
SpuriousWake ==
  /\ worker.pc = "waiting"
  /\ worker' = [worker EXCEPT !.pc = "top"]
  /\ UNCHANGED <<shared, m_Terminate, m_drivers, m_drSafety, s_pAddBlock, main, life, ops, made>>

\* ThreadMain returns; ShutdownThreadSafety of every driver.
WorkerExit ==
  /\ worker.pc = "top" /\ MustStop
  /\ m_drSafety' = 0
  /\ worker' = [worker EXCEPT !.pc = "done"]
  /\ UNCHANGED <<shared, m_Terminate, m_drivers, s_pAddBlock, main, life, ops, made>>

RunThreadPart ==
  /\ worker.pc = "RunThreadPart"
  /\ worker' = [worker EXCEPT !.pc = "push"]
  /\ UNCHANGED <<shared, m_Terminate, m_drivers, m_drSafety, s_pAddBlock, main, life, ops, made>>

\* Mutant: the result is put in front of the ones that wait.
ThinkFirst(o) == <<o>> \o m_ThinkQueue

ThinkLast(o) == Append(m_ThinkQueue, o)

PushThink ==
  /\ worker.pc = "push"
  /\ m_ThinkQueue' = ThinkLast(worker.op)
  /\ worker' = [pc |-> "clear", op |-> NULL]
  /\ UNCHANGED <<m_OpQueue, m_ActiveOperation, m_OperationOwners, m_CancelledOperations,
                 m_Terminate, m_drivers, m_drSafety, s_pAddBlock, main, life, ops, made>>

\* m_Lock is taken again only now: m_ActiveOperation may point at an operation
\* whose callback has run and that is deleted.
ClearActive ==
  /\ worker.pc = "clear"
  /\ m_ActiveOperation' = NULL
  /\ worker' = [worker EXCEPT !.pc = "top"]
  /\ UNCHANGED <<m_OpQueue, m_ThinkQueue, m_OperationOwners, m_CancelledOperations,
                 m_Terminate, m_drivers, m_drSafety, s_pAddBlock, main, life, ops, made>>

Worker ==
  WorkerStart \/ Fetch \/ WaitEvent \/ WorkerExit \/ RunThreadPart \/ PushThink \/ ClearActive

-----------------------------------------------------------------------------
(* Finishing operations on the game thread.                                *)

\* op->Destroy() on every operation of S, while t (or nobody) is unloading.
Destroyed(S, t) ==
  [o \in Ops |->
    IF o \notin S THEN ops[o]
    ELSE [ops[o] EXCEPT
            !.alive = FALSE,
            !.fate = IF @ # "pending" THEN @
                     ELSE IF OwnerLoaded(o) /\ phase[ops[o].owner] = "running" /\ ops[o].owner # t
                     THEN "lost" ELSE "discarded"]]

\* DBManager::RunFrame takes one result per frame.
RunFrame ==
  /\ Idle
  /\ m_ThinkQueue # <<>>
  /\ m_ThinkQueue' = Tail(m_ThinkQueue)
  /\ main' = [main EXCEPT !.loop = "RunFrame", !.todo = <<Head(m_ThinkQueue)>>]
  /\ UNCHANGED <<m_OpQueue, m_ActiveOperation, m_OperationOwners, m_CancelledOperations,
                 m_Terminate, m_drivers, m_drSafety, s_pAddBlock, worker, life, ops, made>>

IsCancelled(o) == o \in m_CancelledOperations

\* FinalizeOperation of the next operation, up to its callback: RunThinkPart,
\* or CancelThinkPart when the driver is unloading.
FinalizeOperation ==
  LET o == Head(main.todo) IN
  /\ main.join = NULL /\ main.callback = NULL /\ main.todo # <<>>
  /\ m_OperationOwners' = [m_OperationOwners EXCEPT ![o] = NULL]
  /\ m_CancelledOperations' = m_CancelledOperations \ {o}
  /\ IF IsCancelled(o)
     THEN /\ ops' = Destroyed({o}, NULL)
          /\ main' = [main EXCEPT !.todo = Tail(@)]
     ELSE /\ ops' = [ops EXCEPT ![o].fate =
                       IF main.loop = "RemoveDriver" THEN "cancel" ELSE "think"]
          /\ main' = [main EXCEPT !.todo = Tail(@), !.callback = o]
  /\ UNCHANGED <<m_OpQueue, m_ThinkQueue, m_ActiveOperation, m_Terminate, m_drivers,
                 m_drSafety, s_pAddBlock, worker, life, made>>

\* The callback returned: op->Destroy().
EndCallback ==
  /\ main.join = NULL /\ main.callback # NULL
  /\ ops' = Destroyed({main.callback}, NULL)
  /\ main' = [main EXCEPT !.callback = NULL]
  /\ UNCHANGED <<shared, m_Terminate, m_drivers, m_drSafety, s_pAddBlock, worker, life, made>>

\* The loop over the collected operations is over; OnSourceModIdentityDropped
\* lifts the block, and OnDependenciesDropped comes next.
EndLoop ==
  /\ main.join = NULL /\ main.loop # NULL /\ main.callback = NULL /\ main.todo = <<>>
  /\ main' = [main EXCEPT !.loop = NULL]
  /\ IF main.loop = "Drop"
     THEN s_pAddBlock' = NULL /\ phase' = [phase EXCEPT ![s_pAddBlock] = "dropped"]
     ELSE UNCHANGED <<s_pAddBlock, phase>>
  /\ UNCHANGED <<shared, m_Terminate, m_drivers, m_drSafety, worker, gen, loads, ops, made>>

-----------------------------------------------------------------------------
(* KillWorkerThread and what its callers do once the worker has ended.     *)

KillWorkerThread(reason, x) ==
  /\ main' = [main EXCEPT !.join = reason, !.arg = x]
  /\ IF worker.pc = "none" THEN UNCHANGED <<m_Terminate, worker>>
     ELSE /\ m_Terminate' = TRUE
          /\ worker' = Woken

\* Mutant: the worker is left running.
AddDriverAtOnce(d) ==
  /\ ClientTurn
  /\ d \notin Range(m_drivers)
  /\ m_drivers' = Append(m_drivers, d)
  /\ UNCHANGED <<shared, m_Terminate, m_drSafety, s_pAddBlock, worker, main, life, ops, made>>

AddDriver(d) ==
  /\ ClientTurn
  /\ d \notin Range(m_drivers)
  /\ KillWorkerThread("AddDriver", d)
  /\ UNCHANGED <<shared, m_drivers, m_drSafety, s_pAddBlock, life, ops, made>>

RemoveDriver(d) ==
  /\ Idle
  /\ d \in Range(m_drivers)
  /\ KillWorkerThread("RemoveDriver", d)
  /\ UNCHANGED <<shared, m_drivers, m_drSafety, s_pAddBlock, life, ops, made>>

\* OnPluginWillUnload with DatabasePluginUnload "wait".
WaitForPluginOperations(t) ==
  /\ Idle
  /\ t \in Plugins /\ phase[t] = "running"
  /\ phase' = [phase EXCEPT ![t] = "ending"]
  /\ KillWorkerThread("Wait", t)
  /\ UNCHANGED <<shared, m_drivers, m_drSafety, s_pAddBlock, gen, loads, ops, made>>

OnSourceModIdentityDropped(t) ==
  /\ Idle
  /\ t \in Exts /\ phase[t] = "running"
  /\ phase' = [phase EXCEPT ![t] = "dropping"]
  /\ s_pAddBlock' = t
  /\ KillWorkerThread("Drop", t)
  /\ UNCHANGED <<shared, m_drivers, m_drSafety, gen, loads, ops, made>>

\* Mutant: whatever has an owner is taken.
OwnedByAny(o, t) == m_OperationOwners[o] # NULL

OwnedBy(o, t) == m_OperationOwners[o] = t

WorkerEnded == main.join # NULL /\ worker.pc \in {"none", "done"}

\* join returned.  AddDriver appends the driver; the others take what the
\* worker left for their driver or identity out of the think queue, and go on
\* to finalize it.
Joined ==
  LET x == main.arg
      mine == {o \in Ops : \/ main.join = "RemoveDriver" /\ ops[o].driver = x
                           \/ main.join \in {"Wait", "Drop"} /\ OwnedBy(o, x)}
  IN  /\ WorkerEnded
      /\ worker' = [pc |-> "none", op |-> NULL]
      /\ m_Terminate' = (worker.pc = "none" /\ m_Terminate)
      /\ m_drivers' = IF main.join = "AddDriver" THEN Append(m_drivers, x)
                      ELSE IF main.join = "RemoveDriver" THEN Filter(m_drivers, Drivers \ {x})
                      ELSE m_drivers
      /\ m_ThinkQueue' = Filter(m_ThinkQueue, Ops \ mine)
      /\ main' = IF main.join = "AddDriver"
                 THEN [main EXCEPT !.join = NULL, !.arg = NULL]
                 ELSE [main EXCEPT !.join = NULL, !.arg = NULL, !.loop = main.join,
                                   !.todo = Filter(m_ThinkQueue, mine)]
      /\ UNCHANGED <<m_OpQueue, m_ActiveOperation, m_OperationOwners, m_CancelledOperations,
                     m_drSafety, s_pAddBlock, life, ops, made>>

-----------------------------------------------------------------------------
(* DiscardPluginOperations.                                                *)

\* Mutants: the operation in the worker's hands is not marked; what is
\* destroyed stays in its queue.
CancelNone(t) == {}
KeepAll(queue, t) == queue

\* A queue without the operations of t.
WithoutOwned(queue, t) == Filter(queue, {o \in Ops : ~OwnedBy(o, t)})

\* The operation that the worker holds and that cannot be destroyed yet.
CancelActive(t) ==
  IF /\ m_ActiveOperation # NULL
     /\ m_ActiveOperation \notin UNION {Range(m_OpQueue[p]) : p \in Prio}
     /\ OwnedBy(m_ActiveOperation, t)
     /\ m_ActiveOperation \notin Range(m_ThinkQueue)
  THEN {m_ActiveOperation} ELSE {}

\* OnPluginWillUnload with DatabasePluginUnload "discard".
CancelPluginOperations(t) ==
  LET queued == {o \in UNION {Range(m_OpQueue[p]) : p \in Prio} : OwnedBy(o, t)}
      thought == {o \in Range(m_ThinkQueue) : OwnedBy(o, t)}
  IN  /\ Idle
      /\ t \in Plugins /\ phase[t] = "running"
      /\ phase' = [phase EXCEPT ![t] = "ending"]
      /\ m_OpQueue' = [p \in Prio |-> WithoutOwned(m_OpQueue[p], t)]
      /\ m_ThinkQueue' = WithoutOwned(m_ThinkQueue, t)
      /\ m_ActiveOperation' = IF m_ActiveOperation \in thought THEN NULL ELSE m_ActiveOperation
      /\ m_CancelledOperations' = m_CancelledOperations \cup CancelActive(t)
      /\ m_OperationOwners' =
           [o \in Ops |-> IF o \in queued \cup thought THEN NULL ELSE m_OperationOwners[o]]
      /\ ops' = Destroyed(queued \cup thought, t)
      /\ UNCHANGED <<m_Terminate, m_drivers, m_drSafety, s_pAddBlock, worker, main,
                     gen, loads, made>>

-----------------------------------------------------------------------------
(* Loading and unloading.                                                  *)

Rest == UNCHANGED <<shared, m_Terminate, m_drivers, m_drSafety, s_pAddBlock,
                    worker, main, ops, made>>

\* InitIdentity; a plugin then runs AskPluginLoad2.
Load(t) ==
  /\ Idle
  /\ phase[t] = "none" /\ loads < MaxLoads
  /\ gen[t] = 0 \/ "IdentReuse" \in Habits
  /\ phase' = [phase EXCEPT ![t] = IF t \in Plugins THEN "loading" ELSE "running"]
  /\ gen' = [gen EXCEPT ![t] = loads + 1]
  /\ loads' = loads + 1
  /\ Rest

\* OnPluginStart (m_EnteredSecondPass), or a failure before it: Purge does not
\* call OnPluginWillUnload then.
FinishLoad(t) ==
  /\ ClientTurn
  /\ phase[t] = "loading"
  /\ phase' \in {[phase EXCEPT ![t] = "running"], [phase EXCEPT ![t] = "none"]}
  /\ UNCHANGED <<gen, loads>>
  /\ Rest

\* The end of Purge or UnloadExtension: the object and its token are deleted.
Delete(t) ==
  /\ main.join = NULL /\ main.loop = NULL
  /\ phase[t] \in {"ending", "dropped"}
  /\ phase' = [phase EXCEPT ![t] = "none"]
  /\ UNCHANGED <<gen, loads>>
  /\ Rest

-----------------------------------------------------------------------------
Init ==
  /\ m_OpQueue = [p \in Prio |-> <<>>] /\ m_ThinkQueue = <<>>
  /\ m_ActiveOperation = NULL
  /\ m_OperationOwners = [o \in Ops |-> NULL] /\ m_CancelledOperations = {}
  /\ m_Terminate = FALSE /\ m_drivers = <<>> /\ m_drSafety = 0 /\ s_pAddBlock = NULL
  /\ worker = [pc |-> "none", op |-> NULL]
  /\ main = [join |-> NULL, arg |-> NULL, loop |-> NULL, todo |-> <<>>, callback |-> NULL]
  /\ phase = [t \in Tokens |-> "none"] /\ gen = [t \in Tokens |-> 0] /\ loads = 0
  /\ ops = [o \in Ops |->
       [ alive |-> FALSE, owner |-> NULL, gen |-> 0, driver |-> NULL, prio |-> "Low",
         n |-> 0, late |-> FALSE, marked |-> FALSE, fate |-> "discarded" ]]
  /\ made = 0

\* What the game thread does without being asked.
Progress ==
  FinalizeOperation \/ EndCallback \/ EndLoop \/ Joined
    \/ \E t \in Tokens : FinishLoad(t) \/ Delete(t)

Environment ==
  \/ \E t \in Tokens, o \in Ops, d \in Drivers, p \in Prio : Query(t, o, d, p)
  \/ \E o \in Ops, p \in Prio : QueryFromThread(o, p)
  \/ \E d \in Drivers : AddDriver(d) \/ RemoveDriver(d)
  \/ \E t \in Tokens : \/ WaitForPluginOperations(t) \/ CancelPluginOperations(t)
                       \/ OnSourceModIdentityDropped(t) \/ Load(t)

Next == Worker \/ SpuriousWake \/ RunFrame \/ Progress \/ Environment

Spec == Init /\ [][Next]_vars

\* The worker is scheduled and queries return; calls on the game thread return;
\* frames keep coming between them, however often drivers come and go.
FairSpec == Spec /\ WF_vars(Worker) /\ SF_vars(RunFrame) /\ WF_vars(Progress)

-----------------------------------------------------------------------------
(* Properties.                                                             *)

TypeOK ==
  /\ m_OpQueue \in [Prio -> Seq(Ops)] /\ m_ThinkQueue \in Seq(Ops)
  /\ m_ActiveOperation \in Ops \cup {NULL}
  /\ m_OperationOwners \in [Ops -> Tokens \cup {NULL}]
  /\ m_CancelledOperations \subseteq Ops
  /\ m_Terminate \in BOOLEAN /\ m_drivers \in Seq(Drivers) /\ m_drSafety \in Nat
  /\ s_pAddBlock \in Tokens \cup {NULL}
  /\ worker \in [pc : WorkerPC, op : Ops \cup {NULL}]
  /\ main \in [join : Reasons \cup {NULL}, arg : Tokens \cup Drivers \cup {NULL},
               loop : Loops \cup {NULL}, todo : Seq(Ops), callback : Ops \cup {NULL}]
  /\ phase \in [Tokens -> {"none", "loading", "running", "ending", "dropping", "dropped"}]
  /\ gen \in [Tokens -> 0..MaxLoads] /\ loads \in 0..MaxLoads
  /\ ops \in [Ops -> Op] /\ made \in 0..MaxOps

Count(o, s) == Cardinality({i \in 1..Len(s) : s[i] = o})

\* How many hands hold operation o.
Homes(o) ==
  Count(o, m_OpQueue["High"]) + Count(o, m_OpQueue["Normal"]) + Count(o, m_OpQueue["Low"])
  + Count(o, m_ThinkQueue) + Count(o, main.todo)
  + (IF worker.op = o THEN 1 ELSE 0) + (IF main.callback = o THEN 1 ELSE 0)

\* An operation is in exactly one place from AddToThreadQueue until Destroy,
\* and nowhere after: it is never run or destroyed twice, never used once it is
\* deleted, and never leaked, wherever the worker is when its owner, its driver
\* or the worker itself goes away.
OneHome == \A o \in Ops : Homes(o) = IF ops[o].alive THEN 1 ELSE 0

\* No operation that its owner queued while it ran outlives it, except one that
\* the worker still held when it was cancelled.  (One queued in AskPluginLoad by
\* a plugin that then fails, or by an extension after OnSourceModIdentityDropped,
\* does: nobody looks for it.)
OwnedOrCancelled ==
  \A o \in Ops : ops[o].alive /\ ~ops[o].late => OwnerLoaded(o) \/ o \in m_CancelledOperations

\* The callback of such an operation is only run for an owner that is still
\* loaded: RunThinkPart and CancelThinkPart use the plugin's function and the
\* extension's code.
CallbackOwnerLoaded ==
  main.callback # NULL /\ ~ops[main.callback].late => OwnerLoaded(main.callback)

\* Unloading an owner in the middle of its operations is safe: what is left of
\* them is cancelled, and no callback runs into code that is gone.
OwnersSafe == TypeOK /\ OwnedOrCancelled /\ CallbackOwnerLoaded

\* Core does not destroy the operation of a running owner without having called
\* RunThinkPart or CancelThinkPart (IDBDriver.h:770-780), but for one whose address
\* carried a mark when it was queued; and a mark outlives the operation it was
\* made for only if the token of that one's owner, gone since, was at an address
\* that another load has got.
NeverLost ==
  \A o \in Ops :
    /\ ops[o].fate = "lost" => ops[o].marked
    /\ o \in m_CancelledOperations /\ ~ops[o].alive /\ ~ops[o].marked =>
         ops[o].gen < gen[ops[o].owner]

\* Results come back in the order of the queries, per priority, whatever is
\* cancelled or flushed in between.
InOrder ==
  \A p \in Prio :
    LET line == m_ThinkQueue \o (IF worker.op # NULL THEN <<worker.op>> ELSE <<>>) \o m_OpQueue[p]
    IN  \A i, j \in 1..Len(line) :
          i < j /\ ops[line[i]].prio = p /\ ops[line[j]].prio = p => ops[line[i]].n < ops[line[j]].n

\* The drivers the worker initialized are the ones it shuts down: m_drivers
\* does not change while it runs, as Run() indexes m_drSafety by it.
DriversFixed ==
  worker.pc \notin {"none", "start", "done"} => m_drSafety = Len(m_drivers)

\* Every operation ends, and KillWorkerThread returns: the worker flushes the
\* queues and no wakeup is lost.
EveryOperationEnds ==
  /\ \A o \in Ops : ops[o].alive ~> ~ops[o].alive
  /\ main.join # NULL ~> main.join = NULL

=============================================================================
