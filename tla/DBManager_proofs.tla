-------------------------- MODULE DBManager_proofs ---------------------------
(***************************************************************************)
(* Proofs about DBManager, for any operations, owners and drivers.  The    *)
(* inductive invariant IInv says in whose hands each operation is          *)
(* (HomesOK), where the worker and the game thread may be with respect to  *)
(* each other (WorkerOK, MainOK), what the map of owners says (OwnersOK),  *)
(* what is left of an owner that goes away (SettledOK, CancelledOK), and   *)
(* the order of what waits (OrderOK).                                      *)
(***************************************************************************)
EXTENDS DBManager, Lists_proofs, FiniteSetTheorems

Places == Prio \cup {"think", "todo", "worker", "callback", "nowhere"}

\* home says where every operation is.
IsHome(home) ==
  \A o \in Ops :
    /\ \A p \in Prio : Has(m_OpQueue[p], o) <=> home[o] = p
    /\ Has(m_ThinkQueue, o) <=> home[o] = "think"
    /\ Has(main.todo, o) <=> home[o] = "todo"
    /\ worker.op = o <=> home[o] = "worker"
    /\ main.callback = o <=> home[o] = "callback"
    /\ ops[o].alive <=> home[o] # "nowhere"

HomesOK ==
  /\ \A p \in Prio : Distinct(m_OpQueue[p])
  /\ Distinct(m_ThinkQueue) /\ Distinct(main.todo)
  /\ \E home \in [Ops -> Places] : IsHome(home)

\* The worker has an operation between Fetch and PushThink and it is the active
\* one; it ends only when told to, with the queues empty.
WorkerOK ==
  /\ worker.pc \in {"RunThreadPart", "push"} <=> worker.op # NULL
  /\ worker.op # NULL => m_ActiveOperation = worker.op
  /\ worker.pc \in {"none", "done"} => \A p \in Prio : m_OpQueue[p] = <<>>
  /\ m_Terminate => main.join # NULL
  /\ worker.pc = "done" => m_Terminate
  /\ worker.pc = "none" => ~m_Terminate

Busy(t) == phase[t] \notin {"none", "running"}

\* What the game thread is in the middle of: at most one token is neither
\* running nor gone, and who joins the worker has nothing left to finalize,
\* but for AddDriver, which callbacks may call.
MainOK ==
  /\ main.loop = NULL => main.todo = <<>> /\ main.callback = NULL
  /\ main.join \in {"RemoveDriver", "Wait", "Drop"} => main.loop = NULL
  /\ main.join \in {"AddDriver", "RemoveDriver"} => main.arg \in Drivers
  /\ main.join = "Wait" => main.arg \in Plugins /\ phase[main.arg] = "ending"
  /\ main.join = "Drop" => main.arg \in Exts /\ s_pAddBlock = main.arg
  /\ main.loop = "Drop" => s_pAddBlock # NULL
  /\ \A t \in Tokens :
       /\ phase[t] = "dropping" <=> s_pAddBlock = t
       /\ phase[t] = "dropping" => main.join = "Drop" \/ main.loop = "Drop"
       /\ phase[t] \in {"loading", "ending"} => t \in Plugins
       /\ phase[t] \in {"dropping", "dropped"} => t \in Exts
       /\ phase[t] = "loading" => main.loop = NULL /\ main.join # "RemoveDriver"
       /\ phase[t] # "none" => gen[t] # 0
       /\ gen[t] <= loads
  /\ \A t, u \in Tokens : Busy(t) /\ Busy(u) => t = u

\* m_OperationOwners has the operations that are not finalized yet.
OwnersOK ==
  \A o \in Ops :
    /\ ops[o].alive => ops[o].owner \in Tokens
    /\ m_OperationOwners[o] = IF ops[o].alive /\ o # main.callback THEN ops[o].owner ELSE NULL

\* An operation that is neither late nor marked cancelled has an owner that is
\* loaded, and that has nothing left but what is being finalized when it is on
\* its way out.
Settled(o) ==
  /\ OwnerLoaded(o) /\ phase[ops[o].owner] # "loading"
  /\ phase[ops[o].owner] # "running" /\ main.join \notin {"Wait", "Drop"} => Has(main.todo, o) \/ main.callback = o

SettledOK ==
  /\ main.callback \notin m_CancelledOperations
  /\ \A o \in Ops :
       ops[o].alive /\ ~ops[o].late /\ (o \notin m_CancelledOperations \/ ops[o].owner \in Exts)
         => Settled(o)

\* The plugin that o was cancelled for is on its way out, or gone and its token
\* may stand for a later load; only then is o destroyed with its mark left.
Orphan(o) ==
  /\ ops[o].owner \in Plugins
  /\ \/ ops[o].gen < gen[ops[o].owner]
     \/ ops[o].alive /\ phase[ops[o].owner] \in {"ending", "none"}

\* The marks are those of orphans, or were found at the address of a new
\* operation.
CancelledOK ==
  /\ main.callback # NULL => ops[main.callback].fate # "pending"
  /\ \A o \in Ops : ops[o].gen <= loads /\ (ops[o].fate = "lost" => ops[o].marked)
  /\ \A o \in m_CancelledOperations : ops[o].marked \/ Orphan(o)

Before(a, b) == ops[a].prio = ops[b].prio => ops[a].n < ops[b].n

OrderOK ==
  /\ \A o \in Ops : ops[o].n <= made
  /\ \A p \in Prio, a, b \in Ops :
       /\ Has(m_OpQueue[p], a) => ops[a].prio = p
       /\ Precedes(m_OpQueue[p], a, b) => Before(a, b)
       /\ worker.op = a /\ Has(m_OpQueue[p], b) => Before(a, b)
       /\ Has(m_ThinkQueue, a) /\ Has(m_OpQueue[p], b) => Before(a, b)
       /\ Has(m_ThinkQueue, a) /\ worker.op = b => Before(a, b)
       /\ Precedes(m_ThinkQueue, a, b) => Before(a, b)

IInv ==
  /\ TypeOK /\ HomesOK /\ WorkerOK /\ MainOK /\ DriversFixed
  /\ OwnersOK /\ SettledOK /\ CancelledOK /\ OrderOK

-----------------------------------------------------------------------------
(* Steps that leave the operations where they are.                         *)

Quiet ==
  /\ UNCHANGED <<m_OpQueue, m_ThinkQueue, m_OperationOwners, m_CancelledOperations, ops, made>>
  /\ worker'.op = worker.op /\ main'.todo = main.todo /\ main'.callback = main.callback

\* What is said of the operations themselves stays true.
LEMMA QuietStep ==
  ASSUME IInv, Quiet
  PROVE  HomesOK' /\ OwnersOK' /\ OrderOK'
<1>1. HomesOK'
  <2>1. PICK home \in [Ops -> Places] : IsHome(home)
    BY DEF IInv, HomesOK
  <2>2. IsHome(home)'
    BY <2>1 DEF IsHome, Quiet
  <2> QED BY <2>2 DEF IInv, HomesOK, Quiet
<1>2. OwnersOK'
  BY DEF IInv, OwnersOK, Quiet
<1>3. OrderOK'
  BY DEF IInv, OrderOK, Before, Quiet
<1> QED BY <1>1, <1>2, <1>3

\* A step of the worker that only changes its program counter.
LEMMA WorkerPCStep ==
  ASSUME IInv, NEW pc \in WorkerPC, worker' = [worker EXCEPT !.pc = pc],
         worker.pc \in {"start", "top", "waiting", "RunThreadPart"},
         pc \in {"RunThreadPart", "push"} <=> worker.pc \in {"RunThreadPart", "push"},
         pc = "done" => m_Terminate /\ \A p \in Prio : m_OpQueue[p] = <<>>,
         pc # "none",
         m_drSafety' \in Nat,
         pc \notin {"none", "start", "done"} => m_drSafety' = Len(m_drivers),
         UNCHANGED <<shared, m_Terminate, m_drivers, s_pAddBlock, main, life, ops, made>>
  PROVE  IInv'
<1>0. worker'.pc = pc /\ worker'.op = worker.op /\ worker' \in [pc : WorkerPC, op : Ops \cup {NULL}]
  BY DEF IInv, TypeOK
<1>1. HomesOK' /\ OwnersOK' /\ OrderOK'
  BY <1>0, QuietStep DEF Quiet, shared
<1>2. TypeOK'
  BY <1>0 DEF IInv, TypeOK, Op, shared, life
<1>3. WorkerOK'
  BY <1>0 DEF IInv, WorkerOK, shared
<1>4. MainOK'
  BY DEF IInv, MainOK, Busy, shared, life
<1>5. DriversFixed'
  BY <1>0 DEF DriversFixed
<1>6. SettledOK' /\ CancelledOK'
  BY DEF IInv, SettledOK, Settled, OwnerLoaded, CancelledOK, Orphan, shared, life
<1> QED BY <1>1, <1>2, <1>3, <1>4, <1>5, <1>6 DEF IInv

\* The priority of the next operation to be fetched is one of the three.
LEMMA LikelyQueue ==
  /\ GetLikelyQueue \in Prio
  /\ m_OpQueue[GetLikelyQueue] = <<>> => \A p \in Prio : m_OpQueue[p] = <<>>
  BY DEF GetLikelyQueue, Prio

\* The worker's steps that touch no operation.
LEMMA WorkerQuietStep ==
  ASSUME IInv, WorkerStart \/ WaitEvent \/ SpuriousWake \/ WorkerExit \/ RunThreadPart
  PROVE  IInv'
<1>0. m_drSafety \in Nat /\ Len(m_drivers) \in Nat /\ DriversFixed
  BY DEF IInv, TypeOK
<1>1. CASE WorkerStart
  <2> DEFINE pc == "top"
  <2> QED BY <1>0, <1>1, WorkerPCStep DEF WorkerStart, WorkerPC
<1>2. CASE WaitEvent
  BY <1>0, <1>2, WorkerPCStep DEF WaitEvent, WorkerPC, DriversFixed
<1>3. CASE SpuriousWake
  BY <1>0, <1>3, WorkerPCStep DEF SpuriousWake, WorkerPC, DriversFixed
<1>4. CASE WorkerExit
  BY <1>0, <1>4, WorkerPCStep, LikelyQueue DEF WorkerExit, MustStop, WorkerPC
<1>5. CASE RunThreadPart
  BY <1>0, <1>5, WorkerPCStep DEF RunThreadPart, WorkerPC, DriversFixed
<1> QED BY <1>1, <1>2, <1>3, <1>4, <1>5

-----------------------------------------------------------------------------
(* Plugins and extensions come and go.                                     *)

\* A token is loaded.
LEMMA LoadStep ==
  ASSUME IInv, NEW t \in Tokens, Load(t)
  PROVE  IInv'
<1>0. /\ Idle /\ phase[t] = "none" /\ loads < MaxLoads /\ (gen[t] = 0 \/ "IdentReuse" \in Habits)
      /\ phase' = [phase EXCEPT ![t] = IF t \in Plugins THEN "loading" ELSE "running"]
      /\ gen' = [gen EXCEPT ![t] = loads + 1] /\ loads' = loads + 1
      /\ UNCHANGED <<m_OpQueue, m_ThinkQueue, m_ActiveOperation, m_OperationOwners, m_CancelledOperations,
                     m_Terminate, m_drivers, m_drSafety, s_pAddBlock, worker, main, ops, made>>
  BY DEF Load, Rest, shared
<1>t. /\ phase \in [Tokens -> {"none", "loading", "running", "ending", "dropping", "dropped"}]
      /\ gen \in [Tokens -> 0..MaxLoads] /\ loads \in 0..MaxLoads /\ MaxLoads \in Nat
      /\ ops \in [Ops -> Op]
  BY DBAssumption DEF IInv, TypeOK
<1>1. HomesOK' /\ OwnersOK' /\ OrderOK'
  BY <1>0, QuietStep DEF Quiet
<1>2. TypeOK'
  BY <1>0, <1>t DEF IInv, TypeOK
<1>3. WorkerOK' /\ DriversFixed'
  BY <1>0 DEF IInv, WorkerOK, DriversFixed
<1>4. MainOK'
  <2>1. main.join = NULL /\ main.loop = NULL /\ \A u \in Tokens : phase[u] \in {"none", "running"}
    BY <1>0 DEF Idle
  <2>2. \A u \in Tokens : /\ gen'[u] <= loads' /\ (phase'[u] # "none" => gen'[u] # 0)
                          /\ u # t => phase'[u] = phase[u]
    BY <1>0, <1>t DEF IInv, MainOK
  <2>3. phase'[t] \in {"loading", "running"} /\ (phase'[t] = "loading" => t \in Plugins)
    BY <1>0, <1>t
  <2>4. s_pAddBlock # t
    BY <1>0 DEF IInv, MainOK
  <2> QED BY <1>0, <1>t, <2>1, <2>2, <2>3, <2>4, DBAssumption DEF IInv, MainOK, Busy, Reasons
<1>5. SettledOK'
  <2>1. ASSUME NEW o \in Ops, ops[o].alive, OwnerLoaded(o)
        PROVE  ops[o].owner # t /\ ops[o].owner \in Tokens
    BY <1>0, <2>1 DEF OwnerLoaded, IInv, OwnersOK
  <2> QED BY <1>0, <1>t, <2>1 DEF IInv, SettledOK, Settled, OwnerLoaded
<1>6. CancelledOK'
  <2>1. \A x \in Ops : ops[x].gen \in 0..MaxLoads /\ ops[x].gen <= loads /\ ops[x].gen <= loads'
    BY <1>0, <1>t DEF IInv, CancelledOK, Op
  <2>2. ASSUME NEW x \in m_CancelledOperations PROVE ops[x].marked \/ Orphan(x)'
    <3>1. x \in Ops /\ (ops[x].marked \/ Orphan(x))
      BY DEF IInv, CancelledOK, TypeOK
    <3>2. CASE ops[x].owner = t
      BY <2>1, <3>1, <3>2, <1>0, <1>t DEF Orphan
    <3>3. CASE ops[x].owner # t
      BY <3>1, <3>3, <1>0, <1>t DEF Orphan, Tokens
    <3> QED BY <3>2, <3>3
  <2> QED BY <2>1, <2>2, <1>0 DEF IInv, CancelledOK
<1> QED BY <1>1, <1>2, <1>3, <1>4, <1>5, <1>6 DEF IInv

\* A plugin enters its second pass, or fails to load.
LEMMA FinishLoadStep ==
  ASSUME IInv, NEW t \in Tokens, FinishLoad(t)
  PROVE  IInv'
<1>0. /\ phase[t] = "loading" /\ main.join = NULL
      /\ phase' = [phase EXCEPT ![t] = "running"] \/ phase' = [phase EXCEPT ![t] = "none"]
      /\ UNCHANGED <<m_OpQueue, m_ThinkQueue, m_ActiveOperation, m_OperationOwners, m_CancelledOperations,
                     m_Terminate, m_drivers, m_drSafety, s_pAddBlock, worker, main, ops, made, gen, loads>>
  BY DEF FinishLoad, ClientTurn, Rest, shared
<1>t. phase \in [Tokens -> {"none", "loading", "running", "ending", "dropping", "dropped"}]
  BY DEF IInv, TypeOK
<1>u. \A u \in Tokens : u # t => phase'[u] = phase[u]
  BY <1>0, <1>t
<1>v. phase'[t] \in {"running", "none"}
  BY <1>0, <1>t
<1>1. HomesOK' /\ OwnersOK' /\ OrderOK'
  BY <1>0, QuietStep DEF Quiet
<1>2. TypeOK'
  BY <1>0, <1>t DEF IInv, TypeOK
<1>3. WorkerOK' /\ DriversFixed'
  BY <1>0 DEF IInv, WorkerOK, DriversFixed
<1>4. MainOK'
  BY <1>0, <1>u, <1>v, DBAssumption DEF IInv, MainOK, Busy, Tokens
<1>5. SettledOK'
  BY <1>0, <1>u, <1>v DEF IInv, SettledOK, Settled, OwnerLoaded, OwnersOK
<1>6. CancelledOK'
  BY <1>0, <1>u, <1>v, <1>t DEF IInv, CancelledOK, Orphan, OwnersOK, Tokens
<1> QED BY <1>1, <1>2, <1>3, <1>4, <1>5, <1>6 DEF IInv

\* A plugin or extension is deleted: nothing of it is left to be finalized.
LEMMA DeleteStep ==
  ASSUME IInv, NEW t \in Tokens, Delete(t)
  PROVE  IInv'
<1>0. /\ phase[t] \in {"ending", "dropped"} /\ main.join = NULL /\ main.loop = NULL
      /\ phase' = [phase EXCEPT ![t] = "none"]
      /\ UNCHANGED <<m_OpQueue, m_ThinkQueue, m_ActiveOperation, m_OperationOwners, m_CancelledOperations,
                     m_Terminate, m_drivers, m_drSafety, s_pAddBlock, worker, main, ops, made, gen, loads>>
  BY DEF Delete, Rest, shared
<1>t. phase \in [Tokens -> {"none", "loading", "running", "ending", "dropping", "dropped"}]
  BY DEF IInv, TypeOK
<1>u. (\A u \in Tokens : u # t => phase'[u] = phase[u]) /\ phase'[t] = "none"
  BY <1>0, <1>t
<1>1. HomesOK' /\ OwnersOK' /\ OrderOK'
  BY <1>0, QuietStep DEF Quiet
<1>2. TypeOK'
  BY <1>0, <1>t DEF IInv, TypeOK
<1>3. WorkerOK' /\ DriversFixed'
  BY <1>0 DEF IInv, WorkerOK, DriversFixed
<1>4. MainOK'
  BY <1>0, <1>u, DBAssumption DEF IInv, MainOK, Busy, Tokens, Reasons
<1>5. SettledOK'
  <2>1. \A o \in Ops : ~Has(main.todo, o) /\ main.callback # o
    <3>1. main.todo = <<>> /\ main.callback = NULL
      BY <1>0 DEF IInv, MainOK
    <3> QED BY <3>1, EmptyList, DBAssumption
  <2>2. NULL \notin {"Wait", "Drop"}
    BY DBAssumption DEF Reasons
  <2> QED BY <1>0, <1>u, <2>1, <2>2 DEF IInv, SettledOK, Settled, OwnerLoaded, OwnersOK
<1>6. CancelledOK'
  BY <1>0, <1>u, <1>t DEF IInv, CancelledOK, Orphan, OwnersOK, Tokens
<1> QED BY <1>1, <1>2, <1>3, <1>4, <1>5, <1>6 DEF IInv

-----------------------------------------------------------------------------
(* KillWorkerThread.                                                       *)

\* What it does to the worker: it is told to end, and woken.
LEMMA KillFacts ==
  ASSUME IInv, NEW r \in Reasons, NEW x \in Tokens \cup Drivers, KillWorkerThread(r, x)
  PROVE  /\ main' = [main EXCEPT !.join = r, !.arg = x]
         /\ main'.join = r /\ main'.arg = x /\ main'.loop = main.loop
         /\ main'.todo = main.todo /\ main'.callback = main.callback
         /\ main' \in [join : Reasons \cup {NULL}, arg : Tokens \cup Drivers \cup {NULL},
                       loop : Loops \cup {NULL}, todo : Seq(Ops), callback : Ops \cup {NULL}]
         /\ worker' \in [pc : WorkerPC, op : Ops \cup {NULL}] /\ worker'.op = worker.op
         /\ worker'.pc = worker.pc \/ (worker.pc = "waiting" /\ worker'.pc = "top")
         /\ m_Terminate' \in BOOLEAN /\ (m_Terminate => m_Terminate')
         /\ worker.pc = "none" => m_Terminate' = m_Terminate
         /\ r # NULL
<1>1. main' = [main EXCEPT !.join = r, !.arg = x]
  BY DEF KillWorkerThread
<1>2. main \in [join : Reasons \cup {NULL}, arg : Tokens \cup Drivers \cup {NULL},
                loop : Loops \cup {NULL}, todo : Seq(Ops), callback : Ops \cup {NULL}]
  BY DEF IInv, TypeOK
<1>3. worker \in [pc : WorkerPC, op : Ops \cup {NULL}] /\ m_Terminate \in BOOLEAN
  BY DEF IInv, TypeOK
<1>4. /\ worker' = worker \/ (worker.pc = "waiting" /\ worker' = [worker EXCEPT !.pc = "top"])
      /\ m_Terminate' = m_Terminate \/ m_Terminate' = TRUE
  BY DEF KillWorkerThread, Woken
<1>5. /\ worker' \in [pc : WorkerPC, op : Ops \cup {NULL}] /\ worker'.op = worker.op
      /\ worker'.pc = worker.pc \/ (worker.pc = "waiting" /\ worker'.pc = "top")
  BY <1>3, <1>4 DEF WorkerPC
<1>6. /\ main'.join = r /\ main'.arg = x /\ main'.loop = main.loop
      /\ main'.todo = main.todo /\ main'.callback = main.callback
  BY <1>1, <1>2
<1>7. main' \in [join : Reasons \cup {NULL}, arg : Tokens \cup Drivers \cup {NULL},
                 loop : Loops \cup {NULL}, todo : Seq(Ops), callback : Ops \cup {NULL}]
  BY <1>1, <1>2
<1>8. m_Terminate' \in BOOLEAN /\ (m_Terminate => m_Terminate')
  <2>1. CASE m_Terminate' = m_Terminate
    BY <1>3, <2>1
  <2>2. CASE m_Terminate' = TRUE
    BY <2>2
  <2> QED BY <1>4, <2>1, <2>2
<1>9. r # NULL /\ (worker.pc = "none" => m_Terminate' = m_Terminate)
  BY DBAssumption DEF KillWorkerThread
<1> QED BY <1>1, <1>5, <1>6, <1>7, <1>8, <1>9

\* What it leaves of the invariant, while the tokens may change.
LEMMA KillStep ==
  ASSUME IInv, NEW r \in Reasons, NEW x \in Tokens \cup Drivers, KillWorkerThread(r, x),
         UNCHANGED <<shared, m_drivers, m_drSafety, gen, loads, ops, made>>
  PROVE  HomesOK' /\ OwnersOK' /\ OrderOK' /\ WorkerOK' /\ DriversFixed'
<1>0. UNCHANGED <<m_OpQueue, m_ThinkQueue, m_ActiveOperation, m_OperationOwners, m_CancelledOperations,
                  m_drivers, m_drSafety, gen, loads, ops, made>>
  BY DEF shared
<1>1. HomesOK' /\ OwnersOK' /\ OrderOK'
  BY <1>0, KillFacts, QuietStep DEF Quiet
<1>2. WorkerOK'
  BY <1>0, KillFacts DEF IInv, WorkerOK
<1>3. DriversFixed'
  BY <1>0, KillFacts DEF IInv, DriversFixed
<1> QED BY <1>1, <1>2, <1>3

\* AddDriver waits for the worker, from a callback too.
LEMMA AddDriverStep ==
  ASSUME IInv, NEW d \in Drivers, AddDriver(d)
  PROVE  IInv'
<1>0. /\ KillWorkerThread("AddDriver", d) /\ main.join = NULL /\ "AddDriver" \in Reasons
      /\ UNCHANGED <<shared, m_drivers, m_drSafety, gen, loads, ops, made>>
      /\ UNCHANGED <<phase, s_pAddBlock, m_OpQueue, m_ThinkQueue, m_ActiveOperation,
                     m_OperationOwners, m_CancelledOperations>>
  BY DEF AddDriver, ClientTurn, shared, life, Reasons
<1>1. HomesOK' /\ OwnersOK' /\ OrderOK' /\ WorkerOK' /\ DriversFixed'
  BY <1>0, KillStep
<1>2. TypeOK'
  BY <1>0, KillFacts DEF IInv, TypeOK
<1>3. /\ main'.join = "AddDriver" /\ main'.arg = d /\ main'.loop = main.loop
      /\ main'.todo = main.todo /\ main'.callback = main.callback
  BY <1>0, KillFacts
<1>4. MainOK'
  BY <1>0, <1>3, DBAssumption DEF IInv, MainOK, Busy, Reasons
<1>5. SettledOK'
  BY <1>0, <1>3, DBAssumption DEF IInv, SettledOK, Settled, OwnerLoaded, Reasons
<1>6. CancelledOK'
  BY <1>0, <1>3 DEF IInv, CancelledOK, Orphan
<1> QED BY <1>1, <1>2, <1>4, <1>5, <1>6 DEF IInv

\* RemoveDriver waits for the worker, between calls.
LEMMA RemoveDriverStep ==
  ASSUME IInv, NEW d \in Drivers, RemoveDriver(d)
  PROVE  IInv'
<1>0. /\ KillWorkerThread("RemoveDriver", d) /\ main.join = NULL /\ "RemoveDriver" \in Reasons
      /\ main.loop = NULL /\ \A u \in Tokens : phase[u] \in {"none", "running"}
      /\ UNCHANGED <<shared, m_drivers, m_drSafety, gen, loads, ops, made>>
      /\ UNCHANGED <<phase, s_pAddBlock, m_OpQueue, m_ThinkQueue, m_ActiveOperation,
                     m_OperationOwners, m_CancelledOperations>>
  BY DEF RemoveDriver, Idle, shared, life, Reasons
<1>1. HomesOK' /\ OwnersOK' /\ OrderOK' /\ WorkerOK' /\ DriversFixed'
  BY <1>0, KillStep
<1>2. TypeOK'
  BY <1>0, KillFacts DEF IInv, TypeOK
<1>3. /\ main'.join = "RemoveDriver" /\ main'.arg = d /\ main'.loop = main.loop
      /\ main'.todo = main.todo /\ main'.callback = main.callback
  BY <1>0, KillFacts
<1>4. MainOK'
  BY <1>0, <1>3, DBAssumption DEF IInv, MainOK, Busy, Reasons
<1>5. SettledOK'
  BY <1>0, <1>3, DBAssumption DEF IInv, SettledOK, Settled, OwnerLoaded, Reasons
<1>6. CancelledOK'
  BY <1>0, <1>3 DEF IInv, CancelledOK, Orphan
<1> QED BY <1>1, <1>2, <1>4, <1>5, <1>6 DEF IInv

\* An unloading plugin waits for its operations, or an extension is dropped.
LEMMA JoinForOwnerStep ==
  ASSUME IInv, NEW t \in Tokens, WaitForPluginOperations(t) \/ OnSourceModIdentityDropped(t)
  PROVE  IInv'
<1>0. /\ main.join = NULL /\ main.loop = NULL /\ phase[t] = "running"
      /\ \A u \in Tokens : phase[u] \in {"none", "running"}
      /\ UNCHANGED <<shared, m_drivers, m_drSafety, gen, loads, ops, made>>
      /\ UNCHANGED <<m_OpQueue, m_ThinkQueue, m_ActiveOperation,
                     m_OperationOwners, m_CancelledOperations>>
  BY DEF WaitForPluginOperations, OnSourceModIdentityDropped, Idle, shared
<1>r. PICK r \in Reasons :
        /\ KillWorkerThread(r, t)
        /\ \/ /\ r = "Wait" /\ t \in Plugins /\ phase' = [phase EXCEPT ![t] = "ending"]
              /\ s_pAddBlock' = s_pAddBlock
           \/ /\ r = "Drop" /\ t \in Exts /\ phase' = [phase EXCEPT ![t] = "dropping"]
              /\ s_pAddBlock' = t
  BY DEF WaitForPluginOperations, OnSourceModIdentityDropped, Reasons
<1>t. phase \in [Tokens -> {"none", "loading", "running", "ending", "dropping", "dropped"}]
  BY DEF IInv, TypeOK
<1>u. (\A u \in Tokens : u # t => phase'[u] = phase[u]) /\ phase'[t] \in {"ending", "dropping"}
  BY <1>r, <1>t
<1>1. HomesOK' /\ OwnersOK' /\ OrderOK' /\ WorkerOK' /\ DriversFixed'
  BY <1>0, <1>r, KillStep
<1>2. TypeOK'
  BY <1>0, <1>r, <1>t, KillFacts DEF IInv, TypeOK
<1>3. /\ main'.join = r /\ main'.arg = t /\ main'.loop = main.loop
      /\ main'.todo = main.todo /\ main'.callback = main.callback
  BY <1>r, KillFacts
<1>4. MainOK'
  <2>1. s_pAddBlock = NULL \/ s_pAddBlock \notin Tokens
    BY <1>0 DEF IInv, MainOK
  <2>2. s_pAddBlock = NULL
    BY <2>1 DEF IInv, TypeOK
  <2>3. CASE r = "Wait"
    <3>1. t \in Plugins /\ t \notin Exts /\ phase'[t] = "ending" /\ s_pAddBlock' = NULL /\ NULL \notin Tokens
      BY <1>r, <1>t, <2>2, <2>3, DBAssumption
    <3> QED BY <1>0, <1>3, <1>u, <2>2, <2>3, <3>1, DBAssumption DEF IInv, MainOK, Busy, Reasons
  <2>4. CASE r = "Drop"
    <3>1. t \in Exts /\ t \notin Plugins /\ phase'[t] = "dropping" /\ s_pAddBlock' = t /\ t # NULL
      BY <1>r, <1>t, <2>2, <2>4, DBAssumption
    <3> QED BY <1>0, <1>3, <1>u, <2>2, <2>4, <3>1, DBAssumption DEF IInv, MainOK, Busy, Reasons
  <2> QED BY <1>r, <2>3, <2>4
<1>5. SettledOK'
  <2>1. main'.join \in {"Wait", "Drop"}
    BY <1>r, <1>3
  <2> QED BY <1>0, <1>3, <1>u, <2>1 DEF IInv, SettledOK, Settled, OwnerLoaded, OwnersOK
<1>6. CancelledOK'
  BY <1>0, <1>3, <1>u, <1>t DEF IInv, CancelledOK, Orphan, Tokens
<1> QED BY <1>1, <1>2, <1>4, <1>5, <1>6 DEF IInv

-----------------------------------------------------------------------------
(* Operations are queued.                                                  *)

\* Where an operation is decides what holds of it.
LEMMA HomeFacts ==
  ASSUME IInv, NEW o \in Ops
  PROVE  /\ ~ops[o].alive => /\ worker.op # o /\ main.callback # o
                             /\ ~Has(m_ThinkQueue, o) /\ ~Has(main.todo, o)
                             /\ \A p \in Prio : ~Has(m_OpQueue[p], o)
         /\ worker.op = o => /\ ops[o].alive /\ main.callback # o
                             /\ ~Has(m_ThinkQueue, o) /\ ~Has(main.todo, o)
                             /\ \A p \in Prio : ~Has(m_OpQueue[p], o)
         /\ main.callback = o => /\ ops[o].alive
                                 /\ ~Has(m_ThinkQueue, o) /\ ~Has(main.todo, o)
                                 /\ \A p \in Prio : ~Has(m_OpQueue[p], o)
         /\ Has(main.todo, o) => ops[o].alive /\ main.callback # o
         /\ Has(m_ThinkQueue, o) => ops[o].alive /\ main.callback # o /\ ~Has(main.todo, o)
         /\ \A p \in Prio : Has(m_OpQueue[p], o) =>
              ops[o].alive /\ main.callback # o /\ ~Has(main.todo, o)
         /\ ops[o].alive /\ main.callback # o /\ worker.op # o /\ ~Has(main.todo, o) =>
              Has(m_ThinkQueue, o) \/ \E p \in Prio : Has(m_OpQueue[p], o)
<1>1. PICK home \in [Ops -> Places] : IsHome(home)
  BY DEF IInv, HomesOK
<1>2. home[o] \in Places
  OBVIOUS
<1> QED BY <1>1, <1>2 DEF IsHome, Places, Prio

\* AddToThreadQueue, by some load g of t.
LEMMA EnqueueStep ==
  ASSUME IInv, NEW o \in Ops, NEW t \in Tokens, NEW g \in 0..MaxLoads, g <= loads,
         NEW d \in Drivers \cup {NULL}, NEW prio \in Prio,
         Enqueue(o, t, g, d, prio), worker' \in [pc : WorkerPC, op : Ops \cup {NULL}],
         worker'.op = worker.op, worker'.pc \notin {"none", "done"},
         \/ worker'.pc = worker.pc
         \/ worker.pc = "none" /\ worker'.pc = "start"
         \/ worker.pc = "waiting" /\ worker'.pc = "top"
  PROVE  IInv'
<1> DEFINE late == g # gen[t] \/ phase[t] # "running"
           marked == o \in m_CancelledOperations
           new == [ alive |-> TRUE, owner |-> t, gen |-> g, driver |-> d, prio |-> prio,
                    n |-> made + 1, late |-> late, marked |-> marked, fate |-> "pending" ]
<1>0. /\ ~ops[o].alive /\ made < MaxOps /\ made' = made + 1
      /\ ops' = [ops EXCEPT ![o] = new]
      /\ RecordOwner(o, t)
      /\ m_OpQueue' = [m_OpQueue EXCEPT ![prio] = Append(@, o)]
      /\ UNCHANGED <<m_ThinkQueue, m_ActiveOperation, m_CancelledOperations, m_Terminate,
                     m_drivers, m_drSafety, s_pAddBlock, main, phase, gen, loads>>
  BY DEF Enqueue, life
<1>t. /\ ops \in [Ops -> Op] /\ made \in 0..MaxOps /\ MaxOps \in Nat /\ gen \in [Tokens -> 0..MaxLoads]
      /\ m_OpQueue \in [Prio -> Seq(Ops)] /\ m_OperationOwners \in [Ops -> Tokens \cup {NULL}]
      /\ m_ThinkQueue \in Seq(Ops) /\ worker.op \in Ops \cup {NULL}
  BY DBAssumption DEF IInv, TypeOK
<1>n. new \in Op
  BY <1>0, <1>t DEF Op
<1>a. /\ ops' \in [Ops -> Op] /\ ops'[o] = new /\ \A x \in Ops : x # o => ops'[x] = ops[x]
      /\ new.alive /\ new.owner = t /\ new.gen = g /\ new.prio = prio /\ new.n = made + 1
      /\ new.fate = "pending" /\ new.late = late /\ new.marked = marked
  BY <1>0, <1>t, <1>n
<1> HIDE DEF new
<1>b. /\ m_OpQueue' \in [Prio -> Seq(Ops)]
      /\ \A p \in Prio : p # prio => m_OpQueue'[p] = m_OpQueue[p]
      /\ m_OpQueue'[prio] = Append(m_OpQueue[prio], o)
  BY <1>0, <1>t
<1>c. /\ \A x : Has(m_OpQueue'[prio], x) <=> Has(m_OpQueue[prio], x) \/ x = o
      /\ \A x, y : Precedes(m_OpQueue'[prio], x, y) =>
           Precedes(m_OpQueue[prio], x, y) \/ (Has(m_OpQueue[prio], x) /\ y = o)
  <2>1. m_OpQueue[prio] \in Seq(Ops)
    BY <1>t
  <2> QED BY <1>b, <2>1, AppendList
<1>d. /\ worker.op # o /\ main.callback # o
      /\ ~Has(m_ThinkQueue, o) /\ ~Has(main.todo, o) /\ \A p \in Prio : ~Has(m_OpQueue[p], o)
  BY <1>0, HomeFacts
<1>e. m_OperationOwners' = [m_OperationOwners EXCEPT ![o] = t]
  BY <1>0, <1>t DEF RecordOwner, IInv, OwnersOK
<1>1. HomesOK'
  <2>1. PICK home \in [Ops -> Places] : IsHome(home)
    BY DEF IInv, HomesOK
  <2> DEFINE now == [home EXCEPT ![o] = prio]
  <2>2. now \in [Ops -> Places] /\ now[o] = prio /\ \A x \in Ops : x # o => now[x] = home[x]
    BY DEF Places
  <2> HIDE DEF now
  <2>3. prio \notin {"think", "todo", "worker", "callback", "nowhere"}
    BY DEF Prio
  <2>4. IsHome(now)'
    <3> SUFFICES ASSUME NEW x \in Ops
                 PROVE  /\ \A p \in Prio : Has(m_OpQueue'[p], x) <=> now[x] = p
                        /\ Has(m_ThinkQueue', x) <=> now[x] = "think"
                        /\ Has(main'.todo, x) <=> now[x] = "todo"
                        /\ worker'.op = x <=> now[x] = "worker"
                        /\ main'.callback = x <=> now[x] = "callback"
                        /\ ops'[x].alive <=> now[x] # "nowhere"
      BY DEF IsHome
    <3>1. CASE x = o
      BY <3>1, <2>2, <2>3, <1>0, <1>a, <1>b, <1>c, <1>d
    <3>2. CASE x # o
      BY <3>2, <2>1, <2>2, <1>0, <1>a, <1>b, <1>c DEF IsHome
    <3> QED BY <3>1, <3>2
  <2>5. Distinct(m_OpQueue[prio]) /\ m_OpQueue[prio] \in Seq(Ops)
    BY <1>t DEF IInv, HomesOK
  <2>6. Distinct(m_OpQueue'[prio])
    BY <2>5, <1>b, <1>d, AppendList
  <2>7. \A p \in Prio : Distinct(m_OpQueue'[p])
    BY <2>6, <1>b DEF IInv, HomesOK
  <2> QED BY <2>2, <2>4, <2>7, <1>0 DEF IInv, HomesOK
<1>2. TypeOK'
  BY <1>0, <1>t, <1>a, <1>b, <1>e DEF IInv, TypeOK
<1>3. WorkerOK'
  BY <1>0 DEF IInv, WorkerOK
<1>4. MainOK'
  BY <1>0 DEF IInv, MainOK, Busy
<1>5. DriversFixed'
  BY <1>0 DEF IInv, DriversFixed
<1>6. OwnersOK'
  BY <1>0, <1>t, <1>a, <1>d, <1>e DEF IInv, OwnersOK
<1>7. SettledOK'
  <2>1. ~ops'[o].late => Settled(o)'
    BY <1>0, <1>a DEF Settled, OwnerLoaded
  <2>2. ASSUME NEW x \in Ops, x # o, ops[x].alive, ~ops[x].late,
               x \notin m_CancelledOperations \/ ops[x].owner \in Exts
        PROVE  Settled(x)'
    BY <2>2, <1>0, <1>a DEF IInv, SettledOK, Settled, OwnerLoaded
  <2> QED BY <2>1, <2>2, <1>0, <1>a DEF IInv, SettledOK
<1>8. CancelledOK'
  <2>0. m_CancelledOperations \subseteq Ops /\ main.callback \in Ops \cup {NULL}
    BY DEF IInv, TypeOK
  <2> QED BY <2>0, <1>0, <1>a, <1>d DEF IInv, CancelledOK, Orphan
<1>9. OrderOK'
  <2>0. /\ \A x \in Ops : ops[x].n <= made /\ ops[x].n \in Nat
        /\ made \in Nat /\ made + 1 \in Nat
    BY <1>t DEF IInv, OrderOK, Op
  <2>1. \A x \in Ops : ops'[x].n <= made'
    BY <2>0, <1>0, <1>a
  <2>2. \A x, y \in Ops : x # o /\ y # o /\ Before(x, y) => Before(x, y)'
    BY <1>a DEF Before
  <2>3. \A x \in Ops : x # o => Before(x, o)'
    BY <2>0, <1>a DEF Before
  <2>4. \A x, y : \A p \in Prio : Precedes(m_OpQueue[p], x, y) => Has(m_OpQueue[p], x) /\ Has(m_OpQueue[p], y)
    BY <1>t, HasType
  <2>5. \A x, y : Precedes(m_ThinkQueue, x, y) => Has(m_ThinkQueue, x) /\ Has(m_ThinkQueue, y)
    BY <1>t, HasType
  <2> SUFFICES ASSUME NEW p \in Prio, NEW x \in Ops, NEW y \in Ops
               PROVE  /\ Has(m_OpQueue'[p], x) => ops'[x].prio = p
                      /\ Precedes(m_OpQueue'[p], x, y) => Before(x, y)'
                      /\ worker'.op = x /\ Has(m_OpQueue'[p], y) => Before(x, y)'
                      /\ Has(m_ThinkQueue', x) /\ Has(m_OpQueue'[p], y) => Before(x, y)'
                      /\ Has(m_ThinkQueue', x) /\ worker'.op = y => Before(x, y)'
                      /\ Precedes(m_ThinkQueue', x, y) => Before(x, y)'
    BY <2>1 DEF OrderOK
  <2>o. /\ Has(m_OpQueue[p], x) => ops[x].prio = p
        /\ Precedes(m_OpQueue[p], x, y) => Before(x, y)
        /\ worker.op = x /\ Has(m_OpQueue[p], y) => Before(x, y)
    BY DEF IInv, OrderOK
  <2>p. Has(m_OpQueue'[p], y) => Has(m_OpQueue[p], y) \/ y = o
    BY <1>b, <1>c
  <2>6. Has(m_OpQueue'[p], x) => ops'[x].prio = p
    <3>1. CASE x = o
      BY <3>1, <1>a, <1>b, <1>d
    <3>2. CASE x # o
      BY <3>2, <2>o, <1>a, <1>b, <1>c
    <3> QED BY <3>1, <3>2
  <2>7. Precedes(m_OpQueue'[p], x, y) => Before(x, y)'
    <3>1. CASE Precedes(m_OpQueue[p], x, y)
      <4>1. x # o /\ y # o
        BY <3>1, <2>4, <1>d
      <4> QED BY <3>1, <4>1, <2>2, <2>o
    <3>2. CASE p = prio /\ Has(m_OpQueue[p], x) /\ y = o
      <4>1. x # o
        BY <3>2, <1>d
      <4> QED BY <3>2, <4>1, <2>3
    <3>3. Precedes(m_OpQueue'[p], x, y) =>
            Precedes(m_OpQueue[p], x, y) \/ (p = prio /\ Has(m_OpQueue[p], x) /\ y = o)
      BY <1>b, <1>c
    <3> QED BY <3>1, <3>2, <3>3
  <2>8. worker'.op = x /\ Has(m_OpQueue'[p], y) => Before(x, y)'
    <3> SUFFICES ASSUME worker.op = x, Has(m_OpQueue'[p], y) PROVE Before(x, y)'
      OBVIOUS
    <3>1. x # o
      BY <1>d
    <3>2. CASE y = o
      BY <3>1, <3>2, <2>3
    <3>3. CASE y # o
      BY <3>1, <3>3, <2>2, <2>o, <2>p
    <3> QED BY <3>2, <3>3
  <2>9. Has(m_ThinkQueue', x) /\ Has(m_OpQueue'[p], y) => Before(x, y)'
    BY <2>2, <2>3, <1>0, <1>b, <1>c, <1>d DEF IInv, OrderOK
  <2>10. Has(m_ThinkQueue', x) /\ worker'.op = y => Before(x, y)'
    BY <2>2, <1>0, <1>d DEF IInv, OrderOK
  <2>11. Precedes(m_ThinkQueue', x, y) => Before(x, y)'
    BY <2>2, <2>5, <1>0, <1>d DEF IInv, OrderOK
  <2> QED BY <2>6, <2>7, <2>8, <2>9, <2>10, <2>11
<1> QED BY <1>1, <1>2, <1>3, <1>4, <1>5, <1>6, <1>7, <1>8, <1>9 DEF IInv

\* A plugin or an extension queues an operation on the game thread.
LEMMA QueryStep ==
  ASSUME IInv, NEW t \in Tokens, NEW o \in Ops, NEW d \in Drivers, NEW prio \in Prio, Query(t, o, d, prio)
  PROVE  IInv'
<1>1. main.join = NULL /\ Enqueue(o, t, gen[t], d, prio)
  BY DEF Query, ClientTurn
<1>2. worker \in [pc : WorkerPC, op : Ops \cup {NULL}] /\ worker.pc # "done"
  BY <1>1 DEF IInv, TypeOK, WorkerOK
<1>3. \/ worker' = worker /\ worker.pc # "none"
      \/ worker.pc = "none" /\ worker' = [worker EXCEPT !.pc = "start"]
      \/ worker.pc = "waiting" /\ worker' = [worker EXCEPT !.pc = "top"]
  BY DEF Query, Woken
<1>4. /\ worker' \in [pc : WorkerPC, op : Ops \cup {NULL}]
      /\ worker'.op = worker.op /\ worker'.pc \notin {"none", "done"}
      /\ \/ worker'.pc = worker.pc
         \/ worker.pc = "none" /\ worker'.pc = "start"
         \/ worker.pc = "waiting" /\ worker'.pc = "top"
  BY <1>2, <1>3 DEF WorkerPC
<1>5. gen[t] \in 0..MaxLoads /\ gen[t] <= loads
  BY DEF IInv, TypeOK, MainOK
<1> QED BY <1>1, <1>4, <1>5, EnqueueStep

\* An extension queues an operation from RunThreadPart.
LEMMA QueryFromThreadStep ==
  ASSUME IInv, NEW o \in Ops, NEW prio \in Prio, QueryFromThread(o, prio)
  PROVE  IInv'
<1>1. /\ worker.pc = "RunThreadPart" /\ worker' = worker
      /\ ops[worker.op].owner \in Exts
      /\ Enqueue(o, ops[worker.op].owner, ops[worker.op].gen, ops[worker.op].driver, prio)
  BY DEF QueryFromThread
<1>2. PICK a \in Ops : a = worker.op
  BY <1>1 DEF IInv, TypeOK, WorkerOK
<1>3. ops[a] \in Op /\ ops[a].gen <= loads
  BY DEF IInv, TypeOK, CancelledOK
<1>4. PICK t \in Tokens, g \in 0..MaxLoads, d \in Drivers \cup {NULL} :
        t = ops[a].owner /\ g = ops[a].gen /\ d = ops[a].driver
  BY <1>1, <1>2, <1>3 DEF Op, Tokens
<1>5. Enqueue(o, t, g, d, prio) /\ g <= loads
  BY <1>1, <1>2, <1>3, <1>4
<1>6. worker' \in [pc : WorkerPC, op : Ops \cup {NULL}]
  BY <1>1 DEF IInv, TypeOK
<1> QED BY <1>1, <1>5, <1>6, EnqueueStep

-----------------------------------------------------------------------------
(* Operations change hands.                                                *)

\* Some operations go to one place, the others stay.
LEMMA HomeMove ==
  ASSUME IInv, NEW M \in SUBSET Ops, NEW place \in Places,
         \A x \in Ops \ M :
           /\ \A p \in Prio : Has(m_OpQueue'[p], x) <=> Has(m_OpQueue[p], x)
           /\ Has(m_ThinkQueue', x) <=> Has(m_ThinkQueue, x)
           /\ Has(main'.todo, x) <=> Has(main.todo, x)
           /\ worker'.op = x <=> worker.op = x
           /\ main'.callback = x <=> main.callback = x
           /\ ops'[x].alive <=> ops[x].alive,
         \A x \in M :
           /\ \A p \in Prio : Has(m_OpQueue'[p], x) <=> place = p
           /\ Has(m_ThinkQueue', x) <=> place = "think"
           /\ Has(main'.todo, x) <=> place = "todo"
           /\ worker'.op = x <=> place = "worker"
           /\ main'.callback = x <=> place = "callback"
           /\ ops'[x].alive <=> place # "nowhere",
         \A p \in Prio : Distinct(m_OpQueue'[p]),
         Distinct(m_ThinkQueue'), Distinct(main'.todo)
  PROVE  HomesOK'
<1>1. PICK home \in [Ops -> Places] : IsHome(home)
  BY DEF IInv, HomesOK
<1> DEFINE now == [x \in Ops |-> IF x \in M THEN place ELSE home[x]]
<1>2. /\ now \in [Ops -> Places]
      /\ \A x \in M : now[x] = place
      /\ \A x \in Ops \ M : now[x] = home[x]
  OBVIOUS
<1> HIDE DEF now
<1>3. IsHome(now)'
  <2> SUFFICES ASSUME NEW x \in Ops
               PROVE  /\ \A p \in Prio : Has(m_OpQueue'[p], x) <=> now[x] = p
                      /\ Has(m_ThinkQueue', x) <=> now[x] = "think"
                      /\ Has(main'.todo, x) <=> now[x] = "todo"
                      /\ worker'.op = x <=> now[x] = "worker"
                      /\ main'.callback = x <=> now[x] = "callback"
                      /\ ops'[x].alive <=> now[x] # "nowhere"
    BY DEF IsHome
  <2>1. CASE x \in M
    BY <2>1, <1>2
  <2>2. CASE x \in Ops \ M
    BY <2>2, <1>1, <1>2 DEF IsHome
  <2> QED BY <2>1, <2>2
<1> QED BY <1>2, <1>3 DEF HomesOK

\* Taking operations out of a queue does not disturb the order of the others.
LEMMA OrderShrinks ==
  ASSUME IInv, made' = made,
         \A x \in Ops : ops'[x].prio = ops[x].prio /\ ops'[x].n = ops[x].n,
         \A p \in Prio, x, y \in Ops :
           /\ Has(m_OpQueue'[p], x) => Has(m_OpQueue[p], x)
           /\ Precedes(m_OpQueue'[p], x, y) => Precedes(m_OpQueue[p], x, y),
         \A x, y \in Ops :
           /\ Has(m_ThinkQueue', x) => Has(m_ThinkQueue, x)
           /\ Precedes(m_ThinkQueue', x, y) => Precedes(m_ThinkQueue, x, y)
           /\ worker'.op = x => worker.op = x
  PROVE  OrderOK'
<1>1. \A x, y \in Ops : Before(x, y) => Before(x, y)'
  BY DEF Before
<1>2. \A x \in Ops : ops'[x].n <= made'
  BY DEF IInv, OrderOK
<1> SUFFICES ASSUME NEW p \in Prio, NEW x \in Ops, NEW y \in Ops
             PROVE  /\ Has(m_OpQueue'[p], x) => ops'[x].prio = p
                    /\ Precedes(m_OpQueue'[p], x, y) => Before(x, y)'
                    /\ worker'.op = x /\ Has(m_OpQueue'[p], y) => Before(x, y)'
                    /\ Has(m_ThinkQueue', x) /\ Has(m_OpQueue'[p], y) => Before(x, y)'
                    /\ Has(m_ThinkQueue', x) /\ worker'.op = y => Before(x, y)'
                    /\ Precedes(m_ThinkQueue', x, y) => Before(x, y)'
  BY <1>2 DEF OrderOK
<1>3. /\ Has(m_OpQueue[p], x) => ops[x].prio = p
      /\ Precedes(m_OpQueue[p], x, y) => Before(x, y)
      /\ worker.op = x /\ Has(m_OpQueue[p], y) => Before(x, y)
      /\ Has(m_ThinkQueue, x) /\ Has(m_OpQueue[p], y) => Before(x, y)
      /\ Has(m_ThinkQueue, x) /\ worker.op = y => Before(x, y)
      /\ Precedes(m_ThinkQueue, x, y) => Before(x, y)
  BY DEF IInv, OrderOK
<1>4. Has(m_OpQueue'[p], x) => ops'[x].prio = p
  BY <1>3
<1>5. Before(x, y) => Before(x, y)'
  BY <1>1
<1> QED BY <1>3, <1>4, <1>5

\* The worker takes the oldest operation of the highest priority.
LEMMA FetchStep ==
  ASSUME IInv, Fetch
  PROVE  IInv'
<1>p. PICK p \in Prio : p = GetLikelyQueue
  BY LikelyQueue
<1>t. /\ m_OpQueue \in [Prio -> Seq(Ops)] /\ m_OpQueue[p] \in Seq(Ops) /\ m_OpQueue[p] # <<>>
      /\ m_ThinkQueue \in Seq(Ops) /\ worker \in [pc : WorkerPC, op : Ops \cup {NULL}]
  BY <1>p DEF IInv, TypeOK, Fetch
<1>o. PICK o \in Ops : o = Head(m_OpQueue[p])
  BY <1>t, TailList
<1>0. /\ worker.pc = "top"
      /\ m_OpQueue' = [m_OpQueue EXCEPT ![p] = Tail(@)]
      /\ m_ActiveOperation' = o
      /\ worker' = [pc |-> "RunThreadPart", op |-> o]
      /\ UNCHANGED <<m_ThinkQueue, m_OperationOwners, m_CancelledOperations, m_Terminate,
                     m_drivers, m_drSafety, s_pAddBlock, main, phase, gen, loads, ops, made>>
  BY <1>p, <1>o DEF Fetch, life
<1>a. /\ worker'.pc = "RunThreadPart" /\ worker'.op = o /\ worker.op = NULL /\ o # NULL
      /\ worker' \in [pc : WorkerPC, op : Ops \cup {NULL}]
  BY <1>0, <1>t, DBAssumption DEF IInv, WorkerOK, WorkerPC
<1>b. /\ m_OpQueue' \in [Prio -> Seq(Ops)] /\ m_OpQueue'[p] = Tail(m_OpQueue[p])
      /\ \A q \in Prio : q # p => m_OpQueue'[q] = m_OpQueue[q]
  <2>1. Tail(m_OpQueue[p]) \in Seq(Ops)
    BY <1>t, TailList
  <2> QED BY <1>0, <1>t, <2>1
<1>d. Distinct(m_OpQueue[p])
  BY DEF IInv, HomesOK
<1>c. /\ Has(m_OpQueue[p], o) /\ ~Has(m_OpQueue'[p], o)
      /\ \A x : Has(m_OpQueue[p], x) => x = o \/ (Has(m_OpQueue'[p], x) /\ Precedes(m_OpQueue[p], o, x))
      /\ \A x : Has(m_OpQueue'[p], x) => Has(m_OpQueue[p], x)
      /\ \A x, y : Precedes(m_OpQueue'[p], x, y) => Precedes(m_OpQueue[p], x, y)
      /\ Distinct(m_OpQueue'[p])
  BY <1>t, <1>o, <1>b, <1>d, TailList
<1>h. /\ ops[o].alive /\ main.callback # o /\ ~Has(m_ThinkQueue, o) /\ ~Has(main.todo, o)
      /\ \A q \in Prio : q # p => ~Has(m_OpQueue[q], o)
  <2>1. PICK home \in [Ops -> Places] : IsHome(home)
    BY DEF IInv, HomesOK
  <2>2. home[o] = p
    BY <2>1, <1>c DEF IsHome
  <2> QED BY <2>1, <2>2 DEF IsHome, Prio
<1>1. HomesOK'
  <2>1. \A x \in Ops \ {o} :
           /\ \A q \in Prio : Has(m_OpQueue'[q], x) <=> Has(m_OpQueue[q], x)
           /\ Has(m_ThinkQueue', x) <=> Has(m_ThinkQueue, x)
           /\ Has(main'.todo, x) <=> Has(main.todo, x)
           /\ worker'.op = x <=> worker.op = x
           /\ main'.callback = x <=> main.callback = x
           /\ ops'[x].alive <=> ops[x].alive
    BY <1>0, <1>a, <1>b, <1>c, DBAssumption
  <2>2. \A q \in Prio : ~Has(m_OpQueue'[q], o)
    BY <1>b, <1>c, <1>h
  <2>3. /\ \A q \in Prio : Distinct(m_OpQueue'[q])
        /\ Distinct(m_ThinkQueue') /\ Distinct(main'.todo)
    BY <1>0, <1>b, <1>c DEF IInv, HomesOK
  <2>4. "worker" \in Places /\ "worker" \notin Prio
    BY DEF Places, Prio
  <2>5. \A x \in {o} :
           /\ \A q \in Prio : Has(m_OpQueue'[q], x) <=> "worker" = q
           /\ Has(m_ThinkQueue', x) <=> "worker" = "think"
           /\ Has(main'.todo, x) <=> "worker" = "todo"
           /\ worker'.op = x <=> "worker" = "worker"
           /\ main'.callback = x <=> "worker" = "callback"
           /\ ops'[x].alive <=> "worker" # "nowhere"
    BY <2>2, <2>4, <1>0, <1>a, <1>h
  <2>6. {o} \in SUBSET Ops
    OBVIOUS
  <2> QED BY <2>1, <2>3, <2>4, <2>5, <2>6, HomeMove
<1>2. TypeOK'
  BY <1>0, <1>a, <1>b DEF IInv, TypeOK
<1>3. WorkerOK'
  BY <1>0, <1>a DEF IInv, WorkerOK
<1>4. MainOK'
  BY <1>0 DEF IInv, MainOK, Busy
<1>5. DriversFixed'
  BY <1>0, <1>a DEF IInv, DriversFixed
<1>6. OwnersOK'
  BY <1>0 DEF IInv, OwnersOK
<1>7. SettledOK' /\ CancelledOK'
  BY <1>0 DEF IInv, SettledOK, Settled, OwnerLoaded, CancelledOK, Orphan
<1>8. OrderOK'
  <2>1. \A x, y \in Ops : Before(x, y)' <=> Before(x, y)
    BY <1>0 DEF Before
  <2> SUFFICES ASSUME NEW q \in Prio, NEW x \in Ops, NEW y \in Ops
               PROVE  /\ Has(m_OpQueue'[q], x) => ops'[x].prio = q
                      /\ Precedes(m_OpQueue'[q], x, y) => Before(x, y)
                      /\ worker'.op = x /\ Has(m_OpQueue'[q], y) => Before(x, y)
                      /\ Has(m_ThinkQueue', x) /\ Has(m_OpQueue'[q], y) => Before(x, y)
                      /\ Has(m_ThinkQueue', x) /\ worker'.op = y => Before(x, y)
                      /\ Precedes(m_ThinkQueue', x, y) => Before(x, y)
    BY <2>1, <1>0 DEF IInv, OrderOK
  <2>2. /\ Has(m_OpQueue'[q], x) => Has(m_OpQueue[q], x)
        /\ Has(m_OpQueue'[q], y) => Has(m_OpQueue[q], y)
        /\ Precedes(m_OpQueue'[q], x, y) => Precedes(m_OpQueue[q], x, y)
    BY <1>b, <1>c
  <2>3. /\ Has(m_OpQueue[q], x) => ops[x].prio = q
        /\ Has(m_OpQueue[q], y) => ops[y].prio = q
        /\ Precedes(m_OpQueue[q], x, y) => Before(x, y)
        /\ Has(m_ThinkQueue, x) /\ Has(m_OpQueue[q], y) => Before(x, y)
        /\ Precedes(m_ThinkQueue, x, y) => Before(x, y)
    BY DEF IInv, OrderOK
  <2>4. Has(m_ThinkQueue, x) => Before(x, o)
    BY <1>c DEF IInv, OrderOK
  <2>5. Has(m_OpQueue'[q], y) => Before(o, y)
    <3>1. CASE q = p
      <4>1. Has(m_OpQueue'[p], y) => Precedes(m_OpQueue[p], o, y)
        BY <1>c
      <4> QED BY <3>1, <4>1 DEF IInv, OrderOK
    <3>2. CASE q # p
      <4>1. ops[o].prio = p
        BY <1>c DEF IInv, OrderOK
      <4> QED BY <3>2, <4>1, <2>2, <2>3 DEF Before
    <3> QED BY <3>1, <3>2
  <2> QED BY <2>2, <2>3, <2>4, <2>5, <1>0, <1>a
<1> QED BY <1>1, <1>2, <1>3, <1>4, <1>5, <1>6, <1>7, <1>8 DEF IInv

\* The worker hands its result to the game thread.
LEMMA PushThinkStep ==
  ASSUME IInv, PushThink
  PROVE  IInv'
<1>t. m_ThinkQueue \in Seq(Ops) /\ worker \in [pc : WorkerPC, op : Ops \cup {NULL}] /\ worker.pc = "push"
  BY DEF IInv, TypeOK, PushThink
<1>o. PICK o \in Ops : o = worker.op
  BY <1>t DEF IInv, WorkerOK
<1>0. /\ m_ThinkQueue' = Append(m_ThinkQueue, o)
      /\ worker' = [pc |-> "clear", op |-> NULL]
      /\ UNCHANGED <<m_OpQueue, m_ActiveOperation, m_OperationOwners, m_CancelledOperations, m_Terminate,
                     m_drivers, m_drSafety, s_pAddBlock, main, phase, gen, loads, ops, made>>
  BY <1>o DEF PushThink, ThinkLast, life
<1>a. /\ worker'.pc = "clear" /\ worker'.op = NULL /\ o # NULL
      /\ worker' \in [pc : WorkerPC, op : Ops \cup {NULL}]
  BY <1>0, DBAssumption DEF WorkerPC
<1>h. /\ ops[o].alive /\ main.callback # o /\ ~Has(m_ThinkQueue, o) /\ ~Has(main.todo, o)
      /\ \A q \in Prio : ~Has(m_OpQueue[q], o)
  BY <1>o, HomeFacts
<1>d. Distinct(m_ThinkQueue)
  BY DEF IInv, HomesOK
<1>c. /\ m_ThinkQueue' \in Seq(Ops)
      /\ \A x : Has(m_ThinkQueue', x) <=> Has(m_ThinkQueue, x) \/ x = o
      /\ \A x, y : Precedes(m_ThinkQueue', x, y) =>
           Precedes(m_ThinkQueue, x, y) \/ (Has(m_ThinkQueue, x) /\ y = o)
      /\ Distinct(m_ThinkQueue')
  BY <1>0, <1>t, <1>d, <1>h, AppendList
<1>1. HomesOK'
  <2>1. \A x \in Ops \ {o} :
           /\ \A q \in Prio : Has(m_OpQueue'[q], x) <=> Has(m_OpQueue[q], x)
           /\ Has(m_ThinkQueue', x) <=> Has(m_ThinkQueue, x)
           /\ Has(main'.todo, x) <=> Has(main.todo, x)
           /\ worker'.op = x <=> worker.op = x
           /\ main'.callback = x <=> main.callback = x
           /\ ops'[x].alive <=> ops[x].alive
    BY <1>0, <1>a, <1>c, <1>o, DBAssumption
  <2>2. "think" \in Places /\ "think" \notin Prio
    BY DEF Places, Prio
  <2>3. \A x \in {o} :
           /\ \A q \in Prio : Has(m_OpQueue'[q], x) <=> "think" = q
           /\ Has(m_ThinkQueue', x) <=> "think" = "think"
           /\ Has(main'.todo, x) <=> "think" = "todo"
           /\ worker'.op = x <=> "think" = "worker"
           /\ main'.callback = x <=> "think" = "callback"
           /\ ops'[x].alive <=> "think" # "nowhere"
    BY <2>2, <1>0, <1>a, <1>c, <1>h
  <2>4. /\ \A q \in Prio : Distinct(m_OpQueue'[q])
        /\ Distinct(m_ThinkQueue') /\ Distinct(main'.todo)
    BY <1>0, <1>c DEF IInv, HomesOK
  <2>5. {o} \in SUBSET Ops
    OBVIOUS
  <2> QED BY <2>1, <2>2, <2>3, <2>4, <2>5, HomeMove
<1>2. TypeOK'
  BY <1>0, <1>a, <1>c DEF IInv, TypeOK
<1>3. WorkerOK'
  BY <1>0, <1>a DEF IInv, WorkerOK
<1>4. MainOK'
  BY <1>0 DEF IInv, MainOK, Busy
<1>5. DriversFixed'
  BY <1>0, <1>a, <1>t DEF IInv, DriversFixed
<1>6. OwnersOK'
  BY <1>0 DEF IInv, OwnersOK
<1>7. SettledOK' /\ CancelledOK'
  BY <1>0 DEF IInv, SettledOK, Settled, OwnerLoaded, CancelledOK, Orphan
<1>8. OrderOK'
  <2>1. \A x, y \in Ops : Before(x, y)' <=> Before(x, y)
    BY <1>0 DEF Before
  <2> SUFFICES ASSUME NEW q \in Prio, NEW x \in Ops, NEW y \in Ops
               PROVE  /\ Has(m_OpQueue'[q], x) => ops'[x].prio = q
                      /\ Precedes(m_OpQueue'[q], x, y) => Before(x, y)
                      /\ worker'.op = x /\ Has(m_OpQueue'[q], y) => Before(x, y)
                      /\ Has(m_ThinkQueue', x) /\ Has(m_OpQueue'[q], y) => Before(x, y)
                      /\ Has(m_ThinkQueue', x) /\ worker'.op = y => Before(x, y)
                      /\ Precedes(m_ThinkQueue', x, y) => Before(x, y)
    BY <2>1, <1>0 DEF IInv, OrderOK
  <2>2. /\ Has(m_OpQueue[q], x) => ops[x].prio = q
        /\ Precedes(m_OpQueue[q], x, y) => Before(x, y)
        /\ worker.op = x /\ Has(m_OpQueue[q], y) => Before(x, y)
        /\ Has(m_ThinkQueue, x) /\ Has(m_OpQueue[q], y) => Before(x, y)
        /\ Has(m_ThinkQueue, x) /\ worker.op = y => Before(x, y)
        /\ Precedes(m_ThinkQueue, x, y) => Before(x, y)
    BY DEF IInv, OrderOK
  <2>3. x # NULL /\ y # NULL
    BY DBAssumption
  <2> QED BY <2>2, <2>3, <1>0, <1>a, <1>o, <1>c
<1> QED BY <1>1, <1>2, <1>3, <1>4, <1>5, <1>6, <1>7, <1>8 DEF IInv

\* The worker has m_Lock again.
LEMMA ClearActiveStep ==
  ASSUME IInv, ClearActive
  PROVE  IInv'
<1>t. worker \in [pc : WorkerPC, op : Ops \cup {NULL}]
  BY DEF IInv, TypeOK
<1>0. /\ worker.pc = "clear" /\ m_ActiveOperation' = NULL /\ worker' = [worker EXCEPT !.pc = "top"]
      /\ UNCHANGED <<m_OpQueue, m_ThinkQueue, m_OperationOwners, m_CancelledOperations, m_Terminate,
                     m_drivers, m_drSafety, s_pAddBlock, main, phase, gen, loads, ops, made>>
  BY DEF ClearActive, life
<1>a. /\ worker'.pc = "top" /\ worker'.op = worker.op /\ worker.op = NULL
      /\ worker' \in [pc : WorkerPC, op : Ops \cup {NULL}]
  BY <1>0, <1>t DEF IInv, WorkerOK, WorkerPC
<1>1. HomesOK' /\ OwnersOK' /\ OrderOK'
  BY <1>0, <1>a, QuietStep DEF Quiet
<1>2. TypeOK'
  BY <1>0, <1>a DEF IInv, TypeOK
<1>3. WorkerOK'
  BY <1>0, <1>a DEF IInv, WorkerOK
<1>4. MainOK'
  BY <1>0 DEF IInv, MainOK, Busy
<1>5. DriversFixed'
  BY <1>0, <1>a DEF IInv, DriversFixed
<1>6. SettledOK' /\ CancelledOK'
  BY <1>0 DEF IInv, SettledOK, Settled, OwnerLoaded, CancelledOK, Orphan
<1> QED BY <1>1, <1>2, <1>3, <1>4, <1>5, <1>6 DEF IInv

-----------------------------------------------------------------------------
(* Operations are finalized.                                               *)

\* The game thread takes one result.
LEMMA RunFrameStep ==
  ASSUME IInv, RunFrame
  PROVE  IInv'
<1>t. /\ m_ThinkQueue \in Seq(Ops) /\ m_ThinkQueue # <<>>
      /\ main \in [join : Reasons \cup {NULL}, arg : Tokens \cup Drivers \cup {NULL},
                   loop : Loops \cup {NULL}, todo : Seq(Ops), callback : Ops \cup {NULL}]
  BY DEF IInv, TypeOK, RunFrame
<1>o. PICK o \in Ops : o = Head(m_ThinkQueue)
  BY <1>t, TailList
<1>0. /\ m_ThinkQueue' = Tail(m_ThinkQueue)
      /\ main' = [main EXCEPT !.loop = "RunFrame", !.todo = <<o>>]
      /\ UNCHANGED <<m_OpQueue, m_ActiveOperation, m_OperationOwners, m_CancelledOperations, m_Terminate,
                     m_drivers, m_drSafety, s_pAddBlock, worker, phase, gen, loads, ops, made>>
  BY <1>o DEF RunFrame, life
<1>i. main.join = NULL /\ main.loop = NULL /\ \A t \in Tokens : phase[t] \in {"none", "running"}
  BY DEF RunFrame, Idle
<1>e. main.todo = <<>> /\ main.callback = NULL
  BY <1>i DEF IInv, MainOK
<1>a. /\ main'.loop = "RunFrame" /\ main'.todo = <<o>> /\ main'.callback = NULL
      /\ main'.join = NULL /\ main'.arg = main.arg
  BY <1>0, <1>t, <1>i, <1>e
<1>b. main' \in [join : Reasons \cup {NULL}, arg : Tokens \cup Drivers \cup {NULL},
                 loop : Loops \cup {NULL}, todo : Seq(Ops), callback : Ops \cup {NULL}]
  <2>1. <<o>> \in Seq(Ops) /\ "RunFrame" \in Loops \cup {NULL}
    BY DEF Loops
  <2> QED BY <1>0, <1>t, <2>1
<1>d. Distinct(m_ThinkQueue)
  BY DEF IInv, HomesOK
<1>c. /\ m_ThinkQueue' \in Seq(Ops)
      /\ Has(m_ThinkQueue, o) /\ ~Has(m_ThinkQueue', o)
      /\ \A x : Has(m_ThinkQueue, x) => x = o \/ Has(m_ThinkQueue', x)
      /\ \A x : Has(m_ThinkQueue', x) => Has(m_ThinkQueue, x)
      /\ \A x, y : Precedes(m_ThinkQueue', x, y) => Precedes(m_ThinkQueue, x, y)
      /\ Distinct(m_ThinkQueue')
  BY <1>0, <1>t, <1>o, <1>d, TailList
<1>h. /\ ops[o].alive /\ worker.op # o /\ o # NULL /\ \A q \in Prio : ~Has(m_OpQueue[q], o)
  <2>1. PICK home \in [Ops -> Places] : IsHome(home)
    BY DEF IInv, HomesOK
  <2>2. home[o] = "think"
    BY <2>1, <1>c DEF IsHome
  <2> QED BY <2>1, <2>2, DBAssumption DEF IsHome, Prio
<1>l. (\A x : Has(main'.todo, x) <=> x = o) /\ Distinct(main'.todo) /\ (\A x : ~Has(main.todo, x))
  BY <1>a, <1>e, OneList, EmptyList
<1>1. HomesOK'
  <2>1. \A x \in Ops \ {o} :
           /\ \A q \in Prio : Has(m_OpQueue'[q], x) <=> Has(m_OpQueue[q], x)
           /\ Has(m_ThinkQueue', x) <=> Has(m_ThinkQueue, x)
           /\ Has(main'.todo, x) <=> Has(main.todo, x)
           /\ worker'.op = x <=> worker.op = x
           /\ main'.callback = x <=> main.callback = x
           /\ ops'[x].alive <=> ops[x].alive
    BY <1>0, <1>a, <1>c, <1>e, <1>l
  <2>2. "todo" \in Places /\ "todo" \notin Prio
    BY DEF Places, Prio
  <2>3. \A x \in {o} :
           /\ \A q \in Prio : Has(m_OpQueue'[q], x) <=> "todo" = q
           /\ Has(m_ThinkQueue', x) <=> "todo" = "think"
           /\ Has(main'.todo, x) <=> "todo" = "todo"
           /\ worker'.op = x <=> "todo" = "worker"
           /\ main'.callback = x <=> "todo" = "callback"
           /\ ops'[x].alive <=> "todo" # "nowhere"
    BY <2>2, <1>0, <1>a, <1>c, <1>h, <1>l
  <2>4. /\ \A q \in Prio : Distinct(m_OpQueue'[q])
        /\ Distinct(m_ThinkQueue') /\ Distinct(main'.todo)
    BY <1>0, <1>c, <1>l DEF IInv, HomesOK
  <2>5. {o} \in SUBSET Ops
    OBVIOUS
  <2> QED BY <2>1, <2>2, <2>3, <2>4, <2>5, HomeMove
<1>2. TypeOK'
  BY <1>0, <1>b, <1>c DEF IInv, TypeOK
<1>3. WorkerOK'
  BY <1>0, <1>a, <1>i DEF IInv, WorkerOK
<1>4. MainOK'
  BY <1>0, <1>a, <1>i, DBAssumption DEF IInv, MainOK, Busy, Reasons, Loops
<1>5. DriversFixed'
  BY <1>0 DEF IInv, DriversFixed
<1>6. OwnersOK'
  BY <1>0, <1>a, <1>e DEF IInv, OwnersOK
<1>7. SettledOK'
  <2>1. NULL \notin {"Wait", "Drop"} /\ NULL \notin Ops
    BY DBAssumption DEF Reasons
  <2>2. \A x \in Ops : Settled(x) => Settled(x)'
    BY <2>1, <1>0, <1>a, <1>e, <1>i, <1>l DEF Settled, OwnerLoaded
  <2> QED BY <2>2, <1>0, <1>a, <1>e DEF IInv, SettledOK
<1>8. CancelledOK'
  BY <1>0, <1>a, <1>e DEF IInv, CancelledOK, Orphan
<1>9. OrderOK'
  BY <1>0, <1>c, OrderShrinks
<1> QED BY <1>1, <1>2, <1>3, <1>4, <1>5, <1>6, <1>7, <1>8, <1>9 DEF IInv

\* What Destroy leaves: only a pending operation of a running owner is lost.
LEMMA DestroyedFacts ==
  ASSUME IInv, NEW S \in SUBSET Ops, NEW t, NEW new, new = Destroyed(S, t)
  PROVE  /\ new \in [Ops -> Op]
         /\ \A x \in Ops : /\ new[x].owner = ops[x].owner /\ new[x].gen = ops[x].gen
                           /\ new[x].prio = ops[x].prio /\ new[x].n = ops[x].n
                           /\ new[x].late = ops[x].late /\ new[x].marked = ops[x].marked
                           /\ new[x].alive <=> ops[x].alive /\ x \notin S
                           /\ x \notin S => new[x] = ops[x]
                           /\ ops[x].fate # "pending" => new[x].fate = ops[x].fate
                           /\ new[x].fate = "lost" =>
                                \/ ops[x].fate = "lost"
                                \/ /\ x \in S /\ phase[ops[x].owner] = "running" /\ ops[x].owner # t
                                   /\ gen[ops[x].owner] = ops[x].gen
<1>t. ops \in [Ops -> Op]
  BY DEF IInv, TypeOK
<1> DEFINE F(x) == IF ops[x].fate # "pending" THEN ops[x].fate
                   ELSE IF OwnerLoaded(x) /\ phase[ops[x].owner] = "running" /\ ops[x].owner # t
                   THEN "lost" ELSE "discarded"
<1>1. new = [x \in Ops |-> IF x \notin S THEN ops[x] ELSE [ops[x] EXCEPT !.alive = FALSE, !.fate = F(x)]]
  BY DEF Destroyed
<1>2. ASSUME NEW x \in Ops
      PROVE  /\ F(x) \in {"pending", "think", "cancel", "discarded", "lost"}
             /\ ops[x].fate # "pending" => F(x) = ops[x].fate
             /\ F(x) = "lost" => \/ ops[x].fate = "lost"
                                 \/ /\ phase[ops[x].owner] = "running" /\ ops[x].owner # t
                                    /\ gen[ops[x].owner] = ops[x].gen
  BY <1>t DEF Op, OwnerLoaded
<1> HIDE DEF F
<1>3. ASSUME NEW x \in Ops
      PROVE  /\ new[x] \in Op
             /\ new[x].owner = ops[x].owner /\ new[x].gen = ops[x].gen
             /\ new[x].prio = ops[x].prio /\ new[x].n = ops[x].n
             /\ new[x].late = ops[x].late /\ new[x].marked = ops[x].marked
             /\ new[x].alive <=> ops[x].alive /\ x \notin S
             /\ x \notin S => new[x] = ops[x]
             /\ x \in S => new[x].fate = F(x)
  <2>1. ops[x] \in Op
    BY <1>t
  <2>2. CASE x \notin S
    BY <1>1, <2>1, <2>2
  <2>3. CASE x \in S
    <3>1. new[x] = [ops[x] EXCEPT !.alive = FALSE, !.fate = F(x)]
      BY <1>1, <2>3
    <3> QED BY <1>2, <2>1, <2>3, <3>1 DEF Op
  <2> QED BY <2>2, <2>3
<1>4. new \in [Ops -> Op]
  BY <1>1, <1>3
<1> QED BY <1>2, <1>3, <1>4

\* The next operation is finalized, up to its callback.
LEMMA FinalizeOperationStep ==
  ASSUME IInv, FinalizeOperation
  PROVE  IInv'
<1>t. /\ main \in [join : Reasons \cup {NULL}, arg : Tokens \cup Drivers \cup {NULL},
                   loop : Loops \cup {NULL}, todo : Seq(Ops), callback : Ops \cup {NULL}]
      /\ main.todo \in Seq(Ops) /\ m_OperationOwners \in [Ops -> Tokens \cup {NULL}]
      /\ ops \in [Ops -> Op] /\ m_CancelledOperations \subseteq Ops
  BY DEF IInv, TypeOK
<1>i. main.join = NULL /\ main.callback = NULL /\ main.todo # <<>>
  BY DEF FinalizeOperation
<1>o. PICK o \in Ops : o = Head(main.todo)
  BY <1>t, <1>i, TailList
<1>0. /\ m_OperationOwners' = [m_OperationOwners EXCEPT ![o] = NULL]
      /\ m_CancelledOperations' = m_CancelledOperations \ {o}
      /\ UNCHANGED <<m_OpQueue, m_ThinkQueue, m_ActiveOperation, m_Terminate, m_drivers,
                     m_drSafety, s_pAddBlock, worker, phase, gen, loads, made>>
  BY <1>o DEF FinalizeOperation, life
<1>d. Distinct(main.todo)
  BY DEF IInv, HomesOK
<1>c. /\ Tail(main.todo) \in Seq(Ops) /\ Has(main.todo, o) /\ ~Has(Tail(main.todo), o)
      /\ \A x : Has(main.todo, x) => x = o \/ Has(Tail(main.todo), x)
      /\ \A x : Has(Tail(main.todo), x) => Has(main.todo, x)
      /\ Distinct(Tail(main.todo))
  BY <1>t, <1>i, <1>o, <1>d, TailList
<1>h. /\ ops[o].alive /\ worker.op # o /\ ~Has(m_ThinkQueue, o) /\ o # NULL
      /\ \A q \in Prio : ~Has(m_OpQueue[q], o)
  <2>1. PICK home \in [Ops -> Places] : IsHome(home)
    BY DEF IInv, HomesOK
  <2>2. home[o] = "todo"
    BY <2>1, <1>c DEF IsHome
  <2> QED BY <2>1, <2>2, DBAssumption DEF IsHome, Prio
<1>f. PICK place \in {"callback", "nowhere"} :
        /\ ops' \in [Ops -> Op]
        /\ \A x \in Ops : /\ ops'[x].owner = ops[x].owner /\ ops'[x].gen = ops[x].gen
                          /\ ops'[x].prio = ops[x].prio /\ ops'[x].n = ops[x].n
                          /\ ops'[x].late = ops[x].late /\ ops'[x].marked = ops[x].marked
                          /\ x # o => ops'[x] = ops[x]
        /\ ops'[o].alive <=> place = "callback"
        /\ main'.todo = Tail(main.todo) /\ main'.callback = IF place = "callback" THEN o ELSE NULL
        /\ main'.join = NULL /\ main'.loop = main.loop /\ main'.arg = main.arg
        /\ place = "callback" => o \notin m_CancelledOperations /\ ops'[o].fate \in {"think", "cancel"}
        /\ place = "nowhere" => o \in m_CancelledOperations
        /\ place = "nowhere" /\ ops'[o].fate = "lost" =>
             ops[o].fate = "lost" \/ (gen[ops[o].owner] = ops[o].gen /\ phase[ops[o].owner] = "running")
  <2>1. CASE o \in m_CancelledOperations
    <3>1. ops' = Destroyed({o}, NULL) /\ main' = [main EXCEPT !.todo = Tail(@)]
      BY <2>1, <1>o DEF FinalizeOperation, IsCancelled
    <3>2. {o} \in SUBSET Ops
      OBVIOUS
    <3>3. /\ ops' \in [Ops -> Op]
          /\ \A x \in Ops : /\ ops'[x].owner = ops[x].owner /\ ops'[x].gen = ops[x].gen
                            /\ ops'[x].prio = ops[x].prio /\ ops'[x].n = ops[x].n
                            /\ ops'[x].late = ops[x].late /\ ops'[x].marked = ops[x].marked
                            /\ ops'[x].alive <=> ops[x].alive /\ x \notin {o}
                            /\ x \notin {o} => ops'[x] = ops[x]
                            /\ ops'[x].fate = "lost" =>
                                 \/ ops[x].fate = "lost"
                                 \/ /\ x \in {o} /\ phase[ops[x].owner] = "running" /\ ops[x].owner # NULL
                                    /\ gen[ops[x].owner] = ops[x].gen
      BY <3>1, <3>2, DestroyedFacts
    <3>4. /\ main'.todo = Tail(main.todo) /\ main'.callback = NULL /\ main'.join = NULL
          /\ main'.loop = main.loop /\ main'.arg = main.arg
      BY <3>1, <1>t, <1>i
    <3> WITNESS "nowhere" \in {"callback", "nowhere"}
    <3> QED BY <2>1, <3>3, <3>4
  <2>2. CASE o \notin m_CancelledOperations
    <3>1. PICK f \in {"think", "cancel"} : ops' = [ops EXCEPT ![o].fate = f]
      BY <2>2, <1>o DEF FinalizeOperation, IsCancelled
    <3>2. main' = [main EXCEPT !.todo = Tail(@), !.callback = o]
      BY <2>2, <1>o DEF FinalizeOperation, IsCancelled
    <3>3. /\ main'.todo = Tail(main.todo) /\ main'.callback = o /\ main'.join = NULL
          /\ main'.loop = main.loop /\ main'.arg = main.arg
      BY <3>2, <1>t, <1>i
    <3>4. ops[o] \in Op
      BY <1>t
    <3>5. /\ ops'[o] \in Op /\ ops'[o].owner = ops[o].owner /\ ops'[o].gen = ops[o].gen
          /\ ops'[o].prio = ops[o].prio /\ ops'[o].n = ops[o].n
          /\ ops'[o].late = ops[o].late /\ ops'[o].marked = ops[o].marked
          /\ ops'[o].alive = ops[o].alive /\ ops'[o].fate = f
      BY <3>1, <3>4, <1>t DEF Op
    <3>6. \A x \in Ops : x # o => ops'[x] = ops[x]
      BY <3>1, <1>t
    <3>7. ops' \in [Ops -> Op]
      BY <3>1, <3>5, <3>6, <1>t
    <3> WITNESS "callback" \in {"callback", "nowhere"}
    <3> QED BY <2>2, <3>3, <3>5, <3>6, <3>7, <1>h
  <2> QED BY <2>1, <2>2
<1>b. main' \in [join : Reasons \cup {NULL}, arg : Tokens \cup Drivers \cup {NULL},
                 loop : Loops \cup {NULL}, todo : Seq(Ops), callback : Ops \cup {NULL}]
  <2>1. \/ main' = [main EXCEPT !.todo = Tail(@)]
        \/ main' = [main EXCEPT !.todo = Tail(@), !.callback = o]
    BY <1>o DEF FinalizeOperation
  <2> QED BY <2>1, <1>t, <1>c
<1>1. HomesOK'
  <2>1. \A x \in Ops \ {o} :
           /\ \A q \in Prio : Has(m_OpQueue'[q], x) <=> Has(m_OpQueue[q], x)
           /\ Has(m_ThinkQueue', x) <=> Has(m_ThinkQueue, x)
           /\ Has(main'.todo, x) <=> Has(main.todo, x)
           /\ worker'.op = x <=> worker.op = x
           /\ main'.callback = x <=> main.callback = x
           /\ ops'[x].alive <=> ops[x].alive
    BY <1>0, <1>c, <1>f, <1>i, DBAssumption
  <2>2. place \in Places /\ place \notin Prio /\ place \notin {"think", "todo", "worker"}
    BY DEF Places, Prio
  <2>4. /\ \A q \in Prio : Distinct(m_OpQueue'[q])
        /\ Distinct(m_ThinkQueue') /\ Distinct(main'.todo)
    BY <1>0, <1>c, <1>f DEF IInv, HomesOK
  <2>5. {o} \in SUBSET Ops
    OBVIOUS
  <2>6. CASE place = "callback"
    <3>1. \A x \in {o} :
             /\ \A q \in Prio : Has(m_OpQueue'[q], x) <=> "callback" = q
             /\ Has(m_ThinkQueue', x) <=> "callback" = "think"
             /\ Has(main'.todo, x) <=> "callback" = "todo"
             /\ worker'.op = x <=> "callback" = "worker"
             /\ main'.callback = x <=> "callback" = "callback"
             /\ ops'[x].alive <=> "callback" # "nowhere"
      BY <2>2, <2>6, <1>0, <1>c, <1>f, <1>h
    <3>2. "callback" \in Places
      BY DEF Places
    <3> QED BY <2>1, <2>4, <2>5, <3>1, <3>2, HomeMove
  <2>7. CASE place = "nowhere"
    <3>1. \A x \in {o} :
             /\ \A q \in Prio : Has(m_OpQueue'[q], x) <=> "nowhere" = q
             /\ Has(m_ThinkQueue', x) <=> "nowhere" = "think"
             /\ Has(main'.todo, x) <=> "nowhere" = "todo"
             /\ worker'.op = x <=> "nowhere" = "worker"
             /\ main'.callback = x <=> "nowhere" = "callback"
             /\ ops'[x].alive <=> "nowhere" # "nowhere"
      BY <2>2, <2>7, <1>0, <1>c, <1>f, <1>h
    <3>2. "nowhere" \in Places
      BY DEF Places
    <3> QED BY <2>1, <2>4, <2>5, <3>1, <3>2, HomeMove
  <2> QED BY <2>6, <2>7
<1>2. TypeOK'
  BY <1>0, <1>b, <1>f, <1>t DEF IInv, TypeOK
<1>3. WorkerOK'
  BY <1>0, <1>f, <1>i DEF IInv, WorkerOK
<1>4. MainOK'
  <2>1. main.loop # NULL
    BY <1>i DEF IInv, MainOK
  <2> QED BY <2>1, <1>0, <1>f, <1>i, DBAssumption DEF IInv, MainOK, Busy, Reasons
<1>5. DriversFixed'
  BY <1>0 DEF IInv, DriversFixed
<1>6. OwnersOK'
  <2>1. ASSUME NEW x \in Ops, x # o
        PROVE  /\ ops'[x].alive => ops'[x].owner \in Tokens
               /\ m_OperationOwners'[x] = IF ops'[x].alive /\ x # main'.callback THEN ops'[x].owner ELSE NULL
    <3>1. x # main'.callback /\ x # main.callback
      BY <2>1, <1>f, <1>i, DBAssumption
    <3> QED BY <2>1, <3>1, <1>0, <1>t, <1>f DEF IInv, OwnersOK
  <2>2. /\ ops'[o].alive => ops'[o].owner \in Tokens
        /\ m_OperationOwners'[o] = IF ops'[o].alive /\ o # main'.callback THEN ops'[o].owner ELSE NULL
    <3>1. ops[o].owner \in Tokens
      BY <1>h DEF IInv, OwnersOK
    <3> QED BY <3>1, <1>0, <1>t, <1>f
  <2> QED BY <2>1, <2>2 DEF OwnersOK
<1>7. SettledOK'
  <2>1. main'.callback \notin m_CancelledOperations'
    BY <1>0, <1>f, <1>t, DBAssumption
  <2>2. ASSUME NEW x \in Ops, x # o, Settled(x) PROVE Settled(x)'
    <3>1. main.callback # x /\ (Has(main.todo, x) => Has(main'.todo, x))
      BY <2>2, <1>c, <1>f, <1>i, DBAssumption
    <3> QED BY <2>2, <3>1, <1>0, <1>f, <1>i DEF Settled, OwnerLoaded
  <2>3. ASSUME ops'[o].alive, Settled(o) PROVE Settled(o)'
    <3>1. main'.callback = o
      BY <2>3, <1>f
    <3> QED BY <2>3, <3>1, <1>0, <1>f DEF Settled, OwnerLoaded
  <2>4. ASSUME NEW x \in Ops, ops'[x].alive, ~ops'[x].late,
               x \notin m_CancelledOperations' \/ ops'[x].owner \in Exts
        PROVE  Settled(x)'
    <3>1. CASE x = o
      <4>1. ops[o].alive /\ ~ops[o].late /\ o \notin m_CancelledOperations
        BY <2>4, <3>1, <1>f, <1>h
      <4>2. Settled(o)
        BY <2>4, <4>1 DEF IInv, SettledOK
      <4> QED BY <2>3, <2>4, <3>1, <4>2
    <3>2. CASE x # o
      <4>1. ops[x].alive /\ ~ops[x].late /\ (x \notin m_CancelledOperations \/ ops[x].owner \in Exts)
        BY <2>4, <3>2, <1>0, <1>f
      <4>2. Settled(x)
        BY <2>4, <4>1 DEF IInv, SettledOK
      <4> QED BY <2>2, <3>2, <4>2
    <3> QED BY <3>1, <3>2
  <2> QED BY <2>1, <2>4 DEF SettledOK
<1>8. CancelledOK'
  <2>1. main'.callback # NULL => ops'[main'.callback].fate # "pending"
    BY <1>f
  <2>2. ASSUME NEW x \in m_CancelledOperations' PROVE ops'[x].marked \/ Orphan(x)'
    <3>1. x \in m_CancelledOperations /\ x # o /\ x \in Ops
      BY <1>0, <1>t
    <3> QED BY <3>1, <1>0, <1>f DEF IInv, CancelledOK, Orphan
  <2>3. ASSUME NEW x \in Ops PROVE ops'[x].gen <= loads' /\ (ops'[x].fate = "lost" => ops'[x].marked)
    <3>1. ops[x].gen <= loads /\ (ops[x].fate = "lost" => ops[x].marked)
      BY DEF IInv, CancelledOK
    <3>2. o \in m_CancelledOperations /\ ~ops[o].marked =>
            ~(gen[ops[o].owner] = ops[o].gen /\ phase[ops[o].owner] = "running")
      <4>1. ops[o] \in Op /\ gen \in [Tokens -> 0..MaxLoads]
        BY <1>t DEF IInv, TypeOK
      <4>2. ops[o].gen \in Int /\ (ops[o].owner \in Plugins => gen[ops[o].owner] \in Int)
        BY <4>1, DBAssumption DEF Op, Tokens
      <4> QED BY <4>2 DEF IInv, CancelledOK, Orphan
    <3> QED BY <3>1, <3>2, <1>0, <1>f
  <2> QED BY <2>1, <2>2, <2>3 DEF CancelledOK, Orphan
<1>9. OrderOK'
  BY <1>0, <1>f, OrderShrinks
<1> QED BY <1>1, <1>2, <1>3, <1>4, <1>5, <1>6, <1>7, <1>8, <1>9 DEF IInv

\* The callback returned: its operation is destroyed.
LEMMA EndCallbackStep ==
  ASSUME IInv, EndCallback
  PROVE  IInv'
<1>t. /\ main \in [join : Reasons \cup {NULL}, arg : Tokens \cup Drivers \cup {NULL},
                   loop : Loops \cup {NULL}, todo : Seq(Ops), callback : Ops \cup {NULL}]
      /\ ops \in [Ops -> Op] /\ m_CancelledOperations \subseteq Ops
  BY DEF IInv, TypeOK
<1>i. main.join = NULL /\ main.callback # NULL
  BY DEF EndCallback
<1>o. PICK o \in Ops : o = main.callback
  BY <1>t, <1>i
<1>0. /\ ops' = Destroyed({o}, NULL) /\ main' = [main EXCEPT !.callback = NULL]
      /\ UNCHANGED <<m_OpQueue, m_ThinkQueue, m_ActiveOperation, m_OperationOwners, m_CancelledOperations,
                     m_Terminate, m_drivers, m_drSafety, s_pAddBlock, worker, phase, gen, loads, made>>
  BY <1>o DEF EndCallback, shared, life
<1>a. /\ main'.callback = NULL /\ main'.todo = main.todo /\ main'.join = NULL
      /\ main'.loop = main.loop /\ main'.arg = main.arg
  BY <1>0, <1>t, <1>i
<1>b. main' \in [join : Reasons \cup {NULL}, arg : Tokens \cup Drivers \cup {NULL},
                 loop : Loops \cup {NULL}, todo : Seq(Ops), callback : Ops \cup {NULL}]
  BY <1>0, <1>t
<1>s. {o} \in SUBSET Ops
  OBVIOUS
<1>p. ops[o].fate # "pending" /\ o \notin m_CancelledOperations
  BY <1>o, <1>i DEF IInv, CancelledOK, Orphan, SettledOK
<1>f. /\ ops' \in [Ops -> Op]
      /\ \A x \in Ops : /\ ops'[x].owner = ops[x].owner /\ ops'[x].gen = ops[x].gen
                        /\ ops'[x].prio = ops[x].prio /\ ops'[x].n = ops[x].n
                        /\ ops'[x].late = ops[x].late /\ ops'[x].marked = ops[x].marked
                        /\ ops'[x].alive <=> ops[x].alive /\ x # o
                        /\ ops'[x].fate = ops[x].fate
  <2>1. /\ ops' \in [Ops -> Op]
        /\ \A x \in Ops : /\ ops'[x].owner = ops[x].owner /\ ops'[x].gen = ops[x].gen
                          /\ ops'[x].prio = ops[x].prio /\ ops'[x].n = ops[x].n
                          /\ ops'[x].late = ops[x].late /\ ops'[x].marked = ops[x].marked
                          /\ ops'[x].alive <=> ops[x].alive /\ x \notin {o}
                          /\ x \notin {o} => ops'[x] = ops[x]
                          /\ ops[x].fate # "pending" => ops'[x].fate = ops[x].fate
    <3>1. ops' = Destroyed({o}, NULL)
      BY <1>0
    <3> QED BY <3>1, <1>s, DestroyedFacts
  <2> QED BY <2>1, <1>p
<1>h. /\ worker.op # o /\ ~Has(m_ThinkQueue, o) /\ ~Has(main.todo, o)
      /\ \A q \in Prio : ~Has(m_OpQueue[q], o)
  <2>1. PICK home \in [Ops -> Places] : IsHome(home)
    BY DEF IInv, HomesOK
  <2>2. home[o] = "callback"
    BY <2>1, <1>o DEF IsHome
  <2> QED BY <2>1, <2>2 DEF IsHome, Prio
<1>1. HomesOK'
  <2>1. \A x \in Ops \ {o} :
           /\ \A q \in Prio : Has(m_OpQueue'[q], x) <=> Has(m_OpQueue[q], x)
           /\ Has(m_ThinkQueue', x) <=> Has(m_ThinkQueue, x)
           /\ Has(main'.todo, x) <=> Has(main.todo, x)
           /\ worker'.op = x <=> worker.op = x
           /\ main'.callback = x <=> main.callback = x
           /\ ops'[x].alive <=> ops[x].alive
    <3>1. UNCHANGED <<m_OpQueue, m_ThinkQueue, worker>> /\ NULL \notin Ops
      BY <1>0, DBAssumption
    <3> QED BY <3>1, <1>a, <1>f, <1>o
  <2>2. "nowhere" \in Places /\ "nowhere" \notin Prio
    BY DEF Places, Prio
  <2>3. \A x \in {o} :
           /\ \A q \in Prio : Has(m_OpQueue'[q], x) <=> "nowhere" = q
           /\ Has(m_ThinkQueue', x) <=> "nowhere" = "think"
           /\ Has(main'.todo, x) <=> "nowhere" = "todo"
           /\ worker'.op = x <=> "nowhere" = "worker"
           /\ main'.callback = x <=> "nowhere" = "callback"
           /\ ops'[x].alive <=> "nowhere" # "nowhere"
    <3>1. UNCHANGED <<m_OpQueue, m_ThinkQueue, worker>> /\ NULL \notin Ops
      BY <1>0, DBAssumption
    <3>2. ~ops'[o].alive
      BY <1>f
    <3> QED BY <2>2, <3>1, <3>2, <1>a, <1>h
  <2>4. /\ \A q \in Prio : Distinct(m_OpQueue'[q])
        /\ Distinct(m_ThinkQueue') /\ Distinct(main'.todo)
    BY <1>0, <1>a DEF IInv, HomesOK
  <2> QED BY <2>1, <2>2, <2>3, <2>4, <1>s, HomeMove
<1>2. TypeOK'
  BY <1>0, <1>b, <1>f DEF IInv, TypeOK
<1>3. WorkerOK'
  BY <1>0, <1>a, <1>i DEF IInv, WorkerOK
<1>4. MainOK'
  BY <1>0, <1>a, <1>i, DBAssumption DEF IInv, MainOK, Busy, Reasons
<1>5. DriversFixed'
  BY <1>0 DEF IInv, DriversFixed
<1>6. OwnersOK'
  <2>1. ASSUME NEW x \in Ops
        PROVE  /\ ops'[x].alive => ops'[x].owner \in Tokens
               /\ m_OperationOwners'[x] = IF ops'[x].alive /\ x # main'.callback THEN ops'[x].owner ELSE NULL
    <3>1. x # main'.callback
      BY <1>a, DBAssumption
    <3>2. /\ ops[x].alive => ops[x].owner \in Tokens
          /\ m_OperationOwners[x] = IF ops[x].alive /\ x # o THEN ops[x].owner ELSE NULL
      BY <1>o DEF IInv, OwnersOK
    <3> QED BY <3>1, <3>2, <1>0, <1>f
  <2> QED BY <2>1 DEF OwnersOK
<1>7. SettledOK'
  <2>1. main'.callback \notin m_CancelledOperations'
    BY <1>0, <1>a, <1>t, DBAssumption
  <2>2. ASSUME NEW x \in Ops, ops'[x].alive, ~ops'[x].late,
               x \notin m_CancelledOperations' \/ ops'[x].owner \in Exts
        PROVE  Settled(x)'
    <3>1. ops[x].alive /\ ~ops[x].late /\ x # o /\ (x \notin m_CancelledOperations \/ ops[x].owner \in Exts)
      BY <2>2, <1>0, <1>f
    <3>2. Settled(x)
      BY <2>2, <3>1 DEF IInv, SettledOK
    <3> QED BY <3>1, <3>2, <1>0, <1>a, <1>f, <1>o, <1>i DEF Settled, OwnerLoaded
  <2> QED BY <2>1, <2>2 DEF SettledOK
<1>8. CancelledOK'
  <2>1. ASSUME NEW x \in m_CancelledOperations' PROVE ops'[x].marked \/ Orphan(x)'
    <3>1. x \in m_CancelledOperations /\ x # o /\ x \in Ops
      BY <1>0, <1>t, <1>p
    <3> QED BY <3>1, <1>0, <1>f DEF IInv, CancelledOK, Orphan
  <2>2. \A x \in Ops : ops'[x].gen <= loads' /\ (ops'[x].fate = "lost" => ops'[x].marked)
    BY <1>0, <1>f DEF IInv, CancelledOK
  <2> QED BY <2>1, <2>2, <1>a DEF CancelledOK, Orphan
<1>9. OrderOK'
  BY <1>0, <1>f, OrderShrinks
<1> QED BY <1>1, <1>2, <1>3, <1>4, <1>5, <1>6, <1>7, <1>8, <1>9 DEF IInv

\* Everything collected is finalized; an extension goes on to unload.
LEMMA EndLoopStep ==
  ASSUME IInv, EndLoop
  PROVE  IInv'
<1>t. /\ main \in [join : Reasons \cup {NULL}, arg : Tokens \cup Drivers \cup {NULL},
                   loop : Loops \cup {NULL}, todo : Seq(Ops), callback : Ops \cup {NULL}]
      /\ phase \in [Tokens -> {"none", "loading", "running", "ending", "dropping", "dropped"}]
      /\ s_pAddBlock \in Tokens \cup {NULL} /\ NULL \notin Tokens
  BY DBAssumption DEF IInv, TypeOK
<1>0. /\ main.join = NULL /\ main.loop # NULL /\ main.callback = NULL /\ main.todo = <<>>
      /\ main' = [main EXCEPT !.loop = NULL]
      /\ UNCHANGED <<m_OpQueue, m_ThinkQueue, m_ActiveOperation, m_OperationOwners, m_CancelledOperations,
                     m_Terminate, m_drivers, m_drSafety, worker, gen, loads, ops, made>>
  BY DEF EndLoop, shared
<1>a. /\ main'.loop = NULL /\ main'.callback = NULL /\ main'.todo = <<>> /\ main'.join = NULL
      /\ main'.arg = main.arg
      /\ main' \in [join : Reasons \cup {NULL}, arg : Tokens \cup Drivers \cup {NULL},
                    loop : Loops \cup {NULL}, todo : Seq(Ops), callback : Ops \cup {NULL}]
  BY <1>0, <1>t
<1>b. /\ \A t \in Tokens : \/ phase'[t] = phase[t] /\ phase[t] # "dropping"
                           \/ t \in Exts /\ phase[t] = "dropping" /\ phase'[t] = "dropped"
      /\ s_pAddBlock' = NULL
      /\ phase' \in [Tokens -> {"none", "loading", "running", "ending", "dropping", "dropped"}]
  <2>1. CASE main.loop = "Drop"
    <3>1. s_pAddBlock' = NULL /\ phase' = [phase EXCEPT ![s_pAddBlock] = "dropped"]
      BY <2>1 DEF EndLoop
    <3>2. PICK b \in Tokens : b = s_pAddBlock
      BY <2>1, <1>t DEF IInv, MainOK
    <3>3. b \in Exts /\ phase[b] = "dropping" /\ \A t \in Tokens : t # b => phase[t] # "dropping"
      BY <3>2 DEF IInv, MainOK
    <3> QED BY <3>1, <3>2, <3>3, <1>t
  <2>2. CASE main.loop # "Drop"
    <3>1. s_pAddBlock' = s_pAddBlock /\ phase' = phase
      BY <2>2 DEF EndLoop
    <3>2. \A t \in Tokens : phase[t] # "dropping"
      <4>1. main.join # "Drop"
        BY <1>0, DBAssumption DEF Reasons
      <4> QED BY <2>2, <4>1 DEF IInv, MainOK
    <3>3. s_pAddBlock = NULL
      BY <3>2, <1>t DEF IInv, MainOK
    <3> QED BY <3>1, <3>2, <3>3, <1>t
  <2> QED BY <2>1, <2>2
<1>1. HomesOK' /\ OwnersOK' /\ OrderOK'
  BY <1>0, <1>a, QuietStep DEF Quiet
<1>2. TypeOK'
  BY <1>0, <1>a, <1>b DEF IInv, TypeOK
<1>3. WorkerOK' /\ DriversFixed'
  BY <1>0, <1>a DEF IInv, WorkerOK, DriversFixed
<1>4. MainOK'
  <2>1. NULL \notin Reasons \cup Loops
    BY DBAssumption
  <2>2. \A t \in Tokens :
       /\ phase'[t] = "dropping" <=> s_pAddBlock' = t
       /\ phase'[t] # "dropping"
       /\ phase'[t] \in {"loading", "ending"} => t \in Plugins
       /\ phase'[t] \in {"dropping", "dropped"} => t \in Exts
       /\ phase'[t] # "none" => gen'[t] # 0
       /\ gen'[t] <= loads'
    BY <1>0, <1>b, <1>t DEF IInv, MainOK
  <2>3. \A t, u \in Tokens : Busy(t)' /\ Busy(u)' => t = u
    BY <1>b DEF IInv, MainOK, Busy
  <2> QED BY <2>1, <2>2, <2>3, <1>a DEF MainOK, Reasons, Loops
<1>5. SettledOK'
  <2>1. \A o \in Ops : ~Has(main.todo, o) /\ main.callback # o
    BY <1>0, EmptyList, DBAssumption
  <2>2. NULL \notin {"Wait", "Drop"}
    BY DBAssumption DEF Reasons
  <2>3. ASSUME NEW o \in Ops, ops[o].alive, Settled(o) PROVE Settled(o)'
    <3>1. phase[ops[o].owner] = "running" /\ ops[o].owner \in Tokens
      BY <2>1, <2>2, <2>3, <1>0 DEF Settled, IInv, OwnersOK
    <3>2. phase'[ops[o].owner] = "running"
      BY <3>1, <1>b
    <3> QED BY <2>3, <3>1, <3>2, <1>0 DEF Settled, OwnerLoaded
  <2> QED BY <2>3, <1>0, <1>a DEF IInv, SettledOK
<1>6. CancelledOK'
  <2>1. \A t \in Plugins : phase'[t] = phase[t]
    BY <1>b, DBAssumption DEF Tokens
  <2> QED BY <2>1, <1>0, <1>a DEF IInv, CancelledOK, Orphan
<1> QED BY <1>1, <1>2, <1>3, <1>4, <1>5, <1>6 DEF IInv

-----------------------------------------------------------------------------
(* The worker has ended, or its plugin discards what it owns.              *)

\* Joined: what the worker left for the driver or identity is collected.  The
\* queues are empty, so it is all of it.
LEMMA JoinedStep ==
  ASSUME IInv, Joined
  PROVE  IInv'
<1> DEFINE mine == {o \in Ops : \/ main.join = "RemoveDriver" /\ ops[o].driver = main.arg
                                \/ main.join \in {"Wait", "Drop"} /\ OwnedBy(o, main.arg)}
<1>t. /\ main \in [join : Reasons \cup {NULL}, arg : Tokens \cup Drivers \cup {NULL},
                   loop : Loops \cup {NULL}, todo : Seq(Ops), callback : Ops \cup {NULL}]
      /\ m_ThinkQueue \in Seq(Ops) /\ m_drivers \in Seq(Drivers)
      /\ worker \in [pc : WorkerPC, op : Ops \cup {NULL}] /\ m_Terminate \in BOOLEAN
      /\ phase \in [Tokens -> {"none", "loading", "running", "ending", "dropping", "dropped"}]
  BY DEF IInv, TypeOK
<1>0. /\ main.join # NULL /\ worker.pc \in {"none", "done"}
      /\ worker' = [pc |-> "none", op |-> NULL]
      /\ m_ThinkQueue' = Filter(m_ThinkQueue, Ops \ mine)
      /\ UNCHANGED <<m_OpQueue, m_ActiveOperation, m_OperationOwners, m_CancelledOperations,
                     m_drSafety, s_pAddBlock, phase, gen, loads, ops, made>>
  BY DEF Joined, WorkerEnded, life
<1>w. /\ worker'.pc = "none" /\ worker'.op = NULL /\ worker.op = NULL
      /\ worker' \in [pc : WorkerPC, op : Ops \cup {NULL}]
      /\ \A p \in Prio : m_OpQueue[p] = <<>>
  BY <1>0, <1>t DEF IInv, WorkerOK, WorkerPC
<1>m. m_Terminate' = FALSE
  <2>1. m_Terminate' = (worker.pc = "none" /\ m_Terminate)
    BY DEF Joined
  <2>2. worker.pc = "none" => ~m_Terminate
    BY DEF IInv, WorkerOK
  <2> QED BY <2>1, <2>2
<1>d. m_drivers' \in Seq(Drivers)
  <2>1. CASE main.join = "AddDriver"
    <3>1. main.arg \in Drivers
      BY <2>1 DEF IInv, MainOK
    <3> QED BY <2>1, <3>1, <1>t DEF Joined
  <2>2. CASE main.join = "RemoveDriver"
    <3>1. Filter(m_drivers, Drivers \ {main.arg}) \in Seq(Drivers)
      BY <1>t, FilterList
    <3> QED BY <2>2, <3>1 DEF Joined
  <2>3. CASE main.join \notin {"AddDriver", "RemoveDriver"}
    BY <2>3, <1>t DEF Joined
  <2> QED BY <2>1, <2>2, <2>3
<1>a. /\ main'.join = NULL /\ main'.callback = main.callback
      /\ main' \in [join : Reasons \cup {NULL}, arg : Tokens \cup Drivers \cup {NULL},
                    loop : Loops \cup {NULL}, todo : Seq(Ops), callback : Ops \cup {NULL}]
      /\ \/ /\ main.join = "AddDriver" /\ mine = {}
            /\ main'.loop = main.loop /\ main'.todo = main.todo
         \/ /\ main.join \in {"RemoveDriver", "Wait", "Drop"}
            /\ main.loop = NULL /\ main.todo = <<>> /\ main.callback = NULL
            /\ main'.loop = main.join /\ main'.todo = Filter(m_ThinkQueue, mine)
  <2>1. main.join \in Reasons
    BY <1>0, <1>t
  <2>2. CASE main.join = "AddDriver"
    <3>1. main' = [main EXCEPT !.join = NULL, !.arg = NULL]
      BY <2>2 DEF Joined
    <3> QED BY <2>2, <3>1, <1>t
  <2>3. CASE main.join \in {"RemoveDriver", "Wait", "Drop"}
    <3>1. main' = [main EXCEPT !.join = NULL, !.arg = NULL, !.loop = main.join,
                               !.todo = Filter(m_ThinkQueue, mine)]
      BY <2>3 DEF Joined
    <3>2. main.loop = NULL /\ main.todo = <<>> /\ main.callback = NULL
      BY <2>3 DEF IInv, MainOK
    <3>3. Filter(m_ThinkQueue, mine) \in Seq(Ops) /\ main.join \in Loops
      BY <2>3, <1>t, FilterList DEF Loops
    <3> HIDE DEF mine
    <3> QED BY <2>3, <3>1, <3>2, <3>3, <1>t
  <2> QED BY <2>1, <2>2, <2>3 DEF Reasons
<1> DEFINE M == {x \in mine : Has(m_ThinkQueue, x)}
<1>s. mine \in SUBSET Ops /\ M \in SUBSET Ops
  OBVIOUS
<1>n. main.join \in {"Wait", "Drop"} => \A x \in Ops : m_OperationOwners[x] = main.arg => x \in mine
  BY DEF OwnedBy
<1> HIDE DEF mine
<1>q. Distinct(m_ThinkQueue) /\ Distinct(main.todo)
  BY DEF IInv, HomesOK
<1>c. /\ m_ThinkQueue' \in Seq(Ops)
      /\ \A x \in Ops : Has(m_ThinkQueue', x) <=> Has(m_ThinkQueue, x) /\ x \notin M
      /\ \A x, y : Precedes(m_ThinkQueue', x, y) => Precedes(m_ThinkQueue, x, y)
      /\ Distinct(m_ThinkQueue')
  BY <1>0, <1>t, <1>q, FilterList
<1>l. /\ \A x \in Ops : Has(main'.todo, x) <=> Has(main.todo, x) \/ x \in M
      /\ Distinct(main'.todo)
  <2>1. CASE mine = {} /\ main'.todo = main.todo
    BY <2>1, <1>q
  <2>2. CASE main.todo = <<>> /\ main'.todo = Filter(m_ThinkQueue, mine)
    BY <2>2, <1>t, <1>q, FilterList, EmptyList
  <2> QED BY <2>1, <2>2, <1>a
<1>h. \A x \in M : /\ ops[x].alive /\ worker.op # x /\ main.callback # x
                   /\ \A p \in Prio : ~Has(m_OpQueue[p], x)
  BY <1>s, <1>w, HomeFacts, EmptyList, DBAssumption
<1> HIDE DEF M
<1>1. HomesOK'
  <2>1. \A x \in Ops \ M :
           /\ \A q \in Prio : Has(m_OpQueue'[q], x) <=> Has(m_OpQueue[q], x)
           /\ Has(m_ThinkQueue', x) <=> Has(m_ThinkQueue, x)
           /\ Has(main'.todo, x) <=> Has(main.todo, x)
           /\ worker'.op = x <=> worker.op = x
           /\ main'.callback = x <=> main.callback = x
           /\ ops'[x].alive <=> ops[x].alive
    BY <1>0, <1>a, <1>c, <1>l, <1>w
  <2>2. "todo" \in Places /\ "todo" \notin Prio
    BY DEF Places, Prio
  <2>3. \A x \in M :
           /\ \A q \in Prio : Has(m_OpQueue'[q], x) <=> "todo" = q
           /\ Has(m_ThinkQueue', x) <=> "todo" = "think"
           /\ Has(main'.todo, x) <=> "todo" = "todo"
           /\ worker'.op = x <=> "todo" = "worker"
           /\ main'.callback = x <=> "todo" = "callback"
           /\ ops'[x].alive <=> "todo" # "nowhere"
    <3>1. UNCHANGED <<m_OpQueue, ops>> /\ worker'.op = worker.op /\ main'.callback = main.callback
      BY <1>0, <1>a, <1>w
    <3> QED BY <2>2, <3>1, <1>c, <1>h, <1>l, <1>s
  <2>4. /\ \A q \in Prio : Distinct(m_OpQueue'[q])
        /\ Distinct(m_ThinkQueue') /\ Distinct(main'.todo)
    BY <1>0, <1>c, <1>l DEF IInv, HomesOK
  <2> QED BY <2>1, <2>2, <2>3, <2>4, <1>s, HomeMove
<1>2. TypeOK'
  BY <1>0, <1>a, <1>c, <1>d, <1>m, <1>w DEF IInv, TypeOK
<1>3. WorkerOK'
  BY <1>0, <1>m, <1>w DEF WorkerOK
<1>4. MainOK'
  <2>0. NULL \notin Reasons \cup Loops \cup Tokens
    BY DBAssumption
  <2>1. main'.loop = NULL => main'.todo = <<>> /\ main'.callback = NULL
    BY <2>0, <1>a DEF IInv, MainOK, Reasons
  <2>2. main'.loop = "Drop" => s_pAddBlock' # NULL
    BY <2>0, <1>0, <1>a DEF IInv, MainOK, Tokens
  <2>3. ASSUME NEW t \in Tokens
        PROVE  /\ phase[t] = "dropping" => main'.loop = "Drop"
               /\ phase[t] = "loading" => main'.loop = NULL
    <3>1. CASE main.join = "AddDriver"
      BY <3>1, <1>a DEF IInv, MainOK
    <3>2. CASE main.join = "RemoveDriver"
      BY <3>2, <2>0, <1>a DEF IInv, MainOK, Loops
    <3>3. CASE main.join \in {"Wait", "Drop"}
      <4>1. main.arg \in Tokens /\ phase[main.arg] \in {"ending", "dropping"}
        BY <3>3 DEF IInv, MainOK, Tokens
      <4>2. Busy(t) => t = main.arg
        BY <4>1 DEF IInv, MainOK, Busy
      <4>3. main.join = "Wait" => phase[main.arg] = "ending"
        BY DEF IInv, MainOK
      <4> QED BY <3>3, <4>1, <4>2, <4>3, <1>a DEF Busy
    <3> QED BY <3>1, <3>2, <3>3, <1>a
  <2> QED BY <2>0, <2>1, <2>2, <2>3, <1>0, <1>a DEF IInv, MainOK, Busy, Reasons
<1>5. DriversFixed'
  BY <1>w DEF DriversFixed
<1>6. OwnersOK'
  BY <1>0, <1>a DEF IInv, OwnersOK
<1>7. SettledOK'
  <2>1. ASSUME NEW x \in Ops, ops[x].alive, Settled(x) PROVE Settled(x)'
    <3>1. OwnerLoaded(x)' /\ phase'[ops'[x].owner] # "loading" /\ ops[x].owner \in Tokens
      BY <2>1, <1>0 DEF Settled, OwnerLoaded, IInv, OwnersOK
    <3>2. ASSUME phase[ops[x].owner] # "running" PROVE Has(main'.todo, x) \/ main'.callback = x
      <4>1. CASE main.join \notin {"Wait", "Drop"}
        BY <2>1, <3>2, <4>1, <1>a, <1>l DEF Settled
      <4>2. CASE main.join \in {"Wait", "Drop"}
        <5>1. main.arg \in Tokens /\ phase[main.arg] \in {"ending", "dropping"}
          BY <4>2 DEF IInv, MainOK, Tokens
        <5>2. Busy(ops[x].owner) /\ Busy(main.arg)
          BY <2>1, <3>2, <5>1 DEF Busy, Settled, OwnerLoaded
        <5>3. ops[x].owner = main.arg
          BY <3>1, <5>1, <5>2 DEF IInv, MainOK
        <5>4. main.callback # x /\ ~Has(main.todo, x) /\ worker.op # x
          BY <4>2, <1>a, <1>w, EmptyList, DBAssumption
        <5>5. m_OperationOwners[x] = main.arg
          BY <2>1, <5>3, <5>4 DEF IInv, OwnersOK
        <5>6. Has(m_ThinkQueue, x)
          BY <2>1, <5>4, <1>w, HomeFacts, EmptyList
        <5> QED BY <4>2, <5>5, <5>6, <1>l, <1>n DEF M
      <4> QED BY <4>1, <4>2
    <3> QED BY <3>1, <3>2, <1>0 DEF Settled
  <2> QED BY <2>1, <1>0, <1>a DEF IInv, SettledOK
<1>8. CancelledOK'
  BY <1>0, <1>a DEF IInv, CancelledOK, Orphan
<1>9. OrderOK'
  <2>1. \A x \in Ops : worker'.op = x => worker.op = x
    BY <1>w
  <2> QED BY <2>1, <1>0, <1>c, OrderShrinks
<1> QED BY <1>1, <1>2, <1>3, <1>4, <1>5, <1>6, <1>7, <1>8, <1>9 DEF IInv

\* Membership, as the code's sets and lists see it.
LEMMA RangeHas ==
  ASSUME NEW S, NEW s \in Seq(S)
  PROVE  \A x : x \in Range(s) <=> Has(s, x)
  BY DEF Range, Has

\* DiscardPluginOperations: what is in a queue is destroyed, what the worker
\* holds is marked.
LEMMA CancelStep ==
  ASSUME IInv, NEW t \in Tokens, CancelPluginOperations(t)
  PROVE  IInv'
<1> DEFINE S == {x \in Ops : /\ m_OperationOwners[x] = t
                             /\ Has(m_ThinkQueue, x) \/ \E p \in Prio : Has(m_OpQueue[p], x)}
           T == {x \in Ops : ~OwnedBy(x, t)}
<1>t. /\ m_OpQueue \in [Prio -> Seq(Ops)] /\ m_ThinkQueue \in Seq(Ops)
      /\ worker \in [pc : WorkerPC, op : Ops \cup {NULL}]
      /\ m_ActiveOperation \in Ops \cup {NULL} /\ m_CancelledOperations \subseteq Ops
      /\ m_OperationOwners \in [Ops -> Tokens \cup {NULL}]
      /\ phase \in [Tokens -> {"none", "loading", "running", "ending", "dropping", "dropped"}]
  BY DEF IInv, TypeOK
<1>z. NULL \notin Ops /\ NULL \notin Tokens /\ NULL \notin Reasons /\ NULL \notin Loops
  BY DBAssumption
<1>q. /\ \A x : x \in Range(m_ThinkQueue) <=> Has(m_ThinkQueue, x)
      /\ \A p \in Prio : \A x : x \in Range(m_OpQueue[p]) <=> Has(m_OpQueue[p], x)
      /\ \A x : Has(m_ThinkQueue, x) => x \in Ops
      /\ \A p \in Prio : \A x : Has(m_OpQueue[p], x) => x \in Ops
  BY <1>t, RangeHas, HasType
<1>r. S = {o \in UNION {Range(m_OpQueue[p]) : p \in Prio} : OwnedBy(o, t)}
            \cup {o \in Range(m_ThinkQueue) : OwnedBy(o, t)}
  BY <1>q DEF OwnedBy
<1>i. /\ main.join = NULL /\ main.loop = NULL /\ t \in Plugins /\ phase[t] = "running"
      /\ \A u \in Tokens : phase[u] \in {"none", "running"}
      /\ main.todo = <<>> /\ main.callback = NULL
  BY DEF CancelPluginOperations, Idle, IInv, MainOK
<1>0. /\ phase' = [phase EXCEPT ![t] = "ending"]
      /\ m_OpQueue' = [p \in Prio |-> Filter(m_OpQueue[p], T)]
      /\ m_ThinkQueue' = Filter(m_ThinkQueue, T)
      /\ m_ActiveOperation' \in {NULL, m_ActiveOperation}
      /\ m_ActiveOperation' = NULL => m_ActiveOperation = NULL \/ Has(m_ThinkQueue, m_ActiveOperation)
      /\ m_CancelledOperations' = m_CancelledOperations \cup CancelActive(t)
      /\ UNCHANGED <<m_Terminate, m_drivers, m_drSafety, s_pAddBlock, worker, main, gen, loads, made>>
  BY <1>q DEF CancelPluginOperations, WithoutOwned
<1>o. m_OperationOwners' = [o \in Ops |-> IF o \in S THEN NULL ELSE m_OperationOwners[o]]
  BY <1>r DEF CancelPluginOperations
<1>d. ops' = Destroyed(S, t)
  BY <1>r DEF CancelPluginOperations
<1>s. /\ S \in SUBSET Ops
      /\ \A x \in Ops : x \in S <=> /\ m_OperationOwners[x] = t
                                    /\ Has(m_ThinkQueue, x) \/ \E p \in Prio : Has(m_OpQueue[p], x)
      /\ \A x \in Ops : x \in T <=> m_OperationOwners[x] # t
  BY DEF OwnedBy
<1> HIDE DEF S, T
<1>f. /\ ops' \in [Ops -> Op]
      /\ \A x \in Ops : /\ ops'[x].owner = ops[x].owner /\ ops'[x].gen = ops[x].gen
                        /\ ops'[x].prio = ops[x].prio /\ ops'[x].n = ops[x].n
                        /\ ops'[x].late = ops[x].late /\ ops'[x].marked = ops[x].marked
                        /\ ops'[x].alive <=> ops[x].alive /\ x \notin S
                        /\ ops'[x].fate = "lost" =>
                             \/ ops[x].fate = "lost"
                             \/ x \in S /\ ops[x].owner # t
  BY <1>d, <1>s, DestroyedFacts
<1>w. \A x \in Ops : m_OperationOwners[x] = IF ops[x].alive THEN ops[x].owner ELSE NULL
  BY <1>i, <1>z DEF IInv, OwnersOK
<1>x. \A x \in S : ops[x].alive /\ ops[x].owner = t
  BY <1>s, <1>w, <1>z
<1>e. \A x : ~Has(main.todo, x)
  BY <1>i, EmptyList
<1>c. \A p \in Prio :
        /\ m_OpQueue'[p] \in Seq(Ops)
        /\ \A x : Has(m_OpQueue'[p], x) <=> Has(m_OpQueue[p], x) /\ x \in T
        /\ \A x, y : Precedes(m_OpQueue'[p], x, y) => Precedes(m_OpQueue[p], x, y)
        /\ Distinct(m_OpQueue'[p])
  <2> SUFFICES ASSUME NEW p \in Prio
               PROVE  /\ m_OpQueue'[p] \in Seq(Ops)
                      /\ \A x : Has(m_OpQueue'[p], x) <=> Has(m_OpQueue[p], x) /\ x \in T
                      /\ \A x, y : Precedes(m_OpQueue'[p], x, y) => Precedes(m_OpQueue[p], x, y)
                      /\ Distinct(m_OpQueue'[p])
    OBVIOUS
  <2>1. m_OpQueue[p] \in Seq(Ops) /\ Distinct(m_OpQueue[p]) /\ m_OpQueue'[p] = Filter(m_OpQueue[p], T)
    BY <1>0, <1>t DEF IInv, HomesOK
  <2> QED BY <2>1, FilterList
<1>g. /\ m_ThinkQueue' \in Seq(Ops)
      /\ \A x : Has(m_ThinkQueue', x) <=> Has(m_ThinkQueue, x) /\ x \in T
      /\ \A x, y : Precedes(m_ThinkQueue', x, y) => Precedes(m_ThinkQueue, x, y)
      /\ Distinct(m_ThinkQueue')
  <2>1. Distinct(m_ThinkQueue)
    BY DEF IInv, HomesOK
  <2> QED BY <2>1, <1>0, <1>t, FilterList
<1>h. \A x \in S : worker.op # x
  <2> SUFFICES ASSUME NEW x \in S PROVE worker.op # x
    OBVIOUS
  <2>1. x \in Ops /\ (Has(m_ThinkQueue, x) \/ \E p \in Prio : Has(m_OpQueue[p], x))
    BY <1>s
  <2> QED BY <2>1, HomeFacts
<1>a. \A x \in CancelActive(t) : /\ x \in Ops /\ x \notin S /\ m_OperationOwners[x] = t
  BY <1>q, <1>s, <1>t, <1>z DEF CancelActive, OwnedBy
<1>b. \A x \in Ops : x = worker.op /\ m_OperationOwners[x] = t => x \in CancelActive(t)
  <2> SUFFICES ASSUME NEW x \in Ops, x = worker.op, m_OperationOwners[x] = t PROVE x \in CancelActive(t)
    OBVIOUS
  <2>1. m_ActiveOperation = x /\ x # NULL
    BY <1>z DEF IInv, WorkerOK
  <2>2. ~Has(m_ThinkQueue, x) /\ \A p \in Prio : ~Has(m_OpQueue[p], x)
    BY HomeFacts
  <2> QED BY <2>1, <2>2, <1>q DEF CancelActive, OwnedBy
<1>u. phase'[t] = "ending" /\ \A u \in Tokens : u # t => phase'[u] = phase[u]
  BY <1>0, <1>t
<1>1. HomesOK'
  <2>0. UNCHANGED <<main, worker>>
    BY <1>0
  <2>1. \A x \in Ops \ S :
           /\ \A q \in Prio : Has(m_OpQueue'[q], x) <=> Has(m_OpQueue[q], x)
           /\ Has(m_ThinkQueue', x) <=> Has(m_ThinkQueue, x)
           /\ Has(main'.todo, x) <=> Has(main.todo, x)
           /\ worker'.op = x <=> worker.op = x
           /\ main'.callback = x <=> main.callback = x
           /\ ops'[x].alive <=> ops[x].alive
    BY <2>0, <1>c, <1>f, <1>g, <1>s
  <2>2. "nowhere" \in Places /\ "nowhere" \notin Prio
    BY DEF Places, Prio
  <2>3. \A x \in S :
           /\ \A q \in Prio : Has(m_OpQueue'[q], x) <=> "nowhere" = q
           /\ Has(m_ThinkQueue', x) <=> "nowhere" = "think"
           /\ Has(main'.todo, x) <=> "nowhere" = "todo"
           /\ worker'.op = x <=> "nowhere" = "worker"
           /\ main'.callback = x <=> "nowhere" = "callback"
           /\ ops'[x].alive <=> "nowhere" # "nowhere"
    <3> SUFFICES ASSUME NEW x \in S
                 PROVE  /\ \A q \in Prio : ~Has(m_OpQueue'[q], x)
                        /\ ~Has(m_ThinkQueue', x) /\ ~Has(main'.todo, x)
                        /\ worker'.op # x /\ main'.callback # x /\ ~ops'[x].alive
      BY <2>2
    <3>1. x \in Ops /\ x \notin T
      BY <1>s
    <3> QED BY <2>0, <3>1, <1>c, <1>e, <1>f, <1>g, <1>h, <1>i, <1>z
  <2>4. /\ \A q \in Prio : Distinct(m_OpQueue'[q])
        /\ Distinct(m_ThinkQueue') /\ Distinct(main'.todo)
    BY <2>0, <1>c, <1>g DEF IInv, HomesOK
  <2> QED BY <2>1, <2>2, <2>3, <2>4, <1>s, HomeMove
<1>2. TypeOK'
  <2>1. m_OpQueue' \in [Prio -> Seq(Ops)]
    BY <1>0, <1>c
  <2>2. m_OperationOwners' \in [Ops -> Tokens \cup {NULL}]
    BY <1>o, <1>t
  <2>3. m_CancelledOperations' \subseteq Ops /\ m_ActiveOperation' \in Ops \cup {NULL}
    BY <1>0, <1>a, <1>t
  <2>4. phase' \in [Tokens -> {"none", "loading", "running", "ending", "dropping", "dropped"}]
    BY <1>0, <1>t
  <2> QED BY <2>1, <2>2, <2>3, <2>4, <1>0, <1>f, <1>g DEF IInv, TypeOK
<1>3. WorkerOK'
  <2>1. worker.op # NULL => m_ActiveOperation' = worker.op
    <3> SUFFICES ASSUME worker.op # NULL PROVE m_ActiveOperation' = worker.op
      OBVIOUS
    <3>1. worker.op \in Ops /\ m_ActiveOperation = worker.op
      BY <1>t DEF IInv, WorkerOK
    <3>2. ~Has(m_ThinkQueue, worker.op)
      BY <3>1, HomeFacts
    <3> QED BY <3>1, <3>2, <1>0
  <2>2. worker.pc \in {"none", "done"} => \A p \in Prio : m_OpQueue'[p] = <<>>
    <3> SUFFICES ASSUME worker.pc \in {"none", "done"}, NEW p \in Prio PROVE m_OpQueue'[p] = <<>>
      OBVIOUS
    <3>1. m_OpQueue[p] = <<>>
      BY DEF IInv, WorkerOK
    <3>2. m_OpQueue'[p] \in Seq(Ops) /\ \A x : ~Has(m_OpQueue'[p], x)
      BY <3>1, <1>c, EmptyList
    <3> QED BY <3>2, HasType
  <2> QED BY <2>1, <2>2, <1>0 DEF IInv, WorkerOK
<1>4. MainOK'
  <2>1. t \notin Exts /\ s_pAddBlock # t
    BY <1>i, DBAssumption DEF IInv, MainOK
  <2> QED BY <2>1, <1>0, <1>i, <1>u, <1>z DEF IInv, MainOK, Busy, Reasons, Loops
<1>5. DriversFixed'
  BY <1>0 DEF IInv, DriversFixed
<1>6. OwnersOK'
  <2> SUFFICES ASSUME NEW x \in Ops
               PROVE  /\ ops'[x].alive => ops'[x].owner \in Tokens
                      /\ m_OperationOwners'[x] = IF ops'[x].alive /\ x # main'.callback THEN ops'[x].owner ELSE NULL
    BY DEF OwnersOK
  <2>1. ops[x].alive => ops[x].owner \in Tokens
    BY DEF IInv, OwnersOK
  <2>2. x # main'.callback
    BY <1>0, <1>i, <1>z
  <2> QED BY <2>1, <2>2, <1>f, <1>o, <1>w
<1>7. SettledOK'
  <2>1. main'.callback \notin m_CancelledOperations'
    BY <1>0, <1>a, <1>i, <1>t, <1>z
  <2>2. ASSUME NEW x \in Ops, ops'[x].alive, ~ops'[x].late,
               x \notin m_CancelledOperations' \/ ops'[x].owner \in Exts
        PROVE  Settled(x)'
    <3>1. ops[x].alive /\ ~ops[x].late /\ x \notin S /\ (x \notin m_CancelledOperations \/ ops[x].owner \in Exts)
      BY <2>2, <1>0, <1>f
    <3>2. Settled(x)
      BY <2>2, <3>1 DEF IInv, SettledOK
    <3>3. NULL \notin {"Wait", "Drop"}
      BY <1>z DEF Reasons
    <3>4. ops[x].owner \in Tokens /\ phase[ops[x].owner] = "running"
      BY <3>1, <3>2, <3>3, <1>e, <1>i, <1>z DEF Settled, IInv, OwnersOK
    <3>5. ops[x].owner # t
      <4> SUFFICES ASSUME ops[x].owner = t PROVE FALSE
        OBVIOUS
      <4>1. m_OperationOwners[x] = t
        BY <3>1, <1>w
      <4>2. ~Has(m_ThinkQueue, x) /\ \A p \in Prio : ~Has(m_OpQueue[p], x)
        BY <3>1, <4>1, <1>s
      <4>3. main.callback # x /\ ~Has(main.todo, x)
        BY <1>e, <1>i, <1>z
      <4>4. worker.op = x
        BY <3>1, <4>2, <4>3, HomeFacts
      <4>5. x \in m_CancelledOperations' /\ t \notin Exts
        BY <4>1, <4>4, <1>0, <1>b, <1>i, DBAssumption
      <4> QED BY <2>2, <4>5, <1>f
    <3>6. phase'[ops[x].owner] = phase[ops[x].owner]
      BY <3>4, <3>5, <1>u
    <3> QED BY <3>2, <3>4, <3>6, <1>0, <1>f DEF Settled, OwnerLoaded
  <2> QED BY <2>1, <2>2 DEF SettledOK
<1>8. CancelledOK'
  <2>1. ASSUME NEW x \in m_CancelledOperations' PROVE ops'[x].marked \/ Orphan(x)'
    <3>1. CASE x \in m_CancelledOperations
      <4>1. x \in Ops /\ (ops[x].marked \/ Orphan(x))
        BY <3>1, <1>t DEF IInv, CancelledOK
      <4>2. CASE ops[x].marked
        BY <4>1, <4>2, <1>f
      <4>3. CASE Orphan(x) /\ ops[x].gen < gen[ops[x].owner]
        BY <4>1, <4>3, <1>0, <1>f DEF Orphan
      <4>4. CASE Orphan(x) /\ ops[x].alive /\ phase[ops[x].owner] \in {"ending", "none"}
        <5>1. ops[x].owner # t /\ x \notin S /\ ops[x].owner \in Tokens
          BY <4>4, <1>i, <1>x DEF Tokens, Orphan
        <5> QED BY <4>1, <4>4, <5>1, <1>0, <1>f, <1>u DEF Orphan
      <4> QED BY <4>1, <4>2, <4>3, <4>4 DEF Orphan
    <3>2. CASE x \in CancelActive(t)
      <4>1. x \in Ops /\ x \notin S /\ ops[x].alive /\ ops[x].owner = t
        BY <3>2, <1>a, <1>w, <1>z
      <4> QED BY <4>1, <1>0, <1>f, <1>i, <1>u DEF Orphan
    <3> QED BY <3>1, <3>2, <1>0
  <2>2. ASSUME NEW x \in Ops PROVE ops'[x].gen <= loads' /\ (ops'[x].fate = "lost" => ops'[x].marked)
    <3>1. ops[x].gen <= loads /\ (ops[x].fate = "lost" => ops[x].marked)
      BY DEF IInv, CancelledOK
    <3> QED BY <3>1, <1>0, <1>f, <1>x
  <2>3. main'.callback = NULL
    BY <1>0, <1>i
  <2> QED BY <2>1, <2>2, <2>3 DEF CancelledOK, Orphan
<1>9. OrderOK'
  BY <1>0, <1>c, <1>f, <1>g, OrderShrinks
<1> QED BY <1>1, <1>2, <1>3, <1>4, <1>5, <1>6, <1>7, <1>8, <1>9 DEF IInv

-----------------------------------------------------------------------------
(* The invariant.                                                          *)

\* At the start there is nothing.
LEMMA InitOK ==
  ASSUME Init
  PROVE  IInv
<1>1. TypeOK
  <2>1. [ alive |-> FALSE, owner |-> NULL, gen |-> 0, driver |-> NULL, prio |-> "Low",
          n |-> 0, late |-> FALSE, marked |-> FALSE, fate |-> "discarded" ] \in Op
    BY DBAssumption DEF Op, Prio
  <2>2. /\ ops \in [Ops -> Op] /\ made \in 0..MaxOps /\ loads \in 0..MaxLoads
        /\ gen \in [Tokens -> 0..MaxLoads]
        /\ phase \in [Tokens -> {"none", "loading", "running", "ending", "dropping", "dropped"}]
    BY <2>1, DBAssumption DEF Init
  <2>3. /\ m_OpQueue \in [Prio -> Seq(Ops)] /\ m_ThinkQueue \in Seq(Ops)
        /\ m_OperationOwners \in [Ops -> Tokens \cup {NULL}]
        /\ m_drivers \in Seq(Drivers)
    BY DEF Init
  <2>4. worker \in [pc : WorkerPC, op : Ops \cup {NULL}]
    BY DEF Init, WorkerPC
  <2>5. main \in [join : Reasons \cup {NULL}, arg : Tokens \cup Drivers \cup {NULL},
                  loop : Loops \cup {NULL}, todo : Seq(Ops), callback : Ops \cup {NULL}]
    BY DEF Init
  <2>6. /\ m_ActiveOperation \in Ops \cup {NULL} /\ m_CancelledOperations \subseteq Ops
        /\ m_Terminate \in BOOLEAN /\ m_drSafety \in Nat /\ s_pAddBlock \in Tokens \cup {NULL}
    BY DEF Init
  <2> QED BY <2>2, <2>3, <2>4, <2>5, <2>6 DEF TypeOK
<1>e. /\ \A p \in Prio : \A x : ~Has(m_OpQueue[p], x)
      /\ \A p \in Prio : \A x, y : ~Precedes(m_OpQueue[p], x, y)
      /\ \A p \in Prio : Distinct(m_OpQueue[p])
      /\ \A x : ~Has(m_ThinkQueue, x) /\ ~Has(main.todo, x)
      /\ \A x, y : ~Precedes(m_ThinkQueue, x, y)
      /\ Distinct(m_ThinkQueue) /\ Distinct(main.todo)
  BY EmptyList DEF Init
<1>a. /\ \A o \in Ops : /\ ~ops[o].alive /\ ops[o].n = 0 /\ ops[o].fate = "discarded" /\ ops[o].gen = 0
                        /\ m_OperationOwners[o] = NULL
      /\ \A t \in Tokens : phase[t] = "none" /\ gen[t] = 0
      /\ worker.op = NULL /\ worker.pc = "none" /\ main.callback = NULL /\ m_Terminate = FALSE
      /\ main.join = NULL /\ main.loop = NULL /\ main.todo = <<>> /\ made = 0 /\ loads = 0
      /\ m_CancelledOperations = {} /\ s_pAddBlock = NULL
      /\ \A p \in Prio : m_OpQueue[p] = <<>>
  BY DEF Init
<1>z. NULL \notin Ops /\ NULL \notin Tokens /\ NULL \notin Reasons /\ NULL \notin Loops
  BY DBAssumption
<1>2. HomesOK
  <2> DEFINE home == [o \in Ops |-> "nowhere"]
  <2>1. home \in [Ops -> Places] /\ \A o \in Ops : home[o] = "nowhere"
    BY DEF Places
  <2> HIDE DEF home
  <2>2. IsHome(home)
    BY <2>1, <1>a, <1>e, <1>z DEF IsHome, Prio
  <2> QED BY <2>1, <2>2, <1>e DEF HomesOK
<1>3. WorkerOK
  BY <1>a DEF WorkerOK
<1>4. MainOK
  BY <1>a, <1>z DEF MainOK, Busy, Reasons, Loops
<1>5. DriversFixed
  BY <1>a DEF DriversFixed
<1>6. OwnersOK
  BY <1>a DEF OwnersOK
<1>7. SettledOK /\ CancelledOK
  BY <1>a DEF SettledOK, CancelledOK, Orphan
<1>8. OrderOK
  BY <1>a, <1>e, <1>z DEF OrderOK
<1> QED BY <1>1, <1>2, <1>3, <1>4, <1>5, <1>6, <1>7, <1>8 DEF IInv

\* Every step keeps the invariant.
LEMMA NextInv ==
  ASSUME IInv, [Next]_vars
  PROVE  IInv'
<1>1. CASE UNCHANGED vars
  <2>0. /\ UNCHANGED <<m_OpQueue, m_ThinkQueue, m_ActiveOperation, m_OperationOwners, m_CancelledOperations>>
        /\ UNCHANGED <<m_Terminate, m_drivers, m_drSafety, s_pAddBlock, worker, main, phase, gen, loads>>
        /\ UNCHANGED <<ops, made>>
    BY <1>1 DEF vars, shared, life
  <2>1. HomesOK' /\ OwnersOK' /\ OrderOK'
    BY <2>0, QuietStep DEF Quiet
  <2>2. TypeOK'
    BY <2>0 DEF IInv, TypeOK
  <2>3. WorkerOK' /\ MainOK' /\ DriversFixed'
    BY <2>0 DEF IInv, WorkerOK, MainOK, Busy, DriversFixed
  <2>4. SettledOK' /\ CancelledOK'
    BY <2>0 DEF IInv, SettledOK, Settled, OwnerLoaded, CancelledOK, Orphan
  <2> QED BY <2>1, <2>2, <2>3, <2>4 DEF IInv
<1>2. CASE Worker \/ SpuriousWake
  BY <1>2, WorkerQuietStep, FetchStep, PushThinkStep, ClearActiveStep DEF Worker
<1>3. CASE RunFrame
  BY <1>3, RunFrameStep
<1>4. CASE Progress
  <2>1. CASE FinalizeOperation \/ EndCallback \/ EndLoop \/ Joined
    BY <2>1, FinalizeOperationStep, EndCallbackStep, EndLoopStep, JoinedStep
  <2>2. CASE \E t \in Tokens : FinishLoad(t) \/ Delete(t)
    BY <2>2, FinishLoadStep, DeleteStep
  <2> QED BY <1>4, <2>1, <2>2 DEF Progress
<1>5. CASE Environment
  <2>1. CASE \E t \in Tokens, o \in Ops, d \in Drivers, p \in Prio : Query(t, o, d, p)
    BY <2>1, QueryStep
  <2>2. CASE \E o \in Ops, p \in Prio : QueryFromThread(o, p)
    BY <2>2, QueryFromThreadStep
  <2>3. CASE \E d \in Drivers : AddDriver(d) \/ RemoveDriver(d)
    BY <2>3, AddDriverStep, RemoveDriverStep
  <2>4. CASE \E t \in Tokens : \/ WaitForPluginOperations(t) \/ CancelPluginOperations(t)
                               \/ OnSourceModIdentityDropped(t) \/ Load(t)
    BY <2>4, JoinForOwnerStep, CancelStep, LoadStep
  <2> QED BY <1>5, <2>1, <2>2, <2>3, <2>4 DEF Environment
<1> QED BY <1>1, <1>2, <1>3, <1>4, <1>5 DEF Next

\* IInv is an invariant of DBManager, whatever plugins, extensions and the
\* allocator do.
THEOREM Invariance == Spec => []IInv
  BY InitOK, NextInv, PTL DEF Spec

-----------------------------------------------------------------------------
(* What it says.                                                           *)

\* How often a list without repetitions has an element.
LEMMA CountFacts ==
  ASSUME NEW S, NEW s \in Seq(S), NEW o, Distinct(s)
  PROVE  Count(o, s) = IF Has(s, o) THEN 1 ELSE 0
<1>1. CASE Has(s, o)
  <2>1. PICK i \in 1..Len(s) : s[i] = o
    BY <1>1 DEF Has
  <2>2. {j \in 1..Len(s) : s[j] = o} = {i}
    BY <2>1 DEF Distinct
  <2> QED BY <1>1, <2>2, FS_Singleton DEF Count
<1>2. CASE ~Has(s, o)
  <2>1. {j \in 1..Len(s) : s[j] = o} = {}
    BY <1>2 DEF Has
  <2> QED BY <1>2, <2>1, FS_EmptySet DEF Count
<1> QED BY <1>1, <1>2

\* Every operation is in exactly one pair of hands from AddToThreadQueue until
\* Destroy and in none after: wherever the worker is when its owner, its driver
\* or the worker goes away, nothing is run twice, used after it is deleted, or
\* leaked.
THEOREM EveryOperationHasOneHome == Spec => []OneHome
<1>1. IInv => OneHome
  <2> SUFFICES ASSUME IInv, NEW o \in Ops PROVE Homes(o) = IF ops[o].alive THEN 1 ELSE 0
    BY DEF OneHome
  <2>1. PICK home \in [Ops -> Places] : IsHome(home)
    BY DEF IInv, HomesOK
  <2>2. /\ \A p \in Prio : m_OpQueue[p] \in Seq(Ops) /\ Distinct(m_OpQueue[p])
        /\ m_ThinkQueue \in Seq(Ops) /\ Distinct(m_ThinkQueue)
        /\ main.todo \in Seq(Ops) /\ Distinct(main.todo)
    BY DEF IInv, TypeOK, HomesOK
  <2>3. /\ \A p \in Prio : Count(o, m_OpQueue[p]) = IF home[o] = p THEN 1 ELSE 0
        /\ Count(o, m_ThinkQueue) = IF home[o] = "think" THEN 1 ELSE 0
        /\ Count(o, main.todo) = IF home[o] = "todo" THEN 1 ELSE 0
    BY <2>1, <2>2, CountFacts DEF IsHome
  <2>4. /\ Count(o, m_OpQueue["High"]) = IF home[o] = "High" THEN 1 ELSE 0
        /\ Count(o, m_OpQueue["Normal"]) = IF home[o] = "Normal" THEN 1 ELSE 0
        /\ Count(o, m_OpQueue["Low"]) = IF home[o] = "Low" THEN 1 ELSE 0
    BY <2>3 DEF Prio
  <2>5. /\ worker.op = o <=> home[o] = "worker"
        /\ main.callback = o <=> home[o] = "callback"
        /\ ops[o].alive <=> home[o] # "nowhere"
    BY <2>1 DEF IsHome
  <2>6. home[o] \in Places
    OBVIOUS
  <2> QED BY <2>3, <2>4, <2>5, <2>6 DEF Homes, Places, Prio
<1> QED BY <1>1, Invariance, PTL

\* The worker shuts down the drivers it initialized: m_drivers never changes
\* under it.
THEOREM DriversStayFixed == Spec => []DriversFixed
<1>1. IInv => DriversFixed
  BY DEF IInv
<1> QED BY <1>1, Invariance, PTL

\* Results of one priority come back in the order of the queries, whatever is
\* cancelled, flushed or discarded in between.
THEOREM ResultsInOrder == Spec => []InOrder
<1>1. IInv => InOrder
  <2> SUFFICES ASSUME IInv, NEW p \in Prio
               PROVE  LET line == m_ThinkQueue \o (IF worker.op # NULL THEN <<worker.op>> ELSE <<>>) \o m_OpQueue[p]
                      IN  \A i, j \in 1..Len(line) :
                            i < j /\ ops[line[i]].prio = p /\ ops[line[j]].prio = p =>
                              ops[line[i]].n < ops[line[j]].n
    BY DEF InOrder
  <2> DEFINE held == IF worker.op # NULL THEN <<worker.op>> ELSE <<>>
             line == m_ThinkQueue \o held \o m_OpQueue[p]
  <2>1. m_ThinkQueue \in Seq(Ops) /\ m_OpQueue[p] \in Seq(Ops) /\ worker.op \in Ops \cup {NULL}
    BY DEF IInv, TypeOK
  <2>2. /\ held \in Seq(Ops)
        /\ \A x : Has(held, x) => x = worker.op
        /\ \A x, y : ~Precedes(held, x, y)
    <3>1. CASE worker.op = NULL
      <4>1. held = <<>>
        BY <3>1
      <4> QED BY <4>1, EmptyList
    <3>2. CASE worker.op # NULL
      <4>1. held = <<worker.op>> /\ worker.op \in Ops
        BY <3>2, <2>1
      <4> HIDE DEF held
      <4> QED BY <4>1, OneList
    <3> QED BY <3>1, <3>2
  <2> HIDE DEF held
  <2>3. /\ m_ThinkQueue \o held \in Seq(Ops)
        /\ \A x : Has(m_ThinkQueue \o held, x) => Has(m_ThinkQueue, x) \/ x = worker.op
        /\ \A x, y : Precedes(m_ThinkQueue \o held, x, y) =>
             Precedes(m_ThinkQueue, x, y) \/ (Has(m_ThinkQueue, x) /\ y = worker.op)
    BY <2>1, <2>2, ConcatList
  <2>4. /\ line \in Seq(Ops)
        /\ \A x, y : Precedes(line, x, y) =>
             \/ Precedes(m_ThinkQueue, x, y)
             \/ Has(m_ThinkQueue, x) /\ y = worker.op
             \/ Precedes(m_OpQueue[p], x, y)
             \/ (Has(m_ThinkQueue, x) \/ x = worker.op) /\ Has(m_OpQueue[p], y)
    BY <2>1, <2>3, ConcatList
  <2> HIDE DEF line
  <2>5. ASSUME NEW i \in 1..Len(line), NEW j \in 1..Len(line), i < j PROVE Before(line[i], line[j])
    <3>1. Precedes(line, line[i], line[j]) /\ line[i] \in Ops /\ line[j] \in Ops
      BY <2>4, <2>5 DEF Precedes
    <3> QED BY <2>4, <3>1 DEF IInv, OrderOK
  <2>6. \A i, j \in 1..Len(line) : i < j /\ ops[line[i]].prio = p /\ ops[line[j]].prio = p =>
          ops[line[i]].n < ops[line[j]].n
    BY <2>5 DEF Before
  <2> QED BY <2>6 DEF line, held
<1> QED BY <1>1, Invariance, PTL

\* Whatever plugins, extensions and the allocator do: no operation that was
\* queued by an owner while it ran outlives it but for one that is marked
\* cancelled, and no callback of such an operation runs into code that is gone.
THEOREM OwnersAreSafe == Spec => []OwnersSafe
<1>1. ASSUME IInv PROVE OwnersSafe
  <2>1. TypeOK
    BY <1>1 DEF IInv
  <2>2. OwnedOrCancelled
    BY <1>1 DEF IInv, SettledOK, Settled, OwnedOrCancelled
  <2>3. CallbackOwnerLoaded
    <3> SUFFICES ASSUME main.callback # NULL, ~ops[main.callback].late PROVE OwnerLoaded(main.callback)
      BY DEF CallbackOwnerLoaded
    <3>1. main.callback \in Ops
      BY <2>1 DEF TypeOK
    <3>2. ops[main.callback].alive
      BY <1>1, <3>1, HomeFacts
    <3> QED BY <1>1, <3>1, <3>2 DEF IInv, SettledOK, Settled
  <2> QED BY <2>1, <2>2, <2>3 DEF OwnersSafe
<1> QED BY <1>1, Invariance, PTL

\* Addresses of tokens and operations may be used again at will: an operation of
\* a running owner is destroyed without its RunThinkPart or CancelThinkPart only
\* if it was made at an address with a mark, and a mark is left behind only by
\* an operation whose owner's address has gone to another load.
THEOREM NothingIsLost == Spec => []NeverLost
<1>1. ASSUME IInv PROVE NeverLost
  BY <1>1 DEF IInv, CancelledOK, Orphan, NeverLost
<1> QED BY <1>1, Invariance, PTL

=============================================================================
