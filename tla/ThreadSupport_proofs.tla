------------------------ MODULE ThreadSupport_proofs -------------------------
(***************************************************************************)
(* Proofs about ThreadSupport, for any number of tasks, any kinds of       *)
(* worker and any bound on the calls.  The inductive invariant IInv says   *)
(* at which stage of its life each task is (QueueOK, RunningOK, CountsOK), *)
(* where the thread and the client are when the worker is stopped          *)
(* (WorkersOK), and the same for the thread of a CompatThread              *)
(* (CompatThreadOK).                                                       *)
(***************************************************************************)
EXTENDS ThreadSupport, TLAPS

\* A task is in the queue once, in one thread, or over, and its counters and
\* its handle say so.
QueueOK ==
  /\ \A i, k \in 1..Len(work_) : work_[i] = work_[k] => i = k
  /\ \A j \in Jobs : Queued(j) =>
       /\ handle[j] = "alive" /\ ran[j] = 0 /\ ended[j] = 0
       /\ ~Runs(main, j) /\ ~Runs(thread, j)

Stage(x, j) ==
  /\ x.pc = "RunThread" => ran[j] = 1 /\ ended[j] = 0
  /\ x.pc = "Done" => ended[j] = 0 /\ (ran[j] = 0 => j \in toCancel)
  /\ x.pc = "OnTerminate" => ended[j] = 1
  /\ (x.pc # "OnTerminate" \/ autorelease[j] \/ kind # "CompatWorker") => handle[j] = "alive"

RunningOK ==
  /\ \A j \in Jobs : /\ Runs(main, j) => Stage(main, j)
                     /\ Runs(thread, j) => Stage(thread, j)
                     /\ ~(Runs(main, j) /\ Runs(thread, j))
  /\ InTask(main) => main.job # 0 /\ main.ret # "idle" /\ kind # "CompatThread"
  /\ InTask(thread) => thread.job # 0

CountsOK ==
  \A j \in Jobs :
    /\ ran[j] \in {0, 1} /\ ended[j] \in {0, 1}
    /\ ended[j] = 1 /\ ran[j] = 0 => j \in toCancel
    /\ handle[j] = "none" => ran[j] = 0 /\ ended[j] = 0 /\ ~Runs(main, j) /\ ~Runs(thread, j)
    /\ kind # "CompatThread" /\ handle[j] # "none" =>
         Queued(j) \/ Runs(main, j) \/ Runs(thread, j) \/ ended[j] = 1

\* Stop is in progress on the client's thread.
Stopping == main.pc \in {"join", "Flush"} \/ (InTask(main) /\ main.ret = "Flush")

WorkersOK ==
  /\ kind # "CompatThread" => main.pc \notin {"cond", "recheck"}
  /\ kind = "BaseWorker" => thread = None /\ main.pc # "join"
  /\ kind = "CompatWorker" =>
       /\ thread.pc \notin {"Run", "detached"}
       /\ state_ # "Worker_Stopped" => thread.pc \notin {"none", "exit"}
       /\ thread.pc = "none" => thread = None
       /\ thread.pc = "exit" => main.pc = "join" /\ work_ = <<>>
       /\ main.pc = "Flush" => work_ = <<>> /\ thread = None
       /\ InTask(main) => main.ret # "Flush"
  /\ kind # "CompatThread" /\ Stopping => state_ = "Worker_Stopped"
  /\ state_ = "Worker_Stopped" /\ ~Stopping => work_ = <<>> /\ (kind # "CompatThread" => thread = None)
  /\ kind = "BaseWorker" /\ Stopping /\ main.cancel =>
       \A k \in 1..Len(work_) : work_[k] \in toCancel

CompatThreadOK ==
  kind = "CompatThread" =>
    /\ state_ = "Worker_Stopped" /\ work_ = <<>>
    /\ main.pc \in {"idle", "cond", "recheck", "join"}
    /\ thread.pc \in {"none", "Run", "RunThread", "Done", "OnTerminate", "exit", "detached"}
    /\ IF thread.pc = "none" THEN thread = None ELSE thread.job = 1
    /\ handle[1] = "none" => thread = None /\ main.pc = "idle"
    /\ thread.pc = "none" /\ handle[1] = "alive" /\ callbacks_ => ran[1] = 0 /\ ended[1] = 0
    /\ thread.pc = "Run" => handle[1] = "alive" /\ ran[1] = 0 /\ ended[1] = 0 /\ callbacks_
    /\ InTask(thread) => callbacks_
    /\ thread.pc = "exit" => handle[1] = "alive" /\ ~callbacks_
    /\ thread.pc = "detached" => handle[1] = "deleted"
    /\ main.pc # "idle" => handle[1] = "alive" /\ ~autorelease[1] /\ thread # None
    /\ main.pc = "join" => ~callbacks_

HistoryOK == ran \in [Jobs -> Nat] /\ ended \in [Jobs -> Nat]

IInv == TypeOK /\ HistoryOK /\ QueueOK /\ RunningOK /\ CountsOK /\ WorkersOK /\ CompatThreadOK

-----------------------------------------------------------------------------
(* The queue.                                                              *)

\* The first task leaves the queue and the others stay in it.
LEMMA PopQueue ==
  ASSUME TypeOK, QueueOK, work_ # <<>>, work_' = PopFront
  PROVE  /\ Head(work_) \in Jobs /\ Queued(Head(work_))
         /\ work_' \in Seq(Jobs)
         /\ \A k \in Jobs : Queued(k)' <=> Queued(k) /\ k # Head(work_)
         /\ \A i, k \in 1..Len(work_') : work_'[i] = work_'[k] => i = k
         /\ \A k \in 1..Len(work_') : \E i \in 1..Len(work_) : work_'[k] = work_[i]
<1>1. work_ \in Seq(Jobs) /\ Len(work_) \in Nat /\ Len(work_) > 0
  BY DEF TypeOK
<1>2. /\ Head(work_) = work_[1] /\ Head(work_) \in Jobs
      /\ work_' \in Seq(Jobs) /\ Len(work_') = Len(work_) - 1
      /\ \A i \in 1..Len(work_') : work_'[i] = work_[i + 1]
  BY <1>1 DEF PopFront
<1>3. \A i, k \in 1..Len(work_) : work_[i] = work_[k] => i = k
  BY DEF QueueOK
<1>4. \A i, k \in 1..Len(work_') : work_'[i] = work_'[k] => i = k
  BY <1>1, <1>2, <1>3
<1>5. \A k \in Jobs : Queued(k)' => Queued(k) /\ k # Head(work_)
  BY <1>1, <1>2, <1>3 DEF Queued
<1>6. ASSUME NEW k \in Jobs, Queued(k), k # Head(work_)
      PROVE  Queued(k)'
  <2>1. PICK i \in 1..Len(work_) : work_[i] = k
    BY <1>6 DEF Queued
  <2>2. i # 1 /\ i - 1 \in 1..Len(work_') /\ work_'[i - 1] = k
    BY <1>1, <1>2, <1>6, <2>1
  <2> QED BY <2>2 DEF Queued
<1>7. Queued(Head(work_))
  BY <1>1, <1>2 DEF Queued
<1> QED
  BY <1>1, <1>2, <1>4, <1>5, <1>6, <1>7

\* A new task comes last.
LEMMA PushQueue ==
  ASSUME TypeOK, QueueOK, NEW j \in Jobs, ~Queued(j), work_' = Append(work_, j)
  PROVE  /\ work_' \in Seq(Jobs) /\ work_' # <<>>
         /\ \A k \in Jobs : Queued(k)' <=> Queued(k) \/ k = j
         /\ \A i, k \in 1..Len(work_') : work_'[i] = work_'[k] => i = k
<1>1. work_ \in Seq(Jobs) /\ Len(work_) \in Nat
  BY DEF TypeOK
<1>2. /\ work_' \in Seq(Jobs) /\ Len(work_') = Len(work_) + 1 /\ work_' # <<>>
      /\ \A i \in 1..Len(work_) : work_'[i] = work_[i]
      /\ work_'[Len(work_) + 1] = j
  BY <1>1
<1>3. \A i \in 1..Len(work_) : work_[i] # j
  BY DEF Queued
<1>4. \A i, k \in 1..Len(work_') : work_'[i] = work_'[k] => i = k
  BY <1>1, <1>2, <1>3 DEF QueueOK
<1>5. \A k \in Jobs : Queued(k)' <=> Queued(k) \/ k = j
  BY <1>1, <1>2 DEF Queued
<1> QED
  BY <1>2, <1>4, <1>5

\* A queue that does not change.
LEMMA SameQueue ==
  ASSUME QueueOK, UNCHANGED work_
  PROVE  /\ \A k \in Jobs : Queued(k)' <=> Queued(k)
         /\ \A i, k \in 1..Len(work_') : work_'[i] = work_'[k] => i = k
  BY DEF Queued, QueueOK

\* The client between two calls.
LEMMA IdleType ==
  Idle \in [pc : MainPCs, job : 0..NJobs, n : Nat, cancel : BOOLEAN,
            ret : {"idle", "RunFrame", "Flush"}]
  BY ThreadAssumption DEF Idle, MainPCs

\* Start preserves the invariant.
LEMMA StartStep ==
  ASSUME IInv, Start
  PROVE  IInv'
<1>0. UNCHANGED work_
  BY DEF Start, worker
<1>1. TypeOK'
  <2>1. main' \in [pc : MainPCs, job : 0..NJobs, n : Nat, cancel : BOOLEAN,
                   ret : {"idle", "RunFrame", "Flush"}]
    BY IdleType DEF IInv, TypeOK, MainPCs, Worker, Start
  <2>2. thread' \in [pc : ThreadPCs, job : 0..NJobs]
    BY ThreadAssumption DEF IInv, TypeOK, ThreadPCs, Worker, Start
  <2>3. toCancel' \subseteq Jobs /\ calls' \in 0..MaxCalls /\ state_' \in WorkerStates
    BY ThreadAssumption DEF IInv, TypeOK, worker, WorkerStates, Worker, Start
  <2>4. work_in_frame' \in Nat
    BY DEF IInv, TypeOK, Start
  <2>5. wait' \in BOOLEAN
    BY DEF IInv, TypeOK, Start
  <2> QED
    BY <2>1, <2>2, <2>3, <2>4, <2>5 DEF IInv, TypeOK, worker, job, Worker, Start
<1>2. HistoryOK'
  BY DEF IInv, HistoryOK, job, Worker, Start
<1>3. QueueOK'
  BY <1>0, SameQueue DEF IInv, TypeOK, QueueOK, Runs, InTask, job, worker, Idle, None, Worker, Call,
     Start
<1>4. RunningOK'
  BY DEF IInv, TypeOK, RunningOK, Stage, Runs, InTask, job, worker, Idle, None, Worker, Call, Start
<1>5. CountsOK'
  BY ThreadAssumption DEF IInv, CountsOK, WorkersOK, Stopping, Runs, InTask, Queued, Idle, None,
     job, Call, Start
<1>6. WorkersOK'
  BY <1>0 DEF IInv, TypeOK, RunningOK, WorkersOK, CompatThreadOK, Stopping, InTask, job, worker,
     Idle, None, Worker, Call, WorkerStates, Start
<1>7. CompatThreadOK'
  BY <1>0 DEF IInv, TypeOK, RunningOK, CountsOK, CompatThreadOK, Runs, InTask, job, worker, Idle,
     None, Worker, Call, Jobs, Start
<1> QED
  BY <1>1, <1>2, <1>3, <1>4, <1>5, <1>6, <1>7 DEF IInv

\* Pause preserves the invariant.
LEMMA PauseStep ==
  ASSUME IInv, Pause
  PROVE  IInv'
<1>0. UNCHANGED work_
  BY DEF Pause, worker
<1>1. TypeOK'
  BY SMTT(30), ThreadAssumption DEF IInv, TypeOK, Jobs, Idle, None, WorkerStates, ThreadStates, ThreadPCs,
     MainPCs, worker, job, Call, Notify, Notified, Pause
<1>2. HistoryOK'
  BY DEF IInv, HistoryOK, job, Notify, Notified, Pause
<1>3. QueueOK'
  BY <1>0, SameQueue DEF IInv, TypeOK, QueueOK, Runs, InTask, job, worker, Idle, None, Worker, Call,
     Notify, Notified, Pause
<1>4. RunningOK'
  BY DEF IInv, TypeOK, RunningOK, Stage, Runs, InTask, job, worker, Idle, None, Worker, Call,
     Notify, Notified, Pause
<1>5. CountsOK'
  BY <1>0, SameQueue DEF IInv, TypeOK, CountsOK, WorkersOK, CompatThreadOK, Runs, InTask, job,
     worker, Idle, None, Worker, Call, Notify, Notified, Pause
<1>6. WorkersOK'
  BY <1>0 DEF IInv, TypeOK, RunningOK, WorkersOK, CompatThreadOK, Stopping, InTask, job, worker,
     Idle, None, Worker, Call, WorkerStates, Notify, Notified, Pause
<1>7. CompatThreadOK'
  BY <1>0 DEF IInv, TypeOK, RunningOK, CountsOK, CompatThreadOK, Runs, InTask, job, worker, Idle,
     None, Worker, Call, Jobs, Notify, Notified, Pause
<1> QED
  BY <1>1, <1>2, <1>3, <1>4, <1>5, <1>6, <1>7 DEF IInv

\* Unpause preserves the invariant.
LEMMA UnpauseStep ==
  ASSUME IInv, Unpause
  PROVE  IInv'
<1>0. UNCHANGED work_
  BY DEF Unpause, worker
<1>1. TypeOK'
  BY ThreadAssumption DEF IInv, TypeOK, Jobs, Idle, None, WorkerStates, ThreadStates, ThreadPCs,
     MainPCs, worker, job, Call, Notify, Notified, Unpause
<1>2. HistoryOK'
  BY DEF IInv, HistoryOK, job, Notify, Notified, Unpause
<1>3. QueueOK'
  BY <1>0, SameQueue DEF IInv, TypeOK, QueueOK, Runs, InTask, job, worker, Idle, None, Worker, Call,
     Notify, Notified, Unpause
<1>4. RunningOK'
  BY DEF IInv, TypeOK, RunningOK, Stage, Runs, InTask, job, worker, Idle, None, Worker, Call,
     Notify, Notified, Unpause
<1>5. CountsOK'
  BY <1>0, SameQueue DEF IInv, TypeOK, CountsOK, WorkersOK, CompatThreadOK, Runs, InTask, job,
     worker, Idle, None, Worker, Call, Notify, Notified, Unpause
<1>6. WorkersOK'
  BY <1>0 DEF IInv, TypeOK, RunningOK, WorkersOK, CompatThreadOK, Stopping, InTask, job, worker,
     Idle, None, Worker, Call, WorkerStates, Notify, Notified, Unpause
<1>7. CompatThreadOK'
  BY <1>0 DEF IInv, TypeOK, RunningOK, CountsOK, CompatThreadOK, Runs, InTask, job, worker, Idle,
     None, Worker, Call, Jobs, Notify, Notified, Unpause
<1> QED
  BY <1>1, <1>2, <1>3, <1>4, <1>5, <1>6, <1>7 DEF IInv

\* UnpauseThread preserves the invariant.
LEMMA UnpauseThreadStep ==
  ASSUME IInv, UnpauseThread
  PROVE  IInv'
<1>0. UNCHANGED work_
  BY DEF UnpauseThread, worker
<1>1. TypeOK'
  BY ThreadAssumption DEF IInv, TypeOK, Jobs, Idle, None, WorkerStates, ThreadStates, ThreadPCs,
     MainPCs, worker, job, Call, UnpauseThread
<1>2. HistoryOK'
  BY DEF IInv, HistoryOK, job, UnpauseThread
<1>3. QueueOK'
  BY <1>0, SameQueue DEF IInv, TypeOK, QueueOK, Runs, InTask, job, worker, Idle, None, Worker, Call,
     UnpauseThread
<1>4. RunningOK'
  BY DEF IInv, TypeOK, RunningOK, Stage, Runs, InTask, job, worker, Idle, None, Worker, Call,
     UnpauseThread
<1>5. CountsOK'
  BY <1>0, SameQueue DEF IInv, TypeOK, CountsOK, WorkersOK, CompatThreadOK, Runs, InTask, job,
     worker, Idle, None, Worker, Call, UnpauseThread
<1>6. WorkersOK'
  BY <1>0 DEF IInv, TypeOK, RunningOK, WorkersOK, CompatThreadOK, Stopping, InTask, job, worker,
     Idle, None, Worker, Call, WorkerStates, UnpauseThread
<1>7. CompatThreadOK'
  BY <1>0 DEF IInv, TypeOK, RunningOK, CountsOK, CompatThreadOK, Runs, InTask, job, worker, Idle,
     None, Worker, Call, Jobs, UnpauseThread
<1> QED
  BY <1>1, <1>2, <1>3, <1>4, <1>5, <1>6, <1>7 DEF IInv

\* WaitForThread preserves the invariant.
LEMMA WaitForThreadStep ==
  ASSUME IInv, WaitForThread
  PROVE  IInv'
<1>0. UNCHANGED work_
  BY DEF WaitForThread, worker
<1>1. TypeOK'
  BY ThreadAssumption DEF IInv, TypeOK, Jobs, Idle, None, WorkerStates, ThreadStates, ThreadPCs,
     MainPCs, worker, job, Call, WaitForThread
<1>2. HistoryOK'
  BY DEF IInv, HistoryOK, job, WaitForThread
<1>3. QueueOK'
  BY <1>0, SameQueue DEF IInv, TypeOK, QueueOK, Runs, InTask, job, worker, Idle, None, Worker, Call,
     WaitForThread
<1>4. RunningOK'
  BY DEF IInv, TypeOK, RunningOK, Stage, Runs, InTask, job, worker, Idle, None, Worker, Call,
     WaitForThread
<1>5. CountsOK'
  BY <1>0, SameQueue DEF IInv, TypeOK, CountsOK, WorkersOK, CompatThreadOK, Runs, InTask, job,
     worker, Idle, None, Worker, Call, WaitForThread
<1>6. WorkersOK'
  BY <1>0 DEF IInv, TypeOK, RunningOK, WorkersOK, CompatThreadOK, Stopping, InTask, job, worker,
     Idle, None, Worker, Call, WorkerStates, WaitForThread
<1>7. CompatThreadOK'
  BY <1>0 DEF IInv, TypeOK, RunningOK, CountsOK, CompatThreadOK, Runs, InTask, job, worker, Idle,
     None, Worker, Call, Jobs, WaitForThread
<1> QED
  BY <1>1, <1>2, <1>3, <1>4, <1>5, <1>6, <1>7 DEF IInv

\* DestroyThread preserves the invariant.
LEMMA DestroyThreadStep ==
  ASSUME IInv, DestroyThread
  PROVE  IInv'
<1>0. UNCHANGED work_
  BY DEF DestroyThread, worker
<1>1. TypeOK'
  BY ThreadAssumption DEF IInv, TypeOK, Jobs, Idle, None, WorkerStates, ThreadStates, ThreadPCs,
     MainPCs, worker, job, Call, Deleted, DestroyThread
<1>2. HistoryOK'
  BY DEF IInv, HistoryOK, job, Deleted, DestroyThread
<1>3. QueueOK'
  BY ThreadAssumption DEF IInv, QueueOK, CompatThreadOK, Queued, worker, DestroyThread
<1>4. RunningOK'
  BY DEF IInv, TypeOK, RunningOK, Stage, Runs, InTask, job, worker, Idle, None, Worker, Call,
     Deleted, DestroyThread
<1>5. CountsOK'
  BY <1>0, SameQueue DEF IInv, TypeOK, CountsOK, WorkersOK, CompatThreadOK, Runs, InTask, job,
     worker, Idle, None, Worker, Call, Deleted, DestroyThread
<1>6. WorkersOK'
  BY <1>0 DEF IInv, TypeOK, RunningOK, WorkersOK, CompatThreadOK, Stopping, InTask, job, worker,
     Idle, None, Worker, Call, WorkerStates, Deleted, DestroyThread
<1>7. CompatThreadOK'
  BY <1>0 DEF IInv, TypeOK, RunningOK, CountsOK, CompatThreadOK, Runs, InTask, job, worker, Idle,
     None, Worker, Call, Jobs, Deleted, DestroyThread
<1> QED
  BY <1>1, <1>2, <1>3, <1>4, <1>5, <1>6, <1>7 DEF IInv

\* Stop preserves the invariant.
LEMMA StopStep ==
  ASSUME NEW b \in BOOLEAN, IInv, Stop(b)
  PROVE  IInv'
<1>0. UNCHANGED work_
  BY DEF Stop, worker
<1>1. TypeOK'
  <2>1. main' \in [pc : MainPCs, job : 0..NJobs, n : Nat, cancel : BOOLEAN,
                   ret : {"idle", "RunFrame", "Flush"}]
    BY IdleType DEF IInv, TypeOK, MainPCs, Notify, Notified, Stop
  <2>2. thread' \in [pc : ThreadPCs, job : 0..NJobs]
    BY ThreadAssumption DEF IInv, TypeOK, ThreadPCs, Notify, Notified, Stop
  <2>3. toCancel' \subseteq Jobs /\ calls' \in 0..MaxCalls /\ state_' \in WorkerStates
    BY ThreadAssumption DEF IInv, TypeOK, worker, WorkerStates, Notify, Notified, Stop
  <2> QED
    BY <2>1, <2>2, <2>3 DEF IInv, TypeOK, worker, job, Notify, Notified, Stop
<1>2. HistoryOK'
  BY DEF IInv, HistoryOK, job, Notify, Notified, Stop
<1>3. QueueOK'
  BY <1>0, SameQueue DEF IInv, TypeOK, QueueOK, Runs, InTask, job, worker, Idle, None, Worker, Call,
     Notify, Notified, Stop
<1>4. RunningOK'
  BY DEF IInv, TypeOK, RunningOK, Stage, Runs, InTask, job, worker, Idle, None, Worker, Call,
     Notify, Notified, Stop
<1>5. CountsOK'
  BY <1>0, SameQueue DEF IInv, TypeOK, CountsOK, WorkersOK, CompatThreadOK, Runs, InTask, job,
     worker, Idle, None, Worker, Call, Notify, Notified, Stop
<1>6. WorkersOK'
  BY <1>0 DEF IInv, TypeOK, RunningOK, WorkersOK, CompatThreadOK, Stopping, InTask, job, worker,
     Idle, None, Worker, Call, WorkerStates, Notify, Notified, Stop
<1>7. CompatThreadOK'
  BY <1>0 DEF IInv, TypeOK, RunningOK, CountsOK, CompatThreadOK, Runs, InTask, job, worker, Idle,
     None, Worker, Call, Jobs, Notify, Notified, Stop
<1> QED
  BY <1>1, <1>2, <1>3, <1>4, <1>5, <1>6, <1>7 DEF IInv

\* MakeCompatThread preserves the invariant.
LEMMA MakeCompatThreadStep ==
  ASSUME NEW a \in BOOLEAN, NEW s \in BOOLEAN, IInv, MakeCompatThread(a, s)
  PROVE  IInv'
<1>0. UNCHANGED work_
  BY DEF MakeCompatThread, worker
<1>1. TypeOK'
  BY ThreadAssumption DEF IInv, TypeOK, Jobs, Idle, None, WorkerStates, ThreadStates, ThreadPCs,
     MainPCs, worker, job, Call, MakeCompatThread
<1>2. HistoryOK'
  BY DEF IInv, HistoryOK, job, MakeCompatThread
<1>3. QueueOK'
  BY <1>0, SameQueue DEF IInv, TypeOK, QueueOK, Runs, InTask, job, worker, Idle, None, Worker, Call,
     MakeCompatThread
<1>4. RunningOK'
  BY DEF IInv, TypeOK, RunningOK, Stage, Runs, InTask, job, worker, Idle, None, Worker, Call,
     MakeCompatThread
<1>5. CountsOK'
  BY <1>0, SameQueue DEF IInv, TypeOK, CountsOK, WorkersOK, CompatThreadOK, Runs, InTask, job,
     worker, Idle, None, Worker, Call, MakeCompatThread
<1>6. WorkersOK'
  BY <1>0 DEF IInv, TypeOK, RunningOK, WorkersOK, CompatThreadOK, Stopping, InTask, job, worker,
     Idle, None, Worker, Call, WorkerStates, MakeCompatThread
<1>7. CompatThreadOK'
  <2>1. /\ kind = "CompatThread" /\ kind' = kind /\ main.pc = "idle" /\ main' = main
        /\ state_' = state_ /\ work_' = work_ /\ ran' = ran /\ ended' = ended /\ callbacks_' = TRUE
        /\ thread' = None \/ thread' = [pc |-> "Run", job |-> 1]
    BY DEF MakeCompatThread, worker
  <2>2. 1 \in Jobs /\ handle'[1] = "alive" /\ ran[1] = 0 /\ ended[1] = 0
    BY ThreadAssumption DEF MakeCompatThread, IInv, TypeOK, CountsOK, Jobs
  <2>3. state_ = "Worker_Stopped" /\ work_ = <<>>
    BY <2>1 DEF IInv, CompatThreadOK
  <2> QED BY <2>1, <2>2, <2>3 DEF CompatThreadOK, None, InTask
<1> QED
  BY <1>1, <1>2, <1>3, <1>4, <1>5, <1>6, <1>7 DEF IInv

\* SetMaxThreadsPerFrame preserves the invariant.
LEMMA SetMaxThreadsPerFrameStep ==
  ASSUME NEW n \in Limits, IInv, SetMaxThreadsPerFrame(n)
  PROVE  IInv'
<1>0. UNCHANGED work_
  BY DEF SetMaxThreadsPerFrame, worker
<1>1. TypeOK'
  BY ThreadAssumption DEF IInv, TypeOK, Jobs, Idle, None, WorkerStates, ThreadStates, ThreadPCs,
     MainPCs, worker, job, Call, SetMaxThreadsPerFrame
<1>2. HistoryOK'
  BY DEF IInv, HistoryOK, job, SetMaxThreadsPerFrame
<1>3. QueueOK'
  BY <1>0, SameQueue DEF IInv, TypeOK, QueueOK, Runs, InTask, job, worker, Idle, None, Worker, Call,
     SetMaxThreadsPerFrame
<1>4. RunningOK'
  BY DEF IInv, TypeOK, RunningOK, Stage, Runs, InTask, job, worker, Idle, None, Worker, Call,
     SetMaxThreadsPerFrame
<1>5. CountsOK'
  BY <1>0, SameQueue DEF IInv, TypeOK, CountsOK, WorkersOK, CompatThreadOK, Runs, InTask, job,
     worker, Idle, None, Worker, Call, SetMaxThreadsPerFrame
<1>6. WorkersOK'
  BY <1>0 DEF IInv, TypeOK, RunningOK, WorkersOK, CompatThreadOK, Stopping, InTask, job, worker,
     Idle, None, Worker, Call, WorkerStates, SetMaxThreadsPerFrame
<1>7. CompatThreadOK'
  BY <1>0 DEF IInv, TypeOK, RunningOK, CountsOK, CompatThreadOK, Runs, InTask, job, worker, Idle,
     None, Worker, Call, Jobs, SetMaxThreadsPerFrame
<1> QED
  BY <1>1, <1>2, <1>3, <1>4, <1>5, <1>6, <1>7 DEF IInv

\* DestroyThis preserves the invariant.
LEMMA DestroyThisStep ==
  ASSUME NEW j0 \in Jobs, IInv, DestroyThis(j0)
  PROVE  IInv'
<1>0. UNCHANGED work_
  BY DEF DestroyThis, worker
<1>1. TypeOK'
  BY ThreadAssumption DEF IInv, TypeOK, Jobs, Idle, None, WorkerStates, ThreadStates, ThreadPCs,
     MainPCs, worker, job, Call, Worker, DestroyThis
<1>2. HistoryOK'
  BY DEF IInv, HistoryOK, job, Worker, DestroyThis
<1>3. QueueOK'
  BY <1>0, SameQueue DEF IInv, TypeOK, QueueOK, Runs, InTask, job, worker, Idle, None, Worker, Call,
     DestroyThis
<1>4. RunningOK'
  <2>1. \A j \in Jobs : Runs(main, j)' => Stage(main, j)'
    BY DEF IInv, TypeOK, RunningOK, Stage, Runs, InTask, WorkersOK, job, worker, Worker, DestroyThis
  <2>2. \A j \in Jobs : Runs(thread, j)' => Stage(thread, j)'
    BY DEF IInv, TypeOK, RunningOK, Stage, Runs, InTask, WorkersOK, None, job, worker, Worker,
       DestroyThis
  <2> QED
    BY <2>1, <2>2 DEF IInv, RunningOK, Runs, InTask, job, worker, DestroyThis
<1>5. CountsOK'
  BY <1>0, SameQueue DEF IInv, TypeOK, CountsOK, WorkersOK, CompatThreadOK, Runs, InTask, job,
     worker, Idle, None, Worker, Call, DestroyThis
<1>6. WorkersOK'
  BY <1>0 DEF IInv, TypeOK, RunningOK, WorkersOK, CompatThreadOK, Stopping, InTask, job, worker,
     Idle, None, Worker, Call, WorkerStates, DestroyThis
<1>7. CompatThreadOK'
  BY <1>0 DEF IInv, TypeOK, RunningOK, CountsOK, CompatThreadOK, Runs, InTask, job, worker, Idle,
     None, Worker, Call, Jobs, DestroyThis
<1> QED
  BY <1>1, <1>2, <1>3, <1>4, <1>5, <1>6, <1>7 DEF IInv

\* RunFrame preserves the invariant.
LEMMA RunFrameStep ==
  ASSUME IInv, RunFrame
  PROVE  IInv'
<1>0. UNCHANGED work_
  BY DEF RunFrame, worker
<1>1. TypeOK'
  <2>1. main' \in [pc : MainPCs, job : 0..NJobs, n : Nat, cancel : BOOLEAN,
                   ret : {"idle", "RunFrame", "Flush"}]
    BY IdleType DEF IInv, TypeOK, MainPCs, RunFrame
  <2> QED
    BY <2>1, ThreadAssumption DEF IInv, TypeOK, Jobs, None, WorkerStates, ThreadStates, ThreadPCs,
       worker, job, Call, RunFrame
<1>2. HistoryOK'
  BY DEF IInv, HistoryOK, job, RunFrame
<1>3. QueueOK'
  BY <1>0, SameQueue DEF IInv, TypeOK, QueueOK, Runs, InTask, job, worker, Idle, None, Worker, Call,
     RunFrame
<1>4. RunningOK'
  BY DEF IInv, TypeOK, RunningOK, Stage, Runs, InTask, job, worker, Idle, None, Worker, Call,
     RunFrame
<1>5. CountsOK'
  BY <1>0, SameQueue DEF IInv, TypeOK, CountsOK, WorkersOK, CompatThreadOK, Runs, InTask, job,
     worker, Idle, None, Worker, Call, RunFrame
<1>6. WorkersOK'
  BY <1>0 DEF IInv, TypeOK, RunningOK, WorkersOK, CompatThreadOK, Stopping, InTask, job, worker,
     Idle, None, Worker, Call, WorkerStates, RunFrame
<1>7. CompatThreadOK'
  BY <1>0 DEF IInv, TypeOK, RunningOK, CountsOK, CompatThreadOK, Runs, InTask, job, worker, Idle,
     None, Worker, Call, Jobs, RunFrame
<1> QED
  BY <1>1, <1>2, <1>3, <1>4, <1>5, <1>6, <1>7 DEF IInv

\* WaitTimeout preserves the invariant.
LEMMA WaitTimeoutStep ==
  ASSUME IInv, WaitTimeout
  PROVE  IInv'
<1>0. UNCHANGED work_
  BY DEF WaitTimeout, worker
<1>1. TypeOK'
  BY ThreadAssumption DEF IInv, TypeOK, Jobs, Idle, None, WorkerStates, ThreadStates, ThreadPCs,
     MainPCs, worker, job, Call, WaitTimeout
<1>2. HistoryOK'
  BY DEF IInv, HistoryOK, job, WaitTimeout
<1>3. QueueOK'
  BY <1>0, SameQueue DEF IInv, TypeOK, QueueOK, Runs, InTask, job, worker, Idle, None, Worker, Call,
     WaitTimeout
<1>4. RunningOK'
  BY DEF IInv, TypeOK, RunningOK, Stage, Runs, InTask, job, worker, Idle, None, Worker, Call,
     WaitTimeout
<1>5. CountsOK'
  BY <1>0, SameQueue DEF IInv, TypeOK, CountsOK, WorkersOK, CompatThreadOK, Runs, InTask, job,
     worker, Idle, None, Worker, Call, WaitTimeout
<1>6. WorkersOK'
  BY <1>0 DEF IInv, TypeOK, RunningOK, WorkersOK, CompatThreadOK, Stopping, InTask, job, worker,
     Idle, None, Worker, Call, WorkerStates, WaitTimeout
<1>7. CompatThreadOK'
  BY <1>0 DEF IInv, TypeOK, RunningOK, CountsOK, CompatThreadOK, Runs, InTask, job, worker, Idle,
     None, Worker, Call, Jobs, WaitTimeout
<1> QED
  BY <1>1, <1>2, <1>3, <1>4, <1>5, <1>6, <1>7 DEF IInv

\* OnWorkerStartReturns preserves the invariant.
LEMMA OnWorkerStartReturnsStep ==
  ASSUME IInv, OnWorkerStartReturns
  PROVE  IInv'
<1>0. UNCHANGED work_
  BY DEF OnWorkerStartReturns, worker
<1>1. TypeOK'
  BY ThreadAssumption DEF IInv, TypeOK, Jobs, Idle, None, WorkerStates, ThreadStates, ThreadPCs,
     MainPCs, worker, job, Call, OnWorkerStartReturns
<1>2. HistoryOK'
  BY DEF IInv, HistoryOK, job, OnWorkerStartReturns
<1>3. QueueOK'
  BY <1>0, SameQueue DEF IInv, TypeOK, QueueOK, Runs, InTask, job, worker, Idle, None, Worker, Call,
     OnWorkerStartReturns
<1>4. RunningOK'
  BY DEF IInv, TypeOK, RunningOK, Stage, Runs, InTask, job, worker, Idle, None, Worker, Call,
     OnWorkerStartReturns
<1>5. CountsOK'
  BY <1>0, SameQueue DEF IInv, TypeOK, CountsOK, WorkersOK, CompatThreadOK, Runs, InTask, job,
     worker, Idle, None, Worker, Call, OnWorkerStartReturns
<1>6. WorkersOK'
  BY <1>0 DEF IInv, TypeOK, RunningOK, WorkersOK, CompatThreadOK, Stopping, InTask, job, worker,
     Idle, None, Worker, Call, WorkerStates, OnWorkerStartReturns
<1>7. CompatThreadOK'
  BY <1>0 DEF IInv, TypeOK, RunningOK, CountsOK, CompatThreadOK, Runs, InTask, job, worker, Idle,
     None, Worker, Call, Jobs, OnWorkerStartReturns
<1> QED
  BY <1>1, <1>2, <1>3, <1>4, <1>5, <1>6, <1>7 DEF IInv

\* StopJoined preserves the invariant.
LEMMA StopJoinedStep ==
  ASSUME IInv, StopJoined
  PROVE  IInv'
<1>0. UNCHANGED work_
  BY DEF StopJoined, worker
<1>1. TypeOK'
  <2>1. main' \in [pc : MainPCs, job : 0..NJobs, n : Nat, cancel : BOOLEAN,
                   ret : {"idle", "RunFrame", "Flush"}]
    BY IdleType DEF IInv, TypeOK, MainPCs, StopJoined
  <2> QED
    BY <2>1, ThreadAssumption DEF IInv, TypeOK, Jobs, None, WorkerStates, ThreadStates, ThreadPCs,
       worker, job, Call, StopJoined
<1>2. HistoryOK'
  BY DEF IInv, HistoryOK, job, StopJoined
<1>3. QueueOK'
  BY <1>0, SameQueue DEF IInv, TypeOK, QueueOK, Runs, InTask, job, worker, Idle, None, Worker, Call,
     StopJoined
<1>4. RunningOK'
  BY DEF IInv, TypeOK, RunningOK, Stage, Runs, InTask, job, worker, Idle, None, Worker, Call,
     StopJoined
<1>5. CountsOK'
  BY <1>0, SameQueue DEF IInv, TypeOK, CountsOK, WorkersOK, CompatThreadOK, Runs, InTask, job,
     worker, Idle, None, Worker, Call, StopJoined
<1>6. WorkersOK'
  BY <1>0 DEF IInv, TypeOK, RunningOK, WorkersOK, CompatThreadOK, Stopping, InTask, job, worker,
     Idle, None, Worker, Call, WorkerStates, StopJoined
<1>7. CompatThreadOK'
  BY <1>0 DEF IInv, TypeOK, RunningOK, CountsOK, CompatThreadOK, Runs, InTask, job, worker, Idle,
     None, Worker, Call, Jobs, StopJoined
<1> QED
  BY <1>1, <1>2, <1>3, <1>4, <1>5, <1>6, <1>7 DEF IInv

\* OnWorkerStartDone preserves the invariant.
LEMMA OnWorkerStartDoneStep ==
  ASSUME IInv, OnWorkerStartDone
  PROVE  IInv'
<1>0. UNCHANGED work_
  BY DEF OnWorkerStartDone, worker
<1>1. TypeOK'
  BY ThreadAssumption DEF IInv, TypeOK, Jobs, Idle, None, WorkerStates, ThreadStates, ThreadPCs,
     MainPCs, worker, job, Call, OnWorkerStartDone
<1>2. HistoryOK'
  BY DEF IInv, HistoryOK, job, OnWorkerStartDone
<1>3. QueueOK'
  BY <1>0, SameQueue DEF IInv, TypeOK, QueueOK, Runs, InTask, job, worker, Idle, None, Worker, Call,
     OnWorkerStartDone
<1>4. RunningOK'
  BY DEF IInv, TypeOK, RunningOK, Stage, Runs, InTask, job, worker, Idle, None, Worker, Call,
     OnWorkerStartDone
<1>5. CountsOK'
  BY <1>0, SameQueue DEF IInv, TypeOK, CountsOK, WorkersOK, CompatThreadOK, Runs, InTask, job,
     worker, Idle, None, Worker, Call, OnWorkerStartDone
<1>6. WorkersOK'
  BY <1>0 DEF IInv, TypeOK, RunningOK, WorkersOK, CompatThreadOK, Stopping, InTask, job, worker,
     Idle, None, Worker, Call, WorkerStates, OnWorkerStartDone
<1>7. CompatThreadOK'
  BY <1>0 DEF IInv, TypeOK, RunningOK, CountsOK, CompatThreadOK, Runs, InTask, job, worker, Idle,
     None, Worker, Call, Jobs, OnWorkerStartDone
<1> QED
  BY <1>1, <1>2, <1>3, <1>4, <1>5, <1>6, <1>7 DEF IInv

\* WaitRecheck preserves the invariant.
LEMMA WaitRecheckStep ==
  ASSUME IInv, WaitRecheck
  PROVE  IInv'
<1>0. UNCHANGED work_
  BY DEF WaitRecheck, worker
<1>1. TypeOK'
  BY ThreadAssumption DEF IInv, TypeOK, Jobs, Idle, None, WorkerStates, ThreadStates, ThreadPCs,
     MainPCs, worker, job, Call, WaitRecheck
<1>2. HistoryOK'
  BY DEF IInv, HistoryOK, job, WaitRecheck
<1>3. QueueOK'
  BY <1>0, SameQueue DEF IInv, TypeOK, QueueOK, Runs, InTask, job, worker, Idle, None, Worker, Call,
     WaitRecheck
<1>4. RunningOK'
  BY DEF IInv, TypeOK, RunningOK, Stage, Runs, InTask, job, worker, Idle, None, Worker, Call,
     WaitRecheck
<1>5. CountsOK'
  BY <1>0, SameQueue DEF IInv, TypeOK, CountsOK, WorkersOK, CompatThreadOK, Runs, InTask, job,
     worker, Idle, None, Worker, Call, WaitRecheck
<1>6. WorkersOK'
  BY <1>0 DEF IInv, TypeOK, RunningOK, WorkersOK, CompatThreadOK, Stopping, InTask, job, worker,
     Idle, None, Worker, Call, WorkerStates, WaitRecheck
<1>7. CompatThreadOK'
  BY <1>0 DEF IInv, TypeOK, RunningOK, CountsOK, CompatThreadOK, Runs, InTask, job, worker, Idle,
     None, Worker, Call, Jobs, WaitRecheck
<1> QED
  BY <1>1, <1>2, <1>3, <1>4, <1>5, <1>6, <1>7 DEF IInv

\* WaitJoined preserves the invariant.
LEMMA WaitJoinedStep ==
  ASSUME IInv, WaitJoined
  PROVE  IInv'
<1>0. UNCHANGED work_
  BY DEF WaitJoined, worker
<1>1. TypeOK'
  BY ThreadAssumption DEF IInv, TypeOK, Jobs, Idle, None, WorkerStates, ThreadStates, ThreadPCs,
     MainPCs, worker, job, Call, WaitJoined
<1>2. HistoryOK'
  BY DEF IInv, HistoryOK, job, WaitJoined
<1>3. QueueOK'
  BY <1>0, SameQueue DEF IInv, TypeOK, QueueOK, Runs, InTask, job, worker, Idle, None, Worker, Call,
     WaitJoined
<1>4. RunningOK'
  BY DEF IInv, TypeOK, RunningOK, Stage, Runs, InTask, job, worker, Idle, None, Worker, Call,
     WaitJoined
<1>5. CountsOK'
  BY <1>0, SameQueue DEF IInv, TypeOK, CountsOK, WorkersOK, CompatThreadOK, Runs, InTask, job,
     worker, Idle, None, Worker, Call, WaitJoined
<1>6. WorkersOK'
  BY <1>0 DEF IInv, TypeOK, RunningOK, WorkersOK, CompatThreadOK, Stopping, InTask, job, worker,
     Idle, None, Worker, Call, WorkerStates, WaitJoined
<1>7. CompatThreadOK'
  BY <1>0 DEF IInv, TypeOK, RunningOK, CountsOK, CompatThreadOK, Runs, InTask, job, worker, Idle,
     None, Worker, Call, Jobs, WaitJoined
<1> QED
  BY <1>1, <1>2, <1>3, <1>4, <1>5, <1>6, <1>7 DEF IInv

-----------------------------------------------------------------------------
(* The steps of a task.                                                    *)

\* MakeThread preserves the invariant.
LEMMA MakeThreadStep ==
  ASSUME NEW b \in BOOLEAN, IInv, MakeThread(b)
  PROVE  IInv'
<1> PICK j \in Jobs : /\ handle[j] = "none"
                      /\ handle' = [handle EXCEPT ![j] = "alive"]
                      /\ autorelease' = [autorelease EXCEPT ![j] = b]
                      /\ work_' = Append(work_, j)
  BY DEF MakeThread
<1>a. ~Queued(j)
  BY DEF IInv, QueueOK
<1>b. /\ work_' \in Seq(Jobs) /\ work_' # <<>>
      /\ \A k \in Jobs : Queued(k)' <=> Queued(k) \/ k = j
      /\ \A i, k \in 1..Len(work_') : work_'[i] = work_'[k] => i = k
  BY <1>a, PushQueue DEF IInv
<1>c. /\ UNCHANGED <<kind, main, calls, state_, wait, work_in_frame, jobs_per_wakeup_, toCancel,
                     m_state, callbacks_, ran, ended>>
      /\ thread' = Notified /\ Worker /\ state_ # "Worker_Stopped"
  BY DEF MakeThread, Notify, Accepts
<1>d. /\ \A k \in Jobs : Runs(thread, k)' <=> Runs(thread, k)
      /\ InTask(thread)' <=> InTask(thread)
      /\ thread' \in [pc : ThreadPCs, job : 0..NJobs]
      /\ thread = None => thread' = None
      /\ InTask(thread) => thread' = thread
  BY SMTT(30), <1>c DEF IInv, TypeOK, Notified, Runs, InTask, None, ThreadPCs
<1>1. TypeOK'
  BY <1>b, <1>c, <1>d, ThreadAssumption DEF IInv, TypeOK, Jobs, Idle, None, WorkerStates,
     ThreadStates, ThreadPCs, MainPCs, worker, job, Call, Worker
<1>2. HistoryOK'
  BY <1>b, <1>c, <1>d DEF IInv, TypeOK, HistoryOK, job, Worker
<1>3. QueueOK'
  BY <1>b, <1>c, <1>d DEF IInv, TypeOK, QueueOK, CountsOK, Runs
<1>4. RunningOK'
  BY <1>b, <1>c, <1>d DEF IInv, TypeOK, RunningOK, CountsOK, Stage, Runs, InTask
<1>5. CountsOK'
  BY <1>b, <1>c, <1>d DEF IInv, TypeOK, CountsOK, Runs
<1>6. WorkersOK'
  BY <1>b, <1>c, <1>d DEF IInv, TypeOK, WorkersOK, Notified, Stopping, InTask, None, Worker
<1>7. CompatThreadOK'
  BY <1>b, <1>c, <1>d DEF CompatThreadOK, Worker
<1> QED
  BY <1>1, <1>2, <1>3, <1>4, <1>5, <1>6, <1>7 DEF IInv

\* What is known of the task that a thread takes from the queue.
LEMMA TakenTask ==
  ASSUME IInv, work_ # <<>>, work_' = PopFront
  PROVE  LET j == Head(work_) IN
         /\ j \in Jobs /\ j # 0 /\ handle[j] = "alive" /\ ran[j] = 0 /\ ended[j] = 0
         /\ ~Runs(main, j) /\ ~Runs(thread, j)
         /\ kind # "CompatThread"
         /\ \E i \in 1..Len(work_) : j = work_[i]
         /\ work_' \in Seq(Jobs)
         /\ \A k \in Jobs : Queued(k)' <=> Queued(k) /\ k # j
         /\ \A i, k \in 1..Len(work_') : work_'[i] = work_'[k] => i = k
         /\ \A k \in 1..Len(work_') : \E i \in 1..Len(work_) : work_'[k] = work_[i]
<1>1. /\ Head(work_) \in Jobs /\ Queued(Head(work_))
      /\ work_' \in Seq(Jobs)
      /\ \A k \in Jobs : Queued(k)' <=> Queued(k) /\ k # Head(work_)
      /\ \A i, k \in 1..Len(work_') : work_'[i] = work_'[k] => i = k
      /\ \A k \in 1..Len(work_') : \E i \in 1..Len(work_) : work_'[k] = work_[i]
  BY PopQueue DEF IInv
<1>2. kind # "CompatThread"
  BY DEF IInv, CompatThreadOK
<1>3. Head(work_) # 0
  BY <1>1, ThreadAssumption DEF Jobs
<1>4. \E i \in 1..Len(work_) : Head(work_) = work_[i]
  BY <1>1 DEF Queued
<1> QED
  BY <1>1, <1>2, <1>3, <1>4 DEF IInv, QueueOK

\* WorkerLoop preserves the invariant.
LEMMA WorkerLoopStep ==
  ASSUME IInv, WorkerLoop
  PROVE  IInv'
<1>a. /\ UNCHANGED <<kind, main, calls, state_, wait, work_in_frame, jobs_per_wakeup_, toCancel>>
      /\ thread.pc = "loop" /\ ~InTask(thread) /\ kind = "CompatWorker"
  BY ThreadAssumption DEF WorkerLoop, InTask, IInv, TypeOK, WorkersOK, CompatThreadOK, None
<1>1. CASE /\ UNCHANGED <<job, work_>>
           /\ \/ thread' = [thread EXCEPT !.pc = "exit"] /\ state_ = "Worker_Stopped" /\ work_ = <<>>
              \/ thread' = [thread EXCEPT !.pc = "wait"] /\ state_ # "Worker_Stopped"
              \/ thread' = [thread EXCEPT !.pc = "wait_until"] /\ state_ # "Worker_Stopped"
  <2>a. /\ ~InTask(thread)' /\ thread' \in [pc : ThreadPCs, job : 0..NJobs]
        /\ thread'.pc \in {"exit", "wait", "wait_until"}
        /\ thread'.pc = "exit" => state_ = "Worker_Stopped" /\ work_ = <<>>
        /\ thread'.pc # "exit" => state_ # "Worker_Stopped"
    BY <1>1, <1>a DEF IInv, TypeOK, InTask, ThreadPCs
  <2>b. /\ \A k \in Jobs : Queued(k)' <=> Queued(k)
        /\ \A i, k \in 1..Len(work_') : work_'[i] = work_'[k] => i = k
    BY <1>1, SameQueue DEF IInv
  <2>1. TypeOK'
    BY <1>1, <1>a, <2>a, <2>b DEF IInv, TypeOK, job
  <2>2. HistoryOK'
    BY <1>1, <1>a, <2>a, <2>b DEF IInv, TypeOK, HistoryOK, job
  <2>3. QueueOK'
    BY <1>1, <1>a, <2>a, <2>b DEF IInv, QueueOK, Runs, job
  <2>4. RunningOK'
    BY <1>1, <1>a, <2>a, <2>b DEF IInv, RunningOK, Runs, Stage, InTask, job
  <2>5. CountsOK'
    BY <1>1, <1>a, <2>a, <2>b DEF IInv, CountsOK, Runs, job
  <2>6. WorkersOK'
    BY <1>1, <1>a, <2>a, <2>b DEF IInv, WorkersOK, Stopping, InTask, None, job
  <2>7. CompatThreadOK'
    BY <1>a DEF CompatThreadOK
  <2> QED
    BY <2>1, <2>2, <2>3, <2>4, <2>5, <2>6, <2>7 DEF IInv
<1>2. CASE /\ work_ # <<>> /\ work_' = PopFront
           /\ thread' = [pc |-> "RunThread", job |-> Head(work_)]
           /\ BeginRun(Head(work_))
           /\ UNCHANGED <<handle, autorelease, callbacks_, ended>>
  <2> DEFINE j == Head(work_)
  <2>a. /\ j \in Jobs /\ j # 0 /\ handle[j] = "alive" /\ ran[j] = 0 /\ ended[j] = 0
        /\ ~Runs(main, j) /\ ~Runs(thread, j)
        /\ work_' \in Seq(Jobs)
        /\ \A k \in Jobs : Queued(k)' <=> Queued(k) /\ k # j
        /\ \A i, k \in 1..Len(work_') : work_'[i] = work_'[k] => i = k
    BY <1>2, TakenTask
  <2>b. /\ thread'.pc = "RunThread" /\ thread'.job = j /\ InTask(thread)'
        /\ \A k \in Jobs : Runs(thread, k)' <=> k = j
        /\ thread' \in [pc : ThreadPCs, job : 0..NJobs]
    BY <1>2, <2>a DEF Runs, InTask, ThreadPCs, Jobs
  <2>c. /\ m_state' = [m_state EXCEPT ![j] = "Thread_Running"]
        /\ ran' = [ran EXCEPT ![j] = @ + 1]
        /\ UNCHANGED <<handle, autorelease, callbacks_, ended>>
    BY <1>2 DEF BeginRun
  <2>d. ran' \in [Jobs -> Nat] /\ ran'[j] = 1 /\ \A k \in Jobs : k # j => ran'[k] = ran[k]
    BY <2>a, <2>c DEF IInv, HistoryOK
  <2> HIDE DEF j
  <2>1. TypeOK'
    BY <1>a, <2>a, <2>b, <2>c, <2>d DEF IInv, TypeOK, ThreadStates
  <2>2. HistoryOK'
    BY <1>a, <2>a, <2>b, <2>c, <2>d DEF IInv, HistoryOK
  <2>3. QueueOK'
    BY <1>a, <2>a, <2>b, <2>c, <2>d DEF IInv, QueueOK, Runs, InTask
  <2>4. RunningOK'
    BY <1>a, <2>a, <2>b, <2>c, <2>d DEF IInv, RunningOK, Runs, Stage, InTask
  <2>5. CountsOK'
    BY <1>a, <2>a, <2>b, <2>c, <2>d DEF IInv, CountsOK, Runs, InTask
  <2>6. WorkersOK'
    BY <1>a, <2>a, <2>b, <2>c, <2>d DEF IInv, WorkersOK, Stopping, InTask, None
  <2>7. CompatThreadOK'
    BY <1>a DEF CompatThreadOK
  <2> QED
    BY <2>1, <2>2, <2>3, <2>4, <2>5, <2>6, <2>7 DEF IInv
<1> QED
  BY <1>1, <1>2 DEF WorkerLoop, can_work, Drain

\* RunFrameNext preserves the invariant.
LEMMA RunFrameNextStep ==
  ASSUME IInv, RunFrameNext
  PROVE  IInv'
<1>a. /\ UNCHANGED <<kind, thread, calls, state_, wait, work_in_frame, jobs_per_wakeup_, toCancel>>
      /\ main.pc = "RunFrame" /\ ~InTask(main) /\ ~Stopping
  BY DEF RunFrameNext, InTask, Stopping
<1>1. CASE main' = Idle /\ UNCHANGED <<work_, job>>
  <2>a. ~InTask(main)' /\ ~Stopping' /\ main'.pc = "idle"
    BY <1>1 DEF Idle, InTask, Stopping
  <2>b. /\ \A k \in Jobs : Queued(k)' <=> Queued(k)
        /\ \A i, k \in 1..Len(work_') : work_'[i] = work_'[k] => i = k
    BY <1>1, SameQueue DEF IInv
  <2>1. TypeOK'
    BY <1>1, <1>a, <2>a, <2>b, IdleType DEF IInv, TypeOK, job
  <2>2. HistoryOK'
    BY <1>1, <1>a, <2>a, <2>b DEF IInv, HistoryOK, job
  <2>3. QueueOK'
    BY <1>1, <1>a, <2>a, <2>b DEF IInv, QueueOK, Runs, job
  <2>4. RunningOK'
    BY <1>1, <1>a, <2>a, <2>b DEF IInv, RunningOK, Runs, Stage, InTask, job
  <2>5. CountsOK'
    BY <1>1, <1>a, <2>a, <2>b DEF IInv, CountsOK, Runs, job
  <2>6. WorkersOK'
    BY <1>1, <1>a, <2>a, <2>b DEF IInv, WorkersOK, job
  <2>7. CompatThreadOK'
    BY <1>1, <1>a, <2>a, <2>b DEF IInv, CompatThreadOK, job
  <2> QED
    BY <2>1, <2>2, <2>3, <2>4, <2>5, <2>6, <2>7 DEF IInv
<1>2. CASE /\ work_ # <<>> /\ work_' = PopFront
           /\ main' = [main EXCEPT !.pc = "RunThread", !.job = Head(work_), !.n = @ + 1,
                                   !.ret = "RunFrame"]
           /\ BeginRun(Head(work_))
           /\ UNCHANGED <<handle, autorelease, callbacks_, ended>>
  <2> DEFINE j == Head(work_)
  <2>a. /\ j \in Jobs /\ j # 0 /\ handle[j] = "alive" /\ ran[j] = 0 /\ ended[j] = 0
        /\ ~Runs(main, j) /\ ~Runs(thread, j) /\ kind # "CompatThread"
        /\ work_' \in Seq(Jobs)
        /\ \A k \in Jobs : Queued(k)' <=> Queued(k) /\ k # j
        /\ \A i, k \in 1..Len(work_') : work_'[i] = work_'[k] => i = k
    BY <1>2, TakenTask
  <2>b. /\ main'.pc = "RunThread" /\ main'.job = j /\ main'.ret = "RunFrame"
        /\ main' \in [pc : MainPCs, job : 0..NJobs, n : Nat, cancel : BOOLEAN,
                      ret : {"idle", "RunFrame", "Flush"}]
    <3>1. main.n + 1 \in Nat /\ j \in 0..NJobs /\ "RunThread" \in MainPCs
      BY SMTT(30), <2>a, ThreadAssumption DEF IInv, TypeOK, Jobs, MainPCs
    <3>2. main' = [main EXCEPT !.pc = "RunThread", !.job = j, !.n = main.n + 1, !.ret = "RunFrame"]
      BY <1>2
    <3> HIDE DEF j
    <3> QED
      BY <3>1, <3>2 DEF IInv, TypeOK
  <2>c. InTask(main)' /\ ~Stopping' /\ \A k \in Jobs : Runs(main, k)' <=> k = j
    BY <2>b DEF Runs, InTask, Stopping
  <2>d. /\ m_state' = [m_state EXCEPT ![j] = "Thread_Running"]
        /\ ran' = [ran EXCEPT ![j] = @ + 1]
        /\ UNCHANGED <<handle, autorelease, callbacks_, ended>>
    BY <1>2 DEF BeginRun
  <2>e. ran' \in [Jobs -> Nat] /\ ran'[j] = 1 /\ \A k \in Jobs : k # j => ran'[k] = ran[k]
    BY <2>a, <2>d DEF IInv, HistoryOK
  <2>f. work_ # <<>> /\ state_ # "Worker_Stopped"
    BY <1>2, <1>a DEF IInv, WorkersOK
  <2> HIDE DEF j
  <2>1. TypeOK'
    BY <1>a, <2>a, <2>b, <2>c, <2>d, <2>e, <2>f DEF IInv, TypeOK, ThreadStates
  <2>2. HistoryOK'
    BY <1>a, <2>a, <2>b, <2>c, <2>d, <2>e, <2>f DEF IInv, HistoryOK
  <2>3. QueueOK'
    BY <1>a, <2>a, <2>b, <2>c, <2>d, <2>e, <2>f DEF IInv, QueueOK, Runs
  <2>4. RunningOK'
    BY <1>a, <2>a, <2>b, <2>c, <2>d, <2>e, <2>f DEF IInv, RunningOK, Runs, Stage
  <2>5. CountsOK'
    BY <1>a, <2>a, <2>b, <2>c, <2>d, <2>e, <2>f DEF IInv, CountsOK, Runs
  <2>6. WorkersOK'
    BY <1>a, <2>a, <2>b, <2>c, <2>d, <2>e, <2>f DEF IInv, WorkersOK
  <2>7. CompatThreadOK'
    BY <2>a, <1>a DEF CompatThreadOK
  <2> QED
    BY <2>1, <2>2, <2>3, <2>4, <2>5, <2>6, <2>7 DEF IInv
<1> QED
  BY <1>1, <1>2 DEF RunFrameNext

\* Flush preserves the invariant.
LEMMA FlushStep ==
  ASSUME IInv, Flush
  PROVE  IInv'
<1>a. /\ UNCHANGED <<kind, thread, calls, state_, wait, work_in_frame, jobs_per_wakeup_, toCancel>>
      /\ main.pc = "Flush" /\ ~InTask(main) /\ Stopping
      /\ kind # "CompatThread" /\ state_ = "Worker_Stopped"
  BY DEF Flush, InTask, Stopping, IInv, WorkersOK, CompatThreadOK
<1>b. thread = None
  BY <1>a, ThreadAssumption DEF IInv, TypeOK, WorkersOK
<1>1. CASE main' = Idle /\ UNCHANGED <<work_, job>> /\ work_ = <<>>
  <2>a. ~InTask(main)' /\ ~Stopping' /\ main'.pc = "idle"
    BY <1>1 DEF Idle, InTask, Stopping
  <2>b. /\ \A k \in Jobs : Queued(k)' <=> Queued(k)
        /\ \A i, k \in 1..Len(work_') : work_'[i] = work_'[k] => i = k
    BY <1>1, SameQueue DEF IInv
  <2>1. TypeOK'
    BY <1>1, <1>a, <1>b, <2>a, <2>b, IdleType DEF IInv, TypeOK, job
  <2>2. HistoryOK'
    BY <1>1, <1>a, <1>b, <2>a, <2>b DEF IInv, HistoryOK, job
  <2>3. QueueOK'
    BY <1>1, <1>a, <1>b, <2>a, <2>b DEF IInv, QueueOK, Runs, job
  <2>4. RunningOK'
    BY <1>1, <1>a, <1>b, <2>a, <2>b DEF IInv, RunningOK, Runs, Stage, InTask, job
  <2>5. CountsOK'
    BY <1>1, <1>a, <1>b, <2>a, <2>b DEF IInv, CountsOK, Runs, job
  <2>6. WorkersOK'
    BY <1>1, <1>a, <1>b, <2>a, <2>b DEF IInv, WorkersOK, job
  <2>7. CompatThreadOK'
    BY <1>1, <1>a, <1>b, <2>a, <2>b DEF IInv, CompatThreadOK, job
  <2> QED
    BY <2>1, <2>2, <2>3, <2>4, <2>5, <2>6, <2>7 DEF IInv
<1>2. CASE /\ work_ # <<>> /\ work_' = PopFront
           /\ main' = [main EXCEPT !.pc = IF main.cancel THEN "Done" ELSE "RunThread",
                                   !.job = Head(work_), !.ret = "Flush"]
           /\ m_state' = IF kind = "BaseWorker" THEN [m_state EXCEPT ![Head(work_)] = "Thread_Done"]
                         ELSE m_state
           /\ ran' = IF main.cancel THEN ran ELSE [ran EXCEPT ![Head(work_)] = @ + 1]
           /\ UNCHANGED <<handle, autorelease, callbacks_, ended>>
  <2> DEFINE j == Head(work_)
  <2>a. /\ j \in Jobs /\ j # 0 /\ handle[j] = "alive" /\ ran[j] = 0 /\ ended[j] = 0
        /\ ~Runs(main, j) /\ ~Runs(thread, j)
        /\ work_' \in Seq(Jobs)
        /\ \A k \in Jobs : Queued(k)' <=> Queued(k) /\ k # j
        /\ \A i, k \in 1..Len(work_') : work_'[i] = work_'[k] => i = k
        /\ \A k \in 1..Len(work_') : \E i \in 1..Len(work_) : work_'[k] = work_[i]
        /\ \E i \in 1..Len(work_) : j = work_[i]
    BY <1>2, TakenTask
  <2>b. kind = "BaseWorker" /\ (main.cancel => j \in toCancel)
    BY <1>2, <1>a, <2>a, ThreadAssumption DEF IInv, TypeOK, WorkersOK
  <2>c. /\ main'.pc = (IF main.cancel THEN "Done" ELSE "RunThread")
        /\ main'.job = j /\ main'.ret = "Flush" /\ main'.cancel = main.cancel
        /\ main' \in [pc : MainPCs, job : 0..NJobs, n : Nat, cancel : BOOLEAN,
                      ret : {"idle", "RunFrame", "Flush"}]
    <3> DEFINE p == IF main.cancel THEN "Done" ELSE "RunThread"
    <3>1. p \in MainPCs /\ j \in 0..NJobs
      BY <2>a, ThreadAssumption DEF Jobs, MainPCs
    <3>2. main' = [main EXCEPT !.pc = p, !.job = j, !.ret = "Flush"]
      BY <1>2
    <3>3. p = IF main.cancel THEN "Done" ELSE "RunThread"
      OBVIOUS
    <3> HIDE DEF j, p
    <3> QED
      BY <3>1, <3>2, <3>3 DEF IInv, TypeOK
  <2>d. /\ InTask(main)' /\ Stopping' /\ \A k \in Jobs : Runs(main, k)' <=> k = j
        /\ main'.pc \in {"Done", "RunThread"}
    BY <2>c DEF Runs, InTask, Stopping
  <2>e. /\ m_state' = [m_state EXCEPT ![j] = "Thread_Done"]
        /\ UNCHANGED <<handle, autorelease, callbacks_, ended>>
    BY <1>2, <2>b
  <2>f. /\ ran' \in [Jobs -> Nat] /\ \A k \in Jobs : k # j => ran'[k] = ran[k]
        /\ ran'[j] = IF main.cancel THEN 0 ELSE 1
    BY <1>2, <2>a DEF IInv, HistoryOK
  <2>g. \A k \in Jobs : Stage(main, k)' <=>
          /\ main'.pc = "RunThread" => ran'[k] = 1 /\ ended'[k] = 0
          /\ main'.pc = "Done" => ended'[k] = 0 /\ (ran'[k] = 0 => k \in toCancel')
          /\ main'.pc = "OnTerminate" => ended'[k] = 1
          /\ (main'.pc # "OnTerminate" \/ autorelease'[k] \/ kind' # "CompatWorker") => handle'[k] = "alive"
    BY DEF Stage
  <2> HIDE DEF j
  <2>1. TypeOK'
    BY <1>a, <1>b, <2>a, <2>b, <2>c, <2>d, <2>e, <2>f DEF IInv, TypeOK, ThreadStates
  <2>2. HistoryOK'
    BY <1>a, <1>b, <2>a, <2>b, <2>c, <2>d, <2>e, <2>f DEF IInv, HistoryOK
  <2>3. QueueOK'
    BY <1>a, <1>b, <2>a, <2>b, <2>c, <2>d, <2>e, <2>f DEF IInv, QueueOK, Runs
  <2>4. RunningOK'
    BY <1>a, <1>b, <2>a, <2>b, <2>c, <2>d, <2>e, <2>f, <2>g DEF IInv, RunningOK, Runs, InTask, None
  <2>5. CountsOK'
    BY <1>a, <1>b, <2>a, <2>b, <2>c, <2>d, <2>e, <2>f DEF IInv, CountsOK, Runs, InTask, None
  <2>6. WorkersOK'
    BY <1>a, <1>b, <2>a, <2>b, <2>c, <2>d, <2>e, <2>f DEF IInv, WorkersOK
  <2>7. CompatThreadOK'
    BY <1>a DEF CompatThreadOK
  <2> QED
    BY <2>1, <2>2, <2>3, <2>4, <2>5, <2>6, <2>7 DEF IInv
<1> QED
  BY <1>1, <1>2 DEF Flush

\* What one step of a task does to the task of x and to no other.
LEMMA TaskEffect ==
  ASSUME IInv, NEW x \in {main, thread}, TaskStep(x)
  PROVE  /\ x.job \in Jobs /\ Runs(x, x.job) /\ Stage(x, x.job)
         /\ UNCHANGED <<autorelease, callbacks_, ran>>
         /\ handle' \in [Jobs -> {"none", "alive", "deleted"}]
         /\ m_state' \in [Jobs -> ThreadStates] /\ ended' \in [Jobs -> Nat]
         /\ \A k \in Jobs : k # x.job => handle'[k] = handle[k] /\ ended'[k] = ended[k]
         /\ x.pc # "Done" => ended' = ended
         /\ x.pc = "Done" => ended'[x.job] = 1
         /\ x.pc # "OnTerminate" => handle' = handle
         /\ x.pc = "OnTerminate" =>
              handle'[x.job] = IF autorelease[x.job] THEN "deleted" ELSE handle[x.job]
<1>1. InTask(x) /\ x.job \in Jobs
  BY ThreadAssumption DEF TaskStep, IInv, TypeOK, RunningOK, Jobs
<1>2. Runs(x, x.job) /\ Stage(x, x.job)
  BY <1>1 DEF IInv, RunningOK, Runs
<1>3. UNCHANGED <<autorelease, callbacks_, ran>>
  BY DEF TaskStep
<1>4. m_state' \in [Jobs -> ThreadStates]
  BY <1>1 DEF TaskStep, EndRun, IInv, TypeOK, ThreadStates
<1>5. /\ ended' \in [Jobs -> Nat]
      /\ \A k \in Jobs : k # x.job => ended'[k] = ended[k]
      /\ x.pc # "Done" => ended' = ended
      /\ x.pc = "Done" => ended'[x.job] = 1
  BY <1>1, <1>2 DEF TaskStep, CallOnTerminate, IInv, HistoryOK, Stage
<1>6. x.pc # "OnTerminate" => handle' = handle
  BY DEF TaskStep, CallOnTerminate
<1>7. ASSUME x.pc = "OnTerminate"
      PROVE  /\ handle' \in [Jobs -> {"none", "alive", "deleted"}]
             /\ \A k \in Jobs : k # x.job => handle'[k] = handle[k]
             /\ handle'[x.job] = IF autorelease[x.job] THEN "deleted" ELSE handle[x.job]
  <2>1. handle' = IF autorelease[x.job] THEN Deleted(x.job) ELSE handle
    BY <1>7 DEF TaskStep, Release
  <2>2. autorelease[x.job] => handle[x.job] = "alive"
    BY <1>2 DEF Stage
  <2> QED
    BY <1>1, <2>1, <2>2 DEF Deleted, IInv, TypeOK
<1> QED
  BY <1>1, <1>2, <1>3, <1>4, <1>5, <1>6, <1>7 DEF IInv, TypeOK

\* MainTask preserves the invariant.
LEMMA MainTaskStep ==
  ASSUME IInv, MainTask
  PROVE  IInv'
<1>0. PICK j \in Jobs : j = main.job
  BY TaskEffect DEF MainTask
<1>a. /\ j \in Jobs /\ Runs(main, j) /\ Stage(main, j)
      /\ UNCHANGED <<autorelease, callbacks_, ran>>
      /\ handle' \in [Jobs -> {"none", "alive", "deleted"}]
      /\ m_state' \in [Jobs -> ThreadStates] /\ ended' \in [Jobs -> Nat]
      /\ \A k \in Jobs : k # j => handle'[k] = handle[k] /\ ended'[k] = ended[k]
      /\ main.pc # "Done" => ended' = ended
      /\ main.pc = "Done" => ended'[j] = 1
      /\ main.pc # "OnTerminate" => handle' = handle
      /\ main.pc = "OnTerminate" => handle'[j] = IF autorelease[j] THEN "deleted" ELSE handle[j]
  BY <1>0, TaskEffect DEF MainTask
<1>b. /\ InTask(main) /\ j # 0 /\ main.ret \in {"RunFrame", "Flush"} /\ kind # "CompatThread"
      /\ UNCHANGED <<kind, thread, calls, worker>> /\ ~Runs(thread, j)
  BY <1>0, <1>a DEF MainTask, IInv, TypeOK, RunningOK, Runs
<1>c. /\ \/ main.pc = "RunThread" /\ main'.pc = "Done"
         \/ main.pc = "Done" /\ main'.pc = "OnTerminate"
         \/ main.pc = "OnTerminate" /\ main'.pc = main.ret
      /\ main'.job = j /\ main'.ret = main.ret /\ main'.cancel = main.cancel
      /\ main' \in [pc : MainPCs, job : 0..NJobs, n : Nat, cancel : BOOLEAN,
                    ret : {"idle", "RunFrame", "Flush"}]
  <2> DEFINE p == NextPC(main, main.ret)
  <2>1. /\ p \in MainPCs
        /\ \/ main.pc = "RunThread" /\ p = "Done"
           \/ main.pc = "Done" /\ p = "OnTerminate"
           \/ main.pc = "OnTerminate" /\ p = main.ret
    BY <1>b DEF NextPC, InTask, MainPCs
  <2>2. main' = [main EXCEPT !.pc = p]
    BY DEF MainTask
  <2> HIDE DEF p
  <2> QED
    BY <1>0, <2>1, <2>2 DEF IInv, TypeOK
<1>d. /\ InTask(main)' <=> main.pc # "OnTerminate"
      /\ \A k \in Jobs : Runs(main, k)' <=> k = j /\ main.pc # "OnTerminate"
      /\ Stopping' <=> Stopping
  BY <1>0, <1>b, <1>c DEF InTask, Runs, Stopping
<1>e. /\ UNCHANGED work_
      /\ \A k \in Jobs : Queued(k)' <=> Queued(k)
      /\ \A i, k \in 1..Len(work_') : work_'[i] = work_'[k] => i = k
  BY <1>b, SameQueue DEF IInv, worker
<1>f. main.pc # "OnTerminate" => Stage(main, j)'
  BY <1>a, <1>b, <1>c DEF Stage, InTask, worker, IInv, CountsOK, HistoryOK
<1>g. main.pc = "OnTerminate" => ended[j] = 1 /\ (ran[j] = 0 => j \in toCancel)
  BY <1>a DEF Stage, IInv, CountsOK
<1>h. /\ \A k \in Jobs : k # j => (Stage(thread, k)' <=> Stage(thread, k))
      /\ \A k \in Jobs : Runs(thread, k)' <=> Runs(thread, k)
      /\ InTask(thread)' <=> InTask(thread)
      /\ thread' = thread
  BY <1>a, <1>b DEF Stage, Runs, InTask, worker
<1>1. TypeOK'
  BY <1>0, <1>a, <1>b, <1>c, <1>d, <1>e DEF IInv, TypeOK, worker
<1>2. HistoryOK'
  BY <1>a DEF IInv, HistoryOK
<1>3. QueueOK'
  BY <1>0, <1>a, <1>b, <1>c, <1>d, <1>e DEF IInv, QueueOK, Runs, Stage, InTask
<1>4. RunningOK'
  BY <1>0, <1>a, <1>b, <1>c, <1>d, <1>e, <1>f, <1>h DEF IInv, RunningOK
<1>5. CountsOK'
  BY <1>0, <1>a, <1>b, <1>c, <1>d, <1>e, <1>g DEF IInv, CountsOK, Runs, Stage, InTask, worker
<1>6. WorkersOK'
  BY <1>0, <1>a, <1>b, <1>c, <1>d, <1>e DEF IInv, WorkersOK, worker, InTask
<1>7. CompatThreadOK'
  BY <1>b DEF CompatThreadOK
<1> QED
  BY <1>1, <1>2, <1>3, <1>4, <1>5, <1>6, <1>7 DEF IInv

\* WorkerTask preserves the invariant.
LEMMA WorkerTaskStep ==
  ASSUME IInv, WorkerTask
  PROVE  IInv'
<1>0. PICK j \in Jobs : j = thread.job
  BY TaskEffect DEF WorkerTask
<1>a. /\ j \in Jobs /\ Runs(thread, j) /\ Stage(thread, j)
      /\ UNCHANGED <<autorelease, callbacks_, ran>>
      /\ handle' \in [Jobs -> {"none", "alive", "deleted"}]
      /\ m_state' \in [Jobs -> ThreadStates] /\ ended' \in [Jobs -> Nat]
      /\ \A k \in Jobs : k # j => handle'[k] = handle[k] /\ ended'[k] = ended[k]
      /\ thread.pc # "Done" => ended' = ended
      /\ thread.pc = "Done" => ended'[j] = 1
      /\ thread.pc # "OnTerminate" => handle' = handle
      /\ thread.pc = "OnTerminate" => handle'[j] = IF autorelease[j] THEN "deleted" ELSE handle[j]
  BY <1>0, TaskEffect DEF WorkerTask
<1>b. /\ InTask(thread) /\ j # 0 /\ kind = "CompatWorker"
      /\ UNCHANGED <<kind, main, calls, state_, work_, jobs_per_wakeup_, toCancel>> /\ ~Runs(main, j)
  BY <1>0, <1>a DEF WorkerTask, IInv, TypeOK, RunningOK, Runs
<1>c. /\ \/ thread.pc = "RunThread" /\ thread'.pc = "Done"
         \/ thread.pc = "Done" /\ thread'.pc = "OnTerminate"
         \/ thread.pc = "OnTerminate" /\ thread'.pc = "loop"
      /\ thread'.job = j
      /\ thread' \in [pc : ThreadPCs, job : 0..NJobs]
  <2> DEFINE p == NextPC(thread, "loop")
  <2>1. /\ p \in ThreadPCs
        /\ \/ thread.pc = "RunThread" /\ p = "Done"
           \/ thread.pc = "Done" /\ p = "OnTerminate"
           \/ thread.pc = "OnTerminate" /\ p = "loop"
    BY <1>b DEF NextPC, InTask, ThreadPCs
  <2>2. thread' = [thread EXCEPT !.pc = p]
    BY DEF WorkerTask
  <2> HIDE DEF p
  <2> QED
    BY <1>0, <2>1, <2>2 DEF IInv, TypeOK
<1>d. /\ InTask(thread)' <=> thread.pc # "OnTerminate"
      /\ \A k \in Jobs : Runs(thread, k)' <=> k = j /\ thread.pc # "OnTerminate"
      /\ thread' # None /\ thread # None
  BY <1>0, <1>b, <1>c DEF InTask, Runs, None
<1>e. /\ \A k \in Jobs : Queued(k)' <=> Queued(k)
      /\ \A i, k \in 1..Len(work_') : work_'[i] = work_'[k] => i = k
  BY <1>b, SameQueue DEF IInv
<1>f. thread.pc # "OnTerminate" => Stage(thread, j)'
  BY <1>a, <1>b, <1>c DEF Stage, InTask, IInv, CountsOK, HistoryOK
<1>g. thread.pc = "OnTerminate" => ended[j] = 1 /\ (ran[j] = 0 => j \in toCancel)
  BY <1>a DEF Stage, IInv, CountsOK
<1>h. /\ \A k \in Jobs : k # j => (Stage(main, k)' <=> Stage(main, k))
      /\ \A k \in Jobs : Runs(main, k)' <=> Runs(main, k)
      /\ InTask(main)' <=> InTask(main)
      /\ main' = main
  BY <1>a, <1>b DEF Stage, Runs, InTask
<1>i. work_in_frame' \in Nat
  BY DEF WorkerTask, IInv, TypeOK
<1>k. wait' \in BOOLEAN
  BY DEF WorkerTask, IInv, TypeOK
<1>1. TypeOK'
  BY <1>0, <1>a, <1>b, <1>c, <1>d, <1>e, <1>i, <1>k DEF IInv, TypeOK
<1>2. HistoryOK'
  BY <1>a DEF IInv, HistoryOK
<1>3. QueueOK'
  BY SMTT(20), <1>0, <1>a, <1>b, <1>c, <1>d, <1>e DEF IInv, QueueOK, Runs, Stage, InTask
<1>4. RunningOK'
  BY <1>0, <1>a, <1>b, <1>c, <1>d, <1>e, <1>f, <1>h DEF IInv, RunningOK
<1>5. CountsOK'
  BY <1>0, <1>a, <1>b, <1>c, <1>d, <1>e, <1>g DEF IInv, CountsOK, Runs, Stage, InTask
<1>6. WorkersOK'
  BY <1>0, <1>a, <1>b, <1>c, <1>d, <1>e DEF IInv, WorkersOK, Stopping, InTask
<1>7. CompatThreadOK'
  BY <1>b DEF CompatThreadOK
<1> QED
  BY <1>1, <1>2, <1>3, <1>4, <1>5, <1>6, <1>7 DEF IInv

-----------------------------------------------------------------------------
(* The thread of a CompatThread.                                           *)

\* ThreadRun preserves the invariant.
LEMMA ThreadRunStep ==
  ASSUME IInv, ThreadRun
  PROVE  IInv'
<1>a. /\ kind = "CompatThread" /\ 1 \in Jobs
      /\ UNCHANGED <<kind, main, calls, worker>>
      /\ work_ = <<>> /\ state_ = "Worker_Stopped" /\ ~InTask(main)
  <2>1. kind = "CompatThread" /\ UNCHANGED <<kind, main, calls, worker>>
    BY DEF ThreadRun
  <2>2. 1 \in Jobs
    BY ThreadAssumption DEF Jobs
  <2> QED
    BY <2>1, <2>2 DEF IInv, CompatThreadOK, InTask
<1>b. /\ \A k \in Jobs : Queued(k)' <=> Queued(k)
      /\ \A i, k \in 1..Len(work_') : work_'[i] = work_'[k] => i = k
      /\ UNCHANGED work_
  BY <1>a, SameQueue DEF IInv, worker
<1>c. \A k \in Jobs : ~Queued(k) /\ ~Runs(main, k)
  BY <1>a DEF Queued, Runs
<1>1. CASE /\ thread.pc = "Run"
           /\ thread' = [thread EXCEPT !.pc = "RunThread"]
           /\ ran' = [ran EXCEPT ![1] = @ + 1]
           /\ UNCHANGED <<handle, autorelease, m_state, callbacks_, ended>>
  <2>a. /\ thread.job = 1 /\ handle[1] = "alive" /\ ran[1] = 0 /\ ended[1] = 0 /\ callbacks_
        /\ thread'.pc = "RunThread" /\ thread'.job = 1
        /\ thread' \in [pc : ThreadPCs, job : 0..NJobs]
    BY <1>1, <1>a DEF IInv, TypeOK, CompatThreadOK, ThreadPCs
  <2>b. ran' \in [Jobs -> Nat] /\ ran'[1] = 1 /\ \A k \in Jobs : k # 1 => ran'[k] = ran[k]
    BY <1>1, <1>a, <2>a DEF IInv, HistoryOK
  <2>c. /\ InTask(thread)' /\ ~InTask(thread) /\ thread' # None /\ thread # None
        /\ \A k \in Jobs : Runs(thread, k)' <=> k = 1
    BY <1>1, <2>a DEF InTask, Runs, None
  <2>1. TypeOK'
    BY <1>1, <1>a, <1>b, <1>c, <2>a, <2>b, <2>c DEF IInv, TypeOK, worker
  <2>2. HistoryOK'
    BY <1>1, <1>a, <1>b, <1>c, <2>a, <2>b, <2>c DEF IInv, HistoryOK
  <2>3. QueueOK'
    BY <1>1, <1>a, <1>b, <1>c, <2>a, <2>b, <2>c DEF IInv, QueueOK, Runs
  <2>4. RunningOK'
    BY <1>1, <1>a, <1>b, <1>c, <2>a, <2>b, <2>c DEF IInv, RunningOK, Runs, Stage, InTask, worker
  <2>5. CountsOK'
    BY <1>1, <1>a, <1>b, <1>c, <2>a, <2>b, <2>c DEF IInv, CountsOK, Runs, worker
  <2>6. WorkersOK'
    BY <1>1, <1>a, <1>b, <1>c, <2>a, <2>b, <2>c DEF IInv, WorkersOK, Stopping, InTask, worker
  <2>7. CompatThreadOK'
    BY <1>1, <1>a, <1>b, <1>c, <2>a, <2>b, <2>c DEF IInv, CompatThreadOK, InTask, worker
  <2> QED
    BY <2>1, <2>2, <2>3, <2>4, <2>5, <2>6, <2>7 DEF IInv
<1>2. CASE /\ thread.pc \in {"RunThread", "Done"}
           /\ TaskStep(thread)
           /\ thread' = [thread EXCEPT !.pc = NextPC(thread, "")]
  <2>a. thread.job = 1 /\ callbacks_ /\ InTask(thread) /\ thread # None
    <3>1. InTask(thread) /\ thread.pc # "none"
      BY <1>2 DEF InTask
    <3> QED
      BY <3>1, <1>a DEF IInv, CompatThreadOK, None
  <2>b. /\ Runs(thread, 1) /\ Stage(thread, 1)
        /\ UNCHANGED <<autorelease, callbacks_, ran, handle>>
        /\ m_state' \in [Jobs -> ThreadStates] /\ ended' \in [Jobs -> Nat]
        /\ \A k \in Jobs : k # 1 => ended'[k] = ended[k]
        /\ thread.pc # "Done" => ended' = ended
        /\ thread.pc = "Done" => ended'[1] = 1
    BY <1>2, <2>a, TaskEffect
  <2>c. /\ \/ thread.pc = "RunThread" /\ thread'.pc = "Done"
           \/ thread.pc = "Done" /\ thread'.pc = "OnTerminate"
        /\ thread'.job = 1
        /\ thread' \in [pc : ThreadPCs, job : 0..NJobs]
    BY <1>2, <2>a DEF NextPC, IInv, TypeOK, ThreadPCs
  <2>d. /\ InTask(thread)' /\ thread' # None
        /\ \A k \in Jobs : Runs(thread, k)' <=> k = 1
        /\ Stage(thread, 1)'
    BY <1>a, <2>a, <2>b, <2>c DEF InTask, Runs, None, Stage, worker
  <2>1. TypeOK'
    BY <1>2, <1>a, <1>b, <1>c, <2>a, <2>b, <2>c, <2>d DEF IInv, TypeOK, worker
  <2>2. HistoryOK'
    BY <1>2, <1>a, <1>b, <1>c, <2>a, <2>b, <2>c, <2>d DEF IInv, HistoryOK
  <2>3. QueueOK'
    BY <1>2, <1>a, <1>b, <1>c, <2>a, <2>b, <2>c, <2>d DEF IInv, QueueOK, Runs
  <2>4. RunningOK'
    BY <1>2, <1>a, <1>b, <1>c, <2>a, <2>b, <2>c, <2>d DEF IInv, RunningOK, Runs, InTask
  <2>5. CountsOK'
    BY ZenonT(60), <1>2, <1>a, <1>b, <1>c, <2>a, <2>b, <2>c, <2>d DEF IInv, CountsOK, Runs, Stage, worker
  <2>6. WorkersOK'
    BY <1>2, <1>a, <1>b, <1>c, <2>a, <2>b, <2>c, <2>d DEF IInv, WorkersOK, Stopping, InTask, worker
  <2>7. CompatThreadOK'
    BY <1>2, <1>a, <1>b, <1>c, <2>a, <2>b, <2>c, <2>d DEF IInv, CompatThreadOK, worker
  <2> QED
    BY <2>1, <2>2, <2>3, <2>4, <2>5, <2>6, <2>7 DEF IInv
<1> QED
  BY <1>1, <1>2 DEF ThreadRun

\* ThreadEnd preserves the invariant.
LEMMA ThreadEndStep ==
  ASSUME IInv, ThreadEnd
  PROVE  IInv'
<1>a. /\ kind = "CompatThread" /\ 1 \in Jobs /\ thread.pc = "OnTerminate" /\ thread.job = 1
      /\ UNCHANGED <<kind, calls, worker, autorelease, m_state, ran, ended>>
      /\ work_ = <<>> /\ state_ = "Worker_Stopped" /\ ~InTask(main) /\ InTask(thread)
  BY ThreadAssumption DEF ThreadEnd, IInv, CompatThreadOK, Jobs, InTask
<1>b. /\ \A k \in Jobs : Queued(k)' <=> Queued(k)
      /\ \A i, k \in 1..Len(work_') : work_'[i] = work_'[k] => i = k
      /\ UNCHANGED work_
  BY <1>a, SameQueue DEF IInv, worker
<1>c. \A k \in Jobs : ~Queued(k) /\ ~Runs(main, k)
  BY <1>a DEF Queued, Runs
<1>d. handle[1] = "alive" /\ ended[1] = 1
  BY <1>a DEF IInv, RunningOK, Runs, Stage
<1>e. /\ thread'.pc = IF autorelease[1] THEN "detached" ELSE "exit"
      /\ thread'.job = 1 /\ thread' \in [pc : ThreadPCs, job : 0..NJobs]
  BY <1>a DEF ThreadEnd, IInv, TypeOK, ThreadPCs
<1>f. /\ handle' \in [Jobs -> {"none", "alive", "deleted"}]
      /\ handle'[1] = IF autorelease[1] THEN "deleted" ELSE "alive"
      /\ \A k \in Jobs : k # 1 => handle'[k] = handle[k]
  BY <1>a, <1>d DEF ThreadEnd, Deleted, IInv, TypeOK
<1>g. /\ main' \in [pc : MainPCs, job : 0..NJobs, n : Nat, cancel : BOOLEAN,
                    ret : {"idle", "RunFrame", "Flush"}]
      /\ autorelease[1] => main' = main
      /\ main.pc # "cond" => main' = main
      /\ main.pc = "cond" => main'.pc \in {"cond", "recheck"}
      /\ main'.job = main.job
  BY DEF ThreadEnd, Check, IInv, TypeOK, MainPCs
<1>h. callbacks_' \in BOOLEAN /\ (~autorelease[1] => ~callbacks_')
  BY DEF ThreadEnd, IInv, TypeOK
<1>i. /\ ~InTask(thread)' /\ ~InTask(main)' /\ thread' # None /\ thread # None
      /\ \A k \in Jobs : ~Runs(thread, k)' /\ ~Runs(main, k)'
  BY <1>a, <1>e, <1>g DEF InTask, Runs, None
<1>1. TypeOK'
  BY <1>a, <1>b, <1>c, <1>d, <1>e, <1>f, <1>g, <1>h, <1>i DEF IInv, TypeOK, worker
<1>2. HistoryOK'
  BY <1>a, <1>b, <1>c, <1>d, <1>e, <1>f, <1>g, <1>h, <1>i DEF IInv, HistoryOK
<1>3. QueueOK'
  BY <1>a, <1>b, <1>c, <1>d, <1>e, <1>f, <1>g, <1>h, <1>i DEF IInv, QueueOK, Runs
<1>4. RunningOK'
  BY <1>a, <1>b, <1>c, <1>d, <1>e, <1>f, <1>g, <1>h, <1>i DEF IInv, RunningOK
<1>5. CountsOK'
  BY <1>a, <1>b, <1>c, <1>d, <1>e, <1>f, <1>g, <1>h, <1>i DEF IInv, CountsOK, worker
<1>6. WorkersOK'
  BY <1>a, <1>b, <1>c, <1>d, <1>e, <1>f, <1>g, <1>h, <1>i DEF IInv, WorkersOK, Stopping, InTask,
     worker
<1>7. CompatThreadOK'
  BY <1>a, <1>b, <1>c, <1>d, <1>e, <1>f, <1>g, <1>h, <1>i DEF IInv, CompatThreadOK, worker
<1> QED
  BY <1>1, <1>2, <1>3, <1>4, <1>5, <1>6, <1>7 DEF IInv

-----------------------------------------------------------------------------
(* The invariant and what follows from it.                                 *)

\* A new worker or thread has no task.
LEMMA InitInv == Init => IInv
<1> SUFFICES ASSUME Init PROVE IInv
  OBVIOUS
<1>1. TypeOK
  <2>1. thread \in [pc : ThreadPCs, job : 0..NJobs]
    BY ThreadAssumption DEF Init, None, ThreadPCs
  <2>2. work_ \in Seq(Jobs) /\ calls \in 0..MaxCalls /\ m_state \in [Jobs -> ThreadStates]
    BY ThreadAssumption DEF Init, ThreadStates
  <2> QED
    BY <2>1, <2>2, IdleType DEF Init, TypeOK, WorkerStates
<1>2. HistoryOK
  BY DEF Init, HistoryOK
<1>3. QueueOK
  BY DEF Init, QueueOK, Queued
<1>4. RunningOK
  BY DEF Init, RunningOK, Runs, InTask, Idle, None
<1>5. CountsOK
  BY DEF Init, CountsOK, Runs, InTask, Idle, None
<1>6. WorkersOK
  BY DEF Init, WorkersOK, Stopping, InTask, Idle, None
<1>7. CompatThreadOK
  BY ThreadAssumption DEF Init, CompatThreadOK, InTask, Idle, None, Jobs
<1> QED
  BY <1>1, <1>2, <1>3, <1>4, <1>5, <1>6, <1>7 DEF IInv

\* Every step of the client and of the two threads keeps the invariant.
LEMMA NextInv == IInv /\ [Next]_vars => IInv'
<1> SUFFICES ASSUME IInv, [Next]_vars PROVE IInv'
  OBVIOUS
<1>1. CASE ClientCall
  BY <1>1, StartStep, PauseStep, UnpauseStep, UnpauseThreadStep, WaitForThreadStep,
     DestroyThreadStep, MakeThreadStep, StopStep, MakeCompatThreadStep,
     SetMaxThreadsPerFrameStep, DestroyThisStep DEF ClientCall
<1>2. CASE RunFrame
  BY <1>2, RunFrameStep
<1>3. CASE ThreadNext
  BY <1>3, WorkerLoopStep, WaitTimeoutStep, WorkerTaskStep, OnWorkerStartReturnsStep,
     ThreadRunStep, ThreadEndStep DEF ThreadNext
<1>4. CASE MainNext
  BY <1>4, StopJoinedStep, FlushStep, RunFrameNextStep, MainTaskStep, OnWorkerStartDoneStep,
     WaitRecheckStep, WaitJoinedStep DEF MainNext
<1>5. CASE UNCHANGED vars
  BY <1>5 DEF vars, worker, job, IInv, TypeOK, HistoryOK, QueueOK, RunningOK, CountsOK, WorkersOK,
     CompatThreadOK, Stopping, Stage, Runs, InTask, Queued
<1> QED
  BY <1>1, <1>2, <1>3, <1>4, <1>5 DEF Next

\* In every reachable state each task is in the queue once, in one thread or
\* over; a thread exits and Stop flushes only on an empty queue; and a
\* CompatThread's object lives as long as its thread uses it.
THEOREM Invariance == Spec => []IInv
  BY InitInv, NextInv, PTL DEF Spec

\* However the worker's thread and RunFrame interleave, a task runs at most
\* once and ends at most once, in one thread, and ends without having run
\* only if the client cancelled it.
THEOREM TasksOnce == Spec => []TaskOnce
<1>1. IInv => TaskOnce
  BY DEF IInv, QueueOK, RunningOK, CountsOK, TaskOnce
<1> QED
  BY <1>1, Invariance, PTL

\* No queue, worker, thread or waiter touches a handle after its delete.
THEOREM HandlesOutliveUse == Spec => []NoUseAfterFree
<1>1. IInv => NoUseAfterFree
  <2> SUFFICES ASSUME IInv, NEW j \in Jobs
               PROVE  /\ Queued(j) => handle[j] = "alive"
                      /\ \A x \in {main, thread} :
                           Runs(x, j) /\ (x.pc # "OnTerminate" \/ autorelease[j] \/ kind # "CompatWorker")
                             => handle[j] = "alive"
                      /\ kind = "CompatThread" /\ thread.pc \in {"Run", "exit"} => handle[1] = "alive"
                      /\ main.pc \in {"cond", "recheck"} => handle[1] = "alive"
    BY DEF NoUseAfterFree
  <2>1. Queued(j) => handle[j] = "alive"
    BY DEF IInv, QueueOK
  <2>2. \A x \in {main, thread} :
          Runs(x, j) /\ (x.pc # "OnTerminate" \/ autorelease[j] \/ kind # "CompatWorker")
            => handle[j] = "alive"
    BY DEF IInv, RunningOK, Stage
  <2>3. kind = "CompatThread" /\ thread.pc \in {"Run", "exit"} => handle[1] = "alive"
    BY DEF IInv, CompatThreadOK
  <2>4. main.pc \in {"cond", "recheck"} => handle[1] = "alive"
    BY DEF IInv, CompatThreadOK, WorkersOK
  <2> QED
    BY <2>1, <2>2, <2>3, <2>4
<1> QED
  BY <1>1, Invariance, PTL

\* Stop returns with the thread joined, the queue empty and every task ended,
\* and the Flush of a CompatWorker cancels nothing it was not asked to cancel.
THEOREM StopLeavesNothing == Spec => []StopOK
<1>1. IInv => StopOK
  <2> SUFFICES ASSUME IInv PROVE StopOK
    OBVIOUS
  <2>1. FlushCancelsAsked
    BY DEF IInv, WorkersOK, FlushCancelsAsked
  <2>2. ASSUME Worker, state_ = "Worker_Stopped", main.pc = "idle"
        PROVE  thread = None /\ work_ = <<>> /\ \A j \in Jobs : handle[j] # "none" => ended[j] = 1
    <3>1. ~Stopping /\ ~InTask(main) /\ kind # "CompatThread"
      BY <2>2 DEF Stopping, InTask, Worker
    <3>2. thread = None /\ work_ = <<>>
      BY <2>2, <3>1 DEF IInv, WorkersOK
    <3>3. \A j \in Jobs : ~Queued(j) /\ ~Runs(main, j) /\ ~Runs(thread, j)
      BY <3>1, <3>2 DEF Queued, Runs, InTask, None
    <3> QED
      BY <3>1, <3>2, <3>3 DEF IInv, CountsOK
  <2> QED
    BY <2>1, <2>2 DEF StopOK, StoppedIsQuiet, IInv
<1> QED
  BY <1>1, Invariance, PTL

=============================================================================
