---------------------------- MODULE ThreadSupport ----------------------------
(***************************************************************************)
(* The threading interface of core/logic/ThreadSupport.cpp and             *)
(* core/logic/BaseWorker.cpp as an extension uses it: a CompatWorker (a    *)
(* queue served by a thread of its own and by RunFrame), a BaseWorker (a   *)
(* queue served by RunFrame alone) or a CompatThread (one thread for one   *)
(* task).  `kind' says which of the three the client made.                 *)
(*                                                                         *)
(* Two threads: `main', which makes every call of the interface, and       *)
(* `thread', the one that Start or Unpause created.  A region under mutex_ *)
(* is one step; waiting on a condition variable ends by a notification     *)
(* (or, for wait_until, the timeout), never by itself.                     *)
(*                                                                         *)
(* Clients follow the interface: a handle made with AutoRelease is not     *)
(* used again, another one is destroyed once its OnTerminate was called    *)
(* (a CompatThread's once WaitForThread returned), WaitForThread is not    *)
(* called on a paused thread (ThreadSupport.cpp:393), and RunThread and    *)
(* OnTerminate call nothing but MakeThread and DestroyThis (in a           *)
(* BaseWorker's OnTerminate, DestroyThis of another handle).               *)
(***************************************************************************)
EXTENDS Naturals, Sequences, FiniteSets

CONSTANTS
  Kinds,     \* subset of {"CompatWorker", "BaseWorker", "CompatThread"}
  NJobs,     \* the tasks (IThread objects) are 1..NJobs, made in this order
  Limits,    \* arguments of SetMaxThreadsPerFrame
  MaxCalls   \* bound on Start, Pause and SetMaxThreadsPerFrame calls

ASSUME ThreadAssumption ==
  /\ Kinds \subseteq {"CompatWorker", "BaseWorker", "CompatThread"}
  /\ NJobs \in Nat \ {0} /\ Limits \subseteq Nat /\ MaxCalls \in Nat

Jobs == 1..NJobs

VARIABLES
  kind,
  state_,      \* WorkerState
  work_,       \* the queue of handles
  thread,      \* the second thread: [pc, job]
  main,        \* the client's thread: [pc, job, n, ret, cancel]
  wait,        \* Worker(): the Maybe<TimePoint> is valid
  work_in_frame,
  jobs_per_wakeup_,
  handle,      \* job -> "none", "alive", "deleted" or "deleted twice"
  autorelease, \* job -> Thread_AutoRelease was asked for
  m_state,     \* job -> ThreadState; for a CompatThread, finished_
  callbacks_,  \* CompatThread: not yet set to nullptr
  ran,         \* history: job -> calls of RunThread
  ended,       \* history: job -> calls of OnTerminate
  toCancel,    \* history: queued when Stop(true) was called
  calls        \* history: how many bounded calls were made

worker == <<state_, work_, wait, work_in_frame, jobs_per_wakeup_, toCancel>>
job    == <<handle, autorelease, m_state, callbacks_, ran, ended>>
vars   == <<kind, thread, main, calls, worker, job>>

Idle == [pc |-> "idle", job |-> 0, n |-> 0, ret |-> "idle", cancel |-> FALSE]
None == [pc |-> "none", job |-> 0]

WorkerStates == {"Worker_Stopped", "Worker_Paused", "Worker_Running"}
ThreadStates == {"Thread_Running", "Thread_Paused", "Thread_Done"}
ThreadPCs == {"none", "OnWorkerStart", "loop", "wait", "wait_until", "Run",
              "RunThread", "Done", "OnTerminate", "exit", "detached"}
MainPCs == {"idle", "RunFrame", "RunThread", "Done", "OnTerminate", "OnWorkerStart",
            "join", "Flush", "cond", "recheck"}

-----------------------------------------------------------------------------
(* Tasks.  RunWork and its three copies call RunThread, set Thread_Done,   *)
(* call OnTerminate and delete the handle if it is an AutoRelease one.     *)

\* Mutant: the task is looked at and left in the queue.
FrontOnly == work_

PopFront == Tail(work_)

BeginRun(j) ==
  /\ m_state' = [m_state EXCEPT ![j] = "Thread_Running"]
  /\ ran' = [ran EXCEPT ![j] = @ + 1]

EndRun(j) == m_state' = [m_state EXCEPT ![j] = "Thread_Done"]

\* Mutant: the handle is deleted before OnTerminate is called with it.
TerminateReleased(j) ==
  /\ ended' = [ended EXCEPT ![j] = @ + 1]
  /\ handle' = [handle EXCEPT ![j] = IF autorelease[j] THEN "deleted" ELSE @]

CallOnTerminate(j) == ended' = [ended EXCEPT ![j] = @ + 1] /\ UNCHANGED handle

Deleted(j) == [handle EXCEPT ![j] = IF @ = "alive" THEN "deleted" ELSE "deleted twice"]

Release(j) == handle' = IF autorelease[j] THEN Deleted(j) ELSE handle

InTask(x) == x.pc \in {"RunThread", "Done", "OnTerminate"}
NextPC(x, ret) ==
  IF x.pc = "RunThread" THEN "Done" ELSE IF x.pc = "Done" THEN "OnTerminate" ELSE ret

\* What one step of a thread x that is running a task does to the task.
TaskStep(x) ==
  /\ InTask(x)
  /\ \/ /\ x.pc = "RunThread"
        /\ EndRun(x.job)
        /\ UNCHANGED <<handle, ended>>
     \/ /\ x.pc = "Done"
        /\ CallOnTerminate(x.job)
        /\ UNCHANGED m_state
     \/ /\ x.pc = "OnTerminate"
        /\ Release(x.job)
        /\ UNCHANGED <<ended, m_state>>
  /\ UNCHANGED <<autorelease, callbacks_, ran>>

-----------------------------------------------------------------------------
(* CompatWorker: the thread.                                               *)

can_work == state_ = "Worker_Running" /\ work_ # <<>>

Notified == IF thread.pc \in {"wait", "wait_until"} THEN [thread EXCEPT !.pc = "loop"] ELSE thread

\* Mutant: the waiting thread is not told.
NoNotify == thread

\* work_cv_.notify_all and notify_one: there is one thread to wake.
Notify == Notified

\* Mutant: a stopped thread exits at once.
ExitAtOnce == FALSE

\* The loop after the main one: run what is queued when Stop was called.
Drain == work_ # <<>>

\* One round of Worker()'s loop or of the one after it, up to the next wait
\* or task.
WorkerLoop ==
  /\ thread.pc = "loop"
  /\ \/ /\ state_ = "Worker_Stopped" /\ ~Drain
        /\ thread' = [thread EXCEPT !.pc = "exit"]
        /\ UNCHANGED <<job, work_>>
     \/ /\ state_ # "Worker_Stopped" /\ ~can_work
        /\ thread' = [thread EXCEPT !.pc = "wait"]
        /\ UNCHANGED <<job, work_>>
     \/ /\ can_work /\ wait
        /\ thread' = [thread EXCEPT !.pc = "wait_until"]
        /\ UNCHANGED <<job, work_>>
     \/ /\ \/ can_work /\ ~wait
           \/ state_ = "Worker_Stopped" /\ Drain
        /\ thread' = [pc |-> "RunThread", job |-> Head(work_)]
        /\ work_' = PopFront
        /\ BeginRun(Head(work_))
        /\ UNCHANGED <<handle, autorelease, callbacks_, ended>>
  /\ UNCHANGED <<kind, main, calls, state_, wait, work_in_frame, jobs_per_wakeup_, toCancel>>

WaitTimeout ==
  /\ thread.pc = "wait_until"
  /\ thread' = [thread EXCEPT !.pc = "loop"]
  /\ wait' = FALSE
  /\ UNCHANGED <<kind, main, calls, state_, work_, work_in_frame, jobs_per_wakeup_, toCancel, job>>

\* The thread runs its task; with the lock back, work_in_frame (never reset)
\* decides whether the next task has to wait (SetThinkTimePerFrame may set
\* wait_between_jobs_ to zero or not at any time).
WorkerTask ==
  LET n == work_in_frame + 1 IN
  /\ kind = "CompatWorker" /\ TaskStep(thread)
  /\ thread' = [thread EXCEPT !.pc = NextPC(thread, "loop")]
  /\ IF thread.pc = "OnTerminate"
     THEN /\ work_in_frame' = n
          /\ \E wait_between_jobs_ \in BOOLEAN :
               wait' = (wait \/ (n >= jobs_per_wakeup_ /\ wait_between_jobs_ /\ can_work))
     ELSE UNCHANGED <<work_in_frame, wait>>
  /\ UNCHANGED <<kind, main, calls, state_, work_, jobs_per_wakeup_, toCancel>>

OnWorkerStartReturns ==
  /\ thread.pc = "OnWorkerStart"
  /\ thread' = [thread EXCEPT !.pc = "loop"]
  /\ UNCHANGED <<kind, main, calls, worker, job>>

-----------------------------------------------------------------------------
(* Both workers: the calls of the client.                                  *)

Worker == kind \in {"CompatWorker", "BaseWorker"}
Call == Worker /\ main.pc = "idle"

\* Client code runs: between calls, or in a callback of either thread.
ClientRuns ==
  \/ main.pc \in {"idle", "RunThread", "OnTerminate", "OnWorkerStart"}
  \/ thread.pc \in {"RunThread", "OnTerminate", "OnWorkerStart"}

Accepts == IF kind = "BaseWorker" THEN state_ = "Worker_Running" ELSE state_ # "Worker_Stopped"

MakeThread(a) ==
  /\ Worker /\ ClientRuns /\ Accepts
  /\ \E j \in Jobs :
       /\ handle[j] = "none" /\ \A i \in 1..(j - 1) : handle[i] # "none"
       /\ handle' = [handle EXCEPT ![j] = "alive"]
       /\ autorelease' = [autorelease EXCEPT ![j] = a]
       /\ work_' = Append(work_, j)
  /\ thread' = Notify
  /\ UNCHANGED <<kind, main, calls, state_, wait, work_in_frame, jobs_per_wakeup_, toCancel,
                 m_state, callbacks_, ran, ended>>

Start ==
  /\ Call /\ state_ = "Worker_Stopped" /\ calls < MaxCalls
  /\ calls' = calls + 1
  /\ state_' = "Worker_Running"
  /\ IF kind = "CompatWorker"
     THEN /\ thread' = [pc |-> "OnWorkerStart", job |-> 0]
          /\ wait' = FALSE /\ work_in_frame' = 0
          /\ UNCHANGED main
     ELSE /\ main' = [Idle EXCEPT !.pc = "OnWorkerStart"]
          /\ UNCHANGED <<thread, wait, work_in_frame>>
  /\ UNCHANGED <<kind, work_, jobs_per_wakeup_, toCancel, job>>

\* Stop: a CompatWorker ignores the argument, a BaseWorker flushes at once.
Stop(cancel) ==
  /\ Call /\ state_ # "Worker_Stopped"
  /\ state_' = "Worker_Stopped"
  /\ thread' = Notify
  /\ main' = [Idle EXCEPT !.pc = IF kind = "CompatWorker" THEN "join" ELSE "Flush",
                          !.cancel = cancel \/ kind = "CompatWorker"]
  /\ toCancel' = IF cancel THEN toCancel \cup {work_[k] : k \in 1..Len(work_)} ELSE toCancel
  /\ UNCHANGED <<kind, calls, work_, wait, work_in_frame, jobs_per_wakeup_, job>>

\* thread_->join() returned.
StopJoined ==
  /\ kind = "CompatWorker" /\ main.pc = "join" /\ thread.pc = "exit"
  /\ thread' = None
  /\ main' = [main EXCEPT !.pc = "Flush"]
  /\ UNCHANGED <<kind, calls, worker, job>>

\* One round of Flush: a BaseWorker runs the task unless it cancels.
Flush ==
  /\ main.pc = "Flush"
  /\ IF work_ = <<>>
     THEN main' = Idle /\ UNCHANGED <<work_, job>>
     ELSE LET j == Head(work_) IN
          /\ work_' = PopFront
          /\ main' = [main EXCEPT !.pc = IF main.cancel THEN "Done" ELSE "RunThread",
                                  !.job = j, !.ret = "Flush"]
          /\ m_state' = IF kind = "BaseWorker" THEN [m_state EXCEPT ![j] = "Thread_Done"] ELSE m_state
          /\ ran' = IF main.cancel THEN ran ELSE [ran EXCEPT ![j] = @ + 1]
          /\ UNCHANGED <<handle, autorelease, callbacks_, ended>>
  /\ UNCHANGED <<kind, thread, calls, state_, wait, work_in_frame, jobs_per_wakeup_, toCancel>>

RunFrame ==
  /\ Call
  /\ main' = [Idle EXCEPT !.pc = "RunFrame"]
  /\ UNCHANGED <<kind, thread, calls, worker, job>>

\* The next round of RunFrame's loop, whatever the state of the worker.
RunFrameNext ==
  /\ main.pc = "RunFrame"
  /\ IF main.n < jobs_per_wakeup_ /\ work_ # <<>>
     THEN /\ main' = [main EXCEPT !.pc = "RunThread", !.job = Head(work_),
                                  !.n = @ + 1, !.ret = "RunFrame"]
          /\ work_' = PopFront
          /\ BeginRun(Head(work_))
          /\ UNCHANGED <<handle, autorelease, callbacks_, ended>>
     ELSE main' = Idle /\ UNCHANGED <<work_, job>>
  /\ UNCHANGED <<kind, thread, calls, state_, wait, work_in_frame, jobs_per_wakeup_, toCancel>>

MainTask ==
  /\ TaskStep(main)
  /\ main' = [main EXCEPT !.pc = NextPC(main, main.ret)]
  /\ UNCHANGED <<kind, thread, calls, worker>>

OnWorkerStartDone ==
  /\ main.pc = "OnWorkerStart"
  /\ main' = Idle
  /\ UNCHANGED <<kind, thread, calls, worker, job>>

Pause ==
  /\ Call /\ state_ = "Worker_Running" /\ calls < MaxCalls
  /\ calls' = calls + 1
  /\ state_' = "Worker_Paused"
  /\ thread' = Notify
  /\ UNCHANGED <<kind, main, work_, wait, work_in_frame, jobs_per_wakeup_, toCancel, job>>

Unpause ==
  /\ Call /\ state_ = "Worker_Paused"
  /\ state_' = "Worker_Running"
  /\ thread' = Notify
  /\ UNCHANGED <<kind, main, calls, work_, wait, work_in_frame, jobs_per_wakeup_, toCancel, job>>

SetMaxThreadsPerFrame(n) ==
  /\ Call /\ calls < MaxCalls /\ n # jobs_per_wakeup_
  /\ calls' = calls + 1
  /\ jobs_per_wakeup_' = n
  /\ UNCHANGED <<kind, thread, main, state_, work_, wait, work_in_frame, toCancel, job>>

\* The owner of a handle destroys it when its task has ended: from inside
\* OnTerminate for a CompatWorker, which read the flags before, but not for a
\* BaseWorker, which reads them afterwards (BaseWorker.cpp:99,152) and would find
\* the handle deleted.
DestroyThis(j) ==
  /\ Worker /\ ClientRuns
  /\ handle[j] = "alive" /\ ~autorelease[j] /\ ended[j] > 0
  /\ kind = "BaseWorker" => main.job # j \/ main.pc = "idle"
  /\ handle' = [handle EXCEPT ![j] = "deleted"]
  /\ UNCHANGED <<kind, thread, main, calls, worker, autorelease, m_state, callbacks_, ran, ended>>

-----------------------------------------------------------------------------
(* CompatThread: task 1 and its own thread.                                *)

MakeCompatThread(a, suspended) ==
  /\ kind = "CompatThread" /\ main.pc = "idle" /\ handle[1] = "none"
  /\ handle' = [handle EXCEPT ![1] = "alive"]
  /\ autorelease' = [autorelease EXCEPT ![1] = a]
  /\ callbacks_' = TRUE
  /\ thread' = IF suspended THEN None ELSE [pc |-> "Run", job |-> 1]
  /\ UNCHANGED <<kind, main, calls, worker, m_state, ran, ended>>

UnpauseThread ==
  /\ kind = "CompatThread" /\ main.pc = "idle"
  /\ handle[1] = "alive" /\ thread = None /\ callbacks_
  /\ thread' = [pc |-> "Run", job |-> 1]
  /\ UNCHANGED <<kind, main, calls, worker, job>>

\* Run() up to OnTerminate.
ThreadRun ==
  /\ kind = "CompatThread"
  /\ \/ /\ thread.pc = "Run"
        /\ thread' = [thread EXCEPT !.pc = "RunThread"]
        /\ ran' = [ran EXCEPT ![1] = @ + 1]
        /\ UNCHANGED <<handle, autorelease, m_state, callbacks_, ended>>
     \/ /\ thread.pc \in {"RunThread", "Done"}
        /\ TaskStep(thread)
        /\ thread' = [thread EXCEPT !.pc = NextPC(thread, "")]
  /\ UNCHANGED <<kind, main, calls, worker>>

Check == IF main.pc = "cond" THEN [main EXCEPT !.pc = "recheck"] ELSE main

\* The rest of Run(): self-destruct, or tell the one who waits.
ThreadEnd ==
  /\ kind = "CompatThread" /\ thread.pc = "OnTerminate"
  /\ IF autorelease[1]
     THEN /\ thread' = [thread EXCEPT !.pc = "detached"]
          /\ handle' = Deleted(1)
          /\ UNCHANGED <<main, callbacks_>>
     ELSE /\ thread' = [thread EXCEPT !.pc = "exit"]
          /\ callbacks_' = FALSE
          /\ main' = Check
          /\ UNCHANGED handle
  /\ UNCHANGED <<kind, calls, worker, autorelease, m_state, ran, ended>>

WaitForThread ==
  /\ kind = "CompatThread" /\ main.pc = "idle"
  /\ handle[1] = "alive" /\ ~autorelease[1] /\ thread # None
  /\ main' = [main EXCEPT !.pc = IF callbacks_ THEN "cond" ELSE "join"]
  /\ UNCHANGED <<kind, thread, calls, worker, job>>

WaitRecheck ==
  /\ kind = "CompatThread" /\ main.pc = "recheck"
  /\ main' = [main EXCEPT !.pc = IF callbacks_ THEN "cond" ELSE "join"]
  /\ UNCHANGED <<kind, thread, calls, worker, job>>

WaitJoined ==
  /\ kind = "CompatThread" /\ main.pc = "join" /\ thread.pc = "exit"
  /\ thread' = None
  /\ main' = Idle
  /\ UNCHANGED <<kind, calls, worker, job>>

DestroyThread ==
  /\ kind = "CompatThread" /\ main.pc = "idle"
  /\ handle[1] = "alive" /\ ~callbacks_ /\ thread = None
  /\ handle' = Deleted(1)
  /\ UNCHANGED <<kind, thread, main, calls, worker, autorelease, m_state, callbacks_, ran, ended>>

-----------------------------------------------------------------------------
Init ==
  /\ kind \in Kinds
  /\ state_ = "Worker_Stopped" /\ work_ = <<>>
  /\ thread = None /\ main = Idle
  /\ wait = FALSE /\ work_in_frame = 0 /\ jobs_per_wakeup_ = 1
  /\ handle = [j \in Jobs |-> "none"]
  /\ autorelease = [j \in Jobs |-> FALSE]
  /\ m_state = [j \in Jobs |-> "Thread_Paused"]
  /\ callbacks_ = FALSE
  /\ ran = [j \in Jobs |-> 0] /\ ended = [j \in Jobs |-> 0]
  /\ toCancel = {} /\ calls = 0

\* What the client chooses to do.
ClientCall ==
  \/ Start \/ Pause \/ Unpause \/ UnpauseThread \/ WaitForThread \/ DestroyThread
  \/ \E b \in BOOLEAN : MakeThread(b) \/ Stop(b)
  \/ \E a, s \in BOOLEAN : MakeCompatThread(a, s)
  \/ \E n \in Limits : SetMaxThreadsPerFrame(n)
  \/ \E j \in Jobs : DestroyThis(j)

ThreadNext ==
  \/ WorkerLoop \/ WaitTimeout \/ WorkerTask \/ OnWorkerStartReturns
  \/ ThreadRun \/ ThreadEnd

\* A call in progress on the client's thread.
MainNext ==
  \/ StopJoined \/ Flush \/ RunFrameNext \/ MainTask \/ OnWorkerStartDone
  \/ WaitRecheck \/ WaitJoined

Next == ClientCall \/ RunFrame \/ ThreadNext \/ MainNext

Spec == Init /\ [][Next]_vars

\* The scheduler runs both threads, callbacks return, and a BaseWorker's
\* client calls RunFrame every frame (nothing else would serve its queue).
FairSpec ==
  /\ Spec
  /\ WF_vars(ThreadNext) /\ WF_vars(MainNext)
  /\ SF_vars(kind = "BaseWorker" /\ work_ # <<>> /\ RunFrame)

-----------------------------------------------------------------------------
(* Properties.                                                             *)

TypeOK ==
  /\ kind \in Kinds /\ state_ \in WorkerStates
  /\ work_ \in Seq(Jobs)
  /\ thread \in [pc : ThreadPCs, job : 0..NJobs]
  /\ main \in [pc : MainPCs, job : 0..NJobs, n : Nat, cancel : BOOLEAN,
               ret : {"idle", "RunFrame", "Flush"}]
  /\ wait \in BOOLEAN /\ work_in_frame \in Nat /\ jobs_per_wakeup_ \in Nat
  /\ handle \in [Jobs -> {"none", "alive", "deleted"}]
  /\ autorelease \in [Jobs -> BOOLEAN] /\ m_state \in [Jobs -> ThreadStates]
  /\ callbacks_ \in BOOLEAN
  /\ toCancel \subseteq Jobs /\ calls \in 0..MaxCalls

Runs(x, j) == x.job = j /\ InTask(x)
Queued(j) == \E k \in 1..Len(work_) : work_[k] = j

\* A task is run at most once and ends at most once, by one thread, though the
\* worker's thread and RunFrame take from the same queue; it ends without
\* having run only if the client asked Stop to cancel it.
TaskOnce ==
  \A j \in Jobs :
    /\ ran[j] <= 1 /\ ended[j] <= 1
    /\ ~(Runs(main, j) /\ Runs(thread, j))
    /\ Queued(j) => ran[j] = 0 /\ ended[j] = 0 /\ ~Runs(main, j) /\ ~Runs(thread, j)
    /\ ended[j] = 1 /\ ran[j] = 0 => j \in toCancel

\* Nobody uses a handle that was deleted: neither a queue, nor the thread
\* running its task, which after OnTerminate still needs it if it is the one
\* to delete it, nor, for a CompatThread, the thread until it is joined.
NoUseAfterFree ==
  \A j \in Jobs :
    /\ Queued(j) => handle[j] = "alive"
    /\ \A x \in {main, thread} :
         Runs(x, j) /\ (x.pc # "OnTerminate" \/ autorelease[j] \/ kind # "CompatWorker")
           => handle[j] = "alive"
    /\ kind = "CompatThread" /\ thread.pc \in {"Run", "exit"} => handle[1] = "alive"
    /\ main.pc \in {"cond", "recheck"} => handle[1] = "alive"

\* When Stop has returned the worker is quiet: no task is queued or running,
\* the thread is joined, and Start may overwrite thread_ (destroying a
\* std::thread that was not joined ends the process).
StoppedIsQuiet ==
  Worker /\ state_ = "Worker_Stopped" /\ main.pc = "idle" =>
    thread = None /\ work_ = <<>> /\ \A j \in Jobs : handle[j] # "none" => ended[j] = 1

\* A CompatWorker's Stop(false) waits until its thread has emptied the queue: the
\* Flush after the join, which cancels, finds no task that Stop was not asked to
\* cancel.  What Stop(true) finds there is left open: the interface says that all
\* is cancelled (IThreader.h:356), the code ignores the argument.
FlushCancelsAsked ==
  kind = "CompatWorker" /\ main.pc = "Flush" => \A k \in 1..Len(work_) : work_[k] \in toCancel

\* A queued task ends, unless the worker is paused or (where only RunFrame
\* serves the queue) no task may be run per frame.
EveryTaskEnds ==
  \A j \in Jobs : Queued(j) ~>
    \/ ended[j] > 0
    \/ state_ = "Worker_Paused"
    \/ kind = "BaseWorker" /\ jobs_per_wakeup_ = 0

\* Stop and WaitForThread return: no wakeup is lost between a check and the
\* wait after it.
CallsReturn == main.pc \in {"join", "cond"} ~> main.pc = "idle"

\* Stop leaves nothing behind when it returns, and cancels only what it was asked
\* to cancel.
StopOK == TypeOK /\ StoppedIsQuiet /\ FlushCancelsAsked

\* Nobody waits for ever: neither a task for a thread, nor the client for Stop
\* or WaitForThread.
NobodyWaitsForever == EveryTaskEnds /\ CallsReturn

=============================================================================
