------------------------------ MODULE MainLoop ------------------------------
(***************************************************************************)
(* Worker threads, I/O jobs, reload and exit.                              *)
(*                                                                         *)
(* lib/mainloop.c, lib/mainloop-worker.c, lib/mainloop-io-worker.c,        *)
(* lib/mainloop-threaded-worker.c and lib/ml-batched-timer.c over the      *)
(* calls of MainLoopCall.  The main thread counts the jobs that run: one   *)
(* for every threaded worker and one for every I/O job.  A reload or an    *)
(* exit is an action that is queued until the count drops to zero; then a  *)
(* task runs the queued actions.  A threaded worker that ends has the main *)
(* thread count it out by a call that waits; a timer that several workers  *)
(* move is moved by calls that do not.                                     *)
(*                                                                         *)
(* main.pc is where the main thread is: in its event loop (and there in    *)
(* the handler of calls, when handler.pc says so), in the actions of a     *)
(* reload or an exit, or past the loop.  What the main thread does without *)
(* waiting for another thread is one step.                                 *)
(***************************************************************************)
EXTENDS MainLoopCall, FiniteSets

CONSTANTS Workers,      \* the threaded workers of a configuration
          Pool,         \* threads of the pool that works on I/O jobs
          Jobs,         \* the I/O jobs of a configuration
          Expiries,     \* times the shared timer is set to; 0 cancels it
          MaxReloads,   \* bound: reloads asked for
          MaxUpdates    \* bound: updates of the timer

ASSUME MainLoopConstants ==
  /\ Threads = Workers \cup Pool /\ Workers \cap Pool = {} /\ NoThread \notin Threads
  /\ IsFiniteSet(Threads) /\ IsFiniteSet(Jobs)
  /\ Expiries \subseteq Nat /\ MaxReloads \in Nat /\ MaxUpdates \in Nat

VARIABLES life,        \* what each worker and each thread of the pool is doing
          asked,       \* workers that were asked to exit since they started
          notify,      \* exit_notification_list
          io,          \* the I/O jobs
          by,          \* the thread of the pool that works on each job
          jobs,        \* main_loop_jobs_running
          quit,        \* main_loop_workers_quit
          reloading,   \* reloading_scheduled
          actions,     \* sync_call_actions
          task,        \* main_loop_workers_reenable_jobs_task is registered
          terminating, \* _is_terminating
          timer,       \* exit_timer is registered
          main,        \* where the main thread is
          cfg,         \* the configuration: the current and the pending one, 0: none
          shared,      \* the shared MlBatchedTimer: its expires and its timer's
          counts       \* reloads and updates so far

workVars == <<life, asked, notify>>
ioVars == <<io, by>>
syncVars == <<jobs, quit, reloading, actions, task, main>>
exitVars == <<terminating, timer>>
vars == <<callVars, workVars, ioVars, syncVars, exitVars, cfg, shared, counts>>

\* The main thread is in its event loop, outside the handler of calls.
InLoop == main.pc = "loop" /\ handler.pc = "idle"

\* The main thread after cfg_init(): it starts the workers one after the other.
Starting == [pc |-> "start", todo |-> Workers]

At(pc) == [pc |-> pc, todo |-> {}]

Init ==
  /\ CallInit
  /\ life = [t \in Threads |-> "none"] /\ asked = {} /\ notify = {}
  /\ io = [j \in Jobs |-> "idle"] /\ by = [j \in Jobs |-> NoThread]
  /\ jobs = 0 /\ quit = FALSE /\ reloading = FALSE
  /\ actions = <<>> /\ task = FALSE /\ main = Starting
  /\ terminating = FALSE /\ timer = FALSE
  /\ cfg = [current |-> 1, new |-> 0]
  /\ shared = [expires |-> 0, timer |-> 0]
  /\ counts = [reloads |-> 0, updates |-> 0]

-----------------------------------------------------------------------------
(* Reload and exit, in the main thread.                                    *)

\* Mutant: jobs stay refused after a reload.
Reenable_StaysQuit(isReloading) ==
  /\ quit' = quit
  /\ main' = At("actions")

\* _reenable_worker_jobs() up to its first action.
Reenable(isReloading) ==
  /\ quit' = (quit /\ ~isReloading)
  /\ main' = At("actions")

\* Mutant: the exit notifications are dropped, not sent.
RequestAllThreadsToExit_NotSent ==
  /\ quit' = TRUE
  /\ asked' = asked
  /\ notify' = {}

\* _request_all_threads_to_exit().
RequestAllThreadsToExit ==
  /\ quit' = TRUE
  /\ asked' = asked \cup notify
  /\ notify' = {}

\* main_loop_worker_sync_call().
SyncCall(action, isReloading) ==
  /\ actions' = Append(actions, action)
  /\ \/ jobs = 0 /\ Reenable(isReloading) /\ UNCHANGED <<asked, notify>>
     \/ jobs # 0 /\ RequestAllThreadsToExit /\ UNCHANGED main
  /\ UNCHANGED <<life, jobs, task>>

\* main_loop_reload_config(), of which main_loop_reload_config_prepare() parses
\* the new configuration unless a reload or the exit is going on.
ReloadConfig ==
  /\ InLoop /\ counts.reloads < MaxReloads
  /\ ~terminating /\ ~reloading
  /\ reloading' = TRUE
  /\ cfg' = [cfg EXCEPT !.new = counts.reloads + 2]
  /\ counts' = [counts EXCEPT !.reloads = @ + 1]
  /\ SyncCall("apply", TRUE)
  /\ UNCHANGED <<callVars, ioVars, exitVars, shared>>

\* main_loop_exit_initiate().
ExitInitiate ==
  /\ InLoop /\ ~terminating
  /\ terminating' = TRUE /\ timer' = TRUE
  /\ UNCHANGED <<callVars, workVars, ioVars, syncVars, cfg, shared, counts>>

\* main_loop_exit_timer_elapsed().
ExitTimerElapsed ==
  /\ InLoop /\ timer
  /\ timer' = FALSE
  /\ SyncCall("exit", reloading)
  /\ UNCHANGED <<callVars, ioVars, reloading, terminating, cfg, shared, counts>>

\* main_loop_workers_reenable_jobs_task: _reenable_worker_jobs().
ReenableTask ==
  /\ InLoop /\ task
  /\ task' = FALSE
  /\ Reenable(reloading)
  /\ UNCHANGED <<callVars, workVars, ioVars, jobs, reloading, actions, exitVars, cfg, shared, counts>>

\* main_loop_reload_config_apply() up to the deinitialisation of the old
\* configuration, or all of it when the exit has been asked for.
Apply ==
  \/ /\ terminating
     /\ cfg' = [cfg EXCEPT !.new = 0]
     /\ reloading' = FALSE
     /\ UNCHANGED main
  \/ /\ ~terminating
     /\ main' = At("join")
     /\ UNCHANGED <<cfg, reloading>>

\* _invoke_sync_call_actions(): the next action, or the end of
\* _reenable_worker_jobs().
NextAction ==
  /\ main.pc = "actions"
  /\ \/ /\ actions = <<>>
        /\ reloading' = FALSE
        /\ main' = At("loop")
        /\ UNCHANGED <<actions, cfg>>
     \/ /\ actions # <<>> /\ Head(actions) = "apply"
        /\ actions' = Tail(actions)
        /\ Apply
     \/ /\ actions # <<>> /\ Head(actions) = "exit"
        /\ actions' = Tail(actions)
        /\ main' = At("exitjoin")
        /\ UNCHANGED <<reloading, cfg>>
  /\ UNCHANGED <<callVars, workVars, ioVars, jobs, quit, task, exitVars, shared, counts>>

\* The workers' threads have ended: g_thread_join() returns for each of them.
AllJoined == \A w \in Workers : life[w] \in {"none", "stopped"}

\* cfg_deinit() joins and destroys the workers of the old configuration; then
\* cfg_init() of the new one, or, when that fails, of the old one again.  It
\* ends with the workers to start.
ReplaceConfig ==
  /\ main.pc = "join" /\ AllJoined
  /\ life' = [t \in Threads |-> IF t \in Workers THEN "none" ELSE life[t]] /\ asked' = {}
  /\ \E current \in {cfg.new, cfg.current} : cfg' = [current |-> current, new |-> 0]
  /\ main' = Starting
  /\ UNCHANGED <<callVars, notify, ioVars, jobs, quit, reloading, actions, task, exitVars, shared, counts>>

\* main_loop_exit_finish(): cfg_deinit() and iv_quit().
ExitFinish ==
  /\ main.pc = "exitjoin" /\ AllJoined
  /\ life' = [t \in Threads |-> IF t \in Workers THEN "none" ELSE life[t]] /\ asked' = {}
  /\ main' = At("exited")
  /\ UNCHANGED <<callVars, notify, ioVars, jobs, quit, reloading, actions, task, exitVars, cfg, shared, counts>>

\* main_loop_threaded_worker_start() of the next worker.
StartWorker ==
  /\ main.pc = "start" /\ main.todo # {}
  /\ \A w \in Workers : life[w] # "starting"
  /\ LET w == CHOOSE u \in main.todo : TRUE IN
     /\ life' = [life EXCEPT ![w] = "starting"]
     /\ notify' = notify \cup {w}
     /\ main' = [main EXCEPT !.todo = @ \ {w}]
  /\ jobs' = jobs + 1
  /\ UNCHANGED <<callVars, asked, ioVars, quit, reloading, actions, task, exitVars, cfg, shared, counts>>

\* The last worker has started: back to the actions of a reload, or to the loop.
Started ==
  /\ main.pc = "start" /\ main.todo = {}
  /\ \A w \in Workers : life[w] # "starting"
  /\ main' = At(IF reloading THEN "actions" ELSE "loop")
  /\ UNCHANGED <<callVars, workVars, ioVars, jobs, quit, reloading, actions, task, exitVars, cfg, shared, counts>>

-----------------------------------------------------------------------------
(* Jobs.                                                                   *)

\* Mutant: any job that ends starts the waiting actions.
JobComplete_AnyCount ==
  /\ jobs' = jobs - 1
  /\ task' = (task \/ quit)
  /\ UNCHANGED <<quit, reloading, actions, main>>

\* main_loop_worker_job_complete(), in the main thread.
JobComplete ==
  /\ jobs' = jobs - 1
  /\ task' = (task \/ (quit /\ jobs = 1))
  /\ UNCHANGED <<quit, reloading, actions, main>>

\* The job is handed to the pool: main_loop_worker_job_start() and
\* iv_work_pool_submit_work().
Submitted(j) ==
  /\ io[j] = "idle"
  /\ io' = [io EXCEPT ![j] = "queued"]
  /\ jobs' = jobs + 1
  /\ UNCHANGED <<callVars, workVars, by, quit, reloading, actions, task, main, exitVars, cfg, shared, counts>>

\* main_loop_io_worker_job_submit(), which refuses while the workers quit.
JobSubmit(j) == InLoop /\ ~quit /\ Submitted(j)

\* main_loop_io_worker_job_submit_continuation(), by a worker or another job.
JobSubmitContinuation(j) ==
  /\ \/ \E w \in Workers : life[w] = "running" /\ tpc[w] = "idle"
     \/ \E k \in Jobs : io[k] = "working" /\ tpc[by[k]] = "idle"
  /\ Submitted(j)

\* A thread of the pool takes the job: a running one that has nothing to do, or a
\* new one, for which main_loop_io_worker_thread_start() makes a call site.  p
\* stands for a new thread when the call site of the last one is gone.
JobTake(j, p) ==
  /\ io[j] = "queued"
  /\ \/ /\ life[p] = "running" /\ \A k \in Jobs : by[k] # p
        /\ UNCHANGED <<life, site>>
     \/ /\ life[p] = "none" \/ (life[p] = "stopped" /\ site[p].freed)
        /\ life' = [life EXCEPT ![p] = "running"]
        /\ site' = [site EXCEPT ![p] = NewSite]
  /\ io' = [io EXCEPT ![j] = "working"]
  /\ by' = [by EXCEPT ![j] = p]
  /\ UNCHANGED <<tpc, queue, posted, handler, calls, crashed, asked, notify, syncVars, exitVars, cfg, shared, counts>>

\* _work() returns in the thread of the pool.
JobWork(j) ==
  /\ io[j] = "working" /\ tpc[by[j]] = "idle"
  /\ io' = [io EXCEPT ![j] = "done"]
  /\ by' = [by EXCEPT ![j] = NoThread]
  /\ UNCHANGED <<callVars, workVars, syncVars, exitVars, cfg, shared, counts>>

\* _complete(), in the main thread.
JobDone(j) ==
  /\ InLoop /\ io[j] = "done"
  /\ io' = [io EXCEPT ![j] = "idle"]
  /\ JobComplete
  /\ UNCHANGED <<callVars, workVars, by, exitVars, cfg, shared, counts>>

-----------------------------------------------------------------------------
(* Threaded workers.                                                       *)

\* _thread_init(): the thread has its call site, and lets the main thread go on.
ThreadInit(w) ==
  /\ life[w] = "starting"
  /\ life' = [life EXCEPT ![w] = "running"]
  /\ site' = [site EXCEPT ![w] = NewSite]
  /\ Goto(w, "idle")
  /\ UNCHANGED <<queue, posted, handler, calls, crashed, asked, notify, ioVars, syncVars, exitVars, cfg, shared, counts>>

\* ml_batched_timer_update() up to its call, which does not wait.
TimerUpdate(w, expires) ==
  /\ life[w] = "running" /\ tpc[w] = "idle"
  /\ w \in Workers \/ \E j \in Jobs : by[j] = w
  /\ counts.updates < MaxUpdates /\ expires # shared.expires
  /\ shared' = [shared EXCEPT !.expires = expires]
  /\ counts' = [counts EXCEPT !.updates = @ + 1]
  /\ Goto(w, "enter")
  /\ UNCHANGED <<site, queue, posted, handler, calls, crashed, workVars, ioVars, syncVars, exitVars, cfg>>

\* run() returns: _thread_deinit() up to its call, which waits.
RunReturns(w) ==
  /\ life[w] = "running" /\ tpc[w] = "idle"
  /\ w \in asked
  /\ life' = [life EXCEPT ![w] = "ending"]
  /\ Goto(w, "enter")
  /\ UNCHANGED <<site, queue, posted, handler, calls, crashed, asked, notify, ioVars, syncVars, exitVars, cfg, shared, counts>>

\* The steps of main_loop_call() in the worker's thread.
Call(w) ==
  /\ \/ WaitPending(w)
     \/ WaitLoop(w)
     \/ life[w] = "running" /\ Fill(w, "update", FALSE)
     \/ life[w] = "ending" /\ Fill(w, "complete", TRUE)
     \/ Post(w)
     \/ Woken(w)
  /\ UNCHANGED <<workVars, ioVars, syncVars, exitVars, cfg, shared, counts>>

\* The call has returned: the worker goes on, or main_loop_worker_thread_stop().
CallReturns(w) ==
  /\ tpc[w] = "returned"
  /\ Goto(w, "idle")
  /\ \/ /\ life[w] = "running"
        /\ UNCHANGED <<life, site, queue, posted, handler, calls, crashed>>
     \/ /\ life[w] = "ending"
        /\ life' = [life EXCEPT ![w] = "stopped"]
        /\ CallThreadDeinit(w)
  /\ UNCHANGED <<asked, notify, ioVars, syncVars, exitVars, cfg, shared, counts>>

-----------------------------------------------------------------------------
(* Threads of the pool.                                                    *)

\* main_loop_io_worker_thread_stop(): an idle thread of the pool ends, whether
\* its last call has run or not.
PoolThreadStop(p) ==
  /\ life[p] = "running" /\ \A j \in Jobs : by[j] # p
  /\ life' = [life EXCEPT ![p] = "stopped"]
  /\ CallThreadDeinit(p)
  /\ UNCHANGED <<tpc, asked, notify, ioVars, syncVars, exitVars, cfg, shared, counts>>

-----------------------------------------------------------------------------
(* The handler of calls, in the main thread.                               *)

\* Mutant: a cancelled timer is left running.
PerformUpdate_NoCancel ==
  shared' = [shared EXCEPT !.timer = IF shared.expires = 0 THEN @ ELSE shared.expires]

\* ml_batched_timer_perform_update().
PerformUpdate == shared' = [shared EXCEPT !.timer = shared.expires]

HandleCalls ==
  \/ /\ InLoop /\ HandlerEnter
     /\ UNCHANGED <<syncVars, shared>>
  \/ /\ HandlerRun
     /\ \/ site[handler.t].func = "update" /\ PerformUpdate /\ UNCHANGED syncVars
        \/ site[handler.t].func = "complete" /\ JobComplete /\ UNCHANGED shared
  \/ (HandlerMark \/ HandlerSignal) /\ UNCHANGED <<syncVars, shared>>

Handle == HandleCalls /\ UNCHANGED <<workVars, ioVars, exitVars, cfg, counts>>

-----------------------------------------------------------------------------
\* The main thread goes on with a reload or an exit.
MainStep ==
  NextAction \/ ReplaceConfig \/ ExitFinish \/ StartWorker \/ Started

\* A thread goes on with what it does by itself.
ThreadStep(t) ==
  \/ Call(t) \/ CallReturns(t)
  \/ t \in Workers /\ (ThreadInit(t) \/ RunReturns(t))

Next ==
  /\ ~crashed
  /\ \/ MainStep \/ Handle \/ ReloadConfig \/ ExitInitiate \/ ExitTimerElapsed \/ ReenableTask
     \/ \E j \in Jobs : JobSubmit(j) \/ JobSubmitContinuation(j) \/ JobWork(j) \/ JobDone(j)
     \/ \E p \in Pool : PoolThreadStop(p) \/ \E j \in Jobs : JobTake(j, p)
     \/ \E t \in Threads : ThreadStep(t) \/ \E e \in Expiries : TimerUpdate(t, e)

Spec == Init /\ [][Next]_vars

\* The threads of the program run, and every handler that is due gets its turn
\* in the event loop, however often others do.  Nobody has to ask for a reload,
\* submit a job or move the timer.
Fairness ==
  /\ WF_vars(~crashed /\ MainStep) /\ SF_vars(~crashed /\ Handle)
  /\ SF_vars(~crashed /\ ReenableTask) /\ SF_vars(~crashed /\ ExitTimerElapsed)
  /\ \A j \in Jobs : SF_vars(~crashed /\ JobDone(j)) /\ WF_vars(~crashed /\ JobWork(j))
  /\ \A j \in Jobs : SF_vars(~crashed /\ \E p \in Pool : JobTake(j, p))
  /\ \A t \in Threads : WF_vars(~crashed /\ ThreadStep(t))

FairSpec == Spec /\ Fairness

-----------------------------------------------------------------------------
(* Properties.                                                             *)

\* The call of t is queued, or the handler runs it and has not marked it done.
InFlight(t) ==
  \/ \E i \in DOMAIN queue : queue[i] = t
  \/ handler.t = t /\ handler.pc \in {"run", "mark"}

\* The function of the last call that t queued has run.
Ran(t) == (handler.t = t /\ handler.pc = "mark") \/ ~InFlight(t)

\* A worker that main_loop_worker_job_complete() has not counted out yet.
Uncounted(w) ==
  \/ life[w] \in {"starting", "running"}
  \/ /\ life[w] = "ending"
     /\ tpc[w] \notin {"waiting", "woken", "returned"} \/ ~Ran(w)

BusyJobs == {j \in Jobs : io[j] # "idle"}
LiveWorkers == {w \in Workers : Uncounted(w)}

\* main_loop_jobs_running is the number of I/O jobs that were submitted and not
\* completed and of workers that were started and not counted out, whichever
\* thread submits, ends or calls; the task that reenables jobs is registered
\* only at zero.
JobsCounted ==
  /\ jobs = Cardinality(BusyJobs) + Cardinality(LiveWorkers)
  /\ task => jobs = 0

\* A configuration is deinitialised when nothing of it runs: apply is "called
\* [...] once all I/O worker threads have finished" (lib/mainloop.c:270), and at
\* the exit "we _know_ that no threads are running" (lib/mainloop.c:453).
AppliedAlone ==
  main.pc \in {"join", "exitjoin", "exited"} => BusyJobs = {} /\ LiveWorkers = {}

\* I/O jobs are refused only as long as a reload or the exit waits for its turn:
\* when the main thread is back in its loop, whoever came first, jobs run again
\* unless the program ends.
RefusedOnlyForAction ==
  main.pc = "loop" /\ quit => actions # <<>>

\* Every call is run once: it is in one place until it has run, a call that
\* waits returns after that, and a site is freed only when its call is done.
CallRunsOnce ==
  \A t \in Threads :
     /\ calls[t] = IF tpc[t] = "post" \/ InFlight(t) THEN 1 ELSE 0
     /\ \A i, k \in DOMAIN queue : queue[i] = t /\ queue[k] = t => i = k
     /\ tpc[t] = "returned" /\ site[t].wait => ~InFlight(t)
     /\ site[t].freed => ~InFlight(t)

\* A thread that sleeps in main_loop_call() will be signalled: its call is queued
\* and the handler runs or is due, or it is being run and the handler knows that
\* the thread waits.
NoLostWakeup ==
  /\ queue # <<>> => posted \/ handler.pc # "idle"
  /\ \A t \in Threads :
       tpc[t] \in {"asleep", "waiting"} =>
          /\ site[t].pending => InFlight(t) /\ site[t].wait
          /\ ~site[t].pending => handler.t = t /\ handler.dowakeup

\* An update by t is under way: the timer was not set since.
Updating(t) ==
  \/ life[t] = "running" /\ tpc[t] \in {"enter", "check", "asleep", "recheck", "fill"}
  \/ site[t].func = "update" /\ (tpc[t] = "post" \/ ~Ran(t))

\* When no update is under way the timer is set to the expiry that was asked for
\* last, in whatever order the calls of several threads ran ("the locked path
\* [...] will sort things out", lib/ml-batched-timer.c:89).
TimerFollows ==
  (\A t \in Threads : ~Updating(t)) => shared.timer = shared.expires

\* A reload comes to its end, and so does the exit, with every combination of
\* the two.
Ends ==
  /\ [](reloading => <>(~reloading \/ crashed))
  /\ [](terminating => <>(main.pc = "exited" \/ crashed))

=============================================================================
