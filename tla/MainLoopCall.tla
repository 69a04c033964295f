---------------------------- MODULE MainLoopCall ----------------------------
(***************************************************************************)
(* Calls from other threads into the main thread (lib/mainloop-call.c).    *)
(*                                                                         *)
(* A thread has one call site.  main_loop_call() waits until the previous  *)
(* call of the site has run, fills the site in, puts it at the head of the *)
(* queue (iv_list_add) and, when asked to, sleeps until the call has run.  *)
(* The main thread's handler takes sites from the head, runs the function  *)
(* without a lock, marks the site done under the site's lock and signals   *)
(* it under main_task_lock.  A thread that stops while its call is pending *)
(* leaves the site to the handler.                                         *)
(*                                                                         *)
(* A part that holds a lock from beginning to end is one step.  The one    *)
(* place where main_task_lock is held over two steps is a thread that has  *)
(* asked to be woken and has not looked at `pending' again (pc "check").   *)
(***************************************************************************)
EXTENDS Naturals, Sequences

CONSTANTS Threads,   \* threads that call
          NoThread   \* no call is being run

VARIABLES site,      \* the call sites: MainLoopTaskCallSite
          tpc,       \* where each thread is in main_loop_call()
          queue,     \* main_task_queue, its head first
          posted,    \* main_task_posted
          handler,   \* where the main thread is in main_loop_call_handler()
          calls,     \* history: calls made less calls run, for each thread
          crashed    \* the process died of using a site that was freed

callVars == <<site, tpc, queue, posted, handler, calls, crashed>>

NoHandler == [pc |-> "idle", t |-> NoThread, dowakeup |-> FALSE, dofree |-> FALSE]

\* main_loop_call_thread_init(): g_new0().
NewSite == [pending |-> FALSE, wait |-> FALSE, mainfree |-> FALSE, freed |-> FALSE, func |-> "none"]

CallInit ==
  /\ site = [t \in Threads |-> NewSite]
  /\ tpc = [t \in Threads |-> "idle"]
  /\ queue = <<>>
  /\ posted = FALSE
  /\ handler = NoHandler
  /\ calls = [t \in Threads |-> 0]
  /\ crashed = FALSE

\* Nobody holds main_task_lock.
Unlocked == \A t \in Threads : tpc[t] # "check"

Goto(t, pc) == tpc' = [tpc EXCEPT ![t] = pc]

-----------------------------------------------------------------------------
\* Mutant: the previous call is not waited for.
WaitPending_Ignored(t) ==
  /\ tpc[t] = "enter" /\ Unlocked
  /\ Goto(t, "fill")
  /\ UNCHANGED <<site, queue, posted, handler, calls, crashed>>

\* Mutant: the thread sleeps without asking to be woken.
WaitPending_NotAsked(t) ==
  /\ tpc[t] = "enter" /\ Unlocked
  /\ Goto(t, IF site[t].pending THEN "check" ELSE "fill")
  /\ UNCHANGED <<site, queue, posted, handler, calls, crashed>>

\* main_loop_wait_for_pending_call_to_finish(): look at the previous call.
WaitPending(t) ==
  /\ tpc[t] = "enter" /\ Unlocked
  /\ \/ /\ site[t].pending
        /\ site' = [site EXCEPT ![t].wait = TRUE]
        /\ Goto(t, "check")
     \/ /\ ~site[t].pending
        /\ Goto(t, "fill")
        /\ UNCHANGED site
  /\ UNCHANGED <<queue, posted, handler, calls, crashed>>

\* Its loop: sleep while the previous call is pending.  A thread that was
\* signalled needs main_task_lock again.
WaitLoop(t) ==
  /\ tpc[t] = "check" \/ (tpc[t] = "recheck" /\ Unlocked)
  /\ Goto(t, IF site[t].pending THEN "asleep" ELSE "fill")
  /\ UNCHANGED <<site, queue, posted, handler, calls, crashed>>

\* Fill in the call site, without a lock.
Fill(t, func, wait) ==
  /\ tpc[t] = "fill"
  /\ site' = [site EXCEPT ![t].pending = TRUE, ![t].func = func, ![t].wait = wait]
  /\ calls' = [calls EXCEPT ![t] = @ + 1]
  /\ Goto(t, "post")
  /\ UNCHANGED <<queue, posted, handler, crashed>>

\* Queue it; `pending' is still set when a waiting call looks at it first.
Post(t) ==
  /\ tpc[t] = "post" /\ Unlocked
  /\ queue' = <<t>> \o queue
  /\ posted' = TRUE
  /\ Goto(t, IF site[t].wait THEN "waiting" ELSE "returned")
  /\ UNCHANGED <<site, handler, calls, crashed>>

\* A signalled thread looks at `pending' again.
Woken(t) ==
  /\ tpc[t] = "woken" /\ Unlocked
  /\ Goto(t, IF site[t].pending THEN "waiting" ELSE "returned")
  /\ UNCHANGED <<site, queue, posted, handler, calls, crashed>>

\* main_loop_call_thread_deinit().
CallThreadDeinit(t) ==
  /\ site' = [site EXCEPT ![t].mainfree = site[t].pending,
                          ![t].freed = ~site[t].pending]
  /\ UNCHANGED <<queue, posted, handler, calls, crashed>>

-----------------------------------------------------------------------------
\* The handler's loop, with main_task_lock held: take the next site, or return.
TakeNext ==
  IF queue = <<>>
  THEN handler' = NoHandler /\ UNCHANGED queue
  ELSE /\ handler' = [NoHandler EXCEPT !.pc = "run", !.t = Head(queue)]
       /\ queue' = Tail(queue)

\* main_loop_call_handler() is entered.
HandlerEnter ==
  /\ handler.pc = "idle" /\ posted /\ Unlocked
  /\ posted' = FALSE
  /\ TakeNext
  /\ UNCHANGED <<site, tpc, calls, crashed>>

\* The function runs without a lock; its effect is the caller's.
HandlerRun ==
  /\ handler.pc = "run"
  /\ handler' = [handler EXCEPT !.pc = "mark"]
  /\ UNCHANGED <<site, tpc, queue, posted, calls, crashed>>

\* The function has run: mark the site done under its lock.
HandlerMark ==
  LET t == handler.t IN
  /\ handler.pc = "mark"
  /\ site' = [site EXCEPT ![t].pending = FALSE]
  /\ calls' = [calls EXCEPT ![t] = @ - 1]
  /\ handler' = [handler EXCEPT !.pc = "signal", !.dowakeup = site[t].wait,
                                !.dofree = site[t].mainfree]
  /\ UNCHANGED <<tpc, queue, posted, crashed>>

\* g_cond_signal(): the thread wakes up when it sleeps on its condition.
Signalled(t) ==
  CASE tpc[t] = "asleep" -> "recheck"
    [] tpc[t] = "waiting" -> "woken"
    [] OTHER -> tpc[t]

\* With main_task_lock again: free the site or signal its thread, and go on.  A
\* signal on a site that its thread has freed may do anything: here it does
\* nothing, or the process dies.
HandlerSignal ==
  LET t == handler.t IN
  /\ handler.pc = "signal" /\ Unlocked
  /\ site' = [site EXCEPT ![t].freed = @ \/ handler.dofree]
  /\ crashed' \in IF site[t].freed /\ (handler.dofree \/ handler.dowakeup) THEN BOOLEAN ELSE {FALSE}
  /\ Goto(t, IF handler.dowakeup /\ ~handler.dofree THEN Signalled(t) ELSE tpc[t])
  /\ TakeNext
  /\ UNCHANGED <<posted, calls>>

=============================================================================
