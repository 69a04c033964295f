-------------------------- MODULE LogThreadedSource --------------------------
(***************************************************************************)
(* Threaded sources that feed a scheduler.                                 *)
(*                                                                         *)
(* lib/logthrsource/logthrsourcedrv.c: a worker posts a message and, when  *)
(* its window is full, sleeps on a condition until an acknowledgement      *)
(* wakes it up or it is asked to exit.                                     *)
(* lib/logthrsource/logthrfetcherdrv.c: a fetcher does the same from an    *)
(* event loop of its own: a fetch task, two timers and two events.         *)
(*                                                                         *)
(* The window is that of LogSource without the counter's suspended bit     *)
(* (LogReader has it): a source is free to send while the window is not 0. *)
(* A destination acknowledges what the partitions inject, in any order.    *)
(* A driver's run() is a loop that posts until the driver's request_exit()  *)
(* has set its flag (threaded-random-generator).                           *)
(***************************************************************************)
EXTENDS Integers, FiniteSetsExt, LogScheduler

CONSTANTS Fetchers,     \* the sources that are fetchers
          Window,       \* init_window_size
          MaxMsgs,      \* bound: messages of all sources
          FetchResults  \* what fetch() may return

ASSUME SourceConstants ==
  /\ Fetchers \subseteq Sources
  /\ NumPartitions \in Nat \ {0} /\ Window \in Nat \ {0} /\ MaxMsgs \in Nat
  /\ \A s \in Sources : ThreadIndex(s) \in Nat

VARIABLES pc,        \* where each worker is
          posted,    \* messages posted
          window,    \* window_size
          out,       \* messages that the destination has not acknowledged
          wakes,     \* calls of wakeup() that are on their way
          posting,   \* of these, the ones of a fetcher that will post its event
          awoken,    \* wakeup_cond.awoken
          term,      \* under_termination
          asked,     \* the flag that the driver's request_exit() sets
          exits,     \* the main thread's requests to exit that are on their way
          loop,      \* a fetcher's event loop
          crashed    \* the process died: of an assertion, or of an event that is not registered

srcVars == <<pc, posted, window, out, wakes, posting, awoken, term, asked, exits, loop, crashed>>
vars == <<schedVars, srcVars>>

Workers == Sources \ Fetchers

FreeToSend(s) == window[s] > 0

Goto(s, l) == pc' = [pc EXCEPT ![s] = l]

\* A fetcher's loop: what is registered, which events are posted.
NoWatches == [task |-> FALSE, timer |-> "none", suspended |-> FALSE, wakeup |-> FALSE, shutdown |-> FALSE]

Init ==
  /\ SchedInit
  /\ pc = [s \in Sources |-> "start"]
  /\ posted = [s \in Sources |-> 0]
  /\ window = [s \in Sources |-> Window]
  /\ out = [s \in Sources |-> 0]
  /\ wakes = [s \in Sources |-> 0] /\ posting = [s \in Sources |-> 0]
  /\ awoken = [s \in Sources |-> TRUE]
  /\ term = [s \in Sources |-> FALSE] /\ asked = [s \in Sources |-> FALSE]
  /\ exits = {}
  /\ loop = [s \in Sources |-> NoWatches]
  /\ crashed = FALSE

-----------------------------------------------------------------------------
(* Posting, for both kinds.                                                *)

\* The messages of all sources, for the bound.
AllPosted == MapThenSumSet(LAMBDA r : posted[r], Sources)

\* log_threaded_source_worker_post() up to the close of the batch, with
\* log_source_post() and its assertion on the window.
Post(s) ==
  /\ AllPosted < MaxMsgs
  /\ posted' = [posted EXCEPT ![s] = @ + 1]
  /\ window' = [window EXCEPT ![s] = @ - 1]
  /\ Push(s, <<s, posted[s] + 1>>)
  /\ crashed' = ~FreeToSend(s)
  /\ Goto(s, "posted")
  /\ UNCHANGED <<out, wakes, posting, awoken, term, asked, exits>>

AutoClose(s) == options.auto \/ s \in Fetchers

\* The rounds of _flush_batch().
Flush(s) ==
  /\ AddBatch(s) \/ SubmitContinuation(s)
  /\ UNCHANGED srcVars

\* The batch is closed when batches close by themselves, or when the window is
\* full.
AfterPost(s) ==
  /\ pc[s] = "posted" /\ ~Flushing(s)
  /\ \/ (AutoClose(s) \/ ~FreeToSend(s)) /\ CloseBatch(s)
     \/ ~AutoClose(s) /\ FreeToSend(s) /\ UNCHANGED flush
  /\ Goto(s, IF s \in Fetchers THEN "schedule" ELSE "suspend")
  /\ UNCHANGED <<options, state, part, quit, injected,
                 posted, window, out, wakes, posting, awoken, term, asked, exits, loop, crashed>>

-----------------------------------------------------------------------------
(* A worker that blocks.                                                   *)

WorkerStart(s) ==
  /\ s \in Workers /\ pc[s] = "start"
  /\ Goto(s, "run")
  /\ UNCHANGED <<schedVars, posted, window, out, wakes, posting, awoken, term, asked, exits, loop, crashed>>

\* log_threaded_source_worker_blocking_post(), called by the driver's run().
BlockingPost(s) ==
  /\ s \in Workers /\ pc[s] = "run" /\ ~asked[s] /\ ~Flushing(s)
  /\ Post(s)
  /\ UNCHANGED loop

\* With the wakeup lock: sleep, unless the worker is free to send or asked to exit.
Suspend(s) ==
  /\ s \in Workers
  /\ \/ pc[s] = "suspend" /\ ~Flushing(s)
     \/ pc[s] = "asleep" /\ awoken[s]
  /\ LET sleep == ~FreeToSend(s) /\ ~term[s] IN
     /\ Goto(s, IF sleep THEN "asleep" ELSE "run")
     /\ awoken' = [awoken EXCEPT ![s] = @ /\ ~sleep]
  /\ UNCHANGED <<schedVars, posted, window, out, wakes, posting, term, asked, exits, loop, crashed>>

\* log_threaded_source_worker_close_batch(), called by a driver whose batches do
\* not close by themselves.
DriverClosesBatch(s) ==
  /\ s \in Workers /\ pc[s] = "run" /\ ~AutoClose(s)
  /\ ~Flushing(s) /\ state[s].num > 0
  /\ CloseBatch(s)
  /\ UNCHANGED <<options, state, part, quit, injected, srcVars>>

\* The driver's run() returns after a request to exit, its batch closed.
RunReturns(s) ==
  /\ s \in Workers /\ pc[s] = "run" /\ asked[s]
  /\ ~Flushing(s) /\ state[s].num = 0
  /\ Goto(s, "ended")
  /\ UNCHANGED <<schedVars, posted, window, out, wakes, posting, awoken, term, asked, exits, loop, crashed>>

-----------------------------------------------------------------------------
(* A fetcher: the handlers of its event loop.                              *)

Loop(s, l) == loop' = [loop EXCEPT ![s] = l]

InFetcherLoop(s) == s \in Fetchers /\ pc[s] = "loop"

\* Mutant: the next fetch is scheduled whatever the window.
ScheduleNextFetch_Always(s) == Loop(s, [loop[s] EXCEPT !.task = TRUE])

\* _schedule_next_fetch_if_free_to_send().
ScheduleNextFetch(s) ==
  Loop(s, IF FreeToSend(s) THEN [loop[s] EXCEPT !.task = TRUE] ELSE [loop[s] EXCEPT !.suspended = TRUE])

\* _worker_run() up to iv_main().
FetcherRun(s) ==
  /\ s \in Fetchers /\ pc[s] = "start"
  /\ \E connected \in BOOLEAN :
       Loop(s, IF connected THEN [loop[s] EXCEPT !.task = TRUE] ELSE [loop[s] EXCEPT !.timer = "reconnect"])
  /\ Goto(s, "loop")
  /\ UNCHANGED <<schedVars, posted, window, out, wakes, posting, awoken, term, asked, exits, crashed>>

\* _fetch().
Fetch(s, result) ==
  /\ InFetcherLoop(s) /\ loop[s].task
  /\ \/ /\ result = "success"
        /\ Post(s)
        /\ Loop(s, [loop[s] EXCEPT !.task = FALSE])
     \/ /\ result # "success"
        /\ Loop(s, CASE result = "try_again" -> loop[s]
                     [] result = "no_data" -> [loop[s] EXCEPT !.task = FALSE, !.timer = "no_data"]
                     [] OTHER -> [loop[s] EXCEPT !.task = FALSE, !.timer = "reconnect"])
        /\ UNCHANGED <<schedVars, pc, posted, window, out, wakes, posting, awoken, term, asked, exits, crashed>>

\* _on_fetch_success() after the post.
FetchScheduled(s) ==
  /\ s \in Fetchers /\ pc[s] = "schedule" /\ ~Flushing(s)
  /\ ScheduleNextFetch(s)
  /\ Goto(s, "loop")
  /\ UNCHANGED <<schedVars, posted, window, out, wakes, posting, awoken, term, asked, exits, crashed>>

\* _no_data() and _reconnect().
FetcherTimer(s) ==
  /\ InFetcherLoop(s) /\ loop[s].timer # "none"
  /\ LET l == [loop[s] EXCEPT !.timer = "none"] IN
     \/ loop[s].timer = "no_data" /\ Loop(s, [l EXCEPT !.task = TRUE])
     \/ /\ loop[s].timer = "reconnect"
        /\ \/ Loop(s, IF FreeToSend(s) THEN [l EXCEPT !.task = TRUE] ELSE [l EXCEPT !.suspended = TRUE])
           \/ UNCHANGED loop
  /\ UNCHANGED <<schedVars, pc, posted, window, out, wakes, posting, awoken, term, asked, exits, crashed>>

\* _wakeup_event_handler().
WakeupEvent(s) ==
  /\ InFetcherLoop(s) /\ loop[s].wakeup
  /\ Loop(s, IF loop[s].suspended /\ FreeToSend(s)
             THEN [loop[s] EXCEPT !.wakeup = FALSE, !.suspended = FALSE, !.task = TRUE]
             ELSE [loop[s] EXCEPT !.wakeup = FALSE])
  /\ UNCHANGED <<schedVars, pc, posted, window, out, wakes, posting, awoken, term, asked, exits, crashed>>

\* _shutdown_event_handler(): nothing is registered any more, and iv_main() ends.
ShutdownEvent(s) ==
  /\ InFetcherLoop(s) /\ loop[s].shutdown
  /\ Loop(s, NoWatches)
  /\ Goto(s, "ended")
  /\ UNCHANGED <<schedVars, posted, window, out, wakes, posting, awoken, term, asked, exits, crashed>>

-----------------------------------------------------------------------------
(* The destination and the main thread.                                    *)

\* A partition injects a message: the destination has it.
InjectMsg(p) ==
  /\ Reinject(p)
  /\ out' = [out EXCEPT ![FirstOf(part[p].taken)[1]] = @ + 1]
  /\ UNCHANGED <<pc, posted, window, wakes, posting, awoken, term, asked, exits, loop, crashed>>

\* Mutant: the source is woken up by the second slot.
Ack_WakesLate(s) ==
  /\ out[s] > 0
  /\ out' = [out EXCEPT ![s] = @ - 1]
  /\ window' = [window EXCEPT ![s] = @ + 1]
  /\ wakes' = [wakes EXCEPT ![s] = IF window[s] = 1 THEN @ + 1 ELSE @]
  /\ UNCHANGED <<schedVars, pc, posted, posting, awoken, term, asked, exits, loop, crashed>>

\* _flow_control_window_size_adjust(): a source whose window was full is woken up.
Ack(s) ==
  /\ out[s] > 0
  /\ out' = [out EXCEPT ![s] = @ - 1]
  /\ window' = [window EXCEPT ![s] = @ + 1]
  /\ wakes' = [wakes EXCEPT ![s] = IF window[s] = 0 THEN @ + 1 ELSE @]
  /\ UNCHANGED <<schedVars, pc, posted, posting, awoken, term, asked, exits, loop, crashed>>

\* _worker_wakeup() of a worker: wakeup_cond_signal().
Wakeup(s) ==
  /\ s \in Workers /\ wakes[s] > 0
  /\ wakes' = [wakes EXCEPT ![s] = @ - 1]
  /\ awoken' = [awoken EXCEPT ![s] = TRUE]
  /\ UNCHANGED <<schedVars, pc, posted, window, out, posting, term, asked, exits, loop, crashed>>

\* _worker_wakeup() of a fetcher: look whether it is asked to exit.
FetcherWakeup(s) ==
  /\ s \in Fetchers /\ wakes[s] > 0
  /\ wakes' = [wakes EXCEPT ![s] = @ - 1]
  /\ posting' = [posting EXCEPT ![s] = IF term[s] THEN @ ELSE @ + 1]
  /\ UNCHANGED <<schedVars, pc, posted, window, out, awoken, term, asked, exits, loop, crashed>>

\* If it was not: iv_event_post().  Posting an event that the fetcher has
\* unregistered since may do anything: here it does nothing, or the process dies.
PostWakeupEvent(s) ==
  /\ posting[s] > 0
  /\ posting' = [posting EXCEPT ![s] = @ - 1]
  /\ IF pc[s] = "ended"
       THEN crashed' \in BOOLEAN /\ UNCHANGED loop
       ELSE Loop(s, [loop[s] EXCEPT !.wakeup = TRUE]) /\ UNCHANGED crashed
  /\ UNCHANGED <<schedVars, pc, posted, window, out, wakes, awoken, term, asked, exits>>

\* _request_all_threads_to_exit(), once: the sources are asked one by one.
RequestExit ==
  /\ ~quit
  /\ quit' = TRUE
  /\ exits' = Sources
  /\ UNCHANGED <<options, state, flush, part, injected,
                 pc, posted, window, out, wakes, posting, awoken, term, asked, loop, crashed>>

\* _worker_thread_request_exit(): its flag, and a fetcher's _worker_request_exit()
\* with the shutdown event.
SetTermination(s) ==
  /\ s \in exits /\ ~term[s]
  /\ term' = [term EXCEPT ![s] = TRUE]
  /\ Loop(s, [loop[s] EXCEPT !.shutdown = s \in Fetchers])
  /\ asked' = [asked EXCEPT ![s] = s \in Fetchers]
  /\ UNCHANGED <<schedVars, pc, posted, window, out, wakes, posting, awoken, exits, crashed>>

\* The request_exit() of a driver whose worker blocks.
DriverRequestExit(s) ==
  /\ term[s] /\ ~asked[s]
  /\ asked' = [asked EXCEPT ![s] = TRUE]
  /\ UNCHANGED <<schedVars, pc, posted, window, out, wakes, posting, awoken, term, exits, loop, crashed>>

\* The call of _worker_wakeup() at its end: wakeup_cond_signal().
SignalTermination(s) ==
  /\ s \in exits /\ asked[s]
  /\ exits' = exits \ {s}
  /\ awoken' = [awoken EXCEPT ![s] = TRUE]
  /\ UNCHANGED <<schedVars, pc, posted, window, out, wakes, posting, term, asked, loop, crashed>>

-----------------------------------------------------------------------------
SourceStep(s) ==
  \/ Flush(s) \/ AfterPost(s)
  \/ WorkerStart(s) \/ Suspend(s) \/ DriverClosesBatch(s) \/ RunReturns(s)
  \/ FetcherRun(s) \/ FetchScheduled(s)

FetcherEvents(s) ==
  \/ FetcherTimer(s) \/ WakeupEvent(s)
  \/ \E result \in FetchResults : Fetch(s, result)

AckStep(s) == Ack(s) \/ Wakeup(s) \/ FetcherWakeup(s) \/ PostWakeupEvent(s)

ExitStep(s) == SetTermination(s) \/ DriverRequestExit(s) \/ SignalTermination(s)

JobStep(p) == (TakeBatches(p) /\ UNCHANGED srcVars) \/ InjectMsg(p)

CompleteStep(p) == Complete(p) /\ UNCHANGED srcVars

Step ==
  \/ \E s \in Sources : \/ SourceStep(s) \/ BlockingPost(s) \/ FetcherEvents(s)
                         \/ ShutdownEvent(s) \/ AckStep(s) \/ ExitStep(s)
  \/ \E p \in Partitions : JobStep(p) \/ CompleteStep(p)
  \/ RequestExit

\* The sources have ended, or the process has.
Finished == crashed \/ \A s \in Sources : pc[s] = "ended"

Next ==
  \/ ~crashed /\ Step
  \/ Finished /\ UNCHANGED vars

Spec == Init /\ [][Next]_vars

-----------------------------------------------------------------------------
(* Properties.  TLC looks for deadlocks, too: a state in which a source has  *)
(* not ended and nobody can take a step.                                   *)

\* What is on its way to partition p, in the order in which p will inject it: the
\* batches that its job took, those that wait, and what s has collected.
Lists(s, p) == part[p].taken \o part[p].batches \o <<state[s].batch[p]>>

\* The numbers of the messages of s among them.
OnTheWay(s, p) == {m[2] : m \in {x \in UNION {Range(b) : b \in Range(Lists(s, p))} : x[1] = s}}

\* The messages of each thread come in the order of their numbers.
InOrder(lists) ==
  \A i, k \in DOMAIN lists : \A j \in DOMAIN lists[i], l \in DOMAIN lists[k] :
     (i < k \/ (i = k /\ j < l)) /\ lists[i][j][1] = lists[k][l][1] => lists[i][j][2] < lists[k][l][2]

\* Every message that was posted is on its way to one partition or was injected,
\* once, and each partition injects the messages of a thread in the order in
\* which the thread posted them.
NothingLost ==
  \A s \in Sources :
     /\ injected.all[s] \cup UNION {OnTheWay(s, p) : p \in Partitions} = 1 .. posted[s]
     /\ \A p \in Partitions :
          /\ OnTheWay(s, p) \cap injected.all[s] = {}
          /\ \A q \in Partitions \ {p} : OnTheWay(s, p) \cap OnTheWay(s, q) = {}
          /\ \A n \in OnTheWay(s, p) : injected.last[p][s] < n
          /\ InOrder(Lists(s, p))

\* A batch that waits in a partition has a job that will take it, or a thread
\* about to submit one, unless the restart of the job was refused because the
\* workers quit; a job is submitted only when it does not run, by one thread
\* (the assertions on io_job.working).
NoStrandedBatch ==
  \A p \in Partitions :
     LET submitters == {s \in Sources : flush[s].submit /\ flush[s].at = p} IN
     /\ part[p].batches # <<>> => part[p].job # "idle" \/ submitters # {} \/ quit
     /\ submitters # {} => part[p].job = "idle"
     /\ \A r, s \in submitters : r = s

\* A worker that sleeps although it could send, or was asked to exit, will be
\* woken up; a fetcher waits for exactly one thing, and when that is the window,
\* for an acknowledgement that is still to come or a wakeup on its way.  What a
\* source waits for is never in its own hands: it has closed its batch.
NoLostWakeup ==
  /\ \A s \in Workers :
       pc[s] = "asleep" /\ ~awoken[s] =>
          /\ FreeToSend(s) => wakes[s] > 0 \/ s \in exits
          /\ term[s] => s \in exits
  /\ \A s \in Fetchers :
       pc[s] = "loop" =>
          \/ loop[s].task /\ loop[s].timer = "none" /\ ~loop[s].suspended
          \/ loop[s].timer # "none" /\ ~loop[s].task /\ ~loop[s].suspended
          \/ /\ loop[s].suspended /\ ~loop[s].task /\ loop[s].timer = "none"
             /\ FreeToSend(s) => wakes[s] + posting[s] > 0 \/ loop[s].wakeup \/ term[s]
  /\ \A s \in Sources :
       pc[s] = "asleep" \/ (pc[s] = "loop" /\ loop[s].suspended) => state[s].num = 0

\* A source does not post into a full window (the assertion of log_source_post()),
\* but for a worker that was let go by under_termination before its driver has
\* been told to stop.
OverrunOnlyAtExit ==
  \A s \in Sources : window[s] < 0 => s \in Workers /\ term[s]

=============================================================================
