------------------------------ MODULE LogReader ------------------------------
(***************************************************************************)
(* A source that reads from a file or a connection: the LogReader          *)
(* (lib/logreader.c), the LogSource it is built on with its flow-control   *)
(* window (lib/logsource.c, lib/window-size-counter.c), the dynamic part   *)
(* of the window borrowed from a pool (lib/dynamic-window*.c) and the ack  *)
(* tracker: the consecutive one of files, which saves bookmarks in order   *)
(* (lib/ack-tracker/consecutive_ack_tracker.c), or the instant one of      *)
(* sockets (lib/ack-tracker/instant_ack_tracker_bookmarkless.c).           *)
(*                                                                         *)
(* Three kinds of threads touch it.  The main thread owns the watches,     *)
(* the pool and full_window_size; an I/O worker runs the fetch job, the    *)
(* only place where the window shrinks outside of a reallocation; the      *)
(* destination threads acknowledge messages, in any order.  Every atomic   *)
(* operation on shared state is a step of its own.                         *)
(*                                                                         *)
(* Messages are numbered in the order they are read; a bookmark is the     *)
(* number of the message it belongs to.  A failed g_assert() ends the      *)
(* program: it sets "abort" and no action is enabled after that.           *)
(***************************************************************************)
EXTENDS Integers, Sequences, FiniteSets, FiniteSetsExt

CONSTANTS
  Dest,        \* destination threads that acknowledge messages
  None,        \* no thread holds the tracker's lock
  Tracker,     \* the ack tracker: "consecutive" or "instant"
  Readers,     \* the readers to look at: [notified, window], see Notified and InitWindow
  PoolSize,    \* dynamic-window-size(), 0 when the dynamic window is off
  MaxConns,    \* connections of the driver that share the pool
  FetchLimit,  \* log_fetch_limit()
  MaxMsgs,     \* bound on the number of messages in the input
  MaxReallocs, \* bound on the ticks of the dynamic window timer
  AckTypes,    \* the AckTypes destinations use
  MayClose     \* the peer may close: the readers are connections, not followed files

ASSUME ReaderConstants ==
  /\ None \notin Dest /\ IsFiniteSet(Dest) /\ Tracker \in {"consecutive", "instant"}
  /\ Readers \subseteq [notified : BOOLEAN, window : Nat \ {0}]
  /\ PoolSize \in Nat /\ MaxConns \in Nat \ {0}
  /\ FetchLimit \in Nat \ {0} /\ MaxMsgs \in Nat /\ MaxReallocs \in Nat
  /\ AckTypes \subseteq {"PROCESSED", "ABORTED", "SUSPENDED"}
  /\ MayClose \in BOOLEAN
  /\ MayClose => \A r \in Readers : ~r.notified

VARIABLES
  reader,     \* the reader's options, one of Readers
  job,        \* the fetch job: [pc, cnt, code]; io_job.working is pc # "idle"
  suspended,  \* LogReader.suspended
  watch,      \* the descriptor is being polled
  restart,    \* restart_task is registered
  posted,     \* schedule_wakeup is pending
  registered, \* schedule_wakeup is registered
  init,       \* PIF_INITIALIZED
  again,      \* realloc_window_after_fetch
  main,       \* the main thread: [pc, total, dec, sub, then]
  window,     \* the counter of the window
  susp,       \* the suspend bit of the same word
  full,       \* full_window_size
  free,       \* free_window of the pool
  balanced,   \* balanced_window of the pool
  toReclaim,  \* window_size_to_be_reclaimed
  reclaimed,  \* pending_reclaimed
  ticks,      \* ticks of the dynamic window timer so far
  input,      \* messages written to the input so far
  modified,   \* a notification of a modification is on its way
  next,       \* number of the next message to read
  pending,    \* pending_ack_record is set
  recs,       \* the ack records being tracked, oldest first
  acked,      \* the records whose acked flag is set
  inflight,   \* messages handed to the destinations and not acknowledged
  saved,      \* the bookmark that is saved
  dst,        \* destination threads: [pc, type, inc, taken]
  lock,       \* holder of the consecutive tracker's mutex
  freed,      \* log_source_free() has run
  abort       \* the assertion that failed, or "no"

readerVars == <<job, suspended, watch, restart>>
eventVars == <<posted, registered, init>>
mainVars == <<main, again, ticks>>
poolVars == <<full, free, balanced>>
reclaimVars == <<toReclaim, reclaimed>>
trackVars == <<pending, recs, acked, saved>>
msgVars == <<input, modified, next, inflight>>
ackVars == <<dst, lock>>
state == <<readerVars, eventVars, mainVars, window, susp, poolVars, reclaimVars,
           trackVars, msgVars, ackVars, freed, abort>>
vars == <<reader, state>>

\* The poll events are FM_INOTIFY: a file followed by notification.
Notified == reader.notified

\* log_iw_size(): the static part of the window
InitWindow == reader.window

Dynamic == PoolSize > 0
Instant == Tracker = "instant"
Msgs == 1 .. MaxMsgs
Idle == [pc |-> "loop", total |-> 0, dec |-> 0, sub |-> 0, then |-> FALSE]
Working == job.pc # "idle"

\* The number of records the container can hold: the static one is a ring of
\* init_window_size slots, the dynamic one a list.  The instant tracker has a
\* record for every message.
Capacity == IF Dynamic \/ Instant THEN MaxMsgs + 1 ELSE InitWindow

\* window_size_counter_suspended(): zero, or the suspend bit is set.
CounterSuspended == window = 0 \/ susp

\* log_source_free_to_send()
FreeToSend == ~CounterSuspended

\* Mutant: every acknowledged record counts, not only the leading ones.
RangeLength_AnyAcked == Cardinality({i \in 1 .. Len(recs) : recs[i] \in acked})

\* consecutive_ack_record_container_get_continual_range_length()
RangeLength == Max({n \in 0 .. Len(recs) : \A i \in 1 .. n : recs[i] \in acked})

Init ==
  /\ reader \in Readers
  /\ job = [pc |-> "idle", cnt |-> 0, code |-> "ok"]
  /\ suspended = FALSE /\ watch = ~Notified /\ restart = FALSE
  /\ posted = FALSE /\ registered = TRUE /\ init = TRUE
  /\ again = FALSE /\ main = Idle /\ ticks = 0
  /\ window = InitWindow /\ susp = FALSE
  /\ full = InitWindow /\ free = PoolSize /\ balanced = 0
  /\ toReclaim = 0 /\ reclaimed = 0
  /\ input = 0 /\ modified = FALSE
  /\ next = 1 /\ pending = FALSE /\ recs = <<>> /\ acked = {} /\ saved = 0
  /\ inflight = {} /\ freed = FALSE
  /\ dst = [d \in Dest |-> [pc |-> "idle", type |-> "PROCESSED", inc |-> 0, taken |-> 0]]
  /\ lock = None
  /\ abort = "no"

Running == abort = "no"
InMainLoop == main.pc = "loop" /\ Running

-----------------------------------------------------------------------------
(***************************************************************************)
(* The watches, in the main thread.                                        *)
(***************************************************************************)

\* Something of the input is not read yet.
Unread == next <= input

\* log_reader_force_check_in_next_poll()
ForceCheck ==
  /\ watch' = FALSE /\ suspended' = FALSE /\ restart' = TRUE

\* Mutant: a file followed by notification is not checked again for its end.
UpdateWatches_NoRecheck ==
  \/ /\ ~FreeToSend
     /\ watch' = FALSE /\ suspended' = TRUE /\ UNCHANGED restart
  \/ /\ FreeToSend
     /\ watch' = ~Notified /\ suspended' = FALSE /\ UNCHANGED restart

\* log_reader_update_watches(): poll_prepare() answers LPPA_POLL_IO, or
\* LPPA_FORCE_SCHEDULE_FETCH when a message is left in the protocol's buffer.
\* A file followed by notification is not polled: when it is not at its end,
\* _reader_check_watches() triggers one check instead.
UpdateWatches ==
  \/ /\ ~FreeToSend
     /\ watch' = FALSE /\ suspended' = TRUE /\ UNCHANGED restart
  \/ /\ FreeToSend /\ (Unread => ~Notified)
     /\ watch' = ~Notified /\ suspended' = FALSE /\ UNCHANGED restart
  \/ FreeToSend /\ Unread /\ ForceCheck

\* log_reader_io_handle_in(): the watches are disabled and the job submitted,
\* with g_assert(working == FALSE) in main_loop_io_worker_job_submit().
HandleIn ==
  /\ watch' = FALSE
  /\ IF Working
       THEN abort' = "job" /\ UNCHANGED job
       ELSE /\ job' = [pc |-> "fetch", cnt |-> 0, code |-> "ok"]
            /\ UNCHANGED abort

\* poll_events_invoke_callback(): the descriptor became readable.
PollReady ==
  /\ InMainLoop /\ watch
  /\ Unread \/ MayClose
  /\ HandleIn
  /\ UNCHANGED <<suspended, restart, eventVars, mainVars, window, susp,
                 poolVars, reclaimVars, trackVars, msgVars, ackVars, freed>>

RestartTask ==
  /\ InMainLoop /\ restart
  /\ restart' = FALSE
  /\ HandleIn
  /\ UNCHANGED <<suspended, eventVars, mainVars, window, susp, poolVars,
                 reclaimVars, trackVars, msgVars, ackVars, freed>>

\* log_reader_wakeup_triggered(); the assertion on watches_running is in
\* log_reader_update_watches().
WakeupTriggered ==
  /\ InMainLoop /\ posted
  /\ posted' = FALSE
  /\ IF Working \/ ~suspended
       THEN UNCHANGED <<watch, suspended, restart, abort>>
       ELSE IF ~init
              THEN abort' = "watches" /\ UNCHANGED <<watch, suspended, restart>>
              ELSE UpdateWatches /\ UNCHANGED abort
  /\ UNCHANGED <<job, registered, init, mainVars, window, susp, poolVars,
                 reclaimVars, trackVars, msgVars, ackVars, freed>>

\* log_reader_trigger_one_check(), from the notification that a followed file
\* was modified (_on_file_modified() in modules/affile/file-reader.c).
FileModified ==
  /\ InMainLoop /\ modified
  /\ modified' = FALSE
  /\ IF Working THEN UNCHANGED <<watch, suspended, restart>> ELSE ForceCheck
  /\ UNCHANGED <<job, eventVars, mainVars, window, susp, poolVars, reclaimVars,
                 trackVars, input, next, inflight, ackVars, freed, abort>>

\* The environment: a message is written to the input.  A file followed by
\* notification has its modification notified.
Arrive ==
  /\ Running /\ init /\ input < MaxMsgs
  /\ input' = input + 1
  /\ modified' = (modified \/ Notified)
  /\ UNCHANGED <<readerVars, eventVars, mainVars, window, susp, poolVars,
                 reclaimVars, trackVars, next, inflight, ackVars, freed, abort>>

-----------------------------------------------------------------------------
(***************************************************************************)
(* The fetch job, in an I/O worker.                                        *)
(***************************************************************************)

\* One turn of the loop of log_reader_fetch_log(): the limit, the bookmark
\* requested from the tracker, the fetch.
Fetch ==
  /\ job.pc = "fetch" /\ Running
  /\ \/ /\ job.cnt >= FetchLimit
        /\ job' = [job EXCEPT !.pc = "done", !.code = "again"]
        /\ UNCHANGED pending
     \/ /\ job.cnt < FetchLimit /\ lock = None
        /\ pending' = (pending \/ Len(recs) < Capacity)
        /\ \/ Unread /\ job' = [job EXCEPT !.pc = "track", !.cnt = @ + 1]
           \/ /\ ~Unread \/ job.cnt > 0
              /\ job' = [job EXCEPT !.pc = "done"]
           \/ /\ ~Unread /\ MayClose
              /\ job' = [job EXCEPT !.pc = "done", !.code = "close"]
  /\ UNCHANGED <<suspended, watch, restart, eventVars, mainVars, window, susp,
                 poolVars, reclaimVars, recs, acked, saved, msgVars, ackVars, freed, abort>>

\* ack_tracker_track_msg(): the message takes the pending record, which the
\* consecutive tracker appends to its records.
TrackMsg ==
  /\ job.pc = "track" /\ Running /\ lock = None
  /\ IF pending
       THEN /\ recs' = IF Instant THEN recs ELSE Append(recs, next)
            /\ pending' = FALSE
            /\ job' = [job EXCEPT !.pc = "post"]
            /\ UNCHANGED abort
       ELSE abort' = "record" /\ UNCHANGED <<recs, pending, job>>
  /\ UNCHANGED <<suspended, watch, restart, eventVars, mainVars, window, susp,
                 poolVars, reclaimVars, acked, saved, msgVars, ackVars,
                 freed>>

\* The rest of log_source_post(): the window is decremented, with its
\* assertion, and the message forwarded to the destinations.
Post ==
  /\ job.pc = "post" /\ Running
  /\ IF window > 0
       THEN /\ window' = window - 1
            /\ inflight' = inflight \cup {next}
            /\ next' = next + 1
            /\ job' = [job EXCEPT !.pc = "check"]
            /\ UNCHANGED abort
       ELSE abort' = "window" /\ UNCHANGED <<window, inflight, next, job>>
  /\ UNCHANGED <<suspended, watch, restart, eventVars, mainVars, susp, poolVars,
                 reclaimVars, trackVars, input, modified, ackVars, freed>>

\* Mutant: the window is not checked between two messages of a fetch.
CheckWindow_Skipped ==
  /\ job.pc = "check" /\ Running
  /\ job' = [job EXCEPT !.pc = "fetch"]
  /\ UNCHANGED <<suspended, watch, restart, eventVars, mainVars, window, susp,
                 poolVars, reclaimVars, trackVars, msgVars, ackVars, freed, abort>>

\* log_reader_handle_line() returns log_source_free_to_send().
CheckWindow ==
  /\ job.pc = "check" /\ Running
  /\ job' = [job EXCEPT !.pc = IF FreeToSend THEN "fetch" ELSE "done"]
  /\ UNCHANGED <<suspended, watch, restart, eventVars, mainVars, window, susp,
                 poolVars, reclaimVars, trackVars, msgVars, ackVars, freed, abort>>

-----------------------------------------------------------------------------
(***************************************************************************)
(* Completion of the job, closing and freeing.                             *)
(***************************************************************************)

\* What log_reader_work_finished() ends with: update_watches, and one more
\* check when the limit was hit on a file followed by notification.
AfterFetch ==
  IF job.code = "again" /\ Notified THEN ForceCheck ELSE UpdateWatches

\* afsocket_sd_close_connection() up to the end of log_reader_deinit(): the
\* watches and the restart task are stopped, the event is unregistered.
Close ==
  /\ watch' = FALSE /\ restart' = FALSE
  /\ registered' = FALSE /\ posted' = FALSE
  /\ main' = [main EXCEPT !.pc = "deinit"]
  /\ UNCHANGED <<suspended, init, again>>

\* log_reader_work_finished()
WorkFinished ==
  /\ InMainLoop /\ job.pc = "done"
  /\ job' = [job EXCEPT !.pc = "idle"]
  /\ \/ job.code = "close" /\ Close
     \/ /\ job.code # "close" /\ again
        /\ again' = FALSE
        /\ main' = [main EXCEPT !.pc = "total", !.then = TRUE]
        /\ UNCHANGED <<suspended, watch, restart, eventVars>>
     \/ /\ job.code # "close" /\ ~again
        /\ AfterFetch
        /\ UNCHANGED <<eventVars, main, again>>
  /\ UNCHANGED <<ticks, window, susp, poolVars, reclaimVars, trackVars, msgVars,
                 ackVars, freed, abort>>

\* log_reader_idle_timeout(): the timer runs while the descriptor is polled.
IdleTimeout ==
  /\ InMainLoop /\ MayClose /\ watch
  /\ Close
  /\ UNCHANGED <<job, ticks, window, susp, poolVars, reclaimVars, trackVars,
                 msgVars, ackVars, freed, abort>>

\* log_pipe_deinit() clears PIF_INITIALIZED once the deinit method returned.
ClearInitialized ==
  /\ main.pc = "deinit" /\ Running
  /\ init' = FALSE
  /\ main' = Idle
  /\ UNCHANGED <<readerVars, posted, registered, again, ticks, window, susp,
                 poolVars, reclaimVars, trackVars, msgVars, ackVars, freed, abort>>

\* log_source_free(), in the thread that drops the last reference: tracked
\* messages and acknowledgements in progress hold one each.  The dynamic part
\* of the window is given back, with the assertion of window_size_counter_sub().
Free ==
  /\ Running /\ ~freed /\ ~init /\ job.pc = "idle"
  /\ inflight = {} /\ \A d \in Dest : dst[d].pc = "idle"
  /\ freed' = TRUE
  /\ IF Dynamic /\ window < full - InitWindow
       THEN abort' = "release" /\ UNCHANGED <<window, full, free>>
       ELSE /\ window' = window - (full - InitWindow)
            /\ full' = InitWindow
            /\ free' = free + (full - InitWindow)
            /\ UNCHANGED abort
  /\ UNCHANGED <<readerVars, eventVars, mainVars, susp, balanced, reclaimVars,
                 trackVars, msgVars, ackVars>>

-----------------------------------------------------------------------------
(***************************************************************************)
(* The dynamic part of the window, in the main thread.                     *)
(***************************************************************************)

\* Connections of the driver other than this one take windows from the pool
\* and give them back.
OtherConnections ==
  /\ InMainLoop /\ Dynamic /\ ~freed
  /\ \E f \in 0 .. Min({PoolSize, PoolSize - (full - InitWindow)}) : free' = f
  /\ UNCHANGED <<readerVars, eventVars, mainVars, window, susp, full, balanced,
                 reclaimVars, trackVars, msgVars, ackVars, freed, abort>>

\* _on_dynamic_window_timer_elapsed(): the pool is divided among the
\* connections and each is told to reallocate, which a working one puts off.
WindowTimer ==
  /\ InMainLoop /\ Dynamic /\ init /\ ticks < MaxReallocs
  /\ ticks' = ticks + 1
  /\ \E n \in 1 .. MaxConns :
       balanced' = IF PoolSize \div n = 0 THEN balanced ELSE PoolSize \div n
  /\ IF Working
       THEN again' = TRUE /\ UNCHANGED main
       ELSE main' = [main EXCEPT !.pc = "total"] /\ UNCHANGED again
  /\ UNCHANGED <<readerVars, eventVars, window, susp, full, free, reclaimVars,
                 trackVars, msgVars, ackVars, freed, abort>>

\* dynamic_window_pool_release(), with its assertion.
PoolRelease(n) ==
  /\ free' = free + n
  /\ abort' = IF free + n > PoolSize THEN "pool" ELSE "no"

\* _reclaim_window_instead_of_rebalance(): pending_reclaimed is exchanged.
TakeTotal ==
  /\ main.pc = "total" /\ Running
  /\ main' = [main EXCEPT !.pc = "reclaim", !.total = reclaimed]
  /\ reclaimed' = 0
  /\ UNCHANGED <<readerVars, eventVars, again, ticks, window, susp, poolVars,
                 toReclaim, trackVars, msgVars, ackVars, freed, abort>>

\* Its second half reads window_size_to_be_reclaimed.
Reclaim ==
  /\ main.pc = "reclaim" /\ Running
  /\ full' = full - main.total
  /\ PoolRelease(main.total)
  /\ main' = [main EXCEPT !.total = 0,
                          !.pc = IF main.total = 0 /\ toReclaim < 0 THEN "clear"
                                 ELSE IF toReclaim > 0 THEN "end" ELSE "balance"]
  /\ UNCHANGED <<readerVars, eventVars, again, ticks, window, susp, balanced,
                 reclaimVars, trackVars, msgVars, ackVars, freed>>

\* "to avoid underflow, we need to set a value <= 0"
ClearReclaim ==
  /\ main.pc = "clear" /\ Running
  /\ toReclaim' = 0
  /\ main' = [main EXCEPT !.pc = "balance"]
  /\ UNCHANGED <<readerVars, eventVars, again, ticks, window, susp, poolVars,
                 reclaimed, trackVars, msgVars, ackVars, freed, abort>>

\* log_reader_wakeup() in the main thread
PostWakeup == posted' = (posted \/ init)

\* _inc_balanced()
IncBalanced(inc) ==
  LET offered == Min({free, inc}) IN
  /\ free' = free - offered
  /\ full' = full + offered
  /\ window' = window + offered
  /\ IF window = 0 /\ offered # 0 THEN PostWakeup ELSE UNCHANGED posted
  /\ main' = [main EXCEPT !.pc = "end"]

\* The first part of _dec_balanced(): what can be taken from the window now,
\* all of it but one slot at most, and what is left to be reclaimed.  The
\* sizes are unsigned: a negative difference is larger than every window.
DecBalanced(dec) ==
  LET fits == dec >= 0 /\ window > dec IN
      /\ main' = [main EXCEPT !.pc = IF fits THEN "sub" ELSE "remain",
                              !.sub = IF fits THEN dec ELSE Max({window - 1, 0}),
                              !.dec = IF fits THEN 0 ELSE dec - window]
      /\ UNCHANGED <<posted, window, full, free>>

\* _dynamic_window_rebalance()
Rebalance ==
  /\ main.pc = "balance" /\ Running
  /\ LET current == full - InitWindow IN
       \/ current \in 0 .. balanced - 1 /\ IncBalanced(balanced - current)
       \/ current \notin 0 .. balanced /\ DecBalanced(current - balanced)
       \/ /\ current = balanced
          /\ main' = [main EXCEPT !.pc = "end"]
          /\ UNCHANGED <<posted, window, full, free>>
  /\ UNCHANGED <<readerVars, registered, init, again, ticks, susp, balanced,
                 reclaimVars, trackVars, msgVars, ackVars, freed, abort>>

\* _reclaim_dynamic_window(), with its assertion.
SetReclaim ==
  /\ main.pc = "remain" /\ Running
  /\ IF full - main.dec >= InitWindow
       THEN /\ toReclaim' = main.dec
            /\ main' = [main EXCEPT !.pc = "sub", !.dec = 0]
            /\ UNCHANGED abort
       ELSE abort' = "reclaim" /\ UNCHANGED <<toReclaim, main>>
  /\ UNCHANGED <<readerVars, eventVars, again, ticks, window, susp, poolVars,
                 reclaimed, trackVars, msgVars, ackVars, freed>>

\* The rest of _dec_balanced().
SubBalanced ==
  /\ main.pc = "sub" /\ Running
  /\ window' = window - main.sub
  /\ full' = full - main.sub
  /\ PoolRelease(main.sub)
  /\ main' = [main EXCEPT !.pc = "end", !.sub = 0]
  /\ UNCHANGED <<readerVars, eventVars, again, ticks, susp, balanced, reclaimVars,
                 trackVars, msgVars, ackVars, freed>>

\* The end of log_source_dynamic_window_realloc(), and of the
\* log_reader_work_finished() that called it.
EndRealloc ==
  /\ main.pc = "end" /\ Running
  /\ main' = Idle
  /\ IF main.then THEN AfterFetch ELSE UNCHANGED <<suspended, watch, restart>>
  /\ UNCHANGED <<job, eventVars, again, ticks, window, susp, poolVars, reclaimVars,
                 trackVars, msgVars, ackVars, freed, abort>>

-----------------------------------------------------------------------------
(***************************************************************************)
(* Acknowledgement, in a destination's thread: ack_tracker_manage_msg_ack() *)
(* and the adjustment of the window it makes, which the consecutive        *)
(* tracker makes while it holds its mutex.                                 *)
(***************************************************************************)

\* The first step of _flow_control_window_size_adjust().
Adjusting == IF Dynamic THEN "take" ELSE "add"

\* The acknowledgement of a message begins.  The instant tracker adjusts the
\* window at once; the consecutive one sets the acked flag, before it takes
\* its mutex.
MsgAck(d) ==
  /\ Running /\ dst[d].pc = "idle"
  /\ \E m \in inflight, t \in AckTypes :
       /\ inflight' = inflight \ {m}
       /\ acked' = IF Instant THEN acked ELSE acked \cup {m}
       /\ dst' = [dst EXCEPT ![d].type = t, ![d].inc = IF Instant THEN 1 ELSE 0,
                             ![d].pc = IF Instant THEN Adjusting
                                       ELSE IF t = "SUSPENDED" THEN "suspend" ELSE "lock"]
  /\ UNCHANGED <<readerVars, eventVars, mainVars, window, susp, poolVars, reclaimVars,
                 pending, recs, saved, input, modified, next, lock, freed, abort>>

\* log_source_flow_control_suspend(): without the mutex in the consecutive
\* tracker, as the last step in the instant one.
Suspend(d) ==
  /\ Running /\ dst[d].pc = "suspend"
  /\ susp' = TRUE
  /\ dst' = [dst EXCEPT ![d].pc = IF Instant THEN "idle" ELSE "lock"]
  /\ UNCHANGED <<readerVars, eventVars, mainVars, window, poolVars, reclaimVars,
                 trackVars, msgVars, lock, freed, abort>>

\* Mutant: the bookmark saved is the first of the range, not the last.
Untrack_FirstBookmark(d) ==
  /\ Running /\ dst[d].pc = "lock" /\ lock = None
  /\ LET n == RangeLength IN
       /\ saved' = IF n > 0 /\ dst[d].type # "ABORTED" THEN recs[1] ELSE saved
       /\ recs' = SubSeq(recs, n + 1, Len(recs))
       /\ acked' = acked \ {recs[i] : i \in 1 .. n}
       /\ lock' = IF n > 0 THEN d ELSE None
       /\ dst' = [dst EXCEPT ![d].inc = n,
                             ![d].pc = IF n = 0 THEN "idle" ELSE Adjusting]
  /\ UNCHANGED <<readerVars, eventVars, mainVars, window, susp, poolVars, reclaimVars,
                 pending, msgVars, freed, abort>>

\* _ack_records_untrack_msg(): the leading acknowledged records go, and the
\* bookmark of the last of them is saved.
Untrack(d) ==
  /\ Running /\ dst[d].pc = "lock" /\ lock = None
  /\ LET n == RangeLength IN
       /\ saved' = IF n > 0 /\ dst[d].type # "ABORTED" THEN recs[n] ELSE saved
       /\ recs' = SubSeq(recs, n + 1, Len(recs))
       /\ acked' = acked \ {recs[i] : i \in 1 .. n}
       /\ lock' = IF n > 0 THEN d ELSE None
       /\ dst' = [dst EXCEPT ![d].inc = n,
                             ![d].pc = IF n = 0 THEN "idle" ELSE Adjusting]
  /\ UNCHANGED <<readerVars, eventVars, mainVars, window, susp, poolVars, reclaimVars,
                 pending, msgVars, freed, abort>>

\* _take_reclaimed_window(): the part of the increment that is to be reclaimed.
TakeReclaimed(d) ==
  /\ Running /\ dst[d].pc = "take"
  /\ toReclaim' = toReclaim - dst[d].inc
  /\ LET taken == Max({0, Min({toReclaim, dst[d].inc})}) IN
       dst' = [dst EXCEPT ![d].inc = @ - taken, ![d].taken = taken,
                          ![d].pc = IF toReclaim > 0 THEN "pend" ELSE "add"]
  /\ UNCHANGED <<readerVars, eventVars, mainVars, window, susp, poolVars, reclaimed,
                 trackVars, msgVars, lock, freed, abort>>

\* Mutant: pending_reclaimed is overwritten instead of increased.
AddReclaimed_Overwrites(d) ==
  /\ Running /\ dst[d].pc = "pend"
  /\ reclaimed' = dst[d].taken
  /\ dst' = [dst EXCEPT ![d].taken = 0, ![d].pc = "add"]
  /\ UNCHANGED <<readerVars, eventVars, mainVars, window, susp, poolVars, toReclaim,
                 trackVars, msgVars, lock, freed, abort>>

\* It is added to pending_reclaimed by a second atomic operation.
AddReclaimed(d) ==
  /\ Running /\ dst[d].pc = "pend"
  /\ reclaimed' = reclaimed + dst[d].taken
  /\ dst' = [dst EXCEPT ![d].taken = 0, ![d].pc = "add"]
  /\ UNCHANGED <<readerVars, eventVars, mainVars, window, susp, poolVars, toReclaim,
                 trackVars, msgVars, lock, freed, abort>>

\* last_ack_type_is_suspended: the instant tracker never says so.
LastAckSuspended(d) == ~Instant /\ dst[d].type = "SUSPENDED"

\* What is left after the adjustment.
Adjusted(d) == IF Instant /\ dst[d].type = "SUSPENDED" THEN "suspend" ELSE "idle"

\* Mutant: the window grows by one whatever the length of the range.
AddWindow_ByOne(d) ==
  /\ Running /\ dst[d].pc = "add"
  /\ window' = window + 1
  /\ LET resume == CounterSuspended /\ ~LastAckSuspended(d)
         wake == window = 0
     IN  /\ dst' = [dst EXCEPT ![d].inc = 0,
                               ![d].pc = IF resume THEN "resume"
                                         ELSE IF wake THEN "wake" ELSE Adjusted(d)]
         /\ lock' = IF resume \/ wake THEN lock ELSE None
  /\ UNCHANGED <<readerVars, eventVars, mainVars, susp, poolVars, reclaimVars,
                 trackVars, msgVars, freed, abort>>

\* Mutant: only the suspend bit makes the source wake up, not an empty window.
AddWindow_BitOnly(d) ==
  /\ Running /\ dst[d].pc = "add"
  /\ window' = window + dst[d].inc
  /\ LET resume == susp /\ ~LastAckSuspended(d)
     IN  /\ dst' = [dst EXCEPT ![d].inc = 0,
                               ![d].pc = IF resume THEN "resume" ELSE Adjusted(d)]
         /\ lock' = IF resume THEN lock ELSE None
  /\ UNCHANGED <<readerVars, eventVars, mainVars, susp, poolVars, reclaimVars,
                 trackVars, msgVars, freed, abort>>

\* window_size_counter_add() in _flow_control_window_size_adjust()
AddWindow(d) ==
  /\ Running /\ dst[d].pc = "add"
  /\ window' = window + dst[d].inc
  /\ LET resume == CounterSuspended /\ ~LastAckSuspended(d)
         wake == window = 0
     IN  /\ dst' = [dst EXCEPT ![d].inc = 0,
                               ![d].pc = IF resume THEN "resume"
                                         ELSE IF wake THEN "wake" ELSE Adjusted(d)]
         /\ lock' = IF resume \/ wake THEN lock ELSE None
  /\ UNCHANGED <<readerVars, eventVars, mainVars, susp, poolVars, reclaimVars,
                 trackVars, msgVars, freed, abort>>

\* window_size_counter_resume()
Resume(d) ==
  /\ Running /\ dst[d].pc = "resume"
  /\ susp' = FALSE
  /\ dst' = [dst EXCEPT ![d].pc = "wake"]
  /\ UNCHANGED <<readerVars, eventVars, mainVars, window, poolVars, reclaimVars,
                 trackVars, msgVars, lock, freed, abort>>

\* log_reader_wakeup(): PIF_INITIALIZED is tested ...
Wake(d) ==
  /\ Running /\ dst[d].pc = "wake"
  /\ dst' = [dst EXCEPT ![d].pc = IF init THEN "event" ELSE Adjusted(d)]
  /\ lock' = IF init THEN lock ELSE None
  /\ UNCHANGED <<readerVars, eventVars, mainVars, window, susp, poolVars, reclaimVars,
                 trackVars, msgVars, freed, abort>>

\* ... and then the event is posted.
PostEvent(d) ==
  /\ Running /\ dst[d].pc = "event"
  /\ posted' = TRUE
  /\ dst' = [dst EXCEPT ![d].pc = Adjusted(d)]
  /\ lock' = None
  /\ UNCHANGED <<readerVars, registered, init, mainVars, window, susp, poolVars,
                 reclaimVars, trackVars, msgVars, freed, abort>>

-----------------------------------------------------------------------------
Watches == PollReady \/ RestartTask \/ WakeupTriggered \/ FileModified
Fetching == Fetch \/ TrackMsg \/ Post \/ CheckWindow
Closing == WorkFinished \/ IdleTimeout \/ ClearInitialized \/ Free
Reallocation == \/ TakeTotal \/ Reclaim \/ ClearReclaim \/ Rebalance
                \/ SetReclaim \/ SubBalanced \/ EndRealloc
Acknowledge(d) == \/ Suspend(d) \/ Untrack(d) \/ TakeReclaimed(d)
                  \/ AddReclaimed(d) \/ AddWindow(d) \/ Resume(d)
                  \/ Wake(d) \/ PostEvent(d)

Step ==
  \/ Watches \/ Arrive \/ Fetching \/ Closing
  \/ OtherConnections \/ WindowTimer \/ Reallocation
  \/ \E d \in Dest : MsgAck(d) \/ Acknowledge(d)

Next == Step /\ UNCHANGED reader

Spec == Init /\ [][Next]_vars

\* The main loop dispatches what is ready, a submitted job runs, and the
\* destinations acknowledge what they were given.
Fairness ==
  /\ WF_state(PollReady) /\ WF_state(RestartTask) /\ WF_state(WakeupTriggered)
  /\ WF_state(FileModified) /\ WF_state(WorkFinished)
  /\ WF_state(Fetching) /\ WF_state(Reallocation)
  /\ \A d \in Dest : WF_state(MsgAck(d)) /\ WF_state(Acknowledge(d))

LiveSpec == Spec /\ Fairness

-----------------------------------------------------------------------------
(***************************************************************************)
(* Properties.                                                             *)
(***************************************************************************)
JobPcs == {"idle", "fetch", "track", "post", "check", "done"}
MainPcs == {"loop", "deinit", "total", "reclaim", "clear", "balance", "remain",
            "sub", "end"}
DstPcs == {"idle", "suspend", "lock", "take", "pend", "add", "resume", "wake",
           "event"}

\* Every variable keeps its type: the window and what is reclaimed never
\* become negative (lib/window-size-counter.c:71, lib/logsource.c:52).
TypeOK ==
  /\ reader \in Readers
  /\ job \in [pc : JobPcs, cnt : Nat, code : {"ok", "again", "close"}]
  /\ suspended \in BOOLEAN /\ watch \in BOOLEAN /\ restart \in BOOLEAN
  /\ posted \in BOOLEAN /\ registered \in BOOLEAN /\ init \in BOOLEAN
  /\ again \in BOOLEAN /\ ticks \in Nat
  /\ main \in [pc : MainPcs, total : Nat, dec : Int, sub : Nat, then : BOOLEAN]
  /\ window \in Nat /\ susp \in BOOLEAN
  /\ full \in Int /\ free \in Nat /\ balanced \in Nat
  /\ toReclaim \in Int /\ reclaimed \in Nat
  /\ input \in Nat /\ modified \in BOOLEAN /\ next \in Nat /\ pending \in BOOLEAN
  /\ recs \in Seq(Nat) /\ acked \subseteq Nat /\ inflight \subseteq Nat /\ saved \in Nat
  /\ dst \in [Dest -> [pc : DstPcs, type : {"PROCESSED", "ABORTED", "SUSPENDED"},
                       inc : Nat, taken : Nat]]
  /\ lock \in Dest \cup {None}
  /\ freed \in BOOLEAN
  /\ abort \in {"no", "job", "watches", "record", "window", "release", "pool",
                "reclaim"}

\* The slots of the window that messages occupy.
Occupied == IF Instant THEN Cardinality(inflight)
            ELSE Len(recs) - (IF job.pc = "post" THEN 1 ELSE 0)

\* The slots an acknowledgement took from its message and has not put anywhere.
InHand == IF Instant
            THEN Cardinality({d \in Dest : dst[d].inc + dst[d].taken > 0})
            ELSE IF lock = None THEN 0 ELSE dst[lock].inc + dst[lock].taken

\* No slot of the window is lost or made up: what is free, what is tracked,
\* what an acknowledgement has in hand and what is reclaimed but not yet
\* returned to the pool add up to full_window_size (lib/logsource.c:70-92,
\* 240-330, 544-589).
WindowConserved ==
  ~freed => full = window + Occupied + InHand + reclaimed + main.total

\* The source never overflows its window, finds a pending record for every
\* message, starts one job at a time, touches its watches only while they run
\* and never reclaims the static part of the window (the assertions of
\* lib/logsource.c:223 and 583, lib/logreader.c:294,
\* lib/ack-tracker/consecutive_ack_tracker.c:102, lib/mainloop-io-worker.c:55).
WindowAssertions == abort \notin {"window", "record", "job", "watches", "reclaim"}

\* The saved bookmark never passes a message that some destination still has:
\* after a crash the reading resumes behind every message in flight
\* (lib/ack-tracker/consecutive_ack_tracker.c:122-134).
BookmarkBehindInflight == \A m \in inflight : saved < m

\* A reader that sleeps on a full window while the window has room again has
\* its wakeup on the way (lib/logsource.c:86-91, lib/logreader.c:168-205).
NoLostWakeup ==
  (suspended /\ FreeToSend /\ main.pc = "loop" /\ init /\ ~Working) =>
     posted \/ \E d \in Dest : dst[d].pc \in {"resume", "wake", "event"}

\* No destination answers with an abort or a suspension.
OnlyProcessed == [](\A d \in Dest : dst[d].type = "PROCESSED")

\* Everything that is written to the input is read in the end, through full
\* windows, unless the connection is closed, when the destinations process
\* what they get (lib/logreader.c:168-205, lib/logsource.c:86-91).
EveryMessageRead == OnlyProcessed => \A m \in Msgs : (input >= m) ~> (next > m \/ ~init)

\* When the destinations process everything the saved bookmark catches up with
\* what was read, in whatever order the acknowledgements arrive.
BookmarkCatchesUp == OnlyProcessed => \A m \in Msgs : (input >= m) ~> (saved >= m)
=============================================================================
