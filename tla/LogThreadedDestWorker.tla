------------------------ MODULE LogThreadedDestWorker ------------------------
(***************************************************************************)
(* One worker of a threaded destination (lib/logthrdest/logthrdestdrv.c):  *)
(* it pops messages off its LogQueue, hands them to the driver's insert()  *)
(* and flush(), and acks, drops or rewinds the queue's backlog according   *)
(* to what the driver answers.  Everything but the source threads' pushes  *)
(* and the main thread's exit request runs in the worker's own ivykis      *)
(* loop; `watches` are the task and the timers registered with that loop.  *)
(*                                                                         *)
(* `s` is the part of LogThreadedDestWorker the answers change, together   *)
(* with the queue and its backlog (sequences of messages).  The driver is  *)
(* external: an answer is any member of InsertResults or FlushResults.     *)
(*                                                                         *)
(* The last s.wait messages of s.queue are on the wait list of the memory  *)
(* queue (lib/logqueue-fifo.c), the others on its output list.             *)
(***************************************************************************)
EXTENDS Integers, Sequences

CONSTANTS
    MaxMsgs,        \* bound: the sources push messages 1 .. MaxMsgs, in this order
    Key,            \* Key[m]: worker-partition-key() of m
    FlushOnKeyChange,
    BatchLines,     \* batch-lines()
    BatchTimeout,   \* whether batch-timeout() is set
    Throttle,       \* throttle(), in buckets; 0 when there is none
    RetriesOnErrorMax,
    RetriesMax,
    InsertResults,  \* what insert() may answer
    FlushResults,   \* what flush() may answer, also when there is nothing to flush
    DiskQueue       \* whether the queue is a disk queue or the memory queue

Results == {"drop", "error", "not_connected", "explicit", "success", "queued", "retry"}

ASSUME WorkerConstants ==
    /\ MaxMsgs \in Nat
    /\ Key \in [1 .. MaxMsgs -> STRING]
    /\ BatchLines \in Nat
    /\ Throttle \in Nat
    /\ RetriesOnErrorMax \in Nat \ {0}
    /\ RetriesMax \in Nat \ {0}
    /\ BatchTimeout \in BOOLEAN
    /\ FlushOnKeyChange \in BOOLEAN
    /\ InsertResults \subseteq Results
    /\ FlushResults \subseteq Results
    /\ DiskQueue \in BOOLEAN

VARIABLES
    s,          \* queue, backlog and the worker's counters and flags
    done,       \* history: messages written or dropped, in order
    last_key,   \* partitioning.last_key
    elapsed,    \* batch-timeout() has passed since last_flush_time
    buckets,    \* throttle_buckets of the queue
    notify,     \* the parallel push callback is registered with the queue
    watches,    \* registered task and timers
    wake,       \* wake_up_event is posted
    shutdown,   \* shutdown_event is posted
    term,       \* under_termination
    pc,         \* where the worker thread is
    pushed,     \* how many messages the sources pushed
    fails,      \* history: how many batches with m failed with an error, up to
                \* RetriesOnErrorMax
    blank,      \* history: how many flushes of nothing failed with an error since
                \* the error counter was last reset
    fewest,     \* history: the fewest failures of both kinds before a batch was dropped
    first,      \* history: size of the batch when it first failed with an error or
                \* for the connection, 0 when it has not or there is a throttle()
    last        \* history: size of the latest such attempt

vars == <<s, done, last_key, elapsed, buckets, notify, watches, wake, shutdown,
          term, pc, pushed, fails, blank, fewest, first, last>>

\* what only the driver's answers change
history == <<done, fails, blank, fewest, first, last>>

NoKey == "none"

-----------------------------------------------------------------------------
(* The queue calls the worker makes on its backlog, and its own counters.  *)

\* log_threaded_dest_worker_ack_messages and _drop_messages
AckMessages(w, n) ==
    [w EXCEPT !.backlog = SubSeq(@, n + 1, Len(@)),
              !.errors = 0,
              !.batch = @ - n]

\* Mutant: the size of the rewound batch is not remembered.
RewindMessages_NotCounted(w, n) ==
    [w EXCEPT !.backlog = SubSeq(@, 1, Len(@) - n),
              !.queue = SubSeq(w.backlog, Len(w.backlog) - n + 1, Len(w.backlog)) \o @,
              !.batch = @ - n]

\* Mutant: the oldest messages are rewound.
RewindMessages_Head(w, n) ==
    [w EXCEPT !.backlog = SubSeq(@, n + 1, Len(@)),
              !.queue = SubSeq(w.backlog, 1, n) \o @,
              !.rewound = w.batch,
              !.batch = @ - n]

\* log_threaded_dest_worker_rewind_messages: the last n of the backlog
RewindMessages(w, n) ==
    [w EXCEPT !.backlog = SubSeq(@, 1, Len(@) - n),
              !.queue = SubSeq(w.backlog, Len(w.backlog) - n + 1, Len(w.backlog)) \o @,
              !.rewound = w.batch,
              !.batch = @ - n]

\* the two lists of the memory queue
Output(w) == SubSeq(w.queue, 1, Len(w.queue) - w.wait)
Waiting(w) == SubSeq(w.queue, Len(w.queue) - w.wait + 1, Len(w.queue))

\* log_queue_fifo_peek_head and _pop_head: an empty output list takes over the
\* wait list
Fetch(w) == [w EXCEPT !.wait = IF @ = Len(w.queue) THEN 0 ELSE @]

\* log_queue_fifo_pop_head, which pushes the message to the backlog, and the
\* caller's count of it
Pop(w) ==
    [Fetch(w) EXCEPT !.queue = Tail(@),
                     !.backlog = Append(@, Head(w.queue)),
                     !.batch = @ + 1]

\* log_queue_rewind_backlog_all: a disk queue puts the backlog in front of the
\* queue, the memory queue behind its output list
RewindBacklogAll(w) ==
    [w EXCEPT !.queue = IF DiskQueue THEN w.backlog \o @
                        ELSE Output(w) \o w.backlog \o Waiting(w),
              !.backlog = <<>>]

DisconnectAndSuspend(w) == [w EXCEPT !.connected = FALSE, !.suspended = TRUE]

ProcessDrop(w) == DisconnectAndSuspend(AckMessages(w, w.batch))

\* Mutant: the batch is dropped one failure too early.
ProcessError_Early(w) ==
    IF w.errors + 2 >= RetriesOnErrorMax
    THEN AckMessages(w, w.batch)
    ELSE DisconnectAndSuspend(RewindMessages([w EXCEPT !.errors = @ + 1], w.batch))

ProcessError(w) ==
    IF w.errors + 1 >= RetriesOnErrorMax
    THEN AckMessages(w, w.batch)
    ELSE DisconnectAndSuspend(RewindMessages([w EXCEPT !.errors = @ + 1], w.batch))

ProcessNotConnected(w) ==
    DisconnectAndSuspend(RewindMessages([w EXCEPT !.retries = 0], w.batch))

ProcessRetry(w) ==
    LET counted == [w EXCEPT !.retries = @ + 1] IN
    IF counted.retries >= RetriesMax
    THEN ProcessNotConnected(counted)
    ELSE RewindMessages(counted, w.batch)

\* _process_result.  A driver that manages acks explicitly has acked `acked`
\* messages and rewound `back` of the others by the time it answers.
ProcessResult(w, result, acked, back) ==
    CASE result = "drop" -> ProcessDrop(w)
      [] result = "error" -> ProcessError(w)
      [] result = "not_connected" -> ProcessNotConnected(w)
      [] result = "explicit" ->
           LET confirmed == IF acked = 0 THEN w ELSE AckMessages(w, acked)
           IN  IF back = 0 THEN confirmed ELSE RewindMessages(confirmed, back)
      [] result = "success" -> AckMessages(w, w.batch)
      [] result = "queued" -> [w EXCEPT !.batching = TRUE]
      [] result = "retry" -> ProcessRetry(w)

\* A driver's answer to a batch of w.
Answer(w, result) ==
    /\ \E acked \in 0 .. w.batch : \E back \in 0 .. w.batch - acked :
         /\ result # "explicit" => acked = 0 /\ back = 0
         /\ s' = ProcessResult(w, result, acked, back)
    /\ LET gone == Len(w.backlog) + Len(w.queue) - Len(s'.backlog) - Len(s'.queue)
           failed(m) == result = "error" /\ \E i \in DOMAIN w.backlog : w.backlog[i] = m
       IN  /\ done' = done \o SubSeq(w.backlog, 1, gone)
           /\ fails' = [m \in DOMAIN fails |->
                          IF \E i \in DOMAIN done' : done'[i] = m THEN 0
                          ELSE IF failed(m) /\ fails[m] < RetriesOnErrorMax THEN fails[m] + 1
                          ELSE fails[m]]
           /\ blank' = IF s'.errors = 0 THEN 0
                       ELSE IF result = "error" /\ w.batch = 0 THEN blank + 1
                       ELSE blank
           /\ fewest' = IF result = "error" /\ gone > 0 /\ fails[w.backlog[1]] + blank + 1 < fewest
                        THEN fails[w.backlog[1]] + blank + 1 ELSE fewest
           /\ IF Throttle > 0 \/ w.batch = 0 \/ result = "queued" THEN UNCHANGED <<first, last>>
              ELSE IF gone > 0 \/ result = "retry" THEN first' = 0 /\ last' = 0
              ELSE /\ first' = IF first = 0 THEN w.batch ELSE first
                   /\ last' = w.batch

\* log_threaded_dest_worker_flush, which sets last_flush_time, and the driver's
\* answer.
Flush(w, result) ==
    /\ Answer(w, result)
    /\ elapsed' = FALSE

\* _perform_flush of a worker w: nothing while suspended; flush() is called even
\* when there is nothing to flush.
PerformFlush(w) ==
    IF w.suspended
    THEN s' = w /\ UNCHANGED <<elapsed, history>>
    ELSE \E result \in FlushResults : Flush(w, result)

-----------------------------------------------------------------------------
ShouldFlushNow ==
    \/ ~BatchTimeout
    \/ BatchLines <= 1
    \/ ~s.batching
    \/ elapsed

ScheduleRestart ==
    watches' = IF s'.suspended THEN {"reopen"} ELSE {"do_work"}

\* after a flush, if there was one: with the last_flush_time it has set
ScheduleRestartOnNextFlush ==
    watches' = IF s'.suspended THEN {"reopen"}
               ELSE IF ~ShouldFlushNow' THEN {"flush"}
               ELSE {"do_work"}

Init ==
    /\ s = [queue |-> <<>>, wait |-> 0, backlog |-> <<>>, batch |-> 0, rewound |-> 0,
            errors |-> 0, retries |-> 0, connected |-> FALSE,
            suspended |-> FALSE, batching |-> FALSE]
    /\ done = <<>>
    /\ last_key = NoKey
    /\ elapsed = TRUE
    /\ buckets = Throttle
    /\ notify = FALSE
    /\ watches = {"do_work"}
    /\ wake = FALSE
    /\ shutdown = FALSE
    /\ term = FALSE
    /\ pc = "idle"
    /\ pushed = 0
    /\ fails = [m \in 1 .. MaxMsgs |-> 0]
    /\ blank = 0
    /\ fewest = RetriesOnErrorMax
    /\ first = 0
    /\ last = 0

-----------------------------------------------------------------------------
(* The source threads, the clock and the main thread.                       *)

\* log_threaded_dest_driver_queue: push_tail runs the parallel push callback
\* at most once, _message_became_available_callback posts the wake-up event.
DriverQueue ==
    /\ pushed < MaxMsgs
    /\ pushed' = pushed + 1
    /\ s' = [s EXCEPT !.queue = Append(@, pushed'), !.wait = @ + 1]
    /\ notify' = FALSE
    /\ wake' = (wake \/ (notify /\ ~term))
    /\ UNCHANGED <<last_key, elapsed, buckets, watches, shutdown, term, pc, history>>

\* the sources have pushed all the bound allows
SourcesAtBound == pushed = MaxMsgs /\ UNCHANGED vars

BatchTimeoutElapses ==
    /\ ~elapsed
    /\ elapsed' = TRUE
    /\ UNCHANGED <<s, last_key, buckets, notify, watches, wake, shutdown, term, pc,
                   pushed, history>>

RequestWorkerExit ==
    /\ ~term
    /\ term' = TRUE
    /\ shutdown' = TRUE
    /\ UNCHANGED <<s, last_key, elapsed, buckets, notify, watches, wake, pc, pushed,
                   history>>

-----------------------------------------------------------------------------
(* The worker's event handlers.                                             *)

WakeupEvent ==
    /\ pc = "idle" /\ wake
    /\ wake' = FALSE
    /\ watches' = watches \union {"do_work"}
    /\ UNCHANGED <<s, last_key, elapsed, buckets, notify, shutdown, term, pc,
                   pushed, history>>

\* Mutant: the event loop is not left.
ShutdownEvent_NoQuit ==
    /\ pc = "idle" /\ shutdown
    /\ shutdown' = FALSE
    /\ notify' = FALSE
    /\ watches' = {}
    /\ pc' = pc
    /\ UNCHANGED <<s, last_key, elapsed, buckets, wake, term, pushed, history>>

ShutdownEvent ==
    /\ pc = "idle" /\ shutdown
    /\ shutdown' = FALSE
    /\ notify' = FALSE
    /\ watches' = {}
    /\ pc' = "final"
    /\ UNCHANGED <<s, last_key, elapsed, buckets, wake, term, pushed, history>>

\* Mutant: the time that passed brings no bucket.
RefillBuckets_Never(expired) == buckets' = buckets

\* log_queue_check_items on a queue that is not empty: throttle_buckets are
\* recalculated, by at least one bucket once the throttle timer has expired.
RefillBuckets(expired) ==
    buckets' \in IF Throttle = 0 THEN {0}
                 ELSE (IF expired /\ buckets = 0 THEN 1 ELSE buckets) .. Throttle

Connect ==
    /\ ~s.connected
    /\ \E ok \in BOOLEAN :
         s' = [s EXCEPT !.connected = ok, !.suspended = ~ok]
    /\ ScheduleRestart
    /\ UNCHANGED <<last_key, elapsed, buckets, notify, pc, history>>

\* there is something in the queue, and the throttle lets it out
StartInserts(expired) ==
    /\ s.connected /\ s.queue # <<>>
    /\ RefillBuckets(expired)
    /\ Throttle > 0 => buckets' > 0
    /\ s' = [s EXCEPT !.suspended = FALSE]
    /\ elapsed' = (elapsed /\ s.batch # 0)
    /\ notify' = FALSE
    /\ watches' = {}
    /\ pc' = "loop"
    /\ UNCHANGED <<last_key, history>>

\* throttled with an empty batch: no callback is registered, only the timer
Throttled(expired) ==
    /\ s.connected /\ s.queue # <<>> /\ s.batch = 0
    /\ Throttle > 0
    /\ RefillBuckets(expired) /\ buckets' = 0
    /\ s' = [s EXCEPT !.suspended = FALSE]
    /\ notify' = FALSE
    /\ watches' = {"throttle"}
    /\ UNCHANGED <<last_key, elapsed, pc, history>>

\* nothing may be popped, but messages of the last batch await a flush
FlushPending(expired) ==
    /\ s.connected /\ s.batch > 0
    /\ \/ s.queue = <<>> /\ notify' = TRUE /\ UNCHANGED buckets
       \/ /\ s.queue # <<>> /\ Throttle > 0
          /\ RefillBuckets(expired) /\ buckets' = 0
          /\ notify' = FALSE
    /\ LET w == [s EXCEPT !.suspended = FALSE]
       IN  IF ShouldFlushNow THEN PerformFlush(w)
           ELSE s' = w /\ UNCHANGED <<elapsed, history>>
    /\ ScheduleRestartOnNextFlush
    /\ UNCHANGED <<last_key, pc>>

WaitForItems ==
    /\ s.connected /\ s.queue = <<>> /\ s.batch = 0
    /\ s' = [s EXCEPT !.suspended = FALSE]
    /\ notify' = TRUE
    /\ watches' = {}
    /\ UNCHANGED <<last_key, elapsed, buckets, pc, history>>

\* _perform_work, run by the task or by a timer that expires
PerformWork ==
    /\ pc = "idle"
    /\ \E by \in watches :
         /\ by = "flush" => elapsed
         /\ \/ Connect
            \/ StartInserts(by = "throttle")
            \/ Throttled(by = "throttle")
            \/ FlushPending(by = "throttle")
            \/ WaitForItems
    /\ UNCHANGED <<wake, shutdown, term, pushed>>

-----------------------------------------------------------------------------
(* _perform_inserts.                                                        *)

CanPop == s.queue # <<>> /\ (Throttle > 0 => buckets > 0)

\* the loop condition fails, or there is nothing to peek or to pop
LeaveLoop ==
    /\ pc = "loop"
    /\ \/ term \/ s.suspended \/ s.queue = <<>>
       \/ /\ s.queue # <<>> /\ ~CanPop
          /\ FlushOnKeyChange => s.batch = 0 \/ Key[Head(s.queue)] = last_key
    /\ LET peeked == FlushOnKeyChange /\ ~term /\ ~s.suspended /\ s.queue # <<>>
       IN  /\ s' = [(IF peeked THEN Fetch(s) ELSE s) EXCEPT !.rewound = 0]
           /\ last_key' = IF peeked THEN Key[Head(s.queue)] ELSE last_key
    /\ pc' = "after"
    /\ UNCHANGED <<elapsed, buckets, notify, watches, wake, shutdown, term, pushed,
                   history>>

\* the next message has another partition key: flush what there is before it
FlushOnPartitionKeyChange ==
    /\ pc = "loop"
    /\ ~term /\ ~s.suspended
    /\ FlushOnKeyChange /\ s.queue # <<>>
    /\ s.batch # 0 /\ Key[Head(s.queue)] # last_key
    /\ last_key' = Key[Head(s.queue)]
    /\ \E result \in FlushResults :
         /\ Flush(Fetch(s), result)
         /\ pc' = IF result \in {"success", "explicit"} THEN "pop" ELSE "tail"
    /\ UNCHANGED <<buckets, notify, watches, wake, shutdown, term, pushed>>

\* what the loop does to a message: pop it, insert it, process the answer
Insert ==
    /\ CanPop
    /\ buckets' = IF buckets > 0 THEN buckets - 1 ELSE buckets
    /\ \E result \in InsertResults : Answer(Pop(s), result)
    /\ pc' = IF s'.batching /\ s'.batch >= BatchLines THEN "full" ELSE "tail"
    /\ UNCHANGED <<elapsed, notify, watches, wake, shutdown, term, pushed>>

\* Mutant: the partition key is not looked at.
PopAndInsert_AnyKey ==
    /\ pc = "loop"
    /\ ~term /\ ~s.suspended
    /\ CanPop
    /\ Insert
    /\ last_key' = IF FlushOnKeyChange THEN Key[Head(s.queue)] ELSE last_key

PopAndInsert ==
    /\ pc = "loop"
    /\ ~term /\ ~s.suspended
    /\ CanPop
    /\ FlushOnKeyChange => s.batch = 0 \/ Key[Head(s.queue)] = last_key
    /\ Insert
    /\ last_key' = IF FlushOnKeyChange THEN Key[Head(s.queue)] ELSE last_key

\* after a flush on a key change; the flush may have rewound messages
InsertAfterKeyChange ==
    /\ pc = "pop"
    /\ \/ Insert /\ UNCHANGED last_key
       \/ /\ ~CanPop
          /\ s' = [s EXCEPT !.rewound = 0]
          /\ pc' = "after"
          /\ UNCHANGED <<last_key, elapsed, buckets, notify, watches, wake, shutdown,
                   term, pushed, history>>

FlushFullBatch ==
    /\ pc = "full"
    /\ PerformFlush(s)
    /\ pc' = "tail"
    /\ UNCHANGED <<last_key, buckets, notify, watches, wake, shutdown,
                   term, pushed>>

\* the countdown of a batch that was rewound
LoopTail ==
    /\ pc = "tail"
    /\ s' = [s EXCEPT !.rewound = IF @ > 0 THEN @ - 1 ELSE 0]
    /\ pc' = IF s.rewound = 1 THEN "after" ELSE "loop"
    /\ UNCHANGED <<last_key, elapsed, buckets, notify, watches, wake, shutdown,
                   term, pushed, history>>

\* _perform_work after _perform_inserts
AfterInserts ==
    /\ pc = "after"
    /\ IF ShouldFlushNow THEN PerformFlush(s)
       ELSE UNCHANGED <<s, elapsed, history>>
    /\ ScheduleRestart
    /\ pc' = "idle"
    /\ UNCHANGED <<last_key, buckets, notify, wake, shutdown, term, pushed>>

\* _perform_final_flush: flush() is called even when suspended
FinalFlush ==
    /\ pc = "final"
    /\ \E result \in FlushResults : Flush(s, result)
    /\ pc' = "exit"
    /\ UNCHANGED <<last_key, buckets, notify, watches, wake, shutdown,
                   term, pushed>>

\* the rewind of what the final flush left, and the disconnect
WorkerExit ==
    /\ pc = "exit"
    /\ s' = [RewindBacklogAll(s) EXCEPT !.connected = FALSE]
    /\ pc' = "exited"
    /\ UNCHANGED <<last_key, elapsed, buckets, notify, watches, wake, shutdown,
                   term, pushed, history>>

Next ==
    \/ DriverQueue \/ BatchTimeoutElapses \/ RequestWorkerExit
    \/ WakeupEvent \/ ShutdownEvent \/ PerformWork
    \/ LeaveLoop \/ FlushOnPartitionKeyChange \/ PopAndInsert \/ InsertAfterKeyChange
    \/ FlushFullBatch \/ LoopTail \/ AfterInserts
    \/ FinalFlush \/ WorkerExit
    \/ SourcesAtBound

Spec == Init /\ [][Next]_vars

-----------------------------------------------------------------------------
Messages == 1 .. MaxMsgs

\* Every variable keeps its type: the counters never become negative, and the
\* retry counters stay below their limits (lib/logthrdest/logthrdestdrv.c:288-352).
TypeOK ==
    /\ s \in [queue : Seq(Messages), wait : Nat, backlog : Seq(Messages),
              batch : Nat, rewound : Nat,
              errors : 0 .. RetriesOnErrorMax - 1, retries : 0 .. RetriesMax - 1,
              connected : BOOLEAN, suspended : BOOLEAN, batching : BOOLEAN]
    /\ done \in Seq(Messages)
    /\ last_key \in {NoKey} \union {Key[m] : m \in Messages}
    /\ elapsed \in BOOLEAN /\ notify \in BOOLEAN /\ wake \in BOOLEAN
    /\ shutdown \in BOOLEAN /\ term \in BOOLEAN
    /\ buckets \in 0 .. Throttle
    /\ watches \subseteq {"do_work", "reopen", "throttle", "flush"}
    /\ pc \in {"idle", "loop", "pop", "full", "tail", "after", "final", "exit", "exited"}
    /\ pushed \in 0 .. MaxMsgs
    /\ fails \in [Messages -> Nat] /\ blank \in Nat /\ fewest \in Nat
    /\ first \in Nat /\ last \in Nat

(***************************************************************************)
(* The batch_size counter, moved by every insert, ack, drop and rewind, is *)
(* the number of messages on the queue's backlog.  The worker acks and     *)
(* rewinds batch_size messages, so a counter that is off would ack         *)
(* messages of the next batch or leave some on the backlog for ever.       *)
(***************************************************************************)
BatchIsBacklog == pc # "exited" => s.batch = Len(s.backlog)

\* flush() neither queues the batch again nor settles only a part of it
FlushSettles == FlushResults \intersect {"queued", "explicit"} = {}

(***************************************************************************)
(* Every message pushed is written, dropped, in the batch or queued, and   *)
(* these come in the order of the pushes: no retry, rewind or reconnect    *)
(* loses, repeats or reorders a message.  When the worker has exited,      *)
(* nothing is left on the backlog, and what the final flush left there is  *)
(* in front of the queue (a disk queue) or behind the messages that were   *)
(* on the output list (the memory queue, lib/logqueue-fifo.c:550): the     *)
(* exit loses and repeats nothing, and the order of the pushes comes back  *)
(* when these two parts of the output list change places.                  *)
(***************************************************************************)
NothingLost ==
    IF pc # "exited"
    THEN done \o s.backlog \o s.queue = [i \in 1 .. pushed |-> i]
    ELSE /\ s.backlog = <<>>
         /\ \E k \in 0 .. Len(Output(s)) :
              /\ DiskQueue \/ FlushSettles => k = 0
              /\ done \o SubSeq(s.queue, k + 1, Len(Output(s)))
                      \o SubSeq(s.queue, 1, k) \o Waiting(s) = [i \in 1 .. pushed |-> i]

(***************************************************************************)
(* A batch that is dropped for its errors was tried retries_on_error_max   *)
(* times: the first message of it was in that many batches that failed,    *)
(* less the flushes with an empty batch that failed since the last message *)
(* was settled, which the same counter counts.  A driver whose flush() of  *)
(* nothing does not fail has all its retries.                              *)
(***************************************************************************)
DroppedAfterRetries == fewest >= RetriesOnErrorMax

(***************************************************************************)
(* A worker that waits in its event loop with messages queued or a batch   *)
(* to flush has a task, a timer or a posted event that will run            *)
(* _perform_work again (unless it was asked to exit).                      *)
(***************************************************************************)
NeverAsleepWithWork ==
    pc = "idle" /\ ~term /\ (s.queue # <<>> \/ s.batch > 0) => watches # {} \/ wake

(***************************************************************************)
(* A batch never outgrows batch-lines().                                   *)
(***************************************************************************)
BatchWithinLines == s.batch <= BatchLines

(***************************************************************************)
(* With flush-on-worker-key-change(), the messages of a batch have one     *)
(* partition key, whatever was rewound in between.                         *)
(***************************************************************************)
OneKeyPerBatch ==
    FlushOnKeyChange =>
        \A i, j \in DOMAIN s.backlog : Key[s.backlog[i]] = Key[s.backlog[j]]

(***************************************************************************)
(* A batch that failed with an error or for the connection is retried as   *)
(* the same batch: "batch_size has to remain the same across retries"      *)
(* (lib/logthrdest/tests/test_logthrdestdrv.c:424).  An exit request cuts  *)
(* the retry short, and so may throttle() and batch-timeout().             *)
(***************************************************************************)
BatchKeptAcrossRetries ==
    Throttle = 0 /\ ~BatchTimeout /\ ~term => first = last

-----------------------------------------------------------------------------
WorkerStep ==
    \/ WakeupEvent \/ ShutdownEvent \/ PerformWork
    \/ LeaveLoop \/ FlushOnPartitionKeyChange \/ PopAndInsert \/ InsertAfterKeyChange
    \/ FlushFullBatch \/ LoopTail \/ AfterInserts
    \/ FinalFlush \/ WorkerExit

\* The destination is reachable again and again, and again and again it
\* accepts what it is asked to send.
Reconnected == WorkerStep /\ ~s.connected /\ s'.connected
Accepted == WorkerStep /\ Len(done') > Len(done)

FairSpec ==
    /\ Spec
    /\ WF_vars(BatchTimeoutElapses)
    /\ WF_vars(WorkerStep)
    /\ SF_vars(WakeupEvent)
    /\ SF_vars(ShutdownEvent)
    /\ SF_vars(Reconnected)
    /\ SF_vars(Accepted)

(***************************************************************************)
(* Every message is eventually written or dropped, unless the worker is    *)
(* asked to exit: no combination of batching, throttling, retries and      *)
(* reconnects leaves one waiting for ever at a destination that keeps      *)
(* coming back.                                                            *)
(***************************************************************************)
EveryMessageDone ==
    \A m \in Messages : pushed >= m ~> Len(done) >= m \/ term

\* A worker that is asked to exit does: the main thread waits for it.
ExitsWhenAsked == term ~> pc = "exited"
=============================================================================
