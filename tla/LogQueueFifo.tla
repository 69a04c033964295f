---------------------------- MODULE LogQueueFifo ----------------------------
(***************************************************************************)
(* The in-memory destination queue of syslog-ng (lib/logqueue-fifo.c over  *)
(* lib/logqueue.c): per-thread lockless input queues, a locked wait queue, *)
(* an output queue and a backlog that only the output thread touches, the  *)
(* parallel-push notification that wakes a sleeping output thread, the     *)
(* queued-messages counter and the reference count.                        *)
(*                                                                         *)
(* Code under LogQueue.lock is one step while nobody else holds the lock;  *)
(* it is split where the code drops the lock (log_queue_push_notify) or    *)
(* where lockless readers see the middle of it (the drop loop, pop_head).  *)
(***************************************************************************)
EXTENDS Integers, Sequences, FiniteSets

CONSTANTS Workers,      \* threads whose index has an input queue: fast path
          Feeders,      \* threads without an input queue: slow path
          FifoSize,     \* log_fifo_size
          Uint16Mod,    \* guint16 holds values modulo this (2^16 in the code)
          Throttle,     \* throttle(), 0 when throttling is off
          MaxMsgs,      \* bound: messages ever pushed
          MaxRewinds,   \* bound: calls of rewind_backlog and rewind_backlog_all
          MaxStops,     \* bound: times the output thread is shut down
          NoOne         \* nobody holds LogQueue.lock

ASSUME FifoAssumption ==
  /\ IsFiniteSet(Workers) /\ IsFiniteSet(Feeders)
  /\ Workers \cap Feeders = {}
  /\ NoOne \notin Workers \cup Feeders
  /\ FifoSize \in Nat /\ Throttle \in Nat
  /\ Uint16Mod \in Nat \ {0}
  /\ MaxMsgs \in Nat /\ MaxRewinds \in Nat /\ MaxStops \in Nat

Threads == Workers \cup Feeders

\* LogMessageQueueNode: who pushed what, and whether flow control was requested.
Msg == [id : Nat, from : Threads, fc : BOOLEAN]

\* OverflowQueue and InputQueue: a list and the two lengths kept beside it.
Queue == [items : Seq(Msg), len : Int, nfc : Int]

VARIABLES
  inq,       \* input_queues[t]
  cb,        \* input_queues[t].finish_cb_registered
  wait,      \* wait_queue, protected by the lock
  output,    \* output_queue, output thread only
  backlog,   \* backlog_queue, output thread only
  queued,    \* metrics.owned.queued_messages
  refs,      \* ref_cnt
  lock,      \* holder of LogQueue.lock across steps
  notify,    \* parallel_push_notify is registered
  posted,    \* the callback ran: the output thread's wake-up event is pending
  terminating, \* the main thread told the output thread to exit
  pc,        \* where each pushing thread is
  todrop,    \* messages the drop loop of a worker still has to drop
  cpc,       \* where the output thread is
  inhand,    \* the node pop_head unlinked and has not put on the backlog yet
  buckets,   \* throttle_buckets
  elapsed    \* the throttle timer ran out since the last bucket calculation

\* History: what happened to the messages; only the bounds read it.
VARIABLE
  h  \* pushed: number of messages pushed, their ids are 1..pushed
     \* acked, dropped, aborted: ids acked through the backlog, dropped for
     \*   lack of space, dropped AT_ABORTED when the queue was freed
     \* rewinds, stops: how often the bounded actions happened
     \* rewound: non-flow-controlled messages put back by rewinds
     \* spliced: rewind_backlog_all ran while output_queue was not empty
     \* truncated: some input queue length did not fit in a guint16

inputVars == <<inq, cb, refs, todrop>>
outputVars == <<cpc, inhand, buckets, elapsed>>
wakeVars == <<lock, notify, posted, terminating>>
vars == <<inputVars, wait, output, backlog, queued, outputVars, wakeVars, pc, h>>

-----------------------------------------------------------------------------
NoMsg == [id |-> 0]
Empty == [items |-> <<>>, len |-> 0, nfc |-> 0]

Nfc(m) == IF m.fc THEN 0 ELSE 1
NfcCount(s) == Cardinality({i \in DOMAIN s : ~s[i].fc})
Ids(s) == {s[i].id : i \in DOMAIN s}

Min2(a, b) == IF a <= b THEN a ELSE b
Max2(a, b) == IF a >= b THEN a ELSE b

\* iv_list_add_tail with the length updates that go with it.
AddTail(q, m) == [items |-> Append(q.items, m),
                  len |-> q.len + 1, nfc |-> q.nfc + Nfc(m)]

\* iv_list_del of the head.
DelHead(q) == [items |-> Tail(q.items),
               len |-> q.len - 1, nfc |-> q.nfc - Nfc(Head(q.items))]

\* iv_list_splice_tail_init: append all of r to q.
Splice(q, r) == [items |-> q.items \o r.items,
                 len |-> q.len + r.len, nfc |-> q.nfc + r.nfc]

\* log_queue_fifo_get_length and its non-flow-controlled variant.
Length == wait.len + output.len
NonFlowControlledLength == wait.nfc + output.nfc

\* log_queue_fifo_is_empty_racy
IsEmptyRacy == Length <= 0 /\ \A w \in Workers : ~cb[w]

History == [pushed : Nat, acked : SUBSET Nat, dropped : SUBSET Nat,
            aborted : SUBSET Nat, rewinds : Nat, stops : Nat, rewound : Nat,
            spliced : BOOLEAN, truncated : BOOLEAN]

\* Every variable has its type.
TypeOK ==
  /\ inq \in [Workers -> Queue] /\ cb \in [Workers -> BOOLEAN]
  /\ refs \in Nat /\ todrop \in [Workers -> Int]
  /\ wait \in Queue /\ output \in Queue /\ backlog \in Queue /\ queued \in Int
  /\ cpc \in {"asleep", "awake", "work", "take", "count", "throttled",
              "stopped", "gone"}
  /\ inhand \in Msg \cup {NoMsg}
  /\ buckets \in 0..Throttle /\ elapsed \in BOOLEAN
  /\ lock \in Workers \cup {NoOne} /\ notify \in BOOLEAN
  /\ posted \in BOOLEAN /\ terminating \in BOOLEAN
  /\ pc \in [Threads -> {"idle", "dropping", "call", "relock", "finish"}]
  /\ h \in History

\* log_queue_fifo_new, log_queue_init_instance
Init ==
  /\ inq = [w \in Workers |-> Empty] /\ cb = [w \in Workers |-> FALSE]
  /\ refs = 1 /\ todrop = [w \in Workers |-> 0]
  /\ wait = Empty /\ output = Empty /\ backlog = Empty /\ queued = 0
  /\ cpc = "awake" /\ inhand = NoMsg /\ buckets = Throttle /\ elapsed = FALSE
  /\ lock = NoOne /\ notify = FALSE /\ posted = FALSE /\ terminating = FALSE
  /\ pc = [t \in Threads |-> "idle"]
  /\ h = [pushed |-> 0, acked |-> {}, dropped |-> {}, aborted |-> {},
          rewinds |-> 0, stops |-> 0, rewound |-> 0, spliced |-> FALSE,
          truncated |-> FALSE]

-----------------------------------------------------------------------------
(* Pushing threads.                                                        *)

\* Messages reach the queue through its driver, not after it let the queue go.
NewMsg(t, fc) == [id |-> h.pushed + 1, from |-> t, fc |-> fc]
CanPush(t) == pc[t] = "idle" /\ h.pushed < MaxMsgs /\ cpc # "gone"

PushFast_NoRef(w, fc) ==
  /\ CanPush(w)
  /\ inq' = [inq EXCEPT ![w] = AddTail(@, NewMsg(w, fc))]
  /\ cb' = [cb EXCEPT ![w] = TRUE]
  /\ h' = [h EXCEPT !.pushed = @ + 1]
  /\ UNCHANGED <<refs, todrop, wait, output, backlog, queued, outputVars, wakeVars, pc>>

\* log_queue_fifo_push_tail, fast path: the first item of a batch registers
\* the batch callback and takes a reference on the queue.
PushFast(w, fc) ==
  /\ CanPush(w)
  /\ inq' = [inq EXCEPT ![w] = AddTail(@, NewMsg(w, fc))]
  /\ cb' = [cb EXCEPT ![w] = TRUE]
  /\ refs' = IF cb[w] THEN refs ELSE refs + 1
  /\ h' = [h EXCEPT !.pushed = @ + 1]
  /\ UNCHANGED <<todrop, wait, output, backlog, queued, outputVars, wakeVars, pc>>

\* Mutant: one message over the limit is kept.
MessageHasToBeDropped_OffByOne(fc) == ~fc /\ NonFlowControlledLength > FifoSize

\* _message_has_to_be_dropped
MessageHasToBeDropped(fc) == ~fc /\ NonFlowControlledLength >= FifoSize

\* log_queue_fifo_push_tail, slow path on a full queue.
PushSlowDrop(f, fc) ==
  /\ CanPush(f) /\ lock = NoOne
  /\ MessageHasToBeDropped(fc)
  /\ h' = [h EXCEPT !.pushed = @ + 1, !.dropped = @ \cup {h.pushed + 1}]
  /\ UNCHANGED <<inputVars, wait, output, backlog, queued, outputVars, wakeVars, pc>>

PushNotify_ResetOnly(t, rest) ==
  /\ notify' = FALSE
  /\ pc' = [pc EXCEPT ![t] = rest]

\* log_queue_push_notify under the lock: a registered callback is taken, to be
\* called after the lock is dropped; rest is where the thread goes without one.
PushNotify(t, rest) ==
  /\ notify' = FALSE
  /\ pc' = [pc EXCEPT ![t] = IF notify THEN "call" ELSE rest]

\* log_queue_fifo_push_tail, slow path: append to the wait queue, then
\* log_queue_push_notify. When a callback is registered the lock is dropped
\* around it, and queued_messages is incremented only after it is back.
PushSlow(f, fc) ==
  /\ CanPush(f) /\ lock = NoOne
  /\ ~MessageHasToBeDropped(fc)
  /\ wait' = AddTail(wait, NewMsg(f, fc))
  /\ PushNotify(f, "idle")
  /\ queued' = IF pc'[f] = "call" THEN queued ELSE queued + 1
  /\ h' = [h EXCEPT !.pushed = @ + 1]
  /\ UNCHANGED <<inputVars, output, backlog, outputVars, lock, posted, terminating>>

\* log_queue_push_notify calls parallel_push_notify without the lock. The
\* callback posts the wake-up event unless the output thread was told to exit.
Call(t) ==
  /\ pc[t] = "call"
  /\ pc' = [pc EXCEPT ![t] = "relock"]
  /\ posted' = (posted \/ ~terminating)
  /\ UNCHANGED <<inputVars, wait, output, backlog, queued, outputVars, lock,
                 notify, terminating, h>>

\* The slow path takes the lock back and counts the message.
RelockFeeder(f) ==
  /\ pc[f] = "relock" /\ lock = NoOne
  /\ queued' = queued + 1
  /\ pc' = [pc EXCEPT ![f] = "idle"]
  /\ UNCHANGED <<inputVars, wait, output, backlog, outputVars, wakeVars, h>>

\* log_queue_fifo_move_input takes it back to release it again.
RelockWorker(w) ==
  /\ pc[w] = "relock" /\ lock = NoOne
  /\ pc' = [pc EXCEPT ![w] = "finish"]
  /\ UNCHANGED <<inputVars, wait, output, backlog, queued, outputVars, wakeVars, h>>

\* log_queue_fifo_calculate_num_of_messages_to_drop: the length of the input
\* queue goes through a guint16.
InputQueueLen(w) == inq[w].nfc % Uint16Mod

NumOfMessagesToDrop(w) ==
  IF NonFlowControlledLength + InputQueueLen(w) > FifoSize
  THEN InputQueueLen(w) - Max2(0, FifoSize - NonFlowControlledLength)
  ELSE 0

\* The end of a batch: log_queue_fifo_move_input takes the lock and decides
\* how many messages to drop.
MoveInput(w) ==
  /\ pc[w] = "idle" /\ cb[w] /\ lock = NoOne
  /\ lock' = w
  /\ pc' = [pc EXCEPT ![w] = "dropping"]
  /\ todrop' = [todrop EXCEPT ![w] = NumOfMessagesToDrop(w)]
  /\ h' = [h EXCEPT !.truncated = @ \/ inq[w].nfc >= Uint16Mod]
  /\ UNCHANGED <<inq, cb, refs, wait, output, backlog, queued, outputVars,
                 notify, posted, terminating>>

\* One round of log_queue_fifo_drop_messages_from_input_queue: the oldest
\* message that is not flow controlled goes.
DropOne(w) ==
  /\ pc[w] = "dropping" /\ todrop[w] > 0
  /\ \E i \in DOMAIN inq[w].items :
       /\ ~inq[w].items[i].fc
       /\ \A j \in 1..(i - 1) : inq[w].items[j].fc
       /\ inq' = [inq EXCEPT ![w] =
             [items |-> SubSeq(@.items, 1, i - 1)
                          \o SubSeq(@.items, i + 1, Len(@.items)),
              len |-> @.len - 1, nfc |-> @.nfc - 1]]
       /\ h' = [h EXCEPT !.dropped = @ \cup {inq[w].items[i].id}]
  /\ todrop' = [todrop EXCEPT ![w] = @ - 1]
  /\ UNCHANGED <<cb, refs, wait, output, backlog, queued, outputVars, wakeVars, pc>>

\* The rest of log_queue_fifo_move_input_unlocked: the batch is counted and
\* spliced to the wait queue; log_queue_push_notify takes the callback.
MoveInputSplice(w) ==
  /\ pc[w] = "dropping" /\ todrop[w] <= 0
  /\ queued' = queued + inq[w].len
  /\ wait' = Splice(wait, inq[w])
  /\ inq' = [inq EXCEPT ![w] = Empty]
  /\ lock' = NoOne
  /\ PushNotify(w, "finish")
  /\ UNCHANGED <<cb, refs, todrop, output, backlog, outputVars, posted,
                 terminating, h>>

\* log_queue_unref: the last reference frees what is still queued with
\* log_queue_fifo_free.
Unref ==
  /\ refs' = refs - 1
  /\ IF refs = 1
       THEN /\ h' = [h EXCEPT !.aborted = @ \cup
                       (Ids(wait.items) \cup Ids(output.items) \cup Ids(backlog.items)
                        \cup UNION {Ids(inq[w].items) : w \in Workers})]
            /\ wait' = Empty /\ output' = Empty /\ backlog' = Empty
            /\ inq' = [w \in Workers |-> Empty]
            /\ queued' = 0
       ELSE UNCHANGED <<h, wait, output, backlog, inq, queued>>

\* log_queue_fifo_move_input after the lock: the flag is cleared, then the
\* reference of the callback is dropped.
MoveInputFinish(w) ==
  /\ pc[w] = "finish"
  /\ cb' = [cb EXCEPT ![w] = FALSE]
  /\ pc' = [pc EXCEPT ![w] = "idle"]
  /\ Unref
  /\ UNCHANGED <<todrop, outputVars, wakeVars>>

-----------------------------------------------------------------------------
(* The output thread.                                                      *)

\* The posted event is delivered.
Wakeup ==
  /\ cpc = "asleep" /\ posted
  /\ cpc' = "awake" /\ posted' = FALSE
  /\ UNCHANGED <<inputVars, wait, output, backlog, queued, inhand, buckets,
                 elapsed, lock, notify, terminating, pc, h>>

\* A timer of the driver (batch timeout, reopen) runs while the callback is
\* registered.
TimerWakeup ==
  /\ cpc = "asleep"
  /\ cpc' = "awake"
  /\ UNCHANGED <<inputVars, wait, output, backlog, queued, inhand, buckets,
                 elapsed, wakeVars, pc, h>>

\* log_queue_check_items: register the callback when there is nothing to do,
\* else refill the throttle buckets; without a bucket, wait for the timer.
CheckItemsEmpty ==
  /\ cpc = "awake" /\ lock = NoOne
  /\ Length = 0
  /\ notify' = TRUE
  /\ cpc' = "asleep"
  /\ UNCHANGED <<inputVars, wait, output, backlog, queued, inhand, buckets,
                 elapsed, lock, posted, terminating, pc, h>>

CheckItems ==
  /\ cpc = "awake" /\ lock = NoOne
  /\ Length # 0
  /\ notify' = FALSE
  /\ \E k \in (IF elapsed THEN 1 ELSE 0)..Throttle :
       buckets' = Min2(Throttle, buckets + k)
  /\ elapsed' = FALSE
  /\ cpc' = IF Throttle > 0 /\ buckets' = 0 THEN "throttled" ELSE "work"
  /\ UNCHANGED <<inputVars, wait, output, backlog, queued, inhand, lock, posted,
                 terminating, pc, h>>

ThrottleTimeout_TooEarly ==
  /\ cpc = "throttled"
  /\ cpc' = "awake"
  /\ UNCHANGED <<inputVars, wait, output, backlog, queued, inhand, buckets,
                 elapsed, wakeVars, pc, h>>

\* The timer of 1000/throttle + 1 ms: at least one new bucket is due.
ThrottleTimeout ==
  /\ cpc = "throttled"
  /\ cpc' = "awake" /\ elapsed' = TRUE
  /\ UNCHANGED <<inputVars, wait, output, backlog, queued, inhand, buckets,
                 wakeVars, pc, h>>

\* log_queue_pop_head without a bucket.
PopThrottled ==
  /\ cpc = "work" /\ Throttle > 0 /\ buckets = 0
  /\ cpc' = "awake"
  /\ UNCHANGED <<inputVars, wait, output, backlog, queued, inhand, buckets,
                 elapsed, wakeVars, pc, h>>

\* _move_items_from_wait_queue_to_output_queue: the lengths are assigned.
MoveWaitToOutput ==
  /\ lock = NoOne
  /\ output' = [items |-> output.items \o wait.items,
                len |-> wait.len, nfc |-> wait.nfc]
  /\ wait' = Empty

\* log_queue_fifo_pop_head up to the test that there is something to pop.
PopHead ==
  /\ cpc = "work" /\ (Throttle > 0 => buckets > 0)
  /\ IF output.len = 0 THEN MoveWaitToOutput ELSE UNCHANGED <<wait, output>>
  /\ cpc' = IF output'.len > 0 THEN "take" ELSE "awake"
  /\ UNCHANGED <<inputVars, backlog, queued, inhand, buckets, elapsed, wakeVars,
                 pc, h>>

\* ... unlink the head ...
PopTake ==
  /\ cpc = "take"
  /\ inhand' = Head(output.items)
  /\ output' = DelHead(output)
  /\ cpc' = "count"
  /\ UNCHANGED <<inputVars, wait, backlog, queued, buckets, elapsed, wakeVars,
                 pc, h>>

\* ... and count it out, put it on the backlog and use up a bucket.
PopCount ==
  /\ cpc = "count"
  /\ queued' = queued - 1
  /\ backlog' = AddTail(backlog, inhand)
  /\ inhand' = NoMsg
  /\ buckets' = IF buckets > 0 THEN buckets - 1 ELSE buckets
  /\ cpc' = "work"
  /\ UNCHANGED <<inputVars, wait, output, elapsed, wakeVars, pc, h>>

\* log_queue_fifo_peek_head on an empty output queue.
PeekHead ==
  /\ cpc = "work" /\ output.len = 0
  /\ MoveWaitToOutput
  /\ cpc' = IF output'.len > 0 THEN "work" ELSE "awake"
  /\ UNCHANGED <<inputVars, backlog, queued, inhand, buckets, elapsed, wakeVars,
                 pc, h>>

\* log_queue_fifo_ack_backlog(n)
AckBacklog(n) ==
  /\ cpc = "work"
  /\ LET k == Min2(n, backlog.len)
         gone == SubSeq(backlog.items, 1, k)
     IN /\ k > 0
        /\ backlog' = [items |-> SubSeq(backlog.items, k + 1, Len(backlog.items)),
                       len |-> backlog.len - k,
                       nfc |-> backlog.nfc - NfcCount(gone)]
        /\ h' = [h EXCEPT !.acked = @ \cup Ids(gone)]
  /\ UNCHANGED <<inputVars, wait, output, queued, outputVars, wakeVars, pc>>

PutBack_AtTail(back) ==
  output' = [items |-> output.items \o back, len |-> output.len + Len(back),
             nfc |-> output.nfc + NfcCount(back)]

\* The loop of log_queue_fifo_rewind_backlog moves the newest messages of the
\* backlog one by one to the head of the output queue.
PutBack(back) ==
  output' = [items |-> back \o output.items, len |-> output.len + Len(back),
             nfc |-> output.nfc + NfcCount(back)]

\* log_queue_fifo_rewind_backlog(n)
RewindBacklog(n) ==
  /\ cpc = "work" /\ h.rewinds < MaxRewinds
  /\ LET k == Min2(n, backlog.len)
         keep == Len(backlog.items) - k
         back == SubSeq(backlog.items, keep + 1, Len(backlog.items))
     IN /\ k > 0
        /\ backlog' = [items |-> SubSeq(backlog.items, 1, keep),
                       len |-> backlog.len - k,
                       nfc |-> backlog.nfc - NfcCount(back)]
        /\ PutBack(back)
        /\ queued' = queued + k
        /\ h' = [h EXCEPT !.rewinds = @ + 1, !.rewound = @ + NfcCount(back)]
  /\ UNCHANGED <<inputVars, wait, outputVars, wakeVars, pc>>

RewindAll_BacklogKept ==
  /\ output' = Splice(output, backlog)
  /\ queued' = queued + backlog.len
  /\ UNCHANGED backlog

\* log_queue_fifo_rewind_backlog_all: the backlog is spliced to the tail of
\* the output queue.
RewindAll ==
  /\ output' = Splice(output, backlog)
  /\ queued' = queued + backlog.len
  /\ backlog' = Empty

NoteRewindAll(g) ==
  [g EXCEPT !.rewound = @ + backlog.nfc,
            !.spliced = @ \/ (backlog.len > 0 /\ output.len > 0)]

RewindBacklogAll ==
  /\ cpc = "work" /\ h.rewinds < MaxRewinds
  /\ RewindAll
  /\ h' = NoteRewindAll([h EXCEPT !.rewinds = @ + 1])
  /\ UNCHANGED <<inputVars, wait, outputVars, wakeVars, pc>>

\* _request_worker_exit, in the main thread.
RequestExit ==
  /\ cpc \notin {"stopped", "gone"} /\ ~terminating
  /\ h.stops < MaxStops
  /\ terminating' = TRUE
  /\ UNCHANGED <<inputVars, wait, output, backlog, queued, outputVars, lock,
                 notify, posted, pc, h>>

\* The output thread shuts down: log_queue_reset_parallel_push, then the
\* final log_queue_rewind_backlog_all. Its event dies with it.
Stop ==
  /\ cpc \in {"asleep", "awake", "throttled"} /\ terminating /\ lock = NoOne
  /\ cpc' = "stopped"
  /\ notify' = FALSE /\ posted' = FALSE
  /\ RewindAll
  /\ h' = NoteRewindAll([h EXCEPT !.stops = @ + 1])
  /\ UNCHANGED <<inputVars, wait, inhand, buckets, elapsed, lock, terminating, pc>>

\* A kept queue is acquired by the next configuration's output thread, which
\* rewinds whatever is on the backlog (nothing, after Stop) and starts.
Restart ==
  /\ cpc = "stopped"
  /\ \A t \in Threads : pc[t] # "call"
  /\ cpc' = "awake" /\ terminating' = FALSE
  /\ RewindAll
  /\ h' = NoteRewindAll(h)
  /\ UNCHANGED <<inputVars, wait, inhand, buckets, elapsed, lock, notify, posted, pc>>

\* The driver drops its reference for good. The configuration is torn down
\* while no thread is inside a push; registered batch callbacks may be left.
Release ==
  /\ cpc = "stopped"
  /\ \A f \in Feeders : pc[f] = "idle"
  /\ cpc' = "gone"
  /\ Unref
  /\ UNCHANGED <<cb, todrop, inhand, buckets, elapsed, wakeVars, pc>>

-----------------------------------------------------------------------------
WorkerStep(w) ==
  \/ MoveInput(w) \/ DropOne(w) \/ MoveInputSplice(w)
  \/ Call(w) \/ RelockWorker(w) \/ MoveInputFinish(w)

FeederStep(f) == Call(f) \/ RelockFeeder(f)

OutputStep ==
  \/ Wakeup \/ CheckItemsEmpty \/ CheckItems \/ ThrottleTimeout
  \/ PopThrottled \/ PopHead \/ PopTake \/ PopCount \/ Stop \/ Restart

Next ==
  \/ \E w \in Workers, fc \in BOOLEAN : PushFast(w, fc)
  \/ \E f \in Feeders, fc \in BOOLEAN : PushSlow(f, fc) \/ PushSlowDrop(f, fc)
  \/ \E w \in Workers : WorkerStep(w)
  \/ \E f \in Feeders : FeederStep(f)
  \/ OutputStep
  \/ TimerWakeup \/ PeekHead
  \/ \E n \in 1..(MaxMsgs + 1) : AckBacklog(n) \/ RewindBacklog(n)
  \/ RewindBacklogAll \/ RequestExit \/ Release

Spec == Init /\ [][Next]_vars

\* A started batch ends, a thread inside the queue gets on, and the output
\* thread's event loop runs what is due. Nobody has to push, ack or rewind.
Fairness ==
  /\ \A w \in Workers : WF_vars(WorkerStep(w))
  /\ \A f \in Feeders : WF_vars(FeederStep(f))
  /\ WF_vars(OutputStep)

FairSpec == Spec /\ Fairness

-----------------------------------------------------------------------------
(* Properties.                                                             *)

\* The lengths kept beside each list are the lengths of the list, also those
\* of the messages that are not flow controlled, on which dropping depends.
Counted(q) == q.len = Len(q.items) /\ q.nfc = NfcCount(q.items)

LengthsMatch ==
  /\ Counted(wait) /\ Counted(output) /\ Counted(backlog)
  /\ \A w \in Workers : Counted(inq[w])

\* queued_messages is the length of the queue, up to the slow-path pushes that
\* gave up the lock for the callback before counting their message and the
\* message pop_head has unlinked and not counted yet.
Uncounted == {f \in Feeders : pc[f] \in {"call", "relock"}}

QueuedCounter ==
  queued = Length - Cardinality(Uncounted) + (IF cpc = "count" THEN 1 ELSE 0)

\* Every message pushed is at exactly one place: in one of the lists, in the
\* hands of pop_head, acked, dropped for lack of space, or aborted.
AllQueues == {wait, output, backlog} \cup {inq[w] : w \in Workers}

TotalLen == Len(wait.items) + Len(output.items) + Len(backlog.items)
            + Cardinality({wi \in Workers \X (1..MaxMsgs) :
                             wi[2] <= Len(inq[wi[1]].items)})

NoLossNoDuplication ==
  /\ 1..h.pushed = (UNION {Ids(q.items) : q \in AllQueues}) \cup h.acked \cup h.dropped
                 \cup h.aborted \cup ({inhand.id} \ {0})
  /\ h.pushed = TotalLen + Cardinality(h.acked) + Cardinality(h.dropped)
              + Cardinality(h.aborted) + Cardinality({inhand.id} \ {0})

\* Messages of one thread keep their order from the backlog to its input
\* queue, unless rewind_backlog_all ran on a queue with pending output.
InHandSeq == IF inhand = NoMsg THEN <<>> ELSE <<inhand>>

Pipeline(t) ==
  backlog.items \o InHandSeq \o output.items \o wait.items
    \o (IF t \in Workers THEN inq[t].items ELSE <<>>)

InOrder(t) ==
  \A i, j \in DOMAIN Pipeline(t) :
    (i < j /\ Pipeline(t)[i].from = t /\ Pipeline(t)[j].from = t)
      => Pipeline(t)[i].id < Pipeline(t)[j].id

FifoPerThread == ~h.spliced => \A t \in Threads : InOrder(t)

\* log_fifo_size bounds the messages that are not flow controlled; it is
\* exceeded only by messages put back by a rewind, or when the batch of one
\* thread does not fit in the guint16 the drop calculation uses.
FifoSizeBound == h.truncated \/ NonFlowControlledLength <= FifoSize + h.rewound

\* An output thread that sleeps without a pending event, and with no pushing
\* thread about to post one, has its callback registered on an empty queue.
NoLostWakeup ==
  (cpc = "asleep" /\ ~posted /\ ~terminating /\ \A t \in Threads : pc[t] # "call")
    => notify /\ Length = 0

\* The queue is freed only after every registered batch callback has run, so
\* that no thread touches it any more (the assertion of log_queue_fifo_free).
FreedWhenUnused ==
  refs = 0 => \A w \in Workers : ~cb[w] /\ pc[w] = "idle" /\ inq[w] = Empty

\* is_empty_racy says empty only when no input, wait or output list holds a
\* message.
EmptyMeansEmpty ==
  IsEmptyRacy => \A q \in {wait, output} \cup {inq[w] : w \in Workers} :
                   q.items = <<>>

\* Whatever is queued is popped or dropped in the end, unless the output
\* thread is told to exit.
Queued(id) == \E q \in {wait, output} \cup {inq[w] : w \in Workers} : id \in Ids(q.items)

EveryMessageLeaves ==
  \A id \in 1..MaxMsgs : Queued(id) ~> (~Queued(id) \/ terminating)
=============================================================================
