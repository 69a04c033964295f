# A TLA+ development for syslog-ng

syslog-ng reads log messages from sources, passes them through a log path of
filters, parsers and rewrite rules, and hands them to destinations. Between the
log path and each destination stands a queue. This directory holds TLA+ models
of the parts of that pipeline whose correctness depends on interleavings,
limits, retries, crashes and restarts; the TLC configurations that check them on
small instances; and TLAPS proofs of the main safety properties for every value
of the constants.

Paths below are relative to the repository's `src/`.

## 1. Survey

### The parts and how they interact

```
 input --> LogReader/LogSource --> log path --> LogQueue --> destination worker
              ^   window, bookmark   (calls)    (memory,        (batches, retries)
              |                                  disk buffer)        |
              +----------- acknowledgement of each message <---------+
```

| part | code | state | operations |
|---|---|---|---|
| reader | `lib/logreader.c`, `lib/poll-fd-events.c`, `lib/mainloop-io-worker.c` | watches, restart task, wakeup event, the fetch job, suspended flag | poll, fetch, work finished, wakeup, file-modified notification, idle timeout, close, free |
| source window | `lib/logsource.c`, `lib/window-size-counter.c`, `lib/dynamic-window*.c` | window counter and its suspend bit, full window, pool, reclaim counters | post, adjust on ack, suspend, reallocate |
| ack trackers | `lib/ack-tracker/*` | pending record, records in order, saved bookmark | request, track, acknowledge |
| memory queue | `lib/logqueue-fifo.c`, `lib/logqueue.c` | per-thread input lists, wait list, output list, backlog, throttle buckets, notification | push, move input, pop, peek, ack, rewind, check items, free |
| disk-buffer file | `modules/diskq/qdisk.c` | header (three heads, two lengths), ring of records, file size | push, peek, pop, ack, rewind, truncate, load, save |
| reliable disk buffer | `modules/diskq/logqueue-disk-reliable.c` | the file, flow-control window, front cache, memory backlog | push, pop, peek, ack, rewind, start, stop |
| normal disk buffer | `modules/diskq/logqueue-disk-non-reliable.c` | front cache, file, flow-control window, backlog | the same, and the moves between segments |
| threaded destination worker | `lib/logthrdest/logthrdestdrv.c` | batch, retry counters, partition key, timers and events | perform work, insert, flush, process result, final flush, exit |
| message | `lib/logmsg/logmsg.c` | the word with reference count, ack count, abort and suspend flags; the per-thread cache | ref, unref, add ack, ack, start and stop of the cache |
| main loop, worker threads | `lib/mainloop.c`, `lib/mainloop-worker.c`, `lib/mainloop-io-worker.c`, `lib/mainloop-threaded-worker.c` | count of running jobs, quit flag, queued actions, exit notifications | submit, work, complete, reload, exit, start and end of a worker |
| calls into the main thread | `lib/mainloop-call.c`, `lib/ml-batched-timer.c` | call sites, queue of calls, shared timer | call, wait, handle, free a site, move the timer |
| scheduler | `lib/logscheduler.c` | per-thread batches, partitions and their jobs | push, flush, add batch, work, complete |
| threaded sources and fetchers | `lib/logthrsource/*` | window, wakeup condition, a fetcher's task, timers and events | post, block, wake up, fetch, schedule, exit |

The threads: the main thread runs the event loop that owns the watches, the
timers and the pool; I/O workers run fetch jobs; every destination has an output
thread; acknowledgements run in whichever thread finishes with a message. They
meet in atomic words, in the queue's lock, in posted events and in registered
callbacks.

What makes it hard:

- decisions made on a value read earlier (a window that was full, a list that
  was empty) while another thread changes it: lost wakeups;
- counters kept beside the thing they count (`batch_size`, list lengths, the
  queued counter, the window), moved by many operations;
- acknowledgements out of order, while the saved bookmark must be in order;
- batches that fail half-way, are rewound and retried while more messages come;
- a ring file whose last record may be longer than what is left, with three
  heads that wrap at different times;
- a process that dies with some messages acknowledged, some on disk and some in
  memory.

The properties that make the system correct: nothing acknowledged is lost,
nothing is acknowledged twice, the order of messages is kept, limits hold,
nobody sleeps while there is work, what is popped and not acknowledged comes
back after a failure, and counters tell the truth. `PROJECT.json` lists every
component (the ones that are not modelled with the reason) and every hazard with
its source line and the properties that would catch it.

### The modules

| part | specification | model checking | proofs |
|---|---|---|---|
| memory queue | `LogQueueFifo` | `MCLogQueueFifo` | `LogQueueFifo_proof`, `LogQueueFifo_order` |
| reader, window, ack trackers | `LogReader` | `MCLogReader` | `LogReader_steps`, `LogReader_proof` |
| disk buffer | `QDisk`, `LogQueueDiskReliable`, `LogQueueDiskNonReliable`; abstract: `BacklogQueue` | `MCLogQueueDiskReliable`, `MCLogQueueDiskNonReliable` | |
| threaded destination | `LogThreadedDestWorker` | `MCLogThreadedDestWorker` | `LogThreadedDestWorker_proof` |
| main loop, workers, calls | `MainLoop` over `MainLoopCall` | `MCMainLoop` | `MainLoop_steps`, `MainLoop_proof` |
| threaded sources, scheduler | `LogThreadedSource` over `LogScheduler` | `MCLogThreadedSource` | `LogThreadedSource_proof` |
| message | `LogMessage` | `MCLogMessage` | |

## 2. The modules

### LogQueueFifo — the memory queue

`lib/logqueue-fifo.c` over `lib/logqueue.c`. A pushing thread with an input list
of its own (`Workers`) appends to it without the lock; at the end of its batch
the list is moved under the lock to the wait list, after messages that exceed
`log_fifo_size` and are not flow controlled have been dropped (`MoveInput`,
`DropOne`, `MoveInputSplice`, `MoveInputFinish`). Other threads (`Feeders`) take
the lock for each message. The output thread moves the wait list to the output
list, pops to the backlog, acks or rewinds the backlog, and sleeps with a
callback registered when there is nothing to do.

A variable is a field of the C structures: `inq` (per-thread lists), `wait`,
`output`, `backlog` with the lengths kept beside them, `queued` (the counter),
`refs` and `cb` (references and registered batch callbacks), `notify` and
`posted` (the parallel push callback and the event it posts). An action is a
function, or the part of one between two points where another thread can see the
difference: `push_notify` gives up the lock around the callback, so `Call` and
the `Relock` actions are separate steps. `h` records history. `Uint16Mod` is the
modulus of the 16-bit batch length; it is a constant so that a small instance
reaches the truncation.

### LogReader — reader, flow-control window, ack tracker

Every atomic operation on shared state is one action: the window's
add/subtract/suspend/resume, the two reclaim counters, the pool, posting the
event. `main` and `dst[d]` are the program counters of a reallocation in the
main thread and of an acknowledgement in a destination thread; `job` is the
fetch job. A failed `g_assert` sets `abort` and stops everything. `Tracker`
selects the consecutive tracker (files: bookmarks in order, under a mutex) or
the bookmarkless instant one (sockets: lock free). The input and the peer that
closes the connection are the environment; only connections are closed
(`ReaderConstants`: with `MayClose` no reader is a followed file).

### QDisk, LogQueueDiskReliable, LogQueueDiskNonReliable — the disk buffer

`QDisk` is the file as a value: the header's heads and lengths, the size, and
what each byte holds. Its operators are the functions of `qdisk.c` from a disk to
a disk; a record that is overwritten is found out because a reader checks every
byte of it. The two queues add what is in memory and their actions: push, peek,
pop, ack, rewind, a clean stop, a crash of the process and a start. The queue's
lock covers every operation, so each is one step.

`BacklogQueue` is the abstract specification: a queue whose popped messages stay
in a backlog until they are acked from the oldest or rewound from the youngest.
Both disk buffers are checked to implement it through the mapping `view`, which
reads queue and backlog from the file as a reader would find them. In the
reliable buffer crashes and restarts are stutters; in the normal one a crash is
the only step that is not a step of the abstract queue, since it loses what is in
memory.

### LogThreadedDestWorker — a worker of a threaded destination

The worker's event loop: `_perform_work` and its branches, the insert loop with
its `pc`, the flush, `_process_result` for every answer of the driver, the
countdown of a rewound batch, the partition key, throttling, the batch timer, the
final flush and the exit. `s` holds the queue, its backlog and the worker's
counters; `watches` is the set of registered task and timers. The driver is
external: an answer is any member of `InsertResults` or `FlushResults`, and an
explicit answer comes after the driver acked and rewound any part of its batch.
`_perform_flush` calls `flush()` with an empty batch too, and processes whatever
answer comes; every flush sets `last_flush_time` (`elapsed` becomes false), which
`_schedule_restart_on_next_flush` looks at after it.

Of the queue the worker sees what matters to the order of messages: the last
`s.wait` messages of `s.queue` are on the wait list of the memory queue, the
others on its output list, which takes over the wait list when it is empty
(`Fetch`). `RewindBacklogAll` puts the backlog behind the output list, or in front
of the queue for a disk queue (`DiskQueue`). So when the driver leaves messages on the
backlog at the exit (the final flush answered `queued`, or an explicit answer covered
a part of the batch), the memory queue has them behind messages that came later; a
flush that settles its batch leaves nothing to rewind. `NothingLost` states the one
order before the exit, and after it the exchange of these two parts and nothing else.
`done`, `fails`, `blank` (failed flushes of nothing since the error counter was
reset), `fewest`, `first` and `last` are history.

### MainLoopCall, MainLoop — calls, workers, reload and exit

`MainLoopCall` is `main_loop_call()`, its handler in the main thread, and the
start and end of a calling thread. `site` holds the call sites, `tpc` where each
thread is in the call, `handler` where the main thread is: it runs the function
without a lock, marks the site done under the site's lock and signals under
`main_task_lock`, three steps that a caller may come in between. Using a site that
was freed sets `crashed`.

`MainLoop` adds the life of the threaded workers and of the pool's threads, the
I/O jobs, `main_loop_jobs_running`, the quit flag, the queue of actions (a reload's
apply, the exit) that wait for the count to drop to zero, and the timer that
several workers move (`ml-batched-timer.c`), whose update is a call that does not
wait. A worker that ends has itself counted out by a call that waits. An I/O job
has the stages of its C structure: submitted, taken by a thread of the pool, done,
completed in the main thread, and perhaps submitted again as its own continuation.
What the main thread does without waiting for another thread is one step.

### LogScheduler, LogThreadedSource — parallel processing of what sources post

`LogScheduler` is `lib/logscheduler.c`: a thread that pushes collects messages by
partition (round robin in runs of `batch_size`, or by the hash of its key, which here
is the number of the message, so that a thread feeds all partitions), a flush hands each
collection to its partition in two steps (under the partition's lock, then the
submission of the job if the partition was idle), and the partition's job takes
all batches, injects their messages one by one and, on completion, restarts itself if
more have come. `LogThreadedSource` composes it with its users: workers that block on
a condition when their window is full, and fetchers, which do the same with a task,
two timers and two events of an event loop of their own. An acknowledgement gives
back the slot first and wakes the source in a later step. The assumption that
`ThreadIndex` is a natural number is the test of `log_scheduler_push()`
(`lib/logscheduler.c:331`): a thread without an index injects directly and is not one
of `Sources`.

### LogMessage — references and acknowledgements of one message

The word of `logmsg.c` and the cache that lets a thread count on its own and settle
at the end. Each thread is the list of calls it still has to make (`todo`), taken
from the code that makes them: the source, the multiplexer that feeds the
destinations one after another, the scheduler's thread, and destinations with and
without flow control that deliver, drop, abort or suspend. `early` are the
destinations whose queue shows the message before the feeding thread has ended its
batch. `Bias` and `CounterMod` are the constants of the packed word, made small so
that the bias and the width matter.

## 3. The runs

| run | instance | shows |
|---|---|---|
| `fifo` | one worker, one feeder, 2 messages with and without flow control, `FifoSize` 1, a 1-bit batch length, throttled, one rewind, one shutdown | no loss or duplication, per-thread order, the size bound, no lost wakeup, no use after free; every queued message is popped or dropped in the end |
| `reader_window` | a connection with window 2 and a followed file whose window never fills, two destination threads, 3 messages, all ack types | no slot lost, bookmark behind everything in flight, no lost wakeup, no assertion fails; everything is read and the bookmark catches up |
| `reader_dynamic` | window 1 + pool of 2 shared with other connections, 4 messages, 3 timer ticks, instant tracker, close | the window is conserved through growing, shrinking and reclaiming |
| `reader_file_full` | a followed file with window 1 | violation, see below |
| `disk_reliable` | ring of 6 bytes, records of 2 or 3, 6 messages (more than two laps), one crash or restart | never corrupt, acked is kept, no ack forgotten, counters agree, refinement |
| `disk_lap` | the same without the proviso | violation, see below |
| `disk_normal` | ring of 4 bytes, records of 1 or 3, front cache 2, window 2, 6 messages, one restart | never corrupt, order through all segments (refinement), counters agree, never stranded |
| `worker_results` | 2 messages, batches of 2, batch timer, throttle 1, all 7 answers to an insert and to a flush, of an empty batch too; the memory queue | nothing lost or repeated, order kept up to the rewind at the exit, error retries; every message is done, the worker exits when asked |
| `worker_batch` | 6 messages of two keys, batches of 3, every answer a flush may give but `queued` and `explicit` | one key in a batch, same batch across retries |
| `mainloop` | a threaded worker, a pool thread, a job, one reload, the exit, two updates of the timer, set or cancelled | a configuration is replaced alone, jobs are refused only for an action, every call runs once and wakes its caller, the timer follows; reload and exit come to their end |
| `sources` | a worker and a fetcher with window 2, 3 messages, two partitions; round robin in runs of 2, and hashing with batches that close by themselves | nothing lost or reordered in a partition, no batch without a job, no lost wakeup, overrun at exit only |
| `message` | two destinations, one or both flow controlled, with and without cache, scheduler and early queues; bias 4, 4-bit counters | freed exactly when the last user is done; the source is told once, last, and never better than the worst answer |

Bounds. Each is a constant and named in the module. They are the smallest that
make the cases happen: more messages than a window or a batch holds, so that it
fills, empties and fills again; a batch, a rewind and a push in between; more bytes
than two laps of the ring; two connections, so that the pool's share of one of them
changes in both directions; two updates of the timer, so that one call of a site
waits for the one before; two partitions and two threads that feed both.
`PROJECT.json` names, for each property of each passing run, a change of the
modelled code under which TLC reports that property violated in that run.

Deadlock is not checked where the system may really stop: everything pushed has
left, the reader was freed, the process is down and may not start again, the
message was freed, the program has exited, or an assertion failed. The runs of the
worker and of the sources check it: only a state with the messages used up
(`SourcesAtBound`), or one in which every source has ended or the process died,
stutters.

### Fairness

- `fifo`: weak fairness of each thread that is inside the queue (a started batch
  ends: `main_loop_worker` runs the batch callbacks after every batch) and of the
  output thread's event loop. Nobody has to push, ack or rewind.
- `reader_window`: weak fairness of the main loop's handlers, of the submitted job
  and of the destinations' acknowledgements.
- `worker_results`: weak fairness of the worker's loop and of the batch timer;
  strong fairness of the two posted events, which ivykis serves in every iteration
  of the loop, so that timers cannot starve them; and strong fairness of
  `Reconnected` and `Accepted`, the assumption that the destination keeps coming
  back. Without it no message need ever be delivered.
- `mainloop`: weak fairness of the main thread and of every other thread; strong
  fairness of what the event loop and the pool serve in turn (the handler of calls,
  the reenable task, the exit timer, the completion of a job, the taking of a job),
  since each is due only between other handlers. Nobody has to ask for a reload or
  an exit, submit a job or move the timer.

### Two disagreements

`reader_file_full`. `log_reader_trigger_one_check()` (`lib/logreader.c:357`)
forces a fetch whenever no job is working, also when the reader is suspended on a
full window. A followed file that is modified at that moment is read once more,
and the assertion of `lib/logsource.c:583` fails, of which the comment at 575-577
says that it "validates that the source is not overflowing its own flow-control
window size". With the static container the assertion on the pending record comes
first. The other reader runs use connections, or a file whose window never fills.

`disk_lap`. `qdisk_is_space_avail()` (`modules/diskq/qdisk.c:389`) bounds the
write head by the backlog head alone. A read head left at the end of the ring is
corrected by the next peek or pop only. When the backlog head moves on to the new
lap before that, pushes of the lap may reach the read head, and the header becomes
one that `qdisk_header_is_inconsistent()` (`qdisk.c:1205`) rejects.
`disk_reliable` therefore checks everything under the proviso `ReaderKeepsUp`: a
peek or pop comes before the writes of the new lap reach the old read head
(`InTime`). It restricts pushes only in states in which the read head is past the
end of the ring.

## 4. The proofs

All proofs are checked by TLAPS with its SMT, Zenon and LS4 backends and rest on
nothing but the named assumptions on the constants (each evaluated by TLC in the
runs) and the library's theorems on sequences, functions and finite sets. In
`LogReader_steps` and `MainLoop_steps` the few library facts the steps need are a
definition (`Laws`, `CardinalityLaws`) that the lemmas assume; `LogReader_proof` and
`MainLoop_proof` prove it from the library before they use those lemmas.

### LogQueueFifo_proof

For any sets of worker and feeder threads (finite, disjoint), any sizes and
bounds. The inductive invariant is

    Inv == TypeOK /\ QueuesCounted /\ Control /\ RefCount
           /\ QueuedCounter /\ NoLostWakeup /\ DropBound

`LengthsMatch` is inductive only with the types of the lists (`QueuesCounted`: a
list is a sequence of messages whose two lengths are right). `FreedWhenUnused`
needs `RefCount`, that the references are those of the driver and of the
registered callbacks, and `Control`, which says where a thread may be while it
holds the lock and that a thread without a callback has an empty list.
`FifoSizeBound` needs `DropBound`, how many messages the step in progress still
has to drop. Theorems: `Invariance`, `TypeCorrect`, `LengthsMatchHolds`,
`QueuedCounterHolds`, `NoLostWakeupHolds`, `FifoSizeBoundHolds`,
`FreedWhenUnusedHolds`, `EmptyMeansEmptyHolds`.

### LogQueueFifo_order

The two properties about the messages themselves, for the same constants:
`NoLossNoDuplicationHolds` and `FifoPerThreadHolds`. What the output side holds is
one list, oldest message first:

    Core == backlog.items \o InHandSeq \o output.items \o wait.items

`StepMoves` shows that every step of every thread is one of nine moves on `Core`,
the input lists and the history: nothing moves (a pop, a rewind of the youngest
messages and the take-over of the wait list only move the borders inside `Core`); a
message is pushed to an input list, to the end of `Core`, or dropped at once; one is
dropped out of an input list; an input list is appended to `Core`; the oldest part of
`Core` is acked; all of it is aborted; or `rewind_backlog_all` exchanges parts of it.
It needs `InHand`, that `pop_head` has a message in its hands only between taking and
counting it. The rest is proved once per move:

    MessagesInv == InHand /\ PlacesInv /\ OrderInv

`PlacesInv` is the ledger: the ids `1..pushed` are spread over the places without
overlap, no list has an id twice, and so the sizes of the places add up to the number
pushed. That the places do not overlap is what makes the sum inductive: a message
that leaves one set is new in the next. `OrderInv` says that `Core` has the messages
of each thread in order, that an input list holds messages of its own thread only, in
order, and that none of `Core` is younger than one of the same thread in an input
list; the second part is what lets the list of one worker be appended behind
messages of others. A pushed message is the youngest because of the ledger.

### LogThreadedDestWorker_proof

For any number of messages, any options and any set of answers of the driver. The
inductive invariant is

    Inv == /\ pc # "exited" => Books /\ Counted(s)
           /\ pc = "exit" /\ FlushSettles => s.backlog = <<>>
           /\ pc = "exited" => Left
           /\ Flags /\ Awake

`Books` says that done, backlog and queue, one after the other, are the messages
pushed, and that the error counter does not exceed the failures of the message
that is next to be done and of the empty flushes (`blank`) together: this is what
`DroppedAfterRetries` needs, and it is inductive only because the counter is reset
whenever a message leaves. `Counted` is that the batch counter is the length of the
backlog. `Left` is what the rewind at the exit makes of the books: the queue is
`b \o a \o c`, where `a` was the backlog, `b` the output list and `c` the wait list
(`Spliced`), so that done, `a`, `b` and `c` are the messages pushed; `b` is empty for
a disk queue and for a driver whose flush settles its batch. What is pushed later
goes to `c`. The lemmas `Joined`, `Slice` and `Pieces` turn this into the statement
of `NothingLost` about positions in the queue. `Awake`
strengthens `NeverAsleepWithWork`: an idle worker has a watch or a posted event, or
its callback is registered with an empty queue and an empty batch. The answers of
the driver are treated once: `Outcome` describes what `_process_result` may do to
a worker (a prefix of the batch leaves, the rest stays in order in the backlog and
the queue), `ProcessResultFacts` proves it for all seven answers, and
`AnswerFacts` derives that the books stay right.

Theorems: `Invariance`, `TypeCorrect`, `BatchIsBacklogHolds`, `NothingLostHolds`,
`DroppedAfterRetriesHolds`, `NeverAsleepWithWorkHolds`. Two more hold for a driver
whose `flush()` settles its batch (`FlushSettles`: it answers neither `queued` nor
`explicit`): `OneKeyPerBatchHolds`, from `KeyInv` (the batch has the remembered
key, also after `last_key` was overwritten by the flush it caused), and
`BatchWithinLinesHolds`, from `RoomInv`, for `batch-lines()` of at least 1 and an
`insert()` that does not ack by itself. A driver that keeps messages of a flushed
batch can exceed both.

Under the assumptions of both, `BatchKeptAcrossRetriesHolds`: a batch that failed is
retried as the same batch. It follows from `RetryInv`, inductive on top of `Inv`,
`KeyInv` and `RoomInv`: while the batch of `first` messages has not gone through, the
same messages are the next ones and go into one batch (`OneBatch`), and the worker
will stop at the last of them, either because `rewound_batch_size` counts down to it
or because the batch ends there by itself, full or before another key (`Retrying`).

### LogReader_steps, LogReader_proof

For any number of destination threads and messages, any window, pool and fetch
limit, both trackers, connections and followed files. The inductive invariant is

    Inv == ControlTypes /\ CounterTypes /\ AckTypesOK /\ Control /\ Hands
           /\ Order /\ WindowConserved /\ Wakeup /\ Static

`WindowConserved` needs `Hands`: which acknowledgements have slots in hand, that
with the consecutive tracker only the holder of its mutex has any, and with the
instant one each thread has at most one. It needs `Lifecycle` (in `Control`) for
the total that a reallocation exchanged out of `pending_reclaimed`, and `Order`
to know that a posted message was not in flight before. `BookmarkBehindInflight`
needs the rest of `Order`: the records are in the order of the messages, above the
saved bookmark, and those of messages in flight are not acknowledged, so the range
that `Untrack` closes ends before each of them (`UntrackOrder`). `NoLostWakeup`
needs `Exclusive` (in `Control`): at most one of the watch, the restart task and
the job is on, and none while the reader is suspended. `Static` is about sources
without a dynamic window: nothing is ever reclaimed, and on a connection the
window is not empty before a fetch, which with `WindowConserved` leaves room for
the record of the message in the static container.

`LogReader_steps` states the invariant and proves what a step does to each part of
it, the static window included, but for the conservation of slots: a frame lemma for each part of the state says
which actions change it, and the lemmas `...Outcome` describe a step of an
acknowledgement once (`Becomes`). `LogReader_proof` accounts for the slots: the sum
over the threads is moved by one thread at a time (`HandfulUpdate`, `InHandUpdate`),
`SourceMoves` and `AckMoves` give the moves of the source and of an
acknowledgement, and `ConservedStep` puts them together.

Theorems: `Invariance`, `WindowConservedHolds`, `BookmarkBehindInflightHolds`,
`NoLostWakeupHolds`; `WindowAssertionsHold`, for a connection with a static window
(a followed file violates it, see above); `TypeCorrect`, until the source is freed
or without a dynamic window.

### MainLoop_steps, MainLoop_proof

For any numbers of threaded workers, pool threads, jobs, reloads and timer updates.
The inductive invariant is

    IInv == CallTypes /\ LoopTypes /\ (\A t \in Threads : SiteOK(t) /\ LifeOK(t))
            /\ QueueOK /\ ActionsOK /\ QuietOK /\ Counted

`AppliedAlone` follows from the counter being zero when actions run (`QuietOK`) and
from the counter being right (`Counted`). The latter is inductive only if the call
that counts a worker out is known to run once, and for that one has to know where
every call is: `SiteOK` says that a site is pending from the moment it is filled in
until the handler marks it done and that it is in one place in between, `LifeOK`
which calls a thread can have in each stage of its life, `QueueOK` that the handler
frees only the site of a thread that is gone. `ActionsOK` relates the queued
actions to the quit flag, to the reenable task and to where the main thread is,
which gives `RefusedOnlyForAction`. For sleeping callers and the timer there is a
second invariant, inductive together with the first:

    WInv == (\A t \in Threads : WakeOK(t)) /\ PostedOK /\ TimerOK

Each part is carried through a step by lemmas for the stages of a call, the
handler, the jobs and the main thread; the counter's lemmas count by which one
element the sets of busy jobs and live workers change. `MainLoop_steps` has the
invariant and the steps of the calling threads, of the jobs and of the main thread
outside the handler, `MainLoop_proof` the taking of a job, the handler, the second
invariant and the theorems.

Theorems: `Inductive`, `JobsCountedHolds`, `AppliedAloneHolds`,
`RefusedOnlyForActionHolds`, `CallRunsOnceHolds`, `NoLostWakeupHolds`,
`TimerFollowsHolds`: every safety property of the run `mainloop`. They speak of
behaviours in which `crashed`, if it happens, stops the program (section 6).

### LogThreadedSource_proof

For any numbers of workers, fetchers, partitions and messages, any window and batch
size, both ways to choose a partition. The inductive invariant is

    IInv == SourceTypes /\ SchedTypes /\ (\A p \in Partitions : JobOK(p))
            /\ (\A s \in Sources : BatchOK(s) /\ WindowOK(s) /\ WakeupOK(s))

`NoStrandedBatch` is inductive only with the meaning of the partition's flag
(`JobOK`): it is set as long as there is a batch, a job, or a thread that found it
clear and has not submitted yet, and there is at most one such thread. `BatchOK` says
how far a source that is about to wait has come with closing its batch, `WindowOK`
that a source about to post has a free slot or was asked to exit, and that a
fetcher's task and its timer for a source without data are on only with a free slot;
`OverrunOnlyAtExit` follows from it. `WakeupOK` is what the two kinds of sources
wait for; it is inductive because an acknowledgement gives back the slot and owes the
wakeup in the same step, and a source goes to sleep only on a window it finds full.

`NothingLost` has an invariant of its own, inductive together with the first:

    MInv == MessageTypes /\ Books(posted, injected.last, injected.all, Collected, Waiting)

`Waiting[p]` are the batches that the job of `p` took, followed by those that wait;
`Collected[s][p]` is what `s` has not handed over yet. `Books` says that the lists of
batches hold no empty batch and have the messages of each thread in order, that what
`s` has collected is its own and younger than what it handed over, and that every
number up to `posted[s]` is either injected or in exactly one place, above the last
one that its partition injected. Only three steps move a message: a post appends one
to a collection, `AddBatch` makes a collection the last batch of the partition, and
`InjectMsg` takes the first message of the first batch; `BooksPost`, `BooksAdd` and
`BooksInject` prove each for arbitrary values, and the taking of the batches leaves
`Waiting` as it is. Theorems: `Invariance`, `NoStrandedBatchHolds`,
`NoLostWakeupHolds`, `OverrunOnlyAtExitHolds`, `NothingLostHolds`: every safety
property of the run `sources`.

### Only model-checked

Liveness under fairness (`EveryMessageLeaves`, `EveryMessageRead`,
`BookmarkCatchesUp`, `EveryMessageDone`, `ExitsWhenAsked`, `Ends`) is out of the
prover's reach. So is what the walk over the records of the ring computes for every
input (`Walk` is recursive), and with it the disk-buffer properties and the
refinements of `BacklogQueue`. The properties of `LogMessage` are not proved either.

## 5. Not modelled

- Reader: the deferred close asked for by another thread, the handshake, packet
  statistics, the batched ack tracker (used by Python sources only).
- Disk buffer: failing `pwrite`, `ftruncate` and `mmap`, a crash in the middle of
  one operation, the replacement of a corrupted file, the wrap condition of
  version 1 headers, messages that do not deserialize.
- Threaded destination: the choice among several workers, sequence numbers,
  statistics.
- Main loop: a new configuration that does not parse (nothing is replaced then), a
  worker whose `thread_init()` fails, the final wait for threads
  (`block_till_workers_exit()`), the sync call of the debugger,
  `main_loop_worker_wait_for_exit()`, spurious wakeups of condition variables.
- Scheduler and threaded sources: pushes by a thread without an index, which inject
  directly (`lib/logscheduler.c:329`), a build without job continuations, `open()`
  that fails, several workers in one driver.
- Message: clones, which have a word of their own and a reference on the original.
- `lib/logwriter.c`, the destination side of files and sockets: its use of a queue is
  that of the output thread in `LogQueueFifo` and of the disk queues, its own watches
  and reopening are not modelled. `lib/persist-state.c`: mostly layout of a mapped
  file; the saved bookmark of `LogReader` stands for it.
- Everything that is a pure function of one message (filters, parsers, rewrite
  rules, templates), input and output of the operating system (transports, files,
  sockets, TLS), the configuration, the control socket and the drivers themselves.
  `PROJECT.json` lists these components one by one.

## 6. Observations without a run

- `log_queue_fifo_rewind_backlog_all()` (`lib/logqueue-fifo.c:550`) puts the
  backlog at the tail of the output list. When output is pending the rewound batch
  comes after it; `FifoPerThread` is stated up to that, and so is `NothingLost` of
  the worker's exit. `_worker_thread()` rewinds the backlog at its start "so we start
  with that" (`lib/logthrdest/logthrdestdrv.c:778-779`), which a memory queue with
  output pending does not do.
- `_perform_flush()` calls `flush()` with an empty batch as well
  (`lib/logthrdest/logthrdestdrv.c:396-401`). An error answered to such a call is
  counted in `retries_on_error_counter`, so the next batch has fewer retries than
  configured; `DroppedAfterRetries` counts these calls.
- A retry answered by a flush inside the insert loop decrements
  `rewound_batch_size` in the same iteration (`lib/logthrdest/logthrdestdrv.c:506`),
  so the retried batch is one message smaller. `BatchKeptAcrossRetries` is about
  errors and lost connections, which leave the loop.
- `pending_reclaimed` and `window_size_to_be_reclaimed` are moved by two atomic
  operations (`lib/logsource.c:55`, `65`) and read by two (`lib/logsource.c:309`).
  `reader_dynamic` shows that the window of the source stays conserved in between.
  That the shared pool is never given back more than it lent (the assertion of
  `lib/dynamic-window-pool.c:78`) needs longer behaviours than that run explores
  and is not shown.
- Freed call sites. `lib/mainloop-call.c:99` says that "we're the only ones using
  call_info now", but the handler may be between marking a call done and signalling
  it. A signal that late wakes the thread's next call; when that is its last one,
  the thread may return and free the site before the handler signals it. The model
  has this step as `crashed`.
- Quit flag. The comment at `lib/mainloop-worker.c:210` calls
  `main_loop_workers_quit` write-once; a reload sets it back. The comment in
  `_reenable_worker_jobs()` (437-442) knows two cases without a reload; the
  debugger's sync call is a third, after which the flag stays set until a reload.
- `main_loop_worker_wait_for_exit()` (`lib/mainloop-worker.c:196`) waits on a
  condition without a predicate.
- A thread whose id exceeds the maximum gives the id up without clearing its bit
  (`lib/mainloop-worker.c:120`). The entry of a worker whose `run()` returns unasked
  stays on the exit notification list; in `MainLoop` `run()` returns only when asked.
- A partition's job that completes while the workers quit is not restarted: batches
  added meanwhile stay (`NoStrandedBatch` excepts this by `quit`).
- An acknowledgement tests `under_termination` of a fetcher and then posts its wakeup
  event (`lib/logthrsource/logthrfetcherdrv.c:153`), which the fetcher may have
  unregistered in between (`crashed` in `LogThreadedSource`).
- A worker asked to exit sees `under_termination` before its driver's flag is set
  (`lib/logthrsource/logthrsourcedrv.c:200`), so it may post once more into a full
  window, against the assertion of `lib/logsource.c:583`. `OverrunOnlyAtExit` shows
  that this is the only case.
- The scheduler's thread feeds destinations with
  `log_msg_refcache_start_consumer()` (`lib/logscheduler.c:97`), which adds no bias,
  although it adds references as a producer does. A queue that shows the message at
  once (a disk queue) lets a destination take the counters to zero before the thread
  folds its own in: the source is told early, or the message is freed in use. The
  comment at `lib/logmsg/logmsg.c:108-116` describes the bias as what prevents this.
  The properties of `LogMessage` are stated for the other cases (`Biased`); without
  that condition TLC finds both violated.
