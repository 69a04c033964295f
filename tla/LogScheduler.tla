---------------------------- MODULE LogScheduler ----------------------------
(***************************************************************************)
(* Spreading messages over partitions (lib/logscheduler.c).                *)
(*                                                                         *)
(* A thread that pushes collects its messages by partition; when its batch *)
(* is closed, it hands each non-empty collection over to its partition as  *)
(* one batch.  A partition has one I/O job (lib/mainloop-io-worker.c),     *)
(* which takes all batches that are there and injects their messages, and  *)
(* which the thread that adds to an idle partition submits.                *)
(*                                                                         *)
(* A message is <<thread, number>>, numbered from 1 in each thread.        *)
(***************************************************************************)
EXTENDS Naturals, Sequences

CONSTANTS Sources,        \* threads that push
          NumPartitions,  \* options->num_partitions
          Options,        \* sets of the other options to check
          ThreadIndex(_)  \* main_loop_worker_get_thread_index()

Partitions == 0 .. NumPartitions - 1

VARIABLES options,   \* [key: partition_key is set, size: batch_size, auto: auto_close_batches]
          state,     \* thread_states
          flush,     \* where each thread is in _flush_batch()
          part,      \* the partitions and their I/O jobs
          quit,      \* main_loop_workers_quit
          injected   \* history: last message of each thread injected in each partition, and all of them

schedVars == <<options, state, flush, part, quit, injected>>

NotFlushing == [at |-> NumPartitions, submit |-> FALSE]

\* _thread_state_init().
NewState(s) ==
  [countdown |-> options.size, last |-> ThreadIndex(s) % NumPartitions, num |-> 0,
   batch |-> [p \in Partitions |-> <<>>]]

SchedInit ==
  /\ options \in Options
  /\ state = [s \in Sources |-> NewState(s)]
  /\ flush = [s \in Sources |-> NotFlushing]
  /\ part = [p \in Partitions |-> [batches |-> <<>>, running |-> FALSE, job |-> "idle", taken |-> <<>>]]
  /\ quit = FALSE
  /\ injected = [last |-> [p \in Partitions |-> [s \in Sources |-> 0]], all |-> [s \in Sources |-> {}]]

-----------------------------------------------------------------------------
(* The threads that push.                                                  *)

\* log_template_hash() of the partition key, a number that only the message
\* decides: here every message of a thread has a key of its own, hashed to the
\* message's number.
Hash(m) == m[2]

\* _get_partition_index(): the partition of m and what it leaves in the state.
PartitionIndex(s, m) ==
  LET st == state[s]
      next == (st.last + 1) % NumPartitions
  IN  CASE options.key -> [p |-> Hash(m) % NumPartitions, st |-> st]
        [] ~options.key /\ options.size > 0 /\ st.countdown > 1 ->
             [p |-> st.last, st |-> [st EXCEPT !.countdown = @ - 1]]
        [] OTHER -> [p |-> st.last, st |-> [st EXCEPT !.countdown = options.size, !.last = next]]

\* log_scheduler_push(): _queue_thread().  num > 0 stands for the batch callback
\* that is registered with the first message.
Push(s, m) ==
  LET i == PartitionIndex(s, m) IN
  /\ state' = [state EXCEPT ![s] = [i.st EXCEPT !.num = @ + 1, !.batch[i.p] = Append(@, m)]]
  /\ UNCHANGED <<options, flush, part, quit, injected>>

\* main_loop_worker_invoke_batch_callbacks(): _flush_batch() begins, when it is
\* registered.
CloseBatch(s) == flush' = [flush EXCEPT ![s] = IF state[s].num > 0 THEN [NotFlushing EXCEPT !.at = 0] ELSE @]

Flushing(s) == flush[s] # NotFlushing

\* One round of its loop: _partition_add_batch() up to the unlock.
AddBatch(s) ==
  LET p == flush[s].at
      batch == state[s].batch[p]
      trigger == ~part[p].running /\ part[p].batches = <<>>
  IN
  /\ flush[s].at < NumPartitions /\ ~flush[s].submit
  /\ \/ /\ batch = <<>>
        /\ flush' = [flush EXCEPT ![s].at = p + 1]
        /\ UNCHANGED part
     \/ /\ batch # <<>>
        /\ part' = [part EXCEPT ![p].batches = Append(@, batch), ![p].running = @ \/ trigger]
        /\ flush' = [flush EXCEPT ![s] = IF trigger THEN [@ EXCEPT !.submit = TRUE] ELSE [@ EXCEPT !.at = p + 1]]
  /\ state' = [state EXCEPT ![s].batch[p] = <<>>, ![s].num = IF flush'[s] = NotFlushing THEN 0 ELSE @]
  /\ UNCHANGED <<options, quit, injected>>

\* main_loop_io_worker_job_submit_continuation().
SubmitContinuation(s) ==
  LET p == flush[s].at IN
  /\ flush[s].submit
  /\ part' = [part EXCEPT ![p].job = "working"]
  /\ flush' = [flush EXCEPT ![s] = [at |-> p + 1, submit |-> FALSE]]
  /\ state' = [state EXCEPT ![s].num = IF flush'[s] = NotFlushing THEN 0 ELSE @]
  /\ UNCHANGED <<options, quit, injected>>

-----------------------------------------------------------------------------
(* The I/O job of a partition.                                             *)

\* Mutant: the batches that are taken stay on the list.
TakeBatches_Kept(p) ==
  /\ part[p].job = "working" /\ part[p].taken = <<>>
  /\ part' = [part EXCEPT ![p] = IF @.batches = <<>> THEN [@ EXCEPT !.job = "done"]
                                 ELSE [@ EXCEPT !.taken = part[p].batches]]
  /\ UNCHANGED <<options, state, flush, quit, injected>>

\* _work(): take the batches that are there, or return.
TakeBatches(p) ==
  /\ part[p].job = "working" /\ part[p].taken = <<>>
  /\ part' = [part EXCEPT ![p] = IF @.batches = <<>> THEN [@ EXCEPT !.job = "done"]
                                 ELSE [@ EXCEPT !.batches = <<>>, !.taken = part[p].batches]]
  /\ UNCHANGED <<options, state, flush, quit, injected>>

\* The first message of the first batch, and the batches without it.
FirstOf(batches) == Head(Head(batches))
WithoutFirst(batches) ==
  IF Len(Head(batches)) = 1 THEN Tail(batches) ELSE <<Tail(Head(batches))>> \o Tail(batches)

\* _reinject_message() of the next message that was taken.
Reinject(p) ==
  LET m == FirstOf(part[p].taken) IN
  /\ part[p].taken # <<>>
  /\ part' = [part EXCEPT ![p].taken = WithoutFirst(@)]
  /\ injected' = [injected EXCEPT !.last[p][m[1]] = m[2], !.all[m[1]] = @ \cup {m[2]}]
  /\ UNCHANGED <<options, state, flush, quit>>

\* Mutant: what came after work() returned does not restart the job.
Complete_NoRestart(p) ==
  /\ part[p].job = "done"
  /\ part' = [part EXCEPT ![p].running = FALSE, ![p].job = "idle"]
  /\ UNCHANGED <<options, state, flush, quit, injected>>

\* _complete(), in the main thread: submit again what came since, unless the
\* workers quit.
Complete(p) ==
  /\ part[p].job = "done"
  /\ part' = [part EXCEPT ![p].running = part[p].batches # <<>>,
                          ![p].job = IF part[p].batches # <<>> /\ ~quit THEN "working" ELSE "idle"]
  /\ UNCHANGED <<options, state, flush, quit, injected>>

=============================================================================
