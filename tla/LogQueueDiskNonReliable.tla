----------------------- MODULE LogQueueDiskNonReliable -----------------------
(***************************************************************************)
(* The normal disk buffer (modules/diskq/logqueue-disk-non-reliable.c): a  *)
(* queue in three segments, front_cache in memory, the file, and the       *)
(* flow_control_window in memory again, which alone holds messages that    *)
(* are not acknowledged to their source.  Messages move towards the front  *)
(* when one is popped.  The backlog is in memory.  A clean stop saves the  *)
(* memory queues behind the ring; a crash loses them.                      *)
(*                                                                         *)
(* The queue's lock covers every operation, so each is one step; the       *)
(* backlog is only touched by the output thread.                           *)
(***************************************************************************)
EXTENDS QDisk, FiniteSets, Functions

CONSTANTS
  FrontCacheSize, \* front_cache_size
  WindowSize,     \* flow_control_window_size
  Guess,          \* the 4096 bytes a moved message is guessed to need
  MaxMsgs,        \* bound on the messages pushed
  MaxStarts       \* bound on the restarts of the process

ASSUME NonReliableConstants ==
  /\ FrontCacheSize \in Nat /\ WindowSize \in Nat /\ Guess \in Nat
  /\ MaxMsgs \in Nat /\ MaxStarts \in Nat /\ ~Reliable

VARIABLES
  disk,    \* the qdisk
  front,   \* front_cache
  window,  \* flow_control_window: entries [id, ack], ack is ack_needed
  backlog, \* backlog
  saved,   \* the memory queues saved in the file: [front, backlog, window]
  queued,  \* the queued_messages counter
  pc,      \* "down", "started", or "working" once the output thread runs
  out,     \* the message the last peek or pop returned
  acks,    \* acknowledgements the source got for each message
  sizes,   \* the size of the record of each message
  pushed,  \* messages pushed so far
  dropped, \* messages there was no space for
  starts,  \* restarts so far
  corrupt, \* a record could not be read
  view     \* the whole queue and the backlog

segments == <<disk, front, window>>
runVars == <<pc, starts>>
vars == <<segments, backlog, saved, queued, runVars, out, acks, sizes, pushed,
          dropped, corrupt, view>>

Msg == 1 .. MaxMsgs
Acked(S) == [m \in Msg |-> IF m \in S THEN acks[m] + 1 ELSE acks[m]]
IdsOf(w) == [i \in 1 .. Len(w) |-> w[i].id]
NoQueues == [front |-> <<>>, backlog |-> <<>>, window |-> <<>>]

View(f, d, w, b, s) ==
  [queue |-> f \o s.front \o QueuedOn(d) \o IdsOf(w \o s.window), backlog |-> b \o s.backlog]

Init ==
  /\ disk = NewDisk /\ front = <<>> /\ window = <<>> /\ backlog = <<>>
  /\ saved = NoQueues /\ queued = 0
  /\ pc = "started" /\ starts = 0 /\ out = 0
  /\ acks = [m \in Msg |-> 0] /\ sizes = [m \in Msg |-> 0]
  /\ pushed = 0 /\ dropped = {} /\ corrupt = FALSE
  /\ view = View(front, disk, window, backlog, saved)

-----------------------------------------------------------------------------
\* Mutant: the file is not looked at.
CanPushToFrontCache_AnyDisk(f, d) == Len(f) < FrontCacheSize

\* _can_push_to_front_cache()
CanPushToFrontCache(f, d) == Len(f) < FrontCacheSize /\ d.len = 0

\* _push_tail() of a record of n bytes: to the front cache, to the file, to the
\* flow-control window, which is not acknowledged, or nowhere.
PushTailMsg(n) ==
  LET m == pushed + 1
      onDisk == window = <<>> /\ CanPush(disk, n)
  IN  /\ pc # "down" /\ ~corrupt /\ pushed < MaxMsgs
      /\ pushed' = m /\ sizes' = [sizes EXCEPT ![m] = n]
      /\ \/ /\ CanPushToFrontCache(front, disk)
            /\ front' = Append(front, m) /\ acks' = Acked({m}) /\ queued' = queued + 1
            /\ UNCHANGED <<disk, window, dropped>>
         \/ /\ ~CanPushToFrontCache(front, disk) /\ onDisk
            /\ disk' = PushTail(disk, m, n) /\ acks' = Acked({m}) /\ queued' = queued + 1
            /\ UNCHANGED <<front, window, dropped>>
         \/ /\ ~CanPushToFrontCache(front, disk) /\ ~onDisk
            /\ disk' = IF window = <<>> THEN Positioned(disk) ELSE disk
            /\ IF Len(window) < WindowSize
                 THEN /\ window' = Append(window, [id |-> m, ack |-> TRUE])
                      /\ queued' = queued + 1 /\ UNCHANGED <<acks, dropped>>
                 ELSE /\ dropped' = dropped \cup {m} /\ acks' = Acked({m})
                      /\ UNCHANGED <<window, queued>>
            /\ UNCHANGED front
      /\ UNCHANGED <<backlog, saved, runVars, out, corrupt>>

\* One turn of _move_messages_from_disk_to_front_cache(); a record that cannot
\* be read leaves a 0.
MoveOneFromDisk(s) ==
  [s EXCEPT !.front = Append(@, RecordAt(s.disk, NextHead(s.disk))),
            !.disk = RemoveHead(@)]

MoveFromDisk(s) ==
  LET loop[i \in 0 .. s.disk.len] ==
        IF i = 0 THEN s
        ELSE LET t == loop[i - 1] IN
               IF t.disk.len > 0 /\ (Len(t.front) < FrontCacheSize \/ t.front = <<>>)
                 THEN MoveOneFromDisk(t) ELSE t
  IN  loop[s.disk.len]

\* _flow_control_window_has_movable_message()
HasMovable(s) ==
  s.window # <<>> /\ (CanPushToFrontCache(s.front, s.disk) \/ SpaceAvail(s.disk, Guess))

\* Mutant: a message that moves to the file is not acknowledged.
MoveOneFromOverflow_NoAck(s) ==
  LET m == Head(s.window).id IN
    IF CanPushToFrontCache(s.front, s.disk)
      THEN [s EXCEPT !.front = Append(@, m), !.window = Tail(@), !.acked = @ \cup {m}]
    ELSE IF CanPush(s.disk, sizes[m])
      THEN [s EXCEPT !.disk = PushTail(@, m, sizes[m]), !.window = Tail(@)]
    ELSE [s EXCEPT !.disk = Positioned(@), !.stop = TRUE]

\* One turn of _move_messages_from_overflow(); it stops at the first message
\* that needs more than was guessed.
MoveOneFromOverflow(s) ==
  LET m == Head(s.window).id
      acked == IF Head(s.window).ack THEN s.acked \cup {m} ELSE s.acked
  IN
    IF CanPushToFrontCache(s.front, s.disk)
      THEN [s EXCEPT !.front = Append(@, m), !.window = Tail(@), !.acked = acked]
    ELSE IF CanPush(s.disk, sizes[m])
      THEN [s EXCEPT !.disk = PushTail(@, m, sizes[m]), !.window = Tail(@), !.acked = acked]
    ELSE [s EXCEPT !.disk = Positioned(@), !.stop = TRUE]

MoveFromOverflow(s) ==
  LET loop[i \in 0 .. Len(s.window)] ==
        IF i = 0 THEN s
        ELSE LET t == loop[i - 1] IN
               IF HasMovable(t) /\ ~t.stop THEN MoveOneFromOverflow(t) ELSE t
  IN  loop[Len(s.window)]

\* Mutant: the overflow waits until the file is empty.
MoveMessages_FileOnly(s) ==
  IF s.front = <<>> /\ s.disk.len > 0 /\ FrontCacheSize > 0 THEN MoveFromDisk(s) ELSE s

\* _maybe_move_messages_among_queue_segments()
MoveMessages(s) ==
  MoveFromOverflow(IF s.front = <<>> /\ FrontCacheSize > 0 THEN MoveFromDisk(s) ELSE s)

\* _peek_head()
Peek ==
  /\ pc = "working" /\ ~corrupt
  /\ \/ front # <<>> /\ out' = Head(front) /\ UNCHANGED <<disk, corrupt>>
     \/ /\ front = <<>> /\ disk.len # 0
        /\ disk' = PeekHead(disk)
        /\ out' = RecordAt(disk, NextHead(disk))
        /\ corrupt' = (out' = 0)
  /\ UNCHANGED <<front, window, backlog, saved, queued, runVars, acks, sizes, pushed, dropped>>

\* _pop_head(): from the front cache or from the file; then messages move.
Pop ==
  /\ pc = "working" /\ ~corrupt
  /\ front # <<>> \/ disk.len # 0
  /\ out' = IF front # <<>> THEN Head(front) ELSE RecordAt(disk, NextHead(disk))
  /\ LET s == MoveMessages([front |-> IF front # <<>> THEN Tail(front) ELSE front,
                            disk |-> IF front # <<>> THEN disk ELSE RemoveHead(disk),
                            window |-> window, acked |-> {}, stop |-> FALSE])
     IN  /\ disk' = s.disk /\ front' = s.front /\ window' = s.window
         /\ acks' = Acked(s.acked)
  /\ corrupt' = (out' = 0 \/ 0 \in Range(front'))
  /\ backlog' = Append(backlog, out')
  /\ queued' = queued - 1
  /\ UNCHANGED <<saved, runVars, sizes, pushed, dropped>>

\* _ack_backlog()
Ack(n) ==
  /\ pc = "working" /\ ~corrupt /\ n <= Len(backlog)
  /\ backlog' = SubSeq(backlog, n + 1, Len(backlog))
  /\ UNCHANGED <<segments, saved, queued, runVars, out, acks, sizes, pushed, dropped, corrupt>>

\* _rewind_backlog(): the last n go back to the head of the front cache.
RewindQueue(n) ==
  LET stay == Len(backlog) - n IN
  /\ backlog' = SubSeq(backlog, 1, stay)
  /\ front' = SubSeq(backlog, stay + 1, Len(backlog)) \o front
  /\ queued' = queued + n

Rewind(n) ==
  /\ pc = "working" /\ ~corrupt /\ n <= Len(backlog)
  /\ RewindQueue(n)
  /\ UNCHANGED <<disk, window, saved, runVars, out, acks, sizes, pushed, dropped, corrupt>>

\* The output thread starts with log_queue_rewind_backlog_all().
StartWorker ==
  /\ pc = "started" /\ ~corrupt
  /\ pc' = "working"
  /\ RewindQueue(Len(backlog))
  /\ UNCHANGED <<disk, window, saved, starts, out, acks, sizes, pushed, dropped, corrupt>>

-----------------------------------------------------------------------------
\* _save_state(): the memory queues are written behind the ring; they are
\* restored "without ACKs".
SavedQueues ==
  [front |-> front, backlog |-> backlog,
   window |-> [i \in 1 .. Len(window) |-> [id |-> window[i].id, ack |-> FALSE]]]

\* log_queue_disk_stop(): everything is saved, and the window acknowledged.
Stop ==
  /\ pc # "down" /\ ~corrupt
  /\ pc' = "down"
  /\ saved' = SavedQueues
  /\ queued' = queued - (Len(front) + disk.len + Len(window))
  /\ acks' = Acked({e.id : e \in {x \in Range(window) : x.ack}})
  /\ front' = <<>> /\ window' = <<>> /\ backlog' = <<>>
  /\ UNCHANGED <<disk, starts, out, sizes, pushed, dropped, corrupt>>

\* The process dies: what is in memory is lost.
Crash ==
  /\ pc # "down" /\ ~corrupt
  /\ pc' = "down"
  /\ queued' = 0
  /\ front' = <<>> /\ window' = <<>> /\ backlog' = <<>>
  /\ UNCHANGED <<disk, saved, starts, out, acks, sizes, pushed, dropped, corrupt>>

\* log_queue_disk_start(): the saved queues are loaded, the file is truncated
\* and the positions of the queues are cleared.
StartQueue ==
  /\ pc = "down" /\ ~corrupt /\ starts < MaxStarts
  /\ pc' = "started" /\ starts' = starts + 1
  /\ corrupt' = HeaderIsInconsistent(disk)
  /\ front' = saved.front /\ window' = saved.window /\ backlog' = saved.backlog
  /\ disk' = LoadState(disk, saved # NoQueues)
  /\ saved' = NoQueues
  /\ queued' = queued + Len(front') + disk.len + Len(window')
  /\ UNCHANGED <<out, acks, sizes, pushed, dropped>>

Step ==
  \/ \E n \in Sizes : PushTailMsg(n)
  \/ Peek \/ Pop
  \/ \E n \in 1 .. Len(backlog) : Ack(n) \/ Rewind(n)
  \/ StartWorker \/ Stop \/ Crash \/ StartQueue

\* The view follows the segments.
Next == Step /\ view' = View(front', disk', window', backlog', saved')

Spec == Init /\ [][Next]_vars

-----------------------------------------------------------------------------
(***************************************************************************)
(* Properties.                                                             *)
(***************************************************************************)

\* Every record of the file can be read where the heads say it is, whatever the
\* ring went through, and the header is accepted at every start.
NeverCorrupt == ~corrupt /\ ~HeaderIsInconsistent(disk)

AbstractQueue ==
  INSTANCE BacklogQueue WITH queue <- view.queue, backlog <- view.backlog

\* The three segments are one queue with a backlog, in order, through every
\* move of messages and every clean stop and start; only a crash, which loses
\* what is in memory, is not a step of it.
RefinesBacklogQueue ==
  AbstractQueue!Init /\ [][AbstractQueue!Next \/ Crash]_(AbstractQueue!vars)

\* A message is acknowledged to its source once, and at the latest when it
\* leaves the flow-control window, unless a crash came first; the counter of
\* queued messages is the length of the three segments.
AccountsAgree ==
  /\ \A m \in 1 .. pushed :
       \/ acks[m] = 1
       \/ acks[m] = 0 /\ [id |-> m, ack |-> TRUE] \in Range(window)
       \/ acks[m] = 0 /\ m \notin Range(view.queue) \cup Range(view.backlog)
  /\ pc # "down" => queued = Len(front) + disk.len + Len(window)

\* Messages move out of the flow-control window only after a pop, so they must
\* never be all that is left: they wait there only behind messages of the file
\* (modules/diskq/logqueue-disk-non-reliable.c:303-347).
NeverStranded == window # <<>> => disk.len > 0
=============================================================================
