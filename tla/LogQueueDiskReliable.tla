------------------------ MODULE LogQueueDiskReliable ------------------------
(***************************************************************************)
(* The reliable disk buffer (modules/diskq/logqueue-disk-reliable.c): every *)
(* message is on disk, and the source is acknowledged when it is there,    *)
(* except in the last flow_control_window_bytes of the file: those         *)
(* messages wait in flow_control_window, and then in backlog, until the    *)
(* destination acknowledged them.  Memory entries are matched with records *)
(* by the position of the record in the file.                              *)
(*                                                                         *)
(* The queue's lock covers every operation, so each is one step.  A crash  *)
(* of the process keeps the file and its mapped header and loses what is   *)
(* in memory.  Messages are numbered in the order they are pushed.         *)
(***************************************************************************)
EXTENDS QDisk, FiniteSets, Functions

CONSTANTS
  FlowControlBytes, \* flow_control_window_bytes
  FrontCacheSize,   \* front_cache_size
  ReaderKeepsUp,    \* assume that the reader looks at the file in time, see below
  MaxMsgs,          \* bound on the messages pushed
  MaxStarts         \* bound on the restarts of the process

ASSUME ReliableConstants ==
  /\ FlowControlBytes \in Nat /\ FrontCacheSize \in Nat
  /\ MaxMsgs \in Nat /\ MaxStarts \in Nat /\ Reliable /\ ReaderKeepsUp \in BOOLEAN

VARIABLES
  disk,      \* the qdisk
  window,    \* flow_control_window: entries [pos, id]
  front,     \* front_cache: entries [pos, id], already acknowledged
  backlog,   \* backlog: entries [pos, id]
  queued,    \* the queued_messages counter
  pc,        \* "down", "started", or "working" once the output thread runs
  out,       \* the message the last peek or pop returned
  acks,      \* acknowledgements the source got for each message
  delivered, \* messages the destination acknowledged
  dropped,   \* messages there was no space for
  pushed,    \* messages pushed so far
  live,      \* those pushed since the process started
  starts,    \* restarts so far
  corrupt,   \* a record could not be read
  view       \* what a reader of the file finds: [queue, backlog]

memVars == <<window, front, backlog>>
diskVars == <<disk, queued>>
ackVars == <<acks, delivered, dropped, pushed>>
runVars == <<pc, live, starts>>
vars == <<diskVars, memVars, ackVars, runVars, out, corrupt, view>>

Msg == 1 .. MaxMsgs
Ids(q) == {q[i].id : i \in 1 .. Len(q)}

\* log_msg_ack() of every message of the set.
Acked(S) == [m \in Msg |-> IF m \in S THEN acks[m] + 1 ELSE acks[m]]

View(d) == [queue |-> QueuedOn(d), backlog |-> BacklogOn(d)]

Init ==
  /\ disk = NewDisk /\ queued = 0
  /\ window = <<>> /\ front = <<>> /\ backlog = <<>>
  /\ acks = [m \in Msg |-> 0] /\ delivered = {} /\ dropped = {} /\ pushed = 0
  /\ pc = "started" /\ live = {} /\ starts = 0
  /\ out = 0 /\ corrupt = FALSE /\ view = View(disk)


-----------------------------------------------------------------------------
\* _is_reserved_buffer_size_reached(), after the push.
ReservedSizeReached(d) == EmptySpace(d) < FlowControlBytes

\* Mutant: a message that waits for flow control is acknowledged as well.
KeepOrAck_Both(id, pos, d) ==
  /\ acks' = Acked({id})
  /\ IF ReservedSizeReached(d)
       THEN window' = Append(window, [pos |-> pos, id |-> id]) /\ UNCHANGED front
       ELSE UNCHANGED <<window, front>>

\* The end of _push_tail(): near the end of the file the message is kept and
\* not acknowledged; otherwise it is, and kept in the front cache if that has
\* space.
KeepOrAck(id, pos, d) ==
  IF ReservedSizeReached(d)
    THEN /\ window' = Append(window, [pos |-> pos, id |-> id])
         /\ UNCHANGED <<front, acks>>
    ELSE /\ acks' = Acked({id})
         /\ front' = IF Len(front) < FrontCacheSize
                       THEN Append(front, [pos |-> pos, id |-> id]) ELSE front
         /\ UNCHANGED window

\* A read head that was left past the end of the ring is corrected by the next
\* peek or pop only.  This says that one comes before the writes of the new lap
\* reach it; without it the queue is lost, see HeaderConsistent.
InTime(n) ==
  disk.rd >= Capacity /\ NextTail(disk) < disk.rd => NextTail(disk) + n < disk.rd

\* _push_tail() of a record of n bytes.
PushTailMsg(n) ==
  /\ pc # "down" /\ ~corrupt /\ pushed < MaxMsgs
  /\ ReaderKeepsUp => InTime(n)
  /\ pushed' = pushed + 1
  /\ live' = live \cup {pushed + 1}
  /\ \/ /\ CanPush(disk, n)
        /\ disk' = PushTail(disk, pushed + 1, n)
        /\ KeepOrAck(pushed + 1, NextTail(disk), disk')
        /\ queued' = queued + 1
        /\ UNCHANGED dropped
     \/ /\ ~CanPush(disk, n)
        /\ disk' = Positioned(disk)
        /\ acks' = Acked({pushed + 1})
        /\ dropped' = dropped \cup {pushed + 1}
        /\ UNCHANGED <<window, front, queued>>
  /\ UNCHANGED <<backlog, delivered, pc, starts, out, corrupt>>

\* The entry at the head of a memory queue is the next record of the file.
IsNext(q) == q # <<>> /\ Head(q).pos = NextHead(disk)

\* _peek_head()
Peek ==
  /\ pc = "working" /\ ~corrupt
  /\ \/ IsNext(window) /\ out' = Head(window).id /\ UNCHANGED <<disk, corrupt>>
     \/ ~IsNext(window) /\ IsNext(front) /\ out' = Head(front).id /\ UNCHANGED <<disk, corrupt>>
     \/ /\ ~IsNext(window) /\ ~IsNext(front) /\ disk.len # 0
        /\ disk' = PeekHead(disk)
        /\ out' = RecordAt(disk, NextHead(disk))
        /\ corrupt' = (out' = 0)
  /\ UNCHANGED <<queued, memVars, ackVars, runVars>>

\* Mutant: an entry of the flow-control window is not moved to the backlog.
PopWindow_NoBacklog ==
  /\ IsNext(window)
  /\ out' = Head(window).id
  /\ window' = Tail(window)
  /\ UNCHANGED <<front, backlog>>

\* _pop_head() of a message that waits for flow control: it moves to the backlog.
PopWindow ==
  /\ IsNext(window)
  /\ out' = Head(window).id
  /\ window' = Tail(window)
  /\ backlog' = Append(backlog, Head(window))
  /\ UNCHANGED front

\* _pop_head() of a message of the front cache: the disk read is saved.
PopFront ==
  /\ ~IsNext(window) /\ IsNext(front)
  /\ out' = Head(front).id
  /\ front' = Tail(front)
  /\ UNCHANGED <<window, backlog>>

\* _pop_head() from the file, log_queue_disk_read_message().
PopDisk ==
  /\ ~IsNext(window) /\ ~IsNext(front) /\ disk.len # 0
  /\ out' = RecordAt(disk, NextHead(disk))
  /\ UNCHANGED memVars

\* The whole of _pop_head(): a record that cannot be read or skipped is corrupt.
Pop ==
  /\ pc = "working" /\ ~corrupt
  /\ PopWindow \/ PopFront \/ PopDisk
  /\ corrupt' = (out' = 0 \/ SkipRecord(disk, disk.rd) = NoPos)
  /\ disk' = IF corrupt' THEN disk ELSE RemoveHead(disk)
  /\ queued' = queued - 1
  /\ UNCHANGED <<ackVars, runVars>>

-----------------------------------------------------------------------------
\* One turn of the loop of _ack_backlog().
AckOne(s) ==
  LET kept == s.backlog # <<>> /\ Head(s.backlog).pos = s.disk.bl IN
    IF s.disk.bl = NextHead(s.disk)
      THEN s
      ELSE [disk |-> AckBacklog(s.disk),
            backlog |-> IF kept THEN Tail(s.backlog) ELSE s.backlog,
            acked |-> IF kept THEN s.acked \cup {Head(s.backlog).id} ELSE s.acked]

\* _ack_backlog() of n messages.
Ack(n) ==
  LET after[i \in 0 .. n] ==
        IF i = 0 THEN [disk |-> disk, backlog |-> backlog, acked |-> {}]
                 ELSE LET prev == after[i - 1] IN AckOne(prev)
  IN  /\ pc = "working" /\ ~corrupt /\ n <= disk.blen
      /\ disk' = ResetFileIfEmpty(after[n].disk)
      /\ backlog' = after[n].backlog
      /\ acks' = Acked(after[n].acked)
      /\ delivered' = delivered \cup {view.backlog[i] : i \in 1 .. n}
      /\ UNCHANGED <<queued, window, front, dropped, pushed, runVars, out, corrupt>>

\* _find_pos_in_backlog(): the entries from the last one at the position on.
KeptFrom(q, pos) ==
  {i \in 1 .. Len(q) : \E j \in 1 .. i : q[j].pos = pos /\ \A k \in j + 1 .. Len(q) : q[k].pos # pos}

\* _rewind_backlog(): those entries go back to the front of the window.
RewindDisk(n) ==
  LET d == RewindBacklog(disk, n)
      moved == Cardinality(KeptFrom(backlog, NextHead(d)))
      stay == Len(backlog) - moved
  IN  /\ disk' = d
      /\ backlog' = SubSeq(backlog, 1, stay)
      /\ window' = SubSeq(backlog, stay + 1, Len(backlog)) \o window
      /\ queued' = queued + n
      /\ UNCHANGED front

Rewind(n) ==
  /\ pc = "working" /\ ~corrupt /\ n <= disk.blen
  /\ RewindDisk(n)
  /\ UNCHANGED <<ackVars, runVars, out, corrupt>>

\* The output thread starts with log_queue_rewind_backlog_all().
StartWorker ==
  /\ pc = "started" /\ ~corrupt
  /\ pc' = "working"
  /\ RewindDisk(disk.blen)
  /\ UNCHANGED <<ackVars, live, starts, out, corrupt>>

-----------------------------------------------------------------------------
\* log_queue_disk_stop(): what is in memory is acknowledged, the file holds it.
Stop ==
  /\ pc # "down" /\ ~corrupt
  /\ pc' = "down"
  /\ queued' = queued - disk.len
  /\ acks' = Acked(Ids(window) \cup Ids(backlog))
  /\ window' = <<>> /\ front' = <<>> /\ backlog' = <<>>
  /\ live' = {}
  /\ UNCHANGED <<disk, delivered, dropped, pushed, starts, out, corrupt>>

\* The process dies: nobody is told anything.
Crash ==
  /\ pc # "down" /\ ~corrupt
  /\ pc' = "down"
  /\ queued' = 0
  /\ window' = <<>> /\ front' = <<>> /\ backlog' = <<>>
  /\ live' = {}
  /\ UNCHANGED <<disk, ackVars, starts, out, corrupt>>

\* log_queue_disk_start(): the header is loaded and checked.
StartQueue ==
  /\ pc = "down" /\ ~corrupt /\ starts < MaxStarts
  /\ starts' = starts + 1
  /\ corrupt' = HeaderIsInconsistent(disk)
  /\ pc' = "started"
  /\ queued' = queued + disk.len
  /\ disk' = LoadState(disk, FALSE)
  /\ UNCHANGED <<memVars, ackVars, live, out>>

Step ==
  \/ \E n \in Sizes : PushTailMsg(n)
  \/ Peek \/ Pop
  \/ \E n \in 1 .. disk.blen : Ack(n) \/ Rewind(n)
  \/ StartWorker \/ Stop \/ Crash \/ StartQueue

\* The view follows the disk.
Next == Step /\ view' = View(disk')

Spec == Init /\ [][Next]_vars

-----------------------------------------------------------------------------
(***************************************************************************)
(* Properties.                                                             *)
(***************************************************************************)
\* A header qdisk.c calls inconsistent never comes about: heads that meet while
\* messages are queued.  Violated: when the reader left its head at the end of
\* the ring and the backlog moved on to the next lap, pushes are bounded by the
\* backlog head alone and the write head runs into the read head.
HeaderConsistent == ~HeaderIsInconsistent(disk)

\* The assertions of qdisk_push_tail() and qdisk_get_empty_space(): the write
\* head meets the backlog head only when nothing is queued.
HeadsMeetWhenEmpty == disk.wr = disk.bl => disk.len = 0 /\ disk.blen = 0

\* Whatever the ring went through, laps, refused pushes, truncations, crashes,
\* every record that is queued or in the backlog can be read where the heads
\* say it is (modules/diskq/logqueue-disk-reliable.c:267-301), and no assertion
\* on the heads fails.
NeverCorrupt == ~corrupt /\ HeaderConsistent /\ HeadsMeetWhenEmpty

\* The queue is a queue with a backlog, and a peek or a pop, from memory or
\* from the file, returns its head; a crash or a restart changes nothing of it.
AbstractQueue ==
  INSTANCE BacklogQueue WITH queue <- view.queue, backlog <- view.backlog

RefinesBacklogQueue == AbstractQueue!Spec

\* A message that was acknowledged to its source is never lost: the
\* destination acknowledged it or the file holds it, also after a crash.
AckedIsKept ==
  \A m \in Msg \ dropped :
    acks[m] > 0 => m \in delivered \cup Range(view.backlog) \cup Range(view.queue)

\* No acknowledgement is forgotten: a message of this process that the source
\* still waits for is in the flow-control window or in the memory backlog, and
\* the destination has not acknowledged it yet.
UnackedIsWaiting ==
  \A m \in live : acks[m] = 0 => m \in (Ids(window) \cup Ids(backlog)) \ delivered

\* A message is acknowledged to its source once, through every rewind and every
\* restart, and the counter of queued messages is the length of the queue.
AccountsAgree ==
  /\ \A m \in Msg : acks[m] <= 1
  /\ pc # "down" => queued = disk.len
=============================================================================
