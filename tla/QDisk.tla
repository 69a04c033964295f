-------------------------------- MODULE QDisk --------------------------------
(***************************************************************************)
(* The disk-buffer file (modules/diskq/qdisk.c): a ring of records between *)
(* Start and Capacity in which only the last record of a lap may reach     *)
(* past Capacity.  The header is a shared mapping and the records go       *)
(* through pwrite(), so a disk is one value that survives the process:     *)
(*                                                                         *)
(*   rd, wr, bl   read_head, write_head, backlog_head                      *)
(*   len, blen    length, backlog_len                                      *)
(*   size, end    cached_file_size and the size the file really has        *)
(*   file         what each byte of the file holds                         *)
(*                                                                         *)
(* A record is [id, size]: byte k of it is [id, size, part |-> k], and its *)
(* first byte carries the length.  Every operation of qdisk.c is an        *)
(* operator from a disk to a disk.                                         *)
(***************************************************************************)
EXTENDS Integers, Sequences

CONSTANTS
  Start,     \* QDISK_RESERVED_SPACE
  Capacity,  \* capacity_bytes
  Sizes,     \* sizes of the records
  Threshold, \* truncate_size_ratio * capacity_bytes
  Prealloc,  \* the file is preallocated
  Reliable   \* options->reliable

ASSUME QDiskConstants ==
  /\ Start \in Nat \ {0} /\ Capacity \in Nat /\ Start < Capacity
  /\ Sizes \subseteq Nat \ {0} /\ Threshold \in Nat
  /\ Prealloc \in BOOLEAN /\ Reliable \in BOOLEAN

\* The bytes that a record of one of the Sizes may occupy.
Bytes == {p \in Start .. Capacity + Capacity :
            p < Capacity \/ \E n \in Sizes : p < Capacity + n}

Nothing == [id |-> 0, size |-> 0, part |-> 0]

NoPos == 0

\* _create_header(), _preallocate_qdisk_file()
NewDisk ==
  [rd |-> Start, wr |-> Start, bl |-> Start, len |-> 0, blen |-> 0,
   size |-> IF Prealloc THEN Capacity ELSE Start,
   end |-> IF Prealloc THEN Capacity ELSE Start,
   file |-> [p \in Bytes |-> Nothing]]

ReachedMaxSize(p) == p >= Capacity

\* Mutant: the position wraps only once it is past the maximum.
CorrectPast_Late(d, p) == IF p > d.wr /\ p > Capacity THEN Start ELSE p

\* _correct_position_if_max_size_is_reached(), applied to what is past the
\* write head.
CorrectPast(d, p) == IF p > d.wr /\ ReachedMaxSize(p) THEN Start ELSE p

IsFileEmpty(d) == d.len = 0 /\ d.blen = 0

\* qdisk_is_space_avail(): one byte stays free between the write head and the
\* backlog.
SpaceAvail(d, n) ==
  IF d.bl <= d.wr
    THEN d.wr < Capacity \/ (d.bl # Start /\ Start + n < d.bl)
    ELSE d.wr + n < d.bl

\* _maybe_truncate_file(): bytes past the new end are lost.
MaybeTruncate(d, n) ==
  IF n < d.size /\ d.size - n < Threshold
    THEN d
    ELSE [d EXCEPT !.size = n, !.end = n,
                   !.file = [p \in Bytes |-> IF p >= n THEN Nothing ELSE d.file[p]]]

\* qdisk_get_empty_space()
EmptySpace(d) ==
  LET w == d.wr >= Capacity
      b == d.bl >= Capacity
  IN  CASE d.wr = d.bl           -> Capacity - Start
        [] d.wr < d.bl /\ ~w /\ ~b -> d.bl - d.wr
        [] d.wr > d.bl /\ ~w /\ ~b -> (d.bl - Start) + (Capacity - d.wr)
        [] d.wr < d.bl /\ w /\ b   -> 0
        [] d.wr > d.bl /\ w /\ b   -> Capacity - Start
        [] d.wr < d.bl /\ ~w /\ b  -> Capacity - d.wr
        [] d.wr > d.bl /\ w /\ ~b  -> d.bl - Start

\* Mutant: the write head wraps without looking at the backlog.
NextTail_Always(d) == IF ReachedMaxSize(d.wr) THEN Start ELSE d.wr

\* qdisk_get_next_tail_position(): a write head that could not wrap at the last
\* push wraps when the backlog has left the beginning.
NextTail(d) == IF ReachedMaxSize(d.wr) /\ d.bl # Start THEN Start ELSE d.wr

\* The first half of qdisk_push_tail(): the write head is moved even if there
\* turns out to be no space.
Positioned(d) == [d EXCEPT !.wr = NextTail(d)]

CanPush(d, n) == SpaceAvail(Positioned(d), n)

Written(d, id, n) ==
  [d EXCEPT !.wr = @ + n,
            !.end = IF d.wr + n > @ THEN d.wr + n ELSE @,
            !.file = [p \in Bytes |-> IF p \in d.wr .. d.wr + n - 1
                                        THEN [id |-> id, size |-> n, part |-> p - d.wr + 1]
                                        ELSE d.file[p]]]

\* What follows the write: behind the heads the file is truncated or has
\* grown, and the write head wraps when it is past the maximum and may.
Appended(d) ==
  IF d.wr <= d.bl \/ d.wr <= d.rd
    THEN d
    ELSE LET e == IF d.size > d.wr THEN MaybeTruncate(d, d.wr) ELSE [d EXCEPT !.size = d.wr]
         IN  [e EXCEPT !.wr = NextTail(d)]

\* qdisk_push_tail() when there is space.
PushTail(d, id, n) == [Appended(Written(Positioned(d), id, n)) EXCEPT !.len = @ + 1]

-----------------------------------------------------------------------------
\* _try_reading_record_length(): 0 when what is there is not a record.
LengthAt(d, p) == IF p \in Bytes /\ d.file[p].part = 1 THEN d.file[p].size ELSE 0

\* _read_record_from_disk(): 0 unless every byte is the record's.
RecordAt(d, p) ==
  IF LengthAt(d, p) > 0 /\ \A k \in 1 .. LengthAt(d, p) :
                              d.file[p + k - 1] = [d.file[p] EXCEPT !.part = k]
    THEN d.file[p].id
    ELSE 0

\* qdisk_get_next_head_position()
NextHead(d) == CorrectPast(d, d.rd)

\* _skip_record(): the position after the record at p.
SkipRecord(d, p) ==
  LET q == CorrectPast(d, p) IN
    IF p = d.wr \/ LengthAt(d, q) = 0
      THEN NoPos
      ELSE CorrectPast(d, q + LengthAt(d, q))

\* qdisk_empty_backlog()
EmptyBacklog(d) == [d EXCEPT !.bl = d.rd, !.blen = 0]

\* qdisk_reset_file_if_empty()
ResetFileIfEmpty(d) ==
  IF IsFileEmpty(d)
    THEN MaybeTruncate([d EXCEPT !.rd = Start, !.wr = Start, !.bl = Start], Start)
    ELSE d

\* _maybe_apply_non_reliable_corrections()
Corrections(d) == IF Reliable THEN d ELSE ResetFileIfEmpty(EmptyBacklog(d))

\* qdisk_peek_head()
PeekHead(d) == [d EXCEPT !.rd = NextHead(d)]

\* qdisk_pop_head() and qdisk_remove_head() of a readable record.
RemoveHead(d) ==
  Corrections([d EXCEPT !.rd = SkipRecord(d, d.rd), !.len = @ - 1, !.blen = @ + 1])

\* qdisk_ack_backlog()
AckBacklog(d) ==
  IF d.blen = 0 \/ SkipRecord(d, d.bl) = NoPos
    THEN d
    ELSE [d EXCEPT !.bl = SkipRecord(d, d.bl), !.blen = @ - 1]

\* The position after n records from p, and their ids: what a reader that
\* starts at p finds.
Walk(d, p, n) ==
  LET step[i \in 0 .. n] ==
        IF i = 0
          THEN [pos |-> p, ids |-> <<>>]
          ELSE LET prev == step[i - 1] IN
                 IF prev.pos = NoPos
                   THEN prev
                   ELSE [pos |-> SkipRecord(d, prev.pos),
                         ids |-> Append(prev.ids, RecordAt(d, CorrectPast(d, prev.pos)))]
  IN  step[n]

\* Mutant: the messages that stay are counted from the wrong end.
RewindBacklog_FromStart(d, n) ==
  LET head == Walk(d, d.bl, n).pos IN
    IF n > d.blen \/ head = NoPos
      THEN d
      ELSE [d EXCEPT !.rd = head, !.blen = @ - n, !.len = @ + n]

\* qdisk_rewind_backlog()
RewindBacklog(d, n) ==
  LET head == Walk(d, d.bl, d.blen - n).pos IN
    IF n > d.blen \/ head = NoPos
      THEN d
      ELSE [d EXCEPT !.rd = head, !.blen = @ - n, !.len = @ + n]

\* qdisk_header_is_inconsistent()
HeaderIsInconsistent(d) ==
  d.rd < Start \/ d.wr < Start \/ (d.rd = d.wr /\ d.len # 0)

\* Mutant: the file of a reliable queue is cut at the write head.
LoadState_CutAtWriteHead(d, saved) == MaybeTruncate([d EXCEPT !.size = d.end], d.wr)

\* _load_state(): the reliable queue takes the size of the file; the other one
\* truncates it, to the header or to where the queues it has loaded were saved.
LoadState(d, saved) ==
  IF Reliable THEN [d EXCEPT !.size = d.end]
  ELSE LET e == [d EXCEPT !.size = Start] IN
         IF IsFileEmpty(d) THEN MaybeTruncate(e, Start)
         ELSE IF saved THEN MaybeTruncate(e, d.end) ELSE e

\* What is queued and what is in the backlog, as a reader would find it.
QueuedOn(d) == Walk(d, d.rd, d.len).ids
BacklogOn(d) == Walk(d, d.bl, d.blen).ids
=============================================================================
