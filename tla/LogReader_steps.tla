--------------------------- MODULE LogReader_steps ---------------------------
(***************************************************************************)
(* The inductive invariant of LogReader, and what one step does to its     *)
(* types, to the acknowledgements in progress, to the control state of the *)
(* main thread and the job, to the wakeup and to the bookmarks.            *)
(***************************************************************************)
EXTENDS LogReader, TLAPS

-----------------------------------------------------------------------------
(* The operators the model is built from.                                  *)

\* The larger and the smaller of two integers.
LEMMA MaxOfTwo ==
  ASSUME NEW a \in Int, NEW b \in Int
  PROVE  /\ Max({a, b}) \in {a, b} /\ Max({a, b}) >= a /\ Max({a, b}) >= b
         /\ Min({a, b}) \in {a, b} /\ Min({a, b}) <= a /\ Min({a, b}) <= b
<1>1. \E x \in {a, b} : \A y \in {a, b} : x >= y
  OBVIOUS
<1>2. \E x \in {a, b} : \A y \in {a, b} : x <= y
  OBVIOUS
<1> QED
  BY <1>1, <1>2 DEF Max, Min

\* The facts about naturals and finite sets that the steps rest on: a set of
\* naturals that is not empty has a least element, and what one element more or
\* less does to a finite set.
Laws ==
  /\ \A T \in SUBSET Nat : T # {} => \E x \in T : \A y \in T : x <= y
  /\ \A S : IsFiniteSet(S) =>
       /\ Cardinality(S) \in Nat
       /\ \A T \in SUBSET S : IsFiniteSet(T)
       /\ \A x : /\ IsFiniteSet(S \cup {x}) /\ IsFiniteSet(S \ {x})
                 /\ x \notin S => Cardinality(S \cup {x}) = Cardinality(S) + 1
                 /\ x \in S => Cardinality(S \ {x}) = Cardinality(S) - 1

\* The range the consecutive tracker closes is one of leading acknowledged records.
LEMMA RangeLengthFacts ==
  ASSUME Laws, recs \in Seq(Nat)
  PROVE  /\ RangeLength \in 0 .. Len(recs)
         /\ \A i \in 1 .. RangeLength : recs[i] \in acked
<1> DEFINE L == Len(recs)
           S == {n \in 0 .. L : \A i \in 1 .. n : recs[i] \in acked}
           T == {k \in 0 .. L : L - k \in S}
<1>1. L \in Nat
  OBVIOUS
<1>2. 0 \in S
  BY <1>1
<1>3. L \in T
  BY <1>1, <1>2
<1>4. PICK k \in T : \A y \in T : k <= y
  <2>1. T \in SUBSET Nat /\ T # {}
    BY <1>1, <1>3
  <2> HIDE DEF T
  <2> QED BY <2>1, Zenon DEF Laws
<1>5. L - k \in S /\ \A n \in S : L - k >= n
  <2>1. k \in 0 .. L /\ L - k \in S
    BY <1>4
  <2>2. ASSUME NEW n \in S
        PROVE  L - k >= n
    <3>1. n \in 0 .. L
      OBVIOUS
    <3> HIDE DEF S, L
    <3>2. L - n \in 0 .. L /\ L - (L - n) = n
      BY <1>1, <3>1
    <3>3. L - n \in T
      BY <2>2, <3>2
    <3>4. k <= L - n
      BY <1>4, <3>3
    <3> QED BY <1>1, <2>1, <3>1, <3>4
  <2> QED BY <2>1, <2>2
<1>6. RangeLength \in S
  <2>1. RangeLength = CHOOSE x \in S : \A y \in S : x >= y
    BY DEF RangeLength, Max
  <2> HIDE DEF S, L
  <2> QED BY <1>5, <2>1, Zenon
<1> QED
  BY <1>6

-----------------------------------------------------------------------------
(* The inductive invariant.                                                *)

\* Types of the control state.
ControlTypes ==
  /\ reader \in Readers
  /\ job \in [pc : JobPcs, cnt : Nat, code : {"ok", "again", "close"}]
  /\ suspended \in BOOLEAN /\ watch \in BOOLEAN /\ restart \in BOOLEAN
  /\ posted \in BOOLEAN /\ registered \in BOOLEAN /\ init \in BOOLEAN
  /\ again \in BOOLEAN /\ modified \in BOOLEAN /\ pending \in BOOLEAN
  /\ main \in [pc : MainPcs, total : Nat, dec : Int, sub : Nat, then : BOOLEAN]
  /\ susp \in BOOLEAN /\ freed \in BOOLEAN
  /\ abort \in {"no", "job", "watches", "record", "window", "release", "pool",
                "reclaim"}

\* Types of the counters; the pool may be given back too much when the source
\* is freed.
CounterTypes ==
  /\ window \in Nat /\ full \in Int /\ balanced \in Nat
  /\ free \in Int /\ (~freed => free >= 0)
  /\ toReclaim \in Int /\ reclaimed \in Nat
  /\ ticks \in Nat /\ input \in Nat /\ next \in Nat /\ next > 0 /\ saved \in Nat

\* Types of what is tracked and of the acknowledgements in progress.
AckTypesOK ==
  /\ recs \in Seq(Nat) /\ acked \in SUBSET Nat
  /\ inflight \in SUBSET Nat /\ IsFiniteSet(inflight)
  /\ dst \in [Dest -> [pc : DstPcs, type : {"PROCESSED", "ABORTED", "SUSPENDED"},
                       inc : Nat, taken : Nat]]
  /\ lock \in Dest \cup {None}

\* At most one of the watch, the restart task and the job is on, and none of
\* them while the reader is suspended or after it was closed.
Exclusive ==
  /\ Working \/ watch \/ restart => ~suspended /\ init
  /\ ~(watch /\ restart) /\ (Working => ~watch /\ ~restart)
  /\ main.then => ~watch /\ ~restart /\ ~suspended /\ main.pc # "loop"
  /\ main.pc # "loop" => ~Working
  /\ main.pc \notin {"loop", "deinit"} => init
  /\ main.pc = "deinit" => ~watch /\ ~restart /\ ~suspended /\ MayClose
  /\ ~init => ~suspended /\ MayClose

\* Only a connection is closed, only a file is notified of, and a reallocation
\* subtracts what is there.
Lifecycle ==
  /\ job.code = "close" => MayClose
  /\ modified => Notified
  /\ freed => ~init
  /\ main.pc \in {"remain", "sub"} => main.sub <= window
  /\ main.pc # "reclaim" => main.total = 0

Control == Exclusive /\ Lifecycle

\* What an acknowledgement has in hand, and who holds the tracker's mutex.
Hands ==
  /\ \A d \in Dest : dst[d].pc \notin {"take", "pend", "add"} => dst[d].inc = 0
  /\ \A d \in Dest : dst[d].pc # "pend" => dst[d].taken = 0
  /\ Instant => /\ lock = None /\ recs = <<>> /\ saved = 0
                /\ \A d \in Dest : dst[d].inc + dst[d].taken <= 1 /\ dst[d].pc # "lock"
  /\ ~Instant => \A d \in Dest :
       lock = d <=> dst[d].pc \in {"take", "pend", "add", "resume", "wake", "event"}

\* The records are in the order of the messages, behind the saved bookmark, and
\* those of the messages in flight are not acknowledged.
Order ==
  /\ \A m \in inflight : 0 < m /\ m < next
  /\ ~Instant =>
       /\ \A m \in inflight : \E i \in DOMAIN recs : recs[i] = m
       /\ \A m \in acked : m < next /\ m \notin inflight
       /\ \A i, j \in DOMAIN recs : i < j => recs[i] < recs[j]
       /\ \A i \in DOMAIN recs : saved < recs[i]
       /\ \A i \in DOMAIN recs : recs[i] < next \/ (job.pc = "post" /\ recs[i] = next)
       /\ job.pc = "post" => \E i \in DOMAIN recs : recs[i] = next
       /\ saved < next

\* A suspended reader whose window has room has its wakeup on the way.
Wakeup ==
  suspended /\ FreeToSend /\ init =>
     posted \/ \E d \in Dest : dst[d].pc \in {"resume", "wake", "event"}

\* The static window: no slot is ever reclaimed; and on a connection there is
\* room before every message and no assertion fails.
Static ==
  ~Dynamic =>
    /\ main.pc \in {"loop", "deinit"} /\ ~again /\ reclaimed = 0
    /\ \A d \in Dest : dst[d].pc \notin {"take", "pend"}
    /\ full = InitWindow /\ free = PoolSize
    /\ ~Notified =>
         /\ abort = "no"
         /\ watch \/ restart \/ job.pc \in {"fetch", "track", "post"} => window > 0
         /\ job.pc = "track" => pending

Inv ==
  /\ ControlTypes /\ CounterTypes /\ AckTypesOK
  /\ Control /\ Hands /\ Order /\ WindowConserved /\ Wakeup /\ Static

\* Where a step belongs to.
LEMMA Steps ==
  ASSUME Next
  PROVE  \/ PollReady \/ RestartTask \/ WakeupTriggered \/ FileModified \/ Arrive
         \/ Fetch \/ TrackMsg \/ Post \/ CheckWindow
         \/ WorkFinished \/ IdleTimeout \/ ClearInitialized \/ Free
         \/ OtherConnections \/ WindowTimer
         \/ TakeTotal \/ Reclaim \/ ClearReclaim \/ Rebalance \/ SetReclaim
         \/ SubBalanced \/ EndRealloc
         \/ \E d \in Dest : \/ MsgAck(d) \/ Suspend(d) \/ Untrack(d) \/ TakeReclaimed(d)
                            \/ AddReclaimed(d) \/ AddWindow(d) \/ Resume(d)
                            \/ Wake(d) \/ PostEvent(d)
BY SMTT(30) DEF Next, Step, Watches, Fetching, Closing, Reallocation, Acknowledge

\* The steps that change a variable, one lemma for each part of the state.
\* The job: its own steps, and the main thread that starts and ends it.
LEMMA JobFrame ==
  ASSUME Next
  PROVE  \/ UNCHANGED job
         \/ PollReady \/ RestartTask \/ Fetch \/ TrackMsg \/ Post \/ CheckWindow
         \/ WorkFinished
BY Steps, ZenonT(30) DEF WakeupTriggered, FileModified, Arrive, IdleTimeout, ClearInitialized,
  Free, OtherConnections, WindowTimer, TakeTotal, Reclaim, ClearReclaim, Rebalance,
  SetReclaim, SubBalanced, EndRealloc, MsgAck, Suspend, Untrack, TakeReclaimed,
  AddReclaimed, AddWindow, Resume, Wake, PostEvent, readerVars

\* The watches: the main thread only.
LEMMA WatchFrame ==
  ASSUME Next
  PROVE  \/ UNCHANGED <<suspended, watch, restart>>
         \/ PollReady \/ RestartTask \/ WakeupTriggered \/ FileModified
         \/ WorkFinished \/ IdleTimeout \/ EndRealloc
BY Steps, ZenonT(30) DEF Arrive, Fetch, TrackMsg, Post, CheckWindow, ClearInitialized, Free,
  OtherConnections, WindowTimer, TakeTotal, Reclaim, ClearReclaim, Rebalance,
  SetReclaim, SubBalanced, MsgAck, Suspend, Untrack, TakeReclaimed, AddReclaimed,
  AddWindow, Resume, Wake, PostEvent, readerVars

\* The wakeup event.
LEMMA EventFrame ==
  ASSUME Next
  PROVE  \/ UNCHANGED <<posted, registered, init>>
         \/ WakeupTriggered \/ WorkFinished \/ IdleTimeout \/ ClearInitialized
         \/ Rebalance
         \/ \E d \in Dest : PostEvent(d)
BY Steps, ZenonT(30) DEF PollReady, RestartTask, FileModified, Arrive, Fetch, TrackMsg, Post,
  CheckWindow, Free, OtherConnections, WindowTimer, TakeTotal, Reclaim, ClearReclaim,
  SetReclaim, SubBalanced, EndRealloc, MsgAck, Suspend, Untrack, TakeReclaimed,
  AddReclaimed, AddWindow, Resume, Wake, eventVars

\* The main thread.
LEMMA MainFrame ==
  ASSUME Next
  PROVE  \/ UNCHANGED main
         \/ WorkFinished \/ IdleTimeout \/ ClearInitialized \/ WindowTimer
         \/ TakeTotal \/ Reclaim \/ ClearReclaim \/ Rebalance \/ SetReclaim
         \/ SubBalanced \/ EndRealloc
BY Steps, ZenonT(30) DEF PollReady, RestartTask, WakeupTriggered, FileModified, Arrive, Fetch,
  TrackMsg, Post, CheckWindow, Free, OtherConnections, MsgAck, Suspend, Untrack,
  TakeReclaimed, AddReclaimed, AddWindow, Resume, Wake, PostEvent, mainVars

\* A reallocation that was put off.
LEMMA AgainFrame ==
  ASSUME Next
  PROVE  \/ UNCHANGED again
         \/ WorkFinished \/ WindowTimer
BY Steps, ZenonT(30) DEF PollReady, RestartTask, WakeupTriggered, FileModified, Arrive, Fetch,
  TrackMsg, Post, CheckWindow, IdleTimeout, ClearInitialized, Free, OtherConnections,
  TakeTotal, Reclaim, ClearReclaim, Rebalance, SetReclaim, SubBalanced, EndRealloc,
  MsgAck, Suspend, Untrack, TakeReclaimed, AddReclaimed, AddWindow, Resume, Wake,
  PostEvent, mainVars, Close

\* The notifications.
LEMMA ModifiedFrame ==
  ASSUME Next
  PROVE  \/ UNCHANGED modified
         \/ FileModified \/ Arrive
BY Steps, ZenonT(30) DEF PollReady, RestartTask, WakeupTriggered, Fetch, TrackMsg, Post,
  CheckWindow, WorkFinished, IdleTimeout, ClearInitialized, Free, OtherConnections,
  WindowTimer, TakeTotal, Reclaim, ClearReclaim, Rebalance, SetReclaim, SubBalanced,
  EndRealloc, MsgAck, Suspend, Untrack, TakeReclaimed, AddReclaimed, AddWindow,
  Resume, Wake, PostEvent, msgVars

\* The pending record.
LEMMA PendingFrame ==
  ASSUME Next
  PROVE  \/ UNCHANGED pending
         \/ Fetch \/ TrackMsg
BY Steps, ZenonT(30) DEF PollReady, RestartTask, WakeupTriggered, FileModified, Arrive, Post,
  CheckWindow, WorkFinished, IdleTimeout, ClearInitialized, Free, OtherConnections,
  WindowTimer, TakeTotal, Reclaim, ClearReclaim, Rebalance, SetReclaim, SubBalanced,
  EndRealloc, MsgAck, Suspend, Untrack, TakeReclaimed, AddReclaimed, AddWindow,
  Resume, Wake, PostEvent, trackVars

\* The suspend bit.
LEMMA SuspFrame ==
  ASSUME Next
  PROVE  \/ UNCHANGED susp
         \/ \E d \in Dest : Suspend(d) \/ Resume(d)
BY Steps, ZenonT(30) DEF PollReady, RestartTask, WakeupTriggered, FileModified, Arrive, Fetch,
  TrackMsg, Post, CheckWindow, WorkFinished, IdleTimeout, ClearInitialized, Free,
  OtherConnections, WindowTimer, TakeTotal, Reclaim, ClearReclaim, Rebalance,
  SetReclaim, SubBalanced, EndRealloc, MsgAck, Untrack, TakeReclaimed, AddReclaimed,
  AddWindow, Wake, PostEvent

\* The end of the source.
LEMMA FreedFrame ==
  ASSUME Next
  PROVE  \/ UNCHANGED freed
         \/ Free
BY Steps, ZenonT(30) DEF PollReady, RestartTask, WakeupTriggered, FileModified, Arrive, Fetch,
  TrackMsg, Post, CheckWindow, WorkFinished, IdleTimeout, ClearInitialized,
  OtherConnections, WindowTimer, TakeTotal, Reclaim, ClearReclaim, Rebalance,
  SetReclaim, SubBalanced, EndRealloc, MsgAck, Suspend, Untrack, TakeReclaimed,
  AddReclaimed, AddWindow, Resume, Wake, PostEvent

\* The assertions.
LEMMA AbortFrame ==
  ASSUME Next
  PROVE  \/ UNCHANGED abort
         \/ PollReady \/ RestartTask \/ WakeupTriggered \/ TrackMsg \/ Post \/ Free
         \/ Reclaim \/ SetReclaim \/ SubBalanced
BY Steps, ZenonT(30) DEF FileModified, Arrive, Fetch, CheckWindow, WorkFinished, IdleTimeout,
  ClearInitialized, OtherConnections, WindowTimer, TakeTotal, ClearReclaim, Rebalance,
  EndRealloc, MsgAck, Suspend, Untrack, TakeReclaimed, AddReclaimed, AddWindow,
  Resume, Wake, PostEvent

\* The window.
LEMMA WindowFrame ==
  ASSUME Next
  PROVE  \/ UNCHANGED window
         \/ Post \/ Free \/ Rebalance \/ SubBalanced
         \/ \E d \in Dest : AddWindow(d)
BY Steps, ZenonT(30) DEF PollReady, RestartTask, WakeupTriggered, FileModified, Arrive, Fetch,
  TrackMsg, CheckWindow, WorkFinished, IdleTimeout, ClearInitialized,
  OtherConnections, WindowTimer, TakeTotal, Reclaim, ClearReclaim, SetReclaim,
  EndRealloc, MsgAck, Suspend, Untrack, TakeReclaimed, AddReclaimed, Resume, Wake,
  PostEvent

\* The pool and the size of the window.
LEMMA PoolFrame ==
  ASSUME Next
  PROVE  \/ UNCHANGED <<full, free, balanced>>
         \/ Free \/ OtherConnections \/ WindowTimer \/ Reclaim \/ Rebalance
         \/ SubBalanced
BY Steps, ZenonT(30) DEF PollReady, RestartTask, WakeupTriggered, FileModified, Arrive, Fetch,
  TrackMsg, Post, CheckWindow, WorkFinished, IdleTimeout, ClearInitialized, TakeTotal,
  ClearReclaim, SetReclaim, EndRealloc, MsgAck, Suspend, Untrack, TakeReclaimed,
  AddReclaimed, AddWindow, Resume, Wake, PostEvent, poolVars

\* What is reclaimed.
LEMMA ReclaimFrame ==
  ASSUME Next
  PROVE  \/ UNCHANGED <<toReclaim, reclaimed>>
         \/ TakeTotal \/ ClearReclaim \/ SetReclaim
         \/ \E d \in Dest : TakeReclaimed(d) \/ AddReclaimed(d)
BY Steps, ZenonT(30) DEF PollReady, RestartTask, WakeupTriggered, FileModified, Arrive, Fetch,
  TrackMsg, Post, CheckWindow, WorkFinished, IdleTimeout, ClearInitialized, Free,
  OtherConnections, WindowTimer, Reclaim, Rebalance, SubBalanced, EndRealloc, MsgAck,
  Suspend, Untrack, AddWindow, Resume, Wake, PostEvent, reclaimVars

\* The counters of the environment and of the messages.
LEMMA CountFrame ==
  ASSUME Next
  PROVE  \/ UNCHANGED <<ticks, input, next>>
         \/ Arrive \/ Post \/ WindowTimer
BY Steps, ZenonT(30) DEF PollReady, RestartTask, WakeupTriggered, FileModified, Fetch, TrackMsg,
  CheckWindow, WorkFinished, IdleTimeout, ClearInitialized, Free, OtherConnections,
  TakeTotal, Reclaim, ClearReclaim, Rebalance, SetReclaim, SubBalanced, EndRealloc,
  MsgAck, Suspend, Untrack, TakeReclaimed, AddReclaimed, AddWindow, Resume, Wake,
  PostEvent, mainVars, msgVars

\* The tracker.
LEMMA TrackFrame ==
  ASSUME Next
  PROVE  \/ UNCHANGED <<recs, acked, saved>>
         \/ TrackMsg
         \/ \E d \in Dest : MsgAck(d) \/ Untrack(d)
BY Steps, ZenonT(30) DEF PollReady, RestartTask, WakeupTriggered, FileModified, Arrive, Fetch,
  Post, CheckWindow, WorkFinished, IdleTimeout, ClearInitialized, Free,
  OtherConnections, WindowTimer, TakeTotal, Reclaim, ClearReclaim, Rebalance,
  SetReclaim, SubBalanced, EndRealloc, Suspend, TakeReclaimed, AddReclaimed,
  AddWindow, Resume, Wake, PostEvent, trackVars

\* The messages in flight.
LEMMA InflightFrame ==
  ASSUME Next
  PROVE  \/ UNCHANGED inflight
         \/ Post
         \/ \E d \in Dest : MsgAck(d)
BY Steps, ZenonT(30) DEF PollReady, RestartTask, WakeupTriggered, FileModified, Arrive, Fetch,
  TrackMsg, CheckWindow, WorkFinished, IdleTimeout, ClearInitialized, Free,
  OtherConnections, WindowTimer, TakeTotal, Reclaim, ClearReclaim, Rebalance,
  SetReclaim, SubBalanced, EndRealloc, Suspend, Untrack, TakeReclaimed, AddReclaimed,
  AddWindow, Resume, Wake, PostEvent, msgVars

\* The acknowledgements.
LEMMA AckFrame ==
  ASSUME Next
  PROVE  \/ UNCHANGED <<dst, lock>>
         \/ \E d \in Dest : MsgAck(d) \/ Suspend(d) \/ Untrack(d) \/ TakeReclaimed(d)
                          \/ AddReclaimed(d) \/ AddWindow(d) \/ Resume(d) \/ Wake(d)
                          \/ PostEvent(d)
BY Steps, Zenon DEF PollReady, RestartTask, WakeupTriggered, FileModified, Arrive, Fetch,
  TrackMsg, Post, CheckWindow, WorkFinished, IdleTimeout, ClearInitialized, Free,
  OtherConnections, WindowTimer, TakeTotal, Reclaim, ClearReclaim, Rebalance,
  SetReclaim, SubBalanced, EndRealloc, ackVars

-----------------------------------------------------------------------------
(* The types, under one step.                                              *)

JobRec == [pc : JobPcs, cnt : Nat, code : {"ok", "again", "close"}]
MainRec == [pc : MainPcs, total : Nat, dec : Int, sub : Nat, then : BOOLEAN]

\* A field of the job is replaced by one of its type.
LEMMA JobUpdates ==
  ASSUME NEW j \in JobRec
  PROVE  /\ \A p \in JobPcs : [j EXCEPT !.pc = p] \in JobRec
         /\ \A n \in Nat : [j EXCEPT !.cnt = n] \in JobRec
         /\ \A c \in {"ok", "again", "close"} : [j EXCEPT !.code = c] \in JobRec
BY DEF JobRec

\* A field of the main thread's state is replaced by one of its type.
LEMMA MainUpdates ==
  ASSUME NEW m \in MainRec
  PROVE  /\ \A p \in MainPcs : [m EXCEPT !.pc = p] \in MainRec
         /\ \A n \in Nat : [m EXCEPT !.total = n] \in MainRec
         /\ \A n \in Int : [m EXCEPT !.dec = n] \in MainRec
         /\ \A n \in Nat : [m EXCEPT !.sub = n] \in MainRec
         /\ [m EXCEPT !.then = TRUE] \in MainRec
BY Zenon DEF MainRec

\* The control points of the job.
LEMMA JobPoints ==
  /\ "idle" \in JobPcs /\ "fetch" \in JobPcs /\ "track" \in JobPcs
  /\ "post" \in JobPcs /\ "check" \in JobPcs /\ "done" \in JobPcs
BY DEF JobPcs

\* The control points of the main thread.
LEMMA MainPoints ==
  /\ "loop" \in MainPcs /\ "deinit" \in MainPcs /\ "total" \in MainPcs
  /\ "reclaim" \in MainPcs /\ "clear" \in MainPcs /\ "balance" \in MainPcs
  /\ "remain" \in MainPcs /\ "sub" \in MainPcs /\ "end" \in MainPcs
  /\ 0 \in Nat /\ 0 \in Int
BY DEF MainPcs

\* The job stays a job.
LEMMA JobType ==
  ASSUME job \in JobRec, Next
  PROVE  job' \in JobRec
<1>1. CASE PollReady \/ RestartTask
  BY <1>1 DEF JobRec, JobPcs, PollReady, RestartTask, HandleIn
<1>2. CASE Fetch
  <2>1. job.cnt \in Nat /\ job.cnt + 1 \in Nat
    BY DEF JobRec
  <2>2. \/ job' = [job EXCEPT !.pc = "done", !.code = "again"]
        \/ job' = [job EXCEPT !.pc = "track", !.cnt = job.cnt + 1]
        \/ job' = [job EXCEPT !.pc = "done"]
        \/ job' = [job EXCEPT !.pc = "done", !.code = "close"]
    BY <1>2 DEF Fetch
  <2>3. [job EXCEPT !.pc = "done"] \in JobRec /\ [job EXCEPT !.pc = "track"] \in JobRec
    BY JobUpdates, JobPoints, Zenon
  <2>4. /\ [job EXCEPT !.pc = "done", !.code = "again"] \in JobRec
        /\ [job EXCEPT !.pc = "done", !.code = "close"] \in JobRec
        /\ [job EXCEPT !.pc = "track", !.cnt = job.cnt + 1] \in JobRec
    BY <2>1, <2>3, JobUpdates, Zenon
  <2> QED BY <2>2, <2>3, <2>4, Zenon
<1>3. CASE TrackMsg \/ Post
  <2>1. job' = job \/ job' = [job EXCEPT !.pc = "post"] \/ job' = [job EXCEPT !.pc = "check"]
    BY <1>3 DEF TrackMsg, Post
  <2> QED BY <2>1, JobUpdates, JobPoints, Zenon
<1>4. CASE CheckWindow \/ WorkFinished
  <2>1. \/ job' = [job EXCEPT !.pc = "fetch"] \/ job' = [job EXCEPT !.pc = "done"]
        \/ job' = [job EXCEPT !.pc = "idle"]
    BY <1>4 DEF CheckWindow, WorkFinished
  <2> QED BY <2>1, JobUpdates, JobPoints, Zenon
<1> QED
  BY <1>1, <1>2, <1>3, <1>4, JobFrame

\* The main thread's state stays one.
LEMMA MainType ==
  ASSUME main \in MainRec, reader \in Readers, CounterTypes, Next
  PROVE  main' \in MainRec
<1>1. window \in Nat /\ reclaimed \in Nat /\ full \in Int /\ balanced \in Nat
  BY DEF CounterTypes
<1>2. CASE Rebalance
  <2> DEFINE m == Max({window - 1, 0})
             d == full - InitWindow - balanced
  <2>1. m \in Nat
    <3>1. window - 1 \in Int /\ 0 \in Int
      BY <1>1
    <3>2. m \in {window - 1, 0} /\ m >= 0
      BY <3>1, MaxOfTwo, Zenon
    <3> QED BY <1>1, <3>2
  <2>2. d \in Int
    BY <1>1, ReaderConstants DEF InitWindow
  <2>3. \/ main' = [main EXCEPT !.pc = "end"]
        \/ main' = [main EXCEPT !.pc = "sub", !.sub = d, !.dec = 0] /\ d >= 0
        \/ main' = [main EXCEPT !.pc = "remain", !.sub = m, !.dec = d - window]
    BY <1>1, <1>2, <2>2, Zenon DEF Rebalance, IncBalanced, DecBalanced
  <2> HIDE DEF d, m
  <2>4. d - window \in Int /\ (d >= 0 => d \in Nat)
    BY <1>1, <2>2
  <2>5. [main EXCEPT !.pc = "end"] \in MainRec
    BY MainUpdates, MainPoints, Zenon
  <2>6. d >= 0 => [main EXCEPT !.pc = "sub", !.sub = d, !.dec = 0] \in MainRec
    BY <2>4, MainUpdates, MainPoints, Zenon
  <2>7. [main EXCEPT !.pc = "remain", !.sub = m, !.dec = d - window] \in MainRec
    BY <2>1, <2>4, MainUpdates, MainPoints, Zenon
  <2> QED BY <2>3, <2>5, <2>6, <2>7, Zenon
<1>3. CASE WorkFinished \/ IdleTimeout \/ WindowTimer
  <2>1. \/ main' = main \/ main' = [main EXCEPT !.pc = "deinit"]
        \/ main' = [main EXCEPT !.pc = "total", !.then = TRUE]
        \/ main' = [main EXCEPT !.pc = "total"]
    BY <1>3 DEF WorkFinished, IdleTimeout, Close, WindowTimer
  <2> QED BY <2>1, MainUpdates, MainPoints, Zenon
<1>4. CASE ClearInitialized \/ EndRealloc
  <2>1. Idle \in MainRec
    BY MainPoints DEF Idle, MainRec
  <2>2. main' = Idle
    BY <1>4 DEF ClearInitialized, EndRealloc
  <2> QED BY <2>1, <2>2
<1>5. CASE TakeTotal
  <2>1. main' = [main EXCEPT !.pc = "reclaim", !.total = reclaimed]
    BY <1>5 DEF TakeTotal
  <2> QED BY <1>1, <2>1, MainUpdates, MainPoints, Zenon
<1>6. CASE Reclaim
  <2>1. \/ main' = [main EXCEPT !.total = 0, !.pc = "clear"]
        \/ main' = [main EXCEPT !.total = 0, !.pc = "end"]
        \/ main' = [main EXCEPT !.total = 0, !.pc = "balance"]
    BY <1>6, Zenon DEF Reclaim
  <2>2. [main EXCEPT !.total = 0] \in MainRec
    BY MainUpdates, MainPoints, Zenon
  <2> QED BY <2>1, <2>2, MainUpdates, MainPoints, ZenonT(30)
<1>7. CASE ClearReclaim \/ SetReclaim \/ SubBalanced
  <2>1. \/ main' = main \/ main' = [main EXCEPT !.pc = "balance"]
        \/ main' = [main EXCEPT !.pc = "sub", !.dec = 0]
        \/ main' = [main EXCEPT !.pc = "end", !.sub = 0]
    BY <1>7 DEF ClearReclaim, SetReclaim, SubBalanced
  <2>2. /\ [main EXCEPT !.pc = "balance"] \in MainRec
        /\ [main EXCEPT !.pc = "sub", !.dec = 0] \in MainRec
    BY MainUpdates, MainPoints, Zenon
  <2>3. [main EXCEPT !.pc = "end", !.sub = 0] \in MainRec
    BY MainUpdates, MainPoints, Zenon
  <2> QED BY <2>1, <2>2, <2>3, Zenon
<1> QED
  BY <1>2, <1>3, <1>4, <1>5, <1>6, <1>7, MainFrame

\* The types of the control state.
LEMMA ControlTypesStep ==
  ASSUME Inv, Next
  PROVE  ControlTypes'
<1>1. ControlTypes /\ CounterTypes /\ reader' = reader
  BY DEF Inv, Next
<1>2. reader' \in Readers
  BY <1>1 DEF ControlTypes
<1>3. job' \in JobRec /\ main' \in MainRec
  BY <1>1, JobType, MainType, SMTT(30) DEF ControlTypes, JobRec, MainRec
<1>4. suspended' \in BOOLEAN /\ watch' \in BOOLEAN /\ restart' \in BOOLEAN
  BY <1>1, WatchFrame, Zenon DEF ControlTypes, PollReady, RestartTask, WakeupTriggered,
    FileModified, WorkFinished, IdleTimeout, EndRealloc, HandleIn, Close, AfterFetch,
    UpdateWatches, ForceCheck, Notified, readerVars
<1>5. posted' \in BOOLEAN /\ registered' \in BOOLEAN /\ init' \in BOOLEAN
  BY <1>1, EventFrame, Zenon DEF ControlTypes, WakeupTriggered, WorkFinished, IdleTimeout,
    ClearInitialized, Rebalance, IncBalanced, DecBalanced, PostWakeup, PostEvent, Close,
    eventVars
<1>6. again' \in BOOLEAN
  BY <1>1, AgainFrame, Zenon DEF ControlTypes, WorkFinished, WindowTimer, Close
<1>7. modified' \in BOOLEAN /\ pending' \in BOOLEAN
  BY <1>1, ModifiedFrame, PendingFrame, Zenon DEF ControlTypes, FileModified, Arrive, Fetch,
    TrackMsg
<1>8. susp' \in BOOLEAN /\ freed' \in BOOLEAN
  BY <1>1, SuspFrame, FreedFrame, Zenon DEF ControlTypes, Suspend, Resume, Free
<1>9. abort' \in {"no", "job", "watches", "record", "window", "release", "pool", "reclaim"}
  BY <1>1, AbortFrame, Zenon DEF ControlTypes, PollReady, RestartTask, HandleIn,
    WakeupTriggered, TrackMsg, Post, Free, Reclaim, SetReclaim, SubBalanced, PoolRelease
<1> QED
  BY <1>2, <1>3, <1>4, <1>5, <1>6, <1>7, <1>8, <1>9, SMTT(30) DEF ControlTypes, JobRec, MainRec

\* The window stays a natural number: what is taken from it is there.
LEMMA WindowType ==
  ASSUME Inv, Next
  PROVE  window' \in Nat
<1>1. window \in Nat /\ full \in Int /\ free \in Int /\ balanced \in Nat /\ InitWindow \in Nat
  BY ReaderConstants DEF Inv, ControlTypes, CounterTypes, InitWindow
<1>2. CASE Post
  BY <1>1, <1>2 DEF Post
<1>3. CASE Free
  <2>1. ~Dynamic => full = InitWindow
    BY DEF Inv, Static
  <2>2. CASE Dynamic /\ window < full - InitWindow
    BY <1>1, <1>3, <2>2 DEF Free
  <2>3. CASE ~(Dynamic /\ window < full - InitWindow)
    <3>1. window' = window - (full - InitWindow)
      BY <1>3, <2>3 DEF Free
    <3>2. window >= full - InitWindow
      BY <1>1, <2>1, <2>3
    <3> QED BY <1>1, <3>1, <3>2
  <2> QED BY <2>2, <2>3
<1>4. CASE Rebalance
  <2> DEFINE inc == balanced - (full - InitWindow)
             offered == Min({free, inc})
  <2>1. free >= 0
    BY <1>4 DEF Rebalance, Inv, Control, Exclusive, Lifecycle, CounterTypes
  <2>2. inc \in Int
    BY <1>1
  <2>3. offered \in {free, inc}
    BY <1>1, <2>2, MaxOfTwo, Zenon
  <2>4. window' = window \/ (inc > 0 /\ window' = window + offered)
    BY <1>1, <1>4 DEF Rebalance, IncBalanced, DecBalanced
  <2> HIDE DEF offered, inc
  <2> QED BY <1>1, <2>1, <2>2, <2>3, <2>4, SMTT(30)
<1>5. CASE SubBalanced
  <2>1. main.sub \in Nat /\ main.sub <= window /\ window' = window - main.sub
    BY <1>5 DEF SubBalanced, Inv, ControlTypes, Control, Lifecycle
  <2> QED BY <1>1, <2>1
<1>6. ASSUME NEW d \in Dest, AddWindow(d)
      PROVE  window' \in Nat
  <2>1. dst[d].inc \in Nat /\ window' = window + dst[d].inc
    BY <1>6 DEF AddWindow, Inv, AckTypesOK
  <2> QED BY <1>1, <2>1
<1> QED
  BY <1>1, <1>2, <1>3, <1>4, <1>5, <1>6, WindowFrame

\* The pool and full_window_size.
LEMMA PoolTypes ==
  ASSUME Inv, Next
  PROVE  full' \in Int /\ balanced' \in Nat /\ free' \in Int /\ (~freed' => free' >= 0)
<1>1. /\ full \in Int /\ free \in Int /\ balanced \in Nat /\ InitWindow \in Nat
      /\ main.total \in Nat /\ main.sub \in Nat /\ (~freed => free >= 0)
  BY ReaderConstants DEF Inv, ControlTypes, CounterTypes, InitWindow
<1>2. ~freed' => ~freed
  BY FreedFrame, Zenon DEF Free
<1>3. CASE Free
  BY <1>1, <1>3 DEF Free
<1>4. CASE OtherConnections
  <2>1. free' \in Nat
    <3> DEFINE b == Min({PoolSize, PoolSize - (full - InitWindow)})
    <3>1. \E f \in 0 .. b : free' = f
      BY <1>4 DEF OtherConnections
    <3>2. PoolSize \in Int /\ PoolSize - (full - InitWindow) \in Int
      BY <1>1, ReaderConstants
    <3>3. b \in {PoolSize, PoolSize - (full - InitWindow)}
      BY <3>2, MaxOfTwo, Zenon
    <3> HIDE DEF b
    <3> QED BY <3>1, <3>2, <3>3
  <2>2. full' = full /\ balanced' = balanced
    BY <1>4 DEF OtherConnections
  <2> QED BY <1>1, <2>1, <2>2
<1>5. CASE WindowTimer
  <2>1. \A n \in 1 .. MaxConns : PoolSize \div n \in Nat
    BY ReaderConstants
  <2>2. balanced' \in Nat
    BY <1>1, <1>5, <2>1 DEF WindowTimer
  <2>3. full' = full /\ free' = free
    BY <1>5 DEF WindowTimer
  <2> QED BY <1>1, <1>2, <2>2, <2>3
<1>6. CASE Reclaim
  BY <1>1, <1>2, <1>6 DEF Reclaim, PoolRelease
<1>7. CASE Rebalance
  <2> DEFINE inc == balanced - (full - InitWindow)
             offered == Min({free, inc})
  <2>1. free >= 0
    BY <1>7 DEF Rebalance, Inv, Control, Exclusive, Lifecycle, CounterTypes
  <2>2. inc \in Int
    BY <1>1
  <2>3. offered \in {free, inc} /\ offered <= free
    BY <1>1, <2>2, MaxOfTwo, Zenon
  <2>4. /\ balanced' = balanced
        /\ \/ full' = full /\ free' = free
           \/ full' = full + offered /\ free' = free - offered
    BY <1>1, <1>7 DEF Rebalance, IncBalanced, DecBalanced
  <2>5. offered \in Int
    BY <1>1, <2>2, <2>3
  <2> HIDE DEF offered, inc
  <2> QED BY <1>1, <2>1, <2>3, <2>4, <2>5, SMTT(30)
<1>8. CASE SubBalanced
  BY <1>1, <1>2, <1>8 DEF SubBalanced, PoolRelease
<1> QED
  BY <1>1, <1>2, <1>3, <1>4, <1>5, <1>6, <1>7, <1>8, PoolFrame, SMTT(30)

\* The types of the counters.
LEMMA CounterTypesStep ==
  ASSUME Laws, Inv, Next
  PROVE  CounterTypes'
<1>1. CounterTypes /\ ControlTypes /\ AckTypesOK
  BY DEF Inv
<1>2. toReclaim' \in Int /\ reclaimed' \in Nat
  <2>1. /\ toReclaim \in Int /\ reclaimed \in Nat /\ main.dec \in Int
        /\ \A d \in Dest : dst[d].inc \in Nat /\ dst[d].taken \in Nat
    BY <1>1 DEF CounterTypes, ControlTypes, AckTypesOK
  <2>2. CASE TakeTotal \/ ClearReclaim \/ SetReclaim
    BY <2>1, <2>2 DEF TakeTotal, ClearReclaim, SetReclaim
  <2>3. ASSUME NEW d \in Dest, TakeReclaimed(d)
        PROVE  toReclaim' \in Int /\ reclaimed' \in Nat
    BY <2>1, <2>3 DEF TakeReclaimed
  <2>4. ASSUME NEW d \in Dest, AddReclaimed(d)
        PROVE  toReclaim' \in Int /\ reclaimed' \in Nat
    BY <2>1, <2>4 DEF AddReclaimed
  <2> QED BY <2>1, <2>2, <2>3, <2>4, ReclaimFrame, SMTT(30)
<1>3. ticks' \in Nat /\ input' \in Nat /\ next' \in Nat /\ next' > 0
  <2>1. ticks \in Nat /\ input \in Nat /\ next \in Nat /\ next > 0
    BY <1>1 DEF CounterTypes
  <2>2. CASE Arrive
    BY <2>1, <2>2 DEF Arrive, mainVars
  <2>3. CASE Post
    BY <2>1, <2>3 DEF Post, mainVars
  <2>4. CASE WindowTimer
    BY <2>1, <2>4, SMTT(30) DEF WindowTimer, msgVars
  <2> QED BY <2>1, <2>2, <2>3, <2>4, CountFrame, SMTT(30)
<1>4. saved' \in Nat
  <2>1. CASE UNCHANGED saved
    BY <1>1, <2>1 DEF CounterTypes
  <2>2. ASSUME NEW d \in Dest, Untrack(d)
        PROVE  saved' \in Nat
    <3> DEFINE n == RangeLength
    <3>1. n \in 0 .. Len(recs) /\ recs \in Seq(Nat)
      BY <1>1, RangeLengthFacts DEF AckTypesOK
    <3>2. saved' = saved \/ (n > 0 /\ saved' = recs[n])
      BY <2>2 DEF Untrack
    <3> HIDE DEF n
    <3>3. n > 0 => recs[n] \in Nat
      BY <3>1
    <3> QED BY <1>1, <3>2, <3>3 DEF CounterTypes
  <2> QED BY <2>1, <2>2, TrackFrame, Zenon DEF TrackMsg, MsgAck
<1> QED
  BY <1>2, <1>3, <1>4, WindowType, PoolTypes DEF CounterTypes

DstRec == [pc : DstPcs, type : {"PROCESSED", "ABORTED", "SUSPENDED"}, inc : Nat, taken : Nat]

\* The control points of an acknowledgement.
LEMMA DstPoints ==
  /\ "idle" \in DstPcs /\ "suspend" \in DstPcs /\ "lock" \in DstPcs
  /\ "take" \in DstPcs /\ "pend" \in DstPcs /\ "add" \in DstPcs
  /\ "resume" \in DstPcs /\ "wake" \in DstPcs /\ "event" \in DstPcs
  /\ Adjusting \in DstPcs
BY DEF DstPcs, Adjusting

\* The acknowledgement of d has the control point p, n in its increment and k
\* taken; those of the other threads are as they were.
Becomes(d, p, n, k) ==
  /\ dst' \in [Dest -> DstRec]
  /\ dst'[d].pc = p /\ dst'[d].inc = n /\ dst'[d].taken = k
  /\ \A x \in Dest : x # d => dst'[x] = dst[x]

\* The record after a step of an acknowledgement, in the forms the steps have.
LEMMA DstUpdates ==
  ASSUME dst \in [Dest -> DstRec], NEW d \in Dest, NEW p \in DstPcs, NEW n \in Nat,
         NEW k \in Nat, NEW t \in {"PROCESSED", "ABORTED", "SUSPENDED"}
  PROVE  /\ dst' = [dst EXCEPT ![d].type = t, ![d].inc = n, ![d].pc = p] =>
              Becomes(d, p, n, dst[d].taken)
         /\ dst' = [dst EXCEPT ![d].inc = n, ![d].pc = p] => Becomes(d, p, n, dst[d].taken)
         /\ dst' = [dst EXCEPT ![d].pc = p] => Becomes(d, p, dst[d].inc, dst[d].taken)
         /\ dst' = [dst EXCEPT ![d].inc = n, ![d].taken = k, ![d].pc = p] =>
              Becomes(d, p, n, k)
         /\ dst' = [dst EXCEPT ![d].taken = k, ![d].pc = p] => Becomes(d, p, dst[d].inc, k)
<1>1. ASSUME dst' = [dst EXCEPT ![d].type = t, ![d].inc = n, ![d].pc = p]
      PROVE  Becomes(d, p, n, dst[d].taken)
  <2>1. dst' \in [Dest -> DstRec]
    BY <1>1, ZenonT(30) DEF DstRec
  <2>2. /\ dst'[d].pc = p /\ dst'[d].inc = n /\ dst'[d].taken = dst[d].taken
        /\ \A x \in Dest : x # d => dst'[x] = dst[x]
    BY <1>1 DEF DstRec
  <2> QED BY <2>1, <2>2 DEF Becomes
<1>2. ASSUME dst' = [dst EXCEPT ![d].inc = n, ![d].pc = p]
      PROVE  Becomes(d, p, n, dst[d].taken)
  <2>1. dst' \in [Dest -> DstRec]
    BY <1>2, ZenonT(30) DEF DstRec
  <2>2. /\ dst'[d].pc = p /\ dst'[d].inc = n /\ dst'[d].taken = dst[d].taken
        /\ \A x \in Dest : x # d => dst'[x] = dst[x]
    BY <1>2 DEF DstRec
  <2> QED BY <2>1, <2>2 DEF Becomes
<1>3. ASSUME dst' = [dst EXCEPT ![d].pc = p]
      PROVE  Becomes(d, p, dst[d].inc, dst[d].taken)
  <2>1. dst' \in [Dest -> DstRec]
    BY <1>3 DEF DstRec
  <2>2. /\ dst'[d].pc = p /\ dst'[d].inc = dst[d].inc /\ dst'[d].taken = dst[d].taken
        /\ \A x \in Dest : x # d => dst'[x] = dst[x]
    BY <1>3 DEF DstRec
  <2> QED BY <2>1, <2>2 DEF Becomes
<1>4. ASSUME dst' = [dst EXCEPT ![d].inc = n, ![d].taken = k, ![d].pc = p]
      PROVE  Becomes(d, p, n, k)
  <2>1. dst' \in [Dest -> DstRec]
    BY <1>4, ZenonT(30) DEF DstRec
  <2>2. /\ dst'[d].pc = p /\ dst'[d].inc = n /\ dst'[d].taken = k
        /\ \A x \in Dest : x # d => dst'[x] = dst[x]
    BY <1>4 DEF DstRec
  <2> QED BY <2>1, <2>2 DEF Becomes
<1>5. ASSUME dst' = [dst EXCEPT ![d].taken = k, ![d].pc = p]
      PROVE  Becomes(d, p, dst[d].inc, k)
  <2>1. dst' \in [Dest -> DstRec]
    BY <1>5, Zenon DEF DstRec
  <2>2. /\ dst'[d].pc = p /\ dst'[d].inc = dst[d].inc /\ dst'[d].taken = k
        /\ \A x \in Dest : x # d => dst'[x] = dst[x]
    BY <1>5 DEF DstRec
  <2> QED BY <2>1, <2>2 DEF Becomes
<1> QED
  BY <1>1, <1>2, <1>3, <1>4, <1>5, SMTT(30)

\* The fields of an acknowledgement.
LEMMA DstFields ==
  ASSUME AckTypesOK, NEW d \in Dest
  PROVE  /\ dst \in [Dest -> DstRec] /\ dst[d].inc \in Nat /\ dst[d].taken \in Nat
         /\ dst[d].type \in {"PROCESSED", "ABORTED", "SUSPENDED"} /\ Adjusted(d) \in DstPcs
BY DstPoints DEF AckTypesOK, DstRec, Adjusted

\* A message is acknowledged.
LEMMA MsgAckOutcome ==
  ASSUME AckTypesOK, NEW d \in Dest, MsgAck(d)
  PROVE  \/ Instant /\ Becomes(d, Adjusting, 1, dst[d].taken)
         \/ ~Instant /\ Becomes(d, "suspend", 0, dst[d].taken)
         \/ ~Instant /\ Becomes(d, "lock", 0, dst[d].taken)
<1>1. PICK t \in AckTypes :
         dst' = [dst EXCEPT ![d].type = t, ![d].inc = IF Instant THEN 1 ELSE 0,
                            ![d].pc = IF Instant THEN Adjusting
                                      ELSE IF t = "SUSPENDED" THEN "suspend" ELSE "lock"]
  BY Zenon DEF MsgAck
<1>2. t \in {"PROCESSED", "ABORTED", "SUSPENDED"} /\ 0 \in Nat /\ 1 \in Nat
  BY ReaderConstants
<1>3. CASE Instant
  <2>1. dst' = [dst EXCEPT ![d].type = t, ![d].inc = 1, ![d].pc = Adjusting]
    BY <1>1, <1>3, Zenon
  <2> QED BY <1>2, <1>3, <2>1, DstUpdates, DstFields, DstPoints, Zenon
<1>4. CASE ~Instant /\ t = "SUSPENDED"
  <2>1. dst' = [dst EXCEPT ![d].type = t, ![d].inc = 0, ![d].pc = "suspend"]
    BY <1>1, <1>4, Zenon
  <2> QED BY <1>2, <1>4, <2>1, DstUpdates, DstFields, DstPoints, Zenon
<1>5. CASE ~Instant /\ t # "SUSPENDED"
  <2>1. dst' = [dst EXCEPT ![d].type = t, ![d].inc = 0, ![d].pc = "lock"]
    BY <1>1, <1>5, Zenon
  <2> QED BY <1>2, <1>5, <2>1, DstUpdates, DstFields, DstPoints, ZenonT(30)
<1> QED
  BY <1>3, <1>4, <1>5, SMTT(30)

\* The source is suspended.
LEMMA SuspendOutcome ==
  ASSUME AckTypesOK, NEW d \in Dest, Suspend(d)
  PROVE  \/ Instant /\ Becomes(d, "idle", dst[d].inc, dst[d].taken)
         \/ ~Instant /\ Becomes(d, "lock", dst[d].inc, dst[d].taken)
<1>1. \/ Instant /\ dst' = [dst EXCEPT ![d].pc = "idle"]
      \/ ~Instant /\ dst' = [dst EXCEPT ![d].pc = "lock"]
  BY Zenon DEF Suspend
<1> QED
  BY <1>1, DstUpdates, DstFields, DstPoints, Zenon

\* The leading acknowledged records go.
LEMMA UntrackOutcome ==
  ASSUME Laws, AckTypesOK, NEW d \in Dest, Untrack(d)
  PROVE  \/ /\ RangeLength = 0 /\ lock' = None
            /\ Becomes(d, "idle", 0, dst[d].taken)
         \/ /\ RangeLength \in Nat /\ RangeLength > 0 /\ lock' = d
            /\ Becomes(d, Adjusting, RangeLength, dst[d].taken)
<1> DEFINE n == RangeLength
<1>1. /\ dst' = [dst EXCEPT ![d].inc = n, ![d].pc = IF n = 0 THEN "idle" ELSE Adjusting]
      /\ lock' = IF n > 0 THEN d ELSE None
  BY DEF Untrack
<1>2. n \in Nat
  BY RangeLengthFacts DEF AckTypesOK
<1> HIDE DEF n
<1>3. CASE n = 0
  <2>1. dst' = [dst EXCEPT ![d].inc = n, ![d].pc = "idle"]
    BY <1>1, <1>3, Zenon
  <2>2. Becomes(d, "idle", n, dst[d].taken)
    BY <1>2, <2>1, DstUpdates, DstFields, DstPoints, Zenon
  <2>3. lock' = None
    BY <1>1, <1>3
  <2> QED BY <1>3, <2>2, <2>3, Zenon DEF n
<1>4. CASE n # 0
  <2>1. dst' = [dst EXCEPT ![d].inc = n, ![d].pc = Adjusting]
    BY <1>1, <1>4, Zenon
  <2>2. Becomes(d, Adjusting, n, dst[d].taken)
    BY <1>2, <2>1, DstUpdates, DstFields, DstPoints, Zenon
  <2>3. lock' = d /\ n > 0
    BY <1>1, <1>2, <1>4, SMTT(30)
  <2> QED BY <1>2, <2>2, <2>3, Zenon DEF n
<1> QED
  BY <1>3, <1>4

\* The part that is to be reclaimed is taken from the increment.
LEMMA TakeReclaimedOutcome ==
  ASSUME AckTypesOK, CounterTypes, NEW d \in Dest, TakeReclaimed(d)
  PROVE  \E k \in 0 .. dst[d].inc :
           \/ Becomes(d, "pend", dst[d].inc - k, k)
           \/ k = 0 /\ Becomes(d, "add", dst[d].inc, 0)
<1> DEFINE i == dst[d].inc
           b == Min({toReclaim, i})
           k == Max({0, b})
<1>1. i \in Nat /\ toReclaim \in Int
  BY DstFields DEF CounterTypes
<1>2. dst' = [dst EXCEPT ![d].inc = i - k, ![d].taken = k,
                         ![d].pc = IF toReclaim > 0 THEN "pend" ELSE "add"]
  BY DEF TakeReclaimed
<1>3. b \in {toReclaim, i} /\ b <= i /\ b <= toReclaim
  <2>1. i \in Int
    BY <1>1
  <2> QED BY <1>1, <2>1, MaxOfTwo, Zenon
<1>4. k \in {0, b}
  <2>1. 0 \in Int /\ b \in Int
    BY <1>1, <1>3
  <2> QED BY <2>1, MaxOfTwo, Zenon
<1>5. k >= 0
  <2>1. 0 \in Int /\ b \in Int
    BY <1>1, <1>3
  <2> QED BY <2>1, MaxOfTwo, ZenonT(30)
<1> HIDE DEF k, b
<1>6. k \in 0 .. i /\ k \in Nat /\ i - k \in Nat /\ (~(toReclaim > 0) => k = 0)
  BY <1>1, <1>3, <1>4, <1>5, SMTT(30)
<1>7. CASE toReclaim > 0
  <2>1. dst' = [dst EXCEPT ![d].inc = i - k, ![d].taken = k, ![d].pc = "pend"]
    BY <1>2, <1>7, Zenon
  <2>2. Becomes(d, "pend", i - k, k)
    BY <1>6, <2>1, DstUpdates, DstFields, DstPoints, ZenonT(30)
  <2> QED BY <1>6, <2>2
<1>8. CASE ~(toReclaim > 0)
  <2>1. k = 0 /\ i - k = i
    BY <1>1, <1>6, <1>8, SMTT(30)
  <2>2. dst' = [dst EXCEPT ![d].inc = i, ![d].taken = 0, ![d].pc = "add"]
    BY <1>2, <1>8, <2>1, Zenon
  <2>3. 0 \in Nat
    OBVIOUS
  <2>4. Becomes(d, "add", i, 0)
    BY <1>1, <2>2, <2>3, DstUpdates, DstFields, DstPoints, ZenonT(30)
  <2> QED BY <1>6, <2>1, <2>4, SMTT(30)
<1> QED
  BY <1>7, <1>8

\* What was taken is added to pending_reclaimed.
LEMMA AddReclaimedOutcome ==
  ASSUME AckTypesOK, NEW d \in Dest, AddReclaimed(d)
  PROVE  Becomes(d, "add", dst[d].inc, 0)
<1>1. dst' = [dst EXCEPT ![d].taken = 0, ![d].pc = "add"] /\ 0 \in Nat
  BY DEF AddReclaimed
<1> QED
  BY <1>1, DstUpdates, DstFields, DstPoints, Zenon

\* The window grows by the increment.
LEMMA AddWindowOutcome ==
  ASSUME AckTypesOK, NEW d \in Dest, AddWindow(d)
  PROVE  \/ /\ Becomes(d, "resume", 0, dst[d].taken) /\ lock' = lock
            /\ CounterSuspended
         \/ Becomes(d, "wake", 0, dst[d].taken) /\ lock' = lock
         \/ /\ Becomes(d, Adjusted(d), 0, dst[d].taken) /\ lock' = None
            /\ window # 0 /\ (susp => LastAckSuspended(d))
<1>1. 0 \in Nat
  OBVIOUS
<1>2. \/ /\ dst' = [dst EXCEPT ![d].inc = 0, ![d].pc = "resume"] /\ lock' = lock
         /\ CounterSuspended
      \/ dst' = [dst EXCEPT ![d].inc = 0, ![d].pc = "wake"] /\ lock' = lock
      \/ /\ dst' = [dst EXCEPT ![d].inc = 0, ![d].pc = Adjusted(d)] /\ lock' = None
         /\ window # 0 /\ (susp => LastAckSuspended(d))
  <2> DEFINE resume == CounterSuspended /\ ~LastAckSuspended(d)
  <2>1. /\ dst' = [dst EXCEPT ![d].inc = 0,
                              ![d].pc = IF resume THEN "resume"
                                        ELSE IF window = 0 THEN "wake" ELSE Adjusted(d)]
        /\ lock' = IF resume \/ window = 0 THEN lock ELSE None
    BY DEF AddWindow
  <2>2. CASE resume
    BY <2>1, <2>2, Zenon
  <2>3. CASE ~resume /\ window = 0
    BY <2>1, <2>3, Zenon
  <2>4. CASE ~resume /\ window # 0
    BY <2>1, <2>4, Zenon DEF CounterSuspended
  <2> QED BY <2>2, <2>3, <2>4
<1> QED
  BY <1>1, <1>2, DstUpdates, DstFields, DstPoints, ZenonT(30)

\* The suspend bit is cleared, the initialized flag tested, the event posted.
LEMMA WakeOutcome ==
  ASSUME AckTypesOK, NEW d \in Dest
  PROVE  /\ Resume(d) => Becomes(d, "wake", dst[d].inc, dst[d].taken)
         /\ Wake(d) => \/ init /\ lock' = lock /\ Becomes(d, "event", dst[d].inc, dst[d].taken)
                       \/ /\ ~init /\ lock' = None
                          /\ Becomes(d, Adjusted(d), dst[d].inc, dst[d].taken)
         /\ PostEvent(d) => Becomes(d, Adjusted(d), dst[d].inc, dst[d].taken)
<1>1. /\ Resume(d) => dst' = [dst EXCEPT ![d].pc = "wake"]
      /\ PostEvent(d) => dst' = [dst EXCEPT ![d].pc = Adjusted(d)]
  BY DEF Resume, PostEvent
<1>2. Wake(d) => \/ init /\ lock' = lock /\ dst' = [dst EXCEPT ![d].pc = "event"]
                 \/ ~init /\ lock' = None /\ dst' = [dst EXCEPT ![d].pc = Adjusted(d)]
  BY Zenon DEF Wake
<1>3. /\ Resume(d) => Becomes(d, "wake", dst[d].inc, dst[d].taken)
      /\ PostEvent(d) => Becomes(d, Adjusted(d), dst[d].inc, dst[d].taken)
  BY <1>1, DstUpdates, DstFields, DstPoints, Zenon
<1> QED
  BY <1>2, <1>3, DstUpdates, DstFields, DstPoints, ZenonT(30)

\* What the tracker does when it closes a range.
LEMMA UntrackFacts ==
  ASSUME Laws, AckTypesOK, NEW d \in Dest, Untrack(d)
  PROVE  /\ RangeLength \in 0 .. Len(recs) /\ Len(recs) \in Nat
         /\ \A i \in 1 .. RangeLength : recs[i] \in acked
         /\ recs' \in Seq(Nat) /\ Len(recs') = Len(recs) - RangeLength
         /\ \A i \in 1 .. Len(recs) - RangeLength : recs'[i] = recs[RangeLength + i]
         /\ acked' = acked \ {recs[i] : i \in 1 .. RangeLength}
         /\ saved' = saved \/ (RangeLength > 0 /\ saved' = recs[RangeLength])
<1> DEFINE n == RangeLength
           L == Len(recs)
<1>1. recs \in Seq(Nat)
  BY DEF AckTypesOK
<1>2. n \in 0 .. L /\ \A i \in 1 .. n : recs[i] \in acked
  BY <1>1, RangeLengthFacts
<1>3. L \in Nat /\ \A i \in 1 .. L : recs[i] \in Nat
  BY <1>1
<1>4. /\ recs' = SubSeq(recs, n + 1, L)
      /\ acked' = acked \ {recs[i] : i \in 1 .. n}
      /\ saved' = saved \/ (n > 0 /\ saved' = recs[n])
  BY DEF Untrack
<1> HIDE DEF n, L
<1>5. n + 1 \in Int /\ L \in Int /\ \A i \in n + 1 .. L : recs[i] \in Nat
  BY <1>2, <1>3
<1>6. /\ recs' \in Seq(Nat)
      /\ Len(recs') = IF n + 1 <= L THEN L - (n + 1) + 1 ELSE 0
      /\ \A i \in 1 .. L - (n + 1) + 1 : recs'[i] = recs[n + 1 + i - 1]
  <2>1. /\ SubSeq(recs, n + 1, L) \in Seq(Nat)
        /\ Len(SubSeq(recs, n + 1, L)) = IF n + 1 <= L THEN L - (n + 1) + 1 ELSE 0
        /\ \A i \in 1 .. L - (n + 1) + 1 : SubSeq(recs, n + 1, L)[i] = recs[n + 1 + i - 1]
    <3> DEFINE m == n + 1
    <3>1. m \in Int /\ L \in Int /\ \A i \in m .. L : recs[i] \in Nat
      BY <1>5, SMTT(30)
    <3> HIDE DEF m
    <3>2. /\ SubSeq(recs, m, L) \in Seq(Nat)
          /\ Len(SubSeq(recs, m, L)) = IF m <= L THEN L - m + 1 ELSE 0
          /\ \A i \in 1 .. L - m + 1 : SubSeq(recs, m, L)[i] = recs[m + i - 1]
      BY <3>1
    <3> QED BY <3>2 DEF m
  <2> QED BY <1>4, <2>1, Zenon
<1>7. Len(recs') = L - n
  BY <1>2, <1>3, <1>6, SMTT(30)
<1>8. \A i \in 1 .. L - n : recs'[i] = recs[n + i]
  BY <1>2, <1>3, <1>6
<1> QED
  BY <1>2, <1>3, <1>4, <1>6, <1>7, <1>8, SMTT(30) DEF n, L

\* What the tracker does with a message: it is the last of the records.
LEMMA TrackFacts ==
  ASSUME AckTypesOK, next \in Nat, TrackMsg
  PROVE  \/ recs' = recs /\ (Instant \/ ~pending)
         \/ /\ ~Instant /\ pending /\ recs' \in Seq(Nat) /\ Len(recs) \in Nat
            /\ Len(recs') = Len(recs) + 1 /\ recs'[Len(recs) + 1] = next
            /\ \A i \in 1 .. Len(recs) : recs'[i] = recs[i]
<1>1. \/ recs' = recs /\ (Instant \/ ~pending)
      \/ ~Instant /\ pending /\ recs' = Append(recs, next)
  BY DEF TrackMsg
<1>2. recs \in Seq(Nat) /\ Len(recs) \in Nat
  BY DEF AckTypesOK
<1>3. /\ Append(recs, next) \in Seq(Nat)
      /\ Append(recs, next) # <<>>
      /\ Len(Append(recs, next)) = Len(recs) + 1
      /\ \A i \in 1 .. Len(recs) : Append(recs, next)[i] = recs[i]
      /\ Append(recs, next)[Len(recs) + 1] = next
  BY <1>2, SMTT(30)
<1> QED
  BY <1>1, <1>2, <1>3, Zenon

\* The types of what is tracked and of the acknowledgements.
LEMMA AckTypesStep ==
  ASSUME Laws, Inv, Next
  PROVE  AckTypesOK'
<1>1. AckTypesOK /\ CounterTypes
  BY DEF Inv
<1>2. recs' \in Seq(Nat) /\ acked' \in SUBSET Nat
  <2>1. recs \in Seq(Nat) /\ acked \in SUBSET Nat /\ inflight \in SUBSET Nat /\ next \in Nat
    BY <1>1 DEF AckTypesOK, CounterTypes
  <2>2. CASE TrackMsg
    <3>1. recs' \in Seq(Nat)
      BY <1>1, <2>1, <2>2, TrackFacts, SMTT(30)
    <3>2. acked' = acked
      BY <2>2 DEF TrackMsg
    <3> QED BY <2>1, <3>1, <3>2
  <2>3. ASSUME NEW d \in Dest, MsgAck(d)
        PROVE  recs' \in Seq(Nat) /\ acked' \in SUBSET Nat
    BY <2>1, <2>3 DEF MsgAck
  <2>4. ASSUME NEW d \in Dest, Untrack(d)
        PROVE  recs' \in Seq(Nat) /\ acked' \in SUBSET Nat
    <3>1. recs' \in Seq(Nat) /\ acked' \subseteq acked
      BY <1>1, <2>4, UntrackFacts, SMTT(30)
    <3> QED BY <2>1, <3>1, SMTT(30)
  <2> QED BY <2>1, <2>2, <2>3, <2>4, TrackFrame, Zenon
<1>3. inflight' \in SUBSET Nat /\ IsFiniteSet(inflight')
  <2>1. inflight \in SUBSET Nat /\ IsFiniteSet(inflight) /\ next \in Nat
    BY <1>1 DEF AckTypesOK, CounterTypes
  <2>2. CASE Post
    <3>1. inflight' = inflight \/ inflight' = inflight \cup {next}
      BY <2>2 DEF Post
    <3>2. IsFiniteSet(inflight \cup {next})
      BY <2>1, Zenon DEF Laws
    <3> QED BY <2>1, <3>1, <3>2, Zenon
  <2>3. ASSUME NEW d \in Dest, MsgAck(d)
        PROVE  inflight' \in SUBSET Nat /\ IsFiniteSet(inflight')
    <3>1. PICK m \in inflight : inflight' = inflight \ {m}
      BY <2>3 DEF MsgAck
    <3>2. IsFiniteSet(inflight \ {m})
      BY <2>1, Zenon DEF Laws
    <3> QED BY <2>1, <3>1, <3>2, SMTT(30)
  <2> QED BY <2>1, <2>2, <2>3, InflightFrame, Zenon
<1>4. dst' \in [Dest -> DstRec]
  <2>1. dst \in [Dest -> DstRec]
    BY <1>1 DEF AckTypesOK, DstRec
  <2>2. ASSUME NEW d \in Dest,
               \/ MsgAck(d) \/ Suspend(d) \/ Untrack(d) \/ TakeReclaimed(d)
               \/ AddReclaimed(d) \/ AddWindow(d) \/ Resume(d) \/ Wake(d) \/ PostEvent(d)
        PROVE  dst' \in [Dest -> DstRec]
    <3>1. \E p, n, k : Becomes(d, p, n, k)
      BY <1>1, <2>2, MsgAckOutcome, SuspendOutcome, UntrackOutcome, TakeReclaimedOutcome,
         AddReclaimedOutcome, AddWindowOutcome, WakeOutcome, ZenonT(30)
    <3> QED BY <3>1 DEF Becomes
  <2> QED BY <2>1, <2>2, AckFrame, SMTT(30)
<1>5. lock' \in Dest \cup {None}
  <2>1. lock \in Dest \cup {None}
    BY <1>1 DEF AckTypesOK
  <2> QED BY <2>1, AckFrame, ZenonT(30) DEF MsgAck, Suspend, Untrack, TakeReclaimed, AddReclaimed,
             AddWindow, Resume, Wake, PostEvent
<1> QED
  BY <1>2, <1>3, <1>4, <1>5 DEF AckTypesOK, DstRec

-----------------------------------------------------------------------------
(* What an acknowledgement has in hand.                                    *)

\* The control points at which a thread holds the consecutive tracker's mutex.
Holding == {"take", "pend", "add", "resume", "wake", "event"}

\* A step of one thread that leaves its own record in order.
LEMMA HandsUpdate ==
  ASSUME Hands, AckTypesOK, NEW d \in Dest, NEW p, NEW n \in Nat, NEW k \in Nat,
         Becomes(d, p, n, k),
         p \notin {"take", "pend", "add"} => n = 0,
         p # "pend" => k = 0,
         Instant => lock' = None /\ recs' = recs /\ saved' = saved /\ n + k <= 1 /\ p # "lock",
         ~Instant => /\ lock' = d <=> p \in Holding
                     /\ \/ lock' = lock
                        \/ lock = None /\ lock' = d
                        \/ lock = d /\ lock' = None
  PROVE  Hands'
<1>1. /\ dst'[d].pc = p /\ dst'[d].inc = n /\ dst'[d].taken = k
      /\ \A x \in Dest : x # d => dst'[x] = dst[x]
  BY SMTT(30) DEF Becomes
<1>2. \A x \in Dest : dst'[x].pc \notin {"take", "pend", "add"} => dst'[x].inc = 0
  BY <1>1, SMTT(30) DEF Hands
<1>3. \A x \in Dest : dst'[x].pc # "pend" => dst'[x].taken = 0
  BY <1>1, SMTT(30) DEF Hands
<1>4. Instant => /\ lock' = None /\ recs' = <<>> /\ saved' = 0
                 /\ \A x \in Dest : dst'[x].inc + dst'[x].taken <= 1 /\ dst'[x].pc # "lock"
  BY <1>1, SMTT(30) DEF Hands
<1>5. ~Instant => \A x \in Dest : lock' = x <=> dst'[x].pc \in Holding
  BY <1>1, ReaderConstants, SMTT(30) DEF Hands, Holding
<1> QED
  BY <1>2, <1>3, <1>4, <1>5, SMTT(30) DEF Hands, Instant, Holding

\* Hands, under one step.
LEMMA HandsStep ==
  ASSUME Laws, Inv, Next
  PROVE  Hands'
<1>1. AckTypesOK /\ CounterTypes /\ Hands /\ next \in Nat
  BY DEF Inv, CounterTypes
<1>2. Adjusting \in {"take", "add"}
  BY DEF Adjusting
<1>3. CASE UNCHANGED <<dst, lock, recs, saved>>
  BY <1>1, <1>3, SMTT(30) DEF Hands, Instant
<1>4. CASE TrackMsg
  <2>1. UNCHANGED <<dst, lock, saved>> /\ (Instant => recs' = recs)
    BY <1>4 DEF TrackMsg, ackVars
  <2> QED BY <1>1, <2>1 DEF Hands, Instant
<1>5. ASSUME NEW d \in Dest, MsgAck(d)
      PROVE  Hands'
  <2>1. /\ dst[d].pc = "idle" /\ UNCHANGED <<lock, recs, saved>>
    BY <1>5 DEF MsgAck
  <2>2. dst[d].taken = 0 /\ (~Instant => lock # d)
    BY <1>1, <2>1, SMTT(30) DEF Hands
  <2>3. Instant => lock = None
    BY <1>1 DEF Hands
  <2>4. 0 \in Nat /\ 1 \in Nat /\ 1 + 0 <= 1
    OBVIOUS
  <2>5. CASE Instant /\ Becomes(d, Adjusting, 1, 0)
    <3>1. Adjusting \in {"take", "pend", "add"} /\ Adjusting # "pend" /\ Adjusting # "lock"
      BY <1>2
    <3> QED BY <1>1, <2>1, <2>3, <2>4, <2>5, <3>1, HandsUpdate, ZenonT(30)
  <2>6. CASE ~Instant /\ Becomes(d, "suspend", 0, 0)
    <3>1. "suspend" \notin Holding
      BY DEF Holding
    <3> QED BY <1>1, <2>1, <2>2, <2>4, <2>6, <3>1, HandsUpdate, ZenonT(30)
  <2>7. CASE ~Instant /\ Becomes(d, "lock", 0, 0)
    <3>1. "lock" \notin Holding
      BY DEF Holding
    <3> QED BY <1>1, <2>1, <2>2, <2>4, <2>7, <3>1, HandsUpdate, ZenonT(30)
  <2> QED BY <1>1, <1>5, <2>2, <2>5, <2>6, <2>7, MsgAckOutcome, ZenonT(30)
<1>6. ASSUME NEW d \in Dest, Suspend(d)
      PROVE  Hands'
  <2>1. /\ dst[d].pc = "suspend" /\ UNCHANGED <<lock, recs, saved>>
    BY <1>6 DEF Suspend, trackVars
  <2>2. dst[d].taken = 0 /\ dst[d].inc = 0 /\ (~Instant => lock # d)
    BY <1>1, <2>1 DEF Hands
  <2>3. Instant => lock = None
    BY <1>1 DEF Hands
  <2>4. 0 \in Nat /\ 0 + 0 <= 1 /\ "lock" \notin Holding /\ "idle" # "lock"
    BY DEF Holding
  <2>5. CASE Instant /\ Becomes(d, "idle", 0, 0)
    BY <1>1, <2>1, <2>3, <2>4, <2>5, HandsUpdate, ZenonT(30)
  <2>6. CASE ~Instant /\ Becomes(d, "lock", 0, 0)
    BY <1>1, <2>1, <2>2, <2>4, <2>6, HandsUpdate, Zenon
  <2> QED BY <1>1, <1>6, <2>2, <2>5, <2>6, SuspendOutcome, ZenonT(30)
<1>7. ASSUME NEW d \in Dest, Untrack(d)
      PROVE  Hands'
  <2>1. dst[d].pc = "lock" /\ lock = None
    BY <1>7 DEF Untrack
  <2>2. dst[d].taken = 0 /\ ~Instant
    BY <1>1, <2>1 DEF Hands
  <2>3. "idle" \notin Holding /\ Adjusting \in Holding /\ 0 \in Nat /\ None # d
    BY <1>2, ReaderConstants DEF Holding
  <2>4. CASE lock' = None /\ Becomes(d, "idle", 0, 0)
    BY <1>1, <2>1, <2>2, <2>3, <2>4, HandsUpdate, ZenonT(30)
  <2>5. CASE RangeLength \in Nat /\ lock' = d /\ Becomes(d, Adjusting, RangeLength, 0)
    <3>1. Adjusting \in {"take", "pend", "add"} /\ Adjusting # "pend"
      BY <1>2
    <3> QED BY <1>1, <2>1, <2>2, <2>3, <2>5, <3>1, HandsUpdate, ZenonT(30)
  <2> QED BY <1>1, <1>7, <2>2, <2>4, <2>5, UntrackOutcome, ZenonT(30)
<1>8. ASSUME NEW d \in Dest, TakeReclaimed(d)
      PROVE  Hands'
  <2>1. dst[d].pc = "take" /\ UNCHANGED <<lock, recs, saved>>
    BY <1>8, SMTT(30) DEF TakeReclaimed, trackVars
  <2>2. dst[d].inc \in Nat /\ dst[d].taken = 0
    BY <1>1, <2>1, DstFields, SMTT(30) DEF Hands
  <2>3. /\ ~Instant => lock' = d
        /\ Instant => lock' = None /\ dst[d].inc <= 1
    BY <1>1, <2>1, <2>2 DEF Hands
  <2>4. "pend" \in Holding /\ "add" \in Holding /\ 0 \in Nat
    BY SMTT(30) DEF Holding
  <2>5. PICK k \in 0 .. dst[d].inc :
          \/ Becomes(d, "pend", dst[d].inc - k, k)
          \/ k = 0 /\ Becomes(d, "add", dst[d].inc, 0)
    BY <1>1, <1>8, TakeReclaimedOutcome, SMTT(30)
  <2>6. /\ k \in Nat /\ dst[d].inc - k \in Nat
        /\ Instant => dst[d].inc - k + k <= 1 /\ dst[d].inc + 0 <= 1
    BY <2>2, <2>3
  <2>7. CASE Becomes(d, "pend", dst[d].inc - k, k)
    BY <1>1, <2>1, <2>3, <2>4, <2>6, <2>7, HandsUpdate, ZenonT(30)
  <2>8. CASE Becomes(d, "add", dst[d].inc, 0)
    BY <1>1, <2>1, <2>2, <2>3, <2>4, <2>6, <2>8, HandsUpdate, ZenonT(30)
  <2> QED BY <2>5, <2>7, <2>8, SMTT(30)
<1>9. ASSUME NEW d \in Dest, AddReclaimed(d)
      PROVE  Hands'
  <2>1. dst[d].pc = "pend" /\ UNCHANGED <<lock, recs, saved>>
    BY <1>9 DEF AddReclaimed, trackVars
  <2>2. dst[d].inc \in Nat /\ dst[d].taken \in Nat
    BY <1>1, DstFields, SMTT(30)
  <2>3. /\ ~Instant => lock' = d
        /\ Instant => lock' = None /\ dst[d].inc + 0 <= 1
    BY <1>1, <2>1, <2>2 DEF Hands
  <2>4. "add" \in Holding /\ 0 \in Nat
    BY DEF Holding
  <2>5. Becomes(d, "add", dst[d].inc, 0)
    BY <1>1, <1>9, AddReclaimedOutcome
  <2> QED BY <1>1, <2>1, <2>2, <2>3, <2>4, <2>5, HandsUpdate, ZenonT(30)
<1>10. ASSUME NEW d \in Dest, AddWindow(d)
       PROVE  Hands'
  <2>1. dst[d].pc = "add" /\ UNCHANGED <<recs, saved>>
    BY <1>10, SMTT(30) DEF AddWindow, trackVars
  <2>2. dst[d].taken = 0 /\ (~Instant => lock = d) /\ (Instant => lock = None)
    BY <1>1, <2>1 DEF Hands
  <2>3. /\ "resume" \in Holding /\ "wake" \in Holding /\ 0 \in Nat /\ 0 + 0 <= 1
        /\ None # d
    BY ReaderConstants DEF Holding
  <2>4. CASE Becomes(d, "resume", 0, 0) /\ lock' = lock
    BY <1>1, <2>1, <2>2, <2>3, <2>4, HandsUpdate, ZenonT(30)
  <2>5. CASE Becomes(d, "wake", 0, 0) /\ lock' = lock
    BY <1>1, <2>1, <2>2, <2>3, <2>5, HandsUpdate, ZenonT(30)
  <2>6. CASE Becomes(d, Adjusted(d), 0, 0) /\ lock' = None
    <3>1. Adjusted(d) # "lock" /\ Adjusted(d) \notin Holding
      BY DEF Adjusted, Holding
    <3> QED BY <1>1, <2>1, <2>2, <2>3, <2>6, <3>1, HandsUpdate, ZenonT(30)
  <2> QED BY <1>1, <1>10, <2>2, <2>4, <2>5, <2>6, AddWindowOutcome, ZenonT(30)
<1>11. ASSUME NEW d \in Dest, Resume(d) \/ Wake(d) \/ PostEvent(d)
       PROVE  Hands'
  <2>1. dst[d].pc \in {"resume", "wake", "event"} /\ UNCHANGED <<recs, saved>>
    BY <1>11, SMTT(30) DEF Resume, Wake, PostEvent, trackVars
  <2>2. /\ dst[d].taken = 0 /\ dst[d].inc = 0
        /\ (~Instant => lock = d) /\ (Instant => lock = None)
    BY <1>1, <2>1, SMTT(30) DEF Hands
  <2>3. /\ "wake" \in Holding /\ "event" \in Holding /\ 0 \in Nat /\ 0 + 0 <= 1
        /\ None # d /\ Adjusted(d) # "lock" /\ Adjusted(d) \notin Holding
    BY ReaderConstants DEF Holding, Adjusted
  <2>4. \/ Becomes(d, "wake", 0, 0) /\ lock' = lock
        \/ Becomes(d, "event", 0, 0) /\ lock' = lock
        \/ Becomes(d, Adjusted(d), 0, 0) /\ lock' = None
    <3>1. (Resume(d) => lock' = lock) /\ (PostEvent(d) => lock' = None)
      BY DEF Resume, PostEvent
    <3> QED BY <1>1, <1>11, <2>2, <3>1, WakeOutcome, ZenonT(30)
  <2>5. CASE Becomes(d, "wake", 0, 0) /\ lock' = lock
    BY <1>1, <2>1, <2>2, <2>3, <2>5, HandsUpdate, ZenonT(30)
  <2>6. CASE Becomes(d, "event", 0, 0) /\ lock' = lock
    BY <1>1, <2>1, <2>2, <2>3, <2>6, HandsUpdate, Zenon
  <2>7. CASE Becomes(d, Adjusted(d), 0, 0) /\ lock' = None
    BY <1>1, <2>1, <2>2, <2>3, <2>7, HandsUpdate, Zenon
  <2> QED BY <2>4, <2>5, <2>6, <2>7, SMTT(30)
<1> QED
  <2>1. \/ UNCHANGED <<recs, saved>> \/ TrackMsg \/ \E d \in Dest : MsgAck(d) \/ Untrack(d)
    BY TrackFrame
  <2> QED BY <1>3, <1>4, <1>5, <1>6, <1>7, <1>8, <1>9, <1>10, <1>11, <2>1, AckFrame, SMTT(30)

-----------------------------------------------------------------------------
(* The main thread and the job.                                            *)

\* Exclusive depends on these variables only.
LEMMA ExclusiveStep ==
  ASSUME Inv, Next
  PROVE  Exclusive'
<1>1. Exclusive /\ Lifecycle /\ job \in JobRec /\ main \in MainRec /\ reader' = reader
  BY DEF Inv, Control, ControlTypes, JobRec, MainRec, Next
<1>2. suspended \in BOOLEAN /\ watch \in BOOLEAN /\ restart \in BOOLEAN /\ init \in BOOLEAN
  BY DEF Inv, ControlTypes
<1>3. CASE UNCHANGED <<job.pc, suspended, watch, restart, init, main.pc, main.then>>
  BY <1>1, <1>3, SMTT(30) DEF Exclusive, Working
<1>4. CASE PollReady \/ RestartTask
  BY <1>1, <1>2, <1>4, SMTT(30) DEF PollReady, RestartTask, HandleIn, InMainLoop, Exclusive, Working,
     eventVars, mainVars
<1>5. CASE WakeupTriggered
  BY <1>1, <1>2, <1>5, SMTT(30) DEF WakeupTriggered, UpdateWatches, ForceCheck, InMainLoop, Exclusive,
     Working, Notified, mainVars
<1>6. CASE FileModified
  <2>1. init
    BY <1>1, <1>2, <1>6, ReaderConstants, SMTT(30) DEF FileModified, Exclusive, Lifecycle, Notified,
       Inv, ControlTypes
  <2> QED BY <1>1, <1>2, <1>6, <2>1, SMTT(30) DEF FileModified, ForceCheck, InMainLoop, Exclusive,
             Working, eventVars, mainVars
<1>7. CASE Fetch \/ TrackMsg \/ Post \/ CheckWindow
  <2>1. /\ job'.pc # "idle" \/ job' = job
        /\ UNCHANGED <<suspended, watch, restart, init, main>> /\ Working
    BY <1>1, <1>7, ZenonT(30) DEF Fetch, TrackMsg, Post, CheckWindow, JobRec, eventVars, mainVars, Working
  <2> QED BY <1>1, <2>1, SMTT(30) DEF Exclusive, Working
<1>8. CASE WorkFinished
  <2>1. job'.pc = "idle" /\ init' = init /\ main.pc = "loop" /\ Working
    BY <1>1, <1>8 DEF WorkFinished, Close, eventVars, JobRec, InMainLoop, Working
  <2>2. CASE job.code = "close"
    <3>1. /\ main'.pc = "deinit" /\ main'.then = main.then
          /\ watch' = FALSE /\ restart' = FALSE /\ suspended' = suspended
      BY <1>1, <1>8, <2>2, SMTT(30) DEF WorkFinished, Close, MainRec
    <3> QED BY <1>1, <1>2, <2>1, <2>2, <3>1, SMTT(30) DEF Exclusive, Lifecycle, Working
  <2>3. CASE job.code # "close" /\ again
    <3>1. /\ main'.pc = "total" /\ UNCHANGED <<suspended, watch, restart>>
      BY <1>1, <1>8, <2>3, Zenon DEF WorkFinished, MainRec
    <3> QED BY <1>1, <1>2, <2>1, <2>3, <3>1, SMTT(30) DEF Exclusive, Working
  <2>4. CASE job.code # "close" /\ ~again
    <3>1. main' = main /\ AfterFetch
      BY <1>8, <2>4, SMTT(30) DEF WorkFinished
    <3> QED BY <1>1, <1>2, <2>1, <3>1 DEF Exclusive, Working, AfterFetch, UpdateWatches,
               ForceCheck, Notified
  <2> QED BY <2>2, <2>3, <2>4
<1>9. CASE IdleTimeout
  <2>1. /\ main'.pc = "deinit" /\ main'.then = main.then /\ main.pc = "loop"
        /\ watch' = FALSE /\ restart' = FALSE /\ suspended' = suspended /\ watch
        /\ init' = init /\ job' = job /\ MayClose
    BY <1>1, <1>9, SMTT(30) DEF IdleTimeout, Close, MainRec, InMainLoop
  <2> QED BY <1>1, <1>2, <2>1, SMTT(30) DEF Exclusive, Working
<1>10. CASE ClearInitialized
  <2>1. /\ main.pc = "deinit" /\ main'.pc = "loop" /\ main'.then = FALSE /\ init' = FALSE
        /\ UNCHANGED <<job, suspended, watch, restart>>
    BY <1>10, SMTT(30) DEF ClearInitialized, Idle, readerVars
  <2> QED BY <1>1, <1>2, <2>1, SMTT(30) DEF Exclusive, Working
<1>11. CASE WindowTimer
  <2>1. /\ main.pc = "loop" /\ init /\ UNCHANGED <<job, suspended, watch, restart, init>>
        /\ main' = main \/ (~Working /\ main'.pc = "total" /\ main'.then = main.then)
    BY <1>1, <1>11, SMTT(30) DEF WindowTimer, InMainLoop, MainRec, readerVars, eventVars
  <2> QED BY <1>1, <1>2, <2>1 DEF Exclusive, Working
<1>12. CASE TakeTotal \/ Reclaim \/ ClearReclaim \/ Rebalance \/ SetReclaim \/ SubBalanced
  <2>1. UNCHANGED <<job, suspended, watch, restart, init>>
    BY <1>12, SMTT(30) DEF TakeTotal, Reclaim, ClearReclaim, Rebalance, SetReclaim, SubBalanced,
       readerVars, eventVars
  <2>2. main.pc \notin {"loop", "deinit"} /\ main'.pc \notin {"loop", "deinit"}
    BY <1>1, <1>12, Zenon DEF TakeTotal, Reclaim, ClearReclaim, Rebalance, IncBalanced, DecBalanced,
       SetReclaim, SubBalanced, MainRec
  <2>3. main'.then = main.then
    BY <1>1, <1>12, ZenonT(30) DEF TakeTotal, Reclaim, ClearReclaim, Rebalance, IncBalanced, DecBalanced,
       SetReclaim, SubBalanced, MainRec
  <2> QED BY <1>1, <1>2, <2>1, <2>2, <2>3, SMTT(30) DEF Exclusive, Working
<1>13. CASE EndRealloc
  <2>1. /\ main.pc = "end" /\ main'.pc = "loop" /\ main'.then = FALSE
        /\ UNCHANGED <<job, init>>
    BY <1>13 DEF EndRealloc, Idle, eventVars
  <2>2. IF main.then THEN AfterFetch ELSE UNCHANGED <<suspended, watch, restart>>
    BY <1>13 DEF EndRealloc
  <2> QED BY <1>1, <1>2, <2>1, <2>2 DEF Exclusive, Working, AfterFetch, UpdateWatches,
             ForceCheck, Notified
<1> QED
  <2>1. \/ UNCHANGED job \/ PollReady \/ RestartTask
        \/ Fetch \/ TrackMsg \/ Post \/ CheckWindow \/ WorkFinished
    BY JobFrame
  <2>2. \/ UNCHANGED <<suspended, watch, restart>> \/ PollReady \/ RestartTask
        \/ WakeupTriggered \/ FileModified \/ WorkFinished \/ IdleTimeout \/ EndRealloc
    BY WatchFrame, SMTT(30)
  <2>3. \/ UNCHANGED init \/ ClearInitialized
    BY EventFrame, Zenon DEF WakeupTriggered, WorkFinished, IdleTimeout, Close, Rebalance, PostEvent,
       eventVars
  <2>4. \/ UNCHANGED main \/ WorkFinished \/ IdleTimeout \/ ClearInitialized
        \/ WindowTimer \/ EndRealloc
        \/ TakeTotal \/ Reclaim \/ ClearReclaim \/ Rebalance \/ SetReclaim \/ SubBalanced
    BY MainFrame
  <2> QED BY <1>3, <1>4, <1>5, <1>6, <1>7, <1>8, <1>9, <1>10, <1>11, <1>12, <1>13, SMTT(30),
             <2>1, <2>2, <2>3, <2>4

\* Lifecycle, under one step.
LEMMA LifecycleStep ==
  ASSUME Inv, Next
  PROVE  Lifecycle'
<1>1. Exclusive /\ Lifecycle /\ job \in JobRec /\ main \in MainRec /\ reader' = reader
  BY DEF Inv, Control, ControlTypes, JobRec, MainRec, Next
<1>2. /\ modified \in BOOLEAN /\ init \in BOOLEAN /\ window \in Nat /\ main.sub \in Nat
      /\ reader \in Readers
  BY DEF Inv, ControlTypes, CounterTypes
<1>3. job'.code = "close" => MayClose
  <2>1. CASE PollReady \/ RestartTask
    BY <1>1, <2>1 DEF PollReady, RestartTask, HandleIn, Lifecycle
  <2>2. CASE Fetch
    BY <1>1, <2>2, Zenon DEF Fetch, Lifecycle, JobRec
  <2>3. CASE TrackMsg \/ Post \/ CheckWindow \/ WorkFinished
    <3>1. job'.code = job.code
      BY <1>1, <2>3 DEF TrackMsg, Post, CheckWindow, WorkFinished, JobRec
    <3> QED BY <1>1, <3>1 DEF Lifecycle
  <2> QED BY <1>1, <2>1, <2>2, <2>3, JobFrame, SMTT(30) DEF Lifecycle
<1>4. modified' => Notified
  BY <1>1, <1>2, ModifiedFrame, Zenon DEF FileModified, Arrive, Lifecycle
<1>5. freed' => ~init'
  <2>1. UNCHANGED init \/ ~init'
    BY EventFrame, Zenon DEF WakeupTriggered, WorkFinished, IdleTimeout, ClearInitialized, Close,
       Rebalance, PostEvent, eventVars
  <2> QED BY <1>1, <1>2, <2>1, FreedFrame, Zenon DEF Free, Lifecycle, eventVars
<1>6. main'.pc \in {"remain", "sub"} => main'.sub <= window'
  <2>1. CASE Rebalance
    <3> DEFINE m == Max({window - 1, 0})
               d == full - InitWindow - balanced
    <3>1. m \in {window - 1, 0}
      <4>1. window - 1 \in Int /\ 0 \in Int
        BY <1>2, SMTT(30)
      <4> QED BY <4>1, MaxOfTwo, Zenon
    <3>2. full \in Int /\ balanced \in Nat /\ InitWindow \in Nat
      BY <1>2, ReaderConstants, SMTT(30) DEF Inv, CounterTypes, InitWindow
    <3>3. \/ main' = [main EXCEPT !.pc = "end"]
          \/ /\ main' = [main EXCEPT !.pc = "sub", !.sub = d, !.dec = 0]
             /\ d >= 0 /\ window > d /\ window' = window
          \/ /\ main' = [main EXCEPT !.pc = "remain", !.sub = m, !.dec = d - window]
             /\ window' = window
      BY <1>2, <2>1, <3>2, Zenon DEF Rebalance, IncBalanced, DecBalanced
    <3>4. d \in Int
      BY <3>2
    <3> HIDE DEF d, m
    <3>5. \/ main'.pc = "end"
          \/ main'.sub = d /\ window > d /\ window' = window
          \/ main'.sub = m /\ window' = window
      BY <1>1, <3>3, Zenon DEF MainRec
    <3> QED BY <1>2, <3>1, <3>4, <3>5, SMTT(30)
  <2>2. CASE SetReclaim
    BY <1>1, <1>2, <2>2, Zenon DEF SetReclaim, Lifecycle, MainRec
  <2>3. CASE \/ WorkFinished \/ IdleTimeout \/ ClearInitialized \/ WindowTimer
    <3>1. main'.pc \in {"loop", "deinit", "total"}
      <4>1. CASE WorkFinished
        BY <1>1, <4>1, Zenon DEF WorkFinished, Close, InMainLoop, MainRec
      <4>2. CASE IdleTimeout \/ ClearInitialized
        BY <1>1, <4>2 DEF IdleTimeout, Close, ClearInitialized, Idle, MainRec
      <4>3. CASE WindowTimer
        BY <1>1, <4>3 DEF WindowTimer, InMainLoop, MainRec
      <4> QED BY <2>3, <4>1, <4>2, <4>3, SMTT(30)
    <3> QED BY <3>1
  <2>4. CASE TakeTotal \/ Reclaim \/ ClearReclaim \/ SubBalanced \/ EndRealloc
    <3>1. main'.pc \in {"reclaim", "clear", "end", "balance", "loop"}
      <4>1. CASE TakeTotal \/ Reclaim
        BY <1>1, <4>1, Zenon DEF TakeTotal, Reclaim, MainRec
      <4>2. CASE ClearReclaim \/ SubBalanced
        BY <1>1, <4>2, Zenon DEF ClearReclaim, SubBalanced, MainRec
      <4>3. CASE EndRealloc
        BY <4>3 DEF EndRealloc, Idle
      <4> QED BY <2>4, <4>1, <4>2, <4>3, SMTT(30)
    <3> QED BY <3>1
  <2>5. CASE UNCHANGED main
    <3>1. CASE Post
      <4>1. main.pc = "loop"
        BY <1>1, <3>1 DEF Post, Exclusive, Working
      <4> QED BY <2>5, <4>1, SMTT(30)
    <3>2. CASE Free
      <4>1. main.pc \in {"loop", "deinit"}
        BY <1>1, <1>2, <3>2, SMTT(30) DEF Free, Exclusive
      <4> QED BY <2>5, <4>1, SMTT(30)
    <3>3. ASSUME NEW d \in Dest, AddWindow(d)
          PROVE  main'.pc \in {"remain", "sub"} => main'.sub <= window'
      <4>1. window' = window + dst[d].inc /\ dst[d].inc \in Nat
        BY <3>3, DstFields, SMTT(30) DEF AddWindow, Inv
      <4> QED BY <1>1, <1>2, <2>5, <4>1, SMTT(30) DEF Lifecycle
    <3>4. CASE UNCHANGED window
      BY <1>1, <2>5, <3>4, SMTT(30) DEF Lifecycle
    <3> QED BY <2>1, <2>4, <3>1, <3>2, <3>3, <3>4, WindowFrame, SMTT(30)
  <2> QED BY <2>1, <2>2, <2>3, <2>4, <2>5, MainFrame
<1>7. main'.pc # "reclaim" => main'.total = 0
  <2>1. CASE WorkFinished \/ IdleTimeout \/ WindowTimer
    <3>1. main.pc = "loop" /\ main'.total = main.total
      BY <1>1, <2>1, Zenon DEF WorkFinished, IdleTimeout, WindowTimer, Close, InMainLoop, MainRec
    <3> QED BY <1>1, <3>1, SMTT(30) DEF Lifecycle
  <2>2. CASE ClearInitialized \/ EndRealloc
    BY <2>2 DEF ClearInitialized, EndRealloc, Idle
  <2>3. CASE TakeTotal
    BY <1>1, <2>3 DEF TakeTotal, MainRec
  <2>4. CASE Reclaim
    <3>1. \E p : main' = [main EXCEPT !.total = 0, !.pc = p]
      BY <2>4, Zenon DEF Reclaim
    <3> QED BY <1>1, <3>1, SMTT(30) DEF MainRec
  <2>5. CASE ClearReclaim \/ Rebalance \/ SetReclaim \/ SubBalanced
    <3>1. main.pc # "reclaim"
      BY <2>5 DEF ClearReclaim, Rebalance, SetReclaim, SubBalanced
    <3>2. main'.total = main.total
      <4>1. CASE Rebalance
        BY <1>1, <4>1, Zenon DEF Rebalance, IncBalanced, DecBalanced, MainRec
      <4>2. CASE ClearReclaim \/ SetReclaim \/ SubBalanced
        BY <1>1, <4>2, Zenon DEF ClearReclaim, SetReclaim, SubBalanced, MainRec
      <4> QED BY <2>5, <4>1, <4>2, SMTT(30)
    <3> QED BY <1>1, <3>1, <3>2, SMTT(30) DEF Lifecycle
  <2>6. CASE UNCHANGED main
    BY <1>1, <2>6 DEF Lifecycle
  <2> QED BY <2>1, <2>2, <2>3, <2>4, <2>5, <2>6, MainFrame, SMTT(30)
<1> QED
  BY <1>1, <1>3, <1>4, <1>5, <1>6, <1>7, SMTT(30) DEF Lifecycle, Notified

-----------------------------------------------------------------------------
(* No wakeup is lost.                                                      *)

\* The control points from which an acknowledgement goes on to post the event.
Waking == {"resume", "wake", "event"}

\* A thread on its way to the event stays there while another one moves.
LEMMA StillWaking ==
  ASSUME NEW d \in Dest, NEW p, NEW n, NEW k, Becomes(d, p, n, k), dst[d].pc \notin Waking,
         \E x \in Dest : dst[x].pc \in Waking
  PROVE  \E x \in Dest : dst'[x].pc \in Waking
BY SMTT(30) DEF Becomes

\* Wakeup, under one step.
LEMMA WakeupStep ==
  ASSUME Laws, Inv, Next
  PROVE  Wakeup'
<1> DEFINE W == \E x \in Dest : dst[x].pc \in Waking
<1>1. Exclusive /\ Lifecycle /\ Wakeup /\ AckTypesOK /\ CounterTypes /\ ControlTypes
  BY DEF Inv, Control
<1>2. /\ suspended \in BOOLEAN /\ init \in BOOLEAN /\ posted \in BOOLEAN /\ susp \in BOOLEAN
      /\ window \in Nat
  BY <1>1, SMTT(30) DEF ControlTypes, CounterTypes
<1>3. init' => init
  BY <1>2, EventFrame, Zenon DEF WakeupTriggered, WorkFinished, IdleTimeout, ClearInitialized, Close,
     Rebalance, PostEvent, eventVars
<1>4. SUFFICES ASSUME suspended', window' # 0, ~susp', init'
               PROVE  posted' \/ W'
  BY DEF Wakeup, FreeToSend, CounterSuspended, Waking
<1>5. suspended /\ window # 0 /\ ~susp => posted \/ W
  BY <1>1, <1>3, <1>4 DEF Wakeup, FreeToSend, CounterSuspended, Waking
<1> HIDE DEF W
<1>6. CASE WakeupTriggered
  <2>1. window' = window /\ susp' = susp
    BY <1>6, SMTT(30) DEF WakeupTriggered
  <2>2. suspended' => ~FreeToSend
    BY <1>1, <1>2, <1>3, <1>4, <1>6, Zenon DEF WakeupTriggered, Exclusive, UpdateWatches, ForceCheck
  <2> QED BY <1>4, <2>1, <2>2, SMTT(30) DEF FreeToSend, CounterSuspended
<1>7. CASE FileModified
  BY <1>1, <1>4, <1>7, Zenon DEF FileModified, ForceCheck, Exclusive
<1>8. CASE WorkFinished
  <2>1. window' = window /\ susp' = susp /\ ~suspended
    BY <1>1, <1>8 DEF WorkFinished, Exclusive, Working
  <2>2. suspended' => ~FreeToSend
    BY <1>1, <1>4, <1>8, <2>1, Zenon DEF WorkFinished, Close, AfterFetch, UpdateWatches, ForceCheck
  <2> QED BY <1>4, <2>1, <2>2 DEF FreeToSend, CounterSuspended
<1>9. CASE IdleTimeout
  BY <1>1, <1>4, <1>9 DEF IdleTimeout, Close, Exclusive
<1>10. CASE EndRealloc
  <2>1. UNCHANGED <<window, susp, posted>> /\ W' = W
    BY <1>10, SMTT(30) DEF EndRealloc, eventVars, ackVars, W
  <2>2. suspended' => ~FreeToSend \/ suspended
    BY <1>10, ZenonT(30) DEF EndRealloc, AfterFetch, UpdateWatches, ForceCheck
  <2> QED BY <1>4, <1>5, <2>1, <2>2, SMTT(30) DEF FreeToSend, CounterSuspended
<1>11. CASE Post
  BY <1>1, <1>4, <1>11 DEF Post, Exclusive, Working
<1>12. CASE Free \/ ClearInitialized
  BY <1>2, <1>3, <1>4, <1>12 DEF Free, ClearInitialized
<1>13. CASE Rebalance
  <2>1. suspended' = suspended /\ susp' = susp /\ W' = W /\ (posted => posted')
    BY <1>2, <1>13, SMTT(30) DEF Rebalance, IncBalanced, DecBalanced, PostWakeup, readerVars, ackVars, W
  <2>2. CASE window # 0
    BY <1>4, <1>5, <2>1, <2>2, SMTT(30)
  <2>3. CASE window = 0
    <3>1. \/ window' = window
          \/ \E o : window' = window + o /\ IF window = 0 /\ o # 0 THEN PostWakeup ELSE UNCHANGED posted
      BY <1>13 DEF Rebalance, IncBalanced, DecBalanced
    <3>2. PICK o : window' = window + o /\ IF window = 0 /\ o # 0 THEN PostWakeup ELSE UNCHANGED posted
      BY <1>4, <2>3, <3>1, SMTT(30)
    <3>3. o # 0
      BY <1>4, <2>3, <3>2, SMTT(30)
    <3> QED BY <1>2, <1>3, <1>4, <2>3, <3>2, <3>3, Zenon DEF PostWakeup
  <2> QED BY <2>2, <2>3, SMTT(30)
<1>14. CASE SubBalanced
  <2>1. UNCHANGED <<suspended, susp, posted>> /\ W' = W /\ window' = window - main.sub
    BY <1>14 DEF SubBalanced, readerVars, eventVars, ackVars, W
  <2>2. main.sub \in Nat /\ main.sub <= window
    BY <1>1, <1>14, SMTT(30) DEF SubBalanced, Lifecycle, ControlTypes
  <2>3. window # 0
    BY <1>2, <1>4, <2>1, <2>2, SMTT(30)
  <2> QED BY <1>4, <1>5, <2>1, <2>3, SMTT(30)
<1>15. ASSUME NEW d \in Dest, MsgAck(d) \/ Untrack(d) \/ TakeReclaimed(d) \/ AddReclaimed(d)
       PROVE  posted' \/ W'
  <2>1. UNCHANGED <<suspended, susp, posted, window>> /\ dst[d].pc \notin Waking
    BY <1>15, Zenon DEF MsgAck, Untrack, TakeReclaimed, AddReclaimed, readerVars, eventVars, Waking
  <2>2. \E p, n, k : Becomes(d, p, n, k)
    BY <1>1, <1>15, MsgAckOutcome, UntrackOutcome, TakeReclaimedOutcome, AddReclaimedOutcome,
       ZenonT(30)
  <2>3. W => W'
    BY <2>1, <2>2, StillWaking, ZenonT(30) DEF W
  <2> QED BY <1>4, <1>5, <2>1, <2>3, SMTT(30)
<1>16. ASSUME NEW d \in Dest, AddWindow(d)
       PROVE  posted' \/ W'
  <2>1. UNCHANGED <<suspended, susp, posted>> /\ dst[d].pc \notin Waking
    BY <1>16, SMTT(30) DEF AddWindow, readerVars, eventVars, Waking
  <2>2. CASE Becomes(d, "resume", 0, dst[d].taken) \/ Becomes(d, "wake", 0, dst[d].taken)
    BY <2>2, SMTT(30) DEF Becomes, W, Waking
  <2>3. CASE Becomes(d, Adjusted(d), 0, dst[d].taken) /\ window # 0
    <3>1. W => W'
      BY <2>1, <2>3, StillWaking, ZenonT(30) DEF W
    <3> QED BY <1>4, <1>5, <2>1, <2>3, <3>1, SMTT(30)
  <2> QED BY <1>1, <1>16, <2>2, <2>3, AddWindowOutcome, SMTT(30)
<1>17. ASSUME NEW d \in Dest, Suspend(d)
       PROVE  posted' \/ W'
  BY <1>4, <1>17, SMTT(30) DEF Suspend
<1>18. ASSUME NEW d \in Dest, Resume(d)
       PROVE  posted' \/ W'
  <2>1. Becomes(d, "wake", dst[d].inc, dst[d].taken)
    BY <1>1, <1>18, WakeOutcome, SMTT(30)
  <2> QED BY <2>1, SMTT(30) DEF Becomes, W, Waking
<1>19. ASSUME NEW d \in Dest, Wake(d)
       PROVE  posted' \/ W'
  <2>1. Becomes(d, "event", dst[d].inc, dst[d].taken)
    BY <1>1, <1>3, <1>4, <1>19, WakeOutcome, SMTT(30)
  <2> QED BY <2>1, SMTT(30) DEF Becomes, W, Waking
<1>20. ASSUME NEW d \in Dest, PostEvent(d)
       PROVE  posted' \/ W'
  BY <1>20 DEF PostEvent
<1>21. CASE UNCHANGED <<suspended, window, susp, posted, dst>>
  <2>1. W' = W
    BY <1>21 DEF W
  <2> QED BY <1>4, <1>5, <1>21, <2>1, SMTT(30)
<1>22. CASE PollReady \/ RestartTask
  <2>1. UNCHANGED <<suspended, window, susp, posted>> /\ W' = W
    BY <1>22, SMTT(30) DEF PollReady, RestartTask, eventVars, ackVars, W
  <2> QED BY <1>4, <1>5, <2>1, SMTT(30)
<1> QED
  <2>1. \/ UNCHANGED suspended \/ PollReady \/ RestartTask
        \/ WakeupTriggered \/ FileModified \/ WorkFinished \/ IdleTimeout \/ EndRealloc
    BY WatchFrame
  <2>2. \/ UNCHANGED window \/ Post \/ Free \/ Rebalance \/ SubBalanced
        \/ \E d \in Dest : AddWindow(d)
    BY WindowFrame
  <2>3. \/ UNCHANGED susp \/ \E d \in Dest : Suspend(d) \/ Resume(d)
    BY SuspFrame
  <2>4. \/ UNCHANGED posted \/ WakeupTriggered \/ WorkFinished \/ IdleTimeout
        \/ ClearInitialized \/ Rebalance \/ \E d \in Dest : PostEvent(d)
    BY EventFrame
  <2>5. \/ UNCHANGED dst
        \/ \E d \in Dest : \/ MsgAck(d) \/ Suspend(d) \/ Untrack(d) \/ TakeReclaimed(d)
                           \/ AddReclaimed(d) \/ AddWindow(d) \/ Resume(d)
                           \/ Wake(d) \/ PostEvent(d)
    BY AckFrame, SMTT(30)
  <2>6. CASE \E d \in Dest : \/ MsgAck(d) \/ Suspend(d) \/ Untrack(d) \/ TakeReclaimed(d)
                             \/ AddReclaimed(d) \/ AddWindow(d) \/ Resume(d)
                             \/ Wake(d) \/ PostEvent(d)
    BY <1>15, <1>16, <1>17, <1>18, <1>19, <1>20, <2>6, SMTT(30)
  <2> QED BY <1>6, <1>7, <1>8, <1>9, <1>10, <1>11, <1>12, <1>13, <1>14, <1>21, <1>22, SMTT(30),
             <2>1, <2>2, <2>3, <2>4, <2>5, <2>6

-----------------------------------------------------------------------------
(* The bookmarks.                                                          *)

\* Order, when the tracker closes a range: the records left are behind the new
\* bookmark, and every message in flight still has its record.
LEMMA UntrackOrder ==
  ASSUME Laws, Inv, NEW d \in Dest, Untrack(d)
  PROVE  Order'
<1> DEFINE n == RangeLength
           L == Len(recs)
<1>1. AckTypesOK /\ CounterTypes /\ Order /\ Hands
  BY DEF Inv
<1>2. ~Instant /\ UNCHANGED <<inflight, next, job>>
  BY <1>1, SMTT(30) DEF Untrack, Hands, msgVars, readerVars
<1>3. /\ n \in 0 .. L /\ L \in Nat
      /\ \A i \in 1 .. n : recs[i] \in acked
      /\ recs' \in Seq(Nat) /\ Len(recs') = L - n
      /\ \A i \in 1 .. L - n : recs'[i] = recs[n + i]
      /\ acked' = acked \ {recs[i] : i \in 1 .. n}
      /\ saved' = saved \/ (n > 0 /\ saved' = recs[n])
  BY <1>1, UntrackFacts, SMTT(30)
<1>4. DOMAIN recs = 1 .. L /\ DOMAIN recs' = 1 .. L - n
  BY <1>1, <1>3, SMTT(30) DEF AckTypesOK
<1>5. /\ \A i \in 1 .. L : recs[i] \in Nat
      /\ inflight \in SUBSET Nat /\ acked \in SUBSET Nat /\ next \in Nat /\ saved \in Nat
  BY <1>1, SMTT(30) DEF AckTypesOK, CounterTypes
<1>6. /\ \A m \in inflight : 0 < m /\ m < next
      /\ \A m \in inflight : \E i \in 1 .. L : recs[i] = m
      /\ \A m \in acked : m < next /\ m \notin inflight
      /\ \A i, j \in 1 .. L : i < j => recs[i] < recs[j]
      /\ \A i \in 1 .. L : saved < recs[i]
      /\ \A i \in 1 .. L : recs[i] < next \/ (job.pc = "post" /\ recs[i] = next)
      /\ job.pc = "post" => \E i \in 1 .. L : recs[i] = next
      /\ saved < next
  BY <1>1, <1>2, <1>4, SMTT(30) DEF Order
<1> HIDE DEF n, L
<1>7. ASSUME NEW i \in 1 .. L - n
      PROVE  n + i \in 1 .. L /\ recs'[i] = recs[n + i]
  BY <1>3, SMTT(30)
<1>8. ASSUME NEW m, m \notin acked, \E i \in 1 .. L : recs[i] = m
      PROVE  \E i \in 1 .. L - n : recs'[i] = m
  <2>1. PICK i \in 1 .. L : recs[i] = m
    BY <1>8, SMTT(30)
  <2>2. i \notin 1 .. n
    BY <1>3, <1>8, <2>1, SMTT(30)
  <2>3. i - n \in 1 .. L - n /\ n + (i - n) = i
    BY <1>3, <2>2, SMTT(30)
  <2>4. recs'[i - n] = m
    BY <1>3, <2>1, <2>3, SMTT(30)
  <2> QED BY <2>3, <2>4
<1>9. \A m \in inflight : \E i \in 1 .. L - n : recs'[i] = m
  BY <1>6, <1>8, SMTT(30)
<1>10. job.pc = "post" => \E i \in 1 .. L - n : recs'[i] = next
  <2>1. next \notin acked
    BY <1>5, <1>6, SMTT(30)
  <2> QED BY <1>6, <1>8, <2>1, SMTT(30)
<1>11. ASSUME NEW i \in 1 .. L - n, NEW j \in 1 .. L - n, i < j
       PROVE  recs'[i] < recs'[j]
  <2>1. n + i < n + j
    BY <1>3, <1>11, SMTT(30)
  <2> QED BY <1>6, <1>7, <2>1, SMTT(30)
<1>12. ASSUME NEW i \in 1 .. L - n
       PROVE  saved' < recs'[i]
  <2>1. n + i \in 1 .. L /\ recs'[i] = recs[n + i]
    BY <1>7, SMTT(30)
  <2>2. CASE saved' = saved
    BY <1>6, <2>1, <2>2, SMTT(30)
  <2>3. CASE n > 0 /\ saved' = recs[n]
    <3>1. n \in 1 .. L /\ n < n + i
      BY <1>3, <2>3, SMTT(30)
    <3> QED BY <1>6, <2>1, <2>3, <3>1, SMTT(30)
  <2> QED BY <1>3, <2>2, <2>3, SMTT(30)
<1>13. saved' < next
  <2>1. CASE n > 0 /\ saved' = recs[n]
    <3>1. n \in 1 .. n
      BY <1>3, <2>1, SMTT(30)
    <3> QED BY <1>3, <1>6, <2>1, <3>1, SMTT(30)
  <2> QED BY <1>3, <1>6, <2>1, SMTT(30)
<1>14. \A i \in 1 .. L - n : recs'[i] < next \/ (job.pc = "post" /\ recs'[i] = next)
  BY <1>6, <1>7, SMTT(30)
<1>15. \A m \in acked' : m < next /\ m \notin inflight
  BY <1>3, <1>6, SMTT(30)
<1> QED
  BY <1>2, <1>4, <1>6, <1>9, <1>10, <1>11, <1>12, <1>13, <1>14, <1>15, SMTT(30) DEF Order

\* Order, when a message is tracked.
LEMMA TrackOrder ==
  ASSUME Inv, TrackMsg
  PROVE  Order'
<1> DEFINE L == Len(recs)
<1>1. AckTypesOK /\ CounterTypes /\ Order /\ job \in JobRec /\ next \in Nat
  BY DEF Inv, ControlTypes, CounterTypes, JobRec
<1>2. UNCHANGED <<inflight, next, acked, saved>> /\ job.pc = "track"
  BY SMTT(30) DEF TrackMsg, msgVars
<1>3. CASE recs' = recs /\ (Instant \/ ~pending)
  <2>1. ~Instant => job' = job
    BY <1>3, SMTT(30) DEF TrackMsg
  <2> QED BY <1>1, <1>2, <1>3, <2>1, SMTT(30) DEF Order, Instant
<1>4. CASE /\ ~Instant /\ pending /\ recs' \in Seq(Nat) /\ L \in Nat
           /\ Len(recs') = L + 1 /\ recs'[L + 1] = next
           /\ \A i \in 1 .. L : recs'[i] = recs[i]
  <2>1. job'.pc = "post"
    BY <1>1, <1>4, SMTT(30) DEF TrackMsg, JobRec
  <2>2. DOMAIN recs = 1 .. L /\ DOMAIN recs' = 1 .. L + 1
    BY <1>1, <1>4, SMTT(30) DEF AckTypesOK
  <2>3. /\ \A m \in inflight : 0 < m /\ m < next
        /\ \A m \in inflight : \E i \in 1 .. L : recs[i] = m
        /\ \A m \in acked : m < next /\ m \notin inflight
        /\ \A i, j \in 1 .. L : i < j => recs[i] < recs[j]
        /\ \A i \in 1 .. L : saved < recs[i]
        /\ \A i \in 1 .. L : recs[i] < next
        /\ saved < next
    BY <1>1, <1>2, <1>4, <2>2, Zenon DEF Order
  <2> HIDE DEF L
  <2>4. \A i \in 1 .. L + 1 : i \in 1 .. L \/ i = L + 1
    BY <1>4
  <2>5. \A m \in inflight : \E i \in 1 .. L + 1 : recs'[i] = m
    BY <1>4, <2>3, SMTT(30)
  <2>6. ASSUME NEW i \in 1 .. L + 1, NEW j \in 1 .. L + 1, i < j
        PROVE  recs'[i] < recs'[j]
    <3>1. i \in 1 .. L
      BY <1>4, <2>6, SMTT(30)
    <3> QED BY <1>4, <2>3, <2>4, <2>6, <3>1, SMTT(30)
  <2>7. \A i \in 1 .. L + 1 : saved < recs'[i] /\ (recs'[i] < next \/ recs'[i] = next)
    BY <1>4, <2>3, <2>4, SMTT(30)
  <2>8. L + 1 \in 1 .. L + 1
    BY <1>4, SMTT(30)
  <2> QED BY <1>2, <1>4, <2>1, <2>2, <2>3, <2>5, <2>6, <2>7, <2>8, SMTT(30) DEF Order
<1> QED
  BY <1>1, <1>3, <1>4, TrackFacts, SMTT(30)

\* Order, under one step.
LEMMA OrderStep ==
  ASSUME Laws, Inv, Next
  PROVE  Order'
<1>1. AckTypesOK /\ CounterTypes /\ Order /\ job \in JobRec /\ next \in Nat
  BY DEF Inv, ControlTypes, CounterTypes, JobRec
<1>2. CASE Post
  <2>1. UNCHANGED <<recs, acked, saved>> /\ job.pc = "post"
    BY <1>2, SMTT(30) DEF Post, trackVars
  <2>2. CASE window > 0
    <3>1. inflight' = inflight \cup {next} /\ next' = next + 1 /\ job'.pc = "check"
      BY <1>1, <1>2, <2>2, SMTT(30) DEF Post, JobRec
    <3>2. \A i \in DOMAIN recs : recs[i] \in Nat
      BY <1>1, SMTT(30) DEF AckTypesOK
    <3>3. acked \in SUBSET Nat /\ inflight \in SUBSET Nat /\ saved \in Nat /\ next > 0
      BY <1>1, SMTT(30) DEF AckTypesOK, CounterTypes
    <3>4. \A m \in inflight' : 0 < m /\ m < next'
      BY <1>1, <3>1, <3>3, SMTT(30) DEF Order
    <3>5. ASSUME ~Instant
          PROVE  /\ \A m \in inflight' : \E i \in DOMAIN recs : recs[i] = m
                 /\ \A m \in acked : m < next' /\ m \notin inflight'
                 /\ \A i \in DOMAIN recs : recs[i] < next'
                 /\ saved < next'
      BY <1>1, <2>1, <3>1, <3>2, <3>3, <3>5, SMTT(30) DEF Order
    <3> QED BY <1>1, <2>1, <3>1, <3>4, <3>5, SMTT(30) DEF Order, Instant
  <2>3. CASE ~(window > 0)
    <3>1. UNCHANGED <<inflight, next, job>>
      BY <1>2, <2>3, SMTT(30) DEF Post
    <3> QED BY <1>1, <2>1, <3>1, SMTT(30) DEF Order, Instant
  <2> QED BY <2>2, <2>3, SMTT(30)
<1>3. ASSUME NEW d \in Dest, MsgAck(d)
      PROVE  Order'
  <2>1. UNCHANGED <<recs, saved, next, job>>
    BY <1>3 DEF MsgAck, readerVars
  <2>2. PICK m \in inflight : /\ inflight' = inflight \ {m}
                              /\ acked' = IF Instant THEN acked ELSE acked \cup {m}
    BY <1>3, Zenon DEF MsgAck
  <2> QED BY <1>1, <2>1, <2>2, SMTT(30) DEF Order, Instant
<1>4. CASE /\ UNCHANGED <<inflight, recs, acked, saved, next>>
           /\ (job.pc # "post" /\ job'.pc # "post") \/ job' = job
  BY <1>1, <1>4 DEF Order, Instant
<1>5. CASE PollReady \/ RestartTask \/ Fetch \/ CheckWindow \/ WorkFinished
  <2>1. UNCHANGED <<inflight, recs, acked, saved, next>>
    BY <1>5, SMTT(30) DEF PollReady, RestartTask, Fetch, CheckWindow, WorkFinished, trackVars, msgVars
  <2>2. (job.pc # "post" /\ job'.pc # "post") \/ job' = job
    <3>1. CASE PollReady \/ RestartTask
      BY <1>1, <3>1, SMTT(30) DEF PollReady, RestartTask, HandleIn, Working
    <3>2. CASE Fetch
      BY <1>1, <3>2, Zenon DEF Fetch, JobRec
    <3>3. CASE CheckWindow \/ WorkFinished
      BY <1>1, <3>3 DEF CheckWindow, WorkFinished, JobRec
    <3> QED BY <1>5, <3>1, <3>2, <3>3, SMTT(30)
  <2> QED BY <1>4, <2>1, <2>2, SMTT(30)
<1> QED
  <2>1. \/ UNCHANGED job \/ PollReady \/ RestartTask
        \/ Fetch \/ TrackMsg \/ Post \/ CheckWindow \/ WorkFinished
    BY JobFrame
  <2>2. \/ UNCHANGED <<recs, acked, saved>> \/ TrackMsg
        \/ \E d \in Dest : MsgAck(d) \/ Untrack(d)
    BY TrackFrame, SMTT(30)
  <2>3. \/ UNCHANGED inflight \/ Post \/ \E d \in Dest : MsgAck(d)
    BY InflightFrame
  <2>4. \/ UNCHANGED next \/ Post
    BY CountFrame, Zenon DEF Arrive, WindowTimer, msgVars
  <2>5. CASE TrackMsg
    BY <2>5, TrackOrder
  <2>6. CASE \E d \in Dest : MsgAck(d) \/ Untrack(d)
    BY <1>3, <2>6, UntrackOrder
  <2> QED BY <1>2, <1>4, <1>5, <2>1, <2>2, <2>3, <2>4, <2>5, <2>6, SMTT(30)
-----------------------------------------------------------------------------
(* The static window, under one step.                                      *)

\* Nothing is reclaimed and nothing is reallocated.
LEMMA StaticControl ==
  ASSUME Inv, Next, ~Dynamic
  PROVE  /\ main'.pc \in {"loop", "deinit"} /\ ~again' /\ reclaimed' = 0
         /\ full' = InitWindow' /\ free' = PoolSize
<1>1. /\ main.pc \in {"loop", "deinit"} /\ ~again /\ reclaimed = 0
      /\ \A d \in Dest : dst[d].pc \notin {"take", "pend"}
      /\ full = InitWindow /\ free = PoolSize
  BY SMTT(30) DEF Inv, Static
<1>2. main \in MainRec /\ reader' = reader /\ full \in Int /\ PoolSize \in Nat
  BY ReaderConstants, SMTT(30) DEF Inv, ControlTypes, CounterTypes, MainRec, Next
<1>3. ~TakeTotal /\ ~Reclaim /\ ~ClearReclaim /\ ~Rebalance /\ ~SetReclaim /\ ~SubBalanced
      /\ ~EndRealloc /\ ~WindowTimer /\ ~OtherConnections
  BY <1>1, SMTT(30) DEF TakeTotal, Reclaim, ClearReclaim, Rebalance, SetReclaim, SubBalanced,
     EndRealloc, WindowTimer, OtherConnections
<1>4. main'.pc \in {"loop", "deinit"}
  <2>1. CASE WorkFinished \/ IdleTimeout
    BY <1>1, <1>2, <2>1, SMTT(30) DEF WorkFinished, IdleTimeout, Close, MainRec
  <2>2. CASE ClearInitialized
    BY <2>2 DEF ClearInitialized, Idle
  <2> QED BY <1>1, <1>3, <2>1, <2>2, MainFrame, SMTT(30)
<1>5. ~again'
  BY <1>1, <1>3, AgainFrame, Zenon DEF WorkFinished, Close
<1>6. reclaimed' = 0
  BY <1>1, <1>3, ReclaimFrame, ZenonT(30) DEF TakeReclaimed, AddReclaimed
<1>7. full' = InitWindow' /\ free' = PoolSize
  <2>1. InitWindow' = InitWindow
    BY <1>2, SMTT(30) DEF InitWindow
  <2>2. CASE Free
    <3>1. full' = InitWindow /\ free' = free + (full - InitWindow)
      BY <2>2 DEF Free
    <3> QED BY <1>1, <1>2, <2>1, <3>1, SMTT(30)
  <2> QED BY <1>1, <1>3, <2>1, <2>2, PoolFrame, SMTT(30)
<1> QED
  BY <1>4, <1>5, <1>6, <1>7, SMTT(30)

\* No acknowledgement has anything to reclaim.
LEMMA StaticAcks ==
  ASSUME Laws, Inv, Next, ~Dynamic
  PROVE  \A d \in Dest : dst'[d].pc \notin {"take", "pend"}
<1>1. /\ \A d \in Dest : dst[d].pc \notin {"take", "pend"}
      /\ AckTypesOK /\ Adjusting = "add"
  BY DEF Inv, Static, Adjusting
<1>2. ASSUME NEW d \in Dest, NEW p, NEW n, NEW k, Becomes(d, p, n, k), p \notin {"take", "pend"}
      PROVE  \A x \in Dest : dst'[x].pc \notin {"take", "pend"}
  BY <1>1, <1>2, SMTT(30) DEF Becomes
<1>3. ASSUME NEW d \in Dest
      PROVE  Adjusted(d) \notin {"take", "pend"}
  BY DEF Adjusted
<1>4. ASSUME NEW d \in Dest, MsgAck(d) \/ Suspend(d) \/ Untrack(d)
      PROVE  \E p, n, k : Becomes(d, p, n, k) /\ p \notin {"take", "pend"}
  <2>1. "add" \notin {"take", "pend"} /\ "suspend" \notin {"take", "pend"}
        /\ "lock" \notin {"take", "pend"} /\ "idle" \notin {"take", "pend"}
    OBVIOUS
  <2> QED BY <1>1, <1>4, <2>1, MsgAckOutcome, SuspendOutcome, UntrackOutcome, ZenonT(30)
<1>5. ASSUME NEW d \in Dest, AddWindow(d) \/ Resume(d) \/ Wake(d) \/ PostEvent(d)
      PROVE  \E p, n, k : Becomes(d, p, n, k) /\ p \notin {"take", "pend"}
  <2>1. "resume" \notin {"take", "pend"} /\ "wake" \notin {"take", "pend"}
        /\ "event" \notin {"take", "pend"}
    OBVIOUS
  <2> QED BY <1>1, <1>3, <1>5, <2>1, AddWindowOutcome, WakeOutcome, Zenon
<1>6. \A d \in Dest : ~TakeReclaimed(d) /\ ~AddReclaimed(d)
  BY <1>1, SMTT(30) DEF TakeReclaimed, AddReclaimed
<1>7. CASE UNCHANGED <<dst, lock>>
  BY <1>1, <1>7, SMTT(30)
<1>8. CASE \E d \in Dest : \/ MsgAck(d) \/ Suspend(d) \/ Untrack(d) \/ AddWindow(d)
                           \/ Resume(d) \/ Wake(d) \/ PostEvent(d)
  BY <1>2, <1>4, <1>5, <1>8, ZenonT(30)
<1> QED
  BY <1>6, <1>7, <1>8, AckFrame, ZenonT(30)

\* There is room in the window before every message.
LEMMA StaticRoom ==
  ASSUME Inv, Next, ~Dynamic, ~Notified
  PROVE  watch' \/ restart' \/ job'.pc \in {"fetch", "track", "post"} => window' > 0
<1>1. /\ main.pc \in {"loop", "deinit"} /\ ~again /\ ~modified
      /\ watch \/ restart \/ job.pc \in {"fetch", "track", "post"} => window > 0
  BY SMTT(30) DEF Inv, Static, Control, Lifecycle, ControlTypes
<1>2. Exclusive /\ job \in JobRec /\ window \in Nat
  BY DEF Inv, Control, ControlTypes, CounterTypes, JobRec
<1>3. ~Rebalance /\ ~SubBalanced /\ ~EndRealloc /\ ~FileModified
  BY <1>1, SMTT(30) DEF Rebalance, SubBalanced, EndRealloc, FileModified
<1>4. CASE Post
  <2>1. job.pc = "post" /\ window > 0
    BY <1>1, <1>4, SMTT(30) DEF Post
  <2>2. job'.pc = "check" /\ UNCHANGED <<watch, restart>> /\ Working
    BY <1>2, <1>4, <2>1, SMTT(30) DEF Post, JobRec, Working
  <2> QED BY <1>2, <2>2, SMTT(30) DEF Exclusive
<1>5. CASE Free
  <2>1. UNCHANGED <<watch, restart, job>> /\ ~init /\ job.pc = "idle"
    BY <1>5, SMTT(30) DEF Free, readerVars
  <2> QED BY <1>2, <2>1, SMTT(30) DEF Exclusive
<1>6. ASSUME NEW d \in Dest, AddWindow(d)
      PROVE  watch' \/ restart' \/ job'.pc \in {"fetch", "track", "post"} => window' > 0
  <2>1. window' = window + dst[d].inc /\ UNCHANGED <<watch, restart, job>>
    BY <1>6, SMTT(30) DEF AddWindow, readerVars
  <2>2. dst[d].inc \in Nat
    BY DstFields, SMTT(30) DEF Inv
  <2> QED BY <1>1, <1>2, <2>1, <2>2, SMTT(30)
<1>7. CASE UNCHANGED window
  <2>1. watch' \/ restart' => window > 0
    <3>1. CASE UNCHANGED <<suspended, watch, restart>>
      BY <1>1, <3>1, SMTT(30)
    <3>2. CASE PollReady \/ RestartTask
      BY <1>1, <3>2, SMTT(30) DEF PollReady, RestartTask
    <3>3. CASE WakeupTriggered
      BY <1>1, <1>2, <3>3, SMTT(30) DEF WakeupTriggered, UpdateWatches, FreeToSend, CounterSuspended,
         Exclusive
    <3>4. CASE WorkFinished
      <4>1. ~watch /\ ~restart
        BY <1>2, <3>4, SMTT(30) DEF WorkFinished, Exclusive, Working
      <4>2. (watch' = FALSE /\ restart' = FALSE) \/ UpdateWatches
        BY <1>1, <3>4, SMTT(30) DEF WorkFinished, Close, AfterFetch
      <4>3. UpdateWatches => (watch' = FALSE /\ restart' = restart) \/ FreeToSend
        BY DEF UpdateWatches
      <4>4. FreeToSend => window > 0
        BY <1>2 DEF FreeToSend, CounterSuspended
      <4> QED BY <4>1, <4>2, <4>3, <4>4, SMTT(30)
    <3>5. CASE IdleTimeout
      BY <3>5, SMTT(30) DEF IdleTimeout, Close
    <3> QED BY <1>3, <3>1, <3>2, <3>3, <3>4, <3>5, WatchFrame, SMTT(30)
  <2>2. job'.pc \in {"fetch", "track", "post"} => window > 0
    <3>1. CASE UNCHANGED job
      BY <1>1, <3>1, SMTT(30)
    <3>2. CASE PollReady \/ RestartTask
      BY <1>1, <3>2, SMTT(30) DEF PollReady, RestartTask, InMainLoop
    <3>3. CASE Fetch \/ TrackMsg
      BY <1>1, <3>3, SMTT(30) DEF Fetch, TrackMsg
    <3>4. CASE CheckWindow
      BY <1>2, <3>4, SMTT(30) DEF CheckWindow, FreeToSend, CounterSuspended, JobRec
    <3>5. CASE WorkFinished
      BY <1>2, <3>5, SMTT(30) DEF WorkFinished, JobRec
    <3> QED BY <1>4, <1>7, <3>1, <3>2, <3>3, <3>4, <3>5, JobFrame, SMTT(30)
  <2> QED BY <1>7, <2>1, <2>2, SMTT(30)
<1> QED
  BY <1>3, <1>4, <1>5, <1>6, <1>7, WindowFrame, SMTT(30)

\* The slots that messages occupy: a natural number, when no message is between
\* its record and the window.
LEMMA OccupiedType ==
  ASSUME Laws, Inv
  PROVE  /\ Occupied \in Int /\ Len(recs) \in Nat /\ Cardinality(inflight) \in Nat
         /\ Instant => Occupied = Cardinality(inflight)
         /\ ~Instant /\ job.pc = "post" => Occupied = Len(recs) - 1
         /\ ~Instant /\ job.pc # "post" => Occupied = Len(recs)
<1>1. Len(recs) \in Nat /\ IsFiniteSet(inflight)
  BY DEF Inv, AckTypesOK
<1>2. Cardinality(inflight) \in Nat
  BY <1>1, Zenon DEF Laws
<1> QED
  BY <1>1, <1>2 DEF Occupied

\* A message finds its pending record: with room in the window there is room
\* for its record.
LEMMA StaticPending ==
  ASSUME Laws, Inv, Next, ~Dynamic, ~Notified
  PROVE  job'.pc = "track" => pending'
<1>1. /\ reclaimed = 0 /\ full = InitWindow /\ abort = "no"
      /\ job.pc = "fetch" => window > 0
      /\ job.pc = "track" => pending
      /\ main.pc \in {"loop", "deinit"}
  BY SMTT(30) DEF Inv, Static
<1>2. /\ job \in JobRec /\ pending \in BOOLEAN /\ window \in Nat /\ MaxMsgs \in Nat
      /\ InitWindow \in Nat
  BY ReaderConstants, SMTT(30) DEF Inv, ControlTypes, CounterTypes, JobRec, InitWindow
<1>3. CASE Fetch
  <2>1. CASE job.cnt >= FetchLimit
    <3>1. ~(job.cnt < FetchLimit)
      BY <1>2, <2>1, ReaderConstants, SMTT(30) DEF JobRec
    <3>2. job' = [job EXCEPT !.pc = "done", !.code = "again"]
      BY <1>3, <3>1, SMTT(30) DEF Fetch
    <3>3. job'.pc = "done"
      BY <1>2, <3>2, SMTT(30) DEF JobRec
    <3> QED BY <3>3
  <2>2. CASE job.cnt < FetchLimit
    <3>1. job.pc = "fetch" /\ lock = None /\ pending' = (pending \/ Len(recs) < Capacity)
      <4>1. ~(job.cnt >= FetchLimit)
        BY <1>2, <2>2, ReaderConstants DEF JobRec
      <4> QED BY <1>3, <4>1 DEF Fetch
    <3>2. Len(recs) < Capacity
      <4>1. CASE Instant
        <5>1. recs = <<>> /\ Capacity = MaxMsgs + 1
          BY <4>1 DEF Inv, Hands, Capacity
        <5> QED BY <1>2, <5>1, SMTT(30)
      <4>2. CASE ~Instant
        <5>1. Occupied = Len(recs) /\ Len(recs) \in Nat
          BY <3>1, <4>2, OccupiedType, SMTT(30)
        <5>2. InHand = 0
          BY <3>1, <4>2, SMTT(30) DEF InHand
        <5>3. main.total = 0 /\ ~freed
          BY <1>1, <3>1, SMTT(30) DEF Inv, Control, Lifecycle, Exclusive, Working
        <5>4. full = window + Occupied + InHand + reclaimed + main.total
          BY <5>3, SMTT(30) DEF Inv, WindowConserved
        <5> DEFINE L == Len(recs)
        <5>5. L \in Nat /\ InitWindow = window + L + 0 + 0 + 0
          BY <1>1, <5>1, <5>2, <5>3, <5>4, SMTT(30)
        <5>6. Capacity = InitWindow
          BY <4>2, SMTT(30) DEF Capacity
        <5>7. window > 0
          BY <1>1, <3>1, SMTT(30)
        <5> HIDE DEF L
        <5>8. L < InitWindow
          BY <1>2, <5>5, <5>7, SMTT(30)
        <5> QED BY <5>6, <5>8, SMTT(30) DEF L
      <4> QED BY <4>1, <4>2, SMTT(30)
    <3> QED BY <3>1, <3>2, ZenonT(30)
  <2> QED BY <1>2, <2>1, <2>2, ReaderConstants, SMTT(30) DEF JobRec
<1>4. CASE TrackMsg
  <2>1. job'.pc = "post"
    BY <1>1, <1>2, <1>4, SMTT(30) DEF TrackMsg, JobRec
  <2> QED BY <2>1
<1>5. CASE UNCHANGED pending
  <2>1. job'.pc = "track" => job.pc = "track" \/ Fetch
    <3>1. CASE PollReady \/ RestartTask
      BY <3>1, SMTT(30) DEF PollReady, RestartTask, HandleIn
    <3>2. CASE TrackMsg \/ Post
      BY <1>2, <3>2, SMTT(30) DEF TrackMsg, Post, JobRec
    <3>3. CASE CheckWindow \/ WorkFinished
      <4>1. \/ job' = [job EXCEPT !.pc = "fetch"] \/ job' = [job EXCEPT !.pc = "done"]
            \/ job' = [job EXCEPT !.pc = "idle"]
        BY <3>3 DEF CheckWindow, WorkFinished
      <4> QED BY <1>2, <4>1, SMTT(30) DEF JobRec
    <3> QED BY <3>1, <3>2, <3>3, JobFrame, SMTT(30)
  <2> QED BY <1>1, <1>3, <1>5, <2>1, SMTT(30)
<1> QED
  BY <1>3, <1>4, <1>5, PendingFrame, SMTT(30)

\* Static, under one step.
LEMMA StaticStep ==
  ASSUME Laws, Inv, Next
  PROVE  Static'
<1>1. reader' = reader
  BY DEF Next
<1>2. ASSUME ~Dynamic, ~Notified
      PROVE  abort' = "no"
  <2>1. /\ abort = "no" /\ main.pc \in {"loop", "deinit"}
        /\ job.pc = "post" => window > 0
        /\ job.pc = "track" => pending
    BY <1>2 DEF Inv, Static
  <2>2. Exclusive
    BY SMTT(30) DEF Inv, Control
  <2>3. CASE PollReady \/ RestartTask
    BY <2>1, <2>2, <2>3, SMTT(30) DEF PollReady, RestartTask, HandleIn, Exclusive
  <2>4. CASE WakeupTriggered
    BY <2>1, <2>2, <2>4, SMTT(30) DEF WakeupTriggered, Exclusive
  <2>5. CASE TrackMsg \/ Post
    BY <2>1, <2>5, SMTT(30) DEF TrackMsg, Post
  <2>6. CASE Free
    BY <1>2, <2>1, <2>6, ZenonT(30) DEF Free
  <2>7. CASE Reclaim \/ SetReclaim \/ SubBalanced
    BY <2>1, <2>7, SMTT(30) DEF Reclaim, SetReclaim, SubBalanced
  <2> QED BY <2>1, <2>3, <2>4, <2>5, <2>6, <2>7, AbortFrame, SMTT(30)
<1>3. Notified' = Notified
  BY <1>1 DEF Notified
<1> QED
  BY <1>2, <1>3, StaticControl, StaticAcks, StaticRoom, StaticPending, ZenonT(30)
     DEF Static, Dynamic

=============================================================================
