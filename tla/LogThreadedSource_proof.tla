----------------------- MODULE LogThreadedSource_proof -----------------------
(***************************************************************************)
(* Proofs about LogThreadedSource, for any number of workers, fetchers and *)
(* partitions, any window and any number of messages.                      *)
(*                                                                         *)
(* The inductive invariant IInv says of every partition who will take what *)
(* waits in it (JobOK), and of every source where it is in closing its     *)
(* batch (BatchOK), which room it has seen in its window (WindowOK) and    *)
(* who wakes it up (WakeupOK).  A second one, MInv, keeps the books of the *)
(* messages: what is on its way, what was injected, in which order.        *)
(***************************************************************************)
EXTENDS LogThreadedSource, TLAPS

\* The places of the two kinds of sources.
WorkerPcs == {"start", "run", "posted", "suspend", "asleep", "ended"}
FetcherPcs == {"start", "loop", "posted", "schedule", "ended"}
LoopRec == [task : BOOLEAN, timer : {"none", "no_data", "reconnect"}, suspended : BOOLEAN,
            wakeup : BOOLEAN, shutdown : BOOLEAN]

\* Types of the variables of the sources.
SourceTypes ==
  /\ pc \in [Sources -> WorkerPcs \cup FetcherPcs]
  /\ window \in [Sources -> Int]
  /\ wakes \in [Sources -> Nat] /\ posting \in [Sources -> Nat]
  /\ awoken \in [Sources -> BOOLEAN] /\ term \in [Sources -> BOOLEAN]
  /\ exits \subseteq Sources
  /\ loop \in [Sources -> LoopRec]

\* Types of the variables of the scheduler.  What the batches hold is left open.
SchedTypes ==
  /\ flush \in [Sources -> [at : 0 .. NumPartitions, submit : BOOLEAN]]
  /\ DOMAIN state = Sources
  /\ \A s \in Sources : /\ DOMAIN state[s] = {"countdown", "last", "num", "batch"}
                        /\ state[s].num \in Nat
  /\ DOMAIN part = Partitions
  /\ \A p \in Partitions : /\ DOMAIN part[p] = {"batches", "running", "job", "taken"}
                           /\ part[p].running \in BOOLEAN
                           /\ part[p].job \in {"idle", "working", "done"}

\* The thread that submits the job of p.
Submits(s, p) == flush[s].submit /\ flush[s].at = p

\* running stands for the job from the moment a thread decides to submit it; it
\* stays on without a job only when the restart was refused.
JobOK(p) ==
  /\ part[p].batches # <<>> => part[p].running
  /\ part[p].job # "idle" => part[p].running
  /\ part[p].running => \/ part[p].job # "idle" \/ quit
                        \/ \E s \in Sources : Submits(s, p)
  /\ \A s \in Sources : Submits(s, p) => part[p].running /\ part[p].job = "idle"
  /\ \A r, s \in Sources : Submits(r, p) /\ Submits(s, p) => r = s

\* A source that waits has closed its batch.
BatchOK(s) ==
  /\ flush[s].submit => flush[s].at < NumPartitions
  /\ Flushing(s) => pc[s] \in {"run", "suspend", "schedule"}
  /\ pc[s] \in {"suspend", "schedule"} => Flushing(s) \/ state[s].num = 0 \/ (s \in Workers /\ FreeToSend(s))
  /\ pc[s] = "asleep" => state[s].num = 0
  /\ s \in Fetchers /\ pc[s] \in {"start", "loop"} => state[s].num = 0

\* A source that is about to post has room, or was let go by the exit.
WindowOK(s) ==
  /\ pc[s] = "start" => FreeToSend(s) /\ ~loop[s].task /\ loop[s].timer = "none"
                        /\ ~loop[s].suspended
  /\ s \in Workers => /\ pc[s] \in WorkerPcs
                      /\ pc[s] = "run" => FreeToSend(s) \/ term[s]
                      /\ window[s] < 0 => term[s]
  /\ s \in Fetchers => /\ pc[s] \in FetcherPcs
                       /\ loop[s].task \/ loop[s].timer = "no_data" => FreeToSend(s)
                       /\ window[s] >= 0

\* A source that sleeps is woken up.
WakeupOK(s) ==
  /\ s \in Workers /\ pc[s] = "asleep" /\ ~awoken[s] =>
       /\ FreeToSend(s) => wakes[s] > 0 \/ s \in exits
       /\ term[s] => s \in exits
  /\ s \in Fetchers /\ pc[s] = "loop" =>
       \/ loop[s].task /\ loop[s].timer = "none" /\ ~loop[s].suspended
       \/ loop[s].timer # "none" /\ ~loop[s].task /\ ~loop[s].suspended
       \/ /\ loop[s].suspended /\ ~loop[s].task /\ loop[s].timer = "none"
          /\ FreeToSend(s) => wakes[s] > 0 \/ posting[s] > 0 \/ loop[s].wakeup \/ term[s]
  /\ s \in Fetchers /\ pc[s] \in {"posted", "schedule"} =>
       ~loop[s].task /\ loop[s].timer = "none" /\ ~loop[s].suspended

\* The inductive invariant.
IInv ==
  /\ SourceTypes /\ SchedTypes
  /\ \A p \in Partitions : JobOK(p)
  /\ \A s \in Sources : BatchOK(s) /\ WindowOK(s) /\ WakeupOK(s)

-----------------------------------------------------------------------------
(* Steps that change one source.                                           *)

\* Every partition keeps its job when the submitters stay.
LEMMA JobsKept ==
  ASSUME IInv, part' = part, quit' = quit,
         \A s \in Sources : \A p \in Partitions : Submits(s, p)' <=> Submits(s, p)
  PROVE  \A p \in Partitions : JobOK(p)'
<1> SUFFICES ASSUME NEW p \in Partitions PROVE JobOK(p)'
  OBVIOUS
<1>1. JobOK(p) BY Zenon DEF IInv
<1>2. \A s \in Sources : Submits(s, p)' <=> Submits(s, p) OBVIOUS
<1> HIDE DEF Submits
<1> QED BY <1>1, <1>2, Zenon DEF JobOK

\* What the conditions on a source depend on, apart from exits.
SameSource(r) ==
  /\ pc'[r] = pc[r] /\ window'[r] = window[r] /\ loop'[r] = loop[r]
  /\ wakes'[r] = wakes[r] /\ posting'[r] = posting[r]
  /\ awoken'[r] = awoken[r] /\ term'[r] = term[r]
  /\ flush'[r] = flush[r] /\ state'[r].num = state[r].num
  /\ r \in exits => r \in exits'

SourceOK(s) == BatchOK(s) /\ WindowOK(s) /\ WakeupOK(s)

\* A source that a step leaves alone.
LEMMA OtherSource ==
  ASSUME NEW r \in Sources, SourceOK(r), SameSource(r)
  PROVE  SourceOK(r)'
<1>1. BatchOK(r)' BY Zenon DEF SourceOK, SameSource, BatchOK, Flushing, FreeToSend, NotFlushing
<1>2. WindowOK(r)' BY Zenon DEF SourceOK, SameSource, WindowOK, FreeToSend
<1>3. WakeupOK(r)' BY Zenon DEF SourceOK, SameSource, WakeupOK, FreeToSend
<1> QED BY <1>1, <1>2, <1>3, Zenon DEF SourceOK

\* A step of one source: the others keep what holds of them.
LEMMA OneSource ==
  ASSUME IInv, NEW s \in Sources, SourceTypes', SchedTypes',
         \A p \in Partitions : JobOK(p)',
         \A r \in Sources : r # s => SameSource(r),
         SourceOK(s)'
  PROVE  IInv'
<1>1. ASSUME NEW r \in Sources PROVE SourceOK(r)'
  <2>1. CASE r = s BY <2>1, Zenon
  <2>2. CASE r # s
    <3>1. SourceOK(r) BY Zenon DEF IInv, SourceOK
    <3> QED BY <2>2, <3>1, OtherSource, Zenon
  <2> QED BY <2>1, <2>2, Zenon
<1> QED BY <1>1, Zenon DEF IInv, SourceOK

\* A source whose own values a step leaves alone.
SameValues(r) ==
  /\ pc'[r] = pc[r] /\ window'[r] = window[r] /\ loop'[r] = loop[r]
  /\ wakes'[r] = wakes[r] /\ posting'[r] = posting[r]
  /\ awoken'[r] = awoken[r] /\ term'[r] = term[r]
  /\ r \in exits => r \in exits'

\* A step of one source that leaves the scheduler alone.
LEMMA SourceStepHolds ==
  ASSUME IInv, NEW s \in Sources, SourceTypes', \A r \in Sources : r # s => SameValues(r),
         UNCHANGED schedVars, SourceOK(s)'
  PROVE  IInv'
<1>1. state' = state /\ flush' = flush /\ part' = part /\ quit' = quit
  BY DEF schedVars
<1>2. SchedTypes' BY <1>1 DEF IInv, SchedTypes
<1>3. \A p \in Partitions : JobOK(p)'
  <2>1. \A r \in Sources : \A p \in Partitions : Submits(r, p)' <=> Submits(r, p)
    BY <1>1, Zenon DEF Submits
  <2> QED BY <1>1, <2>1, JobsKept, Zenon
<1>4. \A r \in Sources : r # s => SameSource(r)
  BY <1>1, Zenon DEF SameSource, SameValues
<1> QED BY <1>2, <1>3, <1>4, OneSource, Zenon

\* The types and conditions of one source.
LEMMA Values ==
  ASSUME IInv, NEW s \in Sources
  PROVE  /\ SourceTypes /\ BatchOK(s) /\ WindowOK(s) /\ WakeupOK(s)
         /\ window[s] \in Int /\ wakes[s] \in Nat /\ posting[s] \in Nat /\ loop[s] \in LoopRec
         /\ awoken[s] \in BOOLEAN /\ term[s] \in BOOLEAN
BY DEF IInv, SourceTypes

-----------------------------------------------------------------------------
(* A worker that blocks.                                                   *)

\* It starts with room in its window.
LEMMA WorkerStartHolds == ASSUME IInv, NEW s \in Sources, WorkerStart(s) PROVE IInv'
<1>1. SourceTypes' /\ \A r \in Sources : r # s => SameValues(r)
  BY Values DEF WorkerStart, Goto, SourceTypes, SameValues, WorkerPcs
<1>2. /\ UNCHANGED <<window, wakes, posting, awoken, term, loop, exits, flush, state>>
      /\ UNCHANGED schedVars /\ pc'[s] = "run" /\ pc[s] = "start" /\ s \in Workers
  BY Values DEF WorkerStart, Goto, SourceTypes, schedVars
<1>3. BatchOK(s)' BY <1>2, Values DEF BatchOK, Flushing, NotFlushing
<1>4. WindowOK(s)' BY <1>2, Values, Zenon DEF WindowOK, FreeToSend, WorkerPcs, Workers
<1>5. WakeupOK(s)' BY <1>2 DEF WakeupOK, Workers
<1> QED BY <1>1, <1>2, <1>3, <1>4, <1>5, SourceStepHolds, Zenon DEF SourceOK

\* With the wakeup lock, it sleeps only when it has no room and is not asked to
\* exit.
LEMMA SuspendHolds == ASSUME IInv, NEW s \in Sources, Suspend(s) PROVE IInv'
<1> DEFINE sleep == ~FreeToSend(s) /\ ~term[s]
<1>1. SourceTypes' /\ \A r \in Sources : r # s => SameValues(r)
  BY Values DEF Suspend, Goto, SourceTypes, SameValues, WorkerPcs
<1>2. /\ UNCHANGED <<window, wakes, posting, term, loop, exits, flush, state>>
      /\ UNCHANGED schedVars /\ s \in Workers
      /\ pc'[s] = (IF sleep THEN "asleep" ELSE "run") /\ (awoken'[s] <=> awoken[s] /\ ~sleep)
      /\ (pc[s] = "suspend" /\ ~Flushing(s)) \/ pc[s] = "asleep"
  BY Values DEF Suspend, Goto, SourceTypes, schedVars
<1>3. CASE sleep
  <2>1. BatchOK(s)' BY <1>2, <1>3, Values, Zenon DEF BatchOK, Flushing, NotFlushing, FreeToSend
  <2>2. WindowOK(s)' BY <1>2, <1>3, Values, Zenon DEF WindowOK, FreeToSend, WorkerPcs, Workers
  <2>3. WakeupOK(s)' BY <1>2, <1>3 DEF WakeupOK, Workers, FreeToSend
  <2> QED BY <1>1, <1>2, <2>1, <2>2, <2>3, SourceStepHolds, Zenon DEF SourceOK
<1>4. CASE ~sleep
  <2>1. BatchOK(s)' BY <1>2, <1>4, Values DEF BatchOK, Flushing, NotFlushing
  <2>2. WindowOK(s)' BY <1>2, <1>4, Values, Zenon DEF WindowOK, FreeToSend, WorkerPcs, Workers
  <2>3. WakeupOK(s)' BY <1>2, <1>4 DEF WakeupOK, Workers
  <2> QED BY <1>1, <1>2, <2>1, <2>2, <2>3, SourceStepHolds, Zenon DEF SourceOK
<1> QED BY <1>3, <1>4, Zenon

\* Its driver's run() returns.
LEMMA RunReturnsHolds == ASSUME IInv, NEW s \in Sources, RunReturns(s) PROVE IInv'
<1>1. SourceTypes' /\ \A r \in Sources : r # s => SameValues(r)
  BY Values DEF RunReturns, Goto, SourceTypes, SameValues, WorkerPcs
<1>2. /\ UNCHANGED <<window, wakes, posting, awoken, term, loop, exits, flush, state>>
      /\ UNCHANGED schedVars /\ pc'[s] = "ended" /\ s \in Workers /\ ~Flushing(s)
  BY Values DEF RunReturns, Goto, SourceTypes, schedVars
<1>3. BatchOK(s)' BY <1>2, Values DEF BatchOK, Flushing, NotFlushing
<1>4. WindowOK(s)' BY <1>2, Values, Zenon DEF WindowOK, FreeToSend, WorkerPcs, Workers
<1>5. WakeupOK(s)' BY <1>2 DEF WakeupOK, Workers
<1> QED BY <1>1, <1>2, <1>3, <1>4, <1>5, SourceStepHolds, Zenon DEF SourceOK

-----------------------------------------------------------------------------
(* A fetcher: the handlers of its event loop.                              *)

\* What a step of a fetcher's loop keeps: everything but its loop and its place.
LoopStep(s) ==
  /\ UNCHANGED schedVars
  /\ UNCHANGED <<window, wakes, posting, awoken, term, exits, flush, state>>
  /\ s \in Fetchers /\ ~Flushing(s) /\ state[s].num = 0
  /\ pc'[s] \in {"loop", "ended"} /\ pc' = [pc EXCEPT ![s] = pc'[s]]
  /\ loop'[s] \in LoopRec /\ loop' = [loop EXCEPT ![s] = loop'[s]]

\* A fetcher that fetches next has room; one that waits for the window had none,
\* or its wakeup is on its way.
LEMMA LoopStepHolds ==
  ASSUME IInv, NEW s \in Sources, LoopStep(s),
         loop'[s].task \/ loop'[s].timer = "no_data" => FreeToSend(s),
         pc'[s] = "loop" =>
           \/ loop'[s].task /\ loop'[s].timer = "none" /\ ~loop'[s].suspended
           \/ loop'[s].timer # "none" /\ ~loop'[s].task /\ ~loop'[s].suspended
           \/ /\ loop'[s].suspended /\ ~loop'[s].task /\ loop'[s].timer = "none"
              /\ FreeToSend(s) => wakes[s] > 0 \/ posting[s] > 0 \/ loop'[s].wakeup \/ term[s]
  PROVE  IInv'
<1>1. SourceTypes' /\ \A r \in Sources : r # s => SameValues(r)
  BY Values DEF LoopStep, SourceTypes, SameValues, FetcherPcs
<1>2. /\ UNCHANGED <<window, wakes, posting, awoken, term, exits, flush, state>>
      /\ UNCHANGED schedVars /\ s \in Fetchers /\ ~Flushing(s) /\ state[s].num = 0
      /\ pc'[s] \in {"loop", "ended"} /\ s \notin Workers
  BY DEF LoopStep, Workers
<1>3. BatchOK(s)' BY <1>2, Values, Zenon DEF BatchOK, Flushing, NotFlushing
<1>4. WindowOK(s)' BY <1>2, Values, Zenon DEF WindowOK, FreeToSend, FetcherPcs, Workers
<1>5. WakeupOK(s)' BY <1>2, Zenon DEF WakeupOK, Workers, FreeToSend
<1> QED BY <1>1, <1>2, <1>3, <1>4, <1>5, SourceStepHolds, Zenon DEF SourceOK

\* A fetcher in its loop has closed its batch.
LEMMA InLoop ==
  ASSUME IInv, NEW s \in Sources, s \in Fetchers, pc[s] \in {"start", "loop"}
  PROVE  ~Flushing(s) /\ state[s].num = 0
BY Values, Zenon DEF BatchOK

\* The loop is entered with room in the window.
LEMMA FetcherRunHolds == ASSUME IInv, NEW s \in Sources, FetcherRun(s) PROVE IInv'
<1>1. s \in Fetchers /\ pc[s] = "start" /\ pc' = [pc EXCEPT ![s] = "loop"] /\ pc'[s] = "loop"
  BY Values DEF FetcherRun, Goto, SourceTypes
<1>2. PICK b \in BOOLEAN : loop' = [loop EXCEPT ![s] = IF b THEN [loop[s] EXCEPT !.task = TRUE]
                                                     ELSE [loop[s] EXCEPT !.timer = "reconnect"]]
  BY Zenon DEF FetcherRun, Loop
<1>3. /\ loop'[s] = IF b THEN [loop[s] EXCEPT !.task = TRUE] ELSE [loop[s] EXCEPT !.timer = "reconnect"]
      /\ loop' = [loop EXCEPT ![s] = loop'[s]]
  BY <1>2, Values, Zenon DEF SourceTypes
<1>4. FreeToSend(s) /\ ~loop[s].task /\ loop[s].timer = "none" /\ ~loop[s].suspended
  BY <1>1, Values, Zenon DEF WindowOK
<1>5. loop'[s] \in LoopRec /\ loop'[s].timer # "no_data" /\ ~loop'[s].suspended
      /\ ((loop'[s].task /\ loop'[s].timer = "none") \/ (loop'[s].timer # "none" /\ ~loop'[s].task))
  <2>1. CASE b
    <3>1. loop'[s] = [loop[s] EXCEPT !.task = TRUE] BY <1>3, <2>1, Zenon
    <3> QED BY <1>4, <3>1, Values, Zenon DEF LoopRec
  <2>2. CASE ~b
    <3>1. loop'[s] = [loop[s] EXCEPT !.timer = "reconnect"] BY <1>3, <2>2, Zenon
    <3> QED BY <1>4, <3>1, Values DEF LoopRec
  <2> QED BY <2>1, <2>2, Zenon
<1>6. /\ UNCHANGED <<window, wakes, posting, awoken, term, exits, flush, state>> /\ UNCHANGED schedVars
  BY DEF FetcherRun, schedVars
<1>7. LoopStep(s) BY <1>1, <1>3, <1>5, <1>6, InLoop, Zenon DEF LoopStep
<1> QED BY <1>4, <1>5, <1>7, LoopStepHolds, Zenon

\* After a fetch, the next one is scheduled when there is room.
LEMMA FetchScheduledHolds == ASSUME IInv, NEW s \in Sources, FetchScheduled(s) PROVE IInv'
<1>1. s \in Fetchers /\ pc[s] = "schedule" /\ ~Flushing(s) /\ pc' = [pc EXCEPT ![s] = "loop"] /\ pc'[s] = "loop"
  BY Values DEF FetchScheduled, Goto, SourceTypes
<1>2. /\ loop'[s] = IF FreeToSend(s) THEN [loop[s] EXCEPT !.task = TRUE] ELSE [loop[s] EXCEPT !.suspended = TRUE]
      /\ loop' = [loop EXCEPT ![s] = loop'[s]]
  BY Values, Zenon DEF FetchScheduled, ScheduleNextFetch, Loop, SourceTypes
<1>3. ~loop[s].task /\ loop[s].timer = "none" /\ ~loop[s].suspended
  BY <1>1, Values, Zenon DEF WakeupOK
<1>4. loop'[s] \in LoopRec /\ loop'[s].timer = "none" /\ (loop'[s].task <=> FreeToSend(s))
      /\ (loop'[s].suspended <=> ~FreeToSend(s))
  BY <1>2, <1>3, Values, Zenon DEF LoopRec
<1>5. state[s].num = 0
  BY <1>1, Values, Zenon DEF BatchOK, Workers
<1>6. /\ UNCHANGED <<window, wakes, posting, awoken, term, exits, flush, state>> /\ UNCHANGED schedVars
  BY DEF FetchScheduled, schedVars
<1>7. LoopStep(s) BY <1>1, <1>2, <1>4, <1>5, <1>6, Zenon DEF LoopStep
<1> QED BY <1>4, <1>7, LoopStepHolds, Zenon

\* What a fetcher in its loop waits for.
LEMMA LoopValues ==
  ASSUME IInv, NEW s \in Sources, InFetcherLoop(s)
  PROVE  /\ s \in Fetchers /\ pc[s] = "loop" /\ ~Flushing(s) /\ state[s].num = 0
         /\ loop[s] \in LoopRec
         /\ loop[s].task \/ loop[s].timer = "no_data" => FreeToSend(s)
         /\ \/ loop[s].task /\ loop[s].timer = "none" /\ ~loop[s].suspended
            \/ loop[s].timer # "none" /\ ~loop[s].task /\ ~loop[s].suspended
            \/ /\ loop[s].suspended /\ ~loop[s].task /\ loop[s].timer = "none"
               /\ FreeToSend(s) => wakes[s] > 0 \/ posting[s] > 0 \/ loop[s].wakeup \/ term[s]
<1>1. s \in Fetchers /\ pc[s] = "loop" BY Zenon DEF InFetcherLoop
<1>2. ~Flushing(s) /\ state[s].num = 0 BY <1>1, InLoop, Zenon
<1>3. loop[s] \in LoopRec BY Values, Zenon
<1>4. loop[s].task \/ loop[s].timer = "no_data" => FreeToSend(s) BY <1>1, Values, Zenon DEF WindowOK
<1> QED BY <1>1, <1>2, <1>3, <1>4, Values, Zenon DEF WakeupOK

\* A handler that stays in the loop.
LEMMA InLoopStep ==
  ASSUME IInv, NEW s \in Sources, InFetcherLoop(s), pc' = pc,
         UNCHANGED <<window, wakes, posting, awoken, term, exits, flush, state>>, UNCHANGED schedVars,
         loop'[s] \in LoopRec, loop' = [loop EXCEPT ![s] = loop'[s]]
  PROVE  LoopStep(s)
<1>1. pc' = [pc EXCEPT ![s] = pc'[s]] BY Values DEF SourceTypes
<1>2. pc'[s] \in {"loop", "ended"} BY DEF InFetcherLoop
<1> QED BY <1>1, <1>2, LoopValues, Zenon DEF LoopStep

\* A timer of its loop has run out.
LEMMA FetcherTimerHolds == ASSUME IInv, NEW s \in Sources, FetcherTimer(s) PROVE IInv'
<1>1. /\ InFetcherLoop(s) /\ loop[s].timer # "none" /\ pc' = pc
      /\ UNCHANGED <<window, wakes, posting, awoken, term, exits, flush, state>> /\ UNCHANGED schedVars
  BY DEF FetcherTimer, schedVars
<1>2. ~loop[s].task /\ ~loop[s].suspended /\ (loop[s].timer = "no_data" => FreeToSend(s))
  BY <1>1, LoopValues, Zenon
<1>3. CASE loop' = loop
  <2>1. loop'[s] \in LoopRec /\ loop' = [loop EXCEPT ![s] = loop'[s]]
    BY <1>3, Values DEF SourceTypes
  <2>2. LoopStep(s) BY <1>1, <2>1, InLoopStep, Zenon
  <2> QED BY <1>1, <1>3, <2>2, LoopValues, LoopStepHolds, Zenon
<1>4. CASE loop' # loop
  <2> DEFINE l == [loop[s] EXCEPT !.timer = "none"]
  <2>1. /\ loop'[s] = IF FreeToSend(s) THEN [l EXCEPT !.task = TRUE] ELSE [l EXCEPT !.suspended = TRUE]
        /\ loop' = [loop EXCEPT ![s] = loop'[s]]
    BY <1>2, <1>4, Values DEF FetcherTimer, Loop, SourceTypes
  <2>2. loop'[s] \in LoopRec /\ loop'[s].timer = "none" /\ (loop'[s].task <=> FreeToSend(s))
        /\ (loop'[s].suspended <=> ~FreeToSend(s))
    BY <1>2, <2>1, Values, Zenon DEF LoopRec
  <2> HIDE DEF l
  <2>3. LoopStep(s) BY <1>1, <2>1, <2>2, InLoopStep, Zenon
  <2> QED BY <2>2, <2>3, LoopStepHolds, Zenon
<1> QED BY <1>3, <1>4, Zenon

\* The wakeup event: a fetcher that waits for its window looks at it.
LEMMA WakeupEventHolds == ASSUME IInv, NEW s \in Sources, WakeupEvent(s) PROVE IInv'
<1>1. /\ InFetcherLoop(s) /\ pc' = pc
      /\ UNCHANGED <<window, wakes, posting, awoken, term, exits, flush, state>> /\ UNCHANGED schedVars
  BY DEF WakeupEvent, schedVars
<1>2. /\ loop'[s] = IF loop[s].suspended /\ FreeToSend(s)
                    THEN [loop[s] EXCEPT !.wakeup = FALSE, !.suspended = FALSE, !.task = TRUE]
                    ELSE [loop[s] EXCEPT !.wakeup = FALSE]
      /\ loop' = [loop EXCEPT ![s] = loop'[s]]
  BY Values, Zenon DEF WakeupEvent, Loop, SourceTypes
<1>3. CASE loop[s].suspended /\ FreeToSend(s)
  <2>1. loop[s].timer = "none" BY <1>1, <1>3, LoopValues, Zenon
  <2>2. loop'[s] \in LoopRec /\ loop'[s].task = TRUE /\ loop'[s].timer = "none" /\ loop'[s].suspended = FALSE
    BY <1>2, <1>3, <2>1, Values, ZenonT(30) DEF LoopRec
  <2>3. LoopStep(s) BY <1>1, <1>2, <2>2, InLoopStep, Zenon
  <2> QED BY <1>3, <2>2, <2>3, LoopStepHolds, Zenon
<1>4. CASE ~(loop[s].suspended /\ FreeToSend(s))
  <2>1. /\ loop'[s] \in LoopRec /\ loop'[s].task = loop[s].task /\ loop'[s].timer = loop[s].timer
        /\ loop'[s].suspended = loop[s].suspended
    BY <1>2, <1>4, Values, Zenon DEF LoopRec
  <2>2. LoopStep(s) BY <1>1, <1>2, <2>1, InLoopStep, Zenon
  <2> QED BY <1>1, <1>4, <2>1, <2>2, LoopValues, LoopStepHolds, Zenon
<1> QED BY <1>3, <1>4, Zenon

\* The shutdown event: the loop ends.
LEMMA ShutdownEventHolds == ASSUME IInv, NEW s \in Sources, ShutdownEvent(s) PROVE IInv'
<1>1. /\ InFetcherLoop(s) /\ pc'[s] = "ended" /\ pc' = [pc EXCEPT ![s] = pc'[s]]
      /\ UNCHANGED <<window, wakes, posting, awoken, term, exits, flush, state>> /\ UNCHANGED schedVars
  BY Values, Zenon DEF ShutdownEvent, Goto, SourceTypes, schedVars
<1>2. /\ loop'[s] = NoWatches /\ loop' = [loop EXCEPT ![s] = loop'[s]]
  BY Values, Zenon DEF ShutdownEvent, Loop, SourceTypes
<1>3. loop'[s] \in LoopRec /\ loop'[s].task = FALSE /\ loop'[s].timer = "none"
  BY <1>2 DEF LoopRec, NoWatches
<1>4. LoopStep(s) BY <1>1, <1>2, <1>3, LoopValues, Zenon DEF LoopStep
<1>5. pc'[s] # "loop" /\ "none" # "no_data" BY <1>1
<1> QED BY <1>3, <1>4, <1>5, LoopStepHolds, Zenon

\* A fetch that brings no message.
LEMMA FetchNothingHolds ==
  ASSUME IInv, NEW s \in Sources, NEW result, Fetch(s, result), result # "success"
  PROVE  IInv'
<1>1. /\ InFetcherLoop(s) /\ loop[s].task /\ pc' = pc
      /\ UNCHANGED <<window, wakes, posting, awoken, term, exits, flush, state>> /\ UNCHANGED schedVars
  BY DEF Fetch, schedVars
<1>2. FreeToSend(s) /\ loop[s].timer = "none" /\ ~loop[s].suspended
  BY <1>1, LoopValues, Zenon
<1>3. /\ loop' = [loop EXCEPT ![s] = loop'[s]]
      /\ \/ loop'[s] = loop[s]
         \/ loop'[s] = [loop[s] EXCEPT !.task = FALSE, !.timer = "no_data"]
         \/ loop'[s] = [loop[s] EXCEPT !.task = FALSE, !.timer = "reconnect"]
  BY Values DEF Fetch, Loop, SourceTypes
<1>4. /\ loop'[s] \in LoopRec /\ ~loop'[s].suspended
      /\ (loop'[s].task /\ loop'[s].timer = "none") \/ (loop'[s].timer # "none" /\ ~loop'[s].task)
  BY <1>1, <1>2, <1>3, Values, ZenonT(30) DEF LoopRec
<1>5. LoopStep(s) BY <1>1, <1>3, <1>4, InLoopStep, Zenon
<1> QED BY <1>2, <1>4, <1>5, LoopStepHolds, Zenon

-----------------------------------------------------------------------------
(* The destination and the main thread.                                    *)

\* An acknowledgement that gives room to a full window calls wakeup().
LEMMA AckHolds == ASSUME IInv, NEW s \in Sources, Ack(s) PROVE IInv'
<1>1. SourceTypes' /\ \A r \in Sources : r # s => SameValues(r)
  BY Values DEF Ack, SourceTypes, SameValues
<1>2. /\ UNCHANGED <<pc, posting, awoken, term, loop, exits, flush, state>> /\ UNCHANGED schedVars
  BY DEF Ack, schedVars
<1>3. /\ window[s] > 0 => window'[s] > 0
      /\ window'[s] < 0 => window[s] < 0
      /\ window[s] >= 0 => window'[s] >= 0
      /\ wakes[s] > 0 => wakes'[s] > 0
      /\ window'[s] > 0 => window[s] > 0 \/ wakes'[s] > 0
  BY Values DEF Ack, SourceTypes
<1>4. BatchOK(s)' BY <1>2, <1>3, Values, Zenon DEF BatchOK, Flushing, NotFlushing, FreeToSend, Workers
<1>5. WindowOK(s)' BY <1>2, <1>3, Values, Zenon DEF WindowOK, FreeToSend, Workers
<1>6. WakeupOK(s)' BY <1>2, <1>3, Values, Zenon DEF WakeupOK, FreeToSend, Workers
<1> QED BY <1>1, <1>2, <1>4, <1>5, <1>6, SourceStepHolds, Zenon DEF SourceOK

\* What of a source's values the conditions on its batch and its window depend on.
LEMMA BatchAndWindowKept ==
  ASSUME IInv, NEW s \in Sources, UNCHANGED <<pc, window, flush, state>>, UNCHANGED schedVars,
         term[s] => term'[s],
         loop'[s].task <=> loop[s].task, loop'[s].timer = loop[s].timer,
         loop'[s].suspended <=> loop[s].suspended
  PROVE  BatchOK(s)' /\ WindowOK(s)'
<1>1. BatchOK(s)' BY Values, Zenon DEF BatchOK, Flushing, NotFlushing, FreeToSend, Workers
<1>2. WindowOK(s)' BY Values, Zenon DEF WindowOK, FreeToSend, Workers
<1> QED BY <1>1, <1>2, Zenon

\* A worker is woken up.
LEMMA WakeupHolds == ASSUME IInv, NEW s \in Sources, Wakeup(s) PROVE IInv'
<1>1. SourceTypes' /\ \A r \in Sources : r # s => SameValues(r)
  BY Values DEF Wakeup, SourceTypes, SameValues
<1>2. /\ UNCHANGED <<pc, window, posting, term, loop, exits, flush, state>> /\ UNCHANGED schedVars
      /\ awoken'[s] = TRUE /\ s \notin Fetchers
  BY Values DEF Wakeup, schedVars, SourceTypes, Workers
<1>3. BatchOK(s)' /\ WindowOK(s)' BY <1>2, BatchAndWindowKept, Zenon
<1>4. WakeupOK(s)' BY <1>2, Zenon DEF WakeupOK, Workers
<1> QED BY <1>1, <1>2, <1>3, <1>4, SourceStepHolds, Zenon DEF SourceOK

\* The wakeup of a fetcher goes on as an event, unless the fetcher is asked to exit.
LEMMA FetcherWakeupHolds == ASSUME IInv, NEW s \in Sources, FetcherWakeup(s) PROVE IInv'
<1>1. SourceTypes' /\ \A r \in Sources : r # s => SameValues(r)
  BY Values DEF FetcherWakeup, SourceTypes, SameValues
<1>2. /\ UNCHANGED <<pc, window, awoken, term, loop, exits, flush, state>> /\ UNCHANGED schedVars
      /\ s \notin Workers /\ (term[s] \/ posting'[s] > 0)
  BY Values DEF FetcherWakeup, schedVars, SourceTypes, Workers
<1>3. BatchOK(s)' /\ WindowOK(s)' BY <1>2, BatchAndWindowKept, Zenon
<1>4. WakeupOK(s)' BY <1>2, Values, Zenon DEF WakeupOK, FreeToSend, Workers
<1> QED BY <1>1, <1>2, <1>3, <1>4, SourceStepHolds, Zenon DEF SourceOK

\* The event is posted to a fetcher's loop that has not ended.
LEMMA PostWakeupEventHolds == ASSUME IInv, NEW s \in Sources, PostWakeupEvent(s) PROVE IInv'
<1>1. /\ UNCHANGED <<pc, window, wakes, awoken, term, exits, flush, state>> /\ UNCHANGED schedVars
      /\ posting' \in [Sources -> Nat] /\ \A r \in Sources : r # s => posting'[r] = posting[r]
  BY Values DEF PostWakeupEvent, schedVars, SourceTypes
<1>2. \/ pc[s] = "ended" /\ loop' = loop
      \/ loop' = [loop EXCEPT ![s] = [loop[s] EXCEPT !.wakeup = TRUE]]
  BY DEF PostWakeupEvent, Loop
<1>3. /\ loop' \in [Sources -> LoopRec] /\ \A r \in Sources : r # s => loop'[r] = loop[r]
      /\ loop'[s].task = loop[s].task /\ loop'[s].timer = loop[s].timer
      /\ loop'[s].suspended = loop[s].suspended
      /\ pc[s] = "ended" \/ loop'[s].wakeup = TRUE
  <2>1. CASE pc[s] = "ended" /\ loop' = loop BY <2>1, Values, Zenon DEF SourceTypes
  <2>2. CASE loop' = [loop EXCEPT ![s] = [loop[s] EXCEPT !.wakeup = TRUE]]
    <3>1. /\ loop'[s] = [loop[s] EXCEPT !.wakeup = TRUE] /\ loop' = [loop EXCEPT ![s] = loop'[s]]
      BY <2>2, Values, Zenon DEF SourceTypes
    <3>2. /\ loop'[s] \in LoopRec /\ loop'[s].task = loop[s].task /\ loop'[s].timer = loop[s].timer
          /\ loop'[s].suspended = loop[s].suspended /\ loop'[s].wakeup = TRUE
      BY <3>1, Values, Zenon DEF LoopRec
    <3>3. loop' \in [Sources -> LoopRec] /\ \A r \in Sources : r # s => loop'[r] = loop[r]
      BY <3>1, <3>2, Values DEF SourceTypes
    <3> QED BY <3>2, <3>3, Zenon
  <2> QED BY <1>2, <2>1, <2>2, Zenon
<1>4. SourceTypes' /\ \A r \in Sources : r # s => SameValues(r)
  BY <1>1, <1>3, Values, Zenon DEF SourceTypes, SameValues
<1>5. BatchOK(s)' /\ WindowOK(s)' BY <1>1, <1>3, BatchAndWindowKept, Zenon
<1>6. "ended" \notin {"asleep", "loop", "posted", "schedule"} OBVIOUS
<1>7. WakeupOK(s)' BY <1>1, <1>3, <1>6, Values, Zenon DEF WakeupOK, FreeToSend, Workers
<1> QED BY <1>1, <1>4, <1>5, <1>7, SourceStepHolds, Zenon DEF SourceOK

\* A source is asked to exit while the request to it is on its way.
LEMMA SetTerminationHolds == ASSUME IInv, NEW s \in Sources, SetTermination(s) PROVE IInv'
<1>1. /\ UNCHANGED <<pc, window, wakes, posting, awoken, exits, flush, state>> /\ UNCHANGED schedVars
      /\ s \in exits /\ term'[s] = TRUE /\ term' \in [Sources -> BOOLEAN]
      /\ \A r \in Sources : r # s => term'[r] = term[r]
  BY Values DEF SetTermination, schedVars, SourceTypes
<1> DEFINE b == s \in Fetchers
<1>a. Loop(s, [loop[s] EXCEPT !.shutdown = b]) BY Zenon DEF SetTermination
<1>b. b \in BOOLEAN OBVIOUS
<1> HIDE DEF b
<1>2. loop' = [loop EXCEPT ![s] = [loop[s] EXCEPT !.shutdown = b]] BY <1>a DEF Loop
<1>3. loop'[s] = [loop[s] EXCEPT !.shutdown = b] /\ loop' = [loop EXCEPT ![s] = loop'[s]]
  BY <1>2, Values, Zenon DEF SourceTypes
<1>4. /\ loop'[s] \in LoopRec /\ loop'[s].task = loop[s].task /\ loop'[s].timer = loop[s].timer
      /\ loop'[s].suspended = loop[s].suspended /\ loop'[s].wakeup = loop[s].wakeup
  BY <1>b, <1>3, Values DEF LoopRec
<1>5. loop' \in [Sources -> LoopRec] /\ \A r \in Sources : r # s => loop'[r] = loop[r]
  BY <1>3, <1>4, Values DEF SourceTypes
<1>6. SourceTypes' /\ \A r \in Sources : r # s => SameValues(r)
  BY <1>1, <1>5, Values, Zenon DEF SourceTypes, SameValues
<1>7. BatchOK(s)' /\ WindowOK(s)' BY <1>1, <1>4, BatchAndWindowKept, Zenon
<1>8. WakeupOK(s)' BY <1>1, <1>4, Values, Zenon DEF WakeupOK, FreeToSend, Workers
<1> QED BY <1>1, <1>6, <1>7, <1>8, SourceStepHolds, Zenon DEF SourceOK

\* The request ends with a wakeup.
LEMMA SignalTerminationHolds == ASSUME IInv, NEW s \in Sources, SignalTermination(s) PROVE IInv'
<1>1. /\ UNCHANGED <<pc, window, wakes, posting, term, loop, flush, state>> /\ UNCHANGED schedVars
      /\ awoken'[s] = TRUE /\ awoken' \in [Sources -> BOOLEAN] /\ exits' \subseteq Sources
      /\ \A r \in Sources : r # s => awoken'[r] = awoken[r] /\ (r \in exits => r \in exits')
  BY Values DEF SignalTermination, schedVars, SourceTypes
<1>2. SourceTypes' /\ \A r \in Sources : r # s => SameValues(r)
  BY <1>1, Values, Zenon DEF SourceTypes, SameValues
<1>3. BatchOK(s)' /\ WindowOK(s)' BY <1>1, BatchAndWindowKept, Zenon
<1>4. WakeupOK(s)' BY <1>1, Values, Zenon DEF WakeupOK, FreeToSend, Workers
<1> QED BY <1>1, <1>2, <1>3, <1>4, SourceStepHolds, Zenon DEF SourceOK

\* A step that leaves all sources alone.
LEMMA NoSource ==
  ASSUME IInv, UNCHANGED <<pc, window, wakes, posting, awoken, term, loop, flush, state>>,
         exits \subseteq exits', exits' \subseteq Sources,
         SchedTypes', \A p \in Partitions : JobOK(p)'
  PROVE  IInv'
<1>1. SourceTypes' BY Zenon DEF IInv, SourceTypes
<1>2. ASSUME NEW r \in Sources PROVE SourceOK(r)'
  <2>1. SameSource(r) /\ SourceOK(r) BY Zenon DEF SameSource, IInv, SourceOK
  <2> QED BY <2>1, OtherSource, Zenon
<1> QED BY <1>1, <1>2, Zenon DEF IInv, SourceOK

\* The driver's flag is of no account to the conditions.
LEMMA DriverRequestExitHolds == ASSUME IInv, NEW s \in Sources, DriverRequestExit(s) PROVE IInv'
<1>1. /\ UNCHANGED <<pc, window, wakes, posting, awoken, term, exits, loop>>
      /\ UNCHANGED <<flush, state, part, quit>>
  BY DEF DriverRequestExit, schedVars
<1>2. SchedTypes' BY <1>1, Zenon DEF IInv, SchedTypes
<1>3. \A r \in Sources : \A p \in Partitions : Submits(r, p)' <=> Submits(r, p) BY <1>1, Zenon DEF Submits
<1>4. \A p \in Partitions : JobOK(p)' BY <1>1, <1>3, JobsKept, Zenon
<1>5. exits \subseteq exits' /\ exits' \subseteq Sources BY <1>1, Zenon DEF IInv, SourceTypes
<1> QED BY <1>1, <1>2, <1>4, <1>5, NoSource, Zenon

\* From the request on, jobs are not restarted.
LEMMA RequestExitHolds == ASSUME IInv, RequestExit PROVE IInv'
<1>1. /\ UNCHANGED <<pc, window, wakes, posting, awoken, term, loop, flush, state, part>>
      /\ quit' = TRUE /\ exits' = Sources
  BY DEF RequestExit
<1>2. SchedTypes' BY <1>1, Zenon DEF IInv, SchedTypes
<1>3. ASSUME NEW p \in Partitions PROVE JobOK(p)'
  <2>1. JobOK(p) BY Zenon DEF IInv
  <2> QED BY <1>1, <2>1, Zenon DEF JobOK, Submits
<1>4. exits \subseteq exits' /\ exits' \subseteq Sources BY <1>1, Zenon DEF IInv, SourceTypes
<1> QED BY <1>1, <1>2, <1>3, <1>4, NoSource, Zenon

-----------------------------------------------------------------------------
(* Posting, for both kinds.                                                *)

\* A thread that is not flushing submits nothing.
LEMMA NotSubmitting ==
  ASSUME NEW s, flush[s] = NotFlushing
  PROVE  flush[s].submit = FALSE /\ flush[s].at = NumPartitions
BY DEF NotFlushing

\* A message is pushed to the state of its thread.
LEMMA PushFacts ==
  ASSUME SchedTypes, NEW s \in Sources, NEW m, Push(s, m)
  PROVE  /\ SchedTypes' /\ UNCHANGED <<flush, part, quit>>
         /\ \A r \in Sources : r # s => state'[r] = state[r]
<1> DEFINE i == PartitionIndex(s, m)
           st == i.st
<1>1. st \in {state[s], [state[s] EXCEPT !.countdown = @ - 1],
              [state[s] EXCEPT !.countdown = options.size, !.last = (state[s].last + 1) % NumPartitions]}
  BY DEF PartitionIndex
<1>a. state' = [state EXCEPT ![s] = [st EXCEPT !.num = @ + 1, !.batch[i.p] = Append(@, m)]]
  BY Zenon DEF Push
<1> HIDE DEF i, st
<1>2. DOMAIN st = {"countdown", "last", "num", "batch"} /\ st.num = state[s].num
  BY <1>1, Zenon DEF SchedTypes
<1>3. DOMAIN state = Sources /\ state[s].num \in Nat BY DEF SchedTypes
<1>4. /\ DOMAIN state' = Sources /\ \A r \in Sources : r # s => state'[r] = state[r]
      /\ state'[s] = [st EXCEPT !.num = @ + 1, !.batch[i.p] = Append(@, m)]
  BY <1>a, <1>3
<1>5. DOMAIN state'[s] = {"countdown", "last", "num", "batch"} /\ state'[s].num \in Nat
  BY <1>2, <1>3, <1>4
<1>6. UNCHANGED <<flush, part, quit>> BY DEF Push
<1> QED BY <1>4, <1>5, <1>6, Zenon DEF SchedTypes

\* A source posts when it has room, or when it was let go by the exit.
LEMMA PostHolds ==
  ASSUME IInv, NEW s \in Sources, Post(s), ~Flushing(s),
         s \in Workers => FreeToSend(s) \/ term[s],
         s \in Fetchers => FreeToSend(s),
         loop' \in [Sources -> LoopRec], \A r \in Sources : r # s => loop'[r] = loop[r],
         s \in Fetchers => ~loop'[s].task /\ loop'[s].timer = "none" /\ ~loop'[s].suspended
  PROVE  IInv'
<1>1. SchedTypes' /\ UNCHANGED <<flush, part, quit>> /\ \A r \in Sources : r # s => state'[r] = state[r]
  BY PushFacts, Zenon DEF Post, IInv
<1>2. /\ UNCHANGED <<wakes, posting, awoken, term, exits>> /\ pc'[s] = "posted"
      /\ pc' \in [Sources -> WorkerPcs \cup FetcherPcs] /\ \A r \in Sources : r # s => pc'[r] = pc[r]
  BY Values DEF Post, Goto, SourceTypes, WorkerPcs
<1>3. /\ window' \in [Sources -> Int] /\ window'[s] = window[s] - 1
      /\ \A r \in Sources : r # s => window'[r] = window[r]
  BY Values DEF Post, SourceTypes
<1>4. (window[s] > 0 => window'[s] >= 0) /\ (window[s] > 0 => ~(window'[s] < 0))
  BY <1>3, Values
<1>5. SourceTypes' BY <1>2, <1>3, Values, Zenon DEF SourceTypes
<1>6. \A r \in Sources : r # s => SameSource(r) BY <1>1, <1>2, <1>3, Zenon DEF SameSource
<1>7. "posted" \notin {"start", "run", "suspend", "schedule", "asleep", "loop"}
      /\ "posted" \in WorkerPcs /\ "posted" \in FetcherPcs
  BY DEF WorkerPcs, FetcherPcs
<1>8. BatchOK(s)' BY <1>1, <1>2, <1>7, Values, Zenon DEF BatchOK, Flushing, NotFlushing
<1>9. WindowOK(s)' BY <1>2, <1>4, <1>7, Zenon DEF WindowOK, FreeToSend, Workers
<1>10. WakeupOK(s)' BY <1>2, <1>7, Zenon DEF WakeupOK
<1>11. \A p \in Partitions : JobOK(p)'
  <2>1. \A r \in Sources : \A p \in Partitions : Submits(r, p)' <=> Submits(r, p) BY <1>1, Zenon DEF Submits
  <2> QED BY <1>1, <2>1, JobsKept, Zenon
<1> QED BY <1>1, <1>5, <1>6, <1>8, <1>9, <1>10, <1>11, OneSource, Zenon DEF SourceOK

\* The post of a worker.
LEMMA BlockingPostHolds == ASSUME IInv, NEW s \in Sources, BlockingPost(s) PROVE IInv'
<1>1. Post(s) /\ s \in Workers /\ pc[s] = "run" /\ ~Flushing(s) /\ loop' = loop
  BY Zenon DEF BlockingPost
<1>2. FreeToSend(s) \/ term[s] BY <1>1, Values, Zenon DEF WindowOK
<1>3. loop' \in [Sources -> LoopRec] BY <1>1, Values, Zenon DEF SourceTypes
<1>4. s \notin Fetchers BY <1>1, Zenon DEF Workers
<1> QED BY <1>1, <1>2, <1>3, <1>4, PostHolds, Zenon

\* The post of a fetcher.
LEMMA FetchMessageHolds ==
  ASSUME IInv, NEW s \in Sources, NEW result, Fetch(s, result), result = "success"
  PROVE  IInv'
<1>1. Post(s) /\ InFetcherLoop(s) /\ loop[s].task /\ Loop(s, [loop[s] EXCEPT !.task = FALSE])
  BY Zenon DEF Fetch
<1>2. loop[s].timer = "none" /\ ~loop[s].suspended /\ ~Flushing(s) /\ FreeToSend(s) /\ s \in Fetchers
  BY <1>1, LoopValues, Zenon
<1>3. loop'[s] = [loop[s] EXCEPT !.task = FALSE] /\ loop' = [loop EXCEPT ![s] = loop'[s]]
  BY <1>1, Values, Zenon DEF Loop, SourceTypes
<1>4. /\ loop'[s] \in LoopRec /\ loop'[s].task = FALSE /\ loop'[s].timer = loop[s].timer
      /\ loop'[s].suspended = loop[s].suspended
  BY <1>3, Values, Zenon DEF LoopRec
<1>5. loop' \in [Sources -> LoopRec] /\ \A r \in Sources : r # s => loop'[r] = loop[r]
  BY <1>3, <1>4, Values DEF SourceTypes
<1>6. s \notin Workers BY <1>2, Zenon DEF Workers
<1> QED BY <1>1, <1>2, <1>4, <1>5, <1>6, PostHolds, Zenon

\* Where a flush begins.
LEMMA FlushBegins ==
  ASSUME NEW begin, begin = [NotFlushing EXCEPT !.at = 0]
  PROVE  begin.at = 0 /\ begin.submit = FALSE /\ begin \in [at : 0 .. NumPartitions, submit : BOOLEAN]
<1>1. NumPartitions \in Nat BY SourceConstants
<1>2. NotFlushing \in [at : 0 .. NumPartitions, submit : BOOLEAN] /\ NotFlushing.submit = FALSE
  BY <1>1 DEF NotFlushing
<1> QED BY <1>1, <1>2

\* A batch is closed by a thread that is not flushing: a flush begins when there
\* are messages.
LEMMA CloseBatchFacts ==
  ASSUME IInv, NEW s \in Sources, ~Flushing(s), CloseBatch(s) \/ UNCHANGED flush,
         UNCHANGED <<state, part, quit>>
  PROVE  /\ SchedTypes' /\ \A r \in Sources : r # s => flush'[r] = flush[r] /\ state'[r] = state[r]
         /\ \A p \in Partitions : JobOK(p)'
         /\ flush'[s].submit = FALSE
         /\ CloseBatch(s) => Flushing(s)' \/ state'[s].num = 0
<1>1. /\ flush \in [Sources -> [at : 0 .. NumPartitions, submit : BOOLEAN]]
      /\ flush[s] = NotFlushing /\ flush[s].submit = FALSE
      /\ state[s].num \in Nat /\ NumPartitions \in Nat \ {0}
  BY SourceConstants, NotSubmitting, Zenon DEF IInv, SchedTypes, Flushing
<1>2. CASE UNCHANGED flush /\ ~CloseBatch(s)
  <2>1. SchedTypes' BY <1>2, Zenon DEF SchedTypes, IInv
  <2>2. \A r \in Sources : \A p \in Partitions : Submits(r, p)' <=> Submits(r, p) BY <1>2, Zenon DEF Submits
  <2>3. \A p \in Partitions : JobOK(p)' BY <2>2, JobsKept, Zenon
  <2> QED BY <1>1, <1>2, <2>1, <2>3, Zenon
<1>3. CASE CloseBatch(s)
  <2> DEFINE begin == [NotFlushing EXCEPT !.at = 0]
  <2>a. begin.at = 0 /\ begin.submit = FALSE /\ begin \in [at : 0 .. NumPartitions, submit : BOOLEAN]
    BY FlushBegins, Zenon
  <2>b. flush' = [flush EXCEPT ![s] = IF state[s].num > 0 THEN begin ELSE @]
    BY <1>3, Zenon DEF CloseBatch
  <2> HIDE DEF begin
  <2>1. /\ \A r \in Sources : r # s => flush'[r] = flush[r]
        /\ flush'[s] = IF state[s].num > 0 THEN begin ELSE flush[s]
        /\ flush' = [flush EXCEPT ![s] = flush'[s]]
    BY <1>1, <2>b
  <2>2. flush'[s].submit = FALSE /\ flush'[s] \in [at : 0 .. NumPartitions, submit : BOOLEAN]
    BY <1>1, <2>a, <2>1
  <2>3. flush' \in [Sources -> [at : 0 .. NumPartitions, submit : BOOLEAN]]
    BY <1>1, <2>1, <2>2
  <2>4. SchedTypes' BY <2>3, Zenon DEF SchedTypes, IInv
  <2>5. Flushing(s)' \/ state'[s].num = 0
    <3>1. CASE state[s].num > 0
      <4>1. flush'[s] = begin BY <2>1, <3>1, Zenon
      <4>2. NotFlushing.at = NumPartitions /\ NumPartitions # 0 BY <1>1 DEF NotFlushing
      <4> QED BY <2>a, <4>1, <4>2, Zenon DEF Flushing, NotFlushing
    <3>2. CASE ~(state[s].num > 0) BY <1>1, <3>2
    <3> QED BY <3>1, <3>2, Zenon
  <2>6. \A r \in Sources : \A p \in Partitions : Submits(r, p)' <=> Submits(r, p)
    BY <1>1, <2>1, <2>2, Zenon DEF Submits
  <2>7. \A p \in Partitions : JobOK(p)' BY <2>6, JobsKept, Zenon
  <2> QED BY <2>1, <2>2, <2>4, <2>5, <2>7, Zenon
<1> QED BY <1>2, <1>3, Zenon

\* After the post, a fetcher and a worker with a full window have closed the batch.
LEMMA AfterPostHolds == ASSUME IInv, NEW s \in Sources, AfterPost(s) PROVE IInv'
<1>1. /\ pc[s] = "posted" /\ ~Flushing(s) /\ UNCHANGED <<state, part, quit>>
      /\ CloseBatch(s) \/ UNCHANGED flush
      /\ CloseBatch(s) \/ (FreeToSend(s) /\ s \notin Fetchers)
      /\ UNCHANGED <<window, wakes, posting, awoken, term, exits, loop>>
  BY Zenon DEF AfterPost, AutoClose
<1>2. /\ pc'[s] = (IF s \in Fetchers THEN "schedule" ELSE "suspend")
      /\ pc' \in [Sources -> WorkerPcs \cup FetcherPcs] /\ \A r \in Sources : r # s => pc'[r] = pc[r]
  BY Values DEF AfterPost, Goto, SourceTypes, WorkerPcs, FetcherPcs
<1>3. /\ SchedTypes' /\ \A r \in Sources : r # s => flush'[r] = flush[r] /\ state'[r] = state[r]
      /\ \A p \in Partitions : JobOK(p)'
      /\ flush'[s].submit = FALSE
      /\ CloseBatch(s) => Flushing(s)' \/ state'[s].num = 0
  BY <1>1, CloseBatchFacts, Zenon
<1>4. SourceTypes' BY <1>1, <1>2, Values, Zenon DEF SourceTypes
<1>5. \A r \in Sources : r # s => SameSource(r) BY <1>1, <1>2, <1>3, Zenon DEF SameSource
<1>6. CASE s \in Fetchers
  <2>1. pc'[s] = "schedule" /\ s \notin Workers BY <1>2, <1>6 DEF Workers
  <2>2. "schedule" \notin {"start", "run", "posted", "suspend", "asleep", "loop"} /\ "schedule" \in FetcherPcs
    BY DEF FetcherPcs
  <2>3. BatchOK(s)' BY <1>1, <1>3, <1>6, <2>1, <2>2, Zenon DEF BatchOK
  <2>4. WindowOK(s)' BY <1>1, <1>6, <2>1, <2>2, Values, Zenon DEF WindowOK, FreeToSend
  <2>5. WakeupOK(s)' BY <1>1, <1>6, <2>1, <2>2, Values, Zenon DEF WakeupOK
  <2> QED BY <1>3, <1>4, <1>5, <2>3, <2>4, <2>5, OneSource, Zenon DEF SourceOK
<1>7. CASE s \notin Fetchers
  <2>1. pc'[s] = "suspend" /\ s \in Workers BY <1>2, <1>7 DEF Workers
  <2>2. "suspend" \notin {"start", "run", "posted", "schedule", "asleep", "loop"} /\ "suspend" \in WorkerPcs
    BY DEF WorkerPcs
  <2>3. BatchOK(s)' BY <1>1, <1>3, <1>7, <2>1, <2>2, Zenon DEF BatchOK, FreeToSend, Workers
  <2>4. WindowOK(s)' BY <1>1, <1>7, <2>1, <2>2, Values, Zenon DEF WindowOK, FreeToSend, Workers
  <2>5. WakeupOK(s)' BY <1>7, <2>1, <2>2, Zenon DEF WakeupOK
  <2> QED BY <1>3, <1>4, <1>5, <2>3, <2>4, <2>5, OneSource, Zenon DEF SourceOK
<1> QED BY <1>6, <1>7, Zenon

\* A driver closes the batch.
LEMMA DriverClosesBatchHolds == ASSUME IInv, NEW s \in Sources, DriverClosesBatch(s) PROVE IInv'
<1>1. /\ pc[s] = "run" /\ ~Flushing(s) /\ UNCHANGED <<state, part, quit>> /\ CloseBatch(s)
      /\ UNCHANGED <<pc, window, wakes, posting, awoken, term, exits, loop>>
  BY DEF DriverClosesBatch, srcVars
<1>2. /\ SchedTypes' /\ \A r \in Sources : r # s => flush'[r] = flush[r] /\ state'[r] = state[r]
      /\ \A p \in Partitions : JobOK(p)'
      /\ flush'[s].submit = FALSE
  BY <1>1, CloseBatchFacts, Zenon
<1>3. SourceTypes' BY <1>1, Values, Zenon DEF SourceTypes
<1>4. \A r \in Sources : r # s => SameSource(r) BY <1>1, <1>2, Zenon DEF SameSource
<1>5. "run" \notin {"start", "posted", "suspend", "schedule", "asleep", "loop"} OBVIOUS
<1>6. BatchOK(s)' BY <1>1, <1>2, <1>5, Zenon DEF BatchOK
<1>7. WindowOK(s)' BY <1>1, Values, Zenon DEF WindowOK, FreeToSend
<1>8. WakeupOK(s)' BY <1>1, <1>5, Zenon DEF WakeupOK
<1> QED BY <1>2, <1>3, <1>4, <1>6, <1>7, <1>8, OneSource, Zenon DEF SourceOK

-----------------------------------------------------------------------------
(* The scheduler.                                                          *)

\* A step on one partition: the others keep what holds of them.
LEMMA OnePartition ==
  ASSUME IInv, NEW p \in Partitions, JobOK(p)', quit' = quit,
         \A q \in Partitions : q # p =>
            part'[q] = part[q] /\ \A s \in Sources : Submits(s, q)' <=> Submits(s, q)
  PROVE  \A q \in Partitions : JobOK(q)'
<1> SUFFICES ASSUME NEW q \in Partitions, q # p PROVE JobOK(q)'
  BY Zenon
<1>1. JobOK(q) BY Zenon DEF IInv
<1>2. part'[q] = part[q] /\ \A s \in Sources : Submits(s, q)' <=> Submits(s, q) OBVIOUS
<1> HIDE DEF Submits
<1> QED BY <1>1, <1>2, Zenon DEF JobOK

\* The types and conditions of one partition.
LEMMA PartValues ==
  ASSUME IInv, NEW p \in Partitions
  PROVE  /\ DOMAIN part = Partitions /\ JobOK(p) /\ part[p].running \in BOOLEAN
         /\ DOMAIN part[p] = {"batches", "running", "job", "taken"}
         /\ part[p].job \in {"idle", "working", "done"}
BY DEF IInv, SchedTypes

\* A partition is replaced.
LEMMA PartReplaced ==
  ASSUME IInv, NEW p \in Partitions, NEW x, part' = [part EXCEPT ![p] = x],
         DOMAIN x = {"batches", "running", "job", "taken"}, x.running \in BOOLEAN,
         x.job \in {"idle", "working", "done"}, UNCHANGED <<flush, state>>
  PROVE  SchedTypes' /\ part'[p] = x /\ \A q \in Partitions : q # p => part'[q] = part[q]
<1>1. DOMAIN part' = Partitions /\ part'[p] = x /\ \A q \in Partitions : q # p => part'[q] = part[q]
  BY PartValues
<1>2. SchedTypes BY Zenon DEF IInv
<1> QED BY <1>1, <1>2 DEF SchedTypes

\* The job takes the batches that are there, or is done.
LEMMA TakeBatchesHolds ==
  ASSUME IInv, NEW p \in Partitions, TakeBatches(p), UNCHANGED srcVars
  PROVE  IInv'
<1>1. /\ UNCHANGED <<pc, window, wakes, posting, awoken, term, exits, loop>>
      /\ UNCHANGED <<flush, state, quit>> /\ part[p].job = "working"
  BY DEF TakeBatches, srcVars
<1> DEFINE x == IF part[p].batches = <<>> THEN [part[p] EXCEPT !.job = "done"]
                ELSE [part[p] EXCEPT !.batches = <<>>, !.taken = part[p].batches]
<1>2. part' = [part EXCEPT ![p] = x] BY Zenon DEF TakeBatches
<1>3. /\ DOMAIN x = {"batches", "running", "job", "taken"} /\ x.running = part[p].running
      /\ x.job \in {"working", "done"} /\ x.batches = <<>>
  BY <1>1, PartValues
<1> HIDE DEF x
<1>4. SchedTypes' /\ part'[p] = x /\ \A q \in Partitions : q # p => part'[q] = part[q]
  <2>1. x.running \in BOOLEAN /\ x.job \in {"idle", "working", "done"} BY <1>3, PartValues
  <2> QED BY <1>1, <1>2, <1>3, <2>1, PartReplaced, Zenon
<1>5. \A s \in Sources : \A q \in Partitions : Submits(s, q)' <=> Submits(s, q) BY <1>1, Zenon DEF Submits
<1>6. "working" # "idle" /\ x.job # "idle" BY <1>3
<1>7. JobOK(p)'
  <2>1. part[p].running /\ \A s \in Sources : ~Submits(s, p) BY <1>1, <1>6, PartValues, Zenon DEF JobOK
  <2> QED BY <1>3, <1>4, <1>5, <1>6, <2>1, Zenon DEF JobOK
<1>8. \A q \in Partitions : JobOK(q)' BY <1>1, <1>4, <1>5, <1>7, OnePartition, Zenon
<1>9. exits \subseteq exits' /\ exits' \subseteq Sources BY <1>1, Zenon DEF IInv, SourceTypes
<1> QED BY <1>1, <1>4, <1>8, <1>9, NoSource, Zenon

\* The job injects a message.
LEMMA InjectMsgHolds == ASSUME IInv, NEW p \in Partitions, InjectMsg(p) PROVE IInv'
<1>1. /\ UNCHANGED <<pc, window, wakes, posting, awoken, term, exits, loop>>
      /\ UNCHANGED <<flush, state, quit>>
  BY SMT, SMTT(30) DEF InjectMsg, Reinject
<1> DEFINE x == [part[p] EXCEPT !.taken = WithoutFirst(part[p].taken)]
<1>2. part' = [part EXCEPT ![p] = x] BY PartValues DEF InjectMsg, Reinject
<1>3. /\ DOMAIN x = {"batches", "running", "job", "taken"} /\ x.running = part[p].running
      /\ x.job = part[p].job /\ x.batches = part[p].batches
  BY PartValues
<1> HIDE DEF x
<1>4. SchedTypes' /\ part'[p] = x /\ \A q \in Partitions : q # p => part'[q] = part[q]
  <2>1. x.running \in BOOLEAN /\ x.job \in {"idle", "working", "done"} BY <1>3, PartValues, Zenon
  <2> QED BY <1>1, <1>2, <1>3, <2>1, PartReplaced, Zenon
<1>5. \A s \in Sources : \A q \in Partitions : Submits(s, q)' <=> Submits(s, q) BY <1>1, Zenon DEF Submits
<1>6. JobOK(p)'
  <2> HIDE DEF Submits
  <2> QED BY <1>1, <1>3, <1>4, <1>5, PartValues, Zenon DEF JobOK
<1>7. \A q \in Partitions : JobOK(q)' BY <1>1, <1>4, <1>5, <1>6, OnePartition, Zenon
<1>8. exits \subseteq exits' /\ exits' \subseteq Sources BY <1>1, Zenon DEF IInv, SourceTypes
<1> QED BY <1>1, <1>4, <1>7, <1>8, NoSource, ZenonT(30)

\* The job has ended: it is submitted again for what came since, unless the
\* workers quit.
LEMMA CompleteHolds ==
  ASSUME IInv, NEW p \in Partitions, Complete(p), UNCHANGED srcVars
  PROVE  IInv'
<1>1. /\ UNCHANGED <<pc, window, wakes, posting, awoken, term, exits, loop>>
      /\ UNCHANGED <<flush, state, quit>> /\ part[p].job = "done"
  BY DEF Complete, srcVars
<1> DEFINE more == part[p].batches # <<>>
           x == [part[p] EXCEPT !.running = more, !.job = IF more /\ ~quit THEN "working" ELSE "idle"]
<1>2. part' = [part EXCEPT ![p] = x] BY PartValues DEF Complete
<1>3. /\ DOMAIN x = {"batches", "running", "job", "taken"} /\ x.batches = part[p].batches
      /\ x.running = more /\ x.job = (IF more /\ ~quit THEN "working" ELSE "idle")
  BY PartValues
<1>a. more \in BOOLEAN OBVIOUS
<1> HIDE DEF more, x
<1>4. SchedTypes' /\ part'[p] = x /\ \A q \in Partitions : q # p => part'[q] = part[q]
  <2>1. x.running \in BOOLEAN /\ x.job \in {"idle", "working", "done"} BY <1>3, <1>a
  <2> QED BY <1>1, <1>2, <1>3, <2>1, PartReplaced, Zenon
<1>5. \A s \in Sources : \A q \in Partitions : Submits(s, q)' <=> Submits(s, q) BY <1>1, Zenon DEF Submits
<1>6. "working" # "idle" /\ "done" # "idle" OBVIOUS
<1>7. JobOK(p)'
  <2>1. \A s \in Sources : ~Submits(s, p) BY <1>1, <1>6, PartValues, Zenon DEF JobOK
  <2> HIDE DEF Submits
  <2> QED BY <1>1, <1>3, <1>4, <1>5, <1>6, <2>1, Zenon DEF JobOK, more
<1>8. \A q \in Partitions : JobOK(q)' BY <1>1, <1>4, <1>5, <1>7, OnePartition, Zenon
<1>9. exits \subseteq exits' /\ exits' \subseteq Sources BY <1>1, Zenon DEF IInv, SourceTypes
<1> QED BY <1>1, <1>4, <1>8, <1>9, NoSource, Zenon

\* Where a flush can be.
FlushRec == [at : 0 .. NumPartitions, submit : BOOLEAN]

\* What a round of a flush keeps; the batch is empty when the flush ends.
LEMMA FlushRound ==
  ASSUME IInv, NEW s \in Sources, UNCHANGED srcVars, UNCHANGED quit, Flushing(s),
         flush'[s] \in FlushRec, flush' = [flush EXCEPT ![s] = flush'[s]],
         flush'[s].submit => flush'[s].at < NumPartitions,
         DOMAIN state' = Sources, \A r \in Sources : r # s => state'[r] = state[r],
         DOMAIN state'[s] = {"countdown", "last", "num", "batch"},
         state'[s].num = IF flush'[s] = NotFlushing THEN 0 ELSE state[s].num,
         DOMAIN part' = Partitions,
         \A q \in Partitions : /\ DOMAIN part'[q] = {"batches", "running", "job", "taken"}
                               /\ part'[q].running \in BOOLEAN
                               /\ part'[q].job \in {"idle", "working", "done"},
         \A q \in Partitions : JobOK(q)'
  PROVE  IInv'
<1>1. UNCHANGED <<pc, window, wakes, posting, awoken, term, exits, loop>> BY DEF srcVars
<1>2. SourceTypes' BY <1>1, Zenon DEF IInv, SourceTypes
<1>3. flush \in [Sources -> FlushRec] /\ state[s].num \in Nat BY DEF IInv, SchedTypes, FlushRec
<1>4. flush' \in [Sources -> FlushRec] /\ \A r \in Sources : r # s => flush'[r] = flush[r]
  BY <1>3
<1>5. state'[s].num \in Nat BY <1>3, SMT, SMTT(30)
<1>6. SchedTypes' BY <1>4, <1>5 DEF IInv, SchedTypes, FlushRec
<1>7. \A r \in Sources : r # s => SameSource(r) BY <1>1, <1>4, Zenon DEF SameSource
<1>8. pc[s] \in {"run", "suspend", "schedule"} BY Values, Zenon DEF BatchOK
<1>9. pc[s] \notin {"start", "posted", "asleep", "loop"} BY <1>8
<1>10. BatchOK(s)' BY <1>1, <1>8, <1>9, Zenon DEF BatchOK, Flushing
<1>11. WindowOK(s)' BY <1>1, Values, Zenon DEF WindowOK, FreeToSend
<1>12. WakeupOK(s)' BY <1>1, Values, Zenon DEF WakeupOK, FreeToSend
<1> QED BY <1>2, <1>6, <1>7, <1>10, <1>11, <1>12, OneSource, Zenon DEF SourceOK

\* The job of a partition is submitted by the one thread that found it idle.
LEMMA SubmitContinuationHolds ==
  ASSUME IInv, NEW s \in Sources, SubmitContinuation(s), UNCHANGED srcVars
  PROVE  IInv'
<1>1. flush \in [Sources -> FlushRec] /\ flush[s].submit /\ flush[s].at < NumPartitions
      /\ NumPartitions \in Nat /\ state[s].num \in Nat
      /\ DOMAIN state = Sources /\ DOMAIN state[s] = {"countdown", "last", "num", "batch"}
  BY Values, SourceConstants DEF SubmitContinuation, IInv, SchedTypes, FlushRec, BatchOK
<1>2. PICK p \in Partitions : p = flush[s].at /\ p + 1 \in 0 .. NumPartitions
  BY <1>1 DEF Partitions, FlushRec
<1>3. Flushing(s) BY <1>1, NotSubmitting, Zenon DEF Flushing
<1>4. /\ part' = [part EXCEPT ![p].job = "working"]
      /\ flush' = [flush EXCEPT ![s] = [at |-> p + 1, submit |-> FALSE]] /\ quit' = quit
      /\ state' = [state EXCEPT ![s].num = IF flush'[s] = NotFlushing THEN 0 ELSE @]
  BY <1>2 DEF SubmitContinuation
<1>5. /\ flush'[s] = [at |-> p + 1, submit |-> FALSE] /\ flush' = [flush EXCEPT ![s] = flush'[s]]
      /\ \A r \in Sources : r # s => flush'[r] = flush[r]
  BY <1>1, <1>4
<1>6. flush'[s] \in FlushRec /\ flush'[s].submit = FALSE BY <1>2, <1>5 DEF FlushRec
<1>7. /\ DOMAIN state' = Sources /\ \A r \in Sources : r # s => state'[r] = state[r]
      /\ DOMAIN state'[s] = {"countdown", "last", "num", "batch"}
      /\ state'[s].num = IF flush'[s] = NotFlushing THEN 0 ELSE state[s].num
  BY <1>1, <1>4
<1>8. /\ DOMAIN part' = Partitions /\ \A q \in Partitions : q # p => part'[q] = part[q]
      /\ DOMAIN part'[p] = {"batches", "running", "job", "taken"}
      /\ part'[p].running = part[p].running /\ part'[p].batches = part[p].batches
      /\ part'[p].job = "working"
  BY <1>2, <1>4, PartValues
<1>9. Submits(s, p) BY <1>1, <1>2, Zenon DEF Submits
<1>10. \A r \in Sources : \A q \in Partitions : Submits(r, q)' <=> Submits(r, q) /\ r # s
  BY <1>5, <1>6, Zenon DEF Submits
<1>11. JobOK(p)'
  <2>1. JobOK(p) /\ part[p].running BY <1>2, <1>9, PartValues, Zenon DEF JobOK
  <2>2. \A r \in Sources : ~Submits(r, p)' BY <1>2, <1>9, <1>10, <2>1, Zenon DEF JobOK
  <2>3. part'[p].job # "idle" BY <1>8
  <2> HIDE DEF Submits
  <2> QED BY <1>8, <2>1, <2>2, <2>3, Zenon DEF JobOK
<1>12. \A r \in Sources : \A q \in Partitions : q # p => (Submits(r, q)' <=> Submits(r, q))
  BY <1>2, <1>10, Zenon DEF Submits
<1>13. \A q \in Partitions : JobOK(q)' BY <1>2, <1>4, <1>8, <1>11, <1>12, OnePartition, ZenonT(30), SMTT(30)
<1>14. \A q \in Partitions : /\ DOMAIN part'[q] = {"batches", "running", "job", "taken"}
                             /\ part'[q].running \in BOOLEAN
                             /\ part'[q].job \in {"idle", "working", "done"}
  BY <1>8, PartValues
<1> QED BY <1>3, <1>4, <1>5, <1>6, <1>7, <1>8, <1>13, <1>14, FlushRound, Zenon

\* A batch is added; the thread that adds to an idle partition will submit its job.
LEMMA AddBatchHolds ==
  ASSUME IInv, NEW s \in Sources, AddBatch(s), UNCHANGED srcVars
  PROVE  IInv'
<1>1. flush \in [Sources -> FlushRec] /\ flush[s].submit = FALSE /\ flush[s].at < NumPartitions
      /\ NumPartitions \in Nat /\ state[s].num \in Nat
      /\ DOMAIN state = Sources /\ DOMAIN state[s] = {"countdown", "last", "num", "batch"}
  BY SourceConstants, Zenon DEF AddBatch, IInv, SchedTypes, FlushRec
<1>2. PICK p \in Partitions : p = flush[s].at /\ p + 1 \in 0 .. NumPartitions
  BY <1>1 DEF Partitions, FlushRec
<1>3. Flushing(s)
  <2>1. flush[s].at # NumPartitions BY <1>1 DEF FlushRec
  <2> QED BY <2>1, NotSubmitting, Zenon DEF Flushing
<1> DEFINE trigger == ~part[p].running /\ part[p].batches = <<>>
           next == [flush[s] EXCEPT !.at = p + 1]
           submit == [flush[s] EXCEPT !.submit = TRUE]
<1>a. next \in FlushRec /\ next.submit = FALSE BY <1>1, <1>2 DEF FlushRec
<1>b. submit \in FlushRec /\ submit.submit = TRUE /\ submit.at = p BY <1>1, <1>2, Zenon DEF FlushRec
<1>4. /\ state' = [state EXCEPT ![s].batch[p] = <<>>, ![s].num = IF flush'[s] = NotFlushing THEN 0 ELSE @]
      /\ quit' = quit
  BY <1>2, Zenon DEF AddBatch
<1>5. /\ DOMAIN state' = Sources /\ \A r \in Sources : r # s => state'[r] = state[r]
      /\ DOMAIN state'[s] = {"countdown", "last", "num", "batch"}
      /\ state'[s].num = IF flush'[s] = NotFlushing THEN 0 ELSE state[s].num
  BY <1>1, <1>4
<1>6. CASE state[s].batch[p] = <<>>
  <2>1. flush' = [flush EXCEPT ![s] = next] /\ part' = part
    BY <1>2, <1>6 DEF AddBatch
  <2> HIDE DEF next
  <2>2. flush'[s] = next /\ flush' = [flush EXCEPT ![s] = flush'[s]] /\ \A r \in Sources : r # s => flush'[r] = flush[r]
    BY <1>1, <2>1
  <2>3. \A r \in Sources : \A q \in Partitions : Submits(r, q)' <=> Submits(r, q)
    BY <1>1, <1>a, <2>2, Zenon DEF Submits
  <2>4. \A q \in Partitions : JobOK(q)' BY <1>4, <2>1, <2>3, JobsKept, Zenon
  <2>5. /\ DOMAIN part' = Partitions
        /\ \A q \in Partitions : /\ DOMAIN part'[q] = {"batches", "running", "job", "taken"}
                                 /\ part'[q].running \in BOOLEAN
                                 /\ part'[q].job \in {"idle", "working", "done"}
    BY <1>2, <2>1, PartValues, Zenon
  <2> QED BY <1>3, <1>4, <1>5, <1>a, <2>2, <2>4, <2>5, FlushRound, Zenon
<1>7. CASE state[s].batch[p] # <<>>
  <2>1. /\ part' = [part EXCEPT ![p].batches = Append(@, state[s].batch[p]), ![p].running = @ \/ trigger]
        /\ flush' = [flush EXCEPT ![s] = IF trigger THEN submit ELSE next]
    BY <1>2, <1>7, ZenonT(30) DEF AddBatch
  <2>2. /\ DOMAIN part' = Partitions /\ \A q \in Partitions : q # p => part'[q] = part[q]
        /\ DOMAIN part'[p] = {"batches", "running", "job", "taken"}
        /\ part'[p].running = (part[p].running \/ trigger) /\ part'[p].job = part[p].job
    BY <1>2, <2>1, PartValues, ZenonT(30)
  <2>3. \A q \in Partitions : /\ DOMAIN part'[q] = {"batches", "running", "job", "taken"}
                              /\ part'[q].running \in BOOLEAN
                              /\ part'[q].job \in {"idle", "working", "done"}
    BY <2>2, PartValues, Zenon
  <2>4. /\ flush'[s] = IF trigger THEN submit ELSE next
        /\ flush' = [flush EXCEPT ![s] = flush'[s]] /\ \A r \in Sources : r # s => flush'[r] = flush[r]
    BY <1>1, <2>1
  <2> HIDE DEF next, submit
  <2>5. JobOK(p) BY PartValues, Zenon
  <2>6. part'[p].running BY <2>2, <2>5, Zenon DEF JobOK
  <2>7. CASE trigger
    <3>1. flush'[s] = submit BY <2>4, <2>7, Zenon
    <3>2. /\ \A q \in Partitions : Submits(s, q)' <=> q = p
          /\ \A r \in Sources : \A q \in Partitions : r # s => (Submits(r, q)' <=> Submits(r, q))
      BY <1>b, <2>4, <3>1, Zenon DEF Submits
    <3>3. part[p].job = "idle" /\ \A r \in Sources : ~Submits(r, p) BY <2>5, <2>7, Zenon DEF JobOK
    <3>4. JobOK(p)' BY <2>2, <2>6, <3>2, <3>3, Zenon DEF JobOK
    <3>5. \A r \in Sources : \A q \in Partitions : q # p => (Submits(r, q)' <=> Submits(r, q))
      <4>1. \A q \in Partitions : ~Submits(s, q) BY <1>1, Zenon DEF Submits
      <4> HIDE DEF Submits
      <4> QED BY <3>2, <4>1, Zenon
    <3>6. \A q \in Partitions : JobOK(q)' BY <1>4, <2>2, <3>4, <3>5, OnePartition, Zenon
    <3>7. flush'[s] \in FlushRec /\ flush'[s].at < NumPartitions BY <1>1, <1>2, <1>b, <3>1
    <3> QED BY <1>3, <1>4, <1>5, <2>2, <2>3, <2>4, <3>6, <3>7, FlushRound, Zenon
  <2>8. CASE ~trigger
    <3>1. flush'[s] = next BY <2>4, <2>8, Zenon
    <3>2. \A r \in Sources : \A q \in Partitions : Submits(r, q)' <=> Submits(r, q)
      BY <1>1, <1>a, <2>4, <3>1, Zenon DEF Submits
    <3>3. part[p].running BY <2>5, <2>8, Zenon DEF JobOK
    <3>4. JobOK(p)'
      <4> HIDE DEF Submits, trigger
      <4> QED BY <1>4, <2>2, <2>5, <2>6, <3>2, <3>3, Zenon DEF JobOK
    <3>5. \A q \in Partitions : JobOK(q)' BY <1>4, <2>2, <3>2, <3>4, OnePartition, Zenon
    <3> QED BY <1>3, <1>4, <1>5, <1>a, <2>2, <2>3, <2>4, <3>1, <3>5, FlushRound, Zenon
  <2> QED BY <2>7, <2>8, Zenon
<1> QED BY <1>6, <1>7, Zenon

-----------------------------------------------------------------------------
(* The theorems.                                                           *)

\* A step that changes nothing.
LEMMA StutterHolds == ASSUME IInv, UNCHANGED vars PROVE IInv'
<1>1. /\ UNCHANGED <<pc, window, wakes, posting, awoken, term, exits, loop>>
      /\ UNCHANGED <<flush, state, part, quit>>
  BY DEF vars, srcVars, schedVars
<1>2. SchedTypes' BY <1>1, Zenon DEF IInv, SchedTypes
<1>3. \A r \in Sources : \A p \in Partitions : Submits(r, p)' <=> Submits(r, p) BY <1>1, Zenon DEF Submits
<1>4. \A p \in Partitions : JobOK(p)' BY <1>1, <1>3, JobsKept, Zenon
<1>5. exits \subseteq exits' /\ exits' \subseteq Sources BY <1>1, Zenon DEF IInv, SourceTypes
<1> QED BY <1>1, <1>2, <1>4, <1>5, NoSource, Zenon

\* The invariant holds initially.
LEMMA InitHolds == ASSUME Init PROVE IInv
<1>1. NumPartitions \in Nat \ {0} /\ Window \in Nat \ {0} BY SourceConstants
<1>2. SourceTypes BY <1>1 DEF Init, SourceTypes, WorkerPcs, FetcherPcs, LoopRec, NoWatches
<1>3. SchedTypes
  <2>1. NotFlushing \in [at : 0 .. NumPartitions, submit : BOOLEAN] BY <1>1 DEF NotFlushing
  <2>2. flush \in [Sources -> [at : 0 .. NumPartitions, submit : BOOLEAN]]
    BY <2>1 DEF Init, SchedInit
  <2>3. \A s \in Sources : DOMAIN NewState(s) = {"countdown", "last", "num", "batch"} /\ NewState(s).num = 0
    BY DEF NewState
  <2>4. state = [s \in Sources |-> NewState(s)] BY Zenon DEF Init, SchedInit
  <2>5. /\ DOMAIN state = Sources
        /\ \A s \in Sources : /\ DOMAIN state[s] = {"countdown", "last", "num", "batch"}
                              /\ state[s].num \in Nat
    BY <2>3, <2>4
  <2>6. /\ DOMAIN part = Partitions
        /\ \A p \in Partitions : /\ DOMAIN part[p] = {"batches", "running", "job", "taken"}
                                 /\ part[p].running \in BOOLEAN
                                 /\ part[p].job \in {"idle", "working", "done"}
    BY Zenon DEF Init, SchedInit
  <2> QED BY <2>2, <2>5, <2>6, Zenon DEF SchedTypes
<1>4. ASSUME NEW p \in Partitions PROVE JobOK(p)
  <2>1. part[p].batches = <<>> /\ part[p].running = FALSE /\ part[p].job = "idle"
    BY DEF Init, SchedInit
  <2>2. \A s \in Sources : ~Submits(s, p) BY DEF Init, SchedInit, Submits, NotFlushing
  <2> QED BY <2>1, <2>2, Zenon DEF JobOK
<1>5. ASSUME NEW s \in Sources PROVE BatchOK(s) /\ WindowOK(s) /\ WakeupOK(s)
  <2>1. pc[s] = "start" /\ window[s] = Window /\ flush[s] = NotFlushing /\ state[s].num = 0
    BY DEF Init, SchedInit, NewState
  <2>2. loop[s].task = FALSE /\ loop[s].timer = "none" /\ loop[s].suspended = FALSE
    BY DEF Init, NoWatches
  <2>3. flush[s].submit = FALSE BY <2>1, NotSubmitting, Zenon
  <2>4. FreeToSend(s) /\ window[s] >= 0 /\ ~(window[s] < 0) BY <1>1, <2>1 DEF FreeToSend
  <2>5. "start" \notin {"run", "posted", "suspend", "schedule", "asleep", "loop"}
        /\ "start" \in WorkerPcs /\ "start" \in FetcherPcs
    BY DEF WorkerPcs, FetcherPcs
  <2>6. BatchOK(s) BY <2>1, <2>3, <2>5, Zenon DEF BatchOK, Flushing
  <2>7. WindowOK(s) BY <2>1, <2>2, <2>4, <2>5, Zenon DEF WindowOK
  <2>8. WakeupOK(s) BY <2>1, <2>5, Zenon DEF WakeupOK
  <2> QED BY <2>6, <2>7, <2>8, Zenon
<1> QED BY <1>2, <1>3, <1>4, <1>5, Zenon DEF IInv

\* Every step keeps the invariant.
LEMMA NextHolds == ASSUME IInv, [Next]_vars PROVE IInv'
<1>1. ASSUME NEW s \in Sources, SourceStep(s) PROVE IInv'
  <2>1. CASE Flush(s)
    BY <2>1, AddBatchHolds, SubmitContinuationHolds, Zenon DEF Flush
  <2> QED BY <1>1, <2>1, AfterPostHolds, WorkerStartHolds, SuspendHolds, DriverClosesBatchHolds,
             RunReturnsHolds, FetcherRunHolds, FetchScheduledHolds, Zenon DEF SourceStep
<1>2. ASSUME NEW s \in Sources, FetcherEvents(s) PROVE IInv'
  BY <1>2, FetcherTimerHolds, WakeupEventHolds, FetchMessageHolds, FetchNothingHolds, Zenon
     DEF FetcherEvents
<1>3. ASSUME NEW s \in Sources, AckStep(s) PROVE IInv'
  BY <1>3, AckHolds, WakeupHolds, FetcherWakeupHolds, PostWakeupEventHolds, Zenon DEF AckStep
<1>4. ASSUME NEW s \in Sources, ExitStep(s) PROVE IInv'
  BY <1>4, SetTerminationHolds, DriverRequestExitHolds, SignalTerminationHolds, Zenon DEF ExitStep
<1>5. ASSUME NEW p \in Partitions, JobStep(p) \/ CompleteStep(p) PROVE IInv'
  BY <1>5, TakeBatchesHolds, InjectMsgHolds, CompleteHolds, Zenon DEF JobStep, CompleteStep
<1>6. CASE Step
  BY <1>1, <1>2, <1>3, <1>4, <1>5, <1>6, BlockingPostHolds, ShutdownEventHolds, RequestExitHolds, Zenon
     DEF Step
<1> QED BY <1>6, StutterHolds, Zenon DEF Next

\* The invariant holds in every reachable state.
THEOREM Invariance == Spec => []IInv
<1>1. Init => IInv BY InitHolds, Zenon
<1>2. IInv /\ [Next]_vars => IInv' BY NextHolds, Zenon
<1> QED BY <1>1, <1>2, PTL DEF Spec

\* A batch that log_scheduler_push() left in a partition has a job that takes it
\* or a thread about to submit one, unless the workers quit; the assertions on
\* io_job.working hold: one thread submits a job, and only one that does not run.
THEOREM NoStrandedBatchHolds == Spec => []NoStrandedBatch
<1>1. ASSUME IInv PROVE NoStrandedBatch
  <2> SUFFICES ASSUME NEW p \in Partitions
               PROVE  LET submitters == {s \in Sources : flush[s].submit /\ flush[s].at = p} IN
                      /\ part[p].batches # <<>> => part[p].job # "idle" \/ submitters # {} \/ quit
                      /\ submitters # {} => part[p].job = "idle"
                      /\ \A r, s \in submitters : r = s
    BY Zenon DEF NoStrandedBatch
  <2>1. JobOK(p) BY <1>1, PartValues, Zenon
  <2> QED BY <2>1, Zenon DEF JobOK, Submits
<1> QED BY <1>1, Invariance, PTL

\* No source sleeps with room in its window, or after it was asked to exit, unless
\* its wakeup is on the way; what it waits for is not in its own batch.
THEOREM NoLostWakeupHolds == Spec => []NoLostWakeup
<1>1. ASSUME IInv PROVE NoLostWakeup
  <2>1. ASSUME NEW s \in Sources
        PROVE  /\ BatchOK(s) /\ WakeupOK(s) /\ WindowOK(s)
               /\ wakes[s] > 0 \/ posting[s] > 0 => wakes[s] + posting[s] > 0
    BY <1>1, Values
  <2>2. Workers \subseteq Sources /\ Fetchers \subseteq Sources /\ Sources = Workers \cup Fetchers
        /\ Workers \cap Fetchers = {}
    BY SourceConstants DEF Workers
  <2>3. "loop" \notin WorkerPcs BY DEF WorkerPcs
  <2>4. ASSUME NEW s \in Workers, pc[s] = "asleep", ~awoken[s]
        PROVE  (FreeToSend(s) => wakes[s] > 0 \/ s \in exits) /\ (term[s] => s \in exits)
    BY <2>1, <2>2, <2>4, Zenon DEF WakeupOK
  <2>5. ASSUME NEW s \in Fetchers, pc[s] = "loop"
        PROVE  \/ loop[s].task /\ loop[s].timer = "none" /\ ~loop[s].suspended
               \/ loop[s].timer # "none" /\ ~loop[s].task /\ ~loop[s].suspended
               \/ /\ loop[s].suspended /\ ~loop[s].task /\ loop[s].timer = "none"
                  /\ FreeToSend(s) => wakes[s] + posting[s] > 0 \/ loop[s].wakeup \/ term[s]
    BY <2>1, <2>2, <2>5, Zenon DEF WakeupOK
  <2>6. ASSUME NEW s \in Sources, pc[s] = "asleep" \/ (pc[s] = "loop" /\ loop[s].suspended)
        PROVE  state[s].num = 0
    BY <2>1, <2>2, <2>3, <2>6, Zenon DEF BatchOK, WindowOK
  <2> QED BY <2>4, <2>5, <2>6, Zenon DEF NoLostWakeup
<1> QED BY <1>1, Invariance, PTL

\* log_source_post() finds a full window only in a worker that was let go by the
\* exit: its assertion on the window holds otherwise.
THEOREM OverrunOnlyAtExitHolds == Spec => []OverrunOnlyAtExit
<1>1. ASSUME IInv PROVE OverrunOnlyAtExit
  <2> SUFFICES ASSUME NEW s \in Sources, window[s] < 0 PROVE s \in Workers /\ term[s]
    BY Zenon DEF OverrunOnlyAtExit
  <2>1. window[s] \in Int /\ WindowOK(s) BY <1>1, Values, Zenon
  <2>2. ~(window[s] >= 0) BY <2>1
  <2>3. s \notin Fetchers BY <2>1, <2>2, Zenon DEF WindowOK
  <2> QED BY <2>1, <2>3, Zenon DEF WindowOK, Workers
<1> QED BY <1>1, Invariance, PTL

-----------------------------------------------------------------------------
(* The messages: lists of messages and lists of such lists.                *)

Message == Sources \X Nat

\* The numbers of the messages of s in a list, and in a list of lists.
InList(s, b) == {n \in Nat : \E j \in DOMAIN b : b[j][1] = s /\ b[j][2] = n}
InLists(s, q) == {n \in Nat : \E i \in DOMAIN q : \E j \in DOMAIN q[i] :
                                q[i][j][1] = s /\ q[i][j][2] = n}

Ascending(b) == \A j, l \in DOMAIN b : j < l => b[j][2] < b[l][2]
Own(s, b) == \A j \in DOMAIN b : b[j][1] = s
Below(b, n) == \A j \in DOMAIN b : b[j][2] < n
Before(s, q, b) == \A m \in InLists(s, q), n \in InList(s, b) : m < n
Full(q) == \A i \in DOMAIN q : q[i] # <<>>

\* The elements of lists of messages.
LEMMA ListFacts ==
  ASSUME NEW b \in Seq(Message)
  PROVE  /\ Len(b) \in Nat /\ DOMAIN b = 1 .. Len(b)
         /\ \A j \in DOMAIN b : j \in Nat /\ b[j] \in Message /\ b[j][1] \in Sources /\ b[j][2] \in Nat
<1>1. Len(b) \in Nat /\ DOMAIN b = 1 .. Len(b) OBVIOUS
<1>2. ASSUME NEW j \in DOMAIN b PROVE j \in Nat /\ b[j] \in Message
  BY <1>1, <1>2
<1>3. \A m \in Message : m[1] \in Sources /\ m[2] \in Nat
  BY DEF Message
<1> QED BY <1>1, <1>2, <1>3, Zenon

\* The elements of lists of lists.
LEMMA ListsFacts ==
  ASSUME NEW q \in Seq(Seq(Message))
  PROVE  /\ Len(q) \in Nat /\ DOMAIN q = 1 .. Len(q)
         /\ \A i \in DOMAIN q : i \in Nat /\ q[i] \in Seq(Message)
<1> DEFINE S == Seq(Message)
<1>1. q \in Seq(S) OBVIOUS
<1> HIDE DEF S
<1>2. Len(q) \in Nat /\ DOMAIN q = 1 .. Len(q) /\ \A i \in DOMAIN q : i \in Nat /\ q[i] \in S
  BY <1>1
<1> QED BY <1>2 DEF S

\* A message at the end of a list.
LEMMA AppendMessage ==
  ASSUME NEW b \in Seq(Message), NEW s \in Sources, NEW n \in Nat, NEW c, c = Append(b, <<s, n>>)
  PROVE  /\ c \in Seq(Message)
         /\ \A k : k \in InList(s, c) <=> k \in InList(s, b) \/ k = n
         /\ Own(s, b) => Own(s, c)
         /\ Ascending(b) /\ Below(b, n) => Ascending(c)
<1> DEFINE m == <<s, n>>
<1>0. c = Append(b, m) OBVIOUS
<1>1. m \in Message /\ m[1] = s /\ m[2] = n BY DEF Message
<1> HIDE DEF m
<1>2. /\ c \in Seq(Message) /\ Len(c) = Len(b) + 1 /\ c[Len(b) + 1] = m
      /\ \A j \in 1 .. Len(b) : c[j] = b[j]
  <2>1. /\ Append(b, m) \in Seq(Message) /\ Len(Append(b, m)) = Len(b) + 1
        /\ Append(b, m)[Len(b) + 1] = m /\ \A j \in 1 .. Len(b) : Append(b, m)[j] = b[j]
    BY <1>1
  <2> QED BY <1>0, <2>1
<1>3. DOMAIN b = 1 .. Len(b) /\ Len(b) \in Nat /\ DOMAIN c = 1 .. Len(b) + 1
  BY <1>2, ListFacts
<1>4. ASSUME NEW r \in Sources PROVE InList(r, c) = InList(r, b) \cup (IF r = s THEN {n} ELSE {})
  <2>1. ASSUME NEW k \in InList(r, c) PROVE k \in InList(r, b) \cup (IF r = s THEN {n} ELSE {})
    <3>1. PICK j \in DOMAIN c : c[j][1] = r /\ c[j][2] = k BY <2>1 DEF InList
    <3>2. CASE j \in DOMAIN b
      <4>1. b[j][1] = r /\ b[j][2] = k /\ k \in Nat BY <1>2, <1>3, <2>1, <3>1, <3>2 DEF InList
      <4> QED BY <3>2, <4>1 DEF InList
    <3>3. CASE j \notin DOMAIN b
      <4>1. j = Len(b) + 1 BY <1>3, <3>1, <3>3
      <4> QED BY <1>1, <1>2, <3>1, <4>1
    <3> QED BY <3>2, <3>3
  <2>2. ASSUME NEW k \in InList(r, b) PROVE k \in InList(r, c)
    <3>1. PICK j \in DOMAIN b : b[j][1] = r /\ b[j][2] = k BY <2>2 DEF InList
    <3>2. j \in DOMAIN c /\ c[j] = b[j] /\ k \in Nat BY <1>2, <1>3, <2>2, <3>1 DEF InList
    <3> QED BY <3>1, <3>2, Zenon DEF InList
  <2>3. s = r => n \in InList(r, c)
    <3>1. Len(b) + 1 \in DOMAIN c BY <1>3
    <3> QED BY <1>1, <1>2, <3>1 DEF InList
  <2> QED BY <2>1, <2>2, <2>3
<1>5. ASSUME Own(s, b) PROVE Own(s, c)
  BY <1>1, <1>2, <1>3, <1>5 DEF Own
<1>6. ASSUME Ascending(b), Below(b, n) PROVE Ascending(c)
  <2> SUFFICES ASSUME NEW j \in DOMAIN c, NEW l \in DOMAIN c, j < l PROVE c[j][2] < c[l][2]
    BY DEF Ascending
  <2>1. j \in DOMAIN b /\ c[j] = b[j] BY <1>2, <1>3
  <2>2. CASE l \in DOMAIN b BY <1>2, <1>3, <1>6, <2>1, <2>2 DEF Ascending
  <2>3. CASE l \notin DOMAIN b
    <3>1. c[l] = m BY <1>2, <1>3, <2>3
    <3> QED BY <1>1, <1>6, <2>1, <3>1 DEF Below
  <2> QED BY <2>2, <2>3
<1>7. \A k : k \in InList(s, c) <=> k \in InList(s, b) \/ k = n BY <1>4, Zenon
<1> QED BY <1>2, <1>5, <1>6, <1>7, Zenon

\* A list at the end of a list of lists.
LEMMA AppendList ==
  ASSUME NEW q \in Seq(Seq(Message)), NEW b \in Seq(Message), NEW s \in Sources,
         Own(s, b), NEW d, d = Append(q, b)
  PROVE  /\ d \in Seq(Seq(Message))
         /\ \A k : k \in InLists(s, d) <=> k \in InLists(s, q) \/ k \in InList(s, b)
         /\ \A r \in Sources : \A k : r # s => (k \in InLists(r, d) <=> k \in InLists(r, q))
         /\ Full(q) /\ b # <<>> => Full(d)
         /\ InOrder(q) /\ Ascending(b) /\ Before(s, q, b) => InOrder(d)
<1> DEFINE S == Seq(Message)
           c == Append(q, b)
<1>1. q \in Seq(S) /\ b \in S OBVIOUS
<1> HIDE DEF S
<1>2. /\ c \in Seq(S) /\ Len(c) = Len(q) + 1 /\ c[Len(q) + 1] = b
      /\ \A i \in 1 .. Len(q) : c[i] = q[i]
      /\ Len(q) \in Nat
  BY <1>1
<1>d. d = c OBVIOUS
<1> HIDE DEF c
<1>3. /\ DOMAIN q = 1 .. Len(q) /\ DOMAIN c = 1 .. Len(q) + 1
      /\ DOMAIN q \subseteq DOMAIN c /\ Len(q) + 1 \in DOMAIN c
      /\ \A i \in DOMAIN q : c[i] = q[i] /\ i < Len(q) + 1
      /\ \A i \in DOMAIN c : i \in DOMAIN q \/ i = Len(q) + 1
  <2>1. DOMAIN q = 1 .. Len(q) BY <1>1
  <2>2. DOMAIN c = 1 .. Len(q) + 1
    <3>1. DOMAIN c = 1 .. Len(c) BY <1>2
    <3> QED BY <1>2, <3>1
  <2> QED BY <1>2, <2>1, <2>2
<1>4. ASSUME NEW r \in Sources
      PROVE  InLists(r, c) = InLists(r, q) \cup InList(r, b)
  <2>1. ASSUME NEW k \in InLists(r, c) PROVE k \in InLists(r, q) \cup InList(r, b)
    <3>1. PICK i \in DOMAIN c : \E j \in DOMAIN c[i] : c[i][j][1] = r /\ c[i][j][2] = k
      BY <2>1 DEF InLists
    <3>2. k \in Nat BY <2>1 DEF InLists
    <3>3. CASE i \in DOMAIN q BY <1>3, <3>1, <3>2, <3>3 DEF InLists
    <3>4. CASE i = Len(q) + 1 BY <1>2, <3>1, <3>2, <3>4 DEF InList
    <3> QED BY <1>3, <3>3, <3>4, Zenon
  <2>2. ASSUME NEW k \in InLists(r, q) PROVE k \in InLists(r, c)
    <3>1. PICK i \in DOMAIN q : \E j \in DOMAIN q[i] : q[i][j][1] = r /\ q[i][j][2] = k
      BY <2>2, Zenon DEF InLists
    <3>2. k \in Nat /\ i \in DOMAIN c /\ c[i] = q[i] BY <1>3, <2>2, <3>1 DEF InLists
    <3> QED BY <3>1, <3>2, Zenon DEF InLists
  <2>3. ASSUME NEW k \in InList(r, b) PROVE k \in InLists(r, c)
    <3>1. PICK j \in DOMAIN b : b[j][1] = r /\ b[j][2] = k BY <2>3, Zenon DEF InList
    <3>2. k \in Nat BY <2>3, Zenon DEF InList
    <3>3. Len(q) + 1 \in DOMAIN c /\ c[Len(q) + 1] = b BY <1>2, <1>3, Zenon
    <3> QED BY <3>1, <3>2, <3>3 DEF InLists
  <2> QED BY <2>1, <2>2, <2>3, Zenon
<1>5. ASSUME NEW r \in Sources, r # s PROVE InLists(r, c) = InLists(r, q)
  <2>1. InList(r, b) = {} BY <1>5, Zenon DEF InList, Own
  <2> QED BY <1>4, <2>1, Zenon
<1>6. ASSUME Full(q), b # <<>> PROVE Full(c)
  BY <1>2, <1>3, <1>6, Zenon DEF Full
<1>7. ASSUME InOrder(q), Ascending(b), Before(s, q, b)
      PROVE  InOrder(c)
  <2> SUFFICES ASSUME NEW i \in DOMAIN c, NEW k \in DOMAIN c,
                      NEW j \in DOMAIN c[i], NEW l \in DOMAIN c[k],
                      i < k \/ (i = k /\ j < l), c[i][j][1] = c[k][l][1]
               PROVE  c[i][j][2] < c[k][l][2]
    BY Zenon DEF InOrder
  <2>1. CASE i \in DOMAIN q /\ k \in DOMAIN q
    <3>1. c[i] = q[i] /\ c[k] = q[k] BY <1>3, <2>1, Zenon
    <3> QED BY <1>7, <2>1, <3>1, Zenon DEF InOrder
  <2>2. CASE i \in DOMAIN q /\ k = Len(q) + 1
    <3>1. c[i] = q[i] /\ c[k] = b BY <1>2, <1>3, <2>2, Zenon
    <3>2. q[i] \in Seq(Message) BY <2>2, ListsFacts
    <3>3. q[i][j][2] \in Nat /\ b[l][2] \in Nat BY <3>1, <3>2, ListFacts, Zenon
    <3>4. b[l][1] = s /\ q[i][j][1] = s BY <3>1, Zenon DEF Own
    <3>5. b[l][2] \in InList(s, b) BY <3>1, <3>3, <3>4, Zenon DEF InList
    <3>6. q[i][j][2] \in InLists(s, q) BY <2>2, <3>1, <3>3, <3>4, Zenon DEF InLists
    <3> QED BY <1>7, <3>1, <3>5, <3>6, Zenon DEF Before
  <2>3. CASE i = Len(q) + 1 /\ k = Len(q) + 1
    <3>1. c[i] = b /\ c[k] = b /\ ~(i < k) BY <1>2, <2>3
    <3>2. j < l BY <3>1, Zenon
    <3> QED BY <1>7, <3>1, <3>2, Zenon DEF Ascending
  <2>4. ~(i = Len(q) + 1 /\ k \in DOMAIN q) BY <1>2, <1>3
  <2> QED BY <1>3, <2>1, <2>2, <2>3, <2>4, Zenon
<1>8. c \in Seq(Seq(Message)) BY <1>2 DEF S
<1> QED BY <1>d, <1>4, <1>5, <1>6, <1>7, <1>8, Zenon

\* The first message of a list of lists is taken out of it.
LEMMA WithoutFirstFacts ==
  ASSUME NEW q \in Seq(Seq(Message)), q # <<>>, Full(q), InOrder(q),
         NEW d, d = WithoutFirst(q), NEW f, f = FirstOf(q)
  PROVE  /\ d \in Seq(Seq(Message)) /\ Full(d) /\ InOrder(d)
         /\ f \in Message /\ f[1] \in Sources /\ f[2] \in Nat
         /\ \A r \in Sources : r # f[1] => InLists(r, d) = InLists(r, q)
         /\ InLists(f[1], q) = InLists(f[1], d) \cup {f[2]}
         /\ \A n \in InLists(f[1], d) : f[2] < n
<1> DEFINE S == Seq(Message)
           c == WithoutFirst(q)
           h == Head(q)
           m == FirstOf(q)
           n == IF Len(h) = 1 THEN 1 ELSE 0
<1>1. q \in Seq(S) OBVIOUS
<1>a. Len(q) \in Nat /\ Len(q) > 0 /\ DOMAIN q = 1 .. Len(q) /\ 1 \in DOMAIN q /\ h = q[1]
  <2> HIDE DEF S
  <2> QED BY <1>1
<1>2. h \in Seq(Message) /\ h # <<>> BY <1>a, ListsFacts DEF Full
<1>3. Len(h) \in Nat /\ Len(h) > 0 /\ DOMAIN h = 1 .. Len(h) /\ 1 \in DOMAIN h /\ m = h[1]
  BY <1>2 DEF FirstOf
<1>4. m \in Message /\ m[1] \in Sources /\ m[2] \in Nat BY <1>2, <1>3, ListFacts
<1>5. /\ Tail(q) \in Seq(Seq(Message)) /\ Len(Tail(q)) = Len(q) - 1
      /\ DOMAIN Tail(q) = 1 .. Len(q) - 1
      /\ \A i \in 1 .. Len(q) - 1 : Tail(q)[i] = q[i + 1]
  <2>1. /\ Tail(q) \in Seq(S) /\ Len(Tail(q)) = Len(q) - 1
        /\ DOMAIN Tail(q) = 1 .. Len(q) - 1
        /\ \A i \in 1 .. Len(q) - 1 : Tail(q)[i] = q[i + 1]
    <3> HIDE DEF S
    <3> QED BY <1>1, <1>a
  <2> QED BY <2>1
<1>6. /\ Tail(h) \in Seq(Message) /\ Len(Tail(h)) = Len(h) - 1 /\ DOMAIN Tail(h) = 1 .. Len(h) - 1
      /\ \A j \in 1 .. Len(h) - 1 : Tail(h)[j] = h[j + 1]
  BY <1>2, <1>3
\* Where what is in c was in q.
<1>7. /\ c \in Seq(Seq(Message)) /\ Full(c)
      /\ \A i \in DOMAIN c : \A j \in DOMAIN c[i] :
           LET k == i + n
               l == IF n = 0 /\ i = 1 THEN j + 1 ELSE j
           IN  i \in Nat /\ j \in Nat /\ k \in DOMAIN q /\ l \in DOMAIN q[k] /\ c[i][j] = q[k][l] /\ (k > 1 \/ l > 1)
      /\ \A k \in DOMAIN q : \A l \in DOMAIN q[k] : k > 1 \/ l > 1 =>
           \E i \in DOMAIN c : \E j \in DOMAIN c[i] : c[i][j] = q[k][l]
  <2>1. CASE Len(h) = 1
    <3>1. c = Tail(q) /\ n = 1 BY <2>1 DEF WithoutFirst
    <3> HIDE DEF c, n, h, m
    <3>2. Full(c)
      <4> SUFFICES ASSUME NEW i \in DOMAIN c PROVE c[i] # <<>> BY DEF Full
      <4>1. i + 1 \in DOMAIN q /\ c[i] = q[i + 1] BY <1>5, <1>a, <3>1
      <4> QED BY <4>1 DEF Full
    <3>3. ASSUME NEW i \in DOMAIN c, NEW j \in DOMAIN c[i]
          PROVE  i \in Nat /\ j \in Nat /\ i + 1 \in DOMAIN q /\ j \in DOMAIN q[i + 1] /\ c[i][j] = q[i + 1][j] /\ i + 1 > 1
      <4>1. i \in Nat /\ i + 1 \in DOMAIN q /\ c[i] = q[i + 1] /\ i + 1 > 1 BY <1>5, <1>a, <3>1
      <4>2. j \in Nat BY <4>1, <3>3, ListsFacts, ListFacts
      <4> QED BY <3>3, <4>1, <4>2
    <3>4. ASSUME NEW k \in DOMAIN q, NEW l \in DOMAIN q[k], k > 1 \/ l > 1
          PROVE  \E i \in DOMAIN c : \E j \in DOMAIN c[i] : c[i][j] = q[k][l]
      <4>1. k > 1
        <5>1. CASE k = 1
          <6>1. l \in 1 .. 1 BY <1>a, <1>3, <2>1, <5>1
          <6> QED BY <3>4, <6>1, <5>1
        <5> QED BY <1>a, <5>1
      <4>2. k - 1 \in DOMAIN c /\ c[k - 1] = q[k] BY <1>a, <1>5, <3>1, <4>1
      <4> QED BY <4>2
    <3> QED BY <1>5, <3>1, <3>2, <3>3, <3>4
  <2>2. CASE Len(h) # 1
    <3>1. c = <<Tail(h)>> \o Tail(q) /\ n = 0 BY <2>2 DEF WithoutFirst
    <3>2. /\ c \in Seq(Seq(Message)) /\ DOMAIN c = 1 .. Len(q) /\ c[1] = Tail(h)
          /\ \A i \in 2 .. Len(q) : c[i] = q[i]
      <4> DEFINE t == Tail(q)
                 b == Tail(h)
      <4>1. t \in Seq(S) /\ b \in S /\ Len(t) = Len(q) - 1 /\ \A i \in 1 .. Len(q) - 1 : t[i] = q[i + 1]
        BY <1>5, <1>6
      <4>2. c = <<b>> \o t BY <3>1
      <4> HIDE DEF S, t, b, c
      <4>3. c \in Seq(S) /\ Len(c) = Len(q) /\ DOMAIN c = 1 .. Len(q) /\ c[1] = b
        <5>1. c \in Seq(S) /\ Len(c) = 1 + Len(t) /\ c[1] = b BY <4>1, <4>2
        <5>2. Len(c) = Len(q) BY <1>a, <4>1, <5>1
        <5>3. DOMAIN c = 1 .. Len(c) BY <5>1
        <5> QED BY <5>1, <5>2, <5>3, Zenon
      <4>4. ASSUME NEW i \in 2 .. Len(q) PROVE c[i] = q[i]
        <5>1. i - 1 \in 1 .. Len(t) /\ c[i] = t[i - 1] BY <1>a, <4>1, <4>2
        <5>2. t[i - 1] = q[(i - 1) + 1] /\ (i - 1) + 1 = i BY <1>a, <4>1, <5>1
        <5> QED BY <5>1, <5>2
      <4> QED BY <4>3, <4>4 DEF S, b
    <3> HIDE DEF c, n, h, m
    <3>3. Len(h) > 1 BY <1>3, <2>2
    <3>4. Full(c)
      <4> SUFFICES ASSUME NEW i \in DOMAIN c PROVE c[i] # <<>> BY DEF Full
      <4>1. CASE i = 1 BY <1>6, <3>2, <3>3, <4>1
      <4>2. CASE i # 1
        <5>1. i \in 2 .. Len(q) /\ i \in DOMAIN q BY <1>a, <3>2, <4>2
        <5> QED BY <3>2, <5>1 DEF Full
      <4> QED BY <4>1, <4>2
    <3>5. ASSUME NEW i \in DOMAIN c, NEW j \in DOMAIN c[i]
          PROVE  LET l == IF i = 1 THEN j + 1 ELSE j
                 IN  i \in Nat /\ j \in Nat /\ i \in DOMAIN q /\ l \in DOMAIN q[i] /\ c[i][j] = q[i][l] /\ (i > 1 \/ l > 1)
      <4>1. CASE i = 1
        <5>1. j \in 1 .. Len(h) - 1 /\ c[i][j] = h[j + 1] BY <1>6, <3>2, <3>5, <4>1
        <5> QED BY <1>a, <1>3, <4>1, <5>1
      <4>2. CASE i # 1
        <5>1. i \in 2 .. Len(q) /\ i \in DOMAIN q /\ i > 1 /\ i \in Nat BY <1>a, <3>2, <4>2
        <5>2. c[i] = q[i] /\ q[i] \in Seq(Message) BY <3>2, <5>1, ListsFacts
        <5>3. j \in Nat /\ j \in DOMAIN q[i] BY <3>5, <5>2, ListFacts
        <5> QED BY <4>2, <5>1, <5>2, <5>3
      <4> QED BY <4>1, <4>2
    <3>6. ASSUME NEW k \in DOMAIN q, NEW l \in DOMAIN q[k], k > 1 \/ l > 1
          PROVE  \E i \in DOMAIN c : \E j \in DOMAIN c[i] : c[i][j] = q[k][l]
      <4>1. CASE k = 1
        <5>1. l > 1 /\ l \in 1 .. Len(h) /\ q[k] = h BY <1>a, <1>3, <3>6, <4>1
        <5>2. l - 1 \in 1 .. Len(h) - 1 /\ (l - 1) + 1 = l BY <1>3, <5>1
        <5>3. l - 1 \in DOMAIN c[1] /\ c[1][l - 1] = h[l] BY <1>6, <3>2, <5>2
        <5>4. 1 \in DOMAIN c BY <1>a, <3>2
        <5> QED BY <5>1, <5>3, <5>4
      <4>2. CASE k # 1
        <5>1. k \in DOMAIN c /\ c[k] = q[k] BY <1>a, <3>2, <4>2
        <5> QED BY <3>6, <5>1
      <4> QED BY <4>1, <4>2
    <3>7. ASSUME NEW i \in DOMAIN c, NEW j \in DOMAIN c[i]
          PROVE  LET k == i + n
                     l == IF n = 0 /\ i = 1 THEN j + 1 ELSE j
                 IN  i \in Nat /\ j \in Nat /\ k \in DOMAIN q /\ l \in DOMAIN q[k] /\ c[i][j] = q[k][l] /\ (k > 1 \/ l > 1)
      <4>1. i \in Nat /\ i + n = i BY <1>a, <3>1, <3>2
      <4> DEFINE l == IF i = 1 THEN j + 1 ELSE j
      <4>2. (IF n = 0 /\ i = 1 THEN j + 1 ELSE j) = l BY <3>1, Zenon
      <4>3. j \in Nat /\ i \in DOMAIN q /\ l \in DOMAIN q[i] /\ c[i][j] = q[i][l] /\ (i > 1 \/ l > 1)
        BY <3>5, Zenon
      <4> HIDE DEF l
      <4> QED BY <4>1, <4>2, <4>3, Zenon
    <3> QED BY <3>2, <3>4, <3>6, <3>7, Zenon
  <2> QED BY <2>1, <2>2, Zenon
<1> DEFINE row(i) == i + n
           col(i, j) == IF n = 0 /\ i = 1 THEN j + 1 ELSE j
<1>8. n \in {0, 1} OBVIOUS
<1>9. /\ \A i \in DOMAIN c : \A j \in DOMAIN c[i] :
           /\ i \in Nat /\ j \in Nat /\ row(i) \in DOMAIN q /\ col(i, j) \in DOMAIN q[row(i)]
           /\ c[i][j] = q[row(i)][col(i, j)] /\ (row(i) > 1 \/ col(i, j) > 1)
  BY <1>7, Zenon
<1>10. /\ \A i, k \in Nat : i < k => row(i) < row(k)
       /\ \A i, j, l \in Nat : j < l => col(i, j) < col(i, l)
  BY <1>8
<1> HIDE DEF c, h, m, n, row, col
<1>11. InOrder(c)
  <2> SUFFICES ASSUME NEW i \in DOMAIN c, NEW k \in DOMAIN c,
                      NEW j \in DOMAIN c[i], NEW l \in DOMAIN c[k],
                      i < k \/ (i = k /\ j < l), c[i][j][1] = c[k][l][1]
               PROVE  c[i][j][2] < c[k][l][2]
    BY Zenon DEF InOrder
  <2>1. /\ i \in Nat /\ j \in Nat /\ row(i) \in DOMAIN q /\ col(i, j) \in DOMAIN q[row(i)]
        /\ c[i][j] = q[row(i)][col(i, j)]
        /\ k \in Nat /\ l \in Nat /\ row(k) \in DOMAIN q /\ col(k, l) \in DOMAIN q[row(k)]
        /\ c[k][l] = q[row(k)][col(k, l)]
    BY <1>9, Zenon
  <2>2. row(i) < row(k) \/ (row(i) = row(k) /\ col(i, j) < col(k, l)) BY <1>10, <2>1, Zenon
  <2> QED BY <2>1, <2>2, Zenon DEF InOrder
<1>12. ASSUME NEW r \in Sources PROVE InLists(r, c) \subseteq InLists(r, q)
  <2> SUFFICES ASSUME NEW x \in InLists(r, c) PROVE x \in InLists(r, q) OBVIOUS
  <2>1. PICK i \in DOMAIN c : \E j \in DOMAIN c[i] : c[i][j][1] = r /\ c[i][j][2] = x
    BY Zenon DEF InLists
  <2>2. PICK j \in DOMAIN c[i] : c[i][j][1] = r /\ c[i][j][2] = x BY <2>1, Zenon
  <2>3. x \in Nat BY DEF InLists
  <2>4. row(i) \in DOMAIN q /\ col(i, j) \in DOMAIN q[row(i)] /\ c[i][j] = q[row(i)][col(i, j)]
    BY <1>9, Zenon
  <2> QED BY <2>2, <2>3, <2>4, Zenon DEF InLists
<1>13. ASSUME NEW r \in Sources, NEW x \in InLists(r, q) PROVE x \in InLists(r, c) \/ (r = m[1] /\ x = m[2])
  <2>1. PICK k \in DOMAIN q : \E l \in DOMAIN q[k] : q[k][l][1] = r /\ q[k][l][2] = x
    BY <1>13, Zenon DEF InLists
  <2>2. PICK l \in DOMAIN q[k] : q[k][l][1] = r /\ q[k][l][2] = x BY <2>1, Zenon
  <2>3. x \in Nat BY <1>13, Zenon DEF InLists
  <2>4. CASE k > 1 \/ l > 1
    <3>1. PICK i \in DOMAIN c : \E j \in DOMAIN c[i] : c[i][j] = q[k][l] BY <1>7, <2>4, Zenon
    <3> QED BY <2>2, <2>3, <3>1, Zenon DEF InLists
  <2>5. CASE ~(k > 1 \/ l > 1)
    <3>1. k = 1 BY <1>a, <2>5
    <3>2. l \in 1 .. Len(h) BY <1>a, <1>3, <3>1
    <3>3. l = 1 BY <1>3, <2>5, <3>2
    <3>4. q[k][l] = m BY <1>a, <1>3, <3>1, <3>3, Zenon
    <3> QED BY <2>2, <3>4, Zenon
  <2> QED BY <2>4, <2>5, Zenon
<1>14. m[2] \in InLists(m[1], q)
  <2>1. q[1][1] = m /\ 1 \in DOMAIN q[1] BY <1>a, <1>3, Zenon
  <2> QED BY <1>a, <1>4, <2>1, Zenon DEF InLists
<1>15. ASSUME NEW x \in InLists(m[1], c) PROVE m[2] < x
  <2>1. PICK i \in DOMAIN c : \E j \in DOMAIN c[i] : c[i][j][1] = m[1] /\ c[i][j][2] = x
    BY <1>15, Zenon DEF InLists
  <2>2. PICK j \in DOMAIN c[i] : c[i][j][1] = m[1] /\ c[i][j][2] = x BY <2>1, Zenon
  <2>3. /\ row(i) \in DOMAIN q /\ col(i, j) \in DOMAIN q[row(i)]
        /\ c[i][j] = q[row(i)][col(i, j)] /\ (row(i) > 1 \/ col(i, j) > 1)
    BY <1>9, Zenon
  <2>4. 1 < row(i) \/ (1 = row(i) /\ 1 < col(i, j))
    <3>1. row(i) \in 1 .. Len(q) BY <1>a, <2>3, Zenon
    <3>2. col(i, j) \in Nat BY <2>3, <3>1, ListsFacts, ListFacts
    <3> QED BY <2>3, <3>1, <3>2, <1>a
  <2>5. q[1][1] = m /\ 1 \in DOMAIN q[1] BY <1>a, <1>3, Zenon
  <2> QED BY <1>a, <2>2, <2>3, <2>4, <2>5, Zenon DEF InOrder
<1>16. \A r \in Sources : r # m[1] => InLists(r, c) = InLists(r, q)
  BY <1>12, <1>13, Zenon
<1>17. InLists(m[1], q) = InLists(m[1], c) \cup {m[2]}
  BY <1>4, <1>12, <1>13, <1>14
<1> QED BY <1>4, <1>7, <1>11, <1>15, <1>16, <1>17, Zenon DEF c, m

-----------------------------------------------------------------------------
(* The books: po messages posted, q[p] the lists that partition p has,      *)
(* c[s][p] what s has collected for it, all[s] what was injected of s and   *)
(* last[p][s] the last one that p injected.                                 *)

Way(s, p, c, q) == InLists(s, q[p]) \cup InList(s, c[s][p])

BookTypes(po, last, all, c, q) ==
  /\ po \in [Sources -> Nat] /\ last \in [Partitions -> [Sources -> Nat]]
  /\ all \in [Sources -> SUBSET Nat]
  /\ c \in [Sources -> [Partitions -> Seq(Message)]]
  /\ q \in [Partitions -> Seq(Seq(Message))]

ListsOK(p, q) == Full(q[p]) /\ InOrder(q[p])

OwnOK(s, p, c, q) ==
  Own(s, c[s][p]) /\ Ascending(c[s][p]) /\ Before(s, q[p], c[s][p])

PlaceOK(s, p, po, last, all, c, q) ==
  /\ last[p][s] <= po[s]
  /\ \A n \in Way(s, p, c, q) :
       /\ n \in 1 .. po[s] /\ n \notin all[s] /\ last[p][s] < n
       /\ \A r \in Partitions : r # p => n \notin Way(s, r, c, q)

AllOK(s, po, all, c, q) ==
  /\ all[s] \subseteq 1 .. po[s]
  /\ \A n \in 1 .. po[s] : n \in all[s] \/ \E p \in Partitions : n \in Way(s, p, c, q)

SourceBooks(s, po, last, all, c, q) ==
  /\ AllOK(s, po, all, c, q)
  /\ \A p \in Partitions : OwnOK(s, p, c, q) /\ PlaceOK(s, p, po, last, all, c, q)

Books(po, last, all, c, q) ==
  /\ BookTypes(po, last, all, c, q)
  /\ \A p \in Partitions : ListsOK(p, q)
  /\ \A s \in Sources : SourceBooks(s, po, last, all, c, q)

\* The entries of the books have their types.
LEMMA PieceTypes ==
  ASSUME NEW po, NEW last, NEW all, NEW c, NEW q, BookTypes(po, last, all, c, q)
  PROVE  /\ \A s \in Sources : po[s] \in Nat /\ all[s] \in SUBSET Nat
         /\ \A p \in Partitions : q[p] \in Seq(Seq(Message))
         /\ \A s \in Sources, p \in Partitions : last[p][s] \in Nat /\ c[s][p] \in Seq(Message)
<1> DEFINE S == Seq(Message)
<1>1. /\ po \in [Sources -> Nat] /\ last \in [Partitions -> [Sources -> Nat]]
      /\ all \in [Sources -> SUBSET Nat] /\ c \in [Sources -> [Partitions -> S]]
      /\ q \in [Partitions -> Seq(S)]
  BY Zenon DEF BookTypes
<1> HIDE DEF S
<1>2. \A s \in Sources : po[s] \in Nat /\ all[s] \in SUBSET Nat BY <1>1, Zenon
<1>3. \A p \in Partitions : q[p] \in Seq(S) BY <1>1, Zenon
<1>4. \A s \in Sources, p \in Partitions : last[p][s] \in Nat BY <1>1
<1>5. \A s \in Sources, p \in Partitions : c[s][p] \in S BY <1>1
<1> QED BY <1>2, <1>3, <1>4, <1>5, Zenon DEF S

\* c and d differ in what s has collected for p only.
SameBut(c, d, s, p) ==
  \A r \in Sources, x \in Partitions : r # s \/ x # p => d[r][x] = c[r][x]

\* Nothing of s changes.
SameOf(s, po, last, all, c, q, po2, last2, all2, c2, q2) ==
  /\ po2[s] = po[s] /\ all2[s] = all[s]
  /\ \A p \in Partitions : /\ last2[p][s] = last[p][s] /\ c2[s][p] = c[s][p]
                          /\ InLists(s, q2[p]) = InLists(s, q[p])

\* The books of a source depend on its own entries.
LEMMA OtherBooks ==
  ASSUME NEW s, NEW po, NEW last, NEW all, NEW c, NEW q,
         NEW po2, NEW last2, NEW all2, NEW c2, NEW q2,
         SourceBooks(s, po, last, all, c, q),
         SameOf(s, po, last, all, c, q, po2, last2, all2, c2, q2)
  PROVE  SourceBooks(s, po2, last2, all2, c2, q2)
<1>1. \A p \in Partitions : Way(s, p, c2, q2) = Way(s, p, c, q) BY Zenon DEF Way, SameOf
<1>2. AllOK(s, po2, all2, c2, q2)
  <2>1. AllOK(s, po, all, c, q) /\ po2[s] = po[s] /\ all2[s] = all[s] BY Zenon DEF SourceBooks, SameOf
  <2> QED BY <1>1, <2>1 DEF AllOK
<1>3. ASSUME NEW p \in Partitions PROVE OwnOK(s, p, c2, q2)
  <2>1. OwnOK(s, p, c, q) /\ c2[s][p] = c[s][p] /\ InLists(s, q2[p]) = InLists(s, q[p])
    BY Zenon DEF SourceBooks, SameOf
  <2> QED BY <2>1, Zenon DEF OwnOK, Before
<1>4. ASSUME NEW p \in Partitions PROVE PlaceOK(s, p, po2, last2, all2, c2, q2)
  <2>1. /\ PlaceOK(s, p, po, last, all, c, q)
        /\ po2[s] = po[s] /\ all2[s] = all[s] /\ last2[p][s] = last[p][s]
    BY Zenon DEF SourceBooks, SameOf
  <2> QED BY <1>1, <2>1, Zenon DEF PlaceOK
<1> QED BY <1>2, <1>3, <1>4, Zenon DEF SourceBooks

\* A message is posted.
LEMMA BooksPost ==
  ASSUME NEW po, NEW last, NEW all, NEW c, NEW q, NEW po2, NEW c2,
         NEW s \in Sources, NEW p \in Partitions,
         Books(po, last, all, c, q),
         po2 = [po EXCEPT ![s] = @ + 1],
         c2 \in [Sources -> [Partitions -> Seq(Message)]], SameBut(c, c2, s, p),
         c2[s][p] = Append(c[s][p], <<s, po[s] + 1>>)
  PROVE  Books(po2, last, all, c2, q)
<1> DEFINE n == po[s] + 1
<1>0. BookTypes(po, last, all, c, q) BY Zenon DEF Books, SourceBooks
<1>1. /\ BookTypes(po2, last, all, c2, q) /\ po2[s] = n /\ n \in Nat /\ po[s] \in Nat
      /\ \A r \in Sources : r # s => po2[r] = po[r]
  <2>1. po \in [Sources -> Nat] BY <1>0, Zenon DEF BookTypes
  <2>2. po2 \in [Sources -> Nat] /\ po2[s] = n /\ n \in Nat /\ po[s] \in Nat BY <2>1
  <2>3. \A r \in Sources : r # s => po2[r] = po[r] BY <2>1, Zenon
  <2>4. BookTypes(po2, last, all, c2, q) BY <1>0, <2>2, Zenon DEF BookTypes
  <2> QED BY <2>2, <2>3, <2>4, Zenon
<1>2. c[s][p] \in Seq(Message) BY <1>0, PieceTypes, Zenon
<1>3. 1 .. n = (1 .. po[s]) \cup {n} /\ n \notin 1 .. po[s] BY <1>1
<1>4. \A k \in 1 .. po[s] : k < n BY <1>1
<1>5. \A x \in Partitions : last[x][s] \in Nat /\ last[x][s] <= po[s]
  <2>1. \A x \in Partitions : PlaceOK(s, x, po, last, all, c, q) BY Zenon DEF Books, SourceBooks
  <2> QED BY <1>0, <2>1, PieceTypes, Zenon DEF PlaceOK
<1>6. \A x \in Partitions : last[x][s] < n /\ last[x][s] <= n BY <1>1, <1>5
<1> HIDE DEF n
<1>7. OwnOK(s, p, c, q) BY Zenon DEF Books, SourceBooks
<1>8. Below(c[s][p], n)
  <2> SUFFICES ASSUME NEW j \in DOMAIN c[s][p] PROVE c[s][p][j][2] < n BY Zenon DEF Below
  <2>1. c[s][p][j][1] = s /\ c[s][p][j][2] \in Nat BY <1>2, <1>7, ListFacts, Zenon DEF OwnOK, Own
  <2>2. c[s][p][j][2] \in InList(s, c[s][p]) BY <2>1, Zenon DEF InList
  <2>3. c[s][p][j][2] \in 1 .. po[s] BY <2>2, Zenon DEF Books, SourceBooks, PlaceOK, Way
  <2> QED BY <1>4, <2>3, Zenon
<1>9. InList(s, c2[s][p]) = InList(s, c[s][p]) \cup {n} /\ Own(s, c2[s][p]) /\ Ascending(c2[s][p])
  <2>1. c2[s][p] = Append(c[s][p], <<s, n>>) BY DEF n
  <2>2. InList(s, c2[s][p]) = InList(s, c[s][p]) \cup {n}
    <3>1. \A k : k \in InList(s, c2[s][p]) <=> k \in InList(s, c[s][p]) \/ k = n
      BY <1>1, <1>2, <2>1, AppendMessage, Zenon
    <3> QED BY <3>1, Zenon
  <2>3. Own(s, c2[s][p]) BY <1>1, <1>2, <1>7, <2>1, AppendMessage, Zenon DEF OwnOK
  <2>4. Ascending(c2[s][p]) BY <1>1, <1>2, <1>7, <1>8, <2>1, AppendMessage, Zenon DEF OwnOK
  <2> QED BY <2>2, <2>3, <2>4, Zenon
<1>10. \A x \in Partitions : Way(s, x, c2, q) = Way(s, x, c, q) \cup (IF x = p THEN {n} ELSE {})
  BY <1>9, Zenon DEF Way, SameBut
<1>11. \A x \in Partitions : Way(s, x, c, q) \subseteq 1 .. po[s] BY Zenon DEF Books, SourceBooks, PlaceOK
<1>12. all[s] \subseteq 1 .. po[s] BY Zenon DEF Books, SourceBooks, AllOK
<1>13. AllOK(s, po2, all, c2, q)
  <2>1. AllOK(s, po, all, c, q) BY Zenon DEF Books, SourceBooks
  <2> QED BY <1>1, <1>3, <1>10, <2>1, Zenon DEF AllOK
<1>14. ASSUME NEW x \in Partitions PROVE OwnOK(s, x, c2, q)
  <2>1. CASE x = p
    <3>1. \A m \in InLists(s, q[p]) : m \in 1 .. po[s] BY <1>11, Zenon DEF Way
    <3>2. Before(s, q[p], c2[s][p]) BY <1>4, <1>7, <1>9, <3>1, Zenon DEF OwnOK, Before
    <3> QED BY <1>9, <2>1, <3>2, Zenon DEF OwnOK
  <2>2. CASE x # p
    <3>1. OwnOK(s, x, c, q) /\ c2[s][x] = c[s][x] BY <2>2, Zenon DEF Books, SourceBooks, SameBut
    <3> QED BY <3>1, Zenon DEF OwnOK
  <2> QED BY <2>1, <2>2, Zenon
<1>15. ASSUME NEW x \in Partitions PROVE PlaceOK(s, x, po2, last, all, c2, q)
  <2>1. PlaceOK(s, x, po, last, all, c, q) BY Zenon DEF Books, SourceBooks
  <2>2. ASSUME NEW k \in Way(s, x, c2, q)
        PROVE  /\ k \in 1 .. po2[s] /\ k \notin all[s] /\ last[x][s] < k
               /\ \A r \in Partitions : r # x => k \notin Way(s, r, c2, q)
    <3>1. CASE k \in Way(s, x, c, q)
      <4>1. k \in 1 .. po[s] /\ k \notin all[s] /\ last[x][s] < k BY <2>1, <3>1, Zenon DEF PlaceOK
      <4>2. k # n BY <1>3, <4>1, Zenon
      <4>3. \A r \in Partitions : r # x => k \notin Way(s, r, c2, q)
        BY <1>10, <2>1, <3>1, <4>2, Zenon DEF PlaceOK
      <4> QED BY <1>1, <1>3, <4>1, <4>3, Zenon
    <3>2. CASE k \notin Way(s, x, c, q)
      <4>1. k = n /\ x = p BY <1>10, <2>2, <3>2, Zenon
      <4>2. \A r \in Partitions : r # x => k \notin Way(s, r, c2, q) BY <1>3, <1>10, <1>11, <4>1, Zenon
      <4> QED BY <1>1, <1>3, <1>6, <1>12, <4>1, <4>2, Zenon
    <3> QED BY <3>1, <3>2, Zenon
  <2> QED BY <1>1, <1>6, <2>2, Zenon DEF PlaceOK
<1>16. ASSUME NEW r \in Sources PROVE SourceBooks(r, po2, last, all, c2, q)
  <2>1. CASE r = s BY <1>13, <1>14, <1>15, <2>1, Zenon DEF SourceBooks
  <2>2. CASE r # s
    <3>1. SameOf(r, po, last, all, c, q, po2, last, all, c2, q) BY <1>1, <2>2, Zenon DEF SameBut, SameOf
    <3>2. SourceBooks(r, po, last, all, c, q) BY Zenon DEF Books, SourceBooks
    <3> QED BY <3>1, <3>2, OtherBooks
  <2> QED BY <2>1, <2>2, Zenon
<1>17. \A x \in Partitions : ListsOK(x, q) BY Zenon DEF Books, SourceBooks
<1> QED BY <1>1, <1>16, <1>17, Zenon DEF Books, SourceBooks

\* What s has collected for p becomes the last of the lists of p.
Adds(s, p, c, q, c2, q2) ==
  /\ c[s][p] # <<>> /\ c2 \in [Sources -> [Partitions -> Seq(Message)]]
  /\ SameBut(c, c2, s, p) /\ c2[s][p] = <<>>
  /\ q2 = [q EXCEPT ![p] = Append(q[p], c[s][p])]

\* What a source has collected is added to the lists of the partition.
LEMMA BooksAdd ==
  ASSUME NEW po, NEW last, NEW all, NEW c, NEW q, NEW c2, NEW q2,
         NEW s \in Sources, NEW p \in Partitions,
         Books(po, last, all, c, q), Adds(s, p, c, q, c2, q2)
  PROVE  Books(po, last, all, c2, q2)
<1> USE DEF Adds
<1> DEFINE S == Seq(Message)
<1>0. BookTypes(po, last, all, c, q) BY Zenon DEF Books
<1>1. q[p] \in Seq(Seq(Message)) /\ c[s][p] \in Seq(Message) BY <1>0, PieceTypes, Zenon
<1>2. ListsOK(p, q) /\ SourceBooks(s, po, last, all, c, q) /\ OwnOK(s, p, c, q)
  BY Zenon DEF Books, SourceBooks
<1>3. /\ q2 \in [Partitions -> Seq(Seq(Message))] /\ q2[p] = Append(q[p], c[s][p])
      /\ \A x \in Partitions : x # p => q2[x] = q[x]
  <2>1. q \in [Partitions -> Seq(S)] /\ c[s][p] \in S /\ q[p] \in Seq(S) BY <1>0, <1>1, Zenon DEF BookTypes
  <2> HIDE DEF S
  <2>2. Append(q[p], c[s][p]) \in Seq(S) BY <2>1
  <2>3. /\ q2 \in [Partitions -> Seq(S)] /\ q2[p] = Append(q[p], c[s][p])
        /\ \A x \in Partitions : x # p => q2[x] = q[x]
    BY <2>1, <2>2, Zenon
  <2> QED BY <2>3 DEF S
<1>4. BookTypes(po, last, all, c2, q2) BY <1>0, <1>3, Zenon DEF BookTypes
<1>5. Own(s, c[s][p]) /\ Ascending(c[s][p]) /\ Before(s, q[p], c[s][p]) /\ Full(q[p]) /\ InOrder(q[p])
  BY <1>2, Zenon DEF OwnOK, ListsOK
<1>6. /\ InLists(s, q2[p]) = InLists(s, q[p]) \cup InList(s, c[s][p])
      /\ \A r \in Sources : r # s => InLists(r, q2[p]) = InLists(r, q[p])
      /\ Full(q2[p]) /\ InOrder(q2[p])
  <2> DEFINE b == c[s][p]
             l == q[p]
             d == q2[p]
  <2>1. b \in Seq(Message) /\ l \in Seq(Seq(Message)) /\ d = Append(l, b) /\ b # <<>> BY <1>1, <1>3
  <2>2. Own(s, b) /\ Ascending(b) /\ Before(s, l, b) /\ Full(l) /\ InOrder(l) BY <1>5
  <2> HIDE DEF b, l, d
  <2>3. InLists(s, d) = InLists(s, l) \cup InList(s, b)
    <3>1. \A k : k \in InLists(s, d) <=> k \in InLists(s, l) \/ k \in InList(s, b)
      BY <2>1, <2>2, AppendList, Zenon
    <3> QED BY <3>1, Zenon
  <2>4. ASSUME NEW r \in Sources, r # s PROVE InLists(r, d) = InLists(r, l)
    <3>1. \A k : k \in InLists(r, d) <=> k \in InLists(r, l) BY <2>1, <2>2, <2>4, AppendList, Zenon
    <3> QED BY <3>1, Zenon
  <2>5. Full(d) /\ InOrder(d) BY <2>1, <2>2, AppendList, Zenon
  <2> QED BY <2>3, <2>4, <2>5 DEF b, l, d
<1>7. ASSUME NEW x \in Partitions PROVE ListsOK(x, q2)
  <2>1. ListsOK(x, q) BY Zenon DEF Books
  <2> QED BY <1>3, <1>6, <2>1, Zenon DEF ListsOK
<1>8. InList(s, <<>>) = {} /\ Own(s, <<>>) /\ Ascending(<<>>) BY DEF InList, Own, Ascending
<1>9. \A x \in Partitions : Way(s, x, c2, q2) = Way(s, x, c, q)
  BY <1>3, <1>6, <1>8, Zenon DEF Way, SameBut
<1>10. SourceBooks(s, po, last, all, c2, q2)
  <2>1. AllOK(s, po, all, c2, q2)
    <3>1. AllOK(s, po, all, c, q) BY <1>2, Zenon DEF SourceBooks
    <3> QED BY <1>9, <3>1 DEF AllOK
  <2>2. ASSUME NEW x \in Partitions PROVE PlaceOK(s, x, po, last, all, c2, q2)
    <3>1. PlaceOK(s, x, po, last, all, c, q) BY <1>2, Zenon DEF SourceBooks
    <3> QED BY <1>9, <3>1, Zenon DEF PlaceOK
  <2>3. ASSUME NEW x \in Partitions PROVE OwnOK(s, x, c2, q2)
    <3>1. CASE x = p BY <1>8, <3>1, Zenon DEF OwnOK, Before
    <3>2. CASE x # p
      <4>1. OwnOK(s, x, c, q) /\ c2[s][x] = c[s][x] /\ q2[x] = q[x]
        BY <1>2, <1>3, <3>2, Zenon DEF SourceBooks, SameBut
      <4> QED BY <4>1, Zenon DEF OwnOK
    <3> QED BY <3>1, <3>2, Zenon
  <2> QED BY <2>1, <2>2, <2>3, Zenon DEF SourceBooks
<1>11. ASSUME NEW r \in Sources PROVE SourceBooks(r, po, last, all, c2, q2)
  <2>1. CASE r = s BY <1>10, <2>1, Zenon
  <2>2. CASE r # s
    <3>1. SameOf(r, po, last, all, c, q, po, last, all, c2, q2)
      BY <1>3, <1>6, <2>2, Zenon DEF SameBut, SameOf
    <3>2. SourceBooks(r, po, last, all, c, q) BY Zenon DEF Books
    <3> QED BY <3>1, <3>2, OtherBooks
  <2> QED BY <2>1, <2>2, Zenon
<1> QED BY <1>4, <1>7, <1>11, Zenon DEF Books

\* m, the first message that waits in p, is injected.
Injects(p, m, last, all, q, last2, all2, q2) ==
  /\ q[p] # <<>> /\ m = FirstOf(q[p])
  /\ q2 = [q EXCEPT ![p] = WithoutFirst(q[p])]
  /\ last2 = [last EXCEPT ![p][m[1]] = m[2]]
  /\ all2 = [all EXCEPT ![m[1]] = @ \cup {m[2]}]

\* The first message that waits in a partition is injected.
LEMMA BooksInject ==
  ASSUME NEW po, NEW last, NEW all, NEW c, NEW q, NEW last2, NEW all2, NEW q2,
         NEW p \in Partitions, NEW m,
         Books(po, last, all, c, q), Injects(p, m, last, all, q, last2, all2, q2)
  PROVE  /\ Books(po, last2, all2, c, q2)
         /\ m[1] \in Sources /\ m[2] \in Nat /\ last[p][m[1]] < m[2]
<1> USE DEF Injects
<1> DEFINE S == Seq(Message)
           s == m[1]
           n == m[2]
<1>0. BookTypes(po, last, all, c, q) BY Zenon DEF Books
<1>1. q[p] \in Seq(Seq(Message)) BY <1>0, PieceTypes, Zenon
<1>2. ListsOK(p, q) BY Zenon DEF Books
<1>3. \E d : d = WithoutFirst(q[p]) OBVIOUS
<1>4. PICK d : d = WithoutFirst(q[p]) BY <1>3, Zenon
<1>5. /\ d \in Seq(Seq(Message)) /\ Full(d) /\ InOrder(d)
      /\ m[1] \in Sources /\ m[2] \in Nat
      /\ \A r \in Sources : r # m[1] => InLists(r, d) = InLists(r, q[p])
      /\ InLists(m[1], q[p]) = InLists(m[1], d) \cup {m[2]}
      /\ \A k \in InLists(m[1], d) : m[2] < k
  <2>1. Full(q[p]) /\ InOrder(q[p]) BY <1>2, Zenon DEF ListsOK
  <2> DEFINE l == q[p]
  <2>2. l \in Seq(Seq(Message)) /\ l # <<>> /\ d = WithoutFirst(l) /\ m = FirstOf(l) BY <1>1, <1>4
  <2>3. Full(l) /\ InOrder(l) BY <2>1
  <2> HIDE DEF l
  <2>4. d \in Seq(Seq(Message)) /\ Full(d) /\ InOrder(d) BY <2>2, <2>3, WithoutFirstFacts, Zenon
  <2>5. m[1] \in Sources /\ m[2] \in Nat BY <2>2, <2>3, WithoutFirstFacts, Zenon
  <2>6. \A r \in Sources : r # m[1] => InLists(r, d) = InLists(r, l) BY <2>2, <2>3, WithoutFirstFacts
  <2>7. InLists(m[1], l) = InLists(m[1], d) \cup {m[2]} BY <2>2, <2>3, WithoutFirstFacts
  <2>8. \A k \in InLists(m[1], d) : m[2] < k BY <2>2, <2>3, WithoutFirstFacts
  <2> QED BY <2>4, <2>5, <2>6, <2>7, <2>8 DEF l
<1>6. s \in Sources /\ n \in Nat BY <1>5
<1>7. /\ q2 \in [Partitions -> Seq(Seq(Message))] /\ q2[p] = d
      /\ \A x \in Partitions : x # p => q2[x] = q[x]
  <2>1. q \in [Partitions -> Seq(S)] /\ d \in Seq(S) BY <1>0, <1>5, Zenon DEF BookTypes
  <2>2. q2 = [q EXCEPT ![p] = d] BY <1>4
  <2> HIDE DEF S
  <2>3. /\ q2 \in [Partitions -> Seq(S)] /\ q2[p] = d /\ \A x \in Partitions : x # p => q2[x] = q[x]
    BY <2>1, <2>2, Zenon
  <2> QED BY <2>3 DEF S
<1>8. /\ last2 \in [Partitions -> [Sources -> Nat]] /\ last2[p][s] = n
      /\ \A x \in Partitions, r \in Sources : x # p \/ r # s => last2[x][r] = last[x][r]
  <2>1. last \in [Partitions -> [Sources -> Nat]] BY <1>0, Zenon DEF BookTypes
  <2>2. last2 = [last EXCEPT ![p][s] = n] OBVIOUS
  <2> HIDE DEF s, n
  <2> DEFINE row == [last[p] EXCEPT ![s] = n]
  <2>3. last[p] \in [Sources -> Nat] BY <2>1, Zenon
  <2>4. row \in [Sources -> Nat] /\ row[s] = n /\ \A r \in Sources : r # s => row[r] = last[p][r]
    BY <1>6, <2>3, Zenon
  <2>5. last2 = [last EXCEPT ![p] = row] BY <2>2
  <2> HIDE DEF row
  <2>6. /\ last2 \in [Partitions -> [Sources -> Nat]] /\ last2[p] = row
        /\ \A x \in Partitions : x # p => last2[x] = last[x]
    BY <2>1, <2>4, <2>5, Zenon
  <2> QED BY <2>4, <2>6, Zenon
<1>9. /\ all2 \in [Sources -> SUBSET Nat] /\ all2[s] = all[s] \cup {n}
      /\ \A r \in Sources : r # s => all2[r] = all[r]
  <2>1. all \in [Sources -> SUBSET Nat] BY <1>0, Zenon DEF BookTypes
  <2>2. all2 = [all EXCEPT ![s] = all[s] \cup {n}] OBVIOUS
  <2> HIDE DEF s, n
  <2>3. all[s] \cup {n} \in SUBSET Nat BY <1>6, <2>1
  <2> QED BY <1>6, <2>1, <2>2, <2>3, Zenon
<1>10. BookTypes(po, last2, all2, c, q2) BY <1>0, <1>7, <1>8, <1>9, Zenon DEF BookTypes
<1>11. /\ \A r \in Sources : r # s => InLists(r, d) = InLists(r, q[p])
       /\ InLists(s, q[p]) = InLists(s, d) \cup {n}
       /\ \A k \in InLists(s, d) : n < k
  BY <1>5
<1> HIDE DEF s, n
<1>12. SourceBooks(s, po, last, all, c, q) BY <1>6, Zenon DEF Books
<1>13. PlaceOK(s, p, po, last, all, c, q) /\ OwnOK(s, p, c, q) BY <1>12, Zenon DEF SourceBooks
<1>14. n \in Way(s, p, c, q) BY <1>11, Zenon DEF Way
<1>15. n \in 1 .. po[s] /\ n \notin all[s] /\ last[p][s] < n BY <1>13, <1>14, Zenon DEF PlaceOK
<1>16. \A x \in Partitions : x # p => Way(s, x, c, q2) = Way(s, x, c, q) BY <1>7, Zenon DEF Way
<1>17. Way(s, p, c, q) = Way(s, p, c, q2) \cup {n} BY <1>7, <1>11, Zenon DEF Way
<1>18. \A k \in Way(s, p, c, q2) : n < k
  <2>1. \A k \in InList(s, c[s][p]) : n < k BY <1>11, <1>13, Zenon DEF OwnOK, Before
  <2> QED BY <1>7, <1>11, <2>1, Zenon DEF Way
<1>19. ASSUME NEW k \in Way(s, p, c, q2) PROVE k # n
  <2>1. n < k BY <1>18, <1>19, Zenon
  <2> QED BY <1>6, <2>1
<1>20. ASSUME NEW x \in Partitions PROVE ListsOK(x, q2)
  <2>1. ListsOK(x, q) BY Zenon DEF Books
  <2> QED BY <1>5, <1>7, <2>1, Zenon DEF ListsOK
<1>21. AllOK(s, po, all2, c, q2)
  <2>1. AllOK(s, po, all, c, q) BY <1>12, Zenon DEF SourceBooks
  <2>2. all2[s] \subseteq 1 .. po[s] BY <1>9, <1>15, <2>1, Zenon DEF AllOK
  <2>3. ASSUME NEW k \in 1 .. po[s] PROVE k \in all2[s] \/ \E x \in Partitions : k \in Way(s, x, c, q2)
    BY <1>9, <1>16, <1>17, <2>1, Zenon DEF AllOK
  <2> QED BY <2>2, <2>3, Zenon DEF AllOK
<1>22. ASSUME NEW x \in Partitions PROVE PlaceOK(s, x, po, last2, all2, c, q2)
  <2>1. PlaceOK(s, x, po, last, all, c, q) BY <1>12, Zenon DEF SourceBooks
  <2>2. po[s] \in Nat BY <1>0, <1>6, PieceTypes, Zenon
  <2>3. last2[x][s] <= po[s]
    <3>1. CASE x = p BY <1>8, <1>15, <2>2, <3>1
    <3>2. CASE x # p BY <1>6, <1>8, <2>1, <3>2, Zenon DEF PlaceOK
    <3> QED BY <3>1, <3>2, Zenon
  <2>4. ASSUME NEW k \in Way(s, x, c, q2)
        PROVE  /\ k \in 1 .. po[s] /\ k \notin all2[s] /\ last2[x][s] < k
               /\ \A r \in Partitions : r # x => k \notin Way(s, r, c, q2)
    <3>1. k \in Way(s, x, c, q) BY <1>16, <1>17, <2>4, Zenon
    <3>2. k # n
      <4>1. CASE x = p BY <1>19, <2>4, <4>1, Zenon
      <4>2. CASE x # p
        <5>1. n \notin Way(s, x, c, q) BY <1>13, <1>14, <4>2, Zenon DEF PlaceOK
        <5> QED BY <3>1, <5>1, Zenon
      <4> QED BY <4>1, <4>2, Zenon
    <3>3. k \in 1 .. po[s] /\ k \notin all[s] /\ last[x][s] < k
      BY <2>1, <3>1, Zenon DEF PlaceOK
    <3>4. \A r \in Partitions : r # x => k \notin Way(s, r, c, q) BY <2>1, <3>1, Zenon DEF PlaceOK
    <3>5. \A r \in Partitions : r # x => k \notin Way(s, r, c, q2) BY <1>16, <1>17, <3>4, Zenon
    <3>6. last2[x][s] < k
      <4>1. CASE x = p BY <1>8, <1>18, <2>4, <4>1, Zenon
      <4>2. CASE x # p BY <1>6, <1>8, <3>3, <4>2, Zenon
      <4> QED BY <4>1, <4>2, Zenon
    <3>7. k \notin all2[s] BY <1>9, <3>2, <3>3, Zenon
    <3> QED BY <3>3, <3>5, <3>6, <3>7, Zenon
  <2> QED BY <2>3, <2>4, Zenon DEF PlaceOK
<1>23. ASSUME NEW x \in Partitions PROVE OwnOK(s, x, c, q2)
  <2>1. OwnOK(s, x, c, q) BY <1>12, Zenon DEF SourceBooks
  <2>2. InLists(s, q2[x]) \subseteq InLists(s, q[x]) BY <1>7, <1>11, Zenon
  <2> QED BY <2>1, <2>2, Zenon DEF OwnOK, Before
<1>24. ASSUME NEW r \in Sources PROVE SourceBooks(r, po, last2, all2, c, q2)
  <2>1. CASE r = s BY <1>21, <1>22, <1>23, <2>1, Zenon DEF SourceBooks
  <2>2. CASE r # s
    <3>1. \A x \in Partitions : InLists(r, q2[x]) = InLists(r, q[x]) BY <1>7, <1>11, <2>2, Zenon
    <3>2. SameOf(r, po, last, all, c, q, po, last2, all2, c, q2)
      BY <1>8, <1>9, <2>2, <3>1, Zenon DEF SameOf
    <3>3. SourceBooks(r, po, last, all, c, q) BY Zenon DEF Books
    <3> QED BY <3>2, <3>3, OtherBooks
  <2> QED BY <2>1, <2>2, Zenon
<1>25. Books(po, last2, all2, c, q2) BY <1>10, <1>20, <1>24, Zenon DEF Books
<1> QED BY <1>6, <1>15, <1>25 DEF s, n

-----------------------------------------------------------------------------
(* The books of a state.                                                   *)

Collected == [s \in Sources |-> state[s].batch]
Waiting == [p \in Partitions |-> part[p].taken \o part[p].batches]

MessageTypes ==
  /\ DOMAIN injected = {"last", "all"}
  /\ \A s \in Sources : state[s].last \in Partitions /\ state[s].batch \in [Partitions -> Seq(Message)]
  /\ \A p \in Partitions : part[p].taken \in Seq(Seq(Message)) /\ part[p].batches \in Seq(Seq(Message))

MInv == MessageTypes /\ Books(posted, injected.last, injected.all, Collected, Waiting)

\* A step that moves no message from one list to another.
LEMMA BooksStay ==
  ASSUME MInv, posted' = posted, injected' = injected, MessageTypes',
         \A s \in Sources : state'[s].batch = state[s].batch,
         \A p \in Partitions : part'[p].taken \o part'[p].batches = part[p].taken \o part[p].batches
  PROVE  MInv'
<1>1. Collected' = Collected BY Zenon DEF Collected
<1>2. Waiting' = Waiting BY Zenon DEF Waiting
<1> QED BY <1>1, <1>2, Zenon DEF MInv

\* A step that leaves the lists alone.
LEMMA BooksUnchanged ==
  ASSUME MInv, UNCHANGED <<state, part, injected, posted>> PROVE MInv'
<1>1. state' = state /\ part' = part /\ injected' = injected /\ posted' = posted OBVIOUS
<1>2. MessageTypes' BY <1>1, Zenon DEF MInv, MessageTypes
<1> QED BY <1>1, <1>2, BooksStay, Zenon

\* The partition of a message, and the state that is left.
LEMMA PartitionIndexFacts ==
  ASSUME IInv, MInv, NEW s \in Sources, NEW n \in Nat, NEW i, i = PartitionIndex(s, <<s, n>>)
  PROVE  /\ i.p \in Partitions /\ i.st.last \in Partitions /\ i.st.batch = state[s].batch
         /\ DOMAIN i.st = {"countdown", "last", "num", "batch"}
<1>1. NumPartitions \in Nat /\ NumPartitions > 0 BY SourceConstants
<1>2. \A k \in Nat : k % NumPartitions \in Partitions BY <1>1 DEF Partitions
<1>3. DOMAIN state[s] = {"countdown", "last", "num", "batch"} BY Zenon DEF IInv, SchedTypes
<1>4. state[s].last \in Partitions /\ state[s].last + 1 \in Nat
  BY <1>1 DEF MInv, MessageTypes, Partitions
<1>5. Hash(<<s, n>>) = n BY DEF Hash
<1> DEFINE st1 == [state[s] EXCEPT !.countdown = @ - 1]
           st2 == [state[s] EXCEPT !.countdown = options.size, !.last = (state[s].last + 1) % NumPartitions]
<1>6. \/ i = [p |-> n % NumPartitions, st |-> state[s]]
      \/ i = [p |-> state[s].last, st |-> st1]
      \/ i = [p |-> state[s].last, st |-> st2]
  BY <1>5 DEF PartitionIndex
<1>7. DOMAIN st1 = {"countdown", "last", "num", "batch"} /\ st1.last = state[s].last /\ st1.batch = state[s].batch
  BY <1>3
<1>8. /\ DOMAIN st2 = {"countdown", "last", "num", "batch"} /\ st2.batch = state[s].batch
      /\ st2.last = (state[s].last + 1) % NumPartitions
  BY <1>3
<1> HIDE DEF st1, st2
<1>9. i.p \in {n % NumPartitions, state[s].last} /\ i.st \in {state[s], st1, st2} BY <1>6
<1> QED BY <1>2, <1>3, <1>4, <1>7, <1>8, <1>9

\* A source posts a message.
LEMMA PostBooks == ASSUME IInv, MInv, NEW s \in Sources, Post(s) PROVE MInv'
<1> DEFINE n == posted[s] + 1
           i == PartitionIndex(s, <<s, n>>)
           st == [i.st EXCEPT !.num = @ + 1, !.batch[i.p] = Append(@, <<s, n>>)]
<1>0. Books(posted, injected.last, injected.all, Collected, Waiting) /\ MessageTypes BY Zenon DEF MInv
<1>1. posted \in [Sources -> Nat] /\ posted[s] \in Nat /\ n \in Nat
  <2>1. posted \in [Sources -> Nat] BY <1>0, Zenon DEF Books, BookTypes
  <2> QED BY <2>1
<1>2. /\ posted' = [posted EXCEPT ![s] = @ + 1] /\ state' = [state EXCEPT ![s] = st]
      /\ part' = part /\ injected' = injected
  BY DEF Post, Push
<1>3. /\ i.p \in Partitions /\ i.st.last \in Partitions /\ i.st.batch = state[s].batch
      /\ DOMAIN i.st = {"countdown", "last", "num", "batch"}
  BY <1>1, PartitionIndexFacts
<1>4. state[s].batch \in [Partitions -> Seq(Message)] BY <1>0, Zenon DEF MessageTypes
<1>5. <<s, n>> \in Message BY <1>1 DEF Message
<1> DEFINE p == i.p
           b == [state[s].batch EXCEPT ![p] = Append(state[s].batch[p], <<s, n>>)]
<1>6. st.batch = b /\ st.last = i.st.last BY <1>3
<1> HIDE DEF n, i, st
<1>7. Append(state[s].batch[p], <<s, n>>) \in Seq(Message) BY <1>3, <1>4, <1>5
<1>8. /\ b \in [Partitions -> Seq(Message)] /\ b[p] = Append(state[s].batch[p], <<s, n>>)
      /\ \A x \in Partitions : x # p => b[x] = state[s].batch[x]
  BY <1>3, <1>4, <1>7, Zenon
<1> HIDE DEF b
<1>9. DOMAIN state = Sources BY Zenon DEF IInv, SchedTypes
<1>10. state'[s] = st /\ \A r \in Sources : r # s => state'[r] = state[r] BY <1>2, <1>9, Zenon
<1>11. MessageTypes' BY <1>0, <1>2, <1>3, <1>6, <1>8, <1>10, Zenon DEF MessageTypes
<1>12. Collected' \in [Sources -> [Partitions -> Seq(Message)]]
  <2>1. \A r \in Sources : state'[r].batch \in [Partitions -> Seq(Message)] BY <1>11, Zenon DEF MessageTypes
  <2> QED BY <2>1, Zenon DEF Collected
<1>13. Collected'[s][p] = Append(Collected[s][p], <<s, posted[s] + 1>>)
  BY <1>6, <1>8, <1>10, Zenon DEF Collected, n
<1>14. SameBut(Collected, Collected', s, p) BY <1>6, <1>8, <1>10, Zenon DEF SameBut, Collected
<1>15. Waiting' = Waiting BY <1>2, Zenon DEF Waiting
<1>16. Books(posted', injected.last, injected.all, Collected', Waiting)
  <2> DEFINE c == Collected
             c2 == Collected'
             po == posted
             po2 == posted'
  <2>1. /\ Books(po, injected.last, injected.all, c, Waiting) /\ p \in Partitions
        /\ po2 = [po EXCEPT ![s] = @ + 1] /\ c2 \in [Sources -> [Partitions -> Seq(Message)]]
        /\ SameBut(c, c2, s, p) /\ c2[s][p] = Append(c[s][p], <<s, po[s] + 1>>)
    BY <1>0, <1>2, <1>3, <1>12, <1>13, <1>14
  <2> HIDE DEF c, c2, po, po2, p
  <2>2. Books(po2, injected.last, injected.all, c2, Waiting) BY <2>1, BooksPost
  <2> QED BY <2>2 DEF c2, po2
<1> QED BY <1>2, <1>11, <1>15, <1>16, Zenon DEF MInv

\* The joints of two lists.
LEMMA JointFacts ==
  ASSUME NEW S, NEW a \in Seq(S), NEW b \in Seq(S)
  PROVE  /\ <<>> \in Seq(S) /\ <<>> \o b = b /\ a \o <<>> = a /\ a \o b \in Seq(S)
         /\ \A e \in S : Append(b, e) \in Seq(S) /\ a \o Append(b, e) = Append(a \o b, e)
OBVIOUS

\* A step on one partition whose lists together stay as they are.
LEMMA PartStay ==
  ASSUME IInv, MInv, NEW p \in Partitions, NEW x, part' = [part EXCEPT ![p] = x],
         UNCHANGED <<posted, injected>>,
         \A s \in Sources : state'[s].batch = state[s].batch /\ state'[s].last = state[s].last,
         x.taken \in Seq(Seq(Message)), x.batches \in Seq(Seq(Message)),
         x.taken \o x.batches = part[p].taken \o part[p].batches
  PROVE  MInv'
<1>1. DOMAIN part = Partitions BY Zenon DEF IInv, SchedTypes
<1>2. part'[p] = x /\ \A q \in Partitions : q # p => part'[q] = part[q] BY <1>1, Zenon
<1>3. \A q \in Partitions : part'[q].taken \o part'[q].batches = part[q].taken \o part[q].batches
  BY <1>2, Zenon
<1>4. MessageTypes' BY <1>2, Zenon DEF MInv, MessageTypes
<1> QED BY <1>3, <1>4, BooksStay, Zenon

\* The job takes the batches.
LEMMA TakeBatchesBooks ==
  ASSUME IInv, MInv, NEW p \in Partitions, TakeBatches(p), UNCHANGED srcVars PROVE MInv'
<1> DEFINE x == IF part[p].batches = <<>> THEN [part[p] EXCEPT !.job = "done"]
                ELSE [part[p] EXCEPT !.batches = <<>>, !.taken = part[p].batches]
           S == Seq(Message)
<1>1. /\ part' = [part EXCEPT ![p] = x] /\ part[p].taken = <<>>
      /\ UNCHANGED <<posted, injected>> /\ state' = state
  BY DEF TakeBatches, srcVars
<1>2. part[p].taken \in Seq(S) /\ part[p].batches \in Seq(S) BY Zenon DEF MInv, MessageTypes
<1>3. DOMAIN part[p] = {"batches", "running", "job", "taken"} BY PartValues, Zenon
<1>4. \/ x.taken = part[p].taken /\ x.batches = part[p].batches
      \/ x.taken = part[p].batches /\ x.batches = <<>>
  BY <1>3
<1> HIDE DEF x, S
<1>a. /\ <<>> \in Seq(S) /\ <<>> \o part[p].batches = part[p].batches
      /\ part[p].batches \o <<>> = part[p].batches
  BY <1>2, JointFacts, Zenon
<1>5. x.taken \in Seq(S) /\ x.batches \in Seq(S) BY <1>2, <1>4, <1>a, Zenon
<1>6. x.taken \o x.batches = part[p].taken \o part[p].batches BY <1>1, <1>4, <1>a, Zenon
<1> QED BY <1>1, <1>5, <1>6, PartStay DEF S

\* The job ends.
LEMMA CompleteBooks ==
  ASSUME IInv, MInv, NEW p \in Partitions, Complete(p), UNCHANGED srcVars PROVE MInv'
<1> DEFINE x == [part[p] EXCEPT !.running = part[p].batches # <<>>,
                                !.job = IF part[p].batches # <<>> /\ ~quit THEN "working" ELSE "idle"]
<1>1. UNCHANGED <<posted, injected>> /\ state' = state BY DEF Complete, srcVars
<1>2. part' = [part EXCEPT ![p] = x] BY PartValues DEF Complete
<1>3. DOMAIN part[p] = {"batches", "running", "job", "taken"} BY PartValues, Zenon
<1>4. x.taken = part[p].taken /\ x.batches = part[p].batches BY <1>3
<1>5. part[p].taken \in Seq(Seq(Message)) /\ part[p].batches \in Seq(Seq(Message)) BY Zenon DEF MInv, MessageTypes
<1> HIDE DEF x
<1>6. \A s \in Sources : state'[s].batch = state[s].batch /\ state'[s].last = state[s].last BY <1>1, Zenon
<1> QED BY <1>1, <1>2, <1>4, <1>5, <1>6, PartStay, Zenon

\* The job is submitted.
LEMMA SubmitBooks ==
  ASSUME IInv, MInv, NEW s \in Sources, SubmitContinuation(s), UNCHANGED srcVars PROVE MInv'
<1>1. /\ flush \in [Sources -> FlushRec] /\ flush[s].at < NumPartitions /\ NumPartitions \in Nat
      /\ DOMAIN state = Sources /\ DOMAIN state[s] = {"countdown", "last", "num", "batch"}
  BY Values, SourceConstants DEF SubmitContinuation, IInv, SchedTypes, FlushRec, BatchOK
<1>2. PICK p \in Partitions : p = flush[s].at BY <1>1 DEF Partitions, FlushRec
<1> DEFINE x == [part[p] EXCEPT !.job = "working"]
<1>3. /\ part' = [part EXCEPT ![p] = x] /\ UNCHANGED <<posted, injected>>
      /\ state' = [state EXCEPT ![s].num = IF flush'[s] = NotFlushing THEN 0 ELSE @]
  BY <1>2, PartValues DEF SubmitContinuation, srcVars
<1>4. DOMAIN part[p] = {"batches", "running", "job", "taken"} BY <1>2, PartValues, Zenon
<1>5. x.taken = part[p].taken /\ x.batches = part[p].batches BY <1>4
<1>6. part[p].taken \in Seq(Seq(Message)) /\ part[p].batches \in Seq(Seq(Message))
  BY <1>2, Zenon DEF MInv, MessageTypes
<1> HIDE DEF x
<1>7. \A r \in Sources : state'[r].batch = state[r].batch /\ state'[r].last = state[r].last BY <1>1, <1>3
<1> QED BY <1>2, <1>3, <1>5, <1>6, <1>7, PartStay, Zenon

\* A batch is added.
LEMMA AddBatchBooks ==
  ASSUME IInv, MInv, NEW s \in Sources, AddBatch(s), UNCHANGED srcVars PROVE MInv'
<1> DEFINE S == Seq(Message)
<1>0. Books(posted, injected.last, injected.all, Collected, Waiting) /\ MessageTypes BY Zenon DEF MInv
<1>1. /\ flush \in [Sources -> FlushRec] /\ flush[s].at < NumPartitions /\ NumPartitions \in Nat
      /\ DOMAIN state = Sources /\ DOMAIN state[s] = {"countdown", "last", "num", "batch"}
  BY SourceConstants, Zenon DEF AddBatch, IInv, SchedTypes, FlushRec
<1>2. PICK p \in Partitions : p = flush[s].at BY <1>1 DEF Partitions, FlushRec
<1>3. /\ state' = [state EXCEPT ![s].batch[p] = <<>>, ![s].num = IF flush'[s] = NotFlushing THEN 0 ELSE @]
      /\ posted' = posted /\ injected' = injected
  BY <1>2 DEF AddBatch, srcVars
<1> DEFINE b == state[s].batch
           d == [b EXCEPT ![p] = <<>>]
<1>4. /\ \A r \in Sources : r # s => state'[r] = state[r]
      /\ state'[s].batch = d /\ state'[s].last = state[s].last
  BY <1>1, <1>3
<1>5. b \in [Partitions -> S] /\ part[p].taken \in Seq(S) /\ part[p].batches \in Seq(S)
  BY <1>0, <1>2, Zenon DEF MessageTypes
<1>6. d \in [Partitions -> S] /\ d[p] = <<>> /\ \A x \in Partitions : x # p => d[x] = b[x]
  <2>1. <<>> \in S OBVIOUS
  <2> HIDE DEF S, b
  <2> QED BY <1>2, <1>5, <2>1, Zenon
<1>7. CASE b[p] = <<>>
  <2>1. part' = part BY <1>2, <1>7 DEF AddBatch
  <2>2. d = b
    <3> HIDE DEF S, b
    <3> QED BY <1>2, <1>5, <1>7, Zenon
  <2> HIDE DEF d
  <2>3. \A r \in Sources : state'[r].batch = state[r].batch /\ state'[r].last = state[r].last
    BY <1>4, <2>2, Zenon
  <2>4. MessageTypes' BY <1>0, <1>3, <2>1, <2>3, Zenon DEF MessageTypes
  <2> QED BY <1>3, <2>1, <2>3, <2>4, BooksStay, Zenon
<1>8. CASE b[p] # <<>>
  <2> DEFINE x == part'[p]
  <2>1. part' = [part EXCEPT ![p].batches = Append(@, b[p]), ![p].running = @ \/ (~part[p].running /\ part[p].batches = <<>>)]
    BY <1>2, <1>8, ZenonT(30) DEF AddBatch
  <2>2. /\ \A q \in Partitions : q # p => part'[q] = part[q]
        /\ part'[p].taken = part[p].taken /\ part'[p].batches = Append(part[p].batches, b[p])
    BY <1>2, <2>1, PartValues, ZenonT(30)
  <2>3. b[p] \in S BY <1>2, <1>5, Zenon
  <2> HIDE DEF b, d, S
  <2>4. /\ part'[p].batches \in Seq(S)
        /\ part'[p].taken \o part'[p].batches = Append(part[p].taken \o part[p].batches, b[p])
    <3>1. \A e \in S : /\ Append(part[p].batches, e) \in Seq(S)
                       /\ part[p].taken \o Append(part[p].batches, e) = Append(part[p].taken \o part[p].batches, e)
      <4> DEFINE t == part[p].taken
                 u == part[p].batches
      <4>1. t \in Seq(S) /\ u \in Seq(S) BY <1>5
      <4> HIDE DEF t, u
      <4>2. \A e \in S : Append(u, e) \in Seq(S) /\ t \o Append(u, e) = Append(t \o u, e) BY <4>1
      <4> QED BY <4>2 DEF t, u
    <3> QED BY <2>2, <2>3, <3>1, Zenon
  <2>5. \A q \in Partitions : part'[q].taken \in Seq(S) /\ part'[q].batches \in Seq(S)
    <3>1. \A q \in Partitions : part[q].taken \in Seq(S) /\ part[q].batches \in Seq(S)
      BY <1>0, Zenon DEF MessageTypes, S
    <3> QED BY <1>5, <2>2, <2>4, <3>1, Zenon
  <2>6. \A r \in Sources : state'[r].last \in Partitions /\ state'[r].batch \in [Partitions -> S]
    <3>1. \A r \in Sources : state[r].last \in Partitions /\ state[r].batch \in [Partitions -> S]
      BY <1>0, Zenon DEF MessageTypes, S
    <3> QED BY <1>4, <1>6, <3>1, Zenon
  <2>7. MessageTypes' BY <1>0, <1>3, <2>5, <2>6, Zenon DEF MessageTypes, S
  <2>8. Collected' \in [Sources -> [Partitions -> Seq(Message)]] BY <2>6, Zenon DEF Collected, S
  <2>9. Collected'[s][p] = <<>> /\ Collected[s][p] = b[p] BY <1>4, <1>6, Zenon DEF Collected, b
  <2>10. SameBut(Collected, Collected', s, p) BY <1>4, <1>6, Zenon DEF SameBut, Collected, b
  <2>11. Waiting' = [Waiting EXCEPT ![p] = Append(Waiting[p], Collected[s][p])]
    <3>1. Waiting[p] = part[p].taken \o part[p].batches BY <1>2, Zenon DEF Waiting
    <3>2. \A q \in Partitions : part'[q].taken \o part'[q].batches =
                                  IF q = p THEN Append(Waiting[p], Collected[s][p])
                                  ELSE part[q].taken \o part[q].batches
      BY <2>2, <2>4, <2>9, <3>1, Zenon
    <3> QED BY <3>2, Zenon DEF Waiting
  <2> DEFINE c == Collected
             c2 == Collected'
             q == Waiting
             q2 == Waiting'
  <2>12. Books(posted, injected.last, injected.all, c, q) /\ Adds(s, p, c, q, c2, q2)
    BY <1>0, <1>8, <2>8, <2>9, <2>10, <2>11, Zenon DEF Adds
  <2> HIDE DEF c, c2, q, q2
  <2>13. Books(posted, injected.last, injected.all, c2, q2)
    BY <1>2, <2>12, BooksAdd, SMTT(30)
  <2> QED BY <1>3, <2>7, <2>13, Zenon DEF MInv, c2, q2
<1> QED BY <1>7, <1>8, Zenon

\* The first message of lists that are joined.
LEMMA FirstOfJoint ==
  ASSUME NEW t \in Seq(Seq(Message)), NEW u \in Seq(Seq(Message)), t # <<>>, Full(t \o u)
  PROVE  /\ t \o u # <<>> /\ FirstOf(t \o u) = FirstOf(t)
         /\ WithoutFirst(t) \in Seq(Seq(Message)) /\ WithoutFirst(t \o u) = WithoutFirst(t) \o u
<1> DEFINE S == Seq(Message)
           h == Head(t)
           tl == Tail(t)
           b == Tail(h)
<1>1. t \in Seq(S) /\ u \in Seq(S) OBVIOUS
<1>2. h \in S /\ h # <<>>
  <2> HIDE DEF S
  <2>1. 1 \in DOMAIN (t \o u) /\ (t \o u)[1] = h /\ h \in S BY <1>1
  <2> QED BY <2>1 DEF Full
<1>3. b \in S BY <1>2
<1> HIDE DEF S, b
<1>4. /\ t \o u # <<>> /\ Head(t \o u) = h /\ Tail(t \o u) = tl \o u /\ tl \in Seq(S)
  BY <1>1
<1> HIDE DEF h, tl
<1>5. <<b>> \o tl \in Seq(S) /\ <<b>> \o (tl \o u) = (<<b>> \o tl) \o u
  <2>1. ASSUME NEW x \in Seq(S), NEW y \in Seq(S), NEW z \in Seq(S)
        PROVE  x \o y \in Seq(S) /\ x \o (y \o z) = (x \o y) \o z
    <3>1. x \o y \in Seq(S) OBVIOUS
    <3>2. x \o (y \o z) = (x \o y) \o z BY SMTT(30)
    <3> QED BY <3>1, <3>2
  <2>2. <<b>> \in Seq(S) BY <1>3
  <2> QED BY <1>1, <1>4, <2>1, <2>2, Zenon
<1>6. WithoutFirst(t) = IF Len(h) = 1 THEN tl ELSE <<b>> \o tl BY DEF WithoutFirst, h, tl, b
<1>7. WithoutFirst(t \o u) = IF Len(h) = 1 THEN tl \o u ELSE <<b>> \o (tl \o u)
  BY <1>4 DEF WithoutFirst, b
<1>8. FirstOf(t \o u) = FirstOf(t) BY <1>4 DEF FirstOf, h
<1>9. WithoutFirst(t) \in Seq(S) /\ WithoutFirst(t \o u) = WithoutFirst(t) \o u
  BY <1>4, <1>5, <1>6, <1>7, Zenon
<1> QED BY <1>4, <1>8, <1>9 DEF S

\* A message is injected.
LEMMA InjectBooks == ASSUME IInv, MInv, NEW p \in Partitions, InjectMsg(p) PROVE MInv'
<1> DEFINE t == part[p].taken
           u == part[p].batches
           m == FirstOf(t)
<1>0. Books(posted, injected.last, injected.all, Collected, Waiting) /\ MessageTypes BY Zenon DEF MInv
<1>1. /\ t # <<>> /\ state' = state /\ posted' = posted
      /\ part' = [part EXCEPT ![p].taken = WithoutFirst(@)]
      /\ injected' = [injected EXCEPT !.last[p][m[1]] = m[2], !.all[m[1]] = @ \cup {m[2]}]
  BY Zenon DEF InjectMsg, Reinject
<1>2. t \in Seq(Seq(Message)) /\ u \in Seq(Seq(Message)) BY <1>0, Zenon DEF MessageTypes
<1>3. Waiting[p] = t \o u BY Zenon DEF Waiting
<1>4. Full(t \o u) BY <1>0, <1>3, Zenon DEF Books, ListsOK
<1>5. /\ t \o u # <<>> /\ FirstOf(t \o u) = m
      /\ WithoutFirst(t) \in Seq(Seq(Message)) /\ WithoutFirst(t \o u) = WithoutFirst(t) \o u
  BY <1>1, <1>2, <1>4, FirstOfJoint, Zenon
<1>6. /\ \A q \in Partitions : q # p => part'[q] = part[q]
      /\ part'[p].taken = WithoutFirst(t) /\ part'[p].batches = u
  BY <1>1, PartValues, Zenon
<1>7. /\ DOMAIN injected' = {"last", "all"}
      /\ injected'.last = [injected.last EXCEPT ![p][m[1]] = m[2]]
      /\ injected'.all = [injected.all EXCEPT ![m[1]] = @ \cup {m[2]}]
  <2>1. DOMAIN injected = {"last", "all"} BY <1>0, Zenon DEF MessageTypes
  <2> HIDE DEF m
  <2> QED BY <1>1, <2>1
<1> HIDE DEF m
<1>8. MessageTypes'
  <2>1. \A q \in Partitions : part'[q].taken \in Seq(Seq(Message)) /\ part'[q].batches \in Seq(Seq(Message))
    <3>1. \A q \in Partitions : part[q].taken \in Seq(Seq(Message)) /\ part[q].batches \in Seq(Seq(Message))
      BY <1>0, Zenon DEF MessageTypes
    <3> QED BY <1>2, <1>5, <1>6, <3>1, Zenon
  <2> QED BY <1>0, <1>1, <1>7, <2>1, Zenon DEF MessageTypes
<1>9. Collected' = Collected BY <1>1, Zenon DEF Collected
<1>10. Waiting' = [Waiting EXCEPT ![p] = WithoutFirst(Waiting[p])]
  <2>1. \A q \in Partitions : part'[q].taken \o part'[q].batches =
                                IF q = p THEN WithoutFirst(Waiting[p]) ELSE part[q].taken \o part[q].batches
    BY <1>3, <1>5, <1>6, Zenon
  <2> QED BY <2>1, Zenon DEF Waiting
<1> DEFINE last == injected.last
           all == injected.all
           last2 == injected'.last
           all2 == injected'.all
           q == Waiting
           q2 == Waiting'
<1>11. Books(posted, last, all, Collected, q) /\ Injects(p, m, last, all, q, last2, all2, q2)
  BY <1>0, <1>3, <1>5, <1>7, <1>10, Zenon DEF Injects
<1> HIDE DEF last, all, last2, all2, q, q2
<1>12. Books(posted, last2, all2, Collected, q2) BY <1>11, BooksInject, SMTT(30)
<1> QED BY <1>1, <1>8, <1>9, <1>12, Zenon DEF MInv, last2, all2, q2

\* The books of the initial state are empty.
LEMMA MInvInit == ASSUME Init PROVE MInv
<1>1. NumPartitions \in Nat /\ NumPartitions > 0 /\ \A s \in Sources : ThreadIndex(s) \in Nat
  BY SourceConstants
<1>2. \A s \in Sources : ThreadIndex(s) % NumPartitions \in Partitions BY <1>1 DEF Partitions
<1>3. <<>> \in Seq(Message) /\ <<>> \in Seq(Seq(Message)) /\ <<>> \o <<>> = <<>> OBVIOUS
<1>4. \A s \in Sources : state[s].last = ThreadIndex(s) % NumPartitions /\ state[s].batch = [p \in Partitions |-> <<>>]
  BY DEF Init, SchedInit, NewState
<1>5. [p \in Partitions |-> <<>>] \in [Partitions -> Seq(Message)] BY <1>3, Zenon
<1>6. \A p \in Partitions : part[p].taken = <<>> /\ part[p].batches = <<>> BY DEF Init, SchedInit
<1>7. injected = [last |-> [p \in Partitions |-> [s \in Sources |-> 0]], all |-> [s \in Sources |-> {}]]
      /\ posted = [s \in Sources |-> 0]
  BY Zenon DEF Init, SchedInit
<1>8. DOMAIN injected = {"last", "all"} /\ injected.last = [p \in Partitions |-> [s \in Sources |-> 0]]
      /\ injected.all = [s \in Sources |-> {}]
  BY <1>7
<1>9. MessageTypes BY <1>2, <1>3, <1>4, <1>5, <1>6, <1>8, Zenon DEF MessageTypes
<1>10. Collected \in [Sources -> [Partitions -> Seq(Message)]] /\ \A s \in Sources, p \in Partitions : Collected[s][p] = <<>>
  BY <1>4, <1>5, Zenon DEF Collected
<1>11. Waiting \in [Partitions -> Seq(Seq(Message))] /\ \A p \in Partitions : Waiting[p] = <<>>
  BY <1>3, <1>6, Zenon DEF Waiting
<1>12. /\ injected.last \in [Partitions -> [Sources -> Nat]] /\ injected.all \in [Sources -> SUBSET Nat]
       /\ posted \in [Sources -> Nat]
       /\ \A s \in Sources : posted[s] = 0 /\ injected.all[s] = {}
       /\ \A s \in Sources, p \in Partitions : injected.last[p][s] = 0
  BY <1>7, <1>8
<1>13. BookTypes(posted, injected.last, injected.all, Collected, Waiting)
  BY <1>10, <1>11, <1>12, Zenon DEF BookTypes
<1>14. Full(<<>>) /\ InOrder(<<>>) /\ Ascending(<<>>) BY DEF Full, InOrder, Ascending
<1>15. \A s \in Sources : InList(s, <<>>) = {} /\ InLists(s, <<>>) = {} /\ Own(s, <<>>)
  BY DEF InList, InLists, Own
<1>16. \A s \in Sources, p \in Partitions : Way(s, p, Collected, Waiting) = {}
  BY <1>10, <1>11, <1>15, Zenon DEF Way
<1>17. 1 .. 0 = {} /\ 0 <= 0 OBVIOUS
<1>18. ASSUME NEW s \in Sources PROVE SourceBooks(s, posted, injected.last, injected.all, Collected, Waiting)
  <2>1. AllOK(s, posted, injected.all, Collected, Waiting) BY <1>12, <1>17, Zenon DEF AllOK
  <2>2. ASSUME NEW p \in Partitions PROVE OwnOK(s, p, Collected, Waiting)
    BY <1>10, <1>14, <1>15, Zenon DEF OwnOK, Before
  <2>3. ASSUME NEW p \in Partitions PROVE PlaceOK(s, p, posted, injected.last, injected.all, Collected, Waiting)
    <3>1. injected.last[p][s] <= posted[s] BY <1>12, <1>17, Zenon
    <3> QED BY <1>16, <3>1, Zenon DEF PlaceOK
  <2> QED BY <2>1, <2>2, <2>3, Zenon DEF SourceBooks
<1>19. \A p \in Partitions : ListsOK(p, Waiting) BY <1>11, <1>14, Zenon DEF ListsOK
<1>20. Books(posted, injected.last, injected.all, Collected, Waiting) BY <1>13, <1>18, <1>19, Zenon DEF Books
<1> QED BY <1>9, <1>20, Zenon DEF MInv

\* Every step keeps the books.
LEMMA MInvNext == ASSUME IInv, MInv, [Next]_vars PROVE MInv'
<1>1. ASSUME NEW s \in Sources, SourceStep(s) PROVE MInv'
  <2>1. CASE Flush(s) BY <2>1, AddBatchBooks, SubmitBooks, Zenon DEF Flush
  <2>2. ASSUME AfterPost(s) \/ DriverClosesBatch(s) PROVE UNCHANGED <<state, part, injected, posted>>
    BY <2>2 DEF AfterPost, DriverClosesBatch, srcVars
  <2>3. ASSUME \/ WorkerStart(s) \/ Suspend(s) \/ RunReturns(s) \/ FetcherRun(s) \/ FetchScheduled(s)
        PROVE  UNCHANGED <<schedVars, posted>>
    BY <2>3, Zenon DEF WorkerStart, Suspend, RunReturns, FetcherRun, FetchScheduled
  <2>4. UNCHANGED <<schedVars, posted>> => UNCHANGED <<state, part, injected, posted>> BY DEF schedVars
  <2> QED BY <1>1, <2>1, <2>2, <2>3, <2>4, BooksUnchanged, Zenon DEF SourceStep
<1>2. UNCHANGED <<schedVars, posted>> => UNCHANGED <<state, part, injected, posted>> BY DEF schedVars
<1>3. ASSUME NEW s \in Sources, BlockingPost(s) PROVE MInv' BY <1>3, PostBooks, Zenon DEF BlockingPost
<1>4. ASSUME NEW s \in Sources, FetcherEvents(s) PROVE MInv'
  <2>1. ASSUME NEW result, Fetch(s, result) PROVE Post(s) \/ UNCHANGED <<schedVars, posted>>
    BY <2>1, Zenon DEF Fetch
  <2>2. ASSUME FetcherTimer(s) \/ WakeupEvent(s) PROVE UNCHANGED <<schedVars, posted>>
    BY <2>2, Zenon DEF FetcherTimer, WakeupEvent
  <2> QED BY <1>2, <1>4, <2>1, <2>2, PostBooks, BooksUnchanged, Zenon DEF FetcherEvents
<1>5. ASSUME NEW s \in Sources, ShutdownEvent(s) PROVE MInv'
  BY <1>2, <1>5, BooksUnchanged, Zenon DEF ShutdownEvent
<1>6. ASSUME NEW s \in Sources, AckStep(s) \/ ExitStep(s) PROVE MInv'
  <2>1. UNCHANGED <<schedVars, posted>>
    BY <1>6, Zenon DEF AckStep, ExitStep, Ack, Wakeup, FetcherWakeup, PostWakeupEvent,
                       SetTermination, DriverRequestExit, SignalTermination
  <2> QED BY <1>2, <2>1, BooksUnchanged, Zenon
<1>7. ASSUME NEW p \in Partitions, JobStep(p) \/ CompleteStep(p) PROVE MInv'
  BY <1>7, TakeBatchesBooks, InjectBooks, CompleteBooks, Zenon DEF JobStep, CompleteStep
<1>8. ASSUME RequestExit \/ UNCHANGED vars PROVE MInv'
  <2>1. UNCHANGED <<state, part, injected, posted>> BY <1>8 DEF RequestExit, vars, schedVars, srcVars
  <2> QED BY <2>1, BooksUnchanged, Zenon
<1> QED BY <1>1, <1>3, <1>4, <1>5, <1>6, <1>7, <1>8, Zenon DEF Next, Step

\* What is on its way to a partition, as the property counts it.
LEMMA OnTheWayFacts ==
  ASSUME MInv, NEW s \in Sources, NEW p \in Partitions
  PROVE  OnTheWay(s, p) = Way(s, p, Collected, Waiting) /\ InOrder(Lists(s, p))
<1> DEFINE S == Seq(Message)
           q == part[p].taken \o part[p].batches
           b == state[s].batch[p]
           d == Lists(s, p)
<1>0. Books(posted, injected.last, injected.all, Collected, Waiting) /\ MessageTypes BY Zenon DEF MInv
<1>1. /\ part[p].taken \in Seq(S) /\ part[p].batches \in Seq(S) /\ b \in S
  <2>1. state[s].batch \in [Partitions -> S] BY <1>0, Zenon DEF MessageTypes
  <2> QED BY <1>0, <2>1, Zenon DEF MessageTypes
<1>2. q \in Seq(S) /\ d = Append(q, b)
  <2> HIDE DEF S, b
  <2>1. q \in Seq(S) BY <1>1
  <2>2. d = q \o <<b>> BY Zenon DEF Lists, b
  <2> HIDE DEF q, d
  <2>3. q \o <<b>> = Append(q, b) BY <1>1, <2>1
  <2> QED BY <2>1, <2>2, <2>3, Zenon
<1>3. Waiting[p] = q /\ Collected[s][p] = b BY Zenon DEF Waiting, Collected
<1>4. OwnOK(s, p, Collected, Waiting) /\ ListsOK(p, Waiting) BY <1>0, Zenon DEF Books, SourceBooks
<1>5. Own(s, b) /\ Ascending(b) /\ Before(s, q, b) /\ InOrder(q) BY <1>3, <1>4, Zenon DEF OwnOK, ListsOK
<1>6. q \in Seq(Seq(Message)) /\ b \in Seq(Message) BY <1>1, <1>2
<1> HIDE DEF S, q, b, d
<1>7. d \in Seq(Seq(Message)) /\ InOrder(d) BY <1>2, <1>5, <1>6, AppendList, Zenon
<1>8. \A k : k \in InLists(s, d) <=> k \in InLists(s, q) \/ k \in InList(s, b)
  BY <1>2, <1>5, <1>6, AppendList, Zenon
<1>9. InLists(s, d) = Way(s, p, Collected, Waiting) BY <1>3, <1>8, Zenon DEF Way
<1>10. ASSUME NEW k \in OnTheWay(s, p) PROVE k \in InLists(s, d)
  <2>1. PICK x \in UNION {Range(l) : l \in Range(d)} : x[1] = s /\ k = x[2]
    BY <1>10, Zenon DEF OnTheWay, d
  <2>2. PICK l \in Range(d) : x \in Range(l) BY <2>1, Zenon
  <2>3. PICK i \in DOMAIN d : l = d[i] BY <2>2, Zenon DEF Range
  <2>4. PICK j \in DOMAIN l : x = l[j]
    <3>1. x \in Range(l) BY <2>2
    <3> QED BY <3>1 DEF Range
  <2>5. d[i] \in Seq(Message) BY <1>7, <2>3, ListsFacts, Zenon
  <2>6. d[i][j][2] \in Nat BY <2>3, <2>4, <2>5, ListFacts, Zenon
  <2> QED BY <2>1, <2>3, <2>4, <2>6, Zenon DEF InLists
<1>11. ASSUME NEW k \in InLists(s, d) PROVE k \in OnTheWay(s, p)
  <2>1. PICK i \in DOMAIN d : \E j \in DOMAIN d[i] : d[i][j][1] = s /\ d[i][j][2] = k
    BY <1>11, Zenon DEF InLists
  <2>2. PICK j \in DOMAIN d[i] : d[i][j][1] = s /\ d[i][j][2] = k BY <2>1, Zenon
  <2>3. d[i][j] \in UNION {Range(l) : l \in Range(d)}
    <3>1. d[i] \in Range(d) BY <2>1, Zenon DEF Range
    <3>2. d[i][j] \in Range(d[i]) BY <2>2, Zenon DEF Range
    <3> QED BY <3>1, <3>2, Zenon
  <2> QED BY <2>2, <2>3, Zenon DEF OnTheWay, d
<1>12. OnTheWay(s, p) = InLists(s, d) BY <1>10, <1>11, Zenon
<1> QED BY <1>7, <1>9, <1>12 DEF d

\* Every message that a source posted is injected once, by one partition, and each
\* partition injects the messages of a thread in the order in which it posted them.
THEOREM NothingLostHolds == Spec => []NothingLost
<1>1. ASSUME MInv PROVE NothingLost
  <2> SUFFICES ASSUME NEW s \in Sources
               PROVE  /\ injected.all[s] \cup UNION {OnTheWay(s, p) : p \in Partitions} = 1 .. posted[s]
                      /\ \A p \in Partitions :
                           /\ OnTheWay(s, p) \cap injected.all[s] = {}
                           /\ \A q \in Partitions \ {p} : OnTheWay(s, p) \cap OnTheWay(s, q) = {}
                           /\ \A n \in OnTheWay(s, p) : injected.last[p][s] < n
                           /\ InOrder(Lists(s, p))
    BY Zenon DEF NothingLost
  <2>1. \A p \in Partitions : OnTheWay(s, p) = Way(s, p, Collected, Waiting) /\ InOrder(Lists(s, p))
    BY <1>1, OnTheWayFacts, Zenon
  <2>2. SourceBooks(s, posted, injected.last, injected.all, Collected, Waiting) BY <1>1, Zenon DEF MInv, Books
  <2>3. AllOK(s, posted, injected.all, Collected, Waiting) BY <2>2, Zenon DEF SourceBooks
  <2>4. \A p \in Partitions : PlaceOK(s, p, posted, injected.last, injected.all, Collected, Waiting)
    BY <2>2, Zenon DEF SourceBooks
  <2>5. injected.all[s] \cup UNION {OnTheWay(s, p) : p \in Partitions} = 1 .. posted[s]
    <3>1. \A p \in Partitions : OnTheWay(s, p) \subseteq 1 .. posted[s] BY <2>1, <2>4, Zenon DEF PlaceOK
    <3>2. \A n \in 1 .. posted[s] : n \in injected.all[s] \/ \E p \in Partitions : n \in OnTheWay(s, p)
      BY <2>1, <2>3, Zenon DEF AllOK
    <3>3. injected.all[s] \subseteq 1 .. posted[s] BY <2>3, Zenon DEF AllOK
    <3>4. ASSUME NEW n \in UNION {OnTheWay(s, p) : p \in Partitions} PROVE n \in 1 .. posted[s]
      BY <3>1, Zenon
    <3>5. ASSUME NEW n \in 1 .. posted[s]
          PROVE  n \in injected.all[s] \cup UNION {OnTheWay(s, p) : p \in Partitions}
      BY <3>2, Zenon
    <3> HIDE DEF OnTheWay
    <3> QED BY <3>3, <3>4, <3>5
  <2>6. ASSUME NEW p \in Partitions
        PROVE  /\ OnTheWay(s, p) \cap injected.all[s] = {}
               /\ \A q \in Partitions \ {p} : OnTheWay(s, p) \cap OnTheWay(s, q) = {}
               /\ \A n \in OnTheWay(s, p) : injected.last[p][s] < n
    <3>1. PlaceOK(s, p, posted, injected.last, injected.all, Collected, Waiting) BY <2>4, Zenon
    <3>2. \A q \in Partitions \ {p} : q \in Partitions /\ q # p OBVIOUS
    <3>3. \A n \in OnTheWay(s, p) : n \notin injected.all[s] /\ injected.last[p][s] < n
      BY <2>1, <3>1, Zenon DEF PlaceOK
    <3>4. \A n \in OnTheWay(s, p) : \A q \in Partitions : q # p => n \notin OnTheWay(s, q)
      BY <2>1, <3>1, Zenon DEF PlaceOK
    <3> QED BY <3>2, <3>3, <3>4, Zenon
  <2> QED BY <2>1, <2>5, <2>6, Zenon
<1>2. Init => MInv BY MInvInit, Zenon
<1>3. IInv /\ MInv /\ [Next]_vars => MInv' BY MInvNext, Zenon
<1> QED BY <1>1, <1>2, <1>3, Invariance, PTL DEF Spec
=============================================================================
