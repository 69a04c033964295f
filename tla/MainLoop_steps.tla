-------------------------- MODULE MainLoop_steps --------------------------
(***************************************************************************)
(* The inductive invariant of the main loop, for any number of workers,    *)
(* threads of the pool, jobs, reloads and updates, and that the steps of   *)
(* the main thread outside the handler, of the jobs and of the threads     *)
(* that call preserve it.                                                  *)
(*                                                                         *)
(* The inductive invariant IInv says of every thread where its call is     *)
(* (SiteOK) and what the stage of its life allows (LifeOK), of the queue   *)
(* and the handler that a call is in one place (QueueOK), of the actions   *)
(* that wait what the place of the main thread allows (ActionsOK), that    *)
(* the actions run at zero jobs (QuietOK), and of the counter that it      *)
(* counts the jobs and the workers that are not done (Counted).            *)
(***************************************************************************)
EXTENDS MainLoop, Integers, TLAPS

\* The places and stages of the model.
Pcs == {"idle", "enter", "check", "asleep", "recheck", "fill", "post", "waiting",
        "woken", "returned"}
Lives == {"none", "starting", "running", "ending", "stopped"}
Funcs == {"none", "update", "complete"}
MainPcs == {"start", "loop", "actions", "join", "exitjoin", "exited"}

\* Types of the variables of MainLoopCall.
CallTypes ==
  /\ site \in [Threads -> [pending : BOOLEAN, wait : BOOLEAN, mainfree : BOOLEAN,
                           freed : BOOLEAN, func : Funcs]]
  /\ tpc \in [Threads -> Pcs]
  /\ queue \in Seq(Threads)
  /\ handler \in [pc : {"idle", "run", "mark", "signal"}, t : Threads \cup {NoThread},
                  dowakeup : BOOLEAN, dofree : BOOLEAN]
  /\ handler.pc # "idle" => handler.t \in Threads
  /\ handler.pc = "idle" => handler.t = NoThread
  /\ calls \in [Threads -> Int]

\* Types of the variables of MainLoop.
LoopTypes ==
  /\ life \in [Threads -> Lives]
  /\ asked \subseteq Workers /\ notify \subseteq Workers
  /\ io \in [Jobs -> {"idle", "queued", "working", "done"}]
  /\ by \in [Jobs -> Pool \cup {NoThread}]
  /\ jobs \in Int
  /\ main \in [pc : MainPcs, todo : SUBSET Workers]

\* t is in the queue q; q has no duplicates.
Queued(q, t) == \E i \in DOMAIN q : q[i] = t
NoDup(q) == \A i, k \in DOMAIN q : q[i] = q[k] => i = k

\* The call of t is with the handler h; it is queued or with the handler.
Taken(h, t) == h.t = t /\ h.pc \in {"run", "mark"}
Flying(q, h, t) == Queued(q, t) \/ Taken(h, t)

\* A site is pending from the moment it is filled in until the handler marks it
\* done, and in between it is in one place.
SiteOK(t) ==
  /\ site[t].pending <=> (tpc[t] = "post" \/ Flying(queue, handler, t))
  /\ Flying(queue, handler, t) => tpc[t] \notin {"fill", "post"}
  /\ calls[t] = IF site[t].pending THEN 1 ELSE 0
  /\ tpc[t] = "returned" /\ site[t].wait => ~site[t].pending
  /\ site[t].freed => ~site[t].pending
  /\ Flying(queue, handler, t) =>
       (site[t].func = "complete" <=> life[t] = "ending" /\ tpc[t] \in {"waiting", "woken"})

\* What the stage of a thread says of its site and of its place.
LifeOK(t) ==
  /\ life[t] \in {"none", "starting"} => ~site[t].pending
  /\ tpc[t] # "idle" => life[t] \in {"running", "ending"}
  /\ life[t] = "ending" => t \in Workers /\ tpc[t] # "idle"
  /\ life[t] = "stopped" /\ t \in Workers => ~site[t].pending
  /\ life[t] \in {"running", "ending"} => ~site[t].freed
  /\ site[t].mainfree => life[t] = "stopped" /\ t \in Pool
  /\ life[t] = "starting" => t \in Workers
  /\ life[t] = "running" /\ tpc[t] = "post" => site[t].func = "update" /\ ~site[t].wait
  /\ life[t] = "ending" /\ tpc[t] = "post" => site[t].func = "complete" /\ site[t].wait
  /\ life[t] = "ending" /\ tpc[t] = "returned" => site[t].wait
  /\ tpc[t] \in {"waiting", "woken"} => life[t] = "ending" /\ site[t].wait
  /\ t \in Pool /\ tpc[t] # "idle" => \E j \in Jobs : by[j] = t

\* A call is queued once; the handler frees the site of a thread that is gone;
\* the threads of the pool that work are running.
QueueOK ==
  /\ NoDup(queue)
  /\ handler.pc \in {"run", "mark"} => ~Queued(queue, handler.t)
  /\ handler.dofree => handler.pc = "signal" /\ life[handler.t] = "stopped"
                       /\ ~site[handler.t].freed /\ ~site[handler.t].pending
  /\ \A j \in Jobs : by[j] # NoThread => life[by[j]] = "running" /\ io[j] = "working"
  /\ \A j \in Jobs : io[j] = "working" => by[j] # NoThread

\* A reload waits before an exit, and what the main thread is doing goes with
\* what waits.
ActionsOK ==
  /\ actions \in {<<>>, <<"apply">>, <<"exit">>, <<"apply", "exit">>}
  /\ actions \in {<<"exit">>, <<"apply", "exit">>} => terminating
  /\ actions \in {<<"apply">>, <<"apply", "exit">>} => reloading
  /\ main.pc \in {"join", "start"} => actions = <<>>
  /\ main.pc = "start" => \A w \in main.todo : life[w] = "none"
  /\ handler.pc # "idle" => main.pc = "loop"
  /\ main.pc = "loop" /\ quit => actions # <<>>
  /\ main.pc \in {"actions", "join", "start"} /\ quit =>
       main.pc = "actions" /\ actions \in {<<"exit">>, <<"apply", "exit">>}
  /\ task => \/ main.pc = "loop" /\ quit
             \/ main.pc = "actions" /\ actions \in {<<"exit">>, <<"apply", "exit">>}
             \/ main.pc \in {"exitjoin", "exited"}
  /\ timer => terminating /\ actions \in {<<>>, <<"apply">>}

\* Actions run, and the task to run them is registered, at zero jobs.
QuietOK ==
  /\ main.pc \in {"join", "exitjoin", "exited"} => jobs = 0
  /\ main.pc = "actions" /\ actions # <<>> => jobs = 0
  /\ task => jobs = 0

\* The counter counts whoever is not done.
Counted == jobs = Cardinality(BusyJobs) + Cardinality(LiveWorkers)

\* The facts about finite sets that counting needs.
CardinalityLaws ==
  \A S : IsFiniteSet(S) =>
    /\ Cardinality(S) \in Nat /\ (Cardinality(S) = 0 <=> S = {})
    /\ \A T : T \subseteq S => IsFiniteSet(T)
    /\ \A x : /\ x \notin S => Cardinality(S \cup {x}) = Cardinality(S) + 1
              /\ x \in S => Cardinality(S \ {x}) = Cardinality(S) - 1

\* The inductive invariant.
IInv ==
  /\ CallTypes /\ LoopTypes
  /\ \A t \in Threads : SiteOK(t) /\ LifeOK(t)
  /\ QueueOK /\ ActionsOK /\ QuietOK /\ Counted

-----------------------------------------------------------------------------
\* What remains of a queue without duplicates when its head is taken.
LEMMA TakeHead ==
  ASSUME NEW S, NEW q \in Seq(S), q # <<>>, NoDup(q)
  PROVE  /\ Head(q) \in S /\ Tail(q) \in Seq(S) /\ NoDup(Tail(q))
         /\ Queued(q, Head(q)) /\ ~Queued(Tail(q), Head(q))
         /\ \A t : t # Head(q) => (Queued(Tail(q), t) <=> Queued(q, t))
<1>1. Len(q) \in Nat /\ Len(q) # 0 /\ DOMAIN q = 1 .. Len(q)
  OBVIOUS
<1>2. Head(q) = q[1] /\ Head(q) \in S /\ Tail(q) \in Seq(S)
  OBVIOUS
<1>3. DOMAIN Tail(q) = 1 .. Len(q) - 1 /\ \A i \in 1 .. Len(q) - 1 : Tail(q)[i] = q[i + 1]
  BY <1>1
<1>4. NoDup(Tail(q))
  BY <1>1, <1>3 DEF NoDup
<1>5. Queued(q, Head(q))
  BY <1>1, <1>2 DEF Queued
<1>6. ~Queued(Tail(q), Head(q))
  BY <1>1, <1>2, <1>3 DEF Queued, NoDup
<1>7. ASSUME NEW t, t # Head(q) PROVE Queued(Tail(q), t) <=> Queued(q, t)
  <2>1. Queued(Tail(q), t) => Queued(q, t)
    BY <1>1, <1>3 DEF Queued
  <2>2. ASSUME NEW i \in DOMAIN q, q[i] = t PROVE Queued(Tail(q), t)
    <3>1. i \in 2 .. Len(q) BY <1>1, <1>2, <1>7, <2>2
    <3>2. i - 1 \in 1 .. Len(q) - 1 /\ (i - 1) + 1 = i BY <3>1, <1>1
    <3> QED BY <3>2, <1>3, <2>2 DEF Queued
  <2> QED BY <2>1, <2>2 DEF Queued
<1> QED BY <1>2, <1>4, <1>5, <1>6, <1>7

\* Append() on a sequence of one element.
LEMMA AppendToOne == \A a, b : Append(<<a>>, b) = <<a, b>>
<1> TAKE a, b
<1>1. <<a>> \in Seq({a, b}) /\ b \in {a, b} /\ Len(<<a>>) = 1 OBVIOUS
<1>2. Append(<<a>>, b) = [i \in 1 .. 2 |-> IF i = 2 THEN b ELSE <<a>>[i]] BY <1>1
<1>3. <<a, b>> = [i \in 1 .. 2 |-> IF i = 2 THEN b ELSE <<a>>[i]] OBVIOUS
<1> QED BY <1>2, <1>3, Zenon

\* A site that is not queued is put at the head (iv_list_add).
LEMMA PutFirst ==
  ASSUME NEW S, NEW q \in Seq(S), NEW t \in S, NoDup(q), ~Queued(q, t)
  PROVE  /\ <<t>> \o q \in Seq(S) /\ NoDup(<<t>> \o q)
         /\ \A u : Queued(<<t>> \o q, u) <=> (u = t \/ Queued(q, u))
<1> DEFINE r == <<t>> \o q
<1>1. Len(q) \in Nat /\ DOMAIN q = 1 .. Len(q)
  OBVIOUS
<1>2. r \in Seq(S) /\ DOMAIN r = 1 .. Len(q) + 1
  BY <1>1
<1>3. r[1] = t /\ \A i \in 2 .. Len(q) + 1 : r[i] = q[i - 1]
  BY <1>1
<1> HIDE DEF r
<1>4. NoDup(r)
  <2> SUFFICES ASSUME NEW i \in DOMAIN r, NEW k \in DOMAIN r, r[i] = r[k] PROVE i = k
    BY DEF NoDup
  <2>1. CASE i = 1 /\ k # 1
    <3>1. k \in 2 .. Len(q) + 1 /\ k - 1 \in DOMAIN q BY <2>1, <1>1, <1>2
    <3> QED BY <3>1, <2>1, <1>3 DEF Queued
  <2>2. CASE k = 1 /\ i # 1
    <3>1. i \in 2 .. Len(q) + 1 /\ i - 1 \in DOMAIN q BY <2>2, <1>1, <1>2
    <3> QED BY <3>1, <2>2, <1>3 DEF Queued
  <2>3. CASE i # 1 /\ k # 1
    <3>1. i \in 2 .. Len(q) + 1 /\ i - 1 \in DOMAIN q BY <2>3, <1>1, <1>2
    <3>2. k \in 2 .. Len(q) + 1 /\ k - 1 \in DOMAIN q BY <2>3, <1>1, <1>2
    <3>3. i - 1 = k - 1 BY <3>1, <3>2, <1>3 DEF NoDup
    <3> QED BY <3>3, <3>1, <3>2
  <2> QED BY <2>1, <2>2, <2>3
<1>5. ASSUME NEW u PROVE Queued(r, u) <=> (u = t \/ Queued(q, u))
  <2>1. ASSUME NEW i \in DOMAIN r, r[i] = u PROVE u = t \/ Queued(q, u)
    <3>1. CASE i = 1 BY <3>1, <1>3, <2>1
    <3>2. CASE i # 1
      <4>1. i \in 2 .. Len(q) + 1 /\ i - 1 \in DOMAIN q BY <3>2, <1>1, <1>2
      <4> QED BY <4>1, <1>3, <2>1 DEF Queued
    <3> QED BY <3>1, <3>2
  <2>2. u = t => Queued(r, u)
    BY <1>1, <1>2, <1>3 DEF Queued
  <2>3. ASSUME NEW i \in DOMAIN q, q[i] = u PROVE Queued(r, u)
    <3>1. i + 1 \in 2 .. Len(q) + 1 /\ i + 1 \in DOMAIN r /\ (i + 1) - 1 = i
      BY <1>1, <1>2
    <3> QED BY <3>1, <1>3, <2>3 DEF Queued
  <2> QED BY <2>1, <2>2, <2>3 DEF Queued
<1> QED BY <1>2, <1>4, <1>5 DEF r

\* What holds of the threads depends on these variables only.
threadVars == <<site, tpc, queue, handler, calls, life, io, by>>

\* A step that leaves the threads, their sites and the jobs alone keeps what
\* holds of them, and whom the main thread has to count.
LEMMA ThreadsKept ==
  ASSUME IInv, UNCHANGED threadVars
  PROVE  /\ CallTypes' /\ QueueOK' /\ \A t \in Threads : (SiteOK(t) /\ LifeOK(t))'
         /\ BusyJobs' = BusyJobs /\ LiveWorkers' = LiveWorkers
<1>1. CallTypes' BY DEF IInv, threadVars, CallTypes
<1>2. QueueOK' BY DEF IInv, threadVars, QueueOK
<1>3. ASSUME NEW t \in Threads PROVE (SiteOK(t) /\ LifeOK(t))'
  <2>1. SiteOK(t) /\ LifeOK(t) BY DEF IInv
  <2> QED BY <2>1 DEF threadVars, SiteOK, LifeOK
<1>4. BusyJobs' = BusyJobs BY DEF threadVars, BusyJobs
<1>5. LiveWorkers' = LiveWorkers
  BY DEF threadVars, LiveWorkers, Uncounted, Ran, InFlight
<1> QED BY <1>1, <1>2, <1>3, <1>4, <1>5

\* main_loop_reload_config(): the reload is the only action, or joins the queue.
LEMMA ReloadConfigStep == ASSUME IInv, ReloadConfig PROVE IInv'
<1>1. UNCHANGED threadVars
  BY DEF ReloadConfig, SyncCall, threadVars, callVars, ioVars
<1>2. LoopTypes'
  BY MainLoopConstants DEF IInv, LoopTypes, ReloadConfig, SyncCall, Reenable, RequestAllThreadsToExit,
     ioVars, At, MainPcs
<1>3. actions = <<>> /\ main.pc = "loop" /\ handler.pc = "idle" /\ ~task
  BY DEF IInv, ActionsOK, ReloadConfig, InLoop
<1>4. actions' = <<"apply">>
  BY <1>3 DEF ReloadConfig, SyncCall
<1>5. /\ handler' = handler /\ reloading' /\ ~task' /\ jobs' = jobs /\ timer' = timer
      /\ terminating' = terminating
      /\ \/ jobs = 0 /\ ~quit' /\ main' = At("actions")
         \/ main' = main
  BY <1>3, Zenon DEF ReloadConfig, SyncCall, Reenable, RequestAllThreadsToExit, callVars, exitVars
<1>6. ActionsOK' /\ QuietOK'
  BY <1>3, <1>4, <1>5 DEF IInv, ActionsOK, QuietOK, At
<1>7. Counted'
  BY <1>1, <1>5, ThreadsKept DEF IInv, Counted
<1> QED BY <1>1, <1>2, <1>6, <1>7, ThreadsKept DEF IInv

\* main_loop_exit_initiate() only arms the timer.
LEMMA ExitInitiateStep == ASSUME IInv, ExitInitiate PROVE IInv'
<1>1. UNCHANGED threadVars
  BY DEF ExitInitiate, threadVars, callVars, ioVars, workVars
<1>2. LoopTypes' /\ ActionsOK' /\ QuietOK'
  BY DEF IInv, LoopTypes, ActionsOK, QuietOK, ExitInitiate, callVars, ioVars, workVars, syncVars
<1>3. Counted'
  BY <1>1, ThreadsKept DEF IInv, Counted, ExitInitiate, syncVars
<1> QED BY <1>1, <1>2, <1>3, ThreadsKept DEF IInv

\* The exit is queued behind a reload that waits, or is the only action.
LEMMA ExitTimerElapsedStep == ASSUME IInv, ExitTimerElapsed PROVE IInv'
<1>1. UNCHANGED threadVars
  BY DEF ExitTimerElapsed, SyncCall, threadVars, callVars, ioVars
<1>2. LoopTypes'
  BY MainLoopConstants DEF IInv, LoopTypes, ExitTimerElapsed, SyncCall, Reenable,
     RequestAllThreadsToExit, ioVars, At, MainPcs
<1>3. actions \in {<<>>, <<"apply">>} /\ main.pc = "loop" /\ handler.pc = "idle" /\ terminating
  BY DEF IInv, ActionsOK, ExitTimerElapsed, InLoop
<1>4. /\ actions = <<>> => actions' = <<"exit">>
      /\ actions = <<"apply">> => actions' = <<"apply", "exit">>
  <2>1. actions' = Append(actions, "exit") BY DEF ExitTimerElapsed, SyncCall
  <2>2. Append(<<>>, "exit") = <<"exit">> OBVIOUS
  <2> QED BY <2>1, <2>2, AppendToOne, Zenon
<1>5. /\ handler' = handler /\ (reloading' <=> reloading) /\ (task' <=> task) /\ jobs' = jobs
      /\ ~timer' /\ terminating'
      /\ \/ jobs = 0 /\ main' = At("actions")
         \/ quit' /\ main' = main
  BY <1>3 DEF ExitTimerElapsed, SyncCall, Reenable, RequestAllThreadsToExit, callVars
<1>6. ActionsOK' /\ QuietOK'
  BY <1>3, <1>4, <1>5 DEF IInv, ActionsOK, QuietOK, At
<1>7. Counted'
  BY <1>1, <1>5, ThreadsKept DEF IInv, Counted
<1> QED BY <1>1, <1>2, <1>6, <1>7, ThreadsKept DEF IInv

\* The task runs the actions that waited; it was registered at zero jobs.
LEMMA ReenableTaskStep == ASSUME IInv, ReenableTask PROVE IInv'
<1>1. UNCHANGED threadVars
  BY DEF ReenableTask, threadVars, callVars, ioVars, workVars
<1>2. LoopTypes'
  BY DEF IInv, LoopTypes, ReenableTask, Reenable, ioVars, workVars, At, MainPcs
<1>3. main.pc = "loop" /\ handler.pc = "idle" /\ task /\ quit /\ actions # <<>> /\ jobs = 0
  BY DEF IInv, ActionsOK, QuietOK, ReenableTask, InLoop
<1>4. /\ handler' = handler /\ (reloading' <=> reloading) /\ ~task' /\ jobs' = jobs
      /\ (timer' <=> timer) /\ (terminating' <=> terminating) /\ actions' = actions
      /\ (quit' <=> ~reloading) /\ main' = At("actions")
  BY <1>3, Zenon DEF ReenableTask, Reenable, callVars, exitVars
<1>5. ActionsOK' /\ QuietOK'
  BY <1>3, <1>4 DEF IInv, ActionsOK, QuietOK, At
<1>6. Counted'
  BY <1>1, <1>4, ThreadsKept DEF IInv, Counted
<1> QED BY <1>1, <1>2, <1>5, <1>6, ThreadsKept DEF IInv

\* The next action of _invoke_sync_call_actions(), or its end.
LEMMA NextActionStep == ASSUME IInv, NextAction PROVE IInv'
<1>1. UNCHANGED threadVars
  BY DEF NextAction, threadVars, callVars, ioVars, workVars
<1>2. LoopTypes'
  BY DEF IInv, LoopTypes, NextAction, Apply, ioVars, workVars, At, MainPcs
<1>3. main.pc = "actions" /\ handler.pc = "idle"
  BY DEF IInv, ActionsOK, CallTypes, NextAction
<1>4. /\ handler' = handler /\ (task' <=> task) /\ jobs' = jobs /\ (quit' <=> quit)
      /\ (timer' <=> timer) /\ (terminating' <=> terminating)
  BY SMT, SMTT(30) DEF NextAction, callVars, exitVars
<1>5. ActionsOK' /\ QuietOK'
  <2>1. CASE actions = <<>>
    <3>1. actions' = <<>> /\ main' = At("loop")
      BY <2>1, SMT, SMTT(30) DEF NextAction
    <3> QED BY <1>3, <1>4, <2>1, <3>1 DEF IInv, ActionsOK, QuietOK, At
  <2>2. CASE actions = <<"apply">>
    <3>1. /\ actions' = <<>>
          /\ main' = main \/ (main' = At("join") /\ ~terminating)
      BY <2>2 DEF NextAction, Apply
    <3> QED BY <1>3, <1>4, <2>2, <3>1 DEF IInv, ActionsOK, QuietOK, At
  <2>3. CASE actions = <<"exit">>
    <3>1. actions' = <<>> /\ main' = At("exitjoin")
      BY <2>3 DEF NextAction
    <3> QED BY <1>3, <1>4, <2>3, <3>1 DEF IInv, ActionsOK, QuietOK, At
  <2>4. CASE actions = <<"apply", "exit">>
    <3>1. actions' = <<"exit">> /\ main' = main
      BY <2>4 DEF NextAction, Apply, IInv, ActionsOK
    <3> QED BY <1>3, <1>4, <2>4, <3>1 DEF IInv, ActionsOK, QuietOK, At
  <2> QED BY <2>1, <2>2, <2>3, <2>4, SMT, SMTT(30) DEF IInv, ActionsOK
<1>6. Counted'
  BY <1>1, <1>4, ThreadsKept DEF IInv, Counted
<1> QED BY <1>1, <1>2, <1>5, <1>6, ThreadsKept DEF IInv

\* cfg_init() is done.
LEMMA StartedStep == ASSUME IInv, Started PROVE IInv'
<1>1. UNCHANGED threadVars
  BY DEF Started, threadVars, callVars, ioVars, workVars
<1>2. LoopTypes'
  BY DEF IInv, LoopTypes, Started, ioVars, workVars, At, MainPcs
<1>3. main.pc = "start" /\ handler.pc = "idle" /\ actions = <<>> /\ ~quit /\ ~task
  BY DEF IInv, ActionsOK, CallTypes, Started
<1>4. /\ handler' = handler /\ ~task' /\ jobs' = jobs /\ ~quit'
      /\ (timer' <=> timer) /\ (terminating' <=> terminating) /\ actions' = <<>>
      /\ main' = At("actions") \/ main' = At("loop")
  BY <1>3 DEF Started, callVars, exitVars
<1>5. ActionsOK' /\ QuietOK'
  BY <1>3, <1>4 DEF IInv, ActionsOK, QuietOK, At
<1>6. Counted'
  BY <1>1, <1>4, ThreadsKept DEF IInv, Counted
<1> QED BY <1>1, <1>2, <1>5, <1>6, ThreadsKept DEF IInv

\* The main thread is past the loop: no call is being handled.
LEMMA ReplaceConfigStep == ASSUME IInv, ReplaceConfig \/ ExitFinish PROVE IInv'
<1> USE MainLoopConstants
<1>1. /\ main.pc \in {"join", "exitjoin"} /\ handler.pc = "idle" /\ ~handler.dofree
      /\ site' = site /\ tpc' = tpc /\ queue' = queue /\ handler' = handler /\ calls' = calls
      /\ io' = io /\ by' = by /\ jobs' = jobs /\ actions' = actions
      /\ (quit' <=> quit) /\ (reloading' <=> reloading) /\ (task' <=> task)
      /\ (terminating' <=> terminating) /\ (timer' <=> timer)
  BY DEF IInv, CallTypes, QueueOK, ActionsOK, ReplaceConfig, ExitFinish, callVars, ioVars, exitVars
<1>2. /\ \A w \in Workers : life[w] \in {"none", "stopped"} /\ life'[w] = "none"
      /\ \A t \in Threads \ Workers : life'[t] = life[t]
      /\ life' \in [Threads -> Lives]
  BY DEF IInv, LoopTypes, ReplaceConfig, ExitFinish, AllJoined, Lives
<1>3. CallTypes'
  BY <1>1 DEF IInv, CallTypes
<1>4. LoopTypes'
  BY <1>1, <1>2 DEF IInv, LoopTypes, ReplaceConfig, ExitFinish, MainPcs, At, Starting
<1>5. ASSUME NEW t \in Threads PROVE (SiteOK(t) /\ LifeOK(t))'
  <2>1. SiteOK(t) /\ LifeOK(t) BY DEF IInv
  <2>2. Flying(queue', handler', t) <=> Flying(queue, handler, t) BY <1>1, SMT, SMTT(30)
  <2>3. CASE t \in Workers
    <3>1. tpc[t] = "idle" /\ ~site[t].pending /\ ~site[t].mainfree
      BY <1>2, <2>1, <2>3, ZenonT(30), SMTT(30) DEF LifeOK
    <3> QED BY <1>1, <1>2, <2>1, <2>2, <2>3, <3>1, ZenonT(30) DEF SiteOK, LifeOK
  <2>4. CASE t \notin Workers
    <3>1. life'[t] = life[t] BY <1>2, <2>4, Zenon
    <3> QED BY <1>1, <2>1, <2>2, <2>4, <3>1, ZenonT(30), SMTT(30) DEF SiteOK, LifeOK
  <2> QED BY <2>3, <2>4
<1>6. QueueOK'
  BY <1>1, <1>2, SMT, SMTT(30) DEF IInv, QueueOK, LoopTypes
<1>7. ActionsOK' /\ QuietOK'
  <2>1. main' \in {Starting, At("exited")} /\ (main' = Starting => main.pc = "join")
        /\ (main' = At("exited") => main.pc = "exitjoin")
    BY DEF ReplaceConfig, ExitFinish, Starting, At
  <2> QED BY <1>1, <1>2, <2>1 DEF IInv, ActionsOK, QuietOK, At, Starting
<1>8. Counted'
  <2>1. BusyJobs' = BusyJobs BY <1>1 DEF BusyJobs
  <2>2. ASSUME NEW w \in Workers PROVE ~Uncounted(w) /\ ~Uncounted(w)'
    BY <1>2 DEF Uncounted
  <2>3. LiveWorkers = {} /\ LiveWorkers' = {} BY <2>2 DEF LiveWorkers
  <2> QED BY <1>1, <2>1, <2>3 DEF IInv, Counted
<1> QED BY <1>3, <1>4, <1>5, <1>6, <1>7, <1>8, SMT, SMTT(30) DEF IInv

-----------------------------------------------------------------------------
(* Counting.                                                               *)

\* The sets that are counted are finite.
LEMMA FiniteCounts ==
  ASSUME CardinalityLaws
  PROVE  /\ \A S : S \subseteq Jobs => IsFiniteSet(S) /\ Cardinality(S) \in Nat
         /\ \A S : S \subseteq Workers => IsFiniteSet(S) /\ Cardinality(S) \in Nat
<1>1. IsFiniteSet(Jobs) /\ IsFiniteSet(Workers)
  BY MainLoopConstants DEF CardinalityLaws
<1> QED BY <1>1 DEF CardinalityLaws

\* The counter is positive when something runs: so a reload or an exit that
\* acts at zero acts alone.
LEMMA Occupied ==
  ASSUME CardinalityLaws, IInv
  PROVE  /\ jobs \in Nat
         /\ jobs = 0 => BusyJobs = {} /\ LiveWorkers = {}
         /\ BusyJobs # {} \/ LiveWorkers # {} => jobs > 0
<1>1. BusyJobs \subseteq Jobs /\ LiveWorkers \subseteq Workers
  BY DEF BusyJobs, LiveWorkers
<1>2. /\ IsFiniteSet(BusyJobs) /\ Cardinality(BusyJobs) \in Nat
      /\ IsFiniteSet(LiveWorkers) /\ Cardinality(LiveWorkers) \in Nat
  BY <1>1, FiniteCounts
<1>3. jobs = Cardinality(BusyJobs) + Cardinality(LiveWorkers)
  BY DEF IInv, Counted
<1>4. /\ Cardinality(BusyJobs) = 0 <=> BusyJobs = {}
      /\ Cardinality(LiveWorkers) = 0 <=> LiveWorkers = {}
  BY <1>2 DEF CardinalityLaws
<1> QED BY <1>2, <1>3, <1>4, SMT, SMTT(30)

\* One more and one less.
LEMMA CountChange ==
  ASSUME CardinalityLaws, NEW S, IsFiniteSet(S), NEW x
  PROVE  /\ x \notin S => Cardinality(S \cup {x}) = Cardinality(S) + 1
         /\ x \in S => Cardinality(S \ {x}) = Cardinality(S) - 1
BY DEF CardinalityLaws

\* A worker that starts is counted.
LEMMA StartWorkerStep == ASSUME CardinalityLaws, IInv, StartWorker PROVE IInv'
<1> USE MainLoopConstants
<1>1. PICK w \in main.todo :
        /\ life' = [life EXCEPT ![w] = "starting"]
        /\ notify' = notify \cup {w}
        /\ main' = [main EXCEPT !.todo = @ \ {w}]
  <2>1. main.todo # {} BY DEF StartWorker
  <2> DEFINE w == CHOOSE u \in main.todo : TRUE
  <2>2. w \in main.todo BY <2>1
  <2> QED BY <2>2, Zenon DEF StartWorker
<1>2. /\ main.pc = "start" /\ handler.pc = "idle" /\ ~handler.dofree /\ ~task
      /\ site' = site /\ tpc' = tpc /\ queue' = queue /\ handler' = handler /\ calls' = calls
      /\ io' = io /\ by' = by /\ jobs' = jobs + 1 /\ actions' = actions /\ asked' = asked
      /\ (quit' <=> quit) /\ (reloading' <=> reloading) /\ ~task'
      /\ (terminating' <=> terminating) /\ (timer' <=> timer)
  BY DEF IInv, CallTypes, QueueOK, ActionsOK, StartWorker, callVars, ioVars, exitVars
<1>3. w \in Workers /\ w \in Threads /\ life[w] = "none"
  BY <1>2 DEF IInv, LoopTypes, ActionsOK
<1>4. /\ life' \in [Threads -> Lives] /\ life'[w] = "starting"
      /\ \A t \in Threads : t # w => life'[t] = life[t]
  BY <1>1, <1>3, SMT, SMTT(30) DEF IInv, LoopTypes, Lives
<1>5. CallTypes'
  BY <1>2 DEF IInv, CallTypes
<1>6. main' \in [pc : MainPcs, todo : SUBSET Workers] /\ main'.pc = "start"
      /\ \A u \in main'.todo : u \in main.todo /\ u # w
  BY <1>1, <1>2 DEF IInv, LoopTypes
<1>7. LoopTypes'
  BY <1>1, <1>2, <1>3, <1>4, <1>6 DEF IInv, LoopTypes
<1>8. ASSUME NEW t \in Threads PROVE (SiteOK(t) /\ LifeOK(t))'
  <2>1. SiteOK(t) /\ LifeOK(t) BY DEF IInv
  <2>2. Flying(queue', handler', t) <=> Flying(queue, handler, t) BY <1>2, SMT, SMTT(30)
  <2>3. CASE t = w
    BY <1>2, <1>3, <1>4, <2>1, <2>2, <2>3, ZenonT(30) DEF SiteOK, LifeOK
  <2>4. CASE t # w
    BY <1>2, <1>4, <2>1, <2>2, <2>4, ZenonT(30) DEF SiteOK, LifeOK
  <2> QED BY <2>3, <2>4
<1>9. QueueOK'
  <2>1. \A j \in Jobs : by[j] # NoThread => by[j] # w /\ by[j] \in Threads
    BY <1>3 DEF IInv, LoopTypes
  <2> QED BY <1>2, <1>4, <2>1, ZenonT(30) DEF IInv, QueueOK
<1>10. ActionsOK' /\ QuietOK'
  <2>1. \A u \in main'.todo : life'[u] = "none"
    BY <1>2, <1>4, <1>6, SMT, SMTT(30) DEF IInv, ActionsOK, LoopTypes
  <2> QED BY <1>2, <1>6, <2>1 DEF IInv, ActionsOK, QuietOK
<1>11. Counted'
  <2>1. BusyJobs' = BusyJobs BY <1>2 DEF BusyJobs
  <2>2. w \notin LiveWorkers /\ Uncounted(w)'
    BY <1>3, <1>4 DEF LiveWorkers, Uncounted
  <2>3. ASSUME NEW u \in Workers, u # w PROVE Uncounted(u)' <=> Uncounted(u)
    BY <1>2, <1>4, <2>3 DEF Uncounted, Ran, InFlight
  <2>4. LiveWorkers' = LiveWorkers \cup {w}
    BY <1>3, <2>2, <2>3 DEF LiveWorkers
  <2>5. LiveWorkers \subseteq Workers /\ BusyJobs \subseteq Jobs BY DEF LiveWorkers, BusyJobs
  <2> QED BY <1>2, <2>1, <2>2, <2>4, <2>5, CountChange, FiniteCounts, SMT, SMTT(30) DEF IInv, Counted
<1> QED BY <1>5, <1>7, <1>8, <1>9, <1>10, <1>11 DEF IInv

-----------------------------------------------------------------------------
(* The steps of jobs.                                                      *)

\* A job that is submitted is counted, by the loop or when something runs.
LEMMA SubmittedStep ==
  ASSUME CardinalityLaws, IInv, NEW j \in Jobs, Submitted(j), jobs > 0 \/ (main.pc = "loop" /\ ~task)
  PROVE  IInv'
<1>1. /\ site' = site /\ tpc' = tpc /\ queue' = queue /\ handler' = handler /\ calls' = calls
      /\ life' = life /\ asked' = asked /\ notify' = notify
      /\ by' = by /\ jobs' = jobs + 1 /\ actions' = actions /\ main' = main
      /\ (quit' <=> quit) /\ (reloading' <=> reloading) /\ (task' <=> task)
      /\ (terminating' <=> terminating) /\ (timer' <=> timer)
      /\ io[j] = "idle" /\ io' = [io EXCEPT ![j] = "queued"]
  BY DEF Submitted, callVars, workVars, exitVars
<1>2. /\ io' \in [Jobs -> {"idle", "queued", "working", "done"}] /\ io'[j] = "queued"
      /\ \A k \in Jobs : k # j => io'[k] = io[k]
  BY <1>1 DEF IInv, LoopTypes
<1>3. CallTypes' /\ LoopTypes'
  BY <1>1, <1>2, SMT, SMTT(30) DEF IInv, CallTypes, LoopTypes
<1>4. ASSUME NEW t \in Threads PROVE (SiteOK(t) /\ LifeOK(t))'
  <2>1. SiteOK(t) /\ LifeOK(t) BY DEF IInv
  <2> QED BY <1>1, <2>1, ZenonT(30) DEF SiteOK, LifeOK, Flying, Queued, Taken
<1>5. QueueOK'
  BY <1>1, <1>2, ZenonT(30) DEF IInv, QueueOK, NoDup, Queued
<1>6. ActionsOK'
  BY <1>1 DEF IInv, ActionsOK
<1>7. QuietOK'
  <2>1. jobs \in Nat BY Occupied
  <2>2. QuietOK BY DEF IInv
  <2>3. CASE jobs > 0 BY <1>1, <2>1, <2>2, <2>3 DEF QuietOK
  <2>4. CASE main.pc = "loop" /\ ~task BY <1>1, <2>4 DEF QuietOK
  <2> QED BY <2>3, <2>4
<1>8. Counted'
  <2>1. BusyJobs' = BusyJobs \cup {j} /\ j \notin BusyJobs
    BY <1>1, <1>2 DEF BusyJobs
  <2>2. LiveWorkers' = LiveWorkers
    BY <1>1 DEF LiveWorkers, Uncounted, Ran, InFlight
  <2>3. LiveWorkers \subseteq Workers /\ BusyJobs \subseteq Jobs BY DEF LiveWorkers, BusyJobs
  <2> QED BY <1>1, <2>1, <2>2, <2>3, CountChange, FiniteCounts DEF IInv, Counted
<1> QED BY <1>3, <1>4, <1>5, <1>6, <1>7, <1>8 DEF IInv

\* Both ways to submit a job; a continuation comes from something that is counted.
LEMMA JobSubmitStep ==
  ASSUME CardinalityLaws, IInv, NEW j \in Jobs, JobSubmit(j) \/ JobSubmitContinuation(j)
  PROVE  IInv'
<1>1. CASE JobSubmit(j)
  <2>1. Submitted(j) /\ main.pc = "loop" /\ ~task
    BY <1>1 DEF IInv, ActionsOK, JobSubmit, InLoop
  <2> QED BY <2>1, SubmittedStep, SMT, SMTT(30)
<1>2. CASE JobSubmitContinuation(j)
  <2>1. LiveWorkers # {} \/ BusyJobs # {}
    <3>1. ASSUME NEW w \in Workers, life[w] = "running" PROVE w \in LiveWorkers
      BY <3>1 DEF LiveWorkers, Uncounted
    <3>2. ASSUME NEW k \in Jobs, io[k] = "working" PROVE k \in BusyJobs
      BY <3>2, SMT, SMTT(30) DEF BusyJobs
    <3> QED BY <1>2, <3>1, <3>2, SMT, SMTT(30) DEF JobSubmitContinuation
  <2>2. Submitted(j) BY <1>2 DEF JobSubmitContinuation
  <2> QED BY <2>1, <2>2, Occupied, SubmittedStep, SMT, SMTT(30)
<1> QED BY <1>1, <1>2

\* The end of _work() leaves the job counted.
LEMMA JobWorkStep == ASSUME IInv, NEW j \in Jobs, JobWork(j) PROVE IInv'
<1>1. /\ site' = site /\ tpc' = tpc /\ queue' = queue /\ handler' = handler /\ calls' = calls
      /\ life' = life /\ asked' = asked /\ notify' = notify
      /\ jobs' = jobs /\ actions' = actions /\ main' = main
      /\ (quit' <=> quit) /\ (reloading' <=> reloading) /\ (task' <=> task)
      /\ (terminating' <=> terminating) /\ (timer' <=> timer)
      /\ io[j] = "working" /\ tpc[by[j]] = "idle"
      /\ io' = [io EXCEPT ![j] = "done"] /\ by' = [by EXCEPT ![j] = NoThread]
  BY SMT, SMTT(30) DEF JobWork, callVars, workVars, syncVars, exitVars
<1>2. /\ io' \in [Jobs -> {"idle", "queued", "working", "done"}] /\ io'[j] = "done"
      /\ \A k \in Jobs : k # j => io'[k] = io[k]
      /\ by' \in [Jobs -> Pool \cup {NoThread}] /\ by'[j] = NoThread
      /\ \A k \in Jobs : k # j => by'[k] = by[k]
  BY <1>1, SMT, SMTT(30) DEF IInv, LoopTypes
<1>3. CallTypes' /\ LoopTypes'
  BY <1>1, <1>2 DEF IInv, CallTypes, LoopTypes
<1>4. ASSUME NEW t \in Threads PROVE (SiteOK(t) /\ LifeOK(t))'
  <2>1. SiteOK(t) /\ LifeOK(t) BY SMT, SMTT(30) DEF IInv
  <2>2. SiteOK(t)'
    BY <1>1, <2>1, ZenonT(30) DEF SiteOK, Flying, Queued, Taken
  <2>3. t \in Pool /\ tpc[t] # "idle" => \E k \in Jobs : by'[k] = t
    BY <1>1, <1>2, <2>1, ZenonT(30) DEF LifeOK
  <2>4. LifeOK(t)'
    BY <1>1, <2>1, <2>3, ZenonT(30) DEF LifeOK
  <2> QED BY <2>2, <2>4
<1>5. QueueOK'
  BY <1>1, <1>2, SMT, SMTT(60) DEF IInv, QueueOK, NoDup, Queued
<1>6. ActionsOK' /\ QuietOK'
  BY <1>1, Zenon DEF IInv, ActionsOK, QuietOK
<1>7. Counted'
  <2>1. BusyJobs' = BusyJobs
    BY <1>1, <1>2, SMT, SMTT(30) DEF BusyJobs
  <2>2. LiveWorkers' = LiveWorkers
    BY <1>1 DEF LiveWorkers, Uncounted, Ran, InFlight
  <2> QED BY <1>1, <2>1, <2>2 DEF IInv, Counted
<1> QED BY <1>3, <1>4, <1>5, <1>6, <1>7 DEF IInv

\* _complete() counts the job out, and registers the task at zero.
LEMMA JobDoneStep == ASSUME CardinalityLaws, IInv, NEW j \in Jobs, JobDone(j) PROVE IInv'
<1>1. /\ site' = site /\ tpc' = tpc /\ queue' = queue /\ handler' = handler /\ calls' = calls
      /\ life' = life /\ asked' = asked /\ notify' = notify
      /\ jobs' = jobs - 1 /\ actions' = actions /\ main' = main /\ by' = by
      /\ (quit' <=> quit) /\ (reloading' <=> reloading) /\ (task' <=> task \/ (quit /\ jobs = 1))
      /\ (terminating' <=> terminating) /\ (timer' <=> timer)
      /\ io[j] = "done" /\ io' = [io EXCEPT ![j] = "idle"] /\ main.pc = "loop"
  BY ZenonT(30) DEF JobDone, JobComplete, InLoop, callVars, workVars, exitVars
<1>2. /\ io' \in [Jobs -> {"idle", "queued", "working", "done"}] /\ io'[j] = "idle"
      /\ \A k \in Jobs : k # j => io'[k] = io[k]
  BY <1>1 DEF IInv, LoopTypes
<1>3. CallTypes' /\ LoopTypes'
  BY <1>1, <1>2 DEF IInv, CallTypes, LoopTypes
<1>4. ASSUME NEW t \in Threads PROVE (SiteOK(t) /\ LifeOK(t))'
  <2>1. SiteOK(t) /\ LifeOK(t) BY DEF IInv
  <2> QED BY <1>1, <2>1, ZenonT(30) DEF SiteOK, LifeOK, Flying, Queued, Taken
<1>5. QueueOK'
  BY <1>1, <1>2, ZenonT(30) DEF IInv, QueueOK, NoDup, Queued
<1>6. ActionsOK'
  BY <1>1 DEF IInv, ActionsOK
<1>7. j \in BusyJobs /\ jobs > 0 /\ jobs \in Nat
  BY <1>1, Occupied DEF BusyJobs
<1>8. QuietOK'
  BY <1>1, <1>7 DEF IInv, QuietOK
<1>9. Counted'
  <2>1. BusyJobs' = BusyJobs \ {j}
    BY <1>2, SMT, SMTT(30) DEF BusyJobs
  <2>2. LiveWorkers' = LiveWorkers
    BY <1>1 DEF LiveWorkers, Uncounted, Ran, InFlight
  <2>3. LiveWorkers \subseteq Workers /\ BusyJobs \subseteq Jobs BY SMT, SMTT(30) DEF LiveWorkers, BusyJobs
  <2> QED BY <1>1, <1>7, <2>1, <2>2, <2>3, CountChange, FiniteCounts DEF IInv, Counted
<1> QED BY <1>3, <1>4, <1>5, <1>6, <1>8, <1>9 DEF IInv

-----------------------------------------------------------------------------
(* The steps of a thread.                                                  *)

\* What a step of a thread leaves alone outside its own call site.
othersVars == <<queue, handler, asked, notify, ioVars, syncVars, exitVars>>

\* A step that changes nothing but t and its site.
OnlyThread(t) ==
  /\ UNCHANGED othersVars
  /\ \E s : site' = [site EXCEPT ![t] = s]
  /\ \E pc \in Pcs : tpc' = [tpc EXCEPT ![t] = pc]
  /\ \E n \in Int : calls' = [calls EXCEPT ![t] = n]
  /\ \E l \in Lives : life' = [life EXCEPT ![t] = l]

\* A step that touches one thread only: what is left to show is about that
\* thread.
LEMMA OnlyThreadStep ==
  ASSUME IInv, NEW t \in Threads, OnlyThread(t),
         site'[t] \in [pending : BOOLEAN, wait : BOOLEAN, mainfree : BOOLEAN,
                       freed : BOOLEAN, func : Funcs],
         (SiteOK(t) /\ LifeOK(t))',
         t \in Workers => (Uncounted(t)' <=> Uncounted(t)),
         t \in Workers /\ life[t] = "none" => life'[t] = "none",
         handler.dofree /\ handler.t = t =>
            life'[t] = "stopped" /\ ~site'[t].freed /\ ~site'[t].pending,
         \A j \in Jobs : by[j] = t => life'[t] = "running"
  PROVE  IInv'
<1>1. /\ queue' = queue /\ handler' = handler /\ asked' = asked /\ notify' = notify
      /\ io' = io /\ by' = by
      /\ jobs' = jobs /\ actions' = actions /\ main' = main
      /\ (quit' <=> quit) /\ (reloading' <=> reloading) /\ (task' <=> task)
      /\ (terminating' <=> terminating) /\ (timer' <=> timer)
  BY DEF OnlyThread, othersVars, ioVars, syncVars, exitVars
<1>2. /\ site' \in [Threads -> [pending : BOOLEAN, wait : BOOLEAN, mainfree : BOOLEAN,
                                freed : BOOLEAN, func : Funcs]]
      /\ \A u \in Threads : u # t => site'[u] = site[u]
  BY SMT, SMTT(30) DEF OnlyThread, IInv, CallTypes
<1>3. tpc' \in [Threads -> Pcs] /\ \A u \in Threads : u # t => tpc'[u] = tpc[u]
  BY SMT, SMTT(30) DEF OnlyThread, IInv, CallTypes
<1>4. calls' \in [Threads -> Int] /\ \A u \in Threads : u # t => calls'[u] = calls[u]
  BY DEF OnlyThread, IInv, CallTypes
<1>5. life' \in [Threads -> Lives] /\ \A u \in Threads : u # t => life'[u] = life[u]
  BY SMT, SMTT(30) DEF OnlyThread, IInv, LoopTypes
<1>6. CallTypes' /\ LoopTypes'
  BY <1>1, <1>2, <1>3, <1>4, <1>5, SMT, SMTT(30) DEF IInv, CallTypes, LoopTypes
<1>7. ASSUME NEW u \in Threads PROVE (SiteOK(u) /\ LifeOK(u))'
  <2>1. CASE u = t BY <2>1, ZenonT(30)
  <2>2. CASE u # t
    <3>1. SiteOK(u) /\ LifeOK(u) BY Zenon DEF IInv
    <3>2. /\ site'[u] = site[u] /\ tpc'[u] = tpc[u] /\ calls'[u] = calls[u] /\ life'[u] = life[u]
      BY <1>2, <1>3, <1>4, <1>5, <2>2, SMT, SMTT(30)
    <3> QED BY <1>1, <3>1, <3>2, ZenonT(30) DEF SiteOK, LifeOK
  <2> QED BY <2>1, <2>2, Zenon
<1>8. QueueOK'
  <2>1. handler.dofree => handler.t \in Threads
    BY ZenonT(30) DEF IInv, QueueOK, CallTypes
  <2>2. handler.dofree => handler.pc = "signal" /\ life'[handler.t] = "stopped"
                          /\ ~site'[handler.t].freed /\ ~site'[handler.t].pending
    BY <1>2, <1>5, <2>1, ZenonT(30) DEF IInv, QueueOK
  <2>3. ASSUME NEW j \in Jobs, by[j] # NoThread
        PROVE  life'[by[j]] = "running" /\ io[j] = "working"
    <3>1. by[j] \in Threads BY <2>3, MainLoopConstants DEF IInv, LoopTypes
    <3>2. life[by[j]] = "running" /\ io[j] = "working" BY <2>3, Zenon DEF IInv, QueueOK
    <3>3. CASE by[j] = t BY <3>2, <3>3, Zenon
    <3>4. CASE by[j] # t BY <1>5, <3>1, <3>2, <3>4, Zenon
    <3> QED BY <3>3, <3>4, Zenon
  <2> QED BY <1>1, <2>2, <2>3, ZenonT(30) DEF IInv, QueueOK
<1>9. ActionsOK' /\ QuietOK'
  <2>1. main.pc = "start" => \A w \in main.todo : life'[w] = "none"
    BY <1>5, MainLoopConstants, ZenonT(30) DEF IInv, ActionsOK, LoopTypes
  <2> QED BY <1>1, <2>1, Zenon DEF IInv, ActionsOK, QuietOK
<1>10. Counted'
  <2>1. BusyJobs' = BusyJobs BY <1>1, ZenonT(30) DEF BusyJobs
  <2>2. ASSUME NEW u \in Workers PROVE Uncounted(u)' <=> Uncounted(u)
    <3>1. CASE u = t BY <3>1, <2>2, SMT, SMTT(30)
    <3>2. CASE u # t
      <4>1. tpc'[u] = tpc[u] /\ life'[u] = life[u]
        BY <1>3, <1>5, <3>2, MainLoopConstants, Zenon
      <4> QED BY <1>1, <4>1, ZenonT(30) DEF Uncounted, Ran, InFlight
    <3> QED BY <3>1, <3>2, ZenonT(30)
  <2>3. LiveWorkers' = LiveWorkers BY <2>2, SMT, SMTT(30) DEF LiveWorkers
  <2> QED BY <1>1, <2>1, <2>3, ZenonT(30) DEF IInv, Counted
<1> QED BY <1>6, <1>7, <1>8, <1>9, <1>10, SMT, SMTT(30) DEF IInv

\* A worker's thread gets its call site.
LEMMA ThreadInitStep == ASSUME IInv, NEW w \in Workers, ThreadInit(w) PROVE IInv'
<1>1. w \in Threads BY MainLoopConstants, SMT, SMTT(30)
<1>2. SiteOK(w) /\ LifeOK(w) /\ life[w] = "starting" /\ tpc[w] = "idle" /\ ~site[w].pending
  BY <1>1, Zenon DEF IInv, ThreadInit, LifeOK
<1>3. UNCHANGED othersVars /\ calls' = calls
  BY DEF ThreadInit, othersVars
<1>4. site' = [site EXCEPT ![w] = NewSite] /\ site'[w] = NewSite
  BY <1>1 DEF ThreadInit, IInv, CallTypes
<1>5. tpc' = [tpc EXCEPT ![w] = "idle"] /\ tpc'[w] = "idle"
  BY <1>1 DEF ThreadInit, Goto, IInv, CallTypes
<1>6. life' = [life EXCEPT ![w] = "running"] /\ life'[w] = "running"
  BY <1>1 DEF ThreadInit, IInv, LoopTypes
<1>7. calls' = [calls EXCEPT ![w] = calls[w]] /\ calls[w] \in Int
  BY <1>1, <1>3 DEF IInv, CallTypes
<1>8. OnlyThread(w)
  <2>1. "idle" \in Pcs /\ "running" \in Lives BY DEF Pcs, Lives
  <2> QED BY <2>1, <1>3, <1>4, <1>5, <1>6, <1>7, Zenon DEF OnlyThread
<1>9. queue' = queue /\ handler' = handler BY <1>3, SMT, SMTT(30) DEF othersVars
<1>10. (SiteOK(w) /\ LifeOK(w))'
  <2>1. /\ ~NewSite.pending /\ ~NewSite.wait /\ ~NewSite.mainfree /\ ~NewSite.freed
    BY DEF NewSite
  <2>2. ~Flying(queue, handler, w) /\ calls[w] = 0
    BY <1>2, Zenon DEF SiteOK
  <2>3. SiteOK(w)'
    BY <1>3, <1>4, <1>5, <1>9, <2>1, <2>2, Zenon DEF SiteOK, Flying
  <2>4. LifeOK(w)'
    BY <1>4, <1>5, <1>6, <2>1, Zenon DEF LifeOK
  <2> QED BY <2>3, <2>4, Zenon
<1>11. Uncounted(w)' /\ Uncounted(w)
  BY <1>2, <1>6 DEF Uncounted
<1>12. ~(handler.dofree /\ handler.t = w)
  BY <1>2 DEF IInv, QueueOK
<1>13. NewSite \in [pending : BOOLEAN, wait : BOOLEAN, mainfree : BOOLEAN,
                    freed : BOOLEAN, func : Funcs]
  BY DEF NewSite, Funcs
<1> QED BY <1>1, <1>2, <1>4, <1>6, <1>8, <1>10, <1>11, <1>12, <1>13, OnlyThreadStep, Zenon

\* A step of a thread that only moves its place in the program and its stage.
Moves(t, pc, l) ==
  /\ UNCHANGED othersVars /\ site' = site /\ calls' = calls
  /\ tpc' = [tpc EXCEPT ![t] = pc]
  /\ life' = [life EXCEPT ![t] = l]

\* A thread moves without touching its site.
LEMMA MovesStep ==
  ASSUME IInv, NEW t \in Threads, NEW pc \in Pcs, NEW l \in Lives, Moves(t, pc, l),
         life[t] \in {"running", "ending"}, l \in {"running", "ending"},
         l = life[t] \/ (l = "ending" /\ t \in Workers /\ tpc[t] = "idle"),
         tpc[t] # "post" /\ pc # "post",
         (tpc[t] = "idle" /\ pc = "enter") \/ (tpc[t] = "returned" /\ pc = "idle" /\ l = "running")
           \/ (l = life[t] /\ tpc[t] \notin {"idle", "returned"} /\ pc \notin {"idle", "returned"}
               /\ (pc \in {"waiting", "woken"} <=> tpc[t] \in {"waiting", "woken"})),
         pc = "fill" => ~site[t].pending,
         t \in Pool /\ pc # "idle" => \E j \in Jobs : by[j] = t
  PROVE  IInv'
<1>1. SiteOK(t) /\ LifeOK(t) BY SMT, SMTT(30) DEF IInv
<1>2. queue' = queue /\ handler' = handler /\ by' = by /\ site' = site /\ calls' = calls
  BY SMT, SMTT(30) DEF Moves, othersVars, ioVars
<1>3. tpc'[t] = pc /\ life'[t] = l
  BY DEF Moves, IInv, CallTypes, LoopTypes
<1>4. OnlyThread(t)
  <2>1. site' = [site EXCEPT ![t] = site[t]]
    BY SMT, SMTT(30) DEF Moves, IInv, CallTypes
  <2>2. calls' = [calls EXCEPT ![t] = calls[t]] /\ calls[t] \in Int
    BY SMT, SMTT(30) DEF Moves, IInv, CallTypes
  <2> QED BY <2>1, <2>2, Zenon DEF OnlyThread, Moves
<1>5. SiteOK(t)'
  BY <1>1, <1>2, <1>3, ZenonT(30) DEF SiteOK, LifeOK
<1>6. LifeOK(t)'
  BY <1>1, <1>2, <1>3, MainLoopConstants, ZenonT(30) DEF SiteOK, LifeOK
<1>7. Uncounted(t)' <=> Uncounted(t)
  <2>1. Ran(t)' <=> Ran(t)
    BY <1>2, ZenonT(30) DEF Ran, InFlight
  <2>2. CASE l = "running"
    BY <1>3, <2>2, ZenonT(30) DEF Uncounted
  <2>3. CASE l = "ending"
    <3>1. pc \notin {"returned", "idle"}
      BY <2>3, SMT, SMTT(30)
    <3>2. CASE life[t] = "running"
      BY <1>3, <2>3, <3>2, ZenonT(30) DEF Uncounted
    <3>3. CASE life[t] = "ending"
      <4>1. tpc[t] \notin {"idle", "returned"}
         BY <1>1, <2>3, <3>1, <3>3, ZenonT(30) DEF LifeOK
      <4> QED BY <1>3, <2>1, <2>3, <3>1, <3>3, <4>1, SMT, SMTT(30) DEF Uncounted
    <3> QED BY <3>2, <3>3
  <2> QED BY <2>2, <2>3, ZenonT(30)
<1>8. ~(handler.dofree /\ handler.t = t)
  BY ZenonT(30) DEF IInv, QueueOK
<1>9. ASSUME NEW j \in Jobs, by[j] = t PROVE l = "running"
  <2>1. t \notin Workers /\ life[t] = "running"
    BY <1>9, MainLoopConstants, ZenonT(30) DEF IInv, QueueOK, LoopTypes
  <2> QED BY <2>1, SMT, SMTT(30)
<1>10. site[t] \in [pending : BOOLEAN, wait : BOOLEAN, mainfree : BOOLEAN,
                    freed : BOOLEAN, func : Funcs]
  BY ZenonT(30) DEF IInv, CallTypes
<1> QED BY <1>2, <1>3, <1>4, <1>5, <1>6, <1>7, <1>8, <1>9, <1>10, OnlyThreadStep, ZenonT(30)

\* ml_batched_timer_update() enters main_loop_call().
LEMMA TimerUpdateStep ==
  ASSUME IInv, NEW t \in Threads, NEW e \in Expiries, TimerUpdate(t, e) PROVE IInv'
<1>1. life[t] = "running" /\ tpc[t] = "idle" /\ tpc' = [tpc EXCEPT ![t] = "enter"]
  BY DEF TimerUpdate, Goto
<1>2. UNCHANGED othersVars /\ site' = site /\ calls' = calls /\ life' = life
  BY DEF TimerUpdate, othersVars, workVars
<1>3. Moves(t, "enter", "running")
  <2>1. life' = [life EXCEPT ![t] = "running"]
    BY <1>1, <1>2 DEF IInv, LoopTypes
  <2> QED BY <1>1, <1>2, <2>1, Zenon DEF Moves
<1>4. t \in Pool => \E j \in Jobs : by[j] = t
  BY MainLoopConstants DEF TimerUpdate
<1>5. "enter" \in Pcs /\ "running" \in Lives BY SMT, SMTT(30) DEF Pcs, Lives
<1> QED BY <1>1, <1>3, <1>4, <1>5, MovesStep, Zenon

\* run() returns: the worker is ending and still counted.
LEMMA RunReturnsStep == ASSUME IInv, NEW w \in Workers, RunReturns(w) PROVE IInv'
<1>1. w \in Threads /\ w \notin Pool BY MainLoopConstants
<1>2. life[w] = "running" /\ tpc[w] = "idle" /\ tpc' = [tpc EXCEPT ![w] = "enter"]
      /\ life' = [life EXCEPT ![w] = "ending"]
  BY DEF RunReturns, Goto
<1>3. UNCHANGED othersVars /\ site' = site /\ calls' = calls
  BY DEF RunReturns, othersVars
<1>4. Moves(w, "enter", "ending")
  BY <1>2, <1>3, Zenon DEF Moves
<1>5. "enter" \in Pcs /\ "ending" \in Lives BY SMT, SMTT(30) DEF Pcs, Lives
<1> QED BY <1>1, <1>2, <1>4, <1>5, MovesStep

\* A thread in main_loop_call().
LEMMA Calling ==
  ASSUME IInv, NEW t \in Threads, tpc[t] # "idle"
  PROVE  /\ SiteOK(t) /\ LifeOK(t) /\ life[t] \in {"running", "ending"}
         /\ t \in Pool => \E j \in Jobs : by[j] = t
         /\ site[t] \in [pending : BOOLEAN, wait : BOOLEAN, mainfree : BOOLEAN,
                         freed : BOOLEAN, func : Funcs]
         /\ ~(handler.dofree /\ handler.t = t)
         /\ \A j \in Jobs : by[j] = t => life[t] = "running"
<1>1. SiteOK(t) /\ LifeOK(t) BY SMT, SMTT(30) DEF IInv
<1>2. life[t] \in {"running", "ending"} BY <1>1, SMT, SMTT(30) DEF LifeOK
<1>3. t \in Pool => \E j \in Jobs : by[j] = t BY <1>1, SMT, SMTT(30) DEF LifeOK
<1>4. ~(handler.dofree /\ handler.t = t) BY <1>2, ZenonT(30) DEF IInv, QueueOK
<1>5. \A j \in Jobs : by[j] = t => life[t] = "running"
  BY MainLoopConstants, ZenonT(30) DEF IInv, QueueOK
<1> QED BY <1>1, <1>2, <1>3, <1>4, <1>5 DEF IInv, CallTypes

\* A thread that keeps its stage.
LEMMA MovesOn ==
  ASSUME IInv, NEW t \in Threads, NEW pc \in Pcs,
         UNCHANGED othersVars, site' = site, calls' = calls, life' = life,
         tpc' = [tpc EXCEPT ![t] = pc]
  PROVE  Moves(t, pc, life[t]) /\ life[t] \in Lives
<1>1. life' = [life EXCEPT ![t] = life[t]] /\ life[t] \in Lives
  BY DEF IInv, LoopTypes
<1> QED BY <1>1, Zenon DEF Moves

\* The loop of main_loop_wait_for_pending_call_to_finish().
LEMMA WaitLoopStep ==
  ASSUME IInv, NEW t \in Threads, WaitLoop(t), UNCHANGED <<workVars, ioVars, syncVars, exitVars>>
  PROVE  IInv'
<1>1. UNCHANGED othersVars /\ site' = site /\ calls' = calls /\ life' = life
  BY DEF WaitLoop, othersVars, workVars
<1>2. tpc[t] \in {"check", "recheck"} BY DEF WaitLoop
<1>3. PICK pc \in {"asleep", "fill"} : tpc' = [tpc EXCEPT ![t] = pc] /\ (pc = "fill" => ~site[t].pending)
  BY Zenon DEF WaitLoop, Goto
<1>4. pc \in Pcs BY DEF Pcs
<1>5. Moves(t, pc, life[t]) /\ life[t] \in Lives
  BY <1>1, <1>3, <1>4, MovesOn, Zenon
<1>6. /\ life[t] \in {"running", "ending"}
      /\ t \in Pool => \E j \in Jobs : by[j] = t
  BY <1>2, Calling
<1> QED BY <1>2, <1>3, <1>4, <1>5, <1>6, MovesStep, Zenon

\* A step of main_loop_call() that writes the thread's own site.
LEMMA SiteStep ==
  ASSUME IInv, NEW t \in Threads, tpc[t] # "idle",
         NEW s \in [pending : BOOLEAN, wait : BOOLEAN, mainfree : BOOLEAN,
                    freed : BOOLEAN, func : Funcs],
         NEW pc \in Pcs, NEW n \in Int,
         UNCHANGED othersVars, life' = life,
         site' = [site EXCEPT ![t] = s],
         tpc' = [tpc EXCEPT ![t] = pc],
         calls' = [calls EXCEPT ![t] = n],
         (SiteOK(t) /\ LifeOK(t))',
         Uncounted(t)' <=> Uncounted(t)
  PROVE  IInv'
<1>1. life' = [life EXCEPT ![t] = life[t]] /\ life[t] \in Lives
  BY DEF IInv, LoopTypes
<1>2. OnlyThread(t)
  BY <1>1, Zenon DEF OnlyThread
<1>3. site'[t] = s
  BY SMT, SMTT(30) DEF IInv, CallTypes
<1>4. ~(handler.dofree /\ handler.t = t) /\ \A j \in Jobs : by[j] = t => life'[t] = "running"
  BY Calling
<1> QED BY <1>2, <1>3, <1>4, OnlyThreadStep, Zenon

\* Its first look at the previous call.
LEMMA WaitPendingStep ==
  ASSUME IInv, NEW t \in Threads, WaitPending(t), UNCHANGED <<workVars, ioVars, syncVars, exitVars>>
  PROVE  IInv'
<1>1. UNCHANGED othersVars /\ calls' = calls /\ life' = life /\ tpc[t] = "enter"
  BY SMT, SMTT(30) DEF WaitPending, othersVars, workVars
<1>2. CASE ~site[t].pending
  <2>1. site' = site /\ tpc' = [tpc EXCEPT ![t] = "fill"]
    BY <1>2 DEF WaitPending, Goto
  <2>2. "fill" \in Pcs BY DEF Pcs
  <2>3. Moves(t, "fill", life[t]) /\ life[t] \in Lives
    BY <1>1, <2>1, <2>2, MovesOn, Zenon
  <2>4. /\ life[t] \in {"running", "ending"}
        /\ t \in Pool => \E j \in Jobs : by[j] = t
    BY <1>1, Calling
  <2> QED BY <1>1, <1>2, <2>2, <2>3, <2>4, MovesStep, Zenon
<1>3. CASE site[t].pending
  <2> DEFINE s == [site[t] EXCEPT !.wait = TRUE]
  <2>1. site' = [site EXCEPT ![t] = s] /\ tpc' = [tpc EXCEPT ![t] = "check"]
    BY <1>3 DEF WaitPending, Goto
  <2>2. site'[t] = s /\ tpc'[t] = "check" /\ life'[t] = life[t] /\ calls'[t] = calls[t]
    BY <1>1, <2>1 DEF IInv, CallTypes
  <2>3. /\ SiteOK(t) /\ LifeOK(t) /\ life[t] \in {"running", "ending"}
        /\ site[t] \in [pending : BOOLEAN, wait : BOOLEAN, mainfree : BOOLEAN,
                        freed : BOOLEAN, func : Funcs]
    BY <1>1, Calling
  <2>4. /\ s \in [pending : BOOLEAN, wait : BOOLEAN, mainfree : BOOLEAN,
                  freed : BOOLEAN, func : Funcs]
        /\ s.wait /\ s.pending = site[t].pending /\ s.mainfree = site[t].mainfree
        /\ s.freed = site[t].freed /\ s.func = site[t].func
    BY <2>3, Zenon
  <2> HIDE DEF s
  <2>5. queue' = queue /\ handler' = handler /\ by' = by
    BY <1>1 DEF othersVars, ioVars
  <2>6. (SiteOK(t) /\ LifeOK(t))'
    BY <1>1, <1>3, <2>2, <2>3, <2>4, <2>5, ZenonT(30) DEF SiteOK, LifeOK
  <2>7. Uncounted(t)' <=> Uncounted(t)
    BY <1>1, <2>2, <2>5, Zenon DEF Uncounted, Ran, InFlight
  <2>8. calls' = [calls EXCEPT ![t] = calls[t]] /\ calls[t] \in Int /\ "check" \in Pcs
    BY <1>1, SMT, SMTT(30) DEF IInv, CallTypes, Pcs
  <2> QED BY <1>1, <2>1, <2>4, <2>6, <2>7, <2>8, SiteStep, Zenon
<1> QED BY <1>2, <1>3

\* The call site is filled in: it was not pending.
LEMMA FillStep ==
  ASSUME IInv, NEW t \in Threads, NEW func \in Funcs, NEW wait \in BOOLEAN, Fill(t, func, wait),
         life[t] = "running" => func = "update" /\ ~wait,
         life[t] = "ending" => func = "complete" /\ wait,
         UNCHANGED <<workVars, ioVars, syncVars, exitVars>>
  PROVE  IInv'
<1>1. UNCHANGED othersVars /\ life' = life /\ tpc[t] = "fill" /\ tpc' = [tpc EXCEPT ![t] = "post"]
      /\ calls' = [calls EXCEPT ![t] = calls[t] + 1]
  BY DEF Fill, Goto, othersVars, workVars
<1> DEFINE s == [site[t] EXCEPT !.pending = TRUE, !.func = func, !.wait = wait]
<1>2. site' = [site EXCEPT ![t] = s]
  BY Zenon DEF Fill, IInv, CallTypes
<1>3. /\ SiteOK(t) /\ LifeOK(t) /\ life[t] \in {"running", "ending"}
      /\ site[t] \in [pending : BOOLEAN, wait : BOOLEAN, mainfree : BOOLEAN,
                      freed : BOOLEAN, func : Funcs]
      /\ calls[t] \in Int
  BY <1>1, Calling, Zenon DEF IInv, CallTypes
<1>4. /\ site'[t] = s /\ tpc'[t] = "post" /\ life'[t] = life[t] /\ calls'[t] = calls[t] + 1
  BY <1>1, <1>2 DEF IInv, CallTypes
<1>5. /\ s \in [pending : BOOLEAN, wait : BOOLEAN, mainfree : BOOLEAN,
                freed : BOOLEAN, func : Funcs]
      /\ s.pending /\ (s.wait <=> wait) /\ s.mainfree = site[t].mainfree
      /\ s.freed = site[t].freed /\ s.func = func
  BY <1>3, ZenonT(30)
<1> HIDE DEF s
<1>6. queue' = queue /\ handler' = handler /\ by' = by
  BY <1>1 DEF othersVars, ioVars
<1>7. ~Flying(queue, handler, t) /\ ~site[t].pending /\ calls[t] = 0
  BY <1>1, <1>3, Zenon DEF SiteOK
<1>8. SiteOK(t)'
  <2>1. calls'[t] = 1 BY <1>4, <1>7, SMT, SMTT(30)
  <2> QED BY <1>3, <1>4, <1>5, <1>6, <1>7, <2>1, ZenonT(30) DEF SiteOK, LifeOK, Flying
<1>9. LifeOK(t)'
  BY <1>1, <1>3, <1>4, <1>5, <1>6, Zenon DEF LifeOK
<1>10. Uncounted(t)' <=> Uncounted(t)
  BY <1>1, <1>4, <1>6, Zenon DEF Uncounted, Ran, InFlight
<1>11. calls[t] + 1 \in Int /\ "post" \in Pcs
  BY <1>3, SMT, SMTT(30) DEF Pcs
<1> QED BY <1>1, <1>2, <1>5, <1>8, <1>9, <1>10, <1>11, SiteStep, Zenon

\* A thread that was signalled returns only when its call has run.
LEMMA WokenStep ==
  ASSUME IInv, NEW t \in Threads, Woken(t), UNCHANGED <<workVars, ioVars, syncVars, exitVars>>
  PROVE  IInv'
<1>1. UNCHANGED othersVars /\ site' = site /\ calls' = calls /\ life' = life /\ tpc[t] = "woken"
  BY Zenon DEF Woken, othersVars, workVars
<1>2. PICK pc \in {"waiting", "returned"} :
        tpc' = [tpc EXCEPT ![t] = pc] /\ (pc = "returned" => ~site[t].pending)
  BY Zenon DEF Woken, Goto
<1>3. /\ SiteOK(t) /\ LifeOK(t) /\ life[t] = "ending" /\ site[t].wait
      /\ site[t] \in [pending : BOOLEAN, wait : BOOLEAN, mainfree : BOOLEAN,
                      freed : BOOLEAN, func : Funcs]
      /\ calls[t] \in Int
  BY <1>1, Calling, Zenon DEF IInv, CallTypes, LifeOK
<1>4. tpc'[t] = pc /\ life'[t] = life[t] /\ site'[t] = site[t] /\ calls'[t] = calls[t]
  BY <1>1, <1>2 DEF IInv, CallTypes
<1>5. queue' = queue /\ handler' = handler /\ by' = by
  BY <1>1, SMT, SMTT(30) DEF othersVars, ioVars
<1>6. (SiteOK(t) /\ LifeOK(t))'
  BY <1>1, <1>2, <1>3, <1>4, <1>5, ZenonT(30) DEF SiteOK, LifeOK
<1>7. Uncounted(t)' <=> Uncounted(t)
  BY <1>1, <1>2, <1>4, <1>5 DEF Uncounted, Ran, InFlight
<1>8. /\ site' = [site EXCEPT ![t] = site[t]] /\ calls' = [calls EXCEPT ![t] = calls[t]]
      /\ pc \in Pcs
  BY <1>1, SMT, SMTT(30) DEF IInv, CallTypes, Pcs
<1> QED BY <1>1, <1>2, <1>3, <1>6, <1>7, <1>8, SiteStep, ZenonT(30)

\* A thread stops: its site is freed, or left to the handler.
LEMMA StopStep ==
  ASSUME IInv, NEW t \in Threads, CallThreadDeinit(t),
         UNCHANGED <<asked, notify, ioVars, syncVars, exitVars>>,
         tpc' = [tpc EXCEPT ![t] = "idle"], life' = [life EXCEPT ![t] = "stopped"],
         \/ t \in Pool /\ life[t] = "running" /\ tpc[t] = "idle"
         \/ t \in Workers /\ life[t] = "ending" /\ tpc[t] = "returned",
         \A j \in Jobs : by[j] # t
  PROVE  IInv'
<1>1. UNCHANGED othersVars /\ calls' = calls
  BY DEF CallThreadDeinit, othersVars
<1> DEFINE s == [site[t] EXCEPT !.mainfree = site[t].pending, !.freed = ~site[t].pending]
<1>2. site' = [site EXCEPT ![t] = s]
  BY Zenon DEF CallThreadDeinit, IInv, CallTypes
<1>3. /\ SiteOK(t) /\ LifeOK(t)
      /\ site[t] \in [pending : BOOLEAN, wait : BOOLEAN, mainfree : BOOLEAN,
                      freed : BOOLEAN, func : Funcs]
      /\ calls[t] \in Int
  BY DEF IInv, CallTypes
<1>4. /\ site'[t] = s /\ tpc'[t] = "idle" /\ life'[t] = "stopped" /\ calls'[t] = calls[t]
  BY <1>1, <1>2 DEF IInv, CallTypes, LoopTypes
<1>5. /\ s \in [pending : BOOLEAN, wait : BOOLEAN, mainfree : BOOLEAN,
                freed : BOOLEAN, func : Funcs]
      /\ s.pending = site[t].pending /\ s.wait = site[t].wait
      /\ (s.mainfree <=> site[t].pending) /\ (s.freed <=> ~site[t].pending) /\ s.func = site[t].func
  BY <1>3, ZenonT(30)
<1> HIDE DEF s
<1>6. queue' = queue /\ handler' = handler /\ by' = by
  BY <1>1 DEF othersVars, ioVars
<1>7. t \in Workers => ~site[t].pending
  BY <1>3, MainLoopConstants, Zenon DEF LifeOK, SiteOK
<1>8. SiteOK(t)'
  BY <1>3, <1>4, <1>5, <1>6, ZenonT(30) DEF SiteOK
<1>9. LifeOK(t)'
  BY <1>4, <1>5, <1>6, <1>7, MainLoopConstants, ZenonT(30) DEF LifeOK
<1>10. t \in Workers => ~Uncounted(t) /\ ~Uncounted(t)'
  <2>1. ASSUME t \in Workers PROVE Ran(t)
    <3>1. ~Flying(queue, handler, t) BY <1>3, <1>7, <2>1, Zenon DEF SiteOK
    <3> QED BY <3>1, ZenonT(30) DEF Ran, InFlight, Flying, Queued, Taken
  <2> QED BY <2>1, <1>4, MainLoopConstants, ZenonT(30) DEF Uncounted
<1>11. OnlyThread(t)
  <2>1. calls' = [calls EXCEPT ![t] = calls[t]] BY <1>1 DEF IInv, CallTypes
  <2>2. "idle" \in Pcs /\ "stopped" \in Lives BY SMT, SMTT(30) DEF Pcs, Lives
  <2> QED BY <1>1, <1>2, <1>3, <2>1, <2>2, Zenon DEF OnlyThread
<1>12. ~(handler.dofree /\ handler.t = t)
  BY Zenon DEF IInv, QueueOK
<1>13. life[t] # "none" BY SMT, SMTT(30)
<1> QED BY <1>4, <1>5, <1>8, <1>9, <1>10, <1>11, <1>12, <1>13, OnlyThreadStep, Zenon

\* The call has returned to the worker, which goes on or stops.
LEMMA CallReturnsStep == ASSUME IInv, NEW t \in Threads, CallReturns(t) PROVE IInv'
<1>1. tpc[t] = "returned" /\ tpc' = [tpc EXCEPT ![t] = "idle"]
  BY SMT, SMTT(30) DEF CallReturns, Goto
<1>2. CASE life[t] = "running"
  <2>1. UNCHANGED othersVars /\ site' = site /\ calls' = calls /\ life' = life
    BY <1>2 DEF CallReturns, othersVars
  <2>2. "idle" \in Pcs BY DEF Pcs
  <2>3. Moves(t, "idle", life[t]) /\ life[t] \in Lives
    BY <1>1, <2>1, <2>2, MovesOn, Zenon
  <2> QED BY <1>1, <1>2, <2>2, <2>3, MovesStep, SMT, SMTT(30)
<1>3. CASE life[t] = "ending"
  <2>1. /\ CallThreadDeinit(t) /\ UNCHANGED <<asked, notify, ioVars, syncVars, exitVars>>
        /\ life' = [life EXCEPT ![t] = "stopped"]
    BY <1>3 DEF CallReturns
  <2>2. t \in Workers /\ \A j \in Jobs : by[j] # t
    BY <1>1, <1>3, Calling, ZenonT(30) DEF LifeOK
  <2> QED BY <1>1, <1>3, <2>1, <2>2, StopStep, ZenonT(30)
<1> QED BY <1>1, <1>2, <1>3, Calling

\* A thread of the pool stops, its last call run or not.
LEMMA PoolThreadStopStep == ASSUME IInv, NEW p \in Pool, PoolThreadStop(p) PROVE IInv'
<1>1. p \in Threads BY MainLoopConstants
<1>2. /\ CallThreadDeinit(p) /\ UNCHANGED <<asked, notify, ioVars, syncVars, exitVars>>
      /\ life' = [life EXCEPT ![p] = "stopped"] /\ tpc' = tpc
      /\ life[p] = "running" /\ \A j \in Jobs : by[j] # p
  BY SMT, SMTT(30) DEF PoolThreadStop
<1>3. tpc[p] = "idle"
  BY <1>1, <1>2, Zenon DEF IInv, LifeOK
<1>4. tpc' = [tpc EXCEPT ![p] = "idle"]
  BY <1>1, <1>2, <1>3 DEF IInv, CallTypes
<1> QED BY <1>1, <1>2, <1>3, <1>4, StopStep, Zenon

\* The call is queued once.
LEMMA PostStep ==
  ASSUME IInv, NEW t \in Threads, Post(t), UNCHANGED <<workVars, ioVars, syncVars, exitVars>>
  PROVE  IInv'
<1>1. /\ handler' = handler /\ asked' = asked /\ notify' = notify /\ life' = life
      /\ io' = io /\ by' = by /\ site' = site /\ calls' = calls
      /\ jobs' = jobs /\ actions' = actions /\ main' = main
      /\ (quit' <=> quit) /\ (reloading' <=> reloading) /\ (task' <=> task)
      /\ (terminating' <=> terminating) /\ (timer' <=> timer)
      /\ tpc[t] = "post" /\ queue' = <<t>> \o queue
  BY Zenon DEF Post, workVars, ioVars, syncVars, exitVars
<1>2. /\ tpc' = [tpc EXCEPT ![t] = IF site[t].wait THEN "waiting" ELSE "returned"]
      /\ tpc' \in [Threads -> Pcs] /\ \A u \in Threads : u # t => tpc'[u] = tpc[u]
      /\ tpc'[t] = IF site[t].wait THEN "waiting" ELSE "returned"
  BY SMT, SMTT(30) DEF Post, Goto, IInv, CallTypes, Pcs
<1>3. /\ SiteOK(t) /\ LifeOK(t) /\ life[t] \in {"running", "ending"}
      /\ t \in Pool => \E j \in Jobs : by[j] = t
  BY <1>1, Calling, ZenonT(30)
<1>4. ~Flying(queue, handler, t)
  BY <1>1, <1>3, Zenon DEF SiteOK
<1>5. /\ queue' \in Seq(Threads) /\ NoDup(queue')
      /\ \A u : Queued(queue', u) <=> (u = t \/ Queued(queue, u))
  <2>1. queue \in Seq(Threads) /\ NoDup(queue) /\ ~Queued(queue, t)
    BY <1>4, Zenon DEF IInv, CallTypes, QueueOK, Flying
  <2> QED BY <1>1, <2>1, PutFirst, SMT, SMTT(30)
<1>6. \A u : Flying(queue', handler', u) <=> (u = t \/ Flying(queue, handler, u))
  BY <1>1, <1>5, SMT, SMTT(30) DEF Flying
<1>7. CallTypes' /\ LoopTypes'
  BY <1>1, <1>2, <1>5 DEF IInv, CallTypes, LoopTypes
<1>8. ASSUME NEW u \in Threads PROVE (SiteOK(u) /\ LifeOK(u))'
  <2>1. CASE u = t
    <3>1. SiteOK(t)'
      BY <1>1, <1>2, <1>3, <1>6, ZenonT(30) DEF SiteOK, LifeOK
    <3>2. LifeOK(t)'
      BY <1>1, <1>2, <1>3, ZenonT(30) DEF LifeOK
    <3> QED BY <2>1, <3>1, <3>2, SMT, SMTT(30)
  <2>2. CASE u # t
    <3>1. SiteOK(u) /\ LifeOK(u) BY DEF IInv
    <3>2. Flying(queue', handler', u) <=> Flying(queue, handler, u) BY <1>6, <2>2
    <3>3. tpc'[u] = tpc[u] BY <1>2, <2>2, SMT, SMTT(30)
    <3> QED BY <1>1, <3>1, <3>2, <3>3, Zenon DEF SiteOK, LifeOK
  <2> QED BY <2>1, <2>2
<1>9. QueueOK'
  <2>1. handler.pc \in {"run", "mark"} => ~Queued(queue', handler.t)
    BY <1>4, <1>5, ZenonT(30) DEF IInv, QueueOK, Flying, Taken
  <2> QED BY <1>1, <1>5, <2>1, ZenonT(30) DEF IInv, QueueOK
<1>10. ActionsOK' /\ QuietOK'
  BY <1>1, Zenon DEF IInv, ActionsOK, QuietOK
<1>11. Counted'
  <2>1. BusyJobs' = BusyJobs BY <1>1 DEF BusyJobs
  <2>2. ASSUME NEW u \in Workers PROVE Uncounted(u)' <=> Uncounted(u)
    <3>1. InFlight(u)' <=> (u = t \/ InFlight(u))
      BY <1>6, SMT, SMTT(30) DEF InFlight, Flying, Queued, Taken
    <3>2. CASE u = t
      <4>1. ~Ran(t)'
        BY <1>1, <1>4, <3>1, <3>2, ZenonT(30) DEF Ran, Flying, Taken
      <4> QED BY <1>1, <1>3, <3>2, <4>1, ZenonT(30) DEF Uncounted
    <3>3. CASE u # t
      <4>1. tpc'[u] = tpc[u] BY <1>2, <3>3, MainLoopConstants
      <4> QED BY <1>1, <3>1, <3>3, <4>1, Zenon DEF Uncounted, Ran
    <3> QED BY <3>2, <3>3, SMT, SMTT(30)
  <2>3. LiveWorkers' = LiveWorkers BY <2>2, SMT, SMTT(30) DEF LiveWorkers
  <2> QED BY <1>1, <2>1, <2>3 DEF IInv, Counted
<1> QED BY <1>7, <1>8, <1>9, <1>10, <1>11, SMT, SMTT(30) DEF IInv

\* Every step of main_loop_call().
LEMMA CallStep == ASSUME IInv, NEW t \in Threads, Call(t) PROVE IInv'
<1>1. UNCHANGED <<workVars, ioVars, syncVars, exitVars>> BY DEF Call
<1>2. CASE WaitPending(t) BY <1>1, <1>2, WaitPendingStep
<1>3. CASE WaitLoop(t) BY <1>1, <1>3, WaitLoopStep
<1>4. CASE life[t] = "running" /\ Fill(t, "update", FALSE)
  <2>1. "update" \in Funcs BY DEF Funcs
  <2> QED BY <1>1, <1>4, <2>1, FillStep, Zenon
<1>5. CASE life[t] = "ending" /\ Fill(t, "complete", TRUE)
  <2>1. "complete" \in Funcs BY DEF Funcs
  <2> QED BY <1>1, <1>5, <2>1, FillStep, Zenon
<1>6. CASE Post(t) BY <1>1, <1>6, PostStep
<1>7. CASE Woken(t) BY <1>1, <1>7, WokenStep
<1> QED BY <1>2, <1>3, <1>4, <1>5, <1>6, <1>7, Zenon DEF Call

=============================================================================
