--------------------------- MODULE MainLoop_proof ---------------------------
(***************************************************************************)
(* What holds of the main loop: the taking of a job and the handler of     *)
(* calls preserve the inductive invariant, too, so it holds; WInv adds     *)
(* what a thread that sleeps and the shared timer rely on.                 *)
(***************************************************************************)
EXTENDS MainLoop_steps, FiniteSetTheorems

\* The facts of FiniteSetTheorems that the steps use.
LEMMA CardinalityLawsHold == CardinalityLaws
<1> SUFFICES ASSUME NEW S, IsFiniteSet(S)
             PROVE  /\ Cardinality(S) \in Nat /\ (Cardinality(S) = 0 <=> S = {})
                    /\ \A T : T \subseteq S => IsFiniteSet(T)
                    /\ \A x : /\ x \notin S => Cardinality(S \cup {x}) = Cardinality(S) + 1
                              /\ x \in S => Cardinality(S \ {x}) = Cardinality(S) - 1
  BY DEF CardinalityLaws
<1>1. Cardinality(S) \in Nat /\ (Cardinality(S) = 0 <=> S = {}) BY FS_CardinalityType, FS_EmptySet
<1>2. \A T : T \subseteq S => IsFiniteSet(T) BY FS_Subset
<1>3. ASSUME NEW x PROVE x \notin S => Cardinality(S \cup {x}) = Cardinality(S) + 1
  BY FS_AddElement
<1>4. ASSUME NEW x PROVE x \in S => Cardinality(S \ {x}) = Cardinality(S) - 1
  BY FS_RemoveElement
<1> QED BY <1>1, <1>2, <1>3, <1>4

-----------------------------------------------------------------------------
\* The program starts in the invariant.
LEMMA InitHolds == ASSUME Init PROVE IInv
<1> USE MainLoopConstants
<1>0. \A t : ~Queued(<<>>, t)
  BY DEF Queued
<1>1. NoDup(<<>>)
  BY DEF NoDup
<1>2. CallTypes /\ LoopTypes
  BY DEF Init, CallInit, CallTypes, LoopTypes, NewSite, NoHandler, Starting, Pcs, Lives, Funcs, MainPcs
<1>3. ASSUME NEW t \in Threads PROVE SiteOK(t) /\ LifeOK(t)
  BY <1>0 DEF Init, CallInit, SiteOK, LifeOK, Flying, Taken, NewSite, NoHandler
<1>4. QueueOK
  BY <1>1 DEF Init, CallInit, QueueOK, NoHandler
<1>5. ActionsOK /\ QuietOK
  BY DEF Init, CallInit, ActionsOK, QuietOK, Starting, NoHandler
<1>6. Counted
  <2>1. BusyJobs = {} /\ LiveWorkers = {}
    BY DEF Init, BusyJobs, LiveWorkers, Uncounted
  <2> QED BY <2>1, FS_EmptySet DEF Counted, Init
<1> QED BY <1>2, <1>3, <1>4, <1>5, <1>6 DEF IInv

\* A thread of the pool, old or new, takes a job.
LEMMA JobTakeStep ==
  ASSUME IInv, NEW j \in Jobs, NEW p \in Pool, JobTake(j, p) PROVE IInv'
<1>0. p \in Threads /\ p \notin Workers /\ p # NoThread BY MainLoopConstants
<1>1. /\ handler' = handler /\ queue' = queue /\ tpc' = tpc /\ calls' = calls
      /\ asked' = asked /\ notify' = notify
      /\ jobs' = jobs /\ actions' = actions /\ main' = main
      /\ (quit' <=> quit) /\ (reloading' <=> reloading) /\ (task' <=> task)
      /\ (terminating' <=> terminating) /\ (timer' <=> timer)
      /\ io[j] = "queued"
  BY SMT, SMTT(30) DEF JobTake, syncVars, exitVars
<1>2. /\ io' \in [Jobs -> {"idle", "queued", "working", "done"}] /\ io'[j] = "working"
      /\ \A k \in Jobs : k # j => io'[k] = io[k]
      /\ by' \in [Jobs -> Pool \cup {NoThread}] /\ by'[j] = p
      /\ \A k \in Jobs : k # j => by'[k] = by[k]
  BY DEF JobTake, IInv, LoopTypes
<1>3. SiteOK(p) /\ LifeOK(p) BY <1>0, SMT, SMTT(30) DEF IInv
<1>4. by[j] = NoThread
  BY <1>1, SMT, SMTT(30) DEF IInv, QueueOK
<1>5. /\ life' \in [Threads -> Lives] /\ life'[p] = "running"
      /\ \A u \in Threads : u # p => life'[u] = life[u]
  BY <1>0, SMT, SMTT(30) DEF JobTake, IInv, LoopTypes, Lives
<1>6. NewSite \in [pending : BOOLEAN, wait : BOOLEAN, mainfree : BOOLEAN,
                   freed : BOOLEAN, func : Funcs]
  BY SMT, SMTT(30) DEF NewSite, Funcs
<1>7. /\ site' \in [Threads -> [pending : BOOLEAN, wait : BOOLEAN, mainfree : BOOLEAN,
                                freed : BOOLEAN, func : Funcs]]
      /\ \A u \in Threads : u # p => site'[u] = site[u]
      /\ \/ life[p] = "running" /\ site'[p] = site[p]
         \/ (life[p] = "none" \/ (life[p] = "stopped" /\ site[p].freed)) /\ site'[p] = NewSite
  <2>1. site \in [Threads -> [pending : BOOLEAN, wait : BOOLEAN, mainfree : BOOLEAN,
                              freed : BOOLEAN, func : Funcs]]
    BY DEF IInv, CallTypes
  <2>2. CASE life[p] = "running" /\ site' = site
    BY <2>1, <2>2, SMT, SMTT(30)
  <2>3. CASE /\ life[p] = "none" \/ (life[p] = "stopped" /\ site[p].freed)
             /\ site' = [site EXCEPT ![p] = NewSite]
    <3> DEFINE s == NewSite
    <3>1. site' = [site EXCEPT ![p] = s] BY <2>3
    <3>2. s \in [pending : BOOLEAN, wait : BOOLEAN, mainfree : BOOLEAN,
                 freed : BOOLEAN, func : Funcs]
      BY <1>6
    <3>3. life[p] = "none" \/ (life[p] = "stopped" /\ site[p].freed)
      BY <2>3
    <3> HIDE DEF s
    <3>4. /\ site' \in [Threads -> [pending : BOOLEAN, wait : BOOLEAN, mainfree : BOOLEAN,
                                    freed : BOOLEAN, func : Funcs]]
          /\ \A u \in Threads : u # p => site'[u] = site[u]
          /\ site'[p] = s
      BY <1>0, <2>1, <3>1, <3>2, SMT, SMTT(30)
    <3> QED BY <3>3, <3>4 DEF s
  <2> QED BY <2>2, <2>3, Zenon DEF JobTake
<1>8. CallTypes' /\ LoopTypes'
  BY <1>1, <1>2, <1>5, <1>7, Zenon DEF IInv, CallTypes, LoopTypes
<1>9. ASSUME NEW u \in Threads PROVE (SiteOK(u) /\ LifeOK(u))'
  <2>1. SiteOK(u) /\ LifeOK(u) BY SMT, SMTT(30) DEF IInv
  <2>2. CASE u = p
    <3>1. CASE life[p] = "running" /\ site'[p] = site[p]
      BY <1>0, <1>1, <1>2, <1>5, <2>1, <2>2, <3>1, ZenonT(30) DEF SiteOK, LifeOK
    <3>2. CASE (life[p] = "none" \/ (life[p] = "stopped" /\ site[p].freed)) /\ site'[p] = NewSite
      <4>1. tpc[p] = "idle" /\ ~site[p].pending /\ ~Flying(queue, handler, p) /\ calls[p] = 0
        BY <1>3, <3>2, Zenon DEF SiteOK, LifeOK
      <4> QED BY <1>0, <1>1, <1>2, <1>5, <2>2, <3>2, <4>1, SMT, SMTT(30) DEF SiteOK, LifeOK, NewSite
    <3> QED BY <1>7, <3>1, <3>2, Zenon
  <2>3. CASE u # p
    <3>1. u \in Pool /\ tpc[u] # "idle" => \E k \in Jobs : by'[k] = u
      BY <1>0, <1>2, <1>4, <2>1, MainLoopConstants, Zenon DEF LifeOK
    <3>2. site'[u] = site[u] /\ life'[u] = life[u] BY <1>5, <1>7, <2>3, SMT, SMTT(30)
    <3> QED BY <1>1, <2>1, <3>1, <3>2, Zenon DEF SiteOK, LifeOK
  <2> QED BY <2>2, <2>3
<1>10. QueueOK'
  <2>1. handler.dofree => handler.t # p /\ handler.t \in Threads
    BY <1>0, <1>7, Zenon DEF IInv, QueueOK, CallTypes
  <2>2. handler.dofree => handler.pc = "signal" /\ life'[handler.t] = "stopped"
                          /\ ~site'[handler.t].freed /\ ~site'[handler.t].pending
    BY <1>5, <1>7, <2>1, Zenon DEF IInv, QueueOK
  <2>3. ASSUME NEW k \in Jobs, by'[k] # NoThread
        PROVE  life'[by'[k]] = "running" /\ io'[k] = "working"
    <3>1. CASE k = j BY <1>2, <1>5, <3>1, SMT, SMTT(30)
    <3>2. CASE k # j
      <4>1. by[k] \in Threads /\ life[by[k]] = "running" /\ io[k] = "working" /\ by'[k] = by[k]
        BY <1>2, <2>3, <3>2, MainLoopConstants, SMT, SMTT(30) DEF IInv, QueueOK, LoopTypes
      <4> QED BY <1>2, <1>5, <3>2, <4>1, SMT, SMTT(30)
    <3> QED BY <3>1, <3>2, SMT, SMTT(30)
  <2>4. \A k \in Jobs : io'[k] = "working" => by'[k] # NoThread
    BY <1>0, <1>2, SMT, SMTT(60) DEF IInv, QueueOK
  <2> QED BY <1>1, <2>2, <2>3, <2>4, Zenon DEF IInv, QueueOK
<1>11. ActionsOK' /\ QuietOK'
  <2>1. main.pc = "start" => \A w \in main.todo : life'[w] = "none"
    BY <1>0, <1>5, MainLoopConstants DEF IInv, ActionsOK, LoopTypes
  <2> QED BY <1>1, <2>1, Zenon DEF IInv, ActionsOK, QuietOK
<1>12. Counted'
  <2>1. BusyJobs' = BusyJobs BY <1>1, <1>2, Zenon DEF BusyJobs
  <2>2. ASSUME NEW u \in Workers PROVE Uncounted(u)' <=> Uncounted(u)
    <3>1. life'[u] = life[u] BY <1>0, <1>5, MainLoopConstants
    <3> QED BY <1>1, <3>1, Zenon DEF Uncounted, Ran, InFlight
  <2>3. LiveWorkers' = LiveWorkers BY <2>2, SMT, SMTT(30) DEF LiveWorkers
  <2> QED BY <1>1, <2>1, <2>3, SMT, SMTT(30) DEF IInv, Counted
<1> QED BY <1>8, <1>9, <1>10, <1>11, <1>12 DEF IInv

-----------------------------------------------------------------------------
(* The steps of the handler.                                               *)

\* The fields of a call site.
SiteType == [pending : BOOLEAN, wait : BOOLEAN, mainfree : BOOLEAN,
             freed : BOOLEAN, func : Funcs]

\* The handler takes the next call: it leaves the queue and is being run.
LEMMA TakesNext ==
  ASSUME IInv, handler.pc \in {"idle", "signal"}, TakeNext
  PROVE  /\ queue' \in Seq(Threads) /\ NoDup(queue')
         /\ handler' \in [pc : {"idle", "run", "mark", "signal"}, t : Threads \cup {NoThread},
                          dowakeup : BOOLEAN, dofree : BOOLEAN]
         /\ ~handler'.dofree
         /\ \/ handler'.pc = "idle" /\ handler'.t = NoThread
            \/ handler'.pc = "run" /\ handler'.t \in Threads /\ ~Queued(queue', handler'.t)
         /\ \A u \in Threads : Flying(queue', handler', u) <=> Flying(queue, handler, u)
<1>1. queue \in Seq(Threads) /\ NoDup(queue)
  BY Zenon DEF IInv, CallTypes, QueueOK
<1>2. \A u \in Threads : Flying(queue, handler, u) <=> Queued(queue, u)
  BY SMT, SMTT(30) DEF Flying, Taken
<1>3. CASE queue = <<>>
  <2>1. handler' = NoHandler /\ queue' = queue BY <1>3, SMT, SMTT(30) DEF TakeNext
  <2> QED BY <1>1, <1>2, <2>1 DEF NoHandler, Flying, Taken
<1>4. CASE queue # <<>>
  <2>1. handler' = [NoHandler EXCEPT !.pc = "run", !.t = Head(queue)] /\ queue' = Tail(queue)
    BY <1>4 DEF TakeNext
  <2>2. handler' = [pc |-> "run", t |-> Head(queue), dowakeup |-> FALSE, dofree |-> FALSE]
    BY <2>1, Zenon DEF NoHandler
  <2>3. /\ Head(queue) \in Threads /\ queue' \in Seq(Threads) /\ NoDup(queue')
        /\ Queued(queue, Head(queue)) /\ ~Queued(queue', Head(queue))
        /\ \A u : u # Head(queue) => (Queued(queue', u) <=> Queued(queue, u))
    BY <1>1, <1>4, <2>1, TakeHead
  <2> DEFINE h == Head(queue)
  <2>4. handler' = [pc |-> "run", t |-> h, dowakeup |-> FALSE, dofree |-> FALSE] BY <2>2, Zenon
  <2>5. /\ h \in Threads /\ Queued(queue, h) /\ ~Queued(queue', h)
        /\ \A u : u # h => (Queued(queue', u) <=> Queued(queue, u))
    BY <2>3, SMT, SMTT(30)
  <2> HIDE DEF h
  <2>6. \A u \in Threads : Flying(queue', handler', u) <=> Queued(queue, u)
    BY <2>4, <2>5, SMT, SMTT(30) DEF Flying, Taken
  <2> QED BY <1>2, <2>3, <2>4, <2>5, <2>6, Zenon
<1> QED BY <1>3, <1>4, SMT, SMTT(30)

\* The handler goes to its next call, and may free a site or wake a thread.
LEMMA NextCallStep ==
  ASSUME IInv, handler.pc \in {"idle", "signal"}, TakeNext, main.pc = "loop",
         UNCHANGED <<calls, workVars, ioVars, syncVars, exitVars>>,
         site' \in [Threads -> SiteType], tpc' \in [Threads -> Pcs],
         \A u \in Threads :
            /\ site'[u].pending = site[u].pending /\ site'[u].wait = site[u].wait
            /\ site'[u].mainfree = site[u].mainfree /\ site'[u].func = site[u].func
            /\ site'[u].freed <=> site[u].freed \/ (handler.dofree /\ u = handler.t)
            /\ \/ tpc'[u] = tpc[u]
               \/ tpc[u] = "asleep" /\ tpc'[u] = "recheck"
               \/ tpc[u] = "waiting" /\ tpc'[u] = "woken"
  PROVE  IInv'
<1>1. /\ asked' = asked /\ notify' = notify /\ life' = life
      /\ io' = io /\ by' = by /\ calls' = calls
      /\ jobs' = jobs /\ actions' = actions /\ main' = main
      /\ (quit' <=> quit) /\ (reloading' <=> reloading) /\ (task' <=> task)
      /\ (terminating' <=> terminating) /\ (timer' <=> timer)
  BY Zenon DEF workVars, ioVars, syncVars, exitVars
<1>2. /\ queue' \in Seq(Threads) /\ NoDup(queue')
      /\ handler' \in [pc : {"idle", "run", "mark", "signal"}, t : Threads \cup {NoThread},
                       dowakeup : BOOLEAN, dofree : BOOLEAN]
      /\ ~handler'.dofree
      /\ \/ handler'.pc = "idle" /\ handler'.t = NoThread
         \/ handler'.pc = "run" /\ handler'.t \in Threads /\ ~Queued(queue', handler'.t)
      /\ \A u \in Threads : Flying(queue', handler', u) <=> Flying(queue, handler, u)
  BY TakesNext, Zenon
<1>3. CallTypes' /\ LoopTypes'
  BY <1>1, <1>2, ZenonT(30) DEF IInv, CallTypes, LoopTypes, SiteType
<1>4. ASSUME NEW u \in Threads PROVE (SiteOK(u) /\ LifeOK(u))'
  <2>1. SiteOK(u) /\ LifeOK(u) BY Zenon DEF IInv
  <2>2. Flying(queue', handler', u) <=> Flying(queue, handler, u) BY <1>2, Zenon
  <2>3. /\ site'[u].pending = site[u].pending /\ site'[u].wait = site[u].wait
        /\ site'[u].mainfree = site[u].mainfree /\ site'[u].func = site[u].func
        /\ site'[u].freed => site[u].freed \/ (life[u] = "stopped" /\ ~site[u].pending)
    BY Zenon DEF IInv, QueueOK
  <2>4. /\ tpc'[u] = "idle" <=> tpc[u] = "idle"
        /\ tpc'[u] = "post" <=> tpc[u] = "post"
        /\ tpc'[u] = "returned" <=> tpc[u] = "returned"
        /\ tpc'[u] \in {"fill", "post"} <=> tpc[u] \in {"fill", "post"}
        /\ tpc'[u] \in {"waiting", "woken"} <=> tpc[u] \in {"waiting", "woken"}
    BY SMT, SMTT(30)
  <2>5. SiteOK(u)'
    BY <1>1, <2>1, <2>2, <2>3, <2>4, Zenon DEF SiteOK
  <2>6. LifeOK(u)'
    BY <1>1, <2>1, <2>3, <2>4, ZenonT(30) DEF LifeOK
  <2> QED BY <2>5, <2>6, Zenon
<1>5. QueueOK'
  BY <1>1, <1>2, ZenonT(30) DEF IInv, QueueOK
<1>6. ActionsOK' /\ QuietOK'
  BY <1>1, Zenon DEF IInv, ActionsOK, QuietOK
<1>7. Counted'
  <2>1. BusyJobs' = BusyJobs BY <1>1, Zenon DEF BusyJobs
  <2>2. ASSUME NEW u \in Workers PROVE Uncounted(u)' <=> Uncounted(u)
    <3>1. u \in Threads BY MainLoopConstants, Zenon
    <3>2. InFlight(u)' <=> InFlight(u)
      BY <1>2, <3>1, Zenon DEF InFlight, Flying, Queued, Taken
    <3>3. Ran(u)' <=> Ran(u)
      BY <1>2, <3>2, Zenon DEF Ran
    <3>4. tpc'[u] \in {"waiting", "woken", "returned"} <=> tpc[u] \in {"waiting", "woken", "returned"}
      BY <3>1, Zenon
    <3> QED BY <1>1, <3>3, <3>4, Zenon DEF Uncounted
  <2>3. LiveWorkers' = LiveWorkers BY <2>2, SMT, SMTT(30) DEF LiveWorkers
  <2> QED BY <1>1, <2>1, <2>3, Zenon DEF IInv, Counted
<1> QED BY <1>3, <1>4, <1>5, <1>6, <1>7, SMT, SMTT(30) DEF IInv

\* The handler is entered.
LEMMA HandlerEnterStep ==
  ASSUME IInv, InLoop, HandlerEnter, UNCHANGED <<workVars, ioVars, syncVars, exitVars>>
  PROVE  IInv'
<1>1. handler.pc = "idle" /\ main.pc = "loop" /\ TakeNext /\ site' = site /\ tpc' = tpc
      /\ calls' = calls
  BY DEF InLoop, HandlerEnter
<1>2. site' \in [Threads -> SiteType] /\ tpc' \in [Threads -> Pcs]
  BY <1>1, SMT, SMTT(30) DEF IInv, CallTypes, SiteType
<1>3. ~handler.dofree BY <1>1, SMT, SMTT(30) DEF IInv, QueueOK
<1> QED BY <1>1, <1>2, <1>3, NextCallStep

\* The handler frees the site or signals its thread.
LEMMA HandlerSignalStep ==
  ASSUME IInv, HandlerSignal, UNCHANGED <<workVars, ioVars, syncVars, exitVars>>
  PROVE  IInv'
<1> DEFINE t == handler.t
<1>1. handler.pc = "signal" /\ main.pc = "loop" /\ t \in Threads /\ TakeNext /\ calls' = calls
  BY DEF HandlerSignal, IInv, ActionsOK, CallTypes
<1>2. /\ site' = [site EXCEPT ![t].freed = site[t].freed \/ handler.dofree]
      /\ tpc' = [tpc EXCEPT ![t] = IF handler.dowakeup /\ ~handler.dofree THEN Signalled(t) ELSE tpc[t]]
  BY DEF HandlerSignal, Goto
<1> HIDE DEF t
<1>3. site \in [Threads -> SiteType] /\ tpc \in [Threads -> Pcs]
  BY DEF IInv, CallTypes, SiteType
<1> DEFINE s == [site[t] EXCEPT !.freed = site[t].freed \/ handler.dofree]
<1>4. site' = [site EXCEPT ![t] = s]
  BY <1>2
<1>5. /\ s \in SiteType /\ s.pending = site[t].pending /\ s.wait = site[t].wait
      /\ s.mainfree = site[t].mainfree /\ s.func = site[t].func
      /\ s.freed <=> site[t].freed \/ handler.dofree
  BY <1>1, <1>3, Zenon DEF SiteType
<1> HIDE DEF s
<1>6. /\ site' \in [Threads -> SiteType] /\ site'[t] = s
      /\ \A u \in Threads : u # t => site'[u] = site[u]
  BY <1>1, <1>3, <1>4, <1>5, SMT, SMTT(30)
<1>7. /\ tpc' \in [Threads -> Pcs] /\ \A u \in Threads : u # t => tpc'[u] = tpc[u]
      /\ \/ tpc'[t] = tpc[t]
         \/ tpc[t] = "asleep" /\ tpc'[t] = "recheck"
         \/ tpc[t] = "waiting" /\ tpc'[t] = "woken"
  BY <1>1, <1>2, <1>3 DEF Signalled, Pcs
<1>8. ASSUME NEW u \in Threads
      PROVE  /\ site'[u].pending = site[u].pending /\ site'[u].wait = site[u].wait
             /\ site'[u].mainfree = site[u].mainfree /\ site'[u].func = site[u].func
             /\ site'[u].freed <=> site[u].freed \/ (handler.dofree /\ u = handler.t)
             /\ \/ tpc'[u] = tpc[u]
                \/ tpc[u] = "asleep" /\ tpc'[u] = "recheck"
                \/ tpc[u] = "waiting" /\ tpc'[u] = "woken"
  <2>1. CASE u = t BY <1>5, <1>6, <1>7, <2>1, Zenon DEF t
  <2>2. CASE u # t BY <1>6, <1>7, <2>2, Zenon DEF t
  <2> QED BY <2>1, <2>2, Zenon
<1> QED BY <1>1, <1>6, <1>7, <1>8, NextCallStep, ZenonT(30)

\* The handler marks the call done.
LEMMA HandlerMarkStep ==
  ASSUME IInv, HandlerMark, UNCHANGED <<workVars, ioVars, syncVars, exitVars>>
  PROVE  IInv'
<1>0. PICK t \in Threads : handler.t = t
  BY DEF HandlerMark, IInv, CallTypes
<1>1. /\ asked' = asked /\ notify' = notify /\ life' = life
      /\ io' = io /\ by' = by /\ tpc' = tpc /\ queue' = queue
      /\ jobs' = jobs /\ actions' = actions /\ main' = main
      /\ (quit' <=> quit) /\ (reloading' <=> reloading) /\ (task' <=> task)
      /\ (terminating' <=> terminating) /\ (timer' <=> timer)
  BY DEF HandlerMark, workVars, ioVars, syncVars, exitVars
<1>2. /\ handler.pc = "mark" /\ main.pc = "loop" /\ t \in Threads /\ ~Queued(queue, t)
      /\ site' = [site EXCEPT ![t].pending = FALSE]
      /\ calls' = [calls EXCEPT ![t] = calls[t] - 1]
      /\ handler' = [handler EXCEPT !.pc = "signal", !.dowakeup = site[t].wait,
                                    !.dofree = site[t].mainfree]
  BY <1>0 DEF HandlerMark, IInv, ActionsOK, CallTypes, QueueOK
<1>3. site \in [Threads -> SiteType] /\ calls \in [Threads -> Int] /\ SiteOK(t) /\ LifeOK(t)
  BY <1>2 DEF IInv, CallTypes, SiteType
<1>4. /\ handler' \in [pc : {"idle", "run", "mark", "signal"}, t : Threads \cup {NoThread},
                       dowakeup : BOOLEAN, dofree : BOOLEAN]
      /\ handler'.pc = "signal" /\ handler'.t = t /\ (handler'.dofree <=> site[t].mainfree)
  BY <1>0, <1>2, <1>3, ZenonT(30) DEF IInv, CallTypes, SiteType
<1>5. /\ \A u \in Threads : u # t => (Flying(queue', handler', u) <=> Flying(queue, handler, u))
      /\ Flying(queue, handler, t) /\ ~Flying(queue', handler', t)
  BY <1>0, <1>1, <1>2, <1>4, SMT, SMTT(30) DEF Flying, Taken
<1>6. site[t].pending /\ calls[t] = 1 /\ tpc[t] # "post" /\ ~site[t].freed
  BY <1>3, <1>5, Zenon DEF SiteOK
<1> DEFINE s == [site[t] EXCEPT !.pending = FALSE]
<1>7. site' = [site EXCEPT ![t] = s] BY <1>2
<1>8. /\ s \in SiteType /\ ~s.pending /\ s.wait = site[t].wait
      /\ s.mainfree = site[t].mainfree /\ s.func = site[t].func /\ s.freed = site[t].freed
  BY <1>2, <1>3, Zenon DEF SiteType
<1> HIDE DEF s
<1>9. /\ site' \in [Threads -> SiteType] /\ site'[t] = s
      /\ \A u \in Threads : u # t => site'[u] = site[u]
  BY <1>2, <1>3, <1>7, <1>8, Zenon
<1>10. /\ calls' \in [Threads -> Int] /\ calls'[t] = 0
       /\ \A u \in Threads : u # t => calls'[u] = calls[u]
  BY <1>2, <1>3, <1>6, SMT, SMTT(30)
<1>11. CallTypes' /\ LoopTypes'
  BY <1>1, <1>2, <1>4, <1>9, <1>10, SMT, SMTT(30) DEF IInv, CallTypes, LoopTypes, SiteType
<1>12. ASSUME NEW u \in Threads PROVE (SiteOK(u) /\ LifeOK(u))'
  <2>1. CASE u = t
    <3>1. SiteOK(t)'
      BY <1>1, <1>5, <1>6, <1>8, <1>9, <1>10, ZenonT(30) DEF SiteOK
    <3>2. LifeOK(t)'
      BY <1>1, <1>3, <1>6, <1>8, <1>9, Zenon DEF LifeOK
    <3> QED BY <2>1, <3>1, <3>2, SMT, SMTT(30)
  <2>2. CASE u # t
    <3>1. SiteOK(u) /\ LifeOK(u) BY SMT, SMTT(30) DEF IInv
    <3>2. site'[u] = site[u] /\ calls'[u] = calls[u] BY <1>9, <1>10, <2>2
    <3>3. Flying(queue', handler', u) <=> Flying(queue, handler, u) BY <1>5, <2>2, SMT, SMTT(30)
    <3> QED BY <1>1, <3>1, <3>2, <3>3, ZenonT(30) DEF SiteOK, LifeOK
  <2> QED BY <2>1, <2>2
<1>13. QueueOK'
  <2>1. handler'.dofree => /\ handler'.pc = "signal" /\ life[handler'.t] = "stopped"
                           /\ ~site'[handler'.t].freed /\ ~site'[handler'.t].pending
    BY <1>3, <1>4, <1>6, <1>8, <1>9, ZenonT(30) DEF LifeOK
  <2> QED BY <1>1, <1>4, <2>1, Zenon DEF IInv, QueueOK
<1>14. ActionsOK' /\ QuietOK'
  BY <1>1, <1>2, SMT, SMTT(30) DEF IInv, ActionsOK, QuietOK
<1>15. Counted'
  <2>1. BusyJobs' = BusyJobs BY <1>1 DEF BusyJobs
  <2>2. ASSUME NEW u \in Workers PROVE Uncounted(u)' <=> Uncounted(u)
    <3>1. u \in Threads BY MainLoopConstants, SMT, SMTT(30)
    <3>2. CASE u = t
      <4>1. Ran(u) BY <1>0, <1>2, <3>2, SMT, SMTT(30) DEF Ran
      <4>2. Ran(u)' BY <1>5, <3>2, SMT, SMTT(30) DEF Ran, InFlight, Flying, Queued, Taken
      <4> QED BY <1>1, <4>1, <4>2, SMT, SMTT(30) DEF Uncounted
    <3>3. CASE u # t
      <4>1. InFlight(u)' <=> InFlight(u)
        BY <1>5, <3>1, <3>3, SMT, SMTT(30) DEF InFlight, Flying, Queued, Taken
      <4>2. Ran(u)' <=> Ran(u)
        BY <1>0, <1>4, <3>3, <4>1, SMT, SMTT(30) DEF Ran
      <4> QED BY <1>1, <4>2, SMT, SMTT(30) DEF Uncounted
    <3> QED BY <3>2, <3>3
  <2>3. LiveWorkers' = LiveWorkers BY <2>2 DEF LiveWorkers
  <2> QED BY <1>1, <2>1, <2>3, SMT, SMTT(30) DEF IInv, Counted
<1> QED BY <1>11, <1>12, <1>13, <1>14, <1>15, SMT, SMTT(30) DEF IInv

\* The function of the call runs: a worker is counted out exactly once.
LEMMA HandlerRunStep ==
  ASSUME CardinalityLaws, IInv, HandlerRun, UNCHANGED <<workVars, ioVars, exitVars>>,
         \/ site[handler.t].func = "update" /\ UNCHANGED syncVars
         \/ site[handler.t].func = "complete" /\ JobComplete
  PROVE  IInv'
<1>0. PICK t \in Threads : handler.t = t
  BY DEF HandlerRun, IInv, CallTypes
<1>1. /\ asked' = asked /\ notify' = notify /\ life' = life /\ site' = site /\ calls' = calls
      /\ io' = io /\ by' = by /\ tpc' = tpc /\ queue' = queue
      /\ actions' = actions /\ main' = main
      /\ (quit' <=> quit) /\ (reloading' <=> reloading)
      /\ (terminating' <=> terminating) /\ (timer' <=> timer)
  BY DEF HandlerRun, JobComplete, workVars, ioVars, syncVars, exitVars
<1>2. /\ handler.pc = "run" /\ main.pc = "loop"
      /\ handler' = [handler EXCEPT !.pc = "mark"]
  BY DEF HandlerRun, IInv, ActionsOK
<1>3. /\ handler' \in [pc : {"idle", "run", "mark", "signal"}, t : Threads \cup {NoThread},
                       dowakeup : BOOLEAN, dofree : BOOLEAN]
      /\ handler'.pc = "mark" /\ handler'.t = t /\ handler'.dofree = handler.dofree
      /\ ~handler.dofree
  BY <1>0, <1>2, Zenon DEF IInv, CallTypes, QueueOK
<1>4. /\ \A u : Flying(queue', handler', u) <=> Flying(queue, handler, u)
      /\ Flying(queue, handler, t)
  BY <1>0, <1>1, <1>2, <1>3, SMT, SMTT(30) DEF Flying, Taken
<1>5. SiteOK(t) /\ LifeOK(t) /\ site[t].pending
      /\ (site[t].func = "complete" <=> life[t] = "ending" /\ tpc[t] \in {"waiting", "woken"})
  BY <1>4, Zenon DEF IInv, SiteOK
<1>6. CallTypes'
  BY <1>1, <1>3, SMT, SMTT(30) DEF IInv, CallTypes
<1>7. ASSUME NEW u \in Threads PROVE (SiteOK(u) /\ LifeOK(u))'
  <2>1. SiteOK(u) /\ LifeOK(u) BY SMT, SMTT(30) DEF IInv
  <2>2. Flying(queue', handler', u) <=> Flying(queue, handler, u) BY <1>4
  <2> QED BY <1>1, <2>1, <2>2, Zenon DEF SiteOK, LifeOK
<1>8. QueueOK'
  BY <1>0, <1>1, <1>2, <1>3, SMT, SMTT(30) DEF IInv, QueueOK
<1>9. BusyJobs' = BusyJobs BY <1>1, SMT, SMTT(30) DEF BusyJobs
<1>10. ASSUME NEW u \in Workers, u # t PROVE Uncounted(u)' <=> Uncounted(u)
  <2>1. InFlight(u)' <=> InFlight(u)
    BY <1>4, Zenon DEF InFlight, Flying, Queued, Taken
  <2>2. Ran(u)' <=> Ran(u)
    BY <1>0, <1>3, <1>10, <2>1 DEF Ran
  <2> QED BY <1>1, <2>2, Zenon DEF Uncounted
<1>11. InFlight(t) /\ ~Ran(t) /\ Ran(t)'
  BY <1>0, <1>2, <1>3, SMT, SMTT(30) DEF Ran, InFlight
<1>12. CASE site[t].func = "update" /\ UNCHANGED syncVars
  <2>1. jobs' = jobs /\ (task' <=> task) BY <1>12, SMT, SMTT(30) DEF syncVars
  <2>2. LoopTypes'
    BY <1>1, <2>1, Zenon DEF IInv, LoopTypes
  <2>3. ActionsOK' /\ QuietOK'
    BY <1>1, <1>2, <1>3, <2>1, SMT, SMTT(30) DEF IInv, ActionsOK, QuietOK
  <2>4. Uncounted(t)' <=> Uncounted(t)
    <3>1. tpc[t] = "returned" => life[t] # "ending"
      BY <1>5, Zenon DEF SiteOK, LifeOK
    <3>2. life[t] = "ending" => tpc[t] \notin {"waiting", "woken", "returned"}
      BY <1>5, <1>12, <3>1, SMT, SMTT(30)
    <3> QED BY <1>1, <3>2, Zenon DEF Uncounted
  <2>5. LiveWorkers' = LiveWorkers BY <1>10, <2>4, SMT, SMTT(30) DEF LiveWorkers
  <2>6. Counted' BY <1>9, <2>1, <2>5, SMT, SMTT(30) DEF IInv, Counted
  <2> QED BY <1>6, <1>7, <1>8, <2>2, <2>3, <2>6, SMT, SMTT(30) DEF IInv
<1>13. CASE site[t].func = "complete" /\ JobComplete
  <2>1. jobs' = jobs - 1 /\ (task' <=> task \/ (quit /\ jobs = 1)) BY <1>13, Zenon DEF JobComplete
  <2>2. t \in Workers /\ Uncounted(t) /\ ~Uncounted(t)'
    BY <1>1, <1>5, <1>11, <1>13, ZenonT(30) DEF LifeOK, Uncounted
  <2>3. LiveWorkers' = LiveWorkers \ {t} /\ t \in LiveWorkers
    BY <1>10, <2>2, SMT, SMTT(30) DEF LiveWorkers
  <2>4. jobs > 0 /\ jobs \in Nat BY <2>3, Occupied, SMT, SMTT(30)
  <2>5. LoopTypes'
    BY <1>1, <2>1, <2>4, SMT, SMTT(30) DEF IInv, LoopTypes
  <2>6. ActionsOK' /\ QuietOK'
    BY <1>1, <1>2, <1>3, <2>1, <2>4, SMT, SMTT(30) DEF IInv, ActionsOK, QuietOK
  <2>7. LiveWorkers \subseteq Workers /\ BusyJobs \subseteq Jobs BY DEF LiveWorkers, BusyJobs
  <2>8. Counted'
    BY <1>9, <2>1, <2>3, <2>7, CountChange, FiniteCounts, SMT, SMTT(30) DEF IInv, Counted
  <2> QED BY <1>6, <1>7, <1>8, <2>5, <2>6, <2>8 DEF IInv
<1> QED BY <1>0, <1>12, <1>13

\* Every step of the handler.
LEMMA HandleStep == ASSUME CardinalityLaws, IInv, Handle PROVE IInv'
<1>1. UNCHANGED <<workVars, ioVars, exitVars>> BY DEF Handle
<1>2. CASE InLoop /\ HandlerEnter /\ UNCHANGED syncVars
  BY <1>1, <1>2, HandlerEnterStep
<1>3. CASE /\ HandlerRun
           /\ \/ site[handler.t].func = "update" /\ UNCHANGED syncVars
              \/ site[handler.t].func = "complete" /\ JobComplete
  BY <1>1, <1>3, HandlerRunStep
<1>4. CASE HandlerMark /\ UNCHANGED syncVars
  BY <1>1, <1>4, HandlerMarkStep
<1>5. CASE HandlerSignal /\ UNCHANGED syncVars
  BY <1>1, <1>5, HandlerSignalStep, SMT, SMTT(30)
<1> QED BY <1>2, <1>3, <1>4, <1>5, SMT, SMTT(30) DEF Handle, HandleCalls

-----------------------------------------------------------------------------
\* Every step of the program keeps the invariant.
LEMMA NextHolds == ASSUME CardinalityLaws, IInv, [Next]_vars PROVE IInv'
<1>1. CASE MainStep
  BY <1>1, NextActionStep, ReplaceConfigStep, StartWorkerStep, StartedStep, SMT, SMTT(30) DEF MainStep
<1>2. CASE Handle \/ ReloadConfig \/ ExitInitiate \/ ExitTimerElapsed \/ ReenableTask
  BY <1>2, HandleStep, ReloadConfigStep, ExitInitiateStep, ExitTimerElapsedStep, ReenableTaskStep, SMT, SMTT(30)
<1>3. CASE \E j \in Jobs : JobSubmit(j) \/ JobSubmitContinuation(j) \/ JobWork(j) \/ JobDone(j)
  BY <1>3, JobSubmitStep, JobWorkStep, JobDoneStep, SMT, SMTT(30)
<1>4. CASE \E p \in Pool : PoolThreadStop(p) \/ \E j \in Jobs : JobTake(j, p)
  BY <1>4, PoolThreadStopStep, JobTakeStep
<1>5. CASE \E t \in Threads : ThreadStep(t) \/ \E e \in Expiries : TimerUpdate(t, e)
  BY <1>5, CallStep, CallReturnsStep, ThreadInitStep, RunReturnsStep, TimerUpdateStep, SMT, SMTT(30) DEF ThreadStep
<1>6. CASE UNCHANGED vars
  <2>1. UNCHANGED threadVars
    BY <1>6, SMT, SMTT(30) DEF vars, threadVars, callVars, workVars, ioVars
  <2>2. /\ asked' = asked /\ notify' = notify /\ life' = life /\ io' = io /\ by' = by
        /\ handler' = handler /\ jobs' = jobs /\ actions' = actions /\ main' = main
        /\ (quit' <=> quit) /\ (reloading' <=> reloading) /\ (task' <=> task)
        /\ (terminating' <=> terminating) /\ (timer' <=> timer)
    BY <1>6, SMT, SMTT(30) DEF vars, callVars, workVars, ioVars, syncVars, exitVars
  <2>3. LoopTypes' /\ ActionsOK' /\ QuietOK'
    BY <2>2, ZenonT(30) DEF IInv, LoopTypes, ActionsOK, QuietOK
  <2>4. Counted' BY <2>1, <2>2, ThreadsKept, SMT, SMTT(30) DEF IInv, Counted
  <2> QED BY <2>1, <2>3, <2>4, ThreadsKept, SMT, SMTT(30) DEF IInv
<1> QED BY <1>1, <1>2, <1>3, <1>4, <1>5, <1>6, SMT, SMTT(30) DEF Next

\* The inductive invariant holds in every state of the main loop, its workers,
\* jobs and calls.
THEOREM Inductive == Spec => []IInv
<1>1. Init => IInv BY InitHolds
<1>2. IInv /\ [Next]_vars => IInv' BY NextHolds, CardinalityLawsHold
<1> QED BY <1>1, <1>2, PTL DEF Spec

\* main_loop_jobs_running is the number of jobs and workers that are not done,
\* and the task that runs the waiting actions is registered only at zero.
THEOREM JobsCountedHolds == Spec => []JobsCounted
<1>1. IInv => JobsCounted BY DEF IInv, Counted, QuietOK, JobsCounted
<1> QED BY <1>1, Inductive, PTL

\* A configuration is deinitialised only when no worker and no job runs
\* (main_loop_reload_config_apply(), main_loop_exit_finish()).
THEOREM AppliedAloneHolds == Spec => []AppliedAlone
<1>1. ASSUME IInv PROVE AppliedAlone
  <2>1. jobs = 0 => BusyJobs = {} /\ LiveWorkers = {} BY <1>1, Occupied, CardinalityLawsHold
  <2>2. QuietOK BY <1>1, SMT, SMTT(30) DEF IInv
  <2> QED BY <2>1, <2>2 DEF QuietOK, AppliedAlone
<1> QED BY <1>1, Inductive, PTL

\* Back in its loop the main thread refuses jobs (main_loop_workers_quit) only
\* while an action waits.
THEOREM RefusedOnlyForActionHolds == Spec => []RefusedOnlyForAction
<1>1. IInv => RefusedOnlyForAction BY SMT, SMTT(30) DEF IInv, ActionsOK, RefusedOnlyForAction
<1> QED BY <1>1, Inductive, PTL

\* main_loop_call() runs every call once, returns from a call that waits after
\* that, and frees no site whose call is pending.
THEOREM CallRunsOnceHolds == Spec => []CallRunsOnce
<1>1. ASSUME IInv, NEW t \in Threads
      PROVE  /\ calls[t] = IF tpc[t] = "post" \/ InFlight(t) THEN 1 ELSE 0
             /\ \A i, k \in DOMAIN queue : queue[i] = t /\ queue[k] = t => i = k
             /\ tpc[t] = "returned" /\ site[t].wait => ~InFlight(t)
             /\ site[t].freed => ~InFlight(t)
  <2>1. SiteOK(t) /\ NoDup(queue) BY <1>1 DEF IInv, QueueOK
  <2>2. InFlight(t) <=> Flying(queue, handler, t) BY DEF InFlight, Flying, Queued, Taken
  <2>3. \A i, k \in DOMAIN queue : queue[i] = t /\ queue[k] = t => i = k BY <2>1 DEF NoDup
  <2> QED BY <2>1, <2>2, <2>3, SMT, SMTT(30) DEF SiteOK
<1>2. IInv => CallRunsOnce BY <1>1, Zenon DEF CallRunsOnce
<1> QED BY <1>2, Inductive, PTL

-----------------------------------------------------------------------------
(* Threads that sleep are woken, and the shared timer is set.              *)

\* A thread that will sleep has asked to be woken; one that sleeps with its call
\* done is the one that the handler is about to signal.
WakeOK(t) ==
  /\ tpc[t] \in {"check", "asleep", "recheck"} => site[t].wait
  /\ tpc[t] \in {"asleep", "waiting"} /\ ~site[t].pending =>
       handler.t = t /\ handler.pc = "signal" /\ handler.dowakeup

\* Calls that are queued are seen by the handler.
PostedOK == queue # <<>> => posted \/ handler.pc # "idle"

\* An update is under way, or the timer is set to what was asked for last.
TimerOK ==
  /\ shared \in [expires : Nat, timer : Nat]
  /\ (\E t \in Threads : Updating(t)) \/ shared.timer = shared.expires

\* The invariant of wakeups and of the timer, inductive together with IInv.
WInv == (\A t \in Threads : WakeOK(t)) /\ PostedOK /\ TimerOK

\* A step outside the calls.
LEMMA QuietStep ==
  ASSUME IInv, WInv, UNCHANGED <<callVars, shared>>,
         \A t \in Threads : life[t] = "running" => life'[t] = "running"
  PROVE  WInv'
<1>1. /\ site' = site /\ tpc' = tpc /\ queue' = queue /\ (posted' <=> posted) /\ handler' = handler
      /\ shared' = shared
  BY SMT, SMTT(30) DEF callVars
<1>2. ASSUME NEW t \in Threads PROVE WakeOK(t)' /\ (Updating(t) => Updating(t)')
  <2>1. Ran(t)' <=> Ran(t) BY <1>1, SMT, SMTT(30) DEF Ran, InFlight
  <2> QED BY <1>1, <2>1, ZenonT(30) DEF WInv, WakeOK, Updating
<1> QED BY <1>1, <1>2, Zenon DEF WInv, PostedOK, TimerOK

\* The main thread outside the handler, and the jobs.
LEMMA LoopStepQuiet ==
  ASSUME IInv,
         \/ MainStep \/ ReloadConfig \/ ExitInitiate \/ ExitTimerElapsed \/ ReenableTask
         \/ \E j \in Jobs : JobSubmit(j) \/ JobSubmitContinuation(j) \/ JobWork(j) \/ JobDone(j)
  PROVE  /\ UNCHANGED <<callVars, shared>>
         /\ \A t \in Threads : life[t] = "running" => life'[t] = "running"
<1>1. CASE ReplaceConfig \/ ExitFinish
  BY <1>1, Zenon DEF ReplaceConfig, ExitFinish, AllJoined, IInv, LoopTypes
<1>2. CASE StartWorker
  <2>1. PICK w \in main.todo : life' = [life EXCEPT ![w] = "starting"]
    <3>1. main.todo # {} BY <1>2 DEF StartWorker
    <3> DEFINE w == CHOOSE u \in main.todo : TRUE
    <3>2. w \in main.todo BY <3>1
    <3> QED BY <1>2, <3>2, Zenon DEF StartWorker
  <2>2. life[w] = "none" BY <1>2, <2>1, SMT, SMTT(30) DEF StartWorker, IInv, ActionsOK
  <2>3. UNCHANGED <<callVars, shared>> BY <1>2, SMT, SMTT(30) DEF StartWorker
  <2> QED BY <2>1, <2>2, <2>3, SMT, SMTT(30) DEF IInv, LoopTypes
<1>3. CASE NextAction \/ Started
  BY <1>3, Zenon DEF NextAction, Started, workVars
<1>4. CASE ReloadConfig \/ ExitInitiate \/ ExitTimerElapsed \/ ReenableTask
  BY <1>4, Zenon DEF ReloadConfig, ExitInitiate, ExitTimerElapsed, ReenableTask, SyncCall, workVars
<1>5. CASE \E j \in Jobs : JobSubmit(j) \/ JobSubmitContinuation(j) \/ JobWork(j) \/ JobDone(j)
  BY <1>5, Zenon DEF JobSubmit, JobSubmitContinuation, Submitted, JobWork, JobDone, workVars
<1> QED BY <1>1, <1>2, <1>3, <1>4, <1>5, ZenonT(30) DEF MainStep

\* A step of a thread on its own site.
LEMMA OwnStep ==
  ASSUME IInv, WInv, NEW t \in Threads, UNCHANGED <<queue, handler, shared>>, posted' <=> posted,
         \A u \in Threads : u # t => site'[u] = site[u] /\ tpc'[u] = tpc[u] /\ life'[u] = life[u],
         WakeOK(t)', Updating(t) => Updating(t)'
  PROVE  WInv'
<1>1. ASSUME NEW u \in Threads PROVE WakeOK(u)' /\ (Updating(u) => Updating(u)')
  <2>1. Ran(u)' <=> Ran(u) BY SMT, SMTT(30) DEF Ran, InFlight
  <2>2. CASE u # t
    BY <2>1, <2>2, Zenon DEF WInv, WakeOK, Updating
  <2> QED BY <2>2, ZenonT(30)
<1> QED BY <1>1, Zenon DEF WInv, PostedOK, TimerOK

\* A site that is not pending is neither queued nor being run.
LEMMA NotFlying ==
  ASSUME IInv, NEW t \in Threads, ~site[t].pending
  PROVE  Ran(t) /\ tpc[t] # "post"
<1>1. SiteOK(t) BY SMT, SMTT(30) DEF IInv
<1>2. ~Flying(queue, handler, t) /\ tpc[t] # "post" BY <1>1, Zenon DEF SiteOK
<1> QED BY <1>2 DEF Flying, Queued, Taken, Ran, InFlight

\* A thread gets a new site: it is at no call.
LEMMA NewSiteWake ==
  ASSUME IInv, WInv, NEW t \in Threads, UNCHANGED <<queue, handler, shared>>, posted' <=> posted,
         life[t] \in {"none", "starting", "stopped"}, site[t].freed \/ life[t] # "stopped",
         site' = [site EXCEPT ![t] = NewSite],
         tpc' = tpc, life' = [life EXCEPT ![t] = "running"]
  PROVE  WInv'
<1>1. SiteOK(t) /\ LifeOK(t) BY SMT, SMTT(30) DEF IInv
<1>2. tpc[t] = "idle" /\ ~site[t].pending BY <1>1, Zenon DEF SiteOK, LifeOK
<1>3. WakeOK(t)' BY <1>2, SMT, SMTT(30) DEF WakeOK
<1>4. ~Updating(t) BY <1>2, NotFlying, SMT, SMTT(30) DEF Updating
<1>5. \A u \in Threads : u # t => site'[u] = site[u] /\ tpc'[u] = tpc[u] /\ life'[u] = life[u]
  BY SMT, SMTT(30) DEF IInv, CallTypes, LoopTypes
<1> QED BY <1>3, <1>4, <1>5, OwnStep, Zenon

\* A thread of the pool takes a job.
LEMMA JobTakeWake ==
  ASSUME IInv, WInv, NEW j \in Jobs, NEW p \in Pool, JobTake(j, p) PROVE WInv'
<1>1. p \in Threads BY MainLoopConstants, SMT, SMTT(30)
<1>2. UNCHANGED <<tpc, queue, handler, shared, calls, crashed>> /\ (posted' <=> posted)
      /\ posted' = posted
  BY DEF JobTake
<1>3. CASE life' = life /\ site' = site
  BY <1>2, <1>3, QuietStep, SMT, SMTT(30) DEF callVars
<1>4. CASE /\ life[p] = "none" \/ (life[p] = "stopped" /\ site[p].freed)
           /\ life' = [life EXCEPT ![p] = "running"]
           /\ site' = [site EXCEPT ![p] = NewSite]
  BY <1>1, <1>2, <1>4, NewSiteWake, Zenon
<1> QED BY <1>3, <1>4 DEF JobTake

\* A worker's thread starts.
LEMMA ThreadInitWake == ASSUME IInv, WInv, NEW w \in Workers, ThreadInit(w) PROVE WInv'
<1>1. w \in Threads BY MainLoopConstants
<1>2. /\ UNCHANGED <<queue, handler, shared>> /\ (posted' <=> posted) /\ life[w] = "starting"
      /\ site' = [site EXCEPT ![w] = NewSite] /\ life' = [life EXCEPT ![w] = "running"]
      /\ tpc' = [tpc EXCEPT ![w] = "idle"]
  BY SMT, SMTT(30) DEF ThreadInit, Goto
<1>3. tpc[w] = "idle" BY <1>1, <1>2, SMT, SMTT(30) DEF IInv, LifeOK
<1>4. tpc' = tpc BY <1>1, <1>2, <1>3, SMT, SMTT(30) DEF IInv, CallTypes
<1> QED BY <1>1, <1>2, <1>4, NewSiteWake, Zenon

\* An update of the timer begins.
LEMMA TimerUpdateWake ==
  ASSUME IInv, WInv, NEW t \in Threads, NEW e \in Expiries, TimerUpdate(t, e) PROVE WInv'
<1>1. /\ site' = site /\ queue' = queue /\ handler' = handler /\ life' = life /\ (posted' <=> posted)
      /\ tpc' = [tpc EXCEPT ![t] = "enter"] /\ life[t] = "running"
  BY SMT, SMTT(30) DEF TimerUpdate, Goto, workVars
<1>2. tpc'[t] = "enter" /\ \A u \in Threads : u # t => tpc'[u] = tpc[u]
  BY <1>1, SMT, SMTT(30) DEF IInv, CallTypes
<1>3. ASSUME NEW u \in Threads PROVE WakeOK(u)'
  BY <1>1, <1>2, SMT, SMTT(30) DEF WInv, WakeOK
<1>4. Updating(t)' BY <1>1, <1>2, Zenon DEF Updating
<1>5. shared' \in [expires : Nat, timer : Nat]
  BY MainLoopConstants, SMT, SMTT(30) DEF TimerUpdate, WInv, TimerOK
<1> QED BY <1>1, <1>3, <1>4, <1>5, SMT, SMTT(30) DEF WInv, PostedOK, TimerOK

\* A worker ends; its last update is still under way.
LEMMA RunReturnsWake == ASSUME IInv, WInv, NEW w \in Workers, RunReturns(w) PROVE WInv'
<1>0. w \in Threads BY MainLoopConstants
<1>1. /\ site' = site /\ queue' = queue /\ handler' = handler /\ shared' = shared
      /\ (posted' <=> posted) /\ life' = [life EXCEPT ![w] = "ending"]
      /\ tpc' = [tpc EXCEPT ![w] = "enter"] /\ life[w] = "running" /\ tpc[w] = "idle"
  BY SMT, SMTT(30) DEF RunReturns, Goto
<1>2. /\ tpc'[w] = "enter"
      /\ \A u \in Threads : u # w => site'[u] = site[u] /\ tpc'[u] = tpc[u] /\ life'[u] = life[u]
  BY <1>0, <1>1, SMT, SMTT(30) DEF IInv, CallTypes, LoopTypes
<1>3. WakeOK(w)' BY <1>2, SMT, SMTT(30) DEF WakeOK
<1>4. Ran(w)' <=> Ran(w) BY <1>1, SMT, SMTT(30) DEF Ran, InFlight
<1>5. Updating(w) => Updating(w)' BY <1>1, <1>4, Zenon DEF Updating
<1> QED BY <1>0, <1>1, <1>2, <1>3, <1>5, OwnStep, SMT, SMTT(30)

\* A thread stops, or goes on after its call.
LEMMA EndWake ==
  ASSUME IInv, WInv, NEW t \in Threads, UNCHANGED <<queue, handler, shared>>, posted' <=> posted,
         tpc[t] \in {"idle", "returned"}, tpc' = [tpc EXCEPT ![t] = "idle"],
         NEW l, life' = [life EXCEPT ![t] = l],
         site' \in [Threads -> SiteType],
         \A u \in Threads : u # t => site'[u] = site[u],
         site'[t].func = site[t].func
  PROVE  WInv'
<1>1. /\ tpc'[t] = "idle"
      /\ \A u \in Threads : u # t => site'[u] = site[u] /\ tpc'[u] = tpc[u] /\ life'[u] = life[u]
  BY SMT, SMTT(30) DEF IInv, CallTypes, LoopTypes
<1>2. WakeOK(t)' BY <1>1, Zenon DEF WakeOK
<1>3. Ran(t)' <=> Ran(t) BY Zenon DEF Ran, InFlight
<1>4. Updating(t) => Updating(t)' BY <1>3, Zenon DEF Updating
<1> QED BY <1>1, <1>2, <1>4, OwnStep, ZenonT(30)

\* main_loop_call_thread_deinit() keeps what the site was filled with.
LEMMA DeinitSite ==
  ASSUME IInv, NEW t \in Threads, CallThreadDeinit(t)
  PROVE  /\ site' \in [Threads -> SiteType] /\ site'[t].func = site[t].func
         /\ \A u \in Threads : u # t => site'[u] = site[u]
         /\ UNCHANGED <<queue, handler>> /\ (posted' <=> posted)
<1> DEFINE s == [site[t] EXCEPT !.mainfree = site[t].pending, !.freed = ~site[t].pending]
<1>1. site \in [Threads -> SiteType] BY DEF IInv, CallTypes, SiteType
<1>2. site' = [site EXCEPT ![t] = s] BY <1>1, Zenon DEF CallThreadDeinit
<1>3. s \in SiteType /\ s.func = site[t].func BY <1>1, Zenon DEF SiteType
<1> HIDE DEF s
<1>4. /\ site' \in [Threads -> SiteType] /\ site'[t] = s
      /\ \A u \in Threads : u # t => site'[u] = site[u]
  BY <1>1, <1>2, <1>3, SMT, SMTT(30)
<1> QED BY <1>3, <1>4, SMT, SMTT(30) DEF CallThreadDeinit

\* The call has returned.
LEMMA CallReturnsWake == ASSUME IInv, WInv, NEW t \in Threads, CallReturns(t) PROVE WInv'
<1>1. tpc[t] = "returned" /\ tpc' = [tpc EXCEPT ![t] = "idle"] /\ shared' = shared
  BY SMT, SMTT(30) DEF CallReturns, Goto
<1>2. CASE /\ life[t] = "running"
           /\ UNCHANGED <<life, site, queue, posted, handler, calls, crashed>>
  <2>1. life' = [life EXCEPT ![t] = life[t]] /\ site' \in [Threads -> SiteType]
    BY <1>2 DEF IInv, CallTypes, LoopTypes, SiteType
  <2> QED BY <1>1, <1>2, <2>1, EndWake, ZenonT(30)
<1>3. CASE life' = [life EXCEPT ![t] = "stopped"] /\ CallThreadDeinit(t)
  BY <1>1, <1>3, DeinitSite, EndWake, Zenon
<1> QED BY <1>2, <1>3, SMT, SMTT(30) DEF CallReturns

\* A thread of the pool stops.
LEMMA PoolThreadStopWake == ASSUME IInv, WInv, NEW p \in Pool, PoolThreadStop(p) PROVE WInv'
<1>1. p \in Threads BY MainLoopConstants, SMT, SMTT(30)
<1>2. /\ CallThreadDeinit(p) /\ life' = [life EXCEPT ![p] = "stopped"] /\ tpc' = tpc
      /\ shared' = shared /\ life[p] = "running" /\ \A j \in Jobs : by[j] # p
  BY SMT, SMTT(30) DEF PoolThreadStop
<1>3. tpc[p] = "idle" BY <1>1, <1>2, ZenonT(30) DEF IInv, LifeOK
<1>4. tpc' = [tpc EXCEPT ![p] = "idle"] BY <1>1, <1>2, <1>3, SMT, SMTT(30) DEF IInv, CallTypes
<1> QED BY <1>1, <1>2, <1>3, <1>4, DeinitSite, EndWake, ZenonT(30)

\* Every step of main_loop_call(): a thread goes to sleep only after it has
\* asked to be woken and while its call is pending.
LEMMA CallWake == ASSUME IInv, WInv, NEW t \in Threads, Call(t) PROVE WInv'
<1>0. SiteOK(t) /\ LifeOK(t) /\ WakeOK(t) /\ site \in [Threads -> SiteType] /\ tpc \in [Threads -> Pcs]
  BY SMT, SMTT(30) DEF IInv, CallTypes, SiteType, WInv
<1>1. shared' = shared /\ life' = life BY SMT, SMTT(30) DEF Call, workVars
<1>2. CASE WaitPending(t) /\ ~site[t].pending
  <2>1. /\ UNCHANGED <<queue, handler, site>> /\ (posted' <=> posted)
        /\ tpc[t] = "enter" /\ tpc' = [tpc EXCEPT ![t] = "fill"]
    BY <1>2, SMT, SMTT(30) DEF WaitPending, Goto
  <2>2. tpc'[t] = "fill" /\ \A u \in Threads : u # t => tpc'[u] = tpc[u] BY <1>0, <2>1, SMT, SMTT(30)
  <2>3. Ran(t)' <=> Ran(t) BY <2>1, Zenon DEF Ran, InFlight
  <2>4. WakeOK(t)' /\ (Updating(t) => Updating(t)')
    BY <1>1, <2>1, <2>2, <2>3, ZenonT(30) DEF WakeOK, Updating
  <2> QED BY <1>1, <2>1, <2>2, <2>4, OwnStep, ZenonT(30)
<1>3. CASE WaitPending(t) /\ site[t].pending
  <2>1. /\ UNCHANGED <<queue, handler>> /\ (posted' <=> posted)
        /\ tpc[t] = "enter" /\ tpc' = [tpc EXCEPT ![t] = "check"]
        /\ site' = [site EXCEPT ![t].wait = TRUE]
    BY <1>3 DEF WaitPending, Goto
  <2>2. tpc'[t] = "check" /\ \A u \in Threads : u # t => tpc'[u] = tpc[u] BY <1>0, <2>1
  <2>3. /\ site'[t].wait /\ site'[t].func = site[t].func
        /\ \A u \in Threads : u # t => site'[u] = site[u]
    BY <1>0, <2>1 DEF SiteType
  <2>4. Ran(t)' <=> Ran(t) BY <2>1 DEF Ran, InFlight
  <2>5. WakeOK(t)' /\ (Updating(t) => Updating(t)')
    BY <1>1, <2>1, <2>2, <2>3, <2>4, SMT, SMTT(30) DEF WakeOK, Updating
  <2> QED BY <1>1, <2>1, <2>2, <2>3, <2>5, OwnStep, SMT, SMTT(30)
<1>4. CASE WaitLoop(t)
  <2>1. /\ UNCHANGED <<queue, handler, site>> /\ (posted' <=> posted)
        /\ tpc[t] \in {"check", "recheck"}
        /\ tpc' = [tpc EXCEPT ![t] = IF site[t].pending THEN "asleep" ELSE "fill"]
    BY <1>4, SMT, SMTT(30) DEF WaitLoop, Goto
  <2>2. /\ tpc'[t] = IF site[t].pending THEN "asleep" ELSE "fill"
        /\ \A u \in Threads : u # t => tpc'[u] = tpc[u]
    BY <1>0, <2>1, SMT, SMTT(30)
  <2>3. Ran(t)' <=> Ran(t) BY <2>1, SMT, SMTT(30) DEF Ran, InFlight
  <2>4. WakeOK(t)'
    BY <1>0, <2>1, <2>2, SMT, SMTT(30) DEF WakeOK
  <2>5. Updating(t) => Updating(t)'
    BY <1>1, <2>1, <2>2, <2>3, SMT, SMTT(30) DEF Updating
  <2> QED BY <1>1, <2>1, <2>2, <2>4, <2>5, OwnStep, ZenonT(30)
<1>5. ASSUME NEW func \in Funcs, NEW wait \in BOOLEAN, Fill(t, func, wait),
             life[t] = "running" => func = "update"
      PROVE  WInv'
  <2>1. /\ UNCHANGED <<queue, handler>> /\ (posted' <=> posted)
        /\ tpc[t] = "fill" /\ tpc' = [tpc EXCEPT ![t] = "post"]
        /\ site' = [site EXCEPT ![t].pending = TRUE, ![t].func = func, ![t].wait = wait]
    BY <1>5 DEF Fill, Goto
  <2>2. tpc'[t] = "post" /\ \A u \in Threads : u # t => tpc'[u] = tpc[u] BY <1>0, <2>1
  <2>3. /\ site'[t].func = func
        /\ \A u \in Threads : u # t => site'[u] = site[u]
    BY <1>0, <2>1, SMT, SMTT(30) DEF SiteType
  <2>4. WakeOK(t)' BY <2>2 DEF WakeOK
  <2>5. Ran(t) /\ life[t] \in {"running", "ending"}
    BY <1>0, <2>1, NotFlying, SMT, SMTT(30) DEF SiteOK, LifeOK
  <2>6. Updating(t) => Updating(t)'
    BY <1>5, <2>1, <2>2, <2>3, <2>5, SMT, SMTT(30) DEF Updating
  <2> QED BY <1>1, <2>1, <2>2, <2>3, <2>4, <2>6, OwnStep, Zenon
<1>6. CASE Post(t)
  <2>1. /\ UNCHANGED <<handler, site>> /\ posted' /\ tpc[t] = "post" /\ queue' = <<t>> \o queue
        /\ tpc' = [tpc EXCEPT ![t] = IF site[t].wait THEN "waiting" ELSE "returned"]
    BY <1>6 DEF Post, Goto
  <2>2. /\ tpc'[t] = IF site[t].wait THEN "waiting" ELSE "returned"
        /\ \A u \in Threads : u # t => tpc'[u] = tpc[u]
    BY <1>0, <2>1, SMT, SMTT(30)
  <2>3. ~Flying(queue, handler, t) /\ site[t].pending BY <1>0, <2>1, Zenon DEF SiteOK
  <2>4. \A u : Queued(queue', u) <=> (u = t \/ Queued(queue, u))
    <3>1. queue \in Seq(Threads) /\ NoDup(queue) /\ ~Queued(queue, t)
      BY <2>3, Zenon DEF IInv, CallTypes, QueueOK, Flying
    <3> QED BY <2>1, <3>1, PutFirst, SMT, SMTT(30)
  <2>5. ASSUME NEW u \in Threads PROVE WakeOK(u)'
    <3>1. CASE u = t BY <2>1, <2>2, <2>3, <3>1, SMT, SMTT(30) DEF WakeOK
    <3>2. CASE u # t BY <2>1, <2>2, <3>2, SMT, SMTT(30) DEF WInv, WakeOK
    <3> QED BY <3>1, <3>2, SMT, SMTT(30)
  <2>6. ASSUME NEW u \in Threads, Updating(u) PROVE Updating(u)'
    <3>1. InFlight(u)' <=> (u = t \/ InFlight(u))
      BY <2>1, <2>4, ZenonT(30) DEF InFlight, Queued
    <3>2. CASE u = t
      <4>1. ~Ran(t)'
        BY <2>1, <2>3, <3>1, <3>2 DEF Ran, Flying, Taken
      <4>2. site[t].func = "update"
        BY <2>1, <2>6, <3>2, SMT, SMTT(30) DEF Updating
      <4> QED BY <2>1, <3>2, <4>1, <4>2 DEF Updating
    <3>3. CASE u # t
      <4>1. Ran(u)' <=> Ran(u) BY <2>1, <3>1, <3>3, SMT, SMTT(30) DEF Ran
      <4>2. tpc'[u] = tpc[u] BY <2>2, <3>3, SMT, SMTT(30)
      <4> QED BY <1>1, <2>1, <2>6, <4>1, <4>2, SMT, SMTT(30) DEF Updating
    <3> QED BY <3>2, <3>3, SMT, SMTT(30)
  <2> QED BY <1>1, <2>1, <2>5, <2>6, SMT, SMTT(30) DEF WInv, PostedOK, TimerOK
<1>7. CASE Woken(t)
  <2>1. /\ UNCHANGED <<queue, handler, site>> /\ (posted' <=> posted) /\ tpc[t] = "woken"
        /\ tpc' = [tpc EXCEPT ![t] = IF site[t].pending THEN "waiting" ELSE "returned"]
    BY <1>7 DEF Woken, Goto
  <2>2. /\ tpc'[t] = IF site[t].pending THEN "waiting" ELSE "returned"
        /\ \A u \in Threads : u # t => tpc'[u] = tpc[u]
    BY <1>0, <2>1, SMT, SMTT(30)
  <2>3. Ran(t)' <=> Ran(t) BY <2>1, SMT, SMTT(30) DEF Ran, InFlight
  <2>4. WakeOK(t)' BY <2>1, <2>2, SMT, SMTT(30) DEF WakeOK
  <2>5. Updating(t) => Updating(t)' BY <1>1, <2>1, <2>2, <2>3, SMT, SMTT(30) DEF Updating
  <2> QED BY <1>1, <2>1, <2>2, <2>4, <2>5, OwnStep, SMT, SMTT(30)
<1>8. "update" \in Funcs /\ "complete" \in Funcs BY DEF Funcs
<1> QED BY <1>2, <1>3, <1>4, <1>5, <1>6, <1>7, <1>8, Zenon DEF Call

\* What the handler's turn to its next call keeps.
LEMMA NextCallWake ==
  ASSUME IInv, handler.pc \in {"idle", "signal"}, TakeNext
  PROVE  PostedOK' /\ \A u \in Threads : Ran(u)' <=> Ran(u)
<1>1. /\ \/ handler'.pc = "idle" /\ handler'.t = NoThread
         \/ handler'.pc = "run" /\ handler'.t \in Threads /\ ~Queued(queue', handler'.t)
      /\ \A u \in Threads : Flying(queue', handler', u) <=> Flying(queue, handler, u)
  BY TakesNext
<1>2. ASSUME NEW u \in Threads PROVE Ran(u)' <=> Ran(u)
  <2>1. InFlight(u)' <=> InFlight(u) BY <1>1 DEF InFlight, Flying, Queued, Taken
  <2> QED BY <1>1, <2>1, SMT, SMTT(30) DEF Ran
<1>3. PostedOK'
  <2>1. CASE queue = <<>> BY <2>1 DEF TakeNext, PostedOK
  <2>2. CASE queue # <<>> BY <2>2, Zenon DEF TakeNext, PostedOK, NoHandler
  <2> QED BY <2>1, <2>2
<1> QED BY <1>2, <1>3, SMT, SMTT(30)

\* Every step of the handler: it knows of a thread that sleeps when it marks
\* its call done, and signals it.
LEMMA HandleWake == ASSUME IInv, WInv, Handle PROVE WInv'
<1>0. life' = life /\ site \in [Threads -> SiteType] /\ tpc \in [Threads -> Pcs]
  BY DEF Handle, workVars, IInv, CallTypes, SiteType
<1>1. CASE InLoop /\ HandlerEnter /\ UNCHANGED shared
  <2>1. handler.pc = "idle" /\ TakeNext /\ site' = site /\ tpc' = tpc /\ shared' = shared
    BY <1>1 DEF HandlerEnter
  <2>2. PostedOK' /\ \A u \in Threads : Ran(u)' <=> Ran(u) BY <2>1, NextCallWake
  <2>3. ASSUME NEW u \in Threads PROVE WakeOK(u)' /\ (Updating(u) => Updating(u)')
    <3>1. WakeOK(u) BY DEF WInv
    <3>2. ~(tpc[u] \in {"asleep", "waiting"} /\ ~site[u].pending) BY <2>1, <3>1, SMT, SMTT(30) DEF WakeOK
    <3>3. WakeOK(u)' BY <2>1, <3>1, <3>2, SMT, SMTT(30) DEF WakeOK
    <3>4. Updating(u) => Updating(u)' BY <1>0, <2>1, <2>2, SMT, SMTT(30) DEF Updating
    <3> QED BY <3>3, <3>4
  <2> QED BY <2>1, <2>2, <2>3, SMT, SMTT(30) DEF WInv, TimerOK
<1>2. CASE HandlerRun /\ \/ site[handler.t].func = "update" /\ PerformUpdate
                         \/ site[handler.t].func = "complete" /\ UNCHANGED shared
  <2>1. /\ handler.pc = "run" /\ handler' = [handler EXCEPT !.pc = "mark"]
        /\ site' = site /\ tpc' = tpc /\ queue' = queue /\ (posted' <=> posted)
    BY <1>2 DEF HandlerRun
  <2>2. handler'.pc = "mark" /\ handler'.t = handler.t BY <2>1 DEF IInv, CallTypes
  <2>3. ASSUME NEW u \in Threads PROVE WakeOK(u)'
    <3>1. WakeOK(u) BY DEF WInv
    <3>2. ~(tpc[u] \in {"asleep", "waiting"} /\ ~site[u].pending) BY <2>1, <3>1 DEF WakeOK
    <3> QED BY <2>1, <3>1, <3>2 DEF WakeOK
  <2>4. PostedOK' BY <2>2 DEF PostedOK
  <2>5. CASE site[handler.t].func = "update" /\ PerformUpdate
    <3>1. shared'.timer = shared'.expires /\ shared' \in [expires : Nat, timer : Nat]
      BY <2>5, SMT, SMTT(30) DEF PerformUpdate, WInv, TimerOK
    <3> QED BY <2>3, <2>4, <3>1, SMT, SMTT(30) DEF WInv, TimerOK
  <2>6. CASE site[handler.t].func = "complete" /\ UNCHANGED shared
    <3>1. ASSUME NEW u \in Threads, Updating(u) PROVE Updating(u)'
      <4>1. CASE u = handler.t
        BY <1>0, <2>1, <2>6, <3>1, <4>1, SMT, SMTT(30) DEF Updating
      <4>2. CASE u # handler.t
        <5>1. Ran(u)' <=> Ran(u) BY <2>1, <2>2, <4>2, SMT, SMTT(30) DEF Ran, InFlight
        <5> QED BY <1>0, <2>1, <3>1, <5>1, SMT, SMTT(30) DEF Updating
      <4> QED BY <4>1, <4>2
    <3> QED BY <2>3, <2>4, <2>6, <3>1, SMT, SMTT(30) DEF WInv, TimerOK
  <2> QED BY <1>2, <2>5, <2>6
<1>3. CASE HandlerMark /\ UNCHANGED shared
  <2>0. PICK t \in Threads : handler.t = t BY <1>3 DEF HandlerMark, IInv, CallTypes
  <2>1. /\ handler.pc = "mark" /\ site' = [site EXCEPT ![t].pending = FALSE]
        /\ handler' = [handler EXCEPT !.pc = "signal", !.dowakeup = site[t].wait,
                                      !.dofree = site[t].mainfree]
        /\ tpc' = tpc /\ queue' = queue /\ (posted' <=> posted) /\ shared' = shared
    BY <1>3, <2>0, SMT, SMTT(30) DEF HandlerMark
  <2>2. handler'.pc = "signal" /\ handler'.t = t /\ handler'.dowakeup = site[t].wait
    BY <2>0, <2>1, SMT, SMTT(30) DEF IInv, CallTypes
  <2>3. /\ site'[t].wait = site[t].wait /\ site'[t].func = site[t].func
        /\ \A u \in Threads : u # t => site'[u] = site[u]
    BY <1>0, <2>1 DEF SiteType
  <2>4. ASSUME NEW u \in Threads PROVE WakeOK(u)'
    <3>1. WakeOK(u) BY DEF WInv
    <3>2. CASE u = t
      <4>1. tpc[t] = "waiting" => site[t].wait BY DEF IInv, LifeOK
      <4> QED BY <2>1, <2>2, <2>3, <3>1, <3>2, <4>1, SMT, SMTT(30) DEF WakeOK
    <3>3. CASE u # t
      <4>1. ~(tpc[u] \in {"asleep", "waiting"} /\ ~site[u].pending) BY <2>1, <3>1 DEF WakeOK
      <4> QED BY <2>1, <2>3, <3>1, <3>3, <4>1, SMT, SMTT(30) DEF WakeOK
    <3> QED BY <3>2, <3>3
  <2>5. ASSUME NEW u \in Threads, Updating(u) PROVE Updating(u)'
    <3>1. CASE u = t
      <4>1. Ran(t) BY <2>0, <2>1 DEF Ran
      <4> QED BY <1>0, <2>1, <2>3, <2>5, <3>1, <4>1, SMT, SMTT(30) DEF Updating
    <3>2. CASE u # t
      <4>1. Ran(u)' <=> Ran(u) BY <2>0, <2>1, <2>2, <3>2, SMT, SMTT(30) DEF Ran, InFlight
      <4>2. site'[u] = site[u] BY <2>3, <3>2
      <4> QED BY <1>0, <2>1, <2>5, <4>1, <4>2, SMT, SMTT(30) DEF Updating
    <3> QED BY <3>1, <3>2
  <2> QED BY <2>1, <2>2, <2>4, <2>5, SMT, SMTT(30) DEF WInv, PostedOK, TimerOK
<1>4. CASE HandlerSignal /\ UNCHANGED shared
  <2>0. PICK t \in Threads : handler.t = t BY <1>4 DEF HandlerSignal, IInv, CallTypes
  <2>1. /\ handler.pc = "signal" /\ TakeNext /\ shared' = shared
        /\ site' = [site EXCEPT ![t].freed = site[t].freed \/ handler.dofree]
        /\ tpc' = [tpc EXCEPT ![t] = IF handler.dowakeup /\ ~handler.dofree THEN Signalled(t) ELSE tpc[t]]
    BY <1>4, <2>0 DEF HandlerSignal, Goto
  <2>2. PostedOK' /\ \A u \in Threads : Ran(u)' <=> Ran(u) BY <2>1, NextCallWake
  <2>3. \A u \in Threads : /\ site'[u].wait = site[u].wait /\ site'[u].func = site[u].func
                           /\ site'[u].pending = site[u].pending
    BY <1>0, <2>1 DEF SiteType
  <2>4. /\ tpc'[t] = (IF handler.dowakeup /\ ~handler.dofree THEN Signalled(t) ELSE tpc[t])
        /\ \A u \in Threads : u # t => tpc'[u] = tpc[u]
    BY <1>0, <2>1, SMT, SMTT(30)
  <2>5. handler.dofree => tpc[t] = "idle"
    BY <2>0, ZenonT(30) DEF IInv, QueueOK, LifeOK
  <2>6. ASSUME NEW u \in Threads PROVE WakeOK(u)'
    <3>1. WakeOK(u) BY DEF WInv
    <3>2. CASE u = t
      BY <2>0, <2>3, <2>4, <2>5, <3>1, <3>2, SMT, SMTT(30) DEF WakeOK, Signalled
    <3>3. CASE u # t
      <4>1. ~(tpc[u] \in {"asleep", "waiting"} /\ ~site[u].pending) BY <2>0, <3>1, <3>3, SMT, SMTT(30) DEF WakeOK
      <4> QED BY <2>3, <2>4, <3>1, <3>3, <4>1, SMT, SMTT(30) DEF WakeOK
    <3> QED BY <3>2, <3>3
  <2>7. ASSUME NEW u \in Threads, Updating(u) PROVE Updating(u)'
    <3>1. \/ tpc'[u] = tpc[u]
          \/ tpc[u] = "asleep" /\ tpc'[u] = "recheck"
          \/ tpc[u] = "waiting" /\ tpc'[u] = "woken"
      BY <2>4, SMT, SMTT(30) DEF Signalled
    <3> QED BY <1>0, <2>2, <2>3, <2>7, <3>1, SMT, SMTT(30) DEF Updating
  <2> QED BY <2>1, <2>2, <2>6, <2>7, SMT, SMTT(30) DEF WInv, TimerOK
<1> QED BY <1>1, <1>2, <1>3, <1>4 DEF Handle, HandleCalls

\* Every step keeps sleeping threads wakeable and the timer followed.
LEMMA NextWake == ASSUME IInv, WInv, [Next]_vars PROVE WInv'
<1>1. CASE \/ MainStep \/ ReloadConfig \/ ExitInitiate \/ ExitTimerElapsed \/ ReenableTask
           \/ \E j \in Jobs : JobSubmit(j) \/ JobSubmitContinuation(j) \/ JobWork(j) \/ JobDone(j)
  BY <1>1, LoopStepQuiet, QuietStep, Zenon
<1>2. CASE Handle BY <1>2, HandleWake
<1>3. CASE \E p \in Pool : PoolThreadStop(p) \/ \E j \in Jobs : JobTake(j, p)
  BY <1>3, PoolThreadStopWake, JobTakeWake, SMT, SMTT(30)
<1>4. CASE \E t \in Threads : ThreadStep(t) \/ \E e \in Expiries : TimerUpdate(t, e)
  BY <1>4, CallWake, CallReturnsWake, ThreadInitWake, RunReturnsWake, TimerUpdateWake, SMT, SMTT(30) DEF ThreadStep
<1>5. CASE UNCHANGED vars
  <2>1. UNCHANGED <<callVars, shared>> /\ life' = life BY <1>5 DEF vars, workVars
  <2> QED BY <2>1, QuietStep
<1> QED BY <1>1, <1>2, <1>3, <1>4, <1>5, SMT, SMTT(30) DEF Next

\* At the start nobody sleeps and the timer is not set.
LEMMA InitWake == ASSUME Init PROVE WInv
<1>1. ASSUME NEW t \in Threads PROVE WakeOK(t)
  BY SMT, SMTT(30) DEF Init, CallInit, WakeOK
<1>2. PostedOK BY SMT, SMTT(30) DEF Init, CallInit, PostedOK
<1>3. TimerOK BY DEF Init, TimerOK
<1> QED BY <1>1, <1>2, <1>3, SMT, SMTT(30) DEF WInv

\* Sleeping threads, the handler's event and the shared timer, in every state.
THEOREM WakesAndTimers == Spec => []WInv
<1>1. Init => WInv BY InitWake
<1>2. IInv /\ WInv /\ [Next]_vars => WInv' BY NextWake
<1> QED BY <1>1, <1>2, Inductive, PTL DEF Spec

\* A thread that sleeps in main_loop_call() will be signalled: no wakeup is
\* lost between the site's lock and main_task_lock.
THEOREM NoLostWakeupHolds == Spec => []NoLostWakeup
<1>1. ASSUME IInv, WInv PROVE NoLostWakeup
  <2>1. ASSUME NEW t \in Threads, tpc[t] \in {"asleep", "waiting"}
        PROVE  /\ site[t].pending => InFlight(t) /\ site[t].wait
               /\ ~site[t].pending => handler.t = t /\ handler.dowakeup
    <3>1. SiteOK(t) /\ LifeOK(t) /\ WakeOK(t) BY <1>1 DEF IInv, WInv
    <3>2. InFlight(t) <=> Flying(queue, handler, t) BY DEF InFlight, Flying, Queued, Taken
    <3> QED BY <2>1, <3>1, <3>2, Zenon DEF SiteOK, LifeOK, WakeOK
  <2>2. queue # <<>> => posted \/ handler.pc # "idle" BY <1>1, SMT, SMTT(30) DEF WInv, PostedOK
  <2> QED BY <2>1, <2>2, SMT, SMTT(30) DEF NoLostWakeup
<1> QED BY <1>1, Inductive, WakesAndTimers, PTL

\* With no update under way the shared timer is set to the expiry asked for
\* last (ml_batched_timer_perform_update()), whatever the order of the calls.
THEOREM TimerFollowsHolds == Spec => []TimerFollows
<1>1. WInv => TimerFollows BY DEF WInv, TimerOK, TimerFollows
<1> QED BY <1>1, WakesAndTimers, PTL

=============================================================================
