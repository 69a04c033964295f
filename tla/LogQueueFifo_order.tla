------------------------- MODULE LogQueueFifo_order -------------------------
(***************************************************************************)
(* Proofs about the messages in LogQueueFifo, for any number of threads    *)
(* and messages: none is lost or duplicated, and those of one thread stay  *)
(* in order.                                                               *)
(***************************************************************************)
EXTENDS LogQueueFifo_proof

-----------------------------------------------------------------------------
(* What a step of the queue does to the messages in it.                    *)

\* The messages that have left the input queues, oldest first.
Core == backlog.items \o InHandSeq \o output.items \o wait.items

\* Outside pop_head no message is in its hands.
InHand == cpc # "count" => inhand = NoMsg

SameInputs == \A w \in Workers : inq'[w].items = inq[w].items
InputBecomes(w, s) ==
  /\ inq'[w].items = s
  /\ \A v \in Workers : v # w => inq'[v].items = inq[v].items

SameAcked == h'.acked = h.acked
SameDropped == h'.dropped = h.dropped
SameAborted == h'.aborted = h.aborted
Pushed == h'.pushed = h.pushed + 1 /\ h.pushed < MaxMsgs

\* Nothing happens to them, a push to an input queue, to the wait queue, or
\* one that is dropped.
Stay ==
  /\ Core' = Core /\ SameInputs /\ h'.pushed = h.pushed
  /\ SameAcked /\ SameDropped /\ SameAborted

PushInput(w, m) ==
  /\ m.id = h.pushed + 1 /\ m.from = w /\ Pushed
  /\ Core' = Core /\ InputBecomes(w, inq[w].items \o <<m>>)
  /\ SameAcked /\ SameDropped /\ SameAborted

PushWait(m) ==
  /\ m.id = h.pushed + 1 /\ m.from \in Feeders /\ Pushed
  /\ Core' = Core \o <<m>> /\ SameInputs
  /\ SameAcked /\ SameDropped /\ SameAborted

PushNowhere ==
  /\ Pushed /\ Core' = Core /\ SameInputs
  /\ SameAcked /\ h'.dropped = h.dropped \cup {h.pushed + 1} /\ SameAborted

\* A message of an input queue is dropped, the others are spliced.
DropInput(w, s, m, t) ==
  /\ inq[w].items = (s \o <<m>>) \o t /\ InputBecomes(w, s \o t)
  /\ Core' = Core /\ h'.pushed = h.pushed
  /\ SameAcked /\ h'.dropped = h.dropped \cup {m.id} /\ SameAborted

SpliceInput(w) ==
  /\ Core' = Core \o inq[w].items /\ InputBecomes(w, <<>>) /\ h'.pushed = h.pushed
  /\ SameAcked /\ SameDropped /\ SameAborted

\* The oldest messages are acked, all are aborted, or rewind_backlog_all
\* exchanges backlog and output.
AckOldest(s) ==
  /\ Core = s \o Core' /\ Core' \in Seq(Msg) /\ SameInputs /\ h'.pushed = h.pushed
  /\ h'.acked = h.acked \cup Ids(s) /\ SameDropped /\ SameAborted

AbortAll ==
  /\ Core' = <<>> /\ SameInputs /\ h'.pushed = h.pushed
  /\ SameAcked /\ SameDropped /\ h'.aborted = h.aborted \cup Ids(Core)

Exchange(s, t, r) ==
  /\ Core = (s \o t) \o r /\ Core' = (t \o s) \o r /\ h'.spliced
  /\ SameInputs /\ h'.pushed = h.pushed
  /\ SameAcked /\ SameDropped /\ SameAborted

Move ==
  \/ Stay \/ PushNowhere \/ AbortAll
  \/ \E w \in Workers, m \in Msg : PushInput(w, m)
  \/ \E m \in Msg : PushWait(m)
  \/ \E w \in Workers, m \in Msg, s, t \in Seq(Msg) : DropInput(w, s, m, t)
  \/ \E w \in Workers : SpliceInput(w)
  \/ \E s \in Seq(Msg) : AckOldest(s)
  \/ \E s, t, r \in Seq(Msg) : Exchange(s, t, r)

\* The lists are lists of messages.
LEMMA ListTypes ==
  ASSUME Inv, InHand
  PROVE  /\ backlog.items \in Seq(Msg) /\ output.items \in Seq(Msg)
         /\ wait.items \in Seq(Msg) /\ InHandSeq \in Seq(Msg) /\ Core \in Seq(Msg)
         /\ \A w \in Workers : inq[w].items \in Seq(Msg)
         /\ h.pushed \in Nat
<1>1. /\ backlog.items \in Seq(Msg) /\ output.items \in Seq(Msg)
      /\ wait.items \in Seq(Msg) /\ \A w \in Workers : inq[w].items \in Seq(Msg)
  BY CQueueNat DEF Inv, QueuesCounted
<1>2. InHandSeq \in Seq(Msg)
  <2>1. CASE inhand = NoMsg
    BY <2>1, SmallLists DEF InHandSeq
  <2>2. CASE inhand # NoMsg
    <3>1. inhand \in Msg
      BY <2>2 DEF Inv, TypeOK
    <3> QED BY <2>2, <3>1 DEF InHandSeq
  <2> QED BY <2>1, <2>2
<1>3. Core \in Seq(Msg)
  BY <1>1, <1>2, ConcatFacts, SMT, SMTT(30) DEF Core
<1>4. h.pushed \in Nat
  BY HistorySteps, Zenon DEF Inv, TypeOK
<1> QED BY <1>1, <1>2, <1>3, <1>4

\* With no message in the hands of pop_head the core is three lists.
LEMMA CoreIdle ==
  ASSUME Inv, inhand = NoMsg
  PROVE  Core = (backlog.items \o output.items) \o wait.items
<1>1. backlog.items \o InHandSeq = backlog.items
  <2>1. backlog.items \in Seq(Msg)
    BY CQueueNat DEF Inv, QueuesCounted
  <2>2. InHandSeq = <<>>
    BY DEF InHandSeq
  <2> QED BY <2>1, <2>2, ConcatEmpty
<1> QED BY <1>1 DEF Core

\* A message is not the placeholder for none.
LEMMA NotNoMsg == \A m \in Msg : m # NoMsg
<1> SUFFICES ASSUME NEW m \in Msg, m = NoMsg PROVE FALSE
  OBVIOUS
<1>1. DOMAIN m = {"id", "from", "fc"}
  BY DEF Msg
<1>2. DOMAIN NoMsg = {"id"}
  BY DEF NoMsg
<1> QED BY <1>1, <1>2

\* The first message of a list and the rest.
LEMMA HeadTail ==
  ASSUME NEW q \in Seq(Msg), q # <<>>
  PROVE  Head(q) \in Msg /\ Tail(q) \in Seq(Msg) /\ q = <<Head(q)>> \o Tail(q)
<1>1. /\ Head(q) \in Msg /\ Tail(q) \in Seq(Msg) /\ Len(Tail(q)) = Len(q) - 1
      /\ \A i \in 1..Len(Tail(q)) : Tail(q)[i] = q[i + 1]
  BY HeadTailFacts
<1>2. Len(q) \in Nat /\ Len(q) > 0 /\ Head(q) = q[1]
  BY EmptyFacts, LenFacts
<1> DEFINE a == <<Head(q)>>
           b == Tail(q)
<1>3. a \in Seq(Msg) /\ Len(a) = 1 /\ a[1] = Head(q)
  BY <1>1
<1> HIDE DEF a, b
<1>4. /\ a \o b \in Seq(Msg) /\ Len(a \o b) = Len(q)
      /\ \A i \in 1..Len(q) : (a \o b)[i] = IF i <= 1 THEN a[i] ELSE b[i - 1]
  <2>1. b \in Seq(Msg) /\ Len(b) = Len(q) - 1
    BY <1>1 DEF b
  <2>2. /\ a \o b \in Seq(Msg) /\ Len(a \o b) = Len(a) + Len(b)
        /\ \A i \in 1..(Len(a) + Len(b)) :
             (a \o b)[i] = IF i <= Len(a) THEN a[i] ELSE b[i - Len(a)]
    BY <1>3, <2>1, ConcatFacts, Zenon
  <2>3. Len(a) + Len(b) = Len(q)
    BY <1>2, <1>3, <2>1
  <2> QED BY <1>3, <2>2, <2>3, Zenon
<1>5. ASSUME NEW i \in 1..Len(q) PROVE (a \o b)[i] = q[i]
  <2>1. CASE i = 1
    BY <1>2, <1>3, <1>4, <2>1
  <2>2. CASE i > 1
    <3>1. i - 1 \in 1..Len(b) /\ (i - 1) + 1 = i /\ ~(i <= 1)
      BY <1>1, <1>2, <2>2 DEF b
    <3>2. (a \o b)[i] = b[i - 1]
      BY <1>4, <3>1, Zenon
    <3>3. b[i - 1] = q[(i - 1) + 1]
      BY <1>1, <3>1, Zenon DEF b
    <3> QED BY <3>1, <3>2, <3>3, Zenon
  <2>3. i = 1 \/ i > 1
    BY <1>2
  <2> QED BY <2>1, <2>2, <2>3, Zenon
<1>6. q = a \o b
  BY <1>4, <1>5, SameSeq, Zenon
<1> QED BY <1>1, <1>6 DEF a, b

\* Steps that change none of the lists.
LEMMA QuietStays ==
  ASSUME inq' = inq, wait' = wait, output' = output, backlog' = backlog,
         inhand' = inhand, h'.pushed = h.pushed,
         h'.acked = h.acked, h'.dropped = h.dropped, h'.aborted = h.aborted
  PROVE  Stay
BY DEF Stay, Core, InHandSeq, SameInputs, SameAcked, SameDropped, SameAborted

\* Moving the wait queue to an empty output queue.
LEMMA MoveWaitStays ==
  ASSUME Inv, InHand, output.len = 0, MoveWaitToOutput,
         inq' = inq, backlog' = backlog, inhand' = inhand, h' = h
  PROVE  Stay
<1> DEFINE b == backlog.items \o InHandSeq
<1>1. output.items = <<>> /\ wait.items \in Seq(Msg) /\ b \in Seq(Msg)
  <2>1. output.items = <<>>
    BY CQueueNat DEF Inv, QueuesCounted
  <2>2. wait.items \in Seq(Msg) /\ backlog.items \in Seq(Msg) /\ InHandSeq \in Seq(Msg)
    BY ListTypes, Zenon
  <2> QED BY <2>1, <2>2, ConcatFacts
<1>2. b' = b
  BY DEF InHandSeq
<1>3. output'.items = <<>> \o wait.items /\ wait'.items = <<>>
  BY <1>1 DEF MoveWaitToOutput, Empty
<1>4. <<>> \o wait.items = wait.items
  BY <1>1, ConcatEmpty
<1>5. /\ Core = (b \o <<>>) \o wait.items
      /\ Core' = (b' \o wait.items) \o <<>>
  <2>1. Core = (b \o output.items) \o wait.items
    BY Zenon DEF Core
  <2>2. Core' = (b' \o output'.items) \o wait'.items
    BY Zenon DEF Core
  <2> QED BY <1>1, <1>3, <1>4, <2>1, <2>2, Zenon
<1> HIDE DEF b
<1>6. Core' = Core
  <2>1. b \o <<>> = b
    BY <1>1, ConcatEmpty
  <2>2. (b \o wait.items) \o <<>> = b \o wait.items
    BY <1>1, ConcatFacts, ConcatEmpty
  <2> QED BY <1>2, <1>5, <2>1, <2>2, Zenon
<1> QED BY <1>6 DEF Stay, SameInputs, SameAcked, SameDropped, SameAborted

\* The last reference aborts all that is left; any other changes nothing.
LEMMA UnrefMoves ==
  ASSUME Inv, Unref, inhand = NoMsg, inhand' = inhand,
         refs = 1 => \A w \in Workers : inq[w] = Empty
  PROVE  (Stay \/ AbortAll) /\ h'.spliced = h.spliced
<1>h. h \in History
  BY DEF Inv, TypeOK
<1>1. CASE refs # 1
  <2>1. inq' = inq /\ wait' = wait /\ output' = output /\ backlog' = backlog /\ h' = h
    BY <1>1 DEF Unref
  <2> QED BY <2>1, QuietStays
<1>2. CASE refs = 1
  <2>1. /\ wait' = Empty /\ output' = Empty /\ backlog' = Empty
        /\ inq' = [w \in Workers |-> Empty]
        /\ h' = [h EXCEPT !.aborted = @ \cup
                   (Ids(wait.items) \cup Ids(output.items) \cup Ids(backlog.items)
                      \cup UNION {Ids(inq[w].items) : w \in Workers})]
    BY <1>2 DEF Unref
  <2>2. \A w \in Workers : inq[w].items = <<>> /\ inq'[w].items = <<>>
    BY <1>2, <2>1 DEF Empty
  <2>3. UNION {Ids(inq[w].items) : w \in Workers} = {}
    BY <2>2, SmallLists
  <2>4. Ids(Core) = Ids(wait.items) \cup Ids(output.items) \cup Ids(backlog.items)
    <3>1. /\ backlog.items \in Seq(Msg) /\ output.items \in Seq(Msg)
          /\ wait.items \in Seq(Msg)
      BY CQueueNat DEF Inv, QueuesCounted
    <3>2. backlog.items \o output.items \in Seq(Msg)
      BY <3>1, ConcatFacts
    <3>3. Ids(Core) = Ids(backlog.items \o output.items) \cup Ids(wait.items)
      BY <3>1, <3>2, CoreIdle, IdsConcat, ZenonT(30)
    <3>4. Ids(backlog.items \o output.items) = Ids(backlog.items) \cup Ids(output.items)
      BY <3>1, IdsConcat, Zenon
    <3> QED BY <3>3, <3>4
  <2>5. Core' = <<>>
    <3>1. wait'.items = <<>> /\ output'.items = <<>> /\ backlog'.items = <<>>
      BY <2>1 DEF Empty
    <3>2. InHandSeq' = <<>>
      BY DEF InHandSeq
    <3>3. Core' = ((backlog'.items \o InHandSeq') \o output'.items) \o wait'.items
      BY Zenon DEF Core
    <3>4. <<>> \o <<>> = <<>>
      BY SmallLists, ConcatEmpty, Zenon
    <3> QED BY <3>1, <3>2, <3>3, <3>4, Zenon
  <2>6. /\ h'.aborted = h.aborted \cup Ids(Core) /\ h'.pushed = h.pushed
        /\ h'.acked = h.acked /\ h'.dropped = h.dropped /\ h'.spliced = h.spliced
    BY <1>h, <2>1, <2>3, <2>4 DEF History
  <2> QED
    BY <2>2, <2>5, <2>6 DEF AbortAll, SameInputs, SameAcked, SameDropped
<1> QED BY <1>1, <1>2

\* rewind_backlog_all: the same messages in the same order, unless there are
\* messages in both lists, and then it is noted.
LEMMA RewindAllMoves ==
  ASSUME Inv, inhand = NoMsg, inhand' = inhand, RewindAll, wait' = wait, inq' = inq,
         NEW g \in History, h' = NoteRewindAll(g),
         g.pushed = h.pushed, g.acked = h.acked, g.dropped = h.dropped,
         g.aborted = h.aborted, g.spliced = h.spliced
  PROVE  /\ Stay \/ \E s, t, r \in Seq(Msg) : Exchange(s, t, r)
         /\ h.spliced => h'.spliced
<1> DEFINE b == backlog.items
           o == output.items
           w == wait.items
<1>1. /\ b \in Seq(Msg) /\ o \in Seq(Msg) /\ w \in Seq(Msg)
      /\ backlog.len \in Nat /\ output.len \in Nat
      /\ backlog.len = 0 => b = <<>>
      /\ output.len = 0 => o = <<>>
  BY CQueueNat DEF Inv, QueuesCounted
<1>2. /\ h'.pushed = h.pushed /\ h'.acked = h.acked /\ h'.dropped = h.dropped
      /\ h'.aborted = h.aborted
      /\ h'.spliced = (h.spliced \/ (backlog.len > 0 /\ output.len > 0))
  BY DEF NoteRewindAll, History
<1>3. Core = (b \o o) \o w
  BY CoreIdle, Zenon
<1>4. Core' = (o \o b) \o w
  <2>1. output'.items = o \o b /\ backlog'.items = <<>> /\ wait'.items = w
    BY Zenon DEF RewindAll, Splice, Empty
  <2>2. InHandSeq' = <<>>
    BY DEF InHandSeq
  <2>3. Core' = ((backlog'.items \o InHandSeq') \o output'.items) \o wait'.items
    BY Zenon DEF Core
  <2>4. <<>> \o <<>> = <<>>
    BY SmallLists, ConcatEmpty, Zenon
  <2>5. <<>> \o (o \o b) = o \o b
    BY <1>1, ConcatFacts, ConcatEmpty
  <2> QED BY <2>1, <2>2, <2>3, <2>4, <2>5, ZenonT(30)
<1>5. SameInputs /\ SameAcked /\ SameDropped /\ SameAborted
  BY <1>2 DEF SameInputs, SameAcked, SameDropped, SameAborted
<1> HIDE DEF b, o, w
<1>6. CASE backlog.len > 0 /\ output.len > 0
  <2>1. Exchange(b, o, w)
    BY <1>2, <1>3, <1>4, <1>5, <1>6, Zenon DEF Exchange
  <2> QED BY <2>1, <1>1, <1>2, Zenon
<1>7. CASE ~(backlog.len > 0 /\ output.len > 0)
  <2>1. b = <<>> \/ o = <<>>
    BY <1>1, <1>7
  <2>2. b \o o = o \o b
    BY <1>1, <2>1, ConcatEmpty, SMT, SMTT(30)
  <2>3. Stay
    BY <1>2, <1>3, <1>4, <1>5, <2>2, Zenon DEF Stay
  <2> QED BY <2>3, <1>2, Zenon
<1> QED BY <1>6, <1>7, Zenon

\* What each kind of step makes of the messages: the pushes, ...
LEMMA PushMoves ==
  ASSUME Inv, InHand
  PROVE  /\ \A w \in Workers, fc \in BOOLEAN : PushFast(w, fc) =>
              Move /\ h'.spliced = h.spliced
         /\ \A f \in Feeders, fc \in BOOLEAN :
              PushSlow(f, fc) \/ PushSlowDrop(f, fc) => Move /\ h'.spliced = h.spliced
<1>h. h \in History /\ h.pushed \in Nat
  BY HistorySteps, Zenon DEF Inv, TypeOK
<1>s. /\ \A w \in Workers : inq[w].items \in Seq(Msg)
      /\ Core \in Seq(Msg) /\ wait.items \in Seq(Msg)
  BY ListTypes, Zenon
<1>m. \A t \in Threads, fc \in BOOLEAN : NewMsg(t, fc) \in Msg
  BY <1>h DEF NewMsg, Msg
<1>1. ASSUME NEW w \in Workers, NEW fc \in BOOLEAN, PushFast(w, fc)
      PROVE  Move /\ h'.spliced = h.spliced
  <2> DEFINE m == NewMsg(w, fc)
  <2>1. /\ m \in Msg /\ m.id = h.pushed + 1 /\ m.from = w
    BY <1>m DEF NewMsg, Threads
  <2>2. /\ wait' = wait /\ output' = output /\ backlog' = backlog /\ inhand' = inhand
        /\ inq' = [inq EXCEPT ![w] = AddTail(@, m)]
        /\ h' = [h EXCEPT !.pushed = @ + 1] /\ h.pushed < MaxMsgs
    BY <1>1 DEF PushFast, CanPush, outputVars
  <2> HIDE DEF m
  <2>3. /\ h'.pushed = h.pushed + 1 /\ SameAcked /\ SameDropped /\ SameAborted
        /\ h'.spliced = h.spliced
    BY <1>h, <2>2 DEF History, SameAcked, SameDropped, SameAborted
  <2>4. Core' = Core
    BY <2>2 DEF Core, InHandSeq
  <2>5. InputBecomes(w, inq[w].items \o <<m>>)
    <3>1. inq \in [Workers -> Queue]
      BY DEF Inv, TypeOK
    <3>2. inq'[w].items = Append(inq[w].items, m)
      BY <2>2, <3>1 DEF AddTail
    <3>3. \A v \in Workers : v # w => inq'[v].items = inq[v].items
      BY <2>2, <3>1
    <3>4. Append(inq[w].items, m) = inq[w].items \o <<m>>
      BY <1>s, <2>1, AppendConcat, SMT, SMTT(30)
    <3> QED BY <3>2, <3>3, <3>4, Zenon DEF InputBecomes
  <2>6. PushInput(w, m)
    BY <2>1, <2>2, <2>3, <2>4, <2>5, Zenon DEF PushInput, Pushed
  <2> QED BY <2>1, <2>3, <2>6, Zenon DEF Move
<1>2. ASSUME NEW f \in Feeders, NEW fc \in BOOLEAN, PushSlow(f, fc)
      PROVE  Move /\ h'.spliced = h.spliced
  <2> DEFINE m == NewMsg(f, fc)
  <2>1. m \in Msg /\ m.id = h.pushed + 1 /\ m.from \in Feeders
    BY <1>m DEF NewMsg, Threads
  <2>2. /\ wait' = AddTail(wait, m) /\ output' = output /\ backlog' = backlog
        /\ inhand' = inhand /\ inq' = inq
        /\ h' = [h EXCEPT !.pushed = @ + 1] /\ h.pushed < MaxMsgs
    BY <1>2 DEF PushSlow, CanPush, outputVars, inputVars
  <2> HIDE DEF m
  <2>3. /\ h'.pushed = h.pushed + 1 /\ SameAcked /\ SameDropped /\ SameAborted
        /\ h'.spliced = h.spliced /\ SameInputs
    BY <1>h, <2>2 DEF History, SameAcked, SameDropped, SameAborted, SameInputs
  <2>4. Core' = Core \o <<m>>
    <3> DEFINE b == (backlog.items \o InHandSeq) \o output.items
    <3>1. b \in Seq(Msg)
      <4>1. /\ backlog.items \in Seq(Msg) /\ InHandSeq \in Seq(Msg)
            /\ output.items \in Seq(Msg)
        BY ListTypes, Zenon
      <4> QED BY <4>1, ConcatFacts
    <3>2. wait'.items = wait.items \o <<m>>
      BY <1>s, <2>1, <2>2, AppendConcat, SMT, SMTT(30) DEF AddTail
    <3>3. b' = b
      BY <2>2 DEF InHandSeq
    <3>4. Core' = b' \o wait'.items /\ Core = b \o wait.items
      BY Zenon DEF Core
    <3> HIDE DEF b
    <3>5. <<m>> \in Seq(Msg)
      BY <2>1, SmallLists
    <3>6. (b \o wait.items) \o <<m>> = b \o (wait.items \o <<m>>)
      BY <1>s, <3>1, <3>5, ConcatAssoc3, ZenonT(30)
    <3> QED BY <3>2, <3>3, <3>4, <3>6, Zenon
  <2>5. PushWait(m)
    BY <2>1, <2>2, <2>3, <2>4, Zenon DEF PushWait, Pushed
  <2> QED BY <2>1, <2>3, <2>5, Zenon DEF Move
<1>3. ASSUME NEW f \in Feeders, NEW fc \in BOOLEAN, PushSlowDrop(f, fc)
      PROVE  Move /\ h'.spliced = h.spliced
  <2>1. /\ wait' = wait /\ output' = output /\ backlog' = backlog
        /\ inhand' = inhand /\ inq' = inq /\ h.pushed < MaxMsgs
        /\ h' = [h EXCEPT !.pushed = @ + 1, !.dropped = @ \cup {h.pushed + 1}]
    BY <1>3 DEF PushSlowDrop, CanPush, outputVars, inputVars
  <2>2. /\ h'.pushed = h.pushed + 1 /\ SameAcked /\ SameAborted
        /\ h'.dropped = h.dropped \cup {h.pushed + 1} /\ h'.spliced = h.spliced
    BY <1>h, <2>1 DEF History, SameAcked, SameAborted
  <2>3. Core' = Core /\ SameInputs
    BY <2>1 DEF Core, InHandSeq, SameInputs
  <2>4. PushNowhere
    BY <2>1, <2>2, <2>3, Zenon DEF PushNowhere, Pushed
  <2> QED BY <2>2, <2>4, Zenon DEF Move
<1> QED BY <1>1, <1>2, <1>3, ZenonT(30)

\* ... the end of a batch, ...
LEMMA BatchMoves ==
  ASSUME Inv, InHand, NEW w \in Workers, WorkerStep(w)
  PROVE  Move /\ h'.spliced = h.spliced
<1>h. h \in History /\ h.pushed \in Nat
  BY HistorySteps, Zenon DEF Inv, TypeOK
<1>s. /\ \A v \in Workers : inq[v].items \in Seq(Msg)
      /\ Core \in Seq(Msg) /\ wait.items \in Seq(Msg)
  BY ListTypes, Zenon
<1>t. inq \in [Workers -> Queue]
  BY DEF Inv, TypeOK
<1>1. CASE MoveInput(w)
  <2>1. /\ inq' = inq /\ wait' = wait /\ output' = output /\ backlog' = backlog
        /\ inhand' = inhand /\ h' = [h EXCEPT !.truncated = @ \/ inq[w].nfc >= Uint16Mod]
    BY <1>1 DEF MoveInput, outputVars
  <2>2. /\ h'.pushed = h.pushed /\ h'.acked = h.acked /\ h'.dropped = h.dropped
        /\ h'.aborted = h.aborted /\ h'.spliced = h.spliced
    BY <1>h, <2>1 DEF History
  <2> QED BY <2>1, <2>2, QuietStays, Zenon DEF Move
<1>2. CASE DropOne(w)
  <2>1. /\ wait' = wait /\ output' = output /\ backlog' = backlog /\ inhand' = inhand
    BY <1>2, SMT, SMTT(30) DEF DropOne, outputVars
  <2>2. PICK i \in DOMAIN inq[w].items :
          /\ inq' = [inq EXCEPT ![w] =
               [items |-> SubSeq(@.items, 1, i - 1)
                            \o SubSeq(@.items, i + 1, Len(@.items)),
                len |-> @.len - 1, nfc |-> @.nfc - 1]]
          /\ h' = [h EXCEPT !.dropped = @ \cup {inq[w].items[i].id}]
    BY <1>2, Zenon DEF DropOne
  <2> DEFINE q == inq[w].items
             s == SubSeq(q, 1, i - 1)
             m == q[i]
             t == SubSeq(q, i + 1, Len(q))
  <2>3. InputBecomes(w, s \o t)
    <3>1. inq'[w].items = s \o t
      BY <1>t, <2>2, Zenon
    <3>2. \A v \in Workers : v # w => inq'[v].items = inq[v].items
      BY <1>t, <2>2, SMT, SMTT(30)
    <3> QED BY <3>1, <3>2, Zenon DEF InputBecomes
  <2>4. /\ h'.pushed = h.pushed /\ SameAcked /\ SameAborted
        /\ h'.dropped = h.dropped \cup {m.id} /\ h'.spliced = h.spliced
    BY <1>h, <2>2 DEF History, SameAcked, SameAborted
  <2>5. s \in Seq(Msg) /\ t \in Seq(Msg) /\ m \in Msg /\ q = (s \o <<m>>) \o t
    <3>1. q \in Seq(Msg) /\ i \in DOMAIN q
      BY <1>s, <2>2
    <3> HIDE DEF q
    <3> QED BY <3>1, TakeOut, Zenon
  <2>6. Core' = Core
    BY <2>1 DEF Core, InHandSeq
  <2> HIDE DEF s, t, m
  <2>7. DropInput(w, s, m, t)
    BY <2>3, <2>4, <2>5, <2>6, Zenon DEF DropInput, q
  <2> QED BY <2>4, <2>5, <2>7, ZenonT(30) DEF Move
<1>3. CASE MoveInputSplice(w)
  <2>1. /\ wait' = Splice(wait, inq[w]) /\ inq' = [inq EXCEPT ![w] = Empty]
        /\ output' = output /\ backlog' = backlog /\ inhand' = inhand /\ h' = h
    BY <1>3 DEF MoveInputSplice, outputVars
  <2>2. SameAcked /\ SameDropped /\ SameAborted /\ h'.pushed = h.pushed
    BY <2>1 DEF SameAcked, SameDropped, SameAborted
  <2>3. InputBecomes(w, <<>>)
    BY <1>t, <2>1 DEF InputBecomes, Empty
  <2>4. Core' = Core \o inq[w].items
    <3> DEFINE b == (backlog.items \o InHandSeq) \o output.items
    <3>1. b \in Seq(Msg)
      <4>1. /\ backlog.items \in Seq(Msg) /\ InHandSeq \in Seq(Msg)
            /\ output.items \in Seq(Msg)
        BY ListTypes, Zenon
      <4> QED BY <4>1, ConcatFacts
    <3>2. wait'.items = wait.items \o inq[w].items
      BY <2>1, Zenon DEF Splice
    <3>3. b' = b
      BY <2>1 DEF InHandSeq
    <3>4. Core' = b' \o wait'.items /\ Core = b \o wait.items
      BY Zenon DEF Core
    <3> HIDE DEF b
    <3>5. (b \o wait.items) \o inq[w].items = b \o (wait.items \o inq[w].items)
      BY <1>s, <3>1, ConcatAssoc3, Zenon
    <3> QED BY <3>2, <3>3, <3>4, <3>5, Zenon
  <2>5. SpliceInput(w)
    BY <2>2, <2>3, <2>4, Zenon DEF SpliceInput
  <2> QED BY <2>1, <2>5, Zenon DEF Move
<1>4. CASE Call(w) \/ RelockWorker(w)
  <2>1. /\ inq' = inq /\ wait' = wait /\ output' = output /\ backlog' = backlog
        /\ inhand' = inhand /\ h' = h
    BY <1>4 DEF Call, RelockWorker, outputVars, inputVars
  <2> QED BY <2>1, QuietStays, Zenon DEF Move
<1>5. CASE MoveInputFinish(w)
  <2>1. Unref /\ inhand' = inhand /\ pc[w] = "finish"
    BY <1>5 DEF MoveInputFinish, outputVars
  <2>2. ASSUME refs = 1 PROVE inhand = NoMsg /\ \A v \in Workers : inq[v] = Empty
    <3>1. cpc = "gone" /\ cb[w]
      BY <1>5, <2>1, <2>2, LastReference, SMT, SMTT(30) DEF Inv, Control
    <3>2. Cardinality(Holders) = 1
      BY <2>2, <3>1, HoldersFacts DEF Inv, RefCount
    <3>3. \A v \in Workers : v # w => ~cb[v]
      <4>1. PICK x : Holders = {x}
        BY <3>2, HoldersFacts, FS_Singleton, Zenon
      <4> QED BY <3>1, <4>1 DEF Holders
    <3>4. \A v \in Workers : inq[v] = Empty
      BY <2>1, <3>3 DEF Inv, Control
    <3> QED BY <3>1, <3>4, SMT, SMTT(30) DEF InHand
  <2>3. CASE refs = 1
    BY <2>1, <2>2, <2>3, UnrefMoves, Zenon DEF Move
  <2>4. CASE refs # 1
    <3>1. inq' = inq /\ wait' = wait /\ output' = output /\ backlog' = backlog /\ h' = h
      BY <2>1, <2>4, SMT, SMTT(30) DEF Unref
    <3> QED BY <2>1, <3>1, QuietStays, Zenon DEF Move
  <2> QED BY <2>3, <2>4
<1> QED BY <1>1, <1>2, <1>3, <1>4, <1>5, SMT, SMTT(30) DEF WorkerStep

\* ... and the output thread and the driver.
LEMMA OutputMoves ==
  ASSUME Inv, InHand, OutputStep \/ TimerWakeup \/ PeekHead \/ RewindBacklogAll
                        \/ RequestExit \/ Release
  PROVE  Move /\ (h.spliced => h'.spliced)
<1>h. h \in History
  BY DEF Inv, TypeOK
<1>s. /\ backlog.items \in Seq(Msg) /\ output.items \in Seq(Msg)
      /\ wait.items \in Seq(Msg)
  BY ListTypes, Zenon
<1>1. CASE \/ Wakeup \/ CheckItemsEmpty \/ CheckItems \/ ThrottleTimeout
           \/ PopThrottled \/ TimerWakeup \/ RequestExit
  <2>1. /\ inq' = inq /\ wait' = wait /\ output' = output /\ backlog' = backlog
        /\ inhand' = inhand /\ h' = h
    BY <1>1 DEF Wakeup, CheckItemsEmpty, CheckItems, ThrottleTimeout, PopThrottled,
                TimerWakeup, RequestExit, inputVars, outputVars
  <2> QED BY <2>1, QuietStays, ZenonT(30) DEF Move
<1>2. CASE PopHead \/ PeekHead
  <2>1. inq' = inq /\ backlog' = backlog /\ inhand' = inhand /\ h' = h
    BY <1>2 DEF PopHead, PeekHead, inputVars
  <2>2. (output.len = 0 /\ MoveWaitToOutput) \/ (wait' = wait /\ output' = output)
    BY <1>2 DEF PopHead, PeekHead
  <2>3. Stay
    BY <2>1, <2>2, QuietStays, MoveWaitStays, Zenon
  <2> QED BY <2>1, <2>3, Zenon DEF Move
<1>3. CASE PopTake
  <2>1. /\ inq' = inq /\ backlog' = backlog /\ wait' = wait /\ h' = h
        /\ inhand' = Head(output.items) /\ output' = DelHead(output)
        /\ cpc = "take"
    BY <1>3 DEF PopTake, inputVars
  <2> DEFINE m == Head(output.items)
             r == Tail(output.items)
  <2>2. m \in Msg /\ r \in Seq(Msg) /\ output.items = <<m>> \o r
    <3>1. output.len > 0
      BY <2>1 DEF Inv, Control
    <3>2. output.items # <<>>
      BY <3>1, <1>s, CQueueNat, EmptyFacts, SMT, SMTT(30) DEF Inv, QueuesCounted
    <3> QED BY <1>s, <3>2, HeadTail, SMT, SMTT(30)
  <2>3. inhand = NoMsg
    BY <2>1 DEF InHand
  <2>4. Core = (backlog.items \o output.items) \o wait.items
    BY <2>3, CoreIdle, Zenon
  <2>5. Core' = ((backlog.items \o <<m>>) \o r) \o wait.items
    <3>1. output'.items = r
      BY <2>1 DEF DelHead
    <3>2. InHandSeq' = <<m>>
      BY <2>1, <2>2, NotNoMsg DEF InHandSeq
    <3>3. Core' = ((backlog'.items \o InHandSeq') \o output'.items) \o wait'.items
      BY Zenon DEF Core
    <3> QED BY <2>1, <3>1, <3>2, <3>3, Zenon
  <2> HIDE DEF m, r
  <2>6. (backlog.items \o <<m>>) \o r = backlog.items \o (<<m>> \o r)
    <3>1. <<m>> \in Seq(Msg)
      BY <2>2, SmallLists
    <3> QED BY <1>s, <2>2, <3>1, ConcatAssoc3, ZenonT(30)
  <2>7. Core' = Core
    BY <2>2, <2>4, <2>5, <2>6, Zenon
  <2>8. Stay
    BY <2>1, <2>7 DEF Stay, SameInputs, SameAcked, SameDropped, SameAborted
  <2> QED BY <2>1, <2>8, Zenon DEF Move
<1>4. CASE PopCount
  <2>1. /\ inq' = inq /\ output' = output /\ wait' = wait /\ h' = h
        /\ inhand' = NoMsg /\ backlog' = AddTail(backlog, inhand) /\ cpc = "count"
    BY <1>4 DEF PopCount, inputVars
  <2>2. inhand \in Msg
    BY <2>1 DEF Inv, Control
  <2>3. InHandSeq = <<inhand>> /\ InHandSeq' = <<>>
    BY <2>1, <2>2, NotNoMsg, SMT, SMTT(30) DEF InHandSeq
  <2>4. backlog'.items = backlog.items \o <<inhand>>
    BY <1>s, <2>1, <2>2, AppendConcat, SMT, SMTT(30) DEF AddTail
  <2>5. (backlog.items \o <<inhand>>) \o <<>> = backlog.items \o <<inhand>>
    <3>1. <<inhand>> \in Seq(Msg)
      BY <2>2, SmallLists
    <3>2. backlog.items \o <<inhand>> \in Seq(Msg)
      BY <1>s, <3>1, ConcatFacts
    <3> QED BY <3>2, ConcatEmpty
  <2>6. Core' = Core
    <3>1. Core' = ((backlog'.items \o InHandSeq') \o output'.items) \o wait'.items
      BY Zenon DEF Core
    <3>2. Core = ((backlog.items \o InHandSeq) \o output.items) \o wait.items
      BY Zenon DEF Core
    <3> QED BY <2>1, <2>3, <2>4, <2>5, <3>1, <3>2, ZenonT(30)
  <2>7. Stay
    BY <2>1, <2>6 DEF Stay, SameInputs, SameAcked, SameDropped, SameAborted
  <2> QED BY <2>1, <2>7, Zenon DEF Move
<1>5. ASSUME NEW g, g \in {[h EXCEPT !.rewinds = @ + 1], [h EXCEPT !.stops = @ + 1], h},
             h' = NoteRewindAll(g), RewindAll, inhand = NoMsg, inhand' = inhand,
             wait' = wait, inq' = inq
      PROVE  Move /\ (h.spliced => h'.spliced)
  <2>1. /\ g \in History /\ g.pushed = h.pushed /\ g.acked = h.acked
        /\ g.dropped = h.dropped /\ g.aborted = h.aborted /\ g.spliced = h.spliced
    <3>1. g \in History
      BY <1>h, <1>5, HistorySteps, Zenon
    <3>2. /\ g.pushed = h.pushed /\ g.acked = h.acked
          /\ g.dropped = h.dropped /\ g.aborted = h.aborted /\ g.spliced = h.spliced
      BY <1>h, <1>5 DEF History
    <3> QED BY <3>1, <3>2, SMT, SMTT(30)
  <2> QED BY <2>1, <1>5, RewindAllMoves, Zenon DEF Move
<1>6. CASE RewindBacklogAll
  <2>1. /\ RewindAll /\ wait' = wait /\ inq' = inq /\ inhand' = inhand /\ cpc = "work"
        /\ h' = NoteRewindAll([h EXCEPT !.rewinds = @ + 1])
    BY <1>6 DEF RewindBacklogAll, inputVars, outputVars
  <2>2. inhand = NoMsg
    BY <2>1 DEF InHand
  <2> QED BY <2>1, <2>2, <1>5
<1>7. CASE Stop
  <2>1. /\ RewindAll /\ wait' = wait /\ inq' = inq /\ inhand' = inhand
        /\ cpc \in {"asleep", "awake", "throttled"}
        /\ h' = NoteRewindAll([h EXCEPT !.stops = @ + 1])
    BY <1>7 DEF Stop, inputVars
  <2>2. inhand = NoMsg
    BY <2>1 DEF InHand
  <2> QED BY <2>1, <2>2, <1>5
<1>8. CASE Restart
  <2>1. /\ RewindAll /\ wait' = wait /\ inq' = inq /\ inhand' = inhand
        /\ cpc = "stopped" /\ h' = NoteRewindAll(h)
    BY <1>8 DEF Restart, inputVars
  <2>2. inhand = NoMsg
    BY <2>1 DEF InHand
  <2> QED BY <2>1, <2>2, <1>5
<1>9. CASE Release
  <2>1. Unref /\ inhand' = inhand /\ cpc = "stopped"
    BY <1>9 DEF Release
  <2>2. inhand = NoMsg
    BY <2>1 DEF InHand
  <2>3. ASSUME refs = 1 PROVE \A v \in Workers : inq[v] = Empty
    <3>1. Cardinality(Holders) = 0
      BY <2>1, <2>3, HoldersFacts DEF Inv, RefCount
    <3>2. Holders = {}
      BY <3>1, HoldersFacts, FS_EmptySet
    <3> QED BY <3>2 DEF Holders, Inv, Control
  <2> QED BY <2>1, <2>2, <2>3, UnrefMoves, Zenon DEF Move
<1> QED BY <1>1, <1>2, <1>3, <1>4, <1>6, <1>7, <1>8, <1>9, SMT, SMTT(30) DEF OutputStep

\* Acking and rewinding part of the backlog.
LEMMA BacklogMoves ==
  ASSUME Inv, InHand, NEW n \in 1..(MaxMsgs + 1), AckBacklog(n) \/ RewindBacklog(n)
  PROVE  Move /\ h'.spliced = h.spliced
<1>h. h \in History
  BY DEF Inv, TypeOK
<1>s. /\ backlog.items \in Seq(Msg) /\ output.items \in Seq(Msg)
      /\ wait.items \in Seq(Msg)
      /\ backlog.len = Len(backlog.items) /\ backlog.len \in Nat /\ n \in Nat
  <2>1. backlog \in CQueue
    BY DEF Inv, QueuesCounted
  <2>2. backlog.len = Len(backlog.items) /\ backlog.len \in Nat
    BY <2>1, CQueueNat, Zenon
  <2> QED BY <2>2, ListTypes
<1>i. inhand = NoMsg /\ inhand' = inhand /\ inq' = inq /\ wait' = wait
  <2>1. cpc = "work" /\ inhand' = inhand /\ inq' = inq /\ wait' = wait
    BY DEF AckBacklog, RewindBacklog, inputVars, outputVars
  <2> QED BY <2>1 DEF InHand
<1> DEFINE k == Min2(n, backlog.len)
<1>k. k \in 0..Len(backlog.items)
  BY <1>s DEF Min2
<1>c. /\ Core = (backlog.items \o output.items) \o wait.items
      /\ Core' = ((backlog'.items \o <<>>) \o output'.items) \o wait.items
  <2>1. Core = (backlog.items \o output.items) \o wait.items
    BY <1>i, CoreIdle, Zenon
  <2>2. InHandSeq' = <<>>
    BY <1>i DEF InHandSeq
  <2>3. Core' = ((backlog'.items \o InHandSeq') \o output'.items) \o wait'.items
    BY Zenon DEF Core
  <2> QED BY <1>i, <2>1, <2>2, <2>3, Zenon
<1>1. CASE AckBacklog(n)
  <2> DEFINE x == SubSeq(backlog.items, 1, k)
             y == SubSeq(backlog.items, k + 1, Len(backlog.items))
  <2>1. backlog'.items = y /\ output' = output /\ h' = [h EXCEPT !.acked = @ \cup Ids(x)]
    BY <1>1, Zenon DEF AckBacklog
  <2>2. x \in Seq(Msg) /\ y \in Seq(Msg) /\ backlog.items = x \o y
    BY <1>s, <1>k, CutSeq, Zenon
  <2> HIDE DEF x, y
  <2>3. /\ h'.acked = h.acked \cup Ids(x) /\ h'.pushed = h.pushed
        /\ h'.dropped = h.dropped /\ h'.aborted = h.aborted /\ h'.spliced = h.spliced
    BY <1>h, <2>1 DEF History
  <2>4. Core' = (y \o output.items) \o wait.items
    <3>1. y \o <<>> = y
      BY <2>2, ConcatEmpty
    <3> QED BY <1>c, <2>1, <3>1, Zenon
  <2>5. Core = x \o Core'
    <3>1. (x \o y) \o output.items = x \o (y \o output.items)
      BY <1>s, <2>2, ConcatAssoc3, ZenonT(30)
    <3>2. x \in Seq(Msg) /\ y \o output.items \in Seq(Msg) /\ wait.items \in Seq(Msg)
      BY <1>s, <2>2, ConcatFacts
    <3>3. (x \o (y \o output.items)) \o wait.items = x \o ((y \o output.items) \o wait.items)
      BY <3>2, ConcatAssoc3, ZenonT(30)
    <3> QED BY <1>c, <2>2, <2>4, <3>1, <3>3, Zenon
  <2>c. Core' \in Seq(Msg)
    BY <1>s, <2>2, <2>4, ConcatFacts
  <2>6. AckOldest(x)
    BY <1>i, <2>3, <2>5, <2>c, Zenon DEF AckOldest, SameInputs, SameDropped, SameAborted
  <2> QED BY <2>2, <2>3, <2>6, Zenon DEF Move
<1>2. CASE RewindBacklog(n)
  <2> DEFINE keep == Len(backlog.items) - k
             x == SubSeq(backlog.items, 1, keep)
             y == SubSeq(backlog.items, keep + 1, Len(backlog.items))
  <2>1. /\ backlog'.items = x /\ output'.items = y \o output.items
        /\ h' = [h EXCEPT !.rewinds = @ + 1, !.rewound = @ + NfcCount(y)]
    BY <1>2, Zenon DEF RewindBacklog, PutBack
  <2>2. x \in Seq(Msg) /\ y \in Seq(Msg) /\ backlog.items = x \o y
    <3>1. keep \in 0..Len(backlog.items)
      BY <1>s, <1>k
    <3> HIDE DEF keep
    <3> QED BY <1>s, <3>1, CutSeq, Zenon
  <2> HIDE DEF x, y
  <2>3. /\ h'.acked = h.acked /\ h'.pushed = h.pushed
        /\ h'.dropped = h.dropped /\ h'.aborted = h.aborted /\ h'.spliced = h.spliced
    BY <1>h, <2>1 DEF History
  <2>4. Core' = Core
    <3>1. x \o <<>> = x
      BY <2>2, ConcatEmpty, SMT, SMTT(30)
    <3>2. (x \o y) \o output.items = x \o (y \o output.items)
      BY <1>s, <2>2, ConcatAssoc3, ZenonT(30)
    <3>3. Core = ((x \o y) \o output.items) \o wait.items
      BY <1>c, <2>2, Zenon
    <3>4. Core' = (x \o (y \o output.items)) \o wait.items
      BY <1>c, <2>1, <3>1, Zenon
    <3> QED BY <3>2, <3>3, <3>4, Zenon
  <2>5. Stay
    BY <1>i, <2>3, <2>4, Zenon DEF Stay, SameInputs, SameAcked, SameDropped, SameAborted
  <2> QED BY <2>3, <2>5, ZenonT(30) DEF Move
<1> QED BY <1>1, <1>2

\* Every step is one of these moves, and rewind_backlog_all on a queue with
\* pending output is never forgotten.
LEMMA StepMoves ==
  ASSUME Inv, InHand, [Next]_vars
  PROVE  Move /\ (h.spliced => h'.spliced)
<1>1. ASSUME NEW w \in Workers, NEW fc \in BOOLEAN, PushFast(w, fc)
      PROVE  Move /\ (h.spliced => h'.spliced)
  BY <1>1, PushMoves, Zenon
<1>2. ASSUME NEW f \in Feeders, NEW fc \in BOOLEAN, PushSlow(f, fc) \/ PushSlowDrop(f, fc)
      PROVE  Move /\ (h.spliced => h'.spliced)
  BY <1>2, PushMoves, Zenon
<1>3. ASSUME NEW w \in Workers, WorkerStep(w)
      PROVE  Move /\ (h.spliced => h'.spliced)
  BY <1>3, BatchMoves, Zenon
<1>4. ASSUME NEW f \in Feeders, FeederStep(f)
      PROVE  Move /\ (h.spliced => h'.spliced)
  <2>1. /\ inq' = inq /\ wait' = wait /\ output' = output /\ backlog' = backlog
        /\ inhand' = inhand /\ h' = h
    BY <1>4 DEF FeederStep, Call, RelockFeeder, inputVars, outputVars
  <2> QED BY <2>1, QuietStays, Zenon DEF Move
<1>5. CASE OutputStep \/ TimerWakeup \/ PeekHead \/ RewindBacklogAll \/ RequestExit \/ Release
  BY <1>5, OutputMoves, Zenon
<1>6. ASSUME NEW n \in 1..(MaxMsgs + 1), AckBacklog(n) \/ RewindBacklog(n)
      PROVE  Move /\ (h.spliced => h'.spliced)
  BY <1>6, BacklogMoves, Zenon
<1>7. CASE UNCHANGED vars
  <2>1. /\ inq' = inq /\ wait' = wait /\ output' = output /\ backlog' = backlog
        /\ inhand' = inhand /\ h' = h
    BY <1>7 DEF vars, inputVars, outputVars
  <2> QED BY <2>1, QuietStays, Zenon DEF Move
<1> QED BY <1>1, <1>2, <1>3, <1>4, <1>5, <1>6, <1>7, ZenonT(30) DEF Next

\* Only between unlinking a message and putting it on the backlog does
\* pop_head hold one.
LEMMA InHandStep ==
  ASSUME Inv, InHand, [Next]_vars
  PROVE  InHand'
<1>1. CASE \E w \in Workers, fc \in BOOLEAN : PushFast(w, fc)
  BY <1>1 DEF PushFast, InHand, outputVars
<1>2. CASE \E f \in Feeders, fc \in BOOLEAN : PushSlow(f, fc) \/ PushSlowDrop(f, fc)
  BY <1>2 DEF PushSlow, PushSlowDrop, InHand, outputVars
<1>3. CASE \E w \in Workers : WorkerStep(w)
  <2>1. PICK w \in Workers : WorkerStep(w)
    BY <1>3, SMT, SMTT(30)
  <2>2. cpc' = cpc /\ inhand' = inhand
    BY <2>1 DEF WorkerStep, MoveInput, DropOne, MoveInputSplice, Call, RelockWorker,
                MoveInputFinish, outputVars
  <2> QED BY <2>2 DEF InHand
<1>4. CASE \E f \in Feeders : FeederStep(f)
  BY <1>4 DEF FeederStep, Call, RelockFeeder, InHand, outputVars
<1>5. CASE OutputStep
  BY <1>5 DEF OutputStep, Wakeup, CheckItemsEmpty, CheckItems, ThrottleTimeout,
              PopThrottled, PopHead, PopTake, PopCount, Stop, Restart, InHand
<1>6. CASE TimerWakeup \/ PeekHead \/ RewindBacklogAll \/ RequestExit \/ Release
  BY <1>6 DEF TimerWakeup, PeekHead, RewindBacklogAll, RequestExit, Release, InHand,
              outputVars
<1>7. CASE \E n \in 1..(MaxMsgs + 1) : AckBacklog(n) \/ RewindBacklog(n)
  BY <1>7 DEF AckBacklog, RewindBacklog, InHand, outputVars
<1>8. CASE UNCHANGED vars
  BY <1>8 DEF vars, InHand, outputVars
<1> QED BY <1>1, <1>2, <1>3, <1>4, <1>5, <1>6, <1>7, <1>8, SMT, SMTT(30) DEF Next

-----------------------------------------------------------------------------
(* Every message is at one place.                                          *)

Held == [w \in Workers |-> Ids(inq[w].items)]

Total == Len(Core) + Cardinality(InputPairs(inq)) + Cardinality(h.acked)
         + Cardinality(h.dropped) + Cardinality(h.aborted)

\* The ids are spread over the places, no list holds one twice, and so the
\* sizes of the places add up.
PlacesInv ==
  /\ Ledger(h.pushed, Ids(Core), Held, h.acked, h.dropped, h.aborted)
  /\ Distinct(Core) /\ \A w \in Workers : Distinct(inq[w].items)
  /\ h.pushed <= MaxMsgs /\ \A w \in Workers : Len(inq[w].items) <= h.pushed
  /\ IsFiniteSet(h.acked) /\ IsFiniteSet(h.dropped) /\ IsFiniteSet(h.aborted)
  /\ h.pushed = Total

\* The numbers are natural numbers.
LEMMA SizesNat ==
  ASSUME Inv, InHand, PlacesInv
  PROVE  /\ h.pushed \in Nat /\ Len(Core) \in Nat
         /\ Cardinality(InputPairs(inq)) \in Nat
         /\ Cardinality(h.acked) \in Nat /\ Cardinality(h.dropped) \in Nat
         /\ Cardinality(h.aborted) \in Nat
         /\ \A w \in Workers : Len(inq[w].items) \in 0..MaxMsgs
<1>1. h.pushed \in Nat /\ Core \in Seq(Msg) /\ \A w \in Workers : inq[w].items \in Seq(Msg)
  BY ListTypes, Zenon
<1>2. Len(Core) \in Nat
  BY <1>1, LenFacts
<1>3. Cardinality(InputPairs(inq)) \in Nat
  BY InputPairsFinite, SMT, SMTT(30)
<1>4. /\ Cardinality(h.acked) \in Nat /\ Cardinality(h.dropped) \in Nat
      /\ Cardinality(h.aborted) \in Nat
  BY FS_CardinalityType DEF PlacesInv
<1>5. \A w \in Workers : Len(inq[w].items) \in 0..MaxMsgs
  <2> TAKE w \in Workers
  <2>1. Len(inq[w].items) \in Nat
    BY <1>1, LenFacts
  <2>2. Len(inq[w].items) <= h.pushed /\ h.pushed <= MaxMsgs
    BY Zenon DEF PlacesInv
  <2> QED BY <1>1, <2>1, <2>2, FifoAssumption, SMT, SMTT(30)
<1> QED BY <1>1, <1>2, <1>3, <1>4, <1>5, Zenon

\* The size of the input queues does not change when their lists do not.
LEMMA SameInputPairs ==
  ASSUME SameInputs
  PROVE  Held' = Held /\ InputPairs(inq') = InputPairs(inq)
BY DEF SameInputs, Held, InputPairs

\* A new message in the wait queue, or one that is dropped.
LEMMA PlacesPush ==
  ASSUME Inv, InHand, PlacesInv,
         PushNowhere \/ \E m \in Msg : PushWait(m)
  PROVE  PlacesInv'
<1>t. Core \in Seq(Msg)
  BY ListTypes, Zenon
<1>n. /\ h.pushed \in Nat /\ Len(Core) \in Nat
      /\ Cardinality(InputPairs(inq)) \in Nat
      /\ Cardinality(h.acked) \in Nat /\ Cardinality(h.dropped) \in Nat
      /\ Cardinality(h.aborted) \in Nat
      /\ \A w \in Workers : Len(inq[w].items) \in 0..MaxMsgs
  BY SizesNat, Zenon
<1>p. /\ h'.pushed = h.pushed + 1 /\ h.pushed < MaxMsgs /\ SameInputs
      /\ h'.acked = h.acked /\ h'.aborted = h.aborted
  BY Zenon DEF PushNowhere, PushWait, Pushed, SameAcked, SameAborted
<1>i. Held' = Held /\ InputPairs(inq') = InputPairs(inq)
  BY <1>p, SameInputPairs, Zenon
<1>l. Ledger(h.pushed, Ids(Core), Held, h.acked, h.dropped, h.aborted)
  BY DEF PlacesInv
<1>x. /\ h.pushed + 1 \notin Ids(Core) /\ h.pushed + 1 \notin h.dropped
  BY <1>n, <1>l, NextIdIsNew, Zenon DEF Ledger
<1>b. /\ h'.pushed <= MaxMsgs /\ \A w \in Workers : Len(inq'[w].items) <= h'.pushed
      /\ \A w \in Workers : Distinct(inq'[w].items)
  <2>1. h'.pushed <= MaxMsgs
    BY <1>n, <1>p, FifoAssumption
  <2>2. \A w \in Workers : Len(inq'[w].items) <= h'.pushed
    <3> TAKE w \in Workers
    <3>1. inq'[w].items = inq[w].items /\ Len(inq[w].items) <= h.pushed
      BY <1>p, Zenon DEF SameInputs, PlacesInv
    <3>2. Len(inq[w].items) \in Int
      BY <1>n
    <3>3. Len(inq[w].items) <= h.pushed + 1
      BY <1>n, <3>1, <3>2
    <3> QED BY <1>p, <3>1, <3>3, Zenon
  <2>3. \A w \in Workers : Distinct(inq'[w].items)
    BY <1>p, Zenon DEF SameInputs, PlacesInv
  <2> QED BY <2>1, <2>2, <2>3, SMT, SMTT(30)
<1>s. h.pushed = Len(Core) + Cardinality(InputPairs(inq)) + Cardinality(h.acked)
                 + Cardinality(h.dropped) + Cardinality(h.aborted)
  BY Zenon DEF PlacesInv, Total
<1>f. IsFiniteSet(h.acked) /\ IsFiniteSet(h.dropped) /\ IsFiniteSet(h.aborted)
  BY DEF PlacesInv
<1>1. CASE PushNowhere
  <2>1. Core' = Core /\ h'.dropped = h.dropped \cup {h.pushed + 1}
    BY <1>1 DEF PushNowhere
  <2>2. Ledger(h'.pushed, Ids(Core'), Held', h'.acked, h'.dropped, h'.aborted)
    <3>1. Ledger(h.pushed + 1, Ids(Core), Held, h.acked, h.dropped \cup {h.pushed + 1},
                 h.aborted)
      BY <1>n, <1>l, LedgerPush, Zenon
    <3> QED BY <1>p, <1>i, <2>1, <3>1, Zenon
  <2>3. /\ IsFiniteSet(h'.dropped)
        /\ Cardinality(h'.dropped) = Cardinality(h.dropped) + 1
    BY <1>f, <1>x, <2>1, FS_AddElement, SMT, SMTT(30)
  <2>4. h'.pushed = Total'
    <3>1. h.pushed + 1 = Len(Core) + Cardinality(InputPairs(inq)) + Cardinality(h.acked)
                         + (Cardinality(h.dropped) + 1) + Cardinality(h.aborted)
      BY <1>n, <1>s, SMT, SMTT(30)
    <3> QED BY <1>p, <1>i, <2>1, <2>3, <3>1, Zenon DEF Total
  <2>5. Distinct(Core')
    BY <2>1, Zenon DEF PlacesInv
  <2> QED BY <1>p, <1>b, <1>f, <2>2, <2>3, <2>4, <2>5, ZenonT(30) DEF PlacesInv
<1>2. ASSUME NEW m \in Msg, PushWait(m) PROVE PlacesInv'
  <2>1. Core' = Core \o <<m>> /\ h'.dropped = h.dropped /\ m.id = h.pushed + 1
    BY <1>2 DEF PushWait, SameDropped
  <2>2. <<m>> \in Seq(Msg) /\ Len(<<m>>) = 1 /\ Ids(<<m>>) = {m.id} /\ Distinct(<<m>>)
    BY SmallLists, Zenon
  <2>3. /\ Len(Core') = Len(Core) + 1
    BY <1>t, <2>1, <2>2, ConcatFacts, SMT, SMTT(30)
  <2>4. Ids(Core') = Ids(Core) \cup {h.pushed + 1}
    BY <1>t, <2>1, <2>2, IdsConcat, ZenonT(30)
  <2>5. Ledger(h'.pushed, Ids(Core'), Held', h'.acked, h'.dropped, h'.aborted)
    <3>1. Ledger(h.pushed + 1, Ids(Core) \cup {h.pushed + 1}, Held, h.acked, h.dropped,
                 h.aborted)
      BY <1>n, <1>l, LedgerPush, Zenon
    <3> QED BY <1>p, <1>i, <2>1, <2>4, <3>1, ZenonT(30)
  <2>6. h'.pushed = Total'
    <3>1. h.pushed + 1 = (Len(Core) + 1) + Cardinality(InputPairs(inq))
                         + Cardinality(h.acked) + Cardinality(h.dropped)
                         + Cardinality(h.aborted)
      BY <1>n, <1>s, SMT, SMTT(30)
    <3> QED BY <1>p, <1>i, <2>1, <2>3, <3>1, ZenonT(30) DEF Total
  <2>7. Distinct(Core')
    <3>1. Distinct(Core)
      BY SMT, SMTT(30) DEF PlacesInv
    <3>2. Ids(Core) \cap Ids(<<m>>) = {}
      BY <1>x, <2>1, <2>2, SMT, SMTT(30)
    <3> QED BY <1>t, <2>1, <2>2, <3>1, <3>2, DistinctConcat, ZenonT(30)
  <2> QED BY <1>p, <1>b, <1>f, <2>1, <2>5, <2>6, <2>7, ZenonT(30) DEF PlacesInv
<1> QED BY <1>1, <1>2, Zenon

\* When one input list changes, the others stay and the total follows its length.
LEMMA InputChange ==
  ASSUME Inv, InHand, PlacesInv, NEW w \in Workers, NEW q \in Seq(Msg),
         InputBecomes(w, q), Len(q) <= h'.pushed, h'.pushed \in Nat,
         h'.pushed <= MaxMsgs, h.pushed <= h'.pushed, Distinct(q)
  PROVE  /\ Cardinality(InputPairs(inq')) =
              Cardinality(InputPairs(inq)) + Len(q) - Len(inq[w].items)
         /\ \A v \in Workers : Len(inq'[v].items) <= h'.pushed
         /\ \A v \in Workers : Distinct(inq'[v].items)
         /\ \A v \in Workers : v # w => Held'[v] = Held[v]
         /\ Held'[w] = Ids(q)
         /\ Len(q) \in Nat /\ Len(inq[w].items) \in Nat
<1>n. /\ h.pushed \in Nat /\ Len(Core) \in Nat
      /\ Cardinality(InputPairs(inq)) \in Nat
      /\ Cardinality(h.acked) \in Nat /\ Cardinality(h.dropped) \in Nat
      /\ Cardinality(h.aborted) \in Nat
      /\ \A v \in Workers : Len(inq[v].items) \in 0..MaxMsgs
  BY SizesNat, ZenonT(30)
<1>l. /\ Ledger(h.pushed, Ids(Core), Held, h.acked, h.dropped, h.aborted)
      /\ Distinct(Core) /\ \A v \in Workers : Distinct(inq[v].items)
      /\ h.pushed <= MaxMsgs /\ \A v \in Workers : Len(inq[v].items) <= h.pushed
      /\ IsFiniteSet(h.acked) /\ IsFiniteSet(h.dropped) /\ IsFiniteSet(h.aborted)
  BY SMT, SMTT(30) DEF PlacesInv
<1>h. /\ \A v \in Workers : Held[v] = Ids(inq[v].items)
      /\ \A v \in Workers : Held'[v] = Ids(inq'[v].items)
  BY DEF Held
<1>1. inq'[w].items = q /\ \A v \in Workers : v # w => inq'[v].items = inq[v].items
  BY DEF InputBecomes
<1>2. Len(q) \in 0..MaxMsgs /\ Len(q) \in Nat
  BY LenFacts, FifoAssumption
<1>3. Cardinality(InputPairs(inq')) =
        Cardinality(InputPairs(inq)) + Len(inq'[w].items) - Len(inq[w].items)
  BY <1>n, <1>1, <1>2, InputPairsChange, ZenonT(30)
<1>4. ASSUME NEW v \in Workers PROVE Len(inq'[v].items) <= h'.pushed
  <2>1. CASE v = w
    BY <1>1, <2>1, Zenon
  <2>2. CASE v # w
    <3>1. Len(inq[v].items) <= h.pushed /\ Len(inq[v].items) \in Int
      BY <1>l, <1>n, SMT, SMTT(30)
    <3>2. Len(inq[v].items) <= h'.pushed
      BY <1>n, <3>1
    <3> QED BY <1>1, <2>2, <3>2, ZenonT(30)
  <2> QED BY <2>1, <2>2
<1>5. \A v \in Workers : Distinct(inq'[v].items)
  BY <1>l, <1>1, Zenon
<1>6. \A v \in Workers : v # w => Held'[v] = Held[v]
  BY <1>h, <1>1, Zenon
<1>7. Len(inq[w].items) \in Nat
  BY <1>n
<1> QED BY <1>h, <1>1, <1>2, <1>3, <1>4, <1>5, <1>6, <1>7, ZenonT(30)

\* A message is pushed to an input list.
LEMMA PlacesPushInput ==
  ASSUME Inv, InHand, PlacesInv, NEW w \in Workers,
         NEW m \in Msg, PushInput(w, m)
  PROVE  PlacesInv'
<1>t. Core \in Seq(Msg) /\ \A v \in Workers : inq[v].items \in Seq(Msg)
  BY ListTypes, Zenon
<1>n. /\ h.pushed \in Nat /\ Len(Core) \in Nat
      /\ Cardinality(InputPairs(inq)) \in Nat
      /\ Cardinality(h.acked) \in Nat /\ Cardinality(h.dropped) \in Nat
      /\ Cardinality(h.aborted) \in Nat
      /\ \A v \in Workers : Len(inq[v].items) \in 0..MaxMsgs
  BY SizesNat, ZenonT(30)
<1>l. /\ Ledger(h.pushed, Ids(Core), Held, h.acked, h.dropped, h.aborted)
      /\ Distinct(Core) /\ \A v \in Workers : Distinct(inq[v].items)
      /\ h.pushed <= MaxMsgs /\ \A v \in Workers : Len(inq[v].items) <= h.pushed
      /\ IsFiniteSet(h.acked) /\ IsFiniteSet(h.dropped) /\ IsFiniteSet(h.aborted)
  BY SMT, SMTT(30) DEF PlacesInv
<1>m. /\ h.pushed \in Nat /\ Len(Core) \in Nat /\ h.pushed <= MaxMsgs
      /\ Cardinality(InputPairs(inq)) \in Nat
      /\ Cardinality(h.acked) \in Nat /\ Cardinality(h.dropped) \in Nat
      /\ Cardinality(h.aborted) \in Nat
  BY <1>n, <1>l
<1>s. h.pushed = Len(Core) + Cardinality(InputPairs(inq)) + Cardinality(h.acked)
                 + Cardinality(h.dropped) + Cardinality(h.aborted)
  BY Zenon DEF PlacesInv, Total
<1>a. h'.acked = h.acked /\ h'.aborted = h.aborted
  BY SMT, SMTT(30) DEF PushInput, SameAcked, SameAborted
<1>h. /\ \A v \in Workers : Held[v] = Ids(inq[v].items)
      /\ \A v \in Workers : Held'[v] = Ids(inq'[v].items)
  BY DEF Held
<1> DEFINE q == inq[w].items \o <<m>>
<1>1. /\ m.id = h.pushed + 1 /\ h'.pushed = h.pushed + 1 /\ h.pushed < MaxMsgs
      /\ Core' = Core /\ InputBecomes(w, q) /\ h'.dropped = h.dropped
  BY DEF PushInput, Pushed, SameDropped
<1>2. <<m>> \in Seq(Msg) /\ Len(<<m>>) = 1 /\ Ids(<<m>>) = {m.id} /\ Distinct(<<m>>)
  BY SmallLists, Zenon
<1>3. q \in Seq(Msg) /\ Len(q) = Len(inq[w].items) + 1
  BY <1>t, <1>2, ConcatFacts, SMT, SMTT(30)
<1>4. Ids(q) = Held[w] \cup {h.pushed + 1}
  <2>1. Ids(q) = Ids(inq[w].items) \cup Ids(<<m>>)
    BY <1>t, <1>2, IdsConcat, Zenon
  <2> QED BY <1>h, <1>1, <1>2, <2>1, Zenon
<1>5. Distinct(q)
  <2>1. h.pushed + 1 \notin Held[w]
    BY <1>n, <1>l, NextIdIsNew, ZenonT(30) DEF Ledger
  <2>2. Ids(inq[w].items) \cap Ids(<<m>>) = {}
    BY <1>h, <1>1, <1>2, <2>1, SMT, SMTT(30)
  <2> QED BY <1>t, <1>l, <1>2, <2>2, DistinctConcat, ZenonT(30)
<1> HIDE DEF q
<1>6. /\ Len(q) <= h'.pushed /\ h'.pushed \in Nat /\ h'.pushed <= MaxMsgs
      /\ h.pushed <= h'.pushed
  <2>1. Len(inq[w].items) <= h.pushed /\ Len(inq[w].items) \in Int
    BY <1>l, <1>n, SMT, SMTT(30)
  <2>2. h'.pushed = h.pushed + 1 /\ h.pushed < MaxMsgs
    BY <1>1
  <2>3. Len(q) = Len(inq[w].items) + 1
    BY <1>3, SMT, SMTT(30)
  <2>4. h.pushed \in Nat /\ MaxMsgs \in Nat
    BY <1>m, FifoAssumption, SMT, SMTT(30)
  <2>5. Len(q) <= h.pushed + 1 /\ h.pushed + 1 \in Nat /\ h.pushed <= h.pushed + 1
    BY <2>1, <2>3, <2>4, SMT, SMTT(30)
  <2>6. h.pushed + 1 <= MaxMsgs
    BY <2>2, <2>4
  <2> QED BY <2>2, <2>5, <2>6, ZenonT(30)
<1>7. /\ Cardinality(InputPairs(inq')) =
           Cardinality(InputPairs(inq)) + Len(q) - Len(inq[w].items)
      /\ \A v \in Workers : Len(inq'[v].items) <= h'.pushed
      /\ \A v \in Workers : Distinct(inq'[v].items)
      /\ \A v \in Workers : v # w => Held'[v] = Held[v]
      /\ Held'[w] = Ids(q)
      /\ Len(inq[w].items) \in Nat
  BY InputChange, <1>1, <1>3, <1>5, <1>6, ZenonT(30)
<1>8. Ledger(h'.pushed, Ids(Core'), Held', h'.acked, h'.dropped, h'.aborted)
  <2>1. Held'[w] = Held[w] \cup {h.pushed + 1}
    BY <1>4, <1>7, Zenon
  <2>2. Ledger(h.pushed + 1, Ids(Core), Held', h.acked, h.dropped, h.aborted)
    BY <1>n, <1>l, <1>7, <2>1, LedgerPush, ZenonT(30)
  <2> QED BY <1>a, <1>1, <2>2, Zenon
<1>9. h'.pushed = Total'
  <2>1. Cardinality(InputPairs(inq')) = Cardinality(InputPairs(inq)) + 1
    BY <1>n, <1>3, <1>7, SMT, SMTT(30)
  <2>2. h.pushed + 1 = Len(Core) + (Cardinality(InputPairs(inq)) + 1)
                       + Cardinality(h.acked) + Cardinality(h.dropped)
                       + Cardinality(h.aborted)
    BY <1>m, <1>s, SMT, SMTT(30)
  <2> QED BY <1>a, <1>1, <2>1, <2>2, ZenonT(30) DEF Total
<1> QED BY <1>a, <1>l, <1>1, <1>6, <1>7, <1>8, <1>9, ZenonT(30) DEF PlacesInv

\* A message is dropped out of an input list.
LEMMA PlacesDropInput ==
  ASSUME Inv, InHand, PlacesInv, NEW w \in Workers,
         NEW m \in Msg, NEW s \in Seq(Msg), NEW t \in Seq(Msg), DropInput(w, s, m, t)
  PROVE  PlacesInv'
<1>t. Core \in Seq(Msg) /\ \A v \in Workers : inq[v].items \in Seq(Msg)
  BY ListTypes, Zenon
<1>n. /\ h.pushed \in Nat /\ Len(Core) \in Nat
      /\ Cardinality(InputPairs(inq)) \in Nat
      /\ Cardinality(h.acked) \in Nat /\ Cardinality(h.dropped) \in Nat
      /\ Cardinality(h.aborted) \in Nat
      /\ \A v \in Workers : Len(inq[v].items) \in 0..MaxMsgs
  BY SizesNat, ZenonT(30)
<1>l. /\ Ledger(h.pushed, Ids(Core), Held, h.acked, h.dropped, h.aborted)
      /\ Distinct(Core) /\ \A v \in Workers : Distinct(inq[v].items)
      /\ h.pushed <= MaxMsgs /\ \A v \in Workers : Len(inq[v].items) <= h.pushed
      /\ IsFiniteSet(h.acked) /\ IsFiniteSet(h.dropped) /\ IsFiniteSet(h.aborted)
  BY SMT, SMTT(30) DEF PlacesInv
<1>g. Ledger(h.pushed, Ids(Core), Held, h.acked, h.dropped, h.aborted)
  BY <1>l, SMT, SMTT(30)
<1>m. /\ h.pushed \in Nat /\ Len(Core) \in Nat /\ h.pushed <= MaxMsgs
      /\ Cardinality(InputPairs(inq)) \in Nat
      /\ Cardinality(h.acked) \in Nat /\ Cardinality(h.dropped) \in Nat
      /\ Cardinality(h.aborted) \in Nat
  BY <1>n, <1>l
<1>s. h.pushed = Len(Core) + Cardinality(InputPairs(inq)) + Cardinality(h.acked)
                 + Cardinality(h.dropped) + Cardinality(h.aborted)
  BY Zenon DEF PlacesInv, Total
<1>a. h'.acked = h.acked /\ h'.aborted = h.aborted
  BY SMT, SMTT(30) DEF DropInput, SameAcked, SameAborted
<1>h. /\ \A v \in Workers : Held[v] = Ids(inq[v].items)
      /\ \A v \in Workers : Held'[v] = Ids(inq'[v].items)
  BY DEF Held
<1>1. /\ inq[w].items = (s \o <<m>>) \o t /\ InputBecomes(w, s \o t)
      /\ Core' = Core /\ h'.pushed = h.pushed /\ h'.dropped = h.dropped \cup {m.id}
  BY DEF DropInput
<1>2. <<m>> \in Seq(Msg) /\ Len(<<m>>) = 1 /\ Ids(<<m>>) = {m.id}
  BY SmallLists, Zenon
<1>3. s \o t \in Seq(Msg) /\ s \o <<m>> \in Seq(Msg)
  BY <1>2, ConcatFacts, SMT, SMTT(30)
<1>4. Len(inq[w].items) = Len(s \o t) + 1
  <2>1. Len((s \o <<m>>) \o t) = Len(s \o <<m>>) + Len(t) /\ Len(s \o t) = Len(s) + Len(t)
    BY <1>3, ConcatFacts, SMT, SMTT(30)
  <2>2. Len(s \o <<m>>) = Len(s) + 1
    BY <1>2, ConcatFacts
  <2>3. Len(s) \in Nat /\ Len(t) \in Nat
    BY LenFacts, SMT, SMTT(30)
  <2> QED BY <1>1, <2>1, <2>2, <2>3, SMT, SMTT(30)
<1>5. /\ Distinct(s) /\ Distinct(t) /\ Ids(s) \cap Ids(t) = {}
      /\ m.id \notin Ids(s) /\ m.id \notin Ids(t)
      /\ Held[w] = Ids(s) \cup Ids(t) \cup {m.id}
  <2>1. Distinct((s \o <<m>>) \o t)
    BY <1>l, <1>1, Zenon
  <2>2. Distinct(s \o <<m>>) /\ Distinct(t) /\ Ids(s \o <<m>>) \cap Ids(t) = {}
    BY <1>3, <2>1, DistinctConcat, Zenon
  <2>3. Distinct(s) /\ Ids(s) \cap Ids(<<m>>) = {}
    BY <1>2, <2>2, DistinctConcat, Zenon
  <2>4. Ids(s \o <<m>>) = Ids(s) \cup {m.id}
    BY <1>2, IdsConcat, ZenonT(30)
  <2>5. Ids((s \o <<m>>) \o t) = Ids(s \o <<m>>) \cup Ids(t)
    BY <1>3, IdsConcat, Zenon
  <2>6. Held[w] = Ids((s \o <<m>>) \o t)
    BY <1>h, <1>1, Zenon
  <2> QED BY <1>2, <2>2, <2>3, <2>4, <2>5, <2>6, SMT, SMTT(30)
<1>6. Distinct(s \o t) /\ Ids(s \o t) = Held[w] \ {m.id} /\ m.id \in Held[w]
  <2>1. Distinct(s \o t)
    BY <1>5, DistinctConcat, Zenon
  <2>2. Ids(s \o t) = Ids(s) \cup Ids(t)
    BY IdsConcat, Zenon
  <2> QED BY <1>5, <2>1, <2>2, SMT, SMTT(30)
<1>7. Len(s \o t) <= h'.pushed /\ h'.pushed \in Nat /\ h'.pushed <= MaxMsgs
      /\ h.pushed <= h'.pushed
  <2>1. Len(inq[w].items) <= h.pushed /\ Len(s \o t) \in Nat
    BY <1>l, <1>3, LenFacts, SMT, SMTT(30)
  <2>2. h'.pushed = h.pushed
    BY <1>1
  <2> QED BY <1>m, <1>4, <2>1, <2>2, SMT, SMTT(30)
<1>8. /\ Cardinality(InputPairs(inq')) =
           Cardinality(InputPairs(inq)) + Len(s \o t) - Len(inq[w].items)
      /\ \A v \in Workers : Len(inq'[v].items) <= h'.pushed
      /\ \A v \in Workers : Distinct(inq'[v].items)
      /\ \A v \in Workers : v # w => Held'[v] = Held[v]
      /\ Held'[w] = Ids(s \o t)
      /\ Len(s \o t) \in Nat
  BY InputChange, <1>1, <1>3, <1>6, <1>7, ZenonT(30)
<1>9. /\ Ledger(h.pushed, Ids(Core), Held', h.acked, h.dropped \cup {m.id}, h.aborted)
      /\ m.id \notin h.dropped
  <2>1. Held'[w] = Held[w] \ {m.id} /\ m.id \in Held[w]
    BY <1>6, <1>8, Zenon
  <2>2. Removed(Held, Held', w, m.id)
    BY <1>8, <2>1, ZenonT(30) DEF Removed
  <2> QED BY <1>g, <2>2, LedgerDrop, ZenonT(30)
<1>10. /\ IsFiniteSet(h'.dropped)
       /\ Cardinality(h'.dropped) = Cardinality(h.dropped) + 1
  BY <1>l, <1>1, <1>9, FS_AddElement, ZenonT(30)
<1>11. h'.pushed = Total'
  <2>1. Cardinality(InputPairs(inq')) = Cardinality(InputPairs(inq)) - 1
    BY <1>n, <1>4, <1>8, SMT, SMTT(30)
  <2>2. h.pushed = Len(Core) + (Cardinality(InputPairs(inq)) - 1)
                   + Cardinality(h.acked) + (Cardinality(h.dropped) + 1)
                   + Cardinality(h.aborted)
    BY <1>m, <1>s
  <2> QED BY <1>a, <1>1, <1>10, <2>1, <2>2, ZenonT(30) DEF Total
<1>12. Ledger(h'.pushed, Ids(Core'), Held', h'.acked, h'.dropped, h'.aborted)
  BY <1>a, <1>1, <1>9, Zenon
<1> QED
  BY <1>a, <1>l, <1>1, <1>7, <1>8, <1>10, <1>11, <1>12, ZenonT(30) DEF PlacesInv

\* An input list is moved behind the lock.
LEMMA PlacesSpliceInput ==
  ASSUME Inv, InHand, PlacesInv, NEW w \in Workers,
         SpliceInput(w)
  PROVE  PlacesInv'
<1>t. Core \in Seq(Msg) /\ \A v \in Workers : inq[v].items \in Seq(Msg)
  BY ListTypes, Zenon
<1>n. /\ h.pushed \in Nat /\ Len(Core) \in Nat
      /\ Cardinality(InputPairs(inq)) \in Nat
      /\ Cardinality(h.acked) \in Nat /\ Cardinality(h.dropped) \in Nat
      /\ Cardinality(h.aborted) \in Nat
      /\ \A v \in Workers : Len(inq[v].items) \in 0..MaxMsgs
  BY SizesNat, ZenonT(30)
<1>l. /\ Ledger(h.pushed, Ids(Core), Held, h.acked, h.dropped, h.aborted)
      /\ Distinct(Core) /\ \A v \in Workers : Distinct(inq[v].items)
      /\ h.pushed <= MaxMsgs /\ \A v \in Workers : Len(inq[v].items) <= h.pushed
      /\ IsFiniteSet(h.acked) /\ IsFiniteSet(h.dropped) /\ IsFiniteSet(h.aborted)
  BY SMT, SMTT(30) DEF PlacesInv
<1>g. Ledger(h.pushed, Ids(Core), Held, h.acked, h.dropped, h.aborted)
  BY <1>l, ZenonT(30)
<1>m. /\ h.pushed \in Nat /\ Len(Core) \in Nat /\ h.pushed <= MaxMsgs
      /\ Cardinality(InputPairs(inq)) \in Nat
      /\ Cardinality(h.acked) \in Nat /\ Cardinality(h.dropped) \in Nat
      /\ Cardinality(h.aborted) \in Nat
  BY <1>n, <1>l
<1>s. h.pushed = Len(Core) + Cardinality(InputPairs(inq)) + Cardinality(h.acked)
                 + Cardinality(h.dropped) + Cardinality(h.aborted)
  BY Zenon DEF PlacesInv, Total
<1>a. h'.acked = h.acked /\ h'.aborted = h.aborted
  BY DEF SpliceInput, SameAcked, SameAborted
<1>h. /\ \A v \in Workers : Held[v] = Ids(inq[v].items)
      /\ \A v \in Workers : Held'[v] = Ids(inq'[v].items)
  BY SMT, SMTT(30) DEF Held
<1>1. /\ Core' = Core \o inq[w].items /\ InputBecomes(w, <<>>)
      /\ h'.pushed = h.pushed /\ h'.dropped = h.dropped
  BY DEF SpliceInput, SameDropped
<1>2. <<>> \in Seq(Msg) /\ Len(<<>>) = 0 /\ Ids(<<>>) = {} /\ Distinct(<<>>)
  BY SmallLists, ZenonT(30)
<1>3. Len(<<>>) <= h'.pushed /\ h'.pushed \in Nat /\ h'.pushed <= MaxMsgs
      /\ h.pushed <= h'.pushed
  <2>1. h'.pushed = h.pushed
    BY <1>1
  <2> QED BY <1>m, <1>2, <2>1, SMT, SMTT(30)
<1>4. /\ Cardinality(InputPairs(inq')) =
           Cardinality(InputPairs(inq)) + Len(<<>>) - Len(inq[w].items)
      /\ \A v \in Workers : Len(inq'[v].items) <= h'.pushed
      /\ \A v \in Workers : Distinct(inq'[v].items)
      /\ \A v \in Workers : v # w => Held'[v] = Held[v]
      /\ Held'[w] = Ids(<<>>)
      /\ Len(inq[w].items) \in Nat
  BY InputChange, <1>1, <1>2, <1>3, ZenonT(30)
<1>5. Ids(Core') = Ids(Core) \cup Held[w]
  BY <1>t, <1>h, <1>1, IdsConcat, SMT, SMTT(30)
<1>6. Ledger(h'.pushed, Ids(Core'), Held', h'.acked, h'.dropped, h'.aborted)
  <2>1. Held'[w] = {}
    BY <1>2, <1>4, Zenon
  <2>2. Ledger(h.pushed, Ids(Core) \cup Held[w], Held', h.acked, h.dropped, h.aborted)
    BY <1>g, <1>4, <2>1, LedgerSplice, ZenonT(30)
  <2> QED BY <1>a, <1>1, <1>5, <2>2, ZenonT(30)
<1>7. Distinct(Core')
  <2>1. Ids(Core) \cap Ids(inq[w].items) = {}
    <3>1. Held[w] \cap Ids(Core) = {}
      BY <1>g, Zenon DEF Ledger, Apart
    <3>2. Held[w] = Ids(inq[w].items)
      BY <1>h, Zenon
    <3> QED BY <3>1, <3>2, SMT, SMTT(30)
  <2> QED BY <1>l, <1>t, <1>1, <2>1, DistinctConcat, ZenonT(30)
<1>8. h'.pushed = Total'
  <2>1. Cardinality(InputPairs(inq')) = Cardinality(InputPairs(inq)) - Len(inq[w].items)
    BY <1>n, <1>2, <1>4, SMT, SMTT(30)
  <2>2. Len(Core') = Len(Core) + Len(inq[w].items)
    BY <1>t, <1>1, ConcatFacts, SMT, SMTT(30)
  <2>3. h.pushed = (Len(Core) + Len(inq[w].items))
                   + (Cardinality(InputPairs(inq)) - Len(inq[w].items))
                   + Cardinality(h.acked) + Cardinality(h.dropped)
                   + Cardinality(h.aborted)
    <3>1. Len(inq[w].items) \in Nat
      BY <1>4
    <3> DEFINE k == Len(inq[w].items)
               p == Cardinality(InputPairs(inq))
               c == Len(Core)
    <3>2. /\ h.pushed = c + p + Cardinality(h.acked) + Cardinality(h.dropped)
                        + Cardinality(h.aborted)
          /\ k \in Nat /\ p \in Nat /\ c \in Nat
      BY <1>m, <1>s, <3>1, ZenonT(30)
    <3>3. Cardinality(h.acked) \in Nat /\ Cardinality(h.dropped) \in Nat
          /\ Cardinality(h.aborted) \in Nat
      BY <1>m, SMT, SMTT(30)
    <3> HIDE DEF k, p, c
    <3>4. h.pushed = (c + k) + (p - k) + Cardinality(h.acked) + Cardinality(h.dropped)
                     + Cardinality(h.aborted)
      BY <3>2, <3>3, SMT, SMTT(30)
    <3> QED BY <3>4, Zenon DEF k, p, c
  <2> QED BY <1>a, <1>1, <2>1, <2>2, <2>3, ZenonT(30) DEF Total
<1> QED
  BY <1>a, <1>l, <1>1, <1>3, <1>4, <1>6, <1>7, <1>8, ZenonT(30) DEF PlacesInv

\* Messages leave, or change their order, behind the lock.
LEMMA PlacesCore ==
  ASSUME Inv, InHand, PlacesInv,
         \/ Stay \/ AbortAll
         \/ \E s \in Seq(Msg) : AckOldest(s)
         \/ \E s, t, r \in Seq(Msg) : Exchange(s, t, r)
  PROVE  PlacesInv'
<1>t. Core \in Seq(Msg) /\ \A v \in Workers : inq[v].items \in Seq(Msg)
  BY ListTypes, Zenon
<1>n. /\ h.pushed \in Nat /\ Len(Core) \in Nat
      /\ Cardinality(InputPairs(inq)) \in Nat
      /\ Cardinality(h.acked) \in Nat /\ Cardinality(h.dropped) \in Nat
      /\ Cardinality(h.aborted) \in Nat
      /\ \A v \in Workers : Len(inq[v].items) \in 0..MaxMsgs
  BY SizesNat, ZenonT(30)
<1>l. /\ Ledger(h.pushed, Ids(Core), Held, h.acked, h.dropped, h.aborted)
      /\ Distinct(Core) /\ \A v \in Workers : Distinct(inq[v].items)
      /\ h.pushed <= MaxMsgs /\ \A v \in Workers : Len(inq[v].items) <= h.pushed
      /\ IsFiniteSet(h.acked) /\ IsFiniteSet(h.dropped) /\ IsFiniteSet(h.aborted)
  BY SMT, SMTT(30) DEF PlacesInv
<1>g. Ledger(h.pushed, Ids(Core), Held, h.acked, h.dropped, h.aborted)
  BY <1>l, SMT, SMTT(30)
<1>m. /\ h.pushed \in Nat /\ Len(Core) \in Nat /\ h.pushed <= MaxMsgs
      /\ Cardinality(InputPairs(inq)) \in Nat
      /\ Cardinality(h.acked) \in Nat /\ Cardinality(h.dropped) \in Nat
      /\ Cardinality(h.aborted) \in Nat
  BY <1>n, <1>l, SMT, SMTT(30)
<1>f. IsFiniteSet(h.acked) /\ IsFiniteSet(h.dropped) /\ IsFiniteSet(h.aborted)
  BY <1>l
<1>s. h.pushed = Len(Core) + Cardinality(InputPairs(inq)) + Cardinality(h.acked)
                 + Cardinality(h.dropped) + Cardinality(h.aborted)
  BY Zenon DEF PlacesInv, Total
<1>a. /\ h'.pushed = h.pushed /\ h'.dropped = h.dropped
      /\ Held' = Held /\ InputPairs(inq') = InputPairs(inq)
      /\ \A v \in Workers : Distinct(inq'[v].items)
      /\ \A v \in Workers : Len(inq'[v].items) <= h'.pushed
  <2>1. SameInputs /\ h'.pushed = h.pushed /\ h'.dropped = h.dropped
    BY DEF Stay, AbortAll, AckOldest, Exchange, SameDropped
  <2>2. Held' = Held /\ InputPairs(inq') = InputPairs(inq)
    BY <2>1, SameInputPairs, Zenon
  <2>3. /\ \A v \in Workers : Distinct(inq'[v].items)
        /\ \A v \in Workers : Len(inq'[v].items) <= h'.pushed
    BY <1>l, <2>1, Zenon DEF SameInputs
  <2> QED BY <2>1, <2>2, <2>3, SMT, SMTT(30)
<1>e. ASSUME h'.acked = h.acked, h'.aborted = h.aborted, Len(Core') = Len(Core),
             Ids(Core') = Ids(Core), Distinct(Core')
      PROVE  PlacesInv'
  <2>1. h'.pushed = Total'
    BY <1>a, <1>e, <1>s, Zenon DEF Total
  <2>2. Ledger(h'.pushed, Ids(Core'), Held', h'.acked, h'.dropped, h'.aborted)
    BY <1>a, <1>e, <1>l, ZenonT(30)
  <2> QED BY <1>a, <1>e, <1>l, <2>1, <2>2, ZenonT(30) DEF PlacesInv
<1>1. CASE Stay
  <2>1. Core' = Core /\ h'.acked = h.acked /\ h'.aborted = h.aborted
    BY <1>1 DEF Stay, SameAcked, SameAborted
  <2> QED BY <1>e, <1>l, <2>1, ZenonT(30)
<1>2. ASSUME NEW s \in Seq(Msg), NEW t \in Seq(Msg), NEW r \in Seq(Msg), Exchange(s, t, r)
      PROVE  PlacesInv'
  <2>1. /\ Core = (s \o t) \o r /\ Core' = (t \o s) \o r
        /\ h'.acked = h.acked /\ h'.aborted = h.aborted
    BY <1>2, SMT, SMTT(30) DEF Exchange, SameAcked, SameAborted
  <2>2. /\ Len((t \o s) \o r) = Len((s \o t) \o r)
        /\ Ids((t \o s) \o r) = Ids((s \o t) \o r)
        /\ Distinct((t \o s) \o r)
    BY <1>l, <2>1, ExchangeFacts, Zenon
  <2>3. Len(Core') = Len(Core) /\ Ids(Core') = Ids(Core) /\ Distinct(Core')
    BY <2>1, <2>2, Zenon
  <2> QED BY <1>e, <2>1, <2>3, ZenonT(30)
<1>3. ASSUME NEW s \in Seq(Msg), AckOldest(s) PROVE PlacesInv'
  <2>1. /\ Core = s \o Core' /\ Core' \in Seq(Msg)
        /\ h'.acked = h.acked \cup Ids(s) /\ h'.aborted = h.aborted
    BY <1>3 DEF AckOldest, SameAborted
  <2>2. /\ Distinct(Core') /\ Ids(s) \cap Ids(Core') = {}
        /\ Ids(Core) = Ids(s) \cup Ids(Core')
        /\ Len(Core) = Len(s) + Len(Core')
        /\ IsFiniteSet(Ids(s)) /\ Cardinality(Ids(s)) = Len(s)
        /\ Len(s) \in Nat /\ Len(Core') \in Nat
    <3> DEFINE y == Core'
    <3>1. y \in Seq(Msg) /\ Core = s \o y /\ Distinct(s \o y)
      BY <1>l, <2>1, Zenon
    <3> HIDE DEF y
    <3>2. /\ Distinct(y) /\ Ids(s) \cap Ids(y) = {}
          /\ Ids(Core) = Ids(s) \cup Ids(y)
          /\ Len(Core) = Len(s) + Len(y)
          /\ IsFiniteSet(Ids(s)) /\ Cardinality(Ids(s)) = Len(s)
          /\ Len(s) \in Nat /\ Len(y) \in Nat
      BY <3>1, SplitFacts, ZenonT(30)
    <3> QED BY <3>2, Zenon DEF y
  <2>3. /\ Ledger(h.pushed, Ids(Core'), Held, h.acked \cup Ids(s), h.dropped, h.aborted)
        /\ h.acked \cap Ids(s) = {}
    <3>1. TwoParts(Ids(Core), Ids(s), Ids(Core'))
      BY <2>2, Zenon DEF TwoParts
    <3>2. Ledger(h.pushed, Ids(Core'), Held, h.acked \cup Ids(s), h.dropped, h.aborted)
      BY <1>g, <3>1, LedgerOut, ZenonT(30)
    <3>3. h.acked \cap Ids(s) = {}
      BY <1>g, <3>1, SMT, SMTT(30) DEF Ledger, Apart, TwoParts
    <3> QED BY <3>2, <3>3, SMT, SMTT(30)
  <2>4. /\ IsFiniteSet(h'.acked)
        /\ Cardinality(h'.acked) = Cardinality(h.acked) + Len(s)
    <3>1. /\ IsFiniteSet(h.acked \cup Ids(s))
          /\ Cardinality(h.acked \cup Ids(s)) = Cardinality(h.acked) + Cardinality(Ids(s))
                                                - Cardinality({})
      <4>1. h.acked \cap Ids(s) = {}
        BY <2>3
      <4>2. IsFiniteSet(Ids(s)) /\ IsFiniteSet(h.acked)
        BY <1>f, <2>2
      <4> QED BY <4>1, <4>2, FS_Union, SMT, SMTT(30)
    <3>2. Cardinality({}) = 0
      BY FS_EmptySet
    <3> QED BY <1>n, <2>1, <2>2, <3>1, <3>2, SMT, SMTT(30)
  <2>5. h'.pushed = Total'
    <3>1. h.pushed = Len(Core') + Cardinality(InputPairs(inq))
                     + (Cardinality(h.acked) + Len(s)) + Cardinality(h.dropped)
                     + Cardinality(h.aborted)
      BY <1>m, <1>s, <2>2, SMT, SMTT(30)
    <3> QED BY <1>a, <2>1, <2>4, <3>1, Zenon DEF Total
  <2>6. Ledger(h'.pushed, Ids(Core'), Held', h'.acked, h'.dropped, h'.aborted)
    BY <1>a, <2>1, <2>3, Zenon
  <2> QED BY <1>a, <1>l, <2>1, <2>2, <2>4, <2>5, <2>6, ZenonT(30) DEF PlacesInv
<1>4. CASE AbortAll
  <2>1. Core' = <<>> /\ h'.aborted = h.aborted \cup Ids(Core) /\ h'.acked = h.acked
    BY <1>4 DEF AbortAll, SameAcked
  <2>2. /\ Ids(<<>>) = {} /\ Len(<<>>) = 0 /\ Distinct(<<>>)
    BY SmallLists, Zenon
  <2>3. IsFiniteSet(Ids(Core)) /\ Cardinality(Ids(Core)) = Len(Core)
    BY <1>l, <1>t, DistinctCardinality, ZenonT(30)
  <2>4. /\ Ledger(h.pushed, {}, Held, h.acked, h.dropped, h.aborted \cup Ids(Core))
        /\ h.aborted \cap Ids(Core) = {}
    <3>1. TwoParts(Ids(Core), Ids(Core), {})
      BY DEF TwoParts
    <3>2. Ledger(h.pushed, {}, Held, h.acked, h.dropped, h.aborted \cup Ids(Core))
      BY <1>g, <3>1, LedgerOut, ZenonT(30)
    <3>3. h.aborted \cap Ids(Core) = {}
      BY <1>g, ZenonT(30) DEF Ledger, Apart
    <3> QED BY <3>2, <3>3
  <2>5. /\ IsFiniteSet(h'.aborted)
        /\ Cardinality(h'.aborted) = Cardinality(h.aborted) + Len(Core)
    <3>1. /\ IsFiniteSet(h.aborted \cup Ids(Core))
          /\ Cardinality(h.aborted \cup Ids(Core)) =
               Cardinality(h.aborted) + Cardinality(Ids(Core)) - Cardinality({})
      <4>1. h.aborted \cap Ids(Core) = {}
        BY <2>4
      <4> QED BY <1>f, <2>3, <4>1, FS_Union, SMT, SMTT(30)
    <3>2. Cardinality({}) = 0
      BY FS_EmptySet
    <3> QED BY <1>n, <2>1, <2>3, <3>1, <3>2, SMT, SMTT(30)
  <2>6. h'.pushed = Total'
    <3>1. h.pushed = 0 + Cardinality(InputPairs(inq)) + Cardinality(h.acked)
                     + Cardinality(h.dropped) + (Cardinality(h.aborted) + Len(Core))
      BY <1>m, <1>s
    <3> QED BY <1>a, <2>1, <2>2, <2>5, <3>1, ZenonT(30) DEF Total
  <2>7. Ledger(h'.pushed, Ids(Core'), Held', h'.acked, h'.dropped, h'.aborted)
    BY <1>a, <2>1, <2>2, <2>4, Zenon
  <2> QED BY <1>a, <1>l, <2>1, <2>2, <2>5, <2>6, <2>7, ZenonT(30) DEF PlacesInv
<1> QED BY <1>1, <1>2, <1>3, <1>4, SMT, SMTT(30)

\* Every move keeps each message in one place.
LEMMA PlacesStep ==
  ASSUME Inv, InHand, PlacesInv, Move
  PROVE  PlacesInv'
BY PlacesPush, PlacesPushInput, PlacesDropInput, PlacesSpliceInput, PlacesCore, ZenonT(30) DEF Move

-----------------------------------------------------------------------------
(* The messages of a thread stay in order.                                 *)

FromAll(s, w) == \A i \in DOMAIN s : s[i].from = w

\* An input queue holds messages of its own thread, and what has left the
\* input queues comes before what is in them.
OrderInv ==
  /\ \A w \in Workers : FromAll(inq[w].items, w)
  /\ ~h.spliced => /\ Sorted(Core)
                   /\ \A w \in Workers : /\ Sorted(inq[w].items)
                                         /\ Before(Core, inq[w].items)

\* Who pushed the messages of a concatenation.
LEMMA FromConcat ==
  ASSUME NEW s \in Seq(Msg), NEW t \in Seq(Msg), NEW w
  PROVE  FromAll(s \o t, w) <=> FromAll(s, w) /\ FromAll(t, w)
<1> DEFINE u == s \o t
           n == Len(s)
<1>p. /\ \A i \in DOMAIN s : i \in DOMAIN u /\ u[i] = s[i]
      /\ \A j \in DOMAIN t : n + j \in DOMAIN u /\ u[n + j] = t[j]
      /\ \A k \in DOMAIN u : k \in DOMAIN s \/ \E j \in DOMAIN t : k = n + j
  BY ConcatPositions, ZenonT(30)
<1> HIDE DEF u, n
<1>1. FromAll(u, w) => FromAll(s, w)
  BY <1>p, SMT, SMTT(30) DEF FromAll
<1>2. FromAll(u, w) => FromAll(t, w)
  <2> SUFFICES ASSUME FromAll(u, w), NEW j \in DOMAIN t PROVE t[j].from = w
    BY DEF FromAll
  <2>1. n + j \in DOMAIN u /\ u[n + j] = t[j]
    BY <1>p, SMT, SMTT(30)
  <2> QED BY <2>1, SMT, SMTT(30) DEF FromAll
<1>3. FromAll(s, w) /\ FromAll(t, w) => FromAll(u, w)
  BY <1>p DEF FromAll
<1> QED BY <1>1, <1>2, <1>3, SMT, SMTT(30) DEF u

\* Messages of different threads are in any order; the newest one is after all
\* others.
LEMMA BeforeFacts ==
  ASSUME NEW s \in Seq(Msg), NEW t \in Seq(Msg), NEW m \in Msg
  PROVE  /\ \A v, w : FromAll(s, v) /\ FromAll(t, w) /\ v # w => Before(s, t)
         /\ \A w : FromAll(t, w) /\ m.from # w => Before(<<m>>, t)
         /\ \A n \in Nat : Ids(s) \subseteq 1..n /\ m.id = n + 1 => Before(s, <<m>>)
         /\ FromAll(<<m>>, m.from) /\ \A w : FromAll(<<>>, w)
<1>1. DOMAIN <<m>> = {1} /\ <<m>>[1] = m /\ DOMAIN <<>> = {}
  OBVIOUS
<1>2. \A v, w : FromAll(s, v) /\ FromAll(t, w) /\ v # w => Before(s, t)
  BY DEF FromAll, Before
<1>3. \A w : FromAll(t, w) /\ m.from # w => Before(<<m>>, t)
  BY <1>1 DEF FromAll, Before
<1>4. \A n \in Nat : Ids(s) \subseteq 1..n /\ m.id = n + 1 => Before(s, <<m>>)
  <2> SUFFICES ASSUME NEW n \in Nat, Ids(s) \subseteq 1..n, m.id = n + 1,
                      NEW i \in DOMAIN s, NEW j \in DOMAIN <<m>>
               PROVE  s[i].id < <<m>>[j].id
    BY DEF Before
  <2>1. s[i].id \in 1..n
    BY DEF Ids
  <2>2. <<m>>[j] = m
    BY <1>1
  <2> QED BY <2>1, <2>2, SMT, SMTT(30)
<1>5. FromAll(<<m>>, m.from) /\ \A w : FromAll(<<>>, w)
  BY <1>1 DEF FromAll
<1> QED BY <1>2, <1>3, <1>4, <1>5, ZenonT(30)

\* The order survives every move.
LEMMA OrderStep ==
  ASSUME Inv, InHand, PlacesInv, OrderInv, Move, h.spliced => h'.spliced
  PROVE  OrderInv'
<1>t. /\ Core \in Seq(Msg) /\ \A w \in Workers : inq[w].items \in Seq(Msg)
      /\ h.pushed \in Nat
  BY ListTypes, Zenon
<1>o. /\ \A w \in Workers : FromAll(inq[w].items, w)
      /\ ~h'.spliced => /\ Sorted(Core)
                        /\ \A w \in Workers : /\ Sorted(inq[w].items)
                                              /\ Before(Core, inq[w].items)
  BY DEF OrderInv
<1>i. Ids(Core) \subseteq 1..h.pushed /\ \A w \in Workers : Ids(inq[w].items) \subseteq 1..h.pushed
  <2>1. Covers(h.pushed, Ids(Core), Held, h.acked, h.dropped, h.aborted)
    BY DEF PlacesInv, Ledger
  <2>2. \A w \in Workers : Held[w] = Ids(inq[w].items)
    BY DEF Held
  <2> QED BY <2>1, <2>2, SMT, SMTT(30) DEF Covers
<1>e. /\ <<>> \in Seq(Msg) /\ Sorted(<<>>) /\ \A r : Before(<<>>, r) /\ Before(r, <<>>)
      /\ \A m \in Msg : <<m>> \in Seq(Msg) /\ Sorted(<<m>>)
  BY SmallLists, Zenon
<1>s. ASSUME SameInputs,
             ~h'.spliced => Sorted(Core') /\ \A w \in Workers : Before(Core', inq[w].items)
      PROVE  OrderInv'
  <2>1. \A w \in Workers : inq'[w].items = inq[w].items
    BY <1>s DEF SameInputs
  <2> QED BY <1>o, <1>s, <2>1, ZenonT(30) DEF OrderInv
<1>b. ASSUME NEW w \in Workers, NEW q \in Seq(Msg), InputBecomes(w, q), FromAll(q, w),
             ~h'.spliced => /\ Sorted(Core') /\ Sorted(q) /\ Before(Core', q)
                            /\ \A v \in Workers : v # w => Before(Core', inq[v].items)
      PROVE  OrderInv'
  <2>1. inq'[w].items = q /\ \A v \in Workers : v # w => inq'[v].items = inq[v].items
    BY <1>b DEF InputBecomes
  <2>2. \A v \in Workers : FromAll(inq'[v].items, v)
    BY <1>b, <1>o, <2>1, Zenon
  <2>3. ASSUME ~h'.spliced, NEW v \in Workers
        PROVE  Sorted(inq'[v].items) /\ Before(Core', inq'[v].items)
    BY <1>b, <1>o, <2>1, <2>3, Zenon
  <2> QED BY <1>b, <2>2, <2>3, ZenonT(30) DEF OrderInv
<1>1. CASE Stay \/ PushNowhere
  <2>1. Core' = Core /\ SameInputs
    BY <1>1 DEF Stay, PushNowhere
  <2> QED BY <1>o, <1>s, <2>1, Zenon
<1>2. CASE AbortAll
  <2>1. Core' = <<>> /\ SameInputs
    BY <1>2 DEF AbortAll
  <2> QED BY <1>e, <1>s, <2>1, ZenonT(30)
<1>3. ASSUME NEW w \in Workers, NEW m \in Msg, PushInput(w, m) PROVE OrderInv'
  <2> DEFINE q == inq[w].items \o <<m>>
  <2>1. m.id = h.pushed + 1 /\ m.from = w /\ Core' = Core /\ InputBecomes(w, q)
    BY <1>3, SMT, SMTT(30) DEF PushInput
  <2>2. q \in Seq(Msg)
    BY <1>t, <1>e, ConcatFacts, SMT, SMTT(30)
  <2>3. FromAll(q, w)
    <3>1. FromAll(<<m>>, w)
      BY <2>1, <1>t, BeforeFacts, Zenon
    <3> QED BY <1>t, <1>e, <1>o, <3>1, FromConcat, ZenonT(30)
  <2>4. Before(Core, <<m>>) /\ Before(inq[w].items, <<m>>)
    BY <1>t, <1>i, <2>1, BeforeFacts, ZenonT(30)
  <2>5. ASSUME ~h'.spliced PROVE Sorted(q) /\ Before(Core, q)
    <3>1. Sorted(q)
      BY <1>t, <1>e, <1>o, <2>4, <2>5, SortedConcat, ZenonT(30)
    <3>2. Before(Core, q)
      BY <1>t, <1>e, <1>o, <2>4, <2>5, BeforeConcat, ZenonT(30)
    <3> QED BY <3>1, <3>2
  <2> HIDE DEF q
  <2> QED BY <1>b, <1>o, <2>1, <2>2, <2>3, <2>5, ZenonT(30)
<1>4. ASSUME NEW m \in Msg, PushWait(m) PROVE OrderInv'
  <2>1. m.id = h.pushed + 1 /\ m.from \in Feeders /\ Core' = Core \o <<m>> /\ SameInputs
    BY <1>4 DEF PushWait
  <2>2. Before(Core, <<m>>)
    BY <1>t, <1>i, <2>1, BeforeFacts, ZenonT(30)
  <2>3. ASSUME NEW w \in Workers PROVE Before(<<m>>, inq[w].items)
    <3>1. m.from # w
      BY <2>1, FifoAssumption
    <3> QED BY <1>t, <1>o, <3>1, BeforeFacts, ZenonT(30)
  <2>4. ASSUME ~h'.spliced PROVE Sorted(Core \o <<m>>)
    BY <1>t, <1>e, <1>o, <2>2, <2>4, SortedConcat, ZenonT(30)
  <2>5. ASSUME ~h'.spliced, NEW w \in Workers PROVE Before(Core \o <<m>>, inq[w].items)
    <3>1. Core \in Seq(Msg) /\ <<m>> \in Seq(Msg) /\ inq[w].items \in Seq(Msg)
      BY <1>t, <1>e, Zenon
    <3>2. Before(Core, inq[w].items) /\ Before(<<m>>, inq[w].items)
      BY <1>o, <2>3, <2>5, Zenon
    <3> QED BY <3>1, <3>2, ConcatBefore, ZenonT(30)
  <2> QED BY <1>s, <2>1, <2>4, <2>5, ZenonT(30)
<1>5. ASSUME NEW w \in Workers, NEW m \in Msg, NEW s \in Seq(Msg), NEW t \in Seq(Msg),
             DropInput(w, s, m, t)
      PROVE  OrderInv'
  <2>1. /\ inq[w].items = (s \o <<m>>) \o t /\ InputBecomes(w, s \o t) /\ Core' = Core
    BY <1>5 DEF DropInput
  <2>2. <<m>> \in Seq(Msg) /\ s \o <<m>> \in Seq(Msg) /\ s \o t \in Seq(Msg)
    BY <1>e, ConcatFacts
  <2>3. FromAll(s \o t, w)
    <3>1. FromAll(s \o <<m>>, w) /\ FromAll(t, w)
      <4>1. FromAll((s \o <<m>>) \o t, w)
        BY <1>o, <2>1, Zenon
      <4> QED BY <2>2, <4>1, FromConcat, ZenonT(30)
    <3>2. FromAll(s, w)
      BY <2>2, <3>1, FromConcat, Zenon
    <3> QED BY <3>1, <3>2, FromConcat, Zenon
  <2>4. ASSUME ~h'.spliced PROVE Sorted(s \o t) /\ Before(Core, s \o t)
    <3>1. Sorted((s \o <<m>>) \o t) /\ Before(Core, (s \o <<m>>) \o t)
      BY <1>o, <2>1, <2>4, Zenon
    <3>2. Sorted(s \o <<m>>) /\ Sorted(t) /\ Before(s \o <<m>>, t)
      BY <2>2, <3>1, SortedConcat, Zenon
    <3>3. Sorted(s)
      BY <2>2, <3>2, SortedConcat, Zenon
    <3>4. Before(s, t)
      BY <2>2, <3>2, BeforeConcat, Zenon
    <3>5. Before(Core, s \o <<m>>) /\ Before(Core, t)
      BY <1>t, <2>2, <3>1, BeforeConcat, Zenon
    <3>6. Before(Core, s)
      BY <1>t, <2>2, <3>5, BeforeConcat, ZenonT(30)
    <3>7. Sorted(s \o t)
      BY <3>2, <3>3, <3>4, SortedConcat, Zenon
    <3>8. Before(Core, s \o t)
      BY <1>t, <3>5, <3>6, BeforeConcat, Zenon
    <3> QED BY <3>7, <3>8
  <2> QED BY <1>b, <1>o, <2>1, <2>2, <2>3, <2>4, ZenonT(30)
<1>6. ASSUME NEW w \in Workers, SpliceInput(w) PROVE OrderInv'
  <2>1. Core' = Core \o inq[w].items /\ InputBecomes(w, <<>>)
    BY <1>6 DEF SpliceInput
  <2>2. FromAll(<<>>, w)
    BY DEF FromAll
  <2>3. ASSUME ~h'.spliced PROVE Sorted(Core')
    BY <1>t, <1>o, <2>1, <2>3, SortedConcat, Zenon
  <2>4. ASSUME ~h'.spliced, NEW v \in Workers, v # w PROVE Before(Core', inq[v].items)
    <3>1. Before(inq[w].items, inq[v].items)
      <4>1. FromAll(inq[w].items, w) /\ FromAll(inq[v].items, v)
        BY <1>o, Zenon
      <4> QED BY <2>4, <4>1 DEF FromAll, Before
    <3>2. Before(Core, inq[v].items)
      BY <1>o, <2>4, Zenon
    <3>3. Core \in Seq(Msg) /\ inq[w].items \in Seq(Msg) /\ inq[v].items \in Seq(Msg)
      BY <1>t, Zenon
    <3>4. Before(Core \o inq[w].items, inq[v].items)
      BY <3>1, <3>2, <3>3, ConcatBefore, ZenonT(30)
    <3> QED BY <2>1, <3>4, ZenonT(30)
  <2> QED BY <1>b, <1>e, <2>1, <2>2, <2>3, <2>4, ZenonT(30)
<1>7. ASSUME NEW s \in Seq(Msg), AckOldest(s) PROVE OrderInv'
  <2>1. Core = s \o Core' /\ Core' \in Seq(Msg) /\ SameInputs
    BY <1>7 DEF AckOldest
  <2>2. ASSUME ~h'.spliced PROVE Sorted(Core')
    <3>1. Sorted(s \o Core')
      BY <1>o, <2>1, <2>2, Zenon
    <3> QED BY <2>1, <3>1, SortedConcat, Zenon
  <2>3. ASSUME ~h'.spliced, NEW w \in Workers PROVE Before(Core', inq[w].items)
    <3>1. Before(s \o Core', inq[w].items)
      BY <1>o, <2>1, <2>3, Zenon
    <3>2. Core' \in Seq(Msg) /\ inq[w].items \in Seq(Msg)
      BY <1>t, <2>1, Zenon
    <3> QED BY <3>1, <3>2, ConcatBefore, ZenonT(30)
  <2> QED BY <1>s, <2>1, <2>2, <2>3, ZenonT(30)
<1>8. ASSUME NEW s \in Seq(Msg), NEW t \in Seq(Msg), NEW r \in Seq(Msg), Exchange(s, t, r)
      PROVE  OrderInv'
  <2>1. h'.spliced /\ SameInputs
    BY <1>8 DEF Exchange
  <2> QED BY <1>s, <2>1, Zenon
<1> QED BY <1>1, <1>2, <1>3, <1>4, <1>5, <1>6, <1>7, <1>8, ZenonT(30) DEF Move

-----------------------------------------------------------------------------
(* The theorems.                                                           *)

MessagesInv == InHand /\ PlacesInv /\ OrderInv

\* A new queue holds nothing.
LEMMA MessagesInit == Init => MessagesInv
<1> SUFFICES ASSUME Init PROVE MessagesInv
  BY SMT, SMTT(30)
<1>1. /\ inhand = NoMsg /\ backlog.items = <<>> /\ output.items = <<>> /\ wait.items = <<>>
      /\ \A w \in Workers : inq[w].items = <<>>
  BY SMT, SMTT(30) DEF Init, Empty
<1>2. h.pushed = 0 /\ h.acked = {} /\ h.dropped = {} /\ h.aborted = {}
  BY DEF Init
<1>e. /\ <<>> \in Seq(Msg) /\ Len(<<>>) = 0 /\ Ids(<<>>) = {}
      /\ Distinct(<<>>) /\ Sorted(<<>>) /\ \A r : Before(r, <<>>)
  BY SmallLists, Zenon
<1>3. Core = <<>>
  <2>1. InHandSeq = <<>>
    BY <1>1 DEF InHandSeq
  <2>2. <<>> \o <<>> = <<>>
    BY <1>e, ConcatEmpty
  <2> QED BY <1>1, <2>1, <2>2, Zenon DEF Core
<1>4. InHand
  BY <1>1 DEF InHand
<1>5. PlacesInv
  <2>1. \A w \in Workers : Held[w] = {}
    BY <1>1, <1>e, SMT, SMTT(30) DEF Held
  <2>2. Apart({}, Held, {}, {}, {})
    BY <2>1 DEF Apart
  <2>3. Covers(0, {}, Held, {}, {}, {})
    BY <2>1, SMT, SMTT(30) DEF Covers
  <2>4. Ledger(h.pushed, Ids(Core), Held, h.acked, h.dropped, h.aborted)
    BY <1>2, <1>3, <1>e, <2>2, <2>3, SMT, SMTT(30) DEF Ledger
  <2>5. Distinct(Core) /\ \A w \in Workers : Distinct(inq[w].items)
    BY <1>1, <1>3, <1>e, ZenonT(30)
  <2>6. h.pushed <= MaxMsgs /\ \A w \in Workers : Len(inq[w].items) <= h.pushed
    BY <1>1, <1>2, <1>e, FifoAssumption, SMT, SMTT(30)
  <2>7. IsFiniteSet({}) /\ Cardinality({}) = 0
    BY FS_EmptySet
  <2>8. InputPairs(inq) = {}
    <3> SUFFICES ASSUME NEW wi \in InputPairs(inq) PROVE FALSE
      BY DEF InputPairs
    <3>1. wi[1] \in Workers /\ wi[2] \in 1..MaxMsgs /\ wi[2] <= Len(inq[wi[1]].items)
      BY DEF InputPairs
    <3>2. Len(inq[wi[1]].items) = 0
      BY <1>1, <1>e, <3>1, SMT, SMTT(30)
    <3> QED BY <3>1, <3>2, FifoAssumption
  <2>9. h.pushed = Total
    BY <1>2, <1>3, <1>e, <2>7, <2>8, SMT, SMTT(30) DEF Total
  <2> QED BY <1>2, <2>4, <2>5, <2>6, <2>7, <2>9, ZenonT(30) DEF PlacesInv
<1>6. OrderInv
  <2>1. \A w \in Workers : FromAll(inq[w].items, w)
    <3>1. \A w : FromAll(<<>>, w)
      BY DEF FromAll
    <3> QED BY <1>1, <3>1, Zenon
  <2> QED BY <1>1, <1>3, <1>e, <2>1, Zenon DEF OrderInv
<1> QED BY <1>4, <1>5, <1>6, SMT, SMTT(30) DEF MessagesInv

\* A step keeps what is said about the messages.
LEMMA MessagesStep ==
  ASSUME Inv, MessagesInv, [Next]_vars
  PROVE  MessagesInv'
<1>1. InHand /\ PlacesInv /\ OrderInv
  BY DEF MessagesInv
<1>2. Move /\ (h.spliced => h'.spliced)
  BY <1>1, StepMoves
<1>3. InHand'
  BY <1>1, InHandStep
<1>4. PlacesInv'
  BY <1>1, <1>2, PlacesStep
<1>5. OrderInv'
  BY <1>1, <1>2, OrderStep, SMT, SMTT(30)
<1> QED BY <1>3, <1>4, <1>5 DEF MessagesInv

\* In every reachable state the messages are in one place each, and those of
\* one thread are in the order it pushed them in.
THEOREM MessagesInvariance == Spec => [](Inv /\ MessagesInv)
<1>1. Init => MessagesInv
  BY MessagesInit
<1>2. Inv /\ MessagesInv /\ [Next]_vars => MessagesInv'
  BY MessagesStep
<1> QED BY <1>1, <1>2, Invariance, PTL DEF Spec

\* Whatever the pushing threads, the output thread, its acks and its rewinds
\* do, the messages of one thread leave the queue in the order they were
\* pushed in; only a rewind_backlog_all on a queue with pending output can
\* change it.
THEOREM FifoPerThreadHolds == Spec => []FifoPerThread
<1>1. Inv /\ MessagesInv => FifoPerThread
  <2> SUFFICES ASSUME Inv, MessagesInv, ~h.spliced, NEW t \in Threads PROVE InOrder(t)
    BY DEF FifoPerThread
  <2>1. InHand /\ OrderInv
    BY DEF MessagesInv
  <2>2. Core \in Seq(Msg) /\ \A w \in Workers : inq[w].items \in Seq(Msg)
    BY <2>1, ListTypes, Zenon
  <2>3. Sorted(Pipeline(t))
    <3>1. CASE t \in Workers
      <4>1. Pipeline(t) = Core \o inq[t].items
        BY <3>1, Zenon DEF Pipeline, Core
      <4>2. Sorted(Core) /\ Sorted(inq[t].items) /\ Before(Core, inq[t].items)
        BY <2>1, <3>1, Zenon DEF OrderInv
      <4>3. inq[t].items \in Seq(Msg)
        BY <2>2, <3>1, Zenon
      <4>4. Sorted(Core \o inq[t].items)
        BY <2>2, <4>2, <4>3, SortedConcat, ZenonT(30)
      <4> QED BY <4>1, <4>4, Zenon
    <3>2. CASE t \notin Workers
      <4>1. Pipeline(t) = Core \o <<>>
        BY <3>2, Zenon DEF Pipeline, Core
      <4>2. Core \o <<>> = Core
        BY <2>2, ConcatEmpty
      <4>3. Sorted(Core)
        BY <2>1, ZenonT(30) DEF OrderInv
      <4> QED BY <4>1, <4>2, <4>3, Zenon
    <3> QED BY <3>1, <3>2
  <2> QED BY <2>3, Zenon DEF Sorted, InOrder
<1> QED BY <1>1, MessagesInvariance, PTL

\* Every message that was ever pushed is in exactly one of the queues, in the
\* hands of pop_head, acked, dropped for lack of space or aborted: the places
\* cover the ids, and their sizes add up.
THEOREM NoLossNoDuplicationHolds == Spec => []NoLossNoDuplication
<1>1. Inv /\ MessagesInv => NoLossNoDuplication
  <2> SUFFICES ASSUME Inv, MessagesInv PROVE NoLossNoDuplication
    OBVIOUS
  <2> DEFINE b == backlog.items
             o == output.items
             q == wait.items
             x == InHandSeq
  <2>1. InHand /\ PlacesInv
    BY DEF MessagesInv
  <2>2. b \in Seq(Msg) /\ o \in Seq(Msg) /\ q \in Seq(Msg) /\ x \in Seq(Msg)
    BY <2>1, ListTypes, Zenon
  <2>3. b \o x \in Seq(Msg) /\ (b \o x) \o o \in Seq(Msg)
    BY <2>2, ConcatFacts
  <2>4. Ids(Core) = Ids(b) \cup Ids(x) \cup Ids(o) \cup Ids(q)
    <3>1. Ids(b \o x) = Ids(b) \cup Ids(x)
      BY <2>2, IdsConcat, Zenon
    <3>2. Ids((b \o x) \o o) = Ids(b \o x) \cup Ids(o)
      BY <2>2, <2>3, IdsConcat, Zenon
    <3>3. Ids(((b \o x) \o o) \o q) = Ids((b \o x) \o o) \cup Ids(q)
      BY <2>2, <2>3, IdsConcat, Zenon
    <3>4. Core = ((b \o x) \o o) \o q
      BY DEF Core
    <3> HIDE DEF b, o, q, x
    <3> QED BY <3>1, <3>2, <3>3, <3>4, Zenon
  <2>5. Len(Core) = Len(b) + Len(x) + Len(o) + Len(q)
    <3>1. Len(b \o x) = Len(b) + Len(x)
      BY <2>2, ConcatFacts, SMT, SMTT(30)
    <3>2. Len((b \o x) \o o) = Len(b \o x) + Len(o)
      BY <2>2, <2>3, ConcatFacts, SMT, SMTT(30)
    <3>3. Len(((b \o x) \o o) \o q) = Len((b \o x) \o o) + Len(q)
      BY <2>2, <2>3, ConcatFacts, SMT, SMTT(30)
    <3>4. Core = ((b \o x) \o o) \o q
      BY DEF Core
    <3> QED BY <3>1, <3>2, <3>3, <3>4, ZenonT(30)
  <2>6. Covers(h.pushed, Ids(Core), Held, h.acked, h.dropped, h.aborted) /\ h.pushed = Total
    BY <2>1, SMT, SMTT(30) DEF PlacesInv, Ledger
  <2>7. Ids(x) = {inhand.id} \ {0} /\ Cardinality({inhand.id} \ {0}) = Len(x)
    <3>1. CASE inhand = NoMsg
      <4>1. x = <<>> /\ {inhand.id} \ {0} = {}
        BY <3>1 DEF InHandSeq, NoMsg
      <4>2. Ids(<<>>) = {} /\ Len(<<>>) = 0
        BY SmallLists, Zenon
      <4>3. Cardinality({}) = 0
        BY FS_EmptySet
      <4> QED BY <4>1, <4>2, <4>3, ZenonT(30)
    <3>2. CASE inhand # NoMsg
      <4>1. x = <<inhand>>
        BY <3>2, SMT, SMTT(30) DEF InHandSeq
      <4>2. inhand \in Msg
        BY <3>2 DEF Inv, TypeOK
      <4>3. Ids(x) = {inhand.id} /\ Len(x) = 1
        BY <4>1, <4>2, SmallLists, ZenonT(30)
      <4>4. inhand.id \in 1..h.pushed
        BY <2>4, <2>6, <4>3, SMT, SMTT(30) DEF Covers
      <4>5. inhand.id # 0
        <5>1. h.pushed \in Nat
          BY <2>1, ListTypes, Zenon
        <5> QED BY <4>4, <5>1, SMT, SMTT(30)
      <4>6. {inhand.id} \ {0} = {inhand.id}
        BY <4>5
      <4>7. Cardinality({inhand.id}) = 1
        BY FS_Singleton, Zenon
      <4> QED BY <4>3, <4>6, <4>7, Zenon
    <3> QED BY <3>1, <3>2
  <2>8. 1..h.pushed = (UNION {Ids(r.items) : r \in AllQueues}) \cup h.acked \cup h.dropped
                      \cup h.aborted \cup ({inhand.id} \ {0})
    <3>1. \A i : i \in UNION {Ids(r.items) : r \in AllQueues}
                  <=> \/ i \in Ids(b) \/ i \in Ids(o) \/ i \in Ids(q)
                      \/ \E w \in Workers : i \in Ids(inq[w].items)
      <4>1. \A i : i \in UNION {Ids(r.items) : r \in AllQueues}
                    <=> \E r \in AllQueues : i \in Ids(r.items)
        BY Zenon
      <4>2. \A r : r \in AllQueues <=> \/ r = wait \/ r = output \/ r = backlog
                                       \/ \E w \in Workers : r = inq[w]
        BY Zenon DEF AllQueues
      <4> QED BY <4>1, <4>2, Zenon
    <3>2. \A i : i \in 1..h.pushed
                  <=> \/ i \in Ids(b) \/ i \in Ids(x) \/ i \in Ids(o) \/ i \in Ids(q)
                      \/ i \in h.acked \/ i \in h.dropped \/ i \in h.aborted
                      \/ \E w \in Workers : i \in Ids(inq[w].items)
      <4>1. \A w \in Workers : Held[w] = Ids(inq[w].items)
        BY DEF Held
      <4>2. \A i : i \in Ids(Core) <=> \/ i \in Ids(b) \/ i \in Ids(x)
                                       \/ i \in Ids(o) \/ i \in Ids(q)
        BY <2>4, Zenon
      <4> HIDE DEF b, o, q, x
      <4> QED BY <2>6, <4>1, <4>2, ZenonT(30) DEF Covers
    <3>3. \A i : i \in Ids(x) <=> i \in {inhand.id} \ {0}
      BY <2>7, Zenon
    <3> DEFINE U == UNION {Ids(r.items) : r \in AllQueues}
               I == {inhand.id} \ {0}
    <3> HIDE DEF b, o, q, x, U, I
    <3>4. \A i : i \in 1..h.pushed
                  <=> i \in U \cup h.acked \cup h.dropped \cup h.aborted \cup I
      BY <3>1, <3>2, <3>3, ZenonT(30) DEF U, I
    <3>5. 1..h.pushed = U \cup h.acked \cup h.dropped \cup h.aborted \cup I
      BY <3>4, Zenon
    <3> QED BY <3>5, Zenon DEF U, I
  <2>9. h.pushed = TotalLen + Cardinality(h.acked) + Cardinality(h.dropped)
                   + Cardinality(h.aborted) + Cardinality({inhand.id} \ {0})
    <3>1. /\ Len(Core) \in Nat /\ Cardinality(InputPairs(inq)) \in Nat
          /\ Cardinality(h.acked) \in Nat /\ Cardinality(h.dropped) \in Nat
          /\ Cardinality(h.aborted) \in Nat
      BY <2>1, SizesNat, Zenon
    <3>2. TotalLen = Len(q) + Len(o) + Len(b) + Cardinality(InputPairs(inq))
      BY SMT, SMTT(30) DEF TotalLen, InputPairs
    <3>3. h.pushed = Len(Core) + Cardinality(InputPairs(inq)) + Cardinality(h.acked)
                     + Cardinality(h.dropped) + Cardinality(h.aborted)
      BY <2>6, SMT, SMTT(30) DEF Total
    <3>4. Cardinality({inhand.id} \ {0}) = Len(x)
      BY <2>7
    <3>5. Len(b) \in Nat /\ Len(x) \in Nat /\ Len(o) \in Nat /\ Len(q) \in Nat
      BY <2>2, LenFacts, SMT, SMTT(30)
    <3> DEFINE c == Cardinality({inhand.id} \ {0})
               p == Cardinality(InputPairs(inq))
               a == Cardinality(h.acked)
               d == Cardinality(h.dropped)
               e == Cardinality(h.aborted)
    <3>6. /\ Len(Core) = Len(b) + Len(x) + Len(o) + Len(q) /\ c = Len(x)
          /\ TotalLen = Len(q) + Len(o) + Len(b) + p
          /\ h.pushed = Len(Core) + p + a + d + e
          /\ p \in Nat /\ a \in Nat /\ d \in Nat /\ e \in Nat
      BY <2>5, <3>1, <3>2, <3>3, <3>4, ZenonT(30)
    <3> HIDE DEF b, o, q, x, c, p, a, d, e
    <3>7. h.pushed = TotalLen + a + d + e + c
      BY <3>5, <3>6
    <3> QED BY <3>7, Zenon DEF a, c, d, e
  <2> QED BY <2>8, <2>9 DEF NoLossNoDuplication
<1> QED BY <1>1, MessagesInvariance, PTL

=============================================================================
