--------------------- MODULE LogThreadedDestWorker_proof ---------------------
(***************************************************************************)
(* Proofs about LogThreadedDestWorker for any number of messages, any      *)
(* batching, throttling and retry options and any set of answers the       *)
(* driver may give.                                                        *)
(***************************************************************************)
EXTENDS LogThreadedDestWorker, SequenceTheorems, TLAPS

-----------------------------------------------------------------------------
(* The queue and its backlog under the worker's calls.                     *)

WorkerState ==
  [queue : Seq(Messages), wait : Nat, backlog : Seq(Messages), batch : Nat, rewound : Nat,
   errors : 0 .. RetriesOnErrorMax - 1, retries : 0 .. RetriesMax - 1,
   connected : BOOLEAN, suspended : BOOLEAN, batching : BOOLEAN]

\* batch_size is the length of the backlog.
Counted(w) == w.batch = Len(w.backlog)

\* The wait list is the end of the queue.
Placed(w) == w.wait <= Len(w.queue)

\* From w to v the first n messages of the backlog left, and the others are in
\* the backlog and the queue in the order they had.
Leave(w, v, n) ==
  /\ v \in WorkerState /\ Counted(v) /\ (Placed(w) => Placed(v))
  /\ n \in 0 .. Len(w.backlog)
  /\ w.backlog \o w.queue = SubSeq(w.backlog, 1, n) \o (v.backlog \o v.queue)

\* Whatever is on the backlog of v was on that of w.
From(w, v) ==
  \A i \in DOMAIN v.backlog : \E j \in DOMAIN w.backlog : v.backlog[i] = w.backlog[j]

\* What processing an answer does to the worker: n messages of the batch are
\* done, the others stay or are rewound.
Outcome(w, v, n, result) ==
  /\ Leave(w, v, n) /\ From(w, v)
  /\ n > 0 => v.errors = 0
  /\ v.errors <= w.errors \/ (result = "error" /\ v.errors = w.errors + 1)
  /\ result = "error" /\ n > 0 => w.errors + 1 >= RetriesOnErrorMax
  /\ result \notin {"queued", "explicit"} => v.batch = 0
  /\ result \in {"queued", "explicit", "success"} => v.suspended = w.suspended
  /\ result = "success" => v.queue = w.queue
  /\ result = "queued" => v.batch = w.batch /\ v.batching

\* A sequence is what comes before a place followed by what comes after it.
LEMMA SplitAt ==
  ASSUME NEW q \in Seq(Messages), NEW k \in 0 .. Len(q)
  PROVE  /\ SubSeq(q, 1, k) \in Seq(Messages)
         /\ Len(SubSeq(q, 1, k)) = k
         /\ SubSeq(q, k + 1, Len(q)) \in Seq(Messages)
         /\ Len(SubSeq(q, k + 1, Len(q))) = Len(q) - k
         /\ \A i \in 1 .. k : SubSeq(q, 1, k)[i] = q[i]
         /\ \A i \in 1 .. Len(q) - k : SubSeq(q, k + 1, Len(q))[i] = q[k + i]
         /\ q = SubSeq(q, 1, k) \o SubSeq(q, k + 1, Len(q))
<1>1. Len(q) \in Nat /\ \A i \in 1 .. Len(q) : q[i] \in Messages
  BY LenProperties, ElementOfSeq
<1>2. /\ SubSeq(q, 1, k) \in Seq(Messages) /\ Len(SubSeq(q, 1, k)) = k
      /\ \A i \in 1 .. k : SubSeq(q, 1, k)[i] = q[i]
  BY <1>1
<1>3. /\ SubSeq(q, k + 1, Len(q)) \in Seq(Messages)
      /\ Len(SubSeq(q, k + 1, Len(q))) = Len(q) - k
      /\ \A i \in 1 .. Len(q) - k : SubSeq(q, k + 1, Len(q))[i] = q[k + i]
  BY <1>1
<1>4. SubSeq(q, 1, k) \o SubSeq(q, k + 1, Len(q)) = SubSeq(q, 1, Len(q))
  <2>1. 1 \in 1 .. Len(q) + 1 /\ k \in 1 - 1 .. Len(q) /\ Len(q) \in k .. Len(q)
    BY <1>1
  <2> QED BY <2>1, ConcatAdjacentSubSeq, Zenon
<1>5. SubSeq(q, 1, Len(q)) = q
  BY SubSeqFull, Zenon
<1> QED
  BY <1>2, <1>3, <1>4, <1>5, Zenon

\* Concatenation of message sequences is associative.
LEMMA Assoc ==
  ASSUME NEW a \in Seq(Messages), NEW b \in Seq(Messages), NEW c \in Seq(Messages)
  PROVE  (a \o b) \o c = a \o (b \o c)
BY ConcatAssociative

\* Acking (or dropping) n messages takes the oldest n off the backlog.
LEMMA AckFacts ==
  ASSUME NEW w \in WorkerState, Counted(w), NEW n \in 0 .. w.batch
  PROVE  LET v == AckMessages(w, n)
         IN  /\ Leave(w, v, n) /\ From(w, v)
             /\ v.errors = 0 /\ v.batch = w.batch - n
             /\ v.queue = w.queue /\ v.suspended = w.suspended
<1> DEFINE v == AckMessages(w, n)
           a == SubSeq(w.backlog, 1, n)
           b == SubSeq(w.backlog, n + 1, Len(w.backlog))
<1>1. /\ w.backlog \in Seq(Messages) /\ w.queue \in Seq(Messages)
      /\ w.batch = Len(w.backlog) /\ w.batch \in Nat
      /\ n \in 0 .. Len(w.backlog)
  BY DEF WorkerState, Counted
<1>2. /\ a \in Seq(Messages) /\ Len(a) = n
      /\ b \in Seq(Messages) /\ Len(b) = Len(w.backlog) - n
      /\ \A i \in 1 .. Len(w.backlog) - n : b[i] = w.backlog[n + i]
      /\ w.backlog = a \o b
  BY <1>1, SplitAt, Zenon
<1>3. /\ v.backlog = b /\ v.errors = 0 /\ v.batch = w.batch - n
      /\ v.queue = w.queue /\ v.suspended = w.suspended /\ v.wait = w.wait
  BY Zenon DEF WorkerState, AckMessages
<1>4. v \in WorkerState
  <2>1. 0 \in 0 .. RetriesOnErrorMax - 1 /\ w.batch - n \in Nat
    BY <1>1, WorkerConstants
  <2> HIDE DEF b
  <2> QED BY <1>2, <2>1, Zenon DEF WorkerState, AckMessages, b
<1>5. Counted(v)
  BY <1>1, <1>2, <1>3 DEF Counted
<1>6. w.backlog \o w.queue = a \o (b \o w.queue)
  <2>1. a \in Seq(Messages) /\ b \in Seq(Messages) /\ w.queue \in Seq(Messages)
    BY <1>1, <1>2
  <2> HIDE DEF a, b
  <2>2. (a \o b) \o w.queue = a \o (b \o w.queue)
    BY <2>1, Assoc, Zenon
  <2> QED BY <1>2, <2>2, Zenon
<1>7. From(w, v)
  <2> SUFFICES ASSUME NEW i \in DOMAIN b
               PROVE  \E j \in DOMAIN w.backlog : b[i] = w.backlog[j]
    BY <1>3, Zenon DEF From
  <2> HIDE DEF b
  <2>1. DOMAIN b = 1 .. Len(b) /\ DOMAIN w.backlog = 1 .. Len(w.backlog)
    BY <1>1, <1>2, LenProperties, Zenon
  <2>2. i \in 1 .. Len(w.backlog) - n /\ n + i \in DOMAIN w.backlog
    BY <1>1, <1>2, <2>1
  <2> QED BY <1>2, <2>2, Zenon
<1> HIDE DEF v, b
<1>8. Leave(w, v, n)
  BY <1>1, <1>3, <1>4, <1>5, <1>6, Zenon DEF Leave, Placed
<1> QED
  BY <1>3, <1>7, <1>8, Zenon DEF v

\* Rewinding n messages moves the youngest n back in front of the queue.
LEMMA RewindFacts ==
  ASSUME NEW w \in WorkerState, Counted(w), NEW n \in 0 .. w.batch
  PROVE  LET v == RewindMessages(w, n)
         IN  /\ v \in WorkerState /\ Counted(v) /\ From(w, v)
             /\ Placed(w) => Placed(v)
             /\ v.backlog \o v.queue = w.backlog \o w.queue
             /\ v.errors = w.errors /\ v.batch = w.batch - n
             /\ v.suspended = w.suspended
<1> DEFINE v == RewindMessages(w, n)
           k == Len(w.backlog) - n
           a == SubSeq(w.backlog, 1, k)
           b == SubSeq(w.backlog, k + 1, Len(w.backlog))
<1>1. /\ w.backlog \in Seq(Messages) /\ w.queue \in Seq(Messages)
      /\ w.batch = Len(w.backlog) /\ w.batch \in Nat
      /\ n \in Nat /\ k \in 0 .. Len(w.backlog)
  BY DEF WorkerState, Counted
<1>2. /\ a \in Seq(Messages) /\ Len(a) = k
      /\ b \in Seq(Messages)
      /\ \A i \in 1 .. k : a[i] = w.backlog[i]
      /\ w.backlog = a \o b
  BY <1>1, SplitAt, Zenon
<1>3. /\ v.backlog = a /\ v.queue = b \o w.queue /\ v.errors = w.errors
      /\ v.batch = w.batch - n /\ v.suspended = w.suspended /\ v.wait = w.wait
  BY Zenon DEF WorkerState, RewindMessages
<1>4. v \in WorkerState
  <2>1. b \o w.queue \in Seq(Messages) /\ w.batch - n \in Nat
    BY <1>1, <1>2, ConcatProperties
  <2>2. v = [w EXCEPT !.backlog = a, !.queue = b \o w.queue, !.rewound = w.batch,
                      !.batch = w.batch - n]
    BY DEF RewindMessages, WorkerState
  <2> HIDE DEF a, b, v
  <2> QED BY <1>2, <2>1, <2>2, Zenon DEF WorkerState
<1>5. Counted(v)
  BY <1>1, <1>2, <1>3 DEF Counted
<1>6. a \o (b \o w.queue) = w.backlog \o w.queue
  <2>1. a \in Seq(Messages) /\ b \in Seq(Messages) /\ w.queue \in Seq(Messages)
    BY <1>1, <1>2
  <2> HIDE DEF a, b
  <2>2. (a \o b) \o w.queue = a \o (b \o w.queue)
    BY <2>1, Assoc, Zenon
  <2> QED BY <1>2, <2>2, Zenon
<1>7. From(w, v)
  <2> SUFFICES ASSUME NEW i \in DOMAIN a
               PROVE  \E j \in DOMAIN w.backlog : a[i] = w.backlog[j]
    BY <1>3, Zenon DEF From
  <2> HIDE DEF a
  <2>1. DOMAIN a = 1 .. Len(a) /\ DOMAIN w.backlog = 1 .. Len(w.backlog)
    BY <1>1, <1>2, LenProperties, Zenon
  <2>2. i \in 1 .. k /\ i \in DOMAIN w.backlog
    BY <1>1, <1>2, <2>1
  <2> QED BY <1>2, <2>2, Zenon
<1>8. Placed(w) => Placed(v)
  <2> DEFINE i == Len(b)
             j == Len(w.queue)
  <2>1. i \in Nat /\ j \in Nat /\ w.wait \in Nat
    BY <1>1, <1>2, LenProperties DEF WorkerState
  <2> HIDE DEF a, b, v
  <2>2. Len(b \o w.queue) = i + j
    BY <1>1, <1>2, ConcatProperties, ZenonT(30)
  <2> HIDE DEF i, j
  <2>3. w.wait <= j => w.wait <= i + j
    BY <2>1
  <2> QED BY <1>3, <2>2, <2>3, Zenon DEF Placed, j
<1> HIDE DEF v, a, b
<1> QED
  BY <1>3, <1>4, <1>5, <1>6, <1>7, <1>8, Zenon DEF v

\* Disconnecting leaves the messages and the counters alone.
LEMMA DisconnectFacts ==
  ASSUME NEW u \in WorkerState
  PROVE  LET v == DisconnectAndSuspend(u)
         IN  /\ v \in WorkerState
             /\ v.backlog = u.backlog /\ v.queue = u.queue /\ v.wait = u.wait
             /\ v.batch = u.batch /\ v.errors = u.errors
BY Zenon DEF WorkerState, DisconnectAndSuspend

\* Rewinding the whole batch and disconnecting.
LEMMA RewindAllFacts ==
  ASSUME NEW w \in WorkerState, Counted(w), NEW u \in WorkerState,
         u.backlog = w.backlog, u.queue = w.queue, u.wait = w.wait, u.batch = w.batch
  PROVE  LET v == RewindMessages(u, u.batch)
             d == DisconnectAndSuspend(v)
         IN  /\ Leave(w, v, 0) /\ From(w, v) /\ v.batch = 0 /\ v.errors = u.errors
             /\ Leave(w, d, 0) /\ From(w, d) /\ d.batch = 0 /\ d.errors = u.errors
<1> DEFINE v == RewindMessages(u, u.batch)
           d == DisconnectAndSuspend(v)
<1>1. u.batch \in Nat /\ u.batch \in 0 .. u.batch /\ Counted(u)
  BY DEF WorkerState, Counted
<1>2. /\ v \in WorkerState /\ Counted(v) /\ From(u, v) /\ (Placed(u) => Placed(v))
      /\ v.backlog \o v.queue = u.backlog \o u.queue
      /\ v.errors = u.errors /\ v.batch = u.batch - u.batch
  BY <1>1, RewindFacts, Zenon
<1>3. v.batch = 0
  BY <1>1, <1>2
<1> HIDE DEF v
<1>4. /\ d \in WorkerState /\ d.backlog = v.backlog /\ d.queue = v.queue
      /\ d.wait = v.wait /\ d.batch = v.batch /\ d.errors = v.errors
  BY <1>2, DisconnectFacts, Zenon
<1> HIDE DEF d
<1>5. /\ w.backlog \in Seq(Messages) /\ w.queue \in Seq(Messages)
      /\ Len(w.backlog) \in Nat
  BY LenProperties DEF WorkerState
<1>6. w.backlog \o w.queue = SubSeq(w.backlog, 1, 0) \o (w.backlog \o w.queue)
  <2>1. SubSeq(w.backlog, 1, 0) = <<>>
    BY SubSeqEmpty
  <2>2. w.backlog \o w.queue \in Seq(Messages)
    BY <1>5, ConcatProperties, Zenon
  <2> QED BY <2>1, <2>2, ConcatEmptySeq, Zenon
<1>7. 0 \in 0 .. Len(w.backlog)
  BY <1>5
<1>8. Leave(w, v, 0) /\ From(w, v)
  BY <1>2, <1>6, <1>7, Zenon DEF Leave, From, Placed
<1>9. Leave(w, d, 0) /\ From(w, d)
  BY <1>4, <1>8, ZenonT(30) DEF Leave, From, Counted, Placed
<1> QED
  BY <1>2, <1>3, <1>4, <1>8, <1>9, Zenon DEF v, d

\* A worker whose backlog and queue are those of w has lost nothing.
LEMMA StayFacts ==
  ASSUME NEW w \in WorkerState, Counted(w), NEW v \in WorkerState,
         v.backlog = w.backlog, v.queue = w.queue, v.wait = w.wait, v.batch = w.batch
  PROVE  Leave(w, v, 0) /\ From(w, v)
<1>1. /\ w.backlog \in Seq(Messages) /\ w.queue \in Seq(Messages)
      /\ Len(w.backlog) \in Nat
  BY LenProperties DEF WorkerState
<1>2. w.backlog \o w.queue = SubSeq(w.backlog, 1, 0) \o (w.backlog \o w.queue)
  <2>1. SubSeq(w.backlog, 1, 0) = <<>>
    BY SubSeqEmpty
  <2>2. w.backlog \o w.queue \in Seq(Messages)
    BY <1>1, ConcatProperties, Zenon
  <2> QED BY <2>1, <2>2, ConcatEmptySeq, Zenon
<1>3. 0 \in 0 .. Len(w.backlog)
  BY <1>1
<1> QED
  BY <1>2, <1>3, Zenon DEF Leave, From, Counted, Placed

\* Setting a retry counter leaves everything else alone.
LEMMA CounterFacts ==
  ASSUME NEW w \in WorkerState,
         NEW e \in 0 .. RetriesOnErrorMax - 1, NEW r \in 0 .. RetriesMax - 1
  PROVE  /\ LET u == [w EXCEPT !.errors = e]
            IN  /\ u \in WorkerState /\ u.backlog = w.backlog /\ u.queue = w.queue
                /\ u.wait = w.wait /\ u.batch = w.batch /\ u.errors = e
         /\ LET u == [w EXCEPT !.retries = r]
            IN  /\ u \in WorkerState /\ u.backlog = w.backlog /\ u.queue = w.queue
                /\ u.wait = w.wait /\ u.batch = w.batch /\ u.errors = w.errors
BY Zenon DEF WorkerState

\* Every answer of the driver, whatever the counters are.
LEMMA ProcessResultFacts ==
  ASSUME NEW w \in WorkerState, Counted(w), NEW result \in Results,
         NEW acked \in 0 .. w.batch, NEW back \in 0 .. w.batch - acked
  PROVE  \E n \in 0 .. Len(w.backlog) :
           Outcome(w, ProcessResult(w, result, acked, back), n, result)
<1> DEFINE v == ProcessResult(w, result, acked, back)
<1>1. /\ w.batch = Len(w.backlog) /\ w.batch \in Nat
      /\ w.batch \in 0 .. w.batch /\ 0 \in 0 .. w.batch
      /\ w.errors \in 0 .. RetriesOnErrorMax - 1 /\ w.retries \in 0 .. RetriesMax - 1
      /\ RetriesOnErrorMax \in Nat \ {0} /\ RetriesMax \in Nat \ {0}
  BY WorkerConstants DEF WorkerState, Counted
<1> DEFINE a == AckMessages(w, w.batch)
<1>2. /\ Leave(w, a, w.batch) /\ From(w, a) /\ a.errors = 0 /\ a.batch = w.batch - w.batch
      /\ a.queue = w.queue /\ a.suspended = w.suspended
  BY <1>1, AckFacts, Zenon
<1>3. a.batch = 0 /\ a \in WorkerState
  BY <1>1, <1>2 DEF Leave
<1> HIDE DEF a
<1>4. CASE result = "drop"
  <2> DEFINE d == DisconnectAndSuspend(a)
  <2>1. /\ d \in WorkerState /\ d.backlog = a.backlog /\ d.queue = a.queue
        /\ d.wait = a.wait /\ d.batch = a.batch /\ d.errors = a.errors
    BY <1>3, DisconnectFacts, Zenon
  <2>2. v = d
    BY <1>4 DEF ProcessResult, ProcessDrop, a
  <2> HIDE DEF d, v
  <2>3. Leave(w, d, w.batch) /\ From(w, d)
    BY <1>2, <2>1, Zenon DEF Leave, From, Counted, Placed
  <2>4. Outcome(w, v, w.batch, result)
    BY <1>1, <1>2, <1>3, <1>4, <2>1, <2>2, <2>3 DEF Outcome
  <2> QED BY <1>1, <2>4, Zenon DEF v
<1>5. CASE result = "error" /\ w.errors + 1 >= RetriesOnErrorMax
  <2>1. v = a
    BY <1>5 DEF ProcessResult, ProcessError, a
  <2> HIDE DEF v
  <2>2. Outcome(w, v, w.batch, result)
    BY <1>1, <1>2, <1>3, <1>5, <2>1 DEF Outcome
  <2> QED BY <1>1, <2>2, Zenon DEF v
<1>6. CASE result = "error" /\ ~(w.errors + 1 >= RetriesOnErrorMax)
  <2> DEFINE u == [w EXCEPT !.errors = @ + 1]
             d == DisconnectAndSuspend(RewindMessages(u, u.batch))
  <2>1. /\ u \in WorkerState /\ u.backlog = w.backlog /\ u.queue = w.queue
        /\ u.wait = w.wait /\ u.batch = w.batch /\ u.errors = w.errors + 1
    <3>1. w.errors + 1 \in 0 .. RetriesOnErrorMax - 1
      BY <1>1, <1>6
    <3> QED BY <1>1, <3>1, CounterFacts, ZenonT(30)
  <2>2. v = d
    BY <1>6, <2>1 DEF ProcessResult, ProcessError
  <2> HIDE DEF u
  <2>3. Leave(w, d, 0) /\ From(w, d) /\ d.batch = 0 /\ d.errors = u.errors
    BY <2>1, RewindAllFacts, Zenon
  <2> HIDE DEF d, v
  <2>4. Outcome(w, v, 0, result)
    BY <1>1, <1>6, <2>1, <2>2, <2>3 DEF Outcome
  <2> QED BY <1>1, <2>4, Zenon DEF v
<1> DEFINE c == [w EXCEPT !.retries = @ + 1]
           z == [w EXCEPT !.retries = 0]
<1>7. /\ z \in WorkerState /\ z.backlog = w.backlog /\ z.queue = w.queue
      /\ z.wait = w.wait /\ z.batch = w.batch /\ z.errors = w.errors
  <2>1. 0 \in 0 .. RetriesMax - 1
    BY <1>1
  <2> QED BY <1>1, <2>1, CounterFacts, ZenonT(30), SMTT(30)
<1>8. CASE \/ result = "not_connected"
           \/ result = "retry" /\ c.retries >= RetriesMax
  <2> DEFINE d == DisconnectAndSuspend(RewindMessages(z, z.batch))
  <2>1. v = d
    <3>1. CASE result = "not_connected"
      BY <3>1, <1>7 DEF ProcessResult, ProcessNotConnected
    <3>2. CASE result = "retry" /\ c.retries >= RetriesMax
      <4>1. [c EXCEPT !.retries = 0] = z /\ c.batch = z.batch
        BY Zenon DEF WorkerState
      <4> QED BY <3>2, <4>1 DEF ProcessResult, ProcessRetry, ProcessNotConnected
    <3> QED BY <1>8, <3>1, <3>2
  <2> HIDE DEF z
  <2>2. Leave(w, d, 0) /\ From(w, d) /\ d.batch = 0 /\ d.errors = z.errors
    BY <1>7, RewindAllFacts, Zenon
  <2> HIDE DEF d, v
  <2>3. Outcome(w, v, 0, result)
    BY <1>1, <1>7, <1>8, <2>1, <2>2, SMT, SMTT(30) DEF Outcome
  <2> QED BY <1>1, <2>3, Zenon DEF v
<1>9. CASE result = "retry" /\ ~(c.retries >= RetriesMax)
  <2>1. /\ c \in WorkerState /\ c.backlog = w.backlog /\ c.queue = w.queue
        /\ c.wait = w.wait /\ c.batch = w.batch /\ c.errors = w.errors
    <3>1. w.retries + 1 \in 0 .. RetriesMax - 1
      BY <1>1, <1>9, SMT, SMTT(30) DEF WorkerState
    <3> QED BY <1>1, <3>1, CounterFacts, ZenonT(30)
  <2> DEFINE d == RewindMessages(c, c.batch)
  <2>2. v = d
    BY <1>9, <2>1 DEF ProcessResult, ProcessRetry
  <2> HIDE DEF c
  <2>3. Leave(w, d, 0) /\ From(w, d) /\ d.batch = 0 /\ d.errors = c.errors
    BY <2>1, RewindAllFacts, Zenon
  <2> HIDE DEF d, v
  <2>4. Outcome(w, v, 0, result)
    BY <1>1, <1>9, <2>1, <2>2, <2>3 DEF Outcome
  <2> QED BY <1>1, <2>4, Zenon DEF v
<1>10. CASE result = "success"
  <2>1. v = a
    BY <1>10 DEF ProcessResult, a
  <2> HIDE DEF v
  <2>2. Outcome(w, v, w.batch, result)
    BY <1>1, <1>2, <1>3, <1>10, <2>1 DEF Outcome
  <2> QED BY <1>1, <2>2, Zenon DEF v
<1>11. CASE result = "explicit"
  <2> DEFINE u == IF acked = 0 THEN w ELSE AckMessages(w, acked)
             r == RewindMessages(u, back)
  <2>1. /\ Leave(w, u, acked) /\ From(w, u) /\ u.batch = w.batch - acked
        /\ u.errors <= w.errors /\ u.suspended = w.suspended
        /\ acked > 0 => u.errors = 0
    <3>1. CASE acked = 0
      <4>1. Leave(w, w, 0) /\ From(w, w)
        BY StayFacts, Zenon
      <4> QED BY <1>1, <3>1, <4>1
    <3>2. CASE acked # 0
      <4> DEFINE x == AckMessages(w, acked)
      <4>1. /\ Leave(w, x, acked) /\ From(w, x) /\ x.errors = 0
            /\ x.batch = w.batch - acked /\ x.suspended = w.suspended
        BY AckFacts, Zenon
      <4>2. u = x
        BY <3>2
      <4> HIDE DEF x, u
      <4> QED BY <1>1, <4>1, <4>2
    <3> QED BY <3>1, <3>2
  <2>2. v = IF back = 0 THEN u ELSE r
    BY <1>11 DEF ProcessResult
  <2> HIDE DEF u
  <2>3. CASE back = 0
    <3>1. v = u
      BY <2>2, <2>3
    <3> HIDE DEF v
    <3>2. Outcome(w, v, acked, result)
      BY <1>1, <1>11, <2>1, <3>1 DEF Outcome
    <3> QED BY <1>1, <3>2, Zenon DEF v
  <2>4. CASE back # 0
    <3>1. v = r
      BY <2>2, <2>4
    <3>2. u \in WorkerState /\ Counted(u) /\ back \in 0 .. u.batch
      BY <2>1 DEF Leave
    <3>3. /\ r \in WorkerState /\ Counted(r) /\ From(u, r) /\ (Placed(u) => Placed(r))
          /\ r.backlog \o r.queue = u.backlog \o u.queue
          /\ r.errors = u.errors /\ r.suspended = u.suspended
      BY <3>2, RewindFacts, Zenon
    <3> HIDE DEF v, r
    <3>4. Leave(w, r, acked)
      BY <2>1, <3>3, Zenon DEF Leave
    <3>5. From(w, r)
      BY <2>1, <3>3, Zenon DEF From
    <3>6. Outcome(w, v, acked, result)
      BY <1>1, <1>11, <2>1, <3>1, <3>3, <3>4, <3>5 DEF Outcome
    <3> QED BY <1>1, <3>6, Zenon DEF v
  <2> QED BY <2>3, <2>4
<1>12. CASE result = "queued"
  <2> DEFINE u == [w EXCEPT !.batching = TRUE]
  <2>1. /\ u \in WorkerState /\ u.backlog = w.backlog /\ u.queue = w.queue
        /\ u.wait = w.wait /\ u.batch = w.batch /\ u.errors = w.errors /\ u.suspended = w.suspended
        /\ u.batching
    BY Zenon DEF WorkerState
  <2>2. v = u
    BY <1>12 DEF ProcessResult
  <2> HIDE DEF u, v
  <2>3. Leave(w, u, 0) /\ From(w, u)
    BY <2>1, StayFacts, Zenon
  <2>4. Outcome(w, v, 0, result)
    BY <1>1, <1>12, <2>1, <2>2, <2>3 DEF Outcome
  <2> QED BY <1>1, <2>4, Zenon DEF v
<1> HIDE DEF v, c, z
<1>13. result \in {"drop", "error", "not_connected", "explicit", "success", "queued", "retry"}
  BY DEF Results
<1>14. CASE result = "error"
  BY <1>5, <1>6, <1>14, Zenon
<1>15. CASE result = "retry" \/ result = "not_connected"
  BY <1>8, <1>9, <1>15, Zenon
<1> QED
  BY <1>4, <1>10, <1>11, <1>12, <1>13, <1>14, <1>15, Zenon

-----------------------------------------------------------------------------
(* What an answer does to the history.                                     *)

Upto(n) == [i \in 1 .. n |-> i]

\* With d done, the backlog and the queue of w hold the other messages of the
\* first p, in order, and the next one to be done was in as many failed batches
\* as the error counter says, less the g failed flushes of nothing.
Accounts(w, d, f, g, p) ==
  /\ w \in WorkerState /\ Placed(w)
  /\ d \in Seq(Messages) /\ f \in [Messages -> Nat] /\ g \in Nat
  /\ d \o (w.backlog \o w.queue) = Upto(p)
  /\ w.errors <= g + IF Len(d) < p THEN f[Len(d) + 1] ELSE 0

\* Of p messages Len(d) are done, and the next one is the first of the backlog.
LEMMA AccountsFacts ==
  ASSUME NEW w, NEW d, NEW f, NEW g, NEW p \in 0 .. MaxMsgs, Accounts(w, d, f, g, p)
  PROVE  /\ w.backlog \in Seq(Messages) /\ w.queue \in Seq(Messages)
         /\ Len(d) \in Nat /\ Len(w.backlog) \in Nat /\ Len(w.queue) \in Nat
         /\ Len(d) + Len(w.backlog) + Len(w.queue) = p
         /\ \A i \in 1 .. Len(d) : d[i] = i
         /\ Len(w.backlog) > 0 => w.backlog[1] = Len(d) + 1
         /\ w.backlog = <<>> /\ w.queue # <<>> => Head(w.queue) = Len(d) + 1
<1> DEFINE b == w.backlog
           q == w.queue
           r == b \o q
<1>1. d \in Seq(Messages) /\ b \in Seq(Messages) /\ q \in Seq(Messages)
  BY DEF Accounts, WorkerState
<1>2. Len(d) \in Nat /\ Len(b) \in Nat /\ Len(q) \in Nat /\ p \in Nat
  BY <1>1, LenProperties
<1>3. d \o r = Upto(p)
  BY DEF Accounts
<1> HIDE DEF b, q
<1>4. /\ r \in Seq(Messages) /\ Len(r) = Len(b) + Len(q)
      /\ \A i \in 1 .. Len(b) + Len(q) :
           r[i] = IF i <= Len(b) THEN b[i] ELSE q[i - Len(b)]
  BY <1>1, ConcatProperties, Zenon
<1> HIDE DEF r
<1>5. /\ Len(d \o r) = Len(d) + Len(r)
      /\ \A i \in 1 .. Len(d) + Len(r) :
           (d \o r)[i] = IF i <= Len(d) THEN d[i] ELSE r[i - Len(d)]
  <2>1. d \in Seq(Messages) /\ r \in Seq(Messages)
    BY <1>1, <1>4, Zenon
  <2> QED BY <2>1, ConcatProperties, Zenon
<1>6. Len(Upto(p)) = p /\ \A i \in 1 .. p : Upto(p)[i] = i
  BY <1>2 DEF Upto
<1>7. Len(d) + Len(b) + Len(q) = p
  BY <1>2, <1>3, <1>4, <1>5, <1>6
<1>8. \A i \in 1 .. Len(d) : d[i] = i
  <2> TAKE i \in 1 .. Len(d)
  <2>1. i \in 1 .. Len(d) + Len(r) /\ i \in 1 .. p /\ i <= Len(d)
    BY <1>2, <1>4, <1>7
  <2> QED BY <1>3, <1>5, <1>6, <2>1
<1>9. Len(r) > 0 => r[1] = Len(d) + 1
  <2> HAVE Len(r) > 0
  <2>1. /\ Len(d) + 1 \in 1 .. Len(d) + Len(r) /\ Len(d) + 1 \in 1 .. p
        /\ ~(Len(d) + 1 <= Len(d)) /\ (Len(d) + 1) - Len(d) = 1
    BY <1>2, <1>4, <1>7
  <2>2. (d \o r)[Len(d) + 1] = r[1]
    BY <1>5, <2>1
  <2> QED BY <1>3, <1>6, <2>1, <2>2
<1>10. Len(b) > 0 => b[1] = Len(d) + 1
  BY <1>2, <1>4, <1>9
<1>11. b = <<>> /\ q # <<>> => Head(q) = Len(d) + 1
  <2> HAVE b = <<>> /\ q # <<>>
  <2>1. Len(b) = 0 /\ Len(q) > 0
    BY <1>1, EmptySeq
  <2>2. r[1] = q[1]
    BY <1>2, <1>4, <2>1
  <2> QED BY <1>1, <1>2, <1>4, <1>9, <2>1, <2>2
<1> QED
  BY <1>1, <1>2, <1>7, <1>8, <1>10, <1>11, Zenon DEF b, q

\* An answer keeps the accounts and drops a batch for its errors only after
\* retries_on_error_max of them and of the failed flushes of nothing.
LEMMA AnswerFacts ==
  ASSUME NEW w, Accounts(w, done, fails, blank, pushed), Counted(w),
         pushed \in 0 .. MaxMsgs,
         fewest \in Nat, fewest >= RetriesOnErrorMax, first \in Nat, last \in Nat,
         NEW result \in Results, Answer(w, result)
  PROVE  /\ Accounts(s', done', fails', blank', pushed)
         /\ fewest' \in Nat /\ fewest' >= RetriesOnErrorMax
         /\ first' \in Nat /\ last' \in Nat
         /\ \E n \in 0 .. Len(w.backlog) : Outcome(w, s', n, result)
<1>1. /\ w \in WorkerState /\ Placed(w)
      /\ done \in Seq(Messages) /\ fails \in [Messages -> Nat] /\ blank \in Nat
      /\ done \o (w.backlog \o w.queue) = Upto(pushed)
      /\ w.errors <= blank + IF Len(done) < pushed THEN fails[Len(done) + 1] ELSE 0
      /\ w.batch \in Nat /\ w.batch = Len(w.backlog) /\ w.errors \in Nat
      /\ RetriesOnErrorMax \in Nat \ {0}
      /\ MaxMsgs \in Nat /\ pushed \in Nat /\ pushed <= MaxMsgs
  BY WorkerConstants DEF Accounts, Counted, WorkerState
<1>2. /\ w.backlog \in Seq(Messages) /\ w.queue \in Seq(Messages)
      /\ Len(done) \in Nat /\ Len(w.backlog) \in Nat /\ Len(w.queue) \in Nat
      /\ Len(done) + Len(w.backlog) + Len(w.queue) = pushed
      /\ \A i \in 1 .. Len(done) : done[i] = i
      /\ Len(w.backlog) > 0 => w.backlog[1] = Len(done) + 1
      /\ w.backlog = <<>> /\ w.queue # <<>> => Head(w.queue) = Len(done) + 1
  BY AccountsFacts, Zenon
<1> DEFINE ld == Len(done)
           lb == Len(w.backlog)
           lq == Len(w.queue)
<1>3. /\ ld \in Nat /\ lb \in Nat /\ lq \in Nat /\ ld + lb + lq = pushed
       /\ MaxMsgs \in Nat /\ pushed \in Nat /\ pushed <= MaxMsgs
  BY <1>1, <1>2, Zenon
<1>4. /\ w.errors <= blank + (IF ld < pushed THEN fails[ld + 1] ELSE 0)
      /\ w.errors \in Nat /\ blank \in Nat
  BY <1>1, Zenon
<1>5. fails \in [Messages -> Nat] /\ (ld < pushed => ld + 1 \in Messages)
  <2>1. fails \in [Messages -> Nat]
    BY <1>1, Zenon
  <2> HIDE DEF ld, lb, lq
  <2>2. ld < pushed => ld + 1 \in 1 .. MaxMsgs
    BY <1>3
  <2> QED BY <2>1, <2>2, Zenon DEF Messages
<1>6. ld < pushed => w.errors <= blank + fails[ld + 1] /\ fails[ld + 1] \in Nat
  <2> HIDE DEF ld, lb, lq
  <2> QED BY <1>3, <1>4, <1>5
<1>7. ~(ld < pushed) => w.errors <= blank /\ lb = 0
  <2> HIDE DEF ld, lb, lq
  <2> QED BY <1>3, <1>4
<1>8. PICK acked \in 0 .. w.batch :
        \E back \in 0 .. w.batch - acked : s' = ProcessResult(w, result, acked, back)
  BY Zenon DEF Answer
<1>9. PICK back \in 0 .. w.batch - acked : s' = ProcessResult(w, result, acked, back)
  BY <1>8, Zenon
<1>10. PICK n \in 0 .. Len(w.backlog) : Outcome(w, s', n, result)
  <2>1. \E n \in 0 .. Len(w.backlog) :
          Outcome(w, ProcessResult(w, result, acked, back), n, result)
    BY <1>1, <1>9, ProcessResultFacts, Zenon
  <2> QED BY <1>9, <2>1, Zenon
<1> DEFINE a == SubSeq(w.backlog, 1, n)
           r == s'.backlog \o s'.queue
<1>11. /\ s' \in WorkerState /\ Placed(s') /\ w.backlog \o w.queue = a \o r
      /\ s'.backlog \in Seq(Messages) /\ s'.queue \in Seq(Messages)
      /\ Len(s'.backlog) \in Nat /\ Len(s'.queue) \in Nat
  BY <1>1, <1>10, LenProperties DEF Outcome, Leave, WorkerState
<1>12. a \in Seq(Messages) /\ Len(a) = n
  BY <1>2, SplitAt, Zenon
<1>13. r \in Seq(Messages) /\ Len(r) = Len(s'.backlog) + Len(s'.queue)
  BY <1>11, ConcatProperties, Zenon
<1>14. Len(w.backlog) + Len(w.queue) - Len(s'.backlog) - Len(s'.queue) = n
  <2>1. Len(w.backlog \o w.queue) = Len(w.backlog) + Len(w.queue)
    BY <1>2, ConcatProperties, ZenonT(30)
  <2> HIDE DEF a, r
  <2>2. Len(a \o r) = Len(a) + Len(r)
    BY <1>12, <1>13, ConcatProperties, Zenon
  <2>3. Len(w.backlog) + Len(w.queue) = Len(a) + Len(r)
    BY <1>11, <2>1, <2>2, Zenon
  <2> DEFINE x == Len(s'.backlog)
             y == Len(s'.queue)
  <2>4. lb \in Nat /\ lq \in Nat /\ x \in Nat /\ y \in Nat /\ lb + lq = n + (x + y)
    BY <1>11, <1>12, <1>13, <1>3, <2>3, Zenon
  <2>5. n \in 0 .. lb
    OBVIOUS
  <2>6. lb + lq - x - y = n
    <3> HIDE DEF lb, lq, x, y
    <3> QED BY <2>4, <2>5
  <2> QED BY <2>6, Zenon
<1>15. done' = done \o a
  BY <1>14, Zenon DEF Answer
<1>16. done' \in Seq(Messages) /\ Len(done') = Len(done) + n
  <2> HIDE DEF a
  <2> QED BY <1>1, <1>12, <1>15, ConcatProperties, ZenonT(30)
<1>17. done' \o r = Upto(pushed)
  <2> HIDE DEF a, r
  <2>1. (done \o a) \o r = done \o (a \o r)
    BY <1>1, <1>12, <1>13, Assoc, Zenon
  <2> QED BY <1>1, <1>11, <1>15, <2>1, Zenon
<1> DEFINE failed(m) == result = "error" /\ \E i \in DOMAIN w.backlog : w.backlog[i] = m
           isdone(m) == \E i \in DOMAIN done' : done'[i] = m
<1>18. fails' = [m \in Messages |->
                   IF isdone(m) THEN 0
                   ELSE IF failed(m) /\ fails[m] < RetriesOnErrorMax THEN fails[m] + 1
                   ELSE fails[m]]
  <2>1. DOMAIN fails = Messages
    BY <1>1
  <2> QED BY <2>1 DEF Answer
<1>19. fails' \in [Messages -> Nat]
  <2> HIDE DEF failed, isdone
  <2> QED BY <1>1, <1>18, SMT, SMTT(30)
<1>20. blank' \in Nat /\ s'.errors \in Nat /\ s'.errors < RetriesOnErrorMax
  <2>1. s'.errors \in 0 .. RetriesOnErrorMax - 1
    BY <1>11 DEF WorkerState
  <2>2. blank' = 0 \/ blank' = blank + 1 \/ blank' = blank
    BY Zenon DEF Answer
  <2> QED BY <1>1, <2>1, <2>2
<1>21. s'.errors <= blank' + IF Len(done') < pushed THEN fails'[Len(done') + 1] ELSE 0
  <2>1. Len(done') < pushed => fails'[Len(done') + 1] \in Nat
    <3>1. Len(done') < pushed => Len(done') + 1 \in Messages
      <4> DEFINE l == Len(done')
      <4>1. l \in Nat /\ MaxMsgs \in Nat /\ pushed <= MaxMsgs /\ pushed \in Nat
        BY <1>16, <1>3, LenProperties
      <4> HIDE DEF l
      <4>2. l < pushed => l + 1 \in 1 .. MaxMsgs
        BY <4>1
      <4> QED BY <4>2, Zenon DEF l, Messages
    <3> QED BY <1>19, <3>1
  <2>2. CASE s'.errors = 0
    <3>1. PICK x \in Nat : x = IF Len(done') < pushed THEN fails'[Len(done') + 1] ELSE 0
      BY <2>1
    <3>2. PICK y \in Nat : y = blank'
      BY <1>20
    <3>3. 0 <= y + x
      OBVIOUS
    <3> QED BY <2>2, <3>1, <3>2, <3>3, Zenon
  <2>3. CASE s'.errors # 0
    <3>1. n = 0
      BY <1>10, <2>3 DEF Outcome
    <3>2. blank' = IF result = "error" /\ w.batch = 0 THEN blank + 1 ELSE blank
      BY <2>3, Zenon DEF Answer
    <3>3. s'.errors <= w.errors \/ (result = "error" /\ s'.errors = w.errors + 1)
      BY <1>10 DEF Outcome
    <3>4. /\ Len(done') = Len(done)
          /\ \A i \in 1 .. Len(done) : done'[i] = i
          /\ DOMAIN done' = 1 .. Len(done)
      <4>1. Len(done') = Len(done) /\ DOMAIN done' = 1 .. Len(done)
        BY <1>2, <1>16, <3>1, LenProperties
      <4>2. \A i \in 1 .. Len(done) + Len(a) :
              (done \o a)[i] = IF i <= Len(done) THEN done[i] ELSE a[i - Len(done)]
        <5>1. done \in Seq(Messages) /\ a \in Seq(Messages)
          BY <1>1, <1>12
        <5> HIDE DEF a
        <5> QED BY <5>1, ConcatProperties, Zenon
      <4>3. \A i \in 1 .. Len(done) : done'[i] = done[i]
        <5> HIDE DEF a
        <5> QED BY <1>2, <1>12, <1>15, <3>1, <4>2
      <4> QED BY <1>2, <4>1, <4>3, SMT, SMTT(30)
    <3>5. ~isdone(Len(done) + 1)
      BY <1>2, <3>4
    <3>6. CASE Len(done) < pushed
      <4> DEFINE m == Len(done) + 1
      <4>1. m \in Messages /\ w.errors <= blank + fails[m] /\ fails[m] \in Nat
        BY <1>5, <1>6, <3>6, Zenon
      <4>2. fails'[m] = IF failed(m) /\ fails[m] < RetriesOnErrorMax
                        THEN fails[m] + 1 ELSE fails[m]
        <5> HIDE DEF m, failed, isdone
        <5> QED BY <1>18, <3>5, <4>1 DEF m
      <4>3. result = "error" /\ w.batch # 0 => failed(m)
        <5> HAVE result = "error" /\ w.batch # 0
        <5>1. Len(w.backlog) > 0 /\ w.backlog[1] = m /\ 1 \in DOMAIN w.backlog
          BY <1>1, <1>2, LenProperties
        <5> QED BY <5>1
      <4> HIDE DEF failed
      <4>4. s'.errors <= blank' + fails'[m]
        BY <1>1, <1>20, <3>2, <3>3, <4>1, <4>2, <4>3, SMT, SMTT(30)
      <4> QED BY <3>4, <3>6, <4>4
    <3>7. CASE ~(Len(done) < pushed)
      <4>1. w.errors <= blank /\ w.batch = 0
        BY <1>1, <1>7, <3>7, Zenon
      <4>2. s'.errors <= blank'
        BY <1>1, <1>20, <3>2, <3>3, <4>1, SMT, SMTT(30)
      <4> QED BY <1>20, <3>4, <3>7, <4>2
    <3> QED BY <3>6, <3>7
  <2> QED BY <2>2, <2>3
<1>22. Accounts(s', done', fails', blank', pushed)
  <2> HIDE DEF a
  <2> QED BY <1>11, <1>16, <1>17, <1>19, <1>20, <1>21, Zenon DEF Accounts
<1>23. fewest' \in Nat /\ fewest' >= RetriesOnErrorMax
  <2>1. fewest' = IF result = "error" /\ n > 0 /\ fails[w.backlog[1]] + blank + 1 < fewest
                  THEN fails[w.backlog[1]] + blank + 1 ELSE fewest
    BY <1>14, Zenon DEF Answer
  <2>2. CASE result = "error" /\ n > 0
    <3>1. w.errors + 1 >= RetriesOnErrorMax
      BY <1>10, <2>2 DEF Outcome
    <3>2. w.backlog[1] = Len(done) + 1 /\ Len(done) < pushed
      <4>1. n \in 0 .. lb
        OBVIOUS
      <4>2. lb > 0 /\ ld < pushed
        <5> HIDE DEF lb, ld, lq
        <5> QED BY <1>3, <2>2, <4>1
      <4> QED BY <1>2, <4>2, Zenon
    <3>3. fails[w.backlog[1]] \in Nat /\ w.errors <= blank + fails[w.backlog[1]]
      <4>1. w.errors <= blank + fails[ld + 1] /\ fails[ld + 1] \in Nat
        BY <1>6, <3>2, Zenon
      <4> QED BY <1>1, <3>2, <4>1
    <3>4. fails[w.backlog[1]] + blank + 1 >= RetriesOnErrorMax
      BY <1>1, <3>1, <3>3, SMT, SMTT(30)
    <3> QED BY <1>1, <2>1, <3>3, <3>4, SMT, SMTT(30)
  <2>3. CASE ~(result = "error" /\ n > 0)
    BY <2>1, <2>3
  <2> QED BY <2>2, <2>3
<1>24. first' \in Nat /\ last' \in Nat
  <2>1. \/ first' = first /\ last' = last
        \/ first' = 0 /\ last' = 0
        \/ first' = (IF first = 0 THEN w.batch ELSE first) /\ last' = w.batch
    BY Zenon DEF Answer
  <2> QED BY <1>1, <2>1
<1> QED
  BY <1>10, <1>22, <1>23, <1>24, Zenon

-----------------------------------------------------------------------------
(* The other moves of messages.                                            *)

\* Flags and the countdown do not touch the accounts.
LEMMA SameMessages ==
  ASSUME NEW w, NEW v \in WorkerState, NEW d, NEW f, NEW g, NEW p, Accounts(w, d, f, g, p),
         v.backlog = w.backlog, v.queue = w.queue, v.errors = w.errors, Placed(v)
  PROVE  Accounts(v, d, f, g, p)
BY Zenon DEF Accounts

\* Taking over the wait list moves no message.
LEMMA FetchFacts ==
  ASSUME NEW w \in WorkerState, Placed(w)
  PROVE  LET v == Fetch(w)
         IN  /\ v \in WorkerState /\ Placed(v)
             /\ v.backlog = w.backlog /\ v.queue = w.queue /\ v.batch = w.batch
             /\ v.errors = w.errors /\ v.suspended = w.suspended /\ v.rewound = w.rewound
             /\ w.queue # <<>> => v.wait < Len(w.queue)
<1> DEFINE n == IF w.wait = Len(w.queue) THEN 0 ELSE w.wait
           v == Fetch(w)
<1>1. w.queue \in Seq(Messages) /\ Len(w.queue) \in Nat /\ w.wait \in Nat
  BY LenProperties DEF WorkerState
<1>2. n \in Nat /\ n <= Len(w.queue) /\ (Len(w.queue) > 0 => n < Len(w.queue))
  BY <1>1 DEF Placed
<1>3. w.queue # <<>> => Len(w.queue) > 0
  BY <1>1, EmptySeq
<1>4. v = [w EXCEPT !.wait = n]
  BY Zenon DEF Fetch, WorkerState
<1> HIDE DEF n, v
<1>5. /\ v \in WorkerState /\ v.wait = n
      /\ v.backlog = w.backlog /\ v.queue = w.queue /\ v.batch = w.batch
      /\ v.errors = w.errors /\ v.suspended = w.suspended /\ v.rewound = w.rewound
  BY <1>2, <1>4, Zenon DEF WorkerState
<1>6. Placed(v) /\ (w.queue # <<>> => v.wait < Len(w.queue))
  BY <1>2, <1>3, <1>5, Zenon DEF Placed
<1> QED
  BY <1>5, <1>6, Zenon DEF v

\* Nor does it change the accounts.
LEMMA FetchAccounts ==
  ASSUME NEW w, NEW d, NEW f, NEW g, NEW p, Accounts(w, d, f, g, p)
  PROVE  LET v == Fetch(w)
         IN  /\ Accounts(v, d, f, g, p) /\ (Counted(w) => Counted(v)) /\ v \in WorkerState
             /\ v.backlog = w.backlog /\ v.queue = w.queue /\ v.batch = w.batch
             /\ v.suspended = w.suspended /\ v.rewound = w.rewound
<1> DEFINE v == Fetch(w)
<1>1. w \in WorkerState /\ Placed(w)
  BY DEF Accounts
<1>2. /\ v \in WorkerState /\ Placed(v)
      /\ v.backlog = w.backlog /\ v.queue = w.queue /\ v.batch = w.batch
      /\ v.errors = w.errors /\ v.suspended = w.suspended /\ v.rewound = w.rewound
  BY <1>1, FetchFacts, Zenon
<1> HIDE DEF v
<1>3. Accounts(v, d, f, g, p)
  BY <1>2, SameMessages, Zenon
<1> QED
  BY <1>2, <1>3, Zenon DEF v, Counted

\* Popping the head of the queue to the backlog.
LEMMA PopFacts ==
  ASSUME NEW w, NEW d, NEW f, NEW g, NEW p,
         Accounts(w, d, f, g, p), Counted(w), w.queue # <<>>
  PROVE  LET v == Pop(w)
         IN  /\ Accounts(v, d, f, g, p) /\ Counted(v) /\ v.batch = w.batch + 1
             /\ v.suspended = w.suspended /\ v.rewound = w.rewound
             /\ v.backlog = Append(w.backlog, Head(w.queue))
<1> DEFINE h == Head(w.queue)
           t == Tail(w.queue)
           b == w.backlog
           u == Fetch(w)
           v == Pop(w)
<1>1. /\ w \in WorkerState /\ Placed(w) /\ b \in Seq(Messages) /\ w.queue \in Seq(Messages)
      /\ w.batch \in Nat
  BY DEF Accounts, WorkerState
<1>2. /\ h \in Messages /\ t \in Seq(Messages) /\ w.queue = <<h>> \o t
      /\ Len(t) = Len(w.queue) - 1 /\ Len(w.queue) \in Nat
  BY <1>1, HeadTailProperties, LenProperties
<1>3. /\ Append(b, h) \in Seq(Messages) /\ Len(Append(b, h)) = Len(b) + 1
      /\ Append(b, h) = b \o <<h>>
  BY <1>1, <1>2, AppendProperties, AppendIsConcat, SMT, SMTT(30)
<1>4. /\ u \in WorkerState /\ u.backlog = b /\ u.queue = w.queue /\ u.batch = w.batch
      /\ u.errors = w.errors /\ u.suspended = w.suspended /\ u.rewound = w.rewound
      /\ u.wait < Len(w.queue) /\ u.wait \in Nat
  <2>1. /\ u \in WorkerState
        /\ u.backlog = b /\ u.queue = w.queue /\ u.batch = w.batch
        /\ u.errors = w.errors /\ u.suspended = w.suspended /\ u.rewound = w.rewound
        /\ w.queue # <<>> => u.wait < Len(w.queue)
    BY <1>1, FetchFacts, Zenon
  <2> HIDE DEF u
  <2>2. u.wait \in Nat
    BY <2>1 DEF WorkerState
  <2> QED BY <2>1, <2>2, Zenon
<1>5. v = [u EXCEPT !.queue = t, !.backlog = Append(b, h), !.batch = w.batch + 1]
  <2> HIDE DEF u
  <2>1. v = [u EXCEPT !.queue = Tail(@), !.backlog = Append(@, h), !.batch = @ + 1]
    BY DEF Pop, u
  <2> HIDE DEF v
  <2> QED BY <1>4, <2>1 DEF WorkerState
<1> HIDE DEF u, v, b, t, h
<1>6. /\ v \in WorkerState
      /\ v.queue = t /\ v.backlog = Append(b, h) /\ v.batch = w.batch + 1
      /\ v.errors = u.errors /\ v.suspended = u.suspended /\ v.rewound = u.rewound
      /\ v.wait = u.wait
  <2>1. w.batch + 1 \in Nat
    BY <1>1
  <2> QED BY <1>2, <1>3, <1>4, <1>5, <2>1, Zenon DEF WorkerState
<1>7. Counted(v)
  BY <1>1, <1>3, <1>6 DEF Counted, b
<1>8. Placed(v)
  <2>1. u.wait <= Len(w.queue) - 1
    BY <1>2, <1>4
  <2> QED BY <1>2, <1>6, <2>1, Zenon DEF Placed
<1>9. Append(b, h) \o t = b \o w.queue
  <2>1. <<h>> \in Seq(Messages)
    BY <1>2
  <2>2. (b \o <<h>>) \o t = b \o (<<h>> \o t)
    BY <1>1, <1>2, <2>1, Assoc, Zenon
  <2> QED BY <1>2, <1>3, <2>2, Zenon
<1>10. Accounts(v, d, f, g, p)
  BY <1>4, <1>6, <1>8, <1>9, Zenon DEF Accounts, b
<1> QED
  BY <1>4, <1>6, <1>7, <1>10, Zenon DEF v, b, h

\* A push appends a message to the queue and its wait list.
LEMMA PushState ==
  ASSUME NEW w \in WorkerState, NEW e \in Messages
  PROVE  LET v == [w EXCEPT !.queue = Append(@, e), !.wait = @ + 1]
         IN  /\ v \in WorkerState /\ (Placed(w) => Placed(v))
             /\ v.queue = Append(w.queue, e) /\ v.wait = w.wait + 1
             /\ v.backlog = w.backlog /\ v.batch = w.batch /\ v.errors = w.errors
             /\ v.suspended = w.suspended /\ v.rewound = w.rewound
<1> DEFINE q == w.queue
           r == Append(q, e)
           v == [w EXCEPT !.queue = Append(@, e), !.wait = @ + 1]
<1>1. q \in Seq(Messages) /\ w.wait \in Nat /\ w.wait + 1 \in Nat /\ Len(q) \in Nat
  BY LenProperties DEF WorkerState
<1>2. v = [w EXCEPT !.queue = r, !.wait = w.wait + 1]
  BY Zenon DEF WorkerState
<1> HIDE DEF q, v
<1>3. r \in Seq(Messages) /\ Len(r) = Len(q) + 1
  BY <1>1, AppendProperties
<1> HIDE DEF r
<1>4. /\ v \in WorkerState /\ v.queue = r /\ v.wait = w.wait + 1
      /\ v.backlog = w.backlog /\ v.batch = w.batch /\ v.errors = w.errors
      /\ v.suspended = w.suspended /\ v.rewound = w.rewound
  BY <1>1, <1>2, <1>3, Zenon DEF WorkerState
<1>5. Placed(w) => Placed(v)
  BY <1>1, <1>3, <1>4 DEF Placed, q
<1> QED
  BY <1>4, <1>5, Zenon DEF v, r, q

\* A push appends the next message to the queue.
LEMMA PushFacts ==
  ASSUME NEW w, NEW d, NEW f, NEW g, NEW p \in 0 .. MaxMsgs - 1, Accounts(w, d, f, g, p),
         NEW v \in WorkerState, Placed(v), v.queue = Append(w.queue, p + 1),
         v.backlog = w.backlog, v.errors = w.errors
  PROVE  Accounts(v, d, f, g, p + 1)
<1> DEFINE b == w.backlog
           q == w.queue
<1>1. /\ w \in WorkerState /\ Placed(w) /\ b \in Seq(Messages) /\ q \in Seq(Messages)
      /\ d \in Seq(Messages) /\ f \in [Messages -> Nat] /\ g \in Nat
      /\ d \o (b \o q) = Upto(p)
      /\ w.errors \in Nat
      /\ w.errors <= g + IF Len(d) < p THEN f[Len(d) + 1] ELSE 0
  BY WorkerConstants DEF Accounts, WorkerState
<1>2. MaxMsgs \in Nat /\ p \in Nat /\ p + 1 \in Messages
  BY WorkerConstants DEF Messages
<1>3. Append(q, p + 1) \in Seq(Messages) /\ Append(q, p + 1) = q \o <<p + 1>>
  BY <1>1, <1>2, AppendProperties, AppendIsConcat, SMT, SMTT(30)
<1>4. /\ v.queue = Append(q, p + 1) /\ v.backlog = b
      /\ v.errors = w.errors /\ v \in WorkerState /\ Placed(v)
  BY Zenon
<1>5. d \o (b \o Append(q, p + 1)) = Upto(p + 1)
  <2> DEFINE e == <<p + 1>>
             r == b \o q
  <2>1. e \in Seq(Messages)
    BY <1>2
  <2>2. r \in Seq(Messages)
    BY <1>1, ConcatProperties, Zenon
  <2> HIDE DEF b, q, e
  <2>3. b \o (q \o e) = r \o e
    BY <1>1, <2>1, Assoc, ZenonT(30)
  <2> HIDE DEF r
  <2>4. d \o (r \o e) = (d \o r) \o e
    BY <1>1, <2>1, <2>2, Assoc, ZenonT(30)
  <2>5. d \o (b \o Append(q, p + 1)) = Upto(p) \o e
    BY <1>1, <1>3, <2>3, <2>4, Zenon DEF e, r
  <2>6. Upto(p) \o <<p + 1>> = Upto(p + 1)
    BY <1>2 DEF Upto
  <2> QED BY <2>5, <2>6, Zenon DEF e
<1>6. v.errors <= g + IF Len(d) < p + 1 THEN f[Len(d) + 1] ELSE 0
  <2> DEFINE l == Len(d)
  <2>1. l \in Nat /\ l <= p
    <3>1. p \in 0 .. MaxMsgs
      BY <1>2
    <3>2. /\ w.backlog \in Seq(Messages) /\ w.queue \in Seq(Messages)
          /\ Len(d) \in Nat /\ Len(w.backlog) \in Nat /\ Len(w.queue) \in Nat
          /\ Len(d) + Len(w.backlog) + Len(w.queue) = p
          /\ \A i \in 1 .. Len(d) : d[i] = i
          /\ Len(w.backlog) > 0 => w.backlog[1] = Len(d) + 1
          /\ w.backlog = <<>> /\ w.queue # <<>> => Head(w.queue) = Len(d) + 1
      BY <3>1, AccountsFacts, Zenon
    <3> DEFINE x == Len(w.backlog)
               y == Len(w.queue)
    <3>3. l \in Nat /\ x \in Nat /\ y \in Nat /\ l + x + y = p
      BY <3>2, Zenon
    <3> HIDE DEF l, x, y
    <3> QED BY <1>2, <3>3
  <2>2. w.errors <= g + IF l < p THEN f[l + 1] ELSE 0
    BY <1>1, Zenon
  <2> HIDE DEF l
  <2>3. l + 1 \in Messages
    BY <1>2, <2>1 DEF Messages
  <2>4. f[l + 1] \in Nat
    BY <1>1, <2>3
  <2>5. w.errors <= g + IF l < p + 1 THEN f[l + 1] ELSE 0
    BY <1>1, <1>2, <2>1, <2>2, <2>4, SMT, SMTT(30)
  <2> QED BY <1>4, <2>5, Zenon DEF l
<1> QED
  BY <1>1, <1>4, <1>5, <1>6, Zenon DEF Accounts

-----------------------------------------------------------------------------
(* The inductive invariant.                                                *)

\* Every message is accounted for, and so is every failure of the next one.
Books ==
  /\ Accounts(s, done, fails, blank, pushed)
  /\ fewest \in Nat /\ DroppedAfterRetries
  /\ first \in Nat /\ last \in Nat
  /\ pushed \in 0 .. MaxMsgs

\* Of a queue q with a wait list of n, the messages a that were on the backlog
\* are behind the b that were on the output list, if there are any.
Spliced(q, n, d, p) ==
  \E a, b, c \in Seq(Messages) :
    /\ q = b \o (a \o c) /\ Len(c) = n
    /\ d \o (a \o (b \o c)) = Upto(p)
    /\ DiskQueue \/ FlushSettles => b = <<>>

\* What the worker that exited has left.
Left ==
  /\ s \in WorkerState /\ s.backlog = <<>>
  /\ done \in Seq(Messages) /\ fails \in [Messages -> Nat] /\ blank \in Nat
  /\ fewest \in Nat /\ DroppedAfterRetries
  /\ first \in Nat /\ last \in Nat
  /\ pushed \in 0 .. MaxMsgs
  /\ Spliced(s.queue, s.wait, done, pushed)

\* The types of what the answers of the driver do not change.
Flags ==
  /\ last_key \in {NoKey} \union {Key[m] : m \in Messages}
  /\ elapsed \in BOOLEAN /\ notify \in BOOLEAN /\ wake \in BOOLEAN
  /\ shutdown \in BOOLEAN /\ term \in BOOLEAN
  /\ buckets \in 0 .. Throttle
  /\ watches \subseteq {"do_work", "reopen", "throttle", "flush"}
  /\ pc \in {"idle", "loop", "pop", "full", "tail", "after", "final", "exit", "exited"}

\* An idle worker has something that wakes it, or the queue will tell it of
\* the next message.
Awake ==
  pc = "idle" /\ ~term =>
    \/ watches # {}
    \/ wake
    \/ notify /\ s.queue = <<>> /\ s.batch = 0

Inv ==
  /\ pc # "exited" => Books /\ Counted(s)
  /\ pc = "exit" /\ FlushSettles => s.backlog = <<>>
  /\ pc = "exited" => Left
  /\ Flags
  /\ Awake

\* What holds before and after the exit.
LEMMA InvFacts ==
  ASSUME Inv
  PROVE  /\ s \in WorkerState /\ done \in Seq(Messages) /\ pushed \in 0 .. MaxMsgs
         /\ first \in Nat /\ last \in Nat /\ Flags
         /\ pc # "exited" => Books /\ Counted(s) /\ Accounts(s, done, fails, blank, pushed)
BY Zenon DEF Inv, Books, Accounts, Left

\* An answer of the driver keeps the books.
LEMMA AnswerBooks ==
  ASSUME Books, NEW w, Accounts(w, done, fails, blank, pushed), Counted(w),
         NEW result \in Results, Answer(w, result), pushed' = pushed
  PROVE  Books' /\ Counted(s')
<1>1. /\ pushed \in 0 .. MaxMsgs /\ fewest \in Nat /\ fewest >= RetriesOnErrorMax
      /\ first \in Nat /\ last \in Nat
  BY DEF Books, DroppedAfterRetries
<1>2. /\ Accounts(s', done', fails', blank', pushed)
      /\ fewest' \in Nat /\ fewest' >= RetriesOnErrorMax
      /\ first' \in Nat /\ last' \in Nat
      /\ \E n \in 0 .. Len(w.backlog) : Outcome(w, s', n, result)
  BY <1>1, AnswerFacts, Zenon
<1>3. Counted(s')
  BY <1>2, Zenon DEF Outcome, Leave
<1>4. Books'
  BY <1>1, <1>2, Zenon DEF Books, DroppedAfterRetries
<1> QED
  BY <1>3, <1>4

\* So does a flush, which does nothing while the worker is suspended.
LEMMA FlushBooks ==
  ASSUME Books, NEW w, Accounts(w, done, fails, blank, pushed), Counted(w),
         PerformFlush(w), pushed' = pushed
  PROVE  Books' /\ Counted(s')
<1>1. CASE w.suspended
  <2>1. s' = w /\ done' = done /\ fails' = fails /\ blank' = blank /\ fewest' = fewest
        /\ first' = first /\ last' = last
    BY <1>1 DEF PerformFlush, history
  <2> QED BY <2>1, Zenon DEF Books, DroppedAfterRetries, Counted
<1>2. CASE ~w.suspended
  <2>1. PICK result \in FlushResults : Answer(w, result)
    BY <1>2 DEF PerformFlush, Flush
  <2>2. result \in Results
    BY <2>1, WorkerConstants
  <2> QED BY <2>1, <2>2, AnswerBooks, Zenon
<1> QED
  BY <1>1, <1>2

\* Nothing of the history changes, and the messages stay where they are.
LEMMA StillBooks ==
  ASSUME Books, s' \in WorkerState, s'.backlog = s.backlog, s'.queue = s.queue,
         s'.errors = s.errors, Placed(s'), UNCHANGED history, pushed' = pushed
  PROVE  Books'
<1>1. /\ done' = done /\ fails' = fails /\ blank' = blank /\ fewest' = fewest
      /\ first' = first /\ last' = last
  BY DEF history
<1>2. Accounts(s', done, fails, blank, pushed)
  BY SameMessages, Zenon DEF Books
<1> QED
  BY <1>1, <1>2, Zenon DEF Books, DroppedAfterRetries

\* _perform_work keeps the books, whichever way it takes.
LEMMA WorkBooks ==
  ASSUME Books, Counted(s), PerformWork
  PROVE  Books' /\ Counted(s')
<1>1. pushed' = pushed /\ s \in WorkerState /\ Placed(s)
  BY DEF PerformWork, Books, Accounts
<1>2. PICK by \in watches :
        \/ Connect
        \/ StartInserts(by = "throttle")
        \/ Throttled(by = "throttle")
        \/ FlushPending(by = "throttle")
        \/ WaitForItems
  BY DEF PerformWork
<1>3. CASE Connect
  <2>1. PICK ok \in BOOLEAN : s' = [s EXCEPT !.connected = ok, !.suspended = ~ok]
    BY <1>3, Zenon DEF Connect
  <2>2. /\ s' \in WorkerState /\ s'.backlog = s.backlog /\ s'.queue = s.queue
        /\ s'.errors = s.errors /\ s'.batch = s.batch /\ s'.wait = s.wait
    BY <1>1, <2>1, Zenon DEF WorkerState
  <2>3. UNCHANGED history
    BY <1>3 DEF Connect
  <2> QED BY <1>1, <2>2, <2>3, StillBooks, ZenonT(30) DEF Counted, Placed
<1> DEFINE w == [s EXCEPT !.suspended = FALSE]
<1>4. /\ w \in WorkerState /\ w.backlog = s.backlog /\ w.queue = s.queue
      /\ w.errors = s.errors /\ w.batch = s.batch /\ Placed(w)
  BY <1>1, Zenon DEF WorkerState, Placed
<1>5. CASE s' = w /\ UNCHANGED history
  BY <1>1, <1>4, <1>5, StillBooks, Zenon DEF Counted
<1>6. CASE PerformFlush(w)
  <2>1. Accounts(w, done, fails, blank, pushed) /\ Counted(w)
    <3> HIDE DEF w
    <3> QED BY <1>4, SameMessages, Zenon DEF Books, Counted
  <2> QED BY <1>1, <1>6, <2>1, FlushBooks, Zenon
<1>7. Connect \/ (s' = w /\ UNCHANGED history) \/ PerformFlush(w)
  <2> HIDE DEF w
  <2>1. StartInserts(by = "throttle") => s' = w /\ UNCHANGED history
    BY DEF StartInserts, w
  <2>2. Throttled(by = "throttle") => s' = w /\ UNCHANGED history
    BY DEF Throttled, w
  <2>3. FlushPending(by = "throttle") => (s' = w /\ UNCHANGED history) \/ PerformFlush(w)
    BY DEF FlushPending, w
  <2>4. WaitForItems => s' = w /\ UNCHANGED history
    BY DEF WaitForItems, w
  <2> QED BY <1>2, <2>1, <2>2, <2>3, <2>4, Zenon
<1> QED
  BY <1>3, <1>5, <1>6, <1>7

\* Popping a message and inserting it keeps the books.
LEMMA InsertBooks ==
  ASSUME Books, Counted(s), Insert
  PROVE  Books' /\ Counted(s')
<1> DEFINE w == Pop(s)
<1>1. pushed' = pushed /\ s.queue # <<>> /\ Accounts(s, done, fails, blank, pushed)
  BY DEF Insert, CanPop, Books
<1>2. PICK result \in InsertResults : Answer(w, result)
  BY DEF Insert
<1>3. result \in Results
  BY <1>2, WorkerConstants
<1>4. Accounts(w, done, fails, blank, pushed) /\ Counted(w)
  BY <1>1, PopFacts, Zenon
<1> HIDE DEF w
<1> QED
  BY <1>1, <1>2, <1>3, <1>4, AnswerBooks, Zenon

\* A push keeps the books.
LEMMA PushBooks ==
  ASSUME Books, DriverQueue
  PROVE  Books' /\ s'.backlog = s.backlog /\ s'.batch = s.batch /\ pc' = pc
<1> DEFINE v == [s EXCEPT !.queue = Append(@, pushed + 1), !.wait = @ + 1]
<1>1. /\ s' = v /\ pushed' = pushed + 1 /\ pc' = pc
      /\ done' = done /\ fails' = fails /\ blank' = blank /\ fewest' = fewest
      /\ first' = first /\ last' = last
  BY DEF DriverQueue, history
<1>2. /\ pushed \in 0 .. MaxMsgs - 1 /\ pushed + 1 \in 0 .. MaxMsgs
      /\ pushed + 1 \in Messages
  BY WorkerConstants DEF Books, DriverQueue, Messages
<1>3. Accounts(s, done, fails, blank, pushed) /\ s \in WorkerState /\ Placed(s)
  BY DEF Books, Accounts
<1>4. /\ v \in WorkerState /\ Placed(v) /\ v.queue = Append(s.queue, pushed + 1)
      /\ v.backlog = s.backlog /\ v.batch = s.batch /\ v.errors = s.errors
  BY <1>2, <1>3, PushState, Zenon
<1> HIDE DEF v
<1>5. Accounts(v, done, fails, blank, pushed + 1)
  BY <1>2, <1>3, <1>4, PushFacts, ZenonT(30)
<1> QED
  BY <1>1, <1>2, <1>4, <1>5, Zenon DEF Books, DroppedAfterRetries

\* A push after the exit goes to the wait list as well.
LEMMA PushLeft ==
  ASSUME Left, DriverQueue
  PROVE  Left'
<1> DEFINE e == <<pushed + 1>>
           v == [s EXCEPT !.queue = Append(@, pushed + 1), !.wait = @ + 1]
<1>1. /\ s' = v /\ pushed' = pushed + 1
      /\ done' = done /\ fails' = fails /\ blank' = blank /\ fewest' = fewest
      /\ first' = first /\ last' = last
  BY DEF DriverQueue, history
<1>2. /\ pushed \in Nat /\ pushed + 1 \in 0 .. MaxMsgs /\ pushed + 1 \in Messages
      /\ s \in WorkerState /\ s.wait \in Nat
  <2>1. pushed \in 0 .. MaxMsgs /\ pushed < MaxMsgs /\ MaxMsgs \in Nat
    BY WorkerConstants DEF Left, DriverQueue
  <2>2. s \in WorkerState /\ s.wait \in Nat
    BY DEF Left, WorkerState
  <2>3. pushed \in Nat /\ pushed + 1 \in 0 .. MaxMsgs /\ pushed + 1 \in Messages
    BY <2>1 DEF Messages
  <2> QED BY <2>2, <2>3
<1>3. /\ v \in WorkerState /\ v.queue = Append(s.queue, pushed + 1)
      /\ v.wait = s.wait + 1 /\ v.backlog = s.backlog
  BY <1>2, PushState, Zenon
<1> HIDE DEF v
<1>4. PICK a \in Seq(Messages), b \in Seq(Messages), c \in Seq(Messages) :
        /\ s.queue = b \o (a \o c) /\ Len(c) = s.wait
        /\ done \o (a \o (b \o c)) = Upto(pushed)
        /\ DiskQueue \/ FlushSettles => b = <<>>
  BY Zenon DEF Left, Spliced
<1>5. /\ done \in Seq(Messages) /\ e \in Seq(Messages) /\ s.queue \in Seq(Messages)
      /\ a \in Seq(Messages) /\ b \in Seq(Messages) /\ c \in Seq(Messages)
  BY <1>2, <1>4 DEF Left, WorkerState
<1>6. c \o e \in Seq(Messages) /\ Len(c \o e) = s.wait + 1
  BY <1>2, <1>4
<1>7. Append(s.queue, pushed + 1) = s.queue \o e
  BY <1>2, <1>5, AppendIsConcat
<1> HIDE DEF e
<1>8. /\ (b \o (a \o c)) \o e = b \o (a \o (c \o e))
      /\ (done \o (a \o (b \o c))) \o e = done \o (a \o (b \o (c \o e)))
  <2> DEFINE M == Seq(Messages)
             C(x, y) == x \o y
  <2>1. \A x \in M : \A y \in M : C(x, y) \in M
    BY ConcatProperties, Zenon
  <2>2. \A x \in M : \A y \in M : \A z \in M : C(C(x, y), z) = C(x, C(y, z))
    BY Assoc, Zenon
  <2>3. a \in M /\ b \in M /\ c \in M /\ done \in M /\ e \in M
    BY <1>5
  <2> HIDE DEF M, C
  <2>4. C(a, c) \in M /\ C(b, c) \in M /\ C(a, C(b, c)) \in M
    BY <2>1, <2>3
  <2>5. C(C(b, C(a, c)), e) = C(b, C(a, C(c, e)))
    BY <2>2, <2>3, <2>4
  <2>6. C(C(b, c), e) = C(b, C(c, e)) /\ C(C(a, C(b, c)), e) = C(a, C(C(b, c), e))
    BY <2>2, <2>3, <2>4
  <2>7. C(C(done, C(a, C(b, c))), e) = C(done, C(C(a, C(b, c)), e))
    BY <2>2, <2>3, <2>4
  <2> QED BY <2>5, <2>6, <2>7, Zenon DEF C
<1>9. s.queue \o e = b \o (a \o (c \o e))
  BY <1>4, <1>8, Zenon
<1>10. done \o (a \o (b \o (c \o e))) = Upto(pushed) \o e
  BY <1>4, <1>8, Zenon
<1>11. Upto(pushed) \o e = Upto(pushed + 1)
  BY <1>2 DEF Upto, e
<1>12. Spliced(v.queue, v.wait, done, pushed + 1)
  <2> DEFINE x == c \o e
  <2> HIDE DEF x
  <2>1. /\ x \in Seq(Messages) /\ v.queue = b \o (a \o x) /\ Len(x) = v.wait
        /\ done \o (a \o (b \o x)) = Upto(pushed + 1)
        /\ DiskQueue \/ FlushSettles => b = <<>>
    BY <1>3, <1>4, <1>6, <1>7, <1>9, <1>10, <1>11, Zenon DEF x
  <2> QED BY <2>1, Zenon DEF Spliced
<1> QED
  BY <1>1, <1>2, <1>3, <1>12, Zenon DEF Left, DroppedAfterRetries

\* The exit of the worker splices the backlog into the queue.
LEMMA ExitBooks ==
  ASSUME Books, WorkerExit, FlushSettles => s.backlog = <<>>
  PROVE  Left'
<1> DEFINE b == s.backlog
           q == s.queue
           k == Len(q) - s.wait
           o == SubSeq(q, 1, k)
           c == SubSeq(q, k + 1, Len(q))
           r == IF DiskQueue THEN b \o q ELSE (o \o b) \o c
<1>1. /\ s \in WorkerState /\ b \in Seq(Messages) /\ q \in Seq(Messages)
      /\ done \in Seq(Messages) /\ done \o (b \o q) = Upto(pushed)
      /\ s.wait \in Nat /\ Placed(s) /\ Len(q) \in Nat
  BY LenProperties DEF Books, Accounts, WorkerState
<1>2. k \in 0 .. Len(q) /\ Len(q) - k = s.wait
  BY <1>1 DEF Placed
<1>3. /\ o \in Seq(Messages) /\ c \in Seq(Messages) /\ Len(c) = s.wait /\ q = o \o c
  <2> HIDE DEF k
  <2>1. /\ SubSeq(q, 1, k) \in Seq(Messages)
        /\ SubSeq(q, k + 1, Len(q)) \in Seq(Messages)
        /\ Len(SubSeq(q, k + 1, Len(q))) = Len(q) - k
        /\ q = SubSeq(q, 1, k) \o SubSeq(q, k + 1, Len(q))
    BY <1>1, <1>2, SplitAt, Zenon
  <2> QED BY <1>2, <2>1, Zenon
<1>4. s' = [s EXCEPT !.queue = r, !.backlog = <<>>, !.connected = FALSE]
  <2>1. RewindBacklogAll(s) = [s EXCEPT !.queue = r, !.backlog = <<>>]
    BY <1>1, Zenon DEF RewindBacklogAll, Output, Waiting, WorkerState
  <2> HIDE DEF r
  <2> QED BY <1>1, <2>1, Zenon DEF WorkerExit, WorkerState
<1>5. /\ done' = done /\ fails' = fails /\ blank' = blank /\ fewest' = fewest
      /\ first' = first /\ last' = last /\ pushed' = pushed
  BY DEF WorkerExit, history
<1> HIDE DEF b, q, o, c, k
<1>6. /\ o \o b \in Seq(Messages) /\ b \o q \in Seq(Messages) /\ r \in Seq(Messages)
      /\ b \o o \in Seq(Messages)
  BY <1>1, <1>3, ConcatProperties
<1>7. /\ <<>> \in Seq(Messages) /\ (\A x \in Seq(Messages) : <<>> \o x = x)
      /\ \A x \in Seq(Messages) : x \o <<>> = x
  BY ConcatEmptySeq
<1>8. Spliced(r, s.wait, done, pushed)
  <2>1. CASE DiskQueue
    <3>1. r = <<>> \o ((b \o o) \o c)
      <4>1. (b \o o) \o c = b \o (o \o c)
        BY <1>1, <1>3, Assoc, Zenon
      <4> QED BY <1>3, <1>6, <1>7, <2>1, <4>1, Zenon
    <3>2. done \o ((b \o o) \o (<<>> \o c)) = Upto(pushed)
      <4>1. (b \o o) \o c = b \o (o \o c)
        BY <1>1, <1>3, Assoc, Zenon
      <4> QED BY <1>1, <1>3, <1>7, <4>1, Zenon
    <3> DEFINE x == b \o o
    <3> HIDE DEF x, r
    <3>3. x \in Seq(Messages) /\ r = <<>> \o (x \o c) /\ done \o (x \o (<<>> \o c)) = Upto(pushed)
      BY <1>6, <3>1, <3>2, Zenon DEF x
    <3> QED BY <1>3, <1>7, <3>3, Zenon DEF Spliced
  <2>2. CASE ~DiskQueue /\ FlushSettles
    <3>1. b = <<>>
      BY <2>2 DEF b
    <3>2. r = <<>> \o (o \o c)
      <4>1. o \o c \in Seq(Messages)
        BY <1>1, <1>3, Zenon
      <4> QED BY <1>3, <1>7, <2>2, <3>1, <4>1, Zenon
    <3>3. done \o (o \o (<<>> \o c)) = Upto(pushed)
      BY <1>1, <1>3, <1>7, <3>1, Zenon
    <3> HIDE DEF r
    <3> QED BY <1>3, <1>7, <3>2, <3>3, Zenon DEF Spliced
  <2>3. CASE ~DiskQueue /\ ~FlushSettles
    <3>1. r = o \o (b \o c)
      <4>1. o \in Seq(Messages) /\ b \in Seq(Messages) /\ c \in Seq(Messages)
        BY <1>1, <1>3
      <4>2. (o \o b) \o c = o \o (b \o c)
        BY <4>1, Assoc, Zenon
      <4> QED BY <2>3, <4>2, Zenon
    <3>2. done \o (b \o (o \o c)) = Upto(pushed)
      BY <1>1, <1>3, Zenon
    <3> HIDE DEF r
    <3> QED BY <1>1, <1>3, <2>3, <3>1, <3>2, Zenon DEF Spliced
  <2> QED BY <2>1, <2>2, <2>3, Zenon
<1> HIDE DEF r
<1>9. s' \in WorkerState /\ s'.backlog = <<>> /\ s'.queue = r /\ s'.wait = s.wait
  BY <1>1, <1>4, <1>6, <1>7, Zenon DEF WorkerState
<1> QED
  BY <1>5, <1>8, <1>9, Zenon DEF Books, Accounts, Left, DroppedAfterRetries

\* What an answer leaves of a batch.
LEMMA AnswerOutcome ==
  ASSUME Books, NEW w, Accounts(w, done, fails, blank, pushed), Counted(w),
         NEW result \in Results, Answer(w, result)
  PROVE  /\ From(w, s') /\ s' \in WorkerState /\ Counted(s')
         /\ result \notin {"queued", "explicit"} => s'.batch = 0
         /\ result \in {"queued", "explicit", "success"} => s'.suspended = w.suspended
         /\ result = "success" => s'.queue = w.queue
         /\ result = "queued" => s'.batch = w.batch /\ s'.batching
<1>1. /\ pushed \in 0 .. MaxMsgs /\ fewest \in Nat /\ fewest >= RetriesOnErrorMax
      /\ first \in Nat /\ last \in Nat
  BY DEF Books, DroppedAfterRetries
<1>2. \E n \in 0 .. Len(w.backlog) : Outcome(w, s', n, result)
  BY <1>1, AnswerFacts, Zenon
<1> QED
  BY <1>2, Zenon DEF Outcome, Leave

\* Leaving the loop and its countdown touch no message.
LEMMA LeaveFacts ==
  ASSUME s \in WorkerState, Placed(s),
         LeaveLoop \/ LoopTail \/ (InsertAfterKeyChange /\ ~Insert)
  PROVE  /\ s' \in WorkerState /\ Placed(s')
         /\ s'.backlog = s.backlog /\ s'.queue = s.queue /\ s'.errors = s.errors
         /\ s'.batch = s.batch /\ s'.suspended = s.suspended
         /\ LeaveLoop => s'.rewound = 0
<1>1. PICK u \in {s, Fetch(s)}, n \in Nat :
        s' = [u EXCEPT !.rewound = n] /\ (LeaveLoop => n = 0)
  <2>1. s.rewound \in Nat
    BY DEF WorkerState
  <2>2. CASE LeaveLoop
    BY <2>2 DEF LeaveLoop
  <2>3. CASE ~LeaveLoop /\ LoopTail
    <3>1. (IF s.rewound > 0 THEN s.rewound - 1 ELSE 0) \in Nat
      BY <2>1
    <3>2. s' = [s EXCEPT !.rewound = IF s.rewound > 0 THEN s.rewound - 1 ELSE 0]
      BY <2>3 DEF LoopTail
    <3> QED BY <2>3, <3>1, <3>2, Zenon
  <2>4. CASE ~LeaveLoop /\ InsertAfterKeyChange /\ ~Insert
    <3>1. s' = [s EXCEPT !.rewound = 0] /\ 0 \in Nat
      BY <2>4 DEF InsertAfterKeyChange
    <3> QED BY <2>4, <3>1, Zenon
  <2> QED BY <2>2, <2>3, <2>4
<1>2. /\ u \in WorkerState /\ Placed(u)
      /\ u.backlog = s.backlog /\ u.queue = s.queue /\ u.errors = s.errors
      /\ u.batch = s.batch /\ u.suspended = s.suspended
  <2>1. CASE u = s
    BY <2>1
  <2>2. CASE u = Fetch(s)
    BY <2>2, FetchFacts, Zenon
  <2> QED BY <1>1, <2>1, <2>2
<1>3. /\ s' \in WorkerState /\ s'.wait = u.wait /\ s'.backlog = u.backlog
      /\ s'.queue = u.queue /\ s'.errors = u.errors
      /\ s'.batch = u.batch /\ s'.suspended = u.suspended /\ s'.rewound = n
  BY <1>1, <1>2, Zenon DEF WorkerState
<1> QED
  BY <1>1, <1>2, <1>3, Zenon DEF Placed

\* The part of the invariant that is about messages, under one step.
LEMMA BooksStep ==
  ASSUME Inv, [Next]_vars
  PROVE  /\ pc' # "exited" => Books' /\ Counted(s')
         /\ pc' = "exit" /\ FlushSettles => s'.backlog = <<>>
         /\ pc' = "exited" => Left'
<1>1. (pc # "exited" => Books /\ Counted(s)) /\ s \in WorkerState
  BY InvFacts, Zenon
<1> DEFINE Goal == /\ pc' # "exited" => Books' /\ Counted(s')
                   /\ pc' = "exit" /\ FlushSettles => s'.backlog = <<>>
                   /\ pc' = "exited" => Left'
<1>2. ASSUME pc' \notin {"exit", "exited"}, Books', Counted(s')
      PROVE  Goal
  BY <1>2
<1>3. ASSUME UNCHANGED <<s, pc, pushed, history>>
      PROVE  Goal
  <2>1. /\ s' = s /\ pc' = pc /\ pushed' = pushed
        /\ done' = done /\ fails' = fails /\ blank' = blank /\ fewest' = fewest
        /\ first' = first /\ last' = last
    BY <1>3 DEF history
  <2>2. (Books => Books') /\ (Left => Left') /\ (Counted(s) => Counted(s'))
    BY <2>1, ZenonT(30) DEF Books, Left, DroppedAfterRetries
  <2> QED BY <2>1, <2>2, Zenon DEF Inv
<1>4. CASE DriverQueue
  <2>1. CASE pc # "exited"
    <3>1. Books' /\ s'.backlog = s.backlog /\ s'.batch = s.batch /\ pc' = pc
      BY <1>1, <1>4, <2>1, PushBooks, Zenon
    <3> QED BY <1>1, <2>1, <3>1, Zenon DEF Inv, Counted
  <2>2. CASE pc = "exited"
    <3>1. Left' /\ pc' = pc
      BY <1>4, <2>2, PushLeft DEF Inv, DriverQueue
    <3> QED BY <2>2, <3>1
  <2> QED BY <2>1, <2>2
<1>5. CASE BatchTimeoutElapses \/ RequestWorkerExit \/ WakeupEvent \/ SourcesAtBound
  <2>1. UNCHANGED <<s, pc, pushed, history>>
    BY <1>5 DEF BatchTimeoutElapses, RequestWorkerExit, WakeupEvent, SourcesAtBound,
                vars, history
  <2> QED BY <1>3, <2>1
<1>6. CASE ShutdownEvent
  <2>1. /\ s' = s /\ pushed' = pushed /\ UNCHANGED history
        /\ pc # "exited" /\ pc' \notin {"exit", "exited"}
    BY <1>6 DEF ShutdownEvent
  <2>2. Books /\ Counted(s) /\ Placed(s)
    BY <1>1, <2>1 DEF Books, Accounts
  <2>3. Books'
    BY <1>1, <2>1, <2>2, StillBooks, Zenon
  <2> QED BY <1>2, <2>1, <2>2, <2>3
<1>7. CASE PerformWork
  <2>1. pc = "idle" /\ pc' \notin {"exit", "exited"}
    BY <1>7, Zenon DEF PerformWork, Connect, StartInserts, Throttled, FlushPending, WaitForItems
  <2>2. Books' /\ Counted(s')
    BY <1>1, <1>7, <2>1, WorkBooks
  <2> QED BY <1>2, <2>1, <2>2, SMT, SMTT(30)
<1>8. CASE LeaveLoop \/ LoopTail \/ (InsertAfterKeyChange /\ ~Insert)
  <2>1. /\ pc # "exited" /\ pc' \notin {"exit", "exited"}
        /\ pushed' = pushed /\ UNCHANGED history
    BY <1>8 DEF LeaveLoop, LoopTail, InsertAfterKeyChange
  <2>2. Books /\ Counted(s) /\ Placed(s)
    BY <1>1, <2>1 DEF Books, Accounts
  <2>3. /\ s' \in WorkerState /\ Placed(s') /\ s'.backlog = s.backlog /\ s'.queue = s.queue
        /\ s'.errors = s.errors /\ s'.batch = s.batch
    BY <1>1, <1>8, <2>2, LeaveFacts, Zenon
  <2>4. Books'
    BY <2>1, <2>2, <2>3, StillBooks, Zenon
  <2>5. Counted(s')
    BY <2>2, <2>3, Zenon DEF Counted
  <2> QED BY <1>2, <2>1, <2>4, <2>5
<1>9. CASE FlushOnPartitionKeyChange
  <2>1. PICK result \in FlushResults : Answer(Fetch(s), result)
    BY <1>9 DEF FlushOnPartitionKeyChange, Flush
  <2>2. pushed' = pushed /\ pc = "loop" /\ pc' \notin {"exit", "exited"}
    BY <1>9 DEF FlushOnPartitionKeyChange
  <2>3. result \in Results
    BY <2>1, WorkerConstants
  <2>4. Books /\ Accounts(s, done, fails, blank, pushed) /\ Counted(s)
    BY <1>1, <2>2 DEF Books
  <2>5. Accounts(Fetch(s), done, fails, blank, pushed) /\ Counted(Fetch(s))
    BY <2>4, FetchAccounts, Zenon
  <2>6. Books' /\ Counted(s')
    BY <2>1, <2>2, <2>3, <2>4, <2>5, AnswerBooks, Zenon
  <2> QED BY <1>2, <2>2, <2>6
<1>10. CASE PopAndInsert \/ (InsertAfterKeyChange /\ Insert)
  <2>1. Insert /\ pc # "exited"
    BY <1>10 DEF PopAndInsert, InsertAfterKeyChange
  <2>2. pc' \notin {"exit", "exited"}
    BY <2>1 DEF Insert
  <2>3. Books' /\ Counted(s')
    BY <1>1, <2>1, InsertBooks
  <2> QED BY <1>2, <2>2, <2>3
<1>11. CASE FlushFullBatch \/ AfterInserts
  <2>1. pc # "exited" /\ pc' \notin {"exit", "exited"} /\ pushed' = pushed
    BY <1>11 DEF FlushFullBatch, AfterInserts
  <2>2. PerformFlush(s) \/ UNCHANGED <<s, history>>
    BY <1>11 DEF FlushFullBatch, AfterInserts
  <2>3. /\ Books /\ Accounts(s, done, fails, blank, pushed) /\ Counted(s) /\ Placed(s)
    BY <1>1, <2>1 DEF Books, Accounts
  <2>4. CASE PerformFlush(s)
    <3>1. Books' /\ Counted(s')
      BY <2>1, <2>3, <2>4, FlushBooks, Zenon
    <3> QED BY <1>2, <2>1, <3>1
  <2>5. CASE UNCHANGED <<s, history>>
    <3>1. s' = s /\ UNCHANGED history
      BY <2>5
    <3>2. Books'
      BY <1>1, <2>1, <2>3, <3>1, StillBooks, Zenon
    <3> QED BY <1>2, <2>1, <2>3, <3>1, <3>2
  <2> QED BY <2>2, <2>4, <2>5
<1>12. CASE FinalFlush
  <2>1. PICK result \in FlushResults : Answer(s, result)
    BY <1>12 DEF FinalFlush, Flush
  <2>2. pushed' = pushed /\ pc = "final" /\ pc' = "exit"
    BY <1>12 DEF FinalFlush
  <2>3. result \in Results /\ (FlushSettles => result \notin {"queued", "explicit"})
    BY <2>1, WorkerConstants DEF FlushSettles
  <2>4. Books /\ Accounts(s, done, fails, blank, pushed) /\ Counted(s)
    BY <1>1, <2>2 DEF Books
  <2>5. Books' /\ Counted(s')
    BY <2>1, <2>2, <2>3, <2>4, AnswerBooks, Zenon
  <2>6. /\ s' \in WorkerState
        /\ result \notin {"queued", "explicit"} => s'.batch = 0
    BY <2>1, <2>3, <2>4, AnswerOutcome, Zenon
  <2>7. FlushSettles => s'.backlog = <<>>
    <3>1. s'.backlog \in Seq(Messages)
      BY <2>6 DEF WorkerState
    <3>2. FlushSettles => Len(s'.backlog) = 0
      BY <2>3, <2>5, <2>6, Zenon DEF Counted
    <3> QED BY <3>1, <3>2, EmptySeq
  <2> QED BY <2>2, <2>5, <2>7
<1>13. CASE WorkerExit
  <2>1. pc = "exit" /\ pc' = "exited"
    BY <1>13 DEF WorkerExit
  <2>2. FlushSettles => s.backlog = <<>>
    BY <2>1 DEF Inv
  <2>3. Left'
    BY <1>1, <1>13, <2>1, <2>2, ExitBooks
  <2> QED BY <2>1, <2>3
<1>14. CASE UNCHANGED vars
  <2>1. UNCHANGED <<s, pc, pushed, history>>
    BY <1>14 DEF vars, history
  <2> QED BY <1>3, <2>1
<1> HIDE DEF Goal
<1>15. CASE Next
  <2>1. \/ DriverQueue \/ ShutdownEvent \/ PerformWork \/ FlushOnPartitionKeyChange
        \/ FinalFlush \/ WorkerExit
        \/ BatchTimeoutElapses \/ RequestWorkerExit \/ WakeupEvent \/ SourcesAtBound
        \/ LeaveLoop \/ LoopTail \/ (InsertAfterKeyChange /\ ~Insert)
        \/ PopAndInsert \/ (InsertAfterKeyChange /\ Insert)
        \/ FlushFullBatch \/ AfterInserts
    BY <1>15 DEF Next
  <2> QED BY <2>1, <1>4, <1>5, <1>6, <1>7, <1>8, <1>9, <1>10, <1>11, <1>12, <1>13
<1> QED
  BY <1>14, <1>15 DEF Goal

\* The keys a worker remembers are those of messages.
LEMMA HeadKey ==
  ASSUME s \in WorkerState, s.queue # <<>>
  PROVE  Key[Head(s.queue)] \in {Key[m] : m \in Messages}
<1>1. s.queue \in Seq(Messages)
  BY DEF WorkerState
<1>2. Head(s.queue) \in Messages
  BY <1>1, HeadTailProperties
<1> QED
  BY <1>2

\* The buckets never exceed the throttle.
LEMMA BucketsInRange ==
  ASSUME buckets \in 0 .. Throttle, NEW expired, RefillBuckets(expired)
  PROVE  buckets' \in 0 .. Throttle
BY WorkerConstants, SMT, SMTT(30) DEF RefillBuckets

\* A flush sets last_flush_time or leaves it alone.
LEMMA FlushElapsed ==
  ASSUME elapsed \in BOOLEAN, NEW w, PerformFlush(w)
  PROVE  elapsed' \in BOOLEAN
BY Zenon DEF PerformFlush, Flush

\* The types of the flags, under one step.
LEMMA FlagsStep ==
  ASSUME Inv, [Next]_vars
  PROVE  Flags'
<1> USE DEF Flags
<1>1. s \in WorkerState /\ Flags /\ buckets \in 0 .. Throttle /\ Throttle \in Nat
  BY WorkerConstants, InvFacts
<1>2. CASE DriverQueue \/ BatchTimeoutElapses \/ RequestWorkerExit \/ WakeupEvent
  BY <1>1, <1>2, Zenon DEF DriverQueue, BatchTimeoutElapses, RequestWorkerExit, WakeupEvent
<1>3. CASE ShutdownEvent \/ SourcesAtBound \/ UNCHANGED vars
  BY <1>1, <1>3, ZenonT(30) DEF ShutdownEvent, SourcesAtBound, vars
<1>4. CASE PerformWork
  <2>1. PICK by \in watches :
          \/ Connect
          \/ StartInserts(by = "throttle")
          \/ Throttled(by = "throttle")
          \/ FlushPending(by = "throttle")
          \/ WaitForItems
    BY <1>4 DEF PerformWork
  <2>2. UNCHANGED <<wake, shutdown, term>> /\ pc = "idle"
    BY <1>4, SMT, SMTT(30) DEF PerformWork
  <2>3. CASE Connect \/ WaitForItems
    BY <1>1, <2>2, <2>3, Zenon DEF Connect, WaitForItems, ScheduleRestart
  <2>4. CASE StartInserts(by = "throttle") \/ Throttled(by = "throttle")
    <3>1. buckets' \in 0 .. Throttle
      BY <1>1, <2>4, BucketsInRange, Zenon DEF StartInserts, Throttled
    <3> QED BY <1>1, <2>2, <2>4, <3>1, Zenon DEF StartInserts, Throttled
  <2>5. CASE FlushPending(by = "throttle")
    <3>1. buckets' \in 0 .. Throttle
      BY <1>1, <2>5, BucketsInRange, Zenon DEF FlushPending
    <3>2. elapsed' \in BOOLEAN
      BY <1>1, <2>5, FlushElapsed, Zenon DEF FlushPending
    <3>3. watches' \in {{"reopen"}, {"flush"}, {"do_work"}} /\ notify' \in BOOLEAN
      BY <2>5, Zenon DEF FlushPending, ScheduleRestartOnNextFlush
    <3>4. last_key' = last_key /\ pc' = pc
      BY <2>5 DEF FlushPending
    <3> QED BY <1>1, <2>2, <3>1, <3>2, <3>3, <3>4, Zenon
  <2> QED BY <2>1, <2>3, <2>4, <2>5
<1>5. CASE LeaveLoop
  <2>1. last_key' \in {NoKey} \union {Key[m] : m \in Messages}
    BY <1>1, <1>5, HeadKey DEF LeaveLoop
  <2> QED BY <1>1, <1>5, <2>1 DEF LeaveLoop
<1>6. CASE FlushOnPartitionKeyChange
  <2>1. last_key' \in {NoKey} \union {Key[m] : m \in Messages}
    BY <1>1, <1>6, HeadKey DEF FlushOnPartitionKeyChange
  <2>2. elapsed' \in BOOLEAN
    BY <1>6, Zenon DEF FlushOnPartitionKeyChange, Flush
  <2> QED BY <1>1, <1>6, <2>1, <2>2 DEF FlushOnPartitionKeyChange
<1>7. ASSUME Insert, last_key' \in {NoKey} \union {Key[m] : m \in Messages}
      PROVE  Flags'
  <2>1. buckets' \in 0 .. Throttle
    BY <1>1, <1>7 DEF Insert
  <2>2. pc' \in {"full", "tail"}
    BY <1>7 DEF Insert
  <2>3. UNCHANGED <<elapsed, notify, watches, wake, shutdown, term>>
    BY <1>7 DEF Insert
  <2> QED BY <1>1, <1>7, <2>1, <2>2, <2>3
<1>8. CASE PopAndInsert
  <2>1. Insert /\ s.queue # <<>>
    BY <1>8 DEF PopAndInsert, CanPop
  <2>2. last_key' \in {NoKey} \union {Key[m] : m \in Messages}
    BY <1>1, <1>8, <2>1, HeadKey DEF PopAndInsert
  <2> QED BY <1>7, <2>1, <2>2
<1>9. CASE InsertAfterKeyChange
  <2>1. CASE Insert /\ UNCHANGED last_key
    BY <1>1, <1>7, <2>1
  <2>2. CASE ~(Insert /\ UNCHANGED last_key)
    BY <1>1, <1>9, <2>2 DEF InsertAfterKeyChange
  <2> QED BY <2>1, <2>2
<1>10. CASE FlushFullBatch \/ LoopTail \/ AfterInserts
  <2>1. elapsed' \in BOOLEAN
    BY <1>1, <1>10, FlushElapsed, Zenon DEF FlushFullBatch, LoopTail, AfterInserts
  <2> QED BY <1>1, <1>10, <2>1 DEF FlushFullBatch, LoopTail, AfterInserts, ScheduleRestart
<1>11. CASE FinalFlush \/ WorkerExit
  <2>1. elapsed' \in BOOLEAN
    BY <1>1, <1>11, Zenon DEF FinalFlush, WorkerExit, Flush
  <2> QED BY <1>1, <1>11, <2>1 DEF FinalFlush, WorkerExit
<1>12. Next \/ UNCHANGED vars
  OBVIOUS
<1> QED
  BY <1>2, <1>3, <1>4, <1>5, <1>6, <1>8, <1>9, <1>10, <1>11, <1>12 DEF Next

\* An idle worker can be woken after every step as well.
LEMMA AwakeStep ==
  ASSUME Inv, [Next]_vars
  PROVE  Awake'
<1>1. Awake /\ s \in WorkerState
  BY InvFacts DEF Inv
<1>2. CASE DriverQueue
  <2>1. /\ pc' = pc /\ term' = term /\ watches' = watches
        /\ wake' = (wake \/ (notify /\ ~term))
    BY <1>2 DEF DriverQueue
  <2> QED BY <1>1, <2>1, Zenon DEF Awake
<1>3. CASE BatchTimeoutElapses \/ SourcesAtBound \/ UNCHANGED vars
  BY <1>1, <1>3, SMT, SMTT(30) DEF Awake, BatchTimeoutElapses, SourcesAtBound, vars
<1>4. CASE RequestWorkerExit \/ WakeupEvent \/ ShutdownEvent
  BY <1>4 DEF Awake, RequestWorkerExit, WakeupEvent, ShutdownEvent
<1>5. CASE PerformWork
  <2>1. PICK by \in watches :
          \/ Connect
          \/ StartInserts(by = "throttle")
          \/ Throttled(by = "throttle")
          \/ FlushPending(by = "throttle")
          \/ WaitForItems
    BY <1>5 DEF PerformWork
  <2>2. CASE Connect \/ FlushPending(by = "throttle") \/ Throttled(by = "throttle")
    BY <2>2, Zenon DEF Awake, Connect, FlushPending, Throttled, ScheduleRestart,
                ScheduleRestartOnNextFlush
  <2>3. CASE StartInserts(by = "throttle")
    BY <2>3 DEF Awake, StartInserts
  <2>4. CASE WaitForItems
    BY <1>1, <2>4, SMT, SMTT(30) DEF Awake, WaitForItems, WorkerState
  <2> QED BY <2>1, <2>2, <2>3, <2>4, SMT, SMTT(30)
<1>6. CASE AfterInserts
  BY <1>6 DEF Awake, AfterInserts, ScheduleRestart
<1>7. CASE LeaveLoop \/ FlushOnPartitionKeyChange \/ LoopTail \/ FlushFullBatch
  BY <1>7 DEF Awake, LeaveLoop, FlushOnPartitionKeyChange, LoopTail, FlushFullBatch
<1>8. CASE PopAndInsert \/ InsertAfterKeyChange
  BY <1>8 DEF Awake, PopAndInsert, InsertAfterKeyChange, Insert
<1>9. CASE FinalFlush \/ WorkerExit
  BY <1>9 DEF Awake, FinalFlush, WorkerExit
<1>10. Next \/ UNCHANGED vars
  OBVIOUS
<1> QED
  BY <1>2, <1>3, <1>4, <1>5, <1>6, <1>7, <1>8, <1>9, <1>10 DEF Next

\* The invariant holds of a worker that has just been started.
LEMMA InitInv ==
  ASSUME Init
  PROVE  Inv
<1>1. /\ s \in WorkerState /\ s.queue = <<>> /\ s.wait = 0 /\ s.backlog = <<>>
      /\ s.batch = 0 /\ s.errors = 0
  BY WorkerConstants DEF Init, WorkerState
<1>2. Len(<<>>) = 0 /\ <<>> \in Seq(Messages) /\ <<>> \o (<<>> \o <<>>) = Upto(0)
  BY DEF Upto
<1>3. /\ done = <<>> /\ pushed = 0 /\ fails \in [Messages -> Nat]
      /\ first = 0 /\ last = 0 /\ blank = 0 /\ fewest = RetriesOnErrorMax
  BY DEF Init, Messages
<1>4. 0 \in 0 .. MaxMsgs /\ RetriesOnErrorMax \in Nat /\ RetriesOnErrorMax >= RetriesOnErrorMax
  BY WorkerConstants
<1>5. s.errors <= blank + IF Len(done) < pushed THEN fails[Len(done) + 1] ELSE 0
  BY <1>1, <1>2, <1>3
<1>6. Accounts(s, done, fails, blank, pushed)
  BY <1>1, <1>2, <1>3, <1>5 DEF Accounts, Placed
<1>7. Books
  BY <1>3, <1>4, <1>6, SMT, SMTT(30) DEF Books, DroppedAfterRetries
<1>8. Counted(s)
  BY <1>1, <1>2 DEF Counted
<1>9. Flags
  <2>1. buckets \in 0 .. Throttle
    BY WorkerConstants DEF Init
  <2>2. last_key = NoKey /\ watches = {"do_work"} /\ pc = "idle"
    BY DEF Init
  <2>3. /\ elapsed \in BOOLEAN /\ notify \in BOOLEAN /\ wake \in BOOLEAN
        /\ shutdown \in BOOLEAN /\ term \in BOOLEAN
    BY Zenon DEF Init
  <2> QED BY <2>1, <2>2, <2>3 DEF Flags
<1>10. Awake /\ pc \notin {"exit", "exited"}
  BY DEF Init, Awake
<1> QED
  BY <1>7, <1>8, <1>9, <1>10 DEF Inv

-----------------------------------------------------------------------------
(***************************************************************************)
(* The inductive invariant holds in every reachable state, whatever the    *)
(* driver answers and however the pushes, the timers and the exit request  *)
(* fall between the steps of the worker.                                   *)
(***************************************************************************)
THEOREM Invariance == Spec => []Inv
<1>1. Init => Inv
  BY InitInv
<1>2. Inv /\ [Next]_vars => Inv'
  <2> SUFFICES ASSUME Inv, [Next]_vars
               PROVE  Inv'
    OBVIOUS
  <2>1. /\ pc' # "exited" => Books' /\ Counted(s')
        /\ pc' = "exit" /\ FlushSettles => s'.backlog = <<>>
        /\ pc' = "exited" => Left'
    BY BooksStep
  <2>2. Flags'
    BY FlagsStep
  <2>3. Awake'
    BY AwakeStep
  <2> QED BY <2>1, <2>2, <2>3 DEF Inv
<1> QED
  BY <1>1, <1>2, PTL DEF Spec

(***************************************************************************)
(* Type correctness: no counter of a worker becomes negative, and          *)
(* retries_counter and retries_on_error_counter stay below their limits    *)
(* (lib/logthrdest/logthrdestdrv.c:288-352).                               *)
(***************************************************************************)
THEOREM TypeCorrect == Spec => []TypeOK
<1>1. Inv => TypeOK
  <2> SUFFICES ASSUME Inv
               PROVE  TypeOK
    OBVIOUS
  <2>1. /\ s \in WorkerState /\ done \in Seq(Messages) /\ pushed \in 0 .. MaxMsgs
        /\ first \in Nat /\ last \in Nat /\ Flags
    BY InvFacts, Zenon
  <2>2. fails \in [Messages -> Nat] /\ blank \in Nat /\ fewest \in Nat
    <3>1. CASE pc # "exited"
      BY <3>1, Zenon DEF Inv, Books, Accounts
    <3>2. CASE pc = "exited"
      BY <3>2, Zenon DEF Inv, Left
    <3> QED BY <3>1, <3>2
  <2> QED BY <2>1, <2>2, Zenon DEF Flags, WorkerState, TypeOK
<1> QED
  BY <1>1, Invariance, PTL

(***************************************************************************)
(* batch_size is the length of the backlog until the worker exits: what    *)
(* log_threaded_dest_worker_ack_messages and _rewind_messages hand to the  *)
(* queue is there.                                                         *)
(***************************************************************************)
THEOREM BatchIsBacklogHolds == Spec => []BatchIsBacklog
<1>1. Inv => BatchIsBacklog
  BY DEF Inv, Counted, BatchIsBacklog
<1> QED
  BY <1>1, Invariance, PTL

\* The elements of a concatenation.
LEMMA Joined ==
  ASSUME NEW x \in Seq(Messages), NEW y \in Seq(Messages)
  PROVE  /\ x \o y \in Seq(Messages) /\ Len(x \o y) = Len(x) + Len(y)
         /\ Len(x) \in Nat /\ Len(y) \in Nat
         /\ \A i \in 1 .. Len(x) : (x \o y)[i] = x[i]
         /\ \A i \in 1 .. Len(y) : (x \o y)[Len(x) + i] = y[i]
BY LenProperties, ConcatProperties

\* A part of a sequence, by its elements.
LEMMA Slice ==
  ASSUME NEW q \in Seq(Messages), NEW x \in Seq(Messages), NEW k \in Nat, NEW m \in Nat,
         Len(x) = m, k + m <= Len(q), \A i \in 1 .. m : q[k + i] = x[i]
  PROVE  SubSeq(q, k + 1, k + m) = x
<1> DEFINE y == SubSeq(q, k + 1, k + m)
<1>1. \A i \in 1 .. Len(q) : q[i] \in Messages
  BY ElementOfSeq
<1>2. y \in Seq(Messages) /\ Len(y) = m /\ \A i \in 1 .. m : y[i] = q[k + i]
  <2>1. \A i \in k + 1 .. k + m : q[i] \in Messages
    BY <1>1, LenProperties
  <2> QED BY <2>1, LenProperties
<1> HIDE DEF y
<1>3. y = x
  BY <1>2, SeqEqual, Zenon
<1> QED
  BY <1>3 DEF y

\* A sequence made of three, taken apart again.
LEMMA Pieces ==
  ASSUME NEW b \in Seq(Messages), NEW a \in Seq(Messages), NEW c \in Seq(Messages),
         NEW k, NEW l, NEW m, k = Len(b), l = Len(a), m = Len(c)
  PROVE  LET q == b \o (a \o c)
         IN  /\ k \in Nat /\ l \in Nat /\ m \in Nat /\ Len(q) = k + (l + m)
             /\ SubSeq(q, 1, k) = b /\ SubSeq(q, k + 1, k + l) = a
             /\ SubSeq(q, k + l + 1, k + (l + m)) = c
<1> DEFINE r == a \o c
           q == b \o r
<1>1. /\ r \in Seq(Messages) /\ Len(r) = l + m /\ l \in Nat /\ m \in Nat
      /\ \A i \in 1 .. l : r[i] = a[i]
      /\ \A i \in 1 .. m : r[l + i] = c[i]
  BY Joined, Zenon
<1> HIDE DEF r
<1>2. /\ q \in Seq(Messages) /\ Len(q) = k + (l + m) /\ k \in Nat
      /\ \A i \in 1 .. k : q[i] = b[i]
      /\ \A i \in 1 .. l + m : q[k + i] = r[i]
  <2>1. /\ q \in Seq(Messages) /\ Len(q) = Len(b) + Len(r) /\ Len(b) \in Nat
        /\ \A i \in 1 .. Len(b) : q[i] = b[i]
        /\ \A i \in 1 .. Len(r) : q[Len(b) + i] = r[i]
    BY <1>1, Joined, Zenon
  <2> HIDE DEF q
  <2> QED BY <1>1, <2>1, Zenon
<1> HIDE DEF q
<1>3. /\ \A i \in 1 .. k : 0 + i = i
      /\ \A i \in 1 .. l : i \in 1 .. l + m
      /\ \A i \in 1 .. m : l + i \in 1 .. l + m /\ (k + l) + i = k + (l + i)
      /\ 0 + k <= k + (l + m) /\ k + l <= k + (l + m) /\ (k + l) + m <= k + (l + m)
      /\ k + l \in Nat /\ 0 \in Nat /\ (k + l) + m = k + (l + m) /\ 0 + k = k /\ 0 + 1 = 1
  <2>1. k \in Nat /\ l \in Nat /\ m \in Nat
    BY <1>1, <1>2
  <2> QED BY <2>1
<1>4. \A i \in 1 .. k : q[0 + i] = b[i]
  BY <1>2, <1>3, Zenon
<1>5. \A i \in 1 .. l : q[k + i] = a[i]
  BY <1>1, <1>2, <1>3, Zenon
<1>6. \A i \in 1 .. m : q[(k + l) + i] = c[i]
  <2> SUFFICES ASSUME NEW i \in 1 .. m PROVE q[(k + l) + i] = c[i]
    OBVIOUS
  <2>1. l + i \in 1 .. l + m /\ (k + l) + i = k + (l + i)
    BY <1>3, Zenon
  <2>2. q[k + (l + i)] = r[l + i] /\ r[l + i] = c[i]
    BY <1>1, <1>2, <2>1, Zenon
  <2> QED BY <2>1, <2>2, Zenon
<1>7. SubSeq(q, 0 + 1, 0 + k) = b
  <2>1. 0 + k <= Len(q) /\ 0 \in Nat
    BY <1>2, <1>3, Zenon
  <2> QED BY <1>2, <1>4, <2>1, Slice, Zenon
<1>8. SubSeq(q, k + 1, k + l) = a
  <2>1. k + l <= Len(q) /\ q \in Seq(Messages) /\ k \in Nat /\ l \in Nat
    BY <1>1, <1>2, <1>3, Zenon
  <2>2. Len(a) = l /\ a \in Seq(Messages)
    OBVIOUS
  <2> QED BY <1>5, <2>1, <2>2, Slice, SMT, ZenonT(60)
<1>9. SubSeq(q, (k + l) + 1, (k + l) + m) = c
  <2>1. (k + l) + m <= Len(q) /\ k + l \in Nat /\ q \in Seq(Messages) /\ m \in Nat
    BY <1>1, <1>2, <1>3, Zenon
  <2>2. Len(c) = m /\ c \in Seq(Messages)
    OBVIOUS
  <2> QED BY <1>6, <2>1, <2>2, Slice, SMT, ZenonT(60)
<1> QED
  BY <1>1, <1>2, <1>3, <1>7, <1>8, <1>9, Zenon DEF q, r

(***************************************************************************)
(* No message is lost, repeated or reordered by retries, rewinds and       *)
(* reconnects, for any number of messages.  The exit loses and repeats     *)
(* nothing either; it puts what the final flush left on the backlog in     *)
(* front of a disk queue and behind the output list of the memory queue    *)
(* (lib/logqueue-fifo.c:544-557), which is the same place for a flush()    *)
(* that settles its batch.                                                 *)
(***************************************************************************)
THEOREM NothingLostHolds == Spec => []NothingLost
<1>1. ASSUME Inv, pc # "exited"
      PROVE  NothingLost
  <2>1. /\ done \in Seq(Messages) /\ s.backlog \in Seq(Messages)
        /\ s.queue \in Seq(Messages) /\ done \o (s.backlog \o s.queue) = Upto(pushed)
    BY <1>1 DEF Inv, Books, Accounts, WorkerState
  <2>2. (done \o s.backlog) \o s.queue = done \o (s.backlog \o s.queue)
    BY <2>1, Assoc, Zenon
  <2>3. (done \o s.backlog) \o s.queue = [i \in 1 .. pushed |-> i]
    BY <2>1, <2>2, Zenon DEF Upto
  <2> QED BY <1>1, <2>3, Zenon DEF NothingLost
<1>2. ASSUME Inv, pc = "exited"
      PROVE  NothingLost
  <2>1. s.backlog = <<>> /\ done \in Seq(Messages) /\ Spliced(s.queue, s.wait, done, pushed)
    BY <1>2 DEF Inv, Left
  <2>2. PICK a \in Seq(Messages), b \in Seq(Messages), c \in Seq(Messages) :
          /\ s.queue = b \o (a \o c) /\ Len(c) = s.wait
          /\ done \o (a \o (b \o c)) = Upto(pushed)
          /\ DiskQueue \/ FlushSettles => b = <<>>
    BY <2>1, Zenon DEF Spliced
  <2> DEFINE q == s.queue
             k == Len(b)
             n == Len(q) - s.wait
  <2>3. /\ k \in Nat /\ n \in Nat /\ k <= n /\ n <= Len(q) /\ Len(q) \in Nat
        /\ SubSeq(q, 1, k) = b /\ SubSeq(q, k + 1, n) = a
        /\ SubSeq(q, n + 1, Len(q)) = c
    <3> DEFINE l == Len(a)
               m == Len(c)
    <3>1. a \in Seq(Messages) /\ b \in Seq(Messages) /\ c \in Seq(Messages)
      BY <2>2
    <3>2. q = b \o (a \o c) /\ n = Len(q) - m
      BY <2>2
    <3> HIDE DEF k, l, m, n, q
    <3>3. /\ k \in Nat /\ l \in Nat /\ m \in Nat /\ Len(q) = k + (l + m)
          /\ SubSeq(q, 1, k) = b /\ SubSeq(q, k + 1, k + l) = a
          /\ SubSeq(q, k + l + 1, k + (l + m)) = c
      <4> DEFINE u == b \o (a \o c)
      <4>1. k = Len(b) /\ l = Len(a) /\ m = Len(c)
        BY DEF k, l, m
      <4>2. /\ k \in Nat /\ l \in Nat /\ m \in Nat /\ Len(u) = k + (l + m)
            /\ SubSeq(u, 1, k) = b /\ SubSeq(u, k + 1, k + l) = a
            /\ SubSeq(u, k + l + 1, k + (l + m)) = c
        BY <3>1, <4>1, Pieces, SMT, ZenonT(60)
      <4> HIDE DEF u
      <4>3. q = u
        BY <3>2 DEF u
      <4> QED BY <4>2, <4>3, Zenon
    <3>4. n = k + l /\ n \in Nat /\ k <= n /\ n <= Len(q) /\ Len(q) \in Nat
      <4>1. k \in Nat /\ l \in Nat /\ m \in Nat /\ Len(q) = k + (l + m) /\ n = Len(q) - m
        BY <3>2, <3>3
      <4> QED BY <4>1
    <3> QED BY <3>3, <3>4, Zenon
  <2>4. Len(Output(s)) = n /\ Waiting(s) = c
    <3>1. s.queue \in Seq(Messages)
      BY <1>2 DEF Inv, Left, WorkerState
    <3>2. n \in 0 .. Len(q)
      BY <2>3
    <3> HIDE DEF n
    <3>3. Len(SubSeq(q, 1, n)) = n
      BY <3>1, <3>2, SplitAt, Zenon
    <3> QED BY <2>3, <3>3, Zenon DEF Output, Waiting, n
  <2>5. k \in 0 .. n /\ (DiskQueue \/ FlushSettles => k = 0)
    BY <2>2, <2>3
  <2>6. ((done \o a) \o b) \o c = [i \in 1 .. pushed |-> i]
    <3>1. done \in Seq(Messages) /\ a \in Seq(Messages)
      BY <2>1, <2>2
    <3>2. done \o a \in Seq(Messages) /\ b \in Seq(Messages) /\ c \in Seq(Messages)
      BY <3>1, <2>2, ConcatProperties
    <3>3. b \o c \in Seq(Messages)
      BY <3>2, ConcatProperties
    <3>4. ((done \o a) \o b) \o c = (done \o a) \o (b \o c)
      BY <3>2, Assoc, Zenon
    <3>5. (done \o a) \o (b \o c) = done \o (a \o (b \o c))
      BY <3>1, <3>3, Assoc, Zenon
    <3> QED BY <2>2, <3>4, <3>5, Zenon DEF Upto
  <2> HIDE DEF k, n
  <2>7. /\ k \in 0 .. Len(Output(s)) /\ (DiskQueue \/ FlushSettles => k = 0)
        /\ done \o SubSeq(s.queue, k + 1, Len(Output(s)))
                \o SubSeq(s.queue, 1, k) \o Waiting(s) = [i \in 1 .. pushed |-> i]
    BY <2>3, <2>4, <2>5, <2>6, Zenon
  <2> QED BY <1>2, <2>1, <2>7, Zenon DEF NothingLost
<1>3. Inv => NothingLost
  BY <1>1, <1>2, Zenon
<1> QED
  BY <1>3, Invariance, PTL

(***************************************************************************)
(* A batch dropped for its errors failed retries_on_error_max times,       *)
(* counting the flushes of nothing that failed in between, whatever the    *)
(* driver answers.                                                         *)
(***************************************************************************)
THEOREM DroppedAfterRetriesHolds == Spec => []DroppedAfterRetries
<1>1. Inv => DroppedAfterRetries
  BY DEF Inv, Books, Left
<1> QED
  BY <1>1, Invariance, PTL

(***************************************************************************)
(* A worker with messages queued or a batch to flush is never left without *)
(* a task, a timer or a posted event: the wake-up of a push and the        *)
(* watches _perform_work registers leave no gap.                           *)
(***************************************************************************)
THEOREM NeverAsleepWithWorkHolds == Spec => []NeverAsleepWithWork
<1>1. Inv => NeverAsleepWithWork
  BY DEF Inv, Awake, NeverAsleepWithWork
<1> QED
  BY <1>1, Invariance, PTL

-----------------------------------------------------------------------------
(* What a batch holds, for a flush() that settles its batch.               *)

\* The messages of the batch have the key the worker remembers; after the
\* flush on a key change the batch is empty and the next message has that key.
KeyInv ==
  FlushOnKeyChange =>
    /\ \A i \in DOMAIN s.backlog : Key[s.backlog[i]] = last_key
    /\ pc = "pop" => s.batch = 0 /\ s.queue # <<>> /\ last_key = Key[Head(s.queue)]

\* A flush leaves the batch as it is, while suspended, or empty.
LEMMA FlushOutcome ==
  ASSUME FlushSettles, Books, NEW w, Accounts(w, done, fails, blank, pushed), Counted(w),
         PerformFlush(w)
  PROVE  /\ From(w, s')
         /\ s'.batch = 0 \/ (w.suspended /\ s'.batch = w.batch)
<1>1. CASE w.suspended
  <2>1. s' = w
    BY <1>1 DEF PerformFlush
  <2>2. From(w, w)
    BY Zenon DEF From
  <2> QED BY <1>1, <2>1, <2>2
<1>2. CASE ~w.suspended
  <2>1. PICK result \in FlushResults : Answer(w, result)
    BY <1>2 DEF PerformFlush, Flush
  <2>2. result \in Results /\ result \notin {"queued", "explicit"}
    BY <2>1, WorkerConstants DEF FlushSettles
  <2>3. From(w, s') /\ s'.batch = 0
    BY <2>1, <2>2, AnswerOutcome, Zenon
  <2> QED BY <2>3
<1> QED
  BY <1>1, <1>2

\* An insert leaves messages of the batch or the message it popped.
LEMMA InsertOutcome ==
  ASSUME Books, Counted(s), Insert
  PROVE  /\ \A i \in DOMAIN s'.backlog :
              \/ s'.backlog[i] = Head(s.queue)
              \/ \E j \in DOMAIN s.backlog : s'.backlog[i] = s.backlog[j]
         /\ \E result \in InsertResults :
              /\ result \notin {"queued", "explicit"} => s'.batch = 0
              /\ result = "queued" => s'.batch = s.batch + 1 /\ s'.suspended = s.suspended
              /\ result = "queued" => s'.batching
<1> DEFINE w == Pop(s)
<1>1. s.queue # <<>> /\ Accounts(s, done, fails, blank, pushed)
  BY DEF Insert, CanPop, Books
<1>2. PICK result \in InsertResults : Answer(w, result)
  BY DEF Insert
<1>3. result \in Results
  BY <1>2, WorkerConstants
<1>4. /\ Accounts(w, done, fails, blank, pushed) /\ Counted(w) /\ w.batch = s.batch + 1
      /\ w.suspended = s.suspended /\ w.backlog = Append(s.backlog, Head(s.queue))
  BY <1>1, PopFacts, Zenon
<1>5. s.batch \in Nat /\ s.backlog \in Seq(Messages) /\ s.queue \in Seq(Messages)
  BY <1>1 DEF Accounts, WorkerState
<1>7. \A j \in DOMAIN Append(s.backlog, Head(s.queue)) :
        \/ Append(s.backlog, Head(s.queue))[j] = Head(s.queue)
        \/ j \in DOMAIN s.backlog /\ Append(s.backlog, Head(s.queue))[j] = s.backlog[j]
  <2> DEFINE b == s.backlog
             h == Head(s.queue)
  <2>1. h \in Messages /\ b \in Seq(Messages)
    BY <1>1, <1>5, HeadTailProperties, SMT, SMTT(30)
  <2> HIDE DEF b, h
  <2>2. \A j \in DOMAIN Append(b, h) :
          Append(b, h)[j] = h \/ (j \in DOMAIN b /\ Append(b, h)[j] = b[j])
    BY <2>1, AppendProperties, LenProperties
  <2> QED BY <2>2 DEF b, h
<1> HIDE DEF w
<1>8. /\ From(w, s')
      /\ result \notin {"queued", "explicit"} => s'.batch = 0
      /\ result \in {"queued", "explicit", "success"} => s'.suspended = w.suspended
      /\ result = "queued" => s'.batch = w.batch /\ s'.batching
  BY <1>2, <1>3, <1>4, AnswerOutcome, Zenon
<1>9. \A i \in DOMAIN s'.backlog : \E j \in DOMAIN w.backlog : s'.backlog[i] = w.backlog[j]
  BY <1>8, Zenon DEF From
<1>10. \A i \in DOMAIN s'.backlog :
         \/ s'.backlog[i] = Head(s.queue)
         \/ \E j \in DOMAIN s.backlog : s'.backlog[i] = s.backlog[j]
  BY <1>4, <1>7, <1>9, ZenonT(30)
<1>11. /\ result \notin {"queued", "explicit"} => s'.batch = 0
       /\ result = "queued" => s'.batch = s.batch + 1 /\ s'.suspended = s.suspended
       /\ result = "queued" => s'.batching
  BY <1>4, <1>8
<1> QED
  BY <1>2, <1>10, <1>11

\* A step keeps the keys of the batch together.
LEMMA KeyStep ==
  ASSUME FlushSettles, Inv, KeyInv, [Next]_vars
  PROVE  KeyInv'
<1> SUFFICES ASSUME FlushOnKeyChange
             PROVE  /\ \A i \in DOMAIN s'.backlog : Key[s'.backlog[i]] = last_key'
                    /\ pc' = "pop" => /\ s'.batch = 0 /\ s'.queue # <<>>
                                      /\ last_key' = Key[Head(s'.queue)]
  BY DEF KeyInv
<1>1. /\ s \in WorkerState /\ pushed \in 0 .. MaxMsgs
      /\ s.backlog \in Seq(Messages) /\ s.queue \in Seq(Messages) /\ s.batch \in Nat
      /\ pc # "exited" => /\ Books /\ Counted(s) /\ Placed(s)
                          /\ Accounts(s, done, fails, blank, pushed)
  BY InvFacts DEF Accounts, WorkerState
<1>2. /\ \A i \in DOMAIN s.backlog : Key[s.backlog[i]] = last_key
      /\ pc = "pop" => s.batch = 0 /\ s.queue # <<>> /\ last_key = Key[Head(s.queue)]
  BY DEF KeyInv
<1>3. pc # "exited" /\ s.batch = 0 => DOMAIN s.backlog = {}
  BY <1>1, LenProperties DEF Counted
<1> DEFINE Goal == /\ \A i \in DOMAIN s'.backlog : Key[s'.backlog[i]] = last_key'
                   /\ pc' = "pop" => /\ s'.batch = 0 /\ s'.queue # <<>>
                                     /\ last_key' = Key[Head(s'.queue)]
<1>4. ASSUME pc' # "pop", last_key' = last_key, From(s, s')
      PROVE  Goal
  BY <1>2, <1>4 DEF From
<1>5. ASSUME pc' # "pop", last_key' = last_key, s'.backlog = s.backlog
      PROVE  Goal
  BY <1>2, <1>5
<1>6. CASE DriverQueue
  <2>1. /\ s' = [s EXCEPT !.queue = Append(@, pushed + 1), !.wait = @ + 1]
        /\ pc' = pc /\ last_key' = last_key /\ pushed + 1 \in Messages
    BY <1>1, <1>6, WorkerConstants, SMT, SMTT(30) DEF DriverQueue, Messages
  <2>2. /\ s'.backlog = s.backlog /\ s'.batch = s.batch
        /\ s'.queue = Append(s.queue, pushed + 1)
    BY <1>1, <2>1, PushState, Zenon
  <2>3. s.queue # <<>> => s'.queue # <<>> /\ Head(s'.queue) = Head(s.queue)
    <3> DEFINE q == s.queue
               e == pushed + 1
    <3>1. q \in Seq(Messages) /\ e \in Messages /\ s'.queue = Append(q, e)
      BY <1>1, <2>1, <2>2
    <3> HIDE DEF q, e
    <3>2. q # <<>> => Append(q, e) # <<>> /\ Head(Append(q, e)) = Head(q)
      BY <3>1, AppendProperties, EmptySeq
    <3> QED BY <3>1, <3>2 DEF q
  <2> QED BY <1>2, <2>1, <2>2, <2>3
<1>7. CASE \/ BatchTimeoutElapses \/ RequestWorkerExit \/ WakeupEvent \/ SourcesAtBound
           \/ UNCHANGED vars
  <2>1. s' = s /\ pc' = pc /\ last_key' = last_key
    BY <1>7, SMT, SMTT(30) DEF BatchTimeoutElapses, RequestWorkerExit, WakeupEvent, SourcesAtBound, vars
  <2> QED BY <1>2, <2>1
<1>8. CASE ShutdownEvent
  BY <1>5, <1>8, SMT, SMTT(30) DEF ShutdownEvent
<1>9. CASE PerformWork
  <2> DEFINE w == [s EXCEPT !.suspended = FALSE]
  <2>1. pc = "idle" /\ pc' # "pop" /\ last_key' = last_key
    BY <1>9, Zenon DEF PerformWork, Connect, StartInserts, Throttled, FlushPending, WaitForItems
  <2>2. /\ w \in WorkerState /\ w.backlog = s.backlog /\ w.queue = s.queue
        /\ w.errors = s.errors /\ w.batch = s.batch /\ w.wait = s.wait
    BY <1>1, Zenon DEF WorkerState
  <2>3. \/ \E ok \in BOOLEAN : s' = [s EXCEPT !.connected = ok, !.suspended = ~ok]
        \/ s' = w
        \/ PerformFlush(w)
    BY <1>9, Zenon DEF PerformWork, Connect, StartInserts, Throttled, FlushPending, WaitForItems
  <2>4. CASE \E ok \in BOOLEAN : s' = [s EXCEPT !.connected = ok, !.suspended = ~ok]
    <3>1. s'.backlog = s.backlog
      BY <1>1, <2>4 DEF WorkerState
    <3> QED BY <1>5, <2>1, <3>1
  <2>5. CASE s' = w
    BY <1>5, <2>1, <2>2, <2>5
  <2>6. CASE PerformFlush(w)
    <3> HIDE DEF w
    <3>a. Books /\ Accounts(s, done, fails, blank, pushed) /\ Counted(s) /\ Placed(w)
      BY <1>1, <2>1, <2>2 DEF Placed
    <3>1. Accounts(w, done, fails, blank, pushed) /\ Counted(w)
      BY <2>2, <3>a, SameMessages, Zenon DEF Counted
    <3>2. From(w, s')
      BY <2>6, <3>a, <3>1, FlushOutcome, Zenon
    <3>3. From(s, s')
      BY <2>2, <3>2 DEF From
    <3> QED BY <1>4, <2>1, <3>3
  <2> QED BY <2>3, <2>4, <2>5, <2>6, ZenonT(30)
<1>10. CASE LeaveLoop
  <2>1. pc' = "after" /\ pc = "loop" /\ Placed(s)
    BY <1>1, <1>10 DEF LeaveLoop
  <2>2. s'.backlog = s.backlog
    BY <1>1, <1>10, <2>1, LeaveFacts, Zenon
  <2>3. last_key' = last_key \/ s.batch = 0
    BY <1>10 DEF LeaveLoop
  <2> QED BY <1>2, <1>3, <1>5, <2>1, <2>2, <2>3
<1>11. CASE FlushOnPartitionKeyChange
  <2> DEFINE w == Fetch(s)
  <2>1. PICK result \in FlushResults :
          /\ Answer(w, result)
          /\ pc' = IF result \in {"success", "explicit"} THEN "pop" ELSE "tail"
    BY <1>11 DEF FlushOnPartitionKeyChange, Flush
  <2>2. /\ pc = "loop" /\ s.batch # 0 /\ s.queue # <<>>
        /\ last_key' = Key[Head(s.queue)]
    BY <1>11 DEF FlushOnPartitionKeyChange
  <2>3. result \in Results /\ result \notin {"queued", "explicit"}
    BY <2>1, WorkerConstants DEF FlushSettles
  <2>4. Books /\ Counted(s) /\ Accounts(s, done, fails, blank, pushed)
    BY <1>1, <2>2
  <2>w. Accounts(w, done, fails, blank, pushed) /\ Counted(w) /\ w.queue = s.queue
    BY <2>4, FetchAccounts, Zenon
  <2> HIDE DEF w
  <2>5. /\ s' \in WorkerState /\ Counted(s')
        /\ result \notin {"queued", "explicit"} => s'.batch = 0
        /\ result = "success" => s'.queue = s.queue
    BY <2>1, <2>3, <2>4, <2>w, AnswerOutcome, Zenon
  <2>6. DOMAIN s'.backlog = {}
    BY <2>3, <2>5, LenProperties DEF Counted, WorkerState
  <2> QED BY <2>1, <2>2, <2>3, <2>5, <2>6
<1>12. ASSUME Insert, pc # "exited", last_key' = Key[Head(s.queue)],
              s.batch = 0 \/ last_key = Key[Head(s.queue)]
       PROVE  Goal
  <2>1. pc' # "pop"
    BY <1>12 DEF Insert
  <2>2. \A i \in DOMAIN s'.backlog :
          \/ s'.backlog[i] = Head(s.queue)
          \/ \E j \in DOMAIN s.backlog : s'.backlog[i] = s.backlog[j]
    BY <1>1, <1>12, InsertOutcome
  <2>3. \A i \in DOMAIN s'.backlog : Key[s'.backlog[i]] = last_key'
    BY <1>2, <1>3, <1>12, <2>2
  <2> QED BY <2>1, <2>3
<1>13. CASE PopAndInsert
  <2>1. /\ Insert /\ pc # "exited" /\ last_key' = Key[Head(s.queue)]
        /\ s.batch = 0 \/ last_key = Key[Head(s.queue)]
    BY <1>13 DEF PopAndInsert
  <2> QED BY <1>12, <2>1
<1>14. CASE InsertAfterKeyChange
  <2>1. CASE Insert /\ UNCHANGED last_key
    <3>1. pc = "pop"
      BY <1>14 DEF InsertAfterKeyChange
    <3> QED BY <1>2, <1>12, <2>1, <3>1
  <2>2. CASE ~(Insert /\ UNCHANGED last_key)
    <3>1. s' = [s EXCEPT !.rewound = 0] /\ pc' = "after" /\ last_key' = last_key
      BY <1>14, <2>2 DEF InsertAfterKeyChange
    <3>2. s'.backlog = s.backlog
      BY <1>1, <3>1 DEF WorkerState
    <3> QED BY <1>5, <3>1, <3>2
  <2> QED BY <2>1, <2>2
<1>15. CASE LoopTail
  <2>1. /\ \E n : s' = [s EXCEPT !.rewound = n]
        /\ pc' # "pop" /\ last_key' = last_key
    BY <1>15, Zenon DEF LoopTail
  <2>2. s'.backlog = s.backlog
    BY <1>1, <2>1 DEF WorkerState
  <2> QED BY <1>5, <2>1, <2>2
<1>16. CASE FlushFullBatch \/ AfterInserts
  <2>1. pc # "exited" /\ pc' # "pop" /\ last_key' = last_key
    BY <1>16 DEF FlushFullBatch, AfterInserts
  <2>2. PerformFlush(s) \/ s' = s
    BY <1>16 DEF FlushFullBatch, AfterInserts
  <2>3. Books /\ Accounts(s, done, fails, blank, pushed) /\ Counted(s)
    BY <1>1, <2>1
  <2>4. PerformFlush(s) => From(s, s')
    BY <2>3, FlushOutcome, Zenon
  <2> QED BY <1>4, <1>5, <2>1, <2>2, <2>4
<1>17. CASE FinalFlush
  <2>1. PICK result \in FlushResults : Answer(s, result)
    BY <1>17 DEF FinalFlush, Flush
  <2>2. pc = "final" /\ pc' = "exit" /\ last_key' = last_key
    BY <1>17 DEF FinalFlush
  <2>3. result \in Results
    BY <2>1, WorkerConstants
  <2>4. Books /\ Accounts(s, done, fails, blank, pushed) /\ Counted(s)
    BY <1>1, <2>2
  <2>5. From(s, s')
    BY <2>1, <2>3, <2>4, AnswerOutcome, Zenon
  <2> QED BY <1>4, <2>2, <2>5
<1>18. CASE WorkerExit
  <2>1. s'.backlog = <<>> /\ pc' = "exited"
    BY <1>1, <1>18, Zenon DEF WorkerExit, RewindBacklogAll, WorkerState
  <2>2. DOMAIN s'.backlog = {}
    BY <2>1
  <2> QED BY <2>1, <2>2
<1>19. Next \/ UNCHANGED vars
  OBVIOUS
<1> HIDE DEF Goal
<1>20. Goal
  <2>1. \/ DriverQueue \/ ShutdownEvent \/ PerformWork \/ LeaveLoop
        \/ FlushOnPartitionKeyChange \/ PopAndInsert \/ InsertAfterKeyChange
        \/ LoopTail \/ FinalFlush \/ WorkerExit
        \/ FlushFullBatch \/ AfterInserts
        \/ BatchTimeoutElapses \/ RequestWorkerExit \/ WakeupEvent \/ SourcesAtBound
        \/ UNCHANGED vars
    BY <1>19, SMT, SMTT(30) DEF Next
  <2>2. \/ DriverQueue \/ ShutdownEvent \/ PerformWork \/ LeaveLoop
        \/ FlushOnPartitionKeyChange \/ PopAndInsert \/ InsertAfterKeyChange
        => Goal
    BY <1>6, <1>8, <1>9, <1>10, <1>11, <1>13, <1>14, SMT, SMTT(30) DEF Goal
  <2>3. LoopTail \/ FinalFlush \/ WorkerExit \/ FlushFullBatch \/ AfterInserts => Goal
    BY <1>15, <1>16, <1>17, <1>18, SMT, SMTT(30) DEF Goal
  <2>4. \/ BatchTimeoutElapses \/ RequestWorkerExit \/ WakeupEvent \/ SourcesAtBound
        \/ UNCHANGED vars
        => Goal
    BY <1>7 DEF Goal
  <2> QED BY <2>1, <2>2, <2>3, <2>4
<1> QED
  BY <1>20 DEF Goal

(***************************************************************************)
(* With flush-on-worker-key-change() the messages of a batch have one      *)
(* partition key, for every driver whose flush() settles its batch.        *)
(***************************************************************************)
THEOREM OneKeyPerBatchHolds == FlushSettles /\ Spec => []OneKeyPerBatch
<1> SUFFICES ASSUME FlushSettles
             PROVE  Spec => []OneKeyPerBatch
  OBVIOUS
<1>1. Init => KeyInv
  BY DEF Init, KeyInv
<1>2. Inv /\ KeyInv /\ [Next]_vars => KeyInv'
  BY KeyStep
<1>3. KeyInv => OneKeyPerBatch
  BY DEF KeyInv, OneKeyPerBatch
<1> QED
  BY <1>1, <1>2, <1>3, Invariance, PTL DEF Spec

\* There is room in the batch, unless it is about to be flushed.
RoomInv ==
  /\ s.batch < BatchLines \/ (pc = "full" /\ s.batch = BatchLines)
  /\ pc \in {"full", "pop"} => ~s.suspended

\* A step keeps the batch within batch-lines().
LEMMA RoomStep ==
  ASSUME FlushSettles, "explicit" \notin InsertResults, BatchLines > 0,
         Inv, RoomInv, [Next]_vars
  PROVE  RoomInv'
<1>1. /\ s \in WorkerState /\ s.batch \in Nat /\ BatchLines \in Nat
      /\ pc # "exited" => /\ Books /\ Counted(s) /\ Placed(s)
                          /\ Accounts(s, done, fails, blank, pushed)
  BY WorkerConstants, InvFacts DEF Accounts, WorkerState
<1>2. ASSUME pc' \notin {"full", "pop"}, s'.batch = 0 \/ (pc # "full" /\ s'.batch = s.batch)
      PROVE  RoomInv'
  BY <1>1, <1>2 DEF RoomInv
<1>3. CASE DriverQueue
  <2>1. s'.batch = s.batch /\ s'.suspended = s.suspended /\ pc' = pc
    BY <1>1, <1>3 DEF DriverQueue, WorkerState
  <2> QED BY <2>1 DEF RoomInv
<1>4. CASE \/ BatchTimeoutElapses \/ RequestWorkerExit \/ WakeupEvent \/ SourcesAtBound
           \/ UNCHANGED vars
  <2>1. s' = s /\ pc' = pc
    BY <1>4 DEF BatchTimeoutElapses, RequestWorkerExit, WakeupEvent, SourcesAtBound, vars
  <2> QED BY <2>1, SMT, SMTT(30) DEF RoomInv
<1>5. CASE ShutdownEvent
  BY <1>2, <1>5, SMT, SMTT(30) DEF ShutdownEvent
<1>6. CASE PerformWork
  <2> DEFINE w == [s EXCEPT !.suspended = FALSE]
  <2>1. pc = "idle" /\ pc' \notin {"full", "pop"}
    BY <1>6, Zenon DEF PerformWork, Connect, StartInserts, Throttled, FlushPending, WaitForItems
  <2>2. /\ w \in WorkerState /\ w.backlog = s.backlog /\ w.queue = s.queue
        /\ w.errors = s.errors /\ w.batch = s.batch /\ w.wait = s.wait
    BY <1>1, Zenon DEF WorkerState
  <2>3. \/ \E ok \in BOOLEAN : s' = [s EXCEPT !.connected = ok, !.suspended = ~ok]
        \/ s' = w
        \/ PerformFlush(w)
    BY <1>6, Zenon DEF PerformWork, Connect, StartInserts, Throttled, FlushPending, WaitForItems
  <2>4. CASE \E ok \in BOOLEAN : s' = [s EXCEPT !.connected = ok, !.suspended = ~ok]
    <3>1. s'.batch = s.batch
      BY <1>1, <2>4 DEF WorkerState
    <3> QED BY <1>2, <2>1, <3>1
  <2>5. CASE s' = w
    BY <1>2, <2>1, <2>2, <2>5
  <2>6. CASE PerformFlush(w)
    <3> HIDE DEF w
    <3>a. Books /\ Accounts(s, done, fails, blank, pushed) /\ Counted(s) /\ Placed(w)
      BY <1>1, <2>1, <2>2 DEF Placed
    <3>1. Accounts(w, done, fails, blank, pushed) /\ Counted(w)
      BY <2>2, <3>a, SameMessages, Zenon DEF Counted
    <3>2. s'.batch = 0 \/ s'.batch = w.batch
      BY <2>6, <3>a, <3>1, FlushOutcome, Zenon
    <3> QED BY <1>2, <2>1, <2>2, <3>2
  <2> QED BY <2>3, <2>4, <2>5, <2>6, ZenonT(30)
<1>7. CASE LeaveLoop \/ LoopTail \/ (InsertAfterKeyChange /\ ~Insert)
  <2>1. pc \notin {"full", "exited"} /\ pc' \notin {"full", "pop"}
    BY <1>7 DEF LeaveLoop, LoopTail, InsertAfterKeyChange
  <2>a. Placed(s)
    BY <1>1, <2>1
  <2>2. s'.batch = s.batch
    BY <1>1, <1>7, <2>a, LeaveFacts, Zenon
  <2> QED BY <1>2, <2>1, <2>2
<1>8. CASE FlushOnPartitionKeyChange
  <2> DEFINE w == Fetch(s)
  <2>1. PICK result \in FlushResults :
          /\ Answer(w, result)
          /\ pc' = IF result \in {"success", "explicit"} THEN "pop" ELSE "tail"
    BY <1>8 DEF FlushOnPartitionKeyChange, Flush
  <2>2. pc = "loop" /\ s.batch # 0 /\ ~s.suspended
    BY <1>8 DEF FlushOnPartitionKeyChange
  <2>3. result \in Results /\ result \notin {"queued", "explicit"}
    BY <2>1, WorkerConstants DEF FlushSettles
  <2>4. Books /\ Counted(s) /\ Accounts(s, done, fails, blank, pushed)
    BY <1>1, <2>2
  <2>w. Accounts(w, done, fails, blank, pushed) /\ Counted(w) /\ w.suspended = s.suspended
    BY <2>4, FetchAccounts, Zenon
  <2> HIDE DEF w
  <2>5. /\ result \notin {"queued", "explicit"} => s'.batch = 0
        /\ result \in {"queued", "explicit", "success"} => s'.suspended = s.suspended
    BY <2>1, <2>3, <2>4, <2>w, AnswerOutcome, Zenon
  <2> QED BY <1>1, <2>1, <2>2, <2>3, <2>5, SMT, SMTT(30) DEF RoomInv
<1>9. CASE PopAndInsert \/ (InsertAfterKeyChange /\ Insert)
  <2>1. Insert /\ pc \in {"loop", "pop"}
    BY <1>9 DEF PopAndInsert, InsertAfterKeyChange
  <2>2. ~s.suspended /\ s.batch < BatchLines
    BY <1>9, <2>1 DEF PopAndInsert, InsertAfterKeyChange, RoomInv
  <2>3. PICK result \in InsertResults :
          /\ result \notin {"queued", "explicit"} => s'.batch = 0
          /\ result = "queued" => s'.batch = s.batch + 1 /\ s'.suspended = s.suspended
          /\ result = "queued" => s'.batching
    BY <1>1, <2>1, InsertOutcome
  <2>4. \/ s'.batch = 0
        \/ s'.batch = s.batch + 1 /\ ~s'.suspended /\ s'.batching
    BY <2>2, <2>3
  <2>5. /\ pc' \in {"full", "tail"}
        /\ pc' = "full" => s'.batch >= BatchLines
        /\ pc' = "tail" => s'.batch < BatchLines \/ ~s'.batching
    BY <1>1, <2>1, <2>4 DEF Insert
  <2> QED BY <1>1, <2>2, <2>4, <2>5 DEF RoomInv
<1>10. CASE FlushFullBatch
  <2>1. pc = "full" /\ pc' = "tail" /\ PerformFlush(s) /\ ~s.suspended
    BY <1>10 DEF FlushFullBatch, RoomInv
  <2>2. Books /\ Accounts(s, done, fails, blank, pushed) /\ Counted(s)
    BY <1>1, <2>1
  <2>3. s'.batch = 0 \/ s.suspended
    BY <2>1, <2>2, FlushOutcome, Zenon
  <2> QED BY <1>2, <2>1, <2>3
<1>11. CASE AfterInserts
  <2>1. pc = "after" /\ pc' = "idle" /\ (PerformFlush(s) \/ s' = s)
    BY <1>11 DEF AfterInserts
  <2>2. Books /\ Accounts(s, done, fails, blank, pushed) /\ Counted(s)
    BY <1>1, <2>1
  <2>3. PerformFlush(s) => s'.batch = 0 \/ s'.batch = s.batch
    BY <2>2, FlushOutcome, Zenon
  <2> QED BY <1>2, <2>1, <2>3
<1>12. CASE FinalFlush
  <2>1. PICK result \in FlushResults : Answer(s, result)
    BY <1>12 DEF FinalFlush, Flush
  <2>2. pc = "final" /\ pc' = "exit"
    BY <1>12 DEF FinalFlush
  <2>3. result \in Results /\ result \notin {"queued", "explicit"}
    BY <2>1, WorkerConstants DEF FlushSettles
  <2>4. Books /\ Accounts(s, done, fails, blank, pushed) /\ Counted(s)
    BY <1>1, <2>2
  <2>5. result \notin {"queued", "explicit"} => s'.batch = 0
    BY <2>1, <2>3, <2>4, AnswerOutcome, Zenon
  <2> QED BY <1>2, <2>2, <2>3, <2>5
<1>13. CASE WorkerExit
  <2>1. pc = "exit" /\ pc' = "exited"
    BY <1>13 DEF WorkerExit
  <2>2. s'.batch = s.batch
    BY <1>1, <1>13, Zenon DEF WorkerExit, RewindBacklogAll, WorkerState
  <2> QED BY <1>2, <2>1, <2>2
<1>14. \/ DriverQueue \/ ShutdownEvent \/ PerformWork \/ FlushOnPartitionKeyChange
       \/ FinalFlush \/ WorkerExit \/ FlushFullBatch \/ AfterInserts
       \/ BatchTimeoutElapses \/ RequestWorkerExit \/ WakeupEvent \/ SourcesAtBound
       \/ UNCHANGED vars
       \/ LeaveLoop \/ LoopTail \/ (InsertAfterKeyChange /\ ~Insert)
       \/ PopAndInsert \/ (InsertAfterKeyChange /\ Insert)
  BY DEF Next
<1> QED
  BY <1>3, <1>4, <1>5, <1>6, <1>7, <1>8, <1>9, <1>10, <1>11, <1>12, <1>13, <1>14, SMT, SMTT(30)

(***************************************************************************)
(* A batch never outgrows batch-lines(), for every driver whose flush()    *)
(* settles its batch and whose insert() does not ack by itself.            *)
(***************************************************************************)
THEOREM BatchWithinLinesHolds ==
  FlushSettles /\ "explicit" \notin InsertResults /\ BatchLines > 0 /\ Spec
    => []BatchWithinLines
<1> SUFFICES ASSUME FlushSettles, "explicit" \notin InsertResults, BatchLines > 0
             PROVE  Spec => []BatchWithinLines
  OBVIOUS
<1>1. Init => RoomInv
  BY DEF Init, RoomInv
<1>2. Inv /\ RoomInv /\ [Next]_vars => RoomInv'
  BY RoomStep
<1>3. Inv /\ RoomInv => BatchWithinLines
  BY WorkerConstants, InvFacts DEF WorkerState, RoomInv, BatchWithinLines
<1> QED
  BY <1>1, <1>2, <1>3, Invariance, PTL DEF Spec

-----------------------------------------------------------------------------
(* A batch that failed is tried again as the same batch.                   *)

\* insert() neither fails itself nor settles only a part of the batch.
InsertSettles == InsertResults \cap {"error", "not_connected", "explicit"} = {}

\* The message after the first n that are not done has another partition key.
KeyBreak(n) ==
  /\ FlushOnKeyChange
  /\ Len(done) + n < pushed
  /\ Key[Len(done) + n + 1] # Key[Len(done) + 1]

\* A batch of the first n ends by itself: it is full, or the key changes.
Ends(n) == n = BatchLines \/ KeyBreak(n)

\* The first n messages that are not done are there, and go into one batch.
OneBatch(n) ==
  /\ n <= BatchLines
  /\ Len(done) + n <= pushed
  /\ FlushOnKeyChange => \A i \in 1 .. n : Key[Len(done) + i] = Key[Len(done) + 1]

\* Where the worker is with the retry of a batch of n: the countdown of the
\* rewound batch, or the end of the batch by itself, will stop it at n.
Retrying(n) ==
  /\ pc = "idle" => s.rewound = n \/ (s.rewound = 0 /\ Ends(n))
  /\ pc = "full" => s.batch = n
  /\ pc \in {"loop", "tail", "after"} /\ s.suspended =>
       Ends(n) /\ (pc = "after" => s.rewound = 0)
  /\ pc = "loop" /\ ~s.suspended =>
       \/ s.batch < n /\ s.rewound = n - s.batch
       \/ s.rewound = 0 /\ Ends(n) /\ (s.batch < n \/ KeyBreak(n))
  /\ pc = "tail" /\ ~s.suspended =>
       \/ s.rewound = n - s.batch + 1
       \/ s.rewound = 0 /\ Ends(n) /\ (s.batch < n \/ KeyBreak(n))
  /\ pc = "after" /\ ~s.suspended => s.batch = n

\* Without throttle() and batch-timeout() a worker that is suspended or idle
\* has no batch.
Settled ==
  /\ s.suspended \/ pc = "idle" => s.batch = 0
  /\ first = 0 => last = 0
  /\ pc = "pop" => first = 0
  /\ pc = "full" => s.batch >= BatchLines
  /\ shutdown \/ pc \in {"final", "exit", "exited"} => term

RetryInv ==
  /\ Settled
  /\ ~term /\ first # 0 =>
       last = first /\ s.batch <= first /\ OneBatch(first) /\ Retrying(first)

\* The batch and the queue hold the messages that follow the ones done.
LEMMA Numbered ==
  ASSUME NEW w, NEW d, NEW f, NEW g, NEW p \in 0 .. MaxMsgs, Accounts(w, d, f, g, p)
  PROVE  /\ \A i \in 1 .. Len(w.backlog) : w.backlog[i] = Len(d) + i
         /\ w.queue # <<>> => Head(w.queue) = Len(d) + Len(w.backlog) + 1
<1> DEFINE b == w.backlog
           q == w.queue
           r == b \o q
<1>1. d \in Seq(Messages) /\ b \in Seq(Messages) /\ q \in Seq(Messages)
  BY DEF Accounts, WorkerState
<1>2. Len(d) \in Nat /\ Len(b) \in Nat /\ Len(q) \in Nat /\ p \in Nat
  BY <1>1, LenProperties
<1>3. d \o r = Upto(p)
  BY DEF Accounts
<1> HIDE DEF b, q
<1>4. r \in Seq(Messages) /\ Len(r) = Len(b) + Len(q)
  BY <1>1, ConcatProperties, Zenon
<1>5. \A i \in 1 .. Len(r) : r[i] = Len(d) + i
  <2> HIDE DEF r
  <2> SUFFICES ASSUME NEW i \in 1 .. Len(r) PROVE r[i] = Len(d) + i
    OBVIOUS
  <2>1. /\ Len(d \o r) = Len(d) + Len(r)
        /\ (d \o r)[Len(d) + i] = r[i]
    <3>1. /\ Len(d \o r) = Len(d) + Len(r)
          /\ \A k \in 1 .. Len(d) + Len(r) :
               (d \o r)[k] = IF k <= Len(d) THEN d[k] ELSE r[k - Len(d)]
      <4>1. d \in Seq(Messages) /\ r \in Seq(Messages)
        BY <1>1, <1>4
      <4> QED BY <4>1, ConcatProperties, SMT, ZenonT(30)
    <3>2. /\ Len(r) \in Nat /\ Len(d) + i \in 1 .. Len(d) + Len(r)
          /\ ~(Len(d) + i <= Len(d)) /\ Len(d) + i - Len(d) = i
      BY <1>2, <1>4
    <3> QED BY <3>1, <3>2, ZenonT(30), SMTT(30)
  <2>2. Len(Upto(p)) = p /\ Len(d) + i \in 1 .. Len(Upto(p))
    BY <1>2, <1>3, <1>4, <2>1 DEF Upto
  <2>3. Upto(p)[Len(d) + i] = Len(d) + i
    BY <2>2 DEF Upto
  <2> QED BY <1>3, <2>1, <2>3
<1>6. \A i \in 1 .. Len(b) : b[i] = Len(d) + i
  <2> SUFFICES ASSUME NEW i \in 1 .. Len(b) PROVE b[i] = Len(d) + i
    OBVIOUS
  <2>1. r[i] = b[i]
    BY <1>1, <1>2, ConcatProperties
  <2>2. i \in 1 .. Len(r)
    BY <1>2, <1>4
  <2> QED BY <1>5, <2>1, <2>2
<1>7. q # <<>> => Head(q) = Len(d) + Len(b) + 1
  <2> SUFFICES ASSUME q # <<>> PROVE Head(q) = Len(d) + Len(b) + 1
    OBVIOUS
  <2>1. Len(q) > 0 /\ Head(q) = q[1]
    BY <1>1, <1>2, EmptySeq
  <2>2. r[Len(b) + 1] = q[1]
    BY <1>1, <1>2, <2>1, ConcatProperties
  <2>3. Len(b) + 1 \in 1 .. Len(r)
    BY <1>2, <1>4, <2>1
  <2> QED BY <1>2, <1>5, <2>1, <2>2, <2>3
<1> QED
  BY <1>6, <1>7 DEF b, q

\* What the answers do to the size of a rewound batch, to the queue and to
\* the suspension.
LEMMA RewoundFacts ==
  ASSUME NEW w \in WorkerState, NEW result \in Results,
         NEW v, v = ProcessResult(w, result, 0, 0)
  PROVE  /\ result = "queued" => v.rewound = w.rewound /\ v.queue = w.queue
         /\ result = "drop" => v.queue = w.queue
         /\ result = "error" =>
              v.queue = w.queue \/ (v.rewound = w.batch /\ v.suspended)
         /\ result = "not_connected" => v.rewound = w.batch /\ v.suspended
<1>1. CASE result = "queued"
  BY <1>1, Zenon DEF ProcessResult, WorkerState
<1>2. CASE result = "drop"
  BY <1>2, Zenon, ZenonT(30)
     DEF ProcessResult, ProcessDrop, DisconnectAndSuspend, AckMessages, WorkerState
<1>3. CASE result = "error"
  <2>1. CASE w.errors + 1 >= RetriesOnErrorMax
    BY <1>3, <2>1 DEF ProcessResult, ProcessError, AckMessages, WorkerState
  <2>2. CASE ~(w.errors + 1 >= RetriesOnErrorMax)
    BY <1>3, <2>2
       DEF ProcessResult, ProcessError, DisconnectAndSuspend, RewindMessages, WorkerState
  <2> QED BY <2>1, <2>2, Zenon
<1>4. CASE result = "not_connected"
  BY <1>4, Zenon
     DEF ProcessResult, ProcessNotConnected, DisconnectAndSuspend, RewindMessages, WorkerState
<1> QED
  BY <1>1, <1>2, <1>3, <1>4, Zenon

\* How many of p messages are done, in the batch and queued.
LEMMA AccountsLengths ==
  ASSUME NEW w, NEW d, NEW f, NEW g, NEW p \in 0 .. MaxMsgs, Accounts(w, d, f, g, p)
  PROVE  /\ Len(d) \in Nat /\ Len(w.backlog) \in Nat /\ Len(w.queue) \in Nat
         /\ Len(d) + Len(w.backlog) + Len(w.queue) = p
<1>1. /\ w.backlog \in Seq(Messages) /\ w.queue \in Seq(Messages)
      /\ Len(d) \in Nat /\ Len(w.backlog) \in Nat /\ Len(w.queue) \in Nat
      /\ Len(d) + Len(w.backlog) + Len(w.queue) = p
      /\ \A i \in 1 .. Len(d) : d[i] = i
      /\ Len(w.backlog) > 0 => w.backlog[1] = Len(d) + 1
      /\ w.backlog = <<>> /\ w.queue # <<>> => Head(w.queue) = Len(d) + 1
  BY AccountsFacts, Zenon
<1> QED
  BY <1>1, Zenon

\* No message comes back: what is done stays done.
LEMMA LeaveLengths ==
  ASSUME NEW w \in WorkerState, NEW v, NEW n, Leave(w, v, n)
  PROVE  Len(v.backlog) + Len(v.queue) <= Len(w.backlog) + Len(w.queue)
<1> DEFINE b == w.backlog
           q == w.queue
           c == v.backlog
           r == v.queue
           x == SubSeq(b, 1, n)
<1>1. /\ b \in Seq(Messages) /\ q \in Seq(Messages)
      /\ c \in Seq(Messages) /\ r \in Seq(Messages)
      /\ n \in 0 .. Len(b) /\ b \o q = x \o (c \o r)
  BY DEF Leave, WorkerState
<1> HIDE DEF b, q, c, r
<1>2. x \in Seq(Messages)
  BY <1>1, SplitAt, Zenon
<1> HIDE DEF x
<1>b. Len(b \o q) = Len(b) + Len(q)
  BY <1>1, ConcatProperties, ZenonT(30)
<1>c. c \o r \in Seq(Messages) /\ Len(c \o r) = Len(c) + Len(r)
  BY <1>1, ConcatProperties, ZenonT(30)
<1>3. Len(b \o q) = Len(b) + Len(q) /\ c \o r \in Seq(Messages) /\ Len(c \o r) = Len(c) + Len(r)
  BY <1>b, <1>c, Zenon
<1>d. c \o r \in Seq(Messages)
  BY <1>c
<1>4. Len(x \o (c \o r)) = Len(x) + Len(c \o r)
  BY <1>2, <1>d, ConcatProperties, SMT, ZenonT(30)
<1>5. Len(x) \in Nat /\ Len(c) \in Nat /\ Len(r) \in Nat
  BY <1>1, <1>2, LenProperties, Zenon
<1>6. Len(b) + Len(q) = Len(x) + (Len(c) + Len(r))
  BY <1>1, <1>3, <1>4, Zenon
<1>7. Len(c) + Len(r) <= Len(b) + Len(q)
  <2> DEFINE i == Len(x)
             j == Len(c)
             k == Len(r)
  <2>1. Len(b) + Len(q) = i + (j + k) /\ i \in Nat /\ j \in Nat /\ k \in Nat
    BY <1>5, <1>6, Zenon
  <2> HIDE DEF i, j, k
  <2>2. j + k <= i + (j + k)
    BY <2>1, SMT, SMTT(30)
  <2> QED BY <2>1, <2>2, Zenon DEF j, k
<1> QED
  BY <1>7, Zenon DEF b, q, c, r

\* A batch of w failed and was rewound; none of it is done.
Failed(w) ==
  /\ first' = IF first = 0 THEN w.batch ELSE first
  /\ last' = w.batch
  /\ Len(done') = Len(done)
  /\ s'.rewound = w.batch /\ s'.suspended

\* An answer to a batch settles it, or remembers that the batch failed.
LEMMA AnswerRetry ==
  ASSUME Throttle = 0, Books, NEW w, Accounts(w, done, fails, blank, pushed), Counted(w),
         NEW result \in Results, result # "explicit", Answer(w, result)
  PROVE  /\ w.batch = 0 \/ result = "queued" => first' = first /\ last' = last
         /\ w.batch > 0 /\ result # "queued" =>
              (first' = 0 /\ last' = 0) \/ (result \in {"error", "not_connected"} /\ Failed(w))
         /\ result = "queued" => Len(done') = Len(done) /\ s'.rewound = w.rewound
<1> DEFINE gone == Len(w.backlog) + Len(w.queue) - Len(s'.backlog) - Len(s'.queue)
<1>1. /\ pushed \in 0 .. MaxMsgs /\ fewest \in Nat /\ fewest >= RetriesOnErrorMax
      /\ first \in Nat /\ last \in Nat /\ w \in WorkerState
  BY DEF Books, DroppedAfterRetries, Accounts
<1>2. Accounts(s', done', fails', blank', pushed)
  BY <1>1, AnswerFacts, Zenon
<1>3. /\ Len(done) \in Nat /\ Len(w.backlog) \in Nat /\ Len(w.queue) \in Nat
      /\ Len(done) + Len(w.backlog) + Len(w.queue) = pushed
  BY <1>1, AccountsLengths, Zenon
<1>4. /\ Len(done') \in Nat /\ Len(s'.backlog) \in Nat /\ Len(s'.queue) \in Nat
      /\ Len(done') + Len(s'.backlog) + Len(s'.queue) = pushed
  BY <1>1, <1>2, AccountsLengths, Zenon
<1>5. /\ Counted(s')
      /\ result \notin {"queued", "explicit"} => s'.batch = 0
      /\ result = "success" => s'.queue = w.queue
      /\ result = "queued" => s'.batch = w.batch
  BY AnswerOutcome, Zenon
<1>6. s' = ProcessResult(w, result, 0, 0)
  <2>1. PICK acked \in 0 .. w.batch : \E back \in 0 .. w.batch - acked :
          /\ result # "explicit" => acked = 0 /\ back = 0
          /\ s' = ProcessResult(w, result, acked, back)
    BY Zenon DEF Answer
  <2> QED BY <2>1, Zenon
<1>7. /\ result = "queued" => s'.rewound = w.rewound /\ s'.queue = w.queue
      /\ result = "drop" => s'.queue = w.queue
      /\ result = "error" =>
           s'.queue = w.queue \/ (s'.rewound = w.batch /\ s'.suspended)
      /\ result = "not_connected" => s'.rewound = w.batch /\ s'.suspended
  BY <1>1, <1>6, RewoundFacts, ZenonT(30), SMTT(30)
<1>8. IF w.batch = 0 \/ result = "queued" THEN UNCHANGED <<first, last>>
      ELSE IF gone > 0 \/ result = "retry" THEN first' = 0 /\ last' = 0
      ELSE /\ first' = IF first = 0 THEN w.batch ELSE first
           /\ last' = w.batch
  <2>1. ~(Throttle > 0)
    OBVIOUS
  <2> QED BY <2>1, Zenon DEF Answer
<1>9. Len(s'.backlog) + Len(s'.queue) <= Len(w.backlog) + Len(w.queue)
  <2>1. \E i \in 0 .. Len(w.backlog) : Outcome(w, s', i, result)
    BY <1>1, AnswerFacts, Zenon
  <2> QED BY <1>1, <2>1, LeaveLengths, Zenon DEF Outcome
<1> DEFINE n == Len(done')
           m == Len(done)
           i == Len(w.backlog)
           j == Len(w.queue)
           x == Len(s'.backlog)
           y == Len(s'.queue)
           k == s'.queue = w.queue
<1>10. /\ n \in Nat /\ m \in Nat /\ i \in Nat /\ j \in Nat /\ x \in Nat /\ y \in Nat
       /\ m + i + j = pushed /\ n + x + y = pushed
       /\ w.batch = i /\ s'.batch = x /\ (k => y = j)
       /\ gone = i + j - x - y /\ x + y <= i + j
  BY <1>3, <1>4, <1>5, <1>9, ZenonT(30) DEF Counted
<1> HIDE DEF gone, n, m, i, j, x, y, k
<1>11. /\ gone = n - m /\ gone >= 0 /\ n \in Nat /\ m \in Nat /\ w.batch \in Nat
       /\ k => gone = w.batch - s'.batch
  BY <1>1, <1>10, SMT, SMTT(30)
<1>12. result = "queued" => n = m
  BY <1>5, <1>7, <1>11, SMT, SMTT(30) DEF k
<1>13. w.batch > 0 /\ result # "queued" =>
         \/ first' = 0 /\ last' = 0
         \/ /\ result \in {"error", "not_connected"}
            /\ first' = IF first = 0 THEN w.batch ELSE first
            /\ last' = w.batch /\ n = m /\ s'.rewound = w.batch /\ s'.suspended
  <2> SUFFICES ASSUME w.batch > 0, result # "queued", ~(first' = 0 /\ last' = 0)
               PROVE  /\ result \in {"error", "not_connected"}
                      /\ first' = IF first = 0 THEN w.batch ELSE first
                      /\ last' = w.batch /\ n = m /\ s'.rewound = w.batch /\ s'.suspended
    OBVIOUS
  <2>1. /\ ~(gone > 0) /\ result # "retry" /\ last' = w.batch
        /\ first' = IF first = 0 THEN w.batch ELSE first
    BY <1>8
  <2>2. s'.batch = 0
    BY <1>5
  <2>3. ~k
    BY <1>11, <2>1, <2>2, SMT, SMTT(30)
  <2>4. result \in {"error", "not_connected"} /\ s'.rewound = w.batch /\ s'.suspended
    BY <1>5, <1>7, <2>1, <2>3, SMT, SMTT(30) DEF k, Results
  <2>5. n = m
    BY <1>11, <2>1, SMT, SMTT(30)
  <2> QED BY <2>1, <2>4, <2>5, SMT, SMTT(30)
<1> QED
  BY <1>7, <1>8, <1>12, <1>13, ZenonT(30) DEF Failed, n, m

\* The types the arithmetic of the retry needs.
Sizes ==
  /\ Len(done) \in Nat /\ pushed \in Nat /\ first \in Nat /\ last \in Nat
  /\ s.batch \in Nat /\ s.rewound \in Nat /\ BatchLines \in Nat
  /\ s.suspended \in BOOLEAN /\ term \in BOOLEAN

\* They follow from the invariant.
LEMMA SizesFacts ==
  ASSUME Inv
  PROVE  /\ Sizes
         /\ pc # "exited" => Counted(s)
         /\ pc # "exited" => Len(done) + s.batch + Len(s.queue) = pushed
         /\ Len(s.queue) \in Nat /\ s.queue \in Seq(Messages)
         /\ s.queue # <<>> => Len(s.queue) > 0
<1>1. /\ s \in WorkerState /\ pushed \in 0 .. MaxMsgs /\ done \in Seq(Messages)
      /\ pc # "exited" => Counted(s) /\ Accounts(s, done, fails, blank, pushed)
      /\ first \in Nat /\ last \in Nat /\ BatchLines \in Nat /\ term \in BOOLEAN
  BY WorkerConstants, InvFacts, Zenon DEF Flags
<1>2. pc # "exited" => Len(done) + Len(s.backlog) + Len(s.queue) = pushed
  BY <1>1, AccountsLengths, Zenon
<1>3. /\ s.batch \in Nat /\ s.rewound \in Nat /\ s.suspended \in BOOLEAN
      /\ s.queue \in Seq(Messages) /\ Len(s.queue) \in Nat /\ Len(done) \in Nat
  BY <1>1, LenProperties DEF WorkerState
<1>4. s.queue # <<>> => Len(s.queue) > 0
  BY <1>3, EmptySeq
<1>5. pushed \in Nat
  BY <1>1
<1>6. pc # "exited" => Len(done) + s.batch + Len(s.queue) = pushed
  BY <1>1, <1>2, Zenon DEF Counted
<1> QED
  BY <1>1, <1>2, <1>3, <1>4, <1>5, <1>6, SMT, SMTT(30) DEF Sizes

\* More messages leave a batch as it was.
LEMMA BatchesStay ==
  ASSUME NEW n \in Nat, Len(done) \in Nat, pushed \in Nat, pushed' \in Nat,
         Len(done') = Len(done), pushed' >= pushed
  PROVE  /\ OneBatch(n) => OneBatch(n)'
         /\ KeyBreak(n) => KeyBreak(n)'
         /\ Ends(n) => Ends(n)'
<1>1. KeyBreak(n) => KeyBreak(n)'
  BY DEF KeyBreak
<1>2. OneBatch(n) => OneBatch(n)'
  BY DEF OneBatch
<1> QED
  BY <1>1, <1>2 DEF Ends

\* A step that leaves the worker where it is.
LEMMA StillRetrying ==
  ASSUME RetryInv, Sizes, first' = first, last' = last, Len(done') = Len(done),
         pushed' \in Nat, pushed' >= pushed, s'.batch = s.batch,
         s'.rewound = s.rewound, s'.suspended = s.suspended, pc' = pc,
         term => term', shutdown' => shutdown \/ term'
  PROVE  RetryInv'
<1>1. Settled'
  BY SMT, SMTT(30) DEF RetryInv, Settled
<1>2. ASSUME ~term', first' # 0
      PROVE  last' = first' /\ s'.batch <= first' /\ OneBatch(first)' /\ Retrying(first)'
  <2>1. last = first /\ s.batch <= first /\ OneBatch(first) /\ Retrying(first)
    BY <1>2 DEF RetryInv
  <2>2. PICK n \in Nat : n = first
    BY DEF Sizes
  <2>3. /\ OneBatch(n) => OneBatch(n)'
        /\ KeyBreak(n) => KeyBreak(n)'
        /\ Ends(n) => Ends(n)'
    BY BatchesStay, ZenonT(30) DEF Sizes
  <2>4. OneBatch(n) /\ Retrying(n)
    BY <2>1, <2>2, SMT, SMTT(30)
  <2>5. Retrying(n)'
    BY <2>3, <2>4, ZenonT(30) DEF Retrying
  <2> QED BY <2>1, <2>2, <2>3, <2>4, <2>5, ZenonT(30)
<1> QED
  BY <1>1, <1>2, SMT, SMTT(30) DEF RetryInv

\* A step that ends the retries.
LEMMA RetriesEnd ==
  ASSUME first' = 0, last' = 0, s'.suspended \/ pc' = "idle" => s'.batch = 0,
         pc' = "full" => s'.batch >= BatchLines,
         shutdown' \/ pc' \in {"final", "exit", "exited"} => term'
  PROVE  RetryInv'
BY SMT, SMTT(30) DEF RetryInv, Settled

\* A step that leaves a failed batch to be tried again.
LEMMA BatchFails ==
  ASSUME Sizes, NEW w, Failed(w), w.batch \in Nat, w.batch > 0, s'.batch = 0,
         OneBatch(w.batch), first # 0 /\ ~term => w.batch = first,
         pc' \in {"idle", "tail"}, pc' = "tail" => Ends(w.batch),
         pushed' = pushed, term' = term, shutdown' => term'
  PROVE  RetryInv'
<1>1. /\ first' = IF first = 0 THEN w.batch ELSE first
      /\ last' = w.batch /\ Len(done') = Len(done)
      /\ s'.rewound = w.batch /\ s'.suspended
  BY DEF Failed
<1>2. Settled'
  BY <1>1, SMT, SMTT(30) DEF Settled
<1>3. ASSUME ~term', first' # 0
      PROVE  last' = first' /\ s'.batch <= first' /\ OneBatch(first)' /\ Retrying(first)'
  <2>1. first' = w.batch
    BY <1>1, <1>3
  <2>2. PICK n \in Nat : n = w.batch
    OBVIOUS
  <2>3. /\ OneBatch(n) => OneBatch(n)'
        /\ KeyBreak(n) => KeyBreak(n)'
        /\ Ends(n) => Ends(n)'
    <3>1. pushed \in Nat /\ pushed' \in Nat /\ pushed' >= pushed /\ Len(done) \in Nat
      BY SMT, SMTT(30) DEF Sizes
    <3> QED BY <1>1, <3>1, BatchesStay, Zenon
  <2>4. OneBatch(n)' /\ (pc' = "tail" => Ends(n)')
    BY <2>2, <2>3, SMT, SMTT(30)
  <2>5. Retrying(n)'
    BY <1>1, <2>2, <2>4 DEF Retrying
  <2> QED BY <1>1, <2>1, <2>2, <2>4, <2>5, SMT, SMTT(30)
<1> QED
  BY <1>2, <1>3, SMT, SMTT(30) DEF RetryInv

\* Sums of natural numbers.
LEMMA Sums ==
  ASSUME NEW a \in Nat, NEW b \in Nat, NEW c \in Nat
  PROVE  /\ \A p : a + b + c = p => a + b <= p
         /\ b < c => b + 1 \in 1 .. c /\ a + (b + 1) = a + b + 1
OBVIOUS

\* The batch is one that a retry would put together again, and the next
\* message is the one after it.
LEMMA BatchIsOne ==
  ASSUME Inv, KeyInv, RoomInv, pc # "exited"
  PROVE  /\ OneBatch(s.batch)
         /\ FlushOnKeyChange /\ s.batch > 0 => last_key = Key[Len(done) + 1]
         /\ s.queue # <<>> => Head(s.queue) = Len(done) + s.batch + 1
<1>1. Accounts(s, done, fails, blank, pushed) /\ pushed \in 0 .. MaxMsgs
  BY InvFacts, Zenon
<1>2. /\ Sizes /\ s.batch = Len(s.backlog) /\ Len(s.queue) \in Nat
      /\ Len(done) + s.batch + Len(s.queue) = pushed
  BY SizesFacts, Zenon DEF Counted
<1>3. /\ \A i \in 1 .. Len(s.backlog) : s.backlog[i] = Len(done) + i
      /\ s.queue # <<>> => Head(s.queue) = Len(done) + Len(s.backlog) + 1
  BY <1>1, Numbered, ZenonT(30)
<1>4. s.batch <= BatchLines
  BY <1>2 DEF RoomInv, Sizes
<1>5. FlushOnKeyChange => \A i \in 1 .. s.batch : Key[Len(done) + i] = last_key
  <2>1. DOMAIN s.backlog = 1 .. Len(s.backlog)
    <3>1. s.backlog \in Seq(Messages)
      BY <1>1 DEF Accounts, WorkerState
    <3> QED BY <3>1, LenProperties
  <2>2. FlushOnKeyChange => \A i \in DOMAIN s.backlog : Key[s.backlog[i]] = last_key
    BY DEF KeyInv
  <2> QED BY <1>2, <1>3, <2>1, <2>2, ZenonT(30)
<1>6. s.batch > 0 => 1 \in 1 .. s.batch
  BY <1>2 DEF Sizes
<1>7. Len(done) + s.batch <= pushed
  BY <1>2, Sums, Zenon DEF Sizes
<1>8. ASSUME NEW i \in 1 .. s.batch PROVE 1 \in 1 .. s.batch
  BY <1>2 DEF Sizes
<1>9. OneBatch(s.batch)
  BY <1>4, <1>5, <1>7, <1>8, Zenon DEF OneBatch
<1> QED
  BY <1>2, <1>3, <1>5, <1>6, <1>9, ZenonT(30)

\* What a flush that is not skipped does to the retries.
LEMMA FlushRetry ==
  ASSUME FlushSettles, Throttle = 0, Books,
         NEW w, Accounts(w, done, fails, blank, pushed), Counted(w),
         NEW result \in FlushResults, Answer(w, result)
  PROVE  /\ s'.batch = 0
         /\ \/ w.batch = 0 /\ first' = first /\ last' = last
            \/ w.batch > 0 /\ first' = 0 /\ last' = 0
            \/ w.batch > 0 /\ result \in {"error", "not_connected"} /\ Failed(w)
<1>1. w.batch \in Nat
  BY DEF Accounts, WorkerState
<1>2. result \in Results /\ result \notin {"queued", "explicit"}
  BY WorkerConstants DEF FlushSettles
<1>3. s'.batch = 0
  BY <1>2, AnswerOutcome, Zenon
<1>4. /\ w.batch = 0 \/ result = "queued" => first' = first /\ last' = last
      /\ w.batch > 0 /\ result # "queued" =>
           (first' = 0 /\ last' = 0) \/ (result \in {"error", "not_connected"} /\ Failed(w))
  BY <1>2, AnswerRetry, Zenon
<1>5. w.batch = 0 \/ w.batch > 0
  BY <1>1
<1> QED
  BY <1>2, <1>3, <1>4, <1>5, ZenonT(30)

\* The flush on a key change comes where the retried batch ends.
LEMMA RetryKeyChange ==
  ASSUME FlushSettles, Throttle = 0, Inv, KeyInv, RoomInv, RetryInv, FlushOnPartitionKeyChange
  PROVE  RetryInv'
<1> DEFINE w == Fetch(s)
<1>1. PICK result \in FlushResults :
        /\ Answer(w, result)
        /\ pc' = IF result \in {"success", "explicit"} THEN "pop" ELSE "tail"
  BY DEF FlushOnPartitionKeyChange, Flush
<1>2. /\ pc = "loop" /\ s.batch # 0 /\ ~s.suspended /\ s.queue # <<>> /\ FlushOnKeyChange
      /\ Key[Head(s.queue)] # last_key
      /\ pushed' = pushed /\ term' = term /\ shutdown' = shutdown
  BY DEF FlushOnPartitionKeyChange
<1>3. /\ Sizes /\ Len(s.queue) \in Nat /\ Len(s.queue) > 0
      /\ Len(done) + s.batch + Len(s.queue) = pushed
  BY <1>2, SizesFacts
<1>4. s.batch > 0
  BY <1>2, <1>3 DEF Sizes
<1>5. /\ OneBatch(s.batch) /\ last_key = Key[Len(done) + 1]
      /\ Head(s.queue) = Len(done) + s.batch + 1
  BY <1>2, <1>4, BatchIsOne, SMT, SMTT(30)
<1>6. KeyBreak(s.batch)
  BY <1>2, <1>3, <1>5, SMT, SMTT(30) DEF KeyBreak, Sizes
<1>7. first # 0 /\ ~term => s.batch = first
  <2> SUFFICES ASSUME first # 0, ~term PROVE s.batch = first
    OBVIOUS
  <2>1. s.batch <= first /\ OneBatch(first)
    BY DEF RetryInv
  <2>2. CASE s.batch < first
    <3>1. s.batch + 1 \in 1 .. first /\ Len(done) + (s.batch + 1) = Len(done) + s.batch + 1
      BY <1>3, <2>2, Sums, Zenon DEF Sizes
    <3>2. Key[Len(done) + (s.batch + 1)] = Key[Len(done) + 1]
      BY <1>2, <2>1, <3>1, ZenonT(30) DEF OneBatch
    <3> QED BY <1>2, <1>5, <3>1, <3>2, SMT, SMTT(30)
  <2> QED BY <1>3, <2>1, <2>2, SMT, SMTT(30) DEF Sizes
<1>8. shutdown' => term'
  BY <1>2, SMT, SMTT(30) DEF RetryInv, Settled
<1>w. /\ Books /\ Accounts(w, done, fails, blank, pushed) /\ Counted(w)
      /\ w.batch = s.batch
  <2>1. Books /\ Accounts(s, done, fails, blank, pushed) /\ Counted(s)
    BY <1>2, InvFacts
  <2> QED BY <2>1, FetchAccounts, Zenon
<1> HIDE DEF w
<1>9. /\ s'.batch = 0
      /\ \/ first' = 0 /\ last' = 0
         \/ result \in {"error", "not_connected"} /\ Failed(w)
  <2>1. /\ s'.batch = 0
        /\ \/ w.batch = 0 /\ first' = first /\ last' = last
           \/ w.batch > 0 /\ first' = 0 /\ last' = 0
           \/ w.batch > 0 /\ result \in {"error", "not_connected"} /\ Failed(w)
    BY <1>1, <1>w, FlushRetry, Zenon
  <2> QED BY <1>2, <1>w, <2>1
<1>10. CASE first' = 0 /\ last' = 0
  BY <1>1, <1>8, <1>9, <1>10, RetriesEnd, SMT, SMTT(30)
<1>11. CASE result \in {"error", "not_connected"} /\ Failed(w)
  <2>1. pc' = "tail" /\ w.batch \in Nat /\ w.batch > 0
    BY <1>1, <1>3, <1>4, <1>11, <1>w, SMT, SMTT(30) DEF Sizes
  <2>2. OneBatch(w.batch) /\ Ends(w.batch) /\ (first # 0 /\ ~term => w.batch = first)
    BY <1>5, <1>6, <1>7, <1>w, Zenon DEF Ends
  <2> QED BY <1>2, <1>3, <1>8, <1>9, <1>11, <2>1, <2>2, BatchFails, ZenonT(30)
<1> QED
  BY <1>9, <1>10, <1>11

\* An insert goes on with the retried batch, and does not go past its end.
LEMMA RetryInsert ==
  ASSUME InsertSettles, Throttle = 0, Inv, KeyInv, RoomInv, RetryInv, Insert, BatchLines > 0,
         pc \in {"loop", "pop"}, ~s.suspended,
         pc = "loop" /\ FlushOnKeyChange => s.batch = 0 \/ Key[Head(s.queue)] = last_key
  PROVE  RetryInv'
<1> DEFINE w == Pop(s)
<1>1. /\ Books /\ s.queue # <<>> /\ Accounts(s, done, fails, blank, pushed) /\ Counted(s)
      /\ Sizes /\ s \in WorkerState
  BY SizesFacts, InvFacts DEF Insert, CanPop
<1>2. PICK result \in InsertResults : Answer(w, result)
  BY DEF Insert
<1>3. result \in Results /\ result \notin {"error", "not_connected", "explicit"}
  BY <1>2, WorkerConstants DEF InsertSettles
<1>4. /\ Accounts(w, done, fails, blank, pushed) /\ Counted(w) /\ w.batch = s.batch + 1
      /\ w.suspended = s.suspended /\ w.backlog = Append(s.backlog, Head(s.queue))
  BY <1>1, PopFacts, Zenon
<1>5. w.rewound = s.rewound
  BY <1>1, PopFacts, Zenon
<1> HIDE DEF w
<1>6. w.batch > 0 /\ w.batch # 0
  BY <1>1, <1>4 DEF Sizes
<1>7. /\ result \notin {"queued", "explicit"} => s'.batch = 0
      /\ result \in {"queued", "explicit", "success"} => s'.suspended = w.suspended
      /\ result = "queued" => s'.batch = w.batch /\ s'.batching
  BY <1>1, <1>2, <1>3, <1>4, AnswerOutcome, Zenon
<1>8. /\ w.batch = 0 \/ result = "queued" => first' = first /\ last' = last
      /\ w.batch > 0 /\ result # "queued" =>
           (first' = 0 /\ last' = 0) \/ (result \in {"error", "not_connected"} /\ Failed(w))
      /\ result = "queued" => Len(done') = Len(done) /\ s'.rewound = w.rewound
  BY <1>1, <1>2, <1>3, <1>4, AnswerRetry, ZenonT(30)
<1>9. /\ pc' = IF s'.batching /\ s'.batch >= BatchLines THEN "full" ELSE "tail"
      /\ shutdown' = shutdown /\ term' = term /\ pushed' = pushed
  BY SMT, SMTT(30) DEF Insert
<1>10. /\ s'.suspended \/ pc' = "idle" => s'.batch = 0
       /\ shutdown' \/ pc' \in {"final", "exit", "exited"} => term'
       /\ pc' # "pop" /\ (pc' = "full" => s'.batch >= BatchLines)
  BY <1>3, <1>4, <1>7, <1>9, Zenon DEF RetryInv, Settled
<1>11. CASE result # "queued"
  BY <1>3, <1>6, <1>8, <1>10, <1>11, RetriesEnd, ZenonT(30)
<1>12. CASE result = "queued"
  <2>1. /\ first' = first /\ last' = last /\ Len(done') = Len(done)
        /\ s'.rewound = s.rewound /\ s'.batch = s.batch + 1 /\ ~s'.suspended
        /\ s'.batching
    BY <1>4, <1>5, <1>7, <1>8, <1>12, SMT, SMTT(30)
  <2>2. Settled'
    BY <1>10, <2>1, SMT, SMTT(30) DEF RetryInv, Settled
  <2>3. ASSUME ~term', first' # 0
        PROVE  last' = first' /\ s'.batch <= first' /\ OneBatch(first)' /\ Retrying(first)'
    <3>1. ~term /\ first # 0
      BY <1>9, <2>1, <2>3, SMT, SMTT(30)
    <3>2. PICK n \in Nat : n = first
      BY <1>1, SMT, SMTT(30) DEF Sizes
    <3>3. PICK b \in Nat : b = s.batch
      BY <1>1, SMT, SMTT(30) DEF Sizes
    <3>4. /\ last = n /\ b <= n /\ OneBatch(n) /\ Retrying(n) /\ n # 0
          /\ pc = "loop"
      BY <3>1, <3>2, <3>3, SMT, SMTT(30) DEF RetryInv, Settled
    <3>5. \/ b < n /\ s.rewound = n - b
          \/ s.rewound = 0 /\ Ends(n) /\ (b < n \/ KeyBreak(n))
      BY <3>3, <3>4 DEF Retrying
    <3>6. b < n
      <4> SUFFICES ASSUME b = n, KeyBreak(n) PROVE FALSE
        BY <3>4, <3>5, SMT, SMTT(30)
      <4>1. FlushOnKeyChange /\ s.batch > 0 /\ s.batch # 0
        BY <3>3, <3>4, SMT, SMTT(30) DEF KeyBreak
      <4>2. /\ last_key = Key[Len(done) + 1]
            /\ Head(s.queue) = Len(done) + n + 1
        BY <1>1, <3>3, <3>4, <4>1, BatchIsOne, SMT, SMTT(30)
      <4>3. Key[Head(s.queue)] = last_key
        BY <3>4, <4>1
      <4> QED BY <4>2, <4>3 DEF KeyBreak
    <3>7. /\ OneBatch(n) => OneBatch(n)'
          /\ KeyBreak(n) => KeyBreak(n)'
          /\ Ends(n) => Ends(n)'
      <4>1. pushed \in Nat /\ pushed' \in Nat /\ pushed' >= pushed /\ Len(done) \in Nat
        BY <1>1, <1>9, SMT, SMTT(30) DEF Sizes
      <4> QED BY <2>1, <4>1, BatchesStay, ZenonT(30)
    <3>8. BatchLines \in Nat /\ n <= BatchLines /\ s'.batch = b + 1
      BY <1>1, <2>1, <3>3, <3>4, SMT, SMTT(30) DEF OneBatch, Sizes
    <3>9. /\ pc' \in {"full", "tail"}
          /\ pc' = "full" => b + 1 >= BatchLines
          /\ pc' = "tail" => b + 1 < BatchLines
      BY <1>9, <2>1, <3>8
    <3>10. pc' = "full" => b + 1 = n
      BY <3>6, <3>8, <3>9, SMT, SMTT(30)
    <3>11. pc' = "tail" =>
             \/ s'.rewound = n - (b + 1) + 1
             \/ s'.rewound = 0 /\ Ends(n)' /\ (b + 1 < n \/ KeyBreak(n)')
      <4>1. CASE s.rewound = n - b
        BY <2>1, <4>1, SMT, SMTT(30)
      <4>2. CASE s.rewound = 0 /\ Ends(n)
        BY <2>1, <3>6, <3>7, <3>8, <3>9, <4>2, SMT, SMTT(30) DEF Ends
      <4> QED BY <3>5, <4>1, <4>2, SMT, SMTT(30)
    <3>12. Retrying(n)'
      BY <2>1, <3>8, <3>9, <3>10, <3>11, SMT, SMTT(30) DEF Retrying
    <3> QED BY <2>1, <3>2, <3>4, <3>6, <3>7, <3>8, <3>12, SMT, SMTT(30)
  <2> QED BY <2>2, <2>3, SMT, SMTT(30) DEF RetryInv
<1> QED
  BY <1>11, <1>12, SMT, SMTT(30)

\* The countdown of the rewound batch stops the loop at its end.
LEMMA RetryTail ==
  ASSUME Inv, RetryInv, LoopTail
  PROVE  RetryInv'
<1>1. Sizes /\ s \in WorkerState
  BY SizesFacts, InvFacts, Zenon
<1>2. /\ pc = "tail" /\ first' = first /\ last' = last /\ done' = done
      /\ s' = [s EXCEPT !.rewound = IF @ > 0 THEN @ - 1 ELSE 0]
      /\ pc' = IF s.rewound = 1 THEN "after" ELSE "loop"
      /\ pushed' = pushed /\ term' = term /\ shutdown' = shutdown
  BY DEF LoopTail, history
<1>3. /\ s'.batch = s.batch /\ s'.suspended = s.suspended
      /\ s'.rewound = IF s.rewound > 0 THEN s.rewound - 1 ELSE 0
  BY <1>1, <1>2 DEF WorkerState
<1>4. Settled'
  BY <1>2, <1>3 DEF RetryInv, Settled
<1>5. ASSUME ~term', first' # 0
      PROVE  last' = first' /\ s'.batch <= first' /\ OneBatch(first)' /\ Retrying(first)'
  <2>1. PICK n \in Nat, b \in Nat, r \in Nat : n = first /\ b = s.batch /\ r = s.rewound
    BY <1>1 DEF Sizes
  <2>2. last = n /\ b <= n /\ OneBatch(n) /\ Retrying(n)
    BY <1>2, <1>5, <2>1 DEF RetryInv
  <2>3. /\ OneBatch(n)'
        /\ KeyBreak(n) => KeyBreak(n)'
        /\ Ends(n) => Ends(n)'
    <3>1. pushed \in Nat /\ pushed' \in Nat /\ pushed' >= pushed /\ Len(done) \in Nat
          /\ Len(done') = Len(done)
      BY <1>1, <1>2 DEF Sizes
    <3> QED BY <2>2, <3>1, BatchesStay, Zenon
  <2>4. CASE s.suspended
    <3>1. Ends(n)
      BY <1>2, <2>2, <2>4 DEF Retrying
    <3>2. pc' \in {"loop", "after"} /\ (pc' = "after" => s'.rewound = 0)
      BY <1>2, <1>3, SMT, SMTT(30)
    <3>3. Retrying(n)'
      BY <1>3, <2>3, <2>4, <3>1, <3>2, ZenonT(30) DEF Retrying
    <3> QED BY <1>2, <1>3, <2>1, <2>2, <2>3, <3>3, SMT, SMTT(30)
  <2>5. CASE ~s.suspended
    <3>1. \/ r = n - b + 1
          \/ r = 0 /\ Ends(n) /\ (b < n \/ KeyBreak(n))
      BY <1>2, <2>1, <2>2, <2>5, SMT, SMTT(30) DEF Retrying
    <3>2. /\ pc' \in {"loop", "after"} /\ (pc' = "after" => b = n)
          /\ pc' = "loop" => \/ b < n /\ s'.rewound = n - b
                             \/ s'.rewound = 0 /\ Ends(n)' /\ (b < n \/ KeyBreak(n)')
      <4>1. CASE r = n - b + 1
        <5>1. r > 0 /\ r - 1 = n - b /\ (r = 1 => b = n) /\ (r # 1 => b < n)
          BY <2>2, <4>1
        <5>2. s'.rewound = n - b /\ pc' = IF r = 1 THEN "after" ELSE "loop"
          BY <1>2, <1>3, <2>1, <5>1, Zenon
        <5> QED BY <5>1, <5>2, Zenon
      <4>2. CASE r = 0 /\ Ends(n) /\ (b < n \/ KeyBreak(n))
        BY <1>2, <1>3, <2>1, <2>3, <4>2, SMT, SMTT(30)
      <4> QED BY <3>1, <4>1, <4>2, SMT, SMTT(30)
    <3>3. Retrying(n)'
      BY <1>3, <2>1, <2>5, <3>2, SMT, SMTT(30) DEF Retrying
    <3> QED BY <1>2, <1>3, <2>1, <2>2, <2>3, <3>3
  <2> QED BY <2>4, <2>5
<1> QED
  BY <1>4, <1>5, SMT, SMTT(30) DEF RetryInv

\* The loop is not left before the end of the retried batch.
LEMMA RetryLeave ==
  ASSUME Throttle = 0, Inv, RetryInv, LeaveLoop
  PROVE  RetryInv'
<1>1. /\ Sizes /\ s \in WorkerState /\ s.queue \in Seq(Messages)
      /\ pc # "exited" => Len(done) + s.batch + Len(s.queue) = pushed
      /\ pc # "exited" => Placed(s)
  BY SizesFacts, InvFacts, Zenon DEF Accounts
<1>2. /\ pc = "loop" /\ first' = first /\ last' = last /\ done' = done
      /\ pc' = "after"
      /\ pushed' = pushed /\ term' = term /\ shutdown' = shutdown
      /\ term \/ s.suspended \/ s.queue = <<>> \/ (s.queue # <<>> /\ ~CanPop)
  BY DEF LeaveLoop, history
<1>3. /\ s'.batch = s.batch /\ s'.suspended = s.suspended /\ s'.rewound = 0
  <2>1. Placed(s)
    BY <1>1, <1>2
  <2> QED BY <1>1, <2>1, LeaveFacts, Zenon
<1>4. Settled'
  BY <1>2, <1>3 DEF RetryInv, Settled
<1>5. ASSUME ~term', first' # 0
      PROVE  last' = first' /\ s'.batch <= first' /\ OneBatch(first)' /\ Retrying(first)'
  <2>1. PICK n \in Nat, b \in Nat : n = first /\ b = s.batch
    BY <1>1 DEF Sizes
  <2>2. last = n /\ b <= n /\ OneBatch(n) /\ Retrying(n) /\ ~term
    BY <1>2, <1>5, <2>1 DEF RetryInv
  <2>3. /\ OneBatch(n)'
        /\ Ends(n) => Ends(n)'
    <3>1. pushed \in Nat /\ pushed' \in Nat /\ pushed' >= pushed /\ Len(done) \in Nat
          /\ Len(done') = Len(done)
      BY <1>1, <1>2 DEF Sizes
    <3> QED BY <2>2, <3>1, BatchesStay, Zenon
  <2>4. s.suspended
    <3> SUFFICES ASSUME ~s.suspended PROVE FALSE
      OBVIOUS
    <3>1. s.queue = <<>>
      BY <1>2, <2>2 DEF CanPop
    <3>2. Len(done) + b = pushed
      <4>1. Len(s.queue) = 0
        BY <3>1
      <4> QED BY <1>1, <1>2, <2>1, <4>1 DEF Sizes
    <3>3. b >= n
      BY <1>1, <2>2, <3>2 DEF OneBatch, Sizes
    <3>4. KeyBreak(n)
      BY <1>2, <2>1, <2>2, <3>3 DEF Retrying
    <3> QED BY <1>1, <2>2, <3>2, <3>3, <3>4 DEF KeyBreak, Sizes
  <2>5. Ends(n)
    BY <1>2, <2>2, <2>4 DEF Retrying
  <2>6. Retrying(n)'
    BY <1>2, <1>3, <2>3, <2>4, <2>5 DEF Retrying
  <2> QED BY <1>2, <1>3, <2>1, <2>2, <2>3, <2>6, SMT, SMTT(30)
<1> QED
  BY <1>4, <1>5, SMT, SMTT(30) DEF RetryInv

\* The flush of a full batch, and the one after the inserts, send the
\* retried batch.
LEMMA RetryFlush ==
  ASSUME FlushSettles, BatchLines > 0, Throttle = 0, ~BatchTimeout,
         Inv, KeyInv, RoomInv, RetryInv, FlushFullBatch \/ AfterInserts
  PROVE  RetryInv'
<1>1. Sizes
  BY SizesFacts
<1>2. /\ \/ pc = "full" /\ pc' = "tail"
         \/ pc = "after" /\ pc' = "idle"
      /\ PerformFlush(s)
      /\ pushed' = pushed /\ term' = term /\ shutdown' = shutdown
  BY DEF FlushFullBatch, AfterInserts, ShouldFlushNow
<1>3. shutdown' => term'
  BY <1>2 DEF RetryInv, Settled
<1>4. CASE s.suspended
  <2>1. s' = s /\ first' = first /\ last' = last /\ done' = done
    BY <1>4, <1>2 DEF PerformFlush, history
  <2>2. pc = "after" /\ pc' = "idle"
    BY <1>2, <1>4, SMT, SMTT(30) DEF RoomInv
  <2>3. Settled'
    BY <1>2, <1>3, <1>4, <2>1, <2>2, SMT, SMTT(30) DEF RetryInv, Settled
  <2>4. ASSUME ~term', first' # 0
        PROVE  last' = first' /\ s'.batch <= first' /\ OneBatch(first)' /\ Retrying(first)'
    <3>1. PICK n \in Nat : n = first
      BY <1>1 DEF Sizes
    <3>2. last = n /\ s.batch <= n /\ OneBatch(n) /\ Retrying(n)
      BY <1>2, <2>1, <2>4, <3>1 DEF RetryInv
    <3>3. /\ OneBatch(n)'
          /\ Ends(n) => Ends(n)'
      <4>1. pushed \in Nat /\ pushed' \in Nat /\ pushed' >= pushed /\ Len(done) \in Nat
            /\ Len(done') = Len(done)
        BY <1>1, <1>2, <2>1, SMT, SMTT(30) DEF Sizes
      <4> QED BY <3>2, <4>1, BatchesStay, ZenonT(30)
    <3>4. Retrying(n)'
      BY <1>4, <2>1, <2>2, <3>2, <3>3, SMT, SMTT(30) DEF Retrying
    <3> QED BY <2>1, <3>1, <3>2, <3>3, <3>4
  <2> QED BY <2>3, <2>4 DEF RetryInv
<1>5. CASE ~s.suspended
  <2>1. PICK result \in FlushResults : Answer(s, result)
    BY <1>2, <1>5, SMT, SMTT(30) DEF PerformFlush, Flush
  <2>a. Books /\ Accounts(s, done, fails, blank, pushed) /\ Counted(s)
    BY <1>2, InvFacts
  <2>2. /\ s'.batch = 0
        /\ \/ s.batch = 0 /\ first' = first /\ last' = last
           \/ s.batch > 0 /\ first' = 0 /\ last' = 0
           \/ s.batch > 0 /\ result \in {"error", "not_connected"} /\ Failed(s)
    BY <2>1, <2>a, FlushRetry, Zenon
  <2>3. first # 0 /\ ~term => s.batch = first
    BY <1>2, <1>5, SMT, SMTT(30) DEF RetryInv, Retrying
  <2>4. CASE first' = 0 /\ last' = 0
    BY <1>2, <1>3, <2>2, <2>4, RetriesEnd, SMT, SMTT(30)
  <2>5. CASE s.batch = 0 /\ first' = first /\ last' = last
    <3>1. pc' \in {"idle", "tail"} /\ term' = term
      BY <1>2
    <3>2. first # 0 => term
      BY <2>3, <2>5
    <3> QED BY <1>3, <2>2, <2>5, <3>1, <3>2 DEF RetryInv, Settled
  <2>6. CASE s.batch > 0 /\ Failed(s)
    <3>1. OneBatch(s.batch) /\ s.batch \in Nat
      BY <1>1, <1>2, BatchIsOne DEF Sizes
    <3>2. pc' = "tail" => Ends(s.batch)
      BY <1>1, <1>2 DEF RetryInv, Settled, RoomInv, Ends, Sizes
    <3>3. pc' \in {"idle", "tail"}
      BY <1>2, SMT, SMTT(30)
    <3> QED BY <1>1, <1>2, <1>3, <2>2, <2>3, <2>6, <3>1, <3>2, <3>3, BatchFails, ZenonT(30)
  <2> QED BY <2>2, <2>4, <2>5, <2>6, SMT, SMTT(30)
<1> QED
  BY <1>4, <1>5, SMT, SMTT(30)

\* _perform_work begins the retry.
LEMMA RetryWork ==
  ASSUME Throttle = 0, Inv, RetryInv, PerformWork
  PROVE  RetryInv'
<1>1. Sizes /\ s \in WorkerState
  BY SizesFacts, InvFacts, Zenon
<1>2. pc = "idle" /\ s.batch = 0
  BY DEF PerformWork, RetryInv, Settled
<1>3. /\ \/ \E ok \in BOOLEAN : s' = [s EXCEPT !.connected = ok, !.suspended = ~ok]
            /\ pc' = "idle"
         \/ s' = [s EXCEPT !.suspended = FALSE] /\ pc' \in {"idle", "loop"}
      /\ UNCHANGED history
      /\ pushed' = pushed /\ term' = term /\ shutdown' = shutdown
  <2>1. /\ \/ Connect
           \/ \E expired \in BOOLEAN : StartInserts(expired)
           \/ WaitForItems
        /\ pushed' = pushed /\ term' = term /\ shutdown' = shutdown
    <3>1. \A expired : ~Throttled(expired)
      BY DEF Throttled
    <3>2. \A expired : ~FlushPending(expired)
      BY <1>2 DEF FlushPending
    <3>3. /\ \E by \in watches :
               \/ Connect \/ StartInserts(by = "throttle") \/ Throttled(by = "throttle")
               \/ FlushPending(by = "throttle") \/ WaitForItems
          /\ pushed' = pushed /\ term' = term /\ shutdown' = shutdown
      BY DEF PerformWork
    <3> QED BY <3>1, <3>2, <3>3, Zenon
  <2>2. CASE Connect
    BY <1>2, <2>1, <2>2, Zenon DEF Connect
  <2>3. CASE \E expired \in BOOLEAN : StartInserts(expired)
    BY <2>1, <2>3, Zenon DEF StartInserts
  <2>4. CASE WaitForItems
    BY <1>2, <2>1, <2>4, Zenon DEF WaitForItems
  <2> QED BY <2>1, <2>2, <2>3, <2>4, Zenon
<1>4. /\ s'.batch = s.batch /\ s'.rewound = s.rewound
      /\ pc' \in {"idle", "loop"} /\ (pc' = "loop" => ~s'.suspended)
  <2>1. CASE \E ok \in BOOLEAN : s' = [s EXCEPT !.connected = ok, !.suspended = ~ok]
               /\ pc' = "idle"
    BY <1>1, <2>1, Zenon DEF WorkerState
  <2>2. CASE s' = [s EXCEPT !.suspended = FALSE] /\ pc' \in {"idle", "loop"}
    BY <1>1, <2>2, Zenon DEF WorkerState
  <2> QED BY <1>3, <2>1, <2>2, Zenon
<1>5. /\ first' = first /\ last' = last /\ done' = done
      /\ pushed' = pushed /\ term' = term /\ shutdown' = shutdown
  BY <1>3, Zenon DEF history
<1>6. Settled'
  BY <1>2, <1>4, <1>5, SMT, SMTT(30) DEF RetryInv, Settled
<1>7. ASSUME ~term', first' # 0
      PROVE  last' = first' /\ s'.batch <= first' /\ OneBatch(first)' /\ Retrying(first)'
  <2>1. PICK n \in Nat : n = first
    BY <1>1 DEF Sizes
  <2>2. last = n /\ s.batch <= n /\ OneBatch(n) /\ Retrying(n) /\ n > 0
    BY <1>5, <1>7, <2>1 DEF RetryInv
  <2>3. /\ OneBatch(n)'
        /\ Ends(n) => Ends(n)'
    <3>1. pushed \in Nat /\ pushed' \in Nat /\ pushed' >= pushed /\ Len(done) \in Nat
          /\ Len(done') = Len(done)
      BY <1>1, <1>5, SMT, SMTT(30) DEF Sizes
    <3> QED BY <2>2, <3>1, BatchesStay, Zenon
  <2>4. s.rewound = n \/ (s.rewound = 0 /\ Ends(n))
    BY <1>2, <2>2, SMT, SMTT(30) DEF Retrying
  <2>5. Retrying(n)'
    BY <1>2, <1>4, <2>2, <2>3, <2>4 DEF Retrying
  <2> QED BY <1>4, <1>5, <2>1, <2>2, <2>3, <2>5, SMT, SMTT(30)
<1> QED
  BY <1>6, <1>7 DEF RetryInv

\* A step keeps the retry of a batch on its way to the end of that batch.
LEMMA RetryStep ==
  ASSUME FlushSettles, InsertSettles, BatchLines > 0, Throttle = 0, ~BatchTimeout,
         Inv, KeyInv, RoomInv, RetryInv, [Next]_vars
  PROVE  RetryInv'
<1>1. /\ Sizes /\ s \in WorkerState /\ pushed \in Nat /\ pushed \in 0 .. MaxMsgs
      /\ pc # "exited" => /\ Books /\ Counted(s)
                          /\ Accounts(s, done, fails, blank, pushed)
  BY SizesFacts, InvFacts, Zenon DEF Sizes
<1>2. CASE DriverQueue
  <2>1. /\ s' = [s EXCEPT !.queue = Append(@, pushed'), !.wait = @ + 1]
        /\ pushed' = pushed + 1 /\ pushed < MaxMsgs
        /\ first' = first /\ last' = last /\ done' = done
        /\ pc' = pc /\ term' = term /\ shutdown' = shutdown
    BY <1>2 DEF DriverQueue, history
  <2>a. pushed' \in Messages
    BY <1>1, <2>1, WorkerConstants DEF Messages
  <2>2. s'.batch = s.batch /\ s'.rewound = s.rewound /\ s'.suspended = s.suspended
    BY <1>1, <2>1, <2>a, PushState, Zenon
  <2>3. pushed' \in Nat /\ pushed' >= pushed
    BY <1>1, <2>1
  <2> QED BY <1>1, <2>1, <2>2, <2>3, StillRetrying, Zenon
<1>3. CASE \/ BatchTimeoutElapses \/ RequestWorkerExit \/ WakeupEvent \/ SourcesAtBound
           \/ UNCHANGED vars
  <2>1. /\ s' = s /\ pushed' = pushed /\ first' = first /\ last' = last /\ done' = done
        /\ pc' = pc /\ (term => term') /\ (shutdown' => shutdown \/ term')
    BY <1>3
       DEF BatchTimeoutElapses, RequestWorkerExit, WakeupEvent, SourcesAtBound, vars, history
  <2>2. pushed' \in Nat /\ pushed' >= pushed
    BY <1>1, <2>1, SMT, SMTT(30)
  <2> QED BY <1>1, <2>1, <2>2, StillRetrying, ZenonT(30)
<1>4. CASE ShutdownEvent
  <2>1. /\ shutdown /\ pc' = "final" /\ s' = s /\ term' = term
        /\ pc = "idle" /\ first' = first /\ last' = last
    BY <1>4, SMT, SMTT(30) DEF ShutdownEvent, history
  <2> QED BY <2>1, SMT, SMTT(30) DEF RetryInv, Settled
<1>5. CASE PopAndInsert
  <2>1. /\ Insert /\ pc = "loop" /\ ~s.suspended
        /\ FlushOnKeyChange => s.batch = 0 \/ Key[Head(s.queue)] = last_key
    BY <1>5 DEF PopAndInsert
  <2> QED BY <2>1, RetryInsert
<1>6. CASE InsertAfterKeyChange
  <2>1. pc = "pop" /\ ~s.suspended
    BY <1>6 DEF InsertAfterKeyChange, RoomInv
  <2>2. CASE Insert
    BY <2>1, <2>2, RetryInsert
  <2>3. CASE ~Insert
    <3>1. /\ s' = [s EXCEPT !.rewound = 0] /\ pc' = "after" /\ first' = first /\ last' = last
          /\ term' = term /\ shutdown' = shutdown
      BY <1>6, <2>3 DEF InsertAfterKeyChange, history
    <3>2. s'.batch = s.batch /\ s'.suspended = s.suspended
      BY <1>1, <3>1, ZenonT(30) DEF WorkerState
    <3> QED BY <2>1, <3>1, <3>2 DEF RetryInv, Settled
  <2> QED BY <2>2, <2>3
<1>7. CASE FinalFlush
  <2>1. PICK result \in FlushResults : Answer(s, result)
    BY <1>7, SMT, SMTT(30) DEF FinalFlush, Flush
  <2>2. pc = "final" /\ pc' = "exit" /\ term' = term
    BY <1>7, SMT, SMTT(30) DEF FinalFlush
  <2>3. /\ s'.batch = 0
        /\ \/ s.batch = 0 /\ first' = first /\ last' = last
           \/ s.batch > 0 /\ first' = 0 /\ last' = 0
           \/ s.batch > 0 /\ result \in {"error", "not_connected"} /\ Failed(s)
    <3>1. Books /\ Accounts(s, done, fails, blank, pushed) /\ Counted(s)
      BY <1>1, <2>2
    <3> QED BY <2>1, <3>1, FlushRetry, Zenon
  <2>4. first' = 0 => last' = 0
    BY <1>1, <2>3 DEF Failed, RetryInv, Settled, Sizes
  <2> QED BY <2>2, <2>3, <2>4 DEF RetryInv, Settled
<1>8. CASE WorkerExit
  <2>1. /\ s' = [RewindBacklogAll(s) EXCEPT !.connected = FALSE] /\ pc' = "exited"
        /\ pc = "exit" /\ term' = term /\ first' = first /\ last' = last
    BY <1>8 DEF WorkerExit, history
  <2>2. s'.batch = s.batch /\ s'.suspended = s.suspended
    BY <1>1, <2>1, Zenon DEF RewindBacklogAll, WorkerState
  <2> QED BY <2>1, <2>2 DEF RetryInv, Settled
<1>9. CASE FlushOnPartitionKeyChange
  BY <1>9, RetryKeyChange, SMT, SMTT(30)
<1>10. CASE LoopTail
  BY <1>10, RetryTail
<1>11. CASE LeaveLoop
  BY <1>11, RetryLeave
<1>12. CASE FlushFullBatch \/ AfterInserts
  BY <1>12, RetryFlush
<1>13. CASE PerformWork
  BY <1>13, RetryWork
<1>14. \/ DriverQueue \/ ShutdownEvent \/ PerformWork \/ FlushOnPartitionKeyChange
       \/ FinalFlush \/ WorkerExit \/ FlushFullBatch \/ AfterInserts
       \/ BatchTimeoutElapses \/ RequestWorkerExit \/ WakeupEvent \/ SourcesAtBound
       \/ UNCHANGED vars
       \/ LeaveLoop \/ LoopTail \/ InsertAfterKeyChange \/ PopAndInsert
  BY Zenon DEF Next
<1> QED
  BY <1>2, <1>3, <1>4, <1>5, <1>6, <1>7, <1>8, <1>9, <1>10, <1>11, <1>12, <1>13, <1>14,
     ZenonT(30)

(***************************************************************************)
(* A batch that failed is retried as the same batch, for every driver      *)
(* whose insert() only queues, writes, drops or asks for a retry, and      *)
(* whose flush() settles its batch.                                        *)
(***************************************************************************)
THEOREM BatchKeptAcrossRetriesHolds ==
  FlushSettles /\ InsertSettles /\ BatchLines > 0 /\ Spec => []BatchKeptAcrossRetries
<1>1. CASE ~(Throttle = 0 /\ ~BatchTimeout)
  <2>1. BatchKeptAcrossRetries
    BY <1>1 DEF BatchKeptAcrossRetries
  <2> QED BY <2>1, PTL
<1>2. CASE Throttle = 0 /\ ~BatchTimeout
  <2> SUFFICES ASSUME FlushSettles, InsertSettles, BatchLines > 0
               PROVE  Spec => []BatchKeptAcrossRetries
    BY SMT, SMTT(30)
  <2>1. Init => KeyInv /\ RoomInv /\ RetryInv
    BY DEF Init, KeyInv, RoomInv, RetryInv, Settled
  <2>2. Inv /\ KeyInv /\ [Next]_vars => KeyInv'
    BY KeyStep
  <2>3. Inv /\ RoomInv /\ [Next]_vars => RoomInv'
    <3>1. "explicit" \notin InsertResults
      BY DEF InsertSettles
    <3> QED BY <3>1, RoomStep
  <2>4. Inv /\ KeyInv /\ RoomInv /\ RetryInv /\ [Next]_vars => RetryInv'
    BY <1>2, RetryStep
  <2>5. RetryInv => BatchKeptAcrossRetries
    BY DEF RetryInv, Settled, BatchKeptAcrossRetries
  <2> QED BY <2>1, <2>2, <2>3, <2>4, <2>5, Invariance, PTL DEF Spec
<1> QED
  BY <1>1, <1>2
=============================================================================
