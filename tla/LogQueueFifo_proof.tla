------------------------- MODULE LogQueueFifo_proof -------------------------
(***************************************************************************)
(* Proofs about LogQueueFifo for any number of threads, any log_fifo_size  *)
(* and any number of messages.                                             *)
(***************************************************************************)
EXTENDS LogQueueFifo, FiniteSetTheorems, TLAPS

-----------------------------------------------------------------------------
(* Sequences and bijections.                                               *)

\* Length and domain of a sequence.
LEMMA LenFacts ==
  ASSUME NEW S, NEW s \in Seq(S)
  PROVE  Len(s) \in Nat /\ s \in [1..Len(s) -> S] /\ DOMAIN s = 1..Len(s)
OBVIOUS

\* The empty sequence is the one without a length.
LEMMA EmptyFacts ==
  ASSUME NEW S
  PROVE  /\ <<>> \in Seq(S) /\ Len(<<>>) = 0
         /\ \A s \in Seq(S) : s # <<>> => Len(s) \in Nat \ {0}
OBVIOUS

\* Its elements.
LEMMA ElementFacts ==
  ASSUME NEW S, NEW s \in Seq(S), NEW i \in 1..Len(s)
  PROVE  s[i] \in S
OBVIOUS

\* Sequences are equal when they have the same elements.
LEMMA SameSeq ==
  ASSUME NEW S, NEW s \in Seq(S), NEW t \in Seq(S), Len(s) = Len(t),
         \A i \in 1..Len(s) : s[i] = t[i]
  PROVE  s = t
OBVIOUS

\* One sequence after another.
LEMMA ConcatFacts ==
  ASSUME NEW S, NEW s \in Seq(S), NEW t \in Seq(S)
  PROVE  /\ s \o t \in Seq(S) /\ Len(s \o t) = Len(s) + Len(t)
         /\ \A i \in 1..Len(s) + Len(t) :
              (s \o t)[i] = IF i <= Len(s) THEN s[i] ELSE t[i - Len(s)]
OBVIOUS

\* The empty sequence before or after another.
LEMMA ConcatEmpty ==
  ASSUME NEW S, NEW s \in Seq(S)
  PROVE  s \o <<>> = s /\ <<>> \o s = s
OBVIOUS

\* Append adds one element at the end.
LEMMA AppendConcat ==
  ASSUME NEW S, NEW s \in Seq(S), NEW e \in S
  PROVE  Append(s, e) = s \o <<e>>
OBVIOUS

\* What it returns.
LEMMA AppendFacts ==
  ASSUME NEW S, NEW s \in Seq(S), NEW e \in S
  PROVE  /\ Append(s, e) \in Seq(S) /\ Append(s, e) # <<>>
         /\ Len(Append(s, e)) = Len(s) + 1 /\ Append(s, e)[Len(s) + 1] = e
         /\ \A i \in 1..Len(s) : Append(s, e)[i] = s[i]
OBVIOUS

\* The first element and the others.
LEMMA HeadTailFacts ==
  ASSUME NEW S, NEW s \in Seq(S), s # <<>>
  PROVE  /\ Head(s) \in S /\ Tail(s) \in Seq(S) /\ Len(Tail(s)) = Len(s) - 1
         /\ \A i \in 1..Len(Tail(s)) : Tail(s)[i] = s[i + 1]
OBVIOUS

\* The part of a sequence between two positions, from its first element ...
LEMMA SubSeqFirst ==
  ASSUME NEW S, NEW s \in Seq(S), NEW m \in 1..Len(s), NEW n \in m..Len(s)
  PROVE  SubSeq(s, m, n) = <<s[m]>> \o SubSeq(s, m + 1, n)
OBVIOUS

\* ... to its last one.
LEMMA SubSeqLast ==
  ASSUME NEW S, NEW s \in Seq(S), NEW m \in 1..Len(s), NEW n \in m..Len(s)
  PROVE  SubSeq(s, m, n) = SubSeq(s, m, n - 1) \o <<s[n]>>
OBVIOUS

\* Nothing, ...
LEMMA NoSubSeq ==
  ASSUME NEW S, NEW s \in Seq(S), NEW m \in Int, NEW n \in Int, n < m
  PROVE  SubSeq(s, m, n) = <<>>
OBVIOUS

\* ... and all of it.
LEMMA WholeSubSeq ==
  ASSUME NEW S, NEW s \in Seq(S)
  PROVE  SubSeq(s, 1, Len(s)) = s
OBVIOUS

\* A one-to-one function onto a set.
LEMMA IsBijection ==
  ASSUME NEW S, NEW T, NEW f \in [S -> T],
         \A a, b \in S : f[a] = f[b] => a = b,
         \A t \in T : \E a \in S : f[a] = t
  PROVE  f \in Bijection(S, T)
<1>1. f \in Injection(S, T)
  BY DEF Injection, IsInjective
<1>2. f \in Surjection(S, T)
  BY DEF Surjection
<1> QED BY <1>1, <1>2 DEF Bijection

-----------------------------------------------------------------------------
(* Lists and the lengths kept beside them.                                 *)

\* The number of messages of a list that are not flow controlled is a natural
\* number, at most the length of the list.
LEMMA NfcCountType ==
  ASSUME NEW s \in Seq(Msg)
  PROVE  /\ NfcCount(s) \in Nat
         /\ NfcCount(s) <= Len(s)
         /\ IsFiniteSet({i \in DOMAIN s : ~s[i].fc})
<1>1. DOMAIN s = 1..Len(s) /\ Len(s) \in Nat
  BY LenFacts
<1>2. IsFiniteSet(1..Len(s)) /\ Cardinality(1..Len(s)) = Len(s)
  BY <1>1, FS_Interval, SMTT(30)
<1>3. {i \in DOMAIN s : ~s[i].fc} \in SUBSET (1..Len(s))
  BY <1>1
<1> QED
  BY <1>2, <1>3, FS_Subset, FS_CardinalityType DEF NfcCount

\* The messages that are not flow controlled add up over a concatenation.
LEMMA NfcCountConcat ==
  ASSUME NEW s \in Seq(Msg), NEW t \in Seq(Msg)
  PROVE  NfcCount(s \o t) = NfcCount(s) + NfcCount(t)
<1> DEFINE A == {i \in DOMAIN s : ~s[i].fc}
           B == {i \in DOMAIN t : ~t[i].fc}
           C == {i \in DOMAIN (s \o t) : ~(s \o t)[i].fc}
           D == {i \in (Len(s) + 1)..(Len(s) + Len(t)) : ~t[i - Len(s)].fc}
           f == [i \in B |-> i + Len(s)]
<1>1. /\ Len(s) \in Nat /\ DOMAIN s = 1..Len(s)
      /\ Len(t) \in Nat /\ DOMAIN t = 1..Len(t)
  BY LenFacts
<1>2. /\ DOMAIN (s \o t) = 1..(Len(s) + Len(t))
      /\ \A i \in 1..(Len(s) + Len(t)) :
           (s \o t)[i] = IF i <= Len(s) THEN s[i] ELSE t[i - Len(s)]
  BY ConcatFacts, LenFacts
<1>3. C = A \cup D /\ A \cap D = {}
  BY <1>1, <1>2
<1>4. f \in Bijection(B, D)
  <2>1. f \in [B -> D]
    BY <1>1
  <2>2. \A i, j \in B : f[i] = f[j] => i = j
    BY <1>1
  <2>3. \A k \in D : \E i \in B : f[i] = k
    <3> TAKE k \in D
    <3>1. k - Len(s) \in B /\ f[k - Len(s)] = k
      BY <1>1
    <3> QED BY <3>1, Zenon
  <2> QED
    BY <2>1, <2>2, <2>3, IsBijection, Zenon
<1>5. IsFiniteSet(A) /\ IsFiniteSet(B)
  BY NfcCountType, Zenon
<1>6. IsFiniteSet(D) /\ Cardinality(D) = Cardinality(B)
  <2>1. ExistsBijection(B, D)
    BY <1>4 DEF ExistsBijection
  <2> QED BY <2>1, <1>5, FS_Bijection
<1> HIDE DEF A, B, C, D, f
<1>7. Cardinality(A \cup D) = Cardinality(A) + Cardinality(D) - Cardinality({})
  BY <1>3, <1>5, <1>6, FS_Union
<1>8. Cardinality(A) \in Nat /\ Cardinality(D) \in Nat /\ Cardinality({}) = 0
  BY <1>5, <1>6, FS_CardinalityType, FS_EmptySet
<1>9. Cardinality(C) = Cardinality(A) + Cardinality(B)
  BY <1>3, <1>6, <1>7, <1>8
<1> QED
  BY <1>9, Zenon DEF NfcCount, A, B, C

\* A list of one message counts as the message does.
LEMMA NfcCountSingle ==
  ASSUME NEW m \in Msg
  PROVE  NfcCount(<<m>>) = Nfc(m)
<1>1. CASE m.fc
  <2>1. {i \in DOMAIN <<m>> : ~<<m>>[i].fc} = {}
    BY <1>1
  <2> QED BY <2>1, <1>1, FS_EmptySet DEF NfcCount, Nfc
<1>2. CASE ~m.fc
  <2>1. {i \in DOMAIN <<m>> : ~<<m>>[i].fc} = {1}
    BY <1>2
  <2> QED BY <2>1, <1>2, FS_Singleton DEF NfcCount, Nfc
<1> QED BY <1>1, <1>2

\* An empty list has no message without flow control.
LEMMA NfcCountEmpty == NfcCount(<<>>) = 0
<1>1. {i \in DOMAIN <<>> : ~<<>>[i].fc} = {}
  OBVIOUS
<1> QED BY <1>1, FS_EmptySet DEF NfcCount

\* A queue whose two lengths are those of its list.
CQueue == {q \in Queue : Counted(q)}

\* The lengths of a well-counted queue are natural numbers.
LEMMA CQueueNat ==
  ASSUME NEW q \in CQueue
  PROVE  /\ q.items \in Seq(Msg) /\ q.len = Len(q.items) /\ q.nfc = NfcCount(q.items)
         /\ q.len \in Nat /\ q.nfc \in Nat /\ q.nfc <= q.len
         /\ q.len = 0 <=> q = Empty
         /\ q.len = 0 => q.items = <<>> /\ q.nfc = 0
<1>1. /\ q.items \in Seq(Msg) /\ q.len = Len(q.items) /\ q.nfc = NfcCount(q.items)
      /\ q = [items |-> q.items, len |-> q.len, nfc |-> q.nfc]
  BY DEF CQueue, Queue, Counted
<1>2. q.len \in Nat /\ q.nfc \in Nat /\ q.nfc <= q.len
  BY <1>1, NfcCountType, LenFacts, Zenon
<1>3. q.len = 0 => q.items = <<>>
  BY <1>1, EmptyFacts, Zenon
<1>4. q.items = <<>> => q.len = 0 /\ q.nfc = 0
  BY <1>1, NfcCountEmpty, EmptyFacts
<1> QED BY <1>1, <1>2, <1>3, <1>4 DEF Empty

\* A list with its two lengths beside it is well counted.
LEMMA MakeCQueue ==
  ASSUME NEW s \in Seq(Msg), NEW l, NEW n, l = Len(s), n = NfcCount(s)
  PROVE  [items |-> s, len |-> l, nfc |-> n] \in CQueue
<1> DEFINE q == [items |-> s, len |-> l, nfc |-> n]
<1>1. q.items = s /\ q.len = l /\ q.nfc = n
  OBVIOUS
<1>2. l \in Int /\ n \in Int
  <2>1. Len(s) \in Nat
    BY LenFacts
  <2>2. NfcCount(s) \in Nat
    BY NfcCountType, Zenon
  <2> QED BY <2>1, <2>2
<1>3. q \in Queue
  BY <1>2 DEF Queue
<1> HIDE DEF q
<1>4. q \in CQueue
  BY <1>1, <1>3 DEF CQueue, Counted
<1> QED BY <1>4 DEF q

\* An empty list is well counted.
LEMMA EmptyCQueue == Empty \in CQueue
BY NfcCountEmpty, EmptyFacts DEF Empty, CQueue, Queue, Counted

\* iv_list_add_tail with its length updates keeps the lengths right.
LEMMA AddTailCQueue ==
  ASSUME NEW q \in CQueue, NEW m \in Msg
  PROVE  AddTail(q, m) \in CQueue
<1>1. /\ q.items \in Seq(Msg) /\ q.len = Len(q.items) /\ q.nfc = NfcCount(q.items)
  BY CQueueNat
<1>2. Append(q.items, m) = q.items \o <<m>> /\ <<m>> \in Seq(Msg)
  BY <1>1, AppendConcat
<1>3. Append(q.items, m) \in Seq(Msg) /\ Len(Append(q.items, m)) = q.len + 1
  BY <1>1, AppendFacts
<1>4. NfcCount(q.items \o <<m>>) = NfcCount(q.items) + NfcCount(<<m>>)
  BY <1>1, <1>2, NfcCountConcat, Zenon
<1>5. NfcCount(Append(q.items, m)) = q.nfc + Nfc(m)
  BY <1>1, <1>2, <1>4, NfcCountSingle
<1> QED
  BY <1>3, <1>5, MakeCQueue, Zenon DEF AddTail

\* iv_list_splice_tail_init with its length updates keeps the lengths right.
LEMMA SpliceCQueue ==
  ASSUME NEW q \in CQueue, NEW r \in CQueue
  PROVE  Splice(q, r) \in CQueue
<1>1. /\ q.items \in Seq(Msg) /\ q.len = Len(q.items) /\ q.nfc = NfcCount(q.items)
      /\ r.items \in Seq(Msg) /\ r.len = Len(r.items) /\ r.nfc = NfcCount(r.items)
      /\ q.len \in Nat /\ q.nfc \in Nat /\ r.len \in Nat /\ r.nfc \in Nat
  BY CQueueNat
<1>2. /\ q.items \o r.items \in Seq(Msg)
      /\ Len(q.items \o r.items) = q.len + r.len
      /\ NfcCount(q.items \o r.items) = q.nfc + r.nfc
  BY <1>1, ConcatFacts, NfcCountConcat
<1> QED
  BY <1>2, MakeCQueue, Zenon DEF Splice

\* Splitting a list in two splits its two lengths.
LEMMA SplitSeq ==
  ASSUME NEW s \in Seq(Msg), NEW k \in 0..Len(s)
  PROVE  LET a == SubSeq(s, 1, k)
             b == SubSeq(s, k + 1, Len(s))
         IN  /\ a \in Seq(Msg) /\ Len(a) = k
             /\ b \in Seq(Msg) /\ Len(b) = Len(s) - k
             /\ NfcCount(s) = NfcCount(a) + NfcCount(b)
<1> DEFINE a == SubSeq(s, 1, k)
           b == SubSeq(s, k + 1, Len(s))
<1>1. Len(s) \in Nat /\ \A i \in 1..Len(s) : s[i] \in Msg
  BY LenFacts, ElementFacts
<1>2. a \in Seq(Msg) /\ Len(a) = k /\ \A i \in 1..k : a[i] = s[i]
  BY <1>1
<1>3. b \in Seq(Msg) /\ Len(b) = Len(s) - k /\ \A i \in 1..(Len(s) - k) : b[i] = s[k + i]
  BY <1>1
<1> HIDE DEF a, b
<1>4. s = a \o b
  <2>1. /\ a \o b \in Seq(Msg) /\ Len(a \o b) = Len(s)
        /\ \A i \in 1..Len(s) : (a \o b)[i] = IF i <= k THEN a[i] ELSE b[i - k]
    <3>1. /\ a \o b \in Seq(Msg) /\ Len(a \o b) = Len(a) + Len(b)
          /\ \A i \in 1..Len(a) + Len(b) :
               (a \o b)[i] = IF i <= Len(a) THEN a[i] ELSE b[i - Len(a)]
      BY <1>2, <1>3, ConcatFacts, ZenonT(30)
    <3> QED BY <1>1, <1>2, <1>3, <3>1
  <2>2. \A i \in 1..Len(s) : (a \o b)[i] = s[i]
    <3> TAKE i \in 1..Len(s)
    <3>1. CASE i <= k
      BY <2>1, <1>2, <3>1
    <3>2. CASE i > k
      <4>1. i - k \in 1..(Len(s) - k) /\ k + (i - k) = i
        BY <1>1, <3>2
      <4> QED BY <2>1, <1>3, <4>1, <3>2
    <3>3. i <= k \/ i > k
      BY <1>1
    <3> QED BY <3>1, <3>2, <3>3, Zenon
  <2> QED BY <2>1, <2>2, SameSeq, Zenon
<1>5. NfcCount(s) = NfcCount(a) + NfcCount(b)
  BY <1>2, <1>3, <1>4, NfcCountConcat
<1> QED
  BY <1>2, <1>3, <1>5 DEF a, b

\* The head of a non-empty queue is a message, and what pop_head leaves is
\* well counted.
LEMMA DelHeadCQueue ==
  ASSUME NEW q \in CQueue, q.len > 0
  PROVE  /\ DelHead(q) \in CQueue /\ Head(q.items) \in Msg
<1>1. /\ q.items \in Seq(Msg) /\ q.len = Len(q.items) /\ q.nfc = NfcCount(q.items)
      /\ q.len \in Nat /\ q.nfc \in Nat /\ q.items # <<>>
  BY CQueueNat, EmptyFacts
<1>2. /\ Head(q.items) \in Msg /\ Tail(q.items) \in Seq(Msg)
      /\ Len(Tail(q.items)) = q.len - 1
      /\ \A i \in 1..Len(Tail(q.items)) : Tail(q.items)[i] = q.items[i + 1]
  BY <1>1, HeadTailFacts
<1>3. q.items = <<Head(q.items)>> \o Tail(q.items)
  BY <1>1
<1>4. <<Head(q.items)>> \in Seq(Msg)
  BY <1>2
<1>5. q.nfc = Nfc(Head(q.items)) + NfcCount(Tail(q.items))
  BY <1>1, <1>2, <1>3, <1>4, NfcCountConcat, NfcCountSingle, Zenon
<1>6. NfcCount(Tail(q.items)) \in Nat /\ Nfc(Head(q.items)) \in Int
  <2>1. NfcCount(Tail(q.items)) \in Nat
    BY <1>2, NfcCountType, Zenon
  <2>2. Nfc(Head(q.items)) \in Int
    BY DEF Nfc
  <2> QED BY <2>1, <2>2
<1>7. NfcCount(Tail(q.items)) = q.nfc - Nfc(Head(q.items))
  BY <1>5, <1>6
<1> QED
  BY <1>2, <1>7, MakeCQueue, Zenon DEF DelHead

\* Removing one message that is not flow controlled, as the drop loop does.
LEMMA RemoveCQueue ==
  ASSUME NEW q \in CQueue, NEW i \in DOMAIN q.items, ~q.items[i].fc
  PROVE  /\ [items |-> SubSeq(q.items, 1, i - 1)
                         \o SubSeq(q.items, i + 1, Len(q.items)),
             len |-> q.len - 1, nfc |-> q.nfc - 1] \in CQueue
         /\ q.items[i] \in Msg
<1> DEFINE s == q.items
           a == SubSeq(s, 1, i - 1)
           b == SubSeq(s, i, Len(s))
           c == SubSeq(s, i + 1, Len(s))
<1>1. /\ s \in Seq(Msg) /\ q.len = Len(s) /\ q.nfc = NfcCount(s)
      /\ q.len \in Nat /\ q.nfc \in Nat /\ i \in 1..Len(s)
  BY CQueueNat, LenFacts
<1>2. s[i] \in Msg /\ Nfc(s[i]) = 1
  BY <1>1, ElementFacts DEF Nfc
<1>3. /\ a \in Seq(Msg) /\ Len(a) = i - 1 /\ b \in Seq(Msg)
      /\ NfcCount(s) = NfcCount(a) + NfcCount(b)
  <2>1. i - 1 \in 0..Len(s) /\ (i - 1) + 1 = i
    BY <1>1
  <2> QED BY <1>1, <2>1, SplitSeq, SMTT(30)
<1>4. c \in Seq(Msg) /\ Len(c) = Len(s) - i
  BY <1>1, SplitSeq
<1>5. b = <<s[i]>> \o c
  <2>1. Len(s) \in i..Len(s)
    BY <1>1
  <2> QED BY <1>1, <2>1, SubSeqFirst, Zenon
<1> HIDE DEF s, a, b, c
<1>6. NfcCount(b) = 1 + NfcCount(c)
  <2>1. <<s[i]>> \in Seq(Msg)
    BY <1>2
  <2>2. NfcCount(<<s[i]>> \o c) = NfcCount(<<s[i]>>) + NfcCount(c)
    BY <1>4, <2>1, NfcCountConcat, Zenon
  <2>3. NfcCount(<<s[i]>>) = 1
    BY <1>2, NfcCountSingle
  <2> QED BY <1>5, <2>2, <2>3
<1>7. NfcCount(a) \in Nat /\ NfcCount(c) \in Nat
  BY <1>3, <1>4, NfcCountType, Zenon
<1>8. /\ a \o c \in Seq(Msg) /\ Len(a \o c) = q.len - 1
      /\ NfcCount(a \o c) = q.nfc - 1
  <2>1. /\ a \o c \in Seq(Msg) /\ Len(a \o c) = Len(a) + Len(c)
        /\ NfcCount(a \o c) = NfcCount(a) + NfcCount(c)
    BY <1>3, <1>4, ConcatFacts, NfcCountConcat, Zenon
  <2>2. Len(a) + Len(c) = q.len - 1
    BY <1>1, <1>3, <1>4, SMTT(30)
  <2>3. NfcCount(a) + NfcCount(c) = q.nfc - 1
    BY <1>1, <1>3, <1>6, <1>7, SMTT(30)
  <2> QED BY <2>1, <2>2, <2>3, Zenon
<1>9. [items |-> a \o c, len |-> q.len - 1, nfc |-> q.nfc - 1] \in CQueue
  BY <1>8, MakeCQueue, Zenon
<1> QED
  BY <1>2, <1>9 DEF s, a, c

-----------------------------------------------------------------------------
(* The inductive invariant.                                                *)

QueuesCounted ==
  /\ wait \in CQueue /\ output \in CQueue /\ backlog \in CQueue
  /\ inq \in [Workers -> CQueue]

\* Where each thread is says what it holds: a batch callback is registered
\* until its end, a batch is moved before the callback is called, the lock is
\* held across steps by the drop loop only, and pop_head has found something.
Control ==
  /\ \A w \in Workers : pc[w] # "idle" => cb[w]
  /\ \A w \in Workers :
       (~cb[w] \/ pc[w] \in {"call", "relock", "finish"}) => inq[w] = Empty
  /\ \A w \in Workers : lock = w <=> pc[w] = "dropping"
  /\ \A f \in Feeders : pc[f] \in {"idle", "call", "relock"}
  /\ cpc = "take" => output.len > 0
  /\ cpc = "count" => inhand \in Msg
  /\ cpc = "gone" => \A f \in Feeders : pc[f] = "idle"
  /\ todrop \in [Workers -> Nat]

\* The driver and every registered batch callback hold one reference each.
Holders == {w \in Workers : cb[w]}

RefCount == refs = (IF cpc = "gone" THEN 0 ELSE 1) + Cardinality(Holders)

\* While a worker drops, what it will splice fits.
DropBound ==
  h.truncated \/
    /\ NonFlowControlledLength <= FifoSize + h.rewound
    /\ \A w \in Workers : pc[w] = "dropping" =>
         NonFlowControlledLength + inq[w].nfc - todrop[w] <= FifoSize + h.rewound

Inv ==
  /\ TypeOK /\ QueuesCounted /\ Control
  /\ RefCount /\ QueuedCounter /\ NoLostWakeup /\ DropBound

-----------------------------------------------------------------------------
\* The three lists and the input queues stay well counted.
LEMMA QueuesStep ==
  ASSUME Inv, [Next]_vars
  PROVE  QueuesCounted'
<1> USE DEF QueuesCounted
<1>q. QueuesCounted /\ TypeOK /\ Control
  BY DEF Inv
<1>e. Empty \in CQueue
  BY EmptyCQueue
<1>u. ASSUME Unref PROVE QueuesCounted'
  <2>1. CASE refs = 1
    BY <1>u, <1>e, <2>1 DEF Unref
  <2>2. CASE refs # 1
    BY <1>u, <1>q, <2>2, SMTT(30) DEF Unref
  <2> QED BY <2>1, <2>2
<1>m. ASSUME output.len = 0, MoveWaitToOutput PROVE wait' \in CQueue /\ output' \in CQueue
  <2>1. output.items = <<>> /\ wait.items \in Seq(Msg)
        /\ wait.len = Len(wait.items) /\ wait.nfc = NfcCount(wait.items)
    BY <1>q, <1>m, CQueueNat
  <2>2. output.items \o wait.items = wait.items
    BY <2>1, ConcatEmpty
  <2> QED BY <1>m, <1>e, <2>1, <2>2, MakeCQueue, SMTT(30) DEF MoveWaitToOutput
<1>r. ASSUME RewindAll PROVE output' \in CQueue /\ backlog' \in CQueue
  BY <1>r, <1>q, <1>e, SpliceCQueue DEF RewindAll
<1>n. ASSUME NEW t \in Threads, NEW fc \in BOOLEAN PROVE NewMsg(t, fc) \in Msg
  BY <1>q DEF TypeOK, History, NewMsg, Msg
<1>1. ASSUME NEW w \in Workers, NEW fc \in BOOLEAN, PushFast(w, fc) PROVE QueuesCounted'
  <2>1. AddTail(inq[w], NewMsg(w, fc)) \in CQueue
    BY <1>q, <1>n, AddTailCQueue DEF Threads
  <2> QED BY <1>1, <1>q, <2>1 DEF PushFast
<1>2. ASSUME NEW f \in Feeders, NEW fc \in BOOLEAN, PushSlow(f, fc) PROVE QueuesCounted'
  <2>1. AddTail(wait, NewMsg(f, fc)) \in CQueue
    BY <1>q, <1>n, AddTailCQueue DEF Threads
  <2> QED BY <1>2, <1>q, <2>1 DEF PushSlow, inputVars
<1>3. ASSUME NEW f \in Feeders, NEW fc \in BOOLEAN, PushSlowDrop(f, fc) PROVE QueuesCounted'
  BY <1>3, <1>q DEF PushSlowDrop, inputVars
<1>4. ASSUME NEW w \in Workers, WorkerStep(w) PROVE QueuesCounted'
  <2>1. CASE MoveInput(w)
    BY <2>1, <1>q, SMTT(30) DEF MoveInput
  <2>2. CASE DropOne(w)
    <3>1. PICK i \in DOMAIN inq[w].items :
            /\ ~inq[w].items[i].fc
            /\ inq' = [inq EXCEPT ![w] =
                  [items |-> SubSeq(inq[w].items, 1, i - 1)
                               \o SubSeq(inq[w].items, i + 1, Len(inq[w].items)),
                   len |-> inq[w].len - 1, nfc |-> inq[w].nfc - 1]]
      BY <2>2, Zenon DEF DropOne
    <3>2. inq'[w] \in CQueue
      BY <3>1, <1>q, RemoveCQueue, Zenon
    <3> QED BY <2>2, <3>1, <3>2, <1>q DEF DropOne
  <2>3. CASE MoveInputSplice(w)
    BY <2>3, <1>q, <1>e, SpliceCQueue, SMTT(30) DEF MoveInputSplice
  <2>4. CASE Call(w)
    BY <2>4, <1>q DEF Call, inputVars
  <2>5. CASE RelockWorker(w)
    BY <2>5, <1>q DEF RelockWorker, inputVars
  <2>6. CASE MoveInputFinish(w)
    BY <2>6, <1>u DEF MoveInputFinish
  <2> QED BY <1>4, <2>1, <2>2, <2>3, <2>4, <2>5, <2>6, SMTT(30) DEF WorkerStep
<1>5. ASSUME NEW f \in Feeders, FeederStep(f) PROVE QueuesCounted'
  BY <1>5, <1>q DEF FeederStep, Call, RelockFeeder, inputVars
<1>6. CASE OutputStep
  <2>1. CASE Wakeup \/ CheckItemsEmpty \/ CheckItems \/ ThrottleTimeout \/ PopThrottled
    BY <2>1, <1>q DEF Wakeup, CheckItemsEmpty, CheckItems, ThrottleTimeout,
                      PopThrottled, inputVars
  <2>2. CASE PopHead
    BY <2>2, <1>q, <1>m, SMTT(30) DEF PopHead, inputVars
  <2>3. CASE PopTake
    BY <2>3, <1>q, DelHeadCQueue, SMTT(30) DEF PopTake, inputVars, Control
  <2>4. CASE PopCount
    BY <2>4, <1>q, AddTailCQueue DEF PopCount, inputVars, Control
  <2>5. CASE Stop \/ Restart
    BY <2>5, <1>q, <1>r DEF Stop, Restart, inputVars
  <2> QED BY <1>6, <2>1, <2>2, <2>3, <2>4, <2>5, SMTT(30) DEF OutputStep
<1>7. CASE TimerWakeup \/ RequestExit
  BY <1>7, <1>q DEF TimerWakeup, RequestExit, inputVars
<1>8. CASE PeekHead
  BY <1>8, <1>q, <1>m DEF PeekHead, inputVars
<1>9. ASSUME NEW n \in 1..(MaxMsgs + 1), AckBacklog(n) PROVE QueuesCounted'
  <2> DEFINE k == Min2(n, backlog.len)
             a == SubSeq(backlog.items, 1, k)
             b == SubSeq(backlog.items, k + 1, Len(backlog.items))
  <2>1. /\ backlog.items \in Seq(Msg) /\ backlog.len = Len(backlog.items)
        /\ backlog.nfc = NfcCount(backlog.items) /\ backlog.len \in Nat
    BY <1>q, CQueueNat
  <2>2. k \in 0..Len(backlog.items)
    BY <2>1, FifoAssumption DEF Min2
  <2> HIDE DEF k
  <2>3. /\ a \in Seq(Msg) /\ b \in Seq(Msg) /\ Len(b) = Len(backlog.items) - k
        /\ NfcCount(backlog.items) = NfcCount(a) + NfcCount(b)
    BY <2>1, <2>2, SplitSeq
  <2>4. NfcCount(a) \in Nat /\ NfcCount(b) \in Nat
    BY <2>3, NfcCountType, Zenon
  <2>5. Len(b) = backlog.len - k /\ NfcCount(b) = backlog.nfc - NfcCount(a)
    BY <2>1, <2>3, <2>4
  <2>6. backlog' = [items |-> b, len |-> backlog.len - k,
                    nfc |-> backlog.nfc - NfcCount(a)]
    BY <1>9 DEF AckBacklog, k
  <2> HIDE DEF a, b
  <2>7. backlog' \in CQueue
    BY <2>3, <2>5, <2>6, MakeCQueue, SMTT(30)
  <2> QED BY <1>9, <1>q, <2>7, SMTT(30) DEF AckBacklog, inputVars
<1>10. ASSUME NEW n \in 1..(MaxMsgs + 1), RewindBacklog(n) PROVE QueuesCounted'
  <2> DEFINE s == backlog.items
             k == Min2(n, backlog.len)
             a == SubSeq(s, 1, Len(s) - k)
             b == SubSeq(s, Len(s) - k + 1, Len(s))
  <2>1. /\ s \in Seq(Msg) /\ backlog.len = Len(s)
        /\ backlog.nfc = NfcCount(s) /\ backlog.len \in Nat
        /\ output.items \in Seq(Msg) /\ output.len = Len(output.items)
        /\ output.nfc = NfcCount(output.items) /\ output.len \in Nat /\ output.nfc \in Nat
    BY <1>q, CQueueNat
  <2>0. k \in 0..Len(s)
    BY <2>1, FifoAssumption DEF Min2
  <2> HIDE DEF k
  <2>2. k \in Nat /\ Len(s) - k \in 0..Len(s) /\ Len(s) - (Len(s) - k) = k
    BY <2>0, <2>1
  <2>3. /\ a \in Seq(Msg) /\ b \in Seq(Msg) /\ Len(a) = Len(s) - k
        /\ Len(b) = Len(s) - (Len(s) - k)
        /\ NfcCount(s) = NfcCount(a) + NfcCount(b)
    BY <2>1, <2>2, SplitSeq, Zenon
  <2>4. NfcCount(a) \in Nat /\ NfcCount(b) \in Nat
    BY <2>3, NfcCountType, Zenon
  <2>5. /\ Len(a) = backlog.len - k /\ NfcCount(a) = backlog.nfc - NfcCount(b)
    BY <2>1, <2>3, <2>4, SMTT(30)
  <2>6. /\ backlog' = [items |-> a, len |-> backlog.len - k,
                       nfc |-> backlog.nfc - NfcCount(b)]
        /\ output' = [items |-> b \o output.items, len |-> output.len + Len(b),
                      nfc |-> output.nfc + NfcCount(b)]
    BY <1>10 DEF RewindBacklog, PutBack, k
  <2>7. /\ b \o output.items \in Seq(Msg)
        /\ Len(b \o output.items) = Len(b) + Len(output.items)
        /\ NfcCount(b \o output.items) = NfcCount(b) + NfcCount(output.items)
    BY <2>1, <2>3, ConcatFacts, NfcCountConcat, ZenonT(30)
  <2> HIDE DEF a, b, s
  <2>8. output.len + Len(b) = Len(b \o output.items)
        /\ output.nfc + NfcCount(b) = NfcCount(b \o output.items)
    BY <2>1, <2>2, <2>3, <2>4, <2>7
  <2>9. backlog' \in CQueue /\ output' \in CQueue
    BY <2>3, <2>5, <2>6, <2>7, <2>8, MakeCQueue, ZenonT(30)
  <2> QED BY <1>10, <1>q, <2>9, SMTT(30) DEF RewindBacklog, inputVars
<1>11. CASE RewindBacklogAll
  BY <1>11, <1>q, <1>r DEF RewindBacklogAll, inputVars
<1>12. CASE Release
  BY <1>12, <1>u DEF Release
<1>13. CASE UNCHANGED vars
  BY <1>13, <1>q DEF vars, inputVars
<1> QED
  BY <1>1, <1>2, <1>3, <1>4, <1>5, <1>6, <1>7, <1>8, <1>9, <1>10, <1>11, <1>12,
     <1>13, SMTT(30) DEF Next

\* The ids of a well-counted queue are natural numbers.
LEMMA IdsType ==
  ASSUME NEW q \in CQueue
  PROVE  Ids(q.items) \subseteq Nat
<1>1. q.items \in Seq(Msg)
  BY CQueueNat
<1>2. \A i \in DOMAIN q.items : q.items[i] \in Msg
  BY <1>1, LenFacts, ElementFacts
<1> QED BY <1>2 DEF Ids, Msg

\* The set of workers with a registered callback is finite; a registered
\* callback, or a driver that has not let go, holds a reference.
LEMMA HoldersFacts ==
  ASSUME Inv
  PROVE  /\ IsFiniteSet(Holders) /\ Cardinality(Holders) \in Nat
         /\ \A w \in Workers : cb[w] => Cardinality(Holders) >= 1 /\ refs >= 1
         /\ cpc # "gone" => refs >= 1
<1>1. IsFiniteSet(Holders)
  <2>1. Holders \in SUBSET Workers
    BY DEF Holders
  <2> QED BY <2>1, FS_Subset, FifoAssumption
<1>2. Cardinality(Holders) \in Nat
  BY <1>1, FS_CardinalityType
<1>3. \A w \in Workers : cb[w] => Cardinality(Holders) # 0
  <2>1. Cardinality(Holders) = 0 => Holders = {}
    BY <1>1, FS_EmptySet
  <2> QED BY <2>1 DEF Holders
<1> QED BY <1>1, <1>2, <1>3 DEF Inv, RefCount

\* What the actions do to the history.
LEMMA HistorySteps ==
  ASSUME NEW g \in History
  PROVE  /\ [g EXCEPT !.pushed = @ + 1] \in History
         /\ \A x \in Nat : [g EXCEPT !.dropped = @ \cup {x}] \in History
         /\ [g EXCEPT !.pushed = @ + 1, !.dropped = @ \cup {g.pushed + 1}] \in History
         /\ \A b \in BOOLEAN : [g EXCEPT !.truncated = @ \/ b] \in History
         /\ \A S \in SUBSET Nat : [g EXCEPT !.acked = @ \cup S] \in History
         /\ \A S \in SUBSET Nat : [g EXCEPT !.aborted = @ \cup S] \in History
         /\ [g EXCEPT !.rewinds = @ + 1] \in History
         /\ \A n \in Nat : [g EXCEPT !.rewinds = @ + 1, !.rewound = @ + n] \in History
         /\ [g EXCEPT !.stops = @ + 1] \in History
         /\ \A n \in Nat, b \in BOOLEAN :
              [g EXCEPT !.rewound = @ + n, !.spliced = @ \/ b] \in History
         /\ g.pushed \in Nat /\ g.rewound \in Nat
<1> USE DEF History
<1>1. [g EXCEPT !.pushed = @ + 1] \in History
  OBVIOUS
<1>2. \A x \in Nat : [g EXCEPT !.dropped = @ \cup {x}] \in History
  OBVIOUS
<1>3. [g EXCEPT !.pushed = @ + 1, !.dropped = @ \cup {g.pushed + 1}] \in History
  <2>1. \A x \in Nat :
          [[g EXCEPT !.pushed = @ + 1] EXCEPT !.dropped = @ \cup {x}] \in History
    BY <1>1, Zenon
  <2> QED BY <2>1, Zenon
<1>4. \A b \in BOOLEAN : [g EXCEPT !.truncated = @ \/ b] \in History
  OBVIOUS
<1>5. \A S \in SUBSET Nat : [g EXCEPT !.acked = @ \cup S] \in History
  OBVIOUS
<1>6. \A S \in SUBSET Nat : [g EXCEPT !.aborted = @ \cup S] \in History
  OBVIOUS
<1>7. [g EXCEPT !.rewinds = @ + 1] \in History
  OBVIOUS
<1>8. \A n \in Nat : [g EXCEPT !.rewinds = @ + 1, !.rewound = @ + n] \in History
  <2> TAKE n \in Nat
  <2> DEFINE g1 == [g EXCEPT !.rewinds = @ + 1]
  <2>1. g1 \in History
    BY <1>7
  <2> HIDE DEF g1
  <2>2. [g1 EXCEPT !.rewound = @ + n] \in History
    BY <2>1
  <2> QED BY <2>2, SMTT(30) DEF g1
<1>9. [g EXCEPT !.stops = @ + 1] \in History
  OBVIOUS
<1>10. \A n \in Nat, b \in BOOLEAN :
         [g EXCEPT !.rewound = @ + n, !.spliced = @ \/ b] \in History
  <2> TAKE n \in Nat, b \in BOOLEAN
  <2>1. [g EXCEPT !.rewound = @ + n] \in History
    OBVIOUS
  <2>2. [[g EXCEPT !.rewound = @ + n] EXCEPT !.spliced = @ \/ b] \in History
    BY <2>1, Zenon
  <2> QED BY <2>2, SMTT(30)
<1>11. g.pushed \in Nat /\ g.rewound \in Nat
  OBVIOUS
<1> QED
  BY <1>1, <1>2, <1>3, <1>4, <1>5, <1>6, <1>7, <1>8, <1>9, <1>10, <1>11, ZenonT(30)

\* Every variable keeps its type.
LEMMA TypeStep ==
  ASSUME Inv, [Next]_vars
  PROVE  TypeOK'
<1>q. QueuesCounted /\ TypeOK /\ Control /\ QueuesCounted'
  BY QueuesStep DEF Inv
<1>c. CQueue \subseteq Queue
  BY DEF CQueue
<1>t. /\ inq' \in [Workers -> Queue]
      /\ wait' \in Queue /\ output' \in Queue /\ backlog' \in Queue
  BY <1>q, <1>c DEF QueuesCounted
<1>l. /\ wait.len \in Nat /\ output.len \in Nat /\ backlog.len \in Nat
      /\ wait.nfc \in Nat /\ output.nfc \in Nat /\ backlog.nfc \in Nat
      /\ \A w \in Workers : inq[w].len \in Nat /\ inq[w].nfc \in Nat
  BY <1>q, CQueueNat DEF QueuesCounted
<1>i. /\ Ids(wait.items) \subseteq Nat /\ Ids(output.items) \subseteq Nat
      /\ Ids(backlog.items) \subseteq Nat
      /\ \A w \in Workers : Ids(inq[w].items) \subseteq Nat
  BY <1>q, IdsType DEF QueuesCounted
<1> USE DEF TypeOK, outputVars, wakeVars
<1>u. ASSUME Unref, refs >= 1 PROVE refs' \in Nat /\ queued' \in Int /\ h' \in History
  <2>1. CASE refs = 1
    <3> DEFINE S == Ids(wait.items) \cup Ids(output.items) \cup Ids(backlog.items)
                      \cup UNION {Ids(inq[w].items) : w \in Workers}
    <3>1. S \in SUBSET Nat
      BY <1>i
    <3>2. h' = [h EXCEPT !.aborted = @ \cup S]
      BY <1>u, <2>1 DEF Unref
    <3> HIDE DEF S
    <3>3. h' \in History
      BY <1>q, <3>1, <3>2, HistorySteps, Zenon
    <3> QED BY <1>u, <2>1, <3>3 DEF Unref
  <2>2. CASE refs # 1
    BY <1>u, <1>q, <2>2 DEF Unref
  <2> QED BY <2>1, <2>2
<1>r. ASSUME NEW g \in History
      PROVE NoteRewindAll(g) \in History
  <2>1. (backlog.len > 0 /\ output.len > 0) \in BOOLEAN
    OBVIOUS
  <2> QED BY <1>l, <2>1, HistorySteps, Zenon DEF NoteRewindAll
<1>1. ASSUME NEW w \in Workers, NEW fc \in BOOLEAN, PushFast(w, fc) PROVE TypeOK'
  <2>1. h' \in History
    BY <1>1, <1>q, HistorySteps, Zenon DEF PushFast
  <2>2. refs' \in Nat /\ cb' \in [Workers -> BOOLEAN]
    BY <1>1, <1>q DEF PushFast
  <2> QED BY <1>1, <2>1, <2>2, <1>q, <1>t DEF PushFast
<1>2. ASSUME NEW f \in Feeders, NEW fc \in BOOLEAN, PushSlow(f, fc) PROVE TypeOK'
  <2>1. h' \in History
    BY <1>2, <1>q, HistorySteps, Zenon DEF PushSlow
  <2>2. queued' \in Int
    BY <1>2, <1>q DEF PushSlow
  <2>3. pc' \in [Threads -> {"idle", "dropping", "call", "relock", "finish"}]
    BY <1>2, <1>q, Zenon DEF PushSlow, PushNotify
  <2>4. notify' = FALSE
    BY <1>2 DEF PushSlow, PushNotify
  <2> QED BY <1>2, <2>1, <2>2, <2>3, <2>4, <1>q, <1>t, Zenon DEF PushSlow, inputVars
<1>3. ASSUME NEW f \in Feeders, NEW fc \in BOOLEAN, PushSlowDrop(f, fc) PROVE TypeOK'
  BY <1>3, <1>q, <1>t, HistorySteps, ZenonT(30) DEF PushSlowDrop, inputVars
<1>4. ASSUME NEW w \in Workers, WorkerStep(w) PROVE TypeOK'
  <2>w. w \in Threads
    BY DEF Threads
  <2>1. CASE MoveInput(w)
    <3>1. NumOfMessagesToDrop(w) \in Int
      BY <1>l, FifoAssumption, SMTT(30)
         DEF NumOfMessagesToDrop, InputQueueLen, NonFlowControlledLength, Max2
    <3>2. (inq[w].nfc >= Uint16Mod) \in BOOLEAN
      OBVIOUS
    <3>3. h' \in History
      BY <2>1, <3>2, <1>q, HistorySteps, ZenonT(30) DEF MoveInput
    <3> QED BY <2>1, <2>w, <3>1, <3>3, <1>q, <1>t, SMTT(30) DEF MoveInput
  <2>2. CASE DropOne(w)
    <3>1. PICK i \in DOMAIN inq[w].items :
            h' = [h EXCEPT !.dropped = @ \cup {inq[w].items[i].id}]
      BY <2>2, Zenon DEF DropOne
    <3>2. inq[w].items[i].id \in Nat
      BY <1>i DEF Ids
    <3>3. h' \in History
      BY <3>1, <3>2, <1>q, HistorySteps, ZenonT(30)
    <3>4. todrop' \in [Workers -> Int]
      <4>1. todrop' = [todrop EXCEPT ![w] = @ - 1] /\ todrop \in [Workers -> Int]
        BY <2>2, <1>q DEF DropOne
      <4> QED BY <4>1, SMTT(30)
    <3> QED BY <2>2, <3>3, <3>4, <1>q, <1>t, ZenonT(30) DEF DropOne
  <2>3. CASE MoveInputSplice(w)
    <3>1. queued' \in Int
      BY <2>3, <1>q, <1>l, SMTT(30) DEF MoveInputSplice
    <3>3. notify' = FALSE
      BY <2>3, SMTT(30) DEF MoveInputSplice, PushNotify
    <3>2. pc' \in [Threads -> {"idle", "dropping", "call", "relock", "finish"}]
      BY <2>3, <2>w, <1>q, SMTT(30) DEF MoveInputSplice, PushNotify
    <3> QED BY <2>3, <3>1, <3>2, <3>3, <1>q, <1>t, ZenonT(30) DEF MoveInputSplice
  <2>4. CASE Call(w)
    BY <2>4, <2>w, <1>q, <1>t, SMTT(30) DEF Call, inputVars
  <2>5. CASE RelockWorker(w)
    BY <2>5, <2>w, <1>q, <1>t, SMTT(30) DEF RelockWorker, inputVars
  <2>6. CASE MoveInputFinish(w)
    <3>1. cb[w]
      BY <2>6, <1>q DEF MoveInputFinish, Control
    <3>2. refs >= 1
      BY <3>1, HoldersFacts, SMTT(30)
    <3> QED BY <2>6, <2>w, <3>2, <1>u, <1>q, <1>t, SMTT(30) DEF MoveInputFinish
  <2> QED BY <1>4, <2>1, <2>2, <2>3, <2>4, <2>5, <2>6, SMTT(30) DEF WorkerStep
<1>5. ASSUME NEW f \in Feeders, FeederStep(f) PROVE TypeOK'
  <2>1. f \in Threads
    BY DEF Threads
  <2>2. CASE Call(f)
    BY <2>1, <2>2, <1>q, <1>t, SMTT(30) DEF Call, inputVars
  <2>3. CASE RelockFeeder(f)
    BY <2>1, <2>3, <1>q, <1>t, SMTT(30) DEF RelockFeeder, inputVars
  <2> QED BY <1>5, <2>2, <2>3, SMTT(30) DEF FeederStep
<1>6. CASE OutputStep
  <2>1. CASE Wakeup \/ CheckItemsEmpty \/ ThrottleTimeout \/ PopThrottled
    BY <2>1, <1>q, <1>t, Zenon DEF Wakeup, CheckItemsEmpty, ThrottleTimeout,
                      PopThrottled, inputVars
  <2>2. CASE CheckItems
    <3>1. buckets' \in 0..Throttle
      BY <2>2, <1>q, FifoAssumption, SMTT(30) DEF CheckItems, Min2
    <3> QED BY <2>2, <3>1, <1>q, <1>t, ZenonT(30) DEF CheckItems, inputVars
  <2>3. CASE PopHead
    BY <2>3, <1>q, <1>t, SMTT(30) DEF PopHead, inputVars
  <2>4. CASE PopTake
    <3>1. Head(output.items) \in Msg
      BY <2>4, <1>q, DelHeadCQueue, SMTT(30) DEF PopTake, Control, QueuesCounted
    <3> QED BY <2>4, <3>1, <1>q, <1>t, SMTT(30) DEF PopTake, inputVars
  <2>5. CASE PopCount
    BY <2>5, <1>q, <1>t, FifoAssumption, SMTT(30) DEF PopCount, inputVars
  <2>6. CASE Stop
    <3>1. [h EXCEPT !.stops = @ + 1] \in History
      BY <1>q, HistorySteps, Zenon
    <3>2. h' \in History /\ queued' \in Int
      BY <2>6, <3>1, <1>q, <1>l, <1>r, SMTT(30) DEF Stop, RewindAll
    <3> QED BY <2>6, <3>2, <1>q, <1>t, ZenonT(30) DEF Stop, inputVars
  <2>7. CASE Restart
    <3>1. h' \in History /\ queued' \in Int
      BY <2>7, <1>q, <1>l, <1>r, SMTT(30) DEF Restart, RewindAll
    <3> QED BY <2>7, <3>1, <1>q, <1>t, ZenonT(30) DEF Restart, inputVars
  <2> QED BY <1>6, <2>1, <2>2, <2>3, <2>4, <2>5, <2>6, <2>7, SMTT(30) DEF OutputStep
<1>7. CASE TimerWakeup \/ RequestExit \/ PeekHead
  BY <1>7, <1>q, <1>t, ZenonT(30) DEF TimerWakeup, RequestExit, PeekHead, inputVars
<1>8. ASSUME NEW n \in 1..(MaxMsgs + 1), AckBacklog(n) PROVE TypeOK'
  <2> DEFINE gone == SubSeq(backlog.items, 1, Min2(n, backlog.len))
  <2>1. /\ backlog.items \in Seq(Msg) /\ backlog.len = Len(backlog.items)
        /\ backlog.len \in Nat
    BY <1>q, CQueueNat, Zenon DEF QueuesCounted
  <2>2. Min2(n, backlog.len) \in 0..Len(backlog.items)
    BY <2>1, FifoAssumption DEF Min2
  <2>3. gone \in Seq(Msg)
    BY <2>1, <2>2, SplitSeq, SMTT(30)
  <2>4. Ids(gone) \subseteq Nat
    <3> HIDE DEF gone
    <3>1. \A i \in DOMAIN gone : gone[i] \in Msg
      BY <2>3, LenFacts, ElementFacts, SMTT(30)
    <3> QED BY <3>1 DEF Ids, Msg
  <2>5. h' = [h EXCEPT !.acked = @ \cup Ids(gone)]
    BY <1>8 DEF AckBacklog
  <2> HIDE DEF gone
  <2>6. h' \in History
    BY <2>4, <2>5, <1>q, HistorySteps, ZenonT(30)
  <2> QED BY <1>8, <2>6, <1>q, <1>t, SMTT(30) DEF AckBacklog, inputVars
<1>9. ASSUME NEW n \in 1..(MaxMsgs + 1), RewindBacklog(n) PROVE TypeOK'
  <2> DEFINE k == Min2(n, backlog.len)
             back == SubSeq(backlog.items, Len(backlog.items) - k + 1, Len(backlog.items))
  <2>1. /\ backlog.items \in Seq(Msg) /\ backlog.len = Len(backlog.items)
        /\ backlog.len \in Nat
    BY <1>q, CQueueNat, SMTT(30) DEF QueuesCounted
  <2>2. k \in 0..Len(backlog.items) /\ k \in Nat
    BY <2>1, FifoAssumption, SMTT(30) DEF Min2
  <2>3. /\ queued' = queued + k
        /\ h' = [h EXCEPT !.rewinds = @ + 1, !.rewound = @ + NfcCount(back)]
    BY <1>9 DEF RewindBacklog
  <2> HIDE DEF k
  <2>4. Len(backlog.items) - k \in 0..Len(backlog.items)
    BY <2>1, <2>2, SMTT(30)
  <2>5. back \in Seq(Msg)
    BY <2>1, <2>4, SplitSeq, SMTT(30)
  <2>6. NfcCount(back) \in Nat
    BY <2>5, NfcCountType, Zenon
  <2> HIDE DEF back
  <2>7. h' \in History
    BY <2>3, <2>6, <1>q, HistorySteps, ZenonT(30)
  <2>8. queued' \in Int
    BY <2>2, <2>3, <1>q, SMTT(30)
  <2> QED BY <1>9, <2>7, <2>8, <1>q, <1>t, SMTT(30) DEF RewindBacklog, inputVars
<1>10. CASE RewindBacklogAll
  <2>1. [h EXCEPT !.rewinds = @ + 1] \in History
    BY <1>q, HistorySteps, ZenonT(30)
  <2> QED BY <1>10, <2>1, <1>q, <1>t, <1>l, <1>r, SMTT(30) DEF RewindBacklogAll, RewindAll, inputVars
<1>11. CASE Release
  <2>1. refs >= 1
    BY <1>11, HoldersFacts, SMTT(30) DEF Release
  <2> QED BY <1>11, <2>1, <1>u, <1>q, <1>t, SMTT(30) DEF Release
<1>12. CASE UNCHANGED vars
  BY <1>12, <1>q, <1>t, SMTT(30) DEF vars, inputVars
<1> QED
  BY <1>1, <1>2, <1>3, <1>4, <1>5, <1>6, <1>7, <1>8, <1>9, <1>10, <1>11, <1>12, ZenonT(30)
     DEF Next

\* Only a queue its driver has let go of is freed at the end of a batch, and
\* then no slow-path push is going on.
LEMMA LastReference ==
  ASSUME Inv, refs = 1, NEW w \in Workers, MoveInputFinish(w)
  PROVE  cpc = "gone" /\ \A f \in Feeders : pc[f] = "idle"
<1>1. cb[w]
  BY DEF MoveInputFinish, Inv, Control
<1>2. Cardinality(Holders) >= 1 /\ Cardinality(Holders) \in Nat
  BY <1>1, HoldersFacts
<1>3. cpc = "gone"
  BY <1>2 DEF Inv, RefCount
<1> QED BY <1>3, SMTT(30) DEF Inv, Control

\* What a thread does agrees with what it holds.
LEMMA ControlStep ==
  ASSUME Inv, [Next]_vars
  PROVE  Control'
<1>q. QueuesCounted /\ TypeOK /\ Control
  BY DEF Inv
<1>l. /\ wait.len \in Nat /\ output.len \in Nat
      /\ wait.nfc \in Nat /\ output.nfc \in Nat
      /\ \A w \in Workers : inq[w].len \in Nat /\ inq[w].nfc \in Nat
  BY <1>q, CQueueNat DEF QueuesCounted
<1>d. Workers \cap Feeders = {} /\ NoOne \notin Workers
  BY FifoAssumption
<1>p. /\ pc \in [Threads -> {"idle", "dropping", "call", "relock", "finish"}]
      /\ cb \in [Workers -> BOOLEAN] /\ inq \in [Workers -> Queue]
      /\ Workers \subseteq Threads /\ Feeders \subseteq Threads
  BY <1>q DEF TypeOK, Threads
<1> USE DEF Control, outputVars, wakeVars
<1>1. ASSUME NEW w \in Workers, NEW fc \in BOOLEAN, PushFast(w, fc) PROVE Control'
  BY <1>1, <1>q, <1>p, SMTT(30) DEF PushFast, CanPush
<1>2. ASSUME NEW f \in Feeders, NEW fc \in BOOLEAN, PushSlow(f, fc) PROVE Control'
  BY <1>2, <1>q, <1>p, <1>d, SMTT(30) DEF PushSlow, PushNotify, CanPush, inputVars
<1>3. ASSUME NEW f \in Feeders, NEW fc \in BOOLEAN, PushSlowDrop(f, fc) PROVE Control'
  BY <1>3, <1>q DEF PushSlowDrop, inputVars
<1>4. ASSUME NEW w \in Workers, WorkerStep(w) PROVE Control'
  <2>1. CASE MoveInput(w)
    <3>1. NumOfMessagesToDrop(w) \in Nat
      BY <1>l, FifoAssumption
         DEF NumOfMessagesToDrop, InputQueueLen, NonFlowControlledLength, Max2
    <3>2. todrop' \in [Workers -> Nat]
      BY <2>1, <3>1, <1>q, SMTT(30) DEF MoveInput
    <3> QED BY <2>1, <3>2, <1>q, <1>p, <1>d, SMTT(30) DEF MoveInput
  <2>2. CASE DropOne(w)
    <3>1. /\ todrop' = [todrop EXCEPT ![w] = @ - 1] /\ todrop[w] > 0
          /\ todrop \in [Workers -> Nat] /\ pc[w] = "dropping"
      BY <2>2, <1>q DEF DropOne
    <3>2. todrop' \in [Workers -> Nat]
      BY <3>1, SMTT(30)
    <3>3. cb[w]
      BY <3>1, <1>q, SMTT(30)
    <3>4. \A v \in Workers : v # w => inq'[v] = inq[v]
      BY <2>2, <1>p, SMTT(30) DEF DropOne
    <3>5. UNCHANGED <<cb, output, cpc, inhand, lock, pc>>
      BY <2>2, SMTT(30) DEF DropOne
    <3>6. \A v \in Workers :
            (~cb[v] \/ pc[v] \in {"call", "relock", "finish"}) => inq'[v] = Empty
      BY <3>1, <3>3, <3>4, <1>q, SMTT(30)
    <3> QED BY <3>2, <3>5, <3>6, <1>q, SMTT(30)
  <2>3. CASE MoveInputSplice(w)
    BY <2>3, <1>q, <1>p, <1>d, SMTT(30) DEF MoveInputSplice, PushNotify
  <2>4. CASE Call(w)
    BY <2>4, <1>q, <1>p, <1>d, SMTT(30) DEF Call, inputVars
  <2>5. CASE RelockWorker(w)
    BY <2>5, <1>q, <1>p, <1>d, SMTT(30) DEF RelockWorker, inputVars
  <2>6. CASE MoveInputFinish(w)
    <3>1. CASE refs = 1
      <4>1. cpc = "gone" /\ \A f \in Feeders : pc[f] = "idle"
        BY <2>6, <3>1, LastReference, SMTT(30)
      <4> QED BY <2>6, <3>1, <4>1, <1>q, <1>p, <1>d, SMTT(30) DEF MoveInputFinish, Unref
    <3>2. CASE refs # 1
      BY <2>6, <3>2, <1>q, <1>p, <1>d, SMTT(30) DEF MoveInputFinish, Unref
    <3> QED BY <3>1, <3>2
  <2> QED BY <1>4, <2>1, <2>2, <2>3, <2>4, <2>5, <2>6, ZenonT(30) DEF WorkerStep
<1>5. ASSUME NEW f \in Feeders, FeederStep(f) PROVE Control'
  BY <1>5, <1>q, <1>p, <1>d, SMTT(30) DEF FeederStep, Call, RelockFeeder, inputVars
<1>6. CASE OutputStep
  <2>1. CASE Wakeup \/ CheckItemsEmpty \/ CheckItems \/ ThrottleTimeout \/ PopThrottled
    BY <2>1, <1>q, Zenon DEF Wakeup, CheckItemsEmpty, CheckItems, ThrottleTimeout,
                      PopThrottled, inputVars
  <2>2. CASE PopHead
    BY <2>2, <1>q, ZenonT(30) DEF PopHead, inputVars
  <2>3. CASE PopTake
    <3>1. Head(output.items) \in Msg
      BY <2>3, <1>q, DelHeadCQueue, SMTT(30) DEF PopTake, QueuesCounted
    <3>2. /\ inhand' \in Msg /\ cpc' = "count"
          /\ UNCHANGED <<cb, inq, todrop, lock, pc>>
      BY <2>3, <3>1, Zenon DEF PopTake, inputVars, wakeVars
    <3> QED BY <3>2, <1>q, SMTT(30)
  <2>4. CASE PopCount
    <3>1. cpc' = "work" /\ UNCHANGED <<cb, inq, todrop, lock, pc>>
      BY <2>4, Zenon DEF PopCount, inputVars, wakeVars
    <3> QED BY <3>1, <1>q, SMTT(30)
  <2>5. CASE Stop \/ Restart
    BY <2>5, <1>q DEF Stop, Restart, inputVars
  <2> QED BY <1>6, <2>1, <2>2, <2>3, <2>4, <2>5, SMTT(30) DEF OutputStep
<1>7. CASE TimerWakeup \/ RequestExit \/ PeekHead \/ RewindBacklogAll
  BY <1>7, <1>q, SMTT(30) DEF TimerWakeup, RequestExit, PeekHead, RewindBacklogAll, inputVars
<1>8. ASSUME NEW n \in 1..(MaxMsgs + 1), AckBacklog(n) \/ RewindBacklog(n) PROVE Control'
  BY <1>8, <1>q, SMTT(30) DEF AckBacklog, RewindBacklog, inputVars
<1>9. CASE Release
  <2>1. CASE refs = 1
    BY <1>9, <2>1, <1>q, <1>p, SMTT(30) DEF Release, Unref
  <2>2. CASE refs # 1
    BY <1>9, <2>2, <1>q, <1>p, SMTT(30) DEF Release, Unref
  <2> QED BY <2>1, <2>2
<1>10. CASE UNCHANGED vars
  BY <1>10, <1>q DEF vars, inputVars
<1> QED
  BY <1>1, <1>2, <1>3, <1>4, <1>5, <1>6, <1>7, <1>8, <1>9, <1>10, ZenonT(30) DEF Next

\* References are taken and dropped in step with the callbacks.
LEMMA RefStep ==
  ASSUME Inv, [Next]_vars
  PROVE  RefCount'
<1>q. TypeOK /\ Control /\ RefCount
  BY DEF Inv
<1>f. IsFiniteSet(Holders) /\ Cardinality(Holders) \in Nat
  BY HoldersFacts
<1>a. ASSUME NEW w \in Workers, cb' = [cb EXCEPT ![w] = TRUE]
      PROVE  Cardinality(Holders') =
               IF cb[w] THEN Cardinality(Holders) ELSE Cardinality(Holders) + 1
  <2>1. Holders' = Holders \cup {w}
    BY <1>a, <1>q DEF Holders, TypeOK
  <2>2. w \in Holders <=> cb[w]
    BY DEF Holders
  <2>3. Cardinality(Holders \cup {w}) =
          IF w \in Holders THEN Cardinality(Holders) ELSE Cardinality(Holders) + 1
    BY <1>f, FS_AddElement, Zenon
  <2> QED BY <2>1, <2>2, <2>3, SMTT(30)
<1>d. ASSUME NEW w \in Workers, cb[w], cb' = [cb EXCEPT ![w] = FALSE]
      PROVE  Cardinality(Holders') = Cardinality(Holders) - 1
  <2>1. Holders' = Holders \ {w} /\ w \in Holders
    BY <1>d, <1>q DEF Holders, TypeOK
  <2> QED BY <2>1, <1>f, FS_RemoveElement, SMTT(30)
<1>k. ASSUME UNCHANGED <<refs, cb>>, cpc' = "gone" <=> cpc = "gone" PROVE RefCount'
  BY <1>k, <1>q DEF RefCount, Holders
<1>1. ASSUME NEW w \in Workers, NEW fc \in BOOLEAN, PushFast(w, fc) PROVE RefCount'
  <2>1. /\ cb' = [cb EXCEPT ![w] = TRUE] /\ cpc' = cpc
        /\ refs' = IF cb[w] THEN refs ELSE refs + 1
    BY <1>1 DEF PushFast, outputVars
  <2>2. Cardinality(Holders') =
          IF cb[w] THEN Cardinality(Holders) ELSE Cardinality(Holders) + 1
    BY <2>1, <1>a, Zenon
  <2> QED BY <2>1, <2>2, <1>q, <1>f DEF RefCount
<1>2. ASSUME NEW f \in Feeders, NEW fc \in BOOLEAN, PushSlow(f, fc) \/ PushSlowDrop(f, fc)
      PROVE  RefCount'
  BY <1>2, <1>k DEF PushSlow, PushSlowDrop, inputVars, outputVars
<1>3. ASSUME NEW w \in Workers, WorkerStep(w) PROVE RefCount'
  <2>1. CASE MoveInput(w) \/ DropOne(w) \/ MoveInputSplice(w) \/ Call(w) \/ RelockWorker(w)
    BY <2>1, <1>k, SMTT(30) DEF MoveInput, DropOne, MoveInputSplice, Call, RelockWorker,
                      inputVars, outputVars
  <2>2. CASE MoveInputFinish(w)
    <3>1. cb[w] /\ cb' = [cb EXCEPT ![w] = FALSE] /\ cpc' = cpc /\ refs' = refs - 1
      BY <2>2, <1>q DEF MoveInputFinish, Unref, Control, outputVars
    <3>2. Cardinality(Holders') = Cardinality(Holders) - 1
      BY <3>1, <1>d, Zenon
    <3> QED BY <3>1, <3>2, <1>q, <1>f, SMTT(30) DEF RefCount
  <2> QED BY <1>3, <2>1, <2>2, SMTT(30) DEF WorkerStep
<1>4. ASSUME NEW f \in Feeders, FeederStep(f) PROVE RefCount'
  BY <1>4, <1>k, SMTT(30) DEF FeederStep, Call, RelockFeeder, inputVars, outputVars
<1>5. CASE OutputStep
  BY <1>5, <1>k DEF OutputStep, Wakeup, CheckItemsEmpty, CheckItems, ThrottleTimeout,
       PopThrottled, PopHead, PopTake, PopCount, Stop, Restart, inputVars
<1>6. CASE TimerWakeup \/ RequestExit \/ PeekHead \/ RewindBacklogAll
  BY <1>6, <1>k, SMTT(30) DEF TimerWakeup, RequestExit, PeekHead, RewindBacklogAll,
                    inputVars, outputVars
<1>7. ASSUME NEW n \in 1..(MaxMsgs + 1), AckBacklog(n) \/ RewindBacklog(n) PROVE RefCount'
  BY <1>7, <1>k, SMTT(30) DEF AckBacklog, RewindBacklog, inputVars, outputVars
<1>8. CASE Release
  <2>1. UNCHANGED cb /\ cpc = "stopped" /\ cpc' = "gone" /\ refs' = refs - 1
    BY <1>8 DEF Release, Unref
  <2> QED BY <2>1, <1>q, <1>f, SMTT(30) DEF RefCount, Holders
<1>9. CASE UNCHANGED vars
  BY <1>9, <1>k DEF vars, inputVars, outputVars
<1> QED
  BY <1>1, <1>2, <1>3, <1>4, <1>5, <1>6, <1>7, <1>8, <1>9, SMTT(30) DEF Next

\* The messages rewind_backlog puts back are as many as it takes off.
LEMMA RewindFacts ==
  ASSUME Inv, NEW n \in 1..(MaxMsgs + 1), RewindBacklog(n)
  PROVE  \E k, m \in Nat :
           /\ output'.len = output.len + k /\ queued' = queued + k
           /\ output'.nfc = output.nfc + m /\ h' = [h EXCEPT !.rewinds = @ + 1, !.rewound = @ + m]
<1> DEFINE s == backlog.items
           k == Min2(n, backlog.len)
           b == SubSeq(s, Len(s) - k + 1, Len(s))
<1>1. s \in Seq(Msg) /\ backlog.len = Len(s) /\ backlog.len \in Nat
  BY CQueueNat DEF Inv, QueuesCounted
<1>2. k \in 0..Len(s)
  BY <1>1, FifoAssumption, SMTT(30) DEF Min2
<1>3. /\ output' = [items |-> b \o output.items, len |-> output.len + Len(b),
                    nfc |-> output.nfc + NfcCount(b)]
      /\ queued' = queued + k
      /\ h' = [h EXCEPT !.rewinds = @ + 1, !.rewound = @ + NfcCount(b)]
  BY DEF RewindBacklog, PutBack
<1> HIDE DEF k
<1>4. k \in Nat /\ Len(s) - k \in 0..Len(s) /\ Len(s) - (Len(s) - k) = k
  BY <1>1, <1>2, SMTT(30)
<1>5. b \in Seq(Msg) /\ Len(b) = k
  BY <1>1, <1>4, SplitSeq
<1>6. NfcCount(b) \in Nat
  BY <1>5, NfcCountType, Zenon
<1> HIDE DEF b
<1>7. output'.len = output.len + k /\ output'.nfc = output.nfc + NfcCount(b)
  BY <1>3, <1>5, SMTT(30)
<1> QED BY <1>3, <1>4, <1>6, <1>7, ZenonT(30)

\* queued_messages follows the length of the queue.
LEMMA QueuedStep ==
  ASSUME Inv, [Next]_vars
  PROVE  QueuedCounter'
<1>q. TypeOK /\ Control /\ QueuedCounter
  BY SMTT(30) DEF Inv
<1>l. /\ wait.len \in Nat /\ output.len \in Nat /\ backlog.len \in Nat
      /\ queued \in Int /\ \A w \in Workers : inq[w].len \in Nat
  BY CQueueNat, SMTT(30) DEF Inv, QueuesCounted, TypeOK
<1>p. /\ pc \in [Threads -> {"idle", "dropping", "call", "relock", "finish"}]
      /\ Workers \subseteq Threads /\ Feeders \subseteq Threads
      /\ Workers \cap Feeders = {}
  BY <1>q, FifoAssumption DEF TypeOK, Threads
<1>f. IsFiniteSet(Uncounted) /\ Cardinality(Uncounted) \in Nat
  <2>1. Uncounted \in SUBSET Feeders
    BY DEF Uncounted
  <2>2. IsFiniteSet(Uncounted)
    BY <2>1, FS_Subset, FifoAssumption, SMTT(30)
  <2> QED BY <2>2, FS_CardinalityType
<1>k. ASSUME UNCHANGED queued, Uncounted' = Uncounted, Length' = Length,
             cpc' = "count" <=> cpc = "count"
      PROVE  QueuedCounter'
  BY <1>k, <1>q DEF QueuedCounter
<1>w. ASSUME NEW w \in Workers, NEW x, pc' = [pc EXCEPT ![w] = x]
      PROVE  Uncounted' = Uncounted
  BY <1>w, <1>p, SMTT(30) DEF Uncounted
<1>m. ASSUME output.len = 0, MoveWaitToOutput PROVE Length' = Length
  BY <1>m, <1>l, SMTT(30) DEF MoveWaitToOutput, Length, Empty
<1>r. ASSUME RewindAll, UNCHANGED <<wait, pc>>, cpc # "count", cpc' # "count"
      PROVE  QueuedCounter'
  <2>1. queued' = queued + backlog.len /\ Length' = Length + backlog.len
    BY <1>r, <1>l DEF RewindAll, Splice, Length
  <2>2. Uncounted' = Uncounted
    BY <1>r DEF Uncounted
  <2>3. Length \in Int
    BY <1>l DEF Length
  <2> HIDE DEF Length
  <2> QED BY <1>r, <2>1, <2>2, <2>3, <1>q, <1>l, <1>f, SMTT(30) DEF QueuedCounter
<1>z. ASSUME wait' = Empty, output' = Empty, queued' = 0, cpc' = "gone",
             \A f \in Feeders : pc'[f] = "idle"
      PROVE  QueuedCounter'
  <2>1. Uncounted' = {}
    BY <1>z DEF Uncounted
  <2>2. Length' = 0
    BY <1>z DEF Length, Empty
  <2> QED BY <1>z, <2>1, <2>2, FS_EmptySet, SMTT(30) DEF QueuedCounter
<1> USE DEF outputVars
<1>1. ASSUME NEW w \in Workers, NEW fc \in BOOLEAN, PushFast(w, fc) PROVE QueuedCounter'
  BY <1>1, <1>k DEF PushFast, Uncounted, Length
<1>2. ASSUME NEW f \in Feeders, NEW fc \in BOOLEAN, PushSlowDrop(f, fc) PROVE QueuedCounter'
  BY <1>2, <1>k DEF PushSlowDrop, Uncounted, Length
<1>3. ASSUME NEW f \in Feeders, NEW fc \in BOOLEAN, PushSlow(f, fc) PROVE QueuedCounter'
  <2>1. Length' = Length + 1 /\ cpc' = cpc /\ Length \in Int
    BY <1>3, <1>l, SMTT(30) DEF PushSlow, Length, AddTail
  <2>2. f \notin Uncounted
    BY <1>3 DEF PushSlow, CanPush, Uncounted
  <2>3. CASE notify
    <3>1. pc' = [pc EXCEPT ![f] = "call"] /\ queued' = queued
      BY <1>3, <2>3, <1>p DEF PushSlow, PushNotify
    <3>2. Uncounted' = Uncounted \cup {f}
      BY <3>1, <1>p DEF Uncounted
    <3>3. Cardinality(Uncounted') = Cardinality(Uncounted) + 1
      BY <3>2, <2>2, <1>f, FS_AddElement, ZenonT(30)
    <3> QED BY <2>1, <3>1, <3>3, <1>q, <1>l, <1>f, SMTT(30) DEF QueuedCounter
  <2>4. CASE ~notify
    <3>1. pc' = [pc EXCEPT ![f] = "idle"] /\ queued' = queued + 1
      BY <1>3, <2>4, <1>p, SMTT(30) DEF PushSlow, PushNotify
    <3>2. Uncounted' = Uncounted
      BY <3>1, <2>2, <1>p, SMTT(30) DEF Uncounted
    <3> QED BY <2>1, <3>1, <3>2, <1>q, <1>l, <1>f, SMTT(30) DEF QueuedCounter
  <2> QED BY <2>3, <2>4
<1>4. ASSUME NEW w \in Workers, WorkerStep(w) PROVE QueuedCounter'
  <2>1. CASE MoveInput(w)
    BY <2>1, <1>w, <1>k, ZenonT(30) DEF MoveInput, Length
  <2>2. CASE DropOne(w)
    BY <2>2, <1>k, SMTT(30) DEF DropOne, Length, Uncounted
  <2>3. CASE MoveInputSplice(w)
    <3>a. /\ queued' = queued + inq[w].len /\ cpc' = cpc /\ output' = output
          /\ wait' = Splice(wait, inq[w])
      BY <2>3, ZenonT(30) DEF MoveInputSplice
    <3>b. wait'.len = wait.len + inq[w].len
      BY <3>a, ZenonT(30) DEF Splice
    <3>c. output'.len = output.len
      BY <3>a, SMTT(30)
    <3>1. queued' = queued + inq[w].len /\ Length' = Length + inq[w].len /\ cpc' = cpc
      BY <3>a, <3>b, <3>c, <1>l, SMTT(30) DEF Length
    <3>2. Uncounted' = Uncounted
      BY <2>3, <1>w, ZenonT(30) DEF MoveInputSplice, PushNotify
    <3>3. Length \in Int
      BY <1>l DEF Length
    <3> QED BY <3>1, <3>2, <3>3, <1>q, <1>l, <1>f, SMTT(30) DEF QueuedCounter
  <2>4. CASE Call(w)
    BY <2>4, <1>w, <1>k, Zenon DEF Call, Length
  <2>5. CASE RelockWorker(w)
    BY <2>5, <1>w, <1>k, Zenon DEF RelockWorker, Length
  <2>6. CASE MoveInputFinish(w)
    <3>1. CASE refs = 1
      <4>1. cpc = "gone" /\ \A f \in Feeders : pc[f] = "idle"
        BY <2>6, <3>1, LastReference
      <4> QED BY <2>6, <3>1, <4>1, <1>z, <1>p, SMTT(30) DEF MoveInputFinish, Unref
    <3>2. CASE refs # 1
      BY <2>6, <3>2, <1>w, <1>k, Zenon DEF MoveInputFinish, Unref, Length
    <3> QED BY <3>1, <3>2
  <2> QED BY <1>4, <2>1, <2>2, <2>3, <2>4, <2>5, <2>6, SMTT(30) DEF WorkerStep
<1>5. ASSUME NEW f \in Feeders, FeederStep(f) PROVE QueuedCounter'
  <2>1. CASE Call(f)
    <3>1. Uncounted' = Uncounted
      BY <2>1, <1>p, SMTT(30) DEF Call, Uncounted
    <3> QED BY <2>1, <3>1, <1>k, SMTT(30) DEF Call, Length
  <2>2. CASE RelockFeeder(f)
    <3>1. /\ pc' = [pc EXCEPT ![f] = "idle"] /\ queued' = queued + 1
          /\ f \in Uncounted /\ cpc' = cpc /\ Length' = Length /\ Length \in Int
      BY <2>2, <1>l, SMTT(30) DEF RelockFeeder, Uncounted, Length
    <3>2. Uncounted' = Uncounted \ {f}
      BY <3>1, <1>p, SMTT(30) DEF Uncounted
    <3>3. Cardinality(Uncounted') = Cardinality(Uncounted) - 1
      BY <3>1, <3>2, <1>f, FS_RemoveElement, SMTT(30)
    <3> QED BY <3>1, <3>3, <1>q, <1>l, <1>f, SMTT(30) DEF QueuedCounter
  <2> QED BY <1>5, <2>1, <2>2, SMTT(30) DEF FeederStep
<1>6. CASE OutputStep
  <2>1. CASE Wakeup \/ CheckItemsEmpty \/ CheckItems \/ ThrottleTimeout \/ PopThrottled
    BY <2>1, <1>k, SMTT(30) DEF Wakeup, CheckItemsEmpty, CheckItems, ThrottleTimeout,
                      PopThrottled, Length, Uncounted
  <2>2. CASE PopHead
    <3>1. Length' = Length
      BY <2>2, <1>m, SMTT(30) DEF PopHead, Length
    <3> QED BY <2>2, <3>1, <1>k, SMTT(30) DEF PopHead, Uncounted
  <2>3. CASE PopTake
    <3>1. Length' = Length - 1 /\ Length \in Int
      BY <2>3, <1>l, SMTT(30) DEF PopTake, DelHead, Length
    <3>2. Uncounted' = Uncounted /\ cpc = "take" /\ cpc' = "count" /\ queued' = queued
      BY <2>3 DEF PopTake, Uncounted
    <3> QED BY <3>1, <3>2, <1>q, <1>l, <1>f, SMTT(30) DEF QueuedCounter
  <2>4. CASE PopCount
    <3>1. /\ Uncounted' = Uncounted /\ cpc = "count" /\ cpc' = "work"
          /\ queued' = queued - 1 /\ Length' = Length /\ Length \in Int
      BY <2>4, <1>l DEF PopCount, Uncounted, Length
    <3> QED BY <3>1, <1>q, <1>l, <1>f, SMTT(30) DEF QueuedCounter
  <2>5. CASE Stop \/ Restart
    BY <2>5, <1>r, SMTT(30) DEF Stop, Restart
  <2> QED BY <1>6, <2>1, <2>2, <2>3, <2>4, <2>5, SMTT(30) DEF OutputStep
<1>7. CASE TimerWakeup \/ RequestExit
  BY <1>7, <1>k, SMTT(30) DEF TimerWakeup, RequestExit, Length, Uncounted
<1>8. CASE PeekHead
  BY <1>8, <1>m, <1>k, SMTT(30) DEF PeekHead, Uncounted
<1>9. CASE RewindBacklogAll
  BY <1>9, <1>r DEF RewindBacklogAll
<1>10. ASSUME NEW n \in 1..(MaxMsgs + 1), AckBacklog(n) PROVE QueuedCounter'
  BY <1>10, <1>k, SMTT(30) DEF AckBacklog, Length, Uncounted
<1>11. ASSUME NEW n \in 1..(MaxMsgs + 1), RewindBacklog(n) PROVE QueuedCounter'
  <2>1. PICK k \in Nat : output'.len = output.len + k /\ queued' = queued + k
    BY <1>11, RewindFacts, Zenon
  <2>2. Uncounted' = Uncounted /\ cpc' = cpc /\ wait' = wait
    BY <1>11, SMTT(30) DEF RewindBacklog, Uncounted
  <2>3. Length' = Length + k /\ Length \in Int
    BY <2>1, <2>2, <1>l, SMTT(30) DEF Length
  <2> QED BY <2>1, <2>2, <2>3, <1>q, <1>l, <1>f, SMTT(30) DEF QueuedCounter
<1>12. CASE Release
  <2>1. CASE refs = 1
    BY <1>12, <2>1, <1>z DEF Release, Unref
  <2>2. CASE refs # 1
    BY <1>12, <2>2, <1>k, SMTT(30) DEF Release, Unref, Length, Uncounted
  <2> QED BY <2>1, <2>2
<1>13. CASE UNCHANGED vars
  BY <1>13, <1>k, SMTT(30) DEF vars, Length, Uncounted
<1> QED
  BY <1>1, <1>2, <1>3, <1>4, <1>5, <1>6, <1>7, <1>8, <1>9, <1>10, <1>11, <1>12,
     <1>13, SMTT(30) DEF Next

\* Whoever ends the emptiness of the queue takes the callback.
LEMMA WakeupStep ==
  ASSUME Inv, [Next]_vars
  PROVE  NoLostWakeup'
<1>q. TypeOK /\ Control /\ NoLostWakeup
  BY DEF Inv
<1>p. /\ pc \in [Threads -> {"idle", "dropping", "call", "relock", "finish"}]
      /\ Workers \subseteq Threads /\ Feeders \subseteq Threads
  BY <1>q DEF TypeOK, Threads
<1>n. ASSUME NEW t \in Threads, NEW rest, PushNotify(t, rest), pc[t] # "call",
             UNCHANGED <<cpc, posted, terminating>>
      PROVE  NoLostWakeup'
  <2>1. CASE notify
    <3>1. pc'[t] = "call"
      BY <1>n, <2>1, <1>p, SMTT(30) DEF PushNotify
    <3> QED BY <3>1 DEF NoLostWakeup
  <2>2. CASE ~notify
    <3>1. \A u \in Threads : u # t => pc'[u] = pc[u]
      BY <1>n, <1>p, SMTT(30) DEF PushNotify
    <3>2. \A u \in Threads : pc[u] = "call" => pc'[u] = "call"
      BY <3>1, <1>n, SMTT(30)
    <3> QED BY <1>n, <2>2, <3>2, <1>q, SMTT(30) DEF NoLostWakeup
  <2> QED BY <2>1, <2>2
<1>k. ASSUME UNCHANGED <<cpc, posted, terminating, notify>>, Length' = Length,
             \A t \in Threads : pc[t] = "call" => pc'[t] = "call"
      PROVE  NoLostWakeup'
  BY <1>k, <1>q DEF NoLostWakeup
<1>a. ASSUME cpc' # "asleep" PROVE NoLostWakeup'
  BY <1>a DEF NoLostWakeup
<1>c. ASSUME NEW t \in Threads, Call(t) PROVE NoLostWakeup'
  BY <1>c, <1>q, Zenon DEF Call, NoLostWakeup, TypeOK
<1> USE DEF outputVars, wakeVars
<1>1. ASSUME NEW w \in Workers, NEW fc \in BOOLEAN, PushFast(w, fc) PROVE NoLostWakeup'
  BY <1>1, <1>k DEF PushFast, Length
<1>2. ASSUME NEW f \in Feeders, NEW fc \in BOOLEAN, PushSlowDrop(f, fc) PROVE NoLostWakeup'
  BY <1>2, <1>k DEF PushSlowDrop, Length
<1>3. ASSUME NEW f \in Feeders, NEW fc \in BOOLEAN, PushSlow(f, fc) PROVE NoLostWakeup'
  BY <1>3, <1>n, <1>p, SMTT(30) DEF PushSlow, CanPush
<1>4. ASSUME NEW w \in Workers, WorkerStep(w) PROVE NoLostWakeup'
  <2>1. CASE MoveInput(w)
    BY <2>1, <1>k, <1>p, SMTT(30) DEF MoveInput, Length
  <2>2. CASE DropOne(w)
    BY <2>2, <1>k, SMTT(30) DEF DropOne, Length
  <2>3. CASE MoveInputSplice(w)
    BY <2>3, <1>n, <1>p, SMTT(30) DEF MoveInputSplice
  <2>4. CASE Call(w)
    BY <2>4, <1>c, <1>p, SMTT(30)
  <2>5. CASE RelockWorker(w)
    BY <2>5, <1>k, <1>p, SMTT(30) DEF RelockWorker, Length
  <2>6. CASE MoveInputFinish(w)
    <3>1. CASE refs = 1
      BY <2>6, <3>1, <1>a, LastReference, ZenonT(30) DEF MoveInputFinish
    <3>2. CASE refs # 1
      BY <2>6, <3>2, <1>k, <1>p, SMTT(30) DEF MoveInputFinish, Unref, Length
    <3> QED BY <3>1, <3>2
  <2> QED BY <1>4, <2>1, <2>2, <2>3, <2>4, <2>5, <2>6 DEF WorkerStep
<1>5. ASSUME NEW f \in Feeders, FeederStep(f) PROVE NoLostWakeup'
  <2>1. CASE Call(f)
    BY <2>1, <1>c, <1>p, SMTT(30)
  <2>2. CASE RelockFeeder(f)
    BY <2>2, <1>k, <1>p DEF RelockFeeder, Length
  <2> QED BY <1>5, <2>1, <2>2 DEF FeederStep
<1>6. CASE OutputStep
  <2>1. CASE CheckItemsEmpty
    BY <2>1 DEF CheckItemsEmpty, NoLostWakeup, Length
  <2>2. CASE CheckItems
    BY <2>2, <1>a DEF CheckItems
  <2>3. CASE Wakeup \/ ThrottleTimeout \/ PopThrottled \/ PopTake \/ PopCount \/ Stop
             \/ Restart
    BY <2>3, <1>a DEF Wakeup, ThrottleTimeout, PopThrottled, PopTake, PopCount,
                      Stop, Restart
  <2>4. CASE PopHead
    BY <2>4, <1>a DEF PopHead
  <2> QED BY <1>6, <2>1, <2>2, <2>3, <2>4, SMTT(30) DEF OutputStep
<1>7. CASE RequestExit
  BY <1>7 DEF RequestExit, NoLostWakeup
<1>8. CASE TimerWakeup \/ PeekHead \/ RewindBacklogAll \/ Release
  BY <1>8, <1>a DEF TimerWakeup, PeekHead, RewindBacklogAll, Release
<1>9. ASSUME NEW n \in 1..(MaxMsgs + 1), AckBacklog(n) \/ RewindBacklog(n)
      PROVE  NoLostWakeup'
  BY <1>9, <1>a, SMTT(30) DEF AckBacklog, RewindBacklog
<1>10. CASE UNCHANGED vars
  BY <1>10, <1>k, SMTT(30) DEF vars, Length
<1> QED
  BY <1>1, <1>2, <1>3, <1>4, <1>5, <1>6, <1>7, <1>8, <1>9, <1>10, SMTT(30) DEF Next

\* Dropping makes room for what is spliced.
LEMMA BoundStep ==
  ASSUME Inv, [Next]_vars
  PROVE  DropBound'
<1> DEFINE N == NonFlowControlledLength
<1>q. TypeOK /\ Control /\ DropBound /\ QueuesCounted
  BY SMTT(30) DEF Inv
<1>l. /\ wait.nfc \in Nat /\ output.nfc \in Nat /\ backlog.nfc \in Nat
      /\ output.len = 0 => output.nfc = 0
      /\ N \in Nat /\ FifoSize \in Nat /\ h.rewound \in Nat
      /\ \A w \in Workers : inq[w].nfc \in Nat /\ todrop[w] \in Nat
  BY <1>q, CQueueNat, FifoAssumption, SMTT(30)
     DEF QueuesCounted, NonFlowControlledLength, TypeOK, History, Control
<1>p. /\ pc \in [Threads -> {"idle", "dropping", "call", "relock", "finish"}]
      /\ Workers \subseteq Threads /\ Feeders \subseteq Threads
      /\ Workers \cap Feeders = {}
  BY <1>q, FifoAssumption DEF TypeOK, Threads
<1>h. h \in History
  BY <1>q DEF TypeOK
<1>k. ASSUME N' \in Nat, N' <= N, h'.truncated = h.truncated, h'.rewound = h.rewound,
             \A w \in Workers : pc'[w] = "dropping" =>
               pc[w] = "dropping" /\ inq'[w] = inq[w] /\ todrop'[w] = todrop[w]
      PROVE  DropBound'
  <2> HIDE DEF N
  <2>1. CASE h.truncated
    BY <1>k, <2>1, SMTT(30) DEF DropBound
  <2>2. CASE ~h.truncated
    <3>1. N <= FifoSize + h.rewound
      BY <2>2, <1>q, SMTT(30) DEF DropBound, N
    <3>2. ASSUME NEW w \in Workers, pc'[w] = "dropping"
          PROVE  N' + inq'[w].nfc - todrop'[w] <= FifoSize + h'.rewound
      <4>1. N + inq[w].nfc - todrop[w] <= FifoSize + h.rewound
        BY <2>2, <3>2, <1>q, <1>k, SMTT(30) DEF DropBound, N
      <4> QED BY <4>1, <3>2, <1>k, <1>l, SMTT(30)
    <3> QED BY <3>1, <3>2, <1>k, <1>l, SMTT(30) DEF DropBound, N
  <2> QED BY <2>1, <2>2, SMTT(30)
<1>a. ASSUME NEW m \in Nat, N' = N + m, h'.truncated = h.truncated,
             h'.rewound = h.rewound + m, UNCHANGED <<pc, inq, todrop>>
      PROVE  DropBound'
  <2> HIDE DEF N
  <2>1. CASE h.truncated
    BY <1>a, <2>1, SMTT(30) DEF DropBound
  <2>2. CASE ~h.truncated
    <3>1. N <= FifoSize + h.rewound
      BY <2>2, <1>q, SMTT(30) DEF DropBound, N
    <3>2. ASSUME NEW w \in Workers, pc[w] = "dropping"
          PROVE  N + inq[w].nfc - todrop[w] <= FifoSize + h.rewound
      BY <2>2, <3>2, <1>q, SMTT(30) DEF DropBound, N
    <3> QED BY <3>1, <3>2, <1>a, <1>l, SMTT(30) DEF DropBound, N
  <2> QED BY <2>1, <2>2, SMTT(30)
<1>r. ASSUME RewindAll, UNCHANGED <<wait, pc, inq, todrop>>,
             h'.truncated = h.truncated, h'.rewound = h.rewound + backlog.nfc
      PROVE  DropBound'
  <2>1. N' = N + backlog.nfc
    BY <1>r, <1>l, SMTT(30) DEF RewindAll, Splice, NonFlowControlledLength
  <2> HIDE DEF N
  <2> QED BY <1>r, <2>1, <1>a, <1>l, SMTT(30)
<1>m. ASSUME output.len = 0, MoveWaitToOutput PROVE N' = N
  BY <1>m, <1>l, SMTT(30) DEF MoveWaitToOutput, NonFlowControlledLength, Empty
<1>u. ASSUME Unref PROVE N' \in Nat /\ N' <= N /\ h'.truncated = h.truncated
                         /\ h'.rewound = h.rewound
  <2>1. CASE refs = 1
    <3>1. N' = 0
      BY <1>u, <2>1 DEF Unref, NonFlowControlledLength, Empty
    <3>2. h'.truncated = h.truncated /\ h'.rewound = h.rewound
      BY <1>u, <2>1, <1>h, SMTT(30) DEF Unref, History
    <3> QED BY <3>1, <3>2, <1>l, SMTT(30)
  <2>2. CASE refs # 1
    BY <1>u, <2>2, <1>l, SMTT(30) DEF Unref, NonFlowControlledLength
  <2> QED BY <2>1, <2>2, SMTT(30)
<1>1. ASSUME NEW w \in Workers, NEW fc \in BOOLEAN, PushFast(w, fc) PROVE DropBound'
  <2>1. N' = N /\ UNCHANGED <<pc, todrop>>
    BY <1>1 DEF PushFast, NonFlowControlledLength
  <2>2. h'.truncated = h.truncated /\ h'.rewound = h.rewound
    BY <1>1, <1>h DEF PushFast, History
  <2>3. \A v \in Workers : pc[v] = "dropping" => inq'[v] = inq[v]
    BY <1>1, <1>q, SMTT(30) DEF PushFast, CanPush, TypeOK
  <2> QED BY <2>1, <2>2, <2>3, <1>k, <1>l, SMTT(30)
<1>2. ASSUME NEW f \in Feeders, NEW fc \in BOOLEAN, PushSlowDrop(f, fc) PROVE DropBound'
  <2>1. N' = N /\ UNCHANGED <<pc, inq, todrop>>
    BY <1>2 DEF PushSlowDrop, NonFlowControlledLength, inputVars
  <2>2. h'.truncated = h.truncated /\ h'.rewound = h.rewound
    BY <1>2, <1>h DEF PushSlowDrop, History
  <2> QED BY <2>1, <2>2, <1>k, <1>l, SMTT(30)
<1>3. ASSUME NEW f \in Feeders, NEW fc \in BOOLEAN, PushSlow(f, fc) PROVE DropBound'
  <2>1. N' = N + (IF fc THEN 0 ELSE 1)
    BY <1>3, <1>l DEF PushSlow, NonFlowControlledLength, AddTail, NewMsg, Nfc
  <2>2. h'.truncated = h.truncated /\ h'.rewound = h.rewound
    BY <1>3, <1>h DEF PushSlow, History
  <2>3. \A w \in Workers : pc[w] # "dropping" /\ pc'[w] # "dropping"
    <3>1. \A w \in Workers : pc[w] # "dropping"
      BY <1>3, <1>q, FifoAssumption DEF PushSlow, Control
    <3> QED BY <1>3, <3>1, <1>p DEF PushSlow, PushNotify
  <2>4. fc \/ N < FifoSize
    BY <1>3, <1>l DEF PushSlow, MessageHasToBeDropped
  <2>5. h.truncated \/ N <= FifoSize + h.rewound
    BY <1>q DEF DropBound
  <2> HIDE DEF N
  <2>6. h.truncated \/ N' <= FifoSize + h.rewound
    BY <2>1, <2>4, <2>5, <1>l
  <2> QED BY <2>2, <2>3, <2>6, Zenon DEF DropBound, N
<1>4. ASSUME NEW w \in Workers, WorkerStep(w) PROVE DropBound'
  <2>1. CASE MoveInput(w)
    <3>1. N' = N /\ h'.rewound = h.rewound /\ UNCHANGED inq
      BY <2>1, <1>h DEF MoveInput, NonFlowControlledLength, History
    <3>2. h'.truncated = (h.truncated \/ inq[w].nfc >= Uint16Mod)
      BY <2>1, <1>h, SMTT(30) DEF MoveInput, History
    <3>3. CASE h'.truncated
      BY <3>3, SMTT(30) DEF DropBound
    <3>4. CASE ~h'.truncated
      <4>0. ~h.truncated /\ ~(inq[w].nfc >= Uint16Mod)
        BY <3>2, <3>4, Zenon
      <4>1. ~h.truncated /\ inq[w].nfc < Uint16Mod
        BY <4>0, <1>l, FifoAssumption, SMTT(30)
      <4>2. InputQueueLen(w) = inq[w].nfc
        BY <4>1, <1>l, FifoAssumption, SMTT(30) DEF InputQueueLen
      <4>3. N <= FifoSize + h.rewound
        BY <4>1, <1>q, SMTT(30) DEF DropBound
      <4>4. N + inq[w].nfc - NumOfMessagesToDrop(w) <= FifoSize + h.rewound
        BY <4>2, <4>3, <1>l, SMTT(30) DEF NumOfMessagesToDrop, Max2
      <4>5. todrop'[w] = NumOfMessagesToDrop(w)
        BY <2>1, <1>q DEF MoveInput, TypeOK
      <4>6. \A v \in Workers : v # w => pc'[v] # "dropping"
        BY <2>1, <1>q, <1>p, FifoAssumption, SMTT(30) DEF MoveInput, Control
      <4> HIDE DEF N
      <4> QED BY <3>1, <4>3, <4>4, <4>5, <4>6, SMTT(30) DEF DropBound, N
    <3> QED BY <3>3, <3>4
  <2>2. CASE DropOne(w)
    <3>1. PICK i \in DOMAIN inq[w].items :
            /\ inq' = [inq EXCEPT ![w] =
                  [items |-> SubSeq(inq[w].items, 1, i - 1)
                               \o SubSeq(inq[w].items, i + 1, Len(inq[w].items)),
                   len |-> inq[w].len - 1, nfc |-> inq[w].nfc - 1]]
            /\ h' = [h EXCEPT !.dropped = @ \cup {inq[w].items[i].id}]
      BY <2>2, Zenon DEF DropOne
    <3>2. h'.truncated = h.truncated /\ h'.rewound = h.rewound
      BY <3>1, <1>h, SMTT(30) DEF History
    <3>3. inq'[w].nfc = inq[w].nfc - 1 /\ \A v \in Workers : v # w => inq'[v] = inq[v]
      BY <3>1, <1>q, SMTT(30) DEF TypeOK
    <3>4. todrop'[w] = todrop[w] - 1 /\ \A v \in Workers : v # w => todrop'[v] = todrop[v]
      BY <2>2, <1>q, SMTT(30) DEF DropOne, TypeOK
    <3>5. N' = N /\ UNCHANGED pc
      BY <2>2, SMTT(30) DEF DropOne, NonFlowControlledLength
    <3> HIDE DEF N
    <3>6. \A v \in Workers : N' + inq'[v].nfc - todrop'[v] = N + inq[v].nfc - todrop[v]
      BY <3>3, <3>4, <3>5, <1>l, SMTT(30)
    <3> QED BY <3>2, <3>5, <3>6, <1>q DEF DropBound, N
  <2>3. CASE MoveInputSplice(w)
    <3>1. N' = N + inq[w].nfc /\ UNCHANGED h /\ todrop[w] = 0 /\ pc[w] = "dropping"
      BY <2>3, <1>l, SMTT(30) DEF MoveInputSplice, NonFlowControlledLength, Splice
    <3>2. \A v \in Workers : pc'[v] # "dropping"
      BY <2>3, <1>q, <1>p, Zenon DEF MoveInputSplice, PushNotify, Control
    <3> HIDE DEF N
    <3>3. h.truncated \/ N + inq[w].nfc - todrop[w] <= FifoSize + h.rewound
      BY <3>1, <1>q, ZenonT(30) DEF DropBound, N
    <3>4. h.truncated \/ N' <= FifoSize + h.rewound
      BY <3>1, <3>3, <1>l, SMTT(30)
    <3> QED BY <3>1, <3>2, <3>4, SMTT(30) DEF DropBound, N
  <2>4. CASE Call(w) \/ RelockWorker(w)
    <3>1. N' = N /\ UNCHANGED <<h, inq, todrop>>
      BY <2>4, SMTT(30) DEF Call, RelockWorker, NonFlowControlledLength, inputVars
    <3>2. \A v \in Workers : pc'[v] = "dropping" => pc[v] = "dropping"
      BY <2>4, <1>p, SMTT(30) DEF Call, RelockWorker
    <3> QED BY <3>1, <3>2, <1>k, <1>l, SMTT(30)
  <2>5. CASE MoveInputFinish(w)
    <3>1. Unref /\ UNCHANGED todrop
      BY <2>5 DEF MoveInputFinish
    <3>2. \A v \in Workers : pc'[v] = "dropping" => pc[v] = "dropping"
      BY <2>5, <1>p, SMTT(30) DEF MoveInputFinish
    <3>3. CASE refs = 1
      <4>1. N' = 0
        BY <3>1, <3>3 DEF Unref, NonFlowControlledLength, Empty
      <4>2. \A v \in Workers : inq'[v].nfc = 0
        BY <3>1, <3>3, SMTT(30) DEF Unref, Empty
      <4>3. \A v \in Workers : todrop'[v] \in Nat
        BY <3>1, <1>l
      <4>4. h'.rewound = h.rewound
        BY <3>1, <1>u, SMTT(30)
      <4> HIDE DEF N
      <4> QED BY <4>1, <4>2, <4>3, <4>4, <1>l, SMTT(30) DEF DropBound, N
    <3>4. CASE refs # 1
      <4>1. UNCHANGED inq
        BY <3>1, <3>4, SMTT(30) DEF Unref
      <4> QED BY <3>1, <3>2, <4>1, <1>k, <1>u, SMTT(30)
    <3> QED BY <3>3, <3>4
  <2> QED BY <1>4, <2>1, <2>2, <2>3, <2>4, <2>5, SMTT(30) DEF WorkerStep
<1>5. ASSUME NEW f \in Feeders, FeederStep(f) PROVE DropBound'
  <2>1. N' = N /\ UNCHANGED <<h, inq, todrop>>
    BY <1>5, SMTT(30) DEF FeederStep, Call, RelockFeeder, NonFlowControlledLength, inputVars
  <2>2. \A v \in Workers : pc'[v] = "dropping" => pc[v] = "dropping"
    BY <1>5, <1>p DEF FeederStep, Call, RelockFeeder
  <2> QED BY <2>1, <2>2, <1>k, <1>l, SMTT(30)
<1>6. CASE OutputStep
  <2>1. CASE Wakeup \/ CheckItemsEmpty \/ CheckItems \/ ThrottleTimeout \/ PopThrottled
             \/ PopCount
    <3>1. N' = N /\ UNCHANGED <<h, pc, inq, todrop>>
      BY <2>1, ZenonT(30) DEF Wakeup, CheckItemsEmpty, CheckItems, ThrottleTimeout, PopThrottled,
                  PopCount, NonFlowControlledLength, inputVars
    <3> QED BY <3>1, <1>k, <1>l, SMTT(30)
  <2>2. CASE PopHead
    <3>1. N' = N /\ UNCHANGED <<h, pc, inq, todrop>>
      BY <2>2, <1>m, SMTT(30) DEF PopHead, inputVars, NonFlowControlledLength
    <3> QED BY <3>1, <1>k, <1>l
  <2>3. CASE PopTake
    <3>1. UNCHANGED <<h, pc, inq, todrop, wait>> /\ output' = DelHead(output)
      BY <2>3 DEF PopTake, inputVars
    <3>2. output' \in CQueue
      BY QueuesStep, SMTT(30) DEF QueuesCounted
    <3>3. output'.nfc \in Nat
      BY <3>2, CQueueNat, SMTT(30)
    <3>4. output'.nfc <= output.nfc
      BY <3>1, <1>l, SMTT(30) DEF DelHead, Nfc
    <3>5. N' \in Nat /\ N' <= N
      BY <3>1, <3>3, <3>4, <1>l, SMTT(30) DEF NonFlowControlledLength
    <3> QED BY <3>1, <3>5, <1>k, SMTT(30)
  <2>4. CASE Stop
    <3>1. h'.truncated = h.truncated /\ h'.rewound = h.rewound + backlog.nfc
      BY <2>4, <1>h, SMTT(30) DEF Stop, NoteRewindAll, History
    <3> QED BY <2>4, <3>1, <1>r DEF Stop, inputVars
  <2>5. CASE Restart
    <3>1. h'.truncated = h.truncated /\ h'.rewound = h.rewound + backlog.nfc
      BY <2>5, <1>h, SMTT(30) DEF Restart, NoteRewindAll, History
    <3> QED BY <2>5, <3>1, <1>r, SMTT(30) DEF Restart, inputVars
  <2> QED BY <1>6, <2>1, <2>2, <2>3, <2>4, <2>5, SMTT(30) DEF OutputStep
<1>7. CASE TimerWakeup \/ RequestExit
  <2>1. N' = N /\ UNCHANGED <<h, pc, inq, todrop>>
    BY <1>7, SMTT(30) DEF TimerWakeup, RequestExit, NonFlowControlledLength, inputVars
  <2> QED BY <2>1, <1>k, <1>l
<1>8. CASE PeekHead
  <2>1. N' = N /\ UNCHANGED <<h, pc, inq, todrop>>
    BY <1>8, <1>m DEF PeekHead, inputVars
  <2> QED BY <2>1, <1>k, <1>l
<1>9. CASE RewindBacklogAll
  <2>1. h'.truncated = h.truncated /\ h'.rewound = h.rewound + backlog.nfc
    BY <1>9, <1>h, SMTT(30) DEF RewindBacklogAll, NoteRewindAll, History
  <2> QED BY <1>9, <2>1, <1>r, SMTT(30) DEF RewindBacklogAll, inputVars
<1>10. ASSUME NEW n \in 1..(MaxMsgs + 1), AckBacklog(n) PROVE DropBound'
  <2>1. N' = N /\ UNCHANGED <<pc, inq, todrop>>
    BY <1>10 DEF AckBacklog, NonFlowControlledLength, inputVars
  <2>2. h'.truncated = h.truncated /\ h'.rewound = h.rewound
    BY <1>10, <1>h, SMTT(30) DEF AckBacklog, History
  <2> QED BY <2>1, <2>2, <1>k, <1>l, SMTT(30)
<1>11. ASSUME NEW n \in 1..(MaxMsgs + 1), RewindBacklog(n) PROVE DropBound'
  <2>1. PICK m \in Nat : /\ output'.nfc = output.nfc + m
                         /\ h' = [h EXCEPT !.rewinds = @ + 1, !.rewound = @ + m]
    BY <1>11, RewindFacts, Zenon
  <2>2. UNCHANGED <<wait, pc, inq, todrop>>
    BY <1>11 DEF RewindBacklog, inputVars
  <2>3. h'.truncated = h.truncated /\ h'.rewound = h.rewound + m
    BY <2>1, <1>h DEF History
  <2>4. N' = N + m
    BY <2>1, <2>2, <1>l, SMTT(30) DEF NonFlowControlledLength
  <2> QED BY <2>2, <2>3, <2>4, <1>a, SMTT(30)
<1>12. CASE Release
  <2>1. \A w \in Workers : todrop'[w] \in Nat /\ pc'[w] = pc[w] /\ todrop'[w] = todrop[w]
    BY <1>12, <1>l, SMTT(30) DEF Release
  <2>2. CASE refs = 1
    <3>1. N' = 0 /\ (\A v \in Workers : inq'[v].nfc = 0)
      BY <1>12, <2>2, SMTT(30) DEF Release, Unref, NonFlowControlledLength, Empty
    <3>2. h'.rewound = h.rewound
      BY <1>12, <1>u, SMTT(30) DEF Release
    <3> HIDE DEF N
    <3> QED BY <2>1, <3>1, <3>2, <1>l, SMTT(30) DEF DropBound, N
  <2>3. CASE refs # 1
    <3>1. UNCHANGED inq
      BY <1>12, <2>3, SMTT(30) DEF Release, Unref
    <3> QED BY <1>12, <2>1, <3>1, <1>k, <1>u, SMTT(30) DEF Release
  <2> QED BY <2>2, <2>3
<1>13. CASE UNCHANGED vars
  <2>1. N' = N /\ UNCHANGED <<h, pc, inq, todrop>>
    BY <1>13 DEF vars, NonFlowControlledLength, inputVars
  <2> QED BY <2>1, <1>k, <1>l
<1> QED
  BY <1>1, <1>2, <1>3, <1>4, <1>5, <1>6, <1>7, <1>8, <1>9, <1>10, <1>11, <1>12,
     <1>13 DEF Next

-----------------------------------------------------------------------------
\* A new queue satisfies the invariant.
LEMMA InitInv == Init => Inv
<1> SUFFICES ASSUME Init PROVE Inv
  OBVIOUS
<1>e. Empty \in CQueue /\ Empty \in Queue
  BY EmptyCQueue, SMTT(30) DEF CQueue
<1>1. QueuesCounted
  BY <1>e, SMTT(30) DEF Init, QueuesCounted
<1>2. h \in History
  BY DEF Init, History
<1>3. TypeOK
  <2>1. /\ inq \in [Workers -> Queue] /\ cb \in [Workers -> BOOLEAN]
        /\ todrop \in [Workers -> Int] /\ refs \in Nat
    BY <1>e, SMTT(30) DEF Init
  <2>2. pc \in [Threads -> {"idle", "dropping", "call", "relock", "finish"}]
    BY SMTT(30) DEF Init
  <2>3. buckets \in 0..Throttle /\ queued \in Int /\ inhand \in Msg \cup {NoMsg}
    BY FifoAssumption, SMTT(30) DEF Init
  <2> QED BY <1>e, <1>2, <2>1, <2>2, <2>3, ZenonT(30) DEF Init, TypeOK
<1>4. Control
  BY FifoAssumption, SMTT(30) DEF Init, Control, Threads
<1>5. RefCount
  <2>1. Holders = {}
    BY DEF Init, Holders
  <2>2. Cardinality(Holders) = 0
    BY <2>1, FS_EmptySet
  <2> QED BY <2>2, SMTT(30) DEF Init, RefCount
<1>6. QueuedCounter
  <2>1. Uncounted = {}
    BY SMTT(30) DEF Init, Uncounted, Threads
  <2>2. queued = 0 /\ cpc = "awake" /\ wait.len = 0 /\ output.len = 0
    BY DEF Init, Empty
  <2>3. Cardinality(Uncounted) = 0
    BY <2>1, FS_EmptySet, SMTT(30)
  <2> QED BY <2>2, <2>3, SMTT(30) DEF QueuedCounter, Length
<1>7. NoLostWakeup
  BY SMTT(30) DEF Init, NoLostWakeup
<1>8. DropBound
  <2>1. wait.nfc = 0 /\ output.nfc = 0 /\ h.rewound = 0
    BY SMTT(30) DEF Init, Empty
  <2>2. \A w \in Workers : pc[w] # "dropping"
    BY DEF Init, Threads
  <2> QED BY <2>1, <2>2, FifoAssumption, SMTT(30) DEF DropBound, NonFlowControlledLength
<1> QED BY <1>1, <1>3, <1>4, <1>5, <1>6, <1>7, <1>8, SMTT(30) DEF Inv

\* Inv is an invariant of the queue.
THEOREM Invariance == Spec => []Inv
<1>1. Inv /\ [Next]_vars => Inv'
  BY QueuesStep, TypeStep, ControlStep, RefStep, QueuedStep, WakeupStep, BoundStep, SMTT(30) DEF Inv
<1> QED BY InitInv, <1>1, PTL DEF Spec

\* Every variable of the queue keeps its type.
THEOREM TypeCorrect == Spec => []TypeOK
<1>1. Inv => TypeOK
  BY DEF Inv
<1> QED BY <1>1, Invariance, PTL

\* The lengths kept beside the lists are the lengths of the lists.
THEOREM LengthsMatchHolds == Spec => []LengthsMatch
<1>1. Inv => LengthsMatch
  <2> SUFFICES ASSUME Inv PROVE LengthsMatch
    OBVIOUS
  <2>1. \A q \in CQueue : Counted(q)
    BY DEF CQueue
  <2> QED BY <2>1 DEF Inv, QueuesCounted, LengthsMatch
<1> QED BY <1>1, Invariance, PTL

\* queued_messages is exact up to the pushes and the pop under way.
THEOREM QueuedCounterHolds == Spec => []QueuedCounter
<1>1. Inv => QueuedCounter
  BY DEF Inv
<1> QED BY <1>1, Invariance, PTL

\* The output thread never sleeps on a non-empty queue without being woken.
THEOREM NoLostWakeupHolds == Spec => []NoLostWakeup
<1>1. Inv => NoLostWakeup
  BY SMTT(30) DEF Inv
<1> QED BY <1>1, Invariance, PTL

\* log_fifo_size is kept up to rewound messages and guint16 overflow.
THEOREM FifoSizeBoundHolds == Spec => []FifoSizeBound
<1>1. Inv => FifoSizeBound
  BY DEF Inv, DropBound, FifoSizeBound
<1> QED BY <1>1, Invariance, PTL

\* When the queue is freed no thread has a batch or a callback left in it.
THEOREM FreedWhenUnusedHolds == Spec => []FreedWhenUnused
<1>1. Inv => FreedWhenUnused
  <2> SUFFICES ASSUME Inv, refs = 0, NEW w \in Workers
               PROVE  ~cb[w] /\ pc[w] = "idle" /\ inq[w] = Empty
    BY DEF FreedWhenUnused
  <2>1. ~cb[w]
    BY HoldersFacts
  <2> QED BY <2>1, Zenon DEF Inv, Control
<1> QED BY <1>1, Invariance, PTL

\* is_empty_racy is right when it says empty.
THEOREM EmptyMeansEmptyHolds == Spec => []EmptyMeansEmpty
<1>1. Inv => EmptyMeansEmpty
  <2> SUFFICES ASSUME Inv, IsEmptyRacy
               PROVE  wait.items = <<>> /\ output.items = <<>>
                      /\ \A w \in Workers : inq[w].items = <<>>
    BY DEF EmptyMeansEmpty
  <2>1. wait \in CQueue /\ output \in CQueue
    BY DEF Inv, QueuesCounted
  <2>2. wait.len = 0 /\ output.len = 0
    BY <2>1, CQueueNat, SMTT(30) DEF IsEmptyRacy, Length
  <2>3. \A w \in Workers : inq[w] = Empty
    BY DEF IsEmptyRacy, Inv, Control
  <2> QED BY <2>1, <2>2, <2>3, CQueueNat, Zenon DEF Empty
<1> QED BY <1>1, Invariance, PTL

-----------------------------------------------------------------------------
(* Lists of messages: whose ids they hold, that no id is there twice, and  *)
(* that the messages of each thread are in the order they were pushed.     *)

Distinct(s) == \A i, j \in DOMAIN s : s[i].id = s[j].id => i = j

Before(s, t) ==
  \A i \in DOMAIN s, j \in DOMAIN t : s[i].from = t[j].from => s[i].id < t[j].id

Sorted(s) ==
  \A i, j \in DOMAIN s : (i < j /\ s[i].from = s[j].from) => s[i].id < s[j].id

\* The positions of a concatenation are those of its two lists.
LEMMA ConcatPositions ==
  ASSUME NEW s \in Seq(Msg), NEW t \in Seq(Msg)
  PROVE  /\ s \o t \in Seq(Msg) /\ Len(s \o t) = Len(s) + Len(t)
         /\ Len(s) \in Nat /\ Len(t) \in Nat
         /\ \A i \in DOMAIN s : /\ i \in DOMAIN (s \o t) /\ (s \o t)[i] = s[i]
                                /\ i \in Nat /\ i <= Len(s)
         /\ \A j \in DOMAIN t : /\ Len(s) + j \in DOMAIN (s \o t)
                                /\ (s \o t)[Len(s) + j] = t[j]
                                /\ j \in Nat /\ j > 0
         /\ \A k \in DOMAIN (s \o t) :
              k \in DOMAIN s \/ \E j \in DOMAIN t : k = Len(s) + j
<1>1. /\ Len(s) \in Nat /\ DOMAIN s = 1..Len(s)
      /\ Len(t) \in Nat /\ DOMAIN t = 1..Len(t)
  BY LenFacts
<1>2. /\ s \o t \in Seq(Msg) /\ Len(s \o t) = Len(s) + Len(t)
      /\ \A i \in 1..(Len(s) + Len(t)) :
           (s \o t)[i] = IF i <= Len(s) THEN s[i] ELSE t[i - Len(s)]
  BY ConcatFacts
<1>3. DOMAIN (s \o t) = 1..(Len(s) + Len(t))
  BY <1>2, LenFacts
<1>4. \A i \in DOMAIN s : /\ i \in DOMAIN (s \o t) /\ (s \o t)[i] = s[i]
                          /\ i \in Nat /\ i <= Len(s)
  BY <1>1, <1>2, <1>3, SMTT(30)
<1>5. \A j \in DOMAIN t : /\ Len(s) + j \in DOMAIN (s \o t)
                          /\ (s \o t)[Len(s) + j] = t[j]
                          /\ j \in Nat /\ j > 0
  <2> TAKE j \in DOMAIN t
  <2>1. /\ Len(s) + j \in 1..(Len(s) + Len(t)) /\ ~(Len(s) + j <= Len(s))
        /\ Len(s) + j - Len(s) = j /\ j \in Nat /\ j > 0
    BY <1>1
  <2> QED BY <1>2, <1>3, <2>1, SMTT(30)
<1>6. \A k \in DOMAIN (s \o t) : k \in DOMAIN s \/ \E j \in DOMAIN t : k = Len(s) + j
  <2> TAKE k \in DOMAIN (s \o t)
  <2>1. k \in 1..Len(s) \/ (k - Len(s) \in 1..Len(t) /\ k = Len(s) + (k - Len(s)))
    BY <1>1, <1>3
  <2> QED BY <1>1, <2>1, Zenon
<1> QED BY <1>1, <1>2, <1>4, <1>5, <1>6, Zenon

\* The ids of a concatenation are those of the two lists.
LEMMA IdsConcat ==
  ASSUME NEW s \in Seq(Msg), NEW t \in Seq(Msg)
  PROVE  Ids(s \o t) = Ids(s) \cup Ids(t)
<1>1. ASSUME NEW x \in Ids(s \o t) PROVE x \in Ids(s) \cup Ids(t)
  <2>1. PICK k \in DOMAIN (s \o t) : x = (s \o t)[k].id
    BY <1>1 DEF Ids
  <2> QED BY <2>1, ConcatPositions, SMTT(30) DEF Ids
<1>2. ASSUME NEW i \in DOMAIN s PROVE s[i].id \in Ids(s \o t)
  <2>1. i \in DOMAIN (s \o t) /\ (s \o t)[i] = s[i]
    BY <1>2, ConcatPositions, SMTT(30)
  <2> QED BY <2>1, SMTT(30) DEF Ids
<1>3. ASSUME NEW j \in DOMAIN t PROVE t[j].id \in Ids(s \o t)
  <2>1. Len(s) + j \in DOMAIN (s \o t) /\ (s \o t)[Len(s) + j] = t[j]
    BY <1>3, ConcatPositions, SMTT(30)
  <2> QED BY <2>1 DEF Ids
<1>4. Ids(s) \subseteq Ids(s \o t) /\ Ids(t) \subseteq Ids(s \o t)
  BY <1>2, <1>3, Zenon DEF Ids
<1> QED BY <1>1, <1>4, SMTT(30)

\* A concatenation holds no id twice when neither list does and they share none.
LEMMA DistinctConcat ==
  ASSUME NEW s \in Seq(Msg), NEW t \in Seq(Msg)
  PROVE  Distinct(s \o t) <=> Distinct(s) /\ Distinct(t) /\ Ids(s) \cap Ids(t) = {}
<1> DEFINE u == s \o t
           n == Len(s)
<1>p. /\ n \in Nat
      /\ \A i \in DOMAIN s : i \in DOMAIN u /\ u[i] = s[i] /\ i \in Nat /\ i <= n
      /\ \A j \in DOMAIN t : n + j \in DOMAIN u /\ u[n + j] = t[j] /\ j \in Nat /\ j > 0
      /\ \A k \in DOMAIN u : k \in DOMAIN s \/ \E j \in DOMAIN t : k = n + j
  BY ConcatPositions, ZenonT(30)
<1> HIDE DEF u, n
<1>1. ASSUME Distinct(u) PROVE Distinct(s) /\ Distinct(t) /\ Ids(s) \cap Ids(t) = {}
  <2>1. Distinct(s)
    BY <1>1, <1>p, SMTT(30) DEF Distinct
  <2>2. Distinct(t)
    <3> SUFFICES ASSUME NEW i \in DOMAIN t, NEW j \in DOMAIN t, t[i].id = t[j].id
                 PROVE  i = j
      BY SMTT(30) DEF Distinct
    <3>1. /\ n + i \in DOMAIN u /\ u[n + i] = t[i] /\ i \in Nat
          /\ n + j \in DOMAIN u /\ u[n + j] = t[j] /\ j \in Nat
      BY <1>p, SMTT(30)
    <3>2. n + i = n + j
      BY <1>1, <3>1, SMTT(30) DEF Distinct
    <3> QED BY <3>1, <3>2, <1>p
  <2>3. Ids(s) \cap Ids(t) = {}
    <3> SUFFICES ASSUME NEW i \in DOMAIN s, NEW j \in DOMAIN t, s[i].id = t[j].id
                 PROVE  FALSE
      BY DEF Ids
    <3>1. i = n + j
      BY <1>1, <1>p, SMTT(30) DEF Distinct
    <3> QED BY <3>1, <1>p
  <2> QED BY <2>1, <2>2, <2>3
<1>2. ASSUME Distinct(s), Distinct(t), Ids(s) \cap Ids(t) = {} PROVE Distinct(u)
  <2>0. \A i \in DOMAIN s, j \in DOMAIN t : s[i].id # t[j].id
    BY <1>2, SMTT(30) DEF Ids
  <2> SUFFICES ASSUME NEW k \in DOMAIN u, NEW l \in DOMAIN u, u[k].id = u[l].id
               PROVE  k = l
    BY DEF Distinct
  <2>1. CASE k \in DOMAIN s /\ l \in DOMAIN s
    BY <2>1, <1>2, <1>p, SMTT(30) DEF Distinct
  <2>2. ASSUME k \in DOMAIN s, NEW j \in DOMAIN t, l = n + j PROVE FALSE
    BY <2>2, <2>0, <1>p, SMTT(30)
  <2>3. ASSUME NEW i \in DOMAIN t, k = n + i, NEW j \in DOMAIN t, l = n + j PROVE k = l
    <3>1. t[i].id = t[j].id
      BY <2>3, <1>p, SMTT(30)
    <3> QED BY <3>1, <2>3, <1>2, SMTT(30) DEF Distinct
  <2>4. ASSUME NEW i \in DOMAIN t, k = n + i, l \in DOMAIN s PROVE FALSE
    BY <2>4, <2>0, <1>p
  <2> QED BY <2>1, <2>2, <2>3, <2>4, <1>p, SMTT(30)
<1> QED BY <1>1, <1>2 DEF u

\* A concatenation is in order when both lists are, and the first is before
\* the second.
LEMMA SortedConcat ==
  ASSUME NEW s \in Seq(Msg), NEW t \in Seq(Msg)
  PROVE  Sorted(s \o t) <=> Sorted(s) /\ Sorted(t) /\ Before(s, t)
<1> DEFINE u == s \o t
           n == Len(s)
<1>p. /\ n \in Nat
      /\ \A i \in DOMAIN s : i \in DOMAIN u /\ u[i] = s[i] /\ i \in Nat /\ i <= n
      /\ \A j \in DOMAIN t : n + j \in DOMAIN u /\ u[n + j] = t[j] /\ j \in Nat /\ j > 0
      /\ \A k \in DOMAIN u : k \in DOMAIN s \/ \E j \in DOMAIN t : k = n + j
  BY ConcatPositions, Zenon
<1> HIDE DEF u, n
<1>1. ASSUME Sorted(u) PROVE Sorted(s) /\ Sorted(t) /\ Before(s, t)
  <2>1. Sorted(s)
    BY <1>1, <1>p, SMTT(30) DEF Sorted
  <2>2. Sorted(t)
    <3> SUFFICES ASSUME NEW i \in DOMAIN t, NEW j \in DOMAIN t, i < j, t[i].from = t[j].from
                 PROVE  t[i].id < t[j].id
      BY DEF Sorted
    <3>1. /\ n + i \in DOMAIN u /\ u[n + i] = t[i] /\ i \in Nat
          /\ n + j \in DOMAIN u /\ u[n + j] = t[j] /\ j \in Nat
      BY <1>p, SMTT(30)
    <3>2. n + i < n + j
      BY <1>p, <3>1, SMTT(30)
    <3> QED BY <3>1, <3>2, <1>1, SMTT(30) DEF Sorted
  <2>3. Before(s, t)
    <3> SUFFICES ASSUME NEW i \in DOMAIN s, NEW j \in DOMAIN t, s[i].from = t[j].from
                 PROVE  s[i].id < t[j].id
      BY SMTT(30) DEF Before
    <3>1. i < n + j
      BY <1>p, SMTT(30)
    <3> QED BY <3>1, <1>1, <1>p, SMTT(30) DEF Sorted
  <2> QED BY <2>1, <2>2, <2>3, SMTT(30)
<1>2. ASSUME Sorted(s), Sorted(t), Before(s, t) PROVE Sorted(u)
  <2> SUFFICES ASSUME NEW k \in DOMAIN u, NEW l \in DOMAIN u, k < l, u[k].from = u[l].from
               PROVE  u[k].id < u[l].id
    BY SMTT(30) DEF Sorted
  <2>1. CASE k \in DOMAIN s /\ l \in DOMAIN s
    BY <2>1, <1>2, <1>p, SMTT(30) DEF Sorted
  <2>2. ASSUME k \in DOMAIN s, NEW j \in DOMAIN t, l = n + j PROVE u[k].id < u[l].id
    BY <2>2, <1>2, <1>p DEF Before
  <2>3. ASSUME NEW i \in DOMAIN t, k = n + i, NEW j \in DOMAIN t, l = n + j
        PROVE  u[k].id < u[l].id
    <3>1. i < j
      BY <2>3, <1>p
    <3> QED BY <3>1, <2>3, <1>2, <1>p, ZenonT(30) DEF Sorted
  <2>4. ASSUME NEW i \in DOMAIN t, k = n + i, l \in DOMAIN s PROVE FALSE
    BY <2>4, <1>p
  <2> QED BY <2>1, <2>2, <2>3, <2>4, <1>p, SMTT(30)
<1> QED BY <1>1, <1>2 DEF u

\* A list is before, or after, a concatenation when it is so for both lists.
LEMMA BeforeConcat ==
  ASSUME NEW s \in Seq(Msg), NEW t \in Seq(Msg), NEW r \in Seq(Msg)
  PROVE  /\ Before(s \o t, r) <=> Before(s, r) /\ Before(t, r)
         /\ Before(r, s \o t) <=> Before(r, s) /\ Before(r, t)
<1> DEFINE u == s \o t
           n == Len(s)
<1>p. /\ \A i \in DOMAIN s : i \in DOMAIN u /\ u[i] = s[i]
      /\ \A j \in DOMAIN t : n + j \in DOMAIN u /\ u[n + j] = t[j]
      /\ \A k \in DOMAIN u : k \in DOMAIN s \/ \E j \in DOMAIN t : k = n + j
  BY ConcatPositions, ZenonT(30)
<1> HIDE DEF u, n
<1>i. ASSUME NEW j \in DOMAIN t PROVE \E k \in DOMAIN u : u[k] = t[j]
  BY <1>i, <1>p, Zenon
<1>o. ASSUME NEW k \in DOMAIN u
      PROVE  (\E i \in DOMAIN s : u[k] = s[i]) \/ \E j \in DOMAIN t : u[k] = t[j]
  BY <1>o, <1>p
<1>1. Before(u, r) <=> Before(s, r) /\ Before(t, r)
  <2>1. Before(u, r) => Before(s, r)
    BY <1>p, SMTT(30) DEF Before
  <2>2. Before(u, r) => Before(t, r)
    BY <1>i, SMTT(30) DEF Before
  <2>3. Before(s, r) /\ Before(t, r) => Before(u, r)
    BY <1>o, SMTT(30) DEF Before
  <2> QED BY <2>1, <2>2, <2>3, SMTT(30)
<1>2. Before(r, u) <=> Before(r, s) /\ Before(r, t)
  <2>1. Before(r, u) => Before(r, s)
    BY <1>p, SMTT(30) DEF Before
  <2>2. Before(r, u) => Before(r, t)
    BY <1>i, SMTT(30) DEF Before
  <2>3. Before(r, s) /\ Before(r, t) => Before(r, u)
    BY <1>o, SMTT(30) DEF Before
  <2> QED BY <2>1, <2>2, <2>3
<1> QED BY <1>1, <1>2 DEF u

\* A concatenation comes before a list when both its parts do.
LEMMA ConcatBefore ==
  ASSUME NEW s \in Seq(Msg), NEW t \in Seq(Msg), NEW r \in Seq(Msg)
  PROVE  Before(s \o t, r) <=> Before(s, r) /\ Before(t, r)
BY BeforeConcat, Zenon

\* The empty list and the list of one message.
LEMMA SmallLists ==
  /\ <<>> \in Seq(Msg) /\ Len(<<>>) = 0 /\ Ids(<<>>) = {}
  /\ Distinct(<<>>) /\ Sorted(<<>>)
  /\ \A r : Before(<<>>, r) /\ Before(r, <<>>)
  /\ \A m \in Msg : /\ <<m>> \in Seq(Msg) /\ Len(<<m>>) = 1 /\ Ids(<<m>>) = {m.id}
                    /\ Distinct(<<m>>) /\ Sorted(<<m>>)
<1>1. <<>> \in Seq(Msg) /\ Len(<<>>) = 0 /\ DOMAIN <<>> = {}
  BY EmptyFacts, LenFacts
<1>2. /\ Ids(<<>>) = {} /\ Distinct(<<>>) /\ Sorted(<<>>)
      /\ \A r : Before(<<>>, r) /\ Before(r, <<>>)
  BY <1>1, Zenon DEF Ids, Distinct, Sorted, Before
<1>3. ASSUME NEW m \in Msg
      PROVE  /\ <<m>> \in Seq(Msg) /\ Len(<<m>>) = 1 /\ Ids(<<m>>) = {m.id}
             /\ Distinct(<<m>>) /\ Sorted(<<m>>)
  <2>1. <<m>> \in Seq(Msg) /\ Len(<<m>>) = 1 /\ DOMAIN <<m>> = {1} /\ <<m>>[1] = m
    OBVIOUS
  <2>2. Ids(<<m>>) = {m.id}
    BY <2>1 DEF Ids
  <2>3. Distinct(<<m>>) /\ Sorted(<<m>>)
    BY <2>1 DEF Distinct, Sorted
  <2> QED BY <2>1, <2>2, <2>3
<1> QED BY <1>1, <1>2, <1>3

\* Concatenation is associative.
LEMMA ConcatAssoc3 ==
  ASSUME NEW s \in Seq(Msg), NEW t \in Seq(Msg), NEW u \in Seq(Msg)
  PROVE  (s \o t) \o u = s \o (t \o u)
BY SMTT(30)

\* A list is what is before a position, the message there and what is after.
LEMMA TakeOut ==
  ASSUME NEW q \in Seq(Msg), NEW i \in DOMAIN q
  PROVE  /\ SubSeq(q, 1, i - 1) \in Seq(Msg) /\ SubSeq(q, i + 1, Len(q)) \in Seq(Msg)
         /\ q[i] \in Msg
         /\ q = (SubSeq(q, 1, i - 1) \o <<q[i]>>) \o SubSeq(q, i + 1, Len(q))
<1> DEFINE s == SubSeq(q, 1, i - 1)
           t == SubSeq(q, i + 1, Len(q))
           n == Len(q)
<1>1. /\ n \in Nat /\ i \in 1..n /\ \A j \in 1..n : q[j] \in Msg
  BY LenFacts, ElementFacts
<1>2. s \in Seq(Msg) /\ Len(s) = i - 1 /\ \A j \in 1..(i - 1) : s[j] = q[j]
  BY <1>1
<1>3. t \in Seq(Msg) /\ Len(t) = n - i /\ \A j \in 1..(n - i) : t[j] = q[i + j]
  BY <1>1
<1>4. q[i] \in Msg /\ <<q[i]>> \in Seq(Msg) /\ Len(<<q[i]>>) = 1 /\ <<q[i]>>[1] = q[i]
  BY <1>1
<1> HIDE DEF s, t
<1> DEFINE a == s \o <<q[i]>>
<1>5. a \in Seq(Msg) /\ Len(a) = i /\ \A j \in 1..i : a[j] = q[j]
  <2>1. /\ a \in Seq(Msg) /\ Len(a) = Len(s) + Len(<<q[i]>>)
        /\ \A j \in 1..(Len(s) + Len(<<q[i]>>)) :
             a[j] = IF j <= Len(s) THEN s[j] ELSE <<q[i]>>[j - Len(s)]
    BY <1>2, <1>4, ConcatFacts, ZenonT(30)
  <2>2. Len(a) = i
    BY <1>1, <1>2, <1>4, <2>1, SMTT(30)
  <2>3. ASSUME NEW j \in 1..i PROVE a[j] = q[j]
    <3> HIDE DEF a
    <3>1. CASE j <= i - 1
      BY <1>1, <1>2, <1>4, <2>1, <3>1
    <3>2. CASE j = i
      <4>1. /\ j \in 1..(Len(s) + Len(<<q[i]>>)) /\ ~(j <= Len(s)) /\ j - Len(s) = 1
        BY <1>1, <1>2, <1>4, <3>2
      <4>2. a[j] = <<q[i]>>[1]
        BY <2>1, <4>1, Zenon
      <4> QED BY <1>4, <3>2, <4>2, Zenon
    <3> QED BY <1>1, <3>1, <3>2, SMTT(30)
  <2> QED BY <2>1, <2>2, <2>3
<1> HIDE DEF a
<1>6. /\ a \o t \in Seq(Msg) /\ Len(a \o t) = n
      /\ \A j \in 1..n : (a \o t)[j] = IF j <= i THEN a[j] ELSE t[j - i]
  <2>1. /\ a \o t \in Seq(Msg) /\ Len(a \o t) = Len(a) + Len(t)
        /\ \A j \in 1..(Len(a) + Len(t)) :
             (a \o t)[j] = IF j <= Len(a) THEN a[j] ELSE t[j - Len(a)]
    BY <1>3, <1>5, ConcatFacts, Zenon
  <2>2. Len(a) + Len(t) = n
    BY <1>1, <1>3, <1>5
  <2> QED BY <1>5, <2>1, <2>2
<1>7. \A j \in 1..n : (a \o t)[j] = q[j]
  <2> TAKE j \in 1..n
  <2>1. CASE j <= i
    BY <1>1, <1>5, <1>6, <2>1
  <2>2. CASE j > i
    <3>1. j - i \in 1..(n - i) /\ i + (j - i) = j
      BY <1>1, <2>2
    <3>2. ~(j <= i)
      BY <1>1, <2>2
    <3>3. (a \o t)[j] = t[j - i]
      BY <1>6, <3>2, Zenon
    <3>4. t[j - i] = q[i + (j - i)]
      BY <1>3, <3>1, Zenon
    <3> QED BY <3>1, <3>3, <3>4, Zenon
  <2>3. j <= i \/ j > i
    BY <1>1
  <2> QED BY <2>1, <2>2, <2>3, Zenon
<1>8. q = a \o t
  BY <1>6, <1>7, SameSeq, Zenon
<1> QED BY <1>2, <1>3, <1>4, <1>8, Zenon DEF a, s, t

\* A list is the concatenation of its first k messages and the others.
LEMMA CutSeq ==
  ASSUME NEW s \in Seq(Msg), NEW k \in 0..Len(s)
  PROVE  /\ SubSeq(s, 1, k) \in Seq(Msg) /\ SubSeq(s, k + 1, Len(s)) \in Seq(Msg)
         /\ s = SubSeq(s, 1, k) \o SubSeq(s, k + 1, Len(s))
<1>1. CASE k = 0
  <2>1. Len(s) \in Nat /\ s \in Seq(Msg)
    BY LenFacts
  <2>2. SubSeq(s, 1, 0) = <<>> /\ SubSeq(s, 1, Len(s)) = s
    BY <2>1, NoSubSeq, WholeSubSeq
  <2> QED BY <1>1, <2>1, <2>2, SmallLists, ConcatEmpty
<1>2. CASE k \in 1..Len(s)
  <2>1. k \in DOMAIN s /\ Len(s) \in Nat
    BY <1>2, LenFacts
  <2>2. /\ SubSeq(s, 1, k - 1) \in Seq(Msg) /\ SubSeq(s, k + 1, Len(s)) \in Seq(Msg)
        /\ s = (SubSeq(s, 1, k - 1) \o <<s[k]>>) \o SubSeq(s, k + 1, Len(s))
        /\ s[k] \in Msg
    BY <2>1, TakeOut, Zenon
  <2>3. SubSeq(s, 1, k) = SubSeq(s, 1, k - 1) \o <<s[k]>>
    <3>1. 1 \in 1..Len(s) /\ k \in 1..Len(s)
      BY <1>2, <2>1
    <3> QED BY <3>1, SubSeqLast, Zenon
  <2>4. SubSeq(s, 1, k) \in Seq(Msg)
    <3>1. <<s[k]>> \in Seq(Msg)
      BY <2>2, SmallLists, Zenon
    <3>2. SubSeq(s, 1, k - 1) \o <<s[k]>> \in Seq(Msg)
      BY <2>2, <3>1, ConcatFacts, Zenon
    <3> QED BY <2>3, <3>2, Zenon
  <2> QED BY <2>2, <2>3, <2>4, Zenon
<1>3. k = 0 \/ k \in 1..Len(s)
  BY LenFacts
<1> QED BY <1>1, <1>2, <1>3, Zenon

\* A list without repeated ids has as many ids as messages.
LEMMA DistinctCardinality ==
  ASSUME NEW s \in Seq(Msg), Distinct(s)
  PROVE  IsFiniteSet(Ids(s)) /\ Cardinality(Ids(s)) = Len(s)
<1> DEFINE f == [i \in 1..Len(s) |-> s[i].id]
<1>1. Len(s) \in Nat /\ DOMAIN s = 1..Len(s)
  BY LenFacts
<1>2. f \in Bijection(1..Len(s), Ids(s))
  <2>1. f \in [1..Len(s) -> Ids(s)]
    BY <1>1 DEF Ids
  <2>2. \A i, j \in 1..Len(s) : f[i] = f[j] => i = j
    BY <1>1 DEF Distinct
  <2>3. \A x \in Ids(s) : \E i \in 1..Len(s) : f[i] = x
    BY <1>1 DEF Ids
  <2> QED BY <2>1, <2>2, <2>3, IsBijection, Zenon
<1>3. IsFiniteSet(1..Len(s)) /\ Cardinality(1..Len(s)) = Len(s)
  BY <1>1, FS_Interval, SMTT(30)
<1>4. ExistsBijection(1..Len(s), Ids(s))
  BY <1>2 DEF ExistsBijection
<1> QED BY <1>3, <1>4, FS_Bijection, Zenon

\* A list of distinct messages in two parts.
LEMMA SplitFacts ==
  ASSUME NEW s \in Seq(Msg), NEW t \in Seq(Msg), Distinct(s \o t)
  PROVE  /\ Distinct(s) /\ Distinct(t) /\ Ids(s) \cap Ids(t) = {}
         /\ Ids(s \o t) = Ids(s) \cup Ids(t)
         /\ Len(s \o t) = Len(s) + Len(t)
         /\ IsFiniteSet(Ids(s)) /\ Cardinality(Ids(s)) = Len(s)
         /\ Len(s) \in Nat /\ Len(t) \in Nat
<1>1. Distinct(s) /\ Distinct(t) /\ Ids(s) \cap Ids(t) = {}
  BY DistinctConcat, Zenon
<1>2. Ids(s \o t) = Ids(s) \cup Ids(t)
  BY IdsConcat, Zenon
<1>3. Len(s \o t) = Len(s) + Len(t)
  BY ConcatFacts, Zenon
<1>4. IsFiniteSet(Ids(s)) /\ Cardinality(Ids(s)) = Len(s)
  BY <1>1, DistinctCardinality, Zenon
<1>5. Len(s) \in Nat /\ Len(t) \in Nat
  BY LenFacts, Zenon
<1> QED BY <1>1, <1>2, <1>3, <1>4, <1>5, Zenon

\* Exchanging the first two parts of a list keeps its length, its ids, and
\* that no id is there twice.
LEMMA ExchangeFacts ==
  ASSUME NEW s \in Seq(Msg), NEW t \in Seq(Msg), NEW r \in Seq(Msg),
         Distinct((s \o t) \o r)
  PROVE  /\ Len((t \o s) \o r) = Len((s \o t) \o r)
         /\ Ids((t \o s) \o r) = Ids((s \o t) \o r)
         /\ Distinct((t \o s) \o r)
<1>2. s \o t \in Seq(Msg) /\ t \o s \in Seq(Msg)
  BY ConcatFacts
<1>3. Len((t \o s) \o r) = Len((s \o t) \o r)
  <2>1. Len((s \o t) \o r) = Len(s \o t) + Len(r) /\ Len((t \o s) \o r) = Len(t \o s) + Len(r)
    BY <1>2, ConcatFacts
  <2>2. /\ Len(s \o t) = Len(s) + Len(t) /\ Len(t \o s) = Len(t) + Len(s)
        /\ Len(s) \in Nat /\ Len(t) \in Nat
    BY ConcatFacts, LenFacts
  <2> QED BY <2>1, <2>2
<1>4. /\ Ids((s \o t) \o r) = (Ids(s) \cup Ids(t)) \cup Ids(r)
      /\ Ids((t \o s) \o r) = (Ids(t) \cup Ids(s)) \cup Ids(r)
      /\ Ids(s \o t) = Ids(s) \cup Ids(t) /\ Ids(t \o s) = Ids(t) \cup Ids(s)
  <2>1. Ids(s \o t) = Ids(s) \cup Ids(t) /\ Ids(t \o s) = Ids(t) \cup Ids(s)
    BY IdsConcat, Zenon
  <2>2. Ids((s \o t) \o r) = Ids(s \o t) \cup Ids(r)
    BY <1>2, IdsConcat, Zenon
  <2>3. Ids((t \o s) \o r) = Ids(t \o s) \cup Ids(r)
    BY <1>2, IdsConcat, Zenon
  <2> QED BY <2>1, <2>2, <2>3, Zenon
<1>5. Ids((t \o s) \o r) = Ids((s \o t) \o r)
  BY <1>4
<1>6. Distinct((t \o s) \o r)
  <2>1. Distinct(s \o t) /\ Distinct(r) /\ Ids(s \o t) \cap Ids(r) = {}
    BY <1>2, DistinctConcat, Zenon
  <2>2. Distinct(s) /\ Distinct(t) /\ Ids(s) \cap Ids(t) = {}
    BY <2>1, DistinctConcat, Zenon
  <2>3. Ids(t) \cap Ids(s) = {} /\ Ids(t \o s) \cap Ids(r) = {}
    BY <1>4, <2>1, <2>2
  <2>4. Distinct(t \o s)
    BY <2>2, <2>3, DistinctConcat, Zenon
  <2> QED BY <1>2, <2>1, <2>3, <2>4, DistinctConcat, Zenon
<1> QED BY <1>3, <1>5, <1>6, Zenon

\* The positions in use in the input queues, as TotalLen counts them.
InputPairs(q) == {wi \in Workers \X (1..MaxMsgs) : wi[2] <= Len(q[wi[1]].items)}

\* There are finitely many of them.
LEMMA InputPairsFinite ==
  ASSUME NEW q
  PROVE  IsFiniteSet(InputPairs(q)) /\ Cardinality(InputPairs(q)) \in Nat
<1>1. IsFiniteSet(Workers) /\ IsFiniteSet(1..MaxMsgs)
  BY FifoAssumption, FS_Interval
<1>2. IsFiniteSet(Workers \X (1..MaxMsgs))
  BY <1>1, FS_Product, Zenon
<1>3. InputPairs(q) \in SUBSET (Workers \X (1..MaxMsgs))
  BY DEF InputPairs
<1> QED BY <1>2, <1>3, FS_Subset, FS_CardinalityType, SMTT(30)

\* They are those of one worker, as many as its queue is long, and the rest.
LEMMA InputPairsSplit ==
  ASSUME NEW q, NEW w \in Workers, Len(q[w].items) \in 0..MaxMsgs
  PROVE  Cardinality(InputPairs(q)) =
           Cardinality({wi \in InputPairs(q) : wi[1] # w}) + Len(q[w].items)
<1> DEFINE O == {wi \in InputPairs(q) : wi[1] # w}
           M == {w} \X (1..Len(q[w].items))
           n == Len(q[w].items)
<1>1. InputPairs(q) = O \cup M /\ O \cap M = {}
  <2>1. M \subseteq InputPairs(q)
    BY FifoAssumption DEF InputPairs
  <2>2. \A wi \in InputPairs(q) : wi[1] = w => wi \in M
    BY FifoAssumption DEF InputPairs
  <2>3. \A wi \in M : wi[1] = w
    OBVIOUS
  <2> QED BY <2>1, <2>2, <2>3
<1>2. IsFiniteSet(O)
  <2>1. O \in SUBSET InputPairs(q)
    OBVIOUS
  <2> QED BY <2>1, InputPairsFinite, FS_Subset
<1>3. IsFiniteSet(M) /\ Cardinality(M) = n
  <2>1. n \in Nat
    BY FifoAssumption
  <2>2. IsFiniteSet(1..n) /\ Cardinality(1..n) = n
    BY <2>1, FS_Interval, SMTT(30)
  <2>3. IsFiniteSet({w}) /\ Cardinality({w}) = 1
    BY FS_Singleton, Zenon
  <2>4. IsFiniteSet(M) /\ Cardinality(M) = 1 * n
    <3> HIDE DEF n
    <3>1. IsFiniteSet({w} \X (1..n)) /\ Cardinality({w} \X (1..n)) = 1 * n
      BY <2>2, <2>3, FS_Product, ZenonT(30)
    <3> QED BY <3>1 DEF n
  <2> QED BY <2>1, <2>4
<1> HIDE DEF O, M
<1>4. Cardinality(O \cup M) = Cardinality(O) + Cardinality(M) - Cardinality({})
  BY <1>1, <1>2, <1>3, FS_Union
<1>5. Cardinality(O) \in Nat /\ Cardinality({}) = 0
  BY <1>2, FS_CardinalityType, FS_EmptySet
<1>6. Cardinality(M) \in Nat
  BY <1>3, FS_CardinalityType
<1>7. Cardinality(InputPairs(q)) = Cardinality(O) + n
  BY <1>1, <1>3, <1>4, <1>5, <1>6
<1> QED BY <1>7 DEF O

\* When only the queue of one worker changes, the total changes with its length.
LEMMA InputPairsChange ==
  ASSUME NEW q, NEW r, NEW w \in Workers,
         Len(q[w].items) \in 0..MaxMsgs, Len(r[w].items) \in 0..MaxMsgs,
         \A v \in Workers : v # w => r[v].items = q[v].items
  PROVE  Cardinality(InputPairs(r)) =
           Cardinality(InputPairs(q)) + Len(r[w].items) - Len(q[w].items)
<1> DEFINE c == Cardinality({wi \in InputPairs(q) : wi[1] # w})
<1>1. {wi \in InputPairs(r) : wi[1] # w} = {wi \in InputPairs(q) : wi[1] # w}
  BY DEF InputPairs
<1>2. Cardinality(InputPairs(q)) = c + Len(q[w].items)
  BY InputPairsSplit, Zenon
<1>3. Cardinality(InputPairs(r)) = c + Len(r[w].items)
  BY <1>1, InputPairsSplit, Zenon
<1>4. c \in Nat
  <2>1. {wi \in InputPairs(q) : wi[1] # w} \in SUBSET InputPairs(q)
    OBVIOUS
  <2> QED BY <2>1, InputPairsFinite, FS_Subset, FS_CardinalityType
<1>5. Len(q[w].items) \in Int /\ Len(r[w].items) \in Int
  BY FifoAssumption
<1>a. \A x, y, z \in Int : z + y = z + x + y - x
  OBVIOUS
<1>b. c \in Int
  BY <1>4
<1> HIDE DEF c
<1>6. c + Len(r[w].items) = c + Len(q[w].items) + Len(r[w].items) - Len(q[w].items)
  BY <1>5, <1>a, <1>b, Zenon
<1> QED BY <1>2, <1>3, <1>6, Zenon

-----------------------------------------------------------------------------
(* Where the ids 1..n are: c in the lists behind the lock and the output   *)
(* thread's, in[w] in the input queue of w, a acked, d dropped, b aborted. *)

Apart(c, in, a, d, b) ==
  /\ c \cap a = {} /\ c \cap d = {} /\ c \cap b = {}
  /\ a \cap d = {} /\ a \cap b = {} /\ d \cap b = {}
  /\ \A w \in Workers : /\ in[w] \cap c = {} /\ in[w] \cap a = {}
                        /\ in[w] \cap d = {} /\ in[w] \cap b = {}
  /\ \A v, w \in Workers : v # w => in[v] \cap in[w] = {}

Covers(n, c, in, a, d, b) ==
  \A i : i \in 1..n <=> \/ i \in c \/ i \in a \/ i \in d \/ i \in b
                        \/ \E w \in Workers : i \in in[w]

Ledger(n, c, in, a, d, b) == Apart(c, in, a, d, b) /\ Covers(n, c, in, a, d, b)

\* The next id is nowhere yet.
LEMMA NextIdIsNew ==
  ASSUME NEW n \in Nat, NEW c, NEW in, NEW a, NEW d, NEW b, Covers(n, c, in, a, d, b)
  PROVE  /\ n + 1 \notin c /\ n + 1 \notin a /\ n + 1 \notin d /\ n + 1 \notin b
         /\ \A w \in Workers : n + 1 \notin in[w]
         /\ \A i : i \in 1..(n + 1) <=> i \in 1..n \/ i = n + 1
<1>1. n + 1 \notin 1..n /\ \A i : i \in 1..(n + 1) <=> i \in 1..n \/ i = n + 1
  BY SMTT(30)
<1> QED BY <1>1, Zenon DEF Covers

\* A new id enters one of the places.
LEMMA LedgerPush ==
  ASSUME NEW n \in Nat, NEW c, NEW in, NEW a, NEW d, NEW b, Ledger(n, c, in, a, d, b)
  PROVE  /\ Ledger(n + 1, c \cup {n + 1}, in, a, d, b)
         /\ Ledger(n + 1, c, in, a, d \cup {n + 1}, b)
         /\ \A w \in Workers : \A jn :
              (jn[w] = in[w] \cup {n + 1} /\ \A v \in Workers : v # w => jn[v] = in[v])
                => Ledger(n + 1, c, jn, a, d, b)
<1> DEFINE x == n + 1
<1>1. /\ x \notin c /\ x \notin a /\ x \notin d /\ x \notin b
      /\ \A w \in Workers : x \notin in[w]
      /\ \A i : i \in 1..x <=> i \in 1..n \/ i = x
  BY NextIdIsNew, SMTT(30) DEF Ledger
<1> HIDE DEF x
<1>2. Ledger(x, c \cup {x}, in, a, d, b)
  <2>a. Apart(c, in, a, d, b)
    BY Zenon DEF Ledger
  <2>b. (c \cup {x}) \cap a = {} /\ (c \cup {x}) \cap d = {} /\ (c \cup {x}) \cap b = {}
    BY <1>1, <2>a DEF Apart
  <2>c. \A w \in Workers : in[w] \cap (c \cup {x}) = {}
    BY <1>1, <2>a DEF Apart
  <2>1. Apart(c \cup {x}, in, a, d, b)
    BY <2>a, <2>b, <2>c, Zenon DEF Apart
  <2>2. Covers(x, c \cup {x}, in, a, d, b)
    BY <1>1, SMTT(30) DEF Ledger, Covers
  <2> QED BY <2>1, <2>2, Zenon DEF Ledger
<1>3. Ledger(x, c, in, a, d \cup {x}, b)
  <2>a. Apart(c, in, a, d, b)
    BY Zenon DEF Ledger
  <2>b. c \cap (d \cup {x}) = {} /\ a \cap (d \cup {x}) = {} /\ (d \cup {x}) \cap b = {}
    BY <1>1, <2>a DEF Apart
  <2>c. \A w \in Workers : in[w] \cap (d \cup {x}) = {}
    BY <1>1, <2>a DEF Apart
  <2>1. Apart(c, in, a, d \cup {x}, b)
    BY <2>a, <2>b, <2>c, Zenon DEF Apart
  <2>2. Covers(x, c, in, a, d \cup {x}, b)
    BY <1>1 DEF Ledger, Covers
  <2> QED BY <2>1, <2>2, Zenon DEF Ledger
<1>4. ASSUME NEW w \in Workers, NEW jn, jn[w] = in[w] \cup {x},
             \A v \in Workers : v # w => jn[v] = in[v]
      PROVE  Ledger(x, c, jn, a, d, b)
  <2>1. Apart(c, jn, a, d, b)
    BY <1>1, <1>4, SMTT(30) DEF Ledger, Apart
  <2>2. Covers(x, c, jn, a, d, b)
    BY <1>1, <1>4 DEF Ledger, Covers
  <2> QED BY <2>1, <2>2, Zenon DEF Ledger
<1> QED BY <1>2, <1>3, <1>4, SMTT(30) DEF x

Removed(in, jn, w, x) ==
  x \in in[w] /\ jn[w] = in[w] \ {x} /\ \A v \in Workers : v # w => jn[v] = in[v]

\* A message of an input queue is dropped.
LEMMA LedgerDrop ==
  ASSUME NEW n, NEW c, NEW in, NEW a, NEW d, NEW b, Ledger(n, c, in, a, d, b),
         NEW w \in Workers, NEW x, NEW jn, Removed(in, jn, w, x)
  PROVE  Ledger(n, c, jn, a, d \cup {x}, b) /\ x \notin d
<1>1. Apart(c, jn, a, d \cup {x}, b) /\ x \notin d
  BY DEF Ledger, Apart, Removed
<1>2. Covers(n, c, jn, a, d \cup {x}, b)
  BY SMTT(30) DEF Ledger, Covers, Removed
<1> QED BY <1>1, <1>2, Zenon DEF Ledger

\* An input queue is emptied to the wait queue.
LEMMA LedgerSplice ==
  ASSUME NEW n, NEW c, NEW in, NEW a, NEW d, NEW b, Ledger(n, c, in, a, d, b),
         NEW w \in Workers, NEW jn, jn[w] = {},
         \A v \in Workers : v # w => jn[v] = in[v]
  PROVE  Ledger(n, c \cup in[w], jn, a, d, b)
<1>1. Apart(c \cup in[w], jn, a, d, b)
  BY DEF Ledger, Apart
<1>2. Covers(n, c \cup in[w], jn, a, d, b)
  BY DEF Ledger, Covers
<1> QED BY <1>1, <1>2, Zenon DEF Ledger

TwoParts(c, x, e) == c = x \cup e /\ x \cap e = {}

\* Messages are acked off the backlog, or all that is left is aborted.
LEMMA LedgerOut ==
  ASSUME NEW n, NEW c, NEW e, NEW x, NEW in, NEW a, NEW d, NEW b,
         Ledger(n, c, in, a, d, b), TwoParts(c, x, e)
  PROVE  /\ Ledger(n, e, in, a \cup x, d, b)
         /\ Ledger(n, e, in, a, d, b \cup x)
<1>1. Apart(e, in, a \cup x, d, b)
  BY DEF Ledger, Apart, TwoParts
<1>2. Covers(n, e, in, a \cup x, d, b)
  BY SMTT(30) DEF Ledger, Covers, TwoParts
<1>3. Apart(e, in, a, d, b \cup x)
  BY DEF Ledger, Apart, TwoParts
<1>4. Covers(n, e, in, a, d, b \cup x)
  BY DEF Ledger, Covers, TwoParts
<1> QED BY <1>1, <1>2, <1>3, <1>4, Zenon DEF Ledger
=============================================================================
