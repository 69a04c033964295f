--------------------------- MODULE LogReader_proof ---------------------------
(***************************************************************************)
(* Proofs about LogReader for any number of destination threads, any       *)
(* window, either tracker and every input: the slots of the window under   *)
(* one step, the invariance of Inv (defined in LogReader_steps) and what   *)
(* it shows.                                                               *)
(***************************************************************************)
EXTENDS LogReader_steps, FiniteSetTheorems

-----------------------------------------------------------------------------
\* A set of naturals that is not empty has a least element.
LEMMA LeastNatural ==
  ASSUME NEW T \in SUBSET Nat, T # {}
  PROVE  \E x \in T : \A y \in T : x <= y
<1>1. \E x \in T : \A y \in T : ~(<<y, x>> \in OpToRel(<, Nat))
  BY NatLessThanWellFounded, WFMin, Zenon
<1>2. PICK x \in T : \A y \in T : ~(<<y, x>> \in OpToRel(<, Nat))
  BY <1>1, Zenon
<1>3. ASSUME NEW y \in T
      PROVE  x <= y
  <2>1. x \in Nat /\ y \in Nat
    OBVIOUS
  <2>2. y < x => <<y, x>> \in OpToRel(<, Nat)
    BY <2>1 DEF OpToRel
  <2>3. ~(y < x)
    BY <1>2, <2>2, Zenon
  <2> QED BY <2>1, <2>3
<1> QED
  BY <1>3

\* The facts about naturals and finite sets that the steps rest on.
LEMMA LawsHold == Laws
<1>1. ASSUME NEW S, IsFiniteSet(S)
      PROVE  /\ Cardinality(S) \in Nat
             /\ \A T \in SUBSET S : IsFiniteSet(T)
             /\ \A x : /\ IsFiniteSet(S \cup {x}) /\ IsFiniteSet(S \ {x})
                       /\ x \notin S => Cardinality(S \cup {x}) = Cardinality(S) + 1
                       /\ x \in S => Cardinality(S \ {x}) = Cardinality(S) - 1
  <2>1. Cardinality(S) \in Nat
    BY <1>1, FS_CardinalityType, Zenon
  <2>2. ASSUME NEW T \in SUBSET S PROVE IsFiniteSet(T)
    BY <1>1, FS_Subset, Zenon
  <2>3. ASSUME NEW x
        PROVE  /\ IsFiniteSet(S \cup {x})
               /\ x \notin S => Cardinality(S \cup {x}) = Cardinality(S) + 1
    BY <1>1, FS_AddElement, Zenon
  <2>4. ASSUME NEW x
        PROVE  /\ IsFiniteSet(S \ {x})
               /\ x \in S => Cardinality(S \ {x}) = Cardinality(S) - 1
    BY <1>1, FS_RemoveElement, Zenon
  <2> QED BY <2>1, <2>2, <2>3, <2>4, Zenon
<1> QED
  BY <1>1, LeastNatural, Zenon DEF Laws

-----------------------------------------------------------------------------
(* The slots of the window.                                                *)

\* The threads of the instant tracker that have a slot in hand.
Handful == {d \in Dest : dst[d].inc + dst[d].taken > 0}

\* How the set of them changes with one thread's record.
LEMMA HandfulUpdate ==
  ASSUME AckTypesOK, NEW d \in Dest, NEW p, NEW n \in Nat, NEW k \in Nat, Becomes(d, p, n, k)
  PROVE  /\ Cardinality(Handful) \in Nat
         /\ n + k > 0 /\ dst[d].inc + dst[d].taken > 0 => Handful' = Handful
         /\ n + k = 0 /\ dst[d].inc + dst[d].taken = 0 => Handful' = Handful
         /\ n + k > 0 /\ dst[d].inc + dst[d].taken = 0 =>
              Cardinality(Handful') = Cardinality(Handful) + 1
         /\ n + k = 0 /\ dst[d].inc + dst[d].taken > 0 =>
              Cardinality(Handful') = Cardinality(Handful) - 1
<1>1. /\ dst'[d].inc = n /\ dst'[d].taken = k
      /\ \A x \in Dest : x # d => dst'[x] = dst[x]
  BY DEF Becomes
<1>2. IsFiniteSet(Handful)
  <2>1. Handful \in SUBSET Dest /\ IsFiniteSet(Dest)
    BY ReaderConstants DEF Handful
  <2> QED BY <2>1, FS_Subset, Zenon
<1>3. Cardinality(Handful) \in Nat
  BY <1>2, FS_CardinalityType, Zenon
<1>4. \A x \in Dest : x # d => (x \in Handful' <=> x \in Handful)
  BY <1>1 DEF Handful
<1>5. (d \in Handful' <=> n + k > 0) /\ (d \in Handful <=> dst[d].inc + dst[d].taken > 0)
  BY <1>1 DEF Handful
<1>6. Handful \subseteq Dest /\ Handful' \subseteq Dest
  BY DEF Handful
<1>7. ASSUME n + k > 0, dst[d].inc + dst[d].taken > 0
      PROVE  Handful' = Handful
  BY <1>4, <1>5, <1>6, <1>7
<1>8. ASSUME n + k = 0, dst[d].inc + dst[d].taken = 0
      PROVE  Handful' = Handful
  BY <1>4, <1>5, <1>6, <1>8
<1>9. ASSUME n + k > 0, dst[d].inc + dst[d].taken = 0
      PROVE  Cardinality(Handful') = Cardinality(Handful) + 1
  <2>1. Handful' = Handful \cup {d} /\ d \notin Handful
    BY <1>4, <1>5, <1>6, <1>9
  <2>2. Cardinality(Handful \cup {d}) =
          IF d \in Handful THEN Cardinality(Handful) ELSE Cardinality(Handful) + 1
    BY <1>2, FS_AddElement, Zenon
  <2> QED BY <2>1, <2>2
<1>10. ASSUME n + k = 0, dst[d].inc + dst[d].taken > 0
       PROVE  Cardinality(Handful') = Cardinality(Handful) - 1
  <2>1. Handful' = Handful \ {d} /\ d \in Handful
    BY <1>4, <1>5, <1>6, <1>10
  <2>2. Cardinality(Handful \ {d}) =
          IF d \in Handful THEN Cardinality(Handful) - 1 ELSE Cardinality(Handful)
    BY <1>2, FS_RemoveElement, Zenon
  <2> QED BY <2>1, <2>2
<1> QED
  BY <1>3, <1>7, <1>8, <1>9, <1>10, SMT, SMTT(30)

\* What the threads have in hand changes by what one of them takes or puts.
LEMMA InHandUpdate ==
  ASSUME AckTypesOK, Hands, NEW d \in Dest, NEW p, NEW n \in Nat, NEW k \in Nat,
         Becomes(d, p, n, k), Instant => n + k <= 1,
         ~Instant => \/ lock' = d /\ lock \in {None, d}
                     \/ lock' = lock /\ n + k = dst[d].inc + dst[d].taken
                     \/ lock' = None /\ lock = d /\ n + k = 0
                     \/ lock' = None /\ lock = None /\ n + k = dst[d].inc + dst[d].taken
  PROVE  InHand \in Nat /\ InHand' = InHand + (n + k) - (dst[d].inc + dst[d].taken)
<1>1. /\ dst'[d].inc = n /\ dst'[d].taken = k
      /\ \A x \in Dest : x # d => dst'[x] = dst[x]
  BY DEF Becomes
<1>2. \A x \in Dest : dst[x].inc \in Nat /\ dst[x].taken \in Nat
  BY DstFields
<1>3. CASE Instant
  <2>1. InHand = Cardinality(Handful) /\ InHand' = Cardinality(Handful')
    BY <1>3 DEF InHand, Handful, Instant
  <2>2. dst[d].inc + dst[d].taken <= 1 /\ n + k <= 1
    BY <1>3 DEF Hands
  <2>3. /\ Cardinality(Handful) \in Nat
        /\ n + k > 0 /\ dst[d].inc + dst[d].taken > 0 => Handful' = Handful
        /\ n + k = 0 /\ dst[d].inc + dst[d].taken = 0 => Handful' = Handful
        /\ n + k > 0 /\ dst[d].inc + dst[d].taken = 0 =>
              Cardinality(Handful') = Cardinality(Handful) + 1
        /\ n + k = 0 /\ dst[d].inc + dst[d].taken > 0 =>
              Cardinality(Handful') = Cardinality(Handful) - 1
    BY HandfulUpdate, Zenon
  <2> DEFINE a == n + k
             b == dst[d].inc + dst[d].taken
             c == Cardinality(Handful)
             e == Cardinality(Handful')
  <2>4. a \in {0, 1} /\ b \in {0, 1} /\ c \in Nat
    BY <1>2, <2>2, <2>3
  <2>5. /\ a > 0 /\ b > 0 => e = c
        /\ a = 0 /\ b = 0 => e = c
        /\ a > 0 /\ b = 0 => e = c + 1
        /\ a = 0 /\ b > 0 => e = c - 1
    BY <2>3, Zenon
  <2> HIDE DEF a, b, c, e
  <2>6. e = c + a - b
    BY <2>4, <2>5
  <2> QED BY <2>1, <2>4, <2>6 DEF a, b, c, e
<1>4. CASE ~Instant
  <2> DEFINE h(x) == IF x = None THEN 0 ELSE dst[x].inc + dst[x].taken
  <2>1. InHand = h(lock) /\ None \notin Dest /\ lock \in Dest \cup {None}
    BY <1>4, ReaderConstants DEF InHand, AckTypesOK
  <2>2. InHand' = IF lock' = None THEN 0 ELSE dst'[lock'].inc + dst'[lock'].taken
    BY <1>4 DEF InHand, Instant
  <2>3. lock # d => dst[d].inc + dst[d].taken = 0
    <3>1. lock # d => dst[d].pc \notin {"take", "pend", "add"}
      BY <1>4 DEF Hands
    <3> QED BY <3>1 DEF Hands
  <2>4. CASE lock' = d /\ lock \in {None, d}
    BY <1>1, <1>2, <2>1, <2>2, <2>3, <2>4, SMT, SMTT(30)
  <2>5. CASE lock' = lock /\ n + k = dst[d].inc + dst[d].taken
    <3>1. InHand' = InHand
      <4>1. CASE lock = None
        BY <2>1, <2>2, <2>5, <4>1, SMT, SMTT(30)
      <4>2. CASE lock = d
        <5>1. InHand' = n + k /\ InHand = dst[d].inc + dst[d].taken
          BY <1>1, <2>1, <2>2, <2>5, <4>2, SMT, SMTT(30)
        <5> QED BY <2>5, <5>1
      <4>3. CASE lock \in Dest /\ lock # d
        BY <1>1, <2>1, <2>2, <2>5, <4>3
      <4> QED BY <2>1, <4>1, <4>2, <4>3, SMT, SMTT(30)
    <3>2. InHand \in Nat
      BY <1>2, <2>1
    <3>3. dst[d].inc + dst[d].taken \in Nat
      BY <1>2
    <3> DEFINE a == n + k
               b == dst[d].inc + dst[d].taken
    <3>4. a = b /\ b \in Nat
      BY <2>5, <3>3
    <3> HIDE DEF a, b
    <3>5. InHand' = InHand + a - b
      BY <3>1, <3>2, <3>4
    <3> QED BY <3>2, <3>5 DEF a, b
  <2>6. CASE lock' = None /\ lock = d /\ n + k = 0
    BY <1>2, <2>1, <2>2, <2>6, SMT, SMTT(30)
  <2>7. CASE lock' = None /\ lock = None /\ n + k = dst[d].inc + dst[d].taken
    BY <1>2, <2>1, <2>2, <2>3, <2>7, SMT, SMTT(30)
  <2> QED BY <1>4, <2>4, <2>5, <2>6, <2>7, SMT, SMTT(30)
<1> QED
  BY <1>3, <1>4

\* A step that moves slots between the parts of the window.
LEMMA Conserved ==
  ASSUME Inv, InHand \in Int,
         full' \in Int, window' \in Int, Occupied' \in Int, InHand' \in Int,
         reclaimed' \in Int, main'.total \in Int,
         ~freed' => ~freed,
         full' - full = (window' - window) + (Occupied' - Occupied) + (InHand' - InHand)
                        + (reclaimed' - reclaimed) + (main'.total - main.total)
  PROVE  WindowConserved'
<1>1. /\ full \in Int /\ window \in Int /\ Occupied \in Int /\ reclaimed \in Int
      /\ main.total \in Int
  BY OccupiedType, LawsHold DEF Inv, CounterTypes, ControlTypes
<1>2. ~freed => full = window + Occupied + InHand + reclaimed + main.total
  BY DEF Inv, WindowConserved
<1>3. ~freed' => full' = window' + Occupied' + InHand' + reclaimed' + main'.total
  <2> DEFINE f == full    w == window    o == Occupied    h == InHand    r == reclaimed
             t == main.total
             f1 == full'  w1 == window'  o1 == Occupied'  h1 == InHand'  r1 == reclaimed'
             t1 == main'.total
  <2>1. /\ f \in Int /\ w \in Int /\ o \in Int /\ h \in Int /\ r \in Int /\ t \in Int
        /\ f1 \in Int /\ w1 \in Int /\ o1 \in Int /\ h1 \in Int /\ r1 \in Int /\ t1 \in Int
    BY <1>1
  <2>2. f1 - f = (w1 - w) + (o1 - o) + (h1 - h) + (r1 - r) + (t1 - t)
    BY Zenon
  <2>3. ~freed => f = w + o + h + r + t
    BY <1>2, Zenon
  <2> HIDE DEF f, w, o, h, r, t, f1, w1, o1, h1, r1, t1
  <2>4. f = w + o + h + r + t => f1 = w1 + o1 + h1 + r1 + t1
    BY <2>1, <2>2
  <2> QED BY <2>3, <2>4, Zenon DEF f1, w1, o1, h1, r1, t1
<1> QED
  BY <1>3 DEF WindowConserved

\* What is in hand is a natural number.
LEMMA InHandType ==
  ASSUME Inv
  PROVE  InHand \in Nat
<1>1. AckTypesOK
  BY DEF Inv
<1>2. CASE Instant
  <2>1. Handful \in SUBSET Dest /\ IsFiniteSet(Dest)
    BY ReaderConstants DEF Handful
  <2>2. IsFiniteSet(Handful)
    BY <2>1, FS_Subset, Zenon
  <2>3. Cardinality(Handful) \in Nat
    BY <2>2, FS_CardinalityType, Zenon
  <2> QED BY <1>2, <2>3 DEF InHand, Handful
<1>3. CASE ~Instant
  <2>1. \A x \in Dest : dst[x].inc \in Nat /\ dst[x].taken \in Nat
    BY <1>1, DstFields
  <2> QED BY <1>1, <1>3, <2>1 DEF InHand, AckTypesOK
<1> QED
  BY <1>2, <1>3

\* A step outside of the acknowledgements moves f slots into the source, w to the
\* window, o to messages, r to what is reclaimed and t to the main thread's total.
SourceMove(f, w, o, r, t) ==
  /\ f \in Int /\ w \in Int /\ o \in Int /\ r \in Int /\ t \in Int
  /\ full' = full + f /\ window' = window + w /\ Occupied' = Occupied + o
  /\ reclaimed' = reclaimed + r /\ main'.total = main.total + t
  /\ InHand' = InHand /\ freed' = freed
  /\ f = w + o + r + t

\* Such a step conserves the window.
LEMMA SourceMoves ==
  ASSUME Inv, NEW f, NEW w, NEW o, NEW r, NEW t, SourceMove(f, w, o, r, t)
  PROVE  WindowConserved'
<1>1. /\ full \in Int /\ window \in Int /\ Occupied \in Int /\ reclaimed \in Int
      /\ main.total \in Int /\ InHand \in Int
  BY OccupiedType, LawsHold, InHandType DEF Inv, CounterTypes, ControlTypes
<1>2. /\ f \in Int /\ w \in Int /\ o \in Int /\ r \in Int /\ t \in Int
      /\ full' = full + f /\ window' = window + w /\ Occupied' = Occupied + o
      /\ reclaimed' = reclaimed + r /\ main'.total = main.total + t
      /\ InHand' = InHand /\ freed' = freed /\ f = w + o + r + t
  BY Zenon DEF SourceMove
<1>3. full' \in Int /\ full' - full = f
  BY <1>1, <1>2
<1>4. window' \in Int /\ window' - window = w
  BY <1>1, <1>2
<1>5. Occupied' \in Int /\ Occupied' - Occupied = o
  BY <1>1, <1>2
<1>6. InHand' \in Int /\ InHand' - InHand = 0
  BY <1>1, <1>2
<1>7. reclaimed' \in Int /\ reclaimed' - reclaimed = r
  BY <1>1, <1>2
<1>8. main'.total \in Int /\ main'.total - main.total = t
  BY <1>1, <1>2
<1>9. f = w + o + 0 + r + t
  BY <1>2
<1>10. full' - full = (window' - window) + (Occupied' - Occupied) + (InHand' - InHand)
                      + (reclaimed' - reclaimed) + (main'.total - main.total)
  BY <1>3, <1>4, <1>5, <1>6, <1>7, <1>8, <1>9, Zenon
<1> QED
  BY <1>1, <1>2, <1>3, <1>4, <1>5, <1>6, <1>7, <1>8, <1>10, Conserved, ZenonT(30)

\* The steps outside of the acknowledgements that move a slot: a message is
\* tracked or posted, the main thread reallocates.
LEMMA ConservedBySource ==
  ASSUME Laws, Inv, Next,
         TrackMsg \/ Post \/ TakeTotal \/ Reclaim \/ Rebalance \/ SubBalanced
  PROVE  WindowConserved'
<1>1. /\ AckTypesOK /\ CounterTypes /\ Order /\ job \in JobRec /\ main \in MainRec
      /\ next \in Nat /\ IsFiniteSet(inflight) /\ Lifecycle
  BY DEF Inv, ControlTypes, CounterTypes, AckTypesOK, Control, JobRec, MainRec
<1>2. /\ full' \in Int /\ window' \in Int /\ reclaimed' \in Int /\ main'.total \in Int
      /\ InHand \in Int /\ main.total \in Nat /\ main.sub \in Nat
      /\ full \in Int /\ window \in Nat /\ reclaimed \in Nat /\ free \in Int
  <2>1. ControlTypes' /\ CounterTypes' /\ ControlTypes /\ CounterTypes
    BY ControlTypesStep, CounterTypesStep DEF Inv
  <2> QED BY <2>1, InHandType DEF ControlTypes, CounterTypes
<1>3. /\ Occupied \in Int /\ Len(recs) \in Nat /\ Cardinality(inflight) \in Nat
      /\ Instant => Occupied = Cardinality(inflight)
      /\ ~Instant /\ job.pc = "post" => Occupied = Len(recs) - 1
      /\ ~Instant /\ job.pc # "post" => Occupied = Len(recs)
  BY OccupiedType, LawsHold, SMT, SMTT(30)
<1>4. UNCHANGED <<dst, lock, freed>>
  BY DEF TrackMsg, Post, TakeTotal, Reclaim, Rebalance, SubBalanced, ackVars
<1>5. InHand' = InHand
  BY <1>4 DEF InHand, Instant
<1>z. /\ full + 0 = full /\ window + 0 = window /\ Occupied + 0 = Occupied
      /\ reclaimed + 0 = reclaimed /\ main.total + 0 = main.total
      /\ 0 = 0 + 0 + 0 + 0 /\ 0 \in Int /\ -1 \in Int /\ 1 \in Int
      /\ 0 = -1 + 1 + 0 + 0
  BY <1>2, <1>3
<1>6. CASE TrackMsg
  <2>1. UNCHANGED <<full, window, reclaimed, main, inflight>> /\ job.pc = "track"
    BY <1>6 DEF TrackMsg, poolVars, reclaimVars, mainVars, msgVars
  <2>2. Occupied' = Occupied
    <3>1. CASE Instant
      BY <2>1, <3>1 DEF Occupied, Instant
    <3>2. CASE ~Instant /\ recs' = recs /\ ~pending
      <4>1. job' = job
        BY <1>6, <3>2 DEF TrackMsg
      <4> QED BY <2>1, <3>2, <4>1 DEF Occupied, Instant
    <3>3. CASE ~Instant /\ pending /\ Len(recs') = Len(recs) + 1
      <4>1. job'.pc = "post"
        BY <1>1, <1>6, <3>3 DEF TrackMsg, JobRec
      <4>2. Occupied' = Len(recs') - 1
        BY <3>3, <4>1 DEF Occupied, Instant
      <4> QED BY <1>3, <2>1, <3>3, <4>2, SMT, SMTT(30)
    <3> QED BY <1>1, <1>6, <3>1, <3>2, <3>3, TrackFacts, SMT, SMTT(30)
  <2>3. SourceMove(0, 0, 0, 0, 0)
    BY <1>4, <1>5, <1>z, <2>1, <2>2, Zenon DEF SourceMove
  <2> QED BY <2>3, SourceMoves, Zenon
<1>7. CASE Post
  <2>1. UNCHANGED <<full, reclaimed, main, recs>> /\ job.pc = "post"
    BY <1>7 DEF Post, poolVars, reclaimVars, mainVars, trackVars
  <2>2. CASE window > 0
    <3>1. inflight' = inflight \cup {next} /\ window' = window - 1 /\ job'.pc = "check"
      BY <1>1, <1>7, <2>2, SMT, SMTT(30) DEF Post, JobRec
    <3>2. Occupied' = Occupied + 1
      <4>1. CASE Instant
        <5>1. next \notin inflight
          BY <1>1 DEF Order
        <5>2. Cardinality(inflight \cup {next}) =
                IF next \in inflight THEN Cardinality(inflight) ELSE Cardinality(inflight) + 1
          BY <1>1, FS_AddElement, Zenon
        <5>3. Occupied' = Cardinality(inflight \cup {next})
          BY <3>1, <4>1 DEF Occupied, Instant
        <5> QED BY <1>3, <4>1, <5>1, <5>2, <5>3, SMT, SMTT(30)
      <4>2. CASE ~Instant
        <5>1. Occupied' = Len(recs)
          BY <1>3, <2>1, <3>1, <4>2, SMT, SMTT(30) DEF Occupied, Instant
        <5> QED BY <1>3, <2>1, <4>2, <5>1, SMT, SMTT(30)
      <4> QED BY <4>1, <4>2, SMT, SMTT(30)
    <3>3. window' = window + (-1)
      BY <1>2, <3>1
    <3>4. SourceMove(0, -1, 1, 0, 0)
      BY <1>4, <1>5, <1>z, <2>1, <3>2, <3>3, ZenonT(30) DEF SourceMove
    <3> QED BY <3>4, SourceMoves, Zenon
  <2>3. CASE ~(window > 0)
    <3>1. UNCHANGED <<window, inflight, job>>
      BY <1>7, <2>3, SMT, SMTT(30) DEF Post
    <3>2. Occupied' = Occupied
      BY <2>1, <3>1 DEF Occupied, Instant
    <3>3. SourceMove(0, 0, 0, 0, 0)
      BY <1>4, <1>5, <1>z, <2>1, <3>1, <3>2, ZenonT(30) DEF SourceMove
    <3> QED BY <3>3, SourceMoves, Zenon
  <2> QED BY <2>2, <2>3
<1>8. CASE TakeTotal \/ Reclaim \/ Rebalance \/ SubBalanced
  <2>1. UNCHANGED <<recs, inflight, job>>
    BY <1>8 DEF TakeTotal, Reclaim, Rebalance, SubBalanced, trackVars, msgVars, readerVars
  <2>2. Occupied' = Occupied
    BY <2>1 DEF Occupied, Instant
  <2>3. CASE TakeTotal
    <3>1. /\ main'.total = reclaimed /\ reclaimed' = 0 /\ main.pc = "total"
          /\ UNCHANGED <<window, full>>
      BY <1>1, <2>3 DEF TakeTotal, MainRec, poolVars
    <3>2. main.total = 0
      BY <1>1, <3>1 DEF Lifecycle
    <3>3. PICK x \in Nat : x = reclaimed
      BY <1>2
    <3>4. -x \in Int /\ x \in Int /\ 0 = 0 + 0 + (-x) + x
      OBVIOUS
    <3>5. reclaimed' = reclaimed + (-x)
      BY <3>1, <3>3
    <3>6. main'.total = main.total + x
      BY <3>1, <3>2, <3>3, SMT, SMTT(30)
    <3>7. SourceMove(0, 0, 0, -x, x)
      BY <1>4, <1>5, <1>z, <2>2, <3>1, <3>4, <3>5, <3>6, ZenonT(30) DEF SourceMove
    <3> QED BY <3>7, SourceMoves, Zenon
  <2>4. CASE Reclaim
    <3>1. /\ main'.total = 0 /\ full' = full - main.total /\ UNCHANGED <<window, reclaimed>>
      <4>1. \E p : main' = [main EXCEPT !.total = 0, !.pc = p]
        BY <2>4, Zenon DEF Reclaim
      <4>2. main'.total = 0
        BY <1>1, <4>1 DEF MainRec
      <4> QED BY <2>4, <4>2, SMT, SMTT(30) DEF Reclaim, reclaimVars
    <3>2. PICK x \in Nat : x = main.total
      BY <1>2
    <3>3. -x \in Int /\ -x = 0 + 0 + 0 + (-x)
      OBVIOUS
    <3>4. full' = full + (-x)
      BY <1>2, <3>1, <3>2, SMT, SMTT(30)
    <3>5. main'.total = main.total + (-x)
      BY <3>1, <3>2
    <3>6. SourceMove(-x, 0, 0, 0, -x)
      BY <1>4, <1>5, <1>z, <2>2, <3>1, <3>3, <3>4, <3>5, ZenonT(30) DEF SourceMove
    <3> QED BY <3>6, SourceMoves, Zenon
  <2>5. CASE Rebalance
    <3>1. main'.total = main.total /\ reclaimed' = reclaimed
      BY <1>1, <2>5, ZenonT(30) DEF Rebalance, IncBalanced, DecBalanced, MainRec, reclaimVars
    <3>2. CASE full' = full /\ window' = window
      <4>1. SourceMove(0, 0, 0, 0, 0)
        BY <1>4, <1>5, <1>z, <2>2, <3>1, <3>2, Zenon DEF SourceMove
      <4> QED BY <4>1, SourceMoves, Zenon
    <3>3. ASSUME NEW o \in Int, full' = full + o, window' = window + o
          PROVE  WindowConserved'
      <4>1. o = o + 0 + 0 + 0
        OBVIOUS
      <4>2. SourceMove(o, o, 0, 0, 0)
        BY <1>4, <1>5, <1>z, <2>2, <3>1, <3>3, <4>1, ZenonT(30) DEF SourceMove
      <4> QED BY <4>2, SourceMoves, Zenon
    <3>4. \/ full' = full /\ window' = window
          \/ \E o \in Int : full' = full + o /\ window' = window + o
      <4> DEFINE inc == balanced - (full - InitWindow)
                 o == Min({free, inc})
      <4>1. \/ full' = full /\ window' = window
            \/ full' = full + o /\ window' = window + o
        BY <2>5, SMT, SMTT(30) DEF Rebalance, IncBalanced, DecBalanced
      <4>2. inc \in Int
        BY <1>2, ReaderConstants DEF Inv, ControlTypes, CounterTypes, InitWindow
      <4>3. o \in {free, inc}
        BY <1>2, <4>2, MaxOfTwo, Zenon
      <4> HIDE DEF o, inc
      <4> QED BY <1>2, <4>1, <4>2, <4>3, SMT, SMTT(30)
    <3> QED BY <3>2, <3>3, <3>4, SMT, SMTT(30)
  <2>6. CASE SubBalanced
    <3>1. /\ main'.total = main.total /\ reclaimed' = reclaimed
          /\ window' = window - main.sub /\ full' = full - main.sub
      BY <1>1, <2>6 DEF SubBalanced, MainRec, reclaimVars
    <3>2. PICK x \in Nat : x = main.sub
      BY <1>2
    <3>3. -x \in Int /\ -x = (-x) + 0 + 0 + 0
      OBVIOUS
    <3>4. full' = full + (-x)
      BY <1>2, <3>1, <3>2, SMT, SMTT(30)
    <3>5. window' = window + (-x)
      BY <1>2, <3>1, <3>2
    <3>6. SourceMove(-x, -x, 0, 0, 0)
      BY <1>4, <1>5, <1>z, <2>2, <3>1, <3>3, <3>4, <3>5, ZenonT(30) DEF SourceMove
    <3> QED BY <3>6, SourceMoves, Zenon
  <2> QED BY <1>8, <2>3, <2>4, <2>5, <2>6, SMT, SMTT(30)
<1> QED
  BY <1>6, <1>7, <1>8, SMT, SMTT(30)

\* A step of an acknowledgement that ends with x slots in hand, and had y.
LEMMA AckConserves ==
  ASSUME Inv, NEW x \in Nat, NEW y \in Nat, InHand \in Nat, InHand' = InHand + x - y,
         UNCHANGED <<full, main, freed>>,
         window' \in Int, Occupied' \in Int, reclaimed' \in Int,
         (window' - window) + (Occupied' - Occupied) + (reclaimed' - reclaimed) = y - x
  PROVE  WindowConserved'
<1>1. /\ full \in Int /\ window \in Int /\ Occupied \in Int /\ reclaimed \in Int
      /\ main.total \in Int
  BY OccupiedType, LawsHold, SMT, SMTT(30) DEF Inv, CounterTypes, ControlTypes
<1>2. InHand \in Int /\ InHand' \in Int /\ InHand' - InHand = x - y
  OBVIOUS
<1>3. full' - full = 0 /\ main'.total - main.total = 0 /\ full' \in Int /\ main'.total \in Int
  BY <1>1
<1> DEFINE a == window' - window
           b == Occupied' - Occupied
           c == reclaimed' - reclaimed
<1>4. a \in Int /\ b \in Int /\ c \in Int
  BY <1>1
<1>7. a + b + c = y - x
  BY Zenon
<1> HIDE DEF a, b, c
<1>5. 0 = a + b + (x - y) + c + 0
  BY <1>4, <1>7, SMT, SMTT(30)
<1>6. full' - full = (window' - window) + (Occupied' - Occupied) + (InHand' - InHand)
                     + (reclaimed' - reclaimed) + (main'.total - main.total)
  BY <1>2, <1>3, <1>5, SMT, SMTT(30) DEF a, b, c
<1> QED
  BY <1>2, <1>3, <1>6, Conserved, ZenonT(30)

\* A step of an acknowledgement leaves the thread with n and k slots in hand where
\* it had i and t, and moves a to the window, b to messages and c to what is
\* reclaimed.
AckMove(d, p, n, k, i, t, a, b, c) ==
  /\ n \in Nat /\ k \in Nat /\ i \in Nat /\ t \in Nat /\ a \in Int /\ b \in Int /\ c \in Int
  /\ Becomes(d, p, n, k) /\ i = dst[d].inc /\ t = dst[d].taken
  /\ Instant => n + k <= 1
  /\ ~Instant => \/ lock' = d /\ lock \in {None, d}
                 \/ lock' = lock /\ n + k = i + t
                 \/ lock' = None /\ lock = d /\ n + k = 0
                 \/ lock' = None /\ lock = None /\ n + k = i + t
  /\ UNCHANGED <<full, main, freed>>
  /\ window' = window + a /\ Occupied' = Occupied + b /\ reclaimed' = reclaimed + c
  /\ a + b + c = (i + t) - (n + k)

\* Such a step conserves the window.
LEMMA AckMoves ==
  ASSUME Inv, NEW d \in Dest, NEW p, NEW n, NEW k, NEW i, NEW t, NEW a, NEW b, NEW c,
         AckMove(d, p, n, k, i, t, a, b, c)
  PROVE  WindowConserved'
<1>1. /\ window \in Int /\ Occupied \in Int /\ reclaimed \in Int /\ AckTypesOK /\ Hands
  BY OccupiedType, LawsHold DEF Inv, CounterTypes
<1>2. InHand \in Nat /\ InHand' = InHand + (n + k) - (i + t)
  <2>1. i + t = dst[d].inc + dst[d].taken /\ n \in Nat /\ k \in Nat
    BY Zenon DEF AckMove
  <2>2. /\ Becomes(d, p, n, k) /\ (Instant => n + k <= 1)
        /\ ~Instant => \/ lock' = d /\ lock \in {None, d}
                       \/ lock' = lock /\ n + k = dst[d].inc + dst[d].taken
                       \/ lock' = None /\ lock = d /\ n + k = 0
                       \/ lock' = None /\ lock = None /\ n + k = dst[d].inc + dst[d].taken
    BY <2>1, Zenon DEF AckMove
  <2>3. InHand \in Nat /\ InHand' = InHand + (n + k) - (dst[d].inc + dst[d].taken)
    BY <1>1, <2>1, <2>2, InHandUpdate, ZenonT(30)
  <2> QED BY <2>1, <2>3, Zenon
<1>3. a \in Int /\ window' = window + a
  BY Zenon DEF AckMove
<1>4. window' \in Int /\ window' - window = a
  BY <1>1, <1>3
<1>5. b \in Int /\ Occupied' = Occupied + b
  BY Zenon DEF AckMove
<1>6. Occupied' \in Int /\ Occupied' - Occupied = b
  BY <1>1, <1>5
<1>7. c \in Int /\ reclaimed' = reclaimed + c
  BY Zenon DEF AckMove
<1>8. reclaimed' \in Int /\ reclaimed' - reclaimed = c
  BY <1>1, <1>7
<1>9. /\ (window' - window) + (Occupied' - Occupied) + (reclaimed' - reclaimed) = (i + t) - (n + k)
      /\ UNCHANGED <<full, main, freed>>
  BY <1>4, <1>6, <1>8, ZenonT(30) DEF AckMove
<1>10. n + k \in Nat /\ i + t \in Nat
  <2>1. n \in Nat /\ k \in Nat /\ i \in Nat /\ t \in Nat
    BY Zenon DEF AckMove
  <2> QED BY <2>1
<1> QED
  BY <1>2, <1>4, <1>6, <1>8, <1>9, <1>10, AckConserves, ZenonT(30)

\* The steps of an acknowledgement: a slot goes from a message to the thread's
\* hand, and from there to the window or to what is reclaimed.
LEMMA ConservedByAck ==
  ASSUME Laws, Inv, Next, NEW d \in Dest,
         \/ MsgAck(d) \/ Suspend(d) \/ Untrack(d) \/ TakeReclaimed(d)
         \/ AddReclaimed(d) \/ AddWindow(d) \/ Resume(d) \/ Wake(d) \/ PostEvent(d)
  PROVE  WindowConserved'
<1>1. AckTypesOK /\ CounterTypes /\ Hands /\ IsFiniteSet(inflight) /\ None # d
  BY ReaderConstants, SMT, SMTT(30) DEF Inv, AckTypesOK
<1>2. UNCHANGED <<full, main, freed, job>>
  BY Zenon DEF MsgAck, Suspend, Untrack, TakeReclaimed, AddReclaimed, AddWindow, Resume, Wake,
     PostEvent, poolVars, mainVars, readerVars
<1>3. dst[d].inc \in Nat /\ dst[d].taken \in Nat
  BY <1>1, DstFields, SMT, SMTT(30)
<1>i. PICK i \in Nat : i = dst[d].inc
  BY <1>3, SMT, SMTT(30)
<1>t. PICK t \in Nat : t = dst[d].taken
  BY <1>3
<1>4. window \in Int /\ reclaimed \in Int /\ 0 \in Nat /\ 0 \in Int /\ -1 \in Int /\ 1 \in Nat
  BY <1>1 DEF CounterTypes
<1>5. /\ Occupied \in Int /\ Len(recs) \in Nat /\ Cardinality(inflight) \in Nat
      /\ Instant => Occupied = Cardinality(inflight)
      /\ ~Instant /\ job.pc = "post" => Occupied = Len(recs) - 1
      /\ ~Instant /\ job.pc # "post" => Occupied = Len(recs)
  BY OccupiedType, LawsHold
<1>z. window + 0 = window /\ reclaimed + 0 = reclaimed
  BY <1>4, SMT, SMTT(30)
<1>6. UNCHANGED <<recs, inflight>> => Occupied' = Occupied + 0
  <2>1. UNCHANGED <<recs, inflight>> => Occupied' = Occupied
    BY <1>2 DEF Occupied, Instant
  <2> QED BY <1>5, <2>1, SMT, SMTT(30)
<1>7. CASE MsgAck(d)
  <2>1. dst[d].pc = "idle" /\ UNCHANGED <<lock, recs, window, reclaimed>>
    BY <1>7, ZenonT(30) DEF MsgAck, reclaimVars
  <2>2. i = 0 /\ t = 0
    BY <1>1, <1>i, <1>t, <2>1, SMT, SMTT(30) DEF Hands
  <2>3. dst[d].inc = 0 /\ dst[d].taken = 0
    BY <1>i, <1>t, <2>2, ZenonT(30)
  <2>4. window' = window + 0 /\ reclaimed' = reclaimed + 0
    BY <1>z, <2>1, Zenon
  <2>5. CASE Instant
    <3>1. Becomes(d, Adjusting, 1, 0)
      BY <1>1, <1>7, <2>3, <2>5, MsgAckOutcome, ZenonT(30)
    <3>2. Occupied' = Occupied + (-1)
      <4>1. PICK m \in inflight : inflight' = inflight \ {m}
        BY <1>7, Zenon DEF MsgAck
      <4>2. Cardinality(inflight \ {m}) =
              IF m \in inflight THEN Cardinality(inflight) - 1 ELSE Cardinality(inflight)
        BY <1>1, FS_RemoveElement, ZenonT(30)
      <4>3. Occupied' = Cardinality(inflight \ {m})
        BY <2>5, <4>1, SMT, SMTT(30) DEF Occupied, Instant
      <4> QED BY <1>5, <2>5, <4>1, <4>2, <4>3, SMT, SMTT(30)
    <3>3. 0 + (-1) + 0 = (i + t) - (1 + 0) /\ 1 + 0 <= 1
      BY <2>2
    <3>m. AckMove(d, Adjusting, 1, 0, i, t, 0, -1, 0)
      BY <1>2, <1>4, <1>i, <1>t, <2>4, <2>5, <3>1, <3>2, <3>3, Zenon DEF AckMove
    <3> QED BY <3>m, AckMoves, Zenon
  <2>6. CASE ~Instant
    <3>1. PICK p : Becomes(d, p, 0, 0)
      BY <1>1, <1>7, <2>3, <2>6, MsgAckOutcome, ZenonT(30)
    <3>2. Occupied' = Occupied + 0
      <4>1. Occupied' = Occupied
        BY <1>2, <2>1, <2>6, ZenonT(30) DEF Occupied, Instant
      <4> QED BY <1>5, <4>1, SMT, SMTT(30)
    <3>3. 0 + 0 + 0 = (i + t) - (0 + 0) /\ 0 + 0 = i + t
      BY <2>2
    <3>m. AckMove(d, p, 0, 0, i, t, 0, 0, 0)
      BY <1>2, <1>4, <1>i, <1>t, <2>1, <2>4, <2>6, <3>1, <3>2, <3>3, ZenonT(30) DEF AckMove
    <3> QED BY <3>m, AckMoves, Zenon
  <2> QED BY <2>5, <2>6, SMT, SMTT(30)
<1>8. CASE Suspend(d) \/ Resume(d) \/ Wake(d) \/ PostEvent(d)
  <2>1. /\ dst[d].pc \in {"suspend", "resume", "wake", "event"}
        /\ UNCHANGED <<recs, inflight, window, reclaimed>>
    BY <1>8, SMT, SMTT(30) DEF Suspend, Resume, Wake, PostEvent, trackVars, msgVars, reclaimVars
  <2>2. i = 0 /\ t = 0
    BY <1>1, <1>i, <1>t, <2>1, ZenonT(30) DEF Hands
  <2>3. dst[d].inc = 0 /\ dst[d].taken = 0
    BY <1>i, <1>t, <2>2, Zenon
  <2>4. PICK p : Becomes(d, p, 0, 0)
    BY <1>1, <1>8, <2>3, SuspendOutcome, WakeOutcome, ZenonT(30)
  <2>5. ~Instant => lock' = lock \/ (lock' = None /\ lock = d)
    BY <1>1, <1>8, SMT, SMTT(30) DEF Suspend, Resume, Wake, PostEvent, Hands
  <2>6. 0 + 0 + 0 = (i + t) - (0 + 0) /\ 0 + 0 = i + t /\ 0 + 0 = 0 /\ 0 + 0 <= 1
    BY <2>2
  <2>7. window' = window + 0 /\ reclaimed' = reclaimed + 0 /\ Occupied' = Occupied + 0
    BY <1>6, <1>z, <2>1, Zenon
  <2>m. AckMove(d, p, 0, 0, i, t, 0, 0, 0)
    BY <1>2, <1>4, <1>i, <1>t, <2>4, <2>5, <2>6, <2>7, ZenonT(30) DEF AckMove
  <2> QED BY <2>m, AckMoves, Zenon
<1>9. CASE Untrack(d)
  <2>1. dst[d].pc = "lock" /\ lock = None /\ UNCHANGED <<inflight, window, reclaimed>>
    BY <1>9, ZenonT(30), SMTT(30) DEF Untrack, msgVars, reclaimVars
  <2>2. i = 0 /\ t = 0 /\ ~Instant
    BY <1>1, <1>i, <1>t, <2>1, ZenonT(30), SMTT(30) DEF Hands
  <2>3. dst[d].inc = 0 /\ dst[d].taken = 0
    BY <1>i, <1>t, <2>2, ZenonT(30), SMTT(30)
  <2>4. RangeLength \in 0 .. Len(recs) /\ Len(recs') = Len(recs) - RangeLength
    BY <1>1, <1>9, UntrackFacts, ZenonT(30), SMTT(30)
  <2>5. PICK n \in Nat : n = RangeLength
    BY <1>5, <2>4, SMT, SMTT(30)
  <2>6. PICK l \in Nat : l = Len(recs)
    BY <1>5
  <2>7. Len(recs') = l - n
    BY <2>4, <2>5, <2>6, ZenonT(30)
  <2>8. Occupied' = Occupied + (-n)
    <3>1. Occupied' = IF job.pc = "post" THEN (l - n) - 1 ELSE l - n
      BY <1>2, <2>2, <2>7, SMT, SMTT(30) DEF Occupied, Instant
    <3>2. Occupied = IF job.pc = "post" THEN l - 1 ELSE l
      BY <1>5, <2>2, <2>6, SMT, SMTT(30)
    <3> QED BY <3>1, <3>2, SMT, SMTT(30)
  <2>9. window' = window + 0 /\ reclaimed' = reclaimed + 0 /\ -n \in Int
    BY <1>4, <2>1, SMT, SMTT(30)
  <2>10. \/ n = 0 /\ lock' = None /\ Becomes(d, "idle", 0, 0)
         \/ n > 0 /\ lock' = d /\ Becomes(d, Adjusting, n, 0)
    BY <1>1, <1>9, <2>3, <2>5, UntrackOutcome, ZenonT(30)
  <2>11. CASE n = 0 /\ lock' = None /\ Becomes(d, "idle", 0, 0)
    <3>1. 0 + (-n) + 0 = (i + t) - (0 + 0) /\ 0 + 0 = i + t
      BY <2>2, <2>11, SMT, SMTT(30)
    <3>m. AckMove(d, "idle", 0, 0, i, t, 0, -n, 0)
      BY <1>2, <1>4, <1>i, <1>t, <2>1, <2>2, <2>8, <2>9, <2>11, <3>1, ZenonT(30) DEF AckMove
    <3> QED BY <3>m, AckMoves, ZenonT(30)
  <2>12. CASE n > 0 /\ lock' = d /\ Becomes(d, Adjusting, n, 0)
    <3>1. 0 + (-n) + 0 = (i + t) - (n + 0)
      BY <2>2
    <3>m. AckMove(d, Adjusting, n, 0, i, t, 0, -n, 0)
      BY <1>2, <1>4, <1>i, <1>t, <2>1, <2>2, <2>8, <2>9, <2>12, <3>1, Zenon DEF AckMove
    <3> QED BY <3>m, AckMoves, Zenon
  <2> QED BY <2>10, <2>11, <2>12, SMT, SMTT(30)
<1>10. CASE TakeReclaimed(d)
  <2>1. dst[d].pc = "take" /\ UNCHANGED <<lock, recs, inflight, window, reclaimed>>
    BY <1>10, ZenonT(30), SMTT(30) DEF TakeReclaimed, trackVars, msgVars, reclaimVars
  <2>2. t = 0 /\ (~Instant => lock' = d /\ lock = d)
    BY <1>1, <1>t, <2>1, ZenonT(30), SMTT(30) DEF Hands
  <2>3. Instant => i + t <= 1
    BY <1>1, <1>i, <1>t, ZenonT(30) DEF Hands
  <2>4. PICK k \in 0 .. i : \/ Becomes(d, "pend", i - k, k)
                            \/ k = 0 /\ Becomes(d, "add", i, 0)
    BY <1>1, <1>10, <1>i, TakeReclaimedOutcome, ZenonT(30), SMTT(30)
  <2>5. PICK n \in Nat : n = i - k
    BY <2>4
  <2>6. \/ Becomes(d, "pend", n, k)
        \/ Becomes(d, "add", n, k)
    BY <2>4, <2>5, SMT, SMTT(30)
  <2>7. 0 + 0 + 0 = (i + t) - (n + k) /\ k \in Nat /\ (Instant => n + k <= 1)
    BY <2>2, <2>3, <2>4, <2>5, SMT, SMTT(30)
  <2>8. window' = window + 0 /\ reclaimed' = reclaimed + 0 /\ Occupied' = Occupied + 0
    BY <1>6, <1>z, <2>1, ZenonT(30)
  <2>9. \E q \in {"pend", "add"} : AckMove(d, q, n, k, i, t, 0, 0, 0)
    BY <1>2, <1>4, <1>i, <1>t, <2>2, <2>6, <2>7, <2>8, ZenonT(30) DEF AckMove
  <2> QED BY <2>9, AckMoves, ZenonT(30)
<1>11. CASE AddReclaimed(d)
  <2>1. /\ dst[d].pc = "pend" /\ UNCHANGED <<lock, recs, inflight, window>>
        /\ reclaimed' = reclaimed + dst[d].taken
    BY <1>11, SMT, SMTT(30) DEF AddReclaimed, trackVars, msgVars
  <2>2. ~Instant => lock' = d /\ lock = d
    BY <1>1, <2>1, ZenonT(30) DEF Hands
  <2>3. Instant => i + t <= 1
    BY <1>1, <1>i, <1>t, Zenon DEF Hands
  <2>4. Becomes(d, "add", dst[d].inc, 0)
    BY <1>1, <1>11, AddReclaimedOutcome, SMT, SMTT(30)
  <2>5. Becomes(d, "add", i, 0) /\ reclaimed' = reclaimed + t
    BY <1>i, <1>t, <2>1, <2>4, ZenonT(30)
  <2>6. 0 + 0 + t = (i + t) - (i + 0) /\ (Instant => i + 0 <= 1) /\ t \in Int
    BY <2>3
  <2>7. window' = window + 0 /\ Occupied' = Occupied + 0
    BY <1>6, <1>z, <2>1, ZenonT(30)
  <2>m. AckMove(d, "add", i, 0, i, t, 0, 0, t)
    BY <1>2, <1>4, <1>i, <1>t, <2>2, <2>5, <2>6, <2>7, ZenonT(30) DEF AckMove
  <2> QED BY <2>m, AckMoves, ZenonT(30)
<1>12. CASE AddWindow(d)
  <2>1. /\ dst[d].pc = "add" /\ UNCHANGED <<recs, inflight, reclaimed>>
        /\ window' = window + dst[d].inc
    BY <1>12, ZenonT(30), SMTT(30) DEF AddWindow, trackVars, msgVars, reclaimVars
  <2>2. t = 0 /\ dst[d].taken = 0 /\ (~Instant => lock = d)
    BY <1>1, <1>t, <2>1, ZenonT(30), SMTT(30) DEF Hands
  <2>3. PICK p : Becomes(d, p, 0, 0) /\ (lock' = lock \/ lock' = None)
    BY <1>1, <1>12, <2>2, AddWindowOutcome, ZenonT(30)
  <2>4. window' = window + i
    BY <1>i, <2>1, ZenonT(30)
  <2>5. i + 0 + 0 = (i + t) - (0 + 0) /\ 0 + 0 <= 1 /\ 0 + 0 = 0 /\ i \in Int
    BY <2>2, SMT, SMTT(30)
  <2>6. reclaimed' = reclaimed + 0 /\ Occupied' = Occupied + 0
    BY <1>6, <1>z, <2>1, ZenonT(30)
  <2>7. ~Instant => \/ lock' = d /\ lock \in {None, d}
                    \/ lock' = None /\ lock = d /\ 0 + 0 = 0
    BY <2>2, <2>3, <2>5, Zenon
  <2>m. AckMove(d, p, 0, 0, i, t, i, 0, 0)
    BY <1>2, <1>4, <1>i, <1>t, <2>3, <2>4, <2>5, <2>6, <2>7, ZenonT(30) DEF AckMove
  <2> QED BY <2>m, AckMoves, ZenonT(30)
<1> QED
  BY <1>7, <1>8, <1>9, <1>10, <1>11, <1>12, SMT, SMTT(30)

\* The steps that leave the slots where they are.
LEMMA ConservedByRest ==
  ASSUME Inv, Next,
         \/ PollReady \/ RestartTask \/ WakeupTriggered \/ FileModified \/ Arrive
         \/ Fetch \/ CheckWindow \/ WorkFinished \/ IdleTimeout \/ ClearInitialized
         \/ OtherConnections \/ WindowTimer \/ ClearReclaim \/ SetReclaim \/ EndRealloc
  PROVE  WindowConserved'
<1>1. job \in JobRec /\ main \in MainRec /\ Lifecycle /\ Lifecycle'
  BY LifecycleStep, SMT, SMTT(30) DEF Inv, ControlTypes, Control, JobRec, MainRec
<1>2. UNCHANGED <<window, full, reclaimed, recs, inflight, dst, lock, freed>>
  BY ZenonT(30) DEF PollReady, RestartTask, WakeupTriggered, FileModified, Arrive, Fetch, CheckWindow,
     WorkFinished, IdleTimeout, ClearInitialized, OtherConnections, WindowTimer,
     ClearReclaim, SetReclaim, EndRealloc, poolVars, reclaimVars, trackVars, msgVars, ackVars
<1>3. main'.total = main.total
  <2>1. CASE UNCHANGED main
    BY <2>1, SMT, SMTT(30)
  <2>2. CASE WorkFinished \/ IdleTimeout \/ WindowTimer
    BY <1>1, <2>2, Zenon DEF WorkFinished, IdleTimeout, WindowTimer, Close, MainRec
  <2>3. CASE ClearReclaim \/ SetReclaim
    BY <1>1, <2>3, ZenonT(30) DEF ClearReclaim, SetReclaim, MainRec
  <2>4. CASE ClearInitialized \/ EndRealloc
    <3>1. main.pc # "reclaim" /\ main'.total = 0
      BY <2>4, SMT, SMTT(30) DEF ClearInitialized, EndRealloc, Idle
    <3> QED BY <1>1, <3>1 DEF Lifecycle
  <2> QED BY <2>1, <2>2, <2>3, <2>4, SMT, SMTT(30) DEF PollReady, RestartTask, WakeupTriggered, FileModified,
             Arrive, Fetch, CheckWindow, OtherConnections, mainVars
<1>4. job'.pc = "post" <=> job.pc = "post"
  <2>1. CASE UNCHANGED job
    BY <2>1, SMT, SMTT(30)
  <2>2. CASE Fetch \/ CheckWindow \/ WorkFinished
    BY <1>1, <2>2, ZenonT(30) DEF Fetch, CheckWindow, WorkFinished, JobRec
  <2>3. CASE PollReady \/ RestartTask
    BY <1>1, <2>3 DEF PollReady, RestartTask, HandleIn, Working
  <2> QED BY <2>1, <2>2, <2>3, ZenonT(30) DEF WakeupTriggered, FileModified, Arrive, IdleTimeout,
             ClearInitialized, OtherConnections, WindowTimer, ClearReclaim, SetReclaim,
             EndRealloc, readerVars
<1>5. Occupied' = Occupied /\ InHand' = InHand
  BY <1>2, <1>4, SMT, SMTT(30) DEF Occupied, InHand, Instant
<1> QED
  BY <1>2, <1>3, <1>5, SMT, SMTT(30) DEF Inv, WindowConserved

\* WindowConserved, under one step.
LEMMA ConservedStep ==
  ASSUME Laws, Inv, Next
  PROVE  WindowConserved'
<1>1. CASE Free
  BY <1>1, Zenon DEF Free, WindowConserved
<1> QED
  BY <1>1, Steps, ConservedBySource, ConservedByAck, ConservedByRest, SMT, SMTT(30)

-----------------------------------------------------------------------------
(* The invariant.                                                          *)

\* It holds initially.
LEMMA InitInv ==
  ASSUME Init
  PROVE  Inv
<1>1. InitWindow \in Nat /\ InitWindow > 0 /\ PoolSize \in Nat /\ Notified \in BOOLEAN
  BY ReaderConstants, SMT, SMTT(30) DEF Init, InitWindow, Notified
<1>2. ControlTypes
  <2>1. main \in MainRec
    BY MainPoints DEF Init, Idle, MainRec
  <2>2. job \in JobRec
    BY JobPoints, SMT, SMTT(30) DEF Init, JobRec
  <2> QED BY <1>1, <2>1, <2>2, ZenonT(30) DEF Init, ControlTypes, MainRec, JobRec
<1>3. CounterTypes
  BY <1>1, SMT, SMTT(30) DEF Init, CounterTypes
<1>4. AckTypesOK
  <2>1. IsFiniteSet({})
    BY FS_EmptySet, ZenonT(30)
  <2>2. dst \in [Dest -> DstRec]
    BY DstPoints, SMT, SMTT(30) DEF Init, DstRec
  <2>3. recs \in Seq(Nat)
    BY SMT, SMTT(30) DEF Init
  <2> QED BY <2>1, <2>2, <2>3, SMT, SMTT(30) DEF Init, AckTypesOK, DstRec
<1>5. Control
  BY SMT, SMTT(30) DEF Init, Control, Exclusive, Lifecycle, Working, Idle
<1>6. Hands
  BY ReaderConstants, SMT, SMTT(30) DEF Init, Hands
<1>7. Order
  BY SMT, SMTT(30) DEF Init, Order
<1>8. WindowConserved
  <2>1. InHand = 0
    <3>1. CASE Instant
      <4>1. {d \in Dest : dst[d].inc + dst[d].taken > 0} = {}
        BY DEF Init
      <4>2. Cardinality({}) = 0
        BY FS_EmptySet, ZenonT(30)
      <4> QED BY <3>1, <4>1, <4>2, Zenon DEF InHand
    <3>2. CASE ~Instant
      BY <3>2, SMT, SMTT(30) DEF InHand, Init
    <3> QED BY <3>1, <3>2, SMT, SMTT(30)
  <2>2. Occupied = 0
    <3>1. Cardinality({}) = 0
      BY FS_EmptySet, Zenon
    <3> QED BY <3>1, SMT, SMTT(30) DEF Occupied, Init
  <2> QED BY <1>1, <2>1, <2>2, SMT, SMTT(30) DEF WindowConserved, Init, Idle
<1>9. Wakeup /\ Static
  BY <1>1, Zenon DEF Init, Wakeup, Static, Idle
<1> QED
  BY <1>2, <1>3, <1>4, <1>5, <1>6, <1>7, <1>8, <1>9, SMT, SMTT(30) DEF Inv

\* Every step keeps it.
LEMMA NextInv ==
  ASSUME Laws, Inv, [Next]_vars
  PROVE  Inv'
<1>1. CASE Next
  <2>1. ControlTypes' /\ CounterTypes' /\ AckTypesOK'
    BY <1>1, ControlTypesStep, CounterTypesStep, AckTypesStep, SMT, SMTT(30) DEF Inv
  <2>2. Control' /\ Hands' /\ Order'
    BY <1>1, ExclusiveStep, LifecycleStep, HandsStep, OrderStep, SMT, SMTT(30) DEF Inv, Control
  <2>3. WindowConserved' /\ Wakeup' /\ Static'
    BY <1>1, ConservedStep, WakeupStep, StaticStep, SMT, SMTT(30)
  <2> QED BY <2>1, <2>2, <2>3, SMT, SMTT(30) DEF Inv
<1>2. CASE UNCHANGED vars
  <2>1. UNCHANGED <<reader, job, suspended, watch, restart, posted, registered, init, main,
                    again, ticks, window, susp, full, free, balanced, toReclaim>>
    BY <1>2, SMT, SMTT(30) DEF vars, state, readerVars, eventVars, mainVars, poolVars, reclaimVars
  <2>2. UNCHANGED <<reclaimed, pending, recs, acked, saved, input, modified, next, inflight,
                    dst, lock, freed, abort>>
    BY <1>2, SMT, SMTT(30) DEF vars, state, reclaimVars, trackVars, msgVars, ackVars
  <2>3. ControlTypes' /\ CounterTypes' /\ AckTypesOK'
    BY <2>1, <2>2, SMT, SMTT(30) DEF Inv, ControlTypes, CounterTypes, AckTypesOK
  <2>4. Control' /\ Hands' /\ Order'
    BY <2>1, <2>2, ZenonT(30) DEF Inv, Control, Exclusive, Lifecycle, Working, Notified, Hands, Order,
       Instant
  <2>5. WindowConserved' /\ Wakeup' /\ Static'
    BY <2>1, <2>2, Zenon DEF Inv, WindowConserved, Occupied, InHand, Instant, Wakeup, FreeToSend,
       CounterSuspended, Static, Dynamic, InitWindow, Notified
  <2> QED BY <2>3, <2>4, <2>5 DEF Inv
<1> QED
  BY <1>1, <1>2, SMT, SMTT(30)

\* The inductive invariant holds in every state the reader, its window and its
\* tracker can reach.
THEOREM Invariance == Spec => []Inv
<1>1. Init => Inv
  BY InitInv
<1>2. Inv /\ [Next]_vars => Inv'
  BY NextInv, LawsHold
<1> QED
  BY <1>1, <1>2, PTL DEF Spec

-----------------------------------------------------------------------------
(* What it shows.                                                          *)

\* No slot of the window is lost or made up, with any number of destination
\* threads, whatever the order of their acknowledgements and of the main
\* thread's reallocations: what is free, tracked, in hand and reclaimed adds up
\* to full_window_size (lib/logsource.c:70-92, 240-330, 544-589).
THEOREM WindowConservedHolds == Spec => []WindowConserved
<1>1. Inv => WindowConserved
  BY SMT, SMTT(30) DEF Inv
<1> QED
  BY <1>1, Invariance, PTL

\* The bookmark that is saved stays behind every message that a destination
\* still has: a crash loses none
\* (lib/ack-tracker/consecutive_ack_tracker.c:122-134).
THEOREM BookmarkBehindInflightHolds == Spec => []BookmarkBehindInflight
<1>1. Inv => BookmarkBehindInflight
  <2> SUFFICES ASSUME Inv, NEW m \in inflight
               PROVE  saved < m
    BY DEF BookmarkBehindInflight
  <2>1. Order /\ Hands
    BY SMT, SMTT(30) DEF Inv
  <2>2. CASE Instant
    BY <2>1, <2>2, SMT, SMTT(30) DEF Order, Hands
  <2>3. CASE ~Instant
    <3>1. PICK i \in DOMAIN recs : recs[i] = m
      BY <2>1, <2>3, SMT, SMTT(30) DEF Order
    <3>2. saved < recs[i]
      BY <2>1, <2>3, SMT, SMTT(30) DEF Order
    <3> QED BY <3>1, <3>2, SMT, SMTT(30)
  <2> QED BY <2>2, <2>3, SMT, SMTT(30)
<1> QED
  BY <1>1, Invariance, PTL

\* A reader that sleeps on a full window is woken when there is room again:
\* the wakeup is posted or a thread is about to post it
\* (lib/logsource.c:86-91, lib/logreader.c:168-205).
THEOREM NoLostWakeupHolds == Spec => []NoLostWakeup
<1>1. Inv => NoLostWakeup
  BY DEF Inv, Wakeup, NoLostWakeup
<1> QED
  BY <1>1, Invariance, PTL

\* With a static window, no assertion of the source fails on a connection:
\* every message finds room in the window and a pending record for it, and
\* one job runs at a time (lib/logsource.c:583, lib/logreader.c:294,
\* lib/ack-tracker/consecutive_ack_tracker.c:102, lib/mainloop-io-worker.c:55).
THEOREM WindowAssertionsHold == Spec => [](~Dynamic /\ ~Notified => WindowAssertions)
<1>1. Inv => (~Dynamic /\ ~Notified => WindowAssertions)
  BY DEF Inv, Static, WindowAssertions
<1> QED
  BY <1>1, Invariance, PTL

\* Every variable keeps its type, the window and what is reclaimed never become
\* negative; so does the pool, until the source is freed or when it is empty
\* (lib/window-size-counter.c:71, lib/logsource.c:52).
THEOREM TypeCorrect == Spec => [](~Dynamic \/ ~freed => TypeOK)
<1>1. Inv => (~Dynamic \/ ~freed => TypeOK)
  <2> SUFFICES ASSUME Inv, ~Dynamic \/ ~freed
               PROVE  TypeOK
    BY SMT, SMTT(30)
  <2>1. free \in Nat
    BY ReaderConstants DEF Inv, CounterTypes, Static
  <2> QED BY <2>1 DEF Inv, ControlTypes, CounterTypes, AckTypesOK, TypeOK
<1> QED
  BY <1>1, Invariance, PTL
=============================================================================
