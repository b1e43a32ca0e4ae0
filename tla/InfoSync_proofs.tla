--------------------------- MODULE InfoSync_proofs ---------------------------
(***************************************************************************)
(* Theorems about InfoSync, for clusters, epochs and histories of every    *)
(* size and whatever the nodes announce: the histories are ordered and     *)
(* bounded, and dropping the oldest results hides none that governs a      *)
(* recent slot; what is agreed has the support required, is ranked alike   *)
(* by all, and includes full proposals.                                    *)
(*                                                                         *)
(* The invariant, IInv: what is sent, collected and agreed belongs to the  *)
(* current exchange (ExchangeInv); a node has recorded at most one result  *)
(* for a slot (RecordedInv); it retains them at least an epoch apart       *)
(* (Ordered), all of them or as many of the newest as there is room for    *)
(* (Kept).  A history that is full therefore spans MAX_RESULTS - 2 epochs  *)
(* (ReachesBack).                                                          *)
(*                                                                         *)
(* Scoring: the order of the sort is strict and total (RankedOrders), so   *)
(* a topic's result lists the included priorities and nothing else         *)
(* (RankedLists); one is included only with enough supporters              *)
(* (IncludedSupport), and for certain if few others are listed ahead of it *)
(* (IncludedIfSupported).                                                  *)
(***************************************************************************)
EXTENDS InfoSync, SequenceTheorems, FiniteSetTheorems, WellFoundedInduction, TLAPS

-----------------------------------------------------------------------------
(* Infosync slots are a whole number of epochs apart: the slot after one is none, and the
   next one is at least an epoch away *)
LEMMA SlotsSpaced ==
  ASSUME NEW s \in Nat, NEW t \in Nat, is_infosync_slot(s), is_infosync_slot(t), s < t
  PROVE  s + SLOTS_PER_EPOCH <= t
<1> DEFINE N == SLOTS_PER_EPOCH
           p == s \div N
           q == t \div N
<1>1. N \in Nat /\ N > 1
  BY InfoSyncAssumption
<1>2. /\ p \in Int /\ s = N * p + (N - 1)
      /\ q \in Int /\ t = N * q + (N - 1)
  BY <1>1 DEF is_infosync_slot
<1> HIDE DEF N, p, q
<1>3. N * (q - p) = N * q - N * p
  BY <1>1, <1>2
<1>4. q - p >= 1
  <2>1. ASSUME q - p <= 0 PROVE N * (q - p) <= 0
    BY <2>1, <1>1, <1>2
  <2>2. QED
    BY <2>1, <1>1, <1>2, <1>3
<1>5. N * (q - p) >= N
  BY <1>4, <1>1, <1>2
<1>6. QED
  BY <1>1, <1>2, <1>3, <1>5 DEF N

(* The slot after an infosync slot is none *)
LEMMA NextSlotIsNone ==
  ASSUME NEW s \in Nat, is_infosync_slot(s)
  PROVE  ~is_infosync_slot(s + 1)
BY SlotsSpaced, InfoSyncAssumption

(* A set of positions that is not empty has a largest one *)
LEMMA MaxOfPositions ==
  ASSUME NEW len \in Nat, NEW S \in SUBSET (1 .. len), S # {}
  PROVE  Max(S) \in S /\ \A i \in S : i <= Max(S)
<1> DEFINE T == {t \in SUBSET (1 .. len) : \E i \in S : t = i .. len}
<1>1. IsFiniteSet(1 .. len) /\ FiniteSubsetsOf(1 .. len) = SUBSET (1 .. len)
  BY FS_Interval, FS_FiniteSubsetsOfFinite
<1>2. T \subseteq SUBSET (1 .. len) /\ T # {}
  <2>1. PICK i \in S : TRUE
    OBVIOUS
  <2>2. i .. len \in T
    OBVIOUS
  <2>3. QED
    BY <2>2
<1>3. PICK x \in T : \A y \in T : ~(<<y, x>> \in StrictSubsetOrdering(1 .. len))
  <2>1. IsWellFoundedOn(StrictSubsetOrdering(1 .. len), SUBSET (1 .. len))
    BY <1>1, FS_StrictSubsetOrderingWellFounded
  <2>2. QED
    BY <1>2, <2>1, WFMin
<1>4. PICK m \in S : x = m .. len
  BY <1>3
<1>5. \A i \in S : m >= i
  <2> SUFFICES ASSUME NEW i \in S, i > m PROVE FALSE
    OBVIOUS
  <2>1. i .. len \subseteq m .. len /\ m \in m .. len /\ m \notin i .. len
    OBVIOUS
  <2>2. i .. len \in T /\ i .. len # x
    BY <1>4, <2>1
  <2>3. QED
    BY <1>2, <1>3, <1>4, <2>1, <2>2 DEF StrictSubsetOrdering
<1>6. QED
  BY <1>5 DEF Max

-----------------------------------------------------------------------------
(* The least distance of the slots of the i-th and the j-th of a series of results *)
Epochs(i, j) == (j - i) * SLOTS_PER_EPOCH

(* The distance grows by one epoch for each result *)
LEMMA EpochsAdd ==
  ASSUME NEW i \in Nat, NEW j \in Nat, i <= j
  PROVE  /\ Epochs(i, j) \in Nat
         /\ Epochs(i, j + 1) = Epochs(i, j) + SLOTS_PER_EPOCH
         /\ Epochs(i + 1, j + 1) = Epochs(i, j)
         /\ i = j => Epochs(i, j) = 0
         /\ i < j => Epochs(i, j) >= SLOTS_PER_EPOCH
         /\ SLOTS_PER_EPOCH \in Nat /\ SLOTS_PER_EPOCH > 1
<1> DEFINE N == SLOTS_PER_EPOCH
           k == j - i
<1>1. N \in Nat /\ N > 1 /\ k \in Nat
  BY InfoSyncAssumption
<1>2. (j + 1) - i = k + 1 /\ (j + 1) - (i + 1) = k /\ (i = j => k = 0) /\ (i < j => k >= 1)
  OBVIOUS
<1> HIDE DEF N, k
<1>3. /\ k * N \in Nat /\ (k + 1) * N = k * N + N
      /\ 0 * N = 0 /\ (k >= 1 => k * N >= N)
  BY <1>1
<1>4. /\ Epochs(i, j) = k * N /\ Epochs(i, j + 1) = (k + 1) * N
      /\ Epochs(i + 1, j + 1) = k * N
  BY <1>2 DEF Epochs, N, k
<1>5. QED
  BY <1>1, <1>2, <1>3, <1>4 DEF N

(* A history: short enough, and its slots at least an epoch apart *)
Ordered(h) ==
  /\ Len(h) < MAX_RESULTS
  /\ \A i, j \in 1 .. Len(h) :
       i < j => h[i].slot + Epochs(i, j) <= h[j].slot

(* A history has lost none of the results in R but the oldest, and these only when full *)
Kept(R, h) ==
  \A r \in R :
    \/ \E i \in 1 .. Len(h) : h[i] = r
    \/ Len(h) = MAX_RESULTS - 1 /\ r.slot < h[1].slot

(* Results of infosync slots *)
OfSlots(R) == \A r \in R : r.slot \in Nat /\ is_infosync_slot(r.slot)

(* Neighbours differ, so the slots of a history increase strictly *)
LEMMA OrderedStrictly ==
  ASSUME NEW R, OfSlots(R), NEW h \in Seq(R), Ordered(h),
         NEW i \in 1 .. Len(h), NEW j \in 1 .. Len(h), i < j
  PROVE  h[i].slot < h[j].slot
<1>1. h[i].slot \in Nat /\ h[j].slot \in Nat
  BY ElementOfSeq DEF OfSlots
<1>2. Epochs(i, j) \in Nat /\ Epochs(i, j) >= 1
  <2>1. i \in Nat /\ j \in Nat
    OBVIOUS
  <2>2. QED
    BY <2>1, EpochsAdd
<1>3. h[i].slot + Epochs(i, j) <= h[j].slot
  BY DEF Ordered
<1>4. QED
  BY <1>1, <1>2, <1>3

(* What add_result does to a history when the new result is the newest *)
LEMMA AddResultKeeps ==
  ASSUME NEW R, OfSlots(R), NEW h \in Seq(R), Ordered(h), Kept(R, h),
         NEW x, OfSlots({x}), \A r \in R : r.slot <= x.slot /\ (r.slot = x.slot => r = x)
  PROVE  LET T == R \cup {r \in {x} : r.versions # <<>>}
             g == add_result(h, x)
         IN  /\ g \in Seq(T) /\ Ordered(g) /\ Kept(T, g)
             /\ \/ g = h
                \/ /\ g # <<>> /\ g[Len(g)] = x
                   /\ T = R \cup {x}
                   /\ \A r \in R : r.slot < x.slot
<1> DEFINE T == R \cup {r \in {x} : r.versions # <<>>}
           g == add_result(h, x)
           L == Len(h)
           u == Append(h, x)
<1>a. /\ MAX_RESULTS \in Nat /\ MAX_RESULTS > 1
      /\ SLOTS_PER_EPOCH \in Nat /\ SLOTS_PER_EPOCH > 1
      /\ L \in Nat /\ L < MAX_RESULTS
      /\ \A i \in 1 .. L : h[i] \in R /\ h[i].slot \in Nat
      /\ x.slot \in Nat
  BY InfoSyncAssumption DEF Ordered, OfSlots
<1>b. h \in Seq(T)
  BY SeqMonotonic
<1>1. CASE x.versions = <<>>
  BY <1>1, <1>b DEF add_result
<1>2. CASE x.versions # <<>> /\ h # <<>> /\ h[L] = x
  <2>1. g = h /\ x \in R /\ T = R
    BY <1>2, <1>a DEF add_result
  <2>2. QED
    BY <2>1, <1>b
<1>3. CASE x.versions # <<>> /\ ~(h # <<>> /\ h[L] = x)
  <2>1. T = R \cup {x}
    BY <1>3
  <2>2. x \notin R
    <3> SUFFICES ASSUME x \in R PROVE FALSE
      OBVIOUS
    <3>1. CASE \E i \in 1 .. L : h[i] = x
      <4>1. PICK i \in 1 .. L : h[i] = x
        BY <3>1
      <4>2. i < L /\ L \in 1 .. L
        BY <4>1, <1>a, <1>3
      <4>3. h[i].slot < h[L].slot
        BY <4>2, OrderedStrictly
      <4>4. QED
        BY <4>1, <4>2, <4>3, <1>a
    <3>2. CASE L = MAX_RESULTS - 1 /\ x.slot < h[1].slot
      BY <3>2, <1>a
    <3>3. QED
      BY <3>1, <3>2 DEF Kept
  <2>3. \A r \in R : r.slot < x.slot
    BY <2>2, <1>a DEF OfSlots
  <2>4. \A r \in R : r.slot + SLOTS_PER_EPOCH <= x.slot
    BY <2>3, SlotsSpaced DEF OfSlots
  <2>5. /\ u \in Seq(T) /\ Len(u) = L + 1 /\ u[L + 1] = x
        /\ \A i \in 1 .. L : u[i] = h[i]
    BY <2>1, <1>b, AppendProperties
  <2> HIDE DEF u, L
  <2>6. \A i, j \in 1 .. L + 1 :
          i < j => u[i].slot + Epochs(i, j) <= u[j].slot
    <3> SUFFICES ASSUME NEW i \in 1 .. L + 1, NEW j \in 1 .. L + 1, i < j
                 PROVE  u[i].slot + Epochs(i, j) <= u[j].slot
      OBVIOUS
    <3>1. CASE j <= L
      BY <3>1, <2>5, <1>a DEF Ordered, L
    <3>2. CASE j = L + 1 /\ i < L
      <4>1. h[i].slot + Epochs(i, L) <= h[L].slot /\ L \in 1 .. L
        BY <3>2, <1>a DEF Ordered, L
      <4>2. h[L].slot + SLOTS_PER_EPOCH <= x.slot
        BY <4>1, <2>4, <1>a
      <4>3. Epochs(i, j) = Epochs(i, L) + SLOTS_PER_EPOCH
            /\ Epochs(i, L) \in Nat
        <5>1. i \in Nat /\ i <= L /\ j = L + 1
          BY <3>2, <1>a
        <5>2. Epochs(i, L + 1) = Epochs(i, L) + SLOTS_PER_EPOCH /\ Epochs(i, L) \in Nat
          BY <5>1, <1>a, EpochsAdd
        <5>3. QED
          BY <5>1, <5>2
      <4>4. u[i] = h[i] /\ u[j] = x /\ h[i].slot \in Nat /\ h[L].slot \in Nat /\ x.slot \in Nat
        BY <3>2, <4>1, <2>5, <1>a
      <4>5. h[i].slot + Epochs(i, j) <= x.slot
        <5>1. SLOTS_PER_EPOCH \in Nat
          BY <1>a
        <5>2. h[i].slot + Epochs(i, L) <= h[L].slot /\ h[L].slot + SLOTS_PER_EPOCH <= x.slot
          BY <4>1, <4>2
        <5> DEFINE a == h[i].slot
                   b == h[L].slot
                   c == x.slot
                   d == Epochs(i, L)
                   e == SLOTS_PER_EPOCH
        <5>3. /\ a \in Nat /\ b \in Nat /\ c \in Nat /\ d \in Nat /\ e \in Nat
              /\ a + d <= b /\ b + e <= c /\ Epochs(i, j) = d + e
          BY <5>1, <5>2, <4>3, <4>4
        <5> HIDE DEF a, b, c, d, e
        <5>4. a + Epochs(i, j) <= c
          BY <5>3
        <5>5. QED
          BY <5>4 DEF a, c
      <4>6. QED
        BY <4>4, <4>5
    <3>3. CASE j = L + 1 /\ i = L
      <4>1. j = i + 1 /\ i \in 1 .. L /\ Epochs(i, i + 1) = SLOTS_PER_EPOCH
        BY <3>3, <1>a, EpochsAdd
      <4>2. u[i] = h[i] /\ h[i] \in R /\ u[j] = x
        BY <4>1, <3>3, <2>5, <1>a
      <4>3. QED
        BY <4>1, <4>2, <2>4
    <3>4. QED
      BY <3>1, <3>2, <3>3, <1>a
  <2>7. CASE Len(u) < MAX_RESULTS
    <3>1. g = u
      BY <2>7, <1>3, <1>a, <2>5 DEF add_result, u, L
    <3>2. Kept(T, u)
      <4> SUFFICES ASSUME NEW r \in T PROVE \E i \in 1 .. Len(u) : u[i] = r
        BY DEF Kept
      <4>1. CASE r = x
        BY <4>1, <2>5, <1>a
      <4>2. CASE r \in R
        <5>1. PICK i \in 1 .. L : h[i] = r
          BY <4>2, <2>5, <2>7, <1>a DEF Kept, L
        <5>2. QED
          BY <5>1, <2>5, <1>a
      <4>3. QED
        BY <4>1, <4>2, <2>1
    <3>3. Ordered(u)
      BY <2>5, <2>6, <2>7 DEF Ordered, L
    <3>4. u # <<>> /\ u[Len(u)] = x
      BY <2>5, <1>a
    <3>5. QED
      BY <3>1, <3>2, <3>3, <3>4, <2>1, <2>3, <2>5
  <2>8. CASE Len(u) >= MAX_RESULTS
    <3>1. g = Tail(u) /\ L = MAX_RESULTS - 1 /\ L >= 1
      BY <2>8, <1>3, <1>a, <2>5 DEF add_result, u, L
    <3>2. g \in Seq(T) /\ Len(g) = L /\ \A i \in 1 .. L : g[i] = u[i + 1]
      BY <3>1, <2>5, <1>a
    <3>3. Ordered(g)
      <4> SUFFICES ASSUME NEW i \in 1 .. L, NEW j \in 1 .. L, i < j
                   PROVE  g[i].slot + Epochs(i, j) <= g[j].slot
        BY <3>1, <3>2, <1>a DEF Ordered
      <4>1. /\ Epochs(i + 1, j + 1) = Epochs(i, j)
            /\ i + 1 \in 1 .. L + 1 /\ j + 1 \in 1 .. L + 1 /\ i + 1 < j + 1
        BY <1>a, EpochsAdd
      <4>2. QED
        BY <4>1, <2>6, <3>2
    <3>4. g[L] = x /\ g # <<>>
      BY <3>1, <3>2, <2>5
    <3>5. u[1].slot < g[1].slot /\ g[1].slot \in Nat /\ u[1] = h[1]
      <4>1. u[1].slot + Epochs(1, 2) <= u[2].slot /\ u[1] = h[1] /\ g[1] = u[2]
        BY <2>5, <2>6, <3>1, <3>2, <1>a
      <4>2. u[1].slot \in Nat /\ u[2].slot \in Nat
        <5>1. u[1] \in R \cup {x} /\ u[2] \in R \cup {x}
          BY <2>1, <2>5, <3>1, <1>a, ElementOfSeq
        <5>2. QED
          BY <5>1, <1>a DEF OfSlots
      <4>3. Epochs(1, 2) >= SLOTS_PER_EPOCH /\ Epochs(1, 2) \in Nat
        BY EpochsAdd
      <4>4. QED
        BY <4>1, <4>2, <4>3, <1>a
    <3>6. Kept(T, g)
      <4> SUFFICES ASSUME NEW r \in T, ~\E i \in 1 .. Len(g) : g[i] = r
                   PROVE  r.slot < g[1].slot
        BY <3>1, <3>2 DEF Kept
      <4>1. r # x
        BY <3>1, <3>2, <3>4, <1>a
      <4>2. r \in R /\ r.slot \in Nat
        BY <4>1, <2>1 DEF OfSlots
      <4>3. CASE \E i \in 1 .. L : h[i] = r
        <5>1. PICK i \in 1 .. L : h[i] = r
          BY <4>3
        <5>2. i = 1
          <6> SUFFICES ASSUME i > 1 PROVE FALSE
            BY <1>a
          <6>1. i - 1 \in 1 .. L /\ (i - 1) + 1 = i
            BY <1>a
          <6>2. QED
            BY <6>1, <5>1, <3>2, <2>5
        <5>3. QED
          BY <5>1, <5>2, <3>5
      <4>4. CASE r.slot < h[1].slot
        <5>1. h[1].slot \in Nat
          BY <3>1, <1>a
        <5>2. QED
          BY <4>4, <4>2, <5>1, <3>5
      <4>5. QED
        BY <4>2, <4>3, <4>4 DEF Kept, L
    <3>7. QED
      BY <3>2, <3>3, <3>4, <3>6, <2>1, <2>3
  <2>9. QED
    BY <2>7, <2>8, <2>5, <1>a
<1>4. QED
  BY <1>1, <1>2, <1>3

(* The look-up finds the newest result up to a slot, when a full history reaches back to it *)
LEMMA LookUpFinds ==
  ASSUME NEW R, OfSlots(R), NEW h \in Seq(R), Ordered(h), Kept(R, h),
         NEW s \in Int, Len(h) = MAX_RESULTS - 1 => h[1].slot <= s
  PROVE  LET governing == {r \in R : r.slot <= s}
             found == latest_result(h, s)
         IN  IF governing = {} THEN found = None
             ELSE found \in governing /\ \A r \in governing : r.slot <= found.slot
<1> DEFINE governing == {r \in R : r.slot <= s}
           found == latest_result(h, s)
           upTo == {i \in DOMAIN h : \A j \in 1 .. i : h[j].slot <= s}
<1>1. /\ Len(h) \in Nat /\ DOMAIN h = 1 .. Len(h)
      /\ \A i \in 1 .. Len(h) : h[i] \in R /\ h[i].slot \in Nat
      /\ MAX_RESULTS \in Nat /\ MAX_RESULTS > 1
  BY ElementOfSeq, InfoSyncAssumption DEF OfSlots
<1>2. \A i \in upTo : i \in 1 .. Len(h) /\ h[i] \in governing
  BY <1>1
<1>3. \A i \in 1 .. Len(h) : h[i].slot <= s => i \in upTo
  <2> SUFFICES ASSUME NEW i \in 1 .. Len(h), h[i].slot <= s, NEW j \in 1 .. i
               PROVE  h[j].slot <= s
    BY <1>1
  <2>1. j \in 1 .. Len(h) /\ j <= i
    BY <1>1
  <2>2. CASE j = i
    BY <2>2
  <2>3. CASE j < i
    <3>1. h[j].slot < h[i].slot
      BY <2>1, <2>3, OrderedStrictly
    <3>2. QED
      BY <3>1, <2>1, <1>1
  <2>4. QED
    BY <2>1, <2>2, <2>3
<1>4. \A r \in governing : upTo # {} /\ ((\E i \in upTo : h[i] = r) \/ r.slot < h[1].slot)
  <2> SUFFICES ASSUME NEW r \in governing
               PROVE  upTo # {} /\ ((\E i \in upTo : h[i] = r) \/ r.slot < h[1].slot)
    OBVIOUS
  <2>1. CASE \E i \in 1 .. Len(h) : h[i] = r
    BY <2>1, <1>3
  <2>2. CASE Len(h) = MAX_RESULTS - 1 /\ r.slot < h[1].slot
    <3>1. 1 \in 1 .. Len(h) /\ h[1].slot <= s
      BY <2>2, <1>1
    <3>2. QED
      BY <3>1, <2>2, <1>3
  <2>3. QED
    BY <2>1, <2>2 DEF Kept
<1>5. CASE upTo = {}
  <2>1. governing = {}
    BY <1>4, <1>5
  <2>2. found = None
    BY <1>5 DEF latest_result
  <2>3. QED
    BY <2>1, <2>2
<1>6. CASE upTo # {}
  <2>1. found = h[Max(upTo)]
    BY <1>6 DEF latest_result
  <2> HIDE DEF upTo, found
  <2>2. Max(upTo) \in upTo /\ \A i \in upTo : i <= Max(upTo)
    BY <1>1, <1>2, <1>6, MaxOfPositions
  <2>3. found \in governing
    BY <2>1, <2>2, <1>2
  <2>4. \A i \in 1 .. Max(upTo) : h[i].slot <= found.slot
    <3> SUFFICES ASSUME NEW i \in 1 .. Max(upTo) PROVE h[i].slot <= found.slot
      OBVIOUS
    <3>1. i \in 1 .. Len(h) /\ Max(upTo) \in 1 .. Len(h) /\ i <= Max(upTo)
      BY <2>2, <1>1, <1>2
    <3>2. CASE i = Max(upTo)
      BY <3>2, <2>1, <3>1, <1>1
    <3>3. CASE i < Max(upTo)
      BY <3>1, <3>3, <2>1, <1>1, OrderedStrictly
    <3>4. QED
      BY <3>1, <3>2, <3>3
  <2>5. \A r \in governing : r.slot <= found.slot
    <3> SUFFICES ASSUME NEW r \in governing PROVE r.slot <= found.slot
      OBVIOUS
    <3>1. CASE \E i \in upTo : h[i] = r
      BY <3>1, <2>2, <2>4, <1>1, <1>2
    <3>2. CASE r.slot < h[1].slot
      <4>1. Max(upTo) \in 1 .. Len(h) /\ r.slot \in Nat /\ found.slot \in Nat
        BY <2>2, <2>3, <1>2 DEF OfSlots
      <4>2. h[1].slot <= found.slot /\ h[1].slot \in Nat
        BY <4>1, <2>4, <1>1
      <4>3. QED
        BY <4>1, <4>2, <3>2
    <3>3. QED
      BY <3>1, <3>2, <1>4
  <2>6. QED
    BY <2>3, <2>5 DEF found
<1>7. QED
  BY <1>5, <1>6

-----------------------------------------------------------------------------
(* The infosync slot of the current exchange, if there is one *)
Exchange == IF is_infosync_slot(slot) THEN slot ELSE slot - 1

(* All that is sent, collected and agreed is of the current exchange *)
ExchangeInv ==
  /\ slot \in Nat
  /\ sent # {} => Exchange \in Nat /\ is_infosync_slot(Exchange)
  /\ \A m \in sent : m.duty.slot = Exchange
  /\ collected = [n \in Correct |-> collected[n]]
  /\ \A n \in Correct : collected[n] \in Seq(sent)
  /\ agreed # None => /\ Exchange \in Nat /\ is_infosync_slot(Exchange)
                      /\ InfoSyncResult(agreed).slot = Exchange

(* The results a node has recorded: one per slot, that of the current exchange being the
   one agreed *)
RecordedInv(n) ==
  /\ OfSlots(recorded[n])
  /\ \A r \in recorded[n] :
       /\ r.slot <= Exchange
       /\ r.slot = Exchange => agreed # None /\ r = InfoSyncResult(agreed)
       /\ \A q \in recorded[n] : q.slot = r.slot => q = r

(* The history of a node: ordered, and of all it has recorded without the oldest *)
RetainedInv(n) ==
  /\ results[n] \in Seq(recorded[n])
  /\ Ordered(results[n])
  /\ Kept(recorded[n], results[n])

(* The histories of all correct nodes *)
HistoryInv ==
  /\ results = [n \in Correct |-> results[n]]
  /\ recorded = [n \in Correct |-> recorded[n]]
  /\ \A n \in Correct : RecordedInv(n) /\ RetainedInv(n)

(* The inductive invariant *)
IInv == ExchangeInv /\ HistoryInv

(* The invariant holds initially: nothing has been sent or recorded *)
LEMMA InitIInv == Init => IInv
<1> SUFFICES ASSUME Init PROVE IInv
  OBVIOUS
<1>1. ExchangeInv
  <2>1. /\ collected = [n \in Correct |-> collected[n]]
        /\ \A n \in Correct : collected[n] \in Seq(sent)
    BY EmptySeq DEF Init
  <2>2. QED
    BY <2>1 DEF Init, ExchangeInv
<1>2. \A n \in Correct : RecordedInv(n)
  BY DEF Init, RecordedInv, OfSlots
<1>3. \A n \in Correct : RetainedInv(n)
  <2> SUFFICES ASSUME NEW n \in Correct PROVE RetainedInv(n)
    OBVIOUS
  <2>1. results[n] = <<>> /\ recorded[n] = {}
    BY DEF Init
  <2>2. <<>> \in Seq({}) /\ Ordered(<<>>) /\ Kept({}, <<>>)
    BY EmptySeq, InfoSyncAssumption DEF Ordered, Kept
  <2>3. QED
    BY <2>1, <2>2 DEF RetainedInv
<1>4. QED
  BY <1>1, <1>2, <1>3 DEF IInv, HistoryInv, Init

(* A step that leaves the exchange and its agreement alone leaves the histories right *)
LEMMA HistoryUnchanged ==
  ASSUME HistoryInv, UNCHANGED <<slot, agreed, results, recorded>>
  PROVE  HistoryInv'
BY DEF HistoryInv, RecordedInv, RetainedInv, Exchange, InfoSyncResult, OfSlots

(* The slot after an exchange still belongs to it; with the next one, it has expired *)
LEMMA TickIInv ==
  ASSUME IInv, Tick
  PROVE  IInv'
<1>1. slot \in Nat /\ slot' = slot + 1 /\ slot' \in Nat
  BY DEF IInv, ExchangeInv, Tick
<1>2. CASE is_infosync_slot(slot)
  <2>1. Exchange' = Exchange
    BY <1>1, <1>2, NextSlotIsNone DEF Exchange
  <2>2. UNCHANGED <<sent, collected, agreed, results, recorded>>
    BY <1>2 DEF Tick
  <2>3. ExchangeInv'
    BY <1>1, <2>1, <2>2 DEF IInv, ExchangeInv, InfoSyncResult
  <2>4. HistoryInv'
    BY <2>1, <2>2 DEF IInv, HistoryInv, RecordedInv, RetainedInv, InfoSyncResult
  <2>5. QED
    BY <2>3, <2>4 DEF IInv
<1>3. CASE ~is_infosync_slot(slot)
  <2>1. Exchange = slot - 1 /\ Exchange' \in Int /\ Exchange' >= slot
    BY <1>1, <1>3 DEF Exchange
  <2>2. /\ sent' = {} /\ agreed' = None
        /\ collected' = [n \in Correct |-> <<>>]
        /\ UNCHANGED <<results, recorded>>
    BY <1>3 DEF Tick
  <2>3. ExchangeInv'
    <3>1. collected' = [n \in Correct |-> collected'[n]]
          /\ \A n \in Correct : collected'[n] \in Seq(sent')
      BY <2>2, EmptySeq
    <3>2. QED
      BY <1>1, <2>2, <3>1 DEF ExchangeInv
  <2>4. ASSUME NEW n \in Correct PROVE RecordedInv(n)' /\ RetainedInv(n)'
    <3>1. \A r \in recorded[n] : r.slot \in Nat /\ r.slot < Exchange'
      BY <1>1, <2>1 DEF IInv, HistoryInv, RecordedInv, OfSlots
    <3>2. RecordedInv(n)'
      BY <3>1, <2>1, <2>2 DEF IInv, HistoryInv, RecordedInv
    <3>3. RetainedInv(n)'
      BY <2>2 DEF IInv, HistoryInv, RetainedInv
    <3>4. QED
      BY <3>2, <3>3
  <2>5. QED
    BY <2>2, <2>3, <2>4 DEF IInv, HistoryInv
<1>4. QED
  BY <1>2, <1>3

(* Announcing and collecting *)
LEMMA TriggerIInv ==
  ASSUME IInv, NEW n \in Correct, Trigger(n)
  PROVE  IInv'
<1> DEFINE own == Message(n, LocalTopics(config[n]))
<1>1. /\ is_infosync_slot(slot) /\ slot' = slot /\ agreed' = agreed
      /\ sent' = sent \cup {own}
      /\ collected' = [collected EXCEPT ![n] = <<own>>]
  BY DEF Trigger
<1>2. Exchange = slot /\ Exchange' = Exchange /\ own.duty.slot = Exchange
  BY <1>1 DEF Exchange, Message, infosync_duty
<1> HIDE DEF own
<1>3. \A m \in Correct : collected'[m] \in Seq(sent')
  <2> SUFFICES ASSUME NEW m \in Correct PROVE collected'[m] \in Seq(sent')
    OBVIOUS
  <2>1. collected[m] \in Seq(sent) /\ collected = [k \in Correct |-> collected[k]]
    BY DEF IInv, ExchangeInv
  <2>2. collected[m] \in Seq(sent')
    BY <2>1, <1>1, SeqMonotonic
  <2>3. <<own>> \in Seq(sent')
    BY <1>1
  <2>4. collected'[m] = IF m = n THEN <<own>> ELSE collected[m]
    BY <2>1, <1>1
  <2>5. QED
    BY <2>2, <2>3, <2>4
<1>4. ExchangeInv'
  BY <1>1, <1>2, <1>3 DEF IInv, ExchangeInv, InfoSyncResult
<1>5. HistoryInv'
  BY HistoryUnchanged DEF IInv, Trigger
<1>6. QED
  BY <1>4, <1>5 DEF IInv

(* A faulty node announces in the current exchange too *)
LEMMA FaultyTriggerIInv ==
  ASSUME IInv, NEW n \in Faulty, FaultyTrigger(n)
  PROVE  IInv'
<1>1. PICK topics \in FaultyTopics : sent' = sent \cup {Message(n, topics)}
  BY DEF FaultyTrigger
<1>2. /\ is_infosync_slot(slot) /\ slot' = slot /\ agreed' = agreed /\ collected' = collected
  BY DEF FaultyTrigger
<1>3. Exchange = slot /\ Exchange' = Exchange /\ Message(n, topics).duty.slot = Exchange
  BY <1>2 DEF Exchange, Message, infosync_duty
<1>4. \A m \in Correct : collected'[m] \in Seq(sent')
  BY <1>1, <1>2, SeqMonotonic DEF IInv, ExchangeInv
<1>5. ExchangeInv'
  BY <1>1, <1>2, <1>3, <1>4 DEF IInv, ExchangeInv, InfoSyncResult
<1>6. HistoryInv'
  BY HistoryUnchanged DEF IInv, FaultyTrigger
<1>7. QED
  BY <1>5, <1>6 DEF IInv

(* What is collected has been sent *)
LEMMA CollectIInv ==
  ASSUME IInv, NEW n \in Correct, NEW m \in sent, Collect(n, m)
  PROVE  IInv'
<1>1. /\ UNCHANGED <<slot, agreed, sent>>
      /\ collected' = [collected EXCEPT ![n] = Append(@, m)]
  BY DEF Collect
<1>2. /\ collected = [k \in Correct |-> collected[k]]
      /\ \A k \in Correct : collected[k] \in Seq(sent)
  BY DEF IInv, ExchangeInv
<1>3. \A k \in Correct : collected'[k] \in Seq(sent')
  BY <1>1, <1>2, AppendProperties
<1>4. ExchangeInv'
  BY <1>1, <1>2, <1>3 DEF IInv, ExchangeInv, InfoSyncResult, Exchange
<1>5. HistoryInv'
  BY HistoryUnchanged DEF IInv, Collect
<1>6. QED
  BY <1>4, <1>5 DEF IInv

(* A result agreed is one of the exchange it was calculated in *)
LEMMA AgreeIInv ==
  ASSUME IInv, NEW n \in Correct, Agree(n)
  PROVE  IInv'
<1>1. /\ UNCHANGED <<slot, sent, collected, results, recorded>>
      /\ agreed = None /\ collected[n] # <<>>
      /\ agreed'.msgs = collected[n]
  BY DEF Agree, validate_msgs, calculate_result
<1>2. collected[n][1] \in sent
  BY <1>1, ElementOfSeq, EmptySeq DEF IInv, ExchangeInv
<1>3. /\ InfoSyncResult(agreed').slot = Exchange /\ Exchange' = Exchange
      /\ Exchange \in Nat /\ is_infosync_slot(Exchange)
  BY <1>1, <1>2 DEF IInv, ExchangeInv, InfoSyncResult, Exchange
<1>4. ExchangeInv'
  BY <1>1, <1>3 DEF IInv, ExchangeInv
<1>5. ASSUME NEW m \in Correct PROVE RecordedInv(m)'
  <2>1. \A r \in recorded[m] : r.slot # Exchange
    BY <1>1 DEF IInv, HistoryInv, RecordedInv
  <2>2. QED
    BY <1>1, <1>3, <2>1 DEF IInv, HistoryInv, RecordedInv
<1>6. \A m \in Correct : RetainedInv(m)'
  BY <1>1 DEF IInv, HistoryInv, RetainedInv
<1>7. QED
  BY <1>1, <1>4, <1>5, <1>6 DEF IInv, HistoryInv

(* What the delivery of a result does to the history of its node *)
LEMMA DeliverStep ==
  ASSUME IInv, NEW n \in Correct, Deliver(n)
  PROVE  LET x == InfoSyncResult(agreed)
         IN  /\ OfSlots({x}) /\ x.slot = Exchange
             /\ \A r \in recorded[n] : r.slot <= x.slot /\ (r.slot = x.slot => r = x)
             /\ results'[n] = add_result(results[n], x)
             /\ recorded'[n] = recorded[n] \cup {r \in {x} : r.versions # <<>>}
             /\ \A m \in Correct \ {n} : results'[m] = results[m] /\ recorded'[m] = recorded[m]
<1> DEFINE x == InfoSyncResult(agreed)
<1>1. /\ agreed # None
      /\ results' = [results EXCEPT ![n] = add_result(@, x)]
      /\ recorded' = [recorded EXCEPT ![n] = @ \cup {r \in {x} : r.versions # <<>>}]
  BY DEF Deliver
<1>2. x.slot = Exchange /\ is_infosync_slot(Exchange) /\ Exchange \in Nat
  BY <1>1 DEF IInv, ExchangeInv
<1> HIDE DEF x
<1>3. OfSlots({x})
  BY <1>2 DEF OfSlots
<1>4. \A r \in recorded[n] : r.slot <= x.slot /\ (r.slot = x.slot => r = x)
  BY <1>2 DEF IInv, HistoryInv, RecordedInv, x
<1>5. results = [m \in Correct |-> results[m]] /\ recorded = [m \in Correct |-> recorded[m]]
  BY DEF IInv, HistoryInv
<1>6. QED
  BY <1>1, <1>2, <1>3, <1>4, <1>5 DEF x

(* Recording the result of the exchange, once or again *)
LEMMA DeliverIInv ==
  ASSUME IInv, NEW n \in Correct, Deliver(n)
  PROVE  IInv'
<1> DEFINE x == InfoSyncResult(agreed)
<1>1. /\ OfSlots({x}) /\ x.slot = Exchange
      /\ \A r \in recorded[n] : r.slot <= x.slot /\ (r.slot = x.slot => r = x)
      /\ results'[n] = add_result(results[n], x)
      /\ recorded'[n] = recorded[n] \cup {r \in {x} : r.versions # <<>>}
      /\ \A m \in Correct \ {n} : results'[m] = results[m] /\ recorded'[m] = recorded[m]
  BY DeliverStep
<1>2. /\ UNCHANGED <<slot, sent, collected, agreed>> /\ Exchange' = Exchange
      /\ x' = x /\ agreed # None
  BY DEF Deliver, Exchange, InfoSyncResult
<1> HIDE DEF x
<1>3. ExchangeInv'
  BY <1>2 DEF IInv, ExchangeInv, x
<1>4. ASSUME NEW m \in Correct \ {n} PROVE RecordedInv(m)' /\ RetainedInv(m)'
  BY <1>1, <1>2 DEF IInv, HistoryInv, RecordedInv, RetainedInv, x
<1>5. RecordedInv(n) /\ RetainedInv(n)
  BY DEF IInv, HistoryInv
<1>6. RetainedInv(n)'
  BY <1>1, <1>5, AddResultKeeps DEF RetainedInv, RecordedInv
<1>7. RecordedInv(n)'
  <2>1. OfSlots(recorded'[n])
    BY <1>1, <1>5 DEF RecordedInv, OfSlots
  <2>2. \A r \in recorded'[n] : r \in recorded[n] \/ r = x
    BY <1>1
  <2>3. \A r \in recorded'[n] : r.slot <= Exchange /\ (r.slot = Exchange => r = x)
    BY <1>1, <1>5, <2>2 DEF RecordedInv, OfSlots
  <2>4. \A r, q \in recorded'[n] : q.slot = r.slot => q = r
    BY <1>1, <1>5, <2>2, <2>3 DEF RecordedInv
  <2>5. QED
    BY <1>2, <2>1, <2>3, <2>4 DEF RecordedInv, x
<1>8. results' = [m \in Correct |-> results'[m]] /\ recorded' = [m \in Correct |-> recorded'[m]]
  BY DEF Deliver, IInv, HistoryInv
<1>9. QED
  BY <1>3, <1>4, <1>6, <1>7, <1>8 DEF IInv, HistoryInv

(* A restarted node has an empty history of nothing recorded *)
LEMMA RestartIInv ==
  ASSUME IInv, NEW n \in Correct, NEW c \in Config, Restart(n, c)
  PROVE  IInv'
<1>1. /\ UNCHANGED <<slot, sent, agreed>> /\ Exchange' = Exchange
      /\ collected' = [collected EXCEPT ![n] = <<>>]
      /\ results' = [results EXCEPT ![n] = <<>>]
      /\ recorded' = [recorded EXCEPT ![n] = {}]
  BY DEF Restart, Exchange
<1>2. /\ collected = [k \in Correct |-> collected[k]]
      /\ results = [k \in Correct |-> results[k]]
      /\ recorded = [k \in Correct |-> recorded[k]]
  BY DEF IInv, ExchangeInv, HistoryInv
<1>3. ExchangeInv'
  <2>1. \A k \in Correct : collected'[k] \in Seq(sent')
    BY <1>1, <1>2, EmptySeq DEF IInv, ExchangeInv
  <2>2. QED
    BY <1>1, <1>2, <2>1 DEF IInv, ExchangeInv, InfoSyncResult
<1>4. ASSUME NEW m \in Correct PROVE RecordedInv(m)' /\ RetainedInv(m)'
  <2>1. CASE m # n
    <3>1. results'[m] = results[m] /\ recorded'[m] = recorded[m]
      BY <1>1, <1>2, <2>1
    <3>2. QED
      BY <1>1, <3>1 DEF IInv, HistoryInv, RecordedInv, RetainedInv, InfoSyncResult
  <2>2. CASE m = n
    <3>1. results'[m] = <<>> /\ recorded'[m] = {}
      BY <1>1, <1>2, <2>2
    <3>2. <<>> \in Seq({}) /\ Ordered(<<>>) /\ Kept({}, <<>>)
      BY EmptySeq, InfoSyncAssumption DEF Ordered, Kept
    <3>3. QED
      BY <3>1, <3>2 DEF RecordedInv, RetainedInv, OfSlots
  <2>3. QED
    BY <2>1, <2>2
<1>5. QED
  BY <1>1, <1>2, <1>3, <1>4 DEF IInv, HistoryInv

(* Every step preserves the invariant *)
LEMMA NextIInv ==
  ASSUME IInv, [Next]_vars
  PROVE  IInv'
<1>1. CASE UNCHANGED vars
  <2>1. ExchangeInv'
    BY <1>1 DEF vars, IInv, ExchangeInv, Exchange, InfoSyncResult
  <2>2. QED
    BY <1>1, <2>1, HistoryUnchanged DEF vars, IInv
<1>2. CASE Next
  BY <1>2, TickIInv, TriggerIInv, FaultyTriggerIInv, CollectIInv, AgreeIInv, DeliverIInv,
     RestartIInv DEF Next
<1>3. QED
  BY <1>1, <1>2

-----------------------------------------------------------------------------
(* The invariant holds in every reachable state *)
LEMMA Invariance == Spec => []IInv
<1>1. Init => IInv
  BY InitIInv
<1>2. IInv /\ [Next]_vars => IInv'
  BY NextIInv
<1>3. QED
  BY <1>1, <1>2, PTL DEF Spec

(* infosync.py:259,279: a history stays below MAX_RESULTS and in the order of the slots,
   whatever the nodes announce, collect and agree, and however often a result is delivered *)
THEOREM HistoryIsOK == Spec => []HistoryOK
<1>1. IInv => HistoryOK
  <2> SUFFICES ASSUME IInv, NEW n \in Correct
               PROVE  /\ Len(results[n]) < MAX_RESULTS
                      /\ \A i \in DOMAIN results[n] :
                           /\ is_infosync_slot(results[n][i].slot) /\ results[n][i].slot <= slot
                           /\ \A j \in 1 .. i - 1 : results[n][j].slot < results[n][i].slot
    BY DEF HistoryOK
  <2>1. /\ results[n] \in Seq(recorded[n]) /\ Ordered(results[n]) /\ OfSlots(recorded[n])
        /\ \A r \in recorded[n] : r.slot <= Exchange
        /\ slot \in Nat
    BY DEF IInv, HistoryInv, ExchangeInv, RecordedInv, RetainedInv
  <2>2. Exchange \in Int /\ Exchange <= slot
    BY <2>1 DEF Exchange
  <2>3. Len(results[n]) \in Nat /\ DOMAIN results[n] = 1 .. Len(results[n])
    BY <2>1
  <2>4. ASSUME NEW i \in DOMAIN results[n]
        PROVE  /\ is_infosync_slot(results[n][i].slot) /\ results[n][i].slot <= slot
               /\ \A j \in 1 .. i - 1 : results[n][j].slot < results[n][i].slot
    <3>1. results[n][i] \in recorded[n]
      BY <2>1, <2>3, ElementOfSeq
    <3>2. is_infosync_slot(results[n][i].slot) /\ results[n][i].slot <= slot
      BY <3>1, <2>1, <2>2 DEF OfSlots
    <3>3. ASSUME NEW j \in 1 .. i - 1 PROVE results[n][j].slot < results[n][i].slot
      <4>1. i \in 1 .. Len(results[n]) /\ j \in 1 .. Len(results[n]) /\ j < i
        BY <2>3
      <4>2. QED
        BY <4>1, <2>1, OrderedStrictly
    <3>4. QED
      BY <3>2, <3>3
  <2>5. QED
    BY <2>1, <2>4 DEF Ordered
<1>2. QED
  BY <1>1, Invariance, PTL

(* A full history whose results are no later than slot t reaches back to the recent slots *)
LEMMA ReachesBack ==
  ASSUME NEW R, OfSlots(R), NEW h \in Seq(R), Ordered(h), Len(h) = MAX_RESULTS - 1,
         NEW t \in Nat, \A r \in R : r.slot <= t,
         NEW s \in Int, s >= t - (MAX_RESULTS - 2) * SLOTS_PER_EPOCH
  PROVE  h[1].slot <= s
<1> DEFINE L == Len(h)
<1>1. MAX_RESULTS \in Nat /\ MAX_RESULTS > 1 /\ L = MAX_RESULTS - 1 /\ L \in Nat /\ L >= 1
  BY InfoSyncAssumption
<1>2. h[1] \in R /\ h[L] \in R
  BY <1>1, ElementOfSeq
<1>3. h[1].slot \in Nat /\ h[L].slot \in Nat /\ h[L].slot <= t
  BY <1>2 DEF OfSlots
<1>4. Epochs(1, L) \in Nat /\ (L = 1 => Epochs(1, L) = 0)
  BY <1>1, EpochsAdd
<1>5. h[1].slot + Epochs(1, L) <= h[L].slot
  <2>1. CASE L = 1
    <3>1. h[L].slot = h[1].slot /\ Epochs(1, L) = 0
      BY <2>1, <1>4
    <3>2. QED
      BY <3>1, <1>3
  <2>2. CASE L > 1
    BY <2>2, <1>1 DEF Ordered
  <2>3. QED
    BY <2>1, <2>2, <1>1
<1>6. (MAX_RESULTS - 2) * SLOTS_PER_EPOCH = Epochs(1, L)
  <2>1. MAX_RESULTS - 2 = L - 1
    BY <1>1
  <2>2. QED
    BY <2>1 DEF Epochs
<1> HIDE DEF L
<1>7. QED
  BY <1>3, <1>4, <1>5, <1>6

(* What the look-up of a recent slot finds, by the invariant *)
LEMMA FindsRecent ==
  ASSUME NEW R, OfSlots(R), NEW h \in Seq(R), Ordered(h), Kept(R, h),
         NEW t \in Nat, \A r \in R : r.slot <= t,
         NEW s \in Int, s >= t - (MAX_RESULTS - 2) * SLOTS_PER_EPOCH
  PROVE  LET governing == {r \in R : r.slot <= s}
             found == latest_result(h, s)
         IN  IF governing = {} THEN found = None
             ELSE found \in governing /\ \A r \in governing : r.slot <= found.slot
<1>1. Len(h) = MAX_RESULTS - 1 => h[1].slot <= s
  BY ReachesBack
<1>2. QED
  BY <1>1, LookUpFinds

(* What the invariant says of one node *)
LEMMA IInvFacts ==
  ASSUME IInv, NEW n \in Correct
  PROVE  /\ OfSlots(recorded[n]) /\ results[n] \in Seq(recorded[n])
         /\ Ordered(results[n]) /\ Kept(recorded[n], results[n])
         /\ slot \in Nat /\ \A r \in recorded[n] : r.slot <= slot
<1>1. /\ OfSlots(recorded[n]) /\ results[n] \in Seq(recorded[n])
      /\ Ordered(results[n]) /\ Kept(recorded[n], results[n])
      /\ slot \in Nat /\ \A r \in recorded[n] : r.slot <= Exchange
  BY DEF IInv, HistoryInv, ExchangeInv, RecordedInv, RetainedInv
<1>2. Exchange \in Int /\ Exchange <= slot
  BY <1>1 DEF Exchange
<1>3. QED
  BY <1>1, <1>2 DEF OfSlots

(* infosync.py:269,287: dropping the oldest results never hides the one in force for a slot
   of the last MAX_RESULTS - 2 epochs: the look-up finds the newest result recorded for it *)
THEOREM RecentGoverned == Spec => []GovernsRecent
<1>1. IInv => GovernsRecent
  <2> SUFFICES ASSUME IInv, NEW n \in Correct, NEW s \in RecentSlots
               PROVE  LET governing == {r \in recorded[n] : r.slot <= s}
                          found == latest_result(results[n], s)
                      IN  IF governing = {} THEN found = None
                          ELSE found \in governing /\ \A r \in governing : r.slot <= found.slot
    BY DEF GovernsRecent
  <2>1. s \in Int /\ s >= slot - (MAX_RESULTS - 2) * SLOTS_PER_EPOCH
    BY DEF RecentSlots
  <2>2. QED
    BY <2>1, IInvFacts, FindsRecent
<1>2. QED
  BY <1>1, Invariance, PTL

(* A delivered result leaves the look-ups of the slots before it alone *)
LEMMA DeliverStable ==
  ASSUME IInv, IInv', NEW n \in Correct, Deliver(n),
         NEW m \in Correct, results'[m] # results[m],
         NEW s \in RecentSlots, s < results'[m][Len(results'[m])].slot
  PROVE  latest_result(results'[m], s) = latest_result(results[m], s)
<1> DEFINE x == InfoSyncResult(agreed)
           R == recorded[n]
           R1 == recorded'[n]
           h == results[n]
           g == results'[n]
<1>1. /\ m = n /\ OfSlots({x})
      /\ \A r \in R : r.slot <= x.slot /\ (r.slot = x.slot => r = x)
      /\ g = add_result(h, x)
      /\ R1 = R \cup {r \in {x} : r.versions # <<>>}
  BY DeliverStep
<1>2. /\ OfSlots(R) /\ h \in Seq(R) /\ Ordered(h) /\ Kept(R, h)
      /\ slot \in Nat /\ \A r \in R : r.slot <= slot
  BY IInvFacts
<1>3. /\ OfSlots(R1) /\ g \in Seq(R1) /\ Ordered(g) /\ Kept(R1, g)
      /\ \A r \in R1 : r.slot <= slot
  <2>1. slot' = slot
    BY DEF Deliver
  <2>2. (/\ OfSlots(recorded[n]) /\ results[n] \in Seq(recorded[n])
         /\ Ordered(results[n]) /\ Kept(recorded[n], results[n])
         /\ \A r \in recorded[n] : r.slot <= slot)'
    BY <2>1, IInvFacts, PTL
  <2>3. QED
    BY <2>1, <2>2
<1>4. s \in Int /\ s >= slot - (MAX_RESULTS - 2) * SLOTS_PER_EPOCH
  BY DEF RecentSlots
<1>5. \A r, q \in R : q.slot = r.slot => q = r
  BY DEF IInv, HistoryInv, RecordedInv
<1>6. g # h /\ s < g[Len(g)].slot
  BY <1>1
<1> HIDE DEF x, R, R1, h, g
<1>7. g[Len(g)] = x /\ R1 = R \cup {x}
  <2>1. LET T == R \cup {r \in {x} : r.versions # <<>>}
            k == add_result(h, x)
        IN  /\ k \in Seq(T) /\ Ordered(k) /\ Kept(T, k)
            /\ \/ k = h
               \/ /\ k # <<>> /\ k[Len(k)] = x
                  /\ T = R \cup {x}
                  /\ \A r \in R : r.slot < x.slot
    BY <1>1, <1>2, AddResultKeeps
  <2>2. QED
    BY <1>1, <1>6, <2>1
<1> DEFINE before == {r \in R : r.slot <= s}
           after == {r \in R1 : r.slot <= s}
           old == latest_result(h, s)
           new == latest_result(g, s)
<1>8. before = after
  <2>1. x.slot \in Nat /\ s < x.slot
    BY <1>1, <1>6, <1>7 DEF OfSlots
  <2>2. QED
    BY <1>4, <1>7, <2>1
<1>9. IF before = {} THEN old = None
      ELSE old \in before /\ \A r \in before : r.slot <= old.slot
  BY <1>2, <1>4, FindsRecent
<1>10. IF after = {} THEN new = None
       ELSE new \in after /\ \A r \in after : r.slot <= new.slot
  BY <1>2, <1>3, <1>4, FindsRecent
<1>11. old = new
  <2>1. CASE before = {}
    BY <2>1, <1>8, <1>9, <1>10
  <2>2. CASE before # {}
    <3>1. old \in before /\ new \in before /\ old.slot <= new.slot /\ new.slot <= old.slot
      BY <2>2, <1>8, <1>9, <1>10
    <3>2. old.slot \in Nat /\ new.slot \in Nat
      BY <3>1, <1>2 DEF OfSlots
    <3>3. QED
      BY <3>1, <3>2, <1>5
  <2>3. QED
    BY <2>1, <2>2
<1>12. QED
  BY <1>1, <1>11 DEF h, g

(* infosync.py:278-280: a newer agreement leaves the protocol and the proposal types in force
   for duties of earlier slots as they are, whatever is recorded, repeated or dropped *)
THEOREM SelectionsStable == Spec => SelectionStable
<1> DEFINE Stable ==
      \A n \in Correct :
        results'[n] \notin {results[n], <<>>} =>
          \A s \in RecentSlots :
            s < results'[n][Len(results'[n])].slot => InForce(n, s)' = InForce(n, s)
<1>1. ASSUME IInv, IInv', [Next]_vars PROVE [Stable]_vars
  <2> SUFFICES ASSUME Next, NEW n \in Correct, results'[n] \notin {results[n], <<>>},
                      NEW s \in RecentSlots, s < results'[n][Len(results'[n])].slot
               PROVE  InForce(n, s)' = InForce(n, s)
    BY <1>1
  <2>1. CASE \E m \in Correct : Deliver(m)
    <3>1. config' = config
      BY <2>1 DEF Deliver
    <3>2. latest_result(results'[n], s) = latest_result(results[n], s)
      BY <1>1, <2>1, DeliverStable
    <3>3. QED
      BY <3>1, <3>2 DEF InForce, selected_protocols, selected_proposal_types
  <2>2. CASE UNCHANGED results
    BY <2>2
  <2>3. CASE \E m \in Correct, c \in Config : Restart(m, c)
    <3>1. PICK m \in Correct : results' = [results EXCEPT ![m] = <<>>]
      BY <2>3 DEF Restart
    <3>2. results'[n] \in {results[n], <<>>}
      BY <1>1, <3>1 DEF IInv, HistoryInv
    <3>3. QED
      BY <3>2
  <2>4. QED
    BY <2>1, <2>2, <2>3 DEF Next, Tick, Trigger, FaultyTrigger, Collect, Agree
<1>2. QED
  BY <1>1, Invariance, PTL DEF Spec, SelectionStable

-----------------------------------------------------------------------------
(* A set of naturals that is not empty has a least element, and Min is it *)
LEMMA MinOfNaturals ==
  ASSUME NEW T \in SUBSET Nat, T # {}
  PROVE  Min(T) \in T /\ \A k \in T : Min(T) <= k
<1>1. PICK m \in T : \A k \in T : <<k, m>> \notin OpToRel(<, Nat)
  BY NatLessThanWellFounded, WFMin, Zenon
<1>2. ASSUME NEW k \in T, k < m
      PROVE  FALSE
  <2>1. <<k, m>> \in Nat \X Nat
    OBVIOUS
  <2>2. QED
    BY <1>1, <1>2, <2>1 DEF OpToRel
<1>3. \A k \in T : m <= k
  BY <1>2
<1>4. QED
  BY <1>3 DEF Min

(* Those that a relation puts before x *)
Before(S, R, x) == {y \in S : <<y, x>> \in R}

(* R is a strict total order on S *)
StrictlyOrders(S, R) ==
  /\ \A x \in S : <<x, x>> \notin R
  /\ \A x, y, z \in S : <<x, y>> \in R /\ <<y, z>> \in R => <<x, z>> \in R
  /\ \A x, y \in S : x # y => <<x, y>> \in R \/ <<y, x>> \in R

(* The elements of a finite set that is strictly ordered have different numbers of elements
   before them, and every number below the size of the set is that of one of them *)
LEMMA RanksDiffer ==
  ASSUME NEW S, IsFiniteSet(S), NEW R, StrictlyOrders(S, R)
  PROVE  /\ \A x \in S : Cardinality(Before(S, R, x)) + 1 \in 1 .. Cardinality(S)
         /\ \A x, y \in S :
              Cardinality(Before(S, R, x)) = Cardinality(Before(S, R, y)) => x = y
         /\ \A k \in 1 .. Cardinality(S) :
              \E x \in S : Cardinality(Before(S, R, x)) + 1 = k
<1>1. Cardinality(S) \in Nat
  BY FS_CardinalityType
<1>2. ASSUME NEW x \in S
      PROVE  /\ IsFiniteSet(Before(S, R, x))
             /\ Cardinality(Before(S, R, x)) \in Nat
             /\ Cardinality(Before(S, R, x)) < Cardinality(S)
  <2>1. Before(S, R, x) \in SUBSET S /\ x \notin Before(S, R, x)
    BY DEF Before, StrictlyOrders
  <2>2. Before(S, R, x) # S
    BY <2>1
  <2> DEFINE B == Before(S, R, x)
  <2>3. B \in SUBSET S /\ B # S
    BY <2>1, <2>2
  <2> HIDE DEF B
  <2>4. IsFiniteSet(B) /\ Cardinality(B) <= Cardinality(S) /\ Cardinality(S) # Cardinality(B)
    BY <2>3, FS_Subset
  <2>5. Cardinality(B) \in Nat
    BY <2>4, FS_CardinalityType
  <2>6. QED
    BY <1>1, <2>4, <2>5 DEF B
<1>3. ASSUME NEW x \in S, NEW y \in S, <<x, y>> \in R
      PROVE  Cardinality(Before(S, R, x)) < Cardinality(Before(S, R, y))
  <2> DEFINE B == Before(S, R, x)
             C == Before(S, R, y)
  <2>1. B \in SUBSET C /\ x \in C /\ x \notin B
    BY <1>3 DEF Before, StrictlyOrders
  <2>2. B \in SUBSET C /\ B # C
    BY <2>1
  <2>3. /\ IsFiniteSet(B) /\ Cardinality(B) \in Nat
        /\ IsFiniteSet(C) /\ Cardinality(C) \in Nat
    BY <1>2
  <2> HIDE DEF B, C
  <2>4. Cardinality(B) <= Cardinality(C) /\ Cardinality(C) # Cardinality(B)
    BY <2>2, <2>3, FS_Subset
  <2>5. Cardinality(B) < Cardinality(C)
    BY <2>3, <2>4
  <2>6. QED
    BY <2>5 DEF B, C
<1> DEFINE rank == [x \in S |-> Cardinality(Before(S, R, x)) + 1]
           n == Cardinality(S)
<1>4. \A x \in S : rank[x] \in 1 .. n
  <2> SUFFICES ASSUME NEW x \in S PROVE Cardinality(Before(S, R, x)) + 1 \in 1 .. n
    OBVIOUS
  <2>1. QED
    BY <1>1, <1>2
<1>5. \A x, y \in S : rank[x] = rank[y] => x = y
  <2> SUFFICES ASSUME NEW x \in S, NEW y \in S, rank[x] = rank[y], x # y PROVE FALSE
    OBVIOUS
  <2>1. Cardinality(Before(S, R, x)) = Cardinality(Before(S, R, y))
    BY <1>2
  <2>2. <<x, y>> \in R \/ <<y, x>> \in R
    BY DEF StrictlyOrders
  <2>3. QED
    BY <1>2, <1>3, <2>1, <2>2
<1>6. \A x, y \in S : Cardinality(Before(S, R, x)) = Cardinality(Before(S, R, y)) => x = y
  BY <1>5
<1> HIDE DEF rank
<1>7. rank \in Injection(S, 1 .. n)
  BY <1>4, <1>5 DEF rank, Injection, IsInjective
<1>8. IsFiniteSet(1 .. n) /\ Cardinality(1 .. n) = n
  BY <1>1, FS_Interval
<1>9. rank \in Surjection(S, 1 .. n)
  BY <1>7, <1>8, FS_Injection
<1>10. \A k \in 1 .. n : \E x \in S : rank[x] = k
  BY <1>9 DEF Surjection
<1>11. QED
  BY <1>4, <1>6, <1>10 DEF rank

-----------------------------------------------------------------------------
(* Lists of priorities of finitely many peers, as validate_msgs lets them pass *)
ValidProposals(P) ==
  /\ IsFiniteSet(DOMAIN P) /\ DOMAIN P \subseteq Nat
  /\ \A p \in DOMAIN P :
       P[p] \in Seq(STRING) /\ Len(P[p]) < MAX_PRIORITIES /\ IsInjective(P[p])

(* A priority occurs at most once in a list: as often as peers support it *)
LEMMA OccurrencesCounted ==
  ASSUME NEW P, ValidProposals(P), NEW x
  PROVE  /\ IsFiniteSet(Occurrences(P, x))
         /\ Cardinality(Occurrences(P, x)) \in Nat
         /\ IsFiniteSet(Ahead(P, x))
         /\ Cardinality(Ahead(P, x)) \in Nat
         /\ IsFiniteSet(Supporters(P, x))
         /\ Cardinality(Occurrences(P, x)) = Cardinality(Supporters(P, x))
         /\ Score(P, x) \in Int
<1> DEFINE O == Occurrences(P, x)
           S == Supporters(P, x)
           A == Ahead(P, x)
           W == MAX_PRIORITIES
<1>1. W \in Nat \ {0}
  BY PrioritiesAssumption
<1>2. IsFiniteSet(1 .. W) /\ IsFiniteSet(DOMAIN P)
  BY <1>1, FS_Interval DEF ValidProposals
<1>3. \A o : o \in O <=>
        /\ o = <<o[1], o[2]>> /\ o[1] \in DOMAIN P
        /\ o[2] \in 1 .. Len(P[o[1]]) /\ P[o[1]][o[2]] = x
  BY DEF Occurrences, ValidProposals
<1>4. O \in SUBSET ((DOMAIN P) \X (1 .. W))
  <2> SUFFICES ASSUME NEW o \in O PROVE o \in (DOMAIN P) \X (1 .. W)
    OBVIOUS
  <2>1. /\ o = <<o[1], o[2]>> /\ o[1] \in DOMAIN P /\ o[2] \in 1 .. Len(P[o[1]])
        /\ Len(P[o[1]]) \in Nat /\ Len(P[o[1]]) < W
    BY <1>3 DEF ValidProposals
  <2>2. o[2] \in 1 .. W
    BY <2>1, <1>1
  <2>3. <<o[1], o[2]>> \in (DOMAIN P) \X (1 .. W)
    BY <2>1, <2>2
  <2>4. QED
    BY <2>1, <2>3
<1> HIDE DEF O, W
<1>5. IsFiniteSet(O) /\ Cardinality(O) \in Nat
  <2>1. IsFiniteSet((DOMAIN P) \X (1 .. W))
    BY <1>2, FS_Product
  <2>2. IsFiniteSet(O)
    BY <2>1, <1>4, FS_Subset
  <2>3. QED
    BY <2>2, FS_CardinalityType
<1>6. A \in SUBSET (O \X (1 .. W))
  <2> SUFFICES ASSUME NEW a \in A PROVE a \in O \X (1 .. W)
    OBVIOUS
  <2>1. PICK o \in O : a \in {o} \X (1 .. o[2] - 1)
    BY DEF Ahead, O
  <2>2. o[2] \in 1 .. W
    BY <1>4, <2>1
  <2>3. 1 .. o[2] - 1 \subseteq 1 .. W
    BY <1>1, <2>2
  <2>4. QED
    BY <2>1, <2>3
<1> HIDE DEF A
<1>7. IsFiniteSet(A) /\ Cardinality(A) \in Nat
  <2>1. IsFiniteSet(O \X (1 .. W))
    BY <1>2, <1>5, FS_Product
  <2>2. IsFiniteSet(A)
    BY <2>1, <1>6, FS_Subset
  <2>3. QED
    BY <2>2, FS_CardinalityType
<1>8. \A p : p \in S <=> \E o \in O : o[1] = p
  <2>1. ASSUME NEW p \in S PROVE \E o \in O : o[1] = p
    <3>1. PICK i \in DOMAIN P[p] : P[p][i] = x
      BY DEF Supporters, Range
    <3>2. p \in DOMAIN P /\ DOMAIN P[p] = 1 .. Len(P[p])
      BY DEF Supporters, ValidProposals
    <3>3. <<p, i>> \in O
      BY <1>3, <3>1, <3>2
    <3>4. QED
      BY <3>3
  <2>2. ASSUME NEW o \in O PROVE o[1] \in S
    <3>1. o[1] \in DOMAIN P /\ o[2] \in DOMAIN P[o[1]] /\ P[o[1]][o[2]] = x
      BY <1>3 DEF ValidProposals
    <3>2. QED
      BY <3>1 DEF Supporters, Range
  <2>3. QED
    BY <2>1, <2>2
<1>9. \A o, q \in O : o[1] = q[1] => o = q
  <2> SUFFICES ASSUME NEW o \in O, NEW q \in O, o[1] = q[1] PROVE o = q
    OBVIOUS
  <2>1. /\ o = <<o[1], o[2]>> /\ q = <<q[1], q[2]>>
        /\ P[o[1]][o[2]] = P[o[1]][q[2]]
        /\ o[2] \in DOMAIN P[o[1]] /\ q[2] \in DOMAIN P[o[1]] /\ o[1] \in DOMAIN P
    BY <1>3 DEF ValidProposals
  <2>2. o[2] = q[2]
    BY <2>1 DEF ValidProposals, IsInjective
  <2>3. QED
    BY <2>1, <2>2
<1> DEFINE f == [o \in O |-> o[1]]
<1> HIDE DEF S
<1>10. f \in Bijection(O, S)
  BY <1>8, <1>9 DEF Bijection, Injection, Surjection, IsInjective
<1>11. IsFiniteSet(S) /\ Cardinality(O) = Cardinality(S)
  <2>1. ExistsBijection(O, S)
    BY <1>10 DEF ExistsBijection
  <2>2. QED
    BY <2>1, <1>5, FS_Bijection
<1>12. Score(P, x) = W * Cardinality(O) - Cardinality(A)
  BY DEF Score, COUNT_WEIGHT, O, A, W
<1>13. Score(P, x) \in Int
  BY <1>1, <1>5, <1>7, <1>12
<1>14. QED
  BY <1>5, <1>7, <1>11, <1>13 DEF O, A, S

(* The priorities that are proposed are finitely many *)
LEMMA PrioritiesFinite ==
  ASSUME NEW P, ValidProposals(P)
  PROVE  IsFiniteSet(Priorities(P))
<1> DEFINE W == MAX_PRIORITIES
           Places == {o \in (DOMAIN P) \X (1 .. W) : o[2] \in DOMAIN P[o[1]]}
           f == [o \in Places |-> P[o[1]][o[2]]]
<1>1. W \in Nat \ {0}
  BY PrioritiesAssumption
<1>2. IsFiniteSet(Places)
  <2>1. IsFiniteSet(1 .. W) /\ IsFiniteSet(DOMAIN P)
    BY <1>1, FS_Interval DEF ValidProposals
  <2>2. IsFiniteSet((DOMAIN P) \X (1 .. W))
    BY <2>1, FS_Product
  <2>3. Places \in SUBSET ((DOMAIN P) \X (1 .. W))
    OBVIOUS
  <2> HIDE DEF Places
  <2>4. QED
    BY <2>2, <2>3, FS_Subset
<1>3. ASSUME NEW x \in Priorities(P) PROVE \E o \in Places : f[o] = x
  <2>1. PICK p \in DOMAIN P : \E i \in DOMAIN P[p] : P[p][i] = x
    BY DEF Priorities, Range
  <2>2. PICK i \in DOMAIN P[p] : P[p][i] = x
    BY <2>1
  <2>3. i \in 1 .. Len(P[p]) /\ Len(P[p]) \in Nat /\ Len(P[p]) < W
    BY DEF ValidProposals
  <2>4. <<p, i>> \in Places
    <3>1. i \in 1 .. W
      BY <1>1, <2>3
    <3>2. QED
      BY <2>2, <3>1
  <2>5. f[<<p, i>>] = x
    BY <2>2, <2>4
  <2>6. QED
    BY <2>4, <2>5
<1>4. ASSUME NEW o \in Places PROVE f[o] \in Priorities(P)
  <2>1. o[1] \in DOMAIN P /\ o[2] \in DOMAIN P[o[1]] /\ f[o] = P[o[1]][o[2]]
    OBVIOUS
  <2> HIDE DEF f, Places
  <2>2. QED
    BY <2>1 DEF Priorities, Range
<1> HIDE DEF Places
<1>5. f \in Surjection(Places, Priorities(P))
  BY <1>3, <1>4 DEF Surjection
<1>6. QED
  BY <1>2, <1>5, FS_Surjection

(* Where a list holds a priority, it holds no other *)
LEMMA PositionIs ==
  ASSUME NEW l \in Seq(STRING), NEW x \in Range(l)
  PROVE  Position(l, x) + 1 \in DOMAIN l /\ l[Position(l, x) + 1] = x
         /\ Position(l, x) \in Nat
<1> DEFINE T == {i \in DOMAIN l : l[i] = x}
<1>1. T \in SUBSET Nat /\ T # {}
  BY DEF Range
<1>2. Min(T) \in T
  BY <1>1, MinOfNaturals
<1>3. Position(l, x) = Min(T) - 1 /\ Min(T) \in Nat /\ Min(T) > 0
  BY <1>2 DEF Position
<1>4. Position(l, x) + 1 = Min(T)
  BY <1>3
<1>5. QED
  BY <1>2, <1>3, <1>4

(* The first peer that proposes a priority *)
FirstPeer(P, x) == Min(Supporters(P, x))

(* Where a priority is seen first *)
LEMMA FirstSeen ==
  ASSUME NEW P, ValidProposals(P), NEW x \in Priorities(P)
  PROVE  /\ FirstPeer(P, x) \in Nat /\ FirstPeer(P, x) \in DOMAIN P
         /\ x \in Range(P[FirstPeer(P, x)]) /\ P[FirstPeer(P, x)] \in Seq(STRING)
         /\ Position(P[FirstPeer(P, x)], x) \in Nat
         /\ P[FirstPeer(P, x)][Position(P[FirstPeer(P, x)], x) + 1] = x
<1>1. Supporters(P, x) \in SUBSET Nat /\ Supporters(P, x) # {}
  BY DEF ValidProposals, Supporters, Priorities
<1>2. FirstPeer(P, x) \in Supporters(P, x)
  BY <1>1, MinOfNaturals DEF FirstPeer
<1>3. /\ FirstPeer(P, x) \in Nat /\ FirstPeer(P, x) \in DOMAIN P
      /\ x \in Range(P[FirstPeer(P, x)]) /\ P[FirstPeer(P, x)] \in Seq(STRING)
  BY <1>1, <1>2 DEF Supporters, ValidProposals
<1>4. QED
  BY <1>3, PositionIs

(* RankedBefore as a relation *)
RankOrder(P, S) == {pair \in S \X S : RankedBefore(P, pair[1], pair[2])}

(* The order of the sort is strict and total: no two priorities are seen at one place *)
LEMMA RankedOrders ==
  ASSUME NEW P, ValidProposals(P), NEW S \in SUBSET Priorities(P)
  PROVE  StrictlyOrders(S, RankOrder(P, S))
<1> DEFINE first(x) == FirstPeer(P, x)
           pos(x) == Position(P[FirstPeer(P, x)], x)
           score(x) == Score(P, x)
<1>1. \A x \in S : score(x) \in Int /\ first(x) \in Nat /\ pos(x) \in Nat
  BY OccurrencesCounted, FirstSeen
<1>2. \A x, y \in S : first(x) = first(y) /\ pos(x) = pos(y) => x = y
  <2> SUFFICES ASSUME NEW x \in S, NEW y \in S, first(x) = first(y), pos(x) = pos(y)
               PROVE  x = y
    OBVIOUS
  <2>1. P[first(x)][pos(x) + 1] = x /\ P[first(y)][pos(y) + 1] = y
    BY FirstSeen
  <2> HIDE DEF first, pos
  <2>2. QED
    BY <2>1
<1>3. \A x, y \in S : <<x, y>> \in RankOrder(P, S) <=>
        \/ score(x) > score(y)
        \/ score(x) = score(y) /\ first(x) < first(y)
        \/ score(x) = score(y) /\ first(x) = first(y) /\ pos(x) < pos(y)
  <2> SUFFICES ASSUME NEW x \in S, NEW y \in S
               PROVE  RankedBefore(P, x, y) <=>
                        \/ score(x) > score(y)
                        \/ score(x) = score(y) /\ first(x) < first(y)
                        \/ score(x) = score(y) /\ first(x) = first(y) /\ pos(x) < pos(y)
    BY DEF RankOrder
  <2>1. SeenBefore(P, x, y) <=>
          first(x) < first(y) \/ (first(x) = first(y) /\ pos(x) < pos(y))
    BY DEF SeenBefore, FirstPeer
  <2> HIDE DEF first, pos, score
  <2>2. QED
    BY <2>1 DEF RankedBefore, score
<1> HIDE DEF first, pos, score
<1>4. QED
  BY <1>1, <1>2, <1>3 DEF StrictlyOrders

(* The priorities that are included *)
IncludedOf(P, k) == {x \in Priorities(P) : Included(P, x, k)}

(* The result of a topic lists the included priorities, all of them and nothing else *)
LEMMA RankedLists ==
  ASSUME NEW P, ValidProposals(P), NEW k
  PROVE  Range(Ranked(P, k)) = IncludedOf(P, k)
<1> DEFINE S == IncludedOf(P, k)
           R == RankOrder(P, S)
           n == Cardinality(S)
           Rank(x) == Cardinality({y \in S : RankedBefore(P, y, x)})
<1>1. S \in SUBSET Priorities(P) /\ IsFiniteSet(S)
  BY PrioritiesFinite, FS_Subset DEF IncludedOf
<1>2. Ranked(P, k) = [j \in 1 .. n |-> CHOOSE x \in S : Rank(x) = j - 1]
  BY DEF Ranked, IncludedOf
<1>3. \A x \in S : {y \in S : RankedBefore(P, y, x)} = Before(S, R, x)
  BY DEF Before, RankOrder
<1>4. \A x \in S : Rank(x) = Cardinality(Before(S, R, x))
  BY <1>3
<1> HIDE DEF S, R
<1>5. StrictlyOrders(S, R)
  BY <1>1, RankedOrders DEF R
<1> DEFINE r(x) == Cardinality(Before(S, R, x))
<1>6. /\ \A x \in S : r(x) + 1 \in 1 .. n
      /\ \A x, y \in S : r(x) = r(y) => x = y
      /\ \A j \in 1 .. n : \E x \in S : r(x) + 1 = j
  BY <1>1, <1>5, RanksDiffer
<1>7. \A x \in S : r(x) \in Nat
  BY <1>1, FS_Subset, FS_CardinalityType DEF Before
<1> HIDE DEF Rank, r, n
<1>8. \A x \in S : Rank(x) = r(x)
  BY <1>4 DEF r
<1>9. ASSUME NEW j \in 1 .. n
      PROVE  Ranked(P, k)[j] \in S /\ Rank(Ranked(P, k)[j]) = j - 1
  <2>1. PICK x \in S : r(x) + 1 = j
    BY <1>6
  <2>2. Rank(x) = j - 1
    BY <2>1, <1>7, <1>8
  <2>3. Ranked(P, k)[j] = CHOOSE y \in S : Rank(y) = j - 1
    BY <1>2
  <2>4. QED
    BY <2>2, <2>3
<1>10. DOMAIN Ranked(P, k) = 1 .. n
  BY <1>2
<1>11. ASSUME NEW x \in S PROVE x \in Range(Ranked(P, k))
  <2> DEFINE j == r(x) + 1
  <2>1. j \in 1 .. n /\ j - 1 = r(x)
    BY <1>6, <1>7
  <2> HIDE DEF j
  <2>2. Ranked(P, k)[j] \in S /\ Rank(Ranked(P, k)[j]) = r(x)
    BY <2>1, <1>9
  <2>3. Ranked(P, k)[j] = x
    BY <2>2, <1>6, <1>8
  <2>4. QED
    BY <2>1, <2>3, <1>10 DEF Range
<1>12. QED
  BY <1>9, <1>10, <1>11 DEF Range, S

(* A priority is included only if as many peers support it as are required: fewer, ranking it
   first, would not reach the score *)
LEMMA IncludedSupport ==
  ASSUME NEW P, ValidProposals(P), NEW k \in Nat \ {0}, NEW x, Included(P, x, k)
  PROVE  Cardinality(Supporters(P, x)) >= k
<1> DEFINE c == Cardinality(Occurrences(P, x))
           a == Cardinality(Ahead(P, x))
           W == MAX_PRIORITIES
<1>1. W \in Nat /\ W > 0 /\ c \in Nat /\ a \in Nat /\ c = Cardinality(Supporters(P, x))
  BY PrioritiesAssumption, OccurrencesCounted
<1>2. W * c - a > (k - 1) * W
  BY DEF Included, Score, COUNT_WEIGHT
<1> HIDE DEF c, a, W
<1>3. ASSUME c <= k - 1 PROVE FALSE
  <2>1. PICK d \in Nat : k - 1 = c + d
    <3>1. (k - 1) - c \in Nat /\ k - 1 = c + ((k - 1) - c)
      BY <1>1, <1>3
    <3>2. QED
      BY <3>1
  <2>2. (c + d) * W = W * c + d * W /\ d * W \in Nat /\ W * c \in Nat
    BY <1>1, <2>1
  <2>3. QED
    BY <1>1, <1>2, <2>1, <2>2
<1>4. QED
  BY <1>1, <1>3

(* A priority that nobody lists behind more than two others is included once as many peers
   as are required support it: their positions do not outweigh their number *)
LEMMA IncludedIfSupported ==
  ASSUME NEW P, ValidProposals(P), NEW k \in Nat \ {0}, MAX_PRIORITIES > 2 * k, NEW x,
         Cardinality(Supporters(P, x)) >= k,
         \A o \in Occurrences(P, x) : o[2] <= 3
  PROVE  Included(P, x, k)
<1> DEFINE O == Occurrences(P, x)
           A == Ahead(P, x)
           c == Cardinality(O)
           a == Cardinality(A)
           W == MAX_PRIORITIES
<1>1. /\ W \in Nat /\ W > 2 * k /\ c \in Nat /\ a \in Nat /\ c >= k /\ IsFiniteSet(O)
  BY PrioritiesAssumption, OccurrencesCounted
<1>2. A \in SUBSET (O \X (1 .. 2))
  <2> SUFFICES ASSUME NEW e \in A PROVE e \in O \X (1 .. 2)
    OBVIOUS
  <2>1. PICK o \in O : e \in {o} \X (1 .. o[2] - 1)
    BY DEF Ahead
  <2>2. o[2] \in Int /\ o[2] <= 3
    BY DEF Occurrences, ValidProposals
  <2>3. 1 .. o[2] - 1 \subseteq 1 .. 2
    BY <2>2
  <2> HIDE DEF O
  <2>4. QED
    BY <2>1, <2>3
<1>3. Score(P, x) = W * c - a
  BY DEF Score, COUNT_WEIGHT
<1> HIDE DEF O, A
<1>4. a <= c * 2
  <2>1. IsFiniteSet(1 .. 2) /\ Cardinality(1 .. 2) = 2
    <3>1. 1 \in Int /\ 2 \in Int /\ ~(1 > 2) /\ 2 - 1 + 1 = 2
      OBVIOUS
    <3>2. QED
      BY <3>1, FS_Interval
  <2>2. IsFiniteSet(O \X (1 .. 2)) /\ Cardinality(O \X (1 .. 2)) = c * 2
    BY <2>1, <1>1, FS_Product
  <2>3. Cardinality(A) <= Cardinality(O \X (1 .. 2))
    BY <2>2, <1>2, FS_Subset
  <2>4. QED
    BY <2>2, <2>3
<1> HIDE DEF c, a, W
<1>5. W * c - 2 * c > (k - 1) * W
  <2>1. PICK d \in Nat : c = k + d
    <3>1. c - k \in Nat /\ c = k + (c - k)
      BY <1>1
    <3>2. QED
      BY <3>1
  <2>2. W * (k + d) = W * k + W * d /\ (k - 1) * W = W * k - W
    BY <1>1, <2>1
  <2>3. W * d >= 2 * d /\ W * k \in Nat /\ W * d \in Nat
    BY <1>1, <2>1
  <2> DEFINE wk == W * k
             wd == W * d
  <2>4. W * c = wk + wd /\ wd >= 2 * d /\ wk \in Nat /\ wd \in Nat /\ (k - 1) * W = wk - W
    BY <2>1, <2>2, <2>3
  <2> HIDE DEF wk, wd
  <2>5. QED
    BY <1>1, <2>1, <2>4
<1>6. W * c \in Int /\ (k - 1) * W \in Int
  BY <1>1
<1>7. W * c - a > (k - 1) * W
  BY <1>1, <1>4, <1>5, <1>6
<1>8. QED
  BY <1>3, <1>7 DEF Included, COUNT_WEIGHT, W

-----------------------------------------------------------------------------
(* The messages of an exchange: strings of the cluster's nodes, a correct one announcing what
   a configuration says *)
Sendable(m) ==
  /\ m.peer \in Node /\ m.topics \in Seq(PriorityTopicProposal)
  /\ m.peer \in Correct => \E c \in Config : m.topics = LocalTopics(c)

(* A list is proposed under a topic by a peer exactly if it is in the peer's message *)
LEMMA ProposalsAre ==
  ASSUME NEW M, \A m \in M : Sendable(m), NEW msgs \in Seq(M), validate_msgs(msgs), NEW topic
  PROVE  LET P == ProposalsOn(msgs, topic)
         IN  /\ ValidProposals(P) /\ DOMAIN P \subseteq Node
             /\ \A p \in DOMAIN P : \E m \in Range(msgs) : \E t \in Range(m.topics) :
                  m.peer = p /\ t.topic = topic /\ P[p] = t.priorities
             /\ \A m \in Range(msgs) : \A t \in Range(m.topics) :
                  t.topic = topic => m.peer \in DOMAIN P /\ topic \in TopicsOf(msgs)
<1> DEFINE P == ProposalsOn(msgs, topic)
           proposing == {m \in Range(msgs) : topic \in TopicsOf(<<m>>)}
           Of(p) == CHOOSE m \in proposing : m.peer = p
           Its(m) == CHOOSE t \in Range(m.topics) : t.topic = topic
<1>1. /\ P = [p \in {m.peer : m \in proposing} |-> Its(Of(p)).priorities]
      /\ DOMAIN P = {m.peer : m \in proposing}
  BY DEF ProposalsOn
<1>2. \A m : topic \in TopicsOf(<<m>>) <=> \E t \in Range(m.topics) : t.topic = topic
  <2>1. \A m : Range(<<m>>) = {m}
    BY DEF Range
  <2>2. QED
    BY <2>1 DEF TopicsOf
<1>3. \A m : m \in proposing <=> m \in Range(msgs) /\ \E t \in Range(m.topics) : t.topic = topic
  BY <1>2
<1>4. Range(msgs) \subseteq M
  BY DEF Range
<1> HIDE DEF proposing
<1>5. ASSUME NEW p \in DOMAIN P
      PROVE  /\ Of(p) \in Range(msgs) /\ Of(p).peer = p
             /\ Its(Of(p)) \in Range(Of(p).topics) /\ Its(Of(p)).topic = topic
             /\ P[p] = Its(Of(p)).priorities
  <2>1. PICK m \in proposing : m.peer = p
    BY <1>1
  <2>2. Of(p) \in proposing /\ Of(p).peer = p
    BY <2>1
  <2>3. \E t \in Range(Of(p).topics) : t.topic = topic
    BY <1>3, <2>2
  <2>4. Its(Of(p)) \in Range(Of(p).topics) /\ Its(Of(p)).topic = topic
    BY <2>3
  <2>5. QED
    BY <1>1, <1>3, <2>2, <2>4
<1>6. ASSUME NEW p \in DOMAIN P
      PROVE  /\ p \in Node /\ P[p] \in Seq(STRING)
             /\ Len(P[p]) < MAX_PRIORITIES /\ IsInjective(P[p])
  <2> DEFINE m == Of(p)
             t == Its(Of(p))
  <2>1. m \in Range(msgs) /\ m.peer = p /\ t \in Range(m.topics) /\ P[p] = t.priorities
    BY <1>5
  <2> HIDE DEF m, t
  <2>2. p \in Node /\ m.topics \in Seq(PriorityTopicProposal)
    BY <2>1, <1>4 DEF Sendable
  <2>3. t \in PriorityTopicProposal
    BY <2>1, <2>2, ElementOfSeq DEF Range
  <2>4. WellFormedTopic(t)
    BY <2>1 DEF validate_msgs
  <2>5. QED
    BY <2>1, <2>2, <2>3, <2>4 DEF PriorityTopicProposal, WellFormedTopic
<1>7. ValidProposals(P) /\ DOMAIN P \subseteq Node
  <2>1. DOMAIN P \in SUBSET Node
    BY <1>6
  <2> HIDE DEF P
  <2>2. IsFiniteSet(DOMAIN P) /\ DOMAIN P \subseteq Nat
    BY <2>1, InfoSyncAssumption, FS_Subset
  <2>3. QED
    BY <1>6, <2>1, <2>2 DEF ValidProposals
<1>8. ASSUME NEW m \in Range(msgs), NEW t \in Range(m.topics), t.topic = topic
      PROVE  m.peer \in DOMAIN P /\ topic \in TopicsOf(msgs)
  <2>1. m \in proposing
    BY <1>3, <1>8
  <2>2. topic \in TopicsOf(msgs)
    BY <1>8 DEF TopicsOf
  <2>3. QED
    BY <1>1, <2>1, <2>2
<1>9. \A p \in DOMAIN P : \E m \in Range(msgs) : \E t \in Range(m.topics) :
        m.peer = p /\ t.topic = topic /\ P[p] = t.priorities
  BY <1>5
<1>10. QED
  BY <1>7, <1>8, <1>9

(* Local proposal types: at most two others ahead of full *)
LEMMA FullIsLast ==
  ASSUME NEW b, NEW s
  PROVE  LET l == local_proposal_types(b, s)
         IN  Len(l) <= 3 /\ "full" \in Range(l)
<1> DEFINE l == local_proposal_types(b, s)
           first == IF b THEN <<"builder">> ELSE <<>>
           second == IF s THEN <<"synthetic">> ELSE <<>>
           third == <<"full">>
           T == {"builder", "synthetic", "full"}
<1>1. first \in Seq(T) /\ Len(first) <= 1
  <2>1. <<"builder">> \in Seq(T) /\ Len(<<"builder">>) <= 1
    OBVIOUS
  <2>2. <<>> \in Seq(T) /\ Len(<<>>) <= 1
    BY EmptySeq
  <2> DEFINE u == <<"builder">>
             e == <<>>
  <2>3. u \in Seq(T) /\ Len(u) <= 1 /\ e \in Seq(T) /\ Len(e) <= 1 /\ first \in {u, e}
    BY <2>1, <2>2
  <2> HIDE DEF u, e, first, T
  <2>4. QED
    BY <2>3
<1>2. second \in Seq(T) /\ Len(second) <= 1
  <2>1. <<"synthetic">> \in Seq(T) /\ Len(<<"synthetic">>) <= 1
    OBVIOUS
  <2>2. <<>> \in Seq(T) /\ Len(<<>>) <= 1
    BY EmptySeq
  <2> DEFINE u == <<"synthetic">>
             e == <<>>
  <2>3. u \in Seq(T) /\ Len(u) <= 1 /\ e \in Seq(T) /\ Len(e) <= 1 /\ second \in {u, e}
    BY <2>1, <2>2
  <2> HIDE DEF u, e, second, T
  <2>4. QED
    BY <2>3
<1>3. third \in Seq(T) /\ Len(third) = 1 /\ third[1] = "full"
  OBVIOUS
<1>4. l = (first \o second) \o third
  BY DEF local_proposal_types
<1> HIDE DEF l, first, second, third, T
<1>5. first \o second \in Seq(T) /\ Len(first \o second) <= 2
  BY <1>1, <1>2, ConcatProperties
<1>6. /\ l \in Seq(T) /\ Len(l) <= 3 /\ Len(l) \in Nat /\ Len(l) = Len(first \o second) + 1
      /\ l[Len(l)] = "full"
  <2> DEFINE u == first \o second
  <2>1. u \in Seq(T) /\ Len(u) <= 2 /\ Len(u) \in Nat /\ l = u \o third
    BY <1>4, <1>5, LenProperties
  <2> HIDE DEF u
  <2>2. /\ l \in Seq(T) /\ Len(l) = Len(u) + 1
        /\ l[Len(u) + 1] = third[Len(u) + 1 - Len(u)]
    <3>1. /\ u \o third \in Seq(T) /\ Len(u \o third) = Len(u) + Len(third)
          /\ \A i \in 1 .. Len(u) + Len(third) :
               (u \o third)[i] = IF i <= Len(u) THEN u[i] ELSE third[i - Len(u)]
      BY <2>1, <1>3, ConcatProperties
    <3>2. Len(u) + 1 \in 1 .. Len(u) + Len(third) /\ ~(Len(u) + 1 <= Len(u))
      BY <2>1, <1>3
    <3>3. QED
      BY <2>1, <1>3, <3>1, <3>2
  <2>3. Len(u) + 1 - Len(u) = 1
    BY <2>1
  <2>4. QED
    BY <2>1, <2>2, <2>3, <1>3 DEF u
<1>7. Len(l) \in DOMAIN l
  BY <1>5, <1>6
<1>8. QED
  BY <1>6, <1>7 DEF Range, l

(* What a correct node announces *)
LEMMA LocalTopicsAre ==
  ASSUME NEW c \in Config
  PROVE  LET topics == Range(LocalTopics(c))
         IN  /\ \E t \in topics : t.topic = "version"
             /\ \E t \in topics : t.topic = "proposal"
             /\ \A t \in topics : t.topic = "proposal" =>
                  t.priorities = local_proposal_types(c.builder, c.synthetic)
<1>1. /\ LocalTopics(c)[1].topic = "version" /\ LocalTopics(c)[2].topic = "protocol"
      /\ LocalTopics(c)[3].topic = "proposal"
      /\ LocalTopics(c)[3].priorities = local_proposal_types(c.builder, c.synthetic)
      /\ DOMAIN LocalTopics(c) = 1 .. 3
  BY DEF LocalTopics
<1>2. 1 .. 3 = {1, 2, 3}
  OBVIOUS
<1>3. QED
  BY <1>1, <1>2 DEF Range

(* The nodes that list a priority under a topic, in a set of messages *)
Listing(M, topic, x) ==
  {n \in Node : \E m \in M : m.peer = n /\
     \E t \in Range(m.topics) : t.topic = topic /\ x \in Range(t.priorities)}

(* Whatever calculate_result includes, as many nodes as required list it in the messages *)
LEMMA ResultSupported ==
  ASSUME NEW M, \A m \in M : Sendable(m), NEW msgs \in Seq(M), validate_msgs(msgs),
         NEW topic \in TopicsOf(msgs),
         NEW x \in Range(calculate_result(msgs, min_required).topics[topic])
  PROVE  Cardinality(Listing(M, topic, x)) >= min_required
<1> DEFINE P == ProposalsOn(msgs, topic)
           Supporting == Listing(M, topic, x)
<1>1. /\ ValidProposals(P) /\ DOMAIN P \subseteq Node
      /\ \A p \in DOMAIN P : \E m \in Range(msgs) : \E t \in Range(m.topics) :
           m.peer = p /\ t.topic = topic /\ P[p] = t.priorities
  BY ProposalsAre
<1>2. calculate_result(msgs, min_required).topics[topic] = Ranked(P, min_required)
  BY DEF calculate_result
<1> HIDE DEF P
<1>3. min_required \in Nat \ {0} /\ IsFiniteSet(Node)
  BY InfoSyncAssumption
<1>4. x \in IncludedOf(P, min_required)
  BY <1>1, <1>2, RankedLists
<1>5. Cardinality(Supporters(P, x)) >= min_required
  BY <1>1, <1>3, <1>4, IncludedSupport DEF IncludedOf
<1>6. Supporters(P, x) \in SUBSET Supporting
  <2> SUFFICES ASSUME NEW p \in Supporters(P, x) PROVE p \in Supporting
    OBVIOUS
  <2>1. p \in DOMAIN P /\ x \in Range(P[p])
    BY DEF Supporters
  <2>2. PICK m \in Range(msgs) : \E t \in Range(m.topics) :
           m.peer = p /\ t.topic = topic /\ P[p] = t.priorities
    BY <1>1, <2>1
  <2>3. m \in M
    BY DEF Range
  <2>4. QED
    BY <1>1, <2>1, <2>2, <2>3 DEF Listing
<1>7. IsFiniteSet(Supporting) /\ Cardinality(Supporting) \in Nat
  <2>1. Supporting \in SUBSET Node
    BY DEF Listing
  <2> HIDE DEF Supporting
  <2>2. QED
    BY <2>1, <1>3, FS_Subset, FS_CardinalityType
<1> HIDE DEF Supporting
<1>8. /\ Cardinality(Supporters(P, x)) <= Cardinality(Supporting)
      /\ Cardinality(Supporters(P, x)) \in Nat
  <2>1. QED
    BY <1>6, <1>7, FS_Subset, FS_CardinalityType
<1>9. QED
  BY <1>3, <1>5, <1>7, <1>8 DEF Supporting

(* If the messages of correct nodes agree on a version, full proposals are included *)
LEMMA ResultHasFull ==
  ASSUME MAX_PRIORITIES > 2 * min_required,
         NEW M, \A m \in M : Sendable(m), NEW msgs \in Seq(M), validate_msgs(msgs),
         \A m \in Range(msgs) : m.peer \in Correct,
         calculate_result(msgs, min_required).topics["version"] # <<>>
  PROVE  "full" \in Range(calculate_result(msgs, min_required).topics["proposal"])
<1> DEFINE V == ProposalsOn(msgs, "version")
           P == ProposalsOn(msgs, "proposal")
<1>1. /\ ValidProposals(V)
      /\ \A p \in DOMAIN V : \E m \in Range(msgs) : \E t \in Range(m.topics) :
           m.peer = p /\ t.topic = "version" /\ V[p] = t.priorities
      /\ \A m \in Range(msgs) : \A t \in Range(m.topics) :
           t.topic = "version" => m.peer \in DOMAIN V /\ "version" \in TopicsOf(msgs)
  BY ProposalsAre
<1>2. /\ ValidProposals(P)
      /\ \A p \in DOMAIN P : \E m \in Range(msgs) : \E t \in Range(m.topics) :
           m.peer = p /\ t.topic = "proposal" /\ P[p] = t.priorities
      /\ \A m \in Range(msgs) : \A t \in Range(m.topics) :
           t.topic = "proposal" => m.peer \in DOMAIN P /\ "proposal" \in TopicsOf(msgs)
  BY ProposalsAre
<1> HIDE DEF V, P
<1>3. ASSUME NEW m \in Range(msgs)
      PROVE  /\ \E t \in Range(m.topics) : t.topic = "version"
             /\ \E t \in Range(m.topics) : t.topic = "proposal"
             /\ \A t \in Range(m.topics) : t.topic = "proposal" =>
                  Len(t.priorities) <= 3 /\ "full" \in Range(t.priorities)
  <2>1. m \in M /\ m.peer \in Correct
    BY DEF Range
  <2>2. PICK c \in Config : m.topics = LocalTopics(c)
    BY <2>1 DEF Sendable
  <2>3. QED
    BY <2>2, LocalTopicsAre, FullIsLast
<1>4. "version" \in TopicsOf(msgs) /\ "proposal" \in TopicsOf(msgs)
  <2>1. PICK m \in Range(msgs) : TRUE
    BY EmptySeq DEF Range, validate_msgs
  <2>2. QED
    BY <2>1, <1>1, <1>2, <1>3
<1>5. /\ calculate_result(msgs, min_required).topics["version"] = Ranked(V, min_required)
      /\ calculate_result(msgs, min_required).topics["proposal"] = Ranked(P, min_required)
  BY <1>4 DEF calculate_result, V, P
<1>6. min_required \in Nat \ {0}
  BY InfoSyncAssumption
<1>7. PICK x : x \in IncludedOf(V, min_required)
  <2> DEFINE S == IncludedOf(V, min_required)
  <2>1. ASSUME S = {} PROVE Ranked(V, min_required) = <<>>
    <3>1. Cardinality(S) = 0
      BY <2>1, FS_EmptySet
    <3> DEFINE kth(k) ==
          CHOOSE x \in S : Cardinality({y \in S : RankedBefore(V, y, x)}) = k - 1
    <3>2. Ranked(V, min_required) = [k \in 1 .. Cardinality(S) |-> kth(k)]
      BY DEF Ranked, IncludedOf
    <3> HIDE DEF kth
    <3>3. 1 .. 0 = {}
      OBVIOUS
    <3>4. QED
      BY <3>1, <3>2, <3>3
  <2>2. QED
    BY <2>1, <1>5
<1>8. Cardinality(Supporters(V, x)) >= min_required
  BY <1>1, <1>6, <1>7, IncludedSupport DEF IncludedOf
<1>9. \A p \in DOMAIN P : Len(P[p]) <= 3 /\ "full" \in Range(P[p])
  BY <1>2, <1>3
<1>10. Supporters(V, x) \in SUBSET Supporters(P, "full")
  <2> SUFFICES ASSUME NEW p \in Supporters(V, x) PROVE p \in Supporters(P, "full")
    OBVIOUS
  <2>1. p \in DOMAIN V
    BY DEF Supporters
  <2>2. PICK m \in Range(msgs) : m.peer = p
    BY <1>1, <2>1
  <2>3. p \in DOMAIN P
    BY <1>2, <1>3, <2>2
  <2>4. QED
    BY <1>9, <2>3 DEF Supporters
<1>11. Cardinality(Supporters(P, "full")) >= min_required
  <2>1. IsFiniteSet(Supporters(P, "full"))
    BY <1>2, OccurrencesCounted
  <2>2. /\ IsFiniteSet(Supporters(V, x))
        /\ Cardinality(Supporters(V, x)) <= Cardinality(Supporters(P, "full"))
    BY <1>10, <2>1, FS_Subset
  <2>3. Cardinality(Supporters(V, x)) \in Nat /\ Cardinality(Supporters(P, "full")) \in Nat
    BY <2>1, <2>2, FS_CardinalityType
  <2>4. QED
    BY <1>6, <1>8, <2>2, <2>3
<1>12. \A o \in Occurrences(P, "full") : o[2] <= 3
  <2> SUFFICES ASSUME NEW o \in Occurrences(P, "full") PROVE o[2] <= 3
    OBVIOUS
  <2>1. o[1] \in DOMAIN P /\ o[2] \in DOMAIN P[o[1]]
    BY DEF Occurrences
  <2>2. o[2] \in 1 .. Len(P[o[1]]) /\ Len(P[o[1]]) \in Nat
    BY <1>2, <2>1 DEF ValidProposals
  <2>3. QED
    BY <1>9, <2>1, <2>2
<1>13. Included(P, "full", min_required)
  BY <1>2, <1>6, <1>11, <1>12, IncludedIfSupported
<1>14. "full" \in Priorities(P)
  <2>1. Supporters(P, "full") # {}
    <3>1. ASSUME Supporters(P, "full") = {} PROVE FALSE
      <4>1. Cardinality(Supporters(P, "full")) = 0
        BY <3>1, FS_EmptySet
      <4>2. QED
        BY <4>1, <1>6, <1>11
    <3>2. QED
      BY <3>1
  <2>2. QED
    BY <2>1 DEF Supporters, Priorities
<1>15. QED
  BY <1>2, <1>5, <1>13, <1>14, RankedLists DEF IncludedOf

-----------------------------------------------------------------------------
(* What is sent is what nodes announce, and what is agreed was calculated from it *)
AgreedInv ==
  /\ config \in [Correct -> Config]
  /\ \A m \in sent : Sendable(m)
  /\ agreed # None => \E msgs \in Seq(sent) :
       validate_msgs(msgs) /\ agreed = calculate_result(msgs, min_required)

(* Every step preserves it, given that what is collected has been sent *)
LEMMA NextAgreedInv ==
  ASSUME IInv, AgreedInv, [Next]_vars
  PROVE  AgreedInv'
<1>1. CASE Tick
  <2>1. CASE is_infosync_slot(slot)
    BY <1>1, <2>1 DEF Tick, AgreedInv
  <2>2. CASE ~is_infosync_slot(slot)
    BY <1>1, <2>2 DEF Tick, AgreedInv
  <2>3. QED
    BY <2>1, <2>2
<1>2. ASSUME NEW m, Sendable(m), sent' = sent \cup {m}, UNCHANGED <<config, agreed>>
      PROVE  AgreedInv'
  <2>1. Seq(sent) \subseteq Seq(sent')
    BY <1>2, SeqMonotonic
  <2>2. QED
    BY <1>2, <2>1 DEF AgreedInv
<1>3. ASSUME NEW n \in Correct, Trigger(n) PROVE AgreedInv'
  <2> DEFINE own == Message(n, LocalTopics(config[n]))
  <2>1. sent' = sent \cup {own} /\ UNCHANGED <<config, agreed>>
    BY <1>3 DEF Trigger
  <2>2. config[n] \in Config /\ n \in Node
    BY DEF AgreedInv, Correct
  <2>3. Sendable(own)
    BY <2>2, TopicsAssumption DEF Sendable, Message
  <2> HIDE DEF own
  <2>4. QED
    BY <1>2, <2>1, <2>3
<1>4. ASSUME NEW n \in Faulty, FaultyTrigger(n) PROVE AgreedInv'
  <2>1. PICK topics \in FaultyTopics : sent' = sent \cup {Message(n, topics)}
    BY <1>4 DEF FaultyTrigger
  <2>2. UNCHANGED <<config, agreed>>
    BY <1>4 DEF FaultyTrigger
  <2>3. Sendable(Message(n, topics))
    BY TopicsAssumption, InfoSyncAssumption DEF Sendable, Message, Correct
  <2>4. QED
    BY <1>2, <2>1, <2>2, <2>3
<1>5. ASSUME NEW n \in Correct, NEW m \in sent, Collect(n, m) PROVE AgreedInv'
  BY <1>5 DEF Collect, AgreedInv
<1>6. ASSUME NEW n \in Correct, Agree(n) PROVE AgreedInv'
  <2>1. /\ collected[n] \in Seq(sent) /\ validate_msgs(collected[n])
        /\ agreed' = calculate_result(collected[n], min_required)
        /\ UNCHANGED <<config, sent>>
    BY <1>6 DEF Agree, IInv, ExchangeInv
  <2>2. QED
    BY <2>1 DEF AgreedInv
<1>7. ASSUME NEW n \in Correct, Deliver(n) PROVE AgreedInv'
  BY <1>7 DEF Deliver, AgreedInv
<1>8. ASSUME NEW n \in Correct, NEW c \in Config, Restart(n, c) PROVE AgreedInv'
  BY <1>8 DEF Restart, AgreedInv
<1>9. CASE UNCHANGED vars
  BY <1>9 DEF vars, AgreedInv
<1>10. QED
  BY <1>1, <1>3, <1>4, <1>5, <1>6, <1>7, <1>8, <1>9 DEF Next

(* The agreement of an exchange, in every reachable state *)
LEMMA AgreedInvariance == Spec => []AgreedInv
<1>1. Init => AgreedInv
  BY DEF Init, AgreedInv
<1>2. IInv /\ AgreedInv /\ [Next]_vars => AgreedInv'
  BY NextAgreedInv
<1>3. QED
  BY <1>1, <1>2, Invariance, PTL DEF Spec

(* scoring.py:64-67: whatever is agreed has been announced by min_required nodes, whatever the
   faulty ones announce, whichever messages were collected and however they are ranked *)
THEOREM AgreedIsSupported == Spec => []AgreedSupport
<1>1. AgreedInv => AgreedSupport
  <2> SUFFICES ASSUME AgreedInv, agreed # None, NEW topic \in DOMAIN agreed.topics,
                      NEW x \in Range(agreed.topics[topic])
               PROVE  Cardinality(Announced(topic, x)) >= min_required
    BY DEF AgreedSupport
  <2>1. PICK msgs \in Seq(sent) :
          validate_msgs(msgs) /\ agreed = calculate_result(msgs, min_required)
    BY DEF AgreedInv
  <2>2. topic \in TopicsOf(msgs)
    BY <2>1 DEF calculate_result
  <2>3. x \in Range(calculate_result(msgs, min_required).topics[topic])
    BY <2>1
  <2>4. \A m \in sent : Sendable(m)
    BY DEF AgreedInv
  <2>5. Announced(topic, x) = Listing(sent, topic, x)
    BY DEF Announced, Listing
  <2>6. QED
    BY <2>1, <2>2, <2>3, <2>4, <2>5, ResultSupported
<1>2. QED
  BY <1>1, AgreedInvariance, PTL

(* infosync.py:139: a result of correct nodes' messages that is recorded includes full
   proposals, whatever features are enabled, as long as twice the supporters required stay
   below the weight of one: 1000 in scoring.py *)
THEOREM FullIsAgreed ==
  ASSUME MAX_PRIORITIES > 2 * min_required
  PROVE  Spec => []FullAgreed
<1>1. AgreedInv => FullAgreed
  <2> SUFFICES ASSUME AgreedInv, agreed # None, \A m \in Range(agreed.msgs) : m.peer \in Correct,
                      agreed.topics["version"] # <<>>
               PROVE  "full" \in Range(agreed.topics["proposal"])
    BY DEF FullAgreed
  <2>1. PICK msgs \in Seq(sent) :
          validate_msgs(msgs) /\ agreed = calculate_result(msgs, min_required)
    BY DEF AgreedInv
  <2>2. agreed.msgs = msgs
    BY <2>1 DEF calculate_result
  <2>3. \A m \in sent : Sendable(m)
    BY DEF AgreedInv
  <2>4. QED
    BY <2>1, <2>2, <2>3, ResultHasFull
<1>2. QED
  BY <1>1, AgreedInvariance, PTL

(* scoring.py:4-6: the ranking is a function of the set of messages: nodes that collected the
   same ones, in whatever order, rank every topic alike *)
THEOREM RankingIsSame == Spec => []SameRanking
<1>1. SameRanking
  <2> SUFFICES ASSUME NEW n \in Correct, NEW m \in Correct,
                      Range(collected[n]) = Range(collected[m])
               PROVE  calculate_result(collected[n], min_required).topics =
                        calculate_result(collected[m], min_required).topics
    BY DEF SameRanking
  <2>1. TopicsOf(collected[n]) = TopicsOf(collected[m])
    BY DEF TopicsOf
  <2>2. \A topic : ProposalsOn(collected[n], topic) = ProposalsOn(collected[m], topic)
    BY DEF ProposalsOn
  <2>3. QED
    BY <2>1, <2>2 DEF calculate_result
<1>2. QED
  BY <1>1, PTL
=============================================================================
