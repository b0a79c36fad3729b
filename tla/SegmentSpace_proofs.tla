------------------------- MODULE SegmentSpace_proofs -------------------------
(***************************************************************************)
(* Proofs about SegmentSpace, for any number of retrievers and blocks, any *)
(* length of the file and any size of the pieces received.                 *)
(*                                                                         *)
(* The allocator works on a list kept in order, so its one sorting pass    *)
(* changes nothing, and a block is cut between the last byte it received   *)
(* and its end.  Two retrievers may come to hold the same offset, because  *)
(* an empty block can begin where the next one does; the invariant says    *)
(* that there is then nothing left to receive at that offset.              *)
(***************************************************************************)
EXTENDS SegmentSpace, SequenceTheorems, FiniteSetTheorems, TLAPS

\* SegmentsApart, End, At and Left for any list and capacity.
Apart(l, c) ==
    /\ \A i \in 1..Len(l) : l[i].SP + l[i].CP <= c
    /\ \A i, k \in 1..Len(l) : i < k => l[i].SP + l[i].CP <= l[k].SP

Space(l, c) ==
    /\ l \in Seq(Blocks)
    /\ c \in Nat /\ c < Width
    /\ Apart(l, c)

EndAt(l, c, i) == IF i = Len(l) THEN c ELSE l[i + 1].SP

Begins(l, p) == \E i \in 1..Len(l) : l[i].SP = p

FirstAt(l, p) ==
    CHOOSE i \in DOMAIN l :
        /\ l[i].SP = p
        /\ \A k \in DOMAIN l : l[k].SP = p => i <= k

\* Nothing is left to receive in the block that calls with p work on.
Done(l, c, p) ==
    l[FirstAt(l, p)].SP + l[FirstAt(l, p)].CP = EndAt(l, c, FirstAt(l, p))

-----------------------------------------------------------------------------
(* Lists of blocks *)

\* Among finitely many numbers there is a first greatest one.
LEMMA FirstMost ==
    ASSUME NEW n \in Nat \ {0}, NEW g, \A k \in 1..n : g[k] \in Int
    PROVE  \E i \in 1..n : \A k \in 1..n : g[k] < g[i] \/ (g[k] = g[i] /\ i <= k)
<1> DEFINE Beats(k, i) == g[i] < g[k] \/ (g[i] = g[k] /\ k < i)
           D(i) == {k \in 1..n : Beats(k, i)}
           T == {D(i) : i \in 1..n}
           R == StrictSubsetOrdering(1..n)
<1>1. IsWellFoundedOn(R, SUBSET (1..n))
  <2>1. IsFiniteSet(1..n)
    BY FS_Interval
  <2>2. FiniteSubsetsOf(1..n) = SUBSET (1..n)
    BY <2>1, FS_FiniteSubsetsOfFinite
  <2> QED BY <2>2, FS_StrictSubsetOrderingWellFounded
<1>2. T \subseteq SUBSET (1..n) /\ T # {}
  <2>1. \A k \in 1..n : D(k) \in SUBSET (1..n)
    OBVIOUS
  <2>2. 1 \in 1..n
    OBVIOUS
  <2> HIDE DEF D
  <2> QED BY <2>1, <2>2
<1>3. \E x \in T : \A y \in T : <<y, x>> \notin R
  <2> HIDE DEF T, R
  <2> QED BY <1>1, <1>2, WFMin
<1>4. PICK i \in 1..n : \A k \in 1..n : <<D(k), D(i)>> \notin R
  <2> HIDE DEF D, R
  <2>1. PICK x \in T : \A y \in T : <<y, x>> \notin R
    BY <1>3
  <2>2. PICK i \in 1..n : x = D(i)
    BY <2>1
  <2>3. \A k \in 1..n : D(k) \in T
    OBVIOUS
  <2> HIDE DEF T
  <2>4. \A k \in 1..n : <<D(k), D(i)>> \notin R
    BY <2>1, <2>2, <2>3
  <2> QED BY <2>4
<1>5. D(i) = {}
  <2> SUFFICES ASSUME NEW k \in D(i) PROVE FALSE
    OBVIOUS
  <2>1. k \in 1..n /\ Beats(k, i)
    OBVIOUS
  <2>2. \A j \in 1..n : Beats(j, k) => Beats(j, i)
    BY <2>1
  <2>3. ~Beats(k, k)
    BY <2>1
  <2>4. D(k) \subseteq D(i) /\ k \notin D(k) /\ k \in D(i)
    BY <2>2, <2>3
  <2>5. <<D(k), D(i)>> \in R
    <3>1. D(k) \in SUBSET (1..n) /\ D(i) \in SUBSET (1..n) /\ D(k) # D(i)
      BY <2>4
    <3> HIDE DEF D
    <3> QED BY <2>4, <3>1 DEF StrictSubsetOrdering
  <2> QED BY <1>4, <2>1, <2>5
<1>6. \A k \in 1..n : ~Beats(k, i)
  BY <1>5
<1> QED BY <1>6

LEMMA BlockFacts ==
    ASSUME NEW l \in Seq(Blocks), NEW i \in 1..Len(l)
    PROVE  /\ l[i] \in Blocks
           /\ l[i].SP \in Nat /\ l[i].SP < Width
           /\ l[i].CP \in Nat /\ l[i].CP < Width
           /\ l[i].busy \in BOOLEAN
<1>1. l[i] \in Blocks
  BY ElementOfSeq
<1>2. \A b \in Blocks : /\ b.SP \in Offsets /\ b.CP \in Offsets
                        /\ b.busy \in BOOLEAN
  BY DEF Blocks
<1>3. \A x \in Offsets : x \in Nat /\ x < Width
  BY SegmentAssumption DEF Offsets
<1> QED BY <1>1, <1>2, <1>3

LEMMA SeqFacts ==
    ASSUME NEW l \in Seq(Blocks)
    PROVE  /\ Len(l) \in Nat /\ DOMAIN l = 1..Len(l)
           /\ l # << >> <=> Len(l) # 0
  BY LenProperties, EmptySeq

LEMMA FirstAtFacts ==
    ASSUME NEW l \in Seq(Blocks), NEW p, Begins(l, p)
    PROVE  /\ FirstAt(l, p) \in 1..Len(l)
           /\ l[FirstAt(l, p)].SP = p
           /\ \A k \in 1..Len(l) : l[k].SP = p => FirstAt(l, p) <= k
<1> DEFINE n == Len(l)
           g == [k \in 1..n |-> IF l[k].SP = p THEN 1 ELSE 0]
<1>1. DOMAIN l = 1..n /\ n \in Nat
  BY SeqFacts
<1>2. PICK j \in 1..n : l[j].SP = p
  BY DEF Begins
<1>3. n \in Nat \ {0}
  BY <1>1, <1>2
<1>4. \A k \in 1..n : g[k] = IF l[k].SP = p THEN 1 ELSE 0
  OBVIOUS
<1> HIDE DEF g, n
<1>5. \A k \in 1..n : g[k] \in Int
  BY <1>4
<1>6. PICK i \in 1..n : \A k \in 1..n : g[k] < g[i] \/ (g[k] = g[i] /\ i <= k)
  BY <1>3, <1>5, FirstMost
<1>7. g[i] = 1
  BY <1>2, <1>4, <1>6
<1>8. l[i].SP = p /\ \A k \in 1..n : l[k].SP = p => i <= k
  BY <1>4, <1>6, <1>7
<1>9. \E m \in DOMAIN l : l[m].SP = p /\ \A k \in DOMAIN l : l[k].SP = p => m <= k
  BY <1>1, <1>8
<1> QED BY <1>1, <1>9 DEF FirstAt, n

\* What those facts say determines FirstAt.
LEMMA FirstAtIs ==
    ASSUME NEW l \in Seq(Blocks), NEW p, NEW i \in 1..Len(l), l[i].SP = p,
           \A k \in 1..Len(l) : l[k].SP = p => i <= k
    PROVE  FirstAt(l, p) = i
<1>1. Begins(l, p)
  BY DEF Begins
<1>2. FirstAt(l, p) \in 1..Len(l) /\ Len(l) \in Nat
  BY <1>1, FirstAtFacts, SeqFacts
<1> QED BY <1>1, <1>2, FirstAtFacts

LEMMA EndFacts ==
    ASSUME NEW l, NEW c, Space(l, c), NEW i \in 1..Len(l)
    PROVE  /\ EndAt(l, c, i) \in Nat /\ EndAt(l, c, i) <= c
           /\ l[i].SP + l[i].CP <= EndAt(l, c, i)
           /\ \A k \in 1..Len(l) : i < k => EndAt(l, c, i) <= l[k].SP
<1>1. Len(l) \in Nat /\ \A k \in 1..Len(l) : l[k].SP \in Nat /\ l[k].CP \in Nat
  BY SeqFacts, BlockFacts DEF Space
<1>2. CASE i = Len(l)
  BY <1>1, <1>2 DEF Space, Apart, EndAt
<1>3. CASE i # Len(l)
  <2>1. i + 1 \in 1..Len(l) /\ i < i + 1
    BY <1>1, <1>3
  <2>2. EndAt(l, c, i) = l[i + 1].SP
    BY <1>3 DEF EndAt
  <2>3. l[i].SP + l[i].CP <= l[i + 1].SP
    BY <2>1 DEF Space, Apart
  <2>4. l[i + 1].SP + l[i + 1].CP <= c
    BY <2>1 DEF Space, Apart
  <2>5. c \in Nat /\ l[i + 1].SP \in Nat /\ l[i + 1].CP \in Nat
    BY <1>1, <2>1 DEF Space
  <2>6. \A k \in 1..Len(l) : i + 1 < k => l[i + 1].SP <= l[k].SP
    BY <1>1, <2>1 DEF Space, Apart
  <2>7. \A k \in 1..Len(l) : i < k => k = i + 1 \/ i + 1 < k
    BY <1>1
  <2> QED BY <2>2, <2>3, <2>4, <2>5, <2>6, <2>7
<1> QED BY <1>2, <1>3

\* The difference of unsigned numbers does not wrap where it is taken.
LEMMA GapFacts ==
    ASSUME Space(mPointerMap, mMemCapacity), NEW i \in 1..Len(mPointerMap)
    PROVE  LET l == mPointerMap
               e == EndAt(l, mMemCapacity, i)
           IN  /\ End(l, i) = e
               /\ Gap(l, i) = e - (l[i].SP + l[i].CP)
               /\ Gap(l, i) \in Nat
<1> DEFINE l == mPointerMap
           e == EndAt(l, mMemCapacity, i)
<1>1. e \in Nat /\ l[i].SP + l[i].CP <= e
  BY EndFacts
<1>2. l[i].SP \in Nat /\ l[i].CP \in Nat
  BY BlockFacts DEF Space
<1>3. End(l, i) = e
  BY DEF End, EndAt
<1>4. Gap(l, i) = Minus(Minus(e, l[i].CP), l[i].SP)
  BY <1>3 DEF Gap
<1>5. Minus(e, l[i].CP) = e - l[i].CP
  BY <1>1, <1>2 DEF Minus
<1>6. Minus(e - l[i].CP, l[i].SP) = e - l[i].CP - l[i].SP
  BY <1>1, <1>2 DEF Minus
<1>7. Gap(l, i) = e - l[i].CP - l[i].SP
  BY <1>4, <1>5, <1>6
<1> HIDE DEF e, l
<1>8. Gap(l, i) = e - (l[i].SP + l[i].CP) /\ Gap(l, i) \in Nat
  BY <1>1, <1>2, <1>7
<1> QED BY <1>3, <1>8 DEF e, l

\* The list is always in order, so sorting it changes nothing.
LEMMA SortedStays ==
    ASSUME NEW l, NEW c, Space(l, c) PROVE sortMMList(l) = l
<1>1. /\ l \in Seq(Blocks) /\ Len(l) \in Nat /\ DOMAIN l = 1..Len(l)
      /\ \A k \in 1..Len(l) : l[k].SP \in Nat /\ l[k].CP \in Nat
  BY SeqFacts, BlockFacts DEF Space
<1>2. \A i, k \in 1..Len(l) : i <= k => l[i].SP <= l[k].SP
  BY <1>1 DEF Space, Apart
<1>3. ASSUME NEW i \in 1..Len(l) PROVE Carried(l, i) = i
  <2> DEFINE P(j) == \A k \in 1..i : l[k].SP < l[j].SP \/ (l[k].SP = l[j].SP /\ k <= j)
  <2>1. 1..i \subseteq 1..Len(l) /\ i \in 1..i
    BY <1>1
  <2>2. P(i)
    <3> SUFFICES ASSUME NEW k \in 1..i
                 PROVE  l[k].SP < l[i].SP \/ (l[k].SP = l[i].SP /\ k <= i)
      OBVIOUS
    <3>1. l[k].SP <= l[i].SP /\ l[k].SP \in Nat /\ l[i].SP \in Nat
      BY <1>1, <1>2, <2>1
    <3> QED BY <3>1
  <2>3. ASSUME NEW j \in 1..i, P(j) PROVE j = i
    <3>1. l[i].SP < l[j].SP \/ (l[i].SP = l[j].SP /\ i <= j)
      BY <2>1, <2>3
    <3>2. l[j].SP <= l[i].SP /\ l[j].SP \in Nat /\ l[i].SP \in Nat
      BY <1>1, <1>2, <2>1
    <3> QED BY <3>1, <3>2
  <2>4. Carried(l, i) \in 1..i /\ P(Carried(l, i))
    <3>1. \E j \in 1..i : P(j)
      BY <2>1, <2>2
    <3>2. Carried(l, i) = CHOOSE j \in 1..i : P(j)
      BY DEF Carried
    <3> HIDE DEF P
    <3> QED BY <3>1, <3>2
  <2> HIDE DEF P
  <2> QED BY <2>3, <2>4
<1>4. ASSUME NEW i \in 1..Len(l) PROVE sortMMList(l)[i] = l[i]
  <2>1. sortMMList(l)[i] = IF i < Len(l) /\ l[i].SP > l[i + 1].SP THEN l[i + 1] ELSE l[i]
    BY <1>3 DEF sortMMList
  <2>2. i < Len(l) => i + 1 \in 1..Len(l) /\ i <= i + 1
    BY <1>1
  <2>3. ~(i < Len(l) /\ l[i].SP > l[i + 1].SP)
    BY <1>1, <1>2, <2>2
  <2> QED BY <2>1, <2>3
<1>5. DOMAIN sortMMList(l) = 1..Len(l) /\ sortMMList(l) = [i \in 1..Len(l) |-> sortMMList(l)[i]]
  BY DEF sortMMList
<1>6. l = [i \in 1..Len(l) |-> l[i]]
  BY <1>1, LenProperties
<1> QED BY <1>4, <1>5, <1>6

-----------------------------------------------------------------------------
(* What the calls do to the list *)

LEMMA WidestIn ==
    ASSUME Space(mPointerMap, mMemCapacity), mPointerMap # << >>
    PROVE  Widest(mPointerMap) \in 1..Len(mPointerMap)
<1> DEFINE l == mPointerMap
           n == Len(l)
           g == [k \in 1..n |-> Gap(l, k)]
<1>1. n \in Nat \ {0} /\ DOMAIN l = 1..n
  BY SeqFacts DEF Space
<1>2. \A k \in 1..n : g[k] = Gap(l, k) /\ g[k] \in Int
  BY GapFacts
<1>3. \E i \in 1..n : \A k \in 1..n : g[k] < g[i] \/ (g[k] = g[i] /\ i <= k)
  <2> HIDE DEF g, n
  <2> QED BY <1>1, <1>2, FirstMost
<1>4. \E i \in DOMAIN l : \A k \in DOMAIN l :
          Gap(l, k) < Gap(l, i) \/ (Gap(l, k) = Gap(l, i) /\ i <= k)
  <2> HIDE DEF g, n
  <2> QED BY <1>1, <1>2, <1>3
<1> QED BY <1>1, <1>4 DEF Widest

\* A block is cut between the last byte it received and its end.
LEMMA CutPoint ==
    ASSUME Space(mPointerMap, mMemCapacity), NEW i \in 1..Len(mPointerMap)
    PROVE  LET l == mPointerMap
               q == CutAt(l, i)
           IN  /\ q \in Nat
               /\ l[i].SP + l[i].CP <= q /\ q <= EndAt(l, mMemCapacity, i)
               /\ ~Refused(l, i) /\ ~Reused(l, i) => l[i].SP < q
<1> DEFINE l == mPointerMap
           e == EndAt(l, mMemCapacity, i)
           q == CutAt(l, i)
           g == Gap(l, i)
           r == l[i].SP + l[i].CP
<1>1. e \in Nat /\ r <= e /\ g = e - r /\ g \in Nat /\ End(l, i) = e
  BY EndFacts, GapFacts
<1>2. l[i].SP \in Nat /\ l[i].CP \in Nat
  BY BlockFacts DEF Space
<1>3. CASE l[i].busy
  <2>1. q = Minus(e, g \div 2)
    BY <1>1, <1>3 DEF CutAt
  <2>2. \A x \in Nat : x \div 2 \in Nat /\ x \div 2 <= x /\ (x > 0 => x \div 2 < x)
    OBVIOUS
  <2>3. g \div 2 \in Nat /\ g \div 2 <= g /\ (g > 0 => g \div 2 < g)
    <3> HIDE DEF g
    <3> QED BY <1>1, <2>2
  <2>4. ~Refused(l, i) => g > 0
    BY <1>1, <1>3, SegmentAssumption DEF Refused
  <2>5. r \in Nat /\ l[i].SP <= r
    BY <1>2
  <2> HIDE DEF e, q, g, r
  <2>6. q = e - (g \div 2)
    BY <1>1, <2>1, <2>3, <2>5 DEF Minus
  <2> DEFINE h == g \div 2
  <2> HIDE DEF h
  <2>7. q = e - h /\ h \in Nat /\ h <= g /\ (g > 0 => h < g)
    BY <2>3, <2>6 DEF h
  <2>8. q \in Nat /\ r <= q /\ q <= e /\ (g > 0 => r < q)
    BY <1>1, <2>5, <2>7
  <2>9. ~Refused(l, i) => l[i].SP < q
    BY <2>4, <2>5, <2>8, <1>2
  <2> QED BY <2>8, <2>9 DEF q, e, r
<1>4. CASE ~l[i].busy
  <2>1. q = r
    BY <1>4 DEF CutAt
  <2>2. ~Reused(l, i) => l[i].CP # 0
    BY <1>4 DEF Reused
  <2> QED BY <1>1, <1>2, <2>1, <2>2
<1> QED BY <1>3, <1>4

LEMMA CutBlocks ==
    ASSUME NEW l \in Seq(Blocks), NEW i \in 1..Len(l), CutAt(l, i) \in Offsets
    PROVE  /\ Cut(l, i) \in Seq(Blocks)
           /\ Len(Cut(l, i)) = Len(l) + 1
           /\ \A k \in 1..i : Cut(l, i)[k] = l[k]
           /\ Cut(l, i)[i + 1] = [SP |-> CutAt(l, i), CP |-> 0, busy |-> TRUE]
           /\ \A k \in i + 1..Len(l) : Cut(l, i)[k + 1] = l[k]
<1> DEFINE b == [SP |-> CutAt(l, i), CP |-> 0, busy |-> TRUE]
           s == SubSeq(l, 1, i)
           t == SubSeq(l, i + 1, Len(l))
           u == <<b>>
           n == Len(l)
<1>1. n \in Nat /\ \A k \in 1..n : l[k] \in Blocks
  BY SeqFacts, ElementOfSeq
<1>2. b \in Blocks
  <2>1. 0 \in Offsets
    BY SegmentAssumption DEF Offsets
  <2> QED BY <2>1 DEF Blocks
<1>3. u \in Seq(Blocks) /\ Len(u) = 1 /\ u[1] = b
  BY <1>2
<1>4. s \in Seq(Blocks) /\ Len(s) = i /\ \A k \in 1..i : s[k] = l[k]
  <2>1. \A k \in 1..i : l[k] \in Blocks
    BY <1>1
  <2>2. s \in Seq(Blocks)
    BY <2>1, SubSeqProperties
  <2>3. Len(s) = i /\ \A k \in 1..i - 1 + 1 : s[k] = l[1 + k - 1]
    BY <2>1, SubSeqProperties
  <2> QED BY <2>2, <2>3
<1>5. t \in Seq(Blocks) /\ Len(t) = n - i /\ \A k \in 1..n - i : t[k] = l[i + k]
  <2>1. \A k \in i + 1..n : l[k] \in Blocks
    BY <1>1
  <2>2. t \in Seq(Blocks)
    BY <1>1, <2>1, SubSeqProperties
  <2>3. /\ Len(t) = IF i + 1 <= n THEN n - (i + 1) + 1 ELSE 0
        /\ \A k \in 1..n - (i + 1) + 1 : t[k] = l[i + 1 + k - 1]
    BY <1>1, <2>1, SubSeqProperties
  <2> QED BY <1>1, <2>2, <2>3
<1>6. Cut(l, i) = (s \o u) \o t
  BY DEF Cut
<1> HIDE DEF s, t, u, b, n
<1>7. /\ s \o u \in Seq(Blocks) /\ Len(s \o u) = i + 1
      /\ \A k \in 1..i + 1 : (s \o u)[k] = IF k <= i THEN s[k] ELSE u[k - i]
  <2>1. /\ s \o u \in Seq(Blocks) /\ Len(s \o u) = Len(s) + Len(u)
        /\ \A k \in 1..Len(s) + Len(u) :
               (s \o u)[k] = IF k <= Len(s) THEN s[k] ELSE u[k - Len(s)]
    BY <1>3, <1>4, ConcatProperties
  <2> QED BY <1>3, <1>4, <2>1
<1>8. /\ Cut(l, i) \in Seq(Blocks) /\ Len(Cut(l, i)) = i + 1 + (n - i)
      /\ \A k \in 1..i + 1 + (n - i) :
             Cut(l, i)[k] = IF k <= i + 1 THEN (s \o u)[k] ELSE t[k - (i + 1)]
  <2> DEFINE v == s \o u
  <2>1. v \in Seq(Blocks) /\ Len(v) = i + 1 /\ Cut(l, i) = v \o t
    BY <1>6, <1>7
  <2> HIDE DEF v
  <2>2. /\ v \o t \in Seq(Blocks) /\ Len(v \o t) = Len(v) + Len(t)
        /\ \A k \in 1..Len(v) + Len(t) :
               (v \o t)[k] = IF k <= Len(v) THEN v[k] ELSE t[k - Len(v)]
    BY <1>5, <2>1, ConcatProperties
  <2> QED BY <1>5, <2>1, <2>2 DEF v
<1>9. i \in Nat \ {0} /\ i <= n
  BY <1>1 DEF n
<1>10. Len(Cut(l, i)) = n + 1
  BY <1>1, <1>8, <1>9
<1>11. ASSUME NEW k \in 1..i PROVE Cut(l, i)[k] = l[k]
  BY <1>1, <1>4, <1>7, <1>8, <1>9
<1>12. Cut(l, i)[i + 1] = b
  <2>1. i + 1 \in 1..i + 1 + (n - i) /\ i + 1 \in 1..i + 1 /\ ~(i + 1 <= i) /\ i + 1 - i = 1
    BY <1>1, <1>9
  <2>2. Cut(l, i)[i + 1] = u[1]
    BY <1>7, <1>8, <2>1
  <2> QED BY <1>3, <2>2
<1>13. ASSUME NEW k \in i + 1..n PROVE Cut(l, i)[k + 1] = l[k]
  <2>1. k + 1 \in 1..i + 1 + (n - i) /\ ~(k + 1 <= i + 1) /\ k + 1 - (i + 1) = k - i
        /\ k - i \in 1..n - i /\ i + (k - i) = k
    BY <1>1, <1>9, <1>13
  <2>2. Cut(l, i)[k + 1] = t[k - i]
    BY <1>8, <2>1
  <2> QED BY <1>5, <2>1, <2>2
<1> QED BY <1>8, <1>10, <1>11, <1>12, <1>13 DEF n, b

\* The blocks stay apart when one is cut.
LEMMA CutSpace ==
    ASSUME Space(mPointerMap, mMemCapacity), NEW i \in 1..Len(mPointerMap)
    PROVE  Space(Cut(mPointerMap, i), mMemCapacity)
<1> DEFINE l == mPointerMap
           c == mMemCapacity
           q == CutAt(l, i)
           m == Cut(l, i)
           n == Len(l)
           e == EndAt(l, c, i)
<1>1. q \in Nat /\ l[i].SP + l[i].CP <= q /\ q <= e
  BY CutPoint
<1>2. /\ e \in Nat /\ e <= c /\ l \in Seq(Blocks) /\ n \in Nat
      /\ c \in Nat /\ c < Width
      /\ \A k \in 1..n : i < k => e <= l[k].SP
  BY EndFacts, SeqFacts DEF Space
<1>3. q \in Offsets
  BY <1>1, <1>2, SegmentAssumption DEF Offsets
<1>4. /\ m \in Seq(Blocks) /\ Len(m) = n + 1
      /\ \A k \in 1..i : m[k] = l[k]
      /\ m[i + 1].SP = q /\ m[i + 1].CP = 0
      /\ \A k \in i + 1..n : m[k + 1] = l[k]
  <2>1. /\ m \in Seq(Blocks) /\ Len(m) = n + 1
        /\ \A k \in 1..i : m[k] = l[k]
        /\ m[i + 1] = [SP |-> q, CP |-> 0, busy |-> TRUE]
        /\ \A k \in i + 1..n : m[k + 1] = l[k]
    <3> HIDE DEF q, m
    <3> QED BY <1>2, <1>3, CutBlocks DEF q, m
  <2> HIDE DEF q, m
  <2> QED BY <2>1
<1>5. \A k \in 1..n : /\ l[k].SP \in Nat /\ l[k].CP \in Nat
                       /\ l[k].SP + l[k].CP <= c
  BY BlockFacts DEF Space, Apart
<1>6. \A j, k \in 1..n : j < k => l[j].SP + l[j].CP <= l[k].SP
  BY DEF Space, Apart
<1>7. i \in 1..n
  OBVIOUS
<1>8. \A k \in 1..n + 1 : k \in 1..i \/ k = i + 1 \/ (k - 1 \in i + 1..n /\ k = (k - 1) + 1)
  BY <1>2, <1>7
<1> HIDE DEF l, c, q, m, n, e
<1>9. ASSUME NEW k \in 1..n + 1 PROVE m[k].SP + m[k].CP <= c
  <2>1. CASE k \in 1..i BY <1>2, <1>4, <1>5, <1>7, <2>1
  <2>2. CASE k = i + 1 BY <1>1, <1>2, <1>4, <2>2
  <2>3. CASE k - 1 \in i + 1..n /\ k = (k - 1) + 1
    <3>1. m[k] = l[k - 1] /\ k - 1 \in 1..n
      BY <1>2, <1>4, <1>7, <2>3
    <3> QED BY <1>5, <3>1
  <2> QED BY <1>8, <2>1, <2>2, <2>3
<1>10. ASSUME NEW j \in 1..n + 1, NEW k \in 1..n + 1, j < k
       PROVE  m[j].SP + m[j].CP <= m[k].SP
  <2>1. CASE j \in 1..i /\ k \in 1..i
    BY <1>2, <1>4, <1>6, <1>7, <1>10, <2>1
  <2>2. CASE j \in 1..i /\ k = i + 1
    <3>1. m[j] = l[j] /\ m[k].SP = q
      BY <1>4, <2>2
    <3>2. j \in 1..n /\ (j < i \/ j = i)
      BY <1>2, <1>7, <2>2
    <3>3. j < i => l[j].SP + l[j].CP <= l[i].SP
      BY <1>6, <1>7, <3>2
    <3>4. /\ l[j].SP \in Nat /\ l[j].CP \in Nat
          /\ l[i].SP \in Nat /\ l[i].CP \in Nat
      BY <1>5, <1>7, <3>2
    <3>5. l[j].SP + l[j].CP <= q
      <4>1. CASE j = i
        BY <1>1, <4>1
      <4>2. CASE j < i
        <5>1. \A a, b, x, y, z \in Nat : a + b <= x /\ x + y <= z => a + b <= z
          OBVIOUS
        <5>2. l[j].SP + l[j].CP <= l[i].SP
          BY <3>3, <4>2
        <5>3. l[i].SP + l[i].CP <= q /\ q \in Nat
          BY <1>1
        <5> QED BY <3>4, <5>1, <5>2, <5>3
      <4> QED BY <3>2, <4>1, <4>2
    <3> QED BY <3>1, <3>5
  <2>3. CASE j \in 1..i /\ k - 1 \in i + 1..n /\ k = (k - 1) + 1
    <3>1. m[j] = l[j] /\ m[k] = l[k - 1] /\ j \in 1..n /\ k - 1 \in 1..n /\ j < k - 1
      BY <1>2, <1>4, <1>7, <2>3
    <3> QED BY <1>6, <3>1
  <2>4. CASE j = i + 1 /\ k - 1 \in i + 1..n /\ k = (k - 1) + 1
    <3>1. m[j].SP + m[j].CP = q /\ m[k] = l[k - 1] /\ k - 1 \in 1..n /\ i < k - 1
      BY <1>1, <1>2, <1>4, <1>7, <2>4
    <3>2. e <= l[k - 1].SP /\ l[k - 1].SP \in Nat
      BY <1>2, <1>5, <3>1
    <3> QED BY <1>1, <1>2, <3>1, <3>2
  <2>5. CASE j - 1 \in i + 1..n /\ j = (j - 1) + 1 /\ k - 1 \in i + 1..n /\ k = (k - 1) + 1
    <3>1. /\ m[j] = l[j - 1] /\ m[k] = l[k - 1]
          /\ j - 1 \in 1..n /\ k - 1 \in 1..n /\ j - 1 < k - 1
      BY <1>2, <1>4, <1>7, <1>10, <2>5
    <3> QED BY <1>6, <3>1
  <2> QED BY <1>2, <1>7, <1>8, <1>10, <2>1, <2>2, <2>3, <2>4, <2>5
<1>11. Apart(m, c)
  BY <1>4, <1>9, <1>10 DEF Apart
<1>12. Space(m, c)
  BY <1>2, <1>4, <1>11 DEF Space
<1> QED BY <1>12 DEF m, c, l

\* Cutting a block leaves the others what they had, and the new block is the
\* one the calls with its offset work on.  If a block began there before, it
\* now begins where the new one ends as well.
LEMMA CutKeeps ==
    ASSUME Space(mPointerMap, mMemCapacity), NEW i \in 1..Len(mPointerMap),
           ~Refused(mPointerMap, i), ~Reused(mPointerMap, i)
    PROVE  LET l == mPointerMap
               c == mMemCapacity
               m == Cut(l, i)
               q == CutAt(l, i)
           IN  /\ \A p : Begins(l, p) =>
                      /\ Begins(m, p)
                      /\ p # q => m[FirstAt(m, p)] = l[FirstAt(l, p)]
                      /\ Done(l, c, p) => Done(m, c, p)
               /\ Begins(m, q) /\ m[FirstAt(m, q)].busy
               /\ Begins(l, q) => Done(m, c, q)
               /\ q \in Offsets /\ q # 0
               /\ m[1].SP = l[1].SP
<1> DEFINE l == mPointerMap
           c == mMemCapacity
           q == CutAt(l, i)
           m == Cut(l, i)
           n == Len(l)
           e == EndAt(l, c, i)
<1>1. /\ q \in Nat /\ l[i].SP + l[i].CP <= q /\ q <= e /\ l[i].SP < q
      /\ l[i].SP \in Nat /\ l[i].CP \in Nat
  <2>1. l[i].SP \in Nat /\ l[i].CP \in Nat
    BY BlockFacts DEF Space
  <2> QED BY <2>1, CutPoint
<1>2. /\ e \in Nat /\ e <= c /\ l \in Seq(Blocks) /\ n \in Nat
      /\ c \in Nat /\ c < Width
      /\ \A k \in 1..n : i < k => e <= l[k].SP
  BY EndFacts, SeqFacts DEF Space
<1>3. q \in Offsets /\ q # 0
  BY <1>1, <1>2, SegmentAssumption DEF Offsets
<1>4. /\ m \in Seq(Blocks) /\ Len(m) = n + 1
      /\ \A k \in 1..i : m[k] = l[k]
      /\ m[i + 1] = [SP |-> q, CP |-> 0, busy |-> TRUE]
      /\ \A k \in i + 1..n : m[k + 1] = l[k]
  <2> HIDE DEF q, m
  <2> QED BY <1>2, <1>3, CutBlocks DEF q, m
<1>5. \A j, k \in 1..n : j <= k => l[j].SP <= l[k].SP
  <2>1. \A k \in 1..n : l[k].SP \in Nat /\ l[k].CP \in Nat
    BY BlockFacts DEF Space
  <2> QED BY <1>2, <2>1 DEF Space, Apart
<1>6. \A k \in 1..n : l[k].SP \in Nat
  BY BlockFacts DEF Space
<1>7. i \in 1..n
  OBVIOUS
<1>8. \A k \in 1..n + 1 : k \in 1..i \/ k = i + 1 \/ (k - 1 \in i + 1..n /\ k = (k - 1) + 1)
  BY <1>2, <1>7
<1>20. Space(l, c)
  OBVIOUS
<1>21. EndAt(l, c, i) = e
  OBVIOUS
<1> HIDE DEF l, c, q, m, n, e
<1>9. m[i + 1].SP = q /\ m[i + 1].CP = 0 /\ m[i + 1].busy
  BY <1>4
<1>10. FirstAt(m, q) = i + 1
  <2>1. i + 1 \in 1..Len(m)
    BY <1>2, <1>4, <1>7
  <2>2. ASSUME NEW k \in 1..Len(m), m[k].SP = q PROVE i + 1 <= k
    <3>1. k \in 1..i => FALSE
      <4> SUFFICES ASSUME k \in 1..i PROVE FALSE
        OBVIOUS
      <4>1. m[k] = l[k] /\ k \in 1..n /\ k <= i
        BY <1>2, <1>4, <1>7
      <4>2. l[k].SP <= l[i].SP /\ l[k].SP = q
        BY <1>5, <1>7, <2>2, <4>1
      <4> QED BY <1>1, <4>2
    <3> QED BY <1>4, <1>7, <3>1
  <2> QED BY <1>4, <1>9, <2>1, <2>2, FirstAtIs
<1>11. Begins(m, q)
  BY <1>2, <1>4, <1>7, <1>9 DEF Begins
<1>12. m[FirstAt(m, q)].busy
  BY <1>9, <1>10
<1>13. ASSUME Begins(l, q) PROVE Done(m, c, q)
  <2>1. PICK k \in 1..n : l[k].SP = q
    BY <1>13 DEF Begins, n
  <2>2. i < k
    BY <1>1, <1>2, <1>5, <1>7, <2>1
  <2>3. i + 1 \in 1..n /\ i + 1 \in i + 1..n /\ i + 1 # n + 1 /\ i < i + 1 /\ i + 1 <= k
    BY <1>2, <1>7, <2>1, <2>2
  <2>4. e <= l[i + 1].SP /\ l[i + 1].SP <= q
    BY <1>2, <1>5, <2>1, <2>3
  <2>5. l[i + 1].SP = q
    BY <1>1, <1>2, <1>6, <2>3, <2>4
  <2>6. EndAt(m, c, i + 1) = q
    <3>1. m[(i + 1) + 1] = l[i + 1]
      BY <1>4, <2>3
    <3> QED BY <1>4, <2>3, <2>5, <3>1 DEF EndAt
  <2> QED BY <1>1, <1>9, <1>10, <2>6 DEF Done
<1>14. ASSUME NEW p, Begins(l, p), p # q
       PROVE  /\ Begins(m, p)
              /\ m[FirstAt(m, p)] = l[FirstAt(l, p)]
              /\ Done(l, c, p) => Done(m, c, p)
  <2> DEFINE j == FirstAt(l, p)
  <2>1. j \in 1..n /\ l[j].SP = p /\ \A k \in 1..n : l[k].SP = p => j <= k
    BY <1>2, <1>14, FirstAtFacts DEF n
  <2> HIDE DEF j
  <2>2. CASE j <= i
    <3>1. j \in 1..i /\ j \in 1..n + 1 /\ m[j] = l[j] /\ j # n + 1
      BY <1>2, <1>4, <1>7, <2>1, <2>2
    <3>2. ASSUME NEW k \in 1..n + 1, m[k].SP = p PROVE j <= k
      <4>1. CASE k \in 1..i
        <5>1. m[k] = l[k] /\ k \in 1..n
          BY <1>2, <1>4, <1>7, <4>1
        <5> QED BY <2>1, <3>2, <5>1
      <4>2. CASE k = i + 1
        BY <1>9, <1>14, <3>2, <4>2
      <4>3. CASE k - 1 \in i + 1..n /\ k = (k - 1) + 1
        BY <1>2, <1>7, <2>1, <2>2, <4>3
      <4> QED BY <1>8, <4>1, <4>2, <4>3
    <3>3. FirstAt(m, p) = j
      BY <1>4, <2>1, <3>1, <3>2, FirstAtIs
    <3>4. Begins(m, p)
      BY <1>4, <2>1, <3>1 DEF Begins
    <3>5. ASSUME Done(l, c, p) PROVE Done(m, c, p)
      <4>1. l[j].SP + l[j].CP = EndAt(l, c, j)
        BY <3>5 DEF Done, j
      <4>2. CASE j = i
        <5>1. q = e
          BY <1>1, <1>2, <1>21, <4>1, <4>2
        <5>2. EndAt(m, c, j) = q
          BY <1>4, <1>9, <3>1, <4>2 DEF EndAt
        <5>3. l[j].SP + l[j].CP = q
          BY <1>21, <4>1, <4>2, <5>1
        <5> QED BY <3>1, <3>3, <5>2, <5>3 DEF Done
      <4>3. CASE j # i
        <5>1. j + 1 \in 1..i /\ j # n
          BY <1>2, <1>7, <2>1, <2>2, <4>3
        <5>2. m[j + 1] = l[j + 1]
          BY <1>4, <5>1
        <5>3. EndAt(m, c, j) = EndAt(l, c, j)
          BY <1>4, <3>1, <5>1, <5>2 DEF EndAt, n
        <5> QED BY <3>1, <3>3, <4>1, <5>3 DEF Done
      <4> QED BY <4>2, <4>3
    <3> QED BY <3>1, <3>3, <3>4, <3>5 DEF j
  <2>3. CASE i < j
    <3>1. j \in i + 1..n /\ j + 1 \in 1..n + 1 /\ m[j + 1] = l[j]
      BY <1>2, <1>4, <1>7, <2>1, <2>3
    <3>2. ASSUME NEW k \in 1..n + 1, m[k].SP = p PROVE j + 1 <= k
      <4>1. CASE k \in 1..i
        <5>1. m[k] = l[k] /\ k \in 1..n
          BY <1>2, <1>4, <1>7, <4>1
        <5> QED BY <1>7, <2>1, <2>3, <3>2, <4>1, <5>1
      <4>2. CASE k = i + 1
        BY <1>9, <1>14, <3>2, <4>2
      <4>3. CASE k - 1 \in i + 1..n /\ k = (k - 1) + 1
        <5>1. m[k] = l[k - 1] /\ k - 1 \in 1..n
          BY <1>2, <1>4, <1>7, <4>3
        <5> QED BY <1>2, <2>1, <3>2, <4>3, <5>1
      <4> QED BY <1>8, <4>1, <4>2, <4>3
    <3>3. FirstAt(m, p) = j + 1
      BY <1>4, <2>1, <3>1, <3>2, FirstAtIs
    <3>4. Begins(m, p)
      BY <1>4, <2>1, <3>1 DEF Begins
    <3>5. EndAt(m, c, j + 1) = EndAt(l, c, j)
      <4>1. CASE j = n
        BY <1>4, <4>1 DEF EndAt, n
      <4>2. CASE j # n
        <5>1. j + 1 \in i + 1..n /\ j + 1 # n + 1
          BY <1>2, <1>7, <2>1, <2>3, <4>2
        <5>2. m[(j + 1) + 1] = l[j + 1]
          BY <1>4, <5>1
        <5> QED BY <1>4, <4>2, <5>1, <5>2 DEF EndAt, n
      <4> QED BY <4>1, <4>2
    <3>6. Done(l, c, p) => Done(m, c, p)
      BY <3>1, <3>3, <3>5 DEF Done, j
    <3> QED BY <3>1, <3>3, <3>4, <3>6 DEF j
  <2> QED BY <1>7, <2>1, <2>2, <2>3
<1>15. m[1].SP = l[1].SP
  BY <1>2, <1>4, <1>7
<1>16. \A p : Begins(l, p) =>
            /\ Begins(m, p)
            /\ p # q => m[FirstAt(m, p)] = l[FirstAt(l, p)]
            /\ Done(l, c, p) => Done(m, c, p)
  BY <1>11, <1>13, <1>14
<1> QED BY <1>3, <1>11, <1>12, <1>13, <1>15, <1>16 DEF l, c, q, m

\* The calls that change no offset.
LEMMA SameOffsets ==
    ASSUME NEW l, NEW c, NEW m \in Seq(Blocks), Space(l, c), Len(m) = Len(l),
           \A k \in 1..Len(l) : /\ m[k].SP = l[k].SP
                               /\ l[k].CP <= m[k].CP
                               /\ m[k].SP + m[k].CP <= EndAt(l, c, k)
    PROVE  /\ Space(m, c)
           /\ \A p : Begins(l, p) =>
                  /\ Begins(m, p)
                  /\ FirstAt(m, p) = FirstAt(l, p)
                  /\ Done(l, c, p) => Done(m, c, p)
<1>1. /\ Len(l) \in Nat /\ l \in Seq(Blocks) /\ c \in Nat /\ c < Width
      /\ \A k \in 1..Len(l) : l[k].SP \in Nat /\ l[k].CP \in Nat
      /\ \A k \in 1..Len(l) : m[k].SP \in Nat /\ m[k].CP \in Nat
  BY SeqFacts, BlockFacts DEF Space
<1>2. \A k \in 1..Len(l) : EndAt(m, c, k) = EndAt(l, c, k)
  BY <1>1 DEF EndAt
<1>3. Apart(m, c)
  <2>1. ASSUME NEW k \in 1..Len(l) PROVE m[k].SP + m[k].CP <= c
    <3>1. m[k].SP + m[k].CP <= EndAt(l, c, k) /\ EndAt(l, c, k) <= c /\ EndAt(l, c, k) \in Nat
      BY EndFacts
    <3>2. m[k].SP \in Nat /\ m[k].CP \in Nat
      BY <1>1
    <3> QED BY <1>1, <3>1, <3>2
  <2>2. ASSUME NEW j \in 1..Len(l), NEW k \in 1..Len(l), j < k
        PROVE  m[j].SP + m[j].CP <= m[k].SP
    <3>1. /\ m[j].SP + m[j].CP <= EndAt(l, c, j) /\ EndAt(l, c, j) <= l[k].SP
          /\ EndAt(l, c, j) \in Nat
      BY <2>2, EndFacts
    <3>2. /\ m[j].SP \in Nat /\ m[j].CP \in Nat
          /\ m[k].SP = l[k].SP /\ l[k].SP \in Nat
      BY <1>1
    <3> QED BY <3>1, <3>2
  <2> QED BY <2>1, <2>2 DEF Apart
<1>4. Space(m, c)
  BY <1>1, <1>3 DEF Space
<1>5. ASSUME NEW p, Begins(l, p)
      PROVE  /\ Begins(m, p) /\ FirstAt(m, p) = FirstAt(l, p)
             /\ Done(l, c, p) => Done(m, c, p)
  <2> DEFINE i == FirstAt(l, p)
  <2>1. i \in 1..Len(l) /\ l[i].SP = p /\ \A k \in 1..Len(l) : l[k].SP = p => i <= k
    BY <1>1, <1>5, FirstAtFacts
  <2> HIDE DEF i
  <2>2. i \in 1..Len(m) /\ m[i].SP = p /\ \A k \in 1..Len(m) : m[k].SP = p => i <= k
    BY <2>1
  <2>3. FirstAt(m, p) = i
    BY <2>2, FirstAtIs
  <2>4. Begins(m, p)
    BY <2>2 DEF Begins
  <2>5. ASSUME Done(l, c, p) PROVE Done(m, c, p)
    <3>1. l[i].SP + l[i].CP = EndAt(l, c, i)
      BY <2>5 DEF Done, i
    <3>2. /\ m[i].SP = l[i].SP /\ l[i].CP <= m[i].CP
          /\ m[i].SP + m[i].CP <= EndAt(l, c, i)
          /\ m[i].SP \in Nat /\ m[i].CP \in Nat /\ l[i].CP \in Nat
      BY <1>1, <2>1
    <3>3. m[i].SP + m[i].CP = EndAt(m, c, i)
      BY <1>2, <2>1, <3>1, <3>2
    <3> QED BY <2>3, <3>3 DEF Done
  <2> QED BY <2>3, <2>4, <2>5 DEF i
<1> QED BY <1>4, <1>5

-----------------------------------------------------------------------------
(* The invariant *)

Owns(r) == holds[r] \notin {Idle, MM_NOT_EXSIT}

FirstBlock ==
    mPointerMap # << >> => mMemCapacity \in Capacities /\ mPointerMap[1].SP = 0

\* Nothing is left at p, unless it is where several retrievers were started.
Spent(l, c, p) == Done(l, c, p) \/ (crowded /\ p = 0)

\* An offset that is held is that of a block.  If two retrievers hold it, or if
\* its block is idle although its retriever runs, the offset is spent.
OwnInv ==
    /\ \A r \in Retrievers : Owns(r) => Begins(mPointerMap, holds[r])
    /\ \A r, s \in Retrievers :
          Owns(r) /\ Owns(s) /\ r # s /\ holds[r] = holds[s] =>
              Spent(mPointerMap, mMemCapacity, holds[r])
    /\ \A r \in Retrievers :
          Owns(r) /\ granted # r
              /\ ~mPointerMap[FirstAt(mPointerMap, holds[r])].busy =>
                  Spent(mPointerMap, mMemCapacity, holds[r])
    /\ granted # Idle => Owns(granted)

IInv == TypeOK /\ Space(mPointerMap, mMemCapacity) /\ FirstBlock /\ OwnInv

LEMMA Numbers ==
    /\ 0 \in Offsets /\ 0 \notin {Idle, MM_NOT_EXSIT}
    /\ \A p \in Offsets : p \notin {Idle, MM_NOT_EXSIT}
    /\ \A r \in Retrievers : r # Idle
    /\ \A c \in Capacities : c \in Nat \ {0} /\ c < Width
    /\ MM_NOT_EXSIT # Idle
<1>1. \A c \in Capacities : c \in Nat \ {0} /\ 2 * c + 0 < Width
  BY SegmentAssumption
<1>2. \A c \in Capacities : c \in Nat \ {0} /\ c < Width
  BY <1>1, SegmentAssumption
<1>3. Idle \notin Int /\ \A r \in Retrievers : r # Idle
  BY SegmentAssumption
<1>4. 0 \in Offsets /\ \A p \in Offsets : p \in Nat
  BY SegmentAssumption DEF Offsets
<1> QED BY <1>2, <1>3, <1>4 DEF MM_NOT_EXSIT

\* No one holds anything before there is a block.
LEMMA NobodyFirst ==
    ASSUME IInv, mPointerMap = << >>
    PROVE  (\A r \in Retrievers : ~Owns(r)) /\ granted = Idle
<1>1. \A p : ~Begins(mPointerMap, p)
  BY DEF Begins
<1> QED BY <1>1 DEF IInv, OwnInv, TypeOK

LEMMA InitOK == Init => IInv
<1> SUFFICES ASSUME Init PROVE IInv
  OBVIOUS
<1>0. crowded \in BOOLEAN
  BY DEF Init
<1>1. TypeOK
  BY <1>0 DEF Init, TypeOK
<1>2. Space(mPointerMap, mMemCapacity)
  BY SegmentAssumption DEF Init, Space, Apart
<1>3. FirstBlock /\ OwnInv
  BY DEF Init, FirstBlock, OwnInv, Owns
<1> QED BY <1>1, <1>2, <1>3 DEF IInv

LEMMA StepCapacity ==
    ASSUME IInv, NEW c \in Capacities, setCapacity(c) PROVE IInv'
<1> DEFINE b == [SP |-> 0, CP |-> 0, busy |-> TRUE]
           m == <<b>>
<1> DEFINE first == {s \in Retrievers : holds[s] = MM_NOT_EXSIT}
<1>1. /\ holds' = [s \in Retrievers |-> IF s \in first THEN 0 ELSE holds[s]]
      /\ crowded' = (\E s, t \in first : s # t)
  BY DEF setCapacity
<1>2. /\ mPointerMap = << >> /\ mMemCapacity' = c /\ mPointerMap' = m
      /\ granted' = granted
  BY DEF setCapacity
<1>3. (\A s \in Retrievers : ~Owns(s)) /\ granted = Idle
  BY <1>2, NobodyFirst
<1>4. c \in Nat /\ c < Width
  BY Numbers
<1>5. b \in Blocks
  BY Numbers DEF Blocks
<1>6. m \in Seq(Blocks) /\ Len(m) = 1 /\ m[1] = b
  BY <1>5
<1>7. Space(m, c)
  BY <1>4, <1>6 DEF Space, Apart
<1>8. TypeOK'
  BY <1>1, <1>2, <1>3, <1>6, Numbers DEF IInv, TypeOK
<1>9. FirstBlock'
  BY <1>2, <1>6 DEF FirstBlock
<1>10. Begins(m, 0) /\ m[FirstAt(m, 0)].busy
  <2>1. Begins(m, 0)
    BY <1>6 DEF Begins
  <2> HIDE DEF m
  <2>2. FirstAt(m, 0) \in 1..Len(m)
    BY <1>6, <2>1, FirstAtFacts
  <2>3. FirstAt(m, 0) = 1
    BY <1>6, <2>2
  <2> QED BY <1>6, <2>1, <2>3
<1>11. holds \in [Retrievers -> Offsets \cup {Idle, MM_NOT_EXSIT}]
  BY DEF IInv, TypeOK
<1> HIDE DEF m
<1>12. \A s \in Retrievers : Owns(s)' => s \in first /\ holds'[s] = 0
  BY <1>1, <1>3, <1>11 DEF Owns
<1>14. \A s, t \in Retrievers : Owns(s)' /\ Owns(t)' /\ s # t => crowded'
  BY <1>1, <1>12
<1>13. OwnInv'
  <2> HIDE DEF first
  <2> QED BY <1>2, <1>3, <1>10, <1>12, <1>14 DEF OwnInv, Spent
<1> QED BY <1>2, <1>7, <1>8, <1>9, <1>13 DEF IInv

LEMMA StepStart ==
    ASSUME IInv, NEW r \in Retrievers, StartSegment(r) PROVE IInv'
<1> DEFINE l == mPointerMap
           c == mMemCapacity
           i == Widest(l)
           q == CutAt(l, i)
           m == Cut(l, i)
<1>1. sortMMList(l) = l
  BY SortedStays DEF IInv
<1>2. /\ l # << >> /\ granted = Idle /\ holds[r] = Idle /\ mMemCapacity' = c
      /\ crowded' = crowded
  BY DEF StartSegment
<1>3. i \in 1..Len(l) /\ Space(l, c)
  BY <1>2, WidestIn DEF IInv
<1>4. /\ mPointerMap' = MallocBlocks(l)
      /\ IF MallocAnswer(l) = MM_NULL
         THEN UNCHANGED <<holds, granted>>
         ELSE holds' = [holds EXCEPT ![r] = MallocAnswer(l)] /\ granted' = r
  BY <1>1 DEF StartSegment
<1>5. /\ TypeOK /\ FirstBlock /\ OwnInv
      /\ holds \in [Retrievers -> Offsets \cup {Idle, MM_NOT_EXSIT}]
  BY DEF IInv, TypeOK
<1>6. ASSUME mPointerMap' = l, UNCHANGED <<holds, granted>> PROVE IInv'
  <2>1. UNCHANGED vars
    BY <1>2, <1>6 DEF vars
  <2>2. TypeOK' /\ FirstBlock' /\ OwnInv'
    BY <1>5, <2>1 DEF vars, TypeOK, FirstBlock, OwnInv, Owns, Spent
  <2> QED BY <1>2, <1>3, <1>6, <2>2 DEF IInv
\* The part of the invariant that is about retrievers, given what becomes of
\* the offsets held before.
<1>7. ASSUME NEW l2, mPointerMap' = l2, q \in Offsets, q # 0,
             holds' = [holds EXCEPT ![r] = q], granted' = r,
             Begins(l2, q),
             \A p : Begins(l, p) =>
                 /\ Begins(l2, p)
                 /\ Done(l, c, p) => Done(l2, c, p)
                 /\ \/ l2[FirstAt(l2, p)] = l[FirstAt(l, p)]
                    \/ l2[FirstAt(l2, p)].busy,
             \A s \in Retrievers : Owns(s) /\ holds[s] = q => Spent(l2, c, q)
      PROVE  OwnInv'
  <2> HIDE DEF l, c, q, i, m
  <2>1. \A s \in Retrievers : s # r => (Owns(s)' <=> Owns(s)) /\ holds'[s] = holds[s]
    BY <1>5, <1>7 DEF Owns
  <2>2. holds'[r] = q /\ Owns(r)' /\ ~Owns(r)
    BY <1>2, <1>5, <1>7, Numbers DEF Owns
  <2>3. \A s \in Retrievers : Owns(s) => Begins(l, holds[s])
    BY <1>5 DEF OwnInv, l
  <2>4. \A s \in Retrievers : Owns(s)' => Begins(l2, holds'[s])
    BY <1>7, <2>1, <2>2, <2>3
  <2>5. ASSUME NEW s \in Retrievers, NEW t \in Retrievers, s # t,
               Owns(s)', Owns(t)', holds'[s] = holds'[t]
        PROVE  Spent(l2, c, holds'[s])
    <3>1. CASE s = r \/ t = r
      BY <1>7, <2>1, <2>2, <2>5, <3>1
    <3>2. CASE s # r /\ t # r
      <4>1. Spent(l, c, holds[s])
        BY <1>5, <2>1, <2>5, <3>2 DEF OwnInv, l, c
      <4> QED BY <1>7, <2>1, <2>3, <2>5, <3>2, <4>1 DEF Spent
    <3> QED BY <3>1, <3>2
  <2>6. ASSUME NEW s \in Retrievers, Owns(s)', s # r,
               ~l2[FirstAt(l2, holds'[s])].busy
        PROVE  Spent(l2, c, holds'[s])
    <3>1. Owns(s) /\ holds'[s] = holds[s] /\ Begins(l, holds[s])
      BY <2>1, <2>3, <2>6
    <3>2. ~l[FirstAt(l, holds[s])].busy
      BY <1>7, <2>6, <3>1
    <3>3. granted # s
      BY <1>2, Numbers
    <3>4. Spent(l, c, holds[s])
      BY <1>5, <3>1, <3>2, <3>3 DEF OwnInv, l, c
    <3> QED BY <1>7, <3>1, <3>4 DEF Spent
  <2> QED BY <1>2, <1>7, <2>2, <2>4, <2>5, <2>6 DEF OwnInv, Spent, c
<1>8. CASE Refused(l, i)
  <2>1. mPointerMap' = l /\ UNCHANGED <<holds, granted>>
    BY <1>4, <1>8 DEF MallocBlocks, MallocAnswer
  <2> QED BY <1>6, <2>1
<1>9. CASE ~Refused(l, i) /\ Reused(l, i)
  <2>1. mPointerMap' = l /\ MallocAnswer(l) = q
    BY <1>4, <1>9 DEF MallocBlocks, MallocAnswer
  <2>2. CASE q = MM_NULL
    BY <1>4, <1>6, <2>1, <2>2
  <2>3. CASE q # MM_NULL
    <3>1. /\ ~l[i].busy /\ l[i].CP = 0 /\ q = l[i].SP + l[i].CP
          /\ l[i].SP \in Offsets /\ l[i].SP \in Nat
      <4>1. l[i] \in Blocks /\ l[i].SP \in Nat
        BY <1>3, BlockFacts DEF Space
      <4>2. l[i].SP \in Offsets
        BY <4>1 DEF Blocks
      <4> QED BY <1>9, <4>1, <4>2 DEF Reused, CutAt
    <3>2. q = l[i].SP /\ q \in Offsets /\ q # 0
      BY <2>3, <3>1 DEF MM_NULL
    <3>3. Begins(l, q)
      BY <1>3, <3>2 DEF Begins
    <3>4. holds' = [holds EXCEPT ![r] = q] /\ granted' = r
      BY <1>4, <2>1, <2>3
    <3>5. ASSUME NEW s \in Retrievers, Owns(s), holds[s] = q PROVE Spent(l, c, q)
      <4> DEFINE f == FirstAt(l, q)
      <4>1. f \in 1..Len(l) /\ l[f].SP = q /\ f <= i /\ l \in Seq(Blocks)
        BY <1>3, <3>2, <3>3, FirstAtFacts DEF Space
      <4>2. CASE f = i
        <5>1. granted # s
          BY <1>2, Numbers
        <5>2. ~l[FirstAt(l, holds[s])].busy
          BY <3>1, <3>5, <4>2
        <5> QED BY <1>5, <3>5, <5>1, <5>2 DEF OwnInv
      <4>3. CASE f # i
        <5> HIDE DEF f, l, c, q, i
        <5>1. f < i /\ f \in 1..Len(l)
          BY <1>3, <4>1, <4>3
        <5>2. EndAt(l, c, f) <= l[i].SP /\ l[f].SP + l[f].CP <= EndAt(l, c, f)
              /\ EndAt(l, c, f) \in Nat
          BY <1>3, <5>1, EndFacts
        <5>3. l[f].CP \in Nat /\ l[f].SP \in Nat
          BY <4>1, BlockFacts
        <5>4. l[f].SP + l[f].CP = EndAt(l, c, f)
          BY <3>1, <3>2, <4>1, <5>2, <5>3
        <5> QED BY <5>4 DEF Done, Spent, f
      <4> QED BY <4>2, <4>3
    <3>6. OwnInv'
      <4> HIDE DEF q
      <4> QED BY <1>7, <2>1, <3>2, <3>3, <3>4, <3>5
    <3>7. TypeOK'
      <4> HIDE DEF q
      <4> QED BY <1>2, <1>5, <2>1, <3>2, <3>4 DEF TypeOK
    <3>8. FirstBlock'
      BY <1>2, <1>5, <2>1 DEF FirstBlock
    <3> QED BY <1>2, <1>3, <2>1, <3>6, <3>7, <3>8 DEF IInv
  <2> QED BY <2>2, <2>3
<1>10. CASE ~Refused(l, i) /\ ~Reused(l, i)
  <2>1. mPointerMap' = m /\ MallocAnswer(l) = q
    BY <1>4, <1>10 DEF MallocBlocks, MallocAnswer
  <2>2. /\ \A p : Begins(l, p) =>
               /\ Begins(m, p)
               /\ p # q => m[FirstAt(m, p)] = l[FirstAt(l, p)]
               /\ Done(l, c, p) => Done(m, c, p)
        /\ Begins(m, q) /\ m[FirstAt(m, q)].busy
        /\ Begins(l, q) => Done(m, c, q)
        /\ q \in Offsets /\ q # 0
        /\ m[1].SP = l[1].SP
    <3> HIDE DEF i
    <3> QED BY <1>3, <1>10, CutKeeps
  <2>3. Space(m, c)
    <3> HIDE DEF i
    <3> QED BY <1>3, CutSpace
  <2>4. holds' = [holds EXCEPT ![r] = q] /\ granted' = r
    BY <1>4, <2>1, <2>2 DEF MM_NULL
  <2>5. \A s \in Retrievers : Owns(s) /\ holds[s] = q => Spent(m, c, q)
    <3> HIDE DEF m, q
    <3> QED BY <1>5, <2>2 DEF OwnInv, Spent
  <2>6. OwnInv'
    <3> HIDE DEF m, q
    <3> QED BY <1>7, <2>1, <2>2, <2>4, <2>5
  <2>7. TypeOK'
    <3> HIDE DEF m, q
    <3> QED BY <1>2, <1>5, <2>1, <2>2, <2>3, <2>4 DEF TypeOK, Space
  <2>8. FirstBlock'
    <3> HIDE DEF m, q
    <3> QED BY <1>2, <1>5, <2>1, <2>2 DEF FirstBlock
  <2> QED BY <1>2, <2>1, <2>3, <2>6, <2>7, <2>8 DEF IInv
<1> QED BY <1>8, <1>9, <1>10

\* What a call that moves no offset has to show for OwnInv.
LEMMA OwnKept ==
    ASSUME IInv, UNCHANGED <<mMemCapacity, crowded>>,
           mPointerMap' \in Seq(Blocks), Len(mPointerMap') = Len(mPointerMap),
           \A k \in 1..Len(mPointerMap) :
               /\ mPointerMap'[k].SP = mPointerMap[k].SP
               /\ mPointerMap[k].CP <= mPointerMap'[k].CP
               /\ mPointerMap'[k].SP + mPointerMap'[k].CP
                     <= EndAt(mPointerMap, mMemCapacity, k),
           \A r \in Retrievers : Owns(r)' => Owns(r) /\ holds'[r] = holds[r],
           \A r \in Retrievers :
               Owns(r)' /\ granted' # r
                   /\ ~mPointerMap'[FirstAt(mPointerMap, holds[r])].busy =>
                       Spent(mPointerMap, mMemCapacity, holds[r]),
           granted' # Idle => Owns(granted)'
    PROVE  Space(mPointerMap, mMemCapacity)' /\ FirstBlock' /\ OwnInv'
<1> DEFINE l == mPointerMap
           m == mPointerMap'
           c == mMemCapacity
<1>1. Space(l, c) /\ OwnInv /\ FirstBlock
  BY DEF IInv
<1>2. /\ Space(m, c)
      /\ \A p : Begins(l, p) =>
             /\ Begins(m, p)
             /\ FirstAt(m, p) = FirstAt(l, p)
             /\ Spent(l, c, p) => Spent(m, c, p)
  BY <1>1, SameOffsets DEF Spent
<1>3. FirstBlock'
  <2>1. l # << >> => 1 \in 1..Len(l)
    BY <1>1, SeqFacts DEF Space
  <2>2. l = << >> => m = << >>
    BY SeqFacts
  <2> QED BY <1>1, <2>1, <2>2 DEF FirstBlock
<1>4. \A r \in Retrievers : Owns(r)' => Begins(l, holds[r]) /\ Begins(m, holds'[r])
  BY <1>1, <1>2 DEF OwnInv
<1>5. ASSUME NEW r \in Retrievers, NEW s \in Retrievers, r # s, Owns(r)', Owns(s)',
             holds'[r] = holds'[s]
      PROVE  Spent(m, c, holds'[r])
  <2>1. Spent(l, c, holds[r])
    BY <1>1, <1>5 DEF OwnInv
  <2> QED BY <1>2, <1>4, <1>5, <2>1
<1>6. ASSUME NEW r \in Retrievers, Owns(r)', granted' # r,
             ~m[FirstAt(m, holds'[r])].busy
      PROVE  Spent(m, c, holds'[r])
  <2>1. holds'[r] = holds[r] /\ Begins(l, holds[r])
    BY <1>4, <1>6
  <2>2. ~m[FirstAt(l, holds[r])].busy
    BY <1>2, <1>6, <2>1
  <2>3. Spent(l, c, holds[r])
    BY <1>6, <2>2
  <2> QED BY <1>2, <2>1, <2>3
<1>7. OwnInv'
  BY <1>4, <1>5, <1>6 DEF OwnInv, Spent
<1> QED BY <1>2, <1>3, <1>7

LEMMA EndsAfter ==
    ASSUME IInv, NEW k \in 1..Len(mPointerMap)
    PROVE  /\ mPointerMap[k].SP \in Nat /\ mPointerMap[k].CP \in Nat
           /\ mPointerMap[k].SP + mPointerMap[k].CP
                 <= EndAt(mPointerMap, mMemCapacity, k)
<1>1. Space(mPointerMap, mMemCapacity)
  BY DEF IInv
<1> QED BY <1>1, EndFacts, BlockFacts DEF Space

LEMMA StepBusy == IInv /\ setBlockBusy => IInv'
<1> SUFFICES ASSUME IInv, setBlockBusy PROVE IInv'
  OBVIOUS
<1> DEFINE l == mPointerMap
           m == mPointerMap'
           p == holds[granted]
<1>1. /\ granted # Idle /\ granted' = Idle
      /\ UNCHANGED <<mMemCapacity, holds, crowded>>
      /\ m = [i \in DOMAIN l |-> IF l[i].SP = p THEN [l[i] EXCEPT !.busy = TRUE] ELSE l[i]]
  BY DEF setBlockBusy
<1>2. l \in Seq(Blocks) /\ Len(l) \in Nat /\ DOMAIN l = 1..Len(l)
      /\ \A k \in 1..Len(l) : l[k] \in Blocks
  BY SeqFacts, BlockFacts DEF IInv, TypeOK
<1>3. \A b \in Blocks : LET d == [b EXCEPT !.busy = TRUE]
                        IN  d \in Blocks /\ d.SP = b.SP /\ d.CP = b.CP /\ d.busy
  BY DEF Blocks
<1>4. ASSUME NEW k \in 1..Len(l)
      PROVE  /\ m[k] \in Blocks
             /\ m[k].SP = l[k].SP /\ m[k].CP = l[k].CP
             /\ (l[k].SP = p => m[k].busy) /\ (l[k].SP # p => m[k] = l[k])
  <2>1. m[k] = IF l[k].SP = p THEN [l[k] EXCEPT !.busy = TRUE] ELSE l[k]
    BY <1>1, <1>2
  <2>2. l[k] \in Blocks
    BY <1>2
  <2> HIDE DEF m, l, p
  <2> QED BY <1>3, <2>1, <2>2
<1>11. \A k \in 1..Len(l) : m[k] \in Blocks
  BY <1>4
<1>5. m \in Seq(Blocks) /\ Len(m) = Len(l)
  <2>1. m \in [1..Len(l) -> Blocks]
    <3>1. m = [i \in 1..Len(l) |-> m[i]]
      BY <1>1, <1>2
    <3> HIDE DEF m
    <3> QED BY <1>11, <3>1
  <2> HIDE DEF m
  <2> QED BY <1>2, <2>1
<1>6. TypeOK'
  BY <1>1, <1>5 DEF IInv, TypeOK
<1>7. ASSUME NEW k \in 1..Len(l)
      PROVE  /\ m[k].SP = l[k].SP /\ l[k].CP <= m[k].CP
             /\ m[k].SP + m[k].CP <= EndAt(l, mMemCapacity, k)
  <2>1. m[k].SP = l[k].SP /\ m[k].CP = l[k].CP
    BY <1>4
  <2> QED BY <2>1, EndsAfter
<1>8. \A r \in Retrievers : Owns(r)' => Owns(r) /\ holds'[r] = holds[r]
  BY <1>1 DEF Owns
<1>9. ASSUME NEW r \in Retrievers, Owns(r)', ~m[FirstAt(l, holds[r])].busy
      PROVE  Spent(l, mMemCapacity, holds[r])
  <2> DEFINE f == FirstAt(l, holds[r])
  <2>1. OwnInv /\ Owns(r)
    BY <1>8, <1>9 DEF IInv
  <2>2. Begins(l, holds[r])
    BY <2>1 DEF OwnInv
  <2>3. f \in 1..Len(l) /\ l[f].SP = holds[r]
    BY <1>2, <2>2, FirstAtFacts
  <2>4. holds[r] # p /\ m[f] = l[f]
    <3>1. (l[f].SP = p => m[f].busy) /\ (l[f].SP # p => m[f] = l[f])
      BY <1>4, <2>3
    <3> HIDE DEF m, l, p, f
    <3>2. ~m[f].busy
      BY <1>9 DEF f, m, l
    <3> QED BY <2>3, <3>1, <3>2
  <2>5. granted # r
    BY <2>4
  <2> QED BY <1>9, <2>1, <2>4, <2>5 DEF OwnInv
<1>10. Space(mPointerMap, mMemCapacity)' /\ FirstBlock' /\ OwnInv'
  BY <1>1, <1>5, <1>7, <1>8, <1>9, OwnKept
<1> QED BY <1>6, <1>10 DEF IInv

LEMMA AtFacts ==
    ASSUME IInv, NEW r \in Retrievers, Owns(r)
    PROVE  /\ At(holds[r]) = FirstAt(mPointerMap, holds[r])
           /\ At(holds[r]) \in 1..Len(mPointerMap)
           /\ mPointerMap[At(holds[r])].SP = holds[r]
<1>1. Begins(mPointerMap, holds[r]) /\ mPointerMap \in Seq(Blocks)
  BY DEF IInv, OwnInv, TypeOK
<1>2. At(holds[r]) = FirstAt(mPointerMap, holds[r])
  BY DEF At, FirstAt
<1> QED BY <1>1, <1>2, FirstAtFacts

\* free never takes back what was counted, and never counts past the end.
LEMMA ReceivedFacts ==
    ASSUME IInv, NEW i \in 1..Len(mPointerMap), NEW n \in Chunks
    PROVE  /\ Received(i, n) \in Offsets
           /\ mPointerMap[i].CP <= Received(i, n)
           /\ mPointerMap[i].SP + Received(i, n)
                 <= EndAt(mPointerMap, mMemCapacity, i)
<1> DEFINE a == mPointerMap[i].SP
           b == mPointerMap[i].CP
           e == EndAt(mPointerMap, mMemCapacity, i)
           v == Received(i, n)
<1>1. a \in Nat /\ b \in Nat /\ a + b <= e
  BY EndsAfter
<1>2. Space(mPointerMap, mMemCapacity)
  BY DEF IInv
<1>3. e \in Nat /\ e <= mMemCapacity /\ mMemCapacity \in Nat /\ mMemCapacity < Width
  BY <1>2, EndFacts DEF Space
<1>4. n \in Nat
  BY SegmentAssumption
<1>5. v = IF a + b + n > e THEN Minus(e, a) ELSE b + n
  BY DEF Received, End, EndAt
<1> HIDE DEF a, b, e, v
<1>6. v = IF a + b + n > e THEN e - a ELSE b + n
  BY <1>1, <1>3, <1>5 DEF Minus
<1>7. v \in Nat /\ b <= v /\ a + v <= e
  BY <1>1, <1>3, <1>4, <1>6
<1>8. v \in Offsets
  BY <1>1, <1>3, <1>7, SegmentAssumption DEF Offsets
<1> QED BY <1>7, <1>8 DEF a, b, e, v

LEMMA StepReport ==
    ASSUME IInv, NEW r \in Retrievers, NEW n \in Chunks, Report(r, n) PROVE IInv'
<1> DEFINE l == mPointerMap
           m == mPointerMap'
           i == At(holds[r])
           v == Received(i, n)
<1>1. /\ Owns(r) /\ granted # r
      /\ UNCHANGED <<mMemCapacity, holds, granted, crowded>>
      /\ m = [l EXCEPT ![i] = [l[i] EXCEPT !.CP = v]]
  BY DEF Report, Running, Owns
<1>2. i \in 1..Len(l) /\ l \in Seq(Blocks) /\ l[i] \in Blocks
      /\ Len(l) \in Nat /\ DOMAIN l = 1..Len(l)
  BY <1>1, AtFacts, SeqFacts, BlockFacts DEF IInv, TypeOK
<1>3. v \in Offsets /\ l[i].CP <= v /\ l[i].SP + v <= EndAt(l, mMemCapacity, i)
  <2> HIDE DEF i
  <2> QED BY <1>2, ReceivedFacts DEF i
<1> DEFINE b == [l[i] EXCEPT !.CP = v]
<1>4. b \in Blocks /\ b.SP = l[i].SP /\ b.CP = v /\ b.busy = l[i].busy
  <2> HIDE DEF v, i, l
  <2>1. \A x \in Blocks, y \in Offsets :
            LET d == [x EXCEPT !.CP = y]
            IN  d \in Blocks /\ d.SP = x.SP /\ d.CP = y /\ d.busy = x.busy
    BY DEF Blocks
  <2> QED BY <1>2, <1>3, <2>1
<1>5. /\ m \in Seq(Blocks) /\ Len(m) = Len(l)
      /\ \A k \in 1..Len(l) : m[k] = IF k = i THEN b ELSE l[k]
  <2> HIDE DEF b, i
  <2> QED BY <1>1, <1>2, <1>4, ExceptSeq DEF b
<1>6. TypeOK'
  BY <1>1, <1>5 DEF IInv, TypeOK
<1> HIDE DEF v, b, i
<1>7. ASSUME NEW k \in 1..Len(l)
      PROVE  /\ m[k].SP = l[k].SP /\ l[k].CP <= m[k].CP /\ m[k].busy = l[k].busy
             /\ m[k].SP + m[k].CP <= EndAt(l, mMemCapacity, k)
  <2>1. CASE k = i
    BY <1>3, <1>4, <1>5, <2>1
  <2>2. CASE k # i
    BY <1>5, <2>2, EndsAfter
  <2> QED BY <2>1, <2>2
<1>8. \A s \in Retrievers : Owns(s)' => Owns(s) /\ holds'[s] = holds[s]
  BY <1>1 DEF Owns
<1>9. ASSUME NEW s \in Retrievers, Owns(s)', granted' # s,
             ~m[FirstAt(l, holds[s])].busy
      PROVE  Spent(l, mMemCapacity, holds[s])
  <2>1. Owns(s) /\ OwnInv
    BY <1>8, <1>9 DEF IInv
  <2>2. FirstAt(l, holds[s]) \in 1..Len(l)
    BY <2>1, AtFacts
  <2>3. ~l[FirstAt(l, holds[s])].busy
    BY <1>7, <1>9, <2>2
  <2> QED BY <1>1, <1>9, <2>1, <2>3 DEF OwnInv
<1>10. granted' # Idle => Owns(granted)'
  BY <1>1 DEF IInv, OwnInv, Owns
<1>11. Space(mPointerMap, mMemCapacity)' /\ FirstBlock' /\ OwnInv'
  BY <1>1, <1>5, <1>7, <1>8, <1>9, <1>10, OwnKept
<1> QED BY <1>6, <1>11 DEF IInv

LEMMA StepRelease ==
    ASSUME IInv, NEW r \in Retrievers, Release(r) PROVE IInv'
<1> DEFINE l == mPointerMap
           m == mPointerMap'
           i == At(holds[r])
           b == [l[i] EXCEPT !.busy = FALSE]
<1>1. /\ Owns(r) /\ granted # r
      /\ holds' = [holds EXCEPT ![r] = Idle]
      /\ UNCHANGED <<mMemCapacity, granted, crowded>>
      /\ m = [l EXCEPT ![i] = b]
  BY DEF Release, release, Running, Owns
<1>2. /\ i \in 1..Len(l) /\ l \in Seq(Blocks) /\ l[i] \in Blocks
      /\ Len(l) \in Nat /\ DOMAIN l = 1..Len(l)
      /\ i = FirstAt(l, holds[r]) /\ l[i].SP = holds[r]
  BY <1>1, AtFacts, SeqFacts, BlockFacts DEF IInv, TypeOK
<1>3. b \in Blocks /\ b.SP = l[i].SP /\ b.CP = l[i].CP
  <2> HIDE DEF i, l
  <2>1. \A x \in Blocks :
            LET d == [x EXCEPT !.busy = FALSE]
            IN  d \in Blocks /\ d.SP = x.SP /\ d.CP = x.CP
    BY DEF Blocks
  <2> QED BY <1>2, <2>1
<1>4. /\ m \in Seq(Blocks) /\ Len(m) = Len(l)
      /\ \A k \in 1..Len(l) : m[k] = IF k = i THEN b ELSE l[k]
  <2> HIDE DEF b, i
  <2> QED BY <1>1, <1>2, <1>3, ExceptSeq
<1>5. holds \in [Retrievers -> Offsets \cup {Idle, MM_NOT_EXSIT}]
  BY DEF IInv, TypeOK
<1>6. TypeOK'
  BY <1>1, <1>4, <1>5 DEF IInv, TypeOK
<1>7. \A s \in Retrievers :
          Owns(s)' => s # r /\ Owns(s) /\ holds'[s] = holds[s]
  BY <1>1, <1>5 DEF Owns
<1> HIDE DEF b, i
<1>8. ASSUME NEW k \in 1..Len(l)
      PROVE  /\ m[k].SP = l[k].SP /\ l[k].CP <= m[k].CP
             /\ m[k].SP + m[k].CP <= EndAt(l, mMemCapacity, k)
             /\ k # i => m[k] = l[k]
  <2>1. m[k].SP = l[k].SP /\ l[k].CP = m[k].CP /\ (k # i => m[k] = l[k])
    BY <1>3, <1>4
  <2> QED BY <2>1, EndsAfter
<1>9. ASSUME NEW s \in Retrievers, Owns(s)', granted' # s,
             ~m[FirstAt(l, holds[s])].busy
      PROVE  Spent(l, mMemCapacity, holds[s])
  <2>1. s # r /\ Owns(s) /\ OwnInv
    BY <1>7, <1>9 DEF IInv
  <2>2. At(holds[s]) = FirstAt(l, holds[s]) /\ FirstAt(l, holds[s]) \in 1..Len(l)
        /\ l[FirstAt(l, holds[s])].SP = holds[s]
    BY <2>1, AtFacts
  <2>3. CASE FirstAt(l, holds[s]) = i
    <3>1. holds[s] = holds[r]
      BY <1>2, <2>2, <2>3
    <3> QED BY <1>1, <2>1, <3>1 DEF OwnInv
  <2>4. CASE FirstAt(l, holds[s]) # i
    <3>1. ~l[FirstAt(l, holds[s])].busy
      BY <1>8, <1>9, <2>2, <2>4
    <3> QED BY <1>1, <1>9, <2>1, <3>1 DEF OwnInv
  <2> QED BY <2>3, <2>4
<1>10. granted' # Idle => Owns(granted)'
  <2>1. granted # Idle => Owns(granted) /\ granted \in Retrievers
    BY DEF IInv, OwnInv, TypeOK
  <2> QED BY <1>1, <1>5, <2>1 DEF Owns
<1>11. Space(mPointerMap, mMemCapacity)' /\ FirstBlock' /\ OwnInv'
  BY <1>1, <1>4, <1>7, <1>8, <1>9, <1>10, OwnKept
<1> QED BY <1>6, <1>11 DEF IInv

\* The retriever that is to learn the length holds no offset.
LEMMA StepFirst ==
    ASSUME IInv, NEW r \in Retrievers, StartFirst(r) \/ Abandon(r) PROVE IInv'
<1>1. holds \in [Retrievers -> Offsets \cup {Idle, MM_NOT_EXSIT}]
  BY DEF IInv, TypeOK
<1>2. UNCHANGED <<mMemCapacity, mPointerMap, granted, crowded>>
  BY DEF StartFirst, Abandon
<1>3. PICK x \in {Idle, MM_NOT_EXSIT} : holds' = [holds EXCEPT ![r] = x]
  BY DEF StartFirst, Abandon
<1>4. ~Owns(r) /\ granted # r
  <2>1. ~Owns(r)
    BY Numbers DEF StartFirst, Abandon, Owns
  <2> QED BY <2>1, Numbers DEF IInv, OwnInv
<1>5. \A s \in Retrievers : /\ Owns(s)' <=> Owns(s)
                            /\ Owns(s) => holds'[s] = holds[s]
  BY <1>1, <1>3, <1>4 DEF Owns
<1>6. TypeOK'
  BY <1>1, <1>2, <1>3 DEF IInv, TypeOK
<1>7. granted' # Idle => Owns(granted)'
  BY <1>2, <1>5 DEF IInv, OwnInv, TypeOK
<1>8. OwnInv'
  BY <1>2, <1>5, <1>7 DEF IInv, OwnInv, Spent
<1>9. Space(mPointerMap, mMemCapacity)' /\ FirstBlock'
  BY <1>2 DEF IInv, FirstBlock
<1> QED BY <1>6, <1>8, <1>9 DEF IInv

LEMMA IInvStep == IInv /\ [Next]_vars => IInv'
<1> SUFFICES ASSUME IInv, [Next]_vars PROVE IInv'
  OBVIOUS
<1>1. CASE \E c \in Capacities : setCapacity(c)
  BY <1>1, StepCapacity
<1>2. CASE setBlockBusy
  BY <1>2, StepBusy
<1>3. CASE \E r \in Retrievers :
              StartFirst(r) \/ StartSegment(r) \/ Release(r) \/ Abandon(r)
  BY <1>3, StepFirst, StepStart, StepRelease
<1>4. CASE \E r \in Retrievers : \E n \in Chunks : Report(r, n)
  BY <1>4, StepReport
<1>5. CASE UNCHANGED vars
  <2>1. TypeOK' /\ FirstBlock' /\ OwnInv'
    BY <1>5 DEF IInv, vars, TypeOK, FirstBlock, OwnInv, Owns, Spent
  <2> QED BY <1>5, <2>1 DEF IInv, vars
<1> QED BY <1>1, <1>2, <1>3, <1>4, <1>5 DEF Next

LEMMA Inductive == Spec => []IInv
  BY InitOK, IInvStep, PTL DEF Spec

\* Every reachable state has the types that sqlitesegmentmodel.h gives the
\* blocks: no offset or count leaves the range of a quint64.
THEOREM TypeCorrect == Spec => []TypeOK
<1>1. IInv => TypeOK
  BY DEF IInv
<1> QED BY <1>1, Inductive, PTL

\* malloc and free never let two blocks overlap, nor a block pass the end of
\* the file (sqlitesegmentmodel.cpp:430-660).
THEOREM BlocksApart == Spec => []SegmentsApart
<1>1. IInv => SegmentsApart
  <2> SUFFICES ASSUME IInv PROVE SegmentsApart
    OBVIOUS
  <2>1. DOMAIN mPointerMap = 1..Len(mPointerMap)
    BY SeqFacts DEF IInv, TypeOK
  <2>2. Apart(mPointerMap, mMemCapacity)
    BY DEF IInv, Space
  <2> QED BY <2>1, <2>2 DEF Apart, SegmentsApart
<1> QED BY <1>1, Inductive, PTL

LEMMA OwnersState == IInv => OwnersApart
<1> SUFFICES ASSUME IInv PROVE OwnersApart
  OBVIOUS
<1> DEFINE l == mPointerMap
           c == mMemCapacity
           Q == {q \in Retrievers : holds[q] \notin {Idle, MM_NOT_EXSIT}}
<1>1. DOMAIN l = 1..Len(l) /\ Space(l, c) /\ OwnInv
  BY SeqFacts DEF IInv, TypeOK
<1>2. ASSUME NEW r \in Q
      PROVE  /\ r \in Retrievers /\ Owns(r)
             /\ At(holds[r]) \in 1..Len(l) /\ l[At(holds[r])].SP = holds[r]
             /\ At(holds[r]) = FirstAt(l, holds[r])
  BY AtFacts DEF Owns
<1>3. ASSUME NEW r \in Q PROVE \E i \in DOMAIN l : l[i].SP = holds[r]
  BY <1>1, <1>2
<1>4. ASSUME NEW r \in Q, NEW s \in Q, r # s,
             ~(crowded /\ holds[r] = 0 /\ holds[s] = 0)
      PROVE  Left(r) \cap Left(s) = {}
  <2> DEFINE i == At(holds[r])
             j == At(holds[s])
             a == l[i].SP + l[i].CP
             b == l[j].SP + l[j].CP
             d == EndAt(l, c, i)
             e == EndAt(l, c, j)
  <2>1. i \in 1..Len(l) /\ j \in 1..Len(l) /\ l[i].SP = holds[r] /\ l[j].SP = holds[s]
    BY <1>2
  <2>2. Left(r) = a..d - 1 /\ Left(s) = b..e - 1
    BY DEF Left, End, EndAt
  <2>3. /\ l[i].SP \in Nat /\ l[i].CP \in Nat /\ d \in Nat /\ a \in Nat
        /\ l[j].SP \in Nat /\ l[j].CP \in Nat /\ e \in Nat /\ b \in Nat
    <3>1. \A k \in 1..Len(l) : l[k].SP \in Nat /\ l[k].CP \in Nat
                              /\ EndAt(l, c, k) \in Nat
      BY <1>1, BlockFacts, EndFacts DEF Space
    <3> HIDE DEF i, j
    <3> QED BY <2>1, <3>1
  <2>4. CASE holds[r] = holds[s]
    <3>1. Done(l, c, holds[r])
      BY <1>1, <1>2, <1>4, <2>4 DEF OwnInv, Spent
    <3>2. a = d
      BY <1>2, <3>1 DEF Done
    <3> HIDE DEF a, d
    <3> QED BY <2>2, <2>3, <3>2
  <2>5. CASE holds[r] # holds[s]
    <3>1. i # j
      BY <2>1, <2>5
    <3>2. CASE i < j
      <4>1. d <= l[j].SP
        <5> HIDE DEF i, j
        <5> QED BY <1>1, <2>1, <3>2, EndFacts
      <4>2. d <= b
        <5> HIDE DEF d
        <5> QED BY <2>3, <4>1
      <4> HIDE DEF a, b, d, e
      <4> QED BY <2>2, <2>3, <4>2
    <3>3. CASE j < i
      <4>1. e <= l[i].SP
        <5> HIDE DEF i, j
        <5> QED BY <1>1, <2>1, <3>3, EndFacts
      <4>2. e <= a
        <5> HIDE DEF e
        <5> QED BY <2>3, <4>1
      <4> HIDE DEF a, b, d, e
      <4> QED BY <2>2, <2>3, <4>2
    <3> QED BY <1>1, <2>1, <3>1, <3>2, <3>3
  <2> QED BY <2>4, <2>5
<1> QED BY <1>3, <1>4 DEF OwnersApart

\* No byte of the file is ever left to two retrievers, but in block 0 where
\* several were started before the length was known (task.cpp:194-228); and
\* the block a retriever names in free or release exists
\* (sqlitesegmentmodel.cpp:617).
THEOREM OwnersKeptApart == Spec => []OwnersApart
  BY OwnersState, Inductive, PTL

-----------------------------------------------------------------------------
(* What is counted as received *)

LEMMA CoveredIs ==
    ASSUME NEW b
    PROVE  b \in Covered <=>
               \E i \in DOMAIN mPointerMap :
                   b \in mPointerMap[i].SP .. mPointerMap[i].SP + mPointerMap[i].CP - 1
  BY DEF Covered

LEMMA FullState == IInv => FullMeansAll
<1> SUFFICES ASSUME IInv, mPointerMap # << >>
             PROVE  isMemFullAlloced <=> Covered = 0 .. mMemCapacity - 1
  BY DEF FullMeansAll
<1> DEFINE l == mPointerMap
           c == mMemCapacity
           n == Len(l)
<1>1. /\ DOMAIN l = 1..n /\ n \in Nat \ {0} /\ Space(l, c) /\ l[1].SP = 0
      /\ c \in Nat
  BY SeqFacts DEF IInv, TypeOK, FirstBlock, Space
<1>2. \A k \in 1..n : /\ l[k].SP \in Nat /\ l[k].CP \in Nat
                       /\ EndAt(l, c, k) \in Nat /\ EndAt(l, c, k) <= c
                       /\ l[k].SP + l[k].CP <= EndAt(l, c, k)
  BY <1>1, EndFacts, BlockFacts DEF Space
<1>3. \A j, k \in 1..n : j < k => EndAt(l, c, j) <= l[k].SP
  BY <1>1, EndFacts
<1>4. \A k \in 1..n : End(l, k) = EndAt(l, c, k)
  BY DEF End, EndAt
<1>5. \A b : b \in Covered <=> \E k \in 1..n : b \in l[k].SP .. l[k].SP + l[k].CP - 1
  BY <1>1, CoveredIs
<1>6. isMemFullAlloced <=> \A k \in 1..n : l[k].SP + l[k].CP = EndAt(l, c, k)
  BY <1>1, <1>4 DEF isMemFullAlloced
<1>7. \A k \in 1..n : k = n => EndAt(l, c, k) = c
  BY DEF EndAt
<1>8. \A k \in 1..n : k # n => k + 1 \in 1..n /\ EndAt(l, c, k) = l[k + 1].SP
  BY <1>1 DEF EndAt
<1> HIDE DEF l, c, n
<1>9. Covered \subseteq 0 .. c - 1
  <2> SUFFICES ASSUME NEW b \in Covered PROVE b \in 0 .. c - 1
    OBVIOUS
  <2>1. PICK k \in 1..n : b \in l[k].SP .. l[k].SP + l[k].CP - 1
    BY <1>5
  <2> QED BY <1>1, <1>2, <2>1
<1>10. ASSUME \A k \in 1..n : l[k].SP + l[k].CP = EndAt(l, c, k)
       PROVE  0 .. c - 1 \subseteq Covered
  <2> SUFFICES ASSUME NEW b \in 0 .. c - 1 PROVE b \in Covered
    OBVIOUS
  <2>1. b \in Nat /\ b < c
    BY <1>1
\* The last block that begins at or before b.
  <2> DEFINE g == [k \in 1..n |-> IF l[k].SP <= b THEN k ELSE 0]
  <2>2. \A k \in 1..n : g[k] = IF l[k].SP <= b THEN k ELSE 0
    OBVIOUS
  <2> HIDE DEF g
  <2>3. \A k \in 1..n : g[k] \in Int
    BY <2>2
  <2>4. PICK i \in 1..n : \A k \in 1..n : g[k] < g[i] \/ (g[k] = g[i] /\ i <= k)
    BY <1>1, <2>3, FirstMost
  <2>5. 1 \in 1..n /\ g[1] = 1
    BY <1>1, <2>1, <2>2
  <2>6. g[i] = i /\ l[i].SP <= b
    BY <2>2, <2>4, <2>5
  <2>7. b < EndAt(l, c, i)
    <3>1. CASE i = n
      BY <1>7, <2>1, <3>1
    <3>2. CASE i # n
      <4>1. i + 1 \in 1..n /\ EndAt(l, c, i) = l[i + 1].SP
        BY <1>8, <3>2
      <4>2. ~(l[i + 1].SP <= b)
        BY <2>2, <2>4, <2>6, <4>1
      <4> QED BY <1>2, <2>1, <4>1, <4>2
    <3> QED BY <3>1, <3>2
  <2>8. l[i].SP + l[i].CP = EndAt(l, c, i)
    BY <1>10
  <2>9. b \in l[i].SP .. l[i].SP + l[i].CP - 1
    BY <1>2, <2>1, <2>6, <2>7, <2>8
  <2> QED BY <1>5, <2>9
<1>11. ASSUME NEW i \in 1..n, l[i].SP + l[i].CP # EndAt(l, c, i)
       PROVE  Covered # 0 .. c - 1
  <2> DEFINE b == l[i].SP + l[i].CP
             e == EndAt(l, c, i)
  <2>1. b \in Nat /\ e \in Nat /\ b < e /\ e <= c /\ l[i].SP <= b
    BY <1>2, <1>11
  <2>2. b \in 0 .. c - 1
    <3> HIDE DEF b, e
    <3> QED BY <1>1, <2>1
  <2>3. ASSUME NEW k \in 1..n, b \in l[k].SP .. l[k].SP + l[k].CP - 1 PROVE FALSE
    <3> DEFINE x == l[k].SP
               y == l[k].CP
    <3>1. x \in Nat /\ y \in Nat /\ x <= b /\ b < x + y
      BY <1>2, <2>1, <2>3
    <3>2. CASE k < i
      <4>1. EndAt(l, c, k) <= l[i].SP /\ x + y <= EndAt(l, c, k) /\ EndAt(l, c, k) \in Nat
        BY <1>2, <1>3, <3>2
      <4>2. l[i].SP \in Nat
        BY <1>2
      <4> HIDE DEF x, y, b, e
      <4> QED BY <2>1, <3>1, <4>1, <4>2
    <3>3. CASE i < k
      <4>1. e <= x
        BY <1>3, <3>3
      <4> HIDE DEF x, y, b, e
      <4> QED BY <2>1, <3>1, <4>1
    <3>4. CASE k = i
      <4>1. b = x + y
        BY <3>4
      <4> HIDE DEF x, y, b
      <4> QED BY <3>1, <4>1
    <3> QED BY <1>1, <3>2, <3>3, <3>4
  <2>4. b \notin Covered
    <3> HIDE DEF b
    <3> QED BY <1>5, <2>3
  <2> QED BY <2>2, <2>4
<1>12. isMemFullAlloced <=> Covered = 0 .. c - 1
  BY <1>6, <1>9, <1>10, <1>11
<1> QED BY <1>12 DEF c

\* isMemFullAlloced, which compares each block with the next, says so exactly
\* when every byte of the file was received (sqlitesegmentmodel.cpp:741).
THEOREM FullCorrect == Spec => []FullMeansAll
  BY FullState, Inductive, PTL

LEMMA CoveredGrows ==
    ASSUME IInv, IInv',
           \A i \in 1..Len(mPointerMap) : \E k \in 1..Len(mPointerMap') :
               /\ mPointerMap'[k].SP = mPointerMap[i].SP
               /\ mPointerMap[i].CP <= mPointerMap'[k].CP
    PROVE  Covered \subseteq Covered'
<1> DEFINE l == mPointerMap
           m == mPointerMap'
<1>1. l \in Seq(Blocks) /\ m \in Seq(Blocks)
  BY DEF IInv, TypeOK
<1>2. DOMAIN l = 1..Len(l) /\ DOMAIN m = 1..Len(m)
  BY <1>1, SeqFacts
<1>3. Covered' = UNION {m[k].SP .. m[k].SP + m[k].CP - 1 : k \in DOMAIN m}
  BY DEF Covered
<1> SUFFICES ASSUME NEW b \in Covered PROVE b \in Covered'
  OBVIOUS
<1>4. PICK i \in 1..Len(l) : b \in l[i].SP .. l[i].SP + l[i].CP - 1
  BY <1>2, CoveredIs
<1>5. PICK k \in 1..Len(m) : m[k].SP = l[i].SP /\ l[i].CP <= m[k].CP
  OBVIOUS
<1>6. /\ l[i].SP \in Nat /\ l[i].CP \in Nat /\ m[k].SP \in Nat /\ m[k].CP \in Nat
  BY <1>1, BlockFacts
<1> HIDE DEF l, m
<1>7. b \in m[k].SP .. m[k].SP + m[k].CP - 1
  <2>1. \A x, y, z \in Nat : y <= z => x .. x + y - 1 \subseteq x .. x + z - 1
    OBVIOUS
  <2>2. l[i].SP .. l[i].SP + l[i].CP - 1 \subseteq l[i].SP .. l[i].SP + m[k].CP - 1
    BY <1>5, <1>6, <2>1
  <2> QED BY <1>4, <1>5, <2>2
<1> QED BY <1>2, <1>3, <1>7

LEMMA NextGrows ==
    ASSUME IInv, IInv', [Next]_vars
    PROVE  \A i \in 1..Len(mPointerMap) : \E k \in 1..Len(mPointerMap') :
               /\ mPointerMap'[k].SP = mPointerMap[i].SP
               /\ mPointerMap[i].CP <= mPointerMap'[k].CP
<1> DEFINE l == mPointerMap
           m == mPointerMap'
           Grows == \A i \in 1..Len(l) : \E k \in 1..Len(m) :
                        m[k].SP = l[i].SP /\ l[i].CP <= m[k].CP
<1>1. /\ l \in Seq(Blocks) /\ DOMAIN l = 1..Len(l) /\ Len(l) \in Nat
      /\ Space(l, mMemCapacity)
      /\ \A k \in 1..Len(l) : l[k].CP \in Nat /\ l[k] \in Blocks
  BY SeqFacts, BlockFacts DEF IInv, TypeOK
<1>2. \A k \in 1..Len(l) : l[k].CP <= l[k].CP
  BY <1>1
<1>3. CASE mPointerMap' = mPointerMap
  BY <1>2, <1>3
<1>4. CASE mPointerMap = << >>
  BY <1>4
<1>5. CASE setBlockBusy
  <2>1. m = [i \in DOMAIN l |-> IF l[i].SP = holds[granted]
                               THEN [l[i] EXCEPT !.busy = TRUE] ELSE l[i]]
    BY <1>5 DEF setBlockBusy
  <2>2. \A x \in Blocks : LET d == [x EXCEPT !.busy = TRUE]
                          IN  d.SP = x.SP /\ d.CP = x.CP
    BY DEF Blocks
  <2>3. Len(m) = Len(l)
    <3>1. m \in Seq(Blocks)
      BY DEF IInv, TypeOK
    <3>2. DOMAIN m = 1..Len(l) /\ DOMAIN m = 1..Len(m) /\ Len(m) \in Nat
      BY <1>1, <2>1, <3>1, SeqFacts
    <3> HIDE DEF m
    <3> QED BY <1>1, <3>2
  <2>4. ASSUME NEW k \in 1..Len(l) PROVE m[k].SP = l[k].SP /\ m[k].CP = l[k].CP
    <3>1. m[k] = IF l[k].SP = holds[granted] THEN [l[k] EXCEPT !.busy = TRUE] ELSE l[k]
      BY <1>1, <2>1
    <3>2. l[k] \in Blocks
      BY <1>1
    <3> HIDE DEF m, l
    <3> QED BY <2>2, <3>1, <3>2
  <2> QED BY <1>2, <2>3, <2>4
<1>6. ASSUME NEW r \in Retrievers, Running(r),
             NEW b, mPointerMap' = [mPointerMap EXCEPT ![At(holds[r])] = b],
             b \in Blocks, b.SP = mPointerMap[At(holds[r])].SP,
             mPointerMap[At(holds[r])].CP <= b.CP
      PROVE  Grows
  <2>1. At(holds[r]) \in 1..Len(l)
    BY <1>6, AtFacts DEF Running, Owns
  <2>2. Len(m) = Len(l) /\ \A k \in 1..Len(l) : m[k] = IF k = At(holds[r]) THEN b ELSE l[k]
    BY <1>1, <1>6, <2>1, ExceptSeq
  <2>3. \A k \in 1..Len(l) : m[k].SP = l[k].SP /\ l[k].CP <= m[k].CP
    BY <1>2, <1>6, <2>2
  <2> QED BY <2>2, <2>3
<1>7. ASSUME NEW r \in Retrievers, NEW n \in Chunks, Report(r, n) PROVE Grows
  <2> DEFINE i == At(holds[r])
             v == Received(i, n)
             b == [l[i] EXCEPT !.CP = v]
  <2>1. Running(r) /\ m = [l EXCEPT ![i] = b]
    BY <1>7 DEF Report
  <2>2. i \in 1..Len(l) /\ l[i] \in Blocks
    BY <1>1, <2>1, AtFacts DEF Running, Owns
  <2>3. v \in Offsets /\ l[i].CP <= v
    <3> HIDE DEF i
    <3> QED BY <2>2, ReceivedFacts DEF i
  <2>4. \A x \in Blocks, y \in Offsets :
            LET d == [x EXCEPT !.CP = y] IN d \in Blocks /\ d.SP = x.SP /\ d.CP = y
    BY DEF Blocks
  <2>5. b \in Blocks /\ b.SP = l[i].SP /\ b.CP = v
    <3> HIDE DEF v, i, l
    <3> QED BY <2>2, <2>3, <2>4
  <2> HIDE DEF b, v, Grows
  <2> QED BY <1>6, <2>1, <2>3, <2>5
<1>8. ASSUME NEW r \in Retrievers, Release(r) PROVE Grows
  <2> DEFINE i == At(holds[r])
             b == [l[i] EXCEPT !.busy = FALSE]
  <2>1. Running(r) /\ m = [l EXCEPT ![i] = b]
    BY <1>8 DEF Release, release
  <2>2. i \in 1..Len(l) /\ l[i] \in Blocks /\ l[i].CP <= l[i].CP
    BY <1>1, <1>2, <2>1, AtFacts DEF Running, Owns
  <2>3. \A x \in Blocks :
            LET d == [x EXCEPT !.busy = FALSE] IN d \in Blocks /\ d.SP = x.SP /\ d.CP = x.CP
    BY DEF Blocks
  <2>4. b \in Blocks /\ b.SP = l[i].SP /\ b.CP = l[i].CP
    <3> HIDE DEF i, l
    <3> QED BY <2>2, <2>3
  <2> HIDE DEF b, Grows
  <2> QED BY <1>6, <2>1, <2>2, <2>4
<1>9. ASSUME NEW r \in Retrievers, StartSegment(r) PROVE Grows
  <2> DEFINE i == Widest(l)
  <2>1. sortMMList(l) = l
    BY <1>1, SortedStays
  <2>2. l # << >> /\ m = MallocBlocks(l)
    BY <1>9, <2>1 DEF StartSegment
  <2>3. i \in 1..Len(l)
    BY <1>1, <2>2, WidestIn
  <2>4. m = l \/ (m = Cut(l, i) /\ ~Refused(l, i) /\ ~Reused(l, i))
    BY <2>2 DEF MallocBlocks
  <2>5. CASE m = l
    BY <1>3, <2>5
  <2>6. CASE m = Cut(l, i) /\ ~Refused(l, i) /\ ~Reused(l, i)
    <3> HIDE DEF i
    <3>1. CutAt(l, i) \in Offsets
      BY <1>1, <2>3, <2>6, CutKeeps
    <3>2. /\ Len(m) = Len(l) + 1
          /\ \A k \in 1..i : m[k] = l[k]
          /\ \A k \in i + 1..Len(l) : m[k + 1] = l[k]
      BY <1>1, <2>3, <2>6, <3>1, CutBlocks
    <3> HIDE DEF m, l
    <3>3. ASSUME NEW k \in 1..Len(l) PROVE \E j \in 1..Len(m) : m[j] = l[k]
      <4>1. CASE k <= i
        BY <1>1, <2>3, <3>2, <4>1
      <4>2. CASE i < k
        <5>1. k \in i + 1..Len(l) /\ k + 1 \in 1..Len(m)
          BY <1>1, <2>3, <3>2, <4>2
        <5> QED BY <3>2, <5>1
      <4> QED BY <1>1, <2>3, <4>1, <4>2
    <3> QED BY <1>2, <3>3
  <2> QED BY <2>4, <2>5, <2>6
<1>10. CASE Next
  <2>1. CASE \E c \in Capacities : setCapacity(c)
    BY <1>4, <2>1 DEF setCapacity
  <2>2. CASE \E r \in Retrievers : StartFirst(r) \/ Abandon(r)
    BY <1>3, <2>2 DEF StartFirst, Abandon
  <2> HIDE DEF Grows
  <2>3. Grows
    <3>1. CASE setBlockBusy
      BY <1>5, <3>1 DEF Grows
    <3>2. CASE \E c \in Capacities : setCapacity(c)
      BY <2>1, <3>2 DEF Grows
    <3>3. CASE \E r \in Retrievers : StartFirst(r) \/ Abandon(r)
      BY <2>2, <3>3 DEF Grows
    <3> QED BY <1>7, <1>8, <1>9, <1>10, <3>1, <3>2, <3>3 DEF Next
  <2> QED BY <2>3 DEF Grows
<1>11. CASE UNCHANGED vars
  BY <1>3, <1>11 DEF vars
<1> QED BY <1>10, <1>11

\* What free counted as received stays counted, whatever is cut and released
\* afterwards (sqlitesegmentmodel.cpp:610-703).
THEOREM ReceivedStays == Spec => NothingForgotten
<1>1. IInv /\ IInv' /\ [Next]_vars => [Covered \subseteq Covered']_vars
  <2> SUFFICES ASSUME IInv, IInv', [Next]_vars PROVE Covered \subseteq Covered'
    OBVIOUS
  <2>1. \A i \in 1..Len(mPointerMap) : \E k \in 1..Len(mPointerMap') :
            /\ mPointerMap'[k].SP = mPointerMap[i].SP
            /\ mPointerMap[i].CP <= mPointerMap'[k].CP
    BY NextGrows
  <2> QED BY <2>1, CoveredGrows
<1> QED BY <1>1, Inductive, IInvStep, PTL DEF Spec, NothingForgotten
=============================================================================
