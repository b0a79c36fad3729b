-------------------------- MODULE TaskStore_proofs --------------------------
(***************************************************************************)
(* Proofs about TaskStore: types, the list of downloading tasks without    *)
(* repetitions, new ids that are new, and the task the trash announces,    *)
(* for any categories, tasks and bounds.                                   *)
(***************************************************************************)
EXTENDS TaskStore, SequenceTheorems, FiniteSetTheorems, TLAPS

-----------------------------------------------------------------------------
(* The invariant *)

\* Nothing mentions a task whose id is beyond b.
RowsTo(b) == {r \in Rows : r.id <= b}
WritesTo(b) == {w \in Writes : w.id <= b}
TableTo(b) ==
    /\ tasks \in [Ids -> StoredRows \cup {NoRow}]
    /\ \A t \in Ids : tasks[t] # NoRow => t <= b

Unique(rows) == \A i, j \in DOMAIN rows : rows[i].id = rows[j].id => i = j

\* A category lists its own tasks and those of its children.
Homed(c, rows) == \A i \in DOMAIN rows : rows[i].sys \in Listed(c)

\* What the calls of a handler keep: the models shown and downloading are loaded,
\* the second lists no task twice, the view's row exists, and rows are where they
\* belong.
Guis(b) ==
    {g \in [models : [Categories -> Seq(RowsTo(b)) \cup {NotLoaded}],
            view : Categories, cur : Nat, queue : Seq(WritesTo(b))] :
        /\ g.models[Downloading] # NotLoaded /\ Unique(g.models[Downloading])
        /\ g.models[g.view] # NotLoaded
        /\ g.cur <= Len(g.models[g.view])
        /\ \A c \in Categories : g.models[c] # NotLoaded => Homed(c, g.models[c])}

\* The id being allocated is the last one, and not in use yet.
Allocated == IF phase = "creating" THEN seq - 1 ELSE seq

Flags ==
    /\ seq \in 0..MaxId /\ lastId \in 0..seq
    /\ phase \in {"idle", "creating"}
    /\ phase = "creating" =>
         /\ lastId # 0 /\ (lastId = seq \/ lastId \in late)
         /\ \A k \in DOMAIN queue : queue[k].id \in late
    /\ running \subseteq Ids
    /\ message \in [text : {"none", "trash", "permanent"}, id : 0..MaxId]
    /\ fault \in {"none", "rowOutOfRange"}
    /\ purged \subseteq Ids /\ late \subseteq Ids /\ strayed \subseteq Ids
    /\ restarts \in 0..MaxRestarts

IInv == Flags /\ TableTo(Allocated) /\ Gui \in Guis(Allocated)

-----------------------------------------------------------------------------
(* Numbers in order *)

LEMMA LeastOf ==
    ASSUME NEW S, S \subseteq Nat, S # {}
    PROVE  \E m \in S : \A k \in S : m <= k
  <1> DEFINE R == OpToRel(<, Nat)
  <1>1. IsWellFoundedOn(R, Nat)
    BY NatLessThanWellFounded
  <1>2. \A m, k \in Nat : k < m => <<k, m>> \in R
    BY DEF OpToRel
  <1> HIDE DEF R
  <1>3. PICK m \in S : \A k \in S : ~(<<k, m>> \in R)
    BY <1>1, WFMin
  <1>4. ASSUME NEW k \in S PROVE m <= k
    <2>1. m \in Nat /\ k \in Nat /\ ~(<<k, m>> \in R)
      BY <1>3
    <2>2. ~(k < m)
      BY <1>2, <2>1
    <2> QED
      BY <2>1, <2>2
  <1> QED
    BY <1>4

\* A finite set of numbers can be listed from the greatest down.
LEMMA DescendingExists ==
    ASSUME NEW n \in Nat, NEW S \in SUBSET (1..n)
    PROVE  \E q \in [1..Cardinality(S) -> S] : \A i, j \in DOMAIN q : i < j => q[i] > q[j]
  <1> DEFINE Listable(U) == \E q \in [1..Cardinality(U) -> U] :
                              \A i, j \in DOMAIN q : i < j => q[i] > q[j]
             T == {U \in SUBSET (1..n) : ~Listable(U)}
             R == StrictSubsetOrdering(1..n)
  <1>1. IsFiniteSet(1..n) /\ \A U \in SUBSET (1..n) : IsFiniteSet(U) /\ Cardinality(U) \in Nat
    <2>1. IsFiniteSet(1..n)
      BY FS_Interval
    <2> QED
      BY <2>1, FS_Subset, FS_CardinalityType
  <1>2. IsWellFoundedOn(R, SUBSET (1..n))
    BY <1>1, FS_FiniteSubsetsOfFinite, FS_StrictSubsetOrderingWellFounded
  <1>3. ASSUME NEW U \in T, \A V \in T : <<V, U>> \notin R
        PROVE  FALSE
    <2>1. U # {}
      <3>1. ASSUME U = {} PROVE Listable(U)
        <4>1. Cardinality(U) = 0
          BY <3>1, FS_EmptySet
        <4> DEFINE q == [i \in 1..Cardinality(U) |-> i]
        <4>2. q \in [1..Cardinality(U) -> U] /\ DOMAIN q = {}
          BY <4>1
        <4> QED
          BY <4>2
      <3> QED
        BY <3>1
    <2>2. U \subseteq 1..n /\ U \subseteq Nat
      OBVIOUS
    <2>3. PICK m \in U : \A k \in U : m <= k
      BY <2>1, <2>2, LeastOf
    <2> DEFINE V == U \ {m}
               c == Cardinality(V)
    <2>4. IsFiniteSet(U) /\ c \in Nat /\ Cardinality(U) = c + 1
      BY <1>1, <2>2, <2>3, FS_RemoveElement
    <2>5. <<V, U>> \in R
      BY <2>2, <2>3 DEF StrictSubsetOrdering
    <2>6. Listable(V)
      BY <1>3, <2>2, <2>5
    <2>7. PICK q \in [1..c -> V] : \A i, j \in 1..c : i < j => q[i] > q[j]
      BY <2>6
    <2> DEFINE r == [i \in 1..(c + 1) |-> IF i <= c THEN q[i] ELSE m]
    <2>8. r \in [1..Cardinality(U) -> U]
      <3> HIDE DEF c
      <3>1. ASSUME NEW i \in 1..(c + 1), i <= c PROVE q[i] \in U
        <4>1. i \in 1..c
          BY <2>4, <3>1
        <4> QED
          BY <2>7, <4>1
      <3> QED
        BY <2>3, <2>4, <3>1
    <2>9. \A i, j \in 1..(c + 1) : i < j => r[i] > r[j]
      <3> SUFFICES ASSUME NEW i \in 1..(c + 1), NEW j \in 1..(c + 1), i < j
                   PROVE  r[i] > r[j]
        OBVIOUS
      <3> HIDE DEF c
      <3>1. i \in 1..c /\ q[i] \in V
        BY <2>4, <2>7
      <3>2. CASE j \in 1..c
        BY <2>7, <3>1, <3>2
      <3>3. CASE j = c + 1
        <4>1. r[j] = m /\ r[i] = q[i]
          BY <2>4, <3>1, <3>3
        <4>2. q[i] \in U /\ m \in U /\ q[i] # m
          BY <2>3, <3>1
        <4>3. q[i] \in Nat /\ m \in Nat /\ m <= q[i]
          BY <2>2, <2>3, <4>2
        <4> QED
          BY <4>1, <4>2, <4>3
      <3> QED
        BY <2>4, <3>2, <3>3
    <2>10. Listable(U)
      <3>1. DOMAIN r = 1..(c + 1)
        OBVIOUS
      <3> HIDE DEF r, c
      <3> QED
        BY <2>8, <2>9, <3>1
    <2> QED
      BY <2>10
  <1>4. T = {}
    <2>1. T \subseteq SUBSET (1..n)
      OBVIOUS
    <2> HIDE DEF T, R
    <2> QED
      BY <1>2, <1>3, <2>1, WFMin
  <1> QED
    BY <1>4

LEMMA DescendingLists ==
    ASSUME NEW n \in Nat, NEW S \in SUBSET (1..n)
    PROVE  /\ Cardinality(S) \in Nat
           /\ Descending(S) \in [1..Cardinality(S) -> S]
           /\ \A i, j \in 1..Cardinality(S) : Descending(S)[i] = Descending(S)[j] => i = j
  <1>1. Cardinality(S) \in Nat
    <2>1. IsFiniteSet(1..n)
      BY FS_Interval
    <2> QED
      BY <2>1, FS_Subset, FS_CardinalityType
  <1>2. /\ Descending(S) \in [1..Cardinality(S) -> S]
        /\ \A i, j \in DOMAIN Descending(S) : i < j => Descending(S)[i] > Descending(S)[j]
    BY DescendingExists DEF Descending
  <1>3. \A i \in 1..Cardinality(S) : Descending(S)[i] \in Nat
    <2> DEFINE q == Descending(S)
    <2>1. q \in [1..Cardinality(S) -> S]
      BY <1>2
    <2> HIDE DEF q
    <2>2. \A i \in 1..Cardinality(S) : q[i] \in S
      BY <2>1
    <2>3. S \subseteq Nat
      OBVIOUS
    <2>4. \A i \in 1..Cardinality(S) : q[i] \in Nat
      BY <2>2, <2>3
    <2> QED
      BY <2>4 DEF q
  <1> QED
    BY <1>1, <1>2, <1>3

-----------------------------------------------------------------------------
(* Lists of rows *)

\* Rows that are the same tasks.
SameTasks(rows, old) ==
    /\ Len(rows) = Len(old)
    /\ \A i \in DOMAIN old : rows[i].id = old[i].id /\ rows[i].sys = old[i].sys

LEMMA FindRow ==
    ASSUME NEW S, NEW rows \in Seq(S), NEW t
    PROVE  \/ Find(rows, t) = 0 /\ \A i \in DOMAIN rows : rows[i].id # t
           \/ Find(rows, t) \in DOMAIN rows /\ rows[Find(rows, t)].id = t
  <1> DEFINE I == {i \in 1..Len(rows) : rows[i].id = t}
  <1>1. Find(rows, t) = IF I # {} THEN Min(I) ELSE 0
    BY DEF Find, SelectInSeq
  <1>2. DOMAIN rows = 1..Len(rows) /\ Len(rows) \in Nat
    OBVIOUS
  <1>3. CASE I = {}
    BY <1>1, <1>2, <1>3
  <1>4. CASE I # {}
    <2>1. I \subseteq Nat
      BY <1>2
    <2>2. \E m \in I : \A k \in I : m <= k
      <3> HIDE DEF I
      <3> QED
        BY <1>4, <2>1, LeastOf
    <2>3. Min(I) \in I
      <3> HIDE DEF I
      <3> QED
        BY <2>2 DEF Min
    <2> QED
      BY <1>1, <1>2, <1>4, <2>3
  <1> QED
    BY <1>3, <1>4

LEMMA RemovedRow ==
    ASSUME NEW S, NEW rows \in Seq(S), NEW k \in DOMAIN rows
    PROVE  /\ RemoveAt(rows, k) \in Seq(S) /\ Len(RemoveAt(rows, k)) = Len(rows) - 1
           /\ Unique(rows) => /\ Unique(RemoveAt(rows, k))
                              /\ \A i \in DOMAIN RemoveAt(rows, k) :
                                     RemoveAt(rows, k)[i].id # rows[k].id
           /\ \A i \in DOMAIN RemoveAt(rows, k) :
                \E j \in DOMAIN rows :
                    j = (IF i < k THEN i ELSE i + 1) /\ RemoveAt(rows, k)[i] = rows[j]
  <1> DEFINE n == Len(rows)
             a == SubSeq(rows, 1, k - 1)
             b == SubSeq(rows, k + 1, n)
             q == RemoveAt(rows, k)
  <1>1. n \in Nat /\ DOMAIN rows = 1..n /\ k \in 1..n /\ \A i \in 1..n : rows[i] \in S
    OBVIOUS
  <1>2. /\ a \in Seq(S) /\ Len(a) = k - 1
        /\ \A i \in 1..(k - 1) : a[i] = rows[i]
    <2>1. \A i \in 1..(k - 1) : rows[i] \in S
      BY <1>1
    <2>2. k - 1 \in Int /\ 1 \in Int
      BY <1>1
    <2>3. /\ a \in Seq(S) /\ Len(a) = IF 1 <= k - 1 THEN (k - 1) - 1 + 1 ELSE 0
          /\ \A i \in 1..((k - 1) - 1 + 1) : a[i] = rows[1 + i - 1]
      BY <2>1, <2>2, SubSeqProperties
    <2> QED
      BY <1>1, <2>3
  <1>3. /\ b \in Seq(S) /\ Len(b) = n - k
        /\ \A i \in 1..(n - k) : b[i] = rows[k + i]
    <2>1. \A i \in (k + 1)..n : rows[i] \in S
      BY <1>1
    <2>2. k + 1 \in Int /\ n \in Int
      BY <1>1
    <2>3. /\ b \in Seq(S) /\ Len(b) = IF k + 1 <= n THEN n - (k + 1) + 1 ELSE 0
          /\ \A i \in 1..(n - (k + 1) + 1) : b[i] = rows[(k + 1) + i - 1]
      BY <2>1, <2>2, SubSeqProperties
    <2>4. n - (k + 1) + 1 = n - k /\ (k + 1 <= n \/ n - k = 0)
      BY <1>1
    <2>5. \A i \in 1..(n - k) : (k + 1) + i - 1 = k + i
      BY <1>1
    <2> HIDE DEF b, n
    <2> QED
      BY <2>3, <2>4, <2>5
  <1>4. q = a \o b
    BY DEF RemoveAt
  <1> HIDE DEF a, b, q, n
  <1>5. /\ q \in Seq(S) /\ Len(q) = (k - 1) + (n - k)
        /\ \A i \in 1..((k - 1) + (n - k)) : q[i] = IF i <= k - 1 THEN a[i] ELSE b[i - (k - 1)]
    BY <1>2, <1>3, <1>4, ConcatProperties
  <1>6. Len(q) = n - 1 /\ DOMAIN q = 1..(n - 1)
    BY <1>1, <1>5
  <1>7. ASSUME NEW i \in 1..(n - 1)
        PROVE  q[i] = IF i < k THEN rows[i] ELSE rows[i + 1]
    <2>1. i \in 1..((k - 1) + (n - k))
      BY <1>1, <1>7
    <2>2. CASE i < k
      <3>1. i \in 1..(k - 1) /\ i <= k - 1
        BY <1>1, <1>7, <2>2
      <3> QED
        BY <1>2, <1>5, <2>1, <2>2, <3>1
    <2>3. CASE ~(i < k)
      <3>1. ~(i <= k - 1) /\ i - (k - 1) \in 1..(n - k) /\ k + (i - (k - 1)) = i + 1
        BY <1>1, <1>7, <2>3
      <3>2. q[i] = b[i - (k - 1)]
        BY <1>5, <2>1, <3>1
      <3>3. b[i - (k - 1)] = rows[i + 1]
        BY <1>3, <3>1
      <3> QED
        BY <2>3, <3>2, <3>3
    <2> QED
      BY <2>2, <2>3
  <1>8. ASSUME Unique(rows), NEW i \in DOMAIN q, NEW j \in DOMAIN q, q[i].id = q[j].id
        PROVE  i = j
    <2> DEFINE f(x) == IF x < k THEN x ELSE x + 1
    <2>1. /\ f(i) \in 1..n /\ f(j) \in 1..n /\ q[i] = rows[f(i)] /\ q[j] = rows[f(j)]
      BY <1>1, <1>6, <1>7
    <2>2. f(i) = f(j)
      BY <1>1, <1>8, <2>1 DEF Unique
    <2> QED
      BY <1>1, <1>6, <2>2
  <1>9. ASSUME Unique(rows), NEW i \in DOMAIN q
        PROVE  q[i].id # rows[k].id
    <2> DEFINE x == IF i < k THEN i ELSE i + 1
    <2>1. x \in 1..n /\ x # k /\ q[i] = rows[x]
      BY <1>1, <1>6, <1>7, <1>9
    <2> HIDE DEF x
    <2> QED
      BY <1>1, <1>9, <2>1 DEF Unique
  <1>10. Unique(rows) => Unique(q)
    BY <1>8 DEF Unique
  <1>11. ASSUME NEW i \in DOMAIN q
         PROVE  \E j \in DOMAIN rows : j = (IF i < k THEN i ELSE i + 1) /\ q[i] = rows[j]
    <2> DEFINE x == IF i < k THEN i ELSE i + 1
    <2>1. x \in 1..n /\ q[i] = rows[x]
      BY <1>1, <1>6, <1>7, <1>11
    <2>2. x \in DOMAIN rows
      BY <1>1, <2>1
    <2> QED
      BY <2>1, <2>2
  <1> QED
    BY <1>5, <1>6, <1>9, <1>10, <1>11 DEF q, n

LEMMA AddedRow ==
    ASSUME NEW S, NEW rows \in Seq(S), NEW r \in S
    PROVE  /\ <<r>> \o rows \in Seq(S) /\ Len(<<r>> \o rows) = Len(rows) + 1
           /\ Unique(rows) /\ (\A i \in DOMAIN rows : rows[i].id # r.id)
                => Unique(<<r>> \o rows)
           /\ (<<r>> \o rows)[1] = r
           /\ \A i \in DOMAIN (<<r>> \o rows) :
                i = 1 \/ (i - 1 \in DOMAIN rows /\ (<<r>> \o rows)[i] = rows[i - 1])
  <1> DEFINE q == <<r>> \o rows
             n == Len(rows)
  <1>1. <<r>> \in Seq(S) /\ Len(<<r>>) = 1 /\ <<r>>[1] = r
    OBVIOUS
  <1>2. n \in Nat /\ DOMAIN rows = 1..n
    OBVIOUS
  <1>3. /\ q \in Seq(S) /\ Len(q) = 1 + n
        /\ \A i \in 1..(1 + n) : q[i] = IF i <= 1 THEN <<r>>[i] ELSE rows[i - 1]
    BY <1>1, ConcatProperties
  <1> HIDE DEF q, n
  <1>4. DOMAIN q = 1..(1 + n) /\ q[1] = r
    BY <1>1, <1>2, <1>3
  <1>5. ASSUME NEW i \in DOMAIN q
        PROVE  i = 1 \/ (i - 1 \in DOMAIN rows /\ q[i] = rows[i - 1])
    BY <1>2, <1>3, <1>4
  <1>6. ASSUME Unique(rows), \A i \in DOMAIN rows : rows[i].id # r.id,
               NEW i \in DOMAIN q, NEW j \in DOMAIN q, q[i].id = q[j].id
        PROVE  i = j
    <2>1. i = 1 <=> j = 1
      BY <1>4, <1>5, <1>6
    <2>2. CASE i # 1
      <3>1. i - 1 = j - 1
        BY <1>5, <1>6, <2>1, <2>2 DEF Unique
      <3> QED
        BY <1>2, <1>4, <3>1
    <2> QED
      BY <2>1, <2>2
  <1>7. Unique(rows) /\ (\A i \in DOMAIN rows : rows[i].id # r.id) => Unique(q)
    BY <1>6 DEF Unique
  <1>8. \A i \in DOMAIN q : i = 1 \/ (i - 1 \in DOMAIN rows /\ q[i] = rows[i - 1])
    BY <1>5
  <1> QED
    BY <1>2, <1>3, <1>4, <1>7, <1>8 DEF q, n

-----------------------------------------------------------------------------
(* The calls of a handler *)

Record(m, v, k, q) == [models |-> m, view |-> v, cur |-> k, queue |-> q]

\* The parts of a record of Guis(b).
LEMMA Parts ==
    ASSUME NEW b, NEW g \in Guis(b)
    PROVE  /\ g = Record(g.models, g.view, g.cur, g.queue)
           /\ g.models \in [Categories -> Seq(RowsTo(b)) \cup {NotLoaded}]
           /\ g.view \in Categories /\ g.cur \in Nat /\ g.queue \in Seq(WritesTo(b))
           /\ g.models[Downloading] # NotLoaded /\ Unique(g.models[Downloading])
           /\ g.models[g.view] # NotLoaded /\ g.cur <= Len(g.models[g.view])
           /\ Downloading \in Categories /\ Deleted \in Categories
           /\ \A c \in Categories : g.models[c] # NotLoaded =>
                g.models[c] \in Seq(RowsTo(b)) /\ Homed(c, g.models[c])
  BY StoreAssumption DEF Guis, Record

\* No list of rows is NotLoaded.
LEMMA ListIsLoaded ==
    ASSUME NEW b, NEW rows \in Seq(RowsTo(b))
    PROVE  rows # NotLoaded
  <1>1. RowsTo(b) \subseteq Rows
    BY DEF RowsTo
  <1>2. rows \in Seq(Rows)
    BY <1>1, SeqMonotonic
  <1> QED
    BY <1>2, NothingAssumption

\* Changing one model, the current row and the queue.
LEMMA Changed ==
    ASSUME NEW b, NEW g \in Guis(b), NEW c \in Categories, NEW rows \in Seq(RowsTo(b)),
           NEW k \in Nat, NEW q \in Seq(WritesTo(b)),
           c = Downloading => Unique(rows), Homed(c, rows),
           k <= IF c = g.view THEN Len(rows) ELSE Len(g.models[g.view])
    PROVE  Record([g.models EXCEPT ![c] = rows], g.view, k, q) \in Guis(b)
  <1> DEFINE m == [g.models EXCEPT ![c] = rows]
  <1>1. rows # NotLoaded
    BY ListIsLoaded
  <1>2. /\ m \in [Categories -> Seq(RowsTo(b)) \cup {NotLoaded}]
        /\ m[c] = rows /\ \A d \in Categories : d # c => m[d] = g.models[d]
    BY Parts
  <1> HIDE DEF m
  <1>3. m[Downloading] # NotLoaded /\ Unique(m[Downloading])
    BY <1>1, <1>2, Parts
  <1>4. m[g.view] # NotLoaded /\ k <= Len(m[g.view])
    BY <1>1, <1>2, Parts
  <1>5. \A d \in Categories : m[d] # NotLoaded => Homed(d, m[d])
    BY <1>2, Parts
  <1> QED
    BY <1>2, <1>3, <1>4, <1>5, Parts DEF Guis, Record

LEMMA LoadedRows ==
    ASSUME NEW b, TableTo(b), NEW c
    PROVE  /\ Load(c) \in Seq(RowsTo(b)) /\ Unique(Load(c)) /\ Homed(c, Load(c))
           /\ \A i \in DOMAIN Load(c) : \E t \in Ids :
                /\ tasks[t] # NoRow
                /\ Load(c)[i] = [id |-> t, sys |-> tasks[t].sys, user |-> tasks[t].user,
                                 status |-> tasks[t].status, dirty |-> FALSE]
  <1> DEFINE S == {t \in Ids : tasks[t] # NoRow /\ tasks[t].sys \in Listed(c)}
             ids == Descending(S)
             n == Cardinality(S)
             Row(t) == [id |-> t, sys |-> tasks[t].sys, user |-> tasks[t].user,
                        status |-> tasks[t].status, dirty |-> FALSE]
  <1>1. MaxId \in Nat /\ S \in SUBSET (1..MaxId)
    BY StoreAssumption DEF Ids
  <1>2. /\ n \in Nat /\ ids \in [1..n -> S]
        /\ \A i, j \in 1..n : ids[i] = ids[j] => i = j
    <2> HIDE DEF S
    <2> QED
      BY <1>1, DescendingLists
  <1>3. \A t \in S : Row(t) \in RowsTo(b)
    <2> SUFFICES ASSUME NEW t \in S PROVE Row(t) \in RowsTo(b)
      OBVIOUS
    <2>1. t \in Ids /\ t <= b /\ tasks[t] \in StoredRows
      BY DEF TableTo
    <2> QED
      BY <2>1 DEF StoredRows, Rows, RowsTo
  <1>4. Load(c) = [k \in 1..n |-> Row(ids[k])]
    <2>1. Load(c) = [k \in DOMAIN ids |-> Row(ids[k])]
      BY DEF Load
    <2>2. DOMAIN ids = 1..n
      BY <1>2
    <2> HIDE DEF ids, n
    <2> QED
      BY <2>1, <2>2
  <1>5. \A t \in S : Row(t).id = t /\ Row(t).sys \in Listed(c)
    OBVIOUS
  <1> HIDE DEF Row, ids, n, S
  <1>6. Load(c) \in [1..n -> RowsTo(b)]
    BY <1>2, <1>3, <1>4
  <1>7. Load(c) \in Seq(RowsTo(b)) /\ DOMAIN Load(c) = 1..n
    BY <1>2, <1>6
  <1>8. Unique(Load(c))
    BY <1>2, <1>4, <1>5, <1>7 DEF Unique
  <1>9. Homed(c, Load(c))
    BY <1>2, <1>4, <1>5, <1>7 DEF Homed, Listed
  <1>10. ASSUME NEW i \in DOMAIN Load(c)
         PROVE  \E t \in Ids : tasks[t] # NoRow /\ Load(c)[i] = Row(t)
    <2>1. i \in 1..n /\ ids[i] \in S /\ Load(c)[i] = Row(ids[i])
      BY <1>2, <1>4, <1>7
    <2>2. ids[i] \in Ids /\ tasks[ids[i]] # NoRow
      BY <2>1 DEF S
    <2> QED
      BY <2>1, <2>2
  <1> QED
    BY <1>7, <1>8, <1>9, <1>10 DEF Row

LEMMA InstanceKept ==
    ASSUME NEW b, TableTo(b), NEW g \in Guis(b), NEW c \in Categories
    PROVE  /\ Instance(g, c) \in Guis(b)
           /\ Instance(g, c).models[c] \in Seq(RowsTo(b))
           /\ Instance(g, c).view = g.view /\ Instance(g, c).cur = g.cur
           /\ \A d \in Categories : g.models[d] # NotLoaded =>
                Instance(g, c).models[d] = g.models[d]
  <1>1. CASE g.models[c] # NotLoaded
    BY <1>1, Parts DEF Instance
  <1>2. CASE g.models[c] = NotLoaded
    <2> DEFINE h == Record([g.models EXCEPT ![c] = Load(c)], g.view, g.cur, g.queue)
    <2>1. Instance(g, c) = h
      <3>1. g = [models |-> g.models, view |-> g.view, cur |-> g.cur, queue |-> g.queue]
        BY Parts DEF Record
      <3>2. Instance(g, c) = [g EXCEPT !.models[c] = Load(c)]
        BY <1>2 DEF Instance
      <3> QED
        BY <3>1, <3>2 DEF Record
    <2>2. Load(c) \in Seq(RowsTo(b)) /\ Unique(Load(c)) /\ Homed(c, Load(c))
      BY LoadedRows
    <2>3. c # g.view
      BY <1>2, Parts
    <2>4. h \in Guis(b)
      <3>1. /\ g.cur \in Nat /\ g.queue \in Seq(WritesTo(b))
            /\ g.cur <= Len(g.models[g.view])
        BY Parts
      <3> QED
        BY <2>2, <2>3, <3>1, Changed
    <2>5. /\ h.models[c] = Load(c) /\ h.view = g.view /\ h.cur = g.cur
          /\ \A d \in Categories : d # c => h.models[d] = g.models[d]
      BY Parts DEF Record
    <2> HIDE DEF h
    <2> QED
      BY <1>2, <2>1, <2>2, <2>4, <2>5
  <1> QED
    BY <1>1, <1>2

\* The rows submit() leaves, and what it posts, given the answers it gets.
Cleaned(rows) == [i \in DOMAIN rows |-> [rows[i] EXCEPT !.dirty = FALSE]]
Written(rows, contains, i) ==
    [op |-> IF contains[i] THEN "update" ELSE "insert",
     id |-> rows[i].id, to |-> Stored(rows[i])]
Posted(rows, contains) ==
    [k \in DOMAIN Dirty(rows) |-> Written(rows, contains, Dirty(rows)[k])]
Answered(g, c, contains, i) ==
    LET rows == g.models[c]
    IN  contains[i] \in ContainsTask(rows[i].id,
          \/ Pending(g.queue, rows[i].id)
          \/ \E j \in DOMAIN rows : j > i /\ rows[j].dirty /\ rows[j].id = rows[i].id)

LEMMA SubmitsForm ==
    ASSUME NEW b, NEW g \in Guis(b), NEW c \in Categories, g.models[c] # NotLoaded,
           NEW h \in Submits(g, c)
    PROVE  \E contains :
             /\ h = Record([g.models EXCEPT ![c] = Cleaned(g.models[c])], g.view, g.cur,
                           g.queue \o Posted(g.models[c], contains))
             /\ Cleaned(g.models[c]) \in Seq(RowsTo(b))
             /\ SameTasks(Cleaned(g.models[c]), g.models[c])
             /\ Posted(g.models[c], contains) \in Seq(WritesTo(b))
             /\ g.queue \o Posted(g.models[c], contains) \in Seq(WritesTo(b))
             /\ \A i \in DOMAIN g.models[c] : Answered(g, c, contains, i)
  <1> DEFINE rows == g.models[c]
             n == Len(rows)
             order == Dirty(rows)
             Write(contains, i) == Written(rows, contains, i)
             Clean == Cleaned(rows)
  <1>1. rows \in Seq(RowsTo(b)) /\ n \in Nat /\ DOMAIN rows = 1..n
    BY Parts
  <1>2. \A i \in 1..n : rows[i] \in RowsTo(b)
    BY <1>1
  <1>3. PICK contains :
          /\ h = [g EXCEPT !.queue = @ \o [k \in DOMAIN order |-> Write(contains, order[k])],
                           !.models[c] = Clean]
          /\ \A i \in DOMAIN rows : Answered(g, c, contains, i)
    BY DEF Submits, Written, Cleaned, Answered
  <1> DEFINE posted == [k \in DOMAIN order |-> Write(contains, order[k])]
             q == g.queue \o posted
  <1>4. \A i \in 1..n : Write(contains, i) \in WritesTo(b)
    <2> SUFFICES ASSUME NEW i \in 1..n PROVE Write(contains, i) \in WritesTo(b)
      OBVIOUS
    <2>1. rows[i] \in Rows /\ rows[i].id <= b
      BY <1>2 DEF RowsTo
    <2>2. rows[i].id \in Ids /\ Stored(rows[i]) \in StoredRows
      BY <2>1 DEF Rows, Stored, StoredRows
    <2> HIDE DEF rows
    <2> QED
      BY <2>1, <2>2 DEF Writes, WritesTo, Written
  <1>5. \E l \in Nat : order \in [1..l -> 1..n]
    <2> DEFINE S == {i \in DOMAIN rows : rows[i].dirty}
    <2>1. S \in SUBSET (1..n)
      BY <1>1
    <2>2. order = Descending(S)
      BY DEF Dirty
    <2> HIDE DEF S, order, n
    <2>3. Cardinality(S) \in Nat /\ order \in [1..Cardinality(S) -> S]
      BY <1>1, <2>1, <2>2, DescendingLists
    <2>4. order \in [1..Cardinality(S) -> 1..n]
      BY <2>1, <2>3
    <2> QED
      BY <2>3, <2>4
  <1>6. posted \in Seq(WritesTo(b))
    <2>1. PICK l \in Nat : order \in [1..l -> 1..n]
      BY <1>5
    <2> HIDE DEF Write, order, n
    <2>2. posted \in [1..l -> WritesTo(b)]
      BY <1>4, <2>1
    <2> HIDE DEF posted
    <2> QED
      BY <2>2
  <1>7. q \in Seq(WritesTo(b))
    <2> HIDE DEF posted
    <2> QED
      BY <1>6, ConcatProperties, Parts
  <1>8. Clean \in Seq(RowsTo(b)) /\ SameTasks(Clean, rows)
    <2>1. \A i \in 1..n : /\ [rows[i] EXCEPT !.dirty = FALSE] \in RowsTo(b)
                          /\ [rows[i] EXCEPT !.dirty = FALSE].id = rows[i].id
                          /\ [rows[i] EXCEPT !.dirty = FALSE].sys = rows[i].sys
      BY <1>2 DEF Rows, RowsTo
    <2>2. /\ Clean \in [1..n -> RowsTo(b)]
          /\ \A i \in 1..n : Clean[i].id = rows[i].id /\ Clean[i].sys = rows[i].sys
      BY <1>1, <2>1 DEF Cleaned
    <2> HIDE DEF rows, n, Clean
    <2> QED
      BY <1>1, <2>2 DEF n, SameTasks
  <1>9. h = Record([g.models EXCEPT ![c] = Clean], g.view, g.cur, q)
    <2>1. g = [models |-> g.models, view |-> g.view, cur |-> g.cur, queue |-> g.queue]
      BY Parts DEF Record
    <2>2. h = [g EXCEPT !.queue = q, !.models[c] = Clean]
      BY <1>3, <2>1
    <2> HIDE DEF Clean, q
    <2> QED
      BY <2>1, <2>2 DEF Record
  <1>10. posted = Posted(rows, contains)
    BY DEF Posted
  <1> QED
    BY <1>3, <1>6, <1>7, <1>8, <1>9, <1>10

LEMMA SubmitsKept ==
    ASSUME NEW b, NEW g \in Guis(b), NEW c \in Categories, g.models[c] # NotLoaded,
           NEW h \in Submits(g, c)
    PROVE  /\ h \in Guis(b) /\ h.view = g.view /\ h.cur = g.cur
           /\ h.models[c] \in Seq(RowsTo(b)) /\ SameTasks(h.models[c], g.models[c])
           /\ \A d \in Categories : d # c => h.models[d] = g.models[d]
  <1>1. PICK rows \in Seq(RowsTo(b)), q \in Seq(WritesTo(b)) :
          /\ h = Record([g.models EXCEPT ![c] = rows], g.view, g.cur, q)
          /\ SameTasks(rows, g.models[c])
    <2>1. PICK contains :
            /\ h = Record([g.models EXCEPT ![c] = Cleaned(g.models[c])], g.view, g.cur,
                          g.queue \o Posted(g.models[c], contains))
            /\ Cleaned(g.models[c]) \in Seq(RowsTo(b))
            /\ SameTasks(Cleaned(g.models[c]), g.models[c])
            /\ g.queue \o Posted(g.models[c], contains) \in Seq(WritesTo(b))
      BY SubmitsForm
    <2> QED
      BY <2>1
  <1>2. g.models[c] \in Seq(RowsTo(b))
    BY Parts
  <1>3. c = Downloading => Unique(rows)
    <2> SUFFICES ASSUME c = Downloading, NEW i \in DOMAIN rows, NEW j \in DOMAIN rows,
                        rows[i].id = rows[j].id
                 PROVE  i = j
      BY DEF Unique
    <2>1. Unique(g.models[c])
      BY Parts
    <2>2. DOMAIN rows = DOMAIN g.models[c]
      BY <1>1, <1>2 DEF SameTasks
    <2> QED
      BY <1>1, <2>1, <2>2 DEF Unique, SameTasks
  <1>4. g.cur \in Nat /\ g.cur <= IF c = g.view THEN Len(rows) ELSE Len(g.models[g.view])
    BY <1>1, Parts DEF SameTasks
  <1>5. h \in Guis(b)
    <2>1. Homed(c, rows)
      <3>1. Homed(c, g.models[c])
        BY Parts
      <3>2. DOMAIN rows = DOMAIN g.models[c]
        BY <1>1, <1>2 DEF SameTasks
      <3> QED
        BY <1>1, <3>1, <3>2 DEF Homed, SameTasks
    <2> QED
      BY <1>1, <1>3, <1>4, <2>1, Changed
  <1>6. /\ h.models = [g.models EXCEPT ![c] = rows] /\ h.view = g.view /\ h.cur = g.cur
    BY <1>1 DEF Record
  <1>7. h.models[c] = rows /\ \A d \in Categories : d # c => h.models[d] = g.models[d]
    BY <1>6, Parts
  <1> QED
    BY <1>1, <1>5, <1>6, <1>7

LEMMA PrependKept ==
    ASSUME NEW b, NEW g \in Guis(b), NEW c \in Categories, g.models[c] # NotLoaded,
           NEW r \in RowsTo(b), r.sys = c,
           c = Downloading => \A i \in DOMAIN g.models[c] : g.models[c][i].id # r.id
    PROVE  /\ Prepend(g, c, r) \in Guis(b) /\ Prepend(g, c, r).view = g.view
           /\ Prepend(g, c, r).models[c] \in Seq(RowsTo(b))
           /\ Len(Prepend(g, c, r).models[c]) = Len(g.models[c]) + 1
           /\ Prepend(g, c, r).models[c][1] = r
  <1> DEFINE rows == <<r>> \o g.models[c]
             k == IF c = g.view /\ g.cur > 0 THEN g.cur + 1 ELSE g.cur
             h == Record([g.models EXCEPT ![c] = rows], g.view, k, g.queue)
  <1>1. g.models[c] \in Seq(RowsTo(b))
    BY Parts
  <1>2. /\ rows \in Seq(RowsTo(b)) /\ Len(rows) = Len(g.models[c]) + 1
        /\ c = Downloading => Unique(rows)
        /\ rows[1] = r
        /\ \A i \in DOMAIN rows :
             i = 1 \/ (i - 1 \in DOMAIN g.models[c] /\ rows[i] = g.models[c][i - 1])
    <2> HIDE DEF rows
    <2> QED
      BY <1>1, AddedRow, Parts DEF rows
  <1>3. Prepend(g, c, r) = h
    <2>1. g = [models |-> g.models, view |-> g.view, cur |-> g.cur, queue |-> g.queue]
      BY Parts DEF Record
    <2>2. Prepend(g, c, r) = [g EXCEPT !.models[c] = rows, !.cur = k]
      BY <2>1 DEF Prepend
    <2> HIDE DEF rows, k
    <2> QED
      BY <2>1, <2>2 DEF Record
  <1> HIDE DEF rows
  <1>4. k \in Nat /\ k <= IF c = g.view THEN Len(rows) ELSE Len(g.models[g.view])
    <2>1. g.cur \in Nat /\ g.cur <= Len(g.models[g.view]) /\ Len(g.models[c]) \in Nat
      BY <1>1, Parts
    <2> QED
      BY <1>2, <2>1
  <1>5. h \in Guis(b)
    <2>1. g.queue \in Seq(WritesTo(b))
      BY Parts
    <2>2. Homed(c, rows)
      <3>1. Homed(c, g.models[c])
        BY Parts
      <3> QED
        BY <1>2, <3>1 DEF Homed, Listed
    <2> HIDE DEF k
    <2> QED
      BY <1>2, <1>4, <2>1, <2>2, Changed
  <1>6. h.view = g.view /\ h.models[c] = rows
    BY Parts DEF Record
  <1> HIDE DEF h
  <1> QED
    BY <1>2, <1>3, <1>5, <1>6

LEMMA RemovesKept ==
    ASSUME NEW b, NEW g \in Guis(b), NEW c \in Categories, g.models[c] # NotLoaded,
           NEW k \in DOMAIN g.models[c], NEW h \in Removes(g, c, k)
    PROVE  /\ h \in Guis(b) /\ h.view = g.view
           /\ \A d \in Categories : g.models[d] # NotLoaded => h.models[d] # NotLoaded
           /\ c = Downloading =>
                \A i \in DOMAIN h.models[c] : h.models[c][i].id # g.models[c][k].id
  <1> DEFINE Without(x) == [x EXCEPT !.models[c] = RemoveAt(@, k)]
             n == Len(g.models[c])
             NextCur == IF n = 1 THEN 0 ELSE IF k > 1 THEN k - 1 ELSE 1
  <1>1. /\ g.models[c] \in Seq(RowsTo(b)) /\ n \in Nat /\ k \in 1..n
        /\ DOMAIN g.models[c] = 1..n
        /\ g.cur \in Nat /\ g.cur <= Len(g.models[g.view])
    BY Parts
  \* The same for the record before and after a submit.
  <1>2. ASSUME NEW x \in Guis(b), x.view = g.view, x.models[c] \in Seq(RowsTo(b)),
               SameTasks(x.models[c], g.models[c]),
               \A d \in Categories : d # c => x.models[d] = g.models[d],
               NEW j \in Nat, j <= IF c = g.view THEN n - 1 ELSE Len(g.models[g.view]),
               h = [Without(x) EXCEPT !.cur = j]
        PROVE  /\ h \in Guis(b) /\ h.view = g.view
               /\ \A d \in Categories : g.models[d] # NotLoaded => h.models[d] # NotLoaded
               /\ c = Downloading =>
                    \A i \in DOMAIN h.models[c] : h.models[c][i].id # g.models[c][k].id
    <2> DEFINE old == x.models[c]
               rows == RemoveAt(old, k)
               y == Record([x.models EXCEPT ![c] = rows], x.view, j, x.queue)
    <2>1. k \in DOMAIN old /\ Len(old) = n /\ old[k].id = g.models[c][k].id
      BY <1>1, <1>2 DEF SameTasks
    <2>2. c = Downloading => Unique(old)
      BY Parts
    <2>3. /\ rows \in Seq(RowsTo(b)) /\ Len(rows) = n - 1
          /\ c = Downloading => /\ Unique(rows)
                                /\ \A i \in DOMAIN rows : rows[i].id # old[k].id
          /\ Homed(c, old) => Homed(c, rows)
      <3>1. old \in Seq(RowsTo(b))
        BY <1>2
      <3> HIDE DEF old
      <3>2. /\ rows \in Seq(RowsTo(b)) /\ Len(rows) = n - 1
            /\ c = Downloading => /\ Unique(rows)
                                  /\ \A i \in DOMAIN rows : rows[i].id # old[k].id
            /\ \A i \in DOMAIN rows : \E m \in DOMAIN old : rows[i] = old[m]
        BY <2>1, <2>2, <3>1, RemovedRow
      <3> HIDE DEF rows
      <3>3. Homed(c, old) => Homed(c, rows)
        BY <3>2 DEF Homed
      <3> QED
        BY <3>2, <3>3
    <2>4. h = y
      <3>1. x = [models |-> x.models, view |-> x.view, cur |-> x.cur, queue |-> x.queue]
        BY Parts DEF Record
      <3>2. Without(x) = [x EXCEPT !.models[c] = rows]
        BY <3>1
      <3> HIDE DEF rows
      <3> QED
        BY <1>2, <3>1, <3>2 DEF Record
    <2> HIDE DEF rows
    <2>5. y \in Guis(b)
      <3>1. x.queue \in Seq(WritesTo(b))
        BY Parts
      <3>2. j <= IF c = x.view THEN Len(rows) ELSE Len(x.models[x.view])
        BY <1>2, <2>3, Parts
      <3>3. Homed(c, old)
        BY <1>2, ListIsLoaded, Parts
      <3> HIDE DEF old
      <3> QED
        BY <1>2, <2>3, <3>1, <3>2, <3>3, Changed
    <2>6. /\ y.view = g.view /\ y.models[c] = rows
          /\ \A d \in Categories : d # c => y.models[d] = g.models[d]
      BY <1>2, Parts DEF Record
    <2>7. rows # NotLoaded
      BY <2>3, ListIsLoaded
    <2> HIDE DEF y, old
    <2> QED
      BY <2>1, <2>3, <2>4, <2>5, <2>6, <2>7
  <1>3. CASE c = g.view /\ k = g.cur
    <2>1. PICK x \in Submits(g, c) : h = [Without(x) EXCEPT !.cur = NextCur]
      BY <1>3 DEF Removes
    <2>2. /\ x \in Guis(b) /\ x.view = g.view /\ x.models[c] \in Seq(RowsTo(b))
          /\ SameTasks(x.models[c], g.models[c])
          /\ \A d \in Categories : d # c => x.models[d] = g.models[d]
      BY SubmitsKept
    <2>3. NextCur \in Nat /\ NextCur <= n - 1
      <3> HIDE DEF n
      <3> QED
        BY <1>1
    <2> HIDE DEF NextCur, n, Without
    <2> QED
      BY <1>2, <1>3, <2>1, <2>2, <2>3
  <1>4. CASE ~(c = g.view /\ k = g.cur)
    <2> DEFINE j == IF c = g.view /\ g.cur > k THEN g.cur - 1 ELSE g.cur
    <2>1. h = [Without(g) EXCEPT !.cur = j]
      <3>1. h = [Without(g) EXCEPT !.cur = IF c = g.view /\ @ > k THEN @ - 1 ELSE @]
        BY <1>4 DEF Removes
      <3>2. g = [models |-> g.models, view |-> g.view, cur |-> g.cur, queue |-> g.queue]
        BY Parts DEF Record
      <3>3. Without(g).cur = g.cur
        BY <3>2
      <3> HIDE DEF Without
      <3> QED
        BY <3>1, <3>3
    <2>2. SameTasks(g.models[c], g.models[c])
      BY DEF SameTasks
    <2>3. j \in Nat /\ j <= IF c = g.view THEN n - 1 ELSE Len(g.models[g.view])
      <3>1. c = g.view => g.cur <= n
        BY <1>1
      <3> HIDE DEF n
      <3> QED
        BY <1>1, <1>4, <3>1
    <2> HIDE DEF j, n, Without
    <2> QED
      BY <1>1, <1>2, <2>1, <2>2, <2>3
  <1> QED
    BY <1>3, <1>4

LEMMA DeletedIsOther == Deleted # Downloading
  <1> SUFFICES ASSUME Deleted = Downloading PROVE FALSE
    OBVIOUS
  <1>1. Cardinality({Downloaded}) = 1 /\ IsFiniteSet({Downloaded})
    BY FS_Singleton
  <1>2. Cardinality({Downloaded} \cup {Downloading}) <= 2
    BY <1>1, FS_AddElement
  <1>3. {Downloading, Downloaded, Deleted} = {Downloaded} \cup {Downloading}
    OBVIOUS
  <1> QED
    BY <1>2, <1>3, StoreAssumption

LEMMA MovesKept ==
    ASSUME NEW b, TableTo(b), NEW g \in Guis(b), NEW src \in Categories, NEW dest \in Categories,
           dest = Downloading => src = Downloading,
           g.models[src] # NotLoaded, NEW k \in DOMAIN g.models[src],
           NEW h \in Moves(g, src, dest, k)
    PROVE  /\ h \in Guis(b) /\ h.view = g.view
           /\ h.models[dest] \in Seq(RowsTo(b)) /\ 1 \in DOMAIN h.models[dest]
           /\ h.models[dest][1].id = g.models[src][k].id
  <1> DEFINE g0 == Instance(g, src)
             g1 == Instance(g0, dest)
             r == Moved(g1.models[src], k, dest)
  <1>1. g0 \in Guis(b) /\ g0.models[src] = g.models[src] /\ g0.view = g.view
    BY InstanceKept
  <1>2. /\ g1 \in Guis(b) /\ g1.models[src] = g.models[src] /\ g1.view = g.view
        /\ g1.models[dest] \in Seq(RowsTo(b))
    <2> HIDE DEF g0
    <2> QED
      BY <1>1, InstanceKept
  <1>3. PICK x \in Removes(g1, src, k) : h \in Submits(Prepend(x, dest, r), dest)
    BY DEF Moves
  <1>4. r \in RowsTo(b) /\ r.id = g1.models[src][k].id /\ r.sys = dest
    <2>1. g1.models[src] \in Seq(RowsTo(b)) /\ k \in DOMAIN g1.models[src]
      BY <1>2, Parts
    <2>2. g1.models[src][k] \in RowsTo(b)
      BY <2>1
    <2> HIDE DEF g1
    <2> QED
      BY <2>2 DEF Moved, Rows, RowsTo
  <1> HIDE DEF g1, r
  <1>5. /\ x \in Guis(b) /\ x.models[dest] # NotLoaded /\ x.view = g.view
        /\ src = Downloading =>
             \A i \in DOMAIN x.models[src] : x.models[src][i].id # r.id
    BY <1>2, <1>4, RemovesKept, ListIsLoaded
  <1> DEFINE y == Prepend(x, dest, r)
             old == y.models[dest]
  <1>6. /\ y \in Guis(b) /\ y.view = g.view /\ old \in Seq(RowsTo(b))
        /\ Len(old) = Len(x.models[dest]) + 1 /\ old[1] = r
    BY <1>4, <1>5, PrependKept
  <1>7. 1 \in DOMAIN old
    <2>1. Len(x.models[dest]) \in Nat
      BY <1>5, Parts
    <2> HIDE DEF old
    <2> QED
      BY <1>6, <2>1
  <1> HIDE DEF y
  <1>8. /\ h \in Guis(b) /\ h.view = y.view /\ h.models[dest] \in Seq(RowsTo(b))
        /\ SameTasks(h.models[dest], old)
    BY <1>3, <1>6, SubmitsKept, ListIsLoaded DEF y
  <1> HIDE DEF old
  <1>9. 1 \in DOMAIN h.models[dest] /\ h.models[dest][1].id = old[1].id
    BY <1>6, <1>7, <1>8 DEF SameTasks
  <1> QED
    BY <1>2, <1>4, <1>6, <1>8, <1>9

\* The category chosen is shown without a current row; the model left is submitted
\* and dropped, or stays.
Chosen(b, g, c, h) ==
    \E g1 \in Guis(b) :
        /\ g1 = Record(Instance(g, c).models, c, 0, Instance(g, c).queue)
        /\ g1.models[g.view] # NotLoaded
        /\ \/ h = g1
           \/ /\ g.view \notin {Downloading, Deleted}
              /\ \E x \in Submits(g1, g.view) :
                   h = Record([x.models EXCEPT ![g.view] = NotLoaded], c, 0, x.queue)

LEMMA ShowsForm ==
    ASSUME NEW b, TableTo(b), NEW g \in Guis(b), NEW c \in Categories, c # g.view,
           NEW h \in Shows(g, c)
    PROVE  Chosen(b, g, c, h)
  <1> DEFINE g0 == Instance(g, c)
             g1 == [g0 EXCEPT !.view = c, !.cur = 0]
  <1>1. /\ g0 \in Guis(b) /\ g0.models[c] \in Seq(RowsTo(b))
        /\ g0.models[g.view] # NotLoaded
    BY InstanceKept, Parts
  <1>2. g1 = Record(g0.models, c, 0, g0.queue)
    <2> HIDE DEF g0
    <2>1. PICK m, v, k, q : g0 = [models |-> m, view |-> v, cur |-> k, queue |-> q]
      BY <1>1, Parts DEF Record
    <2>2. g0.models = m /\ g0.queue = q
      BY <2>1
    <2>3. g1 = [[models |-> m, view |-> v, cur |-> k, queue |-> q] EXCEPT !.view = c, !.cur = 0]
      BY <2>1
    <2> HIDE DEF g1
    <2>4. g1 = [models |-> m, view |-> c, cur |-> 0, queue |-> q]
      BY <2>3
    <2> QED
      BY <2>2, <2>4 DEF Record
  <1> HIDE DEF g0
  <1>3. Record(g0.models, c, 0, g0.queue) \in Guis(b)
    <2>1. g0.models[c] # NotLoaded
      BY <1>1, ListIsLoaded
    <2>2. Len(g0.models[c]) \in Nat
      BY <1>1
    <2> QED
      BY <1>1, <2>1, <2>2, Parts DEF Guis, Record
  <1>4. g1 \in Guis(b) /\ g1.models[g.view] # NotLoaded /\ g1.models = g0.models
        /\ g1.view = c /\ g1.cur = 0
    BY <1>1, <1>2, <1>3 DEF Record
  <1>5. CASE h = g1
    BY <1>2, <1>4, <1>5 DEF Chosen, g0
  <1>6. CASE h # g1
    <2>1. /\ g.view \notin {Downloading, Deleted}
          /\ \E x \in Submits(g1, g.view) : h = [x EXCEPT !.models[g.view] = NotLoaded]
      BY <1>6 DEF Shows, g0
    <2>2. PICK x \in Submits(g1, g.view) : h = [x EXCEPT !.models[g.view] = NotLoaded]
      BY <2>1
    <2> HIDE DEF g1
    <2>3. g.view \in Categories
      BY Parts
    <2>4. x \in Guis(b) /\ x.view = c /\ x.cur = 0
      BY <1>4, <2>3, SubmitsKept
    <2>5. x = [models |-> x.models, view |-> x.view, cur |-> x.cur, queue |-> x.queue]
      BY <2>4, Parts DEF Record
    <2>6. h = [models |-> [x.models EXCEPT ![g.view] = NotLoaded],
               view |-> c, cur |-> 0, queue |-> x.queue]
      BY <2>2, <2>4, <2>5
    <2>7. h = Record([x.models EXCEPT ![g.view] = NotLoaded], c, 0, x.queue)
      BY <2>6 DEF Record
    <2> QED
      BY <1>2, <1>4, <2>1, <2>7 DEF Chosen, g0
  <1> QED
    BY <1>5, <1>6

LEMMA ShowsKept ==
    ASSUME NEW b, TableTo(b), NEW g \in Guis(b), NEW c \in Categories, NEW h \in Shows(g, c)
    PROVE  h \in Guis(b)
  <1>1. CASE c = g.view
    BY <1>1 DEF Shows
  <1>2. CASE c # g.view
    <2>1. Chosen(b, g, c, h)
      BY <1>2, ShowsForm
    <2>2. PICK g1 \in Guis(b) :
            /\ g1 = Record(Instance(g, c).models, c, 0, Instance(g, c).queue)
            /\ g1.models[g.view] # NotLoaded
            /\ \/ h = g1
               \/ /\ g.view \notin {Downloading, Deleted}
                  /\ \E x \in Submits(g1, g.view) :
                       h = Record([x.models EXCEPT ![g.view] = NotLoaded], c, 0, x.queue)
      BY <2>1 DEF Chosen
    <2>3. CASE h # g1
      <3>1. PICK x \in Submits(g1, g.view) :
              h = Record([x.models EXCEPT ![g.view] = NotLoaded], c, 0, x.queue)
        BY <2>2, <2>3
      <3>2. g.view \in Categories /\ g1.view = c /\ g.view \notin {Downloading, Deleted}
        BY <2>2, <2>3, Parts DEF Record
      <3>3. x \in Guis(b) /\ x.view = c
        BY <2>2, <3>2, SubmitsKept
      <3> DEFINE m == [x.models EXCEPT ![g.view] = NotLoaded]
      <3>4. /\ m \in [Categories -> Seq(RowsTo(b)) \cup {NotLoaded}]
            /\ m[Downloading] = x.models[Downloading] /\ m[c] = x.models[c]
        BY <1>2, <3>2, <3>3, Parts
      <3>5. \A d \in Categories : m[d] # NotLoaded => Homed(d, m[d])
        <4>1. m[g.view] = NotLoaded /\ \A d \in Categories : d # g.view => m[d] = x.models[d]
          BY <3>2, <3>3, Parts
        <4> HIDE DEF m
        <4> QED
          BY <3>3, <4>1, Parts
      <3> HIDE DEF m
      <3>6. /\ x.models[Downloading] # NotLoaded /\ Unique(x.models[Downloading])
            /\ x.models[c] # NotLoaded /\ x.queue \in Seq(WritesTo(b))
            /\ x.models[c] \in Seq(RowsTo(b))
        BY <3>3, Parts
      <3>7. 0 <= Len(x.models[c])
        BY <3>6
      <3>8. h = [models |-> m, view |-> c, cur |-> 0, queue |-> x.queue]
        BY <3>1 DEF Record, m
      <3> QED
        BY <3>4, <3>5, <3>6, <3>7, <3>8 DEF Guis
    <2> QED
      BY <2>2, <2>3
  <1> QED
    BY <1>1, <1>2

LEMMA AddTaskModelKept ==
    ASSUME NEW b, NEW g \in Guis(b), NEW t \in Ids, t <= b, NEW user \in Categories
    PROVE  AddTaskModel(g, t, user) \in Guis(b)
  <1> DEFINE r == [id |-> t, sys |-> Downloading, user |-> user,
                   status |-> "ready", dirty |-> TRUE]
             rows == g.models[Downloading]
  <1>1. CASE Find(rows, t) # 0
    BY <1>1 DEF AddTaskModel
  <1>2. CASE Find(rows, t) = 0
    <2>1. r \in RowsTo(b) /\ r.id = t /\ r.sys = Downloading
      BY StoreAssumption DEF Rows, RowsTo, Statuses
    <2>2. rows \in Seq(RowsTo(b)) /\ rows # NotLoaded
      BY Parts
    <2>3. \A i \in DOMAIN rows : rows[i].id # t
      <3>1. 0 \notin DOMAIN rows
        BY <2>2
      <3> HIDE DEF rows
      <3> QED
        BY <1>2, <2>2, <3>1, FindRow
    <2>4. AddTaskModel(g, t, user) = Prepend(g, Downloading, r)
      BY <1>2 DEF AddTaskModel
    <2> HIDE DEF r
    <2> QED
      BY <2>1, <2>2, <2>3, <2>4, PrependKept, StoreAssumption
  <1> QED
    BY <1>1, <1>2

-----------------------------------------------------------------------------
(* The invariant is kept *)

LEMMA InitKept == Init => IInv
  <1> SUFFICES ASSUME Init PROVE IInv
    OBVIOUS
  <1>1. Flags
    BY StoreAssumption DEF Init, Flags, NoMessage
  <1>2. TableTo(Allocated)
    BY DEF Init, TableTo
  <1>3. Gui \in Guis(Allocated)
    <2> DEFINE b == Allocated
    <2>1. <<>> \in Seq(RowsTo(b)) /\ <<>> \in Seq(WritesTo(b)) /\ Len(<<>>) = 0
      OBVIOUS
    <2> HIDE DEF b
    <2>2. <<>> # NotLoaded
      BY <2>1, ListIsLoaded
    <2>3. Unique(<<>>)
      BY DEF Unique
    <2>4. /\ models \in [Categories -> Seq(RowsTo(b)) \cup {NotLoaded}]
          /\ models[Downloading] = <<>> /\ view = Downloading /\ cur = 0 /\ queue = <<>>
      BY <2>1, StoreAssumption DEF Init
    <2>5. \A c \in Categories : models[c] # NotLoaded => Homed(c, models[c])
      BY DEF Init, Homed
    <2> QED
      BY <2>1, <2>2, <2>3, <2>4, <2>5, StoreAssumption DEF Guis, Gui, b
  <1> QED
    BY <1>1, <1>2, <1>3 DEF IInv

\* What is said of the tasks up to a is said of the tasks up to b.
LEMMA Further ==
    ASSUME NEW a \in Int, NEW b \in Int, a <= b
    PROVE  /\ TableTo(a) => TableTo(b)
           /\ Guis(a) \subseteq Guis(b)
  <1>1. RowsTo(a) \subseteq RowsTo(b) /\ WritesTo(a) \subseteq WritesTo(b)
    BY DEF RowsTo, WritesTo, Rows, Writes, Ids
  <1>2. Seq(RowsTo(a)) \subseteq Seq(RowsTo(b)) /\ Seq(WritesTo(a)) \subseteq Seq(WritesTo(b))
    BY <1>1, SeqMonotonic
  <1>3. TableTo(a) => TableTo(b)
    BY DEF TableTo, Ids
  <1>4. Guis(a) \subseteq Guis(b)
    BY <1>2 DEF Guis
  <1> QED
    BY <1>3, <1>4

LEMMA Flagged ==
    ASSUME IInv
    PROVE  /\ seq \in 0..MaxId /\ MaxId \in Nat /\ Allocated \in Int /\ Allocated <= seq
           /\ phase = "idle" => Allocated = seq
           /\ TableTo(Allocated) /\ TableTo(seq)
           /\ Gui \in Guis(Allocated) /\ Gui \in Guis(seq)
  <1>1. /\ seq \in 0..MaxId /\ MaxId \in Nat /\ Allocated \in Int /\ Allocated <= seq
        /\ phase = "idle" => Allocated = seq
    BY StoreAssumption DEF IInv, Flags, Allocated
  <1> QED
    BY <1>1, Further DEF IInv

\* Handlers that touch the window and the queue only.
LEMMA HandlerKept ==
    ASSUME IInv, Idle, UNCHANGED <<file, lastId, phase>>,
           Gui' \in Guis(seq),
           running' \subseteq Ids, purged' \subseteq Ids, restarts' = restarts,
           late' \subseteq Ids, strayed' \subseteq Ids,
           message' \in [text : {"none", "trash", "permanent"}, id : 0..MaxId],
           fault' \in {"none", "rowOutOfRange"}
    PROVE  IInv'
  <1>1. phase = "idle" /\ phase' = "idle" /\ Allocated = seq /\ Allocated' = seq
    BY DEF Idle, Allocated, file
  <1>2. Flags'
    BY <1>1 DEF IInv, Flags, file
  <1>3. TableTo(Allocated)'
    <2>1. TableTo(seq)
      BY Flagged
    <2> QED
      BY <1>1, <2>1 DEF TableTo, file
  <1>4. Gui' \in Guis(Allocated')
    BY <1>1
  <1>5. (Gui \in Guis(Allocated))'
    BY <1>4 DEF Guis, RowsTo, WritesTo
  <1> QED
    BY <1>2, <1>3, <1>5 DEF IInv

\* The tasks with a write waiting, and those a handler adds to its history.
LEMMA WaitingTasks ==
    ASSUME IInv
    PROVE  /\ \A k \in DOMAIN queue : queue[k].id \in Ids
           /\ late \subseteq Ids /\ strayed \subseteq Ids
           /\ AskingIdle => late' \subseteq Ids
  <1>1. queue \in Seq(WritesTo(seq))
    <2>1. Gui \in Guis(seq)
      BY Flagged
    <2> QED
      BY <2>1, Parts DEF Gui
  <1>2. \A k \in DOMAIN queue : queue[k].id \in Ids
    <2>1. \A k \in DOMAIN queue : queue[k] \in WritesTo(seq)
      BY <1>1
    <2> QED
      BY <2>1 DEF WritesTo, Writes
  <1>3. late \subseteq Ids /\ strayed \subseteq Ids
    BY DEF IInv, Flags
  <1> QED
    BY <1>2, <1>3 DEF AskingIdle

LEMMA BecomeGui ==
    ASSUME NEW b, NEW g \in Guis(b), Become(g)
    PROVE  Gui' \in Guis(b)
  <1>1. g = [models |-> g.models, view |-> g.view, cur |-> g.cur, queue |-> g.queue]
    BY Parts DEF Record
  <1>2. Gui' = [models |-> g.models, view |-> g.view, cur |-> g.cur, queue |-> g.queue]
    BY DEF Become, Gui
  <1> QED
    BY <1>1, <1>2

\* The rows of a loaded model, and the current row, in a state of the invariant.
LEMMA LoadedModel ==
    ASSUME IInv
    PROVE  /\ \A c \in Categories : models[c] # NotLoaded => models[c] \in Seq(RowsTo(seq))
           /\ models[Downloading] # NotLoaded /\ Unique(models[Downloading])
           /\ view \in Categories /\ models[view] # NotLoaded
           /\ cur \in Nat /\ cur <= Len(models[view])
           /\ cur # 0 => /\ cur \in DOMAIN models[view]
                         /\ models[view][cur] \in RowsTo(seq)
  <1>1. Gui \in Guis(seq)
    BY Flagged
  <1>2. /\ \A c \in Categories : models[c] # NotLoaded => models[c] \in Seq(RowsTo(seq))
        /\ models[Downloading] # NotLoaded /\ Unique(models[Downloading])
        /\ view \in Categories /\ models[view] # NotLoaded
        /\ cur \in Nat /\ cur <= Len(models[view])
    BY <1>1, Parts DEF Gui
  <1>3. models[view] \in Seq(RowsTo(seq))
    BY <1>2
  <1>4. cur # 0 => cur \in DOMAIN models[view]
    BY <1>2, <1>3
  <1> QED
    BY <1>2, <1>3, <1>4

LEMMA RowFields ==
    ASSUME IInv, NEW r \in RowsTo(seq)
    PROVE  r.id \in Ids /\ r.id <= seq /\ r.sys \in Categories /\ r.user \in Categories
           /\ r.id \in 0..MaxId
  BY StoreAssumption DEF RowsTo, Rows, Ids

LEMMA SelectKept ==
    ASSUME IInv, (\E c \in Views : SelectCategory(c)) \/ (\E i \in DOMAIN models[view] : SelectRow(i))
    PROVE  IInv'
  <1>1. TableTo(seq) /\ Gui \in Guis(seq)
    BY Flagged
  <1>2. NoMessage \in [text : {"none", "trash", "permanent"}, id : 0..MaxId]
    BY StoreAssumption DEF NoMessage
  <1>3. /\ running \subseteq Ids /\ purged \subseteq Ids /\ fault \in {"none", "rowOutOfRange"}
    BY DEF IInv, Flags
  <1>4. Gui' \in Guis(seq)
    <2>1. ASSUME NEW c \in Views, SelectCategory(c)
          PROVE  Gui' \in Guis(seq)
      <3>1. PICK g \in Shows(Gui, c) : Become(g)
        BY <2>1 DEF SelectCategory
      <3>2. g \in Guis(seq)
        BY <1>1, ShowsKept, StoreAssumption
      <3> QED
        BY <3>1, <3>2, BecomeGui
    <2>2. ASSUME NEW i \in DOMAIN models[view], SelectRow(i)
          PROVE  Gui' \in Guis(seq)
      <3> DEFINE g0 == [Gui EXCEPT !.cur = i]
      <3>1. PICK g \in Submits(g0, view) : Become(g)
        BY <2>2 DEF SelectRow
      <3>2. g0 = Record(models, view, i, queue)
        BY DEF Gui, Record
      <3>3. i \in Nat /\ i <= Len(models[view])
        BY LoadedModel
      <3>4. g0 \in Guis(seq) /\ g0.models = models
        BY <1>1, <3>2, <3>3 DEF Guis, Record, Gui
      <3> HIDE DEF g0
      <3>5. g \in Guis(seq)
        BY <3>1, <3>4, LoadedModel, SubmitsKept
      <3> QED
        BY <3>1, <3>5, BecomeGui
    <2> QED
      BY <2>1, <2>2
  <1> QED
    BY <1>2, <1>3, <1>4, WaitingTasks, HandlerKept DEF SelectCategory, SelectRow, AskingIdle

LEMMA StartTaskKept ==
    ASSUME IInv, StartTask
    PROVE  IInv'
  <1>1. Gui \in Guis(seq)
    BY Flagged
  <1> DEFINE r == models[view][cur]
  <1>2. r \in RowsTo(seq)
    BY LoadedModel DEF StartTask
  <1>3. r.id \in Ids /\ r.id <= seq /\ r.user \in Categories
    BY <1>2, RowFields
  <1>4. Become(AddTaskModel(Gui, r.id, r.user)) /\ running' = running \cup {r.id}
    BY DEF StartTask
  <1> HIDE DEF r
  <1>5. Gui' \in Guis(seq)
    BY <1>1, <1>3, <1>4, AddTaskModelKept, BecomeGui
  <1>6. NoMessage \in [text : {"none", "trash", "permanent"}, id : 0..MaxId]
    BY StoreAssumption DEF NoMessage
  <1>7. running' \subseteq Ids /\ purged \subseteq Ids /\ fault \in {"none", "rowOutOfRange"}
    BY <1>3, <1>4 DEF IInv, Flags
  <1>8. late' = late /\ late \subseteq Ids /\ strayed' \subseteq Ids
    <2>1. strayed' = strayed \/ strayed' = strayed \cup {r.id}
      BY DEF StartTask, r
    <2> QED
      BY <1>3, <2>1, WaitingTasks DEF StartTask
  <1> QED
    BY <1>5, <1>6, <1>7, <1>8, HandlerKept DEF StartTask

LEMMA ReportKept ==
    ASSUME IInv, NEW t \in running, Report(t)
    PROVE  IInv'
  <1> DEFINE rows == models[Downloading]
             k == Find(rows, t)
             new == [rows EXCEPT ![k] = [@ EXCEPT !.status = "active", !.dirty = TRUE]]
  <1>1. rows \in Seq(RowsTo(seq)) /\ Downloading \in Categories /\ Unique(rows)
    BY LoadedModel, StoreAssumption
  <1>2. k \in DOMAIN rows
    BY <1>1, FindRow DEF Report
  <1>3. /\ new \in Seq(RowsTo(seq)) /\ Len(new) = Len(rows)
        /\ \A i \in DOMAIN rows : new[i].id = rows[i].id /\ new[i].sys = rows[i].sys
    <2> HIDE DEF k
    <2>1. \A i \in DOMAIN rows : rows[i] \in RowsTo(seq)
      BY <1>1
    <2> DEFINE e == [rows[k] EXCEPT !.status = "active", !.dirty = TRUE]
    <2>2. e \in RowsTo(seq) /\ e.id = rows[k].id /\ e.sys = rows[k].sys
      BY <1>2, <2>1 DEF RowsTo, Rows, Statuses
    <2>3. new = [rows EXCEPT ![k] = e]
      OBVIOUS
    <2> HIDE DEF e, rows
    <2> QED
      BY <1>1, <1>2, <2>2, <2>3
  <1>4. Unique(new) /\ DOMAIN new = DOMAIN rows
    <2>1. DOMAIN new = DOMAIN rows
      OBVIOUS
    <2> HIDE DEF new, rows
    <2> QED
      BY <1>1, <1>3, <2>1 DEF Unique
  <1>5. Gui' = Record([models EXCEPT ![Downloading] = new], view, cur, queue)
    <2>1. models' = [models EXCEPT ![Downloading] = new]
      BY DEF Report
    <2> QED
      BY <2>1 DEF Report, Gui, Record
  <1> HIDE DEF new
  <1>6. Gui' \in Guis(seq)
    <2>1. Gui \in Guis(seq)
      BY Flagged
    <2>2. /\ Gui.models = models /\ Gui.view = view /\ Gui.cur = cur /\ Gui.queue = queue
      BY DEF Gui
    <2>3. cur \in Nat /\ queue \in Seq(WritesTo(seq))
      BY <2>1, <2>2, Parts
    <2>4. cur <= IF Downloading = view THEN Len(new) ELSE Len(models[view])
      BY <1>3, LoadedModel
    <2>5. Homed(Downloading, new)
      <3>1. Homed(Downloading, rows)
        BY <1>1, <2>1, <2>2, ListIsLoaded, Parts
      <3> HIDE DEF rows
      <3> QED
        BY <1>3, <1>4, <3>1 DEF Homed
    <2> QED
      BY <1>1, <1>3, <1>4, <1>5, <2>1, <2>2, <2>3, <2>4, <2>5, Changed
  <1>7. NoMessage \in [text : {"none", "trash", "permanent"}, id : 0..MaxId]
    BY StoreAssumption DEF NoMessage
  <1>8. running \subseteq Ids /\ purged \subseteq Ids /\ fault \in {"none", "rowOutOfRange"}
    BY DEF IInv, Flags
  <1> QED
    BY <1>6, <1>7, <1>8, WaitingTasks, HandlerKept DEF Report, history

LEMMA TaskDoneKept ==
    ASSUME IInv, NEW t \in running, TaskDone(t)
    PROVE  IInv'
  <1> DEFINE rows == models[Downloading]
             k == Find(rows, t)
             dest == rows[k].user
  <1>1. rows \in Seq(RowsTo(seq)) /\ Downloading \in Categories
    BY LoadedModel, StoreAssumption
  <1>2. TableTo(seq) /\ Gui \in Guis(seq) /\ Gui.models = models
    BY Flagged DEF Gui
  <1>3. Gui' \in Guis(seq)
    <2>1. CASE k = 0
      <3>1. Gui' = Gui
        BY <2>1 DEF TaskDone, Gui
      <3> QED
        BY <1>2, <3>1
    <2>2. CASE k # 0
      <3>1. k \in DOMAIN rows
        BY <1>1, <2>2, FindRow
      <3>2. dest \in Categories
        <4>1. rows[k] \in RowsTo(seq)
          BY <1>1, <3>1
        <4> QED
          BY <4>1, RowFields
      <3>3. PICK g \in Moves(Gui, Downloading, dest, k) : \E h \in Shows(g, dest) : Become(h)
        BY <2>2 DEF TaskDone
      <3>4. PICK h \in Shows(g, dest) : Become(h)
        BY <3>3
      <3> HIDE DEF dest, k
      <3>5. g \in Guis(seq)
        BY <1>1, <1>2, <3>1, <3>2, <3>3, LoadedModel, MovesKept
      <3>6. h \in Guis(seq)
        BY <1>2, <3>2, <3>5, ShowsKept
      <3> QED
        BY <3>4, <3>6, BecomeGui
    <2> QED
      BY <2>1, <2>2
  <1>4. NoMessage \in [text : {"none", "trash", "permanent"}, id : 0..MaxId]
    BY StoreAssumption DEF NoMessage
  <1>5. running' \subseteq Ids /\ purged \subseteq Ids /\ fault \in {"none", "rowOutOfRange"}
    BY DEF IInv, Flags, TaskDone
  <1> QED
    BY <1>3, <1>4, <1>5, WaitingTasks, HandlerKept DEF TaskDone, AskingIdle

LEMMA DeletePermanentlyKept ==
    ASSUME IInv, DeletePermanently
    PROVE  IInv'
  <1> DEFINE r == models[view][cur]
             g0 == Instance(Gui, Deleted)
  <1>1. /\ TableTo(seq) /\ Gui \in Guis(seq)
        /\ Gui.models = models /\ Gui.view = view /\ Gui.cur = cur
    BY Flagged DEF Gui
  <1>2. /\ r \in RowsTo(seq) /\ cur \in DOMAIN models[view]
        /\ view \in Categories /\ models[view] # NotLoaded
    BY LoadedModel DEF DeletePermanently
  <1>3. r.id \in Ids /\ r.id \in 0..MaxId
    BY <1>2, RowFields
  <1>4. PICK g \in Removes(g0, view, cur) : Become(g)
    BY DEF DeletePermanently
  <1>5. message' = [text |-> "permanent", id |-> r.id] /\ purged' = purged \cup {r.id}
    BY DEF DeletePermanently
  <1>6. g0 \in Guis(seq) /\ g0.models[view] = models[view]
    <2>1. Gui.models[view] # NotLoaded /\ Deleted \in Categories
      BY <1>1, <1>2, StoreAssumption
    <2>2. g0 \in Guis(seq) /\ g0.models[view] = Gui.models[view]
      BY <1>1, <1>2, <2>1, InstanceKept
    <2> QED
      BY <1>1, <2>2
  <1> HIDE DEF g0, r
  <1>7. Gui' \in Guis(seq)
    BY <1>2, <1>4, <1>6, RemovesKept, BecomeGui
  <1>8. /\ message' \in [text : {"none", "trash", "permanent"}, id : 0..MaxId]
        /\ purged' \subseteq Ids /\ running \subseteq Ids /\ fault \in {"none", "rowOutOfRange"}
    BY <1>3, <1>5 DEF IInv, Flags
  <1> QED
    BY <1>7, <1>8, WaitingTasks, HandlerKept DEF DeletePermanently, AskingIdle

LEMMA MoveToTrashKept ==
    ASSUME IInv, MoveToTrash
    PROVE  IInv'
  <1> DEFINE r == models[view][cur]
             g0 == Instance(Gui, Deleted)
             g == Instance(g0, r.sys)
  <1>1. TableTo(seq) /\ Gui \in Guis(seq)
    BY Flagged
  <1>2. r \in RowsTo(seq) /\ cur \in Nat \ {0}
    BY LoadedModel DEF MoveToTrash
  <1>3. r.id \in 0..MaxId /\ r.sys \in Categories /\ Deleted \in Categories
    BY <1>2, RowFields, StoreAssumption
  <1>4. g0 \in Guis(seq)
    BY <1>1, <1>3, InstanceKept
  <1>5. g \in Guis(seq) /\ g.models[r.sys] \in Seq(RowsTo(seq))
    <2> HIDE DEF g0, r
    <2> QED
      BY <1>1, <1>3, <1>4, InstanceKept
  <1>6. \/ /\ cur <= Len(g.models[r.sys])
           /\ \E h \in Moves(g, r.sys, Deleted, cur) : Become(h)
           /\ message' = [text |-> "trash", id |-> r.id]
           /\ fault' = fault
        \/ /\ fault' = "rowOutOfRange"
           /\ Gui' = Gui /\ message' = message
    BY DEF MoveToTrash, Gui
  <1> HIDE DEF g, r
  <1>7. Gui' \in Guis(seq)
    <2>1. CASE Gui' = Gui
      BY <1>1, <2>1
    <2>2. CASE cur <= Len(g.models[r.sys]) /\ \E h \in Moves(g, r.sys, Deleted, cur) : Become(h)
      <3>1. PICK h \in Moves(g, r.sys, Deleted, cur) : Become(h)
        BY <2>2
      <3>2. cur \in DOMAIN g.models[r.sys] /\ g.models[r.sys] # NotLoaded
        BY <1>2, <1>5, <2>2, ListIsLoaded
      <3>3. h \in Guis(seq)
        BY <1>1, <1>3, <1>5, <3>2, MovesKept, DeletedIsOther
      <3> QED
        BY <3>1, <3>3, BecomeGui
    <2> QED
      BY <1>6, <2>1, <2>2
  <1>8. /\ message' \in [text : {"none", "trash", "permanent"}, id : 0..MaxId]
        /\ fault' \in {"none", "rowOutOfRange"}
        /\ purged \subseteq Ids /\ running \subseteq Ids
    BY <1>3, <1>6 DEF IInv, Flags
  <1> QED
    BY <1>7, <1>8, WaitingTasks, HandlerKept DEF MoveToTrash, AskingIdle

LEMMA NewTaskKept ==
    ASSUME IInv, NewTask
    PROVE  IInv'
  <1>1. /\ phase = "idle" /\ seq < MaxId /\ seq' = seq + 1 /\ lastId' = seq + 1
        /\ phase' = "creating" /\ tasks' = tasks /\ Gui' = Gui /\ queue' = queue
    BY DEF NewTask, NextId, AskingIdle, Idle, Gui
  <1>2. seq \in 0..MaxId /\ MaxId \in Nat /\ TableTo(seq) /\ Gui \in Guis(seq)
    BY Flagged
  <1>3. Allocated' = seq
    BY <1>1, <1>2 DEF Allocated
  <1>4. Flags'
    <2>1. NoMessage \in [text : {"none", "trash", "permanent"}, id : 0..MaxId]
      BY <1>2 DEF NoMessage
    <2>2. seq' \in 0..MaxId /\ lastId' \in 0..seq' /\ lastId' # 0 /\ lastId' = seq'
      BY <1>1, <1>2
    <2>3. late' \subseteq Ids /\ strayed' = strayed /\ \A k \in DOMAIN queue : queue[k].id \in late'
      BY WaitingTasks DEF NewTask, AskingIdle
    <2> QED
      BY <1>1, <2>1, <2>2, <2>3 DEF IInv, Flags, NewTask
  <1>5. ASSUME NEW b, b = Allocated' PROVE TableTo(b)' /\ (Gui \in Guis(b))'
    <2>1. TableTo(b) /\ Gui \in Guis(b)
      BY <1>2, <1>3, <1>5
    <2> QED
      BY <1>1, <2>1 DEF TableTo, Guis, RowsTo, WritesTo
  <1>6. TableTo(Allocated)' /\ (Gui \in Guis(Allocated))'
    BY <1>5 DEF TableTo, Guis, RowsTo, WritesTo
  <1> QED
    BY <1>4, <1>6 DEF IInv

LEMMA CreateTaskKept ==
    ASSUME IInv, CreateTask
    PROVE  IInv'
  <1>1. /\ phase' = "idle" /\ seq' = seq /\ tasks' = tasks /\ lastId' = lastId
        /\ Allocated' = seq
    BY DEF CreateTask, Allocated, file
  <1>2. seq \in 0..MaxId /\ MaxId \in Nat /\ TableTo(seq) /\ Gui \in Guis(seq)
    BY Flagged
  <1>3. lastId \in Ids /\ lastId <= seq
    BY <1>2 DEF CreateTask, IInv, Flags, Ids
  <1>4. PICK user \in UserCats, g \in Shows(Gui, Downloading) :
          Become(AddTaskModel(g, lastId, user))
    BY DEF CreateTask
  <1>5. g \in Guis(seq)
    BY <1>2, ShowsKept, StoreAssumption
  <1>6. Gui' \in Guis(seq)
    BY <1>3, <1>4, <1>5, AddTaskModelKept, BecomeGui, StoreAssumption
  <1>7. Flags'
    <2>1. running' \subseteq Ids
      BY <1>3 DEF CreateTask, IInv, Flags
    <2> QED
      BY <1>1, <2>1 DEF CreateTask, IInv, Flags, history
  <1>8. ASSUME NEW b, b = Allocated' PROVE TableTo(b)' /\ (Gui \in Guis(b))'
    <2>1. TableTo(b) /\ Gui' \in Guis(b)
      BY <1>1, <1>2, <1>6, <1>8
    <2> QED
      BY <1>1, <2>1 DEF TableTo, Guis, RowsTo, WritesTo
  <1>9. TableTo(Allocated)' /\ (Gui \in Guis(Allocated))'
    BY <1>8 DEF TableTo, Guis, RowsTo, WritesTo
  <1> QED
    BY <1>7, <1>9 DEF IInv

LEMMA ExecuteKept ==
    ASSUME IInv, Execute
    PROVE  IInv'
  <1> DEFINE w == Head(queue)
             fails == w.op = "insert" /\ tasks[w.id] # NoRow
             b == Allocated
  <1>1. /\ queue # <<>> /\ seq' = seq /\ phase' = phase /\ queue' = Tail(queue)
        /\ models' = models /\ view' = view /\ cur' = cur /\ Allocated' = b
        /\ tasks' = IF fails THEN tasks ELSE [tasks EXCEPT ![w.id] = w.to]
        /\ lastId' = IF w.op = "insert" /\ ~fails THEN w.id ELSE lastId
    BY DEF Execute, Allocated
  <1>2. /\ seq \in 0..MaxId /\ MaxId \in Nat /\ b \in Int /\ b <= seq
        /\ TableTo(b) /\ Gui \in Guis(b)
    BY Flagged
  <1>3. queue \in Seq(WritesTo(b))
    BY <1>2, Parts DEF Gui
  <1> HIDE DEF b
  <1>4. Tail(queue) \in Seq(WritesTo(b)) /\ w \in WritesTo(b)
    BY <1>1, <1>3
  <1>5. w.id \in Ids /\ w.id <= b /\ w.to \in StoredRows
    <2> HIDE DEF w
    <2> QED
      BY <1>4 DEF WritesTo, Writes
  <1> HIDE DEF w, fails
  <1>6. /\ tasks' \in [Ids -> StoredRows \cup {NoRow}]
        /\ \A t \in Ids : tasks'[t] # NoRow => t <= b
    BY <1>1, <1>2, <1>5 DEF TableTo
  <1>7. Gui' \in Guis(b)
    <2>1. Gui' = Record(models, view, cur, Tail(queue))
      BY <1>1 DEF Gui, Record
    <2>2. Gui = Record(models, view, cur, queue)
      BY DEF Gui, Record
    <2> QED
      BY <1>2, <1>4, <2>1, <2>2 DEF Guis, Record
  <1>8. Flags'
    <2>1. lastId' \in 0..seq /\ (lastId # 0 => lastId' # 0)
      BY <1>1, <1>2, <1>5 DEF IInv, Flags, Ids
    <2>2. late' = late /\ strayed' = strayed /\ purged' = purged /\ restarts' = restarts
      BY DEF Execute, history
    <2>3. ASSUME phase = "creating"
          PROVE  /\ lastId' = seq \/ lastId' \in late
                 /\ \A k \in DOMAIN queue' : queue'[k].id \in late
      <3>1. \A k \in DOMAIN queue : queue[k].id \in late
        BY <2>3 DEF IInv, Flags
      <3>2. w = queue[1] /\ 1 \in DOMAIN queue
        BY <1>1, <1>3 DEF w
      <3>3. \A k \in DOMAIN Tail(queue) :
                k + 1 \in DOMAIN queue /\ Tail(queue)[k] = queue[k + 1]
        BY <1>1, <1>3
      <3> QED
        BY <1>1, <2>3, <3>1, <3>2, <3>3 DEF IInv, Flags
    <2> QED
      BY <1>1, <2>1, <2>2, <2>3 DEF Execute, IInv, Flags
  <1>9. ASSUME NEW c, c = b PROVE TableTo(c)' /\ (Gui \in Guis(c))'
    BY <1>6, <1>7, <1>9 DEF TableTo, Guis, RowsTo, WritesTo
  <1>10. TableTo(Allocated)' /\ (Gui \in Guis(Allocated))'
    BY <1>1, <1>9 DEF TableTo, Guis, RowsTo, WritesTo
  <1> QED
    BY <1>8, <1>10 DEF IInv

\* The process ends, in the middle of creating a task too, and is launched again.
LEMMA RelaunchKept ==
    ASSUME IInv, Relaunch
    PROVE  IInv'
  <1>1. /\ seq' = seq /\ tasks' = tasks /\ phase' = "idle" /\ Allocated' = seq
        /\ queue' = <<>> /\ cur' = 0 /\ view' = Downloading
        /\ models' = [c \in Categories |-> IF c = Downloading THEN Load(c) ELSE NotLoaded]
    BY DEF Relaunch, Allocated, file
  <1>2. seq \in 0..MaxId /\ MaxId \in Nat /\ TableTo(seq)
    BY Flagged
  <1>3. /\ Load(Downloading) \in Seq(RowsTo(seq)) /\ Unique(Load(Downloading))
        /\ Homed(Downloading, Load(Downloading))
    BY <1>2, LoadedRows
  <1>4. Gui' \in Guis(seq)
    <2>1. models'[Downloading] = Load(Downloading) /\ Load(Downloading) # NotLoaded
      BY <1>1, <1>3, ListIsLoaded, StoreAssumption
    <2>2. /\ models' \in [Categories -> Seq(RowsTo(seq)) \cup {NotLoaded}]
          /\ \A c \in Categories : models'[c] # NotLoaded => Homed(c, models'[c])
      BY <1>1, <1>3
    <2>3. Gui' = Record(models', Downloading, 0, <<>>)
      BY <1>1 DEF Gui, Record
    <2>4. Len(Load(Downloading)) \in Nat /\ <<>> \in Seq(WritesTo(seq))
      BY <1>3
    <2> QED
      BY <1>3, <2>1, <2>2, <2>3, <2>4, StoreAssumption DEF Guis, Record
  <1>5. Flags'
    <2>1. NoMessage \in [text : {"none", "trash", "permanent"}, id : 0..MaxId]
      BY <1>2 DEF NoMessage
    <2>2. restarts' \in 0..MaxRestarts
      BY StoreAssumption DEF Relaunch, IInv, Flags
    <2> QED
      BY <1>1, <1>2, <2>1, <2>2 DEF Relaunch, IInv, Flags
  <1>6. ASSUME NEW c, c = seq PROVE TableTo(c)' /\ (Gui \in Guis(c))'
    BY <1>1, <1>2, <1>4, <1>6 DEF TableTo, Guis, RowsTo, WritesTo
  <1>7. TableTo(Allocated)' /\ (Gui \in Guis(Allocated))'
    BY <1>1, <1>6 DEF TableTo, Guis, RowsTo, WritesTo
  <1> QED
    BY <1>5, <1>7 DEF IInv

LEMMA IInvNext ==
    ASSUME IInv, [Next]_vars
    PROVE  IInv'
  <1>1. CASE UNCHANGED vars
    BY <1>1 DEF IInv, Flags, Allocated, TableTo, Gui, Guis, RowsTo, WritesTo, vars, file, history
  <1>2. CASE (\E c \in Views : SelectCategory(c)) \/ (\E i \in DOMAIN models[view] : SelectRow(i))
    BY <1>2, SelectKept
  <1>3. CASE NewTask
    BY <1>3, NewTaskKept
  <1>4. CASE StartTask
    BY <1>4, StartTaskKept
  <1>5. CASE DeletePermanently
    BY <1>5, DeletePermanentlyKept
  <1>6. CASE MoveToTrash
    BY <1>6, MoveToTrashKept
  <1>7. CASE Quit \/ Crash
    BY <1>7, RelaunchKept DEF Quit, Crash
  <1>8. CASE Backend
    BY <1>8, ReportKept, TaskDoneKept DEF Backend
  <1>9. CASE CreateTask
    BY <1>9, CreateTaskKept
  <1>10. CASE Execute
    BY <1>10, ExecuteKept
  <1> QED
    BY <1>1, <1>2, <1>3, <1>4, <1>5, <1>6, <1>7, <1>8, <1>9, <1>10 DEF Next, User

LEMMA IInvAlways == Spec => []IInv
  BY InitKept, IInvNext, PTL DEF Spec

-----------------------------------------------------------------------------
(* Theorems *)

\* Models, table and queue hold rows of their types, and the row the view calls
\* current exists in the model it shows, whatever is moved, dropped or reloaded
\* under it: SqliteTaskModel and the handlers of karia2.cpp.
THEOREM TypeCorrect == Spec => []TypeOK
  <1>1. IInv => TypeOK
    <2> SUFFICES ASSUME IInv PROVE TypeOK
      OBVIOUS
    <2> DEFINE b == Allocated
    <2>1. Gui \in Guis(b) /\ TableTo(b) /\ seq \in 0..MaxId /\ MaxId \in Nat
      BY Flagged
    <2>2. /\ Gui.models = models /\ Gui.view = view /\ Gui.cur = cur /\ Gui.queue = queue
      BY DEF Gui
    <2> HIDE DEF b
    <2>3. Seq(RowsTo(b)) \subseteq Seq(Rows) /\ Seq(WritesTo(b)) \subseteq Seq(Writes)
      <3>1. RowsTo(b) \subseteq Rows /\ WritesTo(b) \subseteq Writes
        BY DEF RowsTo, WritesTo
      <3> QED
        BY <3>1, SeqMonotonic
    <2>4. /\ models \in [Categories -> Seq(Rows) \cup {NotLoaded}]
          /\ queue \in Seq(Writes) /\ view \in Categories /\ models[view] # NotLoaded
      BY <2>1, <2>2, <2>3, Parts
    <2>5. cur \in 0..Len(models[view])
      <3>1. models[view] \in Seq(Rows)
        BY <2>4
      <3>2. Len(models[view]) \in Nat /\ cur \in Nat /\ cur <= Len(models[view])
        BY <2>1, <2>2, <3>1, Parts
      <3> QED
        BY <3>2
    <2>6. tasks \in [Ids -> StoredRows \cup {NoRow}]
      BY <2>1 DEF TableTo
    <2>7. lastId \in 0..MaxId
      BY <2>1 DEF IInv, Flags
    <2> QED
      BY <2>4, <2>5, <2>6, <2>7 DEF TypeOK, IInv, Flags
  <1> QED
    BY <1>1, IInvAlways, PTL

\* The list of downloading tasks never shows a task twice, for any number of
\* tasks, any categories and a database thread however slow: addTaskModel,
\* moveTasks and removeRows.
THEOREM DownloadingOnce == Spec => []DownloadingUnique
  <1>1. IInv => DownloadingUnique
    BY LoadedModel DEF Unique, DownloadingUnique
  <1> QED
    BY <1>1, IInvAlways, PTL

\* However late the database thread, the id getNextValidTaskID reads back is no
\* task's, in the table or in a model, unless the INSERT of a task that waited
\* when createTask began came between its two statements: then it is that task's.
THEOREM NewIdsAreNew == Spec => []NewTaskIsNew
  <1>1. IInv => NewTaskIsNew
    <2> SUFFICES ASSUME IInv, phase = "creating", lastId \notin late
                 PROVE  tasks[lastId] = NoRow /\ Homes(lastId) = {}
      BY DEF NewTaskIsNew
    <2>1. /\ lastId = seq /\ lastId # 0 /\ seq \in 0..MaxId /\ MaxId \in Nat
          /\ Allocated = seq - 1
      BY StoreAssumption DEF IInv, Flags, Allocated
    <2>2. TableTo(seq - 1) /\ Gui \in Guis(seq - 1)
      BY <2>1, Flagged
    <2>3. tasks[lastId] = NoRow
      <3>1. lastId \in Ids /\ ~(lastId <= seq - 1)
        BY <2>1 DEF Ids
      <3> QED
        BY <2>2, <3>1 DEF TableTo
    <2>4. ASSUME NEW c \in Categories, models[c] # NotLoaded, NEW i \in DOMAIN models[c]
          PROVE  models[c][i].id # lastId
      <3>1. models[c] \in Seq(RowsTo(seq - 1))
        BY <2>2, <2>4, Parts DEF Gui
      <3>2. models[c][i] \in RowsTo(seq - 1)
        BY <3>1
      <3>3. models[c][i].id \in Ids /\ models[c][i].id <= seq - 1
        BY <3>2 DEF RowsTo, Rows
      <3> QED
        BY <2>1, <3>3 DEF Ids
    <2>5. Homes(lastId) = {}
      BY <2>4 DEF Homes
    <2> QED
      BY <2>3, <2>5
  <1> QED
    BY <1>1, IInvAlways, PTL

-----------------------------------------------------------------------------
(* What the trash announces *)

\* No task is being announced while another one is created.
Trash ==
    /\ message.text = "trash" /\ Children[view] = {} =>
         models[Deleted] # NotLoaded /\ models[Deleted][1].id = message.id
    /\ fault = "rowOutOfRange" => Children[view] # {}
    /\ phase = "creating" => message = NoMessage

LEMMA TrashAnnounced ==
    ASSUME IInv, Trash, MoveToTrash
    PROVE  Trash'
  <1> DEFINE r == models[view][cur]
             g0 == Instance(Gui, Deleted)
             g == Instance(g0, r.sys)
  <1>1. /\ TableTo(seq) /\ Gui \in Guis(seq)
        /\ Gui.models = models /\ Gui.view = view
    BY Flagged DEF Gui
  <1>2. /\ r \in RowsTo(seq) /\ cur \in Nat \ {0} /\ cur \in DOMAIN models[view]
        /\ cur <= Len(models[view]) /\ view \in Categories /\ models[view] # NotLoaded
    BY LoadedModel DEF MoveToTrash
  <1>3. r.sys \in Categories /\ Deleted \in Categories
    BY <1>2, RowFields, StoreAssumption
  <1>4. Children[view] = {} => r.sys = view
    <2>1. Homed(view, models[view])
      BY <1>1, <1>2, Parts
    <2> QED
      BY <1>2, <2>1 DEF Homed, Listed
  <1>5. /\ g0 \in Guis(seq) /\ g0.view = view
        /\ g0.models[view] = models[view]
    <2>1. Gui.models[view] # NotLoaded
      BY <1>1, <1>2
    <2>2. g0.models[view] = Gui.models[view] /\ g0 \in Guis(seq) /\ g0.view = Gui.view
      BY <1>1, <1>2, <1>3, <2>1, InstanceKept
    <2> QED
      BY <1>1, <2>2
  <1>6. /\ g \in Guis(seq) /\ g.view = view /\ g.models[r.sys] \in Seq(RowsTo(seq))
        /\ g.models[view] = models[view]
    <2> HIDE DEF g0, r
    <2> QED
      BY <1>1, <1>2, <1>3, <1>5, InstanceKept
  <1>7. \/ /\ cur <= Len(g.models[r.sys])
           /\ \E h \in Moves(g, r.sys, Deleted, cur) : Become(h)
           /\ message' = [text |-> "trash", id |-> r.id]
           /\ fault' = "none"
        \/ /\ cur > Len(g.models[r.sys])
           /\ fault' = "rowOutOfRange"
           /\ view' = view /\ models' = models /\ message' = message
    BY DEF MoveToTrash, AskingIdle, Idle
  <1>8. phase' = "idle"
    BY DEF MoveToTrash, AskingIdle, Idle
  <1>9. cur \in Nat /\ Len(g.models[r.sys]) \in Nat
    <2> HIDE DEF g, r
    <2> QED
      BY <1>2, <1>6
  <1> HIDE DEF g, r
  <1>10. CASE cur > Len(g.models[r.sys])
    <2>1. r.sys # view
      BY <1>2, <1>6, <1>9, <1>10
    <2> QED
      BY <1>2, <1>4, <1>7, <1>8, <1>9, <1>10, <2>1 DEF Trash
  <1>11. CASE cur <= Len(g.models[r.sys])
    <2>1. PICK h \in Moves(g, r.sys, Deleted, cur) : Become(h)
      BY <1>7, <1>9, <1>11
    <2>2. cur \in DOMAIN g.models[r.sys] /\ g.models[r.sys] # NotLoaded
      BY <1>2, <1>6, <1>11, ListIsLoaded
    <2>3. /\ h.view = view /\ h.models[Deleted] \in Seq(RowsTo(seq))
          /\ h.models[Deleted][1].id = g.models[r.sys][cur].id
      BY <1>1, <1>3, <1>6, <2>2, MovesKept, DeletedIsOther
    <2>4. r.sys = view => g.models[r.sys][cur].id = r.id
      BY <1>6 DEF r
    <2>5. models' = h.models /\ view' = view
      BY <2>1, <2>3 DEF Become
    <2>6. message'.id = r.id /\ fault' = "none"
      BY <1>7, <1>9, <1>11
    <2>7. models'[Deleted] # NotLoaded
      BY <2>3, <2>5, ListIsLoaded
    <2> QED
      BY <1>4, <1>8, <2>3, <2>4, <2>5, <2>6, <2>7 DEF Trash
  <1> QED
    BY <1>9, <1>10, <1>11

LEMMA TrashNext ==
    ASSUME IInv, Trash, [Next]_vars
    PROVE  Trash'
  <1>1. ASSUME message' = NoMessage, fault' = "none" PROVE Trash'
    BY <1>1 DEF Trash, NoMessage
  <1>2. CASE UNCHANGED vars
    BY <1>2 DEF Trash, vars
  <1>3. CASE (\E c \in Views : SelectCategory(c)) \/ (\E i \in DOMAIN models[view] : SelectRow(i))
    BY <1>1, <1>3 DEF SelectCategory, SelectRow, AskingIdle, Idle
  <1>4. CASE NewTask \/ StartTask
    BY <1>1, <1>4 DEF NewTask, StartTask, AskingIdle, Idle
  <1>5. CASE DeletePermanently
    BY <1>5 DEF DeletePermanently, AskingIdle, Idle, Trash
  <1>6. CASE MoveToTrash
    BY <1>6, TrashAnnounced
  <1>7. CASE Quit \/ Crash
    <2>1. fault = "none"
      BY <1>7 DEF Quit, Crash, Idle
    <2> QED
      BY <1>1, <1>7, <2>1 DEF Quit, Crash, Relaunch
  <1>8. CASE Backend
    BY <1>1, <1>8 DEF Backend, Report, TaskDone, AskingIdle, Idle
  <1>9. CASE CreateTask
    BY <1>1, <1>9 DEF CreateTask, Trash
  <1>10. CASE Execute
    BY <1>10 DEF Execute, Trash
  <1> QED
    BY <1>2, <1>3, <1>4, <1>5, <1>6, <1>7, <1>8, <1>9, <1>10 DEF Next, User

\* In a category that lists no other one's tasks, "Move To Trash Now" names the task
\* that is on top of the trash then, and onDeleteTask takes no row beyond the model's
\* end, with any categories, tasks and database thread.
THEOREM TrashNamesItsTask == Spec => []DeleteMovesShownRow
  <1>1. Init => Trash
    BY DEF Init, Trash, NoMessage
  <1>2. Trash => DeleteMovesShownRow
    BY DEF Trash, DeleteMovesShownRow, DeleteMovesSelected
  <1> QED
    BY <1>1, <1>2, TrashNext, IInvAlways, PTL DEF Spec
=============================================================================
