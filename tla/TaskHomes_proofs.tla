-------------------------- MODULE TaskHomes_proofs --------------------------
(***************************************************************************)
(* Proofs about TaskStore: where a task is, what the table will say of it  *)
(* once the writes on their way are executed, and that a purged task stays *)
(* away.  All of it is about the orderly tasks: whatever is written late   *)
(* or started from other categories stays out of their way.                *)
(***************************************************************************)
EXTENDS TaskStore_proofs

\* The tree of categories: those below another one have none below them, and the
\* trash is below none.
FlatTree ==
    /\ \A c \in Categories : Deleted \notin Children[c]
    /\ \A c \in Categories : \A d \in Children[c] : Children[d] = {}

-----------------------------------------------------------------------------
(* The invariant *)

WritesOf(q, t) == {k \in DOMAIN q : q[k].id = t}
LastWrite(q, t) == CHOOSE k \in WritesOf(q, t) : \A j \in WritesOf(q, t) : j <= k

\* What the table says of a task once the writes are executed.
Due(tab, q, t) == IF WritesOf(q, t) = {} THEN tab[t] ELSE q[LastWrite(q, t)].to

\* Of the tasks in O, no write is waiting.
Quiet(O, q) == \A t \in O : WritesOf(q, t) = {}

\* No INSERT of a task in O fails.
Ordered(O, tab, q) ==
    \A k \in DOMAIN q : q[k].op = "insert" /\ q[k].id \in O =>
        /\ tab[q[k].id] = NoRow
        /\ \A j \in DOMAIN q : j < k => q[j].id # q[k].id

\* A row of the category's own agrees with the row d that is due, if it is clean;
\* if not, at least on the category.
Agrees(d, c, r) ==
    /\ r.dirty => c = Downloading
    /\ ~r.dirty => d # NoRow
    /\ r.sys = c =>
         /\ d # NoRow => d.sys = c
         /\ ~r.dirty => d = Stored(r)

OwnOnce(O, c, rows) ==
    \A i, j \in DOMAIN rows :
        rows[i].id \in O /\ rows[i].sys = c /\ rows[j].sys = c /\ rows[i].id = rows[j].id
            => i = j

Rest(O, tab, q, c, rows) ==
    /\ \A i \in DOMAIN rows :
         rows[i].id \in O => Agrees(Due(tab, q, rows[i].id), c, rows[i])
    /\ OwnOnce(O, c, rows)

\* The current one of the downloading rows was submitted when it became current.
CurrentDue(O, tab, g) ==
    g.view = Downloading /\ g.cur # 0 /\ g.models[Downloading][g.cur].id \in O =>
        Due(tab, g.queue, g.models[Downloading][g.cur].id) # NoRow

\* Purged tasks stay in the table as what they were last, tasks in the trash.
GoneFor(O, tab, gone, g) ==
    \A t \in gone \cap O :
        /\ Due(tab, g.queue, t) # NoRow /\ Due(tab, g.queue, t).sys = Deleted
        /\ g.models[Deleted] # NotLoaded
        /\ \A i \in DOMAIN g.models[Deleted] : g.models[Deleted][i].id # t

Placed(O, tab, gone, g) ==
    /\ Ordered(O, tab, g.queue)
    /\ \A c \in Categories : g.models[c] # NotLoaded => Rest(O, tab, g.queue, c, g.models[c])
    /\ GoneFor(O, tab, gone, g)

Settled(O, tab, gone, g) == Placed(O, tab, gone, g) /\ CurrentDue(O, tab, g)

\* What is settled for some tasks is settled for fewer of them.
LEMMA SettledFewer ==
    ASSUME NEW O, NEW P, P \subseteq O, NEW tab, NEW gone, NEW g, Settled(O, tab, gone, g)
    PROVE  Settled(P, tab, gone, g)
  <1>1. Ordered(P, tab, g.queue)
    BY DEF Settled, Placed, Ordered
  <1>2. ASSUME NEW c, NEW rows, Rest(O, tab, g.queue, c, rows)
        PROVE  Rest(P, tab, g.queue, c, rows)
    BY <1>2 DEF Rest, OwnOnce
  <1>3. CurrentDue(P, tab, g) /\ GoneFor(P, tab, gone, g)
    BY DEF Settled, Placed, CurrentDue, GoneFor
  <1> QED
    BY <1>1, <1>2, <1>3 DEF Settled, Placed

-----------------------------------------------------------------------------
(* Writes *)

LEMMA DescendingOnto ==
    ASSUME NEW n \in Nat, NEW S \in SUBSET (1..n), NEW s \in S
    PROVE  \E k \in 1..Cardinality(S) : Descending(S)[k] = s
  <1> DEFINE c == Cardinality(S)
             q == Descending(S)
  <1>1. /\ c \in Nat /\ q \in [1..c -> S]
        /\ \A i, j \in 1..c : q[i] = q[j] => i = j
    BY DescendingLists
  <1>2. IsFiniteSet(S)
    <2>1. IsFiniteSet(1..n)
      BY FS_Interval
    <2> QED
      BY <2>1, FS_Subset
  <1>3. IsFiniteSet(S \ {s}) /\ Cardinality(S \ {s}) = c - 1
    BY <1>2, FS_RemoveElement
  <1>4. IsFiniteSet(1..c) /\ Cardinality(1..c) = c
    BY <1>1, FS_Interval
  <1> HIDE DEF c, q
  <1>5. ASSUME \A k \in 1..c : q[k] # s PROVE FALSE
    <2> DEFINE D == 1..c
               T == S \ {s}
    <2>1. q \in [D -> T]
      BY <1>1, <1>5
    <2>2. IsFiniteSet(D) /\ IsFiniteSet(T) /\ Cardinality(T) < Cardinality(D)
      BY <1>1, <1>3, <1>4
    <2>3. \E x, y \in D : x # y /\ q[x] = q[y]
      <3> HIDE DEF D, T
      <3> QED
        BY <2>1, <2>2, FS_PigeonHole
    <2> QED
      BY <1>1, <2>3
  <1> QED
    BY <1>5 DEF c, q

LEMMA LastWriteIs ==
    ASSUME NEW b, NEW q \in Seq(WritesTo(b)), NEW t, WritesOf(q, t) # {}
    PROVE  /\ LastWrite(q, t) \in WritesOf(q, t)
           /\ \A j \in WritesOf(q, t) : j <= LastWrite(q, t)
  <1> DEFINE W == WritesOf(q, t)
             n == Len(q)
             S == {n - k : k \in W}
  <1>1. n \in Nat /\ W \subseteq 1..n
    BY DEF WritesOf
  <1> HIDE DEF W, n
  <1>2. S \subseteq Nat /\ S # {}
    BY <1>1 DEF W
  <1>3. PICK m \in S : \A k \in S : m <= k
    <2> HIDE DEF S
    <2> QED
      BY <1>2, LeastOf
  <1>4. PICK k \in W : m = n - k
    BY <1>3
  <1>5. ASSUME NEW j \in W PROVE j <= k
    <2>1. m <= n - j
      BY <1>3
    <2> QED
      BY <1>1, <1>4, <2>1
  <1> QED
    BY <1>4, <1>5 DEF LastWrite, W

LEMMA DueIs ==
    ASSUME NEW b, NEW q \in Seq(WritesTo(b)), NEW tab, NEW t
    PROVE  /\ WritesOf(q, t) = {} => Due(tab, q, t) = tab[t]
           /\ \A k \in WritesOf(q, t) : (\A j \in WritesOf(q, t) : j <= k) =>
                Due(tab, q, t) = q[k].to
  <1>1. ASSUME NEW k \in WritesOf(q, t), \A j \in WritesOf(q, t) : j <= k
        PROVE  Due(tab, q, t) = q[k].to
    <2> DEFINE l == LastWrite(q, t)
    <2>1. l \in WritesOf(q, t) /\ \A j \in WritesOf(q, t) : j <= l
      BY <1>1, LastWriteIs
    <2>2. l \in Nat /\ k \in Nat
      BY <1>1, <2>1 DEF WritesOf
    <2> HIDE DEF l
    <2>3. l = k
      BY <1>1, <2>1, <2>2
    <2> QED
      BY <1>1, <2>3 DEF Due, l
  <1> QED
    BY <1>1 DEF Due

LEMMA DueAppended ==
    ASSUME NEW b, NEW q \in Seq(WritesTo(b)), NEW p \in Seq(WritesTo(b)), NEW tab, NEW t
    PROVE  /\ WritesOf(p, t) = {} => Due(tab, q \o p, t) = Due(tab, q, t)
           /\ \A k \in DOMAIN p : WritesOf(p, t) = {k} => Due(tab, q \o p, t) = p[k].to
  <1> DEFINE s == q \o p
             m == Len(q)
             n == Len(p)
  <1>1. /\ s \in Seq(WritesTo(b)) /\ m \in Nat /\ n \in Nat
        /\ DOMAIN q = 1..m /\ DOMAIN p = 1..n /\ DOMAIN s = 1..(m + n)
        /\ \A i \in 1..(m + n) : s[i] = IF i <= m THEN q[i] ELSE p[i - m]
    BY ConcatProperties
  <1> HIDE DEF s, m, n
  <1>2. \A i \in 1..m : i \in 1..(m + n) /\ s[i] = q[i]
    BY <1>1
  <1>3. \A i \in 1..n : m + i \in 1..(m + n) /\ s[m + i] = p[i]
    <2> SUFFICES ASSUME NEW i \in 1..n PROVE m + i \in 1..(m + n) /\ s[m + i] = p[i]
      OBVIOUS
    <2>1. m + i \in 1..(m + n) /\ ~(m + i <= m) /\ (m + i) - m = i
      BY <1>1
    <2> QED
      BY <1>1, <2>1
  <1>4. \A i \in 1..(m + n) : i \in 1..m \/ (i - m \in 1..n /\ i = m + (i - m))
    BY <1>1
  <1>5. \A k \in WritesOf(s, t) : (\A j \in WritesOf(s, t) : j <= k) =>
          Due(tab, s, t) = s[k].to
    <2>1. s \in Seq(WritesTo(b))
      BY <1>1
    <2> QED
      BY <2>1, DueIs
  <1>6. ASSUME WritesOf(p, t) = {} PROVE Due(tab, s, t) = Due(tab, q, t)
    <2>1. WritesOf(s, t) = WritesOf(q, t)
      <3>1. \A i \in 1..n : p[i].id # t
        BY <1>1, <1>6 DEF WritesOf
      <3>2. ASSUME NEW i \in 1..(m + n), s[i].id = t PROVE i \in 1..m /\ q[i].id = t
        <4>1. i \in 1..m
          <5>1. CASE i - m \in 1..n /\ i = m + (i - m)
            <6>1. s[i] = p[i - m]
              BY <1>3, <5>1
            <6> QED
              BY <3>1, <3>2, <5>1, <6>1
          <5> QED
            BY <1>4, <3>2, <5>1
        <4> QED
          BY <1>2, <3>2, <4>1
      <3>3. \A i \in 1..m : q[i].id = t => i \in 1..(m + n) /\ s[i].id = t
        BY <1>2
      <3> QED
        BY <1>1, <3>2, <3>3 DEF WritesOf
    <2>2. CASE WritesOf(q, t) = {}
      BY <2>1, <2>2 DEF Due
    <2>3. CASE WritesOf(q, t) # {}
      <3> DEFINE l == LastWrite(q, t)
      <3>1. l \in WritesOf(q, t) /\ \A j \in WritesOf(q, t) : j <= l
        BY <2>3, LastWriteIs
      <3>2. Due(tab, q, t) = q[l].to
        BY <2>3 DEF Due
      <3> HIDE DEF l
      <3>3. Due(tab, s, t) = s[l].to
        BY <1>5, <2>1, <3>1
      <3>4. l \in 1..m
        BY <1>1, <3>1 DEF WritesOf
      <3> QED
        BY <1>2, <3>2, <3>3, <3>4
    <2> QED
      BY <2>2, <2>3
  <1>7. ASSUME NEW k \in DOMAIN p, WritesOf(p, t) = {k}
        PROVE  Due(tab, s, t) = p[k].to
    <2>1. k \in 1..n /\ p[k].id = t /\ \A i \in 1..n : p[i].id = t => i = k
      BY <1>1, <1>7 DEF WritesOf
    <2>2. m + k \in WritesOf(s, t)
      BY <1>1, <1>3, <2>1 DEF WritesOf
    <2>3. ASSUME NEW j \in WritesOf(s, t) PROVE j <= m + k
      <3>1. j \in 1..(m + n) /\ s[j].id = t
        BY <1>1, <2>3 DEF WritesOf
      <3>2. CASE j \in 1..m
        BY <1>1, <2>1, <3>2
      <3>3. CASE j - m \in 1..n
        <4>1. s[j] = p[j - m]
          BY <1>1, <1>3, <1>4, <3>1, <3>3
        <4>2. j - m = k
          BY <2>1, <3>1, <3>3, <4>1
        <4> QED
          BY <1>1, <2>1, <3>1, <4>2
      <3> QED
        BY <1>4, <3>1, <3>2, <3>3
    <2>4. Due(tab, s, t) = s[m + k].to
      BY <1>5, <2>2, <2>3
    <2> QED
      BY <1>3, <2>1, <2>4
  <1> QED
    BY <1>6, <1>7 DEF s

LEMMA DirtyListed ==
    ASSUME NEW b, NEW rows \in Seq(RowsTo(b))
    PROVE  \E l \in Nat :
             /\ Dirty(rows) \in [1..l -> {i \in DOMAIN rows : rows[i].dirty}]
             /\ \A j, k \in 1..l : Dirty(rows)[j] = Dirty(rows)[k] => j = k
             /\ \A i \in DOMAIN rows : rows[i].dirty => \E k \in 1..l : Dirty(rows)[k] = i
  <1> DEFINE n == Len(rows)
             S == {i \in DOMAIN rows : rows[i].dirty}
  <1>1. n \in Nat /\ S \in SUBSET (1..n)
    OBVIOUS
  <1>2. Dirty(rows) = Descending(S)
    BY DEF Dirty
  <1>3. \A i \in DOMAIN rows : rows[i].dirty => i \in S
    OBVIOUS
  <1> HIDE DEF n, S
  <1>4. /\ Cardinality(S) \in Nat /\ Dirty(rows) \in [1..Cardinality(S) -> S]
        /\ \A j, k \in 1..Cardinality(S) : Dirty(rows)[j] = Dirty(rows)[k] => j = k
    BY <1>1, <1>2, DescendingLists
  <1>5. \A i \in S : \E k \in 1..Cardinality(S) : Dirty(rows)[k] = i
    BY <1>1, <1>2, DescendingOnto
  <1> QED
    BY <1>3, <1>4, <1>5 DEF S

DirtyOnce(O, rows) ==
    \A i, j \in DOMAIN rows :
        rows[i].id \in O /\ rows[i].dirty /\ rows[j].dirty /\ rows[i].id = rows[j].id
            => i = j
Fresh(O, q, rows) ==
    \A i \in DOMAIN rows :
        rows[i].id \in O /\ rows[i].dirty /\ tasks[rows[i].id] = NoRow =>
            WritesOf(q, rows[i].id) = {}

\* What a submit changes ...
Wrote(O, g, c, h) ==
    LET rows == g.models[c]
    IN  /\ h.models = [g.models EXCEPT ![c] = Cleaned(rows)]
        /\ h.view = g.view /\ h.cur = g.cur
        /\ Ordered(O, tasks, h.queue)
        /\ \A i \in DOMAIN rows : rows[i].dirty /\ rows[i].id \in O =>
             Due(tasks, h.queue, rows[i].id) = Stored(rows[i])
        /\ \A t : (\A i \in DOMAIN rows : rows[i].dirty => rows[i].id # t) =>
             /\ Due(tasks, h.queue, t) = Due(tasks, g.queue, t)
             /\ WritesOf(g.queue, t) = {} => WritesOf(h.queue, t) = {}

\* ... if no task in O has two dirty rows and none of those that are not in the
\* table is on its way there.
LEMMA SubmitEffect ==
    ASSUME NEW b, NEW g \in Guis(b), NEW c \in Categories, g.models[c] # NotLoaded,
           NEW h \in Submits(g, c), NEW O, Ordered(O, tasks, g.queue),
           DirtyOnce(O, g.models[c]), Fresh(O, g.queue, g.models[c])
    PROVE  Wrote(O, g, c, h)
  <1> DEFINE rows == g.models[c]
  <1>1. PICK contains :
          /\ h = Record([g.models EXCEPT ![c] = Cleaned(rows)], g.view, g.cur,
                        g.queue \o Posted(rows, contains))
          /\ Posted(rows, contains) \in Seq(WritesTo(b))
          /\ \A i \in DOMAIN rows : Answered(g, c, contains, i)
    BY SubmitsForm
  <1> DEFINE q == g.queue
             p == Posted(rows, contains)
             order == Dirty(rows)
  <1>2. rows \in Seq(RowsTo(b)) /\ q \in Seq(WritesTo(b)) /\ p \in Seq(WritesTo(b))
    BY <1>1, Parts
  <1>3. PICK l \in Nat :
          /\ order \in [1..l -> {i \in DOMAIN rows : rows[i].dirty}]
          /\ \A j, k \in 1..l : order[j] = order[k] => j = k
          /\ \A i \in DOMAIN rows : rows[i].dirty => \E k \in 1..l : order[k] = i
    <2>1. rows \in Seq(RowsTo(b))
      BY <1>2
    <2>2. \E l \in Nat :
             /\ Dirty(rows) \in [1..l -> {i \in DOMAIN rows : rows[i].dirty}]
             /\ \A j, k \in 1..l : Dirty(rows)[j] = Dirty(rows)[k] => j = k
             /\ \A i \in DOMAIN rows : rows[i].dirty => \E k \in 1..l : Dirty(rows)[k] = i
      BY ONLY <2>1, DirtyListed
    <2> QED
      BY <2>2
  <1> HIDE DEF q
  <1>4. DOMAIN p = 1..l /\ \A k \in 1..l : p[k] = Written(rows, contains, order[k])
    BY <1>3 DEF Posted
  <1> HIDE DEF p, order
  <1>5. \A k \in 1..l : order[k] \in DOMAIN rows /\ rows[order[k]].dirty
    BY <1>3
  <1>6. \A k \in 1..l : /\ p[k].id = rows[order[k]].id /\ p[k].to = Stored(rows[order[k]])
                        /\ p[k].op = IF contains[order[k]] THEN "update" ELSE "insert"
    BY <1>4 DEF Written
  <1>7. \A j, k \in 1..l : p[j].id = p[k].id /\ p[j].id \in O => j = k
    BY <1>3, <1>5, <1>6 DEF DirtyOnce
  <1>8. ASSUME NEW i \in DOMAIN rows, rows[i].dirty, ~contains[i]
        PROVE  tasks[rows[i].id] = NoRow
    <2>1. Answered(g, c, contains, i)
      BY <1>1
    <2>2. contains[i] \in ContainsTask(rows[i].id,
            \/ Pending(q, rows[i].id)
            \/ \E j \in DOMAIN rows : j > i /\ rows[j].dirty /\ rows[j].id = rows[i].id)
      BY <2>1 DEF Answered, q
    <2> QED
      BY <1>8, <2>2 DEF ContainsTask
  <1>9. ASSUME NEW t, \A i \in DOMAIN rows : rows[i].dirty => rows[i].id # t
        PROVE  /\ Due(tasks, q \o p, t) = Due(tasks, q, t)
               /\ WritesOf(p, t) = {}
    <2>1. WritesOf(p, t) = {}
      BY <1>4, <1>5, <1>6, <1>9 DEF WritesOf
    <2> QED
      BY <1>2, <2>1, DueAppended
  <1>10. ASSUME NEW i \in DOMAIN rows, rows[i].dirty, rows[i].id \in O
         PROVE  Due(tasks, q \o p, rows[i].id) = Stored(rows[i])
    <2>1. PICK k \in 1..l : order[k] = i
      BY <1>3, <1>10
    <2>2. WritesOf(p, rows[i].id) = {k}
      BY <1>4, <1>6, <1>7, <1>10, <2>1 DEF WritesOf
    <2>3. Due(tasks, q \o p, rows[i].id) = p[k].to
      BY <1>2, <1>4, <2>2, DueAppended
    <2> QED
      BY <1>6, <2>1, <2>3
  <1> DEFINE s == q \o p
             m == Len(q)
  <1>11. /\ m \in Nat /\ DOMAIN q = 1..m /\ DOMAIN s = 1..(m + l)
         /\ \A i \in 1..m : i \in 1..(m + l) /\ s[i] = q[i]
         /\ \A i \in 1..(m + l) : i \in 1..m \/ (i - m \in 1..l /\ s[i] = p[i - m] /\ ~(i <= m))
    <2>1. Len(p) = l
      BY <1>2, <1>3, <1>4
    <2>2. /\ s \in Seq(WritesTo(b)) /\ m \in Nat /\ Len(s) = m + l /\ DOMAIN q = 1..m
          /\ \A i \in 1..(m + l) : s[i] = IF i <= m THEN q[i] ELSE p[i - m]
      <3>1. /\ s \in Seq(WritesTo(b)) /\ Len(s) = Len(q) + Len(p)
            /\ \A i \in 1..(Len(q) + Len(p)) : s[i] = IF i <= Len(q) THEN q[i] ELSE p[i - Len(q)]
        BY <1>2, ConcatProperties
      <3>2. Len(q) \in Nat /\ DOMAIN q = 1..Len(q)
        BY <1>2
      <3> HIDE DEF s
      <3> QED
        BY <2>1, <3>1, <3>2
    <2> HIDE DEF s, m
    <2> QED
      BY <2>2
  <1> HIDE DEF s, m
  <1>12. Ordered(O, tasks, s)
    <2> SUFFICES ASSUME NEW k \in 1..(m + l), s[k].op = "insert", s[k].id \in O
                 PROVE  /\ tasks[s[k].id] = NoRow
                        /\ \A j \in 1..(m + l) : j < k => s[j].id # s[k].id
      BY <1>11 DEF Ordered
    <2>1. CASE k \in 1..m
      <3>1. \A j \in 1..(m + l) : j < k => j \in 1..m
        BY <1>11, <2>1
      <3>2. Ordered(O, tasks, q)
        BY DEF q
      <3> QED
        BY <1>11, <2>1, <3>1, <3>2 DEF Ordered
    <2>2. CASE k - m \in 1..l /\ s[k] = p[k - m] /\ ~(k <= m)
      <3> DEFINE i == order[k - m]
      <3>1. i \in DOMAIN rows /\ rows[i].dirty /\ s[k].id = rows[i].id /\ ~contains[i]
        BY <1>5, <1>6, <2>2
      <3>2. tasks[s[k].id] = NoRow
        BY <1>8, <3>1
      <3>3. WritesOf(q, s[k].id) = {}
        BY <3>1, <3>2 DEF q, Fresh
      <3>4. ASSUME NEW j \in 1..(m + l), j < k, s[j].id = s[k].id PROVE FALSE
        <4>1. CASE j \in 1..m
          BY <1>11, <3>3, <3>4, <4>1 DEF WritesOf
        <4>2. CASE j - m \in 1..l /\ s[j] = p[j - m]
          <5>1. j - m = k - m
            BY <1>7, <2>2, <3>4, <4>2
          <5> QED
            BY <1>11, <3>4, <5>1
        <4> QED
          BY <1>11, <4>1, <4>2
      <3> QED
        BY <3>2, <3>4
    <2> QED
      BY <1>11, <2>1, <2>2
  <1>13. ASSUME NEW t, WritesOf(q, t) = {}, WritesOf(p, t) = {} PROVE WritesOf(s, t) = {}
    <2>1. ASSUME NEW k \in 1..m PROVE q[k].id # t
      BY <1>11, <1>13, <2>1 DEF WritesOf
    <2>2. ASSUME NEW k \in 1..l PROVE p[k].id # t
      BY <1>4, <1>13, <2>2 DEF WritesOf
    <2>3. ASSUME NEW k \in DOMAIN s PROVE s[k].id # t
      <3>1. CASE k \in 1..m
        BY <1>11, <2>1, <3>1
      <3>2. CASE k - m \in 1..l /\ s[k] = p[k - m]
        BY <2>2, <3>2
      <3> QED
        BY <1>11, <2>3, <3>1, <3>2
    <2> QED
      BY <2>3 DEF WritesOf
  <1>14. /\ h.models = [g.models EXCEPT ![c] = Cleaned(rows)] /\ h.view = g.view
         /\ h.cur = g.cur /\ h.queue = s
    BY <1>1 DEF Record, s, q, p
  <1>15. /\ h.models = [g.models EXCEPT ![c] = Cleaned(rows)] /\ h.view = g.view
         /\ h.cur = g.cur /\ Ordered(O, tasks, h.queue)
    BY <1>12, <1>14
  <1>16. \A i \in DOMAIN rows : rows[i].dirty /\ rows[i].id \in O =>
           Due(tasks, h.queue, rows[i].id) = Stored(rows[i])
    BY <1>10, <1>14 DEF s
  <1>17. ASSUME NEW t, \A i \in DOMAIN rows : rows[i].dirty => rows[i].id # t
         PROVE  /\ Due(tasks, h.queue, t) = Due(tasks, g.queue, t)
                /\ WritesOf(g.queue, t) = {} => WritesOf(h.queue, t) = {}
    <2>1. Due(tasks, h.queue, t) = Due(tasks, g.queue, t)
      BY <1>9, <1>14, <1>17 DEF s, q
    <2>2. WritesOf(g.queue, t) = {} => WritesOf(h.queue, t) = {}
      BY <1>9, <1>13, <1>14, <1>17 DEF s, q
    <2> QED
      BY <2>1, <2>2
  <1> QED
    BY <1>15, <1>16, <1>17, Zenon DEF Wrote

-----------------------------------------------------------------------------
(* submit() *)

LEMMA CleanedRow ==
    ASSUME NEW b, NEW rows \in Seq(RowsTo(b)), NEW i \in DOMAIN rows
    PROVE  /\ DOMAIN Cleaned(rows) = DOMAIN rows
           /\ Cleaned(rows)[i].id = rows[i].id /\ Cleaned(rows)[i].sys = rows[i].sys
           /\ Cleaned(rows)[i].dirty = FALSE
           /\ Stored(Cleaned(rows)[i]) = Stored(rows[i])
           /\ Stored(rows[i]) # NoRow /\ Stored(rows[i]).sys = rows[i].sys
           /\ rows[i].id \in Ids /\ rows[i].dirty \in BOOLEAN
  <1>1. rows[i] \in Rows
    BY DEF RowsTo
  <1>2. Stored(rows[i]) \in StoredRows
    BY <1>1 DEF Stored, Rows, StoredRows
  <1>3. Stored(rows[i]) # NoRow
    BY <1>2, NothingAssumption
  <1>4. Stored(rows[i]).sys = rows[i].sys
    BY DEF Stored
  <1>5. Cleaned(rows)[i] = [rows[i] EXCEPT !.dirty = FALSE] /\ DOMAIN Cleaned(rows) = DOMAIN rows
    BY DEF Cleaned
  <1>6. /\ Cleaned(rows)[i].id = rows[i].id /\ Cleaned(rows)[i].sys = rows[i].sys
        /\ Cleaned(rows)[i].user = rows[i].user /\ Cleaned(rows)[i].status = rows[i].status
        /\ Cleaned(rows)[i].dirty = FALSE
    BY <1>1, <1>5 DEF Rows
  <1>7. rows[i].id \in Ids /\ rows[i].dirty \in BOOLEAN
    BY <1>1 DEF Rows
  <1> QED
    BY <1>3, <1>4, <1>5, <1>6, <1>7 DEF Stored

LEMMA AgreesSame ==
    ASSUME NEW d, NEW c, NEW r, NEW s, NEW e, Agrees(d, c, r), e = d,
           s.sys = r.sys, Stored(s) = Stored(r), s.dirty <=> r.dirty
    PROVE  Agrees(e, c, s)
  BY Zenon DEF Agrees

LEMMA AgreesOther ==
    ASSUME NEW d, NEW c, NEW r, d # NoRow, r.sys # c, r.dirty => c = Downloading
    PROVE  Agrees(d, c, r)
  BY Zenon DEF Agrees

LEMMA AgreesClean ==
    ASSUME NEW d, NEW c, NEW r, d # NoRow, ~r.dirty,
           r.sys = c => d = Stored(r) /\ d.sys = c
    PROVE  Agrees(d, c, r)
  BY Zenon DEF Agrees

LEMMA AgreesGives ==
    ASSUME NEW d, NEW c, NEW r, Agrees(d, c, r)
    PROVE  /\ r.dirty => c = Downloading
           /\ ~r.dirty => d # NoRow
           /\ r.sys = c /\ d # NoRow => d.sys = c
           /\ r.sys = c /\ ~r.dirty => d = Stored(r)
  BY Zenon DEF Agrees

\* What makes a record settled once the model of category c is submitted: dirty
\* rows are the category's own and own in no other, and no clean row is wrong.
Ready(O, gone, g, c) ==
    /\ Ordered(O, tasks, g.queue)
    /\ \A d \in Categories : d # c /\ g.models[d] # NotLoaded =>
         /\ Rest(O, tasks, g.queue, d, g.models[d])
         /\ \A i \in DOMAIN g.models[c], j \in DOMAIN g.models[d] :
              g.models[c][i].id \in O /\ g.models[c][i].dirty /\ g.models[d][j].sys = d =>
                  g.models[d][j].id # g.models[c][i].id
    /\ OwnOnce(O, c, g.models[c])
    /\ \A i \in DOMAIN g.models[c] : g.models[c][i].id \in O =>
         /\ g.models[c][i].dirty =>
              /\ g.models[c][i].sys = c /\ g.models[c][i].id \notin gone
              /\ tasks[g.models[c][i].id] = NoRow =>
                   WritesOf(g.queue, g.models[c][i].id) = {}
         /\ ~g.models[c][i].dirty =>
              Agrees(Due(tasks, g.queue, g.models[c][i].id), c, g.models[c][i])
    /\ g.view = Downloading /\ g.cur # 0 /\ g.models[Downloading][g.cur].id \in O =>
         \/ Due(tasks, g.queue, g.models[Downloading][g.cur].id) # NoRow
         \/ c = Downloading /\ g.models[Downloading][g.cur].dirty
    /\ GoneFor(O, tasks, gone, g)

LEMMA SubmitSettles ==
    ASSUME NEW b, NEW g \in Guis(b), NEW c \in Categories, g.models[c] # NotLoaded,
           NEW O, NEW gone, Ready(O, gone, g, c), NEW h \in Submits(g, c)
    PROVE  /\ Settled(O, tasks, gone, h)
           /\ h.models = [g.models EXCEPT ![c] = Cleaned(g.models[c])]
           /\ h.view = g.view /\ h.cur = g.cur
           /\ \A t : (\A i \in DOMAIN g.models[c] :
                          g.models[c][i].dirty => g.models[c][i].id # t)
                  /\ WritesOf(g.queue, t) = {} => WritesOf(h.queue, t) = {}
  <1> DEFINE rows == g.models[c]
             D(t) == \E i \in DOMAIN rows : rows[i].dirty /\ rows[i].id = t
             New(t) == Due(tasks, h.queue, t)
             Old(t) == Due(tasks, g.queue, t)
  <1>1. rows \in Seq(RowsTo(b)) /\ g.models \in [Categories -> Seq(RowsTo(b)) \cup {NotLoaded}]
    BY Parts
  <1>2. DirtyOnce(O, rows)
    BY DEF Ready, OwnOnce, DirtyOnce
  <1>3. Ordered(O, tasks, g.queue)
    BY DEF Ready
  <1>4. Fresh(O, g.queue, rows)
    BY DEF Ready, Fresh
  <1>5. /\ h.models = [g.models EXCEPT ![c] = Cleaned(rows)]
        /\ h.view = g.view /\ h.cur = g.cur
        /\ Ordered(O, tasks, h.queue)
        /\ \A i \in DOMAIN rows : rows[i].dirty /\ rows[i].id \in O =>
             New(rows[i].id) = Stored(rows[i])
        /\ \A t : (\A i \in DOMAIN rows : rows[i].dirty => rows[i].id # t) =>
             /\ New(t) = Old(t)
             /\ WritesOf(g.queue, t) = {} => WritesOf(h.queue, t) = {}
    <2>1. /\ g \in Guis(b) /\ c \in Categories /\ g.models[c] # NotLoaded
          /\ h \in Submits(g, c)
      OBVIOUS
    <2>2. Wrote(O, g, c, h)
      BY <1>2, <1>3, <1>4, <2>1, SubmitEffect
    <2> QED
      BY <2>2 DEF Wrote
  <1>6. \A t : ~D(t) => New(t) = Old(t)
    BY <1>5
  <1>7. \A i \in DOMAIN rows : rows[i].dirty /\ rows[i].id \in O =>
            New(rows[i].id) # NoRow /\ New(rows[i].id).sys = c
    <2> SUFFICES ASSUME NEW i \in DOMAIN rows, rows[i].dirty, rows[i].id \in O
                 PROVE  New(rows[i].id) # NoRow /\ New(rows[i].id).sys = c
      OBVIOUS
    <2>1. New(rows[i].id) = Stored(rows[i])
      BY <1>5
    <2>2. Stored(rows[i]) # NoRow /\ Stored(rows[i]).sys = rows[i].sys
      BY <1>1, CleanedRow
    <2>3. rows[i].sys = c
      BY DEF Ready
    <2> QED
      BY <2>1, <2>2, <2>3
  <1>8. \A t \in O : D(t) => New(t) # NoRow
    BY <1>7
  <1> HIDE DEF New, Old
  <1>9. h.models[c] = Cleaned(rows) /\ \A d \in Categories : d # c => h.models[d] = g.models[d]
    BY <1>1, <1>5
  <1>10. ASSUME NEW d \in Categories, d # c, g.models[d] # NotLoaded
         PROVE  Rest(O, tasks, h.queue, d, g.models[d])
    <2>1. ASSUME NEW j \in DOMAIN g.models[d], g.models[d][j].id \in O
          PROVE  Agrees(New(g.models[d][j].id), d, g.models[d][j])
      <3> DEFINE r == g.models[d][j]
      <3>1. Agrees(Old(r.id), d, r)
        BY <1>10, <2>1 DEF Ready, Rest, Old
      <3>2. CASE D(r.id)
        <4>1. r.sys # d
          BY <1>10, <2>1, <3>2 DEF Ready
        <4>2. New(r.id) # NoRow
          BY <1>8, <2>1, <3>2
        <4>3. r.dirty => d = Downloading
          BY <3>1, AgreesGives, Zenon
        <4> QED
          BY <4>1, <4>2, <4>3, AgreesOther, Zenon
      <3>3. CASE ~D(r.id)
        <4>1. New(r.id) = Old(r.id)
          BY <1>6, <3>3
        <4> QED
          BY <3>1, <4>1, AgreesSame, Zenon
      <3> QED
        BY <3>2, <3>3
    <2>2. OwnOnce(O, d, g.models[d])
      BY <1>10 DEF Ready, Rest
    <2> QED
      BY <2>1, <2>2 DEF Rest, New
  <1>11. Rest(O, tasks, h.queue, c, Cleaned(rows))
    <2>1. ASSUME NEW i \in DOMAIN rows, rows[i].id \in O
          PROVE  Agrees(New(rows[i].id), c, Cleaned(rows)[i])
      <3> DEFINE r == Cleaned(rows)[i]
      <3>1. /\ r.id = rows[i].id /\ r.sys = rows[i].sys /\ ~r.dirty
            /\ Stored(r) = Stored(rows[i])
        BY <1>1, CleanedRow
      <3> HIDE DEF r
      <3>2. CASE rows[i].dirty
        <4>1. New(rows[i].id) = Stored(r) /\ New(rows[i].id) # NoRow /\ New(rows[i].id).sys = c
          BY <1>5, <1>7, <2>1, <3>1, <3>2 DEF New
        <4> QED
          BY <3>1, <4>1, AgreesClean, Zenon DEF r
      <3>3. CASE ~rows[i].dirty /\ D(rows[i].id)
        <4>1. rows[i].sys # c
          BY <2>1, <3>3 DEF Ready, OwnOnce
        <4>2. New(rows[i].id) # NoRow
          BY <1>8, <2>1, <3>3
        <4> QED
          BY <3>1, <4>1, <4>2, AgreesOther, Zenon DEF r
      <3>4. CASE ~rows[i].dirty /\ ~D(rows[i].id)
        <4>1. Agrees(Old(rows[i].id), c, rows[i])
          BY <2>1, <3>4 DEF Ready, Old
        <4>2. New(rows[i].id) = Old(rows[i].id)
          BY <1>6, <3>4
        <4>3. r.dirty <=> rows[i].dirty
          BY <3>1, <3>4, Zenon
        <4>4. Agrees(New(rows[i].id), c, r)
          BY ONLY <3>1, <4>1, <4>2, <4>3, AgreesSame
        <4> QED
          BY <4>4 DEF r
      <3> QED
        BY <3>2, <3>3, <3>4
    <2>2. OwnOnce(O, c, rows)
      BY DEF Ready
    <2>3. DOMAIN Cleaned(rows) = DOMAIN rows
      BY DEF Cleaned
    <2>4. \A i \in DOMAIN rows : /\ Cleaned(rows)[i].id = rows[i].id
                                 /\ Cleaned(rows)[i].sys = rows[i].sys
      BY <1>1, CleanedRow
    <2>5. OwnOnce(O, c, Cleaned(rows))
      <3> HIDE DEF rows
      <3> QED
        BY <2>2, <2>3, <2>4 DEF OwnOnce
    <2>6. \A i \in DOMAIN rows : Cleaned(rows)[i].id \in O =>
            Agrees(Due(tasks, h.queue, Cleaned(rows)[i].id), c, Cleaned(rows)[i])
      BY <2>1, <2>4 DEF New
    <2> HIDE DEF rows
    <2> QED
      BY <2>3, <2>5, <2>6 DEF Rest
  <1>12. CurrentDue(O, tasks, h)
    <2> SUFFICES ASSUME h.view = Downloading, h.cur # 0,
                        h.models[Downloading][h.cur].id \in O
                 PROVE  New(h.models[Downloading][h.cur].id) # NoRow
      BY DEF CurrentDue, New
    <2> DEFINE old == g.models[Downloading][g.cur]
    <2>1. g.view = Downloading /\ g.cur # 0
      BY <1>5
    <2>2. g.models[Downloading] \in Seq(RowsTo(b)) /\ g.cur \in DOMAIN g.models[Downloading]
      <3>1. /\ g.models[Downloading] \in Seq(RowsTo(b)) /\ g.cur \in Nat
            /\ g.cur <= Len(g.models[Downloading])
        BY <2>1, Parts
      <3> QED
        BY <2>1, <3>1
    <2>3. h.models[Downloading][h.cur].id = old.id
      <3>1. CASE c = Downloading
        <4>1. old = rows[h.cur] /\ h.cur \in DOMAIN rows
          BY <1>5, <2>2, <3>1
        <4>2. Cleaned(rows)[h.cur].id = rows[h.cur].id
          BY <1>1, <4>1, CleanedRow
        <4>3. h.models[Downloading] = Cleaned(rows)
          BY <1>9, <3>1
        <4> HIDE DEF rows, old
        <4> QED
          BY <4>1, <4>2, <4>3
      <3>2. CASE c # Downloading
        BY <1>5, <1>9, <3>2, StoreAssumption
      <3> QED
        BY <3>1, <3>2
    <2>4. Old(old.id) # NoRow \/ (c = Downloading /\ old.dirty)
      BY <2>1, <2>3 DEF Ready, Old
    <2>5. CASE D(old.id)
      <3> HIDE DEF old, D
      <3> QED
        BY <1>8, <2>3, <2>5
    <2>6. CASE ~D(old.id)
      <3>1. ~(c = Downloading /\ old.dirty)
        BY <2>2, <2>6
      <3> HIDE DEF old, D
      <3> QED
        BY <1>6, <2>3, <2>4, <2>6, <3>1
    <2> QED
      BY <2>5, <2>6
  <1>13. GoneFor(O, tasks, gone, h)
    <2> SUFFICES ASSUME NEW t \in gone \cap O
                 PROVE  /\ New(t) # NoRow /\ New(t).sys = Deleted
                        /\ h.models[Deleted] # NotLoaded
                        /\ \A i \in DOMAIN h.models[Deleted] : h.models[Deleted][i].id # t
      BY DEF GoneFor, New
    <2>1. /\ Old(t) # NoRow /\ Old(t).sys = Deleted
          /\ g.models[Deleted] # NotLoaded
          /\ \A i \in DOMAIN g.models[Deleted] : g.models[Deleted][i].id # t
      BY DEF Ready, GoneFor, Old
    <2>2. ~D(t)
      BY DEF Ready
    <2>3. /\ h.models[Deleted] # NotLoaded
          /\ \A i \in DOMAIN h.models[Deleted] : h.models[Deleted][i].id # t
      <3>1. CASE c = Deleted
        <4>1. Cleaned(rows) # NotLoaded
          BY <1>1, SubmitsKept, ListIsLoaded, <1>9
        <4>2. \A i \in DOMAIN Cleaned(rows) : i \in DOMAIN rows /\ Cleaned(rows)[i].id = rows[i].id
          BY <1>1, CleanedRow DEF Cleaned
        <4> QED
          BY <1>9, <2>1, <3>1, <4>1, <4>2
      <3>2. CASE c # Deleted
        BY <1>9, <2>1, <3>2, StoreAssumption
      <3> QED
        BY <3>1, <3>2
    <2> HIDE DEF D
    <2> QED
      BY <1>6, <2>1, <2>2, <2>3
  <1>14. \A d \in Categories : h.models[d] # NotLoaded => Rest(O, tasks, h.queue, d, h.models[d])
    BY <1>9, <1>10, <1>11
  <1> QED
    BY <1>5, <1>12, <1>13, <1>14 DEF Settled, Placed

LEMMA PlacedRow ==
    ASSUME NEW g, NEW tab, NEW O, NEW gone, Placed(O, tab, gone, g),
           NEW c \in Categories, g.models[c] # NotLoaded, NEW i \in DOMAIN g.models[c],
           g.models[c][i].id \in O
    PROVE  Agrees(Due(tab, g.queue, g.models[c][i].id), c, g.models[c][i])
  BY DEF Placed, Rest

\* A task has its place in one model.
LEMMA OneOwner ==
    ASSUME NEW g, NEW tab, NEW O, NEW gone, Placed(O, tab, gone, g),
           NEW c \in Categories, g.models[c] # NotLoaded, NEW i \in DOMAIN g.models[c],
           NEW d \in Categories, g.models[d] # NotLoaded, NEW j \in DOMAIN g.models[d],
           g.models[c][i].sys = c, g.models[d][j].sys = d,
           g.models[c][i].id = g.models[d][j].id, g.models[c][i].id \in O
    PROVE  c = d /\ i = j
  <1> DEFINE r == g.models[c][i]
             s == g.models[d][j]
             due == Due(tab, g.queue, r.id)
  <1>1. Agrees(due, c, r) /\ Agrees(due, d, s) /\ r.sys = c /\ s.sys = d
    BY PlacedRow
  <1> HIDE DEF r, s, due
  <1>2. /\ r.dirty => c = Downloading
        /\ ~r.dirty => due # NoRow
        /\ due # NoRow => due.sys = c
    BY ONLY <1>1, AgreesGives
  <1>3. /\ s.dirty => d = Downloading
        /\ ~s.dirty => due # NoRow
        /\ due # NoRow => due.sys = d
    BY ONLY <1>1, AgreesGives
  <1>4. c = d
    BY <1>2, <1>3, Zenon
  <1>5. OwnOnce(O, c, g.models[c])
    BY DEF Placed, Rest
  <1> QED
    BY <1>4, <1>5 DEF OwnOnce

LEMMA OwnNotGone ==
    ASSUME NEW g, NEW tab, NEW O, NEW gone, Placed(O, tab, gone, g),
           NEW c \in Categories, g.models[c] # NotLoaded, NEW i \in DOMAIN g.models[c],
           g.models[c][i].sys = c, g.models[c][i].id \in O
    PROVE  g.models[c][i].id \notin gone
  <1> DEFINE r == g.models[c][i]
             due == Due(tab, g.queue, r.id)
  <1>1. Agrees(due, c, r)
    BY PlacedRow
  <1>2. ASSUME r.id \in gone PROVE FALSE
    <2>1. /\ due # NoRow /\ due.sys = Deleted
          /\ \A j \in DOMAIN g.models[Deleted] : g.models[Deleted][j].id # r.id
      BY <1>2 DEF Placed, GoneFor
    <2>2. due.sys = c
      BY <1>1, <2>1, AgreesGives, Zenon
    <2> QED
      BY <2>1, <2>2
  <1> QED
    BY <1>2

LEMMA PlainReady ==
    ASSUME NEW b, NEW g \in Guis(b), NEW c \in Categories, g.models[c] # NotLoaded,
           NEW O, NEW gone, Placed(O, tasks, gone, g), CurrentDue(O, tasks, g) \/ c = g.view,
           Quiet(O, g.queue) \/ c # Downloading
    PROVE  Ready(O, gone, g, c)
  <1> DEFINE rows == g.models[c]
  <1>1. rows \in Seq(RowsTo(b)) /\ Homed(c, rows)
    BY Parts
  <1>2. ASSUME NEW i \in DOMAIN rows, rows[i].dirty, rows[i].id \in O
        PROVE  /\ c = Downloading /\ rows[i].sys = c /\ rows[i].id \notin gone
               /\ WritesOf(g.queue, rows[i].id) = {}
    <2>1. c = Downloading
      <3>1. Agrees(Due(tasks, g.queue, rows[i].id), c, rows[i])
        BY <1>2, PlacedRow
      <3> QED
        BY ONLY <1>2, <3>1, AgreesGives
    <2>2. rows[i].sys = c
      <3>1. Listed(c) = {c}
        BY <2>1, StoreAssumption DEF Listed
      <3> QED
        BY <1>1, <1>2, <3>1 DEF Homed
    <2>3. rows[i].id \notin gone
      BY <1>2, <2>2, OwnNotGone
    <2> QED
      BY <1>2, <2>1, <2>2, <2>3 DEF Quiet
  <1>3. ASSUME NEW d \in Categories, d # c, g.models[d] # NotLoaded,
               NEW i \in DOMAIN rows, NEW j \in DOMAIN g.models[d],
               rows[i].id \in O, rows[i].dirty, g.models[d][j].sys = d
        PROVE  g.models[d][j].id # rows[i].id
    <2>1. rows[i].sys = c
      BY <1>2, <1>3
    <2> QED
      BY <1>3, <2>1, OneOwner
  <1>4. ASSUME g.view = Downloading, g.cur # 0, g.models[Downloading][g.cur].id \in O
        PROVE  \/ Due(tasks, g.queue, g.models[Downloading][g.cur].id) # NoRow
               \/ c = Downloading /\ g.models[Downloading][g.cur].dirty
    <2>1. CASE CurrentDue(O, tasks, g)
      BY <1>4, <2>1 DEF CurrentDue
    <2>2. CASE c = Downloading
      <3>1. g.cur \in DOMAIN rows
        BY <1>1, <1>4, <2>2, Parts
      <3>2. ~rows[g.cur].dirty => Due(tasks, g.queue, rows[g.cur].id) # NoRow
        <4>1. Agrees(Due(tasks, g.queue, rows[g.cur].id), c, rows[g.cur])
          BY <1>4, <2>2, <3>1, PlacedRow
        <4> QED
          BY <4>1, AgreesGives, Zenon
      <3> QED
        BY <2>2, <3>2
    <2> QED
      BY <1>4, <2>1, <2>2
  <1>5. /\ Ordered(O, tasks, g.queue) /\ GoneFor(O, tasks, gone, g) /\ OwnOnce(O, c, rows)
        /\ \A d \in Categories : d # c /\ g.models[d] # NotLoaded =>
             Rest(O, tasks, g.queue, d, g.models[d])
    BY DEF Placed, Rest
  <1>6. \A i \in DOMAIN rows :
          rows[i].id \in O => Agrees(Due(tasks, g.queue, rows[i].id), c, rows[i])
    BY PlacedRow
  <1> QED
    BY <1>2, <1>3, <1>4, <1>5, <1>6 DEF Ready

NoneNew(O, q, p) == \A t \in O : WritesOf(q, t) = {} => WritesOf(p, t) = {}

\* Submitting the model of a settled record changes nothing in other models.
LEMMA PlainSubmit ==
    ASSUME NEW b, NEW g \in Guis(b), NEW c \in Categories, g.models[c] # NotLoaded,
           NEW O, NEW gone, Placed(O, tasks, gone, g), CurrentDue(O, tasks, g) \/ c = g.view,
           Quiet(O, g.queue) \/ c # Downloading, NEW h \in Submits(g, c)
    PROVE  /\ Settled(O, tasks, gone, h)
           /\ h.models = [g.models EXCEPT ![c] = Cleaned(g.models[c])]
           /\ h.view = g.view /\ h.cur = g.cur
           /\ c # Downloading => NoneNew(O, g.queue, h.queue)
  <1> USE DEF NoneNew
  <1>1. Ready(O, gone, g, c)
    BY PlainReady
  <1>2. ASSUME c # Downloading, NEW i \in DOMAIN g.models[c], g.models[c][i].id \in O
        PROVE  ~g.models[c][i].dirty
    <2>1. Agrees(Due(tasks, g.queue, g.models[c][i].id), c, g.models[c][i])
      BY <1>2, PlacedRow
    <2> QED
      BY ONLY <1>2, <2>1, AgreesGives
  <1> QED
    BY <1>1, <1>2, SubmitSettles

-----------------------------------------------------------------------------
(* Loading a model *)

LEMMA LoadRest ==
    ASSUME NEW b, TableTo(b), NEW c, NEW O, NEW q, Quiet(O, q)
    PROVE  Rest(O, tasks, q, c, Load(c))
  <1>1. /\ Unique(Load(c))
        /\ \A i \in DOMAIN Load(c) : \E t \in Ids :
             /\ tasks[t] # NoRow
             /\ Load(c)[i] = [id |-> t, sys |-> tasks[t].sys, user |-> tasks[t].user,
                              status |-> tasks[t].status, dirty |-> FALSE]
    BY LoadedRows
  <1>2. ASSUME NEW i \in DOMAIN Load(c), Load(c)[i].id \in O
        PROVE  Agrees(Due(tasks, q, Load(c)[i].id), c, Load(c)[i])
    <2> DEFINE r == Load(c)[i]
    <2>1. PICK t \in Ids :
            /\ tasks[t] # NoRow
            /\ r = [id |-> t, sys |-> tasks[t].sys, user |-> tasks[t].user,
                    status |-> tasks[t].status, dirty |-> FALSE]
      BY <1>1
    <2>2. tasks[t] \in StoredRows
      BY <2>1 DEF TableTo
    <2>3. tasks[t] = [sys |-> tasks[t].sys, user |-> tasks[t].user, status |-> tasks[t].status]
      BY <2>2 DEF StoredRows
    <2> HIDE DEF r
    <2>4. r.id = t /\ r.sys = tasks[t].sys /\ ~r.dirty /\ Stored(r) = tasks[t]
      BY <2>1, <2>3 DEF Stored
    <2>5. Due(tasks, q, r.id) = tasks[t]
      BY <1>2, <2>4 DEF Due, Quiet, r
    <2>6. Agrees(Due(tasks, q, r.id), c, r)
      BY ONLY <2>1, <2>4, <2>5, AgreesClean
    <2> QED
      BY <2>6 DEF r
  <1>3. OwnOnce(O, c, Load(c))
    BY <1>1 DEF Unique, OwnOnce
  <1> QED
    BY <1>2, <1>3 DEF Rest

LEMMA InstanceSettled ==
    ASSUME NEW b, TableTo(b), NEW g \in Guis(b), NEW c \in Categories, NEW O, NEW gone,
           Settled(O, tasks, gone, g), Quiet(O, g.queue) \/ g.models[c] # NotLoaded
    PROVE  Settled(O, tasks, gone, Instance(g, c)) /\ Instance(g, c).queue = g.queue
  <1>1. CASE g.models[c] # NotLoaded
    BY <1>1 DEF Instance
  <1>2. CASE g.models[c] = NotLoaded
    <2> DEFINE h == Instance(g, c)
    <2>1. h = Record([g.models EXCEPT ![c] = Load(c)], g.view, g.cur, g.queue)
      <3>1. g = [models |-> g.models, view |-> g.view, cur |-> g.cur, queue |-> g.queue]
        BY Parts DEF Record
      <3>2. h = [g EXCEPT !.models[c] = Load(c)]
        BY <1>2 DEF Instance
      <3> HIDE DEF h
      <3> QED
        BY <3>1, <3>2 DEF Record
    <2> HIDE DEF h
    <2>2. /\ h.models = [g.models EXCEPT ![c] = Load(c)]
          /\ h.view = g.view /\ h.cur = g.cur /\ h.queue = g.queue /\ Quiet(O, g.queue)
      BY <1>2, <2>1 DEF Record
    <2>3. h.models[c] = Load(c) /\ \A d \in Categories : d # c => h.models[d] = g.models[d]
      BY <2>2, Parts
    <2>4. Rest(O, tasks, g.queue, c, Load(c))
      BY <2>2, LoadRest
    <2>5. \A d \in Categories : h.models[d] # NotLoaded => Rest(O, tasks, h.queue, d, h.models[d])
      BY <2>2, <2>3, <2>4 DEF Settled, Placed
    <2>6. CurrentDue(O, tasks, h)
      <3>1. c # Downloading
        BY <1>2, Parts
      <3>2. h.models[Downloading] = g.models[Downloading]
        BY <2>3, <3>1, StoreAssumption
      <3> QED
        BY <2>2, <3>2 DEF Settled, CurrentDue
    <2>7. GoneFor(O, tasks, gone, h)
      <3>1. ASSUME NEW t \in gone \cap O PROVE h.models[Deleted] = g.models[Deleted]
        <4>1. g.models[Deleted] # NotLoaded
          BY <3>1 DEF Settled, Placed, GoneFor
        <4> QED
          BY <1>2, <2>3, <4>1, StoreAssumption
      <3> QED
        BY <2>2, <3>1 DEF Settled, Placed, GoneFor
    <2>8. Ordered(O, tasks, h.queue)
      BY <2>2 DEF Settled, Placed
    <2>9. Settled(O, tasks, gone, h)
      BY <2>5, <2>6, <2>7, <2>8 DEF Settled, Placed
    <2> QED
      BY <2>2, <2>9 DEF h
  <1> QED
    BY <1>1, <1>2

-----------------------------------------------------------------------------
(* Removing a row *)

Taken(b, g, c, k, h) ==
    \E x \in Guis(b) : \E j :
        /\ h = Record([x.models EXCEPT ![c] = RemoveAt(x.models[c], k)], g.view, j, x.queue)
        /\ \/ c = g.view /\ k = g.cur /\ x \in Submits(g, c)
           \/ /\ ~(c = g.view /\ k = g.cur) /\ x = g
              /\ j = IF c = g.view /\ g.cur > k THEN g.cur - 1 ELSE g.cur

LEMMA RemovesForm ==
    ASSUME NEW b, NEW g \in Guis(b), NEW c \in Categories, g.models[c] # NotLoaded,
           NEW k \in DOMAIN g.models[c], NEW h \in Removes(g, c, k)
    PROVE  Taken(b, g, c, k, h)
  <1> USE DEF Taken
  <1> DEFINE Without(x) == [x EXCEPT !.models[c] = RemoveAt(@, k)]
  <1>1. ASSUME NEW x \in Guis(b), x.view = g.view, NEW j, h = [Without(x) EXCEPT !.cur = j]
        PROVE  h = Record([x.models EXCEPT ![c] = RemoveAt(x.models[c], k)], g.view, j, x.queue)
    <2> DEFINE rows == RemoveAt(x.models[c], k)
    <2>1. x = [models |-> x.models, view |-> x.view, cur |-> x.cur, queue |-> x.queue]
      BY Parts DEF Record
    <2>2. Without(x) = [x EXCEPT !.models[c] = rows]
      BY <2>1
    <2> HIDE DEF rows
    <2>3. h = Record([x.models EXCEPT ![c] = rows], g.view, j, x.queue)
      BY <1>1, <2>1, <2>2 DEF Record
    <2> QED
      BY <2>3 DEF rows
  <1>2. CASE c = g.view /\ k = g.cur
    <2> DEFINE NextCur == IF Len(g.models[c]) = 1 THEN 0 ELSE IF k > 1 THEN k - 1 ELSE 1
    <2>1. PICK x \in Submits(g, c) : h = [Without(x) EXCEPT !.cur = NextCur]
      BY <1>2 DEF Removes
    <2> HIDE DEF NextCur
    <2>2. x \in Guis(b) /\ x.view = g.view
      BY SubmitsKept
    <2> HIDE DEF Without
    <2> QED
      BY <1>1, <1>2, <2>1, <2>2
  <1>3. CASE ~(c = g.view /\ k = g.cur)
    <2> DEFINE j == IF c = g.view /\ g.cur > k THEN g.cur - 1 ELSE g.cur
    <2>1. h = [Without(g) EXCEPT !.cur = j]
      <3>1. h = [Without(g) EXCEPT !.cur = IF c = g.view /\ @ > k THEN @ - 1 ELSE @]
        BY <1>3 DEF Removes
      <3>2. g = [models |-> g.models, view |-> g.view, cur |-> g.cur, queue |-> g.queue]
        BY Parts DEF Record
      <3>3. Without(g).cur = g.cur
        BY <3>2
      <3> HIDE DEF Without
      <3> QED
        BY <3>1, <3>3
    <2> HIDE DEF Without
    <2>2. h = Record([g.models EXCEPT ![c] = RemoveAt(g.models[c], k)], g.view, j, g.queue)
      BY <1>1, <2>1
    <2> QED
      BY <1>3, <2>2
  <1> QED
    BY <1>2, <1>3

\* The rows left are rows of the model, each where it was or one further down.
LEMMA RowsLeft ==
    ASSUME NEW b, NEW rows \in Seq(RowsTo(b)), NEW k \in DOMAIN rows
    PROVE  /\ \A i \in DOMAIN RemoveAt(rows, k) :
                \E j \in DOMAIN rows : j # k /\ RemoveAt(rows, k)[i] = rows[j]
           /\ \A i \in DOMAIN RemoveAt(rows, k) : i < k => RemoveAt(rows, k)[i] = rows[i]
           /\ \A i \in DOMAIN RemoveAt(rows, k) : i >= k => RemoveAt(rows, k)[i] = rows[i + 1]
           /\ \A O, c : OwnOnce(O, c, rows) => OwnOnce(O, c, RemoveAt(rows, k))
  <1> DEFINE left == RemoveAt(rows, k)
  <1>1. /\ left \in Seq(RowsTo(b)) /\ Len(left) = Len(rows) - 1
        /\ \A i \in DOMAIN left :
             \E j \in DOMAIN rows : j = (IF i < k THEN i ELSE i + 1) /\ left[i] = rows[j]
    BY RemovedRow
  <1> HIDE DEF left
  <1>2. DOMAIN left \subseteq Nat /\ k \in Nat
    BY <1>1
  <1>3. \A i \in DOMAIN left : i < k => i \in DOMAIN rows /\ i # k /\ left[i] = rows[i]
    BY <1>1, <1>2
  <1>4. \A i \in DOMAIN left : i >= k =>
          i + 1 \in DOMAIN rows /\ i + 1 # k /\ left[i] = rows[i + 1]
    BY <1>1, <1>2
  <1>5. \A i \in DOMAIN left : i < k \/ i >= k
    BY <1>2
  <1>6. ASSUME NEW O, NEW c, OwnOnce(O, c, rows) PROVE OwnOnce(O, c, left)
    <2> SUFFICES ASSUME NEW i \in DOMAIN left, NEW j \in DOMAIN left, left[i].id \in O,
                        left[i].sys = c, left[j].sys = c, left[i].id = left[j].id
                 PROVE  i = j
      BY DEF OwnOnce
    <2>1. PICK m \in DOMAIN rows : m = (IF i < k THEN i ELSE i + 1) /\ left[i] = rows[m]
      BY <1>1
    <2>2. PICK n \in DOMAIN rows : n = (IF j < k THEN j ELSE j + 1) /\ left[j] = rows[n]
      BY <1>1
    <2>3. m = n
      BY <1>6, <2>1, <2>2 DEF OwnOnce
    <2> QED
      BY <1>2, <2>1, <2>2, <2>3
  <1>7. \A i \in DOMAIN left : \E j \in DOMAIN rows : j # k /\ left[i] = rows[j]
    BY <1>3, <1>4, <1>5
  <1> QED
    BY <1>3, <1>4, <1>6, <1>7 DEF left

SettledTaken(O, b, g, c, k, gone, h) ==
    \E x \in Guis(b) : \E j :
        /\ h = Record([x.models EXCEPT ![c] = RemoveAt(x.models[c], k)], g.view, j, x.queue)
        /\ Settled(O, tasks, gone, x) /\ x.view = g.view /\ x.cur = g.cur
        /\ x.models[c] # NotLoaded /\ SameTasks(x.models[c], g.models[c])
        /\ \A d \in Categories : d # c => x.models[d] = g.models[d]
        /\ \/ /\ \A i \in DOMAIN x.models[c] : ~x.models[c][i].dirty
              /\ c # Downloading => Quiet(O, x.queue)
              /\ c = g.view /\ k = g.cur
           \/ /\ Quiet(O, x.queue) /\ ~(c = g.view /\ k = g.cur)
              /\ j = IF c = g.view /\ g.cur > k THEN g.cur - 1 ELSE g.cur

\* A row is taken from a settled record, after a submit if it was the current one.
LEMMA RemovesSource ==
    ASSUME NEW b, NEW g \in Guis(b), NEW c \in Categories, g.models[c] # NotLoaded,
           NEW k \in DOMAIN g.models[c], NEW O, NEW gone, Settled(O, tasks, gone, g), Quiet(O, g.queue),
           NEW h \in Removes(g, c, k)
    PROVE  SettledTaken(O, b, g, c, k, gone, h)
  <1> USE DEF SettledTaken
  <1>0. PICK x \in Guis(b) : \E j :
             /\ h = Record([x.models EXCEPT ![c] = RemoveAt(x.models[c], k)], g.view, j, x.queue)
             /\ \/ c = g.view /\ k = g.cur /\ x \in Submits(g, c)
                \/ /\ ~(c = g.view /\ k = g.cur) /\ x = g
                   /\ j = IF c = g.view /\ g.cur > k THEN g.cur - 1 ELSE g.cur
    <2>1. /\ g \in Guis(b) /\ c \in Categories /\ g.models[c] # NotLoaded
          /\ k \in DOMAIN g.models[c] /\ h \in Removes(g, c, k)
      OBVIOUS
    <2>2. Taken(b, g, c, k, h)
      BY ONLY <2>1, RemovesForm
    <2> QED
      BY <2>2 DEF Taken
  <1>1. PICK j :
             /\ h = Record([x.models EXCEPT ![c] = RemoveAt(x.models[c], k)], g.view, j, x.queue)
             /\ \/ c = g.view /\ k = g.cur /\ x \in Submits(g, c)
                \/ /\ ~(c = g.view /\ k = g.cur) /\ x = g
                   /\ j = IF c = g.view /\ g.cur > k THEN g.cur - 1 ELSE g.cur
    BY <1>0
  <1>2. CASE /\ ~(c = g.view /\ k = g.cur) /\ x = g
             /\ j = IF c = g.view /\ g.cur > k THEN g.cur - 1 ELSE g.cur
    <2>1. SameTasks(g.models[c], g.models[c])
      BY DEF SameTasks
    <2> QED
      BY <1>1, <1>2, <2>1
  <1>3. CASE c = g.view /\ k = g.cur /\ x \in Submits(g, c)
    <2>1. Placed(O, tasks, gone, g) /\ CurrentDue(O, tasks, g)
      BY DEF Settled
    <2>2. /\ Settled(O, tasks, gone, x)
          /\ x.models = [g.models EXCEPT ![c] = Cleaned(g.models[c])]
          /\ x.view = g.view /\ x.cur = g.cur
          /\ c # Downloading => NoneNew(O, g.queue, x.queue)
      <3>1. /\ g \in Guis(b) /\ c \in Categories /\ g.models[c] # NotLoaded
            /\ x \in Submits(g, c)
            /\ CurrentDue(O, tasks, g) \/ c = g.view
            /\ Quiet(O, g.queue) \/ c # Downloading
        BY <1>3
      <3> QED
        BY ONLY <2>1, <3>1, PlainSubmit
    <2>3. /\ x.models[c] \in Seq(RowsTo(b)) /\ SameTasks(x.models[c], g.models[c])
          /\ \A d \in Categories : d # c => x.models[d] = g.models[d]
      BY <1>3, SubmitsKept
    <2>4. x.models[c] # NotLoaded
      BY <2>3, ListIsLoaded
    <2>5. g.models[c] \in Seq(RowsTo(b)) /\ g.models \in [Categories -> Seq(RowsTo(b)) \cup {NotLoaded}]
      BY Parts
    <2>6. \A i \in DOMAIN x.models[c] : ~x.models[c][i].dirty
      <3>1. x.models[c] = Cleaned(g.models[c])
        BY <2>2, <2>5
      <3>2. \A i \in DOMAIN g.models[c] : ~Cleaned(g.models[c])[i].dirty
        BY <2>5, CleanedRow
      <3> QED
        BY <3>1, <3>2 DEF Cleaned
    <2>7. c # Downloading => Quiet(O, x.queue)
      BY <2>2 DEF NoneNew, Quiet
    <2> QED
      BY <1>1, <1>3, <2>2, <2>3, <2>4, <2>6, <2>7
  <1> QED
    BY <1>1, <1>2, <1>3

NotOwn(g, t) ==
    \A d \in Categories : g.models[d] # NotLoaded =>
        \A i \in DOMAIN g.models[d] : g.models[d][i].sys = d => g.models[d][i].id # t
AllClean(rows) == \A i \in DOMAIN rows : ~rows[i].dirty

\* A settled record stays settled when a row goes, the task is at home nowhere, and
\* an INSERT of it will not meet another one.
LEMMA RemovesSettled ==
    ASSUME NEW b, NEW g \in Guis(b), NEW c \in Categories, g.models[c] # NotLoaded,
           NEW k \in DOMAIN g.models[c], NEW O, NEW gone, Settled(O, tasks, gone, g),
           Quiet(O, g.queue), NEW h \in Removes(g, c, k)
    PROVE  /\ Settled(O, tasks, gone, h)
           /\ c = Downloading => Quiet(O, h.queue) \/ AllClean(h.models[c])
           /\ g.models[c][k].id \in O =>
                /\ g.models[c][k].sys = c => NotOwn(h, g.models[c][k].id)
                /\ tasks[g.models[c][k].id] = NoRow =>
                     WritesOf(h.queue, g.models[c][k].id) = {}
                /\ g.models[c][k].sys = c /\ c # Downloading =>
                     /\ Due(tasks, h.queue, g.models[c][k].id) # NoRow
                     /\ Due(tasks, h.queue, g.models[c][k].id).sys = c
  <1> DEFINE t == g.models[c][k].id
  <1>0. PICK x \in Guis(b) : \E j :
          /\ h = Record([x.models EXCEPT ![c] = RemoveAt(x.models[c], k)], g.view, j, x.queue)
          /\ Settled(O, tasks, gone, x) /\ x.view = g.view /\ x.cur = g.cur
          /\ x.models[c] # NotLoaded /\ SameTasks(x.models[c], g.models[c])
          /\ \A d \in Categories : d # c => x.models[d] = g.models[d]
          /\ \/ /\ \A i \in DOMAIN x.models[c] : ~x.models[c][i].dirty
                /\ c # Downloading => Quiet(O, x.queue)
                /\ c = g.view /\ k = g.cur
             \/ /\ Quiet(O, x.queue) /\ ~(c = g.view /\ k = g.cur)
                /\ j = IF c = g.view /\ g.cur > k THEN g.cur - 1 ELSE g.cur
    <2>1. /\ g \in Guis(b) /\ c \in Categories /\ g.models[c] # NotLoaded
          /\ k \in DOMAIN g.models[c] /\ h \in Removes(g, c, k)
          /\ Settled(O, tasks, gone, g) /\ Quiet(O, g.queue)
      OBVIOUS
    <2>2. SettledTaken(O, b, g, c, k, gone, h)
      BY ONLY <2>1, RemovesSource
    <2> QED
      BY <2>2 DEF SettledTaken
  <1>1. PICK j :
          /\ h = Record([x.models EXCEPT ![c] = RemoveAt(x.models[c], k)], g.view, j, x.queue)
          /\ Settled(O, tasks, gone, x) /\ x.view = g.view /\ x.cur = g.cur
          /\ x.models[c] # NotLoaded /\ SameTasks(x.models[c], g.models[c])
          /\ \A d \in Categories : d # c => x.models[d] = g.models[d]
          /\ \/ /\ \A i \in DOMAIN x.models[c] : ~x.models[c][i].dirty
                /\ c # Downloading => Quiet(O, x.queue)
                /\ c = g.view /\ k = g.cur
             \/ /\ Quiet(O, x.queue) /\ ~(c = g.view /\ k = g.cur)
                /\ j = IF c = g.view /\ g.cur > k THEN g.cur - 1 ELSE g.cur
    BY <1>0
  <1> DEFINE rows == x.models[c]
             left == RemoveAt(rows, k)
  <1>2. rows \in Seq(RowsTo(b)) /\ g.models[c] \in Seq(RowsTo(b))
        /\ x.models \in [Categories -> Seq(RowsTo(b)) \cup {NotLoaded}]
    BY <1>1, Parts
  <1>3. k \in DOMAIN rows /\ rows[k].id = t /\ rows[k].sys = g.models[c][k].sys
    BY <1>1, <1>2 DEF SameTasks
  <1>4. /\ h.models = [x.models EXCEPT ![c] = left] /\ h.view = g.view
        /\ h.cur = j /\ h.queue = x.queue
    BY <1>1 DEF Record
  <1>5. h.models[c] = left /\ \A d \in Categories : d # c => h.models[d] = x.models[d]
    BY <1>2, <1>4
  <1>6. h \in Guis(b)
    BY RemovesKept
  <1>7. left \in Seq(RowsTo(b))
    BY <1>2, <1>3, RemovedRow
  <1>8. /\ \A i \in DOMAIN left : \E m \in DOMAIN rows : m # k /\ left[i] = rows[m]
        /\ \A i \in DOMAIN left : i < k => left[i] = rows[i]
        /\ \A i \in DOMAIN left : i >= k => left[i] = rows[i + 1]
        /\ OwnOnce(O, c, rows) => OwnOnce(O, c, left)
    BY <1>2, <1>3, RowsLeft
  <1> HIDE DEF left, rows, t
  <1>9. /\ Ordered(O, tasks, x.queue) /\ GoneFor(O, tasks, gone, x)
        /\ \A d \in Categories : x.models[d] # NotLoaded => Rest(O, tasks, x.queue, d, x.models[d])
        /\ CurrentDue(O, tasks, x) /\ Placed(O, tasks, gone, x)
    BY <1>1 DEF Settled, Placed
  <1>10. Rest(O, tasks, x.queue, c, left)
    <2>1. Rest(O, tasks, x.queue, c, rows)
      BY <1>1, <1>9 DEF rows
    <2> QED
      BY <1>8, <2>1 DEF Rest
  <1>11. \A d \in Categories : h.models[d] # NotLoaded => Rest(O, tasks, h.queue, d, h.models[d])
    BY <1>4, <1>5, <1>9, <1>10
  <1>12. GoneFor(O, tasks, gone, h)
    <2>1. CASE c = Deleted
      <3>1. left # NotLoaded
        BY <1>7, ListIsLoaded
      <3> QED
        BY <1>4, <1>5, <1>8, <1>9, <2>1, <3>1 DEF GoneFor, rows
    <2>2. CASE c # Deleted
      <3>1. h.models[Deleted] = x.models[Deleted]
        BY <1>5, <2>2, StoreAssumption
      <3> QED
        BY <1>4, <1>9, <3>1 DEF GoneFor
    <2> QED
      BY <2>1, <2>2
  <1>13. CurrentDue(O, tasks, h)
    <2> SUFFICES ASSUME g.view = Downloading, j # 0, h.models[Downloading][j].id \in O
                 PROVE  Due(tasks, x.queue, h.models[Downloading][j].id) # NoRow
      BY <1>4 DEF CurrentDue
    <2>1. j \in DOMAIN h.models[Downloading]
      <3>1. j \in Nat /\ j <= Len(h.models[Downloading]) /\ h.models[Downloading] \in Seq(RowsTo(b))
        BY <1>4, <1>6, Parts
      <3> QED
        BY <3>1
    <2>2. CASE c = g.view /\ k = g.cur
      <3>1. PICK m \in DOMAIN rows : left[j] = rows[m]
        BY <1>5, <1>8, <2>1, <2>2
      <3>2. ~rows[m].dirty
        BY <1>1, <2>2 DEF rows
      <3>3. Agrees(Due(tasks, x.queue, rows[m].id), c, rows[m])
        <4>1. rows[m].id \in O
          BY <1>5, <2>2, <3>1
        <4> QED
          BY <1>1, <1>9, <4>1, PlacedRow DEF rows
      <3>4. Due(tasks, x.queue, rows[m].id) # NoRow
        BY ONLY <3>2, <3>3, AgreesGives
      <3> QED
        BY <1>5, <2>2, <3>1, <3>4
    <2>3. CASE c = g.view /\ k # g.cur
      <3>1. j = IF g.cur > k THEN g.cur - 1 ELSE g.cur
        BY <1>1, <2>3
      <3>2. g.cur \in Nat /\ k \in Nat /\ k >= 1
        BY <1>2, <1>3, Parts
      <3>3. g.cur # 0
        BY <3>1, <3>2
      <3>4. left[j] = rows[g.cur]
        <4>1. CASE g.cur > k
          <5>1. j >= k /\ j + 1 = g.cur
            BY <3>1, <3>2, <4>1
          <5> QED
            BY <1>5, <1>8, <2>1, <2>3, <5>1
        <4>2. CASE ~(g.cur > k)
          <5>1. j < k /\ j = g.cur
            BY <2>3, <3>1, <3>2, <4>2
          <5> QED
            BY <1>5, <1>8, <2>1, <2>3, <5>1
        <4> QED
          BY <4>1, <4>2
      <3>5. Due(tasks, x.queue, rows[g.cur].id) # NoRow
        BY <1>1, <1>5, <1>9, <2>3, <3>3, <3>4 DEF CurrentDue, rows
      <3> QED
        BY <1>5, <2>3, <3>4, <3>5
    <2>4. CASE c # g.view
      <3>1. j = g.cur
        BY <1>1, <2>4
      <3>2. h.models[Downloading] = x.models[Downloading]
        BY <1>5, <2>4, StoreAssumption
      <3> QED
        BY <1>1, <1>9, <3>1, <3>2 DEF CurrentDue
    <2> QED
      BY <2>2, <2>3, <2>4
  <1>14. Settled(O, tasks, gone, h)
    BY <1>4, <1>9, <1>11, <1>12, <1>13 DEF Settled, Placed
  <1>15. ASSUME g.models[c][k].sys = c, t \in O PROVE NotOwn(h, t)
    <2> SUFFICES ASSUME NEW d \in Categories, h.models[d] # NotLoaded,
                        NEW i \in DOMAIN h.models[d], h.models[d][i].sys = d,
                        h.models[d][i].id = t
                 PROVE  FALSE
      BY DEF NotOwn
    <2>1. x.models[c][k].sys = c /\ x.models[c][k].id = t /\ k \in DOMAIN x.models[c]
      BY <1>3, <1>15 DEF rows
    <2>2. CASE d = c
      <3>1. PICK m \in DOMAIN rows : m # k /\ left[i] = rows[m]
        BY <1>5, <1>8, <2>2
      <3>2. OwnOnce(O, c, rows)
        BY <1>1, <1>9 DEF Rest, rows
      <3>3. left[i].id = t /\ left[i].sys = c
        BY <1>5, <2>2
      <3>4. rows[k].id \in O /\ rows[k].sys = c /\ rows[m].sys = c /\ rows[k].id = rows[m].id
        BY <1>3, <1>15, <3>1, <3>3
      <3> QED
        BY <1>3, <3>1, <3>2, <3>4 DEF OwnOnce
    <2>3. CASE d # c
      <3>1. x.models[d] # NotLoaded /\ i \in DOMAIN x.models[d]
            /\ x.models[d][i].sys = d /\ x.models[d][i].id = x.models[c][k].id
        BY <1>5, <2>1, <2>3
      <3>2. x.models[c][k].id \in O /\ Placed(O, tasks, gone, x)
        BY <1>9, <1>15, <2>1
      <3> QED
        BY <1>1, <2>1, <2>3, <3>1, <3>2, OneOwner
    <2> QED
      BY <2>2, <2>3
  <1>16. ASSUME tasks[t] = NoRow, t \in O PROVE WritesOf(h.queue, t) = {}
    <2>1. CASE Quiet(O, x.queue)
      BY <1>4, <1>16, <2>1 DEF Quiet
    <2>2. CASE c # Downloading /\ c = g.view /\ k = g.cur
      BY <1>1, <1>4, <1>16, <2>2 DEF Quiet
    <2>3. CASE c = Downloading /\ c = g.view /\ k = g.cur
      <3>1. g.cur # 0
        BY <1>2, <2>3
      <3>2. Due(tasks, g.queue, t) # NoRow
        BY <1>16, <2>3, <3>1 DEF Settled, CurrentDue, t
      <3>3. Due(tasks, g.queue, t) = tasks[t]
        BY <1>16 DEF Due, Quiet
      <3> QED
        BY <1>16, <3>2, <3>3
    <2> QED
      BY <1>1, <2>1, <2>2, <2>3
  <1>17. Quiet(O, h.queue) \/ AllClean(h.models[c])
    <2>1. CASE \A i \in DOMAIN x.models[c] : ~x.models[c][i].dirty
      BY <1>5, <1>8, <2>1 DEF AllClean, rows
    <2> QED
      BY <1>1, <1>4, <2>1
  <1>18. ASSUME g.models[c][k].sys = c, c # Downloading, t \in O
         PROVE  Due(tasks, h.queue, t) # NoRow /\ Due(tasks, h.queue, t).sys = c
    <2>1. Agrees(Due(tasks, x.queue, rows[k].id), c, rows[k])
      BY <1>1, <1>3, <1>9, <1>18, PlacedRow DEF rows
    <2>2. rows[k].sys = c
      BY <1>3, <1>18
    <2>3. Due(tasks, x.queue, rows[k].id) # NoRow /\ Due(tasks, x.queue, rows[k].id).sys = c
      BY ONLY <1>18, <2>1, <2>2, AgreesGives
    <2> QED
      BY <1>3, <1>4, <2>3
  <1> QED
    BY <1>14, <1>15, <1>16, <1>17, <1>18 DEF t

-----------------------------------------------------------------------------
(* Adding a row *)

LEMMA PrependForm ==
    ASSUME NEW b, NEW g \in Guis(b), NEW c \in Categories, g.models[c] # NotLoaded,
           NEW r \in RowsTo(b)
    PROVE  Prepend(g, c, r) =
             Record([g.models EXCEPT ![c] = <<r>> \o g.models[c]], g.view,
                    IF c = g.view /\ g.cur > 0 THEN g.cur + 1 ELSE g.cur, g.queue)
  <1> DEFINE h == Prepend(g, c, r)
             rows == <<r>> \o g.models[c]
             k == IF c = g.view /\ g.cur > 0 THEN g.cur + 1 ELSE g.cur
  <1>1. g = [models |-> g.models, view |-> g.view, cur |-> g.cur, queue |-> g.queue]
    BY Parts DEF Record
  <1>2. h = [g EXCEPT !.models[c] = rows, !.cur = k]
    BY <1>1 DEF Prepend
  <1> HIDE DEF h, k, rows
  <1>3. h = Record([g.models EXCEPT ![c] = rows], g.view, k, g.queue)
    BY <1>1, <1>2 DEF Record
  <1> QED
    BY <1>3 DEF h, k, rows

Atop(h, g, c, r) ==
    /\ h.view = g.view /\ h.queue = g.queue
    /\ h.models[c] = <<r>> \o g.models[c] /\ h.models[c] # NotLoaded
    /\ \A d \in Categories : d # c => h.models[d] = g.models[d]
    /\ 1 \in DOMAIN h.models[c] /\ h.models[c][1] = r
    /\ \A i \in DOMAIN h.models[c] :
         i = 1 \/ \E j \in DOMAIN g.models[c] : j + 1 = i /\ h.models[c][i] = g.models[c][j]

\* The current row stays the current one, and purged tasks stay out.
LEMMA PrependPlaces ==
    ASSUME NEW b, NEW g \in Guis(b), NEW c \in Categories, g.models[c] # NotLoaded,
           NEW r \in RowsTo(b), NEW O, NEW gone, Settled(O, tasks, gone, g),
           r.id \notin gone \cap O \/ c # Deleted, NEW h, h = Prepend(g, c, r)
    PROVE  Atop(h, g, c, r) /\ CurrentDue(O, tasks, h) /\ GoneFor(O, tasks, gone, h)
  <1> DEFINE rows == <<r>> \o g.models[c]
             k == IF c = g.view /\ g.cur > 0 THEN g.cur + 1 ELSE g.cur
  <1>1. h = Record([g.models EXCEPT ![c] = rows], g.view, k, g.queue)
    BY PrependForm
  <1>2. /\ g.models[c] \in Seq(RowsTo(b)) /\ g.cur \in Nat
        /\ g.models \in [Categories -> Seq(RowsTo(b)) \cup {NotLoaded}]
        /\ g.cur <= Len(g.models[g.view])
    BY Parts
  <1>3. /\ rows \in Seq(RowsTo(b)) /\ Len(rows) = Len(g.models[c]) + 1
        /\ rows[1] = r
        /\ \A i \in DOMAIN rows :
             i = 1 \/ (i - 1 \in DOMAIN g.models[c] /\ rows[i] = g.models[c][i - 1])
    BY <1>2, AddedRow
  <1> HIDE DEF rows, k
  <1>4. /\ h.models = [g.models EXCEPT ![c] = rows] /\ h.view = g.view
        /\ h.cur = k /\ h.queue = g.queue
    BY <1>1 DEF Record
  <1>5. /\ h.models[c] = rows /\ rows # NotLoaded
        /\ \A d \in Categories : d # c => h.models[d] = g.models[d]
    BY <1>2, <1>3, <1>4, ListIsLoaded
  <1>6. 1 \in DOMAIN rows
    BY <1>2, <1>3
  <1>7. \A i \in DOMAIN rows :
          i = 1 \/ \E j \in DOMAIN g.models[c] : j + 1 = i /\ rows[i] = g.models[c][j]
    <2> SUFFICES ASSUME NEW i \in DOMAIN rows, i # 1
                 PROVE  \E j \in DOMAIN g.models[c] : j + 1 = i /\ rows[i] = g.models[c][j]
      OBVIOUS
    <2>1. i - 1 \in DOMAIN g.models[c] /\ rows[i] = g.models[c][i - 1] /\ (i - 1) + 1 = i
      BY <1>3
    <2> QED
      BY <2>1
  <1>8. CurrentDue(O, tasks, h)
    <2> SUFFICES ASSUME g.view = Downloading, k # 0, h.models[Downloading][k].id \in O
                 PROVE  Due(tasks, g.queue, h.models[Downloading][k].id) # NoRow
      BY <1>4 DEF CurrentDue
    <2>1. g.cur # 0
      BY DEF k
    <2>2. h.models[Downloading][k] = g.models[Downloading][g.cur]
      <3>1. CASE c = Downloading
        <4>1. k = g.cur + 1 /\ g.cur <= Len(g.models[c]) /\ g.cur >= 1
          BY <1>2, <2>1, <3>1 DEF k
        <4>2. k \in DOMAIN rows /\ k # 1 /\ k - 1 = g.cur
          BY <1>2, <1>3, <4>1
        <4> QED
          BY <1>3, <1>5, <3>1, <4>2
      <3>2. CASE c # Downloading
        <4>1. k = g.cur
          BY <3>2 DEF k
        <4> QED
          BY <1>5, <3>2, <4>1, StoreAssumption
      <3> QED
        BY <3>1, <3>2
    <2>3. Due(tasks, g.queue, g.models[Downloading][g.cur].id) # NoRow
      BY <2>1, <2>2 DEF Settled, CurrentDue
    <2> QED
      BY <2>2, <2>3
  <1>9. GoneFor(O, tasks, gone, h)
    <2> SUFFICES ASSUME NEW t \in gone \cap O
                 PROVE  /\ Due(tasks, g.queue, t) # NoRow /\ Due(tasks, g.queue, t).sys = Deleted
                        /\ h.models[Deleted] # NotLoaded
                        /\ \A i \in DOMAIN h.models[Deleted] : h.models[Deleted][i].id # t
      BY <1>4 DEF GoneFor
    <2>1. /\ Due(tasks, g.queue, t) # NoRow /\ Due(tasks, g.queue, t).sys = Deleted
          /\ g.models[Deleted] # NotLoaded
          /\ \A i \in DOMAIN g.models[Deleted] : g.models[Deleted][i].id # t
      BY DEF Settled, Placed, GoneFor
    <2>2. CASE c = Deleted
      <3>1. \A i \in DOMAIN rows : rows[i].id # t
        BY <1>3, <1>7, <2>1, <2>2
      <3> QED
        BY <1>5, <2>1, <2>2, <3>1
    <2>3. CASE c # Deleted
      BY <1>5, <2>1, <2>3, StoreAssumption
    <2> QED
      BY <2>2, <2>3
  <1>10. /\ h.view = g.view /\ h.queue = g.queue
         /\ h.models[c] = rows /\ h.models[c] # NotLoaded
         /\ \A d \in Categories : d # c => h.models[d] = g.models[d]
         /\ 1 \in DOMAIN h.models[c] /\ h.models[c][1] = r
         /\ \A i \in DOMAIN h.models[c] :
              i = 1 \/ \E j \in DOMAIN g.models[c] : j + 1 = i /\ h.models[c][i] = g.models[c][j]
    BY <1>3, <1>4, <1>5, <1>6, <1>7
  <1> QED
    BY <1>8, <1>9, <1>10 DEF Atop, rows

\* The row of a task that is at home nowhere, once it is in a list.
LEMMA PrependOwn ==
    ASSUME NEW b, NEW g \in Guis(b), NEW c \in Categories, g.models[c] # NotLoaded,
           NEW r \in RowsTo(b), r.sys = c, NEW O, r.id \in O => NotOwn(g, r.id),
           OwnOnce(O, c, g.models[c])
    PROVE  OwnOnce(O, c, <<r>> \o g.models[c])
  <1> DEFINE old == g.models[c]
             rows == <<r>> \o old
  <1>1. old \in Seq(RowsTo(b))
    BY Parts
  <1>2. /\ rows \in Seq(RowsTo(b)) /\ rows[1] = r
        /\ \A i \in DOMAIN rows : i = 1 \/ (i - 1 \in DOMAIN old /\ rows[i] = old[i - 1])
    BY <1>1, AddedRow
  <1>3. /\ r.id \in O => \A i \in DOMAIN old : old[i].sys = c => old[i].id # r.id
        /\ OwnOnce(O, c, old)
    BY DEF NotOwn
  <1> HIDE DEF rows, old
  <1> SUFFICES ASSUME NEW i \in DOMAIN rows, NEW j \in DOMAIN rows, rows[i].id \in O,
                      rows[i].sys = c, rows[j].sys = c, rows[i].id = rows[j].id
               PROVE  i = j
    BY DEF OwnOnce, rows, old
  <1>4. CASE i = 1 /\ j # 1
    BY <1>2, <1>3, <1>4
  <1>5. CASE i # 1 /\ j = 1
    BY <1>2, <1>3, <1>5
  <1>6. CASE i # 1 /\ j # 1
    <2>1. i - 1 = j - 1
      BY <1>2, <1>3, <1>6 DEF OwnOnce
    <2>2. i \in Nat /\ j \in Nat
      BY <1>2
    <2> QED
      BY <2>1, <2>2
  <1> QED
    BY <1>4, <1>5, <1>6

\* A row that is at home nowhere may be written by the model it was added to.
LEMMA PrependReady ==
    ASSUME NEW b, NEW g \in Guis(b), NEW c \in Categories, g.models[c] # NotLoaded,
           NEW r \in RowsTo(b), r.sys = c, r.dirty,
           NEW O, NEW gone, Settled(O, tasks, gone, g),
           r.id \in O =>
             /\ NotOwn(g, r.id) /\ r.id \notin gone
             /\ tasks[r.id] = NoRow => WritesOf(g.queue, r.id) = {},
           c = Downloading => Quiet(O, g.queue) \/ AllClean(g.models[c]),
           NEW h, h = Prepend(g, c, r)
    PROVE  Ready(O, gone, h, c)
  <1> DEFINE old == g.models[c]
             rows == h.models[c]
  <1>1. Placed(O, tasks, gone, g) /\ CurrentDue(O, tasks, g)
    BY DEF Settled
  <1>2. /\ h.view = g.view /\ h.queue = g.queue
        /\ rows = <<r>> \o old
        /\ \A d \in Categories : d # c => h.models[d] = g.models[d]
        /\ 1 \in DOMAIN rows /\ rows[1] = r
        /\ \A i \in DOMAIN rows :
             i = 1 \/ \E j \in DOMAIN old : j + 1 = i /\ rows[i] = old[j]
        /\ CurrentDue(O, tasks, h) /\ GoneFor(O, tasks, gone, h)
    <2>1. Atop(h, g, c, r) /\ CurrentDue(O, tasks, h) /\ GoneFor(O, tasks, gone, h)
      <3>1. /\ g \in Guis(b) /\ c \in Categories /\ g.models[c] # NotLoaded
            /\ r \in RowsTo(b) /\ Settled(O, tasks, gone, g)
            /\ (r.id \notin gone \cap O \/ c # Deleted) /\ h = Prepend(g, c, r)
        OBVIOUS
      <3> QED
        BY ONLY <3>1, PrependPlaces
    <2> QED
      BY <2>1 DEF Atop
  <1>3. old \in Seq(RowsTo(b)) /\ Homed(c, old)
    BY Parts
  <1>4. OwnOnce(O, c, old)
    BY <1>1 DEF Placed, Rest
  <1>5. OwnOnce(O, c, rows)
    <2>1. r.id \in O => NotOwn(g, r.id)
      OBVIOUS
    <2>2. OwnOnce(O, c, <<r>> \o g.models[c])
      BY <1>4, <2>1, PrependOwn
    <2> QED
      BY <1>2, <2>2
  <1> HIDE DEF rows, old
  <1>6. \A j \in DOMAIN old :
          old[j].id \in O => Agrees(Due(tasks, g.queue, old[j].id), c, old[j])
    BY <1>1, PlacedRow DEF old
  <1>7. ASSUME NEW j \in DOMAIN old, old[j].dirty, old[j].id \in O
        PROVE  /\ c = Downloading /\ old[j].sys = c
               /\ old[j].id \notin gone /\ WritesOf(g.queue, old[j].id) = {}
    <2>1. c = Downloading
      <3>1. Agrees(Due(tasks, g.queue, old[j].id), c, old[j])
        BY <1>6, <1>7
      <3> QED
        BY ONLY <1>7, <3>1, AgreesGives
    <2>2. old[j].sys = c
      <3>1. Listed(c) = {c}
        BY <2>1, StoreAssumption DEF Listed
      <3> QED
        BY <1>3, <3>1 DEF Homed
    <2>3. old[j].id \notin gone
      BY <1>1, <1>7, <2>2, OwnNotGone DEF old
    <2>4. Quiet(O, g.queue)
      BY <1>7, <2>1 DEF AllClean, old
    <2> QED
      BY <1>7, <2>1, <2>2, <2>3, <2>4 DEF Quiet
  <1>8. ASSUME NEW i \in DOMAIN rows, rows[i].dirty, rows[i].id \in O
        PROVE  /\ rows[i].sys = c /\ rows[i].id \notin gone
               /\ tasks[rows[i].id] = NoRow => WritesOf(h.queue, rows[i].id) = {}
    <2>1. CASE i = 1
      BY <1>2, <1>8, <2>1
    <2>2. CASE i # 1
      <3>1. PICK j \in DOMAIN old : rows[i] = old[j]
        BY <1>2, <2>2
      <3> QED
        BY <1>2, <1>7, <1>8, <3>1
    <2> QED
      BY <2>1, <2>2
  <1>9. ASSUME NEW i \in DOMAIN rows, ~rows[i].dirty, rows[i].id \in O
        PROVE  Agrees(Due(tasks, h.queue, rows[i].id), c, rows[i])
    <2>1. i # 1
      BY <1>2, <1>9
    <2>2. PICK j \in DOMAIN old : rows[i] = old[j]
      BY <1>2, <2>1
    <2> QED
      BY <1>2, <1>6, <1>9, <2>2
  <1>10. ASSUME NEW d \in Categories, d # c, h.models[d] # NotLoaded
         PROVE  /\ Rest(O, tasks, h.queue, d, h.models[d])
                /\ \A i \in DOMAIN rows, j \in DOMAIN h.models[d] :
                     rows[i].id \in O /\ rows[i].dirty /\ h.models[d][j].sys = d =>
                        h.models[d][j].id # rows[i].id
    <2>1. h.models[d] = g.models[d] /\ g.models[d] # NotLoaded
      BY <1>2, <1>10
    <2>2. Rest(O, tasks, g.queue, d, g.models[d])
      BY <1>1, <2>1 DEF Placed
    <2>3. ASSUME NEW i \in DOMAIN rows, NEW j \in DOMAIN g.models[d],
                 rows[i].id \in O, rows[i].dirty, g.models[d][j].sys = d,
                 g.models[d][j].id = rows[i].id
          PROVE  FALSE
      <3>1. CASE i = 1
        BY <1>2, <2>1, <2>3, <3>1 DEF NotOwn
      <3>2. CASE i # 1
        <4>1. PICK m \in DOMAIN old : rows[i] = old[m]
          BY <1>2, <3>2
        <4>2. old[m].sys = c
          BY <1>7, <2>3, <4>1
        <4> QED
          BY <1>1, <1>10, <2>1, <2>3, <4>1, <4>2, OneOwner DEF old
      <3> QED
        BY <3>1, <3>2
    <2> QED
      BY <1>2, <2>1, <2>2, <2>3
  <1>11. Ordered(O, tasks, h.queue)
    BY <1>1, <1>2 DEF Placed
  <1>12. h.view = Downloading /\ h.cur # 0 /\ h.models[Downloading][h.cur].id \in O =>
            Due(tasks, h.queue, h.models[Downloading][h.cur].id) # NoRow
    BY <1>2 DEF CurrentDue
  <1>13. GoneFor(O, tasks, gone, h)
    BY <1>2
  <1>14. \A i \in DOMAIN h.models[c] : h.models[c][i].id \in O =>
           /\ h.models[c][i].dirty =>
                /\ h.models[c][i].sys = c /\ h.models[c][i].id \notin gone
                /\ tasks[h.models[c][i].id] = NoRow =>
                     WritesOf(h.queue, h.models[c][i].id) = {}
           /\ ~h.models[c][i].dirty =>
                Agrees(Due(tasks, h.queue, h.models[c][i].id), c, h.models[c][i])
    BY <1>8, <1>9 DEF rows
  <1>15. /\ OwnOnce(O, c, h.models[c])
         /\ \A d \in Categories : d # c /\ h.models[d] # NotLoaded =>
              /\ Rest(O, tasks, h.queue, d, h.models[d])
              /\ \A i \in DOMAIN h.models[c], j \in DOMAIN h.models[d] :
                   h.models[c][i].id \in O /\ h.models[c][i].dirty /\ h.models[d][j].sys = d =>
                       h.models[d][j].id # h.models[c][i].id
    BY <1>5, <1>10 DEF rows
  <1> QED
    BY ONLY <1>11, <1>12, <1>13, <1>14, <1>15, Zenon DEF Ready

\* A new task that the table knows nothing of joins the list, or one that nothing
\* is promised of.
LEMMA PrependNew ==
    ASSUME NEW b, NEW g \in Guis(b), NEW r \in RowsTo(b), r.sys = Downloading, r.dirty,
           NEW O, NEW gone, Settled(O, tasks, gone, g),
           r.id \in O => NotOwn(g, r.id) /\ Due(tasks, g.queue, r.id) = NoRow,
           NEW h, h = Prepend(g, Downloading, r)
    PROVE  Settled(O, tasks, gone, h)
  <1> DEFINE old == g.models[Downloading]
             rows == h.models[Downloading]
  <1>1. Placed(O, tasks, gone, g) /\ CurrentDue(O, tasks, g)
    BY DEF Settled
  <1>2. old # NotLoaded /\ old \in Seq(RowsTo(b)) /\ Downloading \in Categories
    BY Parts
  <1>3. /\ h.view = g.view /\ h.queue = g.queue
        /\ rows = <<r>> \o old
        /\ \A d \in Categories : d # Downloading => h.models[d] = g.models[d]
        /\ 1 \in DOMAIN rows /\ rows[1] = r
        /\ \A i \in DOMAIN rows :
             i = 1 \/ \E j \in DOMAIN old : j + 1 = i /\ rows[i] = old[j]
        /\ CurrentDue(O, tasks, h) /\ GoneFor(O, tasks, gone, h)
    <2>1. /\ Atop(h, g, Downloading, r)
          /\ CurrentDue(O, tasks, h) /\ GoneFor(O, tasks, gone, h)
      <3>1. /\ g \in Guis(b) /\ Downloading \in Categories /\ g.models[Downloading] # NotLoaded
            /\ r \in RowsTo(b) /\ Settled(O, tasks, gone, g)
            /\ (r.id \notin gone \cap O \/ Downloading # Deleted)
            /\ h = Prepend(g, Downloading, r)
        BY <1>2, DeletedIsOther
      <3> QED
        BY ONLY <3>1, PrependPlaces
    <2> QED
      BY <2>1 DEF Atop
  <1>4. OwnOnce(O, Downloading, old)
    BY <1>1, <1>2 DEF Placed, Rest
  <1>5. OwnOnce(O, Downloading, rows)
    BY <1>2, <1>3, <1>4, PrependOwn
  <1> HIDE DEF rows, old
  <1>6. \A j \in DOMAIN old :
          old[j].id \in O => Agrees(Due(tasks, g.queue, old[j].id), Downloading, old[j])
    BY <1>1, <1>2, PlacedRow DEF old
  <1>7. ASSUME r.id \in O PROVE Agrees(Due(tasks, g.queue, r.id), Downloading, r)
    BY <1>7, Zenon DEF Agrees
  <1>8. ASSUME NEW i \in DOMAIN rows, rows[i].id \in O
        PROVE  Agrees(Due(tasks, h.queue, rows[i].id), Downloading, rows[i])
    <2>1. CASE i = 1
      BY <1>3, <1>7, <1>8, <2>1
    <2>2. CASE i # 1
      <3>1. PICK j \in DOMAIN old : rows[i] = old[j]
        BY <1>3, <2>2
      <3> QED
        BY <1>3, <1>6, <1>8, <3>1
    <2> QED
      BY <2>1, <2>2
  <1>9. Rest(O, tasks, h.queue, Downloading, rows)
    BY <1>5, <1>8 DEF Rest
  <1>10. \A d \in Categories : h.models[d] # NotLoaded => Rest(O, tasks, h.queue, d, h.models[d])
    BY <1>1, <1>3, <1>9 DEF Placed, rows
  <1> QED
    BY <1>1, <1>3, <1>10 DEF Settled, Placed

-----------------------------------------------------------------------------
(* Moving a task, and choosing another category *)

LEMMA MovesSettled ==
    ASSUME NEW b, TableTo(b), NEW g \in Guis(b), NEW src \in Categories, NEW dest \in Categories,
           dest = Downloading => src = Downloading,
           g.models[src] # NotLoaded, NEW k \in DOMAIN g.models[src],
           g.models[src][k].sys = src,
           NEW O, NEW gone, Settled(O, tasks, gone, g), Quiet(O, g.queue),
           NEW h \in Moves(g, src, dest, k)
    PROVE  Settled(O, tasks, gone, h) /\ h.models[dest] # NotLoaded /\ h \in Guis(b)
  <1> DEFINE g0 == Instance(g, src)
             g1 == Instance(g0, dest)
             r == Moved(g1.models[src], k, dest)
  <1>1. /\ g0 \in Guis(b) /\ g0.models[src] = g.models[src]
        /\ Settled(O, tasks, gone, g0) /\ Quiet(O, g0.queue)
    <2>1. Quiet(O, g.queue) \/ g.models[src] # NotLoaded
      OBVIOUS
    <2> QED
      BY <2>1, InstanceKept, InstanceSettled
  <1>2. /\ g1 \in Guis(b) /\ g1.models[src] = g.models[src]
        /\ g1.models[dest] \in Seq(RowsTo(b))
        /\ Settled(O, tasks, gone, g1) /\ Quiet(O, g1.queue)
    <2> HIDE DEF g0
    <2>1. Quiet(O, g0.queue) \/ g0.models[dest] # NotLoaded
      BY <1>1
    <2> QED
      BY <1>1, <2>1, InstanceKept, InstanceSettled
  <1>3. PICK x \in Removes(g1, src, k) : h \in Submits(Prepend(x, dest, r), dest)
    BY DEF Moves
  <1>4. r \in RowsTo(b) /\ r.id = g1.models[src][k].id /\ r.sys = dest /\ r.dirty = TRUE
    <2>1. g1.models[src] \in Seq(RowsTo(b)) /\ k \in DOMAIN g1.models[src]
      BY <1>2, Parts
    <2>2. g1.models[src][k] \in RowsTo(b)
      BY <2>1
    <2> HIDE DEF g1
    <2> QED
      BY <2>2 DEF Moved, Rows, RowsTo
  <1> HIDE DEF g1, r, g0
  <1>5. /\ x \in Guis(b) /\ x.models[dest] # NotLoaded
        /\ src = Downloading =>
             \A i \in DOMAIN x.models[src] : x.models[src][i].id # r.id
    BY <1>2, <1>4, RemovesKept, ListIsLoaded
  <1>6. /\ Settled(O, tasks, gone, x)
        /\ src = Downloading => Quiet(O, x.queue) \/ AllClean(x.models[src])
        /\ g1.models[src][k].id \in O =>
             /\ g1.models[src][k].sys = src => NotOwn(x, g1.models[src][k].id)
             /\ tasks[g1.models[src][k].id] = NoRow =>
                  WritesOf(x.queue, g1.models[src][k].id) = {}
    BY <1>2, RemovesSettled
  <1>7. ASSUME r.id \in O PROVE r.id \notin gone
    <2>1. Placed(O, tasks, gone, g1) /\ k \in DOMAIN g1.models[src] /\ g1.models[src] # NotLoaded
      BY <1>2 DEF Settled
    <2> QED
      BY <1>2, <1>4, <1>7, <2>1, OwnNotGone
  <1> DEFINE y == Prepend(x, dest, r)
  <1>8. y \in Guis(b) /\ y.models[dest] # NotLoaded
    BY <1>4, <1>5, PrependKept, ListIsLoaded
  <1>9. Ready(O, gone, y, dest)
    <2>1. /\ x \in Guis(b) /\ dest \in Categories /\ x.models[dest] # NotLoaded
          /\ r \in RowsTo(b) /\ r.sys = dest /\ r.dirty /\ Settled(O, tasks, gone, x)
          /\ r.id \in O =>
               /\ NotOwn(x, r.id) /\ r.id \notin gone
               /\ tasks[r.id] = NoRow => WritesOf(x.queue, r.id) = {}
          /\ dest = Downloading => Quiet(O, x.queue) \/ AllClean(x.models[dest])
      <3>1. /\ x \in Guis(b) /\ dest \in Categories /\ x.models[dest] # NotLoaded
            /\ r \in RowsTo(b) /\ r.sys = dest /\ r.dirty /\ Settled(O, tasks, gone, x)
        BY <1>4, <1>5, <1>6
      <3>2. dest = Downloading => Quiet(O, x.queue) \/ AllClean(x.models[dest])
        BY <1>6
      <3>3. r.id \in O =>
              /\ NotOwn(x, r.id) /\ r.id \notin gone
              /\ tasks[r.id] = NoRow => WritesOf(x.queue, r.id) = {}
        BY <1>2, <1>4, <1>6, <1>7
      <3> QED
        BY <3>1, <3>2, <3>3
    <2> QED
      BY ONLY <2>1, PrependReady
  <1>10. h \in Submits(y, dest)
    BY <1>3
  <1> HIDE DEF y
  <1>11. Settled(O, tasks, gone, h)
    BY <1>8, <1>9, <1>10, SubmitSettles
  <1>12. h \in Guis(b) /\ h.models[dest] # NotLoaded
    BY <1>8, <1>10, SubmitsKept, ListIsLoaded
  <1> QED
    BY <1>11, <1>12

LEMMA ShowsSettled ==
    ASSUME NEW b, TableTo(b), NEW g \in Guis(b), NEW c \in Categories,
           NEW O, NEW gone, Settled(O, tasks, gone, g), Quiet(O, g.queue) \/ g.models[c] # NotLoaded,
           NEW h \in Shows(g, c)
    PROVE  Settled(O, tasks, gone, h)
  <1>1. CASE c = g.view
    BY <1>1 DEF Shows
  <1>2. CASE c # g.view
    <2>1. Chosen(b, g, c, h)
      BY <1>2, ShowsForm
    <2>2. PICK g1 \in Guis(b) :
            /\ g1 = Record(Instance(g, c).models, c, 0, Instance(g, c).queue)
            /\ g1.models[g.view] # NotLoaded
            /\ \/ h = g1
               \/ /\ g.view \notin {Downloading, Deleted}
                  /\ \E x \in Submits(g1, g.view) :
                       h = Record([x.models EXCEPT ![g.view] = NotLoaded], c, 0, x.queue)
      BY <2>1 DEF Chosen
    <2>3. Settled(O, tasks, gone, Instance(g, c))
      BY InstanceSettled
    <2>4. /\ g1.models = Instance(g, c).models /\ g1.queue = Instance(g, c).queue
          /\ g1.view = c /\ g1.cur = 0
      BY <2>2 DEF Record
    <2>5. Settled(O, tasks, gone, g1)
      BY <2>3, <2>4 DEF Settled, Placed, GoneFor, CurrentDue
    <2>6. CASE h # g1
      <3>1. PICK x \in Submits(g1, g.view) :
              h = Record([x.models EXCEPT ![g.view] = NotLoaded], c, 0, x.queue)
        BY <2>2, <2>6
      <3>2. g.view \in Categories /\ g.view \notin {Downloading, Deleted}
        BY <2>2, <2>6, Parts
      <3>3. Settled(O, tasks, gone, x) /\ x \in Guis(b)
        <4>1. /\ g1 \in Guis(b) /\ g.view \in Categories /\ g1.models[g.view] # NotLoaded
              /\ Placed(O, tasks, gone, g1) /\ x \in Submits(g1, g.view)
              /\ CurrentDue(O, tasks, g1) \/ g.view = g1.view
              /\ Quiet(O, g1.queue) \/ g.view # Downloading
          BY <2>2, <2>5, <3>2 DEF Settled
        <4> QED
          BY ONLY <4>1, PlainSubmit, SubmitsKept
      <3>4. /\ h.models = [x.models EXCEPT ![g.view] = NotLoaded]
            /\ h.view = c /\ h.cur = 0 /\ h.queue = x.queue
        BY <3>1 DEF Record
      <3>5. /\ h.models[g.view] = NotLoaded
            /\ \A d \in Categories : d # g.view => h.models[d] = x.models[d]
        BY <3>2, <3>3, <3>4, Parts
      <3>6. \A d \in Categories : h.models[d] # NotLoaded => Rest(O, tasks, h.queue, d, h.models[d])
        BY <3>3, <3>4, <3>5 DEF Settled, Placed
      <3>7. h.models[Deleted] = x.models[Deleted]
        BY <3>2, <3>5, StoreAssumption
      <3>8. GoneFor(O, tasks, gone, h)
        BY <3>3, <3>4, <3>7 DEF Settled, Placed, GoneFor
      <3> QED
        BY <3>3, <3>4, <3>6, <3>8 DEF Settled, Placed, CurrentDue
    <2> QED
      BY <2>5, <2>6
  <1> QED
    BY <1>1, <1>2

-----------------------------------------------------------------------------
(* The database thread *)

\* A write executed leaves what is due as it was, and no INSERT after it fails.
\* The write of a task outside O may have failed.
LEMMA ExecutedDue ==
    ASSUME NEW b, NEW q \in Seq(WritesTo(b)), q # <<>>, NEW O, NEW tab, Ordered(O, tab, q),
           DOMAIN tab = Ids, NEW new,
           \/ new = [tab EXCEPT ![Head(q).id] = Head(q).to]
           \/ new = tab /\ Head(q).id \notin O
    PROVE  /\ Ordered(O, new, Tail(q))
           /\ \A t \in Ids \cap O : Due(new, Tail(q), t) = Due(tab, q, t)
  <1> DEFINE w == Head(q)
             p == Tail(q)
             n == Len(p)
  <1>1. /\ p \in Seq(WritesTo(b)) /\ n \in Nat /\ DOMAIN p = 1..n /\ DOMAIN q = 1..(n + 1)
        /\ q[1] = w /\ w \in WritesTo(b) /\ \A i \in 1..n : p[i] = q[i + 1]
    <2>1. /\ p \in Seq(WritesTo(b)) /\ Len(p) = Len(q) - 1 /\ w \in WritesTo(b)
          /\ \A i \in 1..Len(p) : p[i] = q[i + 1]
      BY HeadTailProperties
    <2>2. q[1] = w
      OBVIOUS
    <2>3. Len(q) \in Nat /\ DOMAIN q = 1..Len(q) /\ Len(p) \in Nat /\ DOMAIN p = 1..Len(p)
      BY <2>1
    <2> HIDE DEF p
    <2>4. Len(q) = n + 1
      BY <2>1, <2>3
    <2> QED
      BY <2>1, <2>2, <2>3, <2>4
  <1>2. w.id \in Ids
    BY <1>1 DEF WritesTo, Writes
  <1> HIDE DEF w, p, n
  <1>3. /\ w.id \in O => new[w.id] = w.to
        /\ \A t \in Ids : t # w.id => new[t] = tab[t]
    BY <1>2 DEF w
  <1>4. /\ 1 \in 1..(n + 1)
        /\ \A i \in 1..n : i + 1 \in 1..(n + 1) /\ 1 < i + 1
        /\ \A j \in 1..(n + 1) : j = 1 \/ (j - 1 \in 1..n /\ q[j] = p[j - 1] /\ (j - 1) + 1 = j)
    <2>1. \A i \in 1..n : i + 1 \in 1..(n + 1) /\ 1 < i + 1
      BY <1>1
    <2>2. ASSUME NEW j \in 1..(n + 1), j # 1
          PROVE  j - 1 \in 1..n /\ q[j] = p[j - 1] /\ (j - 1) + 1 = j
      <3>1. j - 1 \in 1..n /\ (j - 1) + 1 = j
        BY <1>1, <2>2
      <3> QED
        BY <1>1, <3>1
    <2> QED
      BY <1>1, <2>1, <2>2
  <1>6. Ordered(O, new, p)
    <2> SUFFICES ASSUME NEW i \in 1..n, p[i].op = "insert", p[i].id \in O
                 PROVE  /\ new[p[i].id] = NoRow
                        /\ \A j \in 1..n : j < i => p[j].id # p[i].id
      BY <1>1 DEF Ordered
    <2>1. i + 1 \in 1..(n + 1) /\ 1 < i + 1 /\ q[i + 1] = p[i]
      BY <1>1, <1>4
    <2>2. tab[p[i].id] = NoRow /\ \A j \in 1..(n + 1) : j < i + 1 => q[j].id # p[i].id
      BY <1>1, <2>1 DEF Ordered
    <2>3. w.id # p[i].id
      BY <1>1, <1>4, <2>1, <2>2
    <2>4. p[i].id \in Ids
      <3>1. p[i] \in WritesTo(b)
        BY <1>1
      <3> QED
        BY <3>1 DEF WritesTo, Writes
    <2>5. \A j \in 1..n : j < i => p[j].id # p[i].id
      <3> SUFFICES ASSUME NEW j \in 1..n, j < i PROVE p[j].id # p[i].id
        OBVIOUS
      <3>1. j + 1 \in 1..(n + 1) /\ j + 1 < i + 1 /\ p[j] = q[j + 1]
        BY <1>1, <1>4
      <3> QED
        BY <2>2, <3>1
    <2> QED
      BY <1>3, <2>2, <2>3, <2>4, <2>5
  <1>7. ASSUME NEW t \in Ids \cap O PROVE Due(new, p, t) = Due(tab, q, t)
    <2>1. CASE WritesOf(p, t) = {}
      <3>1. \A i \in 1..n : p[i].id # t
        BY <1>1, <2>1 DEF WritesOf
      <3>2. \A j \in WritesOf(q, t) : j = 1
        BY <1>1, <1>4, <3>1 DEF WritesOf
      <3>3. Due(new, p, t) = new[t]
        BY <2>1 DEF Due
      <3>4. CASE w.id = t
        <4>1. 1 \in WritesOf(q, t) /\ \A j \in WritesOf(q, t) : j <= 1
          BY <1>1, <1>4, <3>2, <3>4 DEF WritesOf
        <4>2. Due(tab, q, t) = q[1].to
          BY <4>1, DueIs
        <4> QED
          BY <1>1, <1>3, <3>3, <3>4, <4>2
      <3>5. CASE w.id # t
        <4>1. WritesOf(q, t) = {}
          BY <1>1, <3>2, <3>5 DEF WritesOf
        <4>2. Due(tab, q, t) = tab[t]
          BY <4>1 DEF Due
        <4> QED
          BY <1>3, <3>3, <3>5, <4>2
      <3> QED
        BY <3>4, <3>5
    <2>2. CASE WritesOf(p, t) # {}
      <3> DEFINE l == LastWrite(p, t)
      <3>1. l \in WritesOf(p, t) /\ \A j \in WritesOf(p, t) : j <= l
        BY <1>1, <2>2, LastWriteIs
      <3>2. Due(new, p, t) = p[l].to
        BY <2>2 DEF Due
      <3> HIDE DEF l
      <3>3. l \in 1..n /\ p[l].id = t /\ p[l] = q[l + 1] /\ l + 1 \in 1..(n + 1)
        BY <1>1, <1>4, <3>1 DEF WritesOf
      <3>4. l + 1 \in WritesOf(q, t)
        BY <1>1, <3>3 DEF WritesOf
      <3>5. ASSUME NEW j \in WritesOf(q, t) PROVE j <= l + 1
        <4>1. j \in 1..(n + 1) /\ q[j].id = t
          BY <1>1, <3>5 DEF WritesOf
        <4>2. CASE j = 1
          BY <1>1, <3>3, <4>2
        <4>3. CASE j # 1
          <5>1. j - 1 \in WritesOf(p, t)
            BY <1>1, <1>4, <4>1, <4>3 DEF WritesOf
          <5>2. j - 1 <= l
            BY <3>1, <5>1
          <5> QED
            BY <1>1, <3>3, <4>1, <5>2
        <4> QED
          BY <4>2, <4>3
      <3>6. Due(tab, q, t) = q[l + 1].to
        BY <3>4, <3>5, DueIs
      <3> QED
        BY <3>2, <3>3, <3>6
    <2> QED
      BY <2>1, <2>2
  <1> QED
    BY <1>6, <1>7 DEF p

\* Records of the same models whose writes come to the same are settled alike.
LEMMA SettledSame ==
    ASSUME NEW b, NEW g \in Guis(b), NEW tab, NEW O, NEW gone, gone \subseteq Ids,
           Settled(O, tab, gone, g), NEW h, h.models = g.models, h.view = g.view, h.cur = g.cur,
           NEW new, Ordered(O, new, h.queue),
           \A t \in Ids \cap O : Due(new, h.queue, t) = Due(tab, g.queue, t)
    PROVE  Settled(O, new, gone, h)
  <1>1. ASSUME NEW c \in Categories, g.models[c] # NotLoaded
        PROVE  /\ Rest(O, new, h.queue, c, g.models[c])
               /\ \A i \in DOMAIN g.models[c] : g.models[c][i].id \in Ids
    <2>1. \A i \in DOMAIN g.models[c] : g.models[c][i].id \in Ids
      <3>1. g.models[c] \in Seq(RowsTo(b))
        BY <1>1, Parts
      <3> QED
        BY <3>1, CleanedRow
    <2>2. Rest(O, tab, g.queue, c, g.models[c])
      BY <1>1 DEF Settled, Placed
    <2> QED
      BY <2>1, <2>2 DEF Rest
  <1>2. GoneFor(O, new, gone, h)
    BY DEF Settled, Placed, GoneFor
  <1>3. CurrentDue(O, new, h)
    <2> SUFFICES ASSUME g.view = Downloading, g.cur # 0,
                        g.models[Downloading][g.cur].id \in O
                 PROVE  Due(new, h.queue, g.models[Downloading][g.cur].id) # NoRow
      BY DEF CurrentDue
    <2>1. g.cur \in DOMAIN g.models[Downloading]
      <3>1. /\ g.cur \in Nat /\ g.cur <= Len(g.models[Downloading])
            /\ g.models[Downloading] \in Seq(RowsTo(b))
        BY Parts
      <3> QED
        BY <3>1
    <2>2. g.models[Downloading][g.cur].id \in Ids
      BY <1>1, <2>1, Parts
    <2> QED
      BY <2>2 DEF Settled, CurrentDue
  <1> QED
    BY <1>1, <1>2, <1>3 DEF Settled, Placed

-----------------------------------------------------------------------------
(* Reports and new tasks *)

\* A report changes neither whose row it is nor where it belongs.
LEMMA RowRefreshed ==
    ASSUME NEW b, NEW g \in Guis(b), NEW O, NEW gone, Settled(O, tasks, gone, g),
           NEW k \in DOMAIN g.models[Downloading], NEW h,
           h.models = [g.models EXCEPT ![Downloading][k] =
                          [@ EXCEPT !.status = "active", !.dirty = TRUE]],
           h.view = g.view, h.cur = g.cur, h.queue = g.queue
    PROVE  Settled(O, tasks, gone, h)
  <1> DEFINE rows == g.models[Downloading]
             e == [rows[k] EXCEPT !.status = "active", !.dirty = TRUE]
             new == [rows EXCEPT ![k] = e]
  <1>1. /\ rows \in Seq(RowsTo(b)) /\ rows # NotLoaded /\ Homed(Downloading, rows)
        /\ Downloading \in Categories
        /\ g.models \in [Categories -> Seq(RowsTo(b)) \cup {NotLoaded}]
    BY Parts
  <1>2. e.id = rows[k].id /\ e.sys = rows[k].sys /\ e.dirty = TRUE
    <2>1. rows[k] \in Rows
      BY <1>1 DEF RowsTo
    <2> QED
      BY <2>1 DEF Rows
  <1>3. h.models = [g.models EXCEPT ![Downloading] = new]
    OBVIOUS
  <1> HIDE DEF e
  <1>4. /\ DOMAIN new = DOMAIN rows
        /\ \A i \in DOMAIN rows : new[i].id = rows[i].id /\ new[i].sys = rows[i].sys
        /\ \A i \in DOMAIN rows : i = k \/ new[i] = rows[i]
        /\ new[k] = e
    BY <1>2
  <1>5. h.models[Downloading] = new /\ \A d \in Categories : d # Downloading => h.models[d] = g.models[d]
    BY <1>1, <1>3
  <1> HIDE DEF new, rows
  <1>6. ASSUME NEW i \in DOMAIN rows, new[i].id \in O
        PROVE  Agrees(Due(tasks, g.queue, new[i].id), Downloading, new[i])
    <2> DEFINE due == Due(tasks, g.queue, rows[i].id)
    <2>1. Agrees(due, Downloading, rows[i])
      BY <1>1, <1>4, <1>6, PlacedRow DEF Settled, rows
    <2>2. rows[i].sys = Downloading
      <3>1. Listed(Downloading) = {Downloading}
        BY StoreAssumption DEF Listed
      <3> QED
        BY <1>1, <3>1 DEF Homed
    <2> HIDE DEF due
    <2>3. due # NoRow => due.sys = Downloading
      BY <2>1, <2>2, AgreesGives, Zenon
    <2>4. CASE i = k
      <3>1. e.dirty
        BY <1>2
      <3>2. Agrees(due, Downloading, e)
        BY ONLY <2>3, <3>1, Zenon DEF Agrees
      <3> QED
        BY <1>2, <1>4, <2>4, <3>2 DEF due
    <2>5. CASE i # k
      BY <1>4, <2>1, <2>5 DEF due
    <2> QED
      BY <2>4, <2>5
  <1>7. OwnOnce(O, Downloading, new)
    <2>1. OwnOnce(O, Downloading, rows)
      BY <1>1 DEF Settled, Placed, Rest, rows
    <2> QED
      BY <1>4, <2>1 DEF OwnOnce
  <1>8. Rest(O, tasks, g.queue, Downloading, new)
    BY <1>4, <1>6, <1>7 DEF Rest
  <1>9. \A d \in Categories : h.models[d] # NotLoaded => Rest(O, tasks, h.queue, d, h.models[d])
    BY <1>5, <1>8 DEF Settled, Placed
  <1>10. GoneFor(O, tasks, gone, h)
    <2>1. h.models[Deleted] = g.models[Deleted]
      BY <1>5, DeletedIsOther, StoreAssumption
    <2> QED
      BY <2>1 DEF Settled, Placed, GoneFor
  <1>11. CurrentDue(O, tasks, h)
    <2> SUFFICES ASSUME g.view = Downloading, g.cur # 0, new[g.cur].id \in O
                 PROVE  Due(tasks, g.queue, new[g.cur].id) # NoRow
      BY <1>5 DEF CurrentDue
    <2>1. g.cur \in DOMAIN rows
      <3>1. g.cur \in Nat /\ g.cur <= Len(rows)
        BY Parts DEF rows
      <3> QED
        BY <1>1, <3>1
    <2>2. Due(tasks, g.queue, rows[g.cur].id) # NoRow
      BY <1>4, <2>1 DEF Settled, CurrentDue, rows
    <2> QED
      BY <1>4, <2>1, <2>2
  <1> QED
    BY <1>9, <1>10, <1>11 DEF Settled, Placed

\* A task with an id above all others joins the list, or one that nothing is
\* promised of.
LEMMA AddedSettled ==
    ASSUME NEW a \in Int, NEW b \in Int, a <= b, TableTo(a), NEW g \in Guis(a),
           NEW t \in Ids, t <= b, NEW user \in Categories,
           NEW O, NEW gone, Settled(O, tasks, gone, g), t \in O => a < t
    PROVE  Settled(O, tasks, gone, AddTaskModel(g, t, user))
  <1> DEFINE r == [id |-> t, sys |-> Downloading, user |-> user,
                   status |-> "ready", dirty |-> TRUE]
  <1>1. g \in Guis(b)
    BY Further
  <1>2. r \in RowsTo(b) /\ r.id = t /\ r.sys = Downloading /\ r.dirty = TRUE
    BY StoreAssumption DEF Rows, RowsTo, Statuses
  <1>3. ASSUME a < t, NEW c \in Categories, g.models[c] # NotLoaded
        PROVE  \A i \in DOMAIN g.models[c] : g.models[c][i].id # t
    <2>1. g.models[c] \in Seq(RowsTo(a))
      BY <1>3, Parts
    <2>2. \A i \in DOMAIN g.models[c] : g.models[c][i].id \in Ids /\ g.models[c][i].id <= a
      BY <2>1 DEF RowsTo, Rows
    <2> QED
      BY <1>3, <2>2 DEF Ids
  <1>4. ASSUME a < t PROVE Due(tasks, g.queue, t) = NoRow
    <2>1. g.queue \in Seq(WritesTo(a))
      BY Parts
    <2>2. \A i \in DOMAIN g.queue : g.queue[i].id \in Ids /\ g.queue[i].id <= a
      BY <2>1 DEF WritesTo, Writes
    <2>3. WritesOf(g.queue, t) = {}
      BY <1>4, <2>2 DEF WritesOf, Ids
    <2>4. tasks[t] = NoRow
      BY <1>4 DEF TableTo, Ids
    <2> QED
      BY <2>3, <2>4 DEF Due
  <1> HIDE DEF r
  <1>5. r.id \in O => NotOwn(g, r.id) /\ Due(tasks, g.queue, r.id) = NoRow
    <2>1. ASSUME a < t PROVE NotOwn(g, t)
      BY <1>3, <2>1 DEF NotOwn
    <2> QED
      BY <1>2, <1>4, <2>1
  <1>6. CASE Find(g.models[Downloading], t) # 0
    BY <1>6 DEF AddTaskModel
  <1>7. CASE Find(g.models[Downloading], t) = 0
    <2>1. AddTaskModel(g, t, user) = Prepend(g, Downloading, r)
      BY <1>7 DEF AddTaskModel, r
    <2>2. Settled(O, tasks, gone, Prepend(g, Downloading, r))
      BY <1>1, <1>2, <1>5, PrependNew
    <2> QED
      BY <2>1, <2>2
  <1> QED
    BY <1>6, <1>7

-----------------------------------------------------------------------------
(* The invariant is kept *)

Here == Settled(Orderly, tasks, purged, Gui)

LEMMA GuiParts == /\ Gui.models = models /\ Gui.view = view /\ Gui.cur = cur /\ Gui.queue = queue
                  /\ Gui = Record(models, view, cur, queue)
  BY DEF Gui, Record

\* A handler that asks the database begins: the tasks still orderly are those with
\* no write waiting.
LEMMA Asking ==
    ASSUME IInv, Here, AskingIdle, strayed' = strayed
    PROVE  \E O : /\ O = Orderly' /\ TableTo(seq) /\ Gui \in Guis(seq)
                 /\ Settled(O, tasks, purged, Gui) /\ Quiet(O, Gui.queue)
  <1> DEFINE P == Ids \ (late' \cup strayed')
  <1>1. P = Orderly' /\ P \subseteq Orderly
    BY DEF Orderly, AskingIdle
  <1>2. TableTo(seq) /\ Gui \in Guis(seq) /\ Gui.queue = queue
    BY Flagged, GuiParts DEF AskingIdle, Idle
  <1>3. Settled(P, tasks, purged, Gui)
    <2>1. Settled(Orderly, tasks, purged, Gui)
      BY DEF Here
    <2> HIDE DEF P
    <2> QED
      BY <1>1, <2>1, SettledFewer
  <1>4. Quiet(P, queue)
    <2>1. \A k \in DOMAIN queue : queue[k].id \in late'
      BY DEF AskingIdle
    <2> QED
      BY <2>1 DEF Quiet, WritesOf
  <1> HIDE DEF P
  <1> QED
    BY <1>1, <1>2, <1>3, <1>4

LEMMA HereAfter ==
    ASSUME NEW b, NEW g \in Guis(b), Become(g), tasks' = tasks,
           NEW O, O = Orderly', Settled(O, tasks, purged', g)
    PROVE  Here'
  <1>1. Gui' = g
    <2>1. g = [models |-> g.models, view |-> g.view, cur |-> g.cur, queue |-> g.queue]
      BY Parts DEF Record
    <2>2. Gui' = [models |-> g.models, view |-> g.view, cur |-> g.cur, queue |-> g.queue]
      BY DEF Become, Gui
    <2> QED
      BY <2>1, <2>2
  <1> QED
    BY <1>1 DEF Here

LEMMA InitHere == Init => Here
  <1> SUFFICES ASSUME Init PROVE Here
    OBVIOUS
  <1>1. /\ \A c \in Categories : models[c] # NotLoaded => models[c] = <<>>
        /\ queue = <<>> /\ cur = 0 /\ purged = {}
    BY DEF Init
  <1>2. \A c : Rest(Orderly, tasks, <<>>, c, <<>>)
    BY DEF Rest, OwnOnce
  <1>3. Ordered(Orderly, tasks, <<>>)
    BY DEF Ordered
  <1> QED
    BY <1>1, <1>2, <1>3, GuiParts DEF Here, Settled, Placed, GoneFor, CurrentDue

LEMMA SelectHere ==
    ASSUME IInv, Here,
           (\E c \in Views : SelectCategory(c)) \/ (\E i \in DOMAIN models[view] : SelectRow(i))
    PROVE  Here'
  <1>1. ASSUME NEW c \in Views, SelectCategory(c)
        PROVE  Here'
    <2>1. PICK g \in Shows(Gui, c) : Become(g)
      BY <1>1 DEF SelectCategory
    <2>2. tasks' = tasks /\ purged' = purged /\ strayed' = strayed /\ AskingIdle
      BY <1>1 DEF SelectCategory, file
    <2>3. PICK O : /\ O = Orderly' /\ TableTo(seq) /\ Gui \in Guis(seq)
                   /\ Settled(O, tasks, purged, Gui) /\ Quiet(O, Gui.queue)
      BY <2>2, Asking
    <2>4. c \in Categories
      BY StoreAssumption
    <2>5. g \in Guis(seq)
      BY <2>1, <2>3, <2>4, ShowsKept
    <2>6. Quiet(O, Gui.queue) \/ Gui.models[c] # NotLoaded
      BY <2>3
    <2>7. Settled(O, tasks, purged, g)
      BY <2>1, <2>3, <2>4, <2>6, ShowsSettled
    <2> QED
      BY <2>1, <2>2, <2>3, <2>5, <2>7, HereAfter
  <1>2. ASSUME NEW i \in DOMAIN models[view], SelectRow(i)
        PROVE  Here'
    <2> DEFINE g0 == [Gui EXCEPT !.cur = i]
    <2>1. PICK g \in Submits(g0, view) : Become(g)
      BY <1>2 DEF SelectRow
    <2>2. tasks' = tasks /\ purged' = purged /\ strayed' = strayed /\ AskingIdle
      BY <1>2 DEF SelectRow, file
    <2>3. PICK O : /\ O = Orderly' /\ TableTo(seq) /\ Gui \in Guis(seq)
                   /\ Settled(O, tasks, purged, Gui) /\ Quiet(O, Gui.queue)
      BY <2>2, Asking
    <2>4. /\ g0 = Record(models, view, i, queue)
          /\ g0.models = models /\ g0.view = view /\ g0.queue = queue
      BY DEF Gui, Record
    <2>5. i \in Nat /\ i <= Len(models[view]) /\ view \in Categories /\ models[view] # NotLoaded
      BY LoadedModel
    <2>6. g0 \in Guis(seq)
      BY <2>3, <2>4, <2>5 DEF Guis, Record, Gui
    <2> HIDE DEF g0
    <2>7. Placed(O, tasks, purged, g0)
      BY <2>3, <2>4, GuiParts DEF Settled, Placed, GoneFor
    <2>8. /\ CurrentDue(O, tasks, g0) \/ view = g0.view
          /\ Quiet(O, g0.queue) \/ view # Downloading
          /\ g0.models[view] # NotLoaded
      BY <2>3, <2>4, <2>5, GuiParts
    <2>9. Settled(O, tasks, purged, g) /\ g \in Guis(seq)
      BY ONLY <2>1, <2>5, <2>6, <2>7, <2>8, PlainSubmit, SubmitsKept
    <2> QED
      BY <2>1, <2>2, <2>3, <2>9, HereAfter
  <1> QED
    BY <1>1, <1>2

\* The id read back is new, or that of a task whose write was waiting.
LEMMA CreateTaskHere ==
    ASSUME IInv, Here, CreateTask
    PROVE  Here'
  <1>1. /\ phase = "creating" /\ tasks' = tasks /\ purged' = purged
        /\ late' = late /\ strayed' = strayed
    BY DEF CreateTask, file, history
  <1>2. /\ Allocated = seq - 1 /\ (lastId = seq \/ lastId \in late)
        /\ \A k \in DOMAIN queue : queue[k].id \in late
    BY <1>1 DEF IInv, Flags, Allocated
  <1>3. /\ seq \in 0..MaxId /\ MaxId \in Nat /\ Allocated \in Int
        /\ TableTo(Allocated) /\ Gui \in Guis(Allocated) /\ Gui \in Guis(seq) /\ TableTo(seq)
    BY Flagged
  <1>4. lastId \in Ids /\ lastId <= seq /\ Allocated <= seq
    BY <1>1, <1>3 DEF IInv, Flags, Ids, Allocated
  <1>5. PICK user \in UserCats, g \in Shows(Gui, Downloading) :
          Become(AddTaskModel(g, lastId, user))
    BY DEF CreateTask
  <1>6. user \in Categories /\ Downloading \in Categories
    BY StoreAssumption
  <1>7. g \in Guis(Allocated) /\ g \in Guis(seq)
    BY <1>3, <1>5, <1>6, ShowsKept
  <1>8. PICK O : O = Orderly' /\ O = Orderly
    BY <1>1 DEF Orderly
  <1>9. Settled(O, tasks, purged, g)
    <2>1. Quiet(O, Gui.queue)
      BY <1>2, <1>8, GuiParts DEF Quiet, WritesOf, Orderly
    <2>2. Settled(O, tasks, purged, Gui)
      BY <1>8 DEF Here
    <2>3. Quiet(O, Gui.queue) \/ Gui.models[Downloading] # NotLoaded
      BY <2>1
    <2> QED
      BY <1>3, <1>5, <1>6, <2>2, <2>3, ShowsSettled
  <1>10. Settled(O, tasks, purged, AddTaskModel(g, lastId, user))
    <2>1. Allocated \in Int /\ seq \in Int
      BY <1>3
    <2>2. lastId \in O => Allocated < lastId
      <3>1. lastId \in O => lastId \notin late
        BY <1>8 DEF Orderly
      <3> QED
        BY <1>2, <1>3, <3>1
    <2> QED
      BY <1>3, <1>4, <1>6, <1>7, <1>9, <2>1, <2>2, AddedSettled
  <1>11. AddTaskModel(g, lastId, user) \in Guis(seq)
    BY <1>4, <1>6, <1>7, AddTaskModelKept
  <1> QED
    BY <1>1, <1>5, <1>8, <1>10, <1>11, HereAfter

\* The row of a downloading task is found; any other task started strays.
LEMMA StartTaskHere ==
    ASSUME IInv, Here, StartTask
    PROVE  Here'
  <1> DEFINE r == models[view][cur]
             h == AddTaskModel(Gui, r.id, r.user)
  <1>1. /\ Become(h) /\ cur # 0 /\ tasks' = tasks /\ purged' = purged /\ late' = late
        /\ strayed' = IF view = Downloading THEN strayed ELSE strayed \cup {r.id}
    BY DEF StartTask, file
  <1>2. Gui \in Guis(seq) /\ TableTo(seq) /\ Settled(Orderly, tasks, purged, Gui)
    BY Flagged DEF Here, StartTask, Idle
  <1>3. /\ models[view] \in Seq(RowsTo(seq)) /\ cur \in DOMAIN models[view]
    BY <1>1, LoadedModel
  <1>4. r \in RowsTo(seq) /\ r.id \in Ids /\ r.id <= seq /\ r.user \in Categories
    BY <1>3, RowFields DEF RowsTo
  <1>5. h \in Guis(seq)
    BY <1>2, <1>4, AddTaskModelKept
  <1>6. CASE view = Downloading
    <2>1. Find(models[Downloading], r.id) # 0
      <3>1. 0 \notin DOMAIN models[Downloading]
        BY <1>3, <1>6
      <3>2. ~ \A i \in DOMAIN models[Downloading] : models[Downloading][i].id # r.id
        BY <1>3, <1>6
      <3> QED
        BY <1>3, <1>6, <3>1, <3>2, FindRow
    <2>2. h = Gui
      BY <2>1, GuiParts DEF AddTaskModel
    <2>3. PICK O : O = Orderly' /\ O = Orderly
      BY <1>1, <1>6 DEF Orderly
    <2> HIDE DEF h
    <2>4. Gui \in Guis(seq) /\ Become(Gui) /\ tasks' = tasks
      BY <1>1, <1>2, <2>2
    <2>5. O = Orderly' /\ Settled(O, tasks, purged', Gui)
      BY <1>1, <1>2, <2>3
    <2> QED
      BY <2>4, <2>5, HereAfter, Zenon
  <1>7. CASE view # Downloading
    <2>0. Orderly' \subseteq Orderly /\ r.id \notin Orderly'
      BY <1>1, <1>7 DEF Orderly
    <2>1. PICK O : O = Orderly' /\ O \subseteq Orderly /\ r.id \notin O
      BY <2>0
    <2>2. Settled(O, tasks, purged, Gui)
      BY <1>2, <2>1, SettledFewer
    <2>3. Settled(O, tasks, purged, h)
      <3>1. seq \in Int /\ seq <= seq
        BY Flagged
      <3> HIDE DEF r
      <3> QED
        BY <1>2, <1>4, <2>1, <2>2, <3>1, AddedSettled
    <2> HIDE DEF h
    <2> QED
      BY <1>1, <1>5, <2>1, <2>3, HereAfter
  <1> QED
    BY <1>6, <1>7

LEMMA ReportHere ==
    ASSUME IInv, Here, NEW t \in running, Report(t)
    PROVE  Here'
  <1> DEFINE k == Find(models[Downloading], t)
  <1>1. /\ models' = [models EXCEPT ![Downloading][k] =
                          [@ EXCEPT !.status = "active", !.dirty = TRUE]]
        /\ view' = view /\ cur' = cur /\ queue' = queue /\ tasks' = tasks /\ purged' = purged
        /\ Orderly' = Orderly
        /\ k # 0
    BY DEF Report, file, history, Orderly
  <1>2. Gui \in Guis(seq) /\ Settled(Orderly, tasks, purged, Gui)
    BY Flagged DEF Here
  <1>3. k \in DOMAIN models[Downloading]
    <2>1. models[Downloading] \in Seq(RowsTo(seq))
      BY LoadedModel, StoreAssumption
    <2> QED
      BY <1>1, <2>1, FindRow
  <1> HIDE DEF k
  <1>4. /\ Gui'.models = models' /\ Gui'.view = view' /\ Gui'.cur = cur' /\ Gui'.queue = queue'
    BY DEF Gui
  <1>5. ASSUME NEW h, h.models = models', h.view = view, h.cur = cur, h.queue = queue
        PROVE  Settled(Orderly, tasks, purged, h)
    BY <1>1, <1>2, <1>3, <1>5, RowRefreshed, GuiParts
  <1>6. Settled(Orderly, tasks, purged, Gui')
    BY <1>1, <1>4, <1>5
  <1> QED
    BY <1>1, <1>6 DEF Here

LEMMA TaskDoneHere ==
    ASSUME IInv, Here, NEW t \in running, TaskDone(t)
    PROVE  Here'
  <1> DEFINE rows == models[Downloading]
             k == Find(rows, t)
             dest == rows[k].user
  <1>1. rows \in Seq(RowsTo(seq)) /\ Downloading \in Categories /\ rows # NotLoaded
    BY LoadedModel, StoreAssumption
  <1>0. tasks' = tasks /\ purged' = purged /\ strayed' = strayed /\ AskingIdle
    BY DEF TaskDone, file
  <1>2. PICK O : /\ O = Orderly' /\ TableTo(seq) /\ Gui \in Guis(seq)
                 /\ Settled(O, tasks, purged, Gui) /\ Quiet(O, Gui.queue)
    BY <1>0, Asking
  <1>3. CASE k = 0
    <2>1. Become(Gui)
      BY <1>3, GuiParts DEF TaskDone, Become
    <2> QED
      BY <1>0, <1>2, <2>1, HereAfter
  <1>4. CASE k # 0
    <2>1. k \in DOMAIN rows
      BY <1>1, <1>4, FindRow
    <2>2. dest \in Categories /\ rows[k].sys = Downloading
      <3>1. rows[k] \in RowsTo(seq)
        BY <1>1, <2>1
      <3>2. Homed(Downloading, rows)
        BY <1>1, <1>2, GuiParts, Parts
      <3>3. rows[k].sys \in Listed(Downloading)
        BY <2>1, <3>2 DEF Homed
      <3> QED
        BY <3>1, <3>3, RowFields, StoreAssumption DEF Listed
    <2>3. PICK g \in Moves(Gui, Downloading, dest, k) : \E h \in Shows(g, dest) : Become(h)
      BY <1>4 DEF TaskDone
    <2>4. PICK h \in Shows(g, dest) : Become(h)
      BY <2>3
    <2> HIDE DEF dest, k
    <2>5. Settled(O, tasks, purged, g) /\ g.models[dest] # NotLoaded /\ g \in Guis(seq)
      <3>1. /\ Gui.models[Downloading] # NotLoaded /\ k \in DOMAIN Gui.models[Downloading]
            /\ Gui.models[Downloading][k].sys = Downloading
        BY <1>1, <2>1, <2>2, GuiParts
      <3> QED
        BY <1>1, <1>2, <2>2, <2>3, <3>1, MovesSettled
    <2>6. h \in Guis(seq)
      BY <1>2, <2>2, <2>5, ShowsKept
    <2>7. Settled(O, tasks, purged, h)
      <3>1. Quiet(O, g.queue) \/ g.models[dest] # NotLoaded
        BY <2>5
      <3> QED
        BY <1>2, <2>2, <2>5, <3>1, ShowsSettled
    <2> QED
      BY <1>0, <1>2, <2>4, <2>6, <2>7, HereAfter
  <1> QED
    BY <1>3, <1>4

LEMMA DeletePermanentlyHere ==
    ASSUME FlatTree, IInv, Here, DeletePermanently
    PROVE  Here'
  <1> DEFINE r == models[view][cur]
             g0 == Instance(Gui, Deleted)
             t == r.id
  <1>0. strayed' = strayed /\ AskingIdle
    BY DEF DeletePermanently
  <1>1. PICK O : /\ O = Orderly' /\ TableTo(seq) /\ Gui \in Guis(seq)
                 /\ Settled(O, tasks, purged, Gui) /\ Quiet(O, Gui.queue)
                 /\ Gui.models = models /\ Gui.view = view /\ Gui.cur = cur
    BY <1>0, Asking, GuiParts
  <1>2. /\ cur \in DOMAIN models[view] /\ view \in Categories /\ models[view] # NotLoaded
        /\ r.sys = Deleted /\ tasks' = tasks /\ Deleted \in Categories
        /\ purged' = purged \cup {t}
    BY LoadedModel, StoreAssumption DEF DeletePermanently, file
  <1>3. view = Deleted
    <2>1. Homed(view, models[view])
      BY <1>1, <1>2, Parts
    <2>2. r.sys \in Listed(view)
      BY <1>2, <2>1 DEF Homed
    <2> QED
      BY <1>2, <2>2 DEF Listed, FlatTree
  <1>4. PICK g \in Removes(g0, Deleted, cur) : Become(g)
    BY <1>3 DEF DeletePermanently
  <1>5. /\ g0 \in Guis(seq) /\ g0.models[Deleted] = models[Deleted]
        /\ Settled(O, tasks, purged, g0) /\ Quiet(O, g0.queue)
    <2>1. Gui.models[Deleted] # NotLoaded
      BY <1>1, <1>2, <1>3
    <2> QED
      BY <1>1, <1>2, <2>1, InstanceKept, InstanceSettled
  <1>6. /\ cur \in DOMAIN g0.models[Deleted] /\ g0.models[Deleted] # NotLoaded
        /\ g0.models[Deleted][cur].sys = Deleted /\ g0.models[Deleted][cur].id = t
    BY <1>2, <1>3, <1>5
  <1> HIDE DEF g0, t, r
  <1>7. /\ g \in Guis(seq) /\ g.models[Deleted] # NotLoaded
    BY <1>2, <1>4, <1>5, <1>6, RemovesKept
  <1>8. /\ Settled(O, tasks, purged, g)
        /\ t \in O =>
             /\ NotOwn(g, t)
             /\ Due(tasks, g.queue, t) # NoRow /\ Due(tasks, g.queue, t).sys = Deleted
    BY <1>2, <1>4, <1>5, <1>6, DeletedIsOther, RemovesSettled
  <1>9. t \in O => \A i \in DOMAIN g.models[Deleted] : g.models[Deleted][i].id # t
    <2>1. Homed(Deleted, g.models[Deleted])
      BY <1>2, <1>7, Parts
    <2>2. \A i \in DOMAIN g.models[Deleted] : g.models[Deleted][i].sys = Deleted
      BY <2>1, StoreAssumption DEF Homed, Listed
    <2> QED
      BY <1>2, <1>7, <1>8, <2>2 DEF NotOwn
  <1>10. Settled(O, tasks, purged', g)
    <2>1. GoneFor(O, tasks, purged', g)
      BY <1>2, <1>7, <1>8, <1>9 DEF Settled, Placed, GoneFor
    <2> QED
      BY <1>8, <2>1 DEF Settled, Placed
  <1> QED
    BY <1>1, <1>2, <1>4, <1>7, <1>10, HereAfter

\* The row taken is its model's own: categories below another one list only theirs.
LEMMA MoveToTrashHere ==
    ASSUME FlatTree, IInv, Here, MoveToTrash
    PROVE  Here'
  <1> DEFINE r == models[view][cur]
             g0 == Instance(Gui, Deleted)
             c == r.sys
             g == Instance(g0, c)
  <1>0. strayed' = strayed /\ AskingIdle
    BY DEF MoveToTrash
  <1>1. PICK O : /\ O = Orderly' /\ TableTo(seq) /\ Gui \in Guis(seq)
                 /\ Settled(O, tasks, purged, Gui) /\ Quiet(O, Gui.queue)
                 /\ Gui.models = models /\ Gui.view = view /\ Gui.cur = cur
    BY <1>0, Asking, GuiParts
  <1>2. /\ cur \in DOMAIN models[view] /\ view \in Categories /\ models[view] # NotLoaded
        /\ Deleted \in Categories /\ tasks' = tasks /\ purged' = purged /\ cur \in Nat /\ cur # 0
    BY LoadedModel, StoreAssumption DEF MoveToTrash, file
  <1>3. r \in RowsTo(seq) /\ c \in Categories
    BY <1>2, LoadedModel, RowFields
  <1>4. Homed(view, models[view])
    BY <1>1, <1>2, Parts
  <1>5. c \in Listed(view)
    BY <1>2, <1>4 DEF Homed
  <1>6. /\ g0 \in Guis(seq) /\ g0.models[view] = models[view]
        /\ Settled(O, tasks, purged, g0) /\ Quiet(O, g0.queue)
    <2>1. Quiet(O, Gui.queue) \/ Gui.models[Deleted] # NotLoaded
      BY <1>1
    <2> QED
      BY <1>1, <1>2, <2>1, InstanceKept, InstanceSettled
  <1>7. \/ \E h \in Moves(g, c, Deleted, cur) : cur <= Len(g.models[c]) /\ Become(h)
        \/ Become(Gui)
    BY GuiParts DEF MoveToTrash, Become
  <1> HIDE DEF g0, c
  <1>8. /\ g \in Guis(seq) /\ g.models[view] = models[view]
        /\ g.models[c] \in Seq(RowsTo(seq))
        /\ Settled(O, tasks, purged, g) /\ Quiet(O, g.queue)
    <2>1. Quiet(O, g0.queue) \/ g0.models[c] # NotLoaded
      BY <1>6
    <2>2. g0.models[view] # NotLoaded
      BY <1>2, <1>6
    <2> QED
      BY <1>1, <1>2, <1>3, <1>6, <2>1, <2>2, InstanceKept, InstanceSettled
  <1> HIDE DEF g
  <1>9. CASE Become(Gui)
    BY <1>1, <1>2, <1>9, HereAfter
  <1>10. CASE \E h \in Moves(g, c, Deleted, cur) : cur <= Len(g.models[c]) /\ Become(h)
    <2>1. PICK h \in Moves(g, c, Deleted, cur) : cur <= Len(g.models[c]) /\ Become(h)
      BY <1>10
    <2>2. cur \in DOMAIN g.models[c] /\ g.models[c] # NotLoaded
      BY <1>2, <1>8, <2>1, ListIsLoaded
    <2>3. g.models[c][cur].sys = c
      <3>1. CASE c = view
        BY <1>8, <3>1 DEF c
      <3>2. CASE c \in Children[view]
        <4>1. Listed(c) = {c}
          BY <1>2, <3>2 DEF Listed, FlatTree
        <4>2. Homed(c, g.models[c])
          BY <1>3, <1>8, <2>2, Parts
        <4> QED
          BY <2>2, <4>1, <4>2 DEF Homed
      <3> QED
        BY <1>5, <3>1, <3>2 DEF Listed
    <2>4. Settled(O, tasks, purged, h) /\ h \in Guis(seq)
      BY <1>1, <1>2, <1>3, <1>8, <2>1, <2>2, <2>3, DeletedIsOther, MovesSettled
    <2> QED
      BY <1>1, <1>2, <2>1, <2>4, HereAfter
  <1> QED
    BY <1>7, <1>9, <1>10

LEMMA ExecuteHere ==
    ASSUME IInv, Here, Execute
    PROVE  Here'
  <1> DEFINE w == Head(queue)
             O == Orderly
  <1>1. /\ Gui \in Guis(seq) /\ TableTo(seq) /\ queue # <<>>
    BY Flagged DEF Execute
  <1>2. queue \in Seq(WritesTo(seq)) /\ DOMAIN tasks = Ids
    BY <1>1, GuiParts, Parts DEF TableTo
  <1>3. Ordered(O, tasks, queue) /\ Settled(O, tasks, purged, Gui)
    BY GuiParts DEF Here, Settled, Placed
  <1>4. /\ \/ tasks' = [tasks EXCEPT ![w.id] = w.to]
           \/ tasks' = tasks /\ w.op = "insert" /\ tasks[w.id] # NoRow
        /\ queue' = Tail(queue) /\ purged' = purged
        /\ models' = models /\ view' = view /\ cur' = cur /\ Orderly' = O
    BY DEF Execute, history, Orderly
  <1>5. w.op = "insert" /\ tasks[w.id] # NoRow => w.id \notin O
    <2>1. 1 \in DOMAIN queue /\ w = queue[1]
      BY <1>1, <1>2
    <2> HIDE DEF O, w
    <2> QED
      BY <1>3, <2>1 DEF Ordered
  <1> HIDE DEF w
  <1>6. /\ Gui'.models = Gui.models /\ Gui'.view = Gui.view /\ Gui'.cur = Gui.cur
        /\ Gui'.queue = Tail(queue)
    BY <1>4 DEF Gui
  <1>7. purged \subseteq Ids
    BY DEF IInv, Flags
  <1>8. ASSUME NEW h, h.models = Gui.models, h.view = Gui.view, h.cur = Gui.cur,
               h.queue = Tail(queue), NEW new,
               \/ new = [tasks EXCEPT ![w.id] = w.to]
               \/ new = tasks /\ w.id \notin O
        PROVE  Settled(O, new, purged, h)
    <2> HIDE DEF O
    <2>1. Ordered(O, new, Tail(queue))
          /\ \A t \in Ids \cap O : Due(new, Tail(queue), t) = Due(tasks, queue, t)
      BY <1>1, <1>2, <1>3, <1>8, ExecutedDue DEF w
    <2>2. Ordered(O, new, h.queue)
          /\ \A t \in Ids \cap O : Due(new, h.queue, t) = Due(tasks, Gui.queue, t)
      BY <1>8, <2>1, GuiParts
    <2> QED
      BY <1>1, <1>3, <1>7, <1>8, <2>2, SettledSame
  <1>9. Settled(O, tasks', purged, Gui')
    BY <1>4, <1>5, <1>6, <1>8
  <1> QED
    BY <1>4, <1>9 DEF Here

LEMMA RelaunchHere ==
    ASSUME IInv, Relaunch
    PROVE  Here'
  <1>1. /\ tasks' = tasks /\ queue' = <<>> /\ cur' = 0 /\ view' = Downloading /\ purged' = {}
        /\ Orderly' = Ids
        /\ models' = [c \in Categories |-> IF c = Downloading THEN Load(c) ELSE NotLoaded]
    BY DEF Relaunch, file, Orderly
  <1>2. TableTo(seq) /\ Quiet(Ids, <<>>)
    BY Flagged DEF Quiet, WritesOf
  <1>3. \A c \in Categories : models'[c] # NotLoaded => Rest(Ids, tasks, <<>>, c, models'[c])
    BY <1>1, <1>2, LoadRest
  <1>4. /\ Gui'.models = models' /\ Gui'.view = view' /\ Gui'.cur = cur' /\ Gui'.queue = queue'
    BY DEF Gui
  <1>5. Ordered(Ids, tasks, <<>>)
    BY DEF Ordered
  <1>6. Settled(Ids, tasks, {}, Gui')
    BY <1>1, <1>3, <1>4, <1>5 DEF Settled, Placed, GoneFor, CurrentDue
  <1> QED
    BY <1>1, <1>6 DEF Here

LEMMA HereNext ==
    ASSUME FlatTree, IInv, Here, [Next]_vars
    PROVE  Here'
  <1>1. CASE UNCHANGED vars
    BY <1>1 DEF Here, Gui, vars, file, history, Orderly
  <1>2. CASE (\E c \in Views : SelectCategory(c)) \/ (\E i \in DOMAIN models[view] : SelectRow(i))
    BY <1>2, SelectHere
  <1>3. CASE NewTask
    <2>1. strayed' = strayed /\ AskingIdle /\ tasks' = tasks /\ purged' = purged
          /\ Gui' = Gui
      BY <1>3 DEF NewTask, Gui
    <2>2. PICK O : O = Orderly' /\ Settled(O, tasks, purged, Gui)
      BY <2>1, Asking
    <2> QED
      BY <2>1, <2>2 DEF Here
  <1>4. CASE StartTask
    BY <1>4, StartTaskHere
  <1>5. CASE DeletePermanently
    BY <1>5, DeletePermanentlyHere
  <1>6. CASE MoveToTrash
    BY <1>6, MoveToTrashHere
  <1>7. CASE Quit \/ Crash
    BY <1>7, RelaunchHere DEF Quit, Crash
  <1>8. CASE Backend
    BY <1>8, ReportHere, TaskDoneHere DEF Backend
  <1>9. CASE CreateTask
    BY <1>9, CreateTaskHere
  <1>10. CASE Execute
    BY <1>10, ExecuteHere
  <1> QED
    BY <1>1, <1>2, <1>3, <1>4, <1>5, <1>6, <1>7, <1>8, <1>9, <1>10 DEF Next, User

LEMMA HereAlways ==
    ASSUME FlatTree
    PROVE  Spec => [](IInv /\ Here)
  <1>1. Init => IInv /\ Here
    BY InitKept, InitHere
  <1>2. IInv /\ Here /\ [Next]_vars => (IInv /\ Here)'
    BY IInvNext, HereNext
  <1> QED
    BY <1>1, <1>2, PTL DEF Spec

-----------------------------------------------------------------------------
(* Theorems *)

LEMMA HomesAre ==
    ASSUME NEW t, NEW p \in Homes(t)
    PROVE  /\ p = <<p[1], p[2]>> /\ p[1] \in Categories /\ models[p[1]] # NotLoaded
           /\ p[2] \in DOMAIN models[p[1]]
           /\ models[p[1]][p[2]].id = t /\ models[p[1]][p[2]].sys = p[1]
  <1>1. /\ p \in UNION {{c} \X DOMAIN models[c] : c \in {d \in Categories : models[d] # NotLoaded}}
        /\ models[p[1]][p[2]].id = t /\ models[p[1]][p[2]].sys = p[1]
    BY DEF Homes
  <1>2. PICK c \in Categories : models[c] # NotLoaded /\ p \in {c} \X DOMAIN models[c]
    BY <1>1
  <1>3. p[1] = c /\ p[2] \in DOMAIN models[c] /\ p = <<p[1], p[2]>>
    BY <1>2
  <1> QED
    BY <1>1, <1>2, <1>3

\* A task is at home in one place among all models loaded: the row moved by
\* moveTasks leaves its model before anything can submit or reload it there
\* again.  For every task that is neither written late nor started from another
\* category, whatever happens to the others.
THEOREM TasksHaveOneHome ==
    ASSUME FlatTree
    PROVE  Spec => []OneHome
  <1>1. ASSUME IInv, Here PROVE OneHome
    <2> SUFFICES ASSUME NEW t \in Orderly PROVE Cardinality(Homes(t)) <= 1
      BY DEF OneHome
    <2>1. ASSUME NEW p \in Homes(t), NEW q \in Homes(t) PROVE p = q
      <3>1. /\ p = <<p[1], p[2]>> /\ p[1] \in Categories /\ models[p[1]] # NotLoaded
            /\ p[2] \in DOMAIN models[p[1]]
            /\ models[p[1]][p[2]].id = t /\ models[p[1]][p[2]].sys = p[1]
        BY HomesAre
      <3>2. /\ q = <<q[1], q[2]>> /\ q[1] \in Categories /\ models[q[1]] # NotLoaded
            /\ q[2] \in DOMAIN models[q[1]]
            /\ models[q[1]][q[2]].id = t /\ models[q[1]][q[2]].sys = q[1]
        BY HomesAre
      <3>3. Placed(Orderly, tasks, purged, Gui) /\ Gui.models = models
        BY <1>1, GuiParts DEF Here, Settled
      <3>4. p[1] = q[1] /\ p[2] = q[2]
        <4>1. models[p[1]][p[2]].id \in Orderly
          BY <3>1
        <4> QED
          BY <3>1, <3>2, <3>3, <4>1, OneOwner
      <3> QED
        BY <3>1, <3>2, <3>4
    <2>2. CASE Homes(t) = {}
      BY <2>2, FS_EmptySet
    <2>3. CASE Homes(t) # {}
      <3>1. PICK p \in Homes(t) : TRUE
        BY <2>3
      <3>2. Homes(t) = {p}
        BY <2>1, <3>1
      <3>3. Cardinality({p}) = 1
        BY FS_Singleton
      <3> QED
        BY <3>2, <3>3
    <2> QED
      BY <2>2, <2>3
  <1> QED
    BY <1>1, HereAlways, PTL

\* When no write of a task waits, a row its own category holds clean is in the
\* table with the same values: containsTask has chosen the statement that
\* succeeds, and writes are executed in order.  For every orderly task.
THEOREM CleanRowsAreStored ==
    ASSUME FlatTree
    PROVE  Spec => []CleanIsStored
  <1>1. ASSUME IInv, Here PROVE CleanIsStored
    <2> SUFFICES ASSUME NEW t \in Orderly, \A k \in DOMAIN queue : queue[k].id # t,
                        NEW p \in Homes(t),
                        ~models[p[1]][p[2]].dirty
                 PROVE  tasks[t] = Stored(models[p[1]][p[2]])
      BY DEF CleanIsStored
    <2>1. /\ p[1] \in Categories /\ models[p[1]] # NotLoaded
          /\ p[2] \in DOMAIN models[p[1]]
          /\ models[p[1]][p[2]].id = t /\ models[p[1]][p[2]].sys = p[1]
      BY HomesAre
    <2>2. Placed(Orderly, tasks, purged, Gui) /\ Gui.models = models /\ Gui.queue = queue
      BY <1>1, GuiParts DEF Here, Settled
    <2>3. Agrees(Due(tasks, queue, t), p[1], models[p[1]][p[2]])
      BY <2>1, <2>2, PlacedRow
    <2>4. Due(tasks, queue, t) = tasks[t]
      BY DEF Due, WritesOf
    <2>5. /\ models[p[1]][p[2]].sys = p[1]
          /\ ~models[p[1]][p[2]].dirty
      BY <2>1
    <2> QED
      BY ONLY <2>3, <2>4, <2>5, AgreesGives
  <1> QED
    BY <1>1, HereAlways, PTL

\* A task deleted permanently is listed nowhere before the next launch: no report,
\* submit or reload brings its row back into a category's own rows.  For every
\* orderly task.
THEOREM PurgedTasksStayGone ==
    ASSUME FlatTree
    PROVE  Spec => []PurgedStaysGone
  <1>1. ASSUME IInv, Here PROVE PurgedStaysGone
    <2> SUFFICES ASSUME NEW t \in purged \cap Orderly, NEW p \in Homes(t) PROVE FALSE
      BY DEF PurgedStaysGone
    <2>1. /\ p[1] \in Categories /\ models[p[1]] # NotLoaded
          /\ p[2] \in DOMAIN models[p[1]]
          /\ models[p[1]][p[2]].id = t /\ models[p[1]][p[2]].sys = p[1]
      BY HomesAre
    <2>2. Placed(Orderly, tasks, purged, Gui) /\ Gui.models = models
      BY <1>1, GuiParts DEF Here, Settled
    <2>3. models[p[1]][p[2]].id \notin purged
      BY <2>1, <2>2, OwnNotGone
    <2> QED
      BY <2>1, <2>3
  <1> QED
    BY <1>1, HereAlways, PTL
=============================================================================
