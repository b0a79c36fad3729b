--------------------------- MODULE Catalog_proofs ---------------------------
(***************************************************************************)
(* Proofs about Catalog: types, the table follows the model, the records   *)
(* the code names by number stay, a new category adopts nothing, and a     *)
(* removal takes nothing but what is below the record selected.            *)
(***************************************************************************)
EXTENDS Catalog, SequenceTheorems, FiniteSetTheorems, TLAPS

-----------------------------------------------------------------------------
(* The invariant *)

\* The categories the code names by number, and the root.
System == TopLevel \cup {Root}

\* A record may name p as the parent of c: only the root has none, and the
\* root has no rows but the top-level ones.
Sound(p, c) ==
    /\ p \in Ids \cup {-1} /\ p < c
    /\ p = -1 => c = Root
    /\ p = Root => c \in TopLevel

\* A vector of records: no id twice, parents before their rows, and the system
\* records as they were made.
Tree(list) ==
    /\ list \in Seq(Records) /\ Len(list) <= MaxId + 1
    /\ \A i, j \in DOMAIN list : list[i].id = list[j].id => i = j
    /\ \A i, j \in DOMAIN list : list[j].parent = list[i].id => i < j
    /\ \A i \in DOMAIN list : Sound(list[i].parent, list[i].id)
    /\ \A c \in System : \E i \in DOMAIN list :
           list[i].id = c /\ list[i].parent = Defaults[c] /\ list[i].stored

\* The table, whatever was lost with the process.
TableSound(tab) ==
    /\ tab \in [Ids -> Ids \cup {-1, NoRow}]
    /\ \A c \in Ids : tab[c] # NoRow => Sound(tab[c], c)
    /\ \A c \in System : tab[c] = Defaults[c]

\* No statement is about a system record.
StatementsSound ==
    /\ queue \in Seq(Statements)
    /\ \A i \in DOMAIN queue :
           /\ queue[i].id \notin System
           /\ queue[i].op = "insert" => Sound(queue[i].parent, queue[i].id)

\* The calls of removeRows: each index still is the one of its record, which is
\* a row of the record of the call before.
Chain(list, calls) ==
    /\ calls \in Seq(Frames)
    /\ \A k \in DOMAIN calls :
           /\ calls[k].pos \in DOMAIN list /\ list[calls[k].pos].id = calls[k].id
           /\ calls[k].id \notin System
    /\ \A j, k \in DOMAIN calls : j < k => calls[j].pos < calls[k].pos
    /\ \A k \in DOMAIN calls :
           k > 1 => list[calls[k].pos].parent = calls[k - 1].id

\* The table holds the records whose statement SQLite accepts, and no others.
Follows(list, tab) ==
    \A c \in Ids :
        \/ /\ tab[c] = NoRow
           /\ \A i \in DOMAIN list : list[i].id = c => ~list[i].stored
        \/ \E i \in DOMAIN list :
               list[i].id = c /\ list[i].stored /\ tab[c] = list[i].parent

Rest ==
    /\ deepest \in BOOLEAN /\ (deepest => frames # << >>)
    /\ owner \in [Tasks -> Ids \cup {NoCat}]
    /\ restarts \in 0..MaxRestarts

IInv ==
    /\ Tree(cats) /\ TableSound(table) /\ StatementsSound /\ Chain(cats, frames)
    /\ Rest /\ Follows(cats, Settled)

-----------------------------------------------------------------------------
(* Numbers in order *)

LEMMA LeastOf ==
    ASSUME NEW S, S \subseteq Nat, S # {}
    PROVE  \E m \in S : \A k \in S : m <= k
  <1> DEFINE R == OpToRel(<, Nat)
  <1>1. IsWellFoundedOn(R, Nat)
    BY NatLessThanWellFounded
  <1>2. \A m, k \in Nat : k < m => <<k, m>> \in R
    BY DEF OpToRel
  <1> HIDE DEF R
  <1>3. PICK m \in S : \A k \in S : ~(<<k, m>> \in R)
    BY <1>1, WFMin
  <1>4. ASSUME NEW k \in S PROVE m <= k
    <2>1. m \in Nat /\ k \in Nat /\ ~(<<k, m>> \in R)
      BY <1>3
    <2>2. ~(k < m)
      BY <1>2, <2>1
    <2> QED
      BY <2>1, <2>2
  <1> QED
    BY <1>4

LEMMA GreatestOf ==
    ASSUME NEW n \in Nat, NEW S, S \subseteq 0..n, S # {}
    PROVE  \E m \in S : \A k \in S : k <= m
  <1> DEFINE T == {n - k : k \in S}
  <1>1. T \subseteq Nat /\ T # {}
    <2>1. \A k \in S : k \in Int /\ 0 <= k /\ k <= n
      OBVIOUS
    <2>2. \A k \in S : n - k \in Nat
      BY <2>1
    <2> QED
      BY <2>2
  <1>2. PICK m \in T : \A k \in T : m <= k
    <2> HIDE DEF T
    <2> QED
      BY <1>1, LeastOf
  <1>3. PICK a \in S : m = n - a
    OBVIOUS
  <1>4. ASSUME NEW k \in S PROVE k <= a
    <2>1. n - k \in T
      OBVIOUS
    <2>2. k \in Int /\ a \in Int /\ n \in Int
      <3> HIDE DEF T
      <3> QED
        OBVIOUS
    <2>3. n - a <= n - k
      BY <1>2, <1>3, <2>1
    <2> QED
      BY <2>2, <2>3
  <1> QED
    BY <1>4

-----------------------------------------------------------------------------
(* Records in the vector *)

LEMMA TreeFacts ==
    ASSUME NEW list, Tree(list)
    PROVE  /\ Len(list) \in Nat /\ DOMAIN list = 1..Len(list)
           /\ \A i \in DOMAIN list :
                  /\ list[i].id \in Ids /\ list[i].parent \in Ids \cup {-1}
                  /\ list[i].stored \in BOOLEAN /\ list[i] \in Records
  <1>1. list \in Seq(Records)
    BY DEF Tree
  <1>2. \A i \in DOMAIN list : list[i] \in Records
    BY <1>1
  <1> QED
    BY <1>1, <1>2 DEF Records

LEMMA HeldRecord ==
    Tree(cats) =>
        /\ \A c : Held(c) => Position(c) \in DOMAIN cats /\ cats[Position(c)].id = c
        /\ \A i \in DOMAIN cats : /\ Held(cats[i].id) /\ Position(cats[i].id) = i
                                  /\ ParentOf(cats[i].id) = cats[i].parent
  <1> SUFFICES ASSUME Tree(cats)
               PROVE  /\ \A c : Held(c) =>
                            Position(c) \in DOMAIN cats /\ cats[Position(c)].id = c
                      /\ \A i \in DOMAIN cats :
                            /\ Held(cats[i].id) /\ Position(cats[i].id) = i
                            /\ ParentOf(cats[i].id) = cats[i].parent
    OBVIOUS
  <1>1. \A c : Held(c) => Position(c) \in DOMAIN cats /\ cats[Position(c)].id = c
    BY DEF Held, Position
  <1>2. ASSUME NEW i \in DOMAIN cats
        PROVE  Held(cats[i].id) /\ Position(cats[i].id) = i
    <2>1. Held(cats[i].id)
      BY DEF Held
    <2> QED
      BY <1>1, <2>1 DEF Tree
  <1> QED
    BY <1>1, <1>2 DEF ParentOf

LEMMA HeldRecordNext ==
    (Tree(cats) =>
        /\ \A c : Held(c) => Position(c) \in DOMAIN cats /\ cats[Position(c)].id = c
        /\ \A i \in DOMAIN cats : /\ Held(cats[i].id) /\ Position(cats[i].id) = i
                                  /\ ParentOf(cats[i].id) = cats[i].parent)'
  BY HeldRecord, PTL

LEMMA FollowsMeans ==
    Tree(cats) => (TableFollows <=> Follows(cats, Settled))
  <1> SUFFICES ASSUME Tree(cats), NEW c \in Ids
               PROVE  Settled[c] = (IF Held(c) /\ cats[Position(c)].stored
                                    THEN ParentOf(c) ELSE NoRow)
                      <=> \/ /\ Settled[c] = NoRow
                             /\ \A i \in DOMAIN cats : cats[i].id = c => ~cats[i].stored
                          \/ \E i \in DOMAIN cats :
                                 cats[i].id = c /\ cats[i].stored /\ Settled[c] = cats[i].parent
    BY DEF TableFollows, Follows
  <1>1. \A i \in DOMAIN cats : cats[i].parent # NoRow
    BY TreeFacts, CatalogAssumption DEF Ids
  <1>2. CASE Held(c)
    <2>1. /\ Position(c) \in DOMAIN cats /\ cats[Position(c)].id = c
          /\ \A i \in DOMAIN cats : cats[i].id = c => i = Position(c)
      BY <1>2, HeldRecord
    <2> QED
      BY <1>1, <1>2, <2>1 DEF ParentOf
  <1>3. CASE ~Held(c)
    BY <1>3 DEF Held
  <1> QED
    BY <1>2, <1>3
-----------------------------------------------------------------------------
(* What the tree shows *)

\* The recursion that defines Below.
Leads(c, d, f) ==
    /\ Held(d)
    /\ \/ d = c
       \/ ParentOf(d) \in Ids /\ f[ParentOf(d)]
Solves(c, f) == f = [d \in Ids |-> Leads(c, d, f)]

\* It has a solution whatever the records name as their parents: the greatest of
\* the sets that it does not shrink.
LEMMA BelowSolvable ==
    ASSUME NEW c
    PROVE  \E f : Solves(c, f)
  <1> DEFINE F(T) == {d \in Ids : Held(d) /\ (d = c \/ (ParentOf(d) \in Ids /\ ParentOf(d) \in T))}
             Kept == {T \in SUBSET Ids : T \subseteq F(T)}
             G == UNION Kept
  <1>1. \A S, T : S \subseteq T => F(S) \subseteq F(T)
    OBVIOUS
  <1>2. \A T : F(T) \subseteq Ids
    OBVIOUS
  <1> HIDE DEF F
  <1>3. G \subseteq F(G) /\ G \subseteq Ids
    <2>1. \A T \in Kept : T \subseteq G /\ T \subseteq F(T) /\ T \subseteq Ids
      OBVIOUS
    <2>2. \A T \in Kept : T \subseteq F(G)
      BY <1>1, <2>1
    <2> QED
      BY <2>1, <2>2
  <1>4. F(G) \subseteq G
    <2>1. F(G) \in Kept
      BY <1>1, <1>2, <1>3
    <2> QED
      BY <2>1
  <1> HIDE DEF Kept, G
  <1>5. \A d \in Ids : (d \in G) <=> /\ Held(d)
                                    /\ \/ d = c
                                       \/ ParentOf(d) \in Ids /\ ParentOf(d) \in G
    BY <1>3, <1>4 DEF F
  <1>6. PICK f : f = [d \in Ids |-> d \in G]
    OBVIOUS
  <1>7. ASSUME NEW d \in Ids PROVE (d \in G) = Leads(c, d, f)
    <2>1. ParentOf(d) \in Ids => f[ParentOf(d)] = (ParentOf(d) \in G)
      BY <1>6, Zenon
    <2>2. (d \in G) <=> Leads(c, d, f)
      BY <1>5, <2>1, Zenon DEF Leads
    <2>3. Leads(c, d, f) \in BOOLEAN
      BY Zenon DEF Leads
    <2> QED
      BY <2>2, <2>3, SMT
  <1>8. f = [d \in Ids |-> Leads(c, d, f)]
    BY <1>6, <1>7, Zenon
  <1> QED
    BY <1>8 DEF Solves

LEMMA BelowIs ==
    ASSUME NEW c, NEW d \in Ids
    PROVE  d \in Below(c) <=>
               /\ Held(d)
               /\ \/ d = c
                  \/ ParentOf(d) \in Ids /\ ParentOf(d) \in Below(c)
  <1> DEFINE u == CHOOSE f : Solves(c, f)
  <1>1. Solves(c, u)
    BY BelowSolvable, Zenon
  <1>2. Below(c) = {e \in Ids : u[e]}
    BY DEF Below, Solves, Leads
  <1> HIDE DEF u
  <1>3. \A e \in Ids : u[e] = Leads(c, e, u)
    BY <1>1, Zenon DEF Solves
  <1>4. u[d] <=> Leads(c, d, u)
    BY <1>3, Zenon
  <1>5. \A e \in Ids : e \in Below(c) <=> u[e]
    BY <1>2, Zenon
  <1> QED
    BY <1>4, <1>5, Zenon DEF Leads

-----------------------------------------------------------------------------
(* What the waiting statements make of the table *)

Tables == [Ids -> Ids \cup {-1, NoRow}]

LEMMA EffectType ==
    ASSUME NEW tab \in Tables, NEW s \in Statements
    PROVE  Effect(tab, s) \in Tables
  BY DEF Effect, Tables, Statements

\* The tables on the way to the n-th: one after each statement.
Run(tab, list, n, f) ==
    /\ f \in [0..n -> Tables]
    /\ f[0] = tab
    /\ \A k \in 1..n : f[k] = Effect(f[k - 1], list[k])

LEMMA RunExists ==
    ASSUME NEW tab \in Tables, NEW list \in Seq(Statements)
    PROVE  \E f : Run(tab, list, Len(list), f)
  <1> DEFINE S == {n \in 0..Len(list) : ~\E f : Run(tab, list, n, f)}
  <1>1. Len(list) \in Nat /\ \A k \in 1..Len(list) : list[k] \in Statements
    OBVIOUS
  <1>2. ASSUME S # {} PROVE FALSE
    <2>1. PICK n \in S : \A k \in S : n <= k
      <3>1. S \subseteq Nat
        BY <1>1
      <3> HIDE DEF S
      <3> QED
        BY <1>2, <3>1, LeastOf
    <2>2. n # 0
      <3>1. Run(tab, list, 0, [k \in 0..0 |-> tab])
        BY DEF Run
      <3> QED
        BY <3>1
    <2>3. n \in 1..Len(list) /\ n - 1 \in 0..Len(list) /\ ~(n <= n - 1)
      BY <1>1, <2>2
    <2>4. PICK f : Run(tab, list, n - 1, f)
      BY <2>1, <2>3
    <2> DEFINE g == [k \in 0..n |-> IF k = n THEN Effect(f[n - 1], list[n]) ELSE f[k]]
    <2>5. f \in [0..(n - 1) -> Tables] /\ n - 1 \in 0..(n - 1) /\ list[n] \in Statements
      BY <1>1, <2>3, <2>4 DEF Run
    <2>6. Effect(f[n - 1], list[n]) \in Tables
      BY <2>5, EffectType
    <2>7. g \in [0..n -> Tables]
      BY <2>3, <2>5, <2>6
    <2>8. g[0] = tab
      BY <2>3, <2>4 DEF Run
    <2>9. ASSUME NEW k \in 1..n PROVE g[k] = Effect(g[k - 1], list[k])
      <3>1. k - 1 \in 0..n /\ k \in 0..n /\ k - 1 # n
        BY <2>3
      <3>2. g[k - 1] = f[k - 1]
        BY <3>1
      <3>3. CASE k = n
        BY <3>1, <3>2, <3>3
      <3>4. CASE k # n
        <4>1. k \in 1..(n - 1) /\ g[k] = f[k]
          BY <2>3, <3>1, <3>4
        <4> QED
          BY <2>4, <3>2, <4>1 DEF Run
      <3> QED
        BY <3>3, <3>4
    <2> HIDE DEF g
    <2>10. Run(tab, list, n, g)
      BY <2>7, <2>8, <2>9 DEF Run
    <2> QED
      BY <2>1, <2>10
  <1>3. Len(list) \in 0..Len(list)
    BY <1>1
  <1> QED
    BY <1>2, <1>3

LEMMA AfterIsLast ==
    ASSUME NEW tab \in Tables, NEW list \in Seq(Statements), NEW f,
           Run(tab, list, Len(list), f)
    PROVE  After(tab, list) = f[Len(list)]
  <1> DEFINE n == Len(list)
             Passes(r) == r = [k \in 0..n |-> IF k = 0 THEN tab ELSE Effect(r[k - 1], list[k])]
             reached == CHOOSE r : Passes(r)
  <1>1. n \in Nat /\ \A k \in 1..n : list[k] \in Statements
    OBVIOUS
  <1>2. After(tab, list) = reached[n]
    BY DEF After
  <1> HIDE DEF n
  <1>3. Passes(f)
    <2>1. \A k \in 0..n : f[k] = IF k = 0 THEN tab ELSE Effect(f[k - 1], list[k])
      <3>1. \A k \in 0..n : k # 0 => k \in 1..n
        BY <1>1
      <3> QED
        BY <3>1 DEF Run, n
    <2>2. f \in [0..n -> Tables]
      BY DEF Run, n
    <2> QED
      BY <2>1, <2>2
  <1> HIDE DEF Passes
  <1>4. Passes(reached)
    BY <1>3
  <1> HIDE DEF reached
  <1>5. DOMAIN reached = 0..n /\ reached = [k \in 0..n |-> reached[k]]
    BY <1>4 DEF Passes
  <1>6. \A k \in 0..n : reached[k] = IF k = 0 THEN tab ELSE Effect(reached[k - 1], list[k])
    BY <1>4 DEF Passes
  <1>7. \A k \in 1..n : reached[k] = Effect(reached[k - 1], list[k])
    BY <1>1, <1>6
  <1>8. ASSUME NEW m \in 0..n PROVE reached[m] = f[m]
    <2> DEFINE S == {k \in 0..n : reached[k] # f[k]}
    <2>1. ASSUME S # {} PROVE FALSE
      <3>1. PICK k \in S : \A j \in S : k <= j
        <4>1. S \subseteq Nat
          OBVIOUS
        <4> HIDE DEF S
        <4> QED
          BY <2>1, <4>1, LeastOf
      <3>2. k # 0
        BY <1>1, <1>6 DEF Run, n
      <3>3. k \in 1..n /\ k - 1 \in 0..n /\ ~(k <= k - 1)
        BY <1>1, <3>1, <3>2
      <3>4. reached[k - 1] = f[k - 1]
        BY <3>1, <3>3
      <3>5. reached[k] = f[k]
        BY <1>7, <3>3, <3>4 DEF Run, n
      <3> QED
        BY <3>1, <3>5
    <2> QED
      BY <2>1
  <1>9. n \in 0..n
    BY <1>1
  <1> QED
    BY <1>2, <1>8, <1>9 DEF n

LEMMA AfterType ==
    ASSUME NEW tab \in Tables, NEW list \in Seq(Statements)
    PROVE  After(tab, list) \in Tables
  <1>1. PICK f : Run(tab, list, Len(list), f)
    BY RunExists
  <1>2. Len(list) \in 0..Len(list)
    OBVIOUS
  <1> QED
    BY <1>1, <1>2, AfterIsLast DEF Run

LEMMA AfterNothing ==
    ASSUME NEW tab \in Tables
    PROVE  After(tab, << >>) = tab
  <1>1. << >> \in Seq(Statements) /\ Len(<< >>) = 0
    OBVIOUS
  <1>2. Run(tab, << >>, 0, [k \in 0..0 |-> tab])
    BY DEF Run
  <1> HIDE DEF Run
  <1>3. After(tab, << >>) = [k \in 0..0 |-> tab][0]
    BY <1>1, <1>2, AfterIsLast
  <1> QED
    BY <1>3

\* A statement posted runs last ...
LEMMA AfterPosted ==
    ASSUME NEW tab \in Tables, NEW list \in Seq(Statements), NEW s \in Statements
    PROVE  After(tab, Append(list, s)) = Effect(After(tab, list), s)
  <1> DEFINE n == Len(list)
             longer == Append(list, s)
  <1>1. /\ n \in Nat /\ longer \in Seq(Statements) /\ Len(longer) = n + 1
        /\ longer[n + 1] = s /\ \A k \in 1..n : longer[k] = list[k]
    OBVIOUS
  <1>2. PICK f : Run(tab, longer, n + 1, f)
    BY <1>1, RunExists
  <1> DEFINE g == [k \in 0..n |-> f[k]]
  <1>3. f[0] = tab /\ f \in [0..(n + 1) -> Tables]
        /\ \A k \in 1..(n + 1) : f[k] = Effect(f[k - 1], longer[k])
    BY <1>2 DEF Run
  <1> HIDE DEF n, longer
  <1>4. Run(tab, list, n, g)
    <2>1. g \in [0..n -> Tables] /\ g[0] = tab
      BY <1>1, <1>3
    <2>2. ASSUME NEW k \in 1..n PROVE g[k] = Effect(g[k - 1], list[k])
      <3>1. k - 1 \in 0..n /\ k \in 0..n /\ k \in 1..(n + 1)
        BY <1>1
      <3> QED
        BY <1>1, <1>3, <3>1
    <2> HIDE DEF g
    <2> QED
      BY <2>1, <2>2 DEF Run
  <1>5. g[n] = f[n] /\ n + 1 \in 1..(n + 1) /\ (n + 1) - 1 = n
    BY <1>1
  <1> HIDE DEF g
  <1>6. After(tab, list) = g[n]
    BY <1>4, AfterIsLast DEF n
  <1>7. After(tab, longer) = f[n + 1]
    BY <1>1, <1>2, AfterIsLast
  <1>8. f[n + 1] = Effect(f[n], s)
    BY <1>1, <1>3, <1>5
  <1> QED
    BY <1>5, <1>6, <1>7, <1>8 DEF longer

\* ... and the first one to run makes no difference when it does.
LEMMA AfterExecuted ==
    ASSUME NEW tab \in Tables, NEW list \in Seq(Statements), list # << >>
    PROVE  After(Effect(tab, Head(list)), Tail(list)) = After(tab, list)
  <1> DEFINE n == Len(list)
             rest == Tail(list)
             next == Effect(tab, Head(list))
  <1>1. /\ n \in Nat /\ n >= 1 /\ Head(list) = list[1] /\ Head(list) \in Statements
        /\ rest \in Seq(Statements) /\ Len(rest) = n - 1
        /\ \A k \in 1..(n - 1) : rest[k] = list[k + 1]
    OBVIOUS
  <1>2. next \in Tables
    BY <1>1, EffectType
  <1>3. PICK f : Run(tab, list, n, f)
    BY RunExists
  <1>4. f[0] = tab /\ f \in [0..n -> Tables]
        /\ \A k \in 1..n : f[k] = Effect(f[k - 1], list[k])
    BY <1>3 DEF Run
  <1> DEFINE g == [k \in 0..(n - 1) |-> f[k + 1]]
  <1> HIDE DEF n, rest
  <1>5. f[1] = next
    BY <1>1, <1>4
  <1> HIDE DEF next
  <1>6. Run(next, rest, n - 1, g)
    <2>1. g \in [0..(n - 1) -> Tables] /\ g[0] = next
      BY <1>1, <1>4, <1>5
    <2>2. ASSUME NEW k \in 1..(n - 1) PROVE g[k] = Effect(g[k - 1], rest[k])
      <3>1. /\ k - 1 \in 0..(n - 1) /\ k \in 0..(n - 1) /\ k + 1 \in 1..n
            /\ (k - 1) + 1 = k /\ (k + 1) - 1 = k
        BY <1>1
      <3>2. g[k] = f[k + 1] /\ g[k - 1] = f[k] /\ rest[k] = list[k + 1]
        BY <1>1, <3>1
      <3> QED
        BY <1>4, <3>1, <3>2
    <2> HIDE DEF g
    <2> QED
      BY <2>1, <2>2 DEF Run
  <1>7. g[n - 1] = f[n]
    BY <1>1
  <1> HIDE DEF g
  <1>8. After(next, rest) = g[n - 1]
    BY <1>1, <1>2, <1>6, AfterIsLast
  <1>9. After(tab, list) = f[n]
    BY <1>3, AfterIsLast DEF n
  <1> QED
    BY <1>7, <1>8, <1>9 DEF next, rest
-----------------------------------------------------------------------------
(* The records read in *)

KeptIds == {c \in Ids : table[c] # NoRow}
Ahead(c) == {d \in KeptIds : \/ table[d] < table[c]
                             \/ table[d] = table[c] /\ d < c}
Rank(c) == Cardinality(Ahead(c)) + 1

LEMMA KeptFacts ==
    ASSUME TableSound(table)
    PROVE  /\ KeptIds \subseteq Ids /\ IsFiniteSet(KeptIds)
           /\ Cardinality(KeptIds) \in Nat /\ Cardinality(KeptIds) <= MaxId + 1
           /\ \A c \in KeptIds : table[c] \in Int /\ c \in Int /\ table[c] \in Ids \cup {-1}
           /\ \A c \in Ids : IsFiniteSet(Ahead(c)) /\ Cardinality(Ahead(c)) \in Nat
  <1>1. IsFiniteSet(Ids) /\ Cardinality(Ids) = MaxId + 1
    BY CatalogAssumption, FS_Interval DEF Ids
  <1>2. KeptIds \subseteq Ids
    BY DEF KeptIds
  <1>3. IsFiniteSet(KeptIds) /\ Cardinality(KeptIds) \in Nat /\ Cardinality(KeptIds) <= MaxId + 1
    BY <1>1, <1>2, FS_Subset, FS_CardinalityType
  <1>4. \A c \in KeptIds : table[c] \in Ids \cup {-1} /\ table[c] \in Int /\ c \in Int
    BY DEF TableSound, KeptIds, Ids
  <1>5. ASSUME NEW c \in Ids PROVE IsFiniteSet(Ahead(c)) /\ Cardinality(Ahead(c)) \in Nat
    <2>1. Ahead(c) \subseteq KeptIds
      BY DEF Ahead
    <2> QED
      BY <1>3, <2>1, FS_Subset, FS_CardinalityType
  <1> QED
    BY <1>2, <1>3, <1>4, <1>5

\* The order is a strict one, so that fewer records are ahead of an earlier one.
LEMMA RankGrows ==
    ASSUME TableSound(table), NEW c \in KeptIds, NEW d \in Ahead(c)
    PROVE  Rank(d) < Rank(c)
  <1>1. d \in KeptIds /\ c \in Ids /\ d \in Ids
    BY DEF Ahead, KeptIds
  <1>2. Ahead(d) \subseteq Ahead(c) /\ d \notin Ahead(d)
    BY <1>1, KeptFacts DEF Ahead
  <1>3. IsFiniteSet(Ahead(c)) /\ Cardinality(Ahead(c)) \in Nat /\ Cardinality(Ahead(d)) \in Nat
    BY <1>1, KeptFacts
  <1>4. /\ Cardinality(Ahead(d)) <= Cardinality(Ahead(c))
        /\ Cardinality(Ahead(c)) = Cardinality(Ahead(d)) => Ahead(c) = Ahead(d)
    BY <1>2, <1>3, FS_Subset
  <1>5. Cardinality(Ahead(d)) # Cardinality(Ahead(c))
    BY <1>2, <1>4
  <1> QED
    BY <1>3, <1>4, <1>5 DEF Rank

\* Every place up to the number of records is taken, by one record.
LEMMA RankIsPlace ==
    ASSUME TableSound(table)
    PROVE  /\ \A c \in KeptIds : Rank(c) \in 1..Cardinality(KeptIds)
           /\ \A c, d \in KeptIds : Rank(c) = Rank(d) => c = d
           /\ \A k \in 1..Cardinality(KeptIds) : \E c \in KeptIds : Rank(c) = k
  <1> DEFINE N == Cardinality(KeptIds)
             f == [c \in KeptIds |-> Rank(c)]
  <1>1. /\ KeptIds \subseteq Ids /\ IsFiniteSet(KeptIds) /\ N \in Nat
        /\ \A c \in KeptIds : table[c] \in Int /\ c \in Int
        /\ \A c \in Ids : IsFiniteSet(Ahead(c)) /\ Cardinality(Ahead(c)) \in Nat
    BY KeptFacts
  <1>2. ASSUME NEW c \in KeptIds PROVE Rank(c) \in 1..N
    <2>1. Ahead(c) \subseteq KeptIds /\ c \notin Ahead(c)
      BY <1>1 DEF Ahead
    <2>2. /\ Cardinality(Ahead(c)) <= N
          /\ N = Cardinality(Ahead(c)) => KeptIds = Ahead(c)
      BY <1>1, <2>1, FS_Subset
    <2>3. Cardinality(Ahead(c)) \in Nat /\ Cardinality(Ahead(c)) # N
      BY <1>1, <2>1, <2>2
    <2> QED
      BY <1>1, <2>2, <2>3 DEF Rank
  <1>3. ASSUME NEW c \in KeptIds, NEW d \in KeptIds, Rank(c) = Rank(d) PROVE c = d
    <2>1. c # d => c \in Ahead(d) \/ d \in Ahead(c)
      BY <1>1 DEF Ahead
    <2>2. Rank(c) \in Int /\ Rank(d) \in Int
      BY <1>2
    <2> QED
      BY <1>3, <2>1, <2>2, RankGrows
  <1>4. f \in Injection(KeptIds, 1..N)
    BY <1>2, <1>3 DEF Injection, IsInjective
  <1>5. IsFiniteSet(1..N) /\ Cardinality(1..N) = N
    BY <1>1, FS_Interval
  <1>6. f \in Surjection(KeptIds, 1..N)
    <2> HIDE DEF f
    <2> QED
      BY <1>4, <1>5, FS_Injection
  <1>7. \A k \in 1..N : \E c \in KeptIds : Rank(c) = k
    BY <1>6 DEF Surjection
  <1> QED
    BY <1>2, <1>3, <1>7

LEMMA LoadIs ==
    ASSUME TableSound(table)
    PROVE  /\ Load \in Seq(Records) /\ Len(Load) <= MaxId + 1
           /\ \A k \in DOMAIN Load :
                  /\ Load[k].id \in KeptIds /\ Load[k].parent = table[Load[k].id]
                  /\ Load[k].stored /\ Rank(Load[k].id) = k
           /\ \A c \in KeptIds : \E k \in DOMAIN Load : Load[k].id = c
  <1> DEFINE N == Cardinality(KeptIds)
             Nth(k) == CHOOSE c \in KeptIds : Cardinality(Ahead(c)) = k - 1
  <1>1. Load = [k \in 1..N |-> [id |-> Nth(k), parent |-> table[Nth(k)], stored |-> TRUE]]
    BY DEF Load, KeptIds, Ahead
  <1>2. /\ N \in Nat /\ N <= MaxId + 1 /\ KeptIds \subseteq Ids
        /\ \A c \in KeptIds : table[c] \in Ids \cup {-1}
        /\ \A c \in KeptIds : Cardinality(Ahead(c)) \in Nat
    BY KeptFacts
  <1>3. ASSUME NEW k \in 1..N PROVE Nth(k) \in KeptIds /\ Rank(Nth(k)) = k
    <2>1. PICK c \in KeptIds : Rank(c) = k
      BY RankIsPlace
    <2>2. Cardinality(Ahead(c)) = k - 1
      BY <1>2, <2>1 DEF Rank
    <2>3. Nth(k) \in KeptIds /\ Cardinality(Ahead(Nth(k))) = k - 1
      BY <2>2
    <2> QED
      BY <2>3 DEF Rank
  <1> HIDE DEF Nth, N
  <1>4. \A k \in 1..N : [id |-> Nth(k), parent |-> table[Nth(k)], stored |-> TRUE] \in Records
    BY <1>2, <1>3 DEF Records
  <1>5. Load \in Seq(Records) /\ Len(Load) = N /\ DOMAIN Load = 1..N
    BY <1>1, <1>2, <1>4
  <1>6. \A k \in DOMAIN Load :
          /\ Load[k].id \in KeptIds /\ Load[k].parent = table[Load[k].id]
          /\ Load[k].stored /\ Rank(Load[k].id) = k
    BY <1>1, <1>3
  <1>7. ASSUME NEW c \in KeptIds PROVE \E k \in DOMAIN Load : Load[k].id = c
    <2>1. Rank(c) \in 1..N
      BY RankIsPlace DEF N
    <2>2. Load[Rank(c)].id \in KeptIds /\ Rank(Load[Rank(c)].id) = Rank(c)
      BY <1>5, <1>6, <2>1
    <2>3. Load[Rank(c)].id = c
      BY <2>2, RankIsPlace
    <2> QED
      BY <1>5, <2>1, <2>3
  <1> QED
    BY <1>2, <1>5, <1>6, <1>7

\* What is read in is a tree, and what the table holds.
LEMMA LoadedTree ==
    ASSUME TableSound(table)
    PROVE  Tree(Load) /\ Follows(Load, table)
  <1>1. /\ Load \in Seq(Records) /\ Len(Load) <= MaxId + 1
        /\ \A k \in DOMAIN Load :
               /\ Load[k].id \in KeptIds /\ Load[k].parent = table[Load[k].id]
               /\ Load[k].stored /\ Rank(Load[k].id) = k
        /\ \A c \in KeptIds : \E k \in DOMAIN Load : Load[k].id = c
    BY LoadIs
  <1>2. /\ KeptIds \subseteq Ids
        /\ \A c \in KeptIds : table[c] \in Ids \cup {-1} /\ table[c] \in Int /\ c \in Int
    BY KeptFacts
  <1>3. \A c \in KeptIds : Sound(table[c], c)
    BY DEF TableSound, KeptIds
  <1>4. \A i, j \in DOMAIN Load : Load[i].id = Load[j].id => i = j
    BY <1>1
  <1>5. ASSUME NEW i \in DOMAIN Load, NEW j \in DOMAIN Load, Load[j].parent = Load[i].id
        PROVE  i < j
    <2> DEFINE p == Load[i].id
               c == Load[j].id
    <2>1. p \in KeptIds /\ c \in KeptIds /\ table[c] = p /\ Rank(p) = i /\ Rank(c) = j
      BY <1>1, <1>5
    <2>2. table[p] < p
      BY <1>3, <2>1 DEF Sound
    <2>3. p \in Ahead(c)
      BY <2>1, <2>2 DEF Ahead
    <2> HIDE DEF p, c
    <2>4. Rank(p) < Rank(c)
      BY <2>1, <2>3, RankGrows
    <2> QED
      BY <2>1, <2>4
  <1>6. \A k \in DOMAIN Load : Sound(Load[k].parent, Load[k].id)
    BY <1>1, <1>3
  <1>7. ASSUME NEW c \in System
        PROVE  \E k \in DOMAIN Load :
                   Load[k].id = c /\ Load[k].parent = Defaults[c] /\ Load[k].stored
    <2>1. c \in Ids /\ Defaults[c] # NoRow
      BY CatalogAssumption DEF System, TopLevel, Ids
    <2>2. c \in KeptIds /\ table[c] = Defaults[c]
      BY <2>1 DEF TableSound, KeptIds
    <2> QED
      BY <1>1, <2>2
  <1>8. Tree(Load)
    BY <1>1, <1>4, <1>5, <1>6, <1>7 DEF Tree
  <1>9. Follows(Load, table)
    <2> SUFFICES ASSUME NEW c \in Ids
                 PROVE  \/ /\ table[c] = NoRow
                           /\ \A i \in DOMAIN Load : Load[i].id = c => ~Load[i].stored
                        \/ \E i \in DOMAIN Load : Load[i].id = c /\ Load[i].stored
                                                  /\ table[c] = Load[i].parent
      BY DEF Follows
    <2>1. CASE c \in KeptIds
      BY <1>1, <2>1
    <2>2. CASE c \notin KeptIds
      BY <1>1, <2>2 DEF KeptIds
    <2> QED
      BY <2>1, <2>2
  <1> QED
    BY <1>8, <1>9
-----------------------------------------------------------------------------
(* Records added and removed *)

LEMMA FewRecords ==
    ASSUME NEW list \in Seq(Records),
           \A i, j \in DOMAIN list : list[i].id = list[j].id => i = j
    PROVE  Len(list) <= MaxId + 1
  <1> DEFINE f == [i \in 1..Len(list) |-> list[i].id]
  <1>1. Len(list) \in Nat /\ DOMAIN list = 1..Len(list)
        /\ \A i \in 1..Len(list) : list[i].id \in Ids
    <2>1. \A i \in 1..Len(list) : list[i] \in Records
      OBVIOUS
    <2> QED
      BY <2>1 DEF Records
  <1>2. IsFiniteSet(Ids) /\ Cardinality(Ids) = MaxId + 1
    BY CatalogAssumption, FS_Interval DEF Ids
  <1>3. Cardinality(1..Len(list)) = Len(list)
    BY <1>1, FS_Interval
  <1>4. f \in Injection(1..Len(list), Ids)
    BY <1>1 DEF Injection, IsInjective
  <1> HIDE DEF f
  <1>5. Cardinality(1..Len(list)) <= Cardinality(Ids)
    BY <1>2, <1>4, FS_Injection
  <1> QED
    BY <1>2, <1>3, <1>5

LEMMA NextIdIs ==
    ASSUME Tree(cats)
    PROVE  /\ NextId \in Nat \ {0} /\ \A i \in DOMAIN cats : cats[i].id < NextId
           /\ NextId \notin System
  <1> DEFINE S == {cats[i].id : i \in DOMAIN cats}
  <1>1. \A i \in DOMAIN cats : cats[i].id \in 0..MaxId
    BY TreeFacts DEF Ids
  <1>2. PICK i \in DOMAIN cats : cats[i].id = Root
    BY DEF Tree, System
  <1>3. PICK m \in S : \A k \in S : k <= m
    <2>1. S \subseteq 0..MaxId /\ S # {} /\ MaxId \in Nat
      BY <1>1, <1>2, CatalogAssumption
    <2> HIDE DEF S
    <2> QED
      BY <2>1, GreatestOf
  <1>4. \A j \in DOMAIN cats : cats[j].id <= m
    BY <1>3
  <1>5. NextId - 1 \in S /\ \A j \in DOMAIN cats : cats[j].id <= NextId - 1
    <2> DEFINE top == CHOOSE k \in S : \A j \in DOMAIN cats : cats[j].id <= k
    <2>1. top \in S /\ \A j \in DOMAIN cats : cats[j].id <= top
      <3> HIDE DEF S
      <3> QED
        BY <1>3, <1>4
    <2>2. NextId = 1 + top
      BY DEF NextId
    <2>3. top \in 0..MaxId
      BY <1>1, <2>1
    <2> HIDE DEF top
    <2>4. NextId - 1 = top
      BY <2>2, <2>3
    <2> QED
      BY <2>1, <2>4
  <1>6. NextId - 1 \in 0..MaxId /\ NextId \in Int
    <2>1. NextId - 1 \in 0..MaxId
      BY <1>1, <1>5
    <2>2. NextId \in Int
      BY <1>1, <1>3, <1>4 DEF NextId
    <2> QED
      BY <2>1, <2>2
  <1>7. \A c \in System : \E j \in DOMAIN cats : cats[j].id = c
    BY DEF Tree
  <1> QED
    BY <1>1, <1>5, <1>6, <1>7

\* A new record names a record that is there, and is named by none.
LEMMA GrownTree ==
    ASSUME Tree(cats), NextId <= MaxId, NEW p, Held(p), p # Root, NEW valid \in BOOLEAN
    PROVE  /\ Tree(Inserted(p, valid))
           /\ Sound(p, NextId)
           /\ \A i \in DOMAIN cats : cats[i].parent # NextId
  <1> DEFINE r == [id |-> NextId, parent |-> p, stored |-> valid]
             n == Len(cats)
             list == Append(cats, r)
  <1>1. /\ n \in Nat /\ DOMAIN cats = 1..n
        /\ \A i \in 1..n : cats[i].id \in Ids /\ cats[i].parent \in Ids \cup {-1}
    BY TreeFacts
  <1>2. PICK h \in 1..n : cats[h].id = p
    BY <1>1 DEF Held
  <1>3. NextId \in Nat \ {0} /\ \A i \in 1..n : cats[i].id < NextId
    BY <1>1, NextIdIs
  <1>4. p \in Ids /\ p < NextId
    BY <1>1, <1>2, <1>3
  <1>5. Sound(p, NextId)
    BY <1>4 DEF Sound, Ids
  <1>6. \A i \in 1..n : cats[i].parent < cats[i].id
    BY <1>1 DEF Tree, Sound
  <1>7. \A i \in 1..n : cats[i].parent # NextId
    BY <1>1, <1>3, <1>6 DEF Ids
  <1>8. r \in Records
    BY <1>3, <1>4 DEF Records, Ids
  <1>9. /\ list \in Seq(Records) /\ Len(list) = n + 1 /\ list[n + 1] = r
        /\ \A i \in 1..n : list[i] = cats[i]
        /\ DOMAIN list = 1..(n + 1)
    BY <1>8 DEF Tree
  <1>10. r.id = NextId /\ r.parent = p
    OBVIOUS
  <1> HIDE DEF list, r, n
  <1>11. \A i \in 1..(n + 1) : i \in 1..n \/ i = n + 1
    BY <1>1
  <1>12. \A i, j \in DOMAIN list : list[i].id = list[j].id => i = j
    <2>1. \A i, j \in 1..n : cats[i].id = cats[j].id => i = j
      BY <1>1 DEF Tree
    <2>2. \A i \in 1..n : cats[i].id # NextId
      BY <1>1, <1>3 DEF Ids
    <2> QED
      BY <1>9, <1>10, <1>11, <2>1, <2>2
  <1>13. \A i, j \in DOMAIN list : list[j].parent = list[i].id => i < j
    <2> SUFFICES ASSUME NEW i \in 1..(n + 1), NEW j \in 1..(n + 1), list[j].parent = list[i].id
                 PROVE  i < j
      BY <1>9
    <2>1. CASE i \in 1..n /\ j \in 1..n
      BY <1>1, <1>9, <2>1 DEF Tree
    <2>2. CASE i \in 1..n /\ j = n + 1
      BY <1>1, <2>2
    <2>3. CASE i = n + 1 /\ j \in 1..n
      BY <1>7, <1>9, <1>10, <2>3
    <2>4. CASE i = n + 1 /\ j = n + 1
      BY <1>3, <1>4, <1>9, <1>10, <2>4 DEF Ids
    <2> QED
      BY <1>11, <2>1, <2>2, <2>3, <2>4
  <1>14. \A i \in DOMAIN list : Sound(list[i].parent, list[i].id)
    BY <1>1, <1>5, <1>9, <1>10, <1>11 DEF Tree
  <1>15. \A c \in System : \E i \in DOMAIN list :
             list[i].id = c /\ list[i].parent = Defaults[c] /\ list[i].stored
    <2> SUFFICES ASSUME NEW c \in System
                 PROVE  \E i \in DOMAIN list :
                          list[i].id = c /\ list[i].parent = Defaults[c] /\ list[i].stored
      OBVIOUS
    <2>1. PICK i \in 1..n : cats[i].id = c /\ cats[i].parent = Defaults[c] /\ cats[i].stored
      BY <1>1 DEF Tree
    <2>2. i \in DOMAIN list /\ list[i] = cats[i]
      BY <1>1, <1>9
    <2> QED
      BY <2>1, <2>2
  <1>16. Tree(list)
    BY <1>9, <1>12, <1>13, <1>14, <1>15, FewRecords DEF Tree
  <1> QED
    BY <1>1, <1>5, <1>7, <1>16 DEF Inserted, list, r

LEMMA RemovedAt ==
    ASSUME NEW S, NEW rows \in Seq(S), NEW k \in DOMAIN rows
    PROVE  /\ RemoveAt(rows, k) \in Seq(S) /\ Len(RemoveAt(rows, k)) = Len(rows) - 1
           /\ \A i \in DOMAIN RemoveAt(rows, k) :
                  RemoveAt(rows, k)[i] = IF i < k THEN rows[i] ELSE rows[i + 1]
  <1> DEFINE n == Len(rows)
             a == SubSeq(rows, 1, k - 1)
             b == SubSeq(rows, k + 1, n)
             q == RemoveAt(rows, k)
  <1>1. n \in Nat /\ DOMAIN rows = 1..n /\ k \in 1..n /\ \A i \in 1..n : rows[i] \in S
    OBVIOUS
  <1>2. /\ a \in Seq(S) /\ Len(a) = k - 1
        /\ \A i \in 1..(k - 1) : a[i] = rows[i]
    <2>1. \A i \in 1..(k - 1) : rows[i] \in S
      BY <1>1
    <2>2. k - 1 \in Int /\ 1 \in Int
      BY <1>1
    <2>3. /\ a \in Seq(S) /\ Len(a) = IF 1 <= k - 1 THEN (k - 1) - 1 + 1 ELSE 0
          /\ \A i \in 1..((k - 1) - 1 + 1) : a[i] = rows[1 + i - 1]
      BY <2>1, <2>2, SubSeqProperties
    <2> QED
      BY <1>1, <2>3
  <1>3. /\ b \in Seq(S) /\ Len(b) = n - k
        /\ \A i \in 1..(n - k) : b[i] = rows[k + i]
    <2>1. \A i \in (k + 1)..n : rows[i] \in S
      BY <1>1
    <2>2. k + 1 \in Int /\ n \in Int
      BY <1>1
    <2>3. /\ b \in Seq(S) /\ Len(b) = IF k + 1 <= n THEN n - (k + 1) + 1 ELSE 0
          /\ \A i \in 1..(n - (k + 1) + 1) : b[i] = rows[(k + 1) + i - 1]
      BY <2>1, <2>2, SubSeqProperties
    <2>4. n - (k + 1) + 1 = n - k /\ (k + 1 <= n \/ n - k = 0)
      BY <1>1
    <2>5. \A i \in 1..(n - k) : (k + 1) + i - 1 = k + i
      BY <1>1
    <2> HIDE DEF b, n
    <2> QED
      BY <2>3, <2>4, <2>5
  <1>4. q = a \o b
    BY DEF RemoveAt
  <1> HIDE DEF a, b, q, n
  <1>5. /\ q \in Seq(S) /\ Len(q) = (k - 1) + (n - k)
        /\ \A i \in 1..((k - 1) + (n - k)) : q[i] = IF i <= k - 1 THEN a[i] ELSE b[i - (k - 1)]
    BY <1>2, <1>3, <1>4, ConcatProperties
  <1>6. Len(q) = n - 1 /\ DOMAIN q = 1..(n - 1)
    BY <1>1, <1>5
  <1>7. ASSUME NEW i \in 1..(n - 1)
        PROVE  q[i] = IF i < k THEN rows[i] ELSE rows[i + 1]
    <2>1. i \in 1..((k - 1) + (n - k))
      BY <1>1, <1>7
    <2>2. CASE i < k
      <3>1. i \in 1..(k - 1) /\ i <= k - 1
        BY <1>1, <1>7, <2>2
      <3> QED
        BY <1>2, <1>5, <2>1, <2>2, <3>1
    <2>3. CASE ~(i < k)
      <3>1. ~(i <= k - 1) /\ i - (k - 1) \in 1..(n - k) /\ k + (i - (k - 1)) = i + 1
        BY <1>1, <1>7, <2>3
      <3>2. q[i] = b[i - (k - 1)]
        BY <1>5, <2>1, <3>1
      <3>3. b[i - (k - 1)] = rows[i + 1]
        BY <1>3, <3>1
      <3> QED
        BY <2>3, <3>2, <3>3
    <2> QED
      BY <2>2, <2>3
  <1> QED
    BY <1>5, <1>6, <1>7 DEF n, q

LEMMA ShrunkTree ==
    ASSUME NEW list, Tree(list), NEW k \in DOMAIN list, list[k].id \notin System
    PROVE  Tree(RemoveAt(list, k))
  <1> DEFINE left == RemoveAt(list, k)
             n == Len(list)
             Was(i) == IF i < k THEN i ELSE i + 1
  <1>1. n \in Nat /\ DOMAIN list = 1..n /\ k \in 1..n /\ list \in Seq(Records)
    BY TreeFacts DEF Tree
  <1>2. /\ left \in Seq(Records) /\ Len(left) = n - 1
        /\ \A i \in DOMAIN left : left[i] = IF i < k THEN list[i] ELSE list[i + 1]
    BY <1>1, RemovedAt
  <1> HIDE DEF left, n
  <1>3. DOMAIN left = 1..(n - 1)
    BY <1>1, <1>2
  <1>4. /\ \A i \in DOMAIN left : Was(i) \in DOMAIN list /\ left[i] = list[Was(i)]
        /\ \A i, j \in DOMAIN left : Was(i) = Was(j) => i = j
        /\ \A i, j \in DOMAIN left : Was(i) < Was(j) => i < j
    BY <1>1, <1>2, <1>3
  <1>5. \A i \in DOMAIN list : i # k => \E j \in DOMAIN left : Was(j) = i
    <2> SUFFICES ASSUME NEW i \in 1..n, i # k
                 PROVE  \E j \in 1..(n - 1) : Was(j) = i
      BY <1>1, <1>3
    <2>1. CASE i < k
      <3>1. i \in 1..(n - 1)
        BY <1>1, <2>1
      <3> QED
        BY <2>1, <3>1
    <2>2. CASE ~(i < k)
      <3>1. i - 1 \in 1..(n - 1) /\ ~(i - 1 < k) /\ (i - 1) + 1 = i
        BY <1>1, <2>2
      <3> QED
        BY <3>1
    <2> QED
      BY <2>1, <2>2
  <1> HIDE DEF Was
  <1>6. \A i, j \in DOMAIN left : left[i].id = left[j].id => i = j
    BY <1>4 DEF Tree
  <1>7. \A i, j \in DOMAIN left : left[j].parent = left[i].id => i < j
    BY <1>4 DEF Tree
  <1>8. \A i \in DOMAIN left : Sound(left[i].parent, left[i].id)
    BY <1>4 DEF Tree
  <1>9. \A c \in System : \E i \in DOMAIN left :
             left[i].id = c /\ left[i].parent = Defaults[c] /\ left[i].stored
    <2> SUFFICES ASSUME NEW c \in System
                 PROVE  \E i \in DOMAIN left :
                          left[i].id = c /\ left[i].parent = Defaults[c] /\ left[i].stored
      OBVIOUS
    <2>1. PICK i \in DOMAIN list : list[i].id = c /\ list[i].parent = Defaults[c] /\ list[i].stored
      BY DEF Tree
    <2>2. i # k
      BY <2>1
    <2>3. PICK j \in DOMAIN left : Was(j) = i
      BY <1>5, <2>2
    <2> QED
      BY <1>4, <2>1, <2>3
  <1>10. Tree(left)
    BY <1>2, <1>6, <1>7, <1>8, <1>9, FewRecords DEF Tree
  <1> QED
    BY <1>10 DEF left
\* The table follows a vector that grows by a record whose INSERT was posted ...
LEMMA FollowsGrown ==
    ASSUME Tree(cats), NextId <= MaxId, NEW p \in Ids, NEW valid \in BOOLEAN,
           NEW tab \in Tables, Follows(cats, tab)
    PROVE  Follows(Inserted(p, valid),
                   Effect(tab, [op |-> "insert", id |-> NextId, parent |-> p, valid |-> valid]))
  <1> DEFINE r == [id |-> NextId, parent |-> p, stored |-> valid]
             s == [op |-> "insert", id |-> NextId, parent |-> p, valid |-> valid]
             n == Len(cats)
             list == Append(cats, r)
             new == Effect(tab, s)
  <1>1. n \in Nat /\ DOMAIN cats = 1..n
    BY TreeFacts
  <1>2. NextId \in Nat /\ \A i \in 1..n : cats[i].id # NextId
    BY <1>1, NextIdIs, TreeFacts DEF Ids
  <1>3. NextId \in Ids
    BY <1>2 DEF Ids
  <1>4. /\ DOMAIN list = 1..(n + 1) /\ list[n + 1] = r
        /\ \A i \in 1..n : list[i] = cats[i]
    BY DEF Tree
  <1>5. tab[NextId] = NoRow
    BY <1>1, <1>2, <1>3 DEF Follows
  <1>6. new = IF valid THEN [tab EXCEPT ![NextId] = p] ELSE tab
    BY <1>5 DEF Effect
  <1>7. \A c \in Ids : new[c] = IF c = NextId /\ valid THEN p ELSE tab[c]
    BY <1>3, <1>6 DEF Tables
  <1>8. r.id = NextId /\ r.parent = p /\ r.stored = valid
    OBVIOUS
  <1> HIDE DEF r, list, new, n
  <1>9. ASSUME NEW c \in Ids
        PROVE  \/ /\ new[c] = NoRow
                  /\ \A i \in DOMAIN list : list[i].id = c => ~list[i].stored
               \/ \E i \in DOMAIN list :
                      list[i].id = c /\ list[i].stored /\ new[c] = list[i].parent
    <2>1. n + 1 \in DOMAIN list /\ \A i \in DOMAIN list : i \in 1..n \/ i = n + 1
      BY <1>1, <1>4
    <2>2. CASE c = NextId /\ valid
      BY <1>4, <1>7, <1>8, <2>1, <2>2
    <2>3. CASE c = NextId /\ ~valid
      <3>1. new[c] = NoRow
        BY <1>3, <1>5, <1>7, <2>3
      <3>2. ASSUME NEW i \in DOMAIN list, list[i].id = c PROVE ~list[i].stored
        <4>1. i = n + 1
          BY <1>2, <1>4, <2>1, <2>3, <3>2
        <4> QED
          BY <1>4, <1>8, <2>3, <4>1
      <3> QED
        BY <3>1, <3>2
    <2>4. CASE c # NextId
      <3>1. new[c] = tab[c]
        BY <1>7, <2>4
      <3>2. \A i \in DOMAIN list : list[i].id = c => i \in 1..n
        BY <1>4, <1>8, <2>1, <2>4
      <3>3. \A i \in 1..n : i \in DOMAIN list /\ i \in DOMAIN cats /\ list[i] = cats[i]
        BY <1>1, <1>4
      <3> QED
        BY <1>1, <3>1, <3>2, <3>3 DEF Follows
    <2> QED
      BY <2>2, <2>3, <2>4
  <1> QED
    BY <1>9 DEF Follows, Inserted, list, r, new

\* ... and one that loses a record whose DELETE was posted.
LEMMA FollowsShrunk ==
    ASSUME NEW list, Tree(list), NEW k \in DOMAIN list, NEW tab \in Tables, Follows(list, tab)
    PROVE  Follows(RemoveAt(list, k),
                   Effect(tab, [op |-> "delete", id |-> list[k].id, parent |-> -1, valid |-> TRUE]))
  <1> DEFINE left == RemoveAt(list, k)
             n == Len(list)
             d == list[k].id
             new == Effect(tab, [op |-> "delete", id |-> d, parent |-> -1, valid |-> TRUE])
  <1>1. n \in Nat /\ DOMAIN list = 1..n /\ k \in 1..n /\ list \in Seq(Records) /\ d \in Ids
    BY TreeFacts DEF Tree
  <1>2. /\ left \in Seq(Records) /\ Len(left) = n - 1
        /\ \A i \in DOMAIN left : left[i] = IF i < k THEN list[i] ELSE list[i + 1]
    BY <1>1, RemovedAt
  <1>3. new = [tab EXCEPT ![d] = NoRow]
    BY DEF Effect
  <1>4. \A c \in Ids : new[c] = IF c = d THEN NoRow ELSE tab[c]
    BY <1>1, <1>3 DEF Tables
  <1> HIDE DEF left, n, new
  <1>5. DOMAIN left = 1..(n - 1)
    BY <1>1, <1>2
  <1>6. \A i \in DOMAIN left : \E j \in DOMAIN list : j # k /\ left[i] = list[j]
    <2>1. \A i \in DOMAIN left : i \in DOMAIN list /\ i + 1 \in DOMAIN list
      BY <1>1, <1>5
    <2>2. \A i \in DOMAIN left : ~(i < k) => i + 1 # k
      BY <1>1, <1>5
    <2> QED
      BY <1>1, <1>2, <1>5, <2>1, <2>2
  <1>7. \A j \in DOMAIN list : j # k => \E i \in DOMAIN left : left[i] = list[j]
    <2> SUFFICES ASSUME NEW j \in 1..n, j # k
                 PROVE  \E i \in 1..(n - 1) : left[i] = list[j]
      BY <1>1, <1>5
    <2>1. CASE j < k
      <3>1. j \in 1..(n - 1)
        BY <1>1, <2>1
      <3> QED
        BY <1>2, <1>5, <2>1, <3>1
    <2>2. CASE ~(j < k)
      <3>1. j - 1 \in 1..(n - 1) /\ ~(j - 1 < k) /\ (j - 1) + 1 = j
        BY <1>1, <2>2
      <3> QED
        BY <1>2, <1>5, <3>1
    <2> QED
      BY <2>1, <2>2
  <1>8. \A j \in DOMAIN list : list[j].id = d => j = k
    BY DEF Tree
  <1> HIDE DEF d
  <1>9. ASSUME NEW c \in Ids
        PROVE  \/ /\ new[c] = NoRow
                  /\ \A i \in DOMAIN left : left[i].id = c => ~left[i].stored
               \/ \E i \in DOMAIN left :
                      left[i].id = c /\ left[i].stored /\ new[c] = left[i].parent
    <2>1. CASE c = d
      BY <1>4, <1>6, <1>8, <2>1
    <2>2. CASE c # d
      <3>1. new[c] = tab[c]
        BY <1>4, <2>2
      <3>2. \A j \in DOMAIN list : list[j].id = c => j # k
        BY <2>2 DEF d
      <3>3. CASE \E i \in DOMAIN list :
                     list[i].id = c /\ list[i].stored /\ tab[c] = list[i].parent
        BY <1>7, <3>1, <3>2, <3>3
      <3>4. CASE /\ tab[c] = NoRow
                 /\ \A i \in DOMAIN list : list[i].id = c => ~list[i].stored
        BY <1>6, <3>1, <3>4
      <3> QED
        BY <3>3, <3>4 DEF Follows
    <2> QED
      BY <2>1, <2>2
  <1> QED
    BY <1>9 DEF Follows, left, new, d

-----------------------------------------------------------------------------
(* The rows the code protects *)

LEMMA SystemHeld ==
    ASSUME Tree(cats), NEW c \in System
    PROVE  Held(c) /\ c \in Ids /\ ParentOf(c) = Defaults[c]
  <1>1. PICK i \in DOMAIN cats : cats[i].id = c /\ cats[i].parent = Defaults[c]
    BY DEF Tree
  <1> QED
    BY <1>1, HeldRecord, TreeFacts

LEMMA SystemProtected ==
    ASSUME Tree(cats), NEW c \in System
    PROVE  Protected(c)
  <1> DEFINE P == ChildPlaces(Root)
             B == {i \in P : i < Position(c)}
             f == [i \in P |-> cats[i].id]
  <1>1. Len(cats) \in Nat /\ DOMAIN cats = 1..Len(cats) /\ P \subseteq 1..Len(cats)
    BY TreeFacts DEF ChildPlaces
  <1>2. CASE c = Root
    BY <1>2 DEF Protected
  <1>3. CASE c # Root
    <2>1. c \in TopLevel /\ ParentOf(c) = Root /\ Held(c)
      BY <1>3, SystemHeld DEF System, TopLevel
    <2>2. Position(c) \in P
      BY <2>1, HeldRecord DEF ParentOf, ChildPlaces
    <2>3. IsFiniteSet(P)
      <3>1. IsFiniteSet(1..Len(cats))
        BY <1>1, FS_Interval
      <3> QED
        BY <1>1, <3>1, FS_Subset
    <2>4. IsFiniteSet(TopLevel) /\ Cardinality(TopLevel) = 3
      <3>1. TopLevel \subseteq 0..MaxId /\ IsFiniteSet(0..MaxId)
        BY CatalogAssumption, FS_Interval DEF TopLevel
      <3> QED
        BY <3>1, FS_Subset, CatalogAssumption
    <2>5. f \in Injection(P, TopLevel)
      <3>1. \A i \in P : cats[i].id \in TopLevel
        BY DEF ChildPlaces, Tree, Sound
      <3>2. \A i, j \in P : cats[i].id = cats[j].id => i = j
        BY DEF ChildPlaces, Tree
      <3> QED
        BY <3>1, <3>2 DEF Injection, IsInjective
    <2> HIDE DEF f
    <2>6. Cardinality(P) <= 3 /\ Cardinality(P) \in Nat
      BY <2>3, <2>4, <2>5, FS_Injection, FS_CardinalityType
    <2>7. IsFiniteSet(P \ {Position(c)}) /\ Cardinality(P \ {Position(c)}) = Cardinality(P) - 1
      BY <2>2, <2>3, FS_RemoveElement
    <2>8. B \subseteq P \ {Position(c)}
      BY <1>1, <2>2
    <2>9. Cardinality(B) <= Cardinality(P) - 1 /\ Cardinality(B) \in Nat
      BY <2>7, <2>8, FS_Subset, FS_CardinalityType
    <2> QED
      BY <2>1, <2>6, <2>9 DEF Protected
  <1> QED
    BY <1>2, <1>3

LEMMA SystemStays == Tree(cats) => SystemRowsStay
  <1> SUFFICES ASSUME Tree(cats) PROVE SystemRowsStay
    OBVIOUS
  <1>1. Root \in Shown
    BY SystemHeld, BelowIs DEF Shown, System
  <1>2. ASSUME NEW c \in TopLevel PROVE c \in Shown
    <2>1. Held(c) /\ c \in Ids /\ ParentOf(c) = Root /\ Root \in Ids
      BY SystemHeld, CatalogAssumption DEF System, TopLevel, Ids
    <2> QED
      BY <1>1, <2>1, BelowIs DEF Shown
  <1>3. \A i \in ChildPlaces(Root) : cats[i].id \in TopLevel
    BY DEF ChildPlaces, Tree, Sound
  <1>4. \A c \in TopLevel : Protected(c)
    BY SystemProtected DEF System
  <1> QED
    BY <1>1, <1>2, <1>3, <1>4 DEF SystemRowsStay
-----------------------------------------------------------------------------
(* The invariant is kept *)

LEMMA SettledType ==
    ASSUME TableSound(table), StatementsSound
    PROVE  Settled \in Tables /\ table \in Tables
  BY AfterType DEF Settled, TableSound, StatementsSound, Tables

\* A statement about no system record can be posted.
LEMMA PostedSound ==
    ASSUME StatementsSound, NEW s \in Statements, s.id \notin System,
           s.op = "insert" => Sound(s.parent, s.id), queue' = Append(queue, s)
    PROVE  StatementsSound'
  <1>1. queue \in Seq(Statements)
    BY DEF StatementsSound
  <1>2. /\ queue' \in Seq(Statements)
        /\ \A i \in DOMAIN queue' : \/ i \in DOMAIN queue /\ queue'[i] = queue[i]
                                    \/ queue'[i] = s
    BY <1>1
  <1> QED
    BY <1>2 DEF StatementsSound

LEMMA NewCategoryKeeps ==
    ASSUME IInv, NEW p \in Ids, NEW valid \in BOOLEAN, NewCategory(p, valid)
    PROVE  IInv'
  <1> DEFINE s == [op |-> "insert", id |-> NextId, parent |-> p, valid |-> valid]
  <1>1. Tree(cats) /\ TableSound(table) /\ StatementsSound /\ Chain(cats, frames) /\ Rest
        /\ Follows(cats, Settled)
    BY DEF IInv
  <1>2. Held(p) /\ p # Root /\ NextId <= MaxId
    BY BelowIs DEF NewCategory, Selectable, Shown
  <1>3. cats' = Inserted(p, valid) /\ queue' = Append(queue, s)
        /\ frames = << >> /\ UNCHANGED <<frames, deepest, table, owner, restarts>>
    BY DEF NewCategory, addCategory, UserActs, Idle
  <1>4. Tree(cats)' /\ Sound(p, NextId)
    BY <1>1, <1>2, <1>3, GrownTree
  <1>5. s \in Statements /\ NextId \notin System
    <2>1. NextId \in Ids /\ NextId \notin System
      BY <1>1, <1>2, NextIdIs DEF Ids
    <2> QED
      BY <2>1 DEF Statements
  <1>6. StatementsSound'
    BY <1>1, <1>3, <1>4, <1>5, PostedSound
  <1>7. Follows(cats, Settled)'
    <2>1. Settled \in Tables /\ table \in Tables /\ queue \in Seq(Statements)
      BY <1>1, SettledType DEF StatementsSound
    <2>2. Settled' = Effect(Settled, s)
      BY <1>3, <1>5, <2>1, AfterPosted DEF Settled
    <2> QED
      BY <1>1, <1>2, <1>3, <2>1, <2>2, FollowsGrown
  <1>8. Chain(cats, frames)'
    BY <1>1, <1>3 DEF Chain
  <1> QED
    BY <1>1, <1>3, <1>4, <1>6, <1>7, <1>8 DEF IInv, Rest, TableSound

LEMMA DeleteCategoryKeeps ==
    ASSUME IInv, NEW c \in Ids, DeleteCategory(c)
    PROVE  IInv'
  <1>1. Tree(cats) /\ TableSound(table) /\ StatementsSound /\ Rest /\ Follows(cats, Settled)
    BY DEF IInv
  <1>2. frames' = <<Target(c)>> /\ ~deepest
        /\ UNCHANGED <<cats, deepest, queue, table, owner, restarts>>
    BY DEF DeleteCategory, UserActs, Idle
  <1>3. Held(c) /\ c \notin System
    BY <1>1, BelowIs, SystemProtected DEF DeleteCategory, Shown
  <1>4. Position(c) \in DOMAIN cats /\ cats[Position(c)].id = c
    BY <1>1, <1>3, HeldRecord
  <1>5. Target(c) \in Frames
    BY <1>1, <1>4, TreeFacts, CatalogAssumption DEF Target, Frames, Tree
  <1>6. /\ frames' \in Seq(Frames) /\ DOMAIN frames' = {1}
        /\ frames'[1].pos = Position(c) /\ frames'[1].id = c
    BY <1>2, <1>5 DEF Target
  <1>7. Chain(cats, frames)'
    BY <1>2, <1>3, <1>4, <1>6 DEF Chain
  <1> QED
    BY <1>1, <1>2, <1>7 DEF IInv, Rest, Settled, StatementsSound, TableSound

\* The call for the first row of the record of the innermost call.
LEMMA DescendChain ==
    ASSUME Tree(cats), Chain(cats, frames), frames # << >>,
           ChildPlaces(Last(frames).id) # {}
    PROVE  Chain(cats, Append(frames, Target(cats[First(ChildPlaces(Last(frames).id))].id)))
  <1> DEFINE L == Len(frames)
             below == ChildPlaces(Last(frames).id)
             a == First(below)
             x == cats[a].id
             calls == Append(frames, Target(x))
  <1>1. /\ L \in Nat /\ L >= 1 /\ DOMAIN frames = 1..L /\ frames \in Seq(Frames)
        /\ Last(frames) = frames[L] /\ L \in DOMAIN frames
    BY DEF Chain, Last
  <1>2. /\ Len(cats) \in Nat /\ DOMAIN cats = 1..Len(cats) /\ Len(cats) <= MaxId + 1
        /\ \A i \in DOMAIN cats : cats[i].id \in Ids
    BY TreeFacts DEF Tree
  <1>3. /\ frames[L].pos \in DOMAIN cats /\ cats[frames[L].pos].id = frames[L].id
        /\ frames[L].id \notin System
    BY <1>1 DEF Chain
  <1>4. a \in DOMAIN cats /\ cats[a].parent = frames[L].id
    <2>1. below \subseteq Nat /\ below # {}
      BY <1>2 DEF ChildPlaces
    <2> HIDE DEF below
    <2>2. a \in below
      BY <2>1, LeastOf DEF First
    <2> QED
      BY <1>1, <2>2 DEF below, ChildPlaces
  <1> HIDE DEF a, L
  <1>5. x \in Ids /\ Position(x) = a /\ ParentOf(x) = frames[L].id
    BY <1>2, <1>4, HeldRecord
  <1>6. frames[L].pos < a
    BY <1>3, <1>4 DEF Tree
  <1>7. x \notin System
    <2>1. ASSUME x \in System PROVE FALSE
      <3>1. Defaults[x] = frames[L].id
        BY <1>5, <2>1, SystemHeld
      <3>2. Defaults[x] \in {Root, -1}
        BY <2>1, CatalogAssumption DEF System, TopLevel
      <3>3. frames[L].id \in Ids /\ Root \in System /\ -1 \notin Ids
        BY <1>2, <1>3 DEF System, Ids
      <3> QED
        BY <1>3, <3>1, <3>2, <3>3
    <2> QED
      BY <2>1
  <1>8. Target(x) \in Frames /\ Target(x).pos = a /\ Target(x).id = x
    BY <1>2, <1>4, <1>5, CatalogAssumption DEF Target, Frames
  <1>9. /\ calls \in Seq(Frames) /\ DOMAIN calls = 1..(L + 1) /\ calls[L + 1] = Target(x)
        /\ \A k \in 1..L : calls[k] = frames[k]
    BY <1>1, <1>8 DEF L
  <1> HIDE DEF x, calls
  <1>10. \A k \in DOMAIN calls : k \in 1..L \/ k = L + 1
    BY <1>1, <1>9
  <1>11. ASSUME NEW k \in DOMAIN calls
         PROVE  /\ calls[k].pos \in DOMAIN cats /\ cats[calls[k].pos].id = calls[k].id
                /\ calls[k].id \notin System
    BY <1>1, <1>4, <1>7, <1>8, <1>9, <1>10 DEF Chain, x
  <1>12. ASSUME NEW j \in DOMAIN calls, NEW k \in DOMAIN calls, j < k
         PROVE  calls[j].pos < calls[k].pos
    <2>1. CASE k \in 1..L
      <3>1. j \in 1..L
        BY <1>1, <1>9, <1>12, <2>1
      <3> QED
        BY <1>1, <1>9, <1>12, <2>1, <3>1 DEF Chain
    <2>2. CASE k = L + 1
      <3>1. j \in 1..L
        BY <1>1, <1>9, <1>12, <2>2
      <3>2. frames[j].pos < frames[L].pos \/ j = L
        BY <1>1, <3>1 DEF Chain
      <3>3. frames[j].pos \in Nat /\ frames[L].pos \in Nat /\ a \in Nat
        BY <1>1, <1>2, <1>4, <3>1 DEF Chain
      <3>4. frames[j].pos < a
        BY <1>6, <3>2, <3>3
      <3> QED
        BY <1>8, <1>9, <2>2, <3>1, <3>4
    <2> QED
      BY <1>10, <2>1, <2>2
  <1>13. ASSUME NEW k \in DOMAIN calls, k > 1
         PROVE  cats[calls[k].pos].parent = calls[k - 1].id
    <2>1. CASE k \in 1..L
      <3>1. k - 1 \in 1..L
        BY <1>1, <1>13, <2>1
      <3> QED
        BY <1>1, <1>9, <1>13, <2>1, <3>1 DEF Chain
    <2>2. CASE k = L + 1
      <3>1. k - 1 = L /\ L \in 1..L
        BY <1>1, <2>2
      <3> QED
        BY <1>4, <1>8, <1>9, <2>2, <3>1
    <2> QED
      BY <1>10, <2>1, <2>2
  <1>14. Chain(cats, calls)
    BY <1>9, <1>11, <1>12, <1>13 DEF Chain
  <1> QED
    BY <1>14 DEF calls, x, a

LEMMA DescendKeeps ==
    ASSUME IInv, Descend
    PROVE  IInv'
  <1>1. Tree(cats) /\ TableSound(table) /\ StatementsSound /\ Chain(cats, frames) /\ Rest
        /\ Follows(cats, Settled)
    BY DEF IInv
  <1>2. frames # << >> /\ ~deepest /\ UNCHANGED <<cats, queue, table, owner, restarts>>
    BY DEF Descend
  <1>3. CASE ChildPlaces(Last(frames).id) = {}
    <2>1. deepest' = TRUE /\ UNCHANGED frames
      BY <1>3 DEF Descend
    <2> QED
      BY <1>1, <1>2, <2>1 DEF IInv, Rest, Settled, StatementsSound, TableSound, Chain
  <1>4. CASE ChildPlaces(Last(frames).id) # {}
    <2>1. /\ frames' = Append(frames, Target(cats[First(ChildPlaces(Last(frames).id))].id))
          /\ UNCHANGED deepest
      BY <1>4 DEF Descend
    <2>2. Chain(cats, frames')
      BY <1>1, <1>2, <1>4, <2>1, DescendChain
    <2> HIDE DEF Chain
    <2>3. Chain(cats, frames)'
      BY <1>2, <2>2
    <2> QED
      BY <1>1, <1>2, <2>1, <2>3 DEF IInv, Rest, Settled, StatementsSound, TableSound
  <1> QED
    BY <1>3, <1>4
\* The innermost call removes the last of the records the calls are about, so that
\* the other indexes are good still.
LEMMA UnwindChain ==
    ASSUME NEW list, Tree(list), NEW calls, Chain(list, calls), calls # << >>
    PROVE  /\ Chain(RemoveAt(list, Last(calls).pos), Front(calls))
           /\ Len(calls) > 1 => Front(calls) # << >>
  <1> DEFINE L == Len(calls)
             k == Last(calls).pos
             left == RemoveAt(list, k)
             rest == Front(calls)
             n == Len(list)
  <1>1. /\ L \in Nat /\ L >= 1 /\ DOMAIN calls = 1..L /\ calls \in Seq(Frames)
        /\ Last(calls) = calls[L] /\ L \in DOMAIN calls
    BY DEF Chain, Last
  <1>2. n \in Nat /\ DOMAIN list = 1..n /\ list \in Seq(Records)
    BY TreeFacts DEF Tree
  <1>3. k \in 1..n
    BY <1>1, <1>2 DEF Chain
  <1>4. /\ left \in Seq(Records) /\ Len(left) = n - 1
        /\ \A i \in DOMAIN left : left[i] = IF i < k THEN list[i] ELSE list[i + 1]
    BY <1>2, <1>3, RemovedAt
  <1>5. /\ rest \in Seq(Frames) /\ Len(rest) = L - 1
        /\ \A j \in 1..(L - 1) : rest[j] = calls[j]
    <2>1. rest = SubSeq(calls, 1, L - 1)
      BY DEF Front
    <2>2. \A j \in 1..(L - 1) : calls[j] \in Frames
      BY <1>1
    <2>3. L - 1 \in Int /\ 1 \in Int
      BY <1>1
    <2>4. /\ SubSeq(calls, 1, L - 1) \in Seq(Frames)
          /\ Len(SubSeq(calls, 1, L - 1)) = IF 1 <= L - 1 THEN (L - 1) - 1 + 1 ELSE 0
          /\ \A j \in 1..((L - 1) - 1 + 1) : SubSeq(calls, 1, L - 1)[j] = calls[1 + j - 1]
      BY <2>2, <2>3, SubSeqProperties
    <2> HIDE DEF rest, L
    <2> QED
      BY <1>1, <2>1, <2>4
  <1>6. k = calls[L].pos
    BY <1>1
  <1> HIDE DEF L, k, left, rest, n
  <1>7. DOMAIN left = 1..(n - 1) /\ DOMAIN rest = 1..(L - 1)
    BY <1>1, <1>2, <1>4, <1>5
  <1>8. ASSUME NEW j \in 1..(L - 1)
        PROVE  /\ j \in DOMAIN calls /\ rest[j] = calls[j]
               /\ calls[j].pos \in DOMAIN left /\ left[calls[j].pos] = list[calls[j].pos]
    <2>1. j \in 1..L /\ j < L
      BY <1>1
    <2>2. calls[j].pos \in 1..n /\ calls[j].pos < k
      BY <1>1, <1>2, <1>6, <2>1 DEF Chain
    <2>3. calls[j].pos \in 1..(n - 1)
      BY <1>2, <1>3, <2>2
    <2> QED
      BY <1>1, <1>4, <1>5, <1>7, <2>1, <2>2, <2>3
  <1>9. \A j \in DOMAIN rest :
          /\ rest[j].pos \in DOMAIN left /\ left[rest[j].pos].id = rest[j].id
          /\ rest[j].id \notin System
    BY <1>7, <1>8 DEF Chain
  <1>10. \A i, j \in DOMAIN rest : i < j => rest[i].pos < rest[j].pos
    BY <1>7, <1>8 DEF Chain
  <1>11. ASSUME NEW j \in DOMAIN rest, j > 1
         PROVE  left[rest[j].pos].parent = rest[j - 1].id
    <2>1. j \in 1..(L - 1) /\ j - 1 \in 1..(L - 1)
      BY <1>1, <1>7, <1>11
    <2> QED
      BY <1>8, <1>11, <2>1 DEF Chain
  <1>12. Chain(left, rest)
    BY <1>5, <1>9, <1>10, <1>11 DEF Chain
  <1>13. L > 1 => rest # << >>
    BY <1>1, <1>5
  <1> QED
    BY <1>12, <1>13 DEF left, rest, k, L

LEMMA UnwindKeeps ==
    ASSUME IInv, Unwind
    PROVE  IInv'
  <1> DEFINE f == Last(frames)
             s == [op |-> "delete", id |-> f.id, parent |-> -1, valid |-> TRUE]
  <1>1. Tree(cats) /\ TableSound(table) /\ StatementsSound /\ Chain(cats, frames) /\ Rest
        /\ Follows(cats, Settled)
    BY DEF IInv
  <1>2. /\ frames # << >> /\ f.pos \in DOMAIN cats
        /\ cats' = RemoveAt(cats, f.pos) /\ queue' = Append(queue, s)
        /\ frames' = Front(frames) /\ deepest' = (Len(frames) > 1)
        /\ UNCHANGED <<table, owner, restarts>>
    BY DEF Unwind, Removed, deleteCategory
  <1>3. cats[f.pos].id = f.id /\ f.id \notin System /\ f.id \in Ids
    <2>1. Len(frames) \in DOMAIN frames
      BY <1>1, <1>2 DEF Chain
    <2> QED
      BY <1>1, <1>2, <2>1, TreeFacts DEF Chain, Last
  <1>4. Tree(cats)'
    BY <1>1, <1>2, <1>3, ShrunkTree
  <1>5. s \in Statements /\ s.id = f.id /\ s.op = "delete"
    BY <1>3 DEF Statements
  <1>6. StatementsSound'
    BY <1>1, <1>2, <1>3, <1>5, PostedSound
  <1>7. Follows(cats, Settled)'
    <2>1. Settled \in Tables /\ table \in Tables /\ queue \in Seq(Statements)
      BY <1>1, SettledType DEF StatementsSound
    <2>2. Settled' = Effect(Settled, s)
      BY <1>2, <1>5, <2>1, AfterPosted DEF Settled
    <2> QED
      BY <1>1, <1>2, <1>3, <2>1, <2>2, FollowsShrunk
  <1>8. Chain(RemoveAt(cats, f.pos), Front(frames)) /\ (Len(frames) > 1 => Front(frames) # << >>)
    BY <1>1, <1>2, UnwindChain
  <1>9. Chain(cats, frames)'
    BY <1>2, <1>8
  <1>10. Rest'
    <2>1. deepest' \in BOOLEAN
      BY <1>2
    <2>2. deepest' => frames' # << >>
      BY <1>2, <1>8
    <2> QED
      BY <1>1, <1>2, <2>1, <2>2 DEF Rest
  <1> QED
    BY <1>1, <1>2, <1>4, <1>6, <1>7, <1>9, <1>10 DEF IInv, TableSound

LEMMA NewTaskKeeps ==
    ASSUME IInv, NEW t \in Tasks, NEW c \in Ids, NewTask(t, c)
    PROVE  IInv'
  BY DEF IInv, NewTask, Rest, Settled, StatementsSound, TableSound, Chain

LEMMA SlotExecuteKeeps ==
    ASSUME IInv, SlotExecute
    PROVE  IInv'
  <1> DEFINE s == Head(queue)
  <1>1. Tree(cats) /\ TableSound(table) /\ StatementsSound /\ Chain(cats, frames) /\ Rest
        /\ Follows(cats, Settled)
    BY DEF IInv
  <1>2. /\ queue # << >> /\ table' = Effect(table, s) /\ queue' = Tail(queue)
        /\ UNCHANGED <<cats, frames, deepest, owner, restarts>>
    BY DEF SlotExecute
  <1>3. /\ queue \in Seq(Statements) /\ s \in Statements /\ s.id \notin System
        /\ s.op = "insert" => Sound(s.parent, s.id)
    BY <1>1, <1>2 DEF StatementsSound
  <1>4. Settled' = Settled
    BY <1>1, <1>2, <1>3, SettledType, AfterExecuted DEF Settled
  <1>5. StatementsSound'
    <2>1. /\ queue' \in Seq(Statements)
          /\ \A i \in DOMAIN queue' : i + 1 \in DOMAIN queue /\ queue'[i] = queue[i + 1]
      BY <1>2, <1>3
    <2> QED
      BY <1>1, <2>1 DEF StatementsSound
  <1>6. TableSound(table)'
    <2>1. table \in Tables /\ s.id \in Ids /\ s.parent \in Ids \cup {-1}
      BY <1>1, <1>3, SettledType DEF Statements
    <2>2. \/ table' = table
          \/ table' = [table EXCEPT ![s.id] = NoRow]
          \/ table' = [table EXCEPT ![s.id] = s.parent] /\ s.op = "insert"
      BY <1>2 DEF Effect
    <2> HIDE DEF s
    <2>3. table' \in Tables
      BY <2>1, <2>2 DEF Tables
    <2>4. \A c \in Ids : c # s.id => table'[c] = table[c]
      BY <2>1, <2>2 DEF Tables
    <2>5. table'[s.id] # NoRow /\ table'[s.id] # table[s.id] => Sound(table'[s.id], s.id)
      BY <1>3, <2>1, <2>2 DEF Tables
    <2>6. \A c \in Ids : table'[c] # NoRow => Sound(table'[c], c)
      BY <1>1, <2>4, <2>5 DEF TableSound
    <2>7. System \subseteq Ids
      BY CatalogAssumption DEF System, TopLevel, Ids
    <2>8. \A c \in System : table'[c] = Defaults[c]
      BY <1>1, <1>3, <2>4, <2>7 DEF TableSound
    <2> QED
      BY <2>3, <2>6, <2>8 DEF TableSound, Tables
  <1>7. Follows(cats, Settled)'
    BY <1>1, <1>2, <1>4
  <1>8. Chain(cats, frames)'
    BY <1>1, <1>2
  <1> QED
    BY <1>1, <1>2, <1>5, <1>6, <1>7, <1>8 DEF IInv, Rest

LEMMA RelaunchKeeps ==
    ASSUME IInv, Relaunch
    PROVE  IInv'
  <1>1. TableSound(table) /\ Rest
    BY DEF IInv
  <1>2. /\ restarts < MaxRestarts /\ restarts' = restarts + 1 /\ cats' = Load
        /\ frames' = << >> /\ deepest' = FALSE /\ queue' = << >> /\ UNCHANGED <<table, owner>>
    BY DEF Relaunch
  <1>3. Tree(cats)' /\ Follows(Load, table)
    BY <1>1, <1>2, LoadedTree
  <1>4. Settled' = table
    BY <1>1, <1>2, AfterNothing DEF Settled, TableSound, Tables
  <1>5. Follows(cats, Settled)'
    BY <1>2, <1>3, <1>4
  <1>6. StatementsSound' /\ Chain(cats, frames)'
    BY <1>2 DEF StatementsSound, Chain
  <1>7. Rest'
    <2>1. restarts' \in 0..MaxRestarts
      BY <1>1, <1>2, CatalogAssumption DEF Rest
    <2> QED
      BY <1>1, <1>2, <2>1 DEF Rest
  <1> QED
    BY <1>1, <1>2, <1>3, <1>5, <1>6, <1>7 DEF IInv, TableSound

LEMMA InitInv == Init => IInv
  <1> SUFFICES ASSUME Init PROVE IInv
    OBVIOUS
  <1>1. TableSound(table)
    <2>1. /\ \A c \in Ids : table[c] = IF c \in DOMAIN Defaults THEN Defaults[c] ELSE NoRow
          /\ table = [c \in Ids |-> IF c \in DOMAIN Defaults THEN Defaults[c] ELSE NoRow]
      BY DEF Init
    <2>2. ASSUME NEW c \in DOMAIN Defaults
          PROVE  Defaults[c] \in Ids \cup {-1} /\ Sound(Defaults[c], c) /\ c \in Ids
      <3>1. CASE c = Root
        BY <3>1, CatalogAssumption DEF Sound, Ids
      <3>2. CASE c # Root
        BY <3>2, CatalogAssumption DEF Sound, Ids, TopLevel
      <3> QED
        BY <3>1, <3>2
    <2>3. System \subseteq DOMAIN Defaults
      BY CatalogAssumption DEF System, TopLevel
    <2>4. table \in Tables
      BY <2>1, <2>2 DEF Tables
    <2> QED
      BY <2>1, <2>2, <2>3, <2>4 DEF TableSound, Tables
  <1>2. /\ cats = Load /\ frames = << >> /\ deepest = FALSE /\ queue = << >>
        /\ owner = [t \in Tasks |-> NoCat] /\ restarts = 0
    BY DEF Init
  <1>3. Tree(cats) /\ Follows(cats, table)
    BY <1>1, <1>2, LoadedTree
  <1>4. Settled = table
    BY <1>1, <1>2, AfterNothing DEF Settled, TableSound, Tables
  <1>5. StatementsSound /\ Chain(cats, frames)
    BY <1>2 DEF StatementsSound, Chain
  <1>6. Rest
    <2>1. restarts \in 0..MaxRestarts
      BY <1>2, CatalogAssumption
    <2>2. owner \in [Tasks -> Ids \cup {NoCat}]
      BY <1>2
    <2> QED
      BY <1>2, <2>1, <2>2 DEF Rest
  <1> QED
    BY <1>1, <1>3, <1>4, <1>5, <1>6 DEF IInv

LEMMA NextInv == IInv /\ [Next]_vars => IInv'
  <1> SUFFICES ASSUME IInv, [Next]_vars PROVE IInv'
    OBVIOUS
  <1>1. ASSUME NEW p \in Ids, NEW valid \in BOOLEAN, NewCategory(p, valid) PROVE IInv'
    BY <1>1, NewCategoryKeeps
  <1>2. ASSUME NEW c \in Ids, DeleteCategory(c) PROVE IInv'
    BY <1>2, DeleteCategoryKeeps
  <1>3. CASE Descend
    BY <1>3, DescendKeeps
  <1>4. CASE Unwind
    BY <1>4, UnwindKeeps
  <1>5. ASSUME NEW t \in Tasks, NEW c \in Ids, NewTask(t, c) PROVE IInv'
    BY <1>5, NewTaskKeeps
  <1>6. CASE SlotExecute
    BY <1>6, SlotExecuteKeeps
  <1>7. CASE Relaunch
    BY <1>7, RelaunchKeeps
  <1>8. CASE UNCHANGED vars
    BY <1>8 DEF vars, IInv, Rest, Settled, StatementsSound, TableSound, Chain, Tree, Follows
  <1> QED
    BY <1>1, <1>2, <1>3, <1>4, <1>5, <1>6, <1>7, <1>8 DEF Next

LEMMA Invariance == Spec => []IInv
  BY InitInv, NextInv, PTL DEF Spec

-----------------------------------------------------------------------------
(* Theorems *)

\* Every index of removeRows is one of the vector, and every id in it, in the
\* table and in the statements is one that insertRows may give.
THEOREM TypeCorrect == Spec => []TypeOK
  <1>1. IInv => TypeOK
    <2> SUFFICES ASSUME IInv PROVE TypeOK
      OBVIOUS
    <2>1. /\ cats \in Seq(Records) /\ frames \in Seq(Frames) /\ queue \in Seq(Statements)
          /\ table \in [Ids -> Ids \cup {-1, NoRow}]
      BY DEF IInv, Tree, Chain, StatementsSound, TableSound
    <2> QED
      BY <2>1 DEF IInv, Rest, TypeOK
  <1> QED
    BY <1>1, Invariance, PTL

\* However the statements are delayed or lost with the process, the table will
\* hold the records of the model whose statement SQLite accepts, and no others.
THEOREM TableWillFollow == Spec => []TableFollows
  <1>1. IInv => TableFollows
    BY FollowsMeans DEF IInv
  <1> QED
    BY <1>1, Invariance, PTL

\* The categories that the code names by number stay, shown and protected.
THEOREM SystemCategoriesStay == Spec => []SystemRowsStay
  <1>1. IInv => SystemRowsStay
    BY SystemStays DEF IInv
  <1> QED
    BY <1>1, Invariance, PTL

\* The index that a call of removeRows found before its calls for the children
\* still is that of its record when they have returned.
IndexesStayGood ==
    \A k \in DOMAIN frames :
        frames[k].pos \in DOMAIN cats /\ cats[frames[k].pos].id = frames[k].id

\* removeRows is never nested deeper than there are records: it goes down
\* one path of the tree and comes to no record twice.
RecursionIsBounded ==
    /\ Len(frames) <= Len(cats)
    /\ \A j, k \in DOMAIN frames : frames[j].id = frames[k].id => j = k

\* However many removals were made, by whichever launch: mModelData.remove(i)
\* finds the record it is meant for, though the vector shrank since i was found.
THEOREM IndexesAreFresh == Spec => []IndexesStayGood
  <1>1. IInv => IndexesStayGood
    BY DEF IInv, Chain, IndexesStayGood
  <1> QED
    BY <1>1, Invariance, PTL

LEMMA DepthBounded == IInv => RecursionIsBounded
  <1> SUFFICES ASSUME IInv PROVE RecursionIsBounded
    OBVIOUS
  <1> DEFINE n == Len(frames)
             pos(k) == frames[k].pos
  <1>1. frames \in Seq(Frames) /\ n \in Nat /\ DOMAIN frames = 1..n
    BY DEF IInv, Chain
  <1>2. /\ Len(cats) \in Nat /\ DOMAIN cats = 1..Len(cats)
        /\ \A k \in 1..n : pos(k) \in 1..Len(cats)
        /\ \A j, k \in 1..n : j < k => pos(j) < pos(k)
    BY <1>1, TreeFacts DEF IInv, Chain
  <1> HIDE DEF pos
  <1>3. ASSUME NEW j \in 1..n, NEW k \in 1..n, frames[j].id = frames[k].id
        PROVE  j = k
    <2>1. pos(j) = pos(k)
      BY <1>1, <1>3 DEF IInv, Chain, Tree, pos
    <2> QED
      BY <1>1, <1>2, <2>1
  \* the least call that is not as far in the vector as it is deep
  <1>4. \A k \in 1..n : k <= pos(k)
    <2> DEFINE bad == {k \in 1..n : ~(k <= pos(k))}
    <2>1. CASE bad = {}
      BY <2>1
    <2>2. CASE bad # {}
      <3>1. PICK m \in bad : \A k \in bad : m <= k
        <4>1. bad \subseteq Nat
          BY <1>1
        <4> HIDE DEF bad
        <4> QED
          BY <2>2, <4>1, LeastOf
      <3>2. m \in 1..n /\ ~(m <= pos(m)) /\ m # 1
        BY <1>1, <1>2
      <3>3. m - 1 \in 1..n /\ m - 1 \notin bad
        BY <1>1, <3>1, <3>2
      <3>4. m - 1 <= pos(m - 1) /\ pos(m - 1) < pos(m)
        BY <1>1, <1>2, <3>2, <3>3
      <3> QED
        BY <1>1, <1>2, <3>2, <3>3, <3>4
    <2> QED
      BY <2>1, <2>2
  <1>5. n <= Len(cats)
    <2>1. CASE n = 0
      BY <1>2, <2>1
    <2>2. CASE n # 0
      <3>1. n \in 1..n
        BY <1>1, <2>2
      <3> QED
        BY <1>1, <1>2, <1>4, <3>1
    <2> QED
      BY <2>1, <2>2
  <1> QED
    BY <1>1, <1>3, <1>5 DEF RecursionIsBounded

\* The parents in the vector, whichever launch wrote them, lead the recursion of
\* removeRows around no circle: its depth is at most the number of records.
THEOREM NoCircles == Spec => []RecursionIsBounded
  <1> QED
    BY DepthBounded, Invariance, PTL

\* What removeRows has left to do: a call for every record at the most, a look at
\* its children, and its removal.
Work == 3 * Len(cats) - Len(frames) - (IF deepest THEN 1 ELSE 0)

\* While removeRows is under way, every step of it leaves less to do, and the
\* steps of the database thread leave as much.
RemovalAdvances ==
    [][frames # << >> /\ restarts' = restarts =>
           /\ Work \in Nat
           /\ Work' < Work \/ UNCHANGED <<cats, frames, deepest>>]_vars

\* A removal ends after finitely many steps of its own, in the process that began
\* it: what is left to do is a natural number that each of them makes smaller.
THEOREM RemovalsEnd == Spec => RemovalAdvances
  <1>1. IInv /\ [Next]_vars =>
          (frames # << >> /\ restarts' = restarts =>
             /\ Work \in Nat
             /\ Work' < Work \/ UNCHANGED <<cats, frames, deepest>>)
    <2> SUFFICES ASSUME IInv, [Next]_vars, frames # << >>, restarts' = restarts
                 PROVE  /\ Work \in Nat
                        /\ Work' < Work \/ UNCHANGED <<cats, frames, deepest>>
      OBVIOUS
    <2>1. /\ frames \in Seq(Frames) /\ Len(frames) \in Nat /\ Len(frames) # 0
          /\ cats \in Seq(Records) /\ Len(cats) \in Nat /\ deepest \in BOOLEAN
      BY DEF IInv, Chain, Tree, Rest
    <2>2. Len(frames) <= Len(cats)
      BY DepthBounded DEF RecursionIsBounded
    <2>3. /\ Work \in Nat
          /\ Work = 3 * Len(cats) - Len(frames) - (IF deepest THEN 1 ELSE 0)
          /\ Work' = 3 * Len(cats') - Len(frames') - (IF deepest' THEN 1 ELSE 0)
      BY <2>1, <2>2 DEF Work
    <2>4. CASE Descend
      <3>1. cats' = cats /\ ~deepest
        BY <2>4 DEF Descend
      <3>2. CASE deepest' = TRUE /\ frames' = frames
        <4>1. Len(cats') = Len(cats) /\ Len(frames') = Len(frames)
          BY <3>1, <3>2
        <4>2. (IF deepest' THEN 1 ELSE 0) = 1 /\ (IF deepest THEN 1 ELSE 0) = 0
          BY <3>1, <3>2
        <4> QED
          BY <2>1, <2>3, <4>1, <4>2
      <3>3. CASE deepest' = deepest /\ Len(frames') = Len(frames) + 1
        <4>1. Len(cats') = Len(cats)
          BY <3>1
        <4>2. (IF deepest' THEN 1 ELSE 0) = 0 /\ (IF deepest THEN 1 ELSE 0) = 0
          BY <3>1, <3>3
        <4> QED
          BY <2>1, <2>3, <3>3, <4>1, <4>2
      <3>4. \/ deepest' = TRUE /\ frames' = frames
            \/ \E f : frames' = Append(frames, f) /\ deepest' = deepest
        BY <2>4, Zenon DEF Descend
      <3>5. \A f : Len(Append(frames, f)) = Len(frames) + 1
        BY <2>1
      <3> QED
        BY <3>2, <3>3, <3>4, <3>5
    <2>5. CASE Unwind
      <3>1. Last(frames).pos \in DOMAIN cats /\ deepest
        BY <2>5 DEF Unwind
      <3>2. cats' = RemoveAt(cats, Last(frames).pos) /\ frames' = Front(frames)
        BY <2>5 DEF Unwind, Removed
      <3>3. Len(cats') = Len(cats) - 1
        BY <2>1, <3>1, <3>2, RemovedAt
      <3>4. Len(frames') = Len(frames) - 1
        <4> DEFINE m == Len(frames) - 1
        <4>1. frames' = SubSeq(frames, 1, m)
          BY <3>2 DEF Front
        <4>2. m \in Nat /\ \A i \in 1..m : frames[i] \in Frames
          BY <2>1
        <4> HIDE DEF m
        <4>3. Len(SubSeq(frames, 1, m)) = IF 1 <= m THEN m - 1 + 1 ELSE 0
          BY <4>2, SubSeqProperties
        <4>4. Len(frames') = m
          BY <4>1, <4>2, <4>3
        <4> QED
          BY <4>4 DEF m
      <3>5. (IF deepest' THEN 1 ELSE 0) \in {0, 1} /\ (IF deepest THEN 1 ELSE 0) = 1
        BY <3>1
      <3> QED
        BY <2>1, <2>3, <3>3, <3>4, <3>5
    <2>6. CASE ~Descend /\ ~Unwind
      <3>1. ~Relaunch
        <4>1. restarts \in Int
          BY CatalogAssumption DEF IInv, Rest
        <4> QED
          BY <4>1 DEF Relaunch
      <3>2. ~UserActs
        BY DEF UserActs, Idle
      <3> QED
        BY <2>3, <2>6, <3>1, <3>2
           DEF Next, NewCategory, DeleteCategory, NewTask, SlotExecute, vars
    <2> QED
      BY <2>3, <2>4, <2>5, <2>6
  <1> DEFINE Step == frames # << >> /\ restarts' = restarts =>
                         /\ Work \in Nat
                         /\ Work' < Work \/ UNCHANGED <<cats, frames, deepest>>
  <1>2. IInv /\ [Next]_vars => [Step]_vars
    BY <1>1
  <1>3. RemovalAdvances <=> [][Step]_vars
    BY PTL DEF RemovalAdvances
  <1> QED
    BY <1>2, <1>3, Invariance, PTL DEF Spec

-----------------------------------------------------------------------------
(* What a step may do to the records *)

\* What a step does to the vector: one record more, one less, or a new start.
LEMMA StepOfCats ==
    ASSUME IInv, [Next]_vars
    PROVE  \/ \E p \in Ids, valid \in BOOLEAN : NewCategory(p, valid)
           \/ Unwind
           \/ restarts' # restarts
           \/ UNCHANGED cats
  <1>1. restarts \in Int
    BY DEF IInv, Rest
  <1>2. Relaunch => restarts' # restarts
    BY <1>1 DEF Relaunch
  <1>3. ASSUME NEW c \in Ids, DeleteCategory(c) PROVE UNCHANGED cats
    BY <1>3 DEF DeleteCategory
  <1>4. ASSUME NEW t \in Tasks, NEW c \in Ids, NewTask(t, c) PROVE UNCHANGED cats
    BY <1>4 DEF NewTask
  <1>5. Descend \/ SlotExecute \/ UNCHANGED vars => UNCHANGED cats
    BY DEF Descend, SlotExecute, vars
  <1> QED
    BY <1>2, <1>3, <1>4, <1>5 DEF Next

\* A new category has no rows in the model and none in the table once the
\* statements have run, whatever removed records left behind.
THEOREM NewCategoriesAreEmpty == Spec => NoAdoption
  <1>1. IInv /\ [Next]_vars =>
          (Len(cats') > Len(cats) =>
             LET new == cats'[Len(cats')].id
             IN  restarts' = restarts =>
                   /\ ChildPlaces(new) = {}
                   /\ \A c \in Ids : Settled[c] # new)
    <2> SUFFICES ASSUME IInv, [Next]_vars, Len(cats') > Len(cats), restarts' = restarts
                 PROVE  /\ ChildPlaces(cats'[Len(cats')].id) = {}
                        /\ \A c \in Ids : Settled[c] # cats'[Len(cats')].id
      BY Zenon
    <2>1. Tree(cats) /\ Follows(cats, Settled) /\ Chain(cats, frames)
      BY DEF IInv
    <2>2. Len(cats) \in Nat /\ DOMAIN cats = 1..Len(cats) /\ cats \in Seq(Records)
      BY <2>1, TreeFacts DEF Tree
    <2>3. ASSUME NEW p \in Ids, NEW valid \in BOOLEAN, NewCategory(p, valid)
          PROVE  /\ ChildPlaces(cats'[Len(cats')].id) = {}
                 /\ \A c \in Ids : Settled[c] # cats'[Len(cats')].id
      <3>1. Held(p) /\ p # Root /\ NextId <= MaxId /\ cats' = Inserted(p, valid)
        BY <2>3, BelowIs DEF NewCategory, Selectable, Shown
      <3>2. cats'[Len(cats')].id = NextId
        BY <2>2, <3>1 DEF Inserted
      <3>3. \A i \in DOMAIN cats : cats[i].parent # NextId
        BY <2>1, <3>1, GrownTree
      <3>4. NextId \in Ids
        BY <2>1, <3>1, NextIdIs DEF Ids
      <3>5. \A c \in Ids : Settled[c] = NoRow \/ \E i \in DOMAIN cats : Settled[c] = cats[i].parent
        BY <2>1 DEF Follows
      <3>6. NextId # NoRow
        BY <3>4, CatalogAssumption DEF Ids
      <3>7. ChildPlaces(NextId) = {}
        BY <3>3 DEF ChildPlaces
      <3>8. \A c \in Ids : Settled[c] # NextId
        BY <3>3, <3>5, <3>6
      <3> QED
        BY <3>2, <3>7, <3>8
    <2>4. ASSUME Unwind PROVE FALSE
      <3>1. cats' = RemoveAt(cats, Last(frames).pos) /\ Last(frames).pos \in DOMAIN cats
        BY <2>4 DEF Unwind, Removed
      <3>2. Len(cats') = Len(cats) - 1
        BY <2>2, <3>1, RemovedAt
      <3> QED
        BY <2>2, <3>2
    <2>5. ASSUME UNCHANGED cats PROVE FALSE
      BY <2>2, <2>5
    <2> QED
      BY <2>3, <2>4, <2>5, StepOfCats
  <1>2. IInv /\ [Next]_vars =>
          [Len(cats') > Len(cats) =>
             LET new == cats'[Len(cats')].id
             IN  restarts' = restarts =>
                   /\ ChildPlaces(new) = {}
                   /\ \A c \in Ids : Settled[c] # new]_vars
    BY <1>1, Zenon
  <1> QED
    BY <1>2, Invariance, PTL DEF Spec, NoAdoption

\* The records of the calls that are under way are below the first one's.
LEMMA ChainBelow ==
    ASSUME Tree(cats), Chain(cats, frames), NEW k \in DOMAIN frames
    PROVE  frames[k].id \in Below(frames[1].id)
  <1> DEFINE top == frames[1].id
             S == {j \in DOMAIN frames : frames[j].id \notin Below(top)}
  <1>1. frames \in Seq(Frames) /\ DOMAIN frames = 1..Len(frames) /\ Len(frames) \in Nat
    BY DEF Chain
  <1>2. \A j \in DOMAIN frames :
          /\ frames[j].id \in Ids /\ Held(frames[j].id)
          /\ ParentOf(frames[j].id) = cats[frames[j].pos].parent
    BY HeldRecord, TreeFacts DEF Chain
  <1>3. ASSUME S # {} PROVE FALSE
    <2>1. PICK j \in S : \A i \in S : j <= i
      <3>1. S \subseteq Nat
        BY <1>1
      <3> HIDE DEF S
      <3> QED
        BY <1>3, <3>1, LeastOf
    <2> HIDE DEF top
    <2>2. j # 1
      BY <1>2, <2>1, BelowIs DEF top
    <2>3. j \in DOMAIN frames /\ j > 1 /\ j - 1 \in DOMAIN frames /\ ~(j <= j - 1)
      BY <1>1, <2>1, <2>2
    <2>4. ParentOf(frames[j].id) = frames[j - 1].id
      BY <1>2, <2>3 DEF Chain
    <2>5. frames[j - 1].id \in Below(top)
      BY <2>1, <2>3
    <2>6. frames[j].id \in Below(top)
      BY <1>2, <2>3, <2>4, <2>5, BelowIs
    <2> QED
      BY <2>1, <2>6
  <1> QED
    BY <1>3

\* A removal takes nothing but the record selected and what is below it, and what
\* is taken still is below it when its turn comes, so that the record selected
\* is the last one.
THEOREM RemovalsStayBelow == Spec => OnlySubtreeGoes
  <1>1. IInv /\ [Next]_vars =>
          \A c \in Ids :
             Held(c) /\ restarts' = restarts =>
                 \/ Held(c)'
                 \/ frames # << >> /\ c \in Below(frames[1].id)
    <2> SUFFICES ASSUME IInv, [Next]_vars, NEW c \in Ids, Held(c), restarts' = restarts
                 PROVE  \/ Held(c)'
                        \/ frames # << >> /\ c \in Below(frames[1].id)
      OBVIOUS
    <2>1. Tree(cats) /\ Chain(cats, frames)
      BY DEF IInv
    <2>2. Len(cats) \in Nat /\ DOMAIN cats = 1..Len(cats) /\ cats \in Seq(Records)
      BY <2>1, TreeFacts DEF Tree
    <2>3. PICK i \in DOMAIN cats : cats[i].id = c
      BY DEF Held
    <2>4. ASSUME NEW p \in Ids, NEW valid \in BOOLEAN, NewCategory(p, valid) PROVE Held(c)'
      <3>1. cats' = Append(cats, [id |-> NextId, parent |-> p, stored |-> valid])
        BY <2>4 DEF NewCategory, Inserted
      <3>2. i \in DOMAIN cats' /\ cats'[i] = cats[i]
        BY <2>2, <3>1
      <3> QED
        BY <2>3, <3>2 DEF Held
    <2>5. ASSUME Unwind
          PROVE  \/ Held(c)'
                 \/ frames # << >> /\ c \in Below(frames[1].id)
      <3> DEFINE k == Last(frames).pos
      <3>1. cats' = RemoveAt(cats, k) /\ k \in DOMAIN cats /\ frames # << >>
        BY <2>5 DEF Unwind, Removed
      <3>2. Len(frames) \in DOMAIN frames /\ Last(frames) = frames[Len(frames)]
        BY <2>1, <3>1 DEF Chain, Last
      <3>3. Last(frames).id \in Below(frames[1].id) /\ cats[k].id = Last(frames).id
        BY <2>1, <3>2, ChainBelow DEF Chain
      <3>4. CASE i = k
        BY <2>3, <3>1, <3>3, <3>4
      <3>5. CASE i # k
        <4> HIDE DEF k
        <4>1. /\ DOMAIN cats' = 1..(Len(cats) - 1)
              /\ \A j \in DOMAIN cats' : cats'[j] = IF j < k THEN cats[j] ELSE cats[j + 1]
          <5>1. /\ cats' \in Seq(Records) /\ Len(cats') = Len(cats) - 1
                /\ \A j \in DOMAIN cats' : cats'[j] = IF j < k THEN cats[j] ELSE cats[j + 1]
            BY <2>2, <3>1, RemovedAt
          <5> QED
            BY <5>1
        <4>2. CASE i < k
          <5>1. i \in DOMAIN cats' /\ cats'[i] = cats[i]
            BY <2>2, <3>1, <4>1, <4>2
          <5> QED
            BY <2>3, <5>1 DEF Held
        <4>3. CASE ~(i < k)
          <5>1. i - 1 \in DOMAIN cats' /\ ~(i - 1 < k) /\ (i - 1) + 1 = i
            BY <2>2, <3>1, <3>5, <4>1, <4>3
          <5>2. cats'[i - 1] = cats[i]
            BY <4>1, <5>1
          <5> QED
            BY <2>3, <5>1, <5>2 DEF Held
        <4> QED
          BY <4>2, <4>3
      <3> QED
        BY <3>4, <3>5
    <2>6. ASSUME UNCHANGED cats PROVE Held(c)'
      BY <2>3, <2>6 DEF Held
    <2> QED
      BY <2>4, <2>5, <2>6, StepOfCats
  <1>2. IInv /\ [Next]_vars =>
          [\A c \in Ids :
             Held(c) /\ restarts' = restarts =>
                 \/ Held(c)'
                 \/ frames # << >> /\ c \in Below(frames[1].id)]_vars
    BY <1>1, Zenon
  <1> QED
    BY <1>2, Invariance, PTL DEF Spec, OnlySubtreeGoes
====
