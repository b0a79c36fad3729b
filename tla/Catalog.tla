------------------------------ MODULE Catalog ------------------------------
(***************************************************************************)
(* The tree of categories: SqliteCategoryModel (sqlitecategorymodel.cpp)   *)
(* holds the records of table categorys in one vector, in the order they   *)
(* were read in, and finds the rows of a category by counting the records  *)
(* that name it as their parent.  The handlers of the main window          *)
(* (karia2.cpp) add and delete categories; statements for the table are    *)
(* posted to the database thread, which runs them in order and whose       *)
(* answers nobody reads.                                                   *)
(*                                                                         *)
(* removeRows calls itself for the children of a record before it removes  *)
(* the record, at the index it had before.  Every level of that recursion  *)
(* is a frame on a stack here, and every removal is a step of its own: the *)
(* database thread runs meanwhile, and the process may be killed.          *)
(***************************************************************************)
EXTENDS Integers, Sequences, FiniteSets, SequencesExt

CONSTANTS
    Defaults,     \* the categories of a new table: id => parent
    Root, Downloading, Deleted,  \* three of them the code names
    Tasks,        \* tasks the user may create
    Quotes,       \* TRUE: the user may type a quotation mark in a name
    NoRow,        \* the table has no record under that id
    NoCat,        \* a task that was not created
    MaxId,        \* bound: the largest id of a category
    MaxQueue,     \* bound: statements waiting when the user acts
    MaxRestarts   \* bound: launches after the first

TopLevel == {c \in DOMAIN Defaults : Defaults[c] = Root}

ASSUME CatalogAssumption ==
    /\ MaxId \in Nat /\ MaxQueue \in Nat /\ MaxRestarts \in Nat
    /\ DOMAIN Defaults \subseteq 0..MaxId
    /\ {Root, Downloading, Deleted} \subseteq DOMAIN Defaults
    /\ Root = 0 /\ Defaults[Root] = -1
    /\ \A c \in DOMAIN Defaults \ {Root} :
           Defaults[c] \in DOMAIN Defaults /\ Defaults[c] < c
    /\ Cardinality(TopLevel) = 3
    /\ Quotes \in BOOLEAN
    /\ NoRow \notin 0..MaxId \cup {-1}

Ids == 0..MaxId
Records == [id : Ids, parent : Ids \cup {-1}, stored : BOOLEAN]
Frames == [pos : 1..(MaxId + 1), id : Ids]
Statements == [op : {"insert", "delete"}, id : Ids, parent : Ids \cup {-1},
               valid : BOOLEAN]

VARIABLES
    cats,      \* mModelData
    frames,    \* calls of removeRows that are under way, the last one innermost
    deepest,   \* the innermost call has seen the record's children
    queue,     \* statements posted to the database thread
    table,     \* table categorys: id => parent
    owner,     \* user_cat_id of the rows of table tasks
    restarts

vars == <<cats, frames, deepest, queue, table, owner, restarts>>

TypeOK ==
    /\ cats \in Seq(Records)
    /\ frames \in Seq(Frames)
    /\ deepest \in BOOLEAN
    /\ queue \in Seq(Statements)
    /\ table \in [Ids -> Ids \cup {-1, NoRow}]
    /\ owner \in [Tasks -> Ids \cup {NoCat}]
    /\ restarts \in 0..MaxRestarts

-----------------------------------------------------------------------------
(* The model *)

Held(c) == \E i \in DOMAIN cats : cats[i].id = c
Position(c) == CHOOSE i \in DOMAIN cats : cats[i].id = c
ParentOf(c) == cats[Position(c)].parent

\* The places of the records that name c as their parent, top row first.
ChildPlaces(c) == {i \in DOMAIN cats : cats[i].parent = c}

\* A record and the records whose parents lead to it.
Below(c) ==
    LET under[d \in Ids] ==
            /\ Held(d)
            /\ \/ d = c
               \/ ParentOf(d) \in Ids /\ under[ParentOf(d)]
    IN  {d \in Ids : under[d]}

\* index(row, 0, parent): the tree shows what the root's row leads to.
Shown == Below(Root)

\* getCatSet: ORDER BY parent_cat_id, cat_id.
Load ==
    LET kept == {c \in Ids : table[c] # NoRow}
        Before(c) == {d \in kept : \/ table[d] < table[c]
                                   \/ table[d] = table[c] /\ d < c}
        Nth(k) == CHOOSE c \in kept : Cardinality(Before(c)) = k - 1
    IN  [k \in 1..Cardinality(kept) |->
            [id |-> Nth(k), parent |-> table[Nth(k)], stored |-> TRUE]]

\* Faulty variant of NextId, for the mutant runs: the smallest id that is free.
SmallestId == CHOOSE m \in 0..(MaxId + 1) :
                  ~Held(m) /\ \A n \in 0..(m - 1) : Held(n)

\* The id insertRows gives a new record.
NextId == 1 + CHOOSE m \in {cats[i].id : i \in DOMAIN cats} :
                  \A i \in DOMAIN cats : cats[i].id <= m

Idle == frames = << >> /\ ~deepest
UserActs == Idle /\ Len(queue) <= MaxQueue

-----------------------------------------------------------------------------
(* The main window *)

\* Faulty variant of Selectable, for the mutant runs: the dialog lets every
\* row be selected.
AnyShown == Shown

\* The rows the dialog for a new category lets the user select as its parent.
Selectable == Shown \ {Root, Downloading, Deleted}

\* insertRows, with the name and the directory that setData gives the record.
Inserted(p, valid) ==
    Append(cats, [id |-> NextId, parent |-> p, stored |-> valid])

\* submit, for the one record that is marked dirty.
addCategory(p, valid) ==
    Append(queue, [op |-> "insert", id |-> NextId, parent |-> p, valid |-> valid])

\* onNewCategory.  A name with a quotation mark makes a statement that SQLite
\* does not accept.
NewCategory(p, valid) ==
    /\ UserActs
    /\ p \in Selectable
    /\ valid \/ Quotes
    /\ NextId <= MaxId
    /\ cats' = Inserted(p, valid)
    /\ queue' = addCategory(p, valid)
    /\ UNCHANGED <<frames, deepest, table, owner, restarts>>

\* The rows that onDeleteCategory refuses: the root and its first three.
Protected(c) ==
    \/ c = Root
    \/ /\ ParentOf(c) = Root
       /\ Cardinality({i \in ChildPlaces(Root) : i < Position(c)}) < 3

\* Faulty variant of Target: the row in its parent is taken for the index in
\* the vector.
TargetRow(c) ==
    [pos |-> Cardinality({i \in ChildPlaces(ParentOf(c)) : i < Position(c)}),
     id |-> c]

\* What a call of removeRows finds for a row: the index of the record in the
\* vector, and its id.
Target(c) == [pos |-> Position(c), id |-> c]

\* onDeleteCategory: removeRows(row, 1, parent) for the selected row.
DeleteCategory(c) ==
    /\ UserActs
    /\ c \in Shown
    /\ ~Protected(c)
    /\ frames' = <<Target(c)>>
    /\ UNCHANGED <<cats, deepest, queue, table, owner, restarts>>

\* removeRows asks the model for its number of rows without naming a parent,
\* which is one, and calls itself for row 0 .. 0 of the record.
First(s) == CHOOSE i \in s : \A j \in s : i <= j

Descend ==
    /\ frames # << >> /\ ~deepest
    /\ LET below == ChildPlaces(Last(frames).id)
       IN  IF below = {}
           THEN deepest' = TRUE /\ UNCHANGED frames
           ELSE /\ frames' = Append(frames, Target(cats[First(below)].id))
                /\ UNCHANGED deepest
    /\ UNCHANGED <<cats, queue, table, owner, restarts>>

\* Faulty variant of Removed: rows are counted from one.
RemovedNext(f) == RemoveAt(cats, f.pos + 1)

\* mModelData.remove(i), where i was found before the call for the children.
Removed(f) == RemoveAt(cats, f.pos)

\* Faulty variant of deleteCategory: the table keeps the record.
NotDeleted(c) == queue

deleteCategory(c) ==
    Append(queue, [op |-> "delete", id |-> c, parent |-> -1, valid |-> TRUE])

\* The innermost call removes its record and returns.
Unwind ==
    /\ frames # << >> /\ deepest
    /\ Last(frames).pos \in DOMAIN cats
    /\ cats' = Removed(Last(frames))
    /\ queue' = deleteCategory(Last(frames).id)
    /\ frames' = Front(frames)
    /\ deepest' = (Len(frames) > 1)
    /\ UNCHANGED <<table, owner, restarts>>

\* createTask: a task gets the category selected in its dialog.
NewTask(t, c) ==
    /\ UserActs
    /\ owner[t] = NoCat
    /\ c \in Shown \ {Root}
    /\ owner' = [owner EXCEPT ![t] = c]
    /\ UNCHANGED <<cats, frames, deepest, queue, table, restarts>>

-----------------------------------------------------------------------------
(* The database thread and the launches *)

\* What a statement makes of the table.  An INSERT under an id that is taken
\* fails, and so does one that is not valid.
Effect(tab, s) ==
    CASE s.op = "delete" -> [tab EXCEPT ![s.id] = NoRow]
      [] s.op = "insert" /\ s.valid /\ tab[s.id] = NoRow ->
             [tab EXCEPT ![s.id] = s.parent]
      [] OTHER -> tab

SlotExecute ==
    /\ queue # << >>
    /\ table' = Effect(table, Head(queue))
    /\ queue' = Tail(queue)
    /\ UNCHANGED <<cats, frames, deepest, owner, restarts>>

\* The process is killed and started again: what was posted is lost.
Relaunch ==
    /\ restarts < MaxRestarts
    /\ restarts' = restarts + 1
    /\ cats' = Load
    /\ frames' = << >>
    /\ deepest' = FALSE
    /\ queue' = << >>
    /\ UNCHANGED <<table, owner>>

Init ==
    /\ table = [c \in Ids |-> IF c \in DOMAIN Defaults THEN Defaults[c]
                                                       ELSE NoRow]
    /\ cats = Load
    /\ frames = << >>
    /\ deepest = FALSE
    /\ queue = << >>
    /\ owner = [t \in Tasks |-> NoCat]
    /\ restarts = 0

Next ==
    \/ \E p \in Ids, valid \in BOOLEAN : NewCategory(p, valid)
    \/ \E c \in Ids : DeleteCategory(c)
    \/ Descend
    \/ Unwind
    \/ \E t \in Tasks, c \in Ids : NewTask(t, c)
    \/ SlotExecute
    \/ Relaunch

Spec == Init /\ [][Next]_vars

-----------------------------------------------------------------------------
(* Properties *)

\* What a list of statements makes of the table.
After(tab, list) ==
    LET reached[n \in 0..Len(list)] ==
            IF n = 0 THEN tab ELSE Effect(reached[n - 1], list[n])
    IN  reached[Len(list)]

\* The table when the statements that are waiting have run.
Settled == After(table, queue)

\* Once the statements that are waiting have run, the table holds the
\* records of the model whose statement SQLite accepts, and no others: an
\* INSERT never meets an id that is taken, and every removed record is also
\* deleted (submit, removeRows).
TableFollows ==
    \A c \in Ids :
        Settled[c] = IF Held(c) /\ cats[Position(c)].stored
                     THEN ParentOf(c) ELSE NoRow

\* A new category starts empty: neither the model nor the table, once
\* settled, holds a record that names its id as the parent, though removeRows leaves the
\* children of removed records behind (insertRows).
NoAdoption ==
    [][Len(cats') > Len(cats) =>
           LET new == cats'[Len(cats')].id
           IN  restarts' = restarts =>
                   /\ ChildPlaces(new) = {}
                   /\ \A c \in Ids : Settled[c] # new]_vars

\* A removal takes nothing but records below the one the user selected, and
\* that one last.
OnlySubtreeGoes ==
    [][\A c \in Ids :
           Held(c) /\ restarts' = restarts =>
               \/ Held(c)'
               \/ frames # << >> /\ c \in Below(frames[1].id)]_vars

\* The categories that the code names by number are there, shown, and in the
\* three rows that onDeleteCategory protects, whatever was added, removed or
\* lost with the process.
SystemRowsStay ==
    /\ TopLevel \cup {Root} \subseteq Shown
    /\ \A c \in TopLevel : Protected(c)
    /\ \A i \in ChildPlaces(Root) : cats[i].id \in TopLevel

\* sqlitestorage.h:101-104: there are no records without an owner.  A category
\* in the table has a parent there or, if the INSERT of the parent failed, at
\* least in the model.
EveryRecordOwned ==
    Idle /\ queue = << >> =>
        \A c \in Ids \ {Root} :
            table[c] # NoRow => table[table[c]] # NoRow \/ Held(table[c])
=============================================================================
