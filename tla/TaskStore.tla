----------------------------- MODULE TaskStore -----------------------------
(***************************************************************************)
(* How karia2 keeps its tasks: one SqliteTaskModel per category, held in   *)
(* the GUI thread (sqlitetaskmodel.cpp), over one table written by a       *)
(* database thread (sqlitestorage.cpp, asyncdatabase.cpp,                  *)
(* databaseworker.cpp), and the handlers of the main window that create,   *)
(* start, finish and delete tasks and switch between categories            *)
(* (karia2.cpp, taskqueue.cpp).                                            *)
(*                                                                         *)
(* Reads and the allocation of ids run in the GUI thread, on the same      *)
(* connection as the database thread; writes are posted to that thread and *)
(* their outcome is not looked at.  Every statement commits by itself.     *)
(*                                                                         *)
(* A handler changes the models, the queue of writes and the current row   *)
(* of the view in a row of calls, each of which is an operator on a record *)
(* [models, view, cur, queue].  A call that asks the database something    *)
(* the database thread may be changing has several outcomes: it yields a   *)
(* set of such records.                                                    *)
(***************************************************************************)
EXTENDS Integers, Sequences, FiniteSets, SequencesExt

CONSTANTS
    Categories,    \* ids of the categories
    Downloading, Downloaded, Deleted,  \* the three the code names
    Children,      \* category => the categories whose parent it is
    UserCats,      \* categories a new task may be assigned to
    Views,         \* categories the user opens
    StartFrom,     \* categories in which the user starts tasks
    NotLoaded,     \* mHandle has no model for the category
    NoRow,         \* the table has no row for the id
    MaxId,         \* bound: tasks ever created
    MaxQueue,      \* bound: writes waiting when the GUI takes up an event
    MaxRows,       \* bound: rows of a model when a task is started
    MaxRestarts    \* bound: launches after the first

ASSUME StoreAssumption ==
    /\ {Downloading, Downloaded, Deleted} \subseteq Categories
    /\ Cardinality({Downloading, Downloaded, Deleted}) = 3
    /\ Children \in [Categories -> SUBSET Categories]
    /\ Children[Downloading] = {} /\ Children[Deleted] = {}
    /\ UserCats \subseteq Categories
    /\ Views \subseteq Categories
    /\ StartFrom \subseteq Categories \ {Downloaded}
    /\ MaxId \in Nat /\ MaxQueue \in Nat /\ MaxRows \in Nat
    /\ MaxRestarts \in Nat

VARIABLES
    \* the database file
    tasks,     \* table tasks: id => stored row
    seq,       \* the largest seq_id of table seq_tasks
    \* the connection, shared by both threads
    lastId,    \* last_insert_rowid
    \* GUI thread
    models,    \* category => rows of its SqliteTaskModel, the top one first
    view,      \* the category shown
    cur,       \* the view's current row, 0 if none
    queue,     \* writes posted to the database thread
    phase,     \* "creating" between INSERT INTO seq_tasks and lastInsertId
    running,   \* tasks handed to the backend and not ended
    message,   \* what the systray icon announced last
    fault,     \* "none", or the undefined behaviour that ended the process
    \* history
    purged,    \* ids announced as deleted permanently since the launch
    late,      \* tasks with a write waiting when a handler that asks the
               \* database began
    strayed,   \* tasks started in another category than Downloading
    restarts

file == <<tasks, seq>>
history == <<purged, late, strayed, restarts>>
vars == <<file, lastId, models, view, cur, queue, phase, running, message,
          fault, history>>

Ids == 1..MaxId
Statuses == {"ready", "active"}
StoredRows == [sys : Categories, user : Categories, status : Statuses]
Rows == [id : Ids, sys : Categories, user : Categories, status : Statuses,
         dirty : BOOLEAN]
Writes == [op : {"insert", "update"}, id : Ids, to : StoredRows]
NoMessage == [text |-> "none", id |-> 0]

\* No model and no row are neither.
ASSUME NothingAssumption ==
    /\ NotLoaded \notin Seq(Rows)
    /\ NoRow \notin StoredRows

\* The columns a write carries.
Stored(r) == [sys |-> r.sys, user |-> r.user, status |-> r.status]

TypeOK ==
    /\ tasks \in [Ids -> StoredRows \cup {NoRow}]
    /\ seq \in 0..MaxId /\ lastId \in 0..MaxId
    /\ \A c \in Categories : models[c] = NotLoaded \/ models[c] \in Seq(Rows)
    /\ DOMAIN models = Categories
    /\ view \in Categories /\ models[view] # NotLoaded
    /\ cur \in 0..Len(models[view])
    /\ queue \in Seq(Writes)
    /\ phase \in {"idle", "creating"}
    /\ running \subseteq Ids
    /\ message \in [text : {"none", "trash", "permanent"}, id : 0..MaxId]
    /\ fault \in {"none", "rowOutOfRange"}
    /\ purged \subseteq Ids /\ late \subseteq Ids /\ strayed \subseteq Ids
    /\ restarts \in 0..MaxRestarts

Gui == [models |-> models, view |-> view, cur |-> cur, queue |-> queue]

Become(g) ==
    /\ models' = g.models
    /\ view' = g.view
    /\ cur' = g.cur
    /\ queue' = g.queue

-----------------------------------------------------------------------------
(* SqliteTaskModel *)

\* The numbers of S from the greatest down.
Descending(S) ==
    CHOOSE q \in [1..Cardinality(S) -> S] : \A i, j \in DOMAIN q : i < j => q[i] > q[j]

\* getTaskSet: a category lists its own tasks and those of its children,
\* the newest first.
Listed(c) == {c} \cup Children[c]

Load(c) ==
    LET ids == Descending({t \in Ids : tasks[t] # NoRow /\ tasks[t].sys \in Listed(c)})
    IN  [k \in DOMAIN ids |->
            [id |-> ids[k], sys |-> tasks[ids[k]].sys,
             user |-> tasks[ids[k]].user, status |-> tasks[ids[k]].status,
             dirty |-> FALSE]]

\* SqliteTaskModel::instance
Instance(g, c) ==
    IF g.models[c] = NotLoaded THEN [g EXCEPT !.models[c] = Load(c)] ELSE g

\* Faulty: the values compared are of different types and never equal.
FindNothing(rows, t) == 0

\* The row that match() finds for a task, 0 if there is none.
Find(rows, t) == SelectInSeq(rows, LAMBDA r : r.id = t)

Pending(q, t) == \E k \in DOMAIN q : q[k].op = "insert" /\ q[k].id = t

\* containsTask asks the database while an INSERT may be under way.
ContainsTask(t, pending) ==
    IF tasks[t] # NoRow THEN {TRUE} ELSE IF pending THEN BOOLEAN ELSE {FALSE}

\* Faulty: the loop stops before it reaches the top row.
DirtyButTop(rows) == Descending({i \in DOMAIN rows : rows[i].dirty /\ i > 1})

\* The rows submit() writes, from the last to the first.
Dirty(rows) == Descending({i \in DOMAIN rows : rows[i].dirty})

\* submit(): one write per dirty row, each after a question to the database.
Submits(g, c) ==
    LET rows == g.models[c]
        order == Dirty(rows)
        JustPosted(i) ==
            \E j \in DOMAIN rows : j > i /\ rows[j].dirty /\ rows[j].id = rows[i].id
        Answers ==
            {contains \in [DOMAIN rows -> BOOLEAN] : \A i \in DOMAIN rows :
                contains[i] \in ContainsTask(rows[i].id,
                                  Pending(g.queue, rows[i].id) \/ JustPosted(i))}
        Write(contains, i) ==
            [op |-> IF contains[i] THEN "update" ELSE "insert",
             id |-> rows[i].id, to |-> Stored(rows[i])]
        Clean == [i \in DOMAIN rows |-> [rows[i] EXCEPT !.dirty = FALSE]]
    IN  {[g EXCEPT
            !.queue = @ \o [k \in DOMAIN order |-> Write(contains, order[k])],
            !.models[c] = Clean] : contains \in Answers}

\* Faulty: the row stays in its model.
RemovesNothing(g, c, k) == {g}

\* Faulty: the view keeps its current row number.
RemovesBehindView(g, c, k) == {[g EXCEPT !.models[c] = RemoveAt(@, k)]}

\* removeRows(k, 1, QModelIndex(), false).  When the view's current row goes,
\* another one becomes current: the one above or, failing that, the one below;
\* the view then submits its model, with the row still in it.
Removes(g, c, k) ==
    LET Without(h) == [h EXCEPT !.models[c] = RemoveAt(@, k)]
        NextCur == IF Len(g.models[c]) = 1 THEN 0 ELSE IF k > 1 THEN k - 1 ELSE 1
    IN  IF c = g.view /\ k = g.cur
        THEN {[Without(h) EXCEPT !.cur = NextCur] : h \in Submits(g, c)}
        ELSE {[Without(g) EXCEPT
                 !.cur = IF c = g.view /\ @ > k THEN @ - 1 ELSE @]}

\* insertRows(0, 1) and the setData calls that fill the row.
Prepend(g, c, r) ==
    [g EXCEPT !.models[c] = <<r>> \o @,
              !.cur = IF c = g.view /\ @ > 0 THEN @ + 1 ELSE @]

\* Faulty: takes the first row of the model, whichever is asked for.
MovedFirst(rows, k, dest) == [rows[1] EXCEPT !.sys = dest, !.dirty = TRUE]

\* The copy of a row that arrives in category dest.
Moved(rows, k, dest) == [rows[k] EXCEPT !.sys = dest, !.dirty = TRUE]

\* moveTasks(src, dest, row k)
Moves(g, src, dest, k) ==
    LET g1 == Instance(Instance(g, src), dest)
        r == Moved(g1.models[src], k, dest)
    IN  UNION {Submits(Prepend(h, dest, r), dest) : h \in Removes(g1, src, k)}

-----------------------------------------------------------------------------
(* The database thread *)

\* slotExecute.  task_id is the primary key: the INSERT of an id that is
\* already there fails, and nobody is told.
Execute ==
    /\ fault = "none"
    /\ queue # <<>>
    /\ LET w == Head(queue)
           fails == w.op = "insert" /\ tasks[w.id] # NoRow
       IN  /\ tasks' = IF fails THEN tasks ELSE [tasks EXCEPT ![w.id] = w.to]
           /\ lastId' = IF w.op = "insert" /\ ~fails THEN w.id ELSE lastId
    /\ queue' = Tail(queue)
    /\ UNCHANGED <<seq, models, view, cur, phase, running, message, fault,
                   history>>

-----------------------------------------------------------------------------
(* The main window *)

\* The GUI thread takes up its next event.
Idle ==
    /\ fault = "none"
    /\ phase = "idle"
    /\ Len(queue) <= MaxQueue

\* The same for an event whose handler asks the database, which may still have
\* writes to do.
AskingIdle ==
    /\ Idle
    /\ late' = late \cup {queue[k].id : k \in DOMAIN queue}

\* onCatListSelectChange.  The model of the category left is submitted and
\* dropped, except for Downloading and Deleted.
Shows(g, c) ==
    IF c = g.view THEN {g}
    ELSE LET g1 == [Instance(g, c) EXCEPT !.view = c, !.cur = 0]
         IN  IF g.view \in {Downloading, Deleted} THEN {g1}
             ELSE {[h EXCEPT !.models[g.view] = NotLoaded] :
                      h \in Submits(g1, g.view)}

SelectCategory(c) ==
    /\ AskingIdle
    /\ c # view
    /\ \E g \in Shows(Gui, c) : Become(g)
    /\ message' = NoMessage
    /\ UNCHANGED <<file, lastId, phase, running, fault, purged, strayed, restarts>>

\* The user clicks row i: QTreeView submits the model whenever its current row
\* changes.
SelectRow(i) ==
    /\ AskingIdle
    /\ i \in DOMAIN models[view] \ {cur}
    /\ \E g \in Submits([Gui EXCEPT !.cur = i], view) : Become(g)
    /\ message' = NoMessage
    /\ UNCHANGED <<file, lastId, phase, running, fault, purged, strayed, restarts>>

\* TaskQueue::addTaskModel: only the model of Downloading is searched.
AddTaskModel(g, t, user) ==
    IF Find(g.models[Downloading], t) # 0 THEN g
    ELSE Prepend(g, Downloading,
                 [id |-> t, sys |-> Downloading, user |-> user,
                  status |-> "ready", dirty |-> TRUE])

\* Faulty: the id of the last row, which an INSERT that failed did not replace.
SameId == IF seq = 0 THEN 1 ELSE seq

\* The id an INSERT into seq_tasks allocates.
NextId == seq + 1

\* createTask, first getNextValidTaskID: INSERT INTO seq_tasks ...
NewTask ==
    /\ AskingIdle
    /\ seq < MaxId
    /\ seq' = NextId
    /\ lastId' = NextId
    /\ phase' = "creating"
    /\ message' = NoMessage
    /\ UNCHANGED <<tasks, models, view, cur, queue, running, fault, purged,
                   strayed, restarts>>

\* ... then the question which id that was, put to the connection; the
\* category Downloading is shown and gets the row, the backend the task.
CreateTask ==
    /\ fault = "none"
    /\ phase = "creating"
    /\ \E user \in UserCats, g \in Shows(Gui, Downloading) :
           Become(AddTaskModel(g, lastId, user))
    /\ running' = running \cup {lastId}
    /\ phase' = "idle"
    /\ UNCHANGED <<file, lastId, message, fault, history>>

\* onStartTask
StartTask ==
    /\ Idle
    /\ view \in StartFrom
    /\ \A c \in Categories : models[c] # NotLoaded => Len(models[c]) <= MaxRows
    /\ cur # 0
    /\ LET r == models[view][cur]
       IN  /\ Become(AddTaskModel(Gui, r.id, r.user))
           /\ running' = running \cup {r.id}
           /\ strayed' = IF view = Downloading THEN strayed ELSE strayed \cup {r.id}
    /\ message' = NoMessage
    /\ UNCHANGED <<file, lastId, phase, fault, purged, late, restarts>>

\* onTaskStatusNeedUpdate2
Report(t) ==
    /\ Idle
    /\ t \in running
    /\ LET k == Find(models[Downloading], t)
       IN  /\ k # 0
           /\ models' = [models EXCEPT ![Downloading][k] =
                            [@ EXCEPT !.status = "active", !.dirty = TRUE]]
    /\ message' = NoMessage
    /\ UNCHANGED <<file, lastId, view, cur, queue, phase, running, fault, history>>

\* onTaskDone
TaskDone(t) ==
    /\ AskingIdle
    /\ t \in running
    /\ running' = running \ {t}
    /\ LET k == Find(models[Downloading], t)
           dest == models[Downloading][k].user
       IN  IF k = 0 THEN UNCHANGED <<models, view, cur, queue>>
           ELSE \E g \in Moves(Gui, Downloading, dest, k) :
                    \E h \in Shows(g, dest) : Become(h)
    /\ message' = NoMessage
    /\ UNCHANGED <<file, lastId, phase, fault, purged, strayed, restarts>>

\* onDeleteTask, with one row selected, which is the current one.  If that row
\* is in the trash already ...
DeletePermanently ==
    /\ AskingIdle
    /\ cur # 0
    /\ LET r == models[view][cur]
       IN  /\ r.sys = Deleted
           /\ \E g \in Removes(Instance(Gui, Deleted), view, cur) : Become(g)
           /\ message' = [text |-> "permanent", id |-> r.id]
           /\ purged' = purged \cup {r.id}
    /\ UNCHANGED <<file, lastId, phase, running, fault, strayed, restarts>>

\* ... and if not, the row with the same number in the model of the selected
\* row's own category goes to the trash, if that model has so many rows.
MoveToTrash ==
    /\ AskingIdle
    /\ cur # 0
    /\ LET r == models[view][cur]
           g == Instance(Instance(Gui, Deleted), r.sys)
       IN  /\ r.sys # Deleted
           /\ \/ /\ cur <= Len(g.models[r.sys])
                 /\ \E h \in Moves(g, r.sys, Deleted, cur) : Become(h)
                 /\ message' = [text |-> "trash", id |-> r.id]
                 /\ UNCHANGED fault
              \/ /\ cur > Len(g.models[r.sys])
                 /\ fault' = "rowOutOfRange"
                 /\ UNCHANGED <<models, view, cur, queue, message>>
    /\ UNCHANGED <<file, lastId, phase, running, purged, strayed, restarts>>

\* The process ends and is launched again: the models and the writes not yet
\* executed are gone.
Relaunch ==
    /\ restarts < MaxRestarts
    /\ models' = [c \in Categories |->
                     IF c = Downloading THEN Load(c) ELSE NotLoaded]
    /\ view' = Downloading
    /\ cur' = 0
    /\ queue' = <<>>
    /\ running' = {}
    /\ phase' = "idle"
    /\ lastId' = 0
    /\ message' = NoMessage
    /\ restarts' = restarts + 1
    /\ purged' = {} /\ late' = {} /\ strayed' = {}
    /\ UNCHANGED <<file, fault>>

\* closeEvent saves nothing.
Quit == Idle /\ Relaunch
Crash == fault = "none" /\ ~Idle /\ Relaunch

Init ==
    /\ tasks = [t \in Ids |-> NoRow]
    /\ seq = 0 /\ lastId = 0
    /\ models = [c \in Categories |->
                    IF c = Downloading THEN <<>> ELSE NotLoaded]
    /\ view = Downloading /\ cur = 0
    /\ queue = <<>> /\ phase = "idle"
    /\ running = {} /\ message = NoMessage /\ fault = "none"
    /\ purged = {} /\ late = {} /\ strayed = {} /\ restarts = 0

User ==
    \/ \E c \in Views : SelectCategory(c)
    \/ \E i \in DOMAIN models[view] : SelectRow(i)
    \/ NewTask
    \/ StartTask
    \/ DeletePermanently
    \/ MoveToTrash
    \/ Quit

Backend == \E t \in running : Report(t) \/ TaskDone(t)

Next == User \/ Backend \/ CreateTask \/ Execute \/ Crash

Spec == Init /\ [][Next]_vars

-----------------------------------------------------------------------------
(* Properties *)

\* The places where a task is listed as belonging to the category listing it.
Homes(t) ==
    {p \in UNION {{c} \X DOMAIN models[c] :
                     c \in {d \in Categories : models[d] # NotLoaded}} :
        models[p[1]][p[2]].id = t /\ models[p[1]][p[2]].sys = p[1]}

\* The list of downloading tasks never shows a task twice, so that the first
\* match of addTaskModel, the reports and onTaskDone is the only one.
DownloadingUnique ==
    \A i, j \in DOMAIN models[Downloading] :
        models[Downloading][i].id = models[Downloading][j].id => i = j

\* Nothing keeps a handler from asking the database about a task whose write
\* waits, nor the user from starting a task that is not among the downloading
\* ones.  What can be promised is that the damage stays with those tasks.
Orderly == Ids \ (late \cup strayed)

\* Among all the models loaded, a task belongs to one category at a time:
\* moving a row between models and dropping and loading them leaves no second
\* copy that could be submitted later.
OneHome == \A t \in Orderly : Cardinality(Homes(t)) <= 1

\* Once the writes of a task are done, a row that its own category holds clean
\* is in the table with the same values: submit() marks a row clean when its
\* write is posted, so this rests on containsTask having chosen the statement
\* that succeeds and on the order of the writes.
CleanIsStored ==
    \A t \in Orderly :
      (\A k \in DOMAIN queue : queue[k].id # t) =>
        \A p \in Homes(t) :
            LET r == models[p[1]][p[2]]
            IN  ~r.dirty => tasks[t] = Stored(r)

\* The id createTask reads back from the connection is no task's id yet,
\* neither in the table nor in a model (getNextValidTaskID), or that of a task
\* whose INSERT was waiting when createTask began.
NewTaskIsNew ==
    phase = "creating" =>
        \/ lastId \in late
        \/ tasks[lastId] = NoRow /\ Homes(lastId) = {}

\* The task named by "Move To Trash Now" is the one on top of the trash, and
\* the row number used to take it exists in the model it is taken from.
DeleteMovesSelected ==
    /\ message.text = "trash" => models[Deleted][1].id = message.id
    /\ fault # "rowOutOfRange"

\* In a category that lists no other category's tasks, deleting takes the row
\* the user selected: what onDeleteTask and moveTasks agree on there.
DeleteMovesShownRow == Children[view] = {} => DeleteMovesSelected

\* A task deleted permanently is not listed again before the next launch, by no
\* report, submit or reload of a category.
PurgedStaysGone == \A t \in purged \cap Orderly : Homes(t) = {}
=============================================================================
