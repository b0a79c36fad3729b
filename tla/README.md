# karia2: a verification project

karia2 is a Qt download manager: a window with lists of tasks, kept in an SQLite
file, over one of several backends that drive aria2. These TLA+ modules model how
its threads, queues, models and tables work together. TLC checks them on small
instances; TLAPS proves the safety properties of all six components for any number
of tasks and workers, rows and categories, remote calls, launches and statements,
retrievers and blocks.

`PROJECT.json` is the index: components, runs, mutants (faulty variants of a
definition that a run must reject), the source lines of each definition,
findings, hazards and theorems.

## 1. Inventory

| Component | Source | State it keeps | Operations | What makes it correct |
|---|---|---|---|---|
| Embedded backend | `aria2embedmanager.cpp`, `emaria2c.cpp` | tables task id -> worker, a queue of reports, one thread per task and one dispatcher thread | `addTask`, `pauseTask`, arrival of statistics, end of a worker, dispatch | the end of a download is the last thing heard of it, is heard once, finds its worker, and releases it |
| Statistics collector | `karia2statcalc.cpp` | a pool of heap objects under integer keys | `calculateStat`, `getNextStat` | every object has one owner at a time |
| Remote backends | `aria2jsonmanager.cpp`, `aria2xmlmanager.cpp`, `aria2wsjsonmanager.cpp` | ids to poll, calls under way, the same queue and dispatcher | `addTask`, poll timer, answers, failures | an answer reaches its receiver, once, while that one is alive |
| aria2 process | `aria2rpcserver.cpp`, `aria2rpcmanager.cpp`, `ariaman.cpp` | the process and its port | start, stop, restart | there is one process, and somebody notices its end |
| Task list | `taskqueue.cpp` | rows of the downloading tasks | add a row, apply a report | a row shows the state of its own task |
| Task models | `sqlitetaskmodel.cpp` | per category, rows with a mark "dirty" | load, insert, change, submit, move, remove, drop | a task is in one category; clean means stored |
| Storage | `sqlitestorage.cpp` | SQL tables | ids, reads, writes | ids are unique; writes succeed |
| Asynchronous database | `asyncdatabase.cpp`, `databaseworker.cpp` | a thread, a connection, a queue of statements | start, create tables, execute, read from the GUI thread | statements run in the order they were posted and find their tables; nobody reads before there is a worker |
| Main window | `karia2.cpp` | current category and row, tasks running | create, start, pause, finish, delete, purge, select, quit | what is announced is what was done |
| Categories | `sqlitecategorymodel.cpp`, `catmandlg.cpp` | records in one vector, a table | load, add, remove with everything below | table and model agree; a removal takes only what is below; ids are not inherited |
| Segments | `sqlitesegmentmodel.cpp`, `task.cpp`, `segmentlogmodel.cpp` | the blocks a file is cut into | learn the length, take, receive, give up | blocks do not overlap; a byte has one owner; complete means complete |
| Options | `optionmanager.cpp` | two tables of keys | load, save | a value is stored while somebody listens |
| libaria2 backend | `aria2libaria2manager.cpp` | one aria2 session | as the embedded backend | as the embedded backend |
| Conversions | `aria2manager.cpp`, `utility.cpp`, `taskqueue.cpp` | none | task id to gid, lengths, bit fields | injective, or exact, where somebody relies on it |
| Site walking, dialogs, options, widgets | `walksitewnd*.cpp`, `*dlg.cpp`, ... | presentation | | |
| Third-party code | `libng`, `libmaia`, `qjson`, `qjsonrpc`, `libwebsockets`, ... | | | |

How they interact. The main window calls the backend (`addTask`, `pauseTask`)
and the task list. Backends answer with signals (`taskStatChanged`,
`taskFinished`), which cross from the backend's thread to the GUI thread as
posted events; the task list applies them to the model of category Downloading;
the view submits a model when its current row changes; submitting reads the table
in the GUI thread and posts writes to the database thread. Three kinds of threads
besides the GUI thread (workers, dispatcher, database) share plain Qt containers
and one SQLite connection with it, without locks.

What is hard. Posted events arrive late, so a slot acts on objects that were
deleted or replaced since. `isRunning()` is asked while the thread that answers is
leaving its loop. Remote answers come in any order and go to everyone connected.
Writes are posted and their outcome is not looked at. Removing a row makes the
view submit in the middle of a move. All hazards are listed, with their lines and
the properties that would catch them, under `hazards` in `PROJECT.json`. Categories are
removed by a recursion that changes what it iterates over. The storage comes up in
a thread the GUI does not wait for, and may be killed between any two of its
statements. Segments are cut while their owners receive, by calls that know a
block only by its offset.

## 2. Modules

    TaskReports          what a backend promises the list of tasks
      EmbedManager       the embedded backend; implements TaskReports
        EmbedManager_proofs
          EmbedOwners_proofs
        MCEmbedManager
    TaskStore            models, table, database thread and window handlers
      TaskStore_proofs
        TaskHomes_proofs
      MCTaskStore
    RpcBackend           the three remote backends, their clients and aria2
      RpcBackend_proofs
      MCRpcBackend
    Catalog              the tree of categories, its table, its recursion
      Catalog_proofs
      MCCatalog
    StorageStart         the window, the storage and the database thread coming up
      StorageStart_proofs
    SegmentSpace         the allocator of segments, its callers and the retrievers
      SegmentSpace_proofs
      MCSegmentSpace

### TaskReports

The abstract specification: a download is opened for a task, reports any number
of times, is closed at most once, and is silent before and after. A row changes
only through these steps. It stands for the signals declared at
`aria2manager.h:52-54`. It makes no promise that every download is closed: the
code does not keep it (section 4, EmbedLostWakeup). Nor does the code tell the
downloads of a task apart when it is started again while one of them is still in the
tables: such a task may become `mixed`, and `Blur` allows any report of its
downloads, on its own row.

### EmbedManager

State and code correspond as follows.

| Variable | Code |
|---|---|
| `m_tasks`, `m_rtasks` | the two `QHash` tables of `Aria2Manager` |
| `m_tid`, `phase`, `exit_status`, `halted` | an `Aria2EmbedWorker` and its thread, from construction over `run()` to its deferred deletion |
| `calc`, `statPool`, `poolCounter`, `heap` | `Karia2StatCalc`, its pool, the shared key counter, the collectors allocated |
| `guiq`, `gpc` | events posted to the GUI thread, and the point inside a slot where another thread may run (between `enqueue` and `isRunning`) |
| `stkeys`, `doneCounter`, `disp` | the manager's queue and the program counter and locals of its `run()` |
| `shown`, `closed` | what the rows show, which ends were delivered |
| `fault` | the first use of a null or dead pointer; the process stops there |
| `startedOver`, `twice` | history: tasks that were started while `m_tasks` had an entry for them, collectors that were reported under more than one key |

Every slot of the manager is an action; `onAllStatArrived` and `onWorkerFinished`
are cut in two at their only point of interest, and `confirmBackendFinished` in
three (emit, remove, release), because the GUI thread can run in between. One
operation on a Qt container is one step. `EAria2Man`, the older backend, is the
same machine with another set `Reported` of exit codes (its `default:` case same machine with another set `Reported` of exit codes (its `default:` case falls
through).

The user starts tasks as the window lets him: `AddTask` has no guard on the task, as
the test that was there is commented out (`karia2.cpp:909-912`). From then on two
workers share an entry: one is reported and released in the place of the other, a null
entry may be inserted and met, a running thread deleted. Likewise one collector
is reported once per active request group and once more for the results
(`karia2statcalc.cpp:106-150`), so that a download that is followed has it under two keys,
and it is used after it was deleted (`WriteToFreed`, `Dequeue`). All of this happens in the
runs. The properties are about what must stay right around it: about the workers that are
`Apart`, whose tasks were not started over, and the collectors not in `twice`; and
`FaultsHaveCauses` says that there are no other causes.

Abstracted: the numbers in a report ("active" stands for whatever a progress
report displays), the options of a download, the demo statistics.

### TaskStore

| Variable | Code |
|---|---|
| `tasks`, `seq` | tables `tasks` and `seq_tasks` |
| `lastId` | `lastInsertId` of the connection the GUI and the database thread share |
| `models` | `SqliteTaskModel::mHandle`, one model per category or none; a row keeps its id, system and user category, status and the mark "dirty" |
| `view`, `cur` | the model shown by the task view and its current row |
| `queue` | statements posted to `DatabaseWorker` |
| `phase` | `getNextValidTaskID` is two statements |
| `running`, `message`, `fault`, `purged`, `restarts` | tasks given to the backend, the last announcement, a row number outside a model, ids purged since launch, launches |

A handler of the window is one action, because nothing else runs in the GUI thread
meanwhile; it is composed of operators that each stand for one call and that map a
record of the GUI's state to the set of its outcomes. `Submits` has more than one
outcome when `containsTask` asks the table while the INSERT of the same row is
still queued. From Qt the module takes that a view submits when its current row
changes, and that removing the current row makes a neighbour current before the
row is gone. One row is selected at a time, and is the current one: the view lets
several be selected (`karia2.cpp:758`), and `onDeleteTask` then does for each of them, in a
row, what `DeletePermanently` and `MoveToTrash` do for one, with row numbers that
have changed under it.

The database thread may be behind whenever the GUI takes up an event, and tasks may be
started in any category of `StartFrom`. Two histories say which tasks this reaches:
`late`, those with a write waiting when a handler began that asks the database, and
`strayed`, those started in another category than Downloading. A second INSERT of a late
task fails unnoticed, a reload of its category finds it as it was; a strayed task gets
a second row. The code prevents neither. The properties are about the tasks that are
`Orderly`, neither late nor strayed, while the others do what they do.

### RpcBackend

| Variable | Code |
|---|---|
| `transport` | the manager that the factory created |
| `m_tasks`, `adds` | ids to poll; the k-th `addTask` made client and collector number k |
| `calls` | every remote call: its client, kind, task, phase and answer (`CallbackMeta`) |
| `conns` | connections from the JSON client's signal `aresponse` to a collector |
| `made` | statistics a collector has made |
| `stkeys`, `disp` | queue and thread of the manager |
| `posted`, `row` | events on their way to the task list, and what its rows show |
| `accepted`, `status` | aria2: downloads it has, and how they stand (external) |
| `fault` | a collector that was destroyed is used, or an answer is taken apart that has not the expected form |

The three clients differ in who receives an answer (`Receivers`), what happens to
a broken connection (`Break`), and how a socket is released (`Handled`,
`LoopCycle`, `SelfFinished`). `pauseTask` is empty in all three managers. The web
socket backend is the one the program creates (`karia2.cpp:267`); nobody is
connected to its signal, so it never reports anything: the properties about
reports are about the other two.

A download of aria2 is waiting (or paused), active, or ended (complete, removed, failed).
A poll asks for three things at once, and the collector takes the answer apart as if all
three had succeeded. aria2 answers an error to `aria2.getServers` unless the download is
active, and line 710 of `karia2statcalc.cpp` then indexes an empty list; line 718 looks a
server up under the number of its file, which fails for a download with more files than
servers ("uneven"). So every poll of a download that waits or has ended, if it finds a
receiver, is the fault "badAnswer", and the process stops there. Reports exist only of
active downloads, and what the row shows of an end is therefore not a question this
module can ask.

`intime` is history: every call was answered before the next tick and the next
`addTask`, no connection broke, and aria2 rejected only a gid that it already had. Nothing
makes this so; the properties that speak of it say what holds up to the first
exception.

The list of calls is the behaviour's history, as calls are never removed; so `made` can
be compared with the polls that were sent.

### Catalog

| Variable | Code |
|---|---|
| `cats` | `SqliteCategoryModel::mModelData`: id, parent, and whether the record's INSERT is one SQLite accepts |
| `frames`, `deepest` | the calls of `removeRows` that are under way, each with the index and the id it keeps; whether the innermost one has done its children |
| `queue`, `table` | statements posted to the database thread, and table `categorys` |
| `owner` | `user_cat_id` of the rows of table `tasks` |
| `restarts` | launches after the first |

The rows of a category are the records that name it as their parent, in the order
of the vector, as `index`, `parent` and `rowCount` count them. `removeRows` is cut
at every call of itself, so that the database thread runs and the process may end
inside the recursion. It asks `rowCount()` about no parent when it means the record,
and gets 1: `Descend` takes the first child, as the code does. A record whose
statement fails (a name with a quotation mark; nobody looks at the outcome) stays in
the model until the next launch; `Quotes` says whether the user types one. TaskStore takes the tree as a constant; Catalog
knows of tasks only which category they name.

`onCategoryMoveTo` is no action: the call that would move is commented out
(`karia2.cpp:1452`).

### StorageStart

| Variable | Code |
|---|---|
| `thread`, `at`, `fresh` | where `AsyncDatabase::run` and `connectDatabase` are, the table they look at, `has_new_created_table` |
| `m_worker`, `conn` | the pointer both threads use ("dangling" between `delete` and the assignment), the open connection |
| `inbox` | statements on their way to `slotExecute`, if somebody is connected |
| `gui`, `guiq`, `connected`, `catModel` | what the window has done about the storage, events posted to it, `m_connected`, what the model of the categories read |
| `m_reqno`, `posted`, `unheard` | the request number at the width of an int (`IntMax`), statements posted, and those posted to nobody |
| `disk` | per table: absent, without its defaults, whole |
| `fault` | a read without a worker, or `assert(1==2)` of `syncExecute` |
| `failed`, `early` | history: what failed to be created, filled or opened again without anybody being told; whether the last read was of a user who saw no lists yet |

Each CREATE, and the last INSERT that follows it, is a step of its own, as nothing
wraps them in a transaction. Each of them may fail, and so may the second `open()`
(`databaseworker.cpp:124`, 132, 247): the code does not look, and goes on to say
"connected" (`Fails`). `Restart` keeps the file and nothing else. The user may act as
soon as the window is there, before the lists are: the code assumes that he
does not, and does nothing about it. `early` marks the reads for which he did not wait.

TaskStore begins where this module ends, with `gui = "opened"`; its `Execute` is
this module's `SlotExecute` with the table of tasks kept, and `Usable` and `Found`
(section 5) are what it takes for granted of the storage.

### SegmentSpace

| Variable | Code |
|---|---|
| `mMemCapacity`, `mPointerMap` | the length of the file and the blocks (`MPT`: SP, CP, busy) |
| `holds` | the offset each retriever was given (`mStartOffset`) |
| `granted` | the retriever that has its block from `malloc` and not yet `setBlockBusy` |

`malloc`, `free`, `release` and `setBlockBusy` each hold `mAtomMutex`, so each is
one step. `setCapacity` takes no lock; it makes the first block when there is none,
which no other call does anything about, so it is one step too. Any number of retrievers
may be started before the length is known (`task.cpp:194-228`, which has no guard and a
comment that foresees it): `setCapacity` gives block 0 to all of them, and `crowded`
remembers that there were several. The end of a block is kept nowhere: it is the
beginning of the next. Differences wrap at `Width`, as a `quint64` does. The
rows of the model, which mirror the blocks index by index, are left out, and so is
the database: `getSementSet` always answers with nothing (lines 1038-1056 of
`sqlitestorage.cpp`), so that no blocks survive a launch. The model is compiled and
its rows are shown. The callers of its allocator are not in the build of this commit
(`task.cpp`) or not in the repository (the retriever classes): the module says what the
allocator does when it is called in the order that `task.cpp` calls it in, and how its
retrievers report and release from what `free` and `release` expect of them. A
length of 0 ends the process by an assertion and is left out. `isMemFullAlloced` sorts without the
mutex; the blocks being in order already (`SortedStays`), the pass changes nothing.

## 3. Runs that pass

| Run | Bounds | What it shows |
|---|---|---|
| EmbedThreads | 2 tasks, 2 workers, a statistics call each with up to two reports, tasks started over at any time, codes of EAria2Man | of tasks not started over: reports arrive in order and once, the end finds its worker, the tables agree, a running worker is registered, a final status sticks, pools are drained; a collector reported once has one owner; every fault has one of the known causes; the backend implements TaskReports |
| EmbedLive | 1 task, 2 workers, one report each | every reported end is delivered unless stranded, and the next arrival frees a stranded one |
| StoreTasks | 2 tasks, 4 categories, 1 relaunch, a write may wait when the user acts | an orderly task has one home; clean means stored; ids are new unless a late INSERT came between; deleting moves the selected row where a category lists only its own; a purged task stays away until the next launch |
| StoreRaces | 2 tasks, late database thread, crashes, tasks started from the trash and other categories | the list of downloading tasks shows no task twice; orderly tasks keep one home |
| RpcCalls | 2 tasks, 2 `addTask`, 4 calls, all transports, answers at any time, failures | no client makes more reports than it sent polls; as long as answers come in time every poll makes one report, receivers are alive, and bad answers are those of polls of downloads that are not active or uneven |
| RpcRelease | the same with 3 calls | an answered call is released with its socket and thread |
| CatalogTree | 5 default categories, ids up to 10, 1 task, 1 relaunch, 1 statement waiting when the user acts | the table follows the model; a removal takes only what is below and the selected record last; nothing is adopted; the rows the code knows by number stay put |
| StorageStart | 3 launches, killed anywhere, 1 unseen failure, 4 statements, INT_MAX 3, a user who may be early | a read fails for an early user or after an unseen failure only; a user who waits is heard; an end costs the defaults of one table at most; the window is filled |
| Segments | 3 retrievers, several of them first, files of 5 or 8 bytes, least gap 2, 1 or 3 bytes at a time, 6 blocks, numbers wrap at 20 | blocks stay apart; a byte has one owner but in a crowded block 0; nothing counted is asked for again; complete means complete |

Why the bounds are enough. Two workers are needed for everything that goes wrong
between two runs of one task, or between two tasks; a third would be a second
copy of one of them. With two tasks and two workers a task may be started over, or be
the bystander of one that is not; that a bystander suffers nothing where both of two
other workers are of one task is what the theorems add. One report on its way and one behind
it are enough to get them out of order; a call with two reports gives that with the
end behind both, and one collector under two keys. Two tasks are needed to mix up rows;
four categories are the three the code names and one child. One write that waits is
enough for each of the overtakings of section 2. Four calls allow a client two polls
besides its `addTask`, which is when connections are shared, or two clients with a poll of
each; a release concerns one call, and a third leaves room for another beside it.
Ids up to 10 leave room for three new categories, enough for one below another beside a
third; deeper trees only repeat the recursion. Two restarts leave two tables bare, which
is what distinguishes "one per end" from "one"; one failure shows every place where one may
come. Six blocks of a file of eight bytes include empty blocks, blocks cut twice, and
blocks cut while reported; with the least gap scaled down from 100 KiB to 2 both branches
of `malloc` are taken.

Deadlock is not checked: the user may stop acting, downloads need not end, a fault ends
the process, and counters are bounded.

Fairness. `EmbedManager!FairSpec` assumes that the GUI thread handles events, that
the dispatcher runs when started and that a worker's thread makes progress: these
are event loops and threads of a fair scheduler. A download need not end unless it
was halted, and the user owes nothing. `RpcBackend!LiveSpec` assumes weak fairness
of each client's handlers, which the GUI event loop and the socket's timer call;
nothing is assumed of aria2, of the user or of the poll timer.
`StorageStart!FairSpec` assumes that the database thread is scheduled and that the GUI
thread ends the handler it is in and takes its events; launches are bounded, so
that in the end one is left alone.

## 4. Runs that find the code at odds with itself

| Run | What happens |
|---|---|
| EmbedLostWakeup | `onWorkerFinished` enqueues the end after the dispatcher saw the queue empty and before its thread ended; `isRunning()` is true, nobody starts it, the end is never reported (`aria2embedmanager.cpp:213`) |
| EmbedOwners | a download has a result and an active group: `calculateStat` puts its collector into the pool twice, and two elements of the queue own it (`karia2statcalc.cpp:149`), of which the dispatcher deletes the first |
| CatalogOrphans | two categories are made below one, which is then removed: the recursion counts one row, the second child is left in the table under a parent that is gone (`sqlitecategorymodel.cpp:538`) |

CatalogOrphans has no quotation marks (`Quotes` is FALSE), so that every INSERT
succeeds and it is the removal that leaves the orphan: TLC's trace adds categories 8 and 9
below 3, removes 3, descends into 8, and ends with 9 in the table below a 3 that is not.

Also met, as behaviours of the passing runs that no property promises to be absent.

EmbedManager: a running task is started again and its two workers are taken for one
another, to the point of a null entry or the deletion of a running thread
(`karia2.cpp:909`); the end is emitted before the entry is removed, so that a task
started again on seeing it loses the entry of its new worker
(`aria2embedmanager.cpp:307`); a pause between `addTask` and the construction of the engine
uses a null pointer; ends with REMOVED or another code are not reported
(`aria2embedmanager.cpp:331`).

TaskStore: a second INSERT of a row whose first one is still queued fails unnoticed,
and the row is clean and the table old (`sqlitetaskmodel.cpp:364`); deleting in
Downloaded uses a row number of the shown model in the model of a child
(`karia2.cpp:1161`); quitting loses rows that were not submitted; a purged task is
back after a relaunch, as only the model forgets it; a task started in another
category gets a second row; `lastInsertId` may return the id of a row that the
database thread inserted (`databaseworker.cpp:511`).

RpcBackend: a poll of a download that is not active ends the process
(`karia2statcalc.cpp:710`); every state but active would be shown as "waiting"
(`aria2jsonmanager.cpp:176`); with two remote tasks all reports go to the row of the
one added last; an answer that arrives after a further `addTask` uses the destroyed
collector.

Catalog: tasks of a removed category keep its number, and the next new category gets
that number if it was the largest: they are then its tasks.

StorageStart: a dialog opened before the storage is up reads through a null pointer, or
meets a table that is not there and the `assert(1==2)` of `syncExecute`
(`databaseworker.cpp:508`), or fills the model of the categories, which is read once,
from a table without its defaults; a CREATE that fails is found out by the same assertion.

SegmentSpace: `free` answers 0 whenever it clips, because CP is set before
`free_length` is computed from it (lines 626 and 640), where the comment at line 607
says a part; `malloc` answers with an empty block when nothing is left, where its
comment says 0; an idle first block that has received nothing answers 0 too, so
that it can never be started again.

## 5. Proofs

### EmbedManager_proofs

Proved from `ConstantsAssumption`, for any sets of tasks and workers, any bounds, any
number of reports per call, and a user who starts and pauses what he likes:

- `TypeCorrect`: `Spec => []TypeOK`;
- `LastReport`, `FinishFound`, `Registered`, `StatusSticks`: the properties
  `FinalReportIsLast`, `FinishFindsItsWorker`, `RunningIsRegistered`,
  `FinalStatusSticks`;
- `Implements`: `EmbedManager` implements `TaskReports`.

The invariant is `IInv == Named /\ Passage`. `Named` is type correctness with the
facts it needs to be inductive: what is in the pools, in the queue and in the
dispatcher's locals names the worker it is about, and a worker that was not
created is named nowhere. `Passage` follows the reports of a worker that is `Apart`
through the four places where they can be: posted to the GUI, in `stkeys`, in the
dispatcher's hands, posted back. The report of the end is in one of them at a time, and
behind it there is no report of progress; until the dispatcher has removed it, the
worker is the entry of its task. None of the proved properties is inductive by itself: that
a closed worker is silent rests on the order in both queues and on where its end is, and
that the dispatcher finds the right worker rests on the entry, which in turn rests on
the end not having been handled yet.

Of a worker whose task was started over `Passage` says one thing only: what the dispatcher
finds when it handles one of its events is null or a worker of the same task
(`Matched`). So whatever it does to what it found is done to a task that is
in `startedOver`, and the lemmas show that this is a step that `Passage` of the others does
not see. One lemma per action shows that `Named` and `Passage` are kept; lemmas on `Append`
and `Tail` carry the queue arguments. `Implements` shows that each action is a step of
TaskReports, a `Blur` of a mixed task included, or a stutter, with `life` read off `m_tid`
and `closed`.

### EmbedOwners_proofs

Builds on the invariant above and proves the rest of what the runs check of
EmbedManager, from the same assumption: `TablesAreInverse` (`TablesAgree`),
`NoUseAfterFree` (`FaultsHaveCauses`), `OwnerIsSingle` (`SingleOwner`) and
`PoolsAreDrained` (`PoolDrainedBeforeDelete`).

The invariant adds to `IInv` three parts. `Tables` adds to `TablesAgree` that a worker that
is apart stays the entry of its task as long as a report of its progress is on its way, so
that `m_tasks[tid]` in the dispatcher never inserts a null entry for its task.
`Keys` says that posted keys and entries of the pools match one to one: this is why
`getNextStat` always finds something, for whatever task, and why a worker with no key on
its way has an empty pool. `Ownership` is about collectors: those in `twice` may be
anywhere, and the others are in one place, allocated, and handed on by the thread that
allocated them: the number was reached and is not the one still to be emitted; number 0 is
out once `finished()` was handled. So a collector put into a pool or a queue is held
nowhere yet, unless it is in `twice`. That no null pointer is met, nothing used after
it was freed and nothing freed twice but for the causes named then follows step by step.

### TaskStore_proofs

Proved from `StoreAssumption` and `NothingAssumption`, for any categories, any number
of tasks, rows, writes and launches:

- `TypeCorrect` and `DownloadingOnce` (`DownloadingUnique`): however late the database
  thread is;
- `NewIdsAreNew` (`NewTaskIsNew`): an INSERT of the database thread can come between the
  two statements of `getNextValidTaskID`, and `lastInsertId` then answers the id of another
  task. The theorem says that this task is one whose write was waiting when `createTask`
  began, and that the id is nobody's in any other case;
- `TrashNamesItsTask` (`DeleteMovesShownRow`), however late the database thread is: the
  step that announces a task moves the top row of the trash (`MovesKept`), and a category
  that lists no other's tasks is its rows' own (`Homed`), so that the row number is good
  there. `Trash` adds to `IInv` that an announcement is of the last event.

The invariant is `IInv == Flags /\ TableTo(Allocated) /\ Gui \in Guis(Allocated)`. A
handler is a row of calls, so what has to be inductive is said of one call's record:
`Guis(b)` holds the records in which the models shown and downloading are loaded, the
second lists no task twice, the current row exists, rows belong to the category listing
them or to one below it, and no row and no write names a task beyond `b`. One lemma per call (`SubmitsKept`, `PrependKept`, `RemovesKept`,
`MovesKept`, `ShowsKept`, ...) shows that `Guis(b)` is kept; one per handler puts
them together. `Allocated` is the greatest id in use: the last of `seq_tasks`, or the one
before while a task is being created and nothing can come between. A new row is
put on top of the downloading ones only if the search found none with its id
(`FindRow`), and a moved row leaves its old place before it arrives (`RemovedRow`,
`AddedRow`). That rows can be listed from the last to the first is
`DescendingExists`, an induction over finite sets by well-foundedness.

### TaskHomes_proofs

`TasksHaveOneHome` (`OneHome`), `CleanRowsAreStored` (`CleanIsStored`) and
`PurgedTasksStayGone` (`PurgedStaysGone`), for any number of tasks and launches, however
late the database thread is and wherever tasks are started, of the tasks that are
`Orderly` at the time. The one assumption beside those of the module is `FlatTree`, on the
shape of the tree of categories: those below another one have none below them, and the
trash is below none. The tree the program creates has two levels below the root
(`abstractstorage.cpp:70`), and the root is the view's hidden root index
(`karia2.cpp:744`). With a third level the theorems are false: `onDeleteTask` takes
the row with the number selected from the model of the row's own category, and the row
there may be a third category's, which `moveTasks` copies into the trash and
leaves at home where it was.

The invariant takes the set `O` of the tasks it is about as a parameter. A handler makes
tasks late before it asks anything, and what is settled for some tasks is settled for fewer
(`SettledFewer`); of those that remain no write is waiting (`Quiet`), so that every
answer of the database about them is the right one. What the handler does to the
others is shown not to disturb these.

`OneHome` is not inductive: a model that is not loaded comes back from the table, which is
behind the models by the writes that wait. So the invariant speaks of what is *due*: the last
write waiting for a task or, if none waits, its row in the table. `Settled` says that
no INSERT that waits will fail (`Ordered`); that a clean row in its own category is
what is due and a dirty one, which only the downloading list has, at least agrees
with it on the category (`Agrees`); that the current downloading row has been submitted,
so that its task is in the table (`CurrentDue`); and that a purged task is due to remain a
task of the trash, whose model stays loaded and is without it (`GoneFor`). Two homes of
a task would then have to agree with one row on its category (`OneOwner`). `Due` is
kept by executing the first write (`ExecutedDue`), and what a submit makes of it is
`SubmitEffect`. A handler breaks the invariant between two calls, when the moved row is
in the model but not yet written: `Ready` is what holds there, and `SubmitSettles`
shows that the submit that follows restores the rest.

### RpcBackend_proofs

Proved from `RpcAssumption`, for any tasks, transports and bounds:

- `TypeCorrect`, `Bounded` (`ReportsBounded`): whenever answers come, whatever fails;
- `AnswersAreSafe` (`PromptFaultsAreOfPolls`) and `NoPollLost` (`EveryPollReports`), which
  say what holds as long as all answers have come in time (`intime`).

The first two rest on `IInv == Shape /\ Owned /\ Current /\ Counted`. One answer of the
JSON client calls every receiver that is connected, so reports cannot be matched with
answers one to one. `Counted` therefore counts for each client: reports made and connections
together are at most the polls that were sent; with the XML client, where an answer
has one receiver, reports are at most the polls that ended. The step from a connection to a
report needs that the answer is one to a poll of the latest client, which `Owned` and
`Current` give. `ChangedCounts` says what one call that goes on adds to the sets
counted, and is used by every step of a call. The other two add `InTime`: while answers
come in time the calls under way are one batch, of one kind and through the latest client
(`OneBatch`), so that aria2 knows every download it is asked about (`Handed`, `Known`), and
the inequalities of `Counted` are equations (`Exact`).

### StorageStart_proofs

Proved from `StartAssumption`, for any number of launches and statements and any
`IntMax`:

`TypeCorrect`, `BareBound`, `Usable`, `Found`, `ReadsAreSafe` (`SyncQueriesSucceed`) and
`Heard` (`UserIsHeard`), with no assumption on the user, and with any number of CREATEs,
INSERTs and second opens that fail.

The invariant is `IInv == TypeOK /\ StageInv /\ TablesInv /\ HeardInv`. `StageInv` ties
`m_worker`, `conn` and the events on their way to where the thread is, `TablesInv` says
that the tables before `at` are there, and `HeardInv` that whoever waits behind
`ready(true)` waits for a thread that is in its event loop. `BareBound` is an
induction over launches: it needs that a bare table beyond those the restarts account for
is the one being filled. What a user does who sees the lists, he does after `ready(true)`
was handled, and `Usable` then gives the worker and, but for what failed, the connection
and the tables: hence a read that meets something else is `early` or follows a failure.

### Catalog_proofs

Proved from `CatalogAssumption`, for any default categories of which three are at the top,
any tasks, ids, launches and statements:

- `TypeCorrect`, `TableWillFollow` (`TableFollows`), `SystemCategoriesStay`
  (`SystemRowsStay`), `NewCategoriesAreEmpty` (`NoAdoption`) and `RemovalsStayBelow`
  (`OnlySubtreeGoes`);
- three facts about the recursion of `removeRows` that no run states: the index a call
  keeps is still that of its record (`IndexesAreFresh`), the calls are about different
  records, as many as there are at the most (`NoCircles`), and a removal ends
  (`RemovalsEnd`): `Work` is a natural number that each of its steps makes smaller.

The invariant is `IInv == Tree(cats) /\ TableSound(table) /\ StatementsSound /\
Chain(cats, frames) /\ Rest /\ Follows(cats, Settled)`. `Tree` says what keeps the
vector a tree though nobody checks it: ids are given once, a parent has a smaller id and
an earlier place than its rows, and the system records are as they were made. A removal
in the middle leaves records whose parent is gone, in the model until the next launch
and in the table for good (run CatalogOrphans); `Tree` and `TableSound` allow them. A new id
is greater than every id held, and a parent is smaller than its rows, so nobody names the new
id; and the root's rows are `Sound` only if they were there from the start, so that a
category is never added at the top. `Chain` says that
each call of `removeRows` under way is about a row of the record of the call before, further
on in the vector, at the index it has kept: hence a removal by an inner call, which is at a
greater index, moves no record that an outer call has an index of. `Follows` is `TableFollows`
with the records of an id named one by one.

What `Below`, `Settled` and `Load` compute is shown without induction over data. That the recursion
of `Below` has a solution is `BelowSolvable`, by the greatest set whose records
each are `c` or have their parent in it; what the statements make of the table is determined by the least place where two runs of them would
differ (`RunExists`, `AfterIsLast`), which gives what one more (`AfterPosted`) or one less
(`AfterExecuted`) changes. `RankIsPlace` shows that the sort of `Load` puts each record in
one place, as an injection of a finite set into as many places, and `LoadIs` that
what is loaded is a `Tree`. `SystemProtected` counts the rows above a system row.

### SegmentSpace_proofs

Proved from `SegmentAssumption`, for any retrievers, lengths and chunks that fit the
width: `TypeCorrect`, `BlocksApart`, `OwnersKeptApart`, `FullCorrect`,
`ReceivedStays`.

The invariant is `IInv == TypeOK /\ Space /\ FirstBlock /\ OwnInv`. `Space` says that each
block ends where, or before, the next begins; with it no difference wraps, and
every step of the allocator can be argued about in plain numbers (`CutPoint`,
`CutSpace`). The block that begins at 0 stays the first (`FirstBlock`), which
`FullMeansAll` rests on. `OwnInv` says that what a retriever holds begins a block,
and that two holders of one offset, or a retriever and an idle block there, have nothing
left to receive in it, unless they share block 0 since before the length was known
(`crowded`): the empty one is the case nobody wrote down, as `malloc` does make
blocks of length 0 that begin where others do, and `free`, `release` and
`setBlockBusy` then find the first of them. `FirstMost` gives the first greatest
element of a sequence by well-foundedness, where the library's induction cannot be
used.

### What is only model-checked

Liveness: `EndIsReported` and `NextArrivalRescues` of EmbedManager, `AnsweredIsReleased` of
RpcBackend and `ComesUp` of StorageStart, as fairness and ENABLED are out of the prover's
reach. Every invariant and every action property of a passing run is the statement of a
theorem of this section. None of them assumes anything about the user, the database thread
or aria2; beside the assumptions on the constants there is only `FlatTree`.

## 6. What is not modelled

- The aria2 process. Its manager waits 300 ms, looks whether port 6800 is taken (if so,
  it reads a file of process ids, ends the process there and takes the first free port up
  to 6899), and starts one. The signals of its end are connected to nobody, `stop` and
  `restart` have no callers, the destructor leaves the process running, and a file of ids is
  read only when 6800 is busy: a machine of two states with no promise to check, of
  which RpcBackend keeps the part that matters to it, that aria2 may not answer.
- The libaria2 backend, created by nobody, and EAria2Man beyond the one case where it
  differs from the embedded backend.
- Lists of statements (`slotExecute` of a QStringList) and the results of statements:
  nobody posts the first, nobody is connected to the second.
- Conversions (`tid2gid`, lengths through `toInt`, `metauri`, the parsing of
  addresses): functions without state, which a table of examples tests as well.
- Torn reads of unlocked Qt containers: each operation is one step, because what
  a race inside a `QHash` leaves behind is not a set that can be enumerated.
- The wrap of the key counter at `INT_MAX`; keys are unbounded here.
- Dialogs, widgets, preferences, site walking: presentation, or input that ends in
  `createTask`. The crawler's request is commented out (`walksitewndex.cpp:196`).
- Several tasks selected at once: handlers are modelled for one row.
- Third-party code, which is most of the repository's lines, and older copies of the
  window and the transports that `karia2.pro` does not build.

## 7. Plan

1. StatKeys: the shared counter of pool keys at the width of an int, with two
   workers that test and increment; positive keys that turn negative are taken
   for ends of downloads.
2. The category tree as state of TaskStore in place of a constant.

Runs are kept few: when a new module needs one, runs of section 4 whose fault is
settled make room.
