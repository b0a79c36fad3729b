---------------------------- MODULE EmbedManager ----------------------------
(***************************************************************************)
(* The embedded aria2 backend of karia2: class Aria2EmbedManager and its   *)
(* Aria2EmbedWorker threads (aria2embedmanager.cpp), the collector of      *)
(* download statistics Karia2StatCalc (karia2statcalc.cpp) and the part of *)
(* the main window that starts, pauses and displays tasks.                 *)
(*                                                                         *)
(* Three kinds of threads run:                                             *)
(*   - one thread per task, the worker: it builds the aria2 engine, lets   *)
(*     it run, and reports progress by putting a heap-allocated collector  *)
(*     into a pool under an integer key and posting the key;               *)
(*   - the GUI thread, which handles one posted event at a time: it moves  *)
(*     a collector from the pool into the queue stkeys and starts the      *)
(*     dispatcher thread when that one is not running;                     *)
(*   - the dispatcher, the manager's own QThread: it drains stkeys, turns  *)
(*     each element into signals for the GUI, releases the worker whose    *)
(*     download ended, and returns when it sees the queue empty.           *)
(*                                                                         *)
(* QQueue and QHash operations are taken as atomic steps.                  *)
(***************************************************************************)
EXTENDS Integers, Sequences, FiniteSets

CONSTANTS
    Tids,          \* task ids
    Workers,       \* the Aria2EmbedWorker objects a behaviour may create
    NoTid,         \* m_tid of an object that does not exist yet
    NoEntry,       \* m_tasks has no entry for the key
    Null,          \* the null pointer
    EmitCounts,    \* how many request groups and results one calculateStat
                   \* call may report
    Reported,      \* exit codes for which the end of a download is reported
    PrepareCodes,  \* what MultiUrlRequestInfo::prepare may return
    ResultCodes,   \* what MultiUrlRequestInfo::getResult may return
    MaxCalcs       \* bound: calculateStat calls of one worker

Codes == {"UNDEFINED", "FINISHED", "IN_PROGRESS", "REMOVED",
          "RESOURCE_NOT_FOUND", "OTHER"}

\* The exit codes that end in a report and in the release of the worker, in
\* Aria2EmbedManager and in its older twin EAria2Man, whose switch lets the
\* default case fall through from RESOURCE_NOT_FOUND.
EmbedReported == {"FINISHED", "IN_PROGRESS", "RESOURCE_NOT_FOUND"}
EAria2Reported == Codes \ {"REMOVED"}

ASSUME ConstantsAssumption ==
    /\ NoTid \notin Tids
    /\ NoEntry \notin Workers /\ Null \notin Workers /\ NoEntry # Null
    /\ EmitCounts \subseteq Nat
    /\ Reported \subseteq Codes
    /\ PrepareCodes \subseteq Codes
    /\ ResultCodes \subseteq Codes \ {"UNDEFINED"}
    /\ MaxCalcs \in Nat

VARIABLES
    \* the manager's tables
    m_tasks,       \* QHash<int, void*>: tid => worker
    m_rtasks,      \* keys of QHash<void*, int>: worker => tid
    \* the worker objects and their threads
    m_tid,         \* worker => the task it was created for
    phase,         \* worker => how far its thread has come
    exit_status,   \* worker => result of prepare(), then of the download
    halted,        \* worker => forceHalt() was called on its engine
    \* Karia2StatCalc
    calc,          \* worker => calculateStat calls begun, reports left to emit
    statPool,      \* worker => set of <<key, collector>>
    poolCounter,   \* next positive key, shared by all the pools
    heap,          \* collectors allocated and not deleted
    \* GUI thread
    guiq,          \* events posted to the GUI thread
    gpc,           \* "loop", or "wake" between enqueue() and isRunning()
    shown,         \* tid => what its row among the downloading tasks displays;
                   \* "done" when onTaskDone moved the row away
    closed,        \* workers whose last report was delivered
    \* dispatcher thread
    stkeys,        \* QQueue of <<key, collector>>
    doneCounter,   \* next negative key
    disp,          \* program counter and locals of run()
    \* the process
    fault,         \* "none", or the undefined behaviour that ended it
    \* history, read by the properties only
    startedOver,   \* tasks that were started while m_tasks had an entry for them
    twice          \* collectors that were reported under more than one key

tables     == <<m_tasks, m_rtasks>>
threads    == <<m_tid, phase, exit_status, halted>>
collecting == <<calc, statPool, poolCounter>>
gui        == <<gpc, shown, closed>>
history    == <<startedOver, twice>>
vars == <<tables, threads, collecting, heap, guiq, gui,
          stkeys, doneCounter, disp, fault, history>>

Phases == {"unborn", "created", "running", "returned", "ended", "deleted"}
Faults == {"none", "nullEngine", "nullWorker", "nullSender", "nullStat",
           "useAfterFree", "doubleFree", "liveThreadDeleted"}
Finals == {"done", "pause", "error"}

\* A collector is named by the worker that allocated it and the number of the
\* calculateStat call; number 0 is the one onWorkerFinished allocates.
Collectors == Workers \X Nat
NoStat == <<Null, 0>>

\* Faulty: a final report with the status of a progress report.
FinalStatusAsProgress(code) == IF code = "FINISHED" THEN "done" ELSE "active"

\* What the row shows once the worker ended with this code.
FinalStatus(code) ==
    CASE code = "FINISHED"    -> "done"
      [] code = "IN_PROGRESS" -> "pause"
      [] OTHER                -> "error"

\* Events posted to the GUI thread.
Event(type, w, key, status) ==
    [type |-> type, w |-> w, key |-> key, status |-> status]
ProgressStat(w, key)  == Event("progressStat", w, key, "none")
WorkerDone(w)         == Event("workerFinished", w, 0, "none")
TaskStat(w)           == Event("taskStat", w, 0, "active")
TaskFinal(w, status)  == Event("taskFinal", w, 0, status)
DeleteLater(w)        == Event("deleteLater", w, 0, "none")

Events ==
    [type : {"progressStat", "workerFinished", "taskStat", "deleteLater"},
     w : Workers, key : Nat, status : {"active", "none"}]
      \cup [type : {"taskFinal"}, w : Workers, key : Nat, status : Finals]

Idle == [pc |-> "idle", key |-> 0, sclt |-> NoStat, eaw |-> NoEntry]

TypeOK ==
    /\ m_tasks \in [Tids -> Workers \cup {NoEntry, Null}]
    /\ m_rtasks \subseteq Workers
    /\ m_tid \in [Workers -> Tids \cup {NoTid}]
    /\ phase \in [Workers -> Phases]
    /\ exit_status \in [Workers -> Codes]
    /\ halted \in [Workers -> BOOLEAN]
    /\ calc \in [Workers -> [calls : Nat, left : Nat]]
    /\ statPool \in [Workers -> SUBSET (Nat \X Collectors)]
    /\ poolCounter \in Nat \ {0}
    /\ heap \subseteq Collectors
    /\ guiq \in Seq(Events)
    /\ gpc \in {"loop", "wake"}
    /\ shown \in [Tids -> Finals \cup {"ready", "active"}]
    /\ closed \subseteq Workers
    /\ stkeys \in Seq(Int \X (Collectors \cup {NoStat}))
    /\ doneCounter \in Int /\ doneCounter < 0
    /\ disp \in [pc : {"idle", "test", "emit", "remove", "release", "free",
                       "leave"},
                 key : Int, sclt : Collectors \cup {NoStat},
                 eaw : Workers \cup {NoEntry, Null}]
    /\ fault \in Faults
    /\ startedOver \subseteq Tids
    /\ twice \subseteq Collectors

Init ==
    /\ m_tasks = [t \in Tids |-> NoEntry]
    /\ m_rtasks = {}
    /\ m_tid = [w \in Workers |-> NoTid]
    /\ phase = [w \in Workers |-> "unborn"]
    /\ exit_status = [w \in Workers |-> "UNDEFINED"]
    /\ halted = [w \in Workers |-> FALSE]
    /\ calc = [w \in Workers |-> [calls |-> 0, left |-> 0]]
    /\ statPool = [w \in Workers |-> {}]
    /\ poolCounter = 1
    /\ heap = {}
    /\ guiq = <<>>
    /\ gpc = "loop"
    /\ shown = [t \in Tids |-> "ready"]
    /\ closed = {}
    /\ stkeys = <<>>
    /\ doneCounter = -1
    /\ disp = Idle
    /\ fault = "none"
    /\ startedOver = {} /\ twice = {}
-----------------------------------------------------------------------------
(* User actions, on the GUI thread between two events.                     *)

\* The use of a null or dangling pointer is undefined: a behaviour ends there,
\* and nothing is promised for what the process does from then on.
Alive == fault = "none"

\* Faulty: the worker is entered in m_rtasks only.
NotRegister(t, w) == UNCHANGED m_tasks

\* m_tasks[task_id] = eaw
Register(t, w) == m_tasks' = [m_tasks EXCEPT ![t] = w]

\* onStartTask: addTaskModel gives the task a fresh row when it has none among
\* the downloading ones, then addTask lets a fresh worker take over the entry of
\* the task, whatever it was.  Nobody asks whether the task runs: the test is
\* commented out (karia2.cpp:909).
AddTask(t, w) ==
    /\ Alive
    /\ gpc = "loop"
    /\ phase[w] = "unborn"
    /\ m_tid' = [m_tid EXCEPT ![w] = t]
    /\ phase' = [phase EXCEPT ![w] = "created"]
    /\ Register(t, w)
    /\ m_rtasks' = m_rtasks \cup {w}
    /\ shown' = [shown EXCEPT ![t] = IF @ = "done" THEN "ready" ELSE @]
    /\ startedOver' = startedOver \cup {u \in {t} : m_tasks[u] # NoEntry}
    /\ UNCHANGED <<exit_status, halted, collecting, heap, guiq, gpc, closed,
                   stkeys, doneCounter, disp, fault, twice>>

\* pauseTask: dereferences the entry, then the engine of its worker, which
\* exists once the worker's run() has come past prepare().
PauseTask(t) ==
    /\ Alive
    /\ gpc = "loop"
    /\ m_tasks[t] # NoEntry
    /\ LET eaw == m_tasks[t] IN
         \/ /\ eaw = Null
            /\ fault' = "nullWorker"
            /\ UNCHANGED halted
         \/ /\ eaw # Null
            /\ phase[eaw] = "created"
            /\ fault' = "nullEngine"
            /\ UNCHANGED halted
         \/ /\ eaw # Null
            /\ phase[eaw] # "created"
            /\ halted' = [halted EXCEPT ![eaw] = TRUE]
            /\ UNCHANGED fault
    /\ UNCHANGED <<tables, m_tid, phase, exit_status, collecting, heap, guiq,
                   gui, stkeys, doneCounter, disp, history>>
-----------------------------------------------------------------------------
(* A worker thread: Aria2EmbedWorker::run and Karia2StatCalc.              *)

Prepare(w) ==
    /\ Alive
    /\ phase[w] = "created"
    /\ \E code \in PrepareCodes :
         exit_status' = [exit_status EXCEPT ![w] = code]
    /\ phase' = [phase EXCEPT ![w] = "running"]
    /\ UNCHANGED <<tables, m_tid, halted, collecting, heap, guiq, gui, stkeys,
                   doneCounter, disp, fault, history>>

\* calculateStat past its one-second throttle: allocates one collector, to be
\* reported once per active request group and once more for the download
\* results.  A torrent or metalink that is followed has both.
BeginCalc(w) ==
    LET sclt == <<w, calc[w].calls + 1>> IN
      /\ Alive
      /\ phase[w] = "running"
      /\ calc[w].left = 0
      /\ calc[w].calls < MaxCalcs
      /\ \E n \in EmitCounts :
           /\ calc' = [calc EXCEPT ![w] = [calls |-> @.calls + 1, left |-> n]]
           /\ twice' = twice \cup {s \in {sclt} : n > 1}
      /\ heap' = heap \cup {sclt}
      /\ UNCHANGED <<tables, threads, statPool, poolCounter, guiq, gui, stkeys,
                     doneCounter, disp, fault, startedOver>>

\* Filling in a collector that the dispatcher has deleted since its last key.
WriteToFreed(w) ==
    /\ Alive
    /\ phase[w] = "running"
    /\ calc[w].left > 0
    /\ <<w, calc[w].calls>> \notin heap
    /\ fault' = "useAfterFree"
    /\ UNCHANGED <<tables, threads, collecting, heap, guiq, gui, stkeys,
                   doneCounter, disp, history>>

\* One iteration of its loop: the collector is filled in, goes into the pool
\* under a new key, and the key is posted.
EmitStat(w) ==
    /\ Alive
    /\ phase[w] = "running"
    /\ calc[w].left > 0
    /\ <<w, calc[w].calls>> \in heap
    /\ calc' = [calc EXCEPT ![w].left = @ - 1]
    /\ statPool' = [statPool EXCEPT ![w] =
                       @ \cup {<<poolCounter, <<w, calc[w].calls>>>>}]
    /\ poolCounter' = poolCounter + 1
    /\ guiq' = Append(guiq, ProgressStat(w, poolCounter))
    /\ UNCHANGED <<tables, threads, heap, gui, stkeys, doneCounter, disp,
                   fault, history>>

\* The engine's loop ends between two calculateStat calls, by itself or because
\* it was halted; getResult() then says how far the download came.
Return(w) ==
    /\ Alive
    /\ phase[w] = "running"
    /\ calc[w].left = 0
    /\ phase' = [phase EXCEPT ![w] = "returned"]
    /\ \E code \in ResultCodes :
         /\ halted[w] \/ code # "IN_PROGRESS"
         /\ exit_status' = [exit_status EXCEPT ![w] = code]
    /\ UNCHANGED <<tables, m_tid, halted, collecting, heap, guiq, gui, stkeys,
                   doneCounter, disp, fault, history>>

\* Faulty: finished() overtakes the events that were posted before it.
PostDoneUrgently(q, w) == <<WorkerDone(w)>> \o q

PostDone(q, w) == Append(q, WorkerDone(w))

\* QThread emits finished() from the worker thread after run().
Finished(w) ==
    /\ Alive
    /\ phase[w] = "returned"
    /\ phase' = [phase EXCEPT ![w] = "ended"]
    /\ guiq' = PostDone(guiq, w)
    /\ UNCHANGED <<tables, m_tid, exit_status, halted, collecting, heap, gui,
                   stkeys, doneCounter, disp, fault, history>>
-----------------------------------------------------------------------------
(* The GUI thread: one posted event at a time.                             *)

NextEvent(type) ==
    /\ Alive
    /\ gpc = "loop"
    /\ guiq # <<>>
    /\ Head(guiq).type = type
    /\ guiq' = Tail(guiq)

\* Both slots of the GUI look for the row among the downloading tasks, and do
\* nothing when it is not there.
Show(t, status) ==
    shown' = IF shown[t] = "done" THEN shown ELSE [shown EXCEPT ![t] = status]

\* Faulty: QMap::value instead of QMap::take.
LeaveInPool(pool, taken) == pool

\* QMap::take
TakeFromPool(pool, taken) == pool \ taken

\* onAllStatArrived up to enqueue(): getNextStat takes the collector out of the
\* sender's pool, or answers null.
OnAllStatArrived ==
    /\ NextEvent("progressStat")
    /\ LET w     == Head(guiq).w
           key   == Head(guiq).key
           taken == {p \in statPool[w] : p[1] = key}
       IN  \/ /\ phase[w] = "deleted"
              /\ fault' = "nullSender"
              /\ UNCHANGED <<statPool, stkeys, gpc>>
           \/ /\ phase[w] # "deleted"
              /\ statPool' = [statPool EXCEPT ![w] = TakeFromPool(@, taken)]
              /\ \/ \E p \in taken : stkeys' = Append(stkeys, p)
                 \/ taken = {} /\ stkeys' = Append(stkeys, <<key, NoStat>>)
              /\ gpc' = "wake"
              /\ UNCHANGED fault
    /\ UNCHANGED <<tables, threads, calc, poolCounter, heap, shown, closed,
                   doneCounter, disp, history>>

\* Faulty: the end is reported at once, ahead of the progress reports in stkeys.
OnWorkerFinishedAtOnce ==
    /\ NextEvent("workerFinished")
    /\ LET w == Head(guiq).w IN
         /\ Show(m_tid[w], FinalStatus(exit_status[w]))
         /\ closed' = closed \cup {w}
    /\ UNCHANGED <<tables, threads, collecting, heap, gpc, stkeys, doneCounter,
                   disp, fault, history>>

\* onWorkerFinished up to enqueue(): the end of the download takes the same
\* queue, under a negative key.
OnWorkerFinished ==
    /\ NextEvent("workerFinished")
    /\ LET w == Head(guiq).w IN
         \/ /\ phase[w] = "deleted"
            /\ fault' = "nullSender"
            /\ UNCHANGED <<heap, stkeys, doneCounter, gpc>>
         \/ /\ phase[w] # "deleted"
            /\ heap' = heap \cup {<<w, 0>>}
            /\ stkeys' = Append(stkeys, <<doneCounter, <<w, 0>>>>)
            /\ doneCounter' = doneCounter - 1
            /\ gpc' = "wake"
            /\ UNCHANGED fault
    /\ UNCHANGED <<tables, threads, collecting, shown, closed, disp, history>>

\* Faulty: the thread is never started.
NoStart == disp

Start == IF disp.pc = "idle" THEN [disp EXCEPT !.pc = "test"] ELSE disp

\* "if (!isRunning()) start()" at the end of both slots.
Wake ==
    /\ Alive
    /\ gpc = "wake"
    /\ gpc' = "loop"
    /\ disp' = Start
    /\ UNCHANGED <<tables, threads, collecting, heap, guiq, shown, closed,
                   stkeys, doneCounter, fault, history>>

\* TaskQueue::onTaskStatusNeedUpdate2 for a progress report.
OnTaskStat ==
    /\ NextEvent("taskStat")
    /\ Show(m_tid[Head(guiq).w], "active")
    /\ UNCHANGED <<tables, threads, collecting, heap, gpc, closed, stkeys,
                   doneCounter, disp, fault, history>>

\* Karia2::onTaskDone, or onTaskStatusNeedUpdate2 with a final status.
OnTaskFinal ==
    /\ NextEvent("taskFinal")
    /\ Show(m_tid[Head(guiq).w], Head(guiq).status)
    /\ closed' = closed \cup {Head(guiq).w}
    /\ UNCHANGED <<tables, threads, collecting, heap, gpc, stkeys, doneCounter,
                   disp, fault, history>>

\* The deferred delete of a worker and, with its engine, of its pool.  Deleting
\* a QThread that runs aborts the process.
OnDeleteLater ==
    /\ NextEvent("deleteLater")
    /\ LET w == Head(guiq).w IN
         \/ /\ phase[w] \in {"ended", "deleted"}
            /\ phase' = [phase EXCEPT ![w] = "deleted"]
            /\ statPool' = [statPool EXCEPT ![w] = {}]
            /\ UNCHANGED fault
         \/ /\ phase[w] \notin {"ended", "deleted"}
            /\ fault' = "liveThreadDeleted"
            /\ UNCHANGED <<phase, statPool>>
    /\ UNCHANGED <<tables, m_tid, exit_status, halted, calc, poolCounter, heap,
                   gui, stkeys, doneCounter, disp, history>>
-----------------------------------------------------------------------------
(* The dispatcher thread: Aria2EmbedManager::run.                          *)

\* The loop test finds the queue empty: run() is about to return, isRunning()
\* still answers true.
SeeEmpty ==
    /\ Alive
    /\ disp.pc = "test"
    /\ stkeys = <<>>
    /\ disp' = [disp EXCEPT !.pc = "leave"]
    /\ UNCHANGED <<tables, threads, collecting, heap, guiq, gui, stkeys,
                   doneCounter, fault, history>>

Leave ==
    /\ Alive
    /\ disp.pc = "leave"
    /\ disp' = Idle
    /\ UNCHANGED <<tables, threads, collecting, heap, guiq, gui, stkeys,
                   doneCounter, fault, history>>

\* dequeue(), then m_tasks[tid], which inserts a null entry for an unknown key.
Dequeue ==
    /\ Alive
    /\ disp.pc = "test"
    /\ stkeys # <<>>
    /\ stkeys' = Tail(stkeys)
    /\ LET key  == Head(stkeys)[1]
           sclt == Head(stkeys)[2]
       IN  \/ /\ sclt = NoStat
              /\ fault' = "nullStat"
              /\ UNCHANGED <<m_tasks, disp>>
           \/ /\ sclt # NoStat /\ sclt \notin heap
              /\ fault' = "useAfterFree"
              /\ UNCHANGED <<m_tasks, disp>>
           \/ /\ sclt \in heap
              /\ LET tid == m_tid[sclt[1]] IN
                   /\ m_tasks' = IF m_tasks[tid] = NoEntry
                                 THEN [m_tasks EXCEPT ![tid] = Null]
                                 ELSE m_tasks
                   /\ disp' = [pc |-> "emit", key |-> key, sclt |-> sclt,
                               eaw |-> m_tasks'[tid]]
              /\ UNCHANGED fault
    /\ UNCHANGED <<m_rtasks, threads, collecting, heap, guiq, gui,
                   doneCounter, history>>

\* Faulty: the collector is deleted here and once more by run().
DispatchAndFreeStat ==
    /\ Alive
    /\ disp.pc = "emit"
    /\ disp.key >= 0
    /\ guiq' = Append(guiq, TaskStat(disp.sclt[1]))
    /\ disp' = [disp EXCEPT !.pc = "free"]
    /\ heap' = heap \ {disp.sclt}
    /\ UNCHANGED <<tables, threads, collecting, gui, stkeys, doneCounter, fault, history>>

\* checkAndDispatchStat and checkAndDispatchServerStat.
DispatchStat ==
    /\ Alive
    /\ disp.pc = "emit"
    /\ disp.key >= 0
    /\ guiq' = Append(guiq, TaskStat(disp.sclt[1]))
    /\ disp' = [disp EXCEPT !.pc = "free"]
    /\ UNCHANGED <<tables, threads, collecting, heap, gui, stkeys, doneCounter,
                   fault, history>>

\* Faulty: a case of the switch falls through to the next one.
PostFinalTwice(q, w) ==
    q \o <<TaskFinal(w, FinalStatus(exit_status[w])), TaskFinal(w, "pause")>>

PostFinal(q, w) == Append(q, TaskFinal(w, FinalStatus(exit_status[w])))

\* confirmBackendFinished: the switch on the exit code and its signal.
ConfirmFinished ==
    /\ Alive
    /\ disp.pc = "emit"
    /\ disp.key < 0
    /\ \/ /\ disp.eaw = Null
          /\ fault' = "nullWorker"
          /\ UNCHANGED <<guiq, disp>>
       \/ /\ disp.eaw # Null
          /\ exit_status[disp.eaw] \in Reported
          /\ guiq' = PostFinal(guiq, disp.eaw)
          /\ disp' = [disp EXCEPT !.pc = "remove"]
          /\ UNCHANGED fault
       \/ /\ disp.eaw # Null
          /\ exit_status[disp.eaw] \notin Reported
          /\ disp' = [disp EXCEPT !.pc = "free"]
          /\ UNCHANGED <<guiq, fault>>
    /\ UNCHANGED <<tables, threads, collecting, heap, gui, stkeys,
                   doneCounter, history>>

\* m_tasks.remove(eaw->m_tid)
ConfirmRemove ==
    /\ Alive
    /\ disp.pc = "remove"
    /\ m_tasks' = [m_tasks EXCEPT ![m_tid[disp.eaw]] = NoEntry]
    /\ disp' = [disp EXCEPT !.pc = "release"]
    /\ UNCHANGED <<m_rtasks, threads, collecting, heap, guiq, gui, stkeys,
                   doneCounter, fault, history>>

\* Faulty: one of the two tables keeps the worker.
NotUnregister(w) == UNCHANGED m_rtasks

\* m_rtasks.remove(eaw)
Unregister(w) == m_rtasks' = m_rtasks \ {w}

\* Faulty: nobody deletes the worker.
NotPostDelete(q, w) == q

PostDelete(q, w) == Append(q, DeleteLater(w))

\* m_rtasks.remove(eaw); eaw->deleteLater()
ConfirmRelease ==
    /\ Alive
    /\ disp.pc = "release"
    /\ Unregister(disp.eaw)
    /\ guiq' = PostDelete(guiq, disp.eaw)
    /\ disp' = [disp EXCEPT !.pc = "free"]
    /\ UNCHANGED <<m_tasks, threads, collecting, heap, gui, stkeys,
                   doneCounter, fault, history>>

\* delete sclt
FreeStat ==
    /\ Alive
    /\ disp.pc = "free"
    /\ heap' = heap \ {disp.sclt}
    /\ fault' = IF disp.sclt \in heap THEN fault ELSE "doubleFree"
    /\ disp' = [Idle EXCEPT !.pc = "test"]
    /\ UNCHANGED <<tables, threads, collecting, guiq, gui, stkeys,
                   doneCounter, history>>
-----------------------------------------------------------------------------
WorkerThread(w) ==
    \/ Prepare(w) \/ BeginCalc(w) \/ EmitStat(w) \/ WriteToFreed(w)
    \/ Return(w) \/ Finished(w)

GuiThread ==
    \/ OnAllStatArrived \/ OnWorkerFinished \/ Wake
    \/ OnTaskStat \/ OnTaskFinal \/ OnDeleteLater

Dispatcher ==
    \/ SeeEmpty \/ Leave \/ Dequeue \/ DispatchStat
    \/ ConfirmFinished \/ ConfirmRemove \/ ConfirmRelease \/ FreeStat

Next ==
    \/ \E t \in Tids, w \in Workers : AddTask(t, w)
    \/ \E t \in Tids : PauseTask(t)
    \/ \E w \in Workers : WorkerThread(w)
    \/ GuiThread
    \/ Dispatcher

Spec == Init /\ [][Next]_vars

\* Every thread that can run does run.  The user owes nothing; a download need
\* not end by itself, but the engine's loop ends once it was halted.
Fairness ==
    /\ WF_vars(GuiThread)
    /\ WF_vars(Dispatcher)
    /\ \A w \in Workers :
         WF_vars(Prepare(w) \/ EmitStat(w) \/ WriteToFreed(w) \/ Finished(w)
                   \/ (halted[w] /\ Return(w)))

FairSpec == Spec /\ Fairness
-----------------------------------------------------------------------------
(* Properties.                                                             *)

\* Nothing keeps the user from starting a task that runs, so that two workers
\* share one entry of m_tasks.  What can be promised is that the damage stays
\* with that task: the workers of all the others are Apart.
Apart == {w \in Workers : m_tid[w] \notin startedOver}

\* Reports of progress made by w that have not reached the row of its task.
InFlight(w) ==
    \/ \E i \in DOMAIN guiq :
         guiq[i].type \in {"progressStat", "taskStat"} /\ guiq[i].w = w
    \/ \E i \in DOMAIN stkeys : stkeys[i][1] >= 0 /\ stkeys[i][2][1] = w
    \/ disp.pc = "emit" /\ disp.key >= 0 /\ disp.sclt[1] = w

\* The end of a download is reported after all its progress reports, which is
\* why onWorkerFinished queues it instead of emitting taskFinished itself
\* (the comment at aria2embedmanager.cpp:201): once the last report of a worker
\* has been delivered, none of its progress reports is under way.
FinalReportIsLast == \A w \in closed \cap Apart : ~InFlight(w)

\* A row that shows how a download ended keeps showing it until a later worker
\* runs for the same task: no late report of the old one overwrites it, and no
\* report of another task, even of one that was started over, reaches it.
FinalStatusSticks ==
    [][\A t \in Tids \ startedOver' :
         shown[t] \in Finals /\ shown'[t] # shown[t]
           => \E w \in Workers : m_tid'[w] = t /\ w \notin closed]_vars

\* confirmBackendFinished looks the worker up by task id only.  What it finds is
\* the worker the event is about, whose thread has ended, unless that very task
\* was started over: then it is another worker of the task, or none.
FinishFindsItsWorker ==
    disp.pc = "emit" /\ disp.key < 0 =>
      IF disp.sclt[1] \in Apart
      THEN disp.eaw = disp.sclt[1] /\ phase[disp.eaw] = "ended"
      ELSE disp.eaw = Null \/ m_tid[disp.eaw] = m_tid[disp.sclt[1]]

\* Each undefined behaviour has its only cause: a dead worker is met, or a live
\* one deleted, where a task was started over; a deleted collector is used where
\* one was reported twice; an engine is missing where a pause came too early.
\* No queue element is without collector, and no collector is deleted twice.
FaultsHaveCauses ==
    /\ fault \notin {"nullStat", "doubleFree"}
    /\ fault = "useAfterFree" => twice # {}
    /\ fault \in {"nullWorker", "nullSender", "liveThreadDeleted"}
         => startedOver # {}

\* The places that hold a pointer to collector s.
Holders(s) ==
    {<<"pool", p[1]>> : p \in {q \in UNION {statPool[w] : w \in Workers} :
                                 q[2] = s}}
      \cup {<<"queue", i>> : i \in {j \in DOMAIN stkeys : stkeys[j][2] = s}}
      \cup {<<"dispatcher", 0>> : x \in {y \in {disp.sclt} : y = s}}

\* The collectors somebody holds.
HeldStats ==
    {disp.sclt} \cup {stkeys[i][2] : i \in DOMAIN stkeys}
      \cup {p[2] : p \in UNION {statPool[w] : w \in Workers}}

\* A collector on its way from the worker to the dispatcher is in one place,
\* and it is not deleted before the dispatcher does so, if calculateStat made
\* one report of it; that others are reported twice does not harm it.
SingleOwner ==
    \A s \in HeldStats \ ({NoStat} \cup twice) :
      Cardinality(Holders(s)) = 1 /\ s \in heap

\* The same of all collectors: the ownership of the pointer is handed upwards,
\* and this class keeps it no longer (karia2statcalc.h:48).
OwnershipIsHandedOver ==
    \A s \in HeldStats \ {NoStat} : Cardinality(Holders(s)) = 1 /\ s \in heap

\* m_tasks and m_rtasks are inverse to each other, but for the moment between
\* the two remove() calls of confirmBackendFinished, and for tasks that were
\* started over.
TablesAgree ==
    /\ \A w \in m_rtasks \cap Apart :
         m_tasks[m_tid[w]] = w \/ (disp.pc = "release" /\ disp.eaw = w)
    /\ \A t \in Tids \ startedOver :
         m_tasks[t] # NoEntry => m_tasks[t] \in m_rtasks

\* The entry of a task is the worker that runs for it, so that pauseTask and
\* the end of the download find it, unless the task was started over.
RunningIsRegistered ==
    \A w \in Apart :
      phase[w] \in {"created", "running", "returned"} => m_tasks[m_tid[w]] = w

\* A worker is deleted with an empty pool: the destructor of Karia2StatCalc
\* frees nothing, so a collector left there would be lost.
PoolDrainedBeforeDelete ==
    [][\A w \in Apart :
         phase'[w] = "deleted" => statPool[w] = {}]_vars

\* The dispatcher sleeps although the queue holds an event.
Stranded == disp.pc = "idle" /\ gpc = "loop" /\ stkeys # <<>>

\* A download that ended with a reported code is reported and its worker is
\* released, unless its event is stranded for good or its task started over.
EndIsReported ==
    \A w \in Workers :
      phase[w] = "ended" /\ exit_status[w] \in Reported
        ~> (phase[w] = "deleted" \/ fault # "none" \/ w \notin Apart
              \/ []Stranded)

\* The same without the first escape: the class splits up and emits every status it
\* was given (aria2embedmanager.h:50).
EveryEndIsReported ==
    \A w \in Workers :
      phase[w] = "ended" /\ exit_status[w] \in Reported
        ~> (phase[w] = "deleted" \/ fault # "none" \/ w \notin Apart)

\* A stranded event is picked up as soon as anything else is enqueued.
NextArrivalRescues ==
    Stranded /\ guiq # <<>> /\ Head(guiq).type \in {"progressStat",
                                                   "workerFinished"}
      ~> (stkeys = <<>> \/ fault # "none")

\* Seen from the list of tasks, the backend is TaskReports.
life == [w \in Workers |-> IF m_tid[w] = NoTid THEN "off"
                           ELSE IF w \in closed THEN "closed" ELSE "open"]
Reports == INSTANCE TaskReports WITH owner <- m_tid, row <- shown,
                                     mixed <- startedOver

\* No report is lost, repeated or reordered in a way the list of tasks could
\* notice: rows change only on behalf of a download that is open, and each
\* download closes at most once (the signals of aria2manager.h:52-54).  Of a
\* task that was started over it only promises to keep to its own row.
ImplementsTaskReports == Reports!Spec
=============================================================================
