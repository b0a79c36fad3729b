------------------------- MODULE EmbedOwners_proofs -------------------------
(***************************************************************************)
(* Proofs about EmbedManager: the tables of the manager agree with each    *)
(* other but for tasks that were started over; a collector that was        *)
(* reported once is in one place and not deleted there; and whatever the   *)
(* program uses that it no longer has was lost in one of these two ways.   *)
(* They rest on EmbedManager_proofs, whose invariant says where the report *)
(* of the end of a worker is.                                              *)
(***************************************************************************)
EXTENDS EmbedManager_proofs, FiniteSetTheorems

-----------------------------------------------------------------------------
(* The tables *)

\* A worker is the entry of its task as long as a report of its progress is on
\* its way to the dispatcher, and no longer once the dispatcher took it out.
ReportingIsRegistered ==
    \A w \in Apart :
        Has(guiq, "progressStat", w) \/ HasStat(stkeys, w) => m_tasks[m_tid[w]] = w
RemovedIsOut ==
    disp.pc = "release" /\ disp.eaw \in Apart => m_tasks[m_tid[disp.eaw]] # disp.eaw
RegisteredIsNamed == \A w \in m_rtasks : m_tid[w] \in Tids

Tables == ReportingIsRegistered /\ RemovedIsOut /\ RegisteredIsNamed /\ TablesAgree

-----------------------------------------------------------------------------
(* The events *)

Posted(q, w, key) ==
    \E i \in DOMAIN q : q[i].type = "progressStat" /\ q[i].w = w /\ q[i].key = key

\* Each progress event has its own key, and each worker ends once.
Same(e, f) ==
    /\ e.type = f.type
    /\ \/ e.type = "progressStat" /\ e.key = f.key
       \/ e.type = "workerFinished" /\ e.w = f.w
EventsApart(q) == \A i, j \in DOMAIN q : Same(q[i], q[j]) => i = j

EndsPosted ==
    \A w \in Workers :
        Has(guiq, "workerFinished", w) => phase[w] \in {"ended", "deleted"}

\* A progress event finds its collector, unless the pool was deleted.
KeysFound ==
    \A w \in Workers : \A key \in Nat : Posted(guiq, w, key) =>
        /\ key < poolCounter
        /\ phase[w] # "deleted" => \E p \in statPool[w] : p[1] = key
DeletedIsEmpty == \A w \in Workers : phase[w] = "deleted" => statPool[w] = {}

\* Each collector in a pool waits for its event, alone under its key, and under
\* this key only if it was reported once.
PoolsAwaited ==
    \A w \in Workers : \A p \in statPool[w] :
        /\ Posted(guiq, w, p[1])
        /\ \A q \in statPool[w] :
             p[1] = q[1] \/ (p[2] = q[2] /\ p[2] \notin twice) => p = q

Keys == EventsApart(guiq) /\ EndsPosted /\ KeysFound /\ DeletedIsEmpty /\ PoolsAwaited

-----------------------------------------------------------------------------
(* The collectors *)

Pooled(s) == \E w \in Workers : \E p \in statPool[w] : p[2] = s
Queued(s) == \E i \in DOMAIN stkeys : stkeys[i][2] = s
Dispatched(s) == disp.sclt = s
Held(s) == Pooled(s) \/ Queued(s) \/ Dispatched(s)

\* s was handed on by the thread that allocated it.
HandedOn(s) ==
    IF s[2] = 0
    THEN phase[s[1]] \in {"ended", "deleted"} /\ ~Has(guiq, "workerFinished", s[1])
    ELSE /\ s[2] <= calc[s[1]].calls
         /\ calc[s[1]].left # 0 => s[2] # calc[s[1]].calls

\* Only collectors of calculateStat are reported twice; of the others there is
\* one report to come, and they are not deleted before.
TwiceIsBegun == \A s \in twice : s[2] # 0 /\ s[2] <= calc[s[1]].calls
OneEmission ==
    \A w \in Workers : calc[w].left # 0 =>
        /\ calc[w].calls # 0
        /\ <<w, calc[w].calls>> \notin twice =>
             calc[w].left = 1 /\ <<w, calc[w].calls>> \in heap

HeldIsAlive == \A s \in Collectors \ twice : Held(s) => s \in heap /\ HandedOn(s)
PlacesApart ==
    /\ \A s \in Collectors \ twice : /\ ~(Pooled(s) /\ Queued(s))
                                     /\ ~(Pooled(s) /\ Dispatched(s))
                                     /\ ~(Queued(s) /\ Dispatched(s))
    /\ \A i, j \in DOMAIN stkeys :
         stkeys[i][2] = stkeys[j][2] /\ stkeys[i][2] \notin twice => i = j

\* These two hold of all collectors: none is missing, and the dispatcher's own
\* is not deleted by another.
QueueIsReal == \A i \in DOMAIN stkeys : stkeys[i][2] \in Collectors
LocalIsAlive ==
    IF disp.pc \in {"idle", "test", "leave"} THEN disp.sclt = NoStat
                                             ELSE disp.sclt \in heap

Ownership ==
    /\ TwiceIsBegun /\ OneEmission
    /\ HeldIsAlive /\ PlacesApart /\ QueueIsReal /\ LocalIsAlive

OInv == IInv /\ Tables /\ Keys /\ Ownership /\ FaultsHaveCauses

-----------------------------------------------------------------------------
(* The tables are kept *)

LEMMA TablesInit == Init => Tables
  BY DEF Init, Tables, ReportingIsRegistered, RemovedIsOut, RegisteredIsNamed,
         TablesAgree, Has, HasStat, Idle

\* A worker that reports was created, so its task is a task.
LEMMA ReportingIsCreated ==
    ASSUME Named, NEW w \in Workers, Has(guiq, "progressStat", w) \/ HasStat(stkeys, w)
    PROVE  phase[w] # "unborn" /\ m_tid[w] \in Tids
  BY DEF Named, TypeOK, UnbornIsUnknown, EventTypes

\* Steps that change the entries of tasks that were started over, at most.
LEMMA TablesFrame ==
    ASSUME IInv, Tables, UNCHANGED <<m_rtasks, m_tid, startedOver>>,
           \A t \in Tids \ startedOver : m_tasks'[t] = m_tasks[t],
           \A w \in Workers :
             Has(guiq', "progressStat", w) \/ HasStat(stkeys', w) =>
               \/ Has(guiq, "progressStat", w) \/ HasStat(stkeys, w)
               \/ Pending(w),
           \A w \in Apart : disp'.pc = "release" /\ disp'.eaw = w
                              <=> disp.pc = "release" /\ disp.eaw = w
    PROVE  Tables'
  <1>1. Apart' = Apart /\ Apart \subseteq Workers
    BY ApartStays DEF Apart
  <1>2. ASSUME NEW w \in Apart, m_tid[w] \in Tids
        PROVE  m_tasks'[m_tid'[w]] = m_tasks[m_tid[w]]
    BY <1>2 DEF Apart
  <1>3. ReportingIsRegistered'
    <2> SUFFICES ASSUME NEW w \in Apart,
                        Has(guiq', "progressStat", w) \/ HasStat(stkeys', w)
                 PROVE  m_tasks'[m_tid'[w]] = w
      BY <1>1 DEF ReportingIsRegistered
    <2>1. w \in Workers
      BY <1>1
    <2>2. CASE Has(guiq, "progressStat", w) \/ HasStat(stkeys, w)
      <3>1. m_tid[w] \in Tids
        BY <2>1, <2>2, ReportingIsCreated DEF IInv
      <3> QED
        BY <1>2, <2>2, <3>1 DEF Tables, ReportingIsRegistered
    <2>3. CASE Pending(w)
      <3>1. m_tid[w] \in Tids
        BY <2>1, <2>3, PendingIsCreated DEF IInv
      <3> QED
        BY <1>2, <2>3, <3>1 DEF IInv, Passage, PendingIsRegistered
    <2> QED
      BY <2>1, <2>2, <2>3
  <1>4. RegisteredIsNamed'
    BY DEF Tables, RegisteredIsNamed
  <1>5. RemovedIsOut'
    <2> SUFFICES ASSUME disp'.pc = "release", disp'.eaw \in Apart
                 PROVE  m_tasks'[m_tid'[disp'.eaw]] # disp'.eaw
      BY <1>1 DEF RemovedIsOut
    <2> DEFINE w == disp'.eaw
    <2>1. disp.pc = "release" /\ disp.eaw = w
      OBVIOUS
    <2>2. m_tasks[m_tid[w]] # w
      BY <2>1 DEF Tables, RemovedIsOut
    <2>3. w \in Workers /\ phase[w] # "unborn"
      BY <1>1, <2>1 DEF IInv, Named, UnbornIsUnknown
    <2>4. m_tid[w] \in Tids
      BY <2>3 DEF IInv, Named, UnbornIsUnknown, TypeOK
    <2> QED
      BY <1>2, <2>2, <2>4
  <1>6. TablesAgree'
    <2>1. ASSUME NEW w \in m_rtasks', w \in Apart
          PROVE  m_tasks'[m_tid'[w]] = w \/ (disp'.pc = "release" /\ disp'.eaw = w)
      <3>1. m_tid[w] \in Tids
        BY <2>1 DEF Tables, RegisteredIsNamed
      <3> QED
        BY <1>2, <2>1, <3>1 DEF Tables, TablesAgree
    <2>2. \A t \in Tids \ startedOver : m_tasks'[t] # NoEntry => m_tasks'[t] \in m_rtasks'
      BY DEF Tables, TablesAgree
    <2> QED
      BY <1>1, <2>1, <2>2 DEF TablesAgree
  <1> QED
    BY <1>3, <1>4, <1>5, <1>6 DEF Tables

LEMMA TablesAddTask ==
    ASSUME IInv, Tables, NEW t \in Tids, NEW w \in Workers, AddTask(t, w)
    PROVE  Tables'
  <1>1. /\ UNCHANGED <<guiq, stkeys, disp>> /\ phase[w] = "unborn"
        /\ m_tid' = [m_tid EXCEPT ![w] = t]
        /\ m_tasks' = [m_tasks EXCEPT ![t] = w]
        /\ m_rtasks' = m_rtasks \cup {w}
        /\ startedOver \subseteq startedOver'
    BY DEF AddTask, Register
  <1>2. TypeOK /\ UnbornIsUnknown
    BY DEF IInv, Named
  <1>3. /\ \A v \in Workers : v # w => m_tid'[v] = m_tid[v]
        /\ m_tid'[w] = t /\ m_tasks'[t] = w
        /\ \A u \in Tids : u # t => m_tasks'[u] = m_tasks[u]
    BY <1>1, <1>2 DEF TypeOK
  <1>4. ~Has(guiq, "progressStat", w) /\ ~HasStat(stkeys, w) /\ disp.eaw # w
    BY <1>1, <1>2 DEF UnbornIsUnknown, EventTypes
  <1>5. /\ Apart' \subseteq Apart /\ Apart \subseteq Workers
        /\ \A v \in Apart' : v # w /\ m_tid[v] = t => m_tasks[t] = NoEntry
    BY ApartShrinks DEF IInv, Apart
  <1>6. ASSUME NEW v \in Apart', v # w, m_tid[v] \in Tids, m_tasks[m_tid[v]] = v
        PROVE  m_tasks'[m_tid'[v]] = v
    <2>1. m_tid[v] # t
      BY <1>5, <1>6, ConstantsAssumption
    <2> QED
      BY <1>3, <1>5, <1>6, <2>1
  <1>7. ReportingIsRegistered'
    <2> SUFFICES ASSUME NEW v \in Apart',
                        Has(guiq, "progressStat", v) \/ HasStat(stkeys, v)
                 PROVE  m_tasks'[m_tid'[v]] = v
      BY <1>1 DEF ReportingIsRegistered
    <2>1. v # w
      BY <1>4
    <2>2. m_tasks[m_tid[v]] = v /\ m_tid[v] \in Tids
      BY <1>5, ReportingIsCreated DEF Tables, ReportingIsRegistered, IInv
    <2> QED
      BY <1>6, <2>1, <2>2
  <1>8. RegisteredIsNamed'
    <2>1. m_rtasks \subseteq Workers
      BY <1>2 DEF TypeOK
    <2> QED
      BY <1>1, <1>3, <2>1 DEF Tables, RegisteredIsNamed
  <1>9. RemovedIsOut'
    <2> SUFFICES ASSUME disp.pc = "release", disp.eaw \in Apart'
                 PROVE  m_tasks'[m_tid'[disp.eaw]] # disp.eaw
      BY <1>1 DEF RemovedIsOut
    <2>1. disp.eaw \in Workers /\ disp.eaw # w
      BY <1>4, <1>5
    <2>2. m_tid'[disp.eaw] = m_tid[disp.eaw] /\ phase[disp.eaw] # "unborn"
      BY <1>2, <1>3, <2>1 DEF UnbornIsUnknown
    <2>3. m_tid[disp.eaw] \in Tids
      BY <1>2, <2>1, <2>2 DEF TypeOK, UnbornIsUnknown
    <2> QED
      BY <1>3, <1>5, <2>1, <2>2, <2>3 DEF Tables, RemovedIsOut
  <1>10. TablesAgree'
    <2>1. ASSUME NEW v \in m_rtasks', v \in Apart'
          PROVE  m_tasks'[m_tid'[v]] = v \/ (disp'.pc = "release" /\ disp'.eaw = v)
      <3>1. CASE v = w
        BY <1>3, <3>1
      <3>2. CASE v # w
        <4>1. v \in m_rtasks /\ v \in Apart /\ m_tid[v] \in Tids
          BY <1>1, <1>5, <2>1, <3>2 DEF Tables, RegisteredIsNamed
        <4>2. m_tasks[m_tid[v]] = v \/ (disp.pc = "release" /\ disp.eaw = v)
          BY <4>1 DEF Tables, TablesAgree
        <4> QED
          BY <1>1, <1>6, <2>1, <3>2, <4>1, <4>2
      <3> QED
        BY <3>1, <3>2
    <2>2. ASSUME NEW u \in Tids \ startedOver', m_tasks'[u] # NoEntry
          PROVE  m_tasks'[u] \in m_rtasks'
      <3>1. CASE u = t
        BY <1>1, <1>3, <3>1
      <3>2. CASE u # t
        BY <1>1, <1>3, <2>2, <3>2 DEF Tables, TablesAgree
      <3> QED
        BY <3>1, <3>2
    <2> QED
      BY <2>1, <2>2 DEF TablesAgree
  <1> QED
    BY <1>7, <1>8, <1>9, <1>10 DEF Tables

LEMMA TablesWorker ==
    ASSUME IInv, Tables, NEW w \in Workers, WorkerThread(w)
    PROVE  Tables'
  <1>1. UNCHANGED <<m_tasks, m_rtasks, m_tid, startedOver, stkeys, disp>>
    BY DEF WorkerThread, Prepare, BeginCalc, EmitStat, WriteToFreed, Return, Finished,
           tables, threads, history
  <1>2. ASSUME NEW v \in Workers, Has(guiq', "progressStat", v)
        PROVE  Has(guiq, "progressStat", v) \/ Pending(v)
    <2>1. CASE EmitStat(w)
      <3> DEFINE e == ProgressStat(w, poolCounter)
      <3>1. e \in Events /\ e.type = "progressStat" /\ e.w = w
        BY DEF IInv, Named, TypeOK, ProgressStat, Event, Events
      <3>2. guiq \in Seq(Events) /\ guiq' = Append(guiq, e) /\ phase[w] = "running"
        BY <2>1 DEF EmitStat, IInv, Named, TypeOK
      <3>3. Has(guiq, "progressStat", v) \/ v = w
        BY <1>2, <3>1, <3>2, HasAppend
      <3> QED
        BY <3>2, <3>3 DEF Pending
    <2>2. CASE Finished(w)
      <3> DEFINE e == WorkerDone(w)
      <3>1. e \in Events /\ e.type = "workerFinished"
        BY DEF WorkerDone, Event, Events
      <3>2. guiq \in Seq(Events) /\ guiq' = Append(guiq, e)
        BY <2>2 DEF Finished, PostDone, IInv, Named, TypeOK
      <3> QED
        BY <1>2, <3>1, <3>2, HasAppend
    <2>3. CASE UNCHANGED guiq
      BY <1>2, <2>3
    <2> QED
      BY <2>1, <2>2, <2>3 DEF WorkerThread, Prepare, BeginCalc, WriteToFreed, Return
  <1> QED
    BY <1>1, <1>2, TablesFrame

LEMMA TablesGui ==
    ASSUME IInv, Tables, GuiThread
    PROVE  Tables'
  <1>1. UNCHANGED <<m_tasks, m_rtasks, m_tid, startedOver>>
    BY DEF GuiThread, OnAllStatArrived, OnWorkerFinished, Wake, OnTaskStat,
           OnTaskFinal, OnDeleteLater, tables, threads, history
  <1>2. disp' = disp \/ disp' = Start
    BY DEF GuiThread, OnAllStatArrived, OnWorkerFinished, Wake, OnTaskStat,
           OnTaskFinal, OnDeleteLater
  <1>3. /\ disp'.pc = "release" <=> disp.pc = "release"
        /\ disp.pc = "release" => disp'.eaw = disp.eaw
    BY <1>2 DEF Start, IInv, Named, TypeOK
  <1>4. \A w \in Workers : Has(guiq', "progressStat", w) => Has(guiq, "progressStat", w)
    BY TakenEvent DEF GuiThread, OnAllStatArrived, OnWorkerFinished, Wake, OnTaskStat,
           OnTaskFinal, OnDeleteLater, IInv, Named
  <1>5. ASSUME NEW w \in Workers, HasStat(stkeys', w)
        PROVE  Has(guiq, "progressStat", w) \/ HasStat(stkeys, w)
    <2>1. CASE OnAllStatArrived
      <3>1. Has(guiq, "progressStat", Head(guiq).w)
        BY <2>1, TakenEvent DEF OnAllStatArrived, IInv, Named
      <3>2. CASE UNCHANGED stkeys
        BY <1>5, <3>2
      <3>3. ASSUME NEW e \in Elems, stkeys' = Append(stkeys, e),
                   e[2] = NoStat \/ (e[2] \in Collectors /\ e[2][1] = Head(guiq).w)
            PROVE  Has(guiq, "progressStat", w) \/ HasStat(stkeys, w)
        <4>1. stkeys \in Seq(Elems)
          BY DEF IInv, Named, TypeOK, Elems
        <4>2. HasStat(stkeys, w) \/ e[2][1] = w
          BY <1>5, <3>3, <4>1, StatAppend
        <4>3. e[2] = NoStat => e[2][1] # w
          BY ConstantsAssumption DEF NoStat
        <4> QED
          BY <3>1, <3>3, <4>2, <4>3
      <3> QED
        BY <2>1, <3>2, <3>3, ArrivedStat DEF IInv
    <2>2. CASE OnWorkerFinished
      <3> DEFINE e == <<doneCounter, <<Head(guiq).w, 0>>>>
      <3>1. e \in Elems /\ e[1] < 0
        <4>1. Head(guiq).w \in Workers
          BY <2>2, TakenEvent DEF OnWorkerFinished, IInv, Named
        <4> QED
          BY <4>1 DEF IInv, Named, TypeOK, Elems, Collectors
      <3>2. stkeys \in Seq(Elems) /\ (UNCHANGED stkeys \/ stkeys' = Append(stkeys, e))
        BY <2>2 DEF OnWorkerFinished, IInv, Named, TypeOK, Elems
      <3>3. e[1] \in Int /\ ~(e[1] >= 0)
        BY <3>1 DEF Elems
      <3> HIDE DEF e
      <3> QED
        BY <1>5, <3>1, <3>2, <3>3, StatAppend
    <2>3. CASE UNCHANGED stkeys
      BY <1>5, <2>3
    <2> QED
      BY <2>1, <2>2, <2>3 DEF GuiThread, Wake, OnTaskStat, OnTaskFinal, OnDeleteLater
  <1> QED
    BY <1>1, <1>3, <1>4, <1>5, TablesFrame

\* A dequeued collector changes no entry but that of a task started over.
LEMMA TablesDequeue ==
    ASSUME IInv, Tables, Dequeue
    PROVE  Tables'
  <1> DEFINE w == Head(stkeys)[2][1]
  <1>1. UNCHANGED <<m_rtasks, m_tid, startedOver, guiq>> /\ disp.pc = "test"
    BY DEF Dequeue, threads, history
  <1>2. \A v : HasStat(stkeys', v) => HasStat(stkeys, v)
    BY TakenElem DEF IInv
  <1>3. disp'.pc # "release"
    BY <1>1 DEF Dequeue
  <1>4. ASSUME NEW t \in Tids \ startedOver
        PROVE  m_tasks'[t] = m_tasks[t]
    <2>1. CASE UNCHANGED m_tasks
      BY <2>1
    <2>2. CASE m_tasks[m_tid[w]] = NoEntry
      <3>1. Head(stkeys)[2] \in Collectors => w \in Workers
        BY DEF Collectors
      <3>2. heap \subseteq Collectors
        BY DEF IInv, Named, TypeOK
      <3>3. CASE w \in Apart
        <4>1. HasStat(stkeys, w) \/ HasEnd(stkeys, w)
          BY TakenElem DEF IInv
        <4>2. m_tasks[m_tid[w]] = w
          BY <3>3, <4>1
          DEF Tables, ReportingIsRegistered, IInv, Passage, PendingIsRegistered, Pending
        <4> QED
          BY <2>2, <3>3, <4>2, ConstantsAssumption DEF Apart
      <3>4. CASE w \in Workers \ Apart
        <4>1. m_tid[w] \in startedOver
          BY <3>4 DEF Apart
        <4> QED
          BY <4>1 DEF Dequeue, IInv, Named, TypeOK
      <3>5. CASE w \notin Workers
        BY <3>1, <3>2, <3>5 DEF Dequeue
      <3> QED
        BY <3>3, <3>4, <3>5
    <2> QED
      BY <2>1, <2>2 DEF Dequeue
  <1> QED
    BY <1>1, <1>2, <1>3, <1>4, TablesFrame

\* The signals the dispatcher emits.
LEMMA EmittedEvent ==
    ASSUME Named, DispatchStat \/ ConfirmFinished \/ ConfirmRelease
    PROVE  /\ guiq \in Seq(Events)
           /\ \/ UNCHANGED guiq
              \/ \E e \in Events : /\ e.type \notin {"progressStat", "workerFinished"}
                                   /\ guiq' = Append(guiq, e)
  <1>1. guiq \in Seq(Events)
    BY DEF Named, TypeOK
  <1>2. CASE DispatchStat
    <2> DEFINE e == TaskStat(disp.sclt[1])
    <2>1. e \in Events /\ e.type = "taskStat"
      BY <1>2 DEF DispatchStat, Named, TypeOK, LocalsNamed, Collectors, TaskStat, Event, Events
    <2> QED
      BY <1>1, <1>2, <2>1 DEF DispatchStat
  <1>3. CASE ConfirmFinished
    <2> DEFINE status == FinalStatus(exit_status[disp.eaw])
               e == TaskFinal(disp.eaw, status)
    <2>1. CASE UNCHANGED guiq
      BY <1>1, <2>1
    <2>2. CASE disp.eaw # Null /\ guiq' = Append(guiq, e)
      <3>1. disp.eaw \in Workers
        BY <1>3, <2>2 DEF ConfirmFinished, Named, TypeOK, LocalsNamed
      <3>2. status \in Finals
        BY DEF FinalStatus, Finals
      <3>3. e \in Events /\ e.type = "taskFinal"
        <4> HIDE DEF status
        <4> QED
          BY <3>1, <3>2 DEF TaskFinal, Event, Events
      <3> HIDE DEF e
      <3> QED
        BY <1>1, <2>2, <3>3
    <2> QED
      BY <1>3, <2>1, <2>2 DEF ConfirmFinished, PostFinal
  <1>4. CASE ConfirmRelease
    <2> DEFINE e == DeleteLater(disp.eaw)
    <2>1. e \in Events /\ e.type = "deleteLater"
      BY <1>4 DEF ConfirmRelease, Named, TypeOK, LocalsNamed, DeleteLater, Event, Events
    <2> QED
      BY <1>1, <1>4, <2>1 DEF ConfirmRelease, PostDelete
  <1> QED
    BY <1>2, <1>3, <1>4

LEMMA EmittedNew ==
    ASSUME Named, DispatchStat \/ ConfirmFinished \/ ConfirmRelease
    PROVE  \A w : \A type \in {"progressStat", "workerFinished"} :
               Has(guiq', type, w) => Has(guiq, type, w)
  <1>1. CASE UNCHANGED guiq
    BY <1>1
  <1>2. ASSUME NEW e \in Events, e.type \notin {"progressStat", "workerFinished"},
               guiq' = Append(guiq, e)
        PROVE  \A w : \A type \in {"progressStat", "workerFinished"} :
                   Has(guiq', type, w) => Has(guiq, type, w)
    BY <1>2, EmittedEvent, HasAppend
  <1> QED
    BY <1>1, <1>2, EmittedEvent

LEMMA TablesRemove ==
    ASSUME IInv, Tables, ConfirmRemove
    PROVE  Tables'
  <1> DEFINE w == disp.eaw
             t == m_tid[w]
  <1>1. /\ UNCHANGED <<m_rtasks, m_tid, startedOver, guiq, stkeys>>
        /\ m_tasks' = [m_tasks EXCEPT ![t] = NoEntry]
        /\ disp.pc = "remove" /\ disp' = [disp EXCEPT !.pc = "release"]
    BY DEF ConfirmRemove, threads, history
  <1>2. TypeOK /\ disp'.pc = "release" /\ disp'.eaw = w
    BY <1>1 DEF IInv, Named, TypeOK
  <1>3. disp.key < 0 /\ w \in Workers
    BY <1>1, <1>2 DEF IInv, Named, LocalsNamed, Passage, EndsMatched, TypeOK
  <1>4. Apart' = Apart /\ Apart \subseteq Workers
    BY <1>1, ApartStays DEF Apart
  <1>5. CASE w \notin Apart
    <2>1. t \in startedOver
      BY <1>3, <1>5 DEF Apart
    <2>2. \A u \in Tids \ startedOver : m_tasks'[u] = m_tasks[u]
      BY <1>1, <1>2, <2>1 DEF TypeOK
    <2> QED
      BY <1>1, <1>2, <1>5, <2>2, TablesFrame
  <1>6. CASE w \in Apart
    <2>1. disp.sclt[1] = w
      BY <1>1, <1>2, <1>3, <1>6, FoundWorker, ConstantsAssumption
    <2>2. ~Has(guiq, "progressStat", w) /\ ~HasStat(stkeys, w)
      BY <1>1, <1>3, <1>6, <2>1, HandledWorker
    <2>3. Pending(w)
      BY <1>1, <1>3, <2>1 DEF Pending, Ending
    <2>4. m_tasks[t] = w /\ t \in Tids
      BY <1>3, <1>6, <2>3, PendingIsCreated DEF IInv, Passage, PendingIsRegistered
    <2>5. /\ m_tasks'[t] = NoEntry
          /\ \A u \in Tids : u # t => m_tasks'[u] = m_tasks[u]
      BY <1>1, <1>2, <2>4 DEF TypeOK
    <2>6. ReportingIsRegistered'
      <3> SUFFICES ASSUME NEW v \in Apart,
                          Has(guiq, "progressStat", v) \/ HasStat(stkeys, v)
                   PROVE  m_tasks'[m_tid[v]] = v
        BY <1>1, <1>4 DEF ReportingIsRegistered
      <3>1. m_tasks[m_tid[v]] = v /\ m_tid[v] \in Tids
        BY <1>4, ReportingIsCreated DEF Tables, ReportingIsRegistered, IInv
      <3>2. m_tid[v] # t
        BY <2>2, <2>4, <3>1
      <3> QED
        BY <2>5, <3>1, <3>2
    <2>7. RegisteredIsNamed'
      BY <1>1 DEF Tables, RegisteredIsNamed
    <2>8. RemovedIsOut'
      BY <1>1, <1>2, <1>3, <2>5, ConstantsAssumption DEF RemovedIsOut
    <2>9. TablesAgree'
      <3>1. ASSUME NEW v \in m_rtasks, v \in Apart
            PROVE  m_tasks'[m_tid[v]] = v \/ v = w
        <4>1. m_tasks[m_tid[v]] = v /\ m_tid[v] \in Tids
          BY <1>1, <1>2, <3>1 DEF Tables, TablesAgree, RegisteredIsNamed
        <4> QED
          BY <2>4, <2>5, <4>1
      <3>2. ASSUME NEW u \in Tids \ startedOver, m_tasks'[u] # NoEntry
            PROVE  m_tasks'[u] \in m_rtasks
        BY <2>5, <3>2 DEF Tables, TablesAgree
      <3> QED
        BY <1>1, <1>2, <1>4, <3>1, <3>2 DEF TablesAgree
    <2> QED
      BY <2>6, <2>7, <2>8, <2>9 DEF Tables
  <1> QED
    BY <1>5, <1>6

LEMMA TablesRelease ==
    ASSUME IInv, Tables, ConfirmRelease
    PROVE  Tables'
  <1> DEFINE w == disp.eaw
  <1>1. /\ UNCHANGED <<m_tasks, m_tid, startedOver, stkeys>>
        /\ m_rtasks' = m_rtasks \ {w}
        /\ disp.pc = "release" /\ disp' = [disp EXCEPT !.pc = "free"]
    BY DEF ConfirmRelease, Unregister, threads, history
  <1>2. disp'.pc = "free" /\ w \in Workers
    BY <1>1 DEF IInv, Named, TypeOK, LocalsNamed
  <1>3. Apart' = Apart /\ Apart \subseteq Workers
    BY <1>1, ApartStays DEF Apart
  <1>4. RemovedIsOut' /\ RegisteredIsNamed'
    BY <1>1, <1>2 DEF Tables, RemovedIsOut, RegisteredIsNamed
  <1>5. ReportingIsRegistered'
    BY <1>1, <1>3, EmittedNew DEF Tables, ReportingIsRegistered, IInv
  <1>6. TablesAgree'
    <2>1. ASSUME NEW v \in m_rtasks', v \in Apart PROVE m_tasks[m_tid[v]] = v
      BY <1>1, <2>1 DEF Tables, TablesAgree
    <2>2. ASSUME NEW u \in Tids \ startedOver, m_tasks[u] # NoEntry
          PROVE  m_tasks[u] \in m_rtasks'
      <3>1. m_tasks[u] = w => m_tid[w] = u /\ w \in Apart
        BY <1>2 DEF IInv, Matched, Apart
      <3>2. m_tasks[u] # w
        BY <1>1, <3>1 DEF Tables, RemovedIsOut
      <3> QED
        BY <1>1, <2>2, <3>2 DEF Tables, TablesAgree
    <2> QED
      BY <1>1, <1>3, <2>1, <2>2 DEF TablesAgree
  <1> QED
    BY <1>4, <1>5, <1>6 DEF Tables

LEMMA TablesDispatcher ==
    ASSUME IInv, Tables, Dispatcher
    PROVE  Tables'
  <1>1. CASE SeeEmpty \/ Leave \/ DispatchStat \/ FreeStat \/ ConfirmFinished
    <2>1. UNCHANGED <<m_tasks, m_rtasks, m_tid, startedOver, stkeys>>
      BY <1>1 DEF SeeEmpty, Leave, DispatchStat, FreeStat, ConfirmFinished, tables, threads,
                  history
    <2>2. disp'.pc # "release" /\ disp.pc # "release"
      BY <1>1 DEF SeeEmpty, Leave, DispatchStat, FreeStat, ConfirmFinished, Idle,
                  IInv, Named, TypeOK
    <2>3. \A w : Has(guiq', "progressStat", w) => Has(guiq, "progressStat", w)
      BY <1>1, EmittedNew DEF SeeEmpty, Leave, FreeStat, IInv
    <2> QED
      BY <2>1, <2>2, <2>3, TablesFrame
  <1> QED
    BY <1>1, TablesDequeue, TablesRemove, TablesRelease DEF Dispatcher

LEMMA TablesNext == IInv /\ Tables /\ [Next]_vars => Tables'
  <1> SUFFICES ASSUME IInv, Tables, [Next]_vars PROVE Tables'
    OBVIOUS
  <1>1. CASE UNCHANGED vars \/ \E t \in Tids : PauseTask(t)
    <2>1. UNCHANGED <<m_tasks, m_rtasks, m_tid, startedOver, guiq, stkeys, disp>>
      BY <1>1 DEF vars, PauseTask, tables, threads, history
    <2> QED
      BY <2>1, TablesFrame
  <1> QED
    BY <1>1, TablesAddTask, TablesWorker, TablesGui, TablesDispatcher DEF Next

LEMMA TablesAlways == Spec => [](IInv /\ Tables)
  <1>1. Init => IInv /\ Tables
    BY NamedInit, PassageInit, TablesInit DEF IInv
  <1>2. IInv /\ Tables /\ [Next]_vars => (IInv /\ Tables)'
    BY IInvNext, TablesNext
  <1> QED
    BY <1>1, <1>2, PTL DEF Spec

\* TablesAgree: but for tasks that were started over, m_tasks and m_rtasks are
\* inverse to each other whenever no worker is between the two removals, for any
\* tasks and workers, although the GUI thread fills them and the dispatcher
\* empties them, and whatever it does for the tasks that were started over.
THEOREM TablesAreInverse == Spec => []TablesAgree
  <1>1. IInv /\ Tables => TablesAgree
    BY DEF Tables
  <1> QED
    BY <1>1, TablesAlways, PTL

-----------------------------------------------------------------------------
(* The events and their keys are kept *)

LEMMA PostedTail ==
    ASSUME NEW S, NEW q \in Seq(S), q # <<>>, NEW w, NEW key
    PROVE  Posted(q, w, key) <=>
             \/ Posted(Tail(q), w, key)
             \/ Head(q).type = "progressStat" /\ Head(q).w = w /\ Head(q).key = key
  <1>1. ASSUME NEW i \in DOMAIN q
        PROVE  q[i] = Head(q) \/ \E j \in DOMAIN Tail(q) : Tail(q)[j] = q[i]
    BY TailIndices
  <1>2. ASSUME NEW j \in DOMAIN Tail(q)
        PROVE  \E i \in DOMAIN q : q[i] = Tail(q)[j]
    BY TailIndices
  <1>3. \E i \in DOMAIN q : q[i] = Head(q)
    BY TailIndices
  <1>4. ASSUME Posted(q, w, key)
        PROVE  \/ Posted(Tail(q), w, key)
               \/ Head(q).type = "progressStat" /\ Head(q).w = w /\ Head(q).key = key
    BY <1>1, <1>4 DEF Posted
  <1>5. ASSUME Posted(Tail(q), w, key)
        PROVE  Posted(q, w, key)
    BY <1>2, <1>5 DEF Posted
  <1>6. ASSUME Head(q).type = "progressStat", Head(q).w = w, Head(q).key = key
        PROVE  Posted(q, w, key)
    BY <1>3, <1>6 DEF Posted
  <1> QED
    BY <1>4, <1>5, <1>6

LEMMA PostedAppend ==
    ASSUME NEW S, NEW q \in Seq(S), NEW e \in S, NEW w, NEW key
    PROVE  Posted(Append(q, e), w, key) <=>
             \/ Posted(q, w, key)
             \/ e.type = "progressStat" /\ e.w = w /\ e.key = key
  BY AppendIndices DEF Posted

LEMMA ApartTail ==
    ASSUME NEW S, NEW q \in Seq(S), q # <<>>, EventsApart(q)
    PROVE  /\ EventsApart(Tail(q))
           /\ \A i \in DOMAIN Tail(q) : ~Same(Tail(q)[i], Head(q))
  <1>1. \A i \in DOMAIN Tail(q) :
            /\ i + 1 \in DOMAIN q /\ Tail(q)[i] = q[i + 1] /\ i \in Nat /\ i + 1 # 1
    BY TailIndices
  <1>2. Head(q) = q[1] /\ 1 \in DOMAIN q
    BY TailIndices
  <1>3. EventsApart(Tail(q))
    <2> SUFFICES ASSUME NEW i \in DOMAIN Tail(q), NEW j \in DOMAIN Tail(q),
                        Same(Tail(q)[i], Tail(q)[j])
                 PROVE  i = j
      BY DEF EventsApart
    <2>1. i + 1 = j + 1
      BY <1>1 DEF EventsApart
    <2> QED
      BY <1>1, <2>1
  <1> QED
    BY <1>1, <1>2, <1>3 DEF EventsApart

LEMMA ApartAppend ==
    ASSUME NEW S, NEW q \in Seq(S), NEW e \in S, EventsApart(q),
           \A i \in DOMAIN q : ~Same(q[i], e)
    PROVE  EventsApart(Append(q, e))
  BY AppendIndices DEF EventsApart, Same

\* Steps that change no pool, post or take no progress event and end no worker.
LEMMA KeysFrame ==
    ASSUME Keys, UNCHANGED <<statPool, poolCounter>>,
           EventsApart(guiq'), EndsPosted', twice \subseteq twice',
           \A w, key : Posted(guiq', w, key) <=> Posted(guiq, w, key),
           \A w \in Workers : phase'[w] = "deleted" <=> phase[w] = "deleted"
    PROVE  Keys'
  <1>1. KeysFound' /\ DeletedIsEmpty'
    BY DEF Keys, KeysFound, DeletedIsEmpty
  <1>2. PoolsAwaited'
    BY DEF Keys, PoolsAwaited
  <1> QED
    BY <1>1, <1>2 DEF Keys

\* Taking an event.
LEMMA PostedTaken ==
    ASSUME IInv, Keys, NEW type, NextEvent(type)
    PROVE  /\ EventsApart(guiq')
           /\ \A w, key : Posted(guiq, w, key) <=>
                \/ Posted(guiq', w, key)
                \/ type = "progressStat" /\ Head(guiq).w = w /\ Head(guiq).key = key
           /\ type = "progressStat" => \A w : ~Posted(guiq', w, Head(guiq).key)
           /\ type = "workerFinished" => ~Has(guiq', "workerFinished", Head(guiq).w)
  <1>1. /\ guiq \in Seq(Events) /\ guiq # <<>> /\ guiq' = Tail(guiq)
        /\ Head(guiq).type = type
    BY TakenEvent DEF IInv, Named
  <1>2. EventsApart(guiq') /\ \A i \in DOMAIN guiq' : ~Same(guiq'[i], Head(guiq))
    BY <1>1, ApartTail DEF Keys
  <1>3. \A w, key : Posted(guiq, w, key) <=>
           \/ Posted(guiq', w, key)
           \/ Head(guiq).type = "progressStat" /\ Head(guiq).w = w /\ Head(guiq).key = key
    BY <1>1, PostedTail
  <1>4. type = "progressStat" => \A w : ~Posted(guiq', w, Head(guiq).key)
    BY <1>1, <1>2 DEF Same, Posted
  <1>5. type = "workerFinished" => ~Has(guiq', "workerFinished", Head(guiq).w)
    BY <1>1, <1>2 DEF Same, Has
  <1> QED
    BY <1>1, <1>2, <1>3, <1>4, <1>5

\* Posting an event that is not about progress.
LEMMA KeysPost ==
    ASSUME Named, Keys, NEW e \in Events, e.type # "progressStat",
           guiq' = Append(guiq, e), UNCHANGED <<statPool, poolCounter, twice>>,
           e.type = "workerFinished" => ~Has(guiq, "workerFinished", e.w),
           EndsPosted',
           \A w \in Workers : phase'[w] = "deleted" <=> phase[w] = "deleted"
    PROVE  Keys'
  <1>1. guiq \in Seq(Events)
    BY DEF Named, TypeOK
  <1>2. \A i \in DOMAIN guiq : ~Same(guiq[i], e)
    BY DEF Same, Has
  <1>3. EventsApart(guiq')
    BY <1>1, <1>2, ApartAppend DEF Keys
  <1>4. \A w, key : Posted(guiq', w, key) <=> Posted(guiq, w, key)
    BY <1>1, PostedAppend
  <1> QED
    BY <1>3, <1>4, KeysFrame

LEMMA KeysEmitStat ==
    ASSUME IInv, Keys, Ownership, NEW w \in Workers, EmitStat(w)
    PROVE  Keys'
  <1> DEFINE e == ProgressStat(w, poolCounter)
             s == <<w, calc[w].calls>>
             p == <<poolCounter, s>>
  <1>1. e \in Events /\ e.type = "progressStat" /\ e.w = w /\ e.key = poolCounter
    BY DEF IInv, Named, TypeOK, ProgressStat, Event, Events
  <1>2. guiq \in Seq(Events) /\ guiq' = Append(guiq, e)
    BY DEF EmitStat, IInv, Named, TypeOK
  <1>3. poolCounter \in Nat /\ poolCounter' = poolCounter + 1
    BY DEF EmitStat, IInv, Named, TypeOK
  <1>4. /\ statPool'[w] = statPool[w] \cup {p}
        /\ \A v \in Workers : v # w => statPool'[v] = statPool[v]
    BY DEF EmitStat, IInv, Named, TypeOK
  <1>5. /\ UNCHANGED <<phase, twice>> /\ phase[w] = "running"
        /\ calc[w].left # 0 /\ calc[w].calls \in Nat
    BY DEF EmitStat, threads, history, IInv, Named, TypeOK
  <1>6. \A v \in Workers : \A key \in Nat : Posted(guiq, v, key) => key < poolCounter
    BY DEF Keys, KeysFound
  <1>7. /\ \A v, key : Posted(guiq', v, key) <=>
                         Posted(guiq, v, key) \/ (v = w /\ key = poolCounter)
        /\ \A v : Has(guiq', "workerFinished", v) => Has(guiq, "workerFinished", v)
    <2> HIDE DEF e
    <2> QED
      BY <1>1, <1>2, PostedAppend, HasAppend
  <1>8. EventsApart(guiq')
    <2>1. ASSUME NEW i \in DOMAIN guiq, Same(guiq[i], e)
          PROVE  FALSE
      <3>1. guiq[i] \in Events
        BY <1>2
      <3>2. guiq[i].w \in Workers /\ guiq[i].key \in Nat
        BY <3>1 DEF Events
      <3>3. guiq[i].type = "progressStat" /\ guiq[i].key = poolCounter
        <4> HIDE DEF e
        <4> QED
          BY <1>1, <2>1 DEF Same
      <3>4. Posted(guiq, guiq[i].w, guiq[i].key)
        BY <3>3 DEF Posted
      <3> QED
        BY <1>3, <1>6, <3>2, <3>3, <3>4
    <2> HIDE DEF e
    <2> QED
      BY <1>1, <1>2, <2>1, ApartAppend DEF Keys
  <1>9. EndsPosted' /\ DeletedIsEmpty'
    <2>1. EndsPosted'
      BY <1>5, <1>7 DEF Keys, EndsPosted
    <2>2. DeletedIsEmpty'
      BY <1>4, <1>5 DEF Keys, DeletedIsEmpty
    <2> QED
      BY <2>1, <2>2
  <1>10. KeysFound'
    <2> SUFFICES ASSUME NEW v \in Workers, NEW key \in Nat, Posted(guiq', v, key)
                 PROVE  /\ key < poolCounter'
                        /\ phase[v] # "deleted" => \E q \in statPool'[v] : q[1] = key
      BY <1>5 DEF KeysFound
    <2>1. CASE v = w /\ key = poolCounter
      <3>1. p \in statPool'[v] /\ p[1] = key
        BY <1>4, <2>1
      <3> HIDE DEF p
      <3> QED
        BY <1>3, <2>1, <3>1
    <2>2. CASE Posted(guiq, v, key)
      <3>1. /\ key < poolCounter
            /\ phase[v] # "deleted" => \E q \in statPool[v] : q[1] = key
        BY <2>2 DEF Keys, KeysFound
      <3> QED
        BY <1>3, <1>4, <3>1
    <2> QED
      BY <1>7, <2>1, <2>2
  <1>11. PoolsAwaited'
    <2>1. \A q \in statPool[w] : q[1] # poolCounter /\ (q[2] = s => s \in twice)
      <3> SUFFICES ASSUME NEW q \in statPool[w]
                   PROVE  q[1] # poolCounter /\ (q[2] = s => s \in twice)
        OBVIOUS
      <3>1. q[1] \in Nat /\ q[2] \in Collectors
        BY DEF IInv, Named, TypeOK
      <3>2. Posted(guiq, w, q[1])
        BY DEF Keys, PoolsAwaited
      <3>3. q[1] # poolCounter
        BY <1>3, <1>6, <3>1, <3>2
      <3>4. Held(q[2])
        BY DEF Held, Pooled
      <3>5. calc[w].calls # 0
        BY <1>5 DEF Ownership, OneEmission
      <3>6. ASSUME q[2] = s, s \notin twice
            PROVE  FALSE
        <4>1. HandedOn(s) /\ s[1] = w /\ s[2] = calc[w].calls
          BY <3>1, <3>4, <3>6 DEF Ownership, HeldIsAlive
        <4> HIDE DEF s
        <4> QED
          BY <1>5, <3>5, <4>1 DEF HandedOn
      <3> QED
        BY <3>3, <3>6
    <2> SUFFICES ASSUME NEW v \in Workers, NEW q \in statPool'[v]
                 PROVE  /\ Posted(guiq', v, q[1])
                        /\ \A r \in statPool'[v] :
                             q[1] = r[1] \/ (q[2] = r[2] /\ q[2] \notin twice) => q = r
      BY <1>5 DEF PoolsAwaited
    <2>2. CASE v # w
      <3>1. statPool'[v] = statPool[v]
        BY <1>4, <2>2
      <3> QED
        BY <1>7, <3>1 DEF Keys, PoolsAwaited
    <2>3. CASE v = w
      <3>1. q = p \/ q \in statPool[w]
        BY <1>4, <2>3
      <3>2. Posted(guiq', w, q[1])
        BY <1>7, <3>1 DEF Keys, PoolsAwaited
      <3>3. ASSUME NEW r \in statPool'[w],
                   q[1] = r[1] \/ (q[2] = r[2] /\ q[2] \notin twice)
            PROVE  q = r
        <4>1. r = p \/ r \in statPool[w]
          BY <1>4
        <4>2. p[1] = poolCounter /\ p[2] = s
          OBVIOUS
        <4> HIDE DEF p, s
        <4> QED
          BY <2>1, <3>1, <3>3, <4>1, <4>2 DEF Keys, PoolsAwaited
      <3> QED
        BY <2>3, <3>2, <3>3
    <2> QED
      BY <2>2, <2>3
  <1> QED
    BY <1>8, <1>9, <1>10, <1>11 DEF Keys

\* What onAllStatArrived finds in the pool of a worker that was not deleted: one
\* collector, which it moves to the end of stkeys.
LEMMA ArrivedOne ==
    ASSUME IInv, Keys, OnAllStatArrived, phase[Head(guiq).w] # "deleted"
    PROVE  LET w == Head(guiq).w IN
           /\ w \in Workers /\ UNCHANGED fault
           /\ \E p \in statPool[w] :
                /\ p[1] = Head(guiq).key
                /\ stkeys' = Append(stkeys, p)
                /\ statPool' = [statPool EXCEPT ![w] = @ \ {p}]
  <1> DEFINE w == Head(guiq).w
             key == Head(guiq).key
             taken == {p \in statPool[w] : p[1] = key}
  <1>1. w \in Workers /\ key \in Nat
    BY TakenEvent DEF OnAllStatArrived, IInv, Named
  <1>2. Posted(guiq, w, key)
    BY PostedTaken DEF OnAllStatArrived
  <1>3. PICK p \in statPool[w] : p[1] = key
    BY <1>1, <1>2 DEF Keys, KeysFound
  <1>4. taken = {p}
    BY <1>1, <1>3 DEF Keys, PoolsAwaited
  <1>5. /\ statPool' = [statPool EXCEPT ![w] = @ \ taken]
        /\ \/ \E q \in taken : stkeys' = Append(stkeys, q)
           \/ taken = {}
        /\ UNCHANGED fault
    BY DEF OnAllStatArrived, TakeFromPool
  <1> QED
    BY <1>1, <1>3, <1>4, <1>5

LEMMA KeysArrived ==
    ASSUME IInv, Keys, OnAllStatArrived
    PROVE  Keys'
  <1> DEFINE w == Head(guiq).w
             key == Head(guiq).key
  <1>1. /\ UNCHANGED <<poolCounter, phase, twice>> /\ w \in Workers /\ key \in Nat
        /\ \A v : Has(guiq', "workerFinished", v) => Has(guiq, "workerFinished", v)
    BY TakenEvent DEF OnAllStatArrived, threads, history, IInv, Named
  <1>2. /\ EventsApart(guiq') /\ \A v : ~Posted(guiq', v, key)
        /\ \A v, k : Posted(guiq, v, k) <=>
             Posted(guiq', v, k) \/ (w = v /\ key = k)
    BY PostedTaken DEF OnAllStatArrived
  <1>3. EndsPosted'
    BY <1>1 DEF Keys, EndsPosted
  <1>4. CASE phase[w] = "deleted"
    <2>1. UNCHANGED statPool
      BY <1>4 DEF OnAllStatArrived
    <2>2. KeysFound' /\ DeletedIsEmpty'
      BY <1>1, <1>2, <2>1 DEF Keys, KeysFound, DeletedIsEmpty
    <2>3. statPool[w] = {}
      BY <1>1, <1>4 DEF Keys, DeletedIsEmpty
    <2>4. PoolsAwaited'
      <3> HIDE DEF w, key
      <3> QED
        BY <1>1, <1>2, <2>1, <2>3 DEF Keys, PoolsAwaited
    <2> QED
      BY <1>2, <1>3, <2>2, <2>4 DEF Keys
  <1>5. CASE phase[w] # "deleted"
    <2>1. PICK p \in statPool[w] :
            p[1] = key /\ statPool' = [statPool EXCEPT ![w] = @ \ {p}]
      BY <1>5, ArrivedOne
    <2>2. /\ statPool'[w] = statPool[w] \ {p}
          /\ \A v \in Workers : v # w => statPool'[v] = statPool[v]
      BY <1>1, <2>1 DEF IInv, Named, TypeOK
    <2>3. KeysFound'
      <3> SUFFICES ASSUME NEW v \in Workers, NEW k \in Nat, Posted(guiq', v, k)
                   PROVE  /\ k < poolCounter
                          /\ phase[v] # "deleted" => \E q \in statPool'[v] : q[1] = k
        BY <1>1 DEF KeysFound
      <3>1. k # key /\ Posted(guiq, v, k)
        BY <1>2
      <3>2. /\ k < poolCounter
            /\ phase[v] # "deleted" => \E q \in statPool[v] : q[1] = k
        BY <3>1 DEF Keys, KeysFound
      <3> HIDE DEF w, key
      <3> QED
        BY <2>1, <2>2, <3>1, <3>2
    <2>4. DeletedIsEmpty'
      <3> HIDE DEF w
      <3> QED
        BY <1>1, <1>5, <2>2 DEF Keys, DeletedIsEmpty
    <2>5. PoolsAwaited'
      <3> SUFFICES ASSUME NEW v \in Workers, NEW q \in statPool'[v]
                   PROVE  /\ Posted(guiq', v, q[1])
                          /\ \A r \in statPool'[v] :
                               q[1] = r[1] \/ (q[2] = r[2] /\ q[2] \notin twice) => q = r
        BY <1>1 DEF PoolsAwaited
      <3>1. q \in statPool[v] /\ statPool'[v] \subseteq statPool[v] /\ (v = w => q # p)
        BY <2>2
      <3>2. /\ Posted(guiq, v, q[1])
            /\ \A r \in statPool[v] :
                 q[1] = r[1] \/ (q[2] = r[2] /\ q[2] \notin twice) => q = r
        BY <3>1 DEF Keys, PoolsAwaited
      <3>3. ~(w = v /\ key = q[1])
        BY <2>1, <3>1, <3>2
      <3> QED
        BY <1>2, <3>1, <3>2, <3>3
    <2> QED
      BY <1>2, <1>3, <2>3, <2>4, <2>5 DEF Keys
  <1> QED
    BY <1>4, <1>5

\* The deferred delete empties the pool, if it was not empty.
LEMMA KeysDeleteLater ==
    ASSUME IInv, Keys, OnDeleteLater
    PROVE  Keys'
  <1> DEFINE w == Head(guiq).w
  <1>1. /\ w \in Workers /\ UNCHANGED <<poolCounter, twice>>
        /\ \A v : Has(guiq', "workerFinished", v) => Has(guiq, "workerFinished", v)
    BY TakenEvent DEF OnDeleteLater, history, IInv, Named
  <1>2. /\ EventsApart(guiq')
        /\ \A v, k : Posted(guiq', v, k) <=> Posted(guiq, v, k)
    BY PostedTaken DEF OnDeleteLater
  <1>3. CASE UNCHANGED <<phase, statPool>>
    <2>1. EndsPosted'
      BY <1>1, <1>3 DEF Keys, EndsPosted
    <2> QED
      BY <1>1, <1>2, <1>3, <2>1, KeysFrame
  <1>4. CASE ~UNCHANGED <<phase, statPool>>
    <2>1. /\ phase' = [phase EXCEPT ![w] = "deleted"]
          /\ statPool' = [statPool EXCEPT ![w] = {}]
      BY <1>4 DEF OnDeleteLater
    <2>2. /\ phase'[w] = "deleted" /\ statPool'[w] = {}
          /\ \A v \in Workers : v # w =>
               phase'[v] = phase[v] /\ statPool'[v] = statPool[v]
      BY <1>1, <2>1 DEF IInv, Named, TypeOK
    <2> HIDE DEF w
    <2>3. EndsPosted'
      BY <1>1, <2>2 DEF Keys, EndsPosted
    <2>4. KeysFound' /\ DeletedIsEmpty'
      BY <1>1, <1>2, <2>2 DEF Keys, KeysFound, DeletedIsEmpty
    <2>5. PoolsAwaited'
      BY <1>1, <1>2, <2>2 DEF Keys, PoolsAwaited
    <2> QED
      BY <1>2, <2>3, <2>4, <2>5 DEF Keys
  <1> QED
    BY <1>3, <1>4

LEMMA KeysGui ==
    ASSUME IInv, Keys, GuiThread
    PROVE  Keys'
  <1>1. CASE OnWorkerFinished \/ OnTaskStat \/ OnTaskFinal
    <2>1. UNCHANGED <<statPool, poolCounter, phase, twice>>
      BY <1>1 DEF OnWorkerFinished, OnTaskStat, OnTaskFinal, collecting, threads, history
    <2>2. /\ EventsApart(guiq')
          /\ \A w, key : Posted(guiq', w, key) <=> Posted(guiq, w, key)
      BY <1>1, PostedTaken DEF OnWorkerFinished, OnTaskStat, OnTaskFinal
    <2>3. \A w : Has(guiq', "workerFinished", w) => Has(guiq, "workerFinished", w)
      BY <1>1, TakenEvent DEF OnWorkerFinished, OnTaskStat, OnTaskFinal, IInv, Named
    <2>4. EndsPosted'
      BY <2>1, <2>3 DEF Keys, EndsPosted
    <2> QED
      BY <2>1, <2>2, <2>4, KeysFrame
  <1>2. CASE Wake
    <2>1. UNCHANGED <<statPool, poolCounter, guiq, phase, twice>>
      BY <1>2 DEF Wake, collecting, threads, history
    <2>2. EndsPosted'
      BY <2>1 DEF Keys, EndsPosted
    <2> QED
      BY <2>1, <2>2, KeysFrame DEF Keys
  <1> QED
    BY <1>1, <1>2, KeysArrived, KeysDeleteLater DEF GuiThread

LEMMA KeysDispatcher ==
    ASSUME IInv, Keys, Dispatcher
    PROVE  Keys'
  <1>1. UNCHANGED <<statPool, poolCounter, phase, twice>>
    BY DEF Dispatcher, SeeEmpty, Leave, Dequeue, DispatchStat, ConfirmFinished,
           ConfirmRemove, ConfirmRelease, FreeStat, collecting, threads, history
  <1>2. CASE UNCHANGED guiq
    <2>1. EndsPosted'
      BY <1>1, <1>2 DEF Keys, EndsPosted
    <2> QED
      BY <1>1, <1>2, <2>1, KeysFrame DEF Keys
  <1>3. ASSUME NEW e \in Events, e.type \notin {"progressStat", "workerFinished"},
               guiq' = Append(guiq, e)
        PROVE  Keys'
    <2>1. \A w : Has(guiq', "workerFinished", w) => Has(guiq, "workerFinished", w)
      BY <1>3, HasAppend DEF IInv, Named, TypeOK
    <2>2. EndsPosted'
      BY <1>1, <2>1 DEF Keys, EndsPosted
    <2> QED
      BY <1>1, <1>3, <2>2, KeysPost DEF IInv
  <1> QED
    BY <1>2, <1>3, EmittedEvent
    DEF Dispatcher, SeeEmpty, Leave, Dequeue, ConfirmRemove, FreeStat, IInv

LEMMA KeysNext ==
    ASSUME IInv, Keys, Ownership, [Next]_vars
    PROVE  Keys'
  <1>1. phase \in [Workers -> Phases]
    BY DEF IInv, Named, TypeOK
  <1>2. CASE \/ UNCHANGED vars
             \/ \E t \in Tids : PauseTask(t) \/ \E w \in Workers : AddTask(t, w)
             \/ \E w \in Workers : \/ Prepare(w) \/ BeginCalc(w)
                                   \/ WriteToFreed(w) \/ Return(w)
    <2>1. UNCHANGED <<statPool, poolCounter, guiq>> /\ twice \subseteq twice'
      BY <1>2 DEF vars, PauseTask, AddTask, Prepare, BeginCalc, WriteToFreed, Return,
                  collecting, history
    <2>2. \A w \in Workers : /\ phase'[w] = "deleted" <=> phase[w] = "deleted"
                             /\ phase[w] = "ended" => phase'[w] = "ended"
      BY <1>1, <1>2 DEF vars, PauseTask, AddTask, Prepare, BeginCalc, WriteToFreed, Return,
                        threads, Phases
    <2>3. EndsPosted'
      BY <2>1, <2>2 DEF Keys, EndsPosted
    <2> QED
      BY <2>1, <2>2, <2>3, KeysFrame DEF Keys
  <1>3. ASSUME NEW w \in Workers, Finished(w)
        PROVE  Keys'
    <2> DEFINE e == WorkerDone(w)
    <2>1. e \in Events /\ e.type = "workerFinished" /\ e.w = w
      BY DEF WorkerDone, Event, Events
    <2>2. /\ guiq' = Append(guiq, e) /\ UNCHANGED <<statPool, poolCounter, twice>>
          /\ phase[w] = "returned" /\ phase' = [phase EXCEPT ![w] = "ended"]
      BY <1>3 DEF Finished, PostDone, collecting, history
    <2>3. ~Has(guiq, "workerFinished", w)
      BY <2>2 DEF Keys, EndsPosted
    <2>4. phase'[w] = "ended" /\ \A v \in Workers : v # w => phase'[v] = phase[v]
      BY <1>1, <2>2
    <2> HIDE DEF e
    <2>5. \A v : Has(guiq', "workerFinished", v) => v = w \/ Has(guiq, "workerFinished", v)
      BY <2>1, <2>2, HasAppend DEF IInv, Named, TypeOK
    <2>6. EndsPosted'
      BY <2>4, <2>5 DEF Keys, EndsPosted
    <2> QED
      BY <2>1, <2>2, <2>3, <2>4, <2>6, KeysPost DEF IInv
  <1> QED
    BY <1>2, <1>3, KeysEmitStat, KeysGui, KeysDispatcher DEF Next, WorkerThread

-----------------------------------------------------------------------------
(* The collectors are kept *)

LEMMA OwnershipInit == Init => Keys /\ Ownership
  <1> SUFFICES ASSUME Init PROVE Keys /\ Ownership
    OBVIOUS
  <1>1. guiq = <<>> /\ stkeys = <<>> /\ twice = {} /\ \A w \in Workers : statPool[w] = {}
    BY DEF Init
  <1>2. Keys
    BY <1>1 DEF Keys, EventsApart, EndsPosted, KeysFound, DeletedIsEmpty, PoolsAwaited,
                Posted, Has
  <1>3. disp.sclt = NoStat /\ disp.pc = "idle" /\ \A s \in Collectors : s # NoStat
    BY ConstantsAssumption DEF Init, Idle, Collectors, NoStat
  <1>4. \A s \in Collectors : ~Pooled(s) /\ ~Queued(s) /\ ~Dispatched(s)
    BY <1>1, <1>3 DEF Pooled, Queued, Dispatched
  <1>5. OneEmission /\ TwiceIsBegun
    BY <1>1 DEF Init, OneEmission, TwiceIsBegun
  <1> QED
    BY <1>1, <1>2, <1>3, <1>4, <1>5
    DEF Ownership, HeldIsAlive, PlacesApart, QueueIsReal, LocalIsAlive, Held

\* A collector stays handed on while its worker gets no further report of the
\* end and allocates none.
LEMMA HandedFrame ==
    ASSUME UNCHANGED calc,
           \A w \in Workers : phase[w] \in {"ended", "deleted"} =>
             /\ phase'[w] \in {"ended", "deleted"}
             /\ Has(guiq', "workerFinished", w) => Has(guiq, "workerFinished", w),
           NEW s \in Collectors, HandedOn(s)
    PROVE  HandedOn(s)'
  BY DEF HandedOn, Collectors

\* Steps that move no collector, but may empty pools.
LEMMA OwnershipFrame ==
    ASSUME Ownership, UNCHANGED <<calc, twice, stkeys, heap>>,
           \A w \in Workers : statPool'[w] \subseteq statPool[w],
           disp'.sclt = disp.sclt, LocalIsAlive',
           \A w \in Workers : phase[w] \in {"ended", "deleted"} =>
             /\ phase'[w] \in {"ended", "deleted"}
             /\ Has(guiq', "workerFinished", w) => Has(guiq, "workerFinished", w)
    PROVE  Ownership'
  <1>1. \A s \in Collectors : HandedOn(s) => HandedOn(s)'
    BY HandedFrame
  <1>2. \A s : /\ Pooled(s)' => Pooled(s)
               /\ Queued(s)' <=> Queued(s)
               /\ Dispatched(s)' <=> Dispatched(s)
    BY DEF Pooled, Queued, Dispatched
  <1>3. TwiceIsBegun' /\ OneEmission'
    BY DEF Ownership, OneEmission, TwiceIsBegun
  <1>4. HeldIsAlive'
    BY <1>1, <1>2 DEF Ownership, HeldIsAlive, Held
  <1>5. PlacesApart'
    BY <1>2 DEF Ownership, PlacesApart
  <1>6. QueueIsReal'
    BY DEF Ownership, QueueIsReal
  <1> QED
    BY <1>3, <1>4, <1>5, <1>6 DEF Ownership

\* calculateStat allocates a collector that nobody holds yet.
LEMMA OwnershipBeginCalc ==
    ASSUME IInv, Ownership, NEW w \in Workers, BeginCalc(w)
    PROVE  Ownership'
  <1> DEFINE c == calc[w].calls
             s0 == <<w, c + 1>>
  <1>1. /\ UNCHANGED <<statPool, stkeys, disp, phase, guiq>>
        /\ heap' = heap \cup {s0}
        /\ calc[w].left = 0
    BY DEF BeginCalc, threads
  <1>2. PICK n \in EmitCounts :
          /\ calc' = [calc EXCEPT ![w] = [calls |-> c + 1, left |-> n]]
          /\ twice' = twice \cup {s \in {s0} : n > 1}
    BY DEF BeginCalc
  <1>3. calc \in [Workers -> [calls : Nat, left : Nat]] /\ n \in Nat
    BY ConstantsAssumption DEF IInv, Named, TypeOK
  <1>4. /\ calc'[w].calls = c + 1 /\ calc'[w].left = n /\ c \in Nat
        /\ \A v \in Workers : v # w => calc'[v] = calc[v]
    BY <1>2, <1>3
  <1>5. twice \subseteq twice' /\ \A s \in twice' : s \in twice \/ s = s0
    BY <1>2
  <1>6. TwiceIsBegun'
    <2> SUFFICES ASSUME NEW s \in twice'
                 PROVE  s[2] # 0 /\ s[2] <= calc'[s[1]].calls
      BY DEF TwiceIsBegun
    <2>1. CASE s = s0
      BY <1>4, <2>1
    <2>2. CASE s \in twice
      <3>1. s[1] \in Workers /\ s[2] \in Nat
        BY <2>2 DEF IInv, Named, TypeOK, Collectors
      <3>2. s[2] # 0 /\ s[2] <= calc[s[1]].calls
        BY <2>2 DEF Ownership, TwiceIsBegun
      <3>3. CASE s[1] = w
        <4>1. s[2] <= c + 1
          BY <1>4, <3>1, <3>2, <3>3
        <4> HIDE DEF c
        <4> QED
          BY <1>4, <3>2, <3>3, <4>1
      <3>4. CASE s[1] # w
        BY <1>4, <3>1, <3>2, <3>4
      <3> QED
        BY <3>3, <3>4
    <2> QED
      BY <1>5, <2>1, <2>2
  <1>7. OneEmission'
    <2> SUFFICES ASSUME NEW v \in Workers, calc'[v].left # 0
                 PROVE  /\ calc'[v].calls # 0
                        /\ <<v, calc'[v].calls>> \notin twice' =>
                             calc'[v].left = 1 /\ <<v, calc'[v].calls>> \in heap'
      BY DEF OneEmission
    <2>1. CASE v = w
      <3>1. calc'[v].calls # 0 /\ <<v, calc'[v].calls>> = s0
        BY <1>4, <2>1
      <3>2. s0 \in heap'
        BY <1>1
      <3>3. s0 \notin twice' => ~(n > 1)
        BY <1>2
      <3>4. ~(n > 1) => calc'[v].left = 1
        BY <1>3, <1>4, <2>1
      <3> QED
        BY <3>1, <3>2, <3>3, <3>4
    <2>2. CASE v # w
      <3>1. calc'[v] = calc[v] /\ heap \subseteq heap'
        BY <1>1, <1>4, <2>2
      <3> QED
        BY <1>5, <3>1 DEF Ownership, OneEmission
    <2> QED
      BY <2>1, <2>2
  <1>8. ASSUME NEW s \in Collectors, HandedOn(s)
        PROVE  HandedOn(s)'
    <2>1. s[1] \in Workers /\ s[2] \in Nat
      BY DEF Collectors
    <2>2. CASE s[2] = 0
      BY <1>1, <1>8, <2>2 DEF HandedOn
    <2>3. CASE s[2] # 0
      <3>1. s[2] <= calc[s[1]].calls
        BY <1>8, <2>3 DEF HandedOn
      <3>2. CASE s[1] = w
        <4>1. s[2] <= c + 1 /\ s[2] # c + 1
          BY <1>4, <2>1, <3>1, <3>2
        <4>2. calc'[s[1]].calls = c + 1
          BY <1>4, <3>2
        <4> HIDE DEF c
        <4> QED
          BY <2>3, <4>1, <4>2 DEF HandedOn
      <3>3. CASE s[1] # w
        <4>1. calc'[s[1]] = calc[s[1]]
          BY <1>4, <2>1, <3>3
        <4> QED
          BY <1>8, <2>3, <4>1 DEF HandedOn
      <3> QED
        BY <3>2, <3>3
    <2> QED
      BY <2>2, <2>3
  <1>9. \A s : /\ Pooled(s)' <=> Pooled(s)
               /\ Queued(s)' <=> Queued(s)
               /\ Dispatched(s)' <=> Dispatched(s)
    BY <1>1 DEF Pooled, Queued, Dispatched
  <1> HIDE DEF s0
  <1>10. HeldIsAlive'
    BY <1>1, <1>5, <1>8, <1>9 DEF Ownership, HeldIsAlive, Held
  <1>11. PlacesApart'
    BY <1>1, <1>5, <1>9 DEF Ownership, PlacesApart
  <1>12. QueueIsReal' /\ LocalIsAlive'
    BY <1>1 DEF Ownership, QueueIsReal, LocalIsAlive
  <1> QED
    BY <1>6, <1>7, <1>10, <1>11, <1>12 DEF Ownership

\* What calculateStat puts into the pool was held nowhere, if it is put there
\* once.
LEMMA OwnershipEmitStat ==
    ASSUME IInv, Ownership, NEW w \in Workers, EmitStat(w)
    PROVE  Ownership'
  <1> DEFINE s0 == <<w, calc[w].calls>>
             p == <<poolCounter, s0>>
  <1>1. UNCHANGED <<stkeys, disp, phase, heap, twice>> /\ s0 \in heap
    BY DEF EmitStat, threads, history
  <1>2. calc \in [Workers -> [calls : Nat, left : Nat]] /\ calc[w].left > 0
    BY DEF EmitStat, IInv, Named, TypeOK
  <1>3. /\ calc[w].left # 0 /\ calc[w].calls # 0 /\ calc[w].calls \in Nat
        /\ s0 \notin twice => calc[w].left = 1
    <2>1. calc[w].left # 0 /\ calc[w].calls \in Nat
      BY <1>2
    <2> QED
      BY <2>1 DEF Ownership, OneEmission
  <1>4. /\ calc'[w].calls = calc[w].calls /\ calc'[w].left = calc[w].left - 1
        /\ \A v \in Workers : v # w => calc'[v] = calc[v]
    BY <1>2 DEF EmitStat
  <1>5. s0 \in Collectors /\ s0[1] = w /\ s0[2] = calc[w].calls
    BY <1>2 DEF Collectors
  <1>6. s0 \notin twice => ~Held(s0)
    BY <1>3, <1>5 DEF Ownership, HeldIsAlive, HandedOn
  <1>7. ASSUME NEW s \in Collectors, s = s0, s \notin twice
        PROVE  HandedOn(s)'
    <2>1. calc'[w].left = 0
      BY <1>3, <1>4, <1>7
    <2>2. s[1] = w /\ s[2] = calc'[w].calls /\ s[2] # 0 /\ s[2] \in Nat
      BY <1>3, <1>4, <1>5, <1>7
    <2> HIDE DEF s0
    <2> QED
      BY <2>1, <2>2 DEF HandedOn
  <1>8. ASSUME NEW s \in Collectors, HandedOn(s)
        PROVE  HandedOn(s)'
    <2>1. s[1] \in Workers /\ s[2] \in Nat
      BY DEF Collectors
    <2>2. CASE s[2] # 0
      <3>1. calc'[s[1]].calls = calc[s[1]].calls
        BY <1>4, <2>1
      <3>2. calc'[s[1]].left # 0 => calc[s[1]].left # 0
        BY <1>3, <1>4, <2>1
      <3> QED
        BY <1>8, <2>2, <3>1, <3>2 DEF HandedOn
    <2>3. CASE s[2] = 0
      <3> DEFINE e == ProgressStat(w, poolCounter)
      <3>1. e \in Events /\ e.type # "workerFinished"
        BY DEF IInv, Named, TypeOK, ProgressStat, Event, Events
      <3>2. guiq \in Seq(Events) /\ guiq' = Append(guiq, e)
        BY DEF EmitStat, IInv, Named, TypeOK
      <3> HIDE DEF e
      <3>3. Has(guiq', "workerFinished", s[1]) => Has(guiq, "workerFinished", s[1])
        BY <3>1, <3>2, HasAppend
      <3> QED
        BY <1>1, <1>8, <2>3, <3>3 DEF HandedOn
    <2> QED
      BY <2>2, <2>3
  <1>9. \A s : Pooled(s)' <=> Pooled(s) \/ s = s0
    <2>1. /\ statPool'[w] = statPool[w] \cup {p}
          /\ \A v \in Workers : v # w => statPool'[v] = statPool[v]
      BY DEF EmitStat, IInv, Named, TypeOK
    <2>2. p[2] = s0
      OBVIOUS
    <2> HIDE DEF p, s0
    <2> QED
      BY <2>1, <2>2 DEF Pooled
  <1>10. \A s : (Queued(s)' <=> Queued(s)) /\ (Dispatched(s)' <=> Dispatched(s))
    BY <1>1 DEF Queued, Dispatched
  <1>11. TwiceIsBegun'
    <2> SUFFICES ASSUME NEW s \in twice
                 PROVE  s[2] # 0 /\ s[2] <= calc'[s[1]].calls
      BY <1>1 DEF TwiceIsBegun
    <2>1. s[1] \in Workers
      BY DEF IInv, Named, TypeOK, Collectors
    <2>2. calc'[s[1]].calls = calc[s[1]].calls
      BY <1>4, <2>1
    <2> QED
      BY <2>2 DEF Ownership, TwiceIsBegun
  <1>12. OneEmission'
    <2> SUFFICES ASSUME NEW v \in Workers, calc'[v].left # 0
                 PROVE  /\ calc'[v].calls # 0
                        /\ <<v, calc'[v].calls>> \notin twice =>
                             calc'[v].left = 1 /\ <<v, calc'[v].calls>> \in heap
      BY <1>1 DEF OneEmission
    <2>1. CASE v = w
      <3>1. s0 \in twice
        BY <1>3, <1>4, <2>1
      <3> QED
        BY <1>3, <1>4, <2>1, <3>1
    <2>2. CASE v # w
      BY <1>4, <2>2 DEF Ownership, OneEmission
    <2> QED
      BY <2>1, <2>2
  <1> HIDE DEF s0
  <1>13. HeldIsAlive'
    BY <1>1, <1>7, <1>8, <1>9, <1>10 DEF Ownership, HeldIsAlive, Held
  <1>14. PlacesApart'
    BY <1>1, <1>6, <1>9, <1>10 DEF Ownership, PlacesApart, Held
  <1>15. QueueIsReal' /\ LocalIsAlive'
    BY <1>1 DEF Ownership, QueueIsReal, LocalIsAlive
  <1> QED
    BY <1>11, <1>12, <1>13, <1>14, <1>15 DEF Ownership

\* What Append and Tail do to the collectors in stkeys.
QueuedApart ==
    \A i, j \in DOMAIN stkeys :
        stkeys[i][2] = stkeys[j][2] /\ stkeys[i][2] \notin twice => i = j

LEMMA QueuedAppend ==
    ASSUME NEW S, stkeys \in Seq(S), NEW e \in S, stkeys' = Append(stkeys, e),
           UNCHANGED twice
    PROVE  /\ \A s : Queued(s)' <=> Queued(s) \/ e[2] = s
           /\ QueueIsReal /\ e[2] \in Collectors => QueueIsReal'
           /\ QueuedApart /\ (e[2] \notin twice => ~Queued(e[2])) => QueuedApart'
  <1>1. /\ DOMAIN stkeys' = DOMAIN stkeys \cup {Len(stkeys) + 1}
        /\ \A i \in DOMAIN stkeys : stkeys'[i] = stkeys[i]
        /\ stkeys'[Len(stkeys) + 1] = e
    BY AppendIndices
  <1>2. \A s : Queued(s)' <=> Queued(s) \/ e[2] = s
    BY <1>1 DEF Queued
  <1>3. QueueIsReal /\ e[2] \in Collectors => QueueIsReal'
    BY <1>1 DEF QueueIsReal
  <1>4. ASSUME QueuedApart, e[2] \notin twice => ~Queued(e[2]),
               NEW i \in DOMAIN stkeys', NEW j \in DOMAIN stkeys',
               stkeys'[i][2] = stkeys'[j][2], stkeys'[i][2] \notin twice
        PROVE  i = j
    <2>1. e[2] \notin twice => \A k \in DOMAIN stkeys : stkeys[k][2] # e[2]
      BY <1>4 DEF Queued
    <2> QED
      BY <1>1, <1>4, <2>1 DEF QueuedApart
  <1> QED
    BY <1>2, <1>3, <1>4 DEF QueuedApart

LEMMA QueuedTail ==
    ASSUME NEW S, stkeys \in Seq(S), stkeys # <<>>, stkeys' = Tail(stkeys), UNCHANGED twice
    PROVE  /\ \A s : Queued(s) <=> Queued(s)' \/ Head(stkeys)[2] = s
           /\ QueueIsReal => QueueIsReal' /\ Head(stkeys)[2] \in Collectors
           /\ QueuedApart =>
                /\ \A s : s = Head(stkeys)[2] /\ s \notin twice => ~Queued(s)'
                /\ QueuedApart'
  <1> DEFINE q == stkeys'
             h == Head(stkeys)
  <1>1. /\ \A i \in DOMAIN q : /\ i + 1 \in DOMAIN stkeys /\ q[i] = stkeys[i + 1]
                               /\ i \in Nat /\ i + 1 # 1
        /\ h = stkeys[1] /\ 1 \in DOMAIN stkeys
    BY TailIndices
  <1>2. \A i \in DOMAIN stkeys : stkeys[i] = h \/ \E j \in DOMAIN q : q[j] = stkeys[i]
    BY TailIndices
  <1>3. \A s : Queued(s) => Queued(s)' \/ h[2] = s
    BY <1>2 DEF Queued
  <1>4. \A s : Queued(s)' \/ h[2] = s => Queued(s)
    BY <1>1 DEF Queued
  <1>5. QueueIsReal => QueueIsReal' /\ h[2] \in Collectors
    BY <1>1 DEF QueueIsReal
  <1>6. ASSUME QueuedApart, NEW i \in DOMAIN q, NEW j \in DOMAIN q, q[i][2] = q[j][2],
               q[i][2] \notin twice
        PROVE  i = j
    <2>1. i + 1 = j + 1
      BY <1>1, <1>6 DEF QueuedApart
    <2> QED
      BY <1>1, <2>1
  <1>7. ASSUME QueuedApart, NEW i \in DOMAIN q, q[i][2] = h[2], h[2] \notin twice
        PROVE  FALSE
    <2>1. i + 1 = 1
      BY <1>1, <1>7 DEF QueuedApart
    <2> QED
      BY <1>1, <2>1
  <1>8. ASSUME QueuedApart, NEW s, s = h[2], s \notin twice
        PROVE  ~Queued(s)'
    BY <1>7, <1>8 DEF Queued
  <1>9. QueuedApart => QueuedApart'
    BY <1>6 DEF QueuedApart
  <1> QED
    BY <1>3, <1>4, <1>5, <1>8, <1>9

\* getNextStat: one collector leaves the pool and enters the queue.
LEMMA OwnershipTaken ==
    ASSUME IInv, Keys, Ownership, OnAllStatArrived, phase[Head(guiq).w] # "deleted"
    PROVE  Ownership'
  <1> DEFINE w == Head(guiq).w
  <1>1. PICK p \in statPool[w] :
          /\ w \in Workers /\ stkeys' = Append(stkeys, p)
          /\ statPool' = [statPool EXCEPT ![w] = @ \ {p}]
    BY ArrivedOne
  <1>2. UNCHANGED <<calc, heap, disp, phase, twice>>
    BY DEF OnAllStatArrived, threads, history
  <1>3. p \in Elems /\ p[2] \in Collectors /\ stkeys \in Seq(Elems)
    <2>1. p \in Nat \X Collectors
      BY <1>1 DEF IInv, Named, TypeOK
    <2> QED
      BY <2>1 DEF IInv, Named, TypeOK, Elems
  <1>4. ASSUME NEW v \in Workers, NEW q \in statPool[v], q[2] = p[2], p[2] \notin twice
        PROVE  v = w /\ q = p
    <2>1. v = w
      BY <1>1, <1>4 DEF IInv, Named, PoolsNamed
    <2> QED
      BY <1>1, <1>4, <2>1 DEF Keys, PoolsAwaited
  <1>5. /\ statPool'[w] = statPool[w] \ {p}
        /\ \A v \in Workers : v # w => statPool'[v] = statPool[v]
    BY <1>1 DEF IInv, Named, TypeOK
  <1>6. ASSUME NEW s, Pooled(s)'
        PROVE  Pooled(s) /\ (s \notin twice => s # p[2])
    <2>1. PICK v \in Workers : \E q \in statPool'[v] : q[2] = s
      BY <1>6 DEF Pooled
    <2>2. PICK q \in statPool'[v] : q[2] = s
      BY <2>1
    <2>3. q \in statPool[v] /\ (v = w => q # p)
      BY <1>5
    <2>4. s \notin twice => s # p[2]
      BY <1>4, <2>2, <2>3
    <2> QED
      BY <2>2, <2>3, <2>4 DEF Pooled
  <1>7. Pooled(p[2])
    BY <1>1 DEF Pooled
  <1>8. p[2] \notin twice => ~Queued(p[2]) /\ ~Dispatched(p[2])
    BY <1>3, <1>7 DEF Ownership, PlacesApart
  <1>9. /\ \A s : Queued(s)' <=> Queued(s) \/ p[2] = s
        /\ QueueIsReal' /\ QueuedApart'
    BY <1>1, <1>2, <1>3, <1>8, QueuedAppend DEF Ownership, PlacesApart, QueuedApart
  <1>10. \A s : Dispatched(s)' <=> Dispatched(s)
    BY <1>2 DEF Dispatched
  <1>11. \A s \in Collectors : HandedOn(s) => HandedOn(s)'
    <2>1. \A v \in Workers : Has(guiq', "workerFinished", v) => Has(guiq, "workerFinished", v)
      BY TakenEvent DEF OnAllStatArrived, IInv, Named
    <2> QED
      BY <1>2, <2>1, HandedFrame
  <1>12. HeldIsAlive'
    BY <1>2, <1>6, <1>7, <1>9, <1>10, <1>11 DEF Ownership, HeldIsAlive, Held
  <1>13. PlacesApart'
    <2>1. ASSUME NEW s \in Collectors \ twice
          PROVE  /\ ~(Pooled(s)' /\ Queued(s)')
                 /\ ~(Pooled(s)' /\ Dispatched(s)')
                 /\ ~(Queued(s)' /\ Dispatched(s)')
      BY <1>6, <1>8, <1>9, <1>10 DEF Ownership, PlacesApart
    <2> QED
      BY <1>2, <1>9, <2>1 DEF PlacesApart, QueuedApart
  <1>14. TwiceIsBegun' /\ OneEmission' /\ LocalIsAlive'
    BY <1>2 DEF Ownership, TwiceIsBegun, OneEmission, LocalIsAlive
  <1> QED
    BY <1>9, <1>12, <1>13, <1>14 DEF Ownership

\* onWorkerFinished: a new collector enters the queue.
LEMMA OwnershipNewEnd ==
    ASSUME IInv, Keys, Ownership, OnWorkerFinished, phase[Head(guiq).w] # "deleted"
    PROVE  Ownership'
  <1> DEFINE w == Head(guiq).w
             s0 == <<w, 0>>
             e == <<doneCounter, s0>>
  <1>1. /\ w \in Workers /\ Has(guiq, "workerFinished", w)
        /\ \A v : Has(guiq', "workerFinished", v) => Has(guiq, "workerFinished", v)
        /\ ~Has(guiq', "workerFinished", w)
    BY TakenEvent, PostedTaken DEF OnWorkerFinished, IInv, Named
  <1>2. phase[w] \in {"ended", "deleted"}
    BY <1>1 DEF Keys, EndsPosted
  <1>3. /\ UNCHANGED <<calc, statPool, disp, phase, twice>>
        /\ heap' = heap \cup {s0} /\ stkeys' = Append(stkeys, e)
    BY DEF OnWorkerFinished, threads, collecting, history
  <1>4. s0 \in Collectors /\ e \in Elems /\ e[2] = s0 /\ stkeys \in Seq(Elems)
    <2>1. s0 \in Collectors
      BY <1>1 DEF Collectors
    <2>2. e \in Elems /\ stkeys \in Seq(Elems)
      <3> HIDE DEF s0
      <3> QED
        BY <2>1 DEF IInv, Named, TypeOK, Elems
    <2> QED
      BY <2>1, <2>2
  <1>5. ~HandedOn(s0) /\ s0 \notin twice
    BY <1>1 DEF HandedOn, Ownership, TwiceIsBegun
  <1>6. ~Held(s0)
    BY <1>4, <1>5 DEF Ownership, HeldIsAlive
  <1>7. ASSUME NEW s \in Collectors, s = s0
        PROVE  HandedOn(s)'
    BY <1>1, <1>2, <1>3, <1>7 DEF HandedOn
  <1> HIDE DEF e, s0
  <1>8. /\ \A s : Queued(s)' <=> Queued(s) \/ s0 = s
        /\ QueueIsReal' /\ QueuedApart'
    BY <1>3, <1>4, <1>6, QueuedAppend DEF Ownership, Held, PlacesApart, QueuedApart
  <1>9. \A s : (Pooled(s)' <=> Pooled(s)) /\ (Dispatched(s)' <=> Dispatched(s))
    BY <1>3 DEF Pooled, Dispatched
  <1>10. \A s \in Collectors : HandedOn(s) => HandedOn(s)'
    BY <1>1, <1>3, HandedFrame
  <1>11. HeldIsAlive'
    BY <1>3, <1>7, <1>8, <1>9, <1>10 DEF Ownership, HeldIsAlive, Held
  <1>12. PlacesApart'
    <2>1. ASSUME NEW s \in Collectors \ twice
          PROVE  /\ ~(Pooled(s)' /\ Queued(s)')
                 /\ ~(Pooled(s)' /\ Dispatched(s)')
                 /\ ~(Queued(s)' /\ Dispatched(s)')
      BY <1>6, <1>8, <1>9 DEF Ownership, PlacesApart, Held
    <2> QED
      BY <1>3, <1>8, <2>1 DEF PlacesApart, QueuedApart
  <1>13. TwiceIsBegun' /\ OneEmission' /\ LocalIsAlive'
    BY <1>3 DEF Ownership, TwiceIsBegun, OneEmission, LocalIsAlive
  <1> QED
    BY <1>8, <1>11, <1>12, <1>13 DEF Ownership

\* The other events of the GUI thread, and those whose sender was deleted.
LEMMA OwnershipQuiet ==
    ASSUME IInv, Keys, Ownership, GuiThread,
           OnAllStatArrived \/ OnWorkerFinished => phase[Head(guiq).w] = "deleted"
    PROVE  Ownership'
  <1>1. UNCHANGED <<calc, stkeys, heap, twice>>
    BY DEF GuiThread, OnAllStatArrived, OnWorkerFinished, Wake, OnTaskStat, OnTaskFinal,
           OnDeleteLater, collecting, history
  <1>2. \A v \in Workers : Has(guiq', "workerFinished", v) => Has(guiq, "workerFinished", v)
    BY TakenEvent DEF GuiThread, OnAllStatArrived, OnWorkerFinished, Wake, OnTaskStat,
       OnTaskFinal, OnDeleteLater, IInv, Named
  <1>3. disp'.sclt = disp.sclt /\ LocalIsAlive'
    <2>1. disp' = disp \/ disp' = Start
      BY DEF GuiThread, OnAllStatArrived, OnWorkerFinished, Wake, OnTaskStat, OnTaskFinal,
             OnDeleteLater
    <2>2. LocalIsAlive
      BY DEF Ownership
    <2> QED
      BY <1>1, <2>1, <2>2 DEF Start, LocalIsAlive, IInv, Named, TypeOK
  <1>4. /\ \A w \in Workers : statPool'[w] \subseteq statPool[w]
        /\ \A w \in Workers : phase[w] \in {"ended", "deleted"} =>
             phase'[w] \in {"ended", "deleted"}
    <2>1. CASE UNCHANGED <<phase, statPool>>
      BY <2>1
    <2>2. CASE OnDeleteLater /\ ~UNCHANGED <<phase, statPool>>
      <3> DEFINE w == Head(guiq).w
      <3>1. /\ phase' = [phase EXCEPT ![w] = "deleted"]
            /\ statPool' = [statPool EXCEPT ![w] = {}]
        BY <2>2 DEF OnDeleteLater
      <3> HIDE DEF w
      <3> QED
        BY <3>1 DEF IInv, Named, TypeOK
    <2> QED
      BY <2>1, <2>2 DEF GuiThread, OnAllStatArrived, OnWorkerFinished, Wake, OnTaskStat,
         OnTaskFinal, collecting, threads
  <1> QED
    BY <1>1, <1>2, <1>3, <1>4, OwnershipFrame

LEMMA OwnershipGui ==
    ASSUME IInv, Keys, Ownership, GuiThread
    PROVE  Ownership'
  BY OwnershipTaken, OwnershipNewEnd, OwnershipQuiet

\* dequeue: the collector moves from the queue to the dispatcher.
LEMMA OwnershipDequeue ==
    ASSUME IInv, Ownership, Dequeue
    PROVE  Ownership'
  <1> DEFINE h == Head(stkeys)[2]
  <1>1. /\ stkeys \in Seq(Elems) /\ stkeys # <<>> /\ stkeys' = Tail(stkeys)
        /\ disp.pc = "test"
    BY TakenElem DEF Dequeue, IInv
  <1>2. UNCHANGED <<calc, statPool, heap, phase, guiq, twice>>
    BY DEF Dequeue, threads, collecting, history
  <1>3. /\ \A s : Queued(s) <=> Queued(s)' \/ h = s
        /\ QueueIsReal' /\ h \in Collectors
        /\ \A s : s = h /\ s \notin twice => ~Queued(s)'
        /\ QueuedApart'
    BY <1>1, <1>2, QueuedTail DEF Ownership, PlacesApart, QueuedApart
  <1>4. disp' = disp \/ (h \in heap /\ disp'.sclt = h /\ disp'.pc = "emit")
    BY DEF Dequeue
  <1>5. disp.sclt = NoStat /\ \A s \in Collectors : s # NoStat
    BY <1>1, ConstantsAssumption DEF Ownership, LocalIsAlive, Collectors, NoStat
  <1> HIDE DEF h
  <1>6. \A s \in Collectors : ~Dispatched(s) /\ (Dispatched(s)' => s = h)
    BY <1>4, <1>5 DEF Dispatched
  <1>7. \A s : Pooled(s)' <=> Pooled(s)
    BY <1>2 DEF Pooled
  <1>8. \A s \in Collectors : HandedOn(s) => HandedOn(s)'
    BY <1>2, HandedFrame
  <1>9. HeldIsAlive'
    BY <1>2, <1>3, <1>6, <1>7, <1>8 DEF Ownership, HeldIsAlive, Held
  <1>10. PlacesApart'
    <2>1. ASSUME NEW s \in Collectors \ twice
          PROVE  /\ ~(Pooled(s)' /\ Queued(s)')
                 /\ ~(Pooled(s)' /\ Dispatched(s)')
                 /\ ~(Queued(s)' /\ Dispatched(s)')
      BY <1>3, <1>6, <1>7 DEF Ownership, PlacesApart
    <2> QED
      BY <1>2, <1>3, <2>1 DEF PlacesApart, QueuedApart
  <1>11. TwiceIsBegun' /\ OneEmission'
    BY <1>2 DEF Ownership, TwiceIsBegun, OneEmission
  <1>12. LocalIsAlive'
    BY <1>2, <1>4 DEF Ownership, LocalIsAlive
  <1> QED
    BY <1>3, <1>9, <1>10, <1>11, <1>12 DEF Ownership

\* delete: the collector the dispatcher holds leaves the heap, and only that.
LEMMA OwnershipFree ==
    ASSUME IInv, Ownership, FreeStat
    PROVE  Ownership'
  <1> DEFINE h == disp.sclt
  <1>1. /\ UNCHANGED <<calc, statPool, stkeys, phase, guiq, twice>>
        /\ heap' = heap \ {h} /\ disp'.sclt = NoStat /\ disp'.pc = "test"
    BY DEF FreeStat, Idle, threads, collecting, history
  <1>2. h \in Collectors
    BY DEF FreeStat, IInv, Named, TypeOK, LocalsNamed
  <1>3. Dispatched(h)
    BY DEF Dispatched
  <1> HIDE DEF h
  <1>4. \A s : (Pooled(s)' <=> Pooled(s)) /\ (Queued(s)' <=> Queued(s))
    BY <1>1 DEF Pooled, Queued
  <1>5. \A s \in Collectors : ~Dispatched(s)'
    BY <1>1, ConstantsAssumption DEF Dispatched, Collectors, NoStat
  <1>6. h \notin twice => ~Pooled(h) /\ ~Queued(h) /\ HandedOn(h)
    BY <1>2, <1>3 DEF Ownership, PlacesApart, HeldIsAlive, Held
  <1>7. \A s \in Collectors : HandedOn(s) => HandedOn(s)'
    BY <1>1, HandedFrame
  <1>8. HeldIsAlive'
    BY <1>1, <1>4, <1>5, <1>6, <1>7 DEF Ownership, HeldIsAlive, Held
  <1>9. PlacesApart'
    BY <1>1, <1>4, <1>5 DEF Ownership, PlacesApart
  <1>10. OneEmission'
    <2> SUFFICES ASSUME NEW w \in Workers, calc[w].left # 0
                 PROVE  /\ calc[w].calls # 0
                        /\ <<w, calc[w].calls>> \notin twice =>
                             calc[w].left = 1 /\ <<w, calc[w].calls>> \in heap'
      BY <1>1 DEF OneEmission
    <2>1. /\ calc[w].calls # 0
          /\ <<w, calc[w].calls>> \notin twice =>
               calc[w].left = 1 /\ <<w, calc[w].calls>> \in heap
      BY DEF Ownership, OneEmission
    <2>2. ~HandedOn(<<w, calc[w].calls>>)
      BY <2>1 DEF HandedOn
    <2>3. <<w, calc[w].calls>> \notin twice => <<w, calc[w].calls>> # h
      BY <1>6, <2>2
    <2> QED
      BY <1>1, <2>1, <2>3
  <1>11. TwiceIsBegun' /\ QueueIsReal' /\ LocalIsAlive'
    BY <1>1 DEF Ownership, TwiceIsBegun, QueueIsReal, LocalIsAlive
  <1> QED
    BY <1>8, <1>9, <1>10, <1>11 DEF Ownership

LEMMA OwnershipDispatcher ==
    ASSUME IInv, Ownership, Dispatcher
    PROVE  Ownership'
  <1>1. CASE SeeEmpty \/ Leave \/ DispatchStat \/ ConfirmFinished \/ ConfirmRemove \/ ConfirmRelease
    <2>1. UNCHANGED <<calc, statPool, stkeys, heap, phase, twice>>
      BY <1>1 DEF SeeEmpty, Leave, DispatchStat, ConfirmFinished, ConfirmRemove,
                  ConfirmRelease, collecting, threads, history
    <2>2. disp'.sclt = disp.sclt /\ LocalIsAlive'
      <3>1. LocalIsAlive
        BY DEF Ownership
      <3> QED
        BY <1>1, <2>1, <3>1 DEF LocalIsAlive, SeeEmpty, Leave, DispatchStat, ConfirmFinished,
                          ConfirmRemove, ConfirmRelease, Idle, IInv, Named, TypeOK
    <2>3. \A v : Has(guiq', "workerFinished", v) => Has(guiq, "workerFinished", v)
      BY <1>1, EmittedNew DEF SeeEmpty, Leave, ConfirmRemove, IInv
    <2> QED
      BY <2>1, <2>2, <2>3, OwnershipFrame
  <1> QED
    BY <1>1, OwnershipDequeue, OwnershipFree DEF Dispatcher

LEMMA OwnershipNext ==
    ASSUME IInv, Keys, Ownership, [Next]_vars
    PROVE  Ownership'
  <1>1. phase \in [Workers -> Phases]
    BY DEF IInv, Named, TypeOK
  <1>2. ASSUME UNCHANGED <<calc, statPool, stkeys, heap, disp, twice, guiq>>,
               \A v \in Workers : phase[v] \in {"ended", "deleted"} => phase'[v] = phase[v]
        PROVE  Ownership'
    <2>1. LocalIsAlive'
      BY <1>2 DEF Ownership, LocalIsAlive
    <2> QED
      BY <1>2, <2>1, OwnershipFrame
  <1>3. CASE UNCHANGED vars \/ \E t \in Tids : PauseTask(t)
    BY <1>2, <1>3 DEF vars, PauseTask, collecting, threads, history
  <1>4. ASSUME NEW w \in Workers, \/ \E t \in Tids : AddTask(t, w)
                                  \/ Prepare(w) \/ WriteToFreed(w) \/ Return(w)
        PROVE  Ownership'
    <2>1. UNCHANGED <<calc, statPool, stkeys, heap, disp, twice, guiq>>
      BY <1>4 DEF AddTask, Prepare, WriteToFreed, Return, collecting, history
    <2>2. \A v \in Workers : phase[v] \in {"ended", "deleted"} => phase'[v] = phase[v]
      BY <1>1, <1>4 DEF AddTask, Prepare, WriteToFreed, Return, threads
    <2> QED
      BY <1>2, <2>1, <2>2
  <1>5. ASSUME NEW w \in Workers, Finished(w)
        PROVE  Ownership'
    <2> DEFINE e == WorkerDone(w)
    <2>1. e \in Events /\ e.type = "workerFinished" /\ e.w = w
      BY DEF WorkerDone, Event, Events
    <2>2. /\ guiq' = Append(guiq, e) /\ guiq \in Seq(Events) /\ phase[w] = "returned"
          /\ UNCHANGED <<calc, statPool, stkeys, heap, disp, twice>>
      BY <1>5 DEF Finished, PostDone, collecting, history, IInv, Named, TypeOK
    <2>3. \A v \in Workers : phase[v] \in {"ended", "deleted"} => phase'[v] = phase[v] /\ v # w
      BY <1>1, <1>5 DEF Finished
    <2> HIDE DEF e
    <2>4. \A v : v # w /\ Has(guiq', "workerFinished", v) => Has(guiq, "workerFinished", v)
      BY <2>1, <2>2, HasAppend
    <2>5. LocalIsAlive'
      BY <2>2 DEF Ownership, LocalIsAlive
    <2> QED
      BY <2>2, <2>3, <2>4, <2>5, OwnershipFrame
  <1> QED
    BY <1>3, <1>4, <1>5, OwnershipBeginCalc, OwnershipEmitStat, OwnershipGui,
       OwnershipDispatcher DEF Next, WorkerThread

-----------------------------------------------------------------------------
(* What the program no longer has, and why *)

LEMMA FaultsNext ==
    ASSUME IInv, Tables, Keys, Ownership, FaultsHaveCauses, [Next]_vars
    PROVE  FaultsHaveCauses'
  <1>1. CASE UNCHANGED fault
    <2>1. startedOver \subseteq startedOver' /\ twice \subseteq twice'
      <3>1. CASE UNCHANGED <<startedOver, twice>>
        BY <3>1
      <3>2. ASSUME NEW t \in Tids, NEW w \in Workers, AddTask(t, w) \/ BeginCalc(w)
            PROVE  startedOver \subseteq startedOver' /\ twice \subseteq twice'
        BY <3>2 DEF AddTask, BeginCalc
      <3>3. ASSUME NEW w \in Workers, BeginCalc(w)
            PROVE  startedOver \subseteq startedOver' /\ twice \subseteq twice'
        BY <3>3 DEF BeginCalc
      <3>4. GuiThread \/ Dispatcher \/ (\E t \in Tids : PauseTask(t)) \/ UNCHANGED vars
              => UNCHANGED <<startedOver, twice>>
        BY DEF GuiThread, OnAllStatArrived, OnWorkerFinished, Wake, OnTaskStat, OnTaskFinal,
               OnDeleteLater, Dispatcher, SeeEmpty, Leave, Dequeue, DispatchStat,
               ConfirmFinished, ConfirmRemove, ConfirmRelease, FreeStat, PauseTask, vars,
               history
      <3>5. ASSUME NEW w \in Workers, WorkerThread(w)
            PROVE  startedOver \subseteq startedOver' /\ twice \subseteq twice'
        BY <3>3, <3>5 DEF WorkerThread, Prepare, EmitStat, WriteToFreed, Return, Finished,
           history
      <3> QED
        BY <3>1, <3>2, <3>4, <3>5 DEF Next
    <2> QED
      BY <1>1, <2>1 DEF FaultsHaveCauses
  <1>2. ASSUME fault' \in {"nullWorker", "nullSender", "liveThreadDeleted"},
               startedOver' # {}
        PROVE  FaultsHaveCauses'
    BY <1>2 DEF FaultsHaveCauses
  <1>3. ASSUME fault' = "useAfterFree", twice' # {}
        PROVE  FaultsHaveCauses'
    BY <1>3 DEF FaultsHaveCauses
  <1>4. \A w \in Workers : w \notin Apart => startedOver # {}
    BY DEF Apart
  <1>5. ASSUME NEW t \in Tids, PauseTask(t)
        PROVE  FaultsHaveCauses'
    <2>1. CASE fault' = "nullWorker" /\ m_tasks[t] = Null
      <3>1. m_rtasks \subseteq Workers
        BY DEF IInv, Named, TypeOK
      <3>2. t \in startedOver
        BY <2>1, <3>1, ConstantsAssumption DEF Tables, TablesAgree
      <3>3. UNCHANGED startedOver
        BY <1>5 DEF PauseTask, history
      <3> QED
        BY <1>2, <2>1, <3>2, <3>3
    <2>2. CASE fault' = "nullEngine"
      BY <2>2 DEF FaultsHaveCauses
    <2> QED
      BY <1>1, <1>5, <2>1, <2>2 DEF PauseTask
  <1>6. CASE OnAllStatArrived \/ OnWorkerFinished
    <2> DEFINE w == Head(guiq).w
    <2>1. w \in Workers /\ (Has(guiq, "progressStat", w) \/ Has(guiq, "workerFinished", w))
      BY <1>6, TakenEvent DEF OnAllStatArrived, OnWorkerFinished, IInv, Named
    <2>2. CASE phase[w] = "deleted" /\ fault' = "nullSender"
      <3>1. w \notin Apart
        BY <2>1, <2>2 DEF IInv, Passage, Stages, ReleasedIsSilent
      <3>2. UNCHANGED startedOver
        BY <1>6 DEF OnAllStatArrived, OnWorkerFinished, history
      <3> QED
        BY <1>2, <1>4, <2>1, <2>2, <3>1, <3>2
    <2> QED
      BY <1>1, <1>6, <2>2 DEF OnAllStatArrived, OnWorkerFinished
  <1>7. CASE OnDeleteLater
    <2> DEFINE w == Head(guiq).w
    <2>1. w \in Workers /\ Has(guiq, "deleteLater", w)
      BY <1>7, TakenEvent DEF OnDeleteLater, IInv, Named
    <2>2. CASE phase[w] \notin {"ended", "deleted"} /\ fault' = "liveThreadDeleted"
      <3>1. w \notin Apart
        BY <2>1, <2>2 DEF IInv, Passage, Stages, ReleasedIsSilent
      <3>2. UNCHANGED startedOver
        BY <1>7 DEF OnDeleteLater, history
      <3> QED
        BY <1>2, <1>4, <2>1, <2>2, <3>1, <3>2
    <2> QED
      BY <1>1, <1>7, <2>2 DEF OnDeleteLater
  <1>8. CASE Dequeue
    <2> DEFINE h == Head(stkeys)[2]
    <2>1. stkeys \in Seq(Elems) /\ stkeys # <<>> /\ stkeys' = Tail(stkeys) /\ UNCHANGED twice
      BY <1>8, TakenElem DEF IInv, Dequeue, history
    <2>2. Queued(h) /\ h \in Collectors
      BY <2>1, QueuedTail DEF Ownership
    <2>3. h # NoStat
      BY <2>2, ConstantsAssumption DEF Collectors, NoStat
    <2>4. h \notin heap => h \in twice
      BY <2>2 DEF Ownership, HeldIsAlive, Held
    <2>5. UNCHANGED fault \/ (h \notin heap /\ fault' = "useAfterFree")
      BY <1>8, <2>3 DEF Dequeue
    <2> QED
      BY <1>1, <1>3, <2>1, <2>4, <2>5
  <1>9. CASE ConfirmFinished
    <2>1. CASE disp.eaw = Null /\ fault' = "nullWorker"
      <3>1. disp.sclt[1] \in Workers
        BY <1>9 DEF ConfirmFinished, IInv, Named, TypeOK, LocalsNamed, Collectors
      <3>2. disp.sclt[1] \notin Apart
        BY <1>9, <2>1, <3>1, ConstantsAssumption
        DEF ConfirmFinished, IInv, Passage, EndsMatched
      <3>3. UNCHANGED startedOver
        BY <1>9 DEF ConfirmFinished, history
      <3> QED
        BY <1>2, <1>4, <2>1, <3>1, <3>2, <3>3
    <2> QED
      BY <1>1, <1>9, <2>1 DEF ConfirmFinished
  <1>10. CASE FreeStat
    BY <1>1, <1>10 DEF FreeStat, Ownership, LocalIsAlive
  <1>11. ASSUME NEW w \in Workers, WriteToFreed(w)
         PROVE  FaultsHaveCauses'
    <2>1. calc[w].left # 0
      BY <1>11 DEF WriteToFreed
    <2>2. <<w, calc[w].calls>> \in twice
      BY <1>11, <2>1 DEF WriteToFreed, Ownership, OneEmission
    <2>3. fault' = "useAfterFree" /\ UNCHANGED twice
      BY <1>11 DEF WriteToFreed, history
    <2> QED
      BY <1>3, <2>2, <2>3
  <1>12. CASE UNCHANGED vars
    BY <1>1, <1>12 DEF vars
  <1>13. ASSUME NEW t \in Tids, NEW w \in Workers, AddTask(t, w)
         PROVE  FaultsHaveCauses'
    BY <1>1, <1>13 DEF AddTask
  <1>14. ASSUME NEW w \in Workers, WorkerThread(w)
         PROVE  FaultsHaveCauses'
    BY <1>1, <1>11, <1>14 DEF WorkerThread, Prepare, BeginCalc, EmitStat, Return, Finished
  <1>15. CASE GuiThread
    BY <1>1, <1>6, <1>7, <1>15 DEF GuiThread, Wake, OnTaskStat, OnTaskFinal
  <1>16. CASE Dispatcher
    BY <1>1, <1>8, <1>9, <1>10, <1>16 DEF Dispatcher, SeeEmpty, Leave, DispatchStat,
       ConfirmRemove, ConfirmRelease
  <1> QED
    BY <1>5, <1>12, <1>13, <1>14, <1>15, <1>16 DEF Next

LEMMA OInvAlways == Spec => []OInv
  <1>1. Init => OInv
    BY NamedInit, PassageInit, TablesInit, OwnershipInit
    DEF IInv, OInv, Init, FaultsHaveCauses
  <1>2. OInv /\ [Next]_vars => OInv'
    <2> SUFFICES ASSUME OInv, [Next]_vars PROVE OInv'
      OBVIOUS
    <2>1. IInv' /\ Tables'
      BY IInvNext, TablesNext DEF OInv
    <2>2. Keys' /\ Ownership'
      BY KeysNext, OwnershipNext DEF OInv
    <2>3. FaultsHaveCauses'
      BY FaultsNext DEF OInv
    <2> QED
      BY <2>1, <2>2, <2>3 DEF OInv
  <1> QED
    BY <1>1, <1>2, PTL DEF Spec

\* FaultsHaveCauses: for any tasks, workers and numbers of reports, and whatever
\* the user starts and pauses, a queue element always has its collector, none is
\* deleted twice, a deleted one is used only where one was reported twice, and a
\* dead worker is met, or a live one deleted, only where a task was started over.
THEOREM NoUseAfterFree == Spec => []FaultsHaveCauses
  <1>1. OInv => FaultsHaveCauses
    BY DEF OInv
  <1> QED
    BY <1>1, OInvAlways, PTL

\* The places that hold a collector, as the parts of Holders.
LEMMA HoldersOf ==
    ASSUME IInv, Keys, Ownership, NEW s \in Collectors \ twice, Held(s)
    PROVE  \E h : Holders(s) = {h}
  <1> DEFINE InPool == {<<"pool", p[1]>> : p \in {q \in UNION {statPool[w] : w \in Workers} :
                                                     q[2] = s}}
             InQueue == {<<"queue", i>> : i \in {j \in DOMAIN stkeys : stkeys[j][2] = s}}
             InDisp == {<<"dispatcher", 0>> : x \in {y \in {disp.sclt} : y = s}}
  <1>1. Holders(s) = InPool \cup InQueue \cup InDisp
    BY DEF Holders
  <1>2. ASSUME NEW v \in Workers, NEW w \in Workers, NEW q \in statPool[v], NEW p \in statPool[w],
               q[2] = s, p[2] = s
        PROVE  q = p
    <2>1. v = w
      BY <1>2 DEF IInv, Named, PoolsNamed
    <2> QED
      BY <1>2, <2>1 DEF Keys, PoolsAwaited
  <1>3. ~Pooled(s) => InPool = {}
    BY DEF Pooled
  <1>4. ~Queued(s) => InQueue = {}
    BY DEF Queued
  <1>5. ~Dispatched(s) => InDisp = {}
    BY DEF Dispatched
  <1>6. ASSUME Pooled(s)
        PROVE  \E h : InPool = {h}
    <2>1. PICK w \in Workers : \E p \in statPool[w] : p[2] = s
      BY <1>6 DEF Pooled
    <2>2. PICK p \in statPool[w] : p[2] = s
      BY <2>1
    <2>3. {q \in UNION {statPool[v] : v \in Workers} : q[2] = s} = {p}
      BY <1>2, <2>2
    <2>4. InPool = {<<"pool", p[1]>>}
      BY <2>3
    <2> QED
      BY <2>4
  <1>7. ASSUME Queued(s)
        PROVE  \E h : InQueue = {h}
    <2>1. PICK i \in DOMAIN stkeys : stkeys[i][2] = s
      BY <1>7 DEF Queued
    <2>2. {j \in DOMAIN stkeys : stkeys[j][2] = s} = {i}
      BY <2>1 DEF Ownership, PlacesApart
    <2>3. InQueue = {<<"queue", i>>}
      BY <2>2
    <2> QED
      BY <2>3
  <1>8. ASSUME Dispatched(s)
        PROVE  \E h : InDisp = {h}
    <2>1. {y \in {disp.sclt} : y = s} = {s}
      BY <1>8 DEF Dispatched
    <2> QED
      BY <2>1
  <1>9. /\ ~(Pooled(s) /\ Queued(s)) /\ ~(Pooled(s) /\ Dispatched(s))
        /\ ~(Queued(s) /\ Dispatched(s))
    BY DEF Ownership, PlacesApart
  <1> HIDE DEF InPool, InQueue, InDisp
  <1>10. CASE Pooled(s)
    BY <1>1, <1>4, <1>5, <1>6, <1>9, <1>10
  <1>11. CASE Queued(s)
    BY <1>1, <1>3, <1>5, <1>7, <1>9, <1>11
  <1>12. CASE Dispatched(s)
    BY <1>1, <1>3, <1>4, <1>8, <1>9, <1>12
  <1> QED
    BY <1>10, <1>11, <1>12 DEF Held

\* SingleOwner: of how many groups and results calculateStat reports, and
\* whatever tasks are started over, a collector that was reported once is in one
\* place only, and allocated there.
THEOREM OwnerIsSingle == Spec => []SingleOwner
  <1>1. OInv => SingleOwner
    <2> SUFFICES ASSUME OInv, NEW s \in HeldStats, s # NoStat, s \notin twice
                 PROVE  Cardinality(Holders(s)) = 1 /\ s \in heap
      BY DEF SingleOwner
    <2>1. Held(s)
      BY DEF Held, Pooled, Queued, Dispatched, HeldStats
    <2>2. s \in Collectors
      <3>1. CASE s = disp.sclt
        BY <3>1 DEF OInv, IInv, Named, TypeOK
      <3>2. CASE \E i \in DOMAIN stkeys : s = stkeys[i][2]
        BY <3>2 DEF OInv, Ownership, QueueIsReal
      <3>3. CASE \E w \in Workers : \E p \in statPool[w] : s = p[2]
        <4>1. statPool \in [Workers -> SUBSET (Nat \X Collectors)]
          BY DEF OInv, IInv, Named, TypeOK
        <4> QED
          BY <3>3, <4>1
      <3> QED
        BY <3>1, <3>2, <3>3 DEF HeldStats
    <2>3. PICK h : Holders(s) = {h}
      BY <2>1, <2>2, HoldersOf DEF OInv
    <2>4. Cardinality(Holders(s)) = 1
      BY <2>3, FS_Singleton
    <2> QED
      BY <2>1, <2>2, <2>4 DEF OInv, Ownership, HeldIsAlive
  <1> QED
    BY <1>1, OInvAlways, PTL

\* PoolDrainedBeforeDelete: a worker whose task was not started over has handed
\* all its collectors over when it is deleted, so the destructor that frees
\* nothing loses none.
THEOREM PoolsAreDrained == Spec => PoolDrainedBeforeDelete
  <1>1. OInv /\ [Next]_vars =>
          [\A w \in Apart : phase'[w] = "deleted" => statPool[w] = {}]_vars
    <2> SUFFICES ASSUME OInv, [Next]_vars, NEW w \in Apart, phase'[w] = "deleted"
                 PROVE  statPool[w] = {}
      OBVIOUS
    <2>1. w \in Workers /\ phase \in [Workers -> Phases]
      BY DEF OInv, IInv, Named, TypeOK, Apart
    <2>2. CASE phase[w] = "deleted"
      BY <2>1, <2>2 DEF OInv, Keys, DeletedIsEmpty
    <2>3. CASE phase[w] # "deleted"
      <3>1. OnDeleteLater
        <4>1. ASSUME UNCHANGED phase PROVE FALSE
          BY <2>3, <4>1
        <4>2. ASSUME NEW v \in Workers, NEW x \in Phases \ {"deleted"},
                     phase' = [phase EXCEPT ![v] = x]
              PROVE  FALSE
          BY <2>1, <2>3, <4>2
        <4>3. ASSUME NEW t \in Tids, NEW v \in Workers, AddTask(t, v)
              PROVE  FALSE
          BY <4>2, <4>3 DEF AddTask, Phases
        <4>4. ASSUME NEW v \in Workers, WorkerThread(v)
              PROVE  FALSE
          BY <4>1, <4>2, <4>4 DEF WorkerThread, Prepare, BeginCalc, EmitStat, WriteToFreed,
             Return, Finished, Phases, threads
        <4>5. ASSUME NEW t \in Tids, PauseTask(t)
              PROVE  FALSE
          BY <4>1, <4>5 DEF PauseTask
        <4>6. ~Dispatcher
          BY <4>1 DEF Dispatcher, SeeEmpty, Leave, Dequeue, DispatchStat, ConfirmFinished,
             ConfirmRemove, ConfirmRelease, FreeStat, threads
        <4>7. ~UNCHANGED vars
          BY <4>1 DEF vars, threads
        <4> QED
          BY <4>1, <4>3, <4>4, <4>5, <4>6, <4>7 DEF Next, GuiThread, OnAllStatArrived,
             OnWorkerFinished, Wake, OnTaskStat, OnTaskFinal, threads
      <3>2. Head(guiq).w \in Workers /\ Has(guiq, "deleteLater", Head(guiq).w)
        BY <3>1, TakenEvent DEF OnDeleteLater, OInv, IInv, Named
      <3>3. w = Head(guiq).w
        BY <2>1, <2>3, <3>1, <3>2 DEF OnDeleteLater
      <3>4. ~Has(guiq, "progressStat", w)
        BY <3>2, <3>3 DEF OInv, IInv, Passage, Stages, ReleasedIsSilent
      <3> QED
        BY <2>1, <3>4 DEF OInv, Keys, PoolsAwaited, Posted, Has
    <2> QED
      BY <2>2, <2>3
  <1> QED
    BY <1>1, OInvAlways, PTL DEF Spec, PoolDrainedBeforeDelete
=============================================================================
