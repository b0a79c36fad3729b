------------------------ MODULE EmbedManager_proofs ------------------------
(***************************************************************************)
(* Proofs about EmbedManager.  A report of worker w passes through four    *)
(* places: the events posted to the GUI thread, the queue stkeys, the      *)
(* locals of the dispatcher, and the events posted back.  The invariant    *)
(* says that the report of the end of w is in one place at a time, and     *)
(* that behind it there is no report of the progress of w.                 *)
(*                                                                         *)
(* The user may start a task that runs.  From then on its workers share an *)
(* entry of m_tasks and one may be reported and released in the place of   *)
(* another, so the invariant is about the workers that are Apart.  What    *)
(* has to be shown is that the steps made for the others leave these       *)
(* alone: whatever the dispatcher finds under a task belongs to that task. *)
(***************************************************************************)
EXTENDS EmbedManager, SequenceTheorems, TLAPS

-----------------------------------------------------------------------------
(* The invariant.                                                          *)

EventTypes == {"progressStat", "workerFinished", "taskStat", "taskFinal",
               "deleteLater"}

\* What is on its way in a queue of events q, or in a queue of collectors q.
Has(q, type, w) == \E i \in DOMAIN q : q[i].type = type /\ q[i].w = w
HasStat(q, w) == \E i \in DOMAIN q : q[i][1] >= 0 /\ q[i][2][1] = w
HasEnd(q, w) == \E i \in DOMAIN q : q[i][1] < 0 /\ q[i][2][1] = w

Emitting(w) == disp.pc = "emit" /\ disp.key >= 0 /\ disp.sclt[1] = w
Ending(w, pcs) == disp.pc \in pcs /\ disp.key < 0 /\ disp.sclt[1] = w

\* No report of a worker in A follows the report of its end.
EventsInOrder(A, q) ==
    \A i, j \in DOMAIN q :
      i < j /\ q[i].w = q[j].w /\ q[i].w \in A =>
        /\ q[i].type = "workerFinished"
             => q[j].type \notin {"progressStat", "workerFinished"}
        /\ q[i].type = "taskFinal" => q[j].type \notin {"taskStat", "taskFinal"}
StatsInOrder(A, q) ==
    \A i, j \in DOMAIN q :
      i < j /\ q[i][1] < 0 /\ q[i][2][1] \in A => q[j][2][1] # q[i][2][1]

\* A worker that was not created is mentioned nowhere.
UnbornIsUnknown ==
    \A w \in Workers :
      /\ phase[w] = "unborn" <=> m_tid[w] = NoTid
      /\ phase[w] = "unborn" =>
           /\ \A type \in EventTypes : ~Has(guiq, type, w)
           /\ ~HasStat(stkeys, w) /\ ~HasEnd(stkeys, w)
           /\ disp.sclt[1] # w /\ disp.eaw # w
           /\ \A t \in Tids : m_tasks[t] # w
           /\ w \notin closed

\* The collectors on the way name the worker they are about.
PoolsNamed == \A w \in Workers : \A p \in statPool[w] : p[2][1] = w
EndsNamed == \A i \in DOMAIN stkeys : stkeys[i][1] < 0 => stkeys[i][2] # NoStat
LocalsNamed ==
    disp.pc \notin {"idle", "test", "leave"}
      => /\ disp.sclt # NoStat /\ disp.eaw # NoEntry
         /\ disp.pc \in {"remove", "release"} => disp.eaw # Null

\* What is entered for a task is a worker of that task, or was put there for
\* want of one.  So what the dispatcher finds has the task it looked for.
Matched ==
    /\ \A t \in Tids : m_tasks[t] \in Workers => m_tid[m_tasks[t]] = t
    /\ \A t \in Tids : m_tasks[t] # NoEntry => \E w \in Workers : m_tid[w] = t
    /\ disp.pc \in {"emit", "remove", "release"} /\ disp.eaw # Null
         => m_tid[disp.eaw] = m_tid[disp.sclt[1]]

\* The dispatcher handles the end of a download with the worker it is about.
EndsMatched ==
    /\ disp.pc \in {"emit", "remove", "release"} /\ disp.key < 0
         /\ disp.sclt[1] \in Apart
         => disp.eaw = disp.sclt[1]
    /\ disp.pc \in {"remove", "release"} => disp.key < 0

\* Where the report of the end of w is, and what is not behind it.
DoneIsPosted(w) ==
    Has(guiq, "workerFinished", w) =>
      /\ phase[w] = "ended" /\ w \notin closed
      /\ ~HasEnd(stkeys, w) /\ ~Ending(w, {"emit", "remove", "release"})
      /\ ~Has(guiq, "taskFinal", w) /\ ~Has(guiq, "deleteLater", w)
EndIsQueued(w) ==
    HasEnd(stkeys, w) =>
      /\ phase[w] = "ended" /\ w \notin closed
      /\ ~Has(guiq, "progressStat", w)
      /\ ~Ending(w, {"emit", "remove", "release"})
      /\ ~Has(guiq, "taskFinal", w) /\ ~Has(guiq, "deleteLater", w)
EndIsHandled(w) ==
    Ending(w, {"emit", "remove", "release"}) =>
      /\ phase[w] = "ended"
      /\ ~Has(guiq, "progressStat", w) /\ ~HasStat(stkeys, w)
      /\ ~Has(guiq, "deleteLater", w)
      /\ disp.pc = "emit" => ~Has(guiq, "taskFinal", w) /\ w \notin closed
FinalIsPosted(w) ==
    Has(guiq, "taskFinal", w) =>
      /\ phase[w] \in {"ended", "deleted"} /\ w \notin closed
      /\ ~Has(guiq, "progressStat", w) /\ ~HasStat(stkeys, w) /\ ~Emitting(w)
ClosedIsSilent(w) ==
    w \in closed =>
      /\ phase[w] \in {"ended", "deleted"}
      /\ ~Has(guiq, "progressStat", w) /\ ~HasStat(stkeys, w) /\ ~Emitting(w)
      /\ ~Has(guiq, "taskStat", w)
ReleasedIsSilent(w) ==
    Has(guiq, "deleteLater", w) \/ phase[w] = "deleted" =>
      /\ phase[w] \in {"ended", "deleted"}
      /\ ~Has(guiq, "progressStat", w) /\ ~HasStat(stkeys, w)
      /\ ~Has(guiq, "workerFinished", w) /\ ~HasEnd(stkeys, w)
      /\ ~Ending(w, {"emit", "remove", "release"})

\* While the worker runs, and until the dispatcher has taken it out, it is the
\* entry of its task.
Pending(w) ==
    \/ phase[w] \in {"created", "running", "returned"}
    \/ Has(guiq, "workerFinished", w)
    \/ HasEnd(stkeys, w)
    \/ Ending(w, {"emit", "remove"})
PendingIsRegistered == \A w \in Apart : Pending(w) => m_tasks[m_tid[w]] = w

Stages == \A w \in Apart :
    /\ DoneIsPosted(w) /\ EndIsQueued(w) /\ EndIsHandled(w)
    /\ FinalIsPosted(w) /\ ClosedIsSilent(w) /\ ReleasedIsSilent(w)

Ordered == EventsInOrder(Apart, guiq) /\ StatsInOrder(Apart, stkeys)
Passage == Ordered /\ Stages /\ PendingIsRegistered /\ EndsMatched

\* What holds of all workers.
Named ==
    /\ TypeOK
    /\ UnbornIsUnknown
    /\ PoolsNamed /\ EndsNamed /\ LocalsNamed

\* With what holds of the workers that are Apart.
IInv == Named /\ Matched /\ Passage

-----------------------------------------------------------------------------
(* Queues: what Append and Tail do to the operators of the invariant.      *)

\* Tail drops the first element and shifts the others by one.
LEMMA TailIndices ==
    ASSUME NEW S, NEW q \in Seq(S), q # <<>>
    PROVE  /\ Tail(q) \in Seq(S) /\ Head(q) = q[1] /\ q[1] \in S /\ 1 \in DOMAIN q
           /\ \A i \in DOMAIN Tail(q) : i + 1 \in DOMAIN q /\ Tail(q)[i] = q[i + 1]
           /\ \A i \in DOMAIN q : i # 1 => i - 1 \in DOMAIN Tail(q)
                                        /\ Tail(q)[i - 1] = q[i]
  BY HeadTailProperties

\* Append keeps the elements and adds one at the end.
LEMMA AppendIndices ==
    ASSUME NEW S, NEW q \in Seq(S), NEW e \in S
    PROVE  /\ Append(q, e) \in Seq(S)
           /\ DOMAIN Append(q, e) = DOMAIN q \cup {Len(q) + 1}
           /\ \A i \in DOMAIN q : Append(q, e)[i] = q[i] /\ i < Len(q) + 1
                                 /\ i \in Nat
           /\ Append(q, e)[Len(q) + 1] = e /\ Len(q) \in Nat
  BY AppendProperties

LEMMA HasTail ==
    ASSUME NEW S, NEW q \in Seq(S), q # <<>>, NEW type, NEW w
    PROVE  Has(q, type, w) <=> \/ Has(Tail(q), type, w)
                               \/ Head(q).type = type /\ Head(q).w = w
  BY TailIndices DEF Has

LEMMA HasAppend ==
    ASSUME NEW S, NEW q \in Seq(S), NEW e \in S, NEW type, NEW w
    PROVE  Has(Append(q, e), type, w) <=> \/ Has(q, type, w)
                                          \/ e.type = type /\ e.w = w
  BY AppendIndices DEF Has

LEMMA StatTail ==
    ASSUME NEW S, NEW q \in Seq(S), q # <<>>, NEW w
    PROVE  /\ HasStat(q, w) <=> \/ HasStat(Tail(q), w)
                                \/ Head(q)[1] >= 0 /\ Head(q)[2][1] = w
           /\ HasEnd(q, w) <=> \/ HasEnd(Tail(q), w)
                               \/ Head(q)[1] < 0 /\ Head(q)[2][1] = w
  <1>1. ASSUME NEW i \in DOMAIN q
        PROVE  q[i] = Head(q) \/ \E j \in DOMAIN Tail(q) : Tail(q)[j] = q[i]
    BY TailIndices
  <1>2. ASSUME NEW j \in DOMAIN Tail(q)
        PROVE  \E i \in DOMAIN q : q[i] = Tail(q)[j]
    BY TailIndices
  <1>3. \E i \in DOMAIN q : q[i] = Head(q)
    BY TailIndices
  <1>4. HasStat(q, w) <=> \/ HasStat(Tail(q), w)
                          \/ Head(q)[1] >= 0 /\ Head(q)[2][1] = w
    BY <1>1, <1>2, <1>3 DEF HasStat
  <1>5. HasEnd(q, w) <=> \/ HasEnd(Tail(q), w)
                         \/ Head(q)[1] < 0 /\ Head(q)[2][1] = w
    <2>1. ASSUME HasEnd(q, w)
          PROVE  HasEnd(Tail(q), w) \/ (Head(q)[1] < 0 /\ Head(q)[2][1] = w)
      BY <1>1, <2>1 DEF HasEnd
    <2>2. ASSUME HasEnd(Tail(q), w) PROVE HasEnd(q, w)
      BY <1>2, <2>2 DEF HasEnd
    <2>3. ASSUME Head(q)[1] < 0, Head(q)[2][1] = w PROVE HasEnd(q, w)
      BY <1>3, <2>3 DEF HasEnd
    <2> QED
      BY <2>1, <2>2, <2>3
  <1> QED
    BY <1>4, <1>5

LEMMA StatAppend ==
    ASSUME NEW S, NEW q \in Seq(S), NEW e \in S, NEW w
    PROVE  /\ HasStat(Append(q, e), w) <=> \/ HasStat(q, w)
                                           \/ e[1] >= 0 /\ e[2][1] = w
           /\ HasEnd(Append(q, e), w) <=> \/ HasEnd(q, w)
                                          \/ e[1] < 0 /\ e[2][1] = w
  BY AppendIndices DEF HasStat, HasEnd

\* Taking the first event keeps the order; what must not follow it is gone.
LEMMA OrderTail ==
    ASSUME NEW S, NEW A, NEW q \in Seq(S), q # <<>>, EventsInOrder(A, q)
    PROVE  /\ EventsInOrder(A, Tail(q))
           /\ Head(q).type = "workerFinished" /\ Head(q).w \in A =>
                /\ ~Has(Tail(q), "progressStat", Head(q).w)
                /\ ~Has(Tail(q), "workerFinished", Head(q).w)
           /\ Head(q).type = "taskFinal" /\ Head(q).w \in A =>
                /\ ~Has(Tail(q), "taskStat", Head(q).w)
                /\ ~Has(Tail(q), "taskFinal", Head(q).w)
  <1>1. \A i \in DOMAIN q : i \in Nat
    OBVIOUS
  <1>2. EventsInOrder(A, Tail(q))
    BY <1>1, TailIndices DEF EventsInOrder
  <1>3. ASSUME NEW i \in DOMAIN Tail(q)
        PROVE  /\ Tail(q)[i] = q[i + 1] /\ i + 1 \in DOMAIN q /\ 1 < i + 1
               /\ 1 \in DOMAIN q /\ Head(q) = q[1]
    BY TailIndices
  <1> QED
    BY <1>2, <1>3 DEF EventsInOrder, Has

LEMMA OrderAppend ==
    ASSUME NEW S, NEW A, NEW q \in Seq(S), NEW e \in S, EventsInOrder(A, q),
           e.w \in A /\ e.type \in {"progressStat", "workerFinished"}
             => ~Has(q, "workerFinished", e.w),
           e.w \in A /\ e.type \in {"taskStat", "taskFinal"}
             => ~Has(q, "taskFinal", e.w)
    PROVE  EventsInOrder(A, Append(q, e))
  BY AppendIndices DEF EventsInOrder, Has

LEMMA StatOrderTail ==
    ASSUME NEW S, NEW A, NEW q \in Seq(S), q # <<>>, StatsInOrder(A, q)
    PROVE  /\ StatsInOrder(A, Tail(q))
           /\ Head(q)[1] < 0 /\ Head(q)[2][1] \in A =>
                /\ ~HasStat(Tail(q), Head(q)[2][1])
                /\ ~HasEnd(Tail(q), Head(q)[2][1])
  <1>1. \A i \in DOMAIN q : i \in Nat
    OBVIOUS
  <1>2. StatsInOrder(A, Tail(q))
    <2>1. SUFFICES ASSUME NEW i \in DOMAIN Tail(q), NEW j \in DOMAIN Tail(q),
                          i < j, Tail(q)[i][1] < 0, Tail(q)[i][2][1] \in A
                   PROVE  Tail(q)[j][2][1] # Tail(q)[i][2][1]
      BY DEF StatsInOrder
    <2>2. /\ i + 1 \in DOMAIN q /\ Tail(q)[i] = q[i + 1]
          /\ j + 1 \in DOMAIN q /\ Tail(q)[j] = q[j + 1]
      BY TailIndices
    <2>3. i + 1 < j + 1
      BY <1>1, <2>1, HeadTailProperties
    <2> QED
      BY <2>1, <2>2, <2>3 DEF StatsInOrder
  <1>3. ASSUME NEW i \in DOMAIN Tail(q)
        PROVE  /\ Tail(q)[i] = q[i + 1] /\ i + 1 \in DOMAIN q /\ 1 < i + 1
               /\ 1 \in DOMAIN q /\ Head(q) = q[1]
    BY TailIndices
  <1> QED
    BY <1>2, <1>3 DEF StatsInOrder, HasStat, HasEnd

LEMMA StatOrderAppend ==
    ASSUME NEW S, NEW A, NEW q \in Seq(S), NEW e \in S, StatsInOrder(A, q),
           e[2][1] \in A => ~HasEnd(q, e[2][1])
    PROVE  StatsInOrder(A, Append(q, e))
  BY AppendIndices DEF StatsInOrder, HasEnd
-----------------------------------------------------------------------------
(* Types and names.                                                        *)

LEMMA NamedInit == Init => Named
  <1> SUFFICES ASSUME Init PROVE Named
    OBVIOUS
  <1>1. TypeOK
    BY ConstantsAssumption
    DEF Init, TypeOK, Phases, Faults, Finals, Codes, Collectors, NoStat, Idle
  <1>2. UnbornIsUnknown
    BY ConstantsAssumption
    DEF Init, UnbornIsUnknown, Has, HasStat, HasEnd, Idle, NoStat
  <1>3. PoolsNamed /\ EndsNamed /\ LocalsNamed
    BY DEF Init, PoolsNamed, EndsNamed, LocalsNamed, Idle
  <1> QED
    BY <1>1, <1>2, <1>3 DEF Named

LEMMA NamedAddTask ==
    ASSUME Named, NEW t \in Tids, NEW w \in Workers, AddTask(t, w)
    PROVE  Named'
  <1> USE DEF Named, history
  <1>1. TypeOK'
    BY DEF AddTask, Register, TypeOK, Phases, Finals, collecting
  <1>2. UnbornIsUnknown'
    BY ConstantsAssumption
    DEF AddTask, Register, TypeOK, UnbornIsUnknown, Has, HasStat, HasEnd
  <1>3. PoolsNamed' /\ EndsNamed' /\ LocalsNamed'
    BY DEF AddTask, PoolsNamed, EndsNamed, LocalsNamed, collecting
  <1> QED
    BY <1>1, <1>2, <1>3

LEMMA NamedPauseTask ==
    ASSUME Named, NEW t \in Tids, PauseTask(t)
    PROVE  Named'
  <1> USE DEF Named, history
  <1>1. TypeOK'
    BY DEF PauseTask, TypeOK, Faults, tables, collecting, gui
  <1>2. UnbornIsUnknown'
    BY DEF PauseTask, UnbornIsUnknown, tables, gui
  <1>3. PoolsNamed' /\ EndsNamed' /\ LocalsNamed'
    BY DEF PauseTask, PoolsNamed, EndsNamed, LocalsNamed, collecting
  <1> QED
    BY <1>1, <1>2, <1>3

LEMMA NamedWorker ==
    ASSUME Named, NEW w \in Workers, WorkerThread(w)
    PROVE  Named'
  <1> USE DEF Named, history
  <1>1. CASE Prepare(w)
    <2>1. TypeOK'
      BY <1>1, ConstantsAssumption
      DEF Prepare, TypeOK, Phases, tables, collecting, gui
    <2>2. UnbornIsUnknown'
      BY <1>1 DEF Prepare, TypeOK, UnbornIsUnknown, tables, gui
    <2>3. PoolsNamed' /\ EndsNamed' /\ LocalsNamed'
      BY <1>1 DEF Prepare, PoolsNamed, EndsNamed, LocalsNamed, collecting
    <2> QED
      BY <2>1, <2>2, <2>3
  <1>2. CASE BeginCalc(w)
    <2>1. TypeOK'
      <3>1. <<w, calc[w].calls + 1>> \in Collectors
        BY DEF TypeOK, Collectors
      <3>2. PICK n \in EmitCounts :
              /\ calc' = [calc EXCEPT ![w] = [calls |-> calc[w].calls + 1, left |-> n]]
              /\ twice' \subseteq twice \cup {<<w, calc[w].calls + 1>>}
        BY <1>2 DEF BeginCalc
      <3>3. calc' \in [Workers -> [calls : Nat, left : Nat]]
        BY <3>2, ConstantsAssumption DEF TypeOK
      <3>4. twice' \subseteq Collectors /\ heap' \subseteq Collectors
        BY <1>2, <3>1, <3>2 DEF BeginCalc, TypeOK
      <3> QED
        BY <1>2, <3>3, <3>4 DEF BeginCalc, TypeOK, tables, threads, gui
    <2>2. UnbornIsUnknown'
      BY <1>2 DEF BeginCalc, UnbornIsUnknown, tables, threads, gui
    <2>3. PoolsNamed' /\ EndsNamed' /\ LocalsNamed'
      BY <1>2 DEF BeginCalc, PoolsNamed, EndsNamed, LocalsNamed
    <2> QED
      BY <2>1, <2>2, <2>3
  <1>3. CASE EmitStat(w)
    <2> DEFINE e == ProgressStat(w, poolCounter)
    <2>1. e \in Events /\ e.type = "progressStat" /\ e.w = w
      BY DEF TypeOK, ProgressStat, Event, Events
    <2>2. guiq \in Seq(Events) /\ guiq' = Append(guiq, e)
      BY <1>3 DEF EmitStat, TypeOK
    <2>3. guiq' \in Seq(Events)
      BY <2>1, <2>2, AppendIndices
    <2>4. TypeOK'
      <3>1. calc' \in [Workers -> [calls : Nat, left : Nat]]
        BY <1>3 DEF EmitStat, TypeOK
      <3>2. <<poolCounter, <<w, calc[w].calls>>>> \in Nat \X Collectors
        BY DEF TypeOK, Collectors
      <3>3. statPool' \in [Workers -> SUBSET (Nat \X Collectors)]
        BY <1>3, <3>2 DEF EmitStat, TypeOK
      <3>4. poolCounter' \in Nat \ {0}
        BY <1>3 DEF EmitStat, TypeOK
      <3> QED
        BY <1>3, <2>3, <3>1, <3>3, <3>4 DEF EmitStat, TypeOK, tables, threads, gui
    <2>5. UnbornIsUnknown'
      <3>1. \A type, v : Has(guiq', type, v) <=>
                          \/ Has(guiq, type, v)
                          \/ type = "progressStat" /\ v = w
        BY <2>1, <2>2, HasAppend
      <3> QED
        BY <1>3, <3>1 DEF EmitStat, UnbornIsUnknown, tables, threads, gui
    <2>6. PoolsNamed' /\ EndsNamed' /\ LocalsNamed'
      BY <1>3 DEF EmitStat, TypeOK, PoolsNamed, EndsNamed, LocalsNamed
    <2> QED
      BY <2>4, <2>5, <2>6
  <1>4. CASE Return(w)
    <2>1. TypeOK'
      BY <1>4, ConstantsAssumption
      DEF Return, TypeOK, Phases, tables, collecting, gui
    <2>2. UnbornIsUnknown'
      BY <1>4 DEF Return, TypeOK, UnbornIsUnknown, tables, gui
    <2>3. PoolsNamed' /\ EndsNamed' /\ LocalsNamed'
      BY <1>4 DEF Return, PoolsNamed, EndsNamed, LocalsNamed, collecting
    <2> QED
      BY <2>1, <2>2, <2>3
  <1>5. CASE Finished(w)
    <2> DEFINE e == WorkerDone(w)
    <2>1. e \in Events /\ e.type = "workerFinished" /\ e.w = w
      BY DEF WorkerDone, Event, Events
    <2>2. guiq \in Seq(Events) /\ guiq' = Append(guiq, e)
      BY <1>5 DEF Finished, PostDone, TypeOK
    <2>3. guiq' \in Seq(Events)
      BY <2>1, <2>2, AppendIndices
    <2>4. TypeOK'
      BY <1>5, <2>3 DEF Finished, TypeOK, Phases, tables, collecting, gui
    <2>5. UnbornIsUnknown'
      <3>1. \A type, v : Has(guiq', type, v) <=>
                          \/ Has(guiq, type, v)
                          \/ type = "workerFinished" /\ v = w
        BY <2>1, <2>2, HasAppend
      <3> QED
        BY <1>5, <3>1 DEF Finished, TypeOK, UnbornIsUnknown, tables, gui
    <2>6. PoolsNamed' /\ EndsNamed' /\ LocalsNamed'
      BY <1>5 DEF Finished, PoolsNamed, EndsNamed, LocalsNamed, collecting
    <2> QED
      BY <2>4, <2>5, <2>6
  <1>6. CASE WriteToFreed(w)
    <2>1. TypeOK'
      BY <1>6 DEF WriteToFreed, TypeOK, Faults, tables, threads, collecting, gui
    <2>2. UnbornIsUnknown'
      BY <1>6 DEF WriteToFreed, UnbornIsUnknown, tables, threads, gui
    <2>3. PoolsNamed' /\ EndsNamed' /\ LocalsNamed'
      BY <1>6 DEF WriteToFreed, PoolsNamed, EndsNamed, LocalsNamed, collecting
    <2> QED
      BY <2>1, <2>2, <2>3
  <1> QED
    BY <1>1, <1>2, <1>3, <1>4, <1>5, <1>6 DEF WorkerThread

\* The types of the elements of stkeys.
Elems == Int \X (Collectors \cup {NoStat})

\* What a handled event says about the queue of posted events.
LEMMA TakenEvent ==
    ASSUME TypeOK, NEW type, NextEvent(type)
    PROVE  /\ Head(guiq) \in Events /\ Head(guiq).w \in Workers
           /\ Head(guiq).key \in Nat /\ Head(guiq).type = type
           /\ Has(guiq, type, Head(guiq).w)
           /\ guiq' = Tail(guiq) /\ guiq' \in Seq(Events)
           /\ guiq \in Seq(Events) /\ guiq # <<>>
           /\ \A any, w : Has(guiq', any, w) => Has(guiq, any, w)
  <1>1. guiq \in Seq(Events) /\ guiq # <<>> /\ guiq' = Tail(guiq)
        /\ Head(guiq).type = type
    BY DEF TypeOK, NextEvent
  <1>2. guiq' \in Seq(Events) /\ Head(guiq) \in Events
    BY <1>1, TailIndices
  <1>3. Head(guiq).w \in Workers /\ Head(guiq).key \in Nat
    BY <1>2 DEF Events
  <1>4. \A any, w : Has(guiq, any, w)
                      <=> Has(guiq', any, w) \/ (type = any /\ Head(guiq).w = w)
    BY <1>1, HasTail
  <1> QED
    BY <1>1, <1>2, <1>3, <1>4

\* What onAllStatArrived puts into stkeys: a collector of the sender, or null.
LEMMA ArrivedStat ==
    ASSUME Named, OnAllStatArrived
    PROVE  \/ UNCHANGED stkeys
           \/ \E e \in Elems :
                /\ stkeys' = Append(stkeys, e) /\ e[1] >= 0
                /\ \/ e[2] = NoStat
                   \/ e[2] \in Collectors /\ e[2][1] = Head(guiq).w
  <1> DEFINE w == Head(guiq).w
             key == Head(guiq).key
             taken == {p \in statPool[w] : p[1] = key}
  <1>1. w \in Workers /\ key \in Nat
    BY TakenEvent DEF Named, OnAllStatArrived
  <1>2. statPool[w] \in SUBSET (Nat \X Collectors)
    BY <1>1 DEF Named, TypeOK
  <1>3. CASE UNCHANGED stkeys
    BY <1>3
  <1>4. CASE \E p \in taken : stkeys' = Append(stkeys, p)
    <2>1. PICK p \in taken : stkeys' = Append(stkeys, p)
      BY <1>4
    <2>2. p[1] \in Nat /\ p[2] \in Collectors /\ p \in Elems
      BY <1>2, <2>1 DEF Elems
    <2>3. p[2][1] = w
      BY <1>1, <2>1 DEF Named, PoolsNamed
    <2> QED
      BY <2>1, <2>2, <2>3
  <1>5. CASE stkeys' = Append(stkeys, <<key, NoStat>>)
    <2>1. <<key, NoStat>> \in Elems
      BY <1>1 DEF Elems
    <2> QED
      BY <1>1, <1>5, <2>1
  <1> QED
    BY <1>3, <1>4, <1>5 DEF OnAllStatArrived

LEMMA NamedArrived == Named /\ OnAllStatArrived => Named'
  <1> SUFFICES ASSUME Named, OnAllStatArrived PROVE Named'
    OBVIOUS
  <1> USE DEF Named, history
  <1>1. /\ Head(guiq).w \in Workers /\ guiq' \in Seq(Events)
        /\ Has(guiq, "progressStat", Head(guiq).w)
        /\ \A any, w : Has(guiq', any, w) => Has(guiq, any, w)
    BY TakenEvent DEF OnAllStatArrived
  <1>2. stkeys \in Seq(Elems)
    BY DEF TypeOK, Elems
  <1>3. phase[Head(guiq).w] # "unborn"
    BY <1>1 DEF UnbornIsUnknown, EventTypes
  <1>4. /\ stkeys' \in Seq(Elems)
        /\ \A w \in Workers :
             /\ HasEnd(stkeys', w) <=> HasEnd(stkeys, w)
             /\ HasStat(stkeys', w) => HasStat(stkeys, w) \/ w = Head(guiq).w
        /\ EndsNamed'
    <2>1. CASE UNCHANGED stkeys
      BY <1>2, <2>1 DEF EndsNamed, HasEnd, HasStat
    <2>2. ASSUME NEW e \in Elems, stkeys' = Append(stkeys, e), e[1] >= 0,
                 \/ e[2] = NoStat
                 \/ e[2] \in Collectors /\ e[2][1] = Head(guiq).w
          PROVE  <1>4!1 /\ <1>4!2 /\ <1>4!3
      <3>1. e[1] \in Int /\ ~(e[1] < 0)
        BY <2>2 DEF Elems
      <3>2. \A w \in Workers : e[2][1] = w => w = Head(guiq).w
        BY <2>2, ConstantsAssumption DEF NoStat
      <3>3. stkeys' \in Seq(Elems)
        BY <1>2, <2>2, AppendIndices
      <3>4. \A w : /\ HasStat(stkeys', w) <=> \/ HasStat(stkeys, w)
                                              \/ e[1] >= 0 /\ e[2][1] = w
                   /\ HasEnd(stkeys', w) <=> \/ HasEnd(stkeys, w)
                                             \/ e[1] < 0 /\ e[2][1] = w
        BY <1>2, <2>2, StatAppend
      <3>5. EndsNamed'
        BY <1>2, <2>2, <3>1, AppendIndices DEF EndsNamed
      <3> QED
        BY <3>1, <3>2, <3>3, <3>4, <3>5
    <2> QED
      BY <2>1, <2>2, ArrivedStat
  <1>5. \/ UNCHANGED statPool
        \/ \E taken : statPool' = [statPool EXCEPT ![Head(guiq).w] = @ \ taken]
    BY DEF OnAllStatArrived, TakeFromPool
  <1>6. TypeOK'
    <2> DEFINE Pools == SUBSET (Nat \X Collectors)
    <2>1. statPool \in [Workers -> Pools]
      BY DEF TypeOK
    <2>2. \A pool \in Pools : \A taken : pool \ taken \in Pools
      OBVIOUS
    <2> HIDE DEF Pools
    <2>3. statPool' \in [Workers -> Pools]
      <3>1. CASE UNCHANGED statPool
        BY <2>1, <3>1
      <3>2. ASSUME NEW taken,
                   statPool' = [statPool EXCEPT ![Head(guiq).w] = @ \ taken]
            PROVE  statPool' \in [Workers -> Pools]
        <4>1. statPool[Head(guiq).w] \ taken \in Pools
          BY <1>1, <2>1, <2>2
        <4> QED
          BY <2>1, <3>2, <4>1
      <3> QED
        BY <1>5, <3>1, <3>2
    <2> USE DEF Pools
    <2> QED
      BY <1>1, <1>4, <2>3
      DEF OnAllStatArrived, TypeOK, Elems, Faults, tables, threads
  <1>7. UnbornIsUnknown'
    BY <1>1, <1>3, <1>4 DEF OnAllStatArrived, UnbornIsUnknown, tables, threads
  <1>8. PoolsNamed'
    <2>1. CASE UNCHANGED statPool
      BY <2>1 DEF PoolsNamed
    <2>2. ASSUME NEW taken,
                 statPool' = [statPool EXCEPT ![Head(guiq).w] = @ \ taken]
          PROVE  PoolsNamed'
      <3>1. statPool \in [Workers -> SUBSET (Nat \X Collectors)]
        BY DEF TypeOK
      <3>2. PoolsNamed
        OBVIOUS
      <3> HIDE DEF Named
      <3> QED
        BY <2>2, <3>1, <3>2 DEF PoolsNamed
    <2> QED
      BY <1>5, <2>1, <2>2
  <1>9. LocalsNamed'
    BY DEF OnAllStatArrived, LocalsNamed
  <1> QED
    BY <1>4, <1>6, <1>7, <1>8, <1>9

LEMMA NamedWorkerFinished == Named /\ OnWorkerFinished => Named'
  <1> SUFFICES ASSUME Named, OnWorkerFinished PROVE Named'
    OBVIOUS
  <1> USE DEF Named, history
  <1> DEFINE w == Head(guiq).w
             e == <<doneCounter, <<w, 0>>>>
  <1>1. /\ w \in Workers /\ guiq' \in Seq(Events)
        /\ Has(guiq, "workerFinished", w)
        /\ \A any, v : Has(guiq', any, v) => Has(guiq, any, v)
    BY TakenEvent DEF OnWorkerFinished
  <1>2. CASE phase[w] = "deleted"
    <2>1. /\ UNCHANGED <<heap, stkeys, doneCounter, gpc>>
          /\ fault' = "nullSender"
      BY <1>2 DEF OnWorkerFinished
    <2>2. TypeOK'
      BY <1>1, <2>1
      DEF OnWorkerFinished, TypeOK, Faults, tables, threads, collecting
    <2>3. UnbornIsUnknown' /\ PoolsNamed' /\ EndsNamed' /\ LocalsNamed'
      BY <1>1, <2>1 DEF OnWorkerFinished, UnbornIsUnknown, PoolsNamed, EndsNamed,
                        LocalsNamed, tables, threads, collecting
    <2> QED
      BY <2>2, <2>3
  <1>3. SUFFICES ASSUME phase[w] # "deleted" PROVE Named'
    BY <1>2
  <1>4. /\ heap' = heap \cup {<<w, 0>>} /\ stkeys' = Append(stkeys, e)
        /\ doneCounter' = doneCounter - 1 /\ gpc' = "wake" /\ UNCHANGED fault
    BY <1>3 DEF OnWorkerFinished
  <1>5. e \in Elems /\ e[2] = <<w, 0>> /\ e[2][1] = w /\ e[2] # NoStat
    BY <1>1, ConstantsAssumption DEF TypeOK, Elems, Collectors, NoStat
  <1>6. stkeys \in Seq(Elems) /\ stkeys' = Append(stkeys, e)
    BY <1>4 DEF TypeOK, Elems
  <1>7. stkeys' \in Seq(Elems)
    BY <1>5, <1>6, AppendIndices
  <1>8. \A v : /\ HasStat(stkeys', v) => HasStat(stkeys, v) \/ v = w
               /\ HasEnd(stkeys', v) => HasEnd(stkeys, v) \/ v = w
    BY <1>5, <1>6, StatAppend
  <1>9. phase[w] # "unborn"
    BY <1>1 DEF UnbornIsUnknown, EventTypes
  <1>10. TypeOK'
    <2>1. <<w, 0>> \in Collectors
      BY <1>1 DEF Collectors
    <2>2. heap' \subseteq Collectors
      BY <1>4, <2>1 DEF TypeOK
    <2>3. doneCounter' \in Int /\ doneCounter' < 0
      BY <1>4 DEF TypeOK
    <2> QED
      BY <1>1, <1>7, <1>4, <2>2, <2>3
      DEF OnWorkerFinished, TypeOK, Elems, tables, threads, collecting
  <1>11. UnbornIsUnknown'
    BY <1>1, <1>8, <1>9 DEF OnWorkerFinished, UnbornIsUnknown, tables, threads
  <1>12. EndsNamed'
    BY <1>5, <1>6, AppendIndices DEF EndsNamed
  <1>13. PoolsNamed' /\ LocalsNamed'
    BY DEF OnWorkerFinished, PoolsNamed, LocalsNamed, collecting
  <1> QED
    BY <1>10, <1>11, <1>12, <1>13

LEMMA NamedGui == Named /\ GuiThread => Named'
  <1> SUFFICES ASSUME Named, GuiThread PROVE Named'
    OBVIOUS
  <1> USE DEF Named, history
  <1>1. CASE Wake
    <2>1. TypeOK'
      BY <1>1 DEF Wake, Start, TypeOK, tables, threads, collecting
    <2>2. UnbornIsUnknown' /\ PoolsNamed' /\ EndsNamed' /\ LocalsNamed'
      BY <1>1 DEF Wake, Start, TypeOK, UnbornIsUnknown, PoolsNamed, EndsNamed,
                  LocalsNamed, tables, threads, collecting
    <2> QED
      BY <2>1, <2>2
  <1>2. CASE OnTaskStat
    <2>1. /\ guiq' \in Seq(Events)
          /\ \A any, v : Has(guiq', any, v) => Has(guiq, any, v)
      BY <1>2, TakenEvent DEF OnTaskStat
    <2>2. TypeOK'
      BY <1>2, <2>1 DEF OnTaskStat, TypeOK, Show, tables, threads, collecting
    <2>3. UnbornIsUnknown' /\ PoolsNamed' /\ EndsNamed' /\ LocalsNamed'
      BY <1>2, <2>1 DEF OnTaskStat, UnbornIsUnknown, PoolsNamed, EndsNamed,
                        LocalsNamed, tables, threads, collecting
    <2> QED
      BY <2>2, <2>3
  <1>3. CASE OnTaskFinal
    <2>1. /\ Head(guiq) \in Events /\ Head(guiq).w \in Workers
          /\ Has(guiq, "taskFinal", Head(guiq).w)
          /\ guiq' \in Seq(Events)
          /\ \A any, v : Has(guiq', any, v) => Has(guiq, any, v)
          /\ Head(guiq).type = "taskFinal"
      BY <1>3, TakenEvent DEF OnTaskFinal
    <2>2. Head(guiq).status \in Finals
      BY <2>1 DEF Events
    <2>3. phase[Head(guiq).w] # "unborn"
      BY <2>1 DEF UnbornIsUnknown, EventTypes
    <2>4. TypeOK'
      BY <1>3, <2>1, <2>2
      DEF OnTaskFinal, TypeOK, Show, tables, threads, collecting
    <2>5. UnbornIsUnknown' /\ PoolsNamed' /\ EndsNamed' /\ LocalsNamed'
      BY <1>3, <2>1, <2>3 DEF OnTaskFinal, UnbornIsUnknown, PoolsNamed, EndsNamed,
                              LocalsNamed, tables, threads, collecting
    <2> QED
      BY <2>4, <2>5
  <1>4. CASE OnDeleteLater
    <2>1. /\ Head(guiq).w \in Workers /\ guiq' \in Seq(Events)
          /\ \A any, v : Has(guiq', any, v) => Has(guiq, any, v)
      BY <1>4, TakenEvent DEF OnDeleteLater
    <2>2. TypeOK'
      <3>1. phase' \in [Workers -> Phases] /\ fault' \in Faults
        BY <1>4, <2>1 DEF OnDeleteLater, TypeOK, Phases, Faults
      <3>2. statPool' \in [Workers -> SUBSET (Nat \X Collectors)]
        BY <1>4, <2>1 DEF OnDeleteLater, TypeOK
      <3> QED
        BY <1>4, <2>1, <3>1, <3>2 DEF OnDeleteLater, TypeOK, tables, gui
    <2>3. UnbornIsUnknown'
      BY <1>4, <2>1 DEF OnDeleteLater, TypeOK, UnbornIsUnknown, tables, gui
    <2>4. PoolsNamed'
      <3>1. \A v \in Workers : statPool'[v] \subseteq statPool[v]
        BY <1>4, <2>1 DEF OnDeleteLater, TypeOK
      <3> QED
        BY <3>1 DEF PoolsNamed
    <2>5. EndsNamed' /\ LocalsNamed'
      BY <1>4 DEF OnDeleteLater, EndsNamed, LocalsNamed
    <2> QED
      BY <2>2, <2>3, <2>4, <2>5
  <1> QED
    BY <1>1, <1>2, <1>3, <1>4, NamedArrived, NamedWorkerFinished DEF GuiThread

\* What Dequeue says about the queue of collectors.
LEMMA TakenElem ==
    ASSUME Named, Dequeue
    PROVE  /\ stkeys \in Seq(Elems) /\ stkeys # <<>> /\ Head(stkeys) \in Elems
           /\ stkeys' = Tail(stkeys) /\ stkeys' \in Seq(Elems)
           /\ Head(stkeys)[1] \in Int
           /\ Head(stkeys)[2] \in Collectors \cup {NoStat}
           /\ Head(stkeys)[1] < 0 => Head(stkeys)[2] # NoStat
           /\ EndsNamed'
           /\ \A w : HasStat(stkeys', w) => HasStat(stkeys, w)
           /\ \A w : HasEnd(stkeys', w) => HasEnd(stkeys, w)
           /\ \A w : Head(stkeys)[2][1] = w => HasStat(stkeys, w) \/ HasEnd(stkeys, w)
  <1>1. stkeys \in Seq(Elems) /\ stkeys # <<>> /\ stkeys' = Tail(stkeys)
    BY DEF Named, TypeOK, Elems, Dequeue
  <1>2. Head(stkeys) \in Elems /\ stkeys' \in Seq(Elems)
    BY <1>1, TailIndices
  <1>3. Head(stkeys)[1] \in Int /\ Head(stkeys)[2] \in Collectors \cup {NoStat}
    BY <1>2 DEF Elems
  <1>4. Head(stkeys)[1] < 0 => Head(stkeys)[2] # NoStat
    BY <1>1, TailIndices DEF Named, EndsNamed
  <1>5. EndsNamed'
    BY <1>1, TailIndices DEF Named, EndsNamed
  <1>6. \A w : /\ HasStat(stkeys, w) <=> \/ HasStat(stkeys', w)
                                         \/ Head(stkeys)[1] >= 0 /\ Head(stkeys)[2][1] = w
               /\ HasEnd(stkeys, w) <=> \/ HasEnd(stkeys', w)
                                        \/ Head(stkeys)[1] < 0 /\ Head(stkeys)[2][1] = w
    BY <1>1, StatTail
  <1> QED
    BY <1>1, <1>2, <1>3, <1>4, <1>5, <1>6

LEMMA NamedDequeue == Named /\ Dequeue => Named'
  <1> SUFFICES ASSUME Named, Dequeue PROVE Named'
    OBVIOUS
  <1> USE DEF Named, history
  <1> DEFINE key  == Head(stkeys)[1]
             sclt == Head(stkeys)[2]
             w    == sclt[1]
  <1>1. NoStat \notin heap
    BY ConstantsAssumption DEF TypeOK, NoStat, Collectors
  <1>2. CASE sclt = NoStat \/ sclt \notin heap
    <2>1. UNCHANGED <<m_tasks, disp>> /\ fault' \in {"nullStat", "useAfterFree"}
      BY <1>1, <1>2 DEF Dequeue
    <2>2. TypeOK'
      BY <2>1, TakenElem
      DEF Dequeue, TypeOK, Elems, Faults, threads, collecting, gui
    <2>3. UnbornIsUnknown'
      <3>1. UNCHANGED <<m_tasks, disp, guiq, closed, phase, m_tid>>
        BY <2>1 DEF Dequeue, threads, gui
      <3>2. \A v : /\ HasStat(stkeys', v) => HasStat(stkeys, v)
                   /\ HasEnd(stkeys', v) => HasEnd(stkeys, v)
        BY TakenElem
      <3> QED
        BY <3>1, <3>2 DEF UnbornIsUnknown
    <2>4. PoolsNamed' /\ LocalsNamed'
      BY <2>1 DEF Dequeue, PoolsNamed, LocalsNamed, collecting
    <2> QED
      BY <2>2, <2>3, <2>4, TakenElem
  <1>3. CASE sclt # NoStat /\ sclt \in heap
    <2>1. sclt \in Collectors /\ w \in Workers
      BY <1>3, TakenElem DEF Collectors
    <2>2. phase[w] # "unborn" /\ m_tid[w] \in Tids
      BY <2>1, TakenElem DEF UnbornIsUnknown, TypeOK
    <2>3. /\ m_tasks' = IF m_tasks[m_tid[w]] = NoEntry
                        THEN [m_tasks EXCEPT ![m_tid[w]] = Null] ELSE m_tasks
          /\ disp' = [pc |-> "emit", key |-> key, sclt |-> sclt,
                      eaw |-> m_tasks'[m_tid[w]]]
          /\ UNCHANGED fault
      BY <1>3 DEF Dequeue
    <2>4. /\ m_tasks' \in [Tids -> Workers \cup {NoEntry, Null}]
          /\ m_tasks'[m_tid[w]] \in Workers \cup {Null}
          /\ \A t \in Tids : m_tasks'[t] \in {m_tasks[t], Null}
          /\ m_tasks'[m_tid[w]] \in {m_tasks[m_tid[w]], Null}
      BY <2>2, <2>3 DEF TypeOK
    <2>5. TypeOK'
      <3>1. disp' \in [pc : {"idle", "test", "emit", "remove", "release", "free",
                             "leave"},
                       key : Int, sclt : Collectors \cup {NoStat},
                       eaw : Workers \cup {NoEntry, Null}]
        BY <2>1, <2>3, <2>4, TakenElem
      <3> QED
        BY <2>3, <2>4, <3>1, TakenElem
        DEF Dequeue, TypeOK, Elems, Faults, threads, collecting, gui
    <2>6. UnbornIsUnknown'
      <3>1. UNCHANGED <<guiq, closed, phase, m_tid>>
        BY DEF Dequeue, threads, gui
      <3>2. \A v : /\ HasStat(stkeys', v) => HasStat(stkeys, v)
                   /\ HasEnd(stkeys', v) => HasEnd(stkeys, v)
        BY TakenElem
      <3>3. disp'.sclt[1] = w /\ disp'.eaw = m_tasks'[m_tid[w]]
        BY <2>3
      <3>4. \A v \in Workers : phase[v] = "unborn" =>
              /\ disp'.sclt[1] # v /\ disp'.eaw # v
              /\ \A t \in Tids : m_tasks'[t] # v
        BY <2>2, <2>4, <3>3, ConstantsAssumption DEF UnbornIsUnknown
      <3> QED
        BY <3>1, <3>2, <3>4 DEF UnbornIsUnknown
    <2>7. PoolsNamed' /\ LocalsNamed'
      BY <1>3, <2>3, <2>4, ConstantsAssumption
      DEF Dequeue, PoolsNamed, LocalsNamed, collecting
    <2> QED
      BY <2>5, <2>6, <2>7, TakenElem
  <1> QED
    BY <1>2, <1>3

\* The locals of the dispatcher.
Locals == [pc : {"idle", "test", "emit", "remove", "release", "free", "leave"},
           key : Int, sclt : Collectors \cup {NoStat},
           eaw : Workers \cup {NoEntry, Null}]

\* Outside the loop the locals name no worker.
LEMMA IdleLocals ==
    /\ Idle \in Locals
    /\ \A w \in Workers : Idle.sclt[1] # w /\ Idle.eaw # w
  BY ConstantsAssumption DEF Idle, NoStat, Locals

LEMMA NamedDispatcher == Named /\ Dispatcher => Named'
  <1> SUFFICES ASSUME Named, Dispatcher PROVE Named'
    OBVIOUS
  <1> USE DEF Named, history
  <1>1. CASE SeeEmpty \/ Leave
    <2>1. /\ UNCHANGED <<tables, threads, collecting, heap, guiq, gui, stkeys,
                       doneCounter, fault, history>>
          /\ disp' = [disp EXCEPT !.pc = "leave"] \/ disp' = Idle
      BY <1>1 DEF SeeEmpty, Leave
    <2>2. disp' \in Locals
      BY <2>1, IdleLocals DEF TypeOK, Locals
    <2>3. TypeOK'
      BY <2>1, <2>2 DEF TypeOK, Locals, tables, threads, collecting, gui, history
    <2>4. \A w \in Workers : /\ disp.sclt[1] # w => disp'.sclt[1] # w
                             /\ disp.eaw # w => disp'.eaw # w
      BY <2>1, IdleLocals DEF TypeOK
    <2>5. UnbornIsUnknown'
      BY <2>1, <2>4 DEF UnbornIsUnknown, tables, threads, gui
    <2>6. disp'.pc \in {"leave", "idle"}
      BY <2>1 DEF TypeOK, Idle
    <2>7. PoolsNamed' /\ EndsNamed' /\ LocalsNamed'
      BY <2>1, <2>6 DEF PoolsNamed, EndsNamed, LocalsNamed, collecting
    <2> QED
      BY <2>3, <2>5, <2>7
  <1>2. CASE DispatchStat
    <2> DEFINE e == TaskStat(disp.sclt[1])
    <2>1. disp.sclt[1] \in Workers
      BY <1>2 DEF DispatchStat, TypeOK, LocalsNamed, Collectors
    <2>2. e \in Events /\ e.type = "taskStat" /\ e.w = disp.sclt[1]
      BY <2>1 DEF TaskStat, Event, Events
    <2>3. guiq \in Seq(Events) /\ guiq' = Append(guiq, e)
      BY <1>2 DEF DispatchStat, TypeOK
    <2>4. guiq' \in Seq(Events)
      BY <2>2, <2>3, AppendIndices
    <2>5. TypeOK'
      BY <1>2, <2>4 DEF DispatchStat, TypeOK, tables, threads, collecting, gui
    <2>6. UnbornIsUnknown'
      <3>1. \A type, v : Has(guiq', type, v) => Has(guiq, type, v) \/ v = disp.sclt[1]
        BY <2>2, <2>3, HasAppend
      <3> QED
        BY <1>2, <3>1
        DEF DispatchStat, TypeOK, UnbornIsUnknown, tables, threads, gui
    <2>7. PoolsNamed' /\ EndsNamed' /\ LocalsNamed'
      BY <1>2 DEF DispatchStat, TypeOK, PoolsNamed, EndsNamed, LocalsNamed,
                  collecting
    <2> QED
      BY <2>5, <2>6, <2>7
  <1>3. CASE ConfirmFinished
    <2>1. CASE UNCHANGED guiq
      <3>1. TypeOK'
        <4>1. disp'.pc \in {"emit", "free", "remove"}
              /\ disp' = [disp EXCEPT !.pc = disp'.pc]
          BY <1>3 DEF ConfirmFinished, TypeOK
        <4>2. fault' \in Faults
          BY <1>3 DEF ConfirmFinished, TypeOK, Faults
        <4> QED
          BY <1>3, <2>1, <4>1, <4>2
          DEF ConfirmFinished, TypeOK, tables, threads, collecting, gui
      <3>2. UnbornIsUnknown'
        BY <1>3, <2>1 DEF ConfirmFinished, TypeOK, UnbornIsUnknown, tables,
                          threads, gui
      <3>3. PoolsNamed' /\ EndsNamed' /\ LocalsNamed'
        BY <1>3 DEF ConfirmFinished, TypeOK, PoolsNamed, EndsNamed,
                    LocalsNamed, collecting
      <3> QED
        BY <3>1, <3>2, <3>3
    <2>2. CASE ~UNCHANGED guiq
      <3> DEFINE status == FinalStatus(exit_status[disp.eaw])
                 e == TaskFinal(disp.eaw, status)
      <3>1. disp.eaw \in Workers
        BY <1>3, <2>2 DEF ConfirmFinished, TypeOK, LocalsNamed
      <3>2. status \in Finals
        BY DEF FinalStatus, Finals
      <3>3. e \in Events /\ e.type = "taskFinal" /\ e.w = disp.eaw
        <4> HIDE DEF status
        <4> QED
          BY <3>1, <3>2 DEF TaskFinal, Event, Events
      <3>4. guiq \in Seq(Events) /\ guiq' = Append(guiq, e)
        BY <1>3, <2>2 DEF ConfirmFinished, PostFinal, TypeOK
      <3>5. guiq' \in Seq(Events)
        <4> HIDE DEF e
        <4> QED
          BY <3>3, <3>4, AppendIndices
      <3>6. TypeOK'
        BY <1>3, <3>5 DEF ConfirmFinished, TypeOK, tables, threads, collecting,
                          gui, Faults
      <3>7. UnbornIsUnknown'
        <4>1. \A type, v : Has(guiq', type, v) => Has(guiq, type, v) \/ v = disp.eaw
          <5> HIDE DEF e
          <5> QED
            BY <3>3, <3>4, HasAppend
        <4>2. disp' = [disp EXCEPT !.pc = "remove"]
              /\ UNCHANGED <<tables, threads, gui, stkeys>>
          BY <1>3, <2>2 DEF ConfirmFinished
        <4>3. disp'.sclt = disp.sclt /\ disp'.eaw = disp.eaw
          BY <4>2 DEF TypeOK
        <4> QED
          BY <4>1, <4>2, <4>3 DEF UnbornIsUnknown, tables, threads, gui
      <3>8. PoolsNamed' /\ EndsNamed' /\ LocalsNamed'
        BY <1>3 DEF ConfirmFinished, TypeOK, PoolsNamed, EndsNamed,
                    LocalsNamed, collecting
      <3> QED
        BY <3>6, <3>7, <3>8
    <2> QED
      BY <2>1, <2>2
  <1>4. CASE ConfirmRemove
    <2>1. TypeOK'
      BY <1>4 DEF ConfirmRemove, TypeOK, threads, collecting, gui
    <2>2. UnbornIsUnknown'
      BY <1>4, ConstantsAssumption
      DEF ConfirmRemove, TypeOK, UnbornIsUnknown, threads, gui
    <2>3. PoolsNamed' /\ EndsNamed' /\ LocalsNamed'
      BY <1>4 DEF ConfirmRemove, TypeOK, PoolsNamed, EndsNamed, LocalsNamed,
                  collecting
    <2> QED
      BY <2>1, <2>2, <2>3
  <1>5. CASE ConfirmRelease
    <2> DEFINE e == DeleteLater(disp.eaw)
    <2>1. disp.eaw \in Workers
      BY <1>5 DEF ConfirmRelease, TypeOK, LocalsNamed
    <2>2. e \in Events /\ e.type = "deleteLater" /\ e.w = disp.eaw
      BY <2>1 DEF DeleteLater, Event, Events
    <2>3. guiq \in Seq(Events) /\ guiq' = Append(guiq, e)
      BY <1>5 DEF ConfirmRelease, Unregister, PostDelete, TypeOK
    <2>4. guiq' \in Seq(Events)
      BY <2>2, <2>3, AppendIndices
    <2>5. TypeOK'
      BY <1>5, <2>4 DEF ConfirmRelease, Unregister, PostDelete, TypeOK, threads, collecting, gui
    <2>6. UnbornIsUnknown'
      <3>1. \A type, v : Has(guiq', type, v) => Has(guiq, type, v) \/ v = disp.eaw
        BY <2>2, <2>3, HasAppend
      <3> QED
        BY <1>5, <3>1
        DEF ConfirmRelease, TypeOK, UnbornIsUnknown, threads, gui
    <2>7. PoolsNamed' /\ EndsNamed' /\ LocalsNamed'
      BY <1>5 DEF ConfirmRelease, TypeOK, PoolsNamed, EndsNamed, LocalsNamed,
                  collecting
    <2> QED
      BY <2>5, <2>6, <2>7
  <1>6. CASE FreeStat
    <2>1. /\ UNCHANGED <<tables, threads, collecting, guiq, gui, stkeys,
                       doneCounter, history>>
          /\ disp' = [Idle EXCEPT !.pc = "test"] /\ heap' \subseteq heap
          /\ fault' \in {fault, "doubleFree"}
      BY <1>6 DEF FreeStat
    <2>2. disp' \in Locals
      BY <2>1, IdleLocals DEF Locals
    <2>3. TypeOK'
      BY <2>1, <2>2 DEF TypeOK, Locals, Faults, tables, threads, collecting, gui
    <2>4. \A w \in Workers : disp'.sclt[1] # w /\ disp'.eaw # w
      BY <2>1, IdleLocals DEF Idle
    <2>5. UnbornIsUnknown'
      BY <2>1, <2>4 DEF UnbornIsUnknown, tables, threads, gui
    <2>6. disp'.pc = "test"
      BY <2>1 DEF Idle
    <2>7. PoolsNamed' /\ EndsNamed' /\ LocalsNamed'
      BY <2>1, <2>6 DEF PoolsNamed, EndsNamed, LocalsNamed, collecting
    <2> QED
      BY <2>3, <2>5, <2>7
  <1> QED
    BY <1>1, <1>2, <1>3, <1>4, <1>5, <1>6, NamedDequeue DEF Dispatcher

LEMMA NamedNext == Named /\ [Next]_vars => Named'
  <1> SUFFICES ASSUME Named, [Next]_vars PROVE Named'
    OBVIOUS
  <1>1. CASE UNCHANGED vars
    BY <1>1 DEF vars, Named, TypeOK, UnbornIsUnknown, PoolsNamed, EndsNamed,
                LocalsNamed, tables, threads, collecting, gui, history
  <1> QED
    BY <1>1, NamedAddTask, NamedPauseTask, NamedWorker, NamedGui,
       NamedDispatcher DEF Next

\* TypeOK, the type invariant of EmbedManager, holds in every behaviour,
\* whichever tasks the user starts and whenever.
THEOREM TypeCorrect == Spec => []TypeOK
  <1>1. Named => TypeOK
    BY DEF Named
  <1> QED
    BY <1>1, NamedInit, NamedNext, PTL DEF Spec
-----------------------------------------------------------------------------
(* Workers and tasks.                                                      *)

\* The workers that are Apart become fewer as tasks are started over.
LEMMA ApartShrinks ==
    ASSUME Named, NEW t \in Tids, NEW w \in Workers, AddTask(t, w)
    PROVE  /\ Apart' \subseteq Apart
           /\ \A v \in Apart' : v # w /\ m_tid[v] = t => m_tasks[t] = NoEntry
  <1>1. /\ m_tid' = [m_tid EXCEPT ![w] = t] /\ m_tid[w] = NoTid
        /\ startedOver' = startedOver \cup {u \in {t} : m_tasks[u] # NoEntry}
    BY DEF AddTask, Named, UnbornIsUnknown
  <1>2. \A v \in Workers : v # w => m_tid'[v] = m_tid[v]
    BY <1>1 DEF Named, TypeOK
  <1>3. w \in Apart
    BY <1>1, ConstantsAssumption DEF Apart, Named, TypeOK
  <1> QED
    BY <1>1, <1>2, <1>3 DEF Apart

\* They stay the same in every other step.
LEMMA ApartStays ==
    ASSUME UNCHANGED <<m_tid, startedOver>>
    PROVE  Apart' = Apart
  BY DEF Apart

\* The steps that concern the tables or the locals of the dispatcher.
LEMMA MatchedNext == Named /\ Matched /\ [Next]_vars => Matched'
  <1> SUFFICES ASSUME Named, Matched, [Next]_vars PROVE Matched'
    OBVIOUS
  <1> USE DEF Matched
  <1>1. ASSUME NEW t \in Tids, NEW w \in Workers, AddTask(t, w)
        PROVE  Matched'
    <2>1. /\ m_tid' = [m_tid EXCEPT ![w] = t] /\ phase[w] = "unborn"
          /\ m_tasks' = [m_tasks EXCEPT ![t] = w] /\ UNCHANGED disp
      BY <1>1 DEF AddTask, Register
    <2>2. /\ disp.sclt[1] # w /\ disp.eaw # w /\ \A u \in Tids : m_tasks[u] # w
      BY <2>1 DEF Named, UnbornIsUnknown
    <2>3. m_tid'[w] = t /\ \A v \in Workers : v # w => m_tid'[v] = m_tid[v]
      BY <2>1 DEF Named, TypeOK
    <2>4. m_tasks'[t] = w /\ \A u \in Tids : u # t => m_tasks'[u] = m_tasks[u]
      BY <2>1 DEF Named, TypeOK
    <2>5. ASSUME NEW u \in Tids, m_tasks'[u] # NoEntry
          PROVE  \E v \in Workers : m_tid'[v] = u
      <3>1. CASE u = t
        BY <2>3, <3>1
      <3>2. CASE u # t
        <4>1. PICK v \in Workers : m_tid[v] = u
          BY <2>4, <2>5, <3>2
        <4>2. v # w
          BY <2>1, <4>1, ConstantsAssumption DEF Named, UnbornIsUnknown
        <4> QED
          BY <2>3, <4>1, <4>2
      <3> QED
        BY <3>1, <3>2
    <2>6. ASSUME disp.pc \in {"emit", "remove", "release"}, disp.eaw # Null
          PROVE  m_tid'[disp.eaw] = m_tid'[disp.sclt[1]]
      <3>1. disp.eaw \in Workers /\ disp.sclt[1] \in Workers
        BY <2>6 DEF Named, TypeOK, LocalsNamed, Collectors
      <3> QED
        BY <2>2, <2>3, <2>6, <3>1
    <2>7. \A u \in Tids : m_tasks'[u] \in Workers => m_tid'[m_tasks'[u]] = u
      BY <2>2, <2>3, <2>4
    <2> QED
      BY <2>1, <2>5, <2>6, <2>7
  <1>2. CASE Dequeue
    <2> DEFINE sclt == Head(stkeys)[2]
               w == sclt[1]
    <2>1. UNCHANGED m_tid
      BY <1>2 DEF Dequeue, threads
    <2>2. CASE UNCHANGED <<m_tasks, disp>>
      BY <2>1, <2>2
    <2>3. CASE /\ sclt \in heap
               /\ m_tasks' = IF m_tasks[m_tid[w]] = NoEntry
                             THEN [m_tasks EXCEPT ![m_tid[w]] = Null] ELSE m_tasks
               /\ disp'.sclt = sclt /\ disp'.eaw = m_tasks'[m_tid[w]]
      <3>1. sclt \in Collectors /\ w \in Workers
        BY <2>3 DEF Named, TypeOK, Collectors
      <3>2. m_tid[w] \in Tids
        BY <1>2, <3>1, TakenElem DEF Named, TypeOK, UnbornIsUnknown
      <3>3. \A t \in Tids : \/ m_tasks'[t] = m_tasks[t]
                            \/ t = m_tid[w] /\ m_tasks'[t] = Null
        BY <2>3, <3>2 DEF Named, TypeOK
      <3>4. /\ \A t \in Tids : m_tasks'[t] \in Workers => m_tid[m_tasks'[t]] = t
            /\ \A t \in Tids : m_tasks'[t] # NoEntry => \E v \in Workers : m_tid[v] = t
        BY <3>1, <3>3, ConstantsAssumption
      <3>5. m_tasks'[m_tid[w]] \in Workers \cup {Null}
        BY <2>3, <3>2, ConstantsAssumption DEF Named, TypeOK
      <3> QED
        BY <2>1, <2>3, <3>2, <3>4, <3>5
    <2> QED
      BY <1>2, <2>2, <2>3 DEF Dequeue
  <1>3. CASE ConfirmRemove
    <2>1. /\ UNCHANGED m_tid /\ disp.pc = "remove" /\ disp' = [disp EXCEPT !.pc = "release"]
          /\ m_tasks' = [m_tasks EXCEPT ![m_tid[disp.eaw]] = NoEntry]
      BY <1>3 DEF ConfirmRemove, threads
    <2>2. \A t \in Tids : m_tasks'[t] \in {m_tasks[t], NoEntry}
      BY <2>1 DEF Named, TypeOK
    <2>3. disp'.eaw = disp.eaw /\ disp'.sclt = disp.sclt
      BY <2>1 DEF Named, TypeOK
    <2> QED
      BY <2>1, <2>2, <2>3, ConstantsAssumption
  <1>4. CASE /\ UNCHANGED <<m_tasks, m_tid>>
             /\ \/ disp' = disp
                \/ disp'.pc \notin {"emit", "remove", "release"}
                \/ disp.pc \in {"emit", "remove"} /\ disp' = [disp EXCEPT !.pc = disp'.pc]
    <2>1. CASE disp.pc \in {"emit", "remove"} /\ disp' = [disp EXCEPT !.pc = disp'.pc]
      <3>1. disp'.eaw = disp.eaw /\ disp'.sclt = disp.sclt
        BY <2>1 DEF Named, TypeOK
      <3> QED
        BY <1>4, <2>1, <3>1
    <2> QED
      BY <1>4, <2>1
  <1>5. ASSUME NEW t \in Tids, PauseTask(t) PROVE UNCHANGED <<m_tasks, m_tid, disp>>
    BY <1>5 DEF PauseTask, tables
  <1>6. ASSUME NEW w \in Workers, WorkerThread(w) PROVE UNCHANGED <<m_tasks, m_tid, disp>>
    BY <1>6 DEF WorkerThread, Prepare, BeginCalc, EmitStat, WriteToFreed, Return,
                Finished, tables, threads
  <1>7. CASE GuiThread
    <2>1. UNCHANGED <<m_tasks, m_tid>> /\ (disp' = disp \/ disp' = Start)
      BY <1>7 DEF GuiThread, OnAllStatArrived, OnWorkerFinished, Wake, OnTaskStat,
                  OnTaskFinal, OnDeleteLater, tables, threads
    <2>2. disp' = disp \/ disp'.pc = "test"
      BY <2>1 DEF Start, Named, TypeOK
    <2> QED
      BY <1>4, <2>1, <2>2
  <1>8. CASE SeeEmpty \/ Leave \/ DispatchStat \/ ConfirmFinished
               \/ ConfirmRelease \/ FreeStat
    <2>1. UNCHANGED <<m_tasks, m_tid>>
      BY <1>8 DEF SeeEmpty, Leave, DispatchStat, ConfirmFinished, ConfirmRelease,
                  FreeStat, tables, threads
    <2>2. CASE SeeEmpty \/ Leave \/ DispatchStat \/ ConfirmRelease \/ FreeStat
      <3>1. disp'.pc \in {"leave", "idle", "free", "test"}
        BY <2>2 DEF SeeEmpty, Leave, DispatchStat, ConfirmRelease, FreeStat, Idle,
                    Named, TypeOK
      <3> QED
        BY <1>4, <2>1, <3>1
    <2>3. CASE ConfirmFinished
      <3>1. \/ disp' = disp \/ disp'.pc = "free"
            \/ disp.pc = "emit" /\ disp' = [disp EXCEPT !.pc = disp'.pc]
        BY <2>3 DEF ConfirmFinished, Named, TypeOK
      <3> QED
        BY <1>4, <2>1, <3>1
    <2> QED
      BY <1>8, <2>2, <2>3
  <1>9. CASE UNCHANGED vars
    BY <1>4, <1>9 DEF vars, tables, threads
  <1> QED
    BY <1>1, <1>2, <1>3, <1>4, <1>5, <1>6, <1>7, <1>8, <1>9 DEF Next, Dispatcher
-----------------------------------------------------------------------------
(* The passage of reports.                                                 *)

LEMMA PassageInit == Init => Matched /\ Passage
  <1> SUFFICES ASSUME Init PROVE Matched /\ Passage
    OBVIOUS
  <1>1. Matched
    BY ConstantsAssumption DEF Init, Matched, Idle
  <1>2. \A w : /\ \A type : ~Has(guiq, type, w)
               /\ ~HasStat(stkeys, w) /\ ~HasEnd(stkeys, w)
               /\ \A pcs : ~Ending(w, pcs)
    BY DEF Init, Has, HasStat, HasEnd, Ending, Idle
  <1>3. \A w \in Workers : phase[w] = "unborn" /\ w \notin closed
    BY DEF Init
  <1>4. Ordered
    BY DEF Init, Ordered, EventsInOrder, StatsInOrder
  <1>5. Stages /\ PendingIsRegistered
    BY <1>2, <1>3 DEF Stages, DoneIsPosted, EndIsQueued, EndIsHandled,
       FinalIsPosted, ClosedIsSilent, ReleasedIsSilent, PendingIsRegistered, Pending,
       Apart
  <1>6. EndsMatched
    BY DEF Init, EndsMatched, Idle
  <1> QED
    BY <1>1, <1>4, <1>5, <1>6 DEF Passage

\* A pending worker was created, so its task is a task.
LEMMA PendingIsCreated ==
    ASSUME Named, NEW w \in Workers, Pending(w)
    PROVE  phase[w] # "unborn" /\ m_tid[w] \in Tids
  BY DEF Named, TypeOK, UnbornIsUnknown, Pending, EventTypes, Ending

\* Nothing of the passage depends on the variables that may change here.
LEMMA PassageFrame ==
    ASSUME Passage,
           UNCHANGED <<m_tasks, m_tid, startedOver, guiq, stkeys, disp, closed>>,
           \A w \in Workers :
             \/ phase'[w] = phase[w]
             \/ /\ phase[w] \in {"created", "running", "returned"}
                /\ phase'[w] \in {"created", "running", "returned"}
    PROVE  Passage'
  <1>1. Apart' = Apart /\ Apart \subseteq Workers
    BY ApartStays DEF Apart
  <1>2. Ordered' /\ EndsMatched'
    BY <1>1 DEF Passage, Ordered, EndsMatched
  <1>3. Stages'
    BY <1>1 DEF Passage, Stages, DoneIsPosted, EndIsQueued, EndIsHandled,
       FinalIsPosted, ClosedIsSilent, ReleasedIsSilent, Ending, Emitting
  <1>4. PendingIsRegistered'
    BY <1>1 DEF Passage, PendingIsRegistered, Pending, Ending
  <1> QED
    BY <1>2, <1>3, <1>4 DEF Passage

LEMMA PassageAddTask ==
    ASSUME IInv, NEW t \in Tids, NEW w \in Workers, AddTask(t, w)
    PROVE  Passage'
  <1> USE DEF IInv, Passage
  <1>1. /\ UNCHANGED <<guiq, stkeys, disp, closed>>
        /\ phase[w] = "unborn" /\ phase' = [phase EXCEPT ![w] = "created"]
        /\ m_tid' = [m_tid EXCEPT ![w] = t]
        /\ m_tasks' = [m_tasks EXCEPT ![t] = w]
    BY DEF AddTask, Register
  <1>2. /\ Apart' \subseteq Apart /\ Apart \subseteq Workers
        /\ \A v \in Apart' : v # w /\ m_tid[v] = t => m_tasks[t] = NoEntry
    BY ApartShrinks DEF Apart
  <1>3. Ordered' /\ EndsMatched'
    BY <1>2, <1>1 DEF Ordered, EndsMatched, EventsInOrder, StatsInOrder
  <1>4. \A v \in Workers : v # w => phase'[v] = phase[v] /\ m_tid'[v] = m_tid[v]
    BY <1>1 DEF Named, TypeOK
  <1>5. /\ phase'[w] = "created" /\ m_tid'[w] = t /\ m_tasks'[t] = w
        /\ \A type \in EventTypes : ~Has(guiq, type, w)
        /\ ~HasStat(stkeys, w) /\ ~HasEnd(stkeys, w) /\ w \notin closed
        /\ disp.sclt[1] # w
    BY <1>1 DEF Named, TypeOK, UnbornIsUnknown
  <1>6. Stages'
    <2>1. SUFFICES ASSUME NEW v \in Apart'
                   PROVE  /\ DoneIsPosted(v)' /\ EndIsQueued(v)' /\ EndIsHandled(v)'
                          /\ FinalIsPosted(v)' /\ ClosedIsSilent(v)'
                          /\ ReleasedIsSilent(v)'
      BY DEF Stages
    <2>2. v \in Apart /\ v \in Workers
      BY <1>2, <2>1
    <2>3. CASE v = w
      BY <1>1, <1>5, <2>3
      DEF DoneIsPosted, EndIsQueued, EndIsHandled, FinalIsPosted,
          ClosedIsSilent, ReleasedIsSilent, Ending, EventTypes
    <2>4. CASE v # w
      BY <1>1, <1>4, <2>2, <2>4
      DEF Stages, DoneIsPosted, EndIsQueued, EndIsHandled, FinalIsPosted,
          ClosedIsSilent, ReleasedIsSilent, Ending, Emitting
    <2> QED
      BY <2>3, <2>4
  <1>7. PendingIsRegistered'
    <2>1. SUFFICES ASSUME NEW v \in Apart', Pending(v)'
                   PROVE  m_tasks'[m_tid'[v]] = v
      BY DEF PendingIsRegistered
    <2>2. v \in Apart /\ v \in Workers
      BY <1>2, <2>1
    <2>3. CASE v = w
      BY <1>5, <2>3
    <2>4. CASE v # w
      <3>1. Pending(v)
        BY <1>1, <1>4, <2>1, <2>2, <2>4 DEF Pending, Ending
      <3>2. m_tasks[m_tid[v]] = v /\ m_tid[v] \in Tids /\ m_tid'[v] = m_tid[v]
        BY <1>4, <2>2, <2>4, <3>1, PendingIsCreated DEF PendingIsRegistered
      <3>3. m_tid[v] # t
        BY <1>2, <2>1, <2>2, <2>4, <3>2, ConstantsAssumption
      <3> QED
        BY <1>1, <3>2, <3>3 DEF Named, TypeOK
    <2> QED
      BY <2>3, <2>4
  <1> QED
    BY <1>3, <1>6, <1>7

\* The stages, expanded for a worker; what every proof about a step needs.
StageDefs(w) ==
    /\ DoneIsPosted(w) /\ EndIsQueued(w) /\ EndIsHandled(w)
    /\ FinalIsPosted(w) /\ ClosedIsSilent(w) /\ ReleasedIsSilent(w)

\* A worker whose thread has not ended is at no later stage.
LEMMA LiveStage ==
    ASSUME IInv, NEW w \in Apart,
           phase[w] \in {"created", "running", "returned"}
    PROVE  /\ \A type \in {"workerFinished", "taskFinal", "deleteLater"} :
                ~Has(guiq, type, w)
           /\ ~HasEnd(stkeys, w) /\ w \notin closed
           /\ ~Ending(w, {"emit", "remove", "release"})
  BY DEF IInv, Passage, Stages, DoneIsPosted, EndIsQueued, EndIsHandled,
         FinalIsPosted, ClosedIsSilent, ReleasedIsSilent

LEMMA PassageEmitStat ==
    ASSUME IInv, NEW w \in Workers, EmitStat(w)
    PROVE  Passage'
  <1> USE DEF IInv, Passage
  <1> DEFINE e == ProgressStat(w, poolCounter)
  <1>1. /\ phase[w] = "running" /\ guiq' = Append(guiq, e)
        /\ UNCHANGED <<m_tasks, m_tid, startedOver, stkeys, disp, closed, phase>>
    BY DEF EmitStat, tables, threads, gui, history
  <1>2. Apart' = Apart /\ Apart \subseteq Workers
    BY <1>1, ApartStays DEF Apart
  <1>3. e \in Events /\ e.type = "progressStat" /\ e.w = w
    BY DEF Named, TypeOK, ProgressStat, Event, Events
  <1>4. guiq \in Seq(Events)
    BY DEF Named, TypeOK
  <1>5. \A type, v : Has(guiq', type, v) <=>
                      Has(guiq, type, v) \/ (type = "progressStat" /\ v = w)
    BY <1>1, <1>3, <1>4, HasAppend
  <1>6. EventsInOrder(Apart, guiq')
    BY <1>1, <1>3, <1>4, LiveStage, OrderAppend DEF Ordered
  <1>7. Ordered' /\ EndsMatched'
    BY <1>2, <1>1, <1>6 DEF Ordered, EndsMatched
  <1>8. Stages'
    <2> SUFFICES ASSUME NEW v \in Apart, v \in Workers PROVE StageDefs(v)'
      BY <1>2 DEF Stages, StageDefs
    <2>1. CASE v = w
      BY <1>1, <1>5, <2>1, LiveStage
      DEF StageDefs, DoneIsPosted, EndIsQueued, EndIsHandled, FinalIsPosted,
          ClosedIsSilent, ReleasedIsSilent, Ending
    <2>2. CASE v # w
      BY <1>1, <1>5, <2>2
      DEF Stages, StageDefs, DoneIsPosted, EndIsQueued, EndIsHandled,
          FinalIsPosted, ClosedIsSilent, ReleasedIsSilent, Ending, Emitting
    <2> QED
      BY <2>1, <2>2
  <1>9. PendingIsRegistered'
    BY <1>2, <1>1, <1>5 DEF PendingIsRegistered, Pending, Ending
  <1> QED
    BY <1>7, <1>8, <1>9

LEMMA PassageFinished ==
    ASSUME IInv, NEW w \in Workers, Finished(w)
    PROVE  Passage'
  <1> USE DEF IInv, Passage
  <1> DEFINE e == WorkerDone(w)
  <1>1. /\ phase[w] = "returned" /\ phase' = [phase EXCEPT ![w] = "ended"]
        /\ guiq' = Append(guiq, e)
        /\ UNCHANGED <<m_tasks, m_tid, startedOver, stkeys, disp, closed>>
    BY DEF Finished, PostDone, tables, gui, history
  <1>2. Apart' = Apart /\ Apart \subseteq Workers
    BY <1>1, ApartStays DEF Apart
  <1>3. e \in Events /\ e.type = "workerFinished" /\ e.w = w
    BY DEF WorkerDone, Event, Events
  <1>4. guiq \in Seq(Events)
    BY DEF Named, TypeOK
  <1>5. \A type, v : Has(guiq', type, v) <=>
                      Has(guiq, type, v) \/ (type = "workerFinished" /\ v = w)
    BY <1>1, <1>3, <1>4, HasAppend
  <1>6. EventsInOrder(Apart, guiq')
    BY <1>1, <1>3, <1>4, LiveStage, OrderAppend DEF Ordered
  <1>7. Ordered' /\ EndsMatched'
    BY <1>2, <1>1, <1>6 DEF Ordered, EndsMatched
  <1>8. phase'[w] = "ended" /\ \A v \in Workers : v # w => phase'[v] = phase[v]
    BY <1>1 DEF Named, TypeOK
  <1>9. Stages'
    <2> SUFFICES ASSUME NEW v \in Apart, v \in Workers PROVE StageDefs(v)'
      BY <1>2 DEF Stages, StageDefs
    <2>1. CASE v = w
      BY <1>1, <1>5, <1>8, <2>1, LiveStage
      DEF StageDefs, DoneIsPosted, EndIsQueued, EndIsHandled, FinalIsPosted,
          ClosedIsSilent, ReleasedIsSilent, Ending
    <2>2. CASE v # w
      BY <1>1, <1>5, <1>8, <2>2
      DEF Stages, StageDefs, DoneIsPosted, EndIsQueued, EndIsHandled,
          FinalIsPosted, ClosedIsSilent, ReleasedIsSilent, Ending, Emitting
    <2> QED
      BY <2>1, <2>2
  <1>10. PendingIsRegistered'
    BY <1>2, <1>1, <1>5, <1>8 DEF PendingIsRegistered, Pending, Ending
  <1> QED
    BY <1>7, <1>9, <1>10

LEMMA PassageWorker ==
    ASSUME IInv, NEW w \in Workers, WorkerThread(w)
    PROVE  Passage'
  <1>1. CASE Prepare(w) \/ BeginCalc(w) \/ WriteToFreed(w) \/ Return(w)
    <2>1. UNCHANGED <<m_tasks, m_tid, startedOver, guiq, stkeys, disp, closed>>
      BY <1>1 DEF Prepare, BeginCalc, WriteToFreed, Return, tables, threads, gui, history
    <2>2. \A v \in Workers :
            \/ phase'[v] = phase[v]
            \/ /\ phase[v] \in {"created", "running", "returned"}
               /\ phase'[v] \in {"created", "running", "returned"}
      BY <1>1 DEF Prepare, BeginCalc, WriteToFreed, Return, threads, IInv, Named, TypeOK
    <2> QED
      BY <2>1, <2>2, PassageFrame DEF IInv
  <1> QED
    BY <1>1, PassageEmitStat, PassageFinished DEF WorkerThread

\* What a handled event leaves in the queue.
LEMMA TakenInOrder ==
    ASSUME IInv, NEW type, NextEvent(type)
    PROVE  /\ EventsInOrder(Apart, guiq')
           /\ \A any, v : Has(guiq, any, v)
                <=> Has(guiq', any, v) \/ (type = any /\ Head(guiq).w = v)
           /\ type = "workerFinished" /\ Head(guiq).w \in Apart =>
                /\ ~Has(guiq', "progressStat", Head(guiq).w)
                /\ ~Has(guiq', "workerFinished", Head(guiq).w)
           /\ type = "taskFinal" /\ Head(guiq).w \in Apart =>
                /\ ~Has(guiq', "taskStat", Head(guiq).w)
                /\ ~Has(guiq', "taskFinal", Head(guiq).w)
  <1>1. /\ guiq \in Seq(Events) /\ guiq # <<>> /\ guiq' = Tail(guiq)
        /\ Head(guiq).type = type
    BY TakenEvent DEF IInv, Named
  <1>2. EventsInOrder(Apart, guiq)
    BY DEF IInv, Passage, Ordered
  <1> QED
    BY <1>1, <1>2, OrderTail, HasTail

LEMMA PassageArrived ==
    ASSUME IInv, OnAllStatArrived
    PROVE  Passage'
  <1> USE DEF IInv, Passage
  <1> DEFINE w == Head(guiq).w
  <1>1. /\ EventsInOrder(Apart, guiq')
        /\ \A any, v : Has(guiq, any, v)
             <=> Has(guiq', any, v) \/ (any = "progressStat" /\ w = v)
    BY TakenInOrder DEF OnAllStatArrived
  <1>2. w \in Workers /\ Has(guiq, "progressStat", w)
    BY <1>1, TakenEvent DEF Named, OnAllStatArrived
  <1>3. /\ UNCHANGED <<m_tasks, m_tid, startedOver, disp, closed, phase>>
    BY DEF OnAllStatArrived, tables, threads, history
  <1>4. Apart' = Apart /\ Apart \subseteq Workers
    BY <1>3, ApartStays DEF Apart
  <1>5. w \in Apart => ~HasEnd(stkeys, w)
    BY <1>2 DEF Stages, EndIsQueued
  <1>6. /\ StatsInOrder(Apart, stkeys')
        /\ \A v \in Workers : HasEnd(stkeys', v) <=> HasEnd(stkeys, v)
        /\ \A v \in Workers : HasStat(stkeys', v) => HasStat(stkeys, v) \/ v = w
    <2>1. CASE UNCHANGED stkeys
      BY <2>1 DEF Ordered, StatsInOrder, HasEnd, HasStat
    <2>2. ASSUME NEW e \in Elems, stkeys' = Append(stkeys, e), e[1] >= 0,
                 \/ e[2] = NoStat
                 \/ e[2] \in Collectors /\ e[2][1] = w
          PROVE  <1>6!1 /\ <1>6!2 /\ <1>6!3
      <3>1. e[1] \in Int /\ ~(e[1] < 0)
        BY <2>2 DEF Elems
      <3>2. \A v \in Workers : e[2][1] = v => v = w
        BY <2>2, ConstantsAssumption DEF NoStat
      <3>3. stkeys \in Seq(Elems)
        BY DEF Named, TypeOK, Elems
      <3>4. e[2][1] \in Apart => ~HasEnd(stkeys, e[2][1])
        <4>1. CASE e[2] = NoStat
          <5>1. ASSUME NEW i \in DOMAIN stkeys, stkeys[i][1] < 0
                PROVE  stkeys[i][2][1] # Null
            <6>1. stkeys[i][2] \in Collectors
              BY <3>3, <5>1 DEF Named, EndsNamed, Elems
            <6> QED
              BY <6>1, ConstantsAssumption DEF Collectors
          <5> QED
            BY <4>1, <5>1 DEF HasEnd, NoStat
        <4> QED
          BY <1>5, <2>2, <4>1
      <3>5. StatsInOrder(Apart, stkeys')
        BY <2>2, <3>3, <3>4, StatOrderAppend DEF Ordered
      <3>6. \A v : HasStat(stkeys', v)
                     <=> HasStat(stkeys, v) \/ (e[1] >= 0 /\ e[2][1] = v)
        BY <2>2, <3>3, StatAppend
      <3>7. \A v : HasEnd(stkeys', v)
                     <=> HasEnd(stkeys, v) \/ (e[1] < 0 /\ e[2][1] = v)
        BY <2>2, <3>3, StatAppend
      <3> QED
        BY <3>1, <3>2, <3>5, <3>6, <3>7
    <2> QED
      BY <2>1, <2>2, ArrivedStat
  <1>7. Ordered' /\ EndsMatched'
    BY <1>4, <1>1, <1>3, <1>6 DEF Ordered, EndsMatched
  <1>8. Stages'
    <2> SUFFICES ASSUME NEW v \in Apart, v \in Workers PROVE StageDefs(v)'
      BY <1>4 DEF Stages, StageDefs
    <2> QED
      BY <1>1, <1>2, <1>3, <1>6
      DEF Stages, StageDefs, DoneIsPosted, EndIsQueued, EndIsHandled,
          FinalIsPosted, ClosedIsSilent, ReleasedIsSilent, Ending, Emitting
  <1>9. PendingIsRegistered'
    BY <1>4, <1>1, <1>3, <1>6 DEF PendingIsRegistered, Pending, Ending
  <1> QED
    BY <1>7, <1>8, <1>9

\* Nor does a step harm it that only takes something out of a queue, or
\* leaves the handling of an element.
LEMMA PassageShrinks ==
    ASSUME Passage, Ordered', EndsMatched',
           UNCHANGED <<m_tasks, m_tid, startedOver, phase, closed>>,
           \A w \in Workers :
             /\ \A type \in EventTypes : Has(guiq', type, w) => Has(guiq, type, w)
             /\ HasStat(stkeys', w) => HasStat(stkeys, w)
             /\ HasEnd(stkeys', w) => HasEnd(stkeys, w)
             /\ Emitting(w)' => Emitting(w)
             /\ Ending(w, {"emit", "remove"})' => Ending(w, {"emit", "remove"})
             /\ Ending(w, {"emit", "remove", "release"})'
                  => /\ Ending(w, {"emit", "remove", "release"})
                     /\ disp'.pc = disp.pc
    PROVE  Passage'
  <1>1. Apart' = Apart /\ Apart \subseteq Workers
    BY ApartStays DEF Apart
  <1>2. Stages'
    <2> SUFFICES ASSUME NEW v \in Apart, v \in Workers PROVE StageDefs(v)'
      BY <1>1 DEF Stages, StageDefs
    <2>1. StageDefs(v)
      BY DEF Passage, Stages, StageDefs
    <2>2. /\ DoneIsPosted(v)' /\ EndIsQueued(v)' /\ EndIsHandled(v)'
      BY <2>1 DEF StageDefs, DoneIsPosted, EndIsQueued, EndIsHandled, EventTypes
    <2>3. /\ FinalIsPosted(v)' /\ ClosedIsSilent(v)' /\ ReleasedIsSilent(v)'
      BY <2>1 DEF StageDefs, FinalIsPosted, ClosedIsSilent, ReleasedIsSilent,
                  EventTypes
    <2> QED
      BY <2>2, <2>3 DEF StageDefs
  <1>3. PendingIsRegistered'
    BY <1>1 DEF Passage, PendingIsRegistered, Pending, EventTypes
  <1> QED
    BY <1>2, <1>3 DEF Passage

LEMMA PassageWorkerFinished ==
    ASSUME IInv, OnWorkerFinished
    PROVE  Passage'
  <1> USE DEF IInv, Passage
  <1> DEFINE w == Head(guiq).w
             e == <<doneCounter, <<w, 0>>>>
  <1>1. /\ EventsInOrder(Apart, guiq')
        /\ \A any, v : Has(guiq, any, v)
             <=> Has(guiq', any, v) \/ (any = "workerFinished" /\ w = v)
        /\ w \in Apart => /\ ~Has(guiq', "progressStat", w)
                           /\ ~Has(guiq', "workerFinished", w)
    BY TakenInOrder DEF OnWorkerFinished
  <1>2. w \in Workers /\ Has(guiq, "workerFinished", w)
    BY <1>1, TakenEvent DEF Named, OnWorkerFinished
  <1>3. UNCHANGED <<m_tasks, m_tid, startedOver, disp, closed, phase>>
    BY DEF OnWorkerFinished, tables, threads, history
  <1>4. Apart' = Apart /\ Apart \subseteq Workers
    BY <1>3, ApartStays DEF Apart
  <1>5. CASE UNCHANGED stkeys
    <2>1. Ordered' /\ EndsMatched' /\ Passage
      BY <1>4, <1>1, <1>3, <1>5 DEF Ordered, EndsMatched
    <2> QED
      BY <1>1, <1>3, <1>5, <2>1, PassageShrinks DEF Emitting, Ending
  <1>6. SUFFICES ASSUME stkeys' # stkeys PROVE Passage'
    BY <1>5
  <1>7. /\ e \in Elems /\ e[1] < 0 /\ ~(e[1] >= 0) /\ e[2][1] = w
        /\ stkeys \in Seq(Elems) /\ stkeys' = Append(stkeys, e)
    BY <1>2, <1>6 DEF Named, TypeOK, Elems, Collectors, OnWorkerFinished
  <1>8. w \in Apart => ~HasEnd(stkeys, w)
    BY <1>2 DEF Stages, DoneIsPosted
  <1>9. StatsInOrder(Apart, stkeys')
    BY <1>7, <1>8, StatOrderAppend DEF Ordered
  <1>10. \A v : /\ HasStat(stkeys', v) <=> HasStat(stkeys, v)
                /\ HasEnd(stkeys', v) <=> HasEnd(stkeys, v) \/ v = w
    BY <1>7, StatAppend
  <1>11. Ordered' /\ EndsMatched'
    BY <1>4, <1>1, <1>3, <1>9 DEF Ordered, EndsMatched
  <1>12. Stages'
    <2> SUFFICES ASSUME NEW v \in Apart, v \in Workers PROVE StageDefs(v)'
      BY <1>4 DEF Stages, StageDefs
    <2> QED
      BY <1>1, <1>2, <1>3, <1>10
      DEF Stages, StageDefs, DoneIsPosted, EndIsQueued, EndIsHandled,
          FinalIsPosted, ClosedIsSilent, ReleasedIsSilent, Ending, Emitting
  <1>13. PendingIsRegistered'
    BY <1>4, <1>1, <1>2, <1>3, <1>10 DEF PendingIsRegistered, Pending, Ending
  <1> QED
    BY <1>11, <1>12, <1>13

LEMMA PassageWake == IInv /\ Wake => Passage'
  <1> SUFFICES ASSUME IInv, Wake PROVE Passage'
    OBVIOUS
  <1>1. /\ UNCHANGED <<m_tasks, m_tid, startedOver, phase, closed, guiq, stkeys>>
        /\ disp' = disp \/ disp'.pc = "test"
    BY DEF Wake, Start, tables, threads, IInv, Named, TypeOK, history
  <1>2. Apart' = Apart /\ Apart \subseteq Workers
    BY <1>1, ApartStays DEF Apart
  <1>3. Ordered' /\ EndsMatched'
    BY <1>2, <1>1 DEF IInv, Passage, Ordered, EndsMatched
  <1>4. Passage
    BY DEF IInv
  <1> QED
    BY <1>1, <1>3, <1>4, PassageShrinks DEF Emitting, Ending

LEMMA PassageTaskStat == IInv /\ OnTaskStat => Passage'
  <1> SUFFICES ASSUME IInv, OnTaskStat PROVE Passage'
    OBVIOUS
  <1>1. /\ UNCHANGED <<m_tasks, m_tid, startedOver, phase, closed, stkeys, disp>>
    BY DEF OnTaskStat, tables, threads, history
  <1>2. Apart' = Apart /\ Apart \subseteq Workers
    BY <1>1, ApartStays DEF Apart
  <1>3. EventsInOrder(Apart, guiq') /\ \A type, v : Has(guiq', type, v) => Has(guiq, type, v)
    BY TakenInOrder DEF OnTaskStat
  <1>4. Ordered' /\ EndsMatched'
    BY <1>2, <1>1, <1>3 DEF IInv, Passage, Ordered, EndsMatched
  <1>5. Passage
    BY DEF IInv
  <1> QED
    BY <1>1, <1>3, <1>4, <1>5, PassageShrinks DEF Emitting, Ending

\* The last report of w closes it.
LEMMA PassageTaskFinal == IInv /\ OnTaskFinal => Passage'
  <1> SUFFICES ASSUME IInv, OnTaskFinal PROVE Passage'
    OBVIOUS
  <1> USE DEF IInv, Passage
  <1> DEFINE w == Head(guiq).w
  <1>1. /\ EventsInOrder(Apart, guiq')
        /\ \A any, v : Has(guiq, any, v)
             <=> Has(guiq', any, v) \/ (any = "taskFinal" /\ w = v)
        /\ w \in Apart => /\ ~Has(guiq', "taskStat", w)
                           /\ ~Has(guiq', "taskFinal", w)
    BY TakenInOrder DEF OnTaskFinal
  <1>2. w \in Workers /\ Has(guiq, "taskFinal", w)
    BY <1>1, TakenEvent DEF Named, OnTaskFinal
  <1>3. /\ UNCHANGED <<m_tasks, m_tid, startedOver, phase, stkeys, disp>>
        /\ closed' = closed \cup {w}
    BY DEF OnTaskFinal, tables, threads, history
  <1>4. Apart' = Apart /\ Apart \subseteq Workers
    BY <1>3, ApartStays DEF Apart
  <1>5. Ordered' /\ EndsMatched'
    BY <1>4, <1>1, <1>3 DEF Ordered, EndsMatched
  <1>6. Stages'
    <2> SUFFICES ASSUME NEW v \in Apart, v \in Workers PROVE StageDefs(v)'
      BY <1>4 DEF Stages, StageDefs
    <2>1. CASE v = w
      BY <1>1, <1>2, <1>3, <2>1
      DEF Stages, StageDefs, DoneIsPosted, EndIsQueued, EndIsHandled,
          FinalIsPosted, ClosedIsSilent, ReleasedIsSilent, Ending, Emitting
    <2>2. CASE v # w
      BY <1>1, <1>3, <2>2
      DEF Stages, StageDefs, DoneIsPosted, EndIsQueued, EndIsHandled,
          FinalIsPosted, ClosedIsSilent, ReleasedIsSilent, Ending, Emitting
    <2> QED
      BY <2>1, <2>2
  <1>7. PendingIsRegistered'
    BY <1>4, <1>1, <1>3 DEF PendingIsRegistered, Pending, Ending
  <1> QED
    BY <1>5, <1>6, <1>7

LEMMA PassageDeleteLater == IInv /\ OnDeleteLater => Passage'
  <1> SUFFICES ASSUME IInv, OnDeleteLater PROVE Passage'
    OBVIOUS
  <1> USE DEF IInv, Passage
  <1> DEFINE w == Head(guiq).w
  <1>1. /\ EventsInOrder(Apart, guiq')
        /\ \A any, v : Has(guiq, any, v)
             <=> Has(guiq', any, v) \/ (any = "deleteLater" /\ w = v)
    BY TakenInOrder DEF OnDeleteLater
  <1>2. w \in Workers /\ Has(guiq, "deleteLater", w)
    BY <1>1, TakenEvent DEF Named, OnDeleteLater
  <1>3. w \in Apart => phase[w] \in {"ended", "deleted"}
    BY <1>2 DEF Stages, ReleasedIsSilent
  <1>4. /\ UNCHANGED <<m_tasks, m_tid, startedOver, closed, stkeys, disp>>
        /\ \/ UNCHANGED phase /\ phase[w] \notin {"ended", "deleted"}
           \/ /\ phase[w] \in {"ended", "deleted"}
              /\ phase' = [phase EXCEPT ![w] = "deleted"]
    BY <1>3 DEF OnDeleteLater, tables, gui, history
  <1>5. Apart' = Apart /\ Apart \subseteq Workers
    BY <1>4, ApartStays DEF Apart
  <1>6. /\ w \in Apart => phase'[w] = "deleted"
        /\ phase'[w] # phase[w] => phase'[w] = "deleted" /\ phase[w] = "ended"
        /\ \A v \in Workers : v # w => phase'[v] = phase[v]
    BY <1>2, <1>3, <1>4 DEF Named, TypeOK
  <1>7. Ordered' /\ EndsMatched'
    BY <1>5, <1>1, <1>4 DEF Ordered, EndsMatched
  <1>8. Stages'
    <2> SUFFICES ASSUME NEW v \in Apart, v \in Workers PROVE StageDefs(v)'
      BY <1>5 DEF Stages, StageDefs
    <2>1. CASE v = w
      BY <1>1, <1>2, <1>3, <1>4, <1>6, <2>1
      DEF Stages, StageDefs, DoneIsPosted, EndIsQueued, EndIsHandled,
          FinalIsPosted, ClosedIsSilent, ReleasedIsSilent, Ending, Emitting
    <2>2. CASE v # w
      BY <1>1, <1>4, <1>6, <2>2
      DEF Stages, StageDefs, DoneIsPosted, EndIsQueued, EndIsHandled,
          FinalIsPosted, ClosedIsSilent, ReleasedIsSilent, Ending, Emitting
    <2> QED
      BY <2>1, <2>2
  <1>9. PendingIsRegistered'
    BY <1>5, <1>1, <1>4, <1>6 DEF PendingIsRegistered, Pending, Ending
  <1> QED
    BY <1>7, <1>8, <1>9

LEMMA PassageGui == IInv /\ GuiThread => Passage'
  BY PassageArrived, PassageWorkerFinished, PassageWake, PassageTaskStat,
     PassageTaskFinal, PassageDeleteLater DEF GuiThread

LEMMA PassageDispatchStat == IInv /\ DispatchStat => Passage'
  <1> SUFFICES ASSUME IInv, DispatchStat PROVE Passage'
    OBVIOUS
  <1> USE DEF IInv, Passage
  <1> DEFINE w == disp.sclt[1]
             e == TaskStat(w)
  <1>1. /\ UNCHANGED <<m_tasks, m_tid, startedOver, phase, closed, stkeys>>
        /\ disp.pc = "emit" /\ disp'.pc = "free" /\ guiq' = Append(guiq, e)
        /\ Emitting(w) /\ guiq \in Seq(Events)
    BY DEF DispatchStat, tables, threads, gui, Named, TypeOK, Emitting, history
  <1>2. Apart' = Apart /\ Apart \subseteq Workers
    BY <1>1, ApartStays DEF Apart
  <1>3. w \in Workers
    BY <1>1 DEF Named, TypeOK, LocalsNamed, Collectors
  <1>4. e \in Events /\ e.type = "taskStat" /\ e.w = w
    BY <1>3 DEF TaskStat, Event, Events
  <1>5. w \in Apart => ~Has(guiq, "taskFinal", w) /\ w \notin closed
    BY <1>1, <1>3 DEF Stages, FinalIsPosted, ClosedIsSilent
  <1>6. \A type, v : Has(guiq', type, v)
                      <=> Has(guiq, type, v) \/ (type = "taskStat" /\ v = w)
    BY <1>1, <1>4, HasAppend
  <1>7. EventsInOrder(Apart, guiq')
    BY <1>1, <1>4, <1>5, OrderAppend DEF Ordered
  <1>8. Ordered' /\ EndsMatched'
    BY <1>2, <1>1, <1>7 DEF Ordered, EndsMatched
  <1>9. Stages'
    <2> SUFFICES ASSUME NEW v \in Apart, v \in Workers PROVE StageDefs(v)'
      BY <1>2 DEF Stages, StageDefs
    <2> QED
      BY <1>1, <1>5, <1>6
      DEF Stages, StageDefs, DoneIsPosted, EndIsQueued, EndIsHandled,
          FinalIsPosted, ClosedIsSilent, ReleasedIsSilent, Ending, Emitting
  <1>10. PendingIsRegistered'
    BY <1>2, <1>1, <1>6 DEF PendingIsRegistered, Pending, Ending
  <1> QED
    BY <1>8, <1>9, <1>10

LEMMA PassageDequeue == IInv /\ Dequeue => Passage'
  <1> SUFFICES ASSUME IInv, Dequeue PROVE Passage'
    OBVIOUS
  <1> USE DEF IInv, Passage
  <1> DEFINE key  == Head(stkeys)[1]
             sclt == Head(stkeys)[2]
             w    == sclt[1]
  <1>1. /\ UNCHANGED <<m_tid, startedOver, phase, closed, guiq>>
        /\ disp.pc = "test" /\ stkeys' = Tail(stkeys)
    BY DEF Dequeue, threads, gui, history
  <1>2. Apart' = Apart /\ Apart \subseteq Workers
    BY <1>1, ApartStays DEF Apart
  <1>3. /\ stkeys \in Seq(Elems) /\ stkeys # <<>> /\ key \in Int
        /\ sclt \in Collectors \cup {NoStat}
        /\ key < 0 => sclt # NoStat
    BY TakenElem
  <1>4. /\ StatsInOrder(Apart, stkeys')
        /\ key < 0 /\ w \in Apart => ~HasStat(stkeys', w) /\ ~HasEnd(stkeys', w)
    BY <1>1, <1>3, StatOrderTail DEF Ordered
  <1>5. \A v : /\ HasStat(stkeys, v) <=> HasStat(stkeys', v) \/ (key >= 0 /\ w = v)
               /\ HasEnd(stkeys, v) <=> HasEnd(stkeys', v) \/ (key < 0 /\ w = v)
    BY <1>1, <1>3, StatTail
  <1>6. Ordered'
    BY <1>2, <1>1, <1>4 DEF Ordered
  <1>7. CASE UNCHANGED <<m_tasks, disp>>
    <2>1. EndsMatched'
      BY <1>2, <1>7 DEF EndsMatched
    <2> QED
      BY <1>1, <1>5, <1>6, <1>7, <2>1, PassageShrinks DEF Emitting, Ending
  <1>8. CASE sclt # NoStat /\ sclt \in heap
    <2>1. sclt \in Collectors /\ w \in Workers
      <3>1. sclt \in Collectors
        BY <1>3, <1>8
      <3>2. \A s \in Collectors : s[1] \in Workers
        BY DEF Collectors
      <3> QED
        BY <3>1, <3>2
    <2>2. m_tid[w] \in Tids
      <3>1. HasStat(stkeys, w) \/ HasEnd(stkeys, w)
        BY <1>3, <1>5
      <3> QED
        BY <2>1, <3>1 DEF Named, TypeOK, UnbornIsUnknown
    <2>3. /\ m_tasks' = IF m_tasks[m_tid[w]] = NoEntry
                        THEN [m_tasks EXCEPT ![m_tid[w]] = Null] ELSE m_tasks
          /\ disp'.pc = "emit" /\ disp'.key = key /\ disp'.sclt = sclt
          /\ disp'.eaw = m_tasks'[m_tid[w]]
      BY <1>8 DEF Dequeue
    <2>4. \A t \in Tids : m_tasks[t] # NoEntry => m_tasks'[t] = m_tasks[t]
      BY <2>3 DEF Named, TypeOK
    <2>5. \A v : Ending(v, {"emit", "remove", "release"})' <=> key < 0 /\ w = v
      BY <2>3 DEF Ending
    <2>6. \A v : /\ ~Ending(v, {"emit", "remove", "release"}) /\ ~Emitting(v)
                 /\ Emitting(v)' <=> key >= 0 /\ w = v
                 /\ Ending(v, {"emit", "remove"})' <=> key < 0 /\ w = v
      BY <1>1, <2>3 DEF Ending, Emitting
    <2>7. PendingIsRegistered'
      <3> SUFFICES ASSUME NEW v \in Apart, v \in Workers, Pending(v)'
                   PROVE  m_tasks'[m_tid'[v]] = v
        BY <1>2 DEF PendingIsRegistered
      <3>1. Pending(v)
        BY <1>1, <1>5, <2>6 DEF Pending
      <3>2. m_tasks[m_tid[v]] = v /\ m_tid[v] \in Tids
        BY <3>1, PendingIsCreated DEF PendingIsRegistered
      <3> QED
        BY <1>1, <2>4, <3>2, ConstantsAssumption
    <2>8. EndsMatched'
      <3>1. ASSUME key < 0, w \in Apart PROVE disp'.eaw = w
        <4>1. Pending(w)
          BY <1>5, <3>1 DEF Pending
        <4>2. m_tasks[m_tid[w]] = w
          BY <3>1, <4>1 DEF PendingIsRegistered
        <4> QED
          BY <2>1, <2>2, <2>3, <2>4, <4>2, ConstantsAssumption
      <3> QED
        BY <1>2, <2>3, <3>1 DEF EndsMatched
    <2>9. Stages'
      <3> SUFFICES ASSUME NEW v \in Apart, v \in Workers PROVE StageDefs(v)'
        BY <1>2 DEF Stages, StageDefs
      <3>1. StageDefs(v)
        BY DEF Stages, StageDefs
      <3>2. CASE v = w
        <4>1. CASE key < 0
          BY <1>1, <1>3, <1>4, <1>5, <2>3, <2>5, <2>6, <3>1, <3>2, <4>1
          DEF StageDefs, DoneIsPosted, EndIsQueued, EndIsHandled,
              FinalIsPosted, ClosedIsSilent, ReleasedIsSilent
        <4>2. CASE ~(key < 0)
          BY <1>1, <1>3, <1>5, <2>5, <2>6, <3>1, <3>2, <4>2
          DEF StageDefs, DoneIsPosted, EndIsQueued, EndIsHandled,
              FinalIsPosted, ClosedIsSilent, ReleasedIsSilent
        <4> QED
          BY <4>1, <4>2
      <3>3. CASE v # w
        BY <1>1, <1>5, <2>5, <2>6, <3>1, <3>3
        DEF StageDefs, DoneIsPosted, EndIsQueued, EndIsHandled,
            FinalIsPosted, ClosedIsSilent, ReleasedIsSilent
      <3> QED
        BY <3>2, <3>3
    <2> QED
      BY <1>6, <2>7, <2>8, <2>9
  <1>9. NoStat \notin heap
    BY ConstantsAssumption DEF Named, TypeOK, NoStat, Collectors
  <1> QED
    BY <1>7, <1>8, <1>9 DEF Dequeue

\* The dispatcher reports and releases a worker that is Apart only when it
\* handles the end of that worker.
LEMMA FoundWorker ==
    ASSUME IInv, disp.pc \in {"emit", "remove", "release"}, disp.key < 0,
           disp.eaw # Null
    PROVE  /\ disp.sclt[1] \in Workers /\ disp.eaw \in Workers
           /\ disp.eaw \in Apart <=> disp.sclt[1] \in Apart
           /\ disp.eaw \in Apart => disp.eaw = disp.sclt[1]
  <1>1. disp.sclt[1] \in Workers /\ disp.eaw \in Workers
    BY DEF IInv, Named, TypeOK, LocalsNamed, Collectors
  <1>2. m_tid[disp.eaw] = m_tid[disp.sclt[1]]
    BY DEF IInv, Matched
  <1>3. disp.sclt[1] \in Apart => disp.eaw = disp.sclt[1]
    BY DEF IInv, Passage, EndsMatched
  <1> QED
    BY <1>1, <1>2, <1>3 DEF Apart

\* What the dispatcher knows of the worker whose end it handles.
LEMMA HandledWorker ==
    ASSUME IInv, disp.pc \in {"emit", "remove", "release"}, disp.key < 0,
           disp.sclt[1] \in Apart
    PROVE  LET w == disp.sclt[1] IN
             /\ w \in Workers /\ disp.eaw = w
             /\ Ending(w, {"emit", "remove", "release"})
             /\ phase[w] = "ended"
             /\ ~Has(guiq, "workerFinished", w) /\ ~HasEnd(stkeys, w)
             /\ ~Has(guiq, "progressStat", w) /\ ~HasStat(stkeys, w)
             /\ ~Has(guiq, "deleteLater", w)
             /\ disp.pc = "emit" => ~Has(guiq, "taskFinal", w) /\ w \notin closed
  <1> DEFINE w == disp.sclt[1]
  <1>1. w \in Workers
    BY DEF IInv, Named, TypeOK, LocalsNamed, Collectors
  <1>2. disp.eaw = w
    BY DEF IInv, Passage, EndsMatched
  <1>3. Ending(w, {"emit", "remove", "release"})
    BY DEF Ending
  <1> QED
    BY <1>1, <1>2, <1>3
    DEF IInv, Passage, Stages, DoneIsPosted, EndIsQueued, EndIsHandled

LEMMA PassageConfirmFinished == IInv /\ ConfirmFinished => Passage'
  <1> SUFFICES ASSUME IInv, ConfirmFinished PROVE Passage'
    OBVIOUS
  <1> USE DEF IInv, Passage
  <1> DEFINE w == disp.sclt[1]
             status == FinalStatus(exit_status[disp.eaw])
             e == TaskFinal(disp.eaw, status)
  <1>1. /\ UNCHANGED <<m_tasks, m_tid, startedOver, phase, closed, stkeys>>
        /\ disp.pc = "emit" /\ disp.key < 0
    BY DEF ConfirmFinished, tables, threads, gui, history
  <1>2. Apart' = Apart /\ Apart \subseteq Workers
    BY <1>1, ApartStays DEF Apart
  <1>3. CASE UNCHANGED guiq
    <2>1. disp' = disp \/ disp'.pc = "free"
      BY <1>3 DEF ConfirmFinished, PostFinal, Named, TypeOK
    <2>2. Ordered' /\ EndsMatched'
      BY <1>2, <1>1, <1>3, <2>1 DEF Ordered, EndsMatched
    <2> QED
      BY <1>1, <1>3, <2>1, <2>2, PassageShrinks DEF Emitting, Ending
  <1>4. CASE ~UNCHANGED guiq
    <2>1. /\ guiq' = Append(guiq, e) /\ guiq \in Seq(Events)
          /\ disp'.pc = "remove" /\ disp'.key = disp.key
          /\ disp'.sclt = disp.sclt /\ disp'.eaw = disp.eaw
      BY <1>4 DEF ConfirmFinished, PostFinal, Named, TypeOK
    <2>2. /\ disp.eaw # Null /\ w \in Workers /\ disp.eaw \in Workers
          /\ \A v \in Apart : v = disp.eaw <=> v = w
      <3>1. disp.eaw # Null
        BY <1>4 DEF ConfirmFinished
      <3> QED
        BY <1>1, <3>1, FoundWorker
    <2>3. status \in Finals
      BY DEF FinalStatus, Finals
    <2>4. e \in Events /\ e.type = "taskFinal" /\ e.w = disp.eaw
      <3> HIDE DEF status
      <3> QED
        BY <2>2, <2>3 DEF TaskFinal, Event, Events
    <2> HIDE DEF e
    <2>5. \A type, v : Has(guiq', type, v)
                        <=> Has(guiq, type, v) \/ (type = "taskFinal" /\ v = disp.eaw)
      BY <2>1, <2>4, HasAppend
    <2>6. EventsInOrder(Apart, guiq')
      <3>1. disp.eaw \in Apart => ~Has(guiq, "taskFinal", disp.eaw)
        BY <1>1, <2>2, HandledWorker
      <3> QED
        BY <2>1, <2>4, <3>1, OrderAppend DEF Ordered
    <2>7. Ordered' /\ EndsMatched'
      BY <1>2, <1>1, <2>1, <2>2, <2>6 DEF Ordered, EndsMatched
    <2>8. \A v : /\ ~Emitting(v)'
                 /\ Ending(v, {"emit", "remove", "release"})' <=> v = w
                 /\ Ending(v, {"emit", "remove"})' <=> v = w
      BY <1>1, <2>1 DEF Emitting, Ending
    <2>9. \A v : Ending(v, {"emit", "remove", "release"}) <=> v = w
      BY <1>1 DEF Ending
    <2>10. Stages'
      <3> SUFFICES ASSUME NEW v \in Apart, v \in Workers PROVE StageDefs(v)'
        BY <1>2 DEF Stages, StageDefs
      <3>1. StageDefs(v)
        BY DEF Stages, StageDefs
      <3>2. CASE v = w
        BY <1>1, <2>1, <2>2, <2>5, <2>8, <3>1, <3>2, HandledWorker
        DEF StageDefs, DoneIsPosted, EndIsQueued, EndIsHandled,
            FinalIsPosted, ClosedIsSilent, ReleasedIsSilent
      <3>3. CASE v # w
        BY <1>1, <2>2, <2>5, <2>8, <2>9, <3>1, <3>3
        DEF StageDefs, DoneIsPosted, EndIsQueued, EndIsHandled,
            FinalIsPosted, ClosedIsSilent, ReleasedIsSilent
      <3> QED
        BY <3>2, <3>3
    <2>11. PendingIsRegistered'
      <3>1. Ending(w, {"emit", "remove"})
        BY <1>1 DEF Ending
      <3> QED
        BY <1>2, <1>1, <2>5, <2>8, <3>1 DEF PendingIsRegistered, Pending
    <2> QED
      BY <2>7, <2>10, <2>11
  <1> QED
    BY <1>3, <1>4

\* Taking w out of m_tasks leaves the entries of the other pending workers,
\* which run for other tasks.
LEMMA PassageConfirmRemove == IInv /\ ConfirmRemove => Passage'
  <1> SUFFICES ASSUME IInv, ConfirmRemove PROVE Passage'
    OBVIOUS
  <1> USE DEF IInv, Passage
  <1> DEFINE w == disp.sclt[1]
  <1>1. /\ UNCHANGED <<m_tid, startedOver, phase, closed, stkeys, guiq>>
        /\ disp.pc = "remove" /\ disp'.pc = "release" /\ disp.key < 0
        /\ disp'.key = disp.key /\ disp'.sclt = disp.sclt /\ disp'.eaw = disp.eaw
        /\ m_tasks' = [m_tasks EXCEPT ![m_tid[disp.eaw]] = NoEntry]
    BY DEF ConfirmRemove, threads, gui, Named, TypeOK, EndsMatched, history
  <1>2. Apart' = Apart /\ Apart \subseteq Workers
    BY <1>1, ApartStays DEF Apart
  <1>3. /\ disp.eaw # Null /\ disp.eaw \in Workers /\ w \in Workers
        /\ \A v \in Apart : v = disp.eaw <=> v = w
    BY <1>1, FoundWorker DEF Named, LocalsNamed
  <1>4. w \in Apart =>
          /\ phase[w] = "ended"
          /\ ~Has(guiq, "workerFinished", w) /\ ~HasEnd(stkeys, w)
    BY <1>1, HandledWorker
  <1>5. \A v : /\ ~Emitting(v)'
               /\ Ending(v, {"emit", "remove", "release"})' <=> v = w
               /\ Ending(v, {"emit", "remove", "release"}) <=> v = w
               /\ ~Ending(v, {"emit", "remove"})'
    BY <1>1 DEF Emitting, Ending
  <1>6. Ordered' /\ EndsMatched'
    BY <1>2, <1>1, <1>3 DEF Ordered, EndsMatched
  <1>7. Stages'
    <2> SUFFICES ASSUME NEW v \in Apart, v \in Workers PROVE StageDefs(v)'
      BY <1>2 DEF Stages, StageDefs
    <2> QED
      BY <1>1, <1>5
      DEF Stages, StageDefs, DoneIsPosted, EndIsQueued, EndIsHandled,
          FinalIsPosted, ClosedIsSilent, ReleasedIsSilent
  <1>8. PendingIsRegistered'
    <2> SUFFICES ASSUME NEW v \in Apart, v \in Workers, Pending(v)'
                 PROVE  m_tasks'[m_tid'[v]] = v
      BY <1>2 DEF PendingIsRegistered
    <2>1. v # w /\ Pending(v)
      BY <1>1, <1>4, <1>5 DEF Pending
    <2>2. m_tasks[m_tid[v]] = v /\ m_tid[v] \in Tids
      BY <2>1, PendingIsCreated DEF PendingIsRegistered
    <2>3. m_tid[disp.eaw] # m_tid[v]
      <3>1. CASE w \in Apart
        <4>1. Pending(w) /\ m_tasks[m_tid[w]] = w /\ disp.eaw = w
          BY <1>1, <1>3, <3>1 DEF Pending, PendingIsRegistered, Ending
        <4> QED
          BY <2>1, <2>2, <4>1
      <3>2. CASE w \notin Apart
        <4>1. disp.eaw \notin Apart
          BY <1>3, <3>2
        <4> QED
          BY <1>3, <4>1 DEF Apart
      <3> QED
        BY <3>1, <3>2
    <2> QED
      BY <1>1, <2>2, <2>3 DEF Named, TypeOK
  <1> QED
    BY <1>6, <1>7, <1>8

LEMMA PassageConfirmRelease == IInv /\ ConfirmRelease => Passage'
  <1> SUFFICES ASSUME IInv, ConfirmRelease PROVE Passage'
    OBVIOUS
  <1> USE DEF IInv, Passage
  <1> DEFINE w == disp.sclt[1]
             e == DeleteLater(disp.eaw)
  <1>1. /\ UNCHANGED <<m_tasks, m_tid, startedOver, phase, closed, stkeys>>
        /\ disp.pc = "release" /\ disp'.pc = "free" /\ disp.key < 0
        /\ guiq' = Append(guiq, e) /\ guiq \in Seq(Events)
    BY DEF ConfirmRelease, Unregister, PostDelete, threads, gui, Named, TypeOK, EndsMatched, history
  <1>2. Apart' = Apart /\ Apart \subseteq Workers
    BY <1>1, ApartStays DEF Apart
  <1>3. /\ disp.eaw # Null /\ disp.eaw \in Workers /\ w \in Workers
        /\ \A v \in Apart : v = disp.eaw <=> v = w
    BY <1>1, FoundWorker DEF Named, LocalsNamed
  <1>4. w \in Apart =>
          /\ phase[w] = "ended"
          /\ ~Has(guiq, "workerFinished", w) /\ ~HasEnd(stkeys, w)
          /\ ~Has(guiq, "progressStat", w) /\ ~HasStat(stkeys, w)
    BY <1>1, HandledWorker
  <1>5. e \in Events /\ e.type = "deleteLater" /\ e.w = disp.eaw
    BY <1>3 DEF DeleteLater, Event, Events
  <1>6. \A type, v : Has(guiq', type, v)
                      <=> Has(guiq, type, v) \/ (type = "deleteLater" /\ v = disp.eaw)
    BY <1>1, <1>5, HasAppend
  <1>7. EventsInOrder(Apart, guiq')
    BY <1>1, <1>5, OrderAppend DEF Ordered
  <1>8. \A v : /\ ~Emitting(v)'
               /\ ~Ending(v, {"emit", "remove", "release"})'
               /\ ~Ending(v, {"emit", "remove"})'
    BY <1>1 DEF Emitting, Ending
  <1>9. Ordered' /\ EndsMatched'
    BY <1>2, <1>1, <1>7 DEF Ordered, EndsMatched
  <1>10. Stages'
    <2> SUFFICES ASSUME NEW v \in Apart, v \in Workers PROVE StageDefs(v)'
      BY <1>2 DEF Stages, StageDefs
    <2> QED
      BY <1>1, <1>3, <1>4, <1>6, <1>8
      DEF Stages, StageDefs, DoneIsPosted, EndIsQueued, EndIsHandled,
          FinalIsPosted, ClosedIsSilent, ReleasedIsSilent
  <1>11. PendingIsRegistered'
    BY <1>2, <1>1, <1>6, <1>8 DEF PendingIsRegistered, Pending
  <1> QED
    BY <1>9, <1>10, <1>11

LEMMA PassageDispatcher == IInv /\ Dispatcher => Passage'
  <1> SUFFICES ASSUME IInv, Dispatcher PROVE Passage'
    OBVIOUS
  <1>1. CASE SeeEmpty \/ Leave \/ FreeStat
    <2>1. /\ UNCHANGED <<m_tasks, m_tid, startedOver, phase, closed, guiq, stkeys>>
          /\ disp'.pc \in {"leave", "idle", "test"}
      BY <1>1 DEF SeeEmpty, Leave, FreeStat, tables, threads, gui, history, Idle, IInv,
                  Named, TypeOK
    <2>2. Passage /\ Ordered' /\ EndsMatched'
      BY <2>1, ApartStays DEF IInv, Passage, Ordered, EndsMatched
    <2> QED
      BY <2>1, <2>2, PassageShrinks DEF Emitting, Ending
  <1> QED
    BY <1>1, PassageDequeue, PassageDispatchStat, PassageConfirmFinished,
       PassageConfirmRemove, PassageConfirmRelease DEF Dispatcher

LEMMA PassagePauseTask ==
    ASSUME IInv, NEW t \in Tids, PauseTask(t)
    PROVE  Passage'
  BY PassageFrame DEF PauseTask, tables, gui, history, IInv

\* The inductive step.
LEMMA IInvNext == IInv /\ [Next]_vars => IInv'
  <1> SUFFICES ASSUME IInv, [Next]_vars PROVE IInv'
    OBVIOUS
  <1>1. Named' /\ Matched'
    BY NamedNext, MatchedNext DEF IInv
  <1>2. CASE UNCHANGED vars
    <2>1. /\ UNCHANGED <<m_tasks, m_tid, startedOver, guiq, stkeys, disp, closed>>
          /\ \A w \in Workers : phase'[w] = phase[w]
      BY <1>2 DEF vars, tables, threads, gui, history
    <2> QED
      BY <1>1, <2>1, PassageFrame DEF IInv
  <1> QED
    BY <1>1, <1>2, PassageAddTask, PassagePauseTask, PassageWorker, PassageGui,
       PassageDispatcher DEF Next, IInv

LEMMA IInvAlways == Spec => []IInv
  <1>1. Init => IInv
    BY NamedInit, PassageInit DEF IInv
  <1> QED
    BY <1>1, IInvNext, PTL DEF Spec
-----------------------------------------------------------------------------
(* What follows for the tasks that were not started while they ran.        *)

\* FinalReportIsLast: once the last report of a download was delivered none of
\* its progress is under way, whatever happens to tasks that are started over.
THEOREM LastReport == Spec => []FinalReportIsLast
  <1>1. IInv => FinalReportIsLast
    <2> SUFFICES ASSUME IInv, NEW w \in closed \cap Apart PROVE ~InFlight(w)
      BY DEF FinalReportIsLast
    <2>1. ClosedIsSilent(w)
      BY DEF IInv, Passage, Stages
    <2> QED
      BY <2>1 DEF ClosedIsSilent, InFlight, Has, HasStat, Emitting
  <1> QED
    BY <1>1, IInvAlways, PTL

\* FinishFindsItsWorker: looking the worker up by its task finds the worker
\* whose download ended; of a task that was started over, only workers of that
\* task or none are found.
THEOREM FinishFound == Spec => []FinishFindsItsWorker
  <1>1. IInv => FinishFindsItsWorker
    <2> SUFFICES ASSUME IInv, disp.pc = "emit", disp.key < 0
                 PROVE  IF disp.sclt[1] \in Apart
                        THEN disp.eaw = disp.sclt[1] /\ phase[disp.eaw] = "ended"
                        ELSE disp.eaw = Null \/ m_tid[disp.eaw] = m_tid[disp.sclt[1]]
      BY DEF FinishFindsItsWorker
    <2>1. CASE disp.sclt[1] \in Apart
      BY <2>1, HandledWorker
    <2>2. CASE disp.sclt[1] \notin Apart
      BY <2>2 DEF IInv, Matched
    <2> QED
      BY <2>1, <2>2
  <1> QED
    BY <1>1, IInvAlways, PTL

\* RunningIsRegistered: a running worker is the entry of its task, if that was
\* not started over.
THEOREM Registered == Spec => []RunningIsRegistered
  <1>1. IInv => RunningIsRegistered
    BY DEF IInv, Passage, PendingIsRegistered, Pending, RunningIsRegistered
  <1> QED
    BY <1>1, IInvAlways, PTL

\* Only three steps concern the list of tasks.
LEMMA RowSteps ==
    ASSUME [Next]_vars
    PROVE  \/ \E t \in Tids, w \in Workers : AddTask(t, w)
           \/ OnTaskStat \/ OnTaskFinal
           \/ UNCHANGED <<m_tid, closed, shown, startedOver>>
  <1>1. CASE UNCHANGED vars
    BY <1>1 DEF vars, threads, gui, history
  <1>2. ASSUME NEW t \in Tids, PauseTask(t)
        PROVE  UNCHANGED <<m_tid, closed, shown, startedOver>>
    BY <1>2 DEF PauseTask, gui, history
  <1>3. ASSUME NEW w \in Workers, WorkerThread(w)
        PROVE  UNCHANGED <<m_tid, closed, shown, startedOver>>
    BY <1>3 DEF WorkerThread, Prepare, BeginCalc, EmitStat, WriteToFreed, Return, Finished,
                threads, gui, history
  <1>4. ASSUME OnAllStatArrived \/ OnWorkerFinished \/ Wake \/ OnDeleteLater
        PROVE  UNCHANGED <<m_tid, closed, shown, startedOver>>
    BY <1>4 DEF OnAllStatArrived, OnWorkerFinished, Wake, OnDeleteLater,
                threads, gui, history
  <1>5. ASSUME Dispatcher
        PROVE  UNCHANGED <<m_tid, closed, shown, startedOver>>
    BY <1>5 DEF Dispatcher, SeeEmpty, Leave, Dequeue, DispatchStat,
                ConfirmFinished, ConfirmRemove, ConfirmRelease, FreeStat,
                threads, gui, history
  <1> QED
    BY <1>1, <1>2, <1>3, <1>4, <1>5 DEF Next, GuiThread

\* What a delivered report says about the download it is about.
LEMMA DeliveredReport ==
    ASSUME IInv, OnTaskStat \/ OnTaskFinal
    PROVE  /\ Head(guiq).w \in Workers
           /\ Head(guiq).w \in Apart => Head(guiq).w \notin closed
           /\ m_tid[Head(guiq).w] \in Tids
           /\ OnTaskFinal => Head(guiq).status \in Finals
           /\ UNCHANGED <<m_tid, startedOver>>
  <1> DEFINE w == Head(guiq).w
  <1>1. CASE OnTaskStat
    <2>1. w \in Workers /\ Has(guiq, "taskStat", w)
      BY <1>1, TakenEvent DEF OnTaskStat, IInv, Named
    <2>2. w \in Apart => w \notin closed
      BY <2>1 DEF IInv, Passage, Stages, ClosedIsSilent
    <2>3. m_tid[w] \in Tids
      BY <2>1 DEF IInv, Named, TypeOK, UnbornIsUnknown, EventTypes
    <2>4. UNCHANGED <<m_tid, startedOver>> /\ ~OnTaskFinal
      BY <1>1 DEF OnTaskStat, OnTaskFinal, NextEvent, threads, history
    <2> QED
      BY <2>1, <2>2, <2>3, <2>4
  <1>2. CASE OnTaskFinal
    <2>1. /\ w \in Workers /\ Has(guiq, "taskFinal", w)
          /\ Head(guiq) \in Events /\ Head(guiq).type = "taskFinal"
      BY <1>2, TakenEvent DEF OnTaskFinal, IInv, Named
    <2>2. w \in Apart => w \notin closed
      BY <2>1 DEF IInv, Passage, Stages, FinalIsPosted
    <2>3. m_tid[w] \in Tids
      BY <2>1 DEF IInv, Named, TypeOK, UnbornIsUnknown, EventTypes
    <2>4. Head(guiq).status \in Finals
      BY <2>1 DEF Events
    <2>5. UNCHANGED <<m_tid, startedOver>>
      BY <1>2 DEF OnTaskFinal, threads, history
    <2> QED
      BY <2>1, <2>2, <2>3, <2>4, <2>5
  <1> QED
    BY <1>1, <1>2

\* FinalStatusSticks: a row that shows the end of a download changes only on
\* behalf of a download of the same task that is still open, if the task was not
\* started while it ran; what other tasks do does not matter.
THEOREM StatusSticks == Spec => FinalStatusSticks
  <1>1. ASSUME IInv, [Next]_vars
        PROVE  \A t \in Tids \ startedOver' :
                 shown[t] \in Finals /\ shown'[t] # shown[t]
                   => \E w \in Workers : m_tid'[w] = t /\ w \notin closed
    <2> SUFFICES ASSUME NEW t \in Tids, t \notin startedOver', shown'[t] # shown[t]
                 PROVE  \E w \in Workers : m_tid'[w] = t /\ w \notin closed
      OBVIOUS
    <2>1. ASSUME NEW u \in Tids, NEW w \in Workers, AddTask(u, w)
          PROVE  \E v \in Workers : m_tid'[v] = t /\ v \notin closed
      <3>1. /\ shown' = [shown EXCEPT ![u] = IF @ = "done" THEN "ready" ELSE @]
            /\ m_tid' = [m_tid EXCEPT ![w] = u] /\ phase[w] = "unborn"
        BY <2>1 DEF AddTask
      <3>2. u = t
        BY <3>1, <2>1 DEF IInv, Named, TypeOK
      <3>3. m_tid'[w] = t /\ w \notin closed
        BY <1>1, <3>1, <3>2 DEF IInv, Named, TypeOK, UnbornIsUnknown
      <3> QED
        BY <3>3
    <2>2. CASE OnTaskStat \/ OnTaskFinal
      <3>1. m_tid[Head(guiq).w] = t
        BY <1>1, <2>2, DeliveredReport
        DEF OnTaskStat, OnTaskFinal, Show, IInv, Named, TypeOK
      <3>2. Head(guiq).w \in Apart
        BY <1>1, <2>2, <3>1, DeliveredReport DEF Apart
      <3> QED
        BY <1>1, <2>2, <3>1, <3>2, DeliveredReport
    <2> QED
      BY <1>1, <2>1, <2>2, RowSteps
  <1> QED
    BY <1>1, IInvAlways, PTL DEF Spec, FinalStatusSticks

\* ImplementsTaskReports: whatever the threads do and whatever the user starts,
\* the list of tasks sees downloads that open, report, and close at most once;
\* those of a task started over are not told apart, and stay on its row.
THEOREM Implements == Spec => ImplementsTaskReports
  <1>1. ASSUME Init PROVE Reports!Init
    BY <1>1 DEF Init, Reports!Init, life
  <1>2. ASSUME IInv, [Next]_vars PROVE [Reports!Next]_(Reports!vars)
    <2> USE DEF IInv, Named, TypeOK
    <2>1. ASSUME NEW t \in Tids, NEW w \in Workers, AddTask(t, w)
          PROVE  Reports!Open(t, w)
      <3>1. /\ UNCHANGED closed /\ phase[w] = "unborn"
            /\ m_tid' = [m_tid EXCEPT ![w] = t]
            /\ shown' = [shown EXCEPT ![t] = IF @ = "done" THEN "ready" ELSE @]
            /\ startedOver' = startedOver \cup {u \in {t} : m_tasks[u] # NoEntry}
        BY <2>1 DEF AddTask
      <3>2. startedOver' \in IF \E v \in Workers : m_tid[v] = t
                             THEN {startedOver, startedOver \cup {t}}
                             ELSE {startedOver}
        <4>1. m_tasks[t] # NoEntry => \E v \in Workers : m_tid[v] = t
          BY <1>2 DEF Matched
        <4>2. startedOver' = IF m_tasks[t] # NoEntry THEN startedOver \cup {t}
                             ELSE startedOver
          BY <3>1
        <4> QED
          BY <4>1, <4>2
      <3>3. m_tid[w] = NoTid /\ w \notin closed /\ t # NoTid
        BY <1>2, <3>1, ConstantsAssumption DEF UnbornIsUnknown
      <3>4. life[w] = "off"
        BY <3>3 DEF life
      <3>5. life' = [life EXCEPT ![w] = "open"]
        BY <1>2, <3>1, <3>3 DEF life
      <3> QED
        BY <3>1, <3>4, <3>5, <3>2 DEF Reports!Open
    <2>2. ASSUME OnTaskStat \/ OnTaskFinal
          PROVE  \/ life[Head(guiq).w] = "open"
                 \/ life[Head(guiq).w] # "off" /\ m_tid[Head(guiq).w] \in startedOver
      BY <1>2, <2>2, DeliveredReport, ConstantsAssumption DEF life, Apart
    <2>3. CASE OnTaskStat
      <3>1. /\ UNCHANGED <<m_tid, startedOver, closed, life>>
            /\ Reports!Show(m_tid[Head(guiq).w], "active")
        BY <2>3 DEF OnTaskStat, Show, Reports!Show, life, threads, history
      <3>2. \/ Reports!Report(Head(guiq).w) \/ Reports!Blur(Head(guiq).w, "active")
        BY <2>2, <2>3, <3>1 DEF Reports!Report, Reports!Blur
      <3> QED
        BY <1>2, <2>3, <3>2, DeliveredReport DEF Reports!Next
    <2>4. CASE OnTaskFinal
      <3>1. closed' = closed \cup {Head(guiq).w} /\ UNCHANGED <<m_tid, startedOver>>
        BY <2>4 DEF OnTaskFinal, threads, history
      <3>2. life' = [life EXCEPT ![Head(guiq).w] = "closed"]
        BY <1>2, <2>4, <3>1, DeliveredReport, ConstantsAssumption DEF life
      <3>3. \/ Reports!Close(Head(guiq).w, Head(guiq).status)
            \/ Reports!Blur(Head(guiq).w, Head(guiq).status)
        BY <1>2, <2>2, <2>4, <3>1, <3>2
        DEF OnTaskFinal, Show, Reports!Close, Reports!Blur, Reports!Show
      <3>4. Head(guiq).w \in Workers /\ Head(guiq).status \in Reports!Finals
        BY <1>2, <2>4, DeliveredReport DEF Finals, Reports!Finals
      <3> QED
        BY <3>3, <3>4 DEF Reports!Next
    <2>5. CASE UNCHANGED <<m_tid, closed, shown, startedOver>>
      BY <2>5 DEF life, Reports!vars
    <2> QED
      BY <1>2, <2>1, <2>3, <2>4, <2>5, RowSteps DEF Reports!Next
  <1> QED
    BY <1>1, <1>2, IInvAlways, PTL DEF Spec, ImplementsTaskReports, Reports!Spec
=============================================================================
