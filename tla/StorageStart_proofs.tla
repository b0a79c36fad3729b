------------------------- MODULE StorageStart_proofs -------------------------
(***************************************************************************)
(* Proofs about StorageStart, for every bound and every INT_MAX.           *)
(*                                                                         *)
(* The stage the database thread has reached decides all the rest: what    *)
(* the worker's pointer is worth, whether the connection is open, which    *)
(* tables there are, and that nobody has heard ready(true) before the      *)
(* event loop runs.                                                        *)
(***************************************************************************)
EXTENDS StorageStart, FiniteSetTheorems, TLAPS

Working == {"built", "wired", "tables", "seeding", "reopen", "open",
            "announced", "exec"}

Present(t) == disk[t] # "absent" \/ t \in failed

\* The worker and its connection follow the stage.
StageInv ==
    /\ thread \in Working => m_worker = "live"
    /\ thread \in {"tables", "seeding"} => conn
    /\ thread \in {"open", "announced", "exec"} => conn \/ "open" \in failed
    /\ thread = "seeding" =>
           /\ at <= 6
           /\ \/ disk[TableOrder[at]] = "bare" /\ TableOrder[at] \notin failed
              \/ disk[TableOrder[at]] = "absent" /\ TableOrder[at] \in failed
    /\ gui = "closed" => thread = "off"

\* The tables before the one looked at are there, unless their CREATE failed,
\* and all of them after it.
TablesInv ==
    /\ thread \in {"tables", "seeding"} =>
           \A k \in 1..6 : k < at => Present(TableOrder[k])
    /\ thread \in {"reopen", "open", "announced", "exec"} =>
           \A t \in Tables : Present(t)

\* Nobody has heard ready(true) before the event loop runs.
HeardInv == gui = "opened" \/ Announced => thread = "exec"

IInv == TypeOK /\ StageInv /\ TablesInv /\ HeardInv

LEMMA OrderIsTables == \A k \in 1..6 : TableOrder[k] \in Tables
  BY DEF Tables

LEMMA SixTables == \A t \in Tables : \E k \in 1..6 : t = TableOrder[k]
  BY DEF Tables

LEMMA Names ==
    /\ "default_options" \in Tables /\ "tasks" \in Tables
    /\ "user_options" \in Tables /\ "categorys" \in Tables
    /\ "seq_tasks" \in Tables
<1>1. TableOrder[1] = "categorys" /\ TableOrder[2] = "default_options"
      /\ TableOrder[4] = "seq_tasks" /\ TableOrder[5] = "tasks"
      /\ TableOrder[6] = "user_options"
  BY DEF TableOrder
<1> QED BY <1>1, OrderIsTables

LEMMA NumberInRange ==
    ASSUME TypeOK, NEW k \in Nat \ {0}
    PROVE  Number(k) \in 1..IntMax - 1
<1>1. IntMax - 1 \in Nat \ {0}
  BY StartAssumption
<1>2. m_reqno + k - 2 \in Int
  BY DEF TypeOK, ReqNos
<1>3. \A x \in Int, d \in Nat \ {0} : x % d \in 0..d - 1
  OBVIOUS
<1> DEFINE x == m_reqno + k - 2
<1> DEFINE d == IntMax - 1
<1>4. x % d \in 0..d - 1
  <2> HIDE DEF x, d
  <2> QED BY <1>1, <1>2, <1>3 DEF x, d
<1> QED BY <1>4, <1>1, StartAssumption DEF Number

LEMMA ExecuteType ==
    ASSUME TypeOK, NEW ts \in Seq(Tables), ts # << >>, Execute(ts)
    PROVE  /\ posted' \in 0..MaxPosts /\ m_reqno' \in ReqNos
           /\ inbox' \in Seq([no : ReqNos, table : Tables])
           /\ unheard' \in 0..posted'
<1> DEFINE n == Len(ts)
           sent == [k \in 1..n |-> [no |-> Number(k), table |-> ts[k]]]
<1>1. n \in Nat \ {0}
  OBVIOUS
<1>2. \A k \in 1..n : Number(k) \in ReqNos
  BY <1>1, NumberInRange, StartAssumption DEF ReqNos
<1>3. sent \in Seq([no : ReqNos, table : Tables])
  BY <1>1, <1>2
<1>4. Number(n) \in 1..IntMax - 1
  BY <1>1, NumberInRange
<1>5. /\ posted + n <= MaxPosts
      /\ posted' = posted + n
      /\ m_reqno' = Number(n) + 1
      /\ inbox' = (IF NobodyListens THEN inbox ELSE inbox \o sent)
      /\ unheard' = (IF NobodyListens THEN unheard + n ELSE unheard)
  BY DEF Execute
<1>6. inbox' \in Seq([no : ReqNos, table : Tables])
  <2> HIDE DEF sent
  <2> QED BY <1>3, <1>5 DEF TypeOK
<1>7. m_reqno' \in ReqNos
  BY <1>4, <1>5, StartAssumption DEF ReqNos
<1>8. posted' \in 0..MaxPosts /\ unheard' \in 0..posted'
  BY <1>1, <1>5, StartAssumption DEF TypeOK
<1> QED BY <1>6, <1>7, <1>8

LEMMA PostedTables ==
    /\ <<"default_options">> \in Seq(Tables) /\ <<"tasks">> \in Seq(Tables)
    /\ \A s \in {<< >>, <<"user_options", "user_options">>} :
           /\ <<"default_options">> \o s \in Seq(Tables)
           /\ <<"default_options">> \o s # << >>
<1>1. \A s \in Seq(Tables) : /\ <<"default_options">> \o s \in Seq(Tables)
                             /\ <<"default_options">> \o s # << >>
  BY Names
<1> QED BY <1>1, Names

LEMMA ReadsType ==
    ASSUME TypeOK, NEW ts, Reads(ts)
    PROVE  fault' \in {"none", "noWorker", "assert"} /\ conn' \in BOOLEAN
<1>1. fault' \in {"none", "noWorker", "assert"}
  BY DEF Reads
<1>2. conn' \in BOOLEAN
  BY DEF Reads, Connects, TypeOK
<1> QED BY <1>1, <1>2

LEMMA CategoryModelType ==
    TypeOK => CategoryModel \in {"none", "partial", "whole"}
  BY DEF CategoryModel, TypeOK

LEMMA TypeInductive == TypeOK /\ StageInv /\ [Next]_vars => TypeOK'
<1> SUFFICES ASSUME TypeOK, StageInv, [Next]_vars PROVE TypeOK'
  OBVIOUS
<1> USE StartAssumption
<1>1. CASE Database
  <2> USE OrderIsTables
  <2>1. CASE Run BY <2>1 DEF Run, Step, TypeOK, Stages, Events, guiVars
  <2>2. CASE Wire BY <2>2 DEF Wire, Step, TypeOK, Stages, guiVars
  <2>3. CASE OpenConnection
    <3>1. fresh' \in BOOLEAN /\ conn' \in BOOLEAN
      BY <2>3 DEF OpenConnection
    <3>2. thread' \in Stages /\ at' \in 1..7
      BY <2>3 DEF OpenConnection, Step, Stages
    <3> QED BY <2>3, <3>1, <3>2 DEF OpenConnection, TypeOK, guiVars
  <2>4. CASE OpenFails
    BY <2>4 DEF OpenFails, Step, TypeOK, Stages, Events, guiVars
  <2>5. CASE GiveUp BY <2>5 DEF GiveUp, Step, TypeOK, Stages, guiVars
  <2>6. CASE SkipTable BY <2>6 DEF SkipTable, Step, TypeOK, guiVars
  <2>7. CASE CreateTable
    <3>1. at \in 1..6 /\ TableOrder[at] \in Tables
      BY <2>7 DEF CreateTable, TypeOK
    <3>2. /\ disk' \in [Tables -> {"absent", "bare", "whole"}]
          /\ failed' \subseteq Tables \cup {"open"}
      BY <2>7, <3>1 DEF CreateTable, Fails, TypeOK
    <3>3. thread' \in Stages /\ at' \in 1..7 /\ fresh' \in BOOLEAN
      BY <2>7, <3>1 DEF CreateTable, TypeOK, Stages
    <3> QED BY <2>7, <3>2, <3>3 DEF CreateTable, TypeOK, guiVars
  <2>8. CASE SeedTable
    <3>1. at' = at + 1 /\ thread' = "tables"
      BY <2>8 DEF SeedTable, Step
    <3>2. at <= 6
      BY <2>8 DEF SeedTable, Step, StageInv
    <3>3. /\ disk' \in [Tables -> {"absent", "bare", "whole"}]
          /\ failed' \subseteq Tables \cup {"open"}
      <4>1. TableOrder[at] \in Tables
        BY <3>2, OrderIsTables DEF TypeOK
      <4> QED BY <2>8, <4>1 DEF SeedTable, Fails, TypeOK
    <3> QED BY <2>8, <3>1, <3>2, <3>3 DEF SeedTable, Step, TypeOK, Stages, guiVars
  <2>9. CASE CloseAgain BY <2>9 DEF CloseAgain, Step, TypeOK, Stages, guiVars
  <2>10. CASE OpenAgain
    <3>1. conn' \in BOOLEAN /\ failed' \subseteq Tables \cup {"open"}
      BY <2>10 DEF OpenAgain, Fails, TypeOK
    <3> QED BY <2>10, <3>1 DEF OpenAgain, TypeOK, Stages, guiVars
  <2>11. CASE EmitConnected
    BY <2>11 DEF EmitConnected, Step, TypeOK, Stages, Events, guiVars
  <2>12. CASE EmitReady
    BY <2>12 DEF EmitReady, Step, TypeOK, Stages, Events, guiVars
  <2>13. CASE SlotExecute
    <3>1. conn' \in BOOLEAN
      BY <2>13 DEF SlotExecute, Connects, TypeOK
    <3> QED BY <2>13, <3>1 DEF SlotExecute, Step, TypeOK, Stages, guiVars
  <2> QED
    BY <1>1, <2>1, <2>2, <2>3, <2>4, <2>5, <2>6, <2>7, <2>8, <2>9, <2>10,
       <2>11, <2>12, <2>13 DEF Database
<1>2. CASE Open BY <1>2 DEF Open, TypeOK, Stages
<1>3. CASE LoadKey
  <2>1. Execute(<<"default_options">>)
    BY <1>3 DEF LoadKey
  <2>2. <<"default_options">> # << >>
    OBVIOUS
  <2>3. /\ posted' \in 0..MaxPosts /\ m_reqno' \in ReqNos
        /\ inbox' \in Seq([no : ReqNos, table : Tables])
        /\ unheard' \in 0..posted'
    BY <2>1, <2>2, ExecuteType, PostedTables
  <2> QED BY <1>3, <2>3 DEF LoadKey, TypeOK, dbVars
<1>4. CASE Shown BY <1>4 DEF Shown, TypeOK, dbVars
<1>5. CASE OpenDialog
  <2>1. fault' \in {"none", "noWorker", "assert"} /\ conn' \in BOOLEAN
    BY <1>5, ReadsType DEF OpenDialog, TypeOK
  <2>2. early' \in BOOLEAN
    BY <1>5 DEF OpenDialog
  <2> QED BY <1>5, <2>1, <2>2, CategoryModelType DEF OpenDialog, TypeOK
<1>6. CASE CreateTask
  <2>1. /\ fault' \in {"none", "noWorker", "assert"} /\ conn' \in BOOLEAN
        /\ early' \in BOOLEAN
    <3>1. Reads({"seq_tasks"}) /\ early' = (gui # "opened")
      BY <1>6 DEF CreateTask
    <3> QED BY <3>1, ReadsType
  <2>2. CASE Execute(<<"tasks">>)
    <3>1. <<"tasks">> # << >>
      OBVIOUS
    <3>2. /\ posted' \in 0..MaxPosts /\ m_reqno' \in ReqNos
          /\ inbox' \in Seq([no : ReqNos, table : Tables])
          /\ unheard' \in 0..posted'
      BY <2>2, <3>1, ExecuteType, PostedTables
    <3> QED BY <1>6, <2>1, <3>2 DEF CreateTask, TypeOK, dbVars
  <2>3. CASE UNCHANGED <<inbox, m_reqno, posted, unheard>>
    BY <1>6, <2>1, <2>3 DEF CreateTask, TypeOK, dbVars
  <2> QED BY <1>6, <2>2, <2>3 DEF CreateTask
<1>7. CASE SaveKey
  <2>1. PICK s \in {<< >>, <<"user_options", "user_options">>} :
             Execute(<<"default_options">> \o s)
    BY <1>7 DEF SaveKey
  <2>2. /\ <<"default_options">> \o s \in Seq(Tables)
        /\ <<"default_options">> \o s # << >>
    BY PostedTables
  <2>3. /\ posted' \in 0..MaxPosts /\ m_reqno' \in ReqNos
        /\ inbox' \in Seq([no : ReqNos, table : Tables])
        /\ unheard' \in 0..posted'
    BY <2>1, <2>2, ExecuteType
  <2> QED BY <1>7, <2>3 DEF SaveKey, TypeOK, dbVars
<1>8. CASE GuiEvent
  <2>1. CASE OnConnected BY <2>1 DEF OnConnected, Take, TypeOK, dbVars
  <2>2. CASE OnConnectError
    <3>1. connected' \in BOOLEAN
      BY <2>2 DEF OnConnectError
    <3>2. /\ UNCHANGED <<conn, gui, catModel, early, fault>>
          /\ Take("connect_error")
      BY <2>2 DEF OnConnectError
    <3> QED BY <3>1, <3>2 DEF Take, TypeOK, dbVars
  <2>3. ASSUME NEW b \in BOOLEAN, OnAdbStarted(b) PROVE TypeOK'
    <3>1. fault' \in {"none", "noWorker", "assert"} /\ conn' \in BOOLEAN
      BY <2>3, ReadsType DEF OnAdbStarted, TypeOK
    <3>4. early' \in BOOLEAN
      BY <2>3 DEF OnAdbStarted, TypeOK
    <3>2. /\ gui' \in {"closed", "opening", "waiting", "opened"}
          /\ catModel' \in {"none", "partial", "whole"}
      BY <2>3, CategoryModelType DEF OnAdbStarted, TypeOK
    <3>3. guiq' \in Seq(Events)
      BY <2>3 DEF OnAdbStarted, Take, TypeOK
    <3> QED BY <2>3, <3>1, <3>2, <3>3, <3>4 DEF OnAdbStarted, Take, TypeOK
  <2> QED BY <1>8, <2>1, <2>2, <2>3 DEF GuiEvent
<1>9. CASE Restart
  <2>1. restarts' \in 0..MaxRestarts
    BY <1>9 DEF Restart, TypeOK
  <2>2. 1 \in ReqNos /\ 0 \in 0..MaxPosts /\ 0 \in 0..0
    BY DEF ReqNos
  <2>3. inbox' \in Seq([no : ReqNos, table : Tables]) /\ guiq' \in Seq(Events)
    BY <1>9 DEF Restart
  <2>4. /\ fresh' \in BOOLEAN /\ conn' \in BOOLEAN /\ connected' \in BOOLEAN
        /\ early' \in BOOLEAN
    BY <1>9 DEF Restart
  <2>7. failed' \subseteq Tables \cup {"open"}
    BY <1>9 DEF Restart, TypeOK
  <2>6. /\ thread' \in Stages /\ at' \in 1..7
        /\ m_worker' \in {"null", "live", "dangling"}
        /\ gui' \in {"closed", "opening", "waiting", "opened"}
        /\ catModel' \in {"none", "partial", "whole"}
        /\ fault' \in {"none", "noWorker", "assert"}
    BY <1>9 DEF Restart, Stages
  <2>5. disk' = disk /\ m_reqno' = 1 /\ posted' = 0 /\ unheard' = 0
    BY <1>9 DEF Restart
  <2> QED BY <2>1, <2>2, <2>3, <2>4, <2>5, <2>6, <2>7 DEF TypeOK
<1>10. CASE UNCHANGED vars BY <1>10 DEF vars, dbVars, guiVars, TypeOK
<1> QED
  BY <1>1, <1>2, <1>3, <1>4, <1>5, <1>6, <1>7, <1>8, <1>9, <1>10
     DEF Next, User

-----------------------------------------------------------------------------
(* The stages *)

\* A step of the GUI thread leaves the database thread and the file alone.
GuiStep ==
    /\ UNCHANGED <<thread, at, m_worker, failed, disk>>
    /\ conn => conn'
    /\ gui' = "opened" \/ Announced' => gui = "opened" \/ Announced

LEMMA GuiSteps ==
    ASSUME TypeOK, LoadKey \/ Shown \/ User \/ GuiEvent
    PROVE  GuiStep
<1>1. CASE LoadKey
  BY <1>1 DEF LoadKey, GuiStep, Announced, dbVars
<1>2. CASE Shown
  BY <1>2 DEF Shown, GuiStep, Announced, dbVars
<1>3. CASE User
  BY <1>3 DEF User, OpenDialog, CreateTask, SaveKey, Reads, Connects, GuiStep,
              Announced, dbVars
<1>4. CASE GuiEvent
  <2> DEFINE q == guiq
  <2>1. PICK e \in Events : Take(e) /\ (gui' = "opened" => gui = "opened" \/ e = "ready(true)")
    BY <1>4 DEF GuiEvent, OnConnected, OnConnectError, OnAdbStarted, Events, Take
  <2>2. UNCHANGED <<thread, at, m_worker, failed, disk>> /\ (conn => conn')
    BY <1>4 DEF GuiEvent, OnConnected, OnConnectError, OnAdbStarted, Take,
                Reads, Connects
  <2>3. guiq # << >> /\ guiq \in Seq(Events) /\ Head(guiq) = e /\ guiq' = Tail(guiq)
    BY <2>1 DEF Take, TypeOK
  <2>4. Announced' => Announced
    <3> SUFFICES ASSUME NEW k \in DOMAIN guiq', guiq'[k] = "ready(true)"
                 PROVE  Announced
      BY DEF Announced
    <3>1. k + 1 \in DOMAIN guiq /\ guiq[k + 1] = "ready(true)"
      BY <2>3
    <3> QED BY <3>1 DEF Announced
  <2>5. e = "ready(true)" => Announced
    <3>1. 1 \in DOMAIN guiq /\ guiq[1] = e
      BY <2>3
    <3> QED BY <3>1 DEF Announced
  <2> QED BY <2>1, <2>2, <2>4, <2>5 DEF GuiStep
<1> QED BY <1>1, <1>2, <1>3, <1>4

LEMMA AppendAnnounces ==
    ASSUME TypeOK, NEW e \in Events, guiq' = Append(guiq, e)
    PROVE  Announced' => Announced \/ e = "ready(true)"
<1> SUFFICES ASSUME NEW k \in DOMAIN guiq', guiq'[k] = "ready(true)"
             PROVE  Announced \/ e = "ready(true)"
  BY DEF Announced
<1>1. guiq \in Seq(Events)
  BY DEF TypeOK
<1>2. CASE k = Len(guiq) + 1
  BY <1>1, <1>2
<1>3. CASE k # Len(guiq) + 1
  <2>1. k \in DOMAIN guiq /\ guiq[k] = "ready(true)"
    BY <1>1, <1>3
  <2> QED BY <2>1 DEF Announced
<1> QED BY <1>2, <1>3

LEMMA HeardKept ==
    ASSUME TypeOK, HeardInv, Database PROVE HeardInv'
<1> USE DEF Step, guiVars
<1>0. \/ UNCHANGED <<guiq, gui>> /\ (thread = "exec" => thread' = "exec")
      \/ \E e \in Events : /\ guiq' = Append(guiq, e) /\ gui' = gui
                           /\ thread # "exec"
                           /\ e = "ready(true)" => thread' = "exec"
  <2>1. CASE Run
    BY <2>1 DEF Run, Events
  <2>2. CASE OpenFails
    BY <2>2 DEF OpenFails, Events
  <2>3. CASE EmitConnected
    BY <2>3 DEF EmitConnected, Events
  <2>4. CASE EmitReady
    BY <2>4 DEF EmitReady, Events
  <2>5. CASE Wire \/ OpenConnection \/ GiveUp \/ SkipTable \/ CreateTable
    BY <2>5 DEF Wire, OpenConnection, GiveUp, SkipTable, CreateTable
  <2>6. CASE SeedTable \/ CloseAgain \/ OpenAgain \/ SlotExecute
    BY <2>6 DEF SeedTable, CloseAgain, OpenAgain, SlotExecute
  <2> QED BY <2>1, <2>2, <2>3, <2>4, <2>5, <2>6 DEF Database
<1>1. CASE UNCHANGED <<guiq, gui>> /\ (thread = "exec" => thread' = "exec")
  BY <1>1 DEF HeardInv, Announced
<1>2. CASE \E e \in Events : /\ guiq' = Append(guiq, e) /\ gui' = gui
                             /\ thread # "exec"
                             /\ e = "ready(true)" => thread' = "exec"
  <2>1. PICK e \in Events : /\ guiq' = Append(guiq, e) /\ gui' = gui
                            /\ thread # "exec"
                            /\ e = "ready(true)" => thread' = "exec"
    BY <1>2
  <2>2. ~Announced /\ gui # "opened"
    BY <2>1 DEF HeardInv
  <2>3. Announced' => e = "ready(true)"
    BY <2>1, <2>2, AppendAnnounces
  <2> QED BY <2>1, <2>2, <2>3 DEF HeardInv
<1> QED BY <1>0, <1>1, <1>2

LEMMA HeardStep ==
    ASSUME TypeOK, StageInv, HeardInv, [Next]_vars PROVE HeardInv'
<1>1. CASE Database
  BY <1>1, HeardKept
<1>2. CASE Open
  BY <1>2 DEF Open, StageInv, HeardInv, Announced
<1>3. CASE LoadKey \/ Shown \/ User \/ GuiEvent
  BY <1>3, GuiSteps DEF GuiStep, HeardInv
<1>4. CASE Restart
  BY <1>4 DEF Restart, HeardInv, Announced
<1>5. CASE UNCHANGED vars
  BY <1>5 DEF vars, dbVars, guiVars, HeardInv, Announced
<1> QED BY <1>1, <1>2, <1>3, <1>4, <1>5 DEF Next

\* No handler of the window closes it, and none but Open leaves "closed".
LEMMA ClosedKept ==
    ASSUME LoadKey \/ Shown \/ User \/ GuiEvent, gui' = "closed"
    PROVE  gui = "closed"
<1>1. CASE LoadKey \/ Shown
  BY <1>1 DEF LoadKey, Shown
<1>2. CASE User
  BY <1>2 DEF User, OpenDialog, CreateTask, SaveKey
<1>3. CASE GuiEvent
  BY <1>3 DEF GuiEvent, OnConnected, OnConnectError, OnAdbStarted
<1> QED BY <1>1, <1>2, <1>3

LEMMA StageStep ==
    ASSUME TypeOK, StageInv, [Next]_vars PROVE StageInv'
<1>1. CASE Database
  <2> USE DEF Step, guiVars, Working, StageInv
  <2>1. CASE Run \/ Wire \/ OpenFails \/ GiveUp
    BY <2>1 DEF Run, Wire, OpenFails, GiveUp
  <2>2. CASE OpenConnection
    BY <2>2 DEF OpenConnection
  <2>3. CASE SkipTable
    BY <2>3 DEF SkipTable
  <2>4. CASE CreateTable
    <3>1. conn' /\ m_worker' = "live" /\ gui' # "closed"
      BY <2>4 DEF CreateTable
    <3>2. thread' \in {"tables", "seeding"}
      BY <2>4 DEF CreateTable
    <3>3. thread' = "seeding" =>
              /\ at' <= 6
              /\ \/ disk'[TableOrder[at']] = "bare" /\ TableOrder[at'] \notin failed'
                 \/ disk'[TableOrder[at']] = "absent" /\ TableOrder[at'] \in failed'
      <4>1. at <= 6 => TableOrder[at] \in Tables
        BY OrderIsTables DEF TypeOK
      <4>2. thread' = "seeding" => at' = at /\ TableOrder[at] \in Seeded
        BY <2>4 DEF CreateTable
      <4> QED BY <2>4, <4>1, <4>2 DEF CreateTable, Fails, TypeOK
    <3> QED BY <3>1, <3>2, <3>3
  <2>5. CASE SeedTable
    BY <2>5 DEF SeedTable
  <2>6. CASE CloseAgain
    BY <2>6 DEF CloseAgain
  <2>7. CASE OpenAgain
    BY <2>7 DEF OpenAgain, Fails
  <2>8. CASE EmitConnected \/ EmitReady \/ SlotExecute
    BY <2>8 DEF EmitConnected, EmitReady, SlotExecute, Connects
  <2> QED
    BY <1>1, <2>1, <2>2, <2>3, <2>4, <2>5, <2>6, <2>7, <2>8 DEF Database
<1>2. CASE Open
  BY <1>2 DEF Open, StageInv, Working
<1>3. CASE LoadKey \/ Shown \/ User \/ GuiEvent
  <2>1. UNCHANGED <<thread, at, m_worker, failed, disk>> /\ (conn => conn')
    BY <1>3, GuiSteps DEF GuiStep
  <2>2. gui' = "closed" => gui = "closed"
    BY <1>3, ClosedKept
  <2> QED BY <2>1, <2>2 DEF StageInv, Working
<1>4. CASE Restart
  BY <1>4 DEF Restart, StageInv, Working
<1>5. CASE UNCHANGED vars
  BY <1>5 DEF vars, dbVars, guiVars, StageInv, Working
<1> QED BY <1>1, <1>2, <1>3, <1>4, <1>5 DEF Next

\* The thread passes no table that is not in the file, and no step ever takes
\* a table away.
LEMMA TablesStep ==
    ASSUME TypeOK, StageInv, TablesInv, [Next]_vars PROVE TablesInv'
<1> USE DEF Present
<1>1. CASE Database
  <2> USE DEF Step, guiVars
  <2>1. CASE Run \/ Wire \/ OpenFails \/ GiveUp
    BY <2>1 DEF Run, Wire, OpenFails, GiveUp, TablesInv
  <2>2. CASE OpenConnection
    BY <2>2 DEF OpenConnection, TablesInv
  <2>3. CASE SkipTable
    BY <2>3 DEF SkipTable, TablesInv, TypeOK
  <2>4. CASE CreateTable \/ SeedTable
    <3>1. at \in 1..6 /\ TableOrder[at] \in Tables
      BY <2>4, OrderIsTables DEF CreateTable, SeedTable, StageInv, TypeOK
    <3>2. \/ at' = at
          \/ at' = at + 1
      BY <2>4 DEF CreateTable, SeedTable
    <3>4. \A t \in Tables : Present(t) => Present(t)'
      <4>1. CASE CreateTable
        BY <3>1, <4>1 DEF CreateTable, Fails, TypeOK
      <4>2. CASE SeedTable
        BY <3>1, <4>2 DEF SeedTable, Fails, TypeOK
      <4> QED BY <2>4, <4>1, <4>2
    <3>5. (disk'[TableOrder[at]] # "absent" \/ TableOrder[at] \in failed')
      <4>1. CASE CreateTable
        BY <3>1, <4>1 DEF CreateTable, Fails, TypeOK
      <4>2. CASE SeedTable
        BY <3>1, <4>2 DEF SeedTable, Fails, TypeOK
      <4> QED BY <2>4, <4>1, <4>2
    <3>6. thread \in {"tables", "seeding"} /\ thread' \in {"tables", "seeding"}
      BY <2>4 DEF CreateTable, SeedTable
    <3>7. \A k \in 1..6 : k < at' => Present(TableOrder[k])'
      <4> SUFFICES ASSUME NEW k \in 1..6, k < at'
                   PROVE  Present(TableOrder[k])'
        OBVIOUS
      <4>1. CASE k = at
        BY <3>5, <4>1
      <4>2. CASE k < at
        BY <3>4, <3>6, <4>2, OrderIsTables DEF TablesInv
      <4> QED BY <3>1, <3>2, <4>1, <4>2
    <3> QED BY <3>6, <3>7 DEF TablesInv
  <2>5. CASE CloseAgain \/ OpenAgain
    <3>1. /\ disk' = disk /\ failed \subseteq failed'
          /\ thread' \in {"reopen", "open"}
      BY <2>5 DEF CloseAgain, OpenAgain, Fails
    <3>2. CASE thread = "reopen"
      BY <3>1, <3>2 DEF TablesInv
    <3>3. CASE thread = "tables" /\ at = 7
      <4>1. \A k \in 1..6 : Present(TableOrder[k])
        BY <3>3 DEF TablesInv
      <4>2. \A t \in Tables : Present(t)
        BY <4>1, SixTables
      <4> QED BY <3>1, <4>2 DEF TablesInv
    <3> QED BY <2>5, <3>2, <3>3 DEF CloseAgain, OpenAgain
  <2>6. CASE EmitConnected \/ EmitReady \/ SlotExecute
    BY <2>6 DEF EmitConnected, EmitReady, SlotExecute, TablesInv
  <2> QED
    BY <1>1, <2>1, <2>2, <2>3, <2>4, <2>5, <2>6 DEF Database
<1>2. CASE Open
  BY <1>2 DEF Open, TablesInv
<1>3. CASE LoadKey \/ Shown \/ User \/ GuiEvent
  BY <1>3, GuiSteps DEF GuiStep, TablesInv
<1>4. CASE Restart
  BY <1>4 DEF Restart, TablesInv
<1>5. CASE UNCHANGED vars
  BY <1>5 DEF vars, dbVars, guiVars, TablesInv
<1> QED BY <1>1, <1>2, <1>3, <1>4, <1>5 DEF Next

LEMMA InitOK == Init => IInv
<1> SUFFICES ASSUME Init PROVE IInv
  OBVIOUS
<1>1. fresh \in BOOLEAN /\ conn \in BOOLEAN /\ connected \in BOOLEAN
  BY DEF Init
<1>2. /\ disk \in [Tables -> {"absent", "bare", "whole"}]
      /\ inbox \in Seq([no : ReqNos, table : Tables]) /\ guiq \in Seq(Events)
      /\ thread \in Stages
  BY DEF Init, Stages
<1>3. TypeOK
  <2>1. early \in BOOLEAN /\ failed \subseteq Tables \cup {"open"}
    BY DEF Init
  <2>2. 1 \in ReqNos /\ 0 \in 0..MaxPosts /\ 0 \in 0..0 /\ 0 \in 0..MaxRestarts
    BY StartAssumption DEF ReqNos
  <2> QED BY <1>1, <1>2, <2>1, <2>2 DEF Init, TypeOK
<1>4. StageInv /\ TablesInv /\ HeardInv
  BY DEF Init, StageInv, TablesInv, HeardInv, Working, Announced
<1> QED BY <1>3, <1>4 DEF IInv

LEMMA IInvStep == IInv /\ [Next]_vars => IInv'
  BY TypeInductive, StageStep, TablesStep, HeardStep DEF IInv

LEMMA Inductive == Spec => []IInv
  BY InitOK, IInvStep, PTL DEF Spec

\* The invariant of the types holds in every state the start can reach: in
\* particular the request numbers stay between 1 and INT_MAX, however many
\* statements are posted (asyncdatabase.cpp:57).
THEOREM TypeCorrect == Spec => []TypeOK
<1>1. IInv => TypeOK
  BY DEF IInv
<1> QED BY <1>1, Inductive, PTL

-----------------------------------------------------------------------------
(* What ready(true) is worth *)

LEMMA UsableState == IInv => OpenedMeansUsable
  BY DEF IInv, StageInv, TablesInv, HeardInv, Working, Present, OpenedMeansUsable

\* When the lists are shown, or ready(true) is on its way, the worker is
\* there, its connection is open unless the second open failed, and no table
\* is missing but those whose CREATE failed.
THEOREM Usable == Spec => []OpenedMeansUsable
  BY UsableState, Inductive, PTL

\* Every statement slotExecute takes finds an open connection and its table,
\* unless opening or creating them failed (databaseworker.cpp:124, 247).
THEOREM Found == Spec => StatementsFindTables
<1> DEFINE F == /\ conn' \/ "open" \in failed
                /\ \/ disk[Head(inbox).table] # "absent"
                   \/ Head(inbox).table \in failed
<1>1. IInv /\ [Next]_vars => [SlotExecute => F]_vars
  <2> SUFFICES ASSUME IInv, SlotExecute
               PROVE  F
    OBVIOUS
  <2>1. thread = "exec" /\ inbox # << >>
    BY DEF SlotExecute, Step
  <2>2. Head(inbox).table \in Tables
    <3>1. Head(inbox) \in [no : ReqNos, table : Tables]
      <4> DEFINE S == [no : ReqNos, table : Tables]
      <4>1. inbox \in Seq(S) /\ inbox # << >>
        BY <2>1 DEF IInv, TypeOK
      <4> HIDE DEF S
      <4>2. Head(inbox) \in S
        BY <4>1
      <4> QED BY <4>2 DEF S
    <3> QED BY <3>1
  <2>3. conn' \/ "open" \in failed
    BY <2>1 DEF IInv, StageInv, SlotExecute, Connects
  <2> QED BY <2>1, <2>2, <2>3 DEF IInv, TablesInv, Present
<1> QED BY <1>1, Inductive, PTL DEF StatementsFindTables, Spec

LEMMA ReadsSucceed ==
    ASSUME IInv, thread = "exec", NEW ts \in SUBSET Tables, Reads(ts)
    PROVE  fault' = "none" \/ (fault' = "assert" /\ failed # {})
<1>1. m_worker = "live"
  BY DEF IInv, StageInv, Working
<1>2. CASE failed # {}
  BY <1>1, <1>2 DEF Reads
<1>3. CASE failed = {}
  <2>1. \A t \in ts : disk[t] # "absent"
    BY <1>3 DEF IInv, TablesInv, Present
  <2>2. conn'
    BY <1>3 DEF IInv, StageInv, Reads, Connects
  <2>3. ~(~conn' \/ \E t \in ts : disk[t] = "absent")
    BY <2>1, <2>2
  <2> QED BY <1>1, <2>3 DEF Reads
<1> QED BY <1>2, <1>3

LEMMA OpenedUser == IInv /\ gui = "opened" => thread = "exec"
  BY DEF IInv, HeardInv

LEMMA FaultStep ==
    ASSUME IInv, SyncQueriesSucceed, [Next]_vars PROVE SyncQueriesSucceed'
<1>0. {"categorys"} \in SUBSET Tables /\ {"seq_tasks"} \in SUBSET Tables
      /\ {"categorys", "tasks"} \in SUBSET Tables /\ {"tasks"} \in SUBSET Tables
  BY Names
<1>1. CASE Database
  <2>1. fault = "none" /\ fault' = "none"
    BY <1>1 DEF Database, Run, Wire, OpenConnection, OpenFails, GiveUp, SkipTable,
                CreateTable, SeedTable, CloseAgain, OpenAgain, EmitConnected,
                EmitReady, SlotExecute, Step, Alive
  <2> QED BY <2>1 DEF SyncQueriesSucceed
<1>2. CASE Open \/ LoadKey \/ Shown \/ SaveKey
  <2>1. fault' = "none"
    BY <1>2 DEF Open, LoadKey, Shown, SaveKey, UserActs, Alive
  <2> QED BY <2>1 DEF SyncQueriesSucceed
<1>3. CASE OpenDialog \/ CreateTask
  <2>1. PICK ts \in SUBSET Tables :
            fault' = "none" \/ (Reads(ts) /\ early' = (gui # "opened"))
    BY <1>0, <1>3 DEF OpenDialog, CreateTask, UserActs, Alive
  <2>2. failed' = failed
    BY <1>3 DEF OpenDialog, CreateTask
  <2>3. CASE gui = "opened"
    <3>1. Reads(ts) => fault' = "none" \/ (fault' = "assert" /\ failed # {})
      BY <2>3, OpenedUser, ReadsSucceed
    <3> QED BY <2>1, <2>2, <3>1 DEF SyncQueriesSucceed
  <2>4. CASE gui # "opened"
    BY <2>1, <2>4 DEF SyncQueriesSucceed
  <2> QED BY <2>3, <2>4
<1>4. CASE GuiEvent
  <2>1. CASE OnConnected \/ OnConnectError \/ OnAdbStarted(FALSE)
    <3>1. fault' = "none"
      BY <2>1 DEF OnConnected, OnConnectError, OnAdbStarted, Take, Alive
    <3> QED BY <3>1 DEF SyncQueriesSucceed
  <2>2. CASE OnAdbStarted(TRUE)
    <3>1. guiq \in Seq(Events) /\ guiq # << >> /\ Head(guiq) = "ready(true)"
      BY <2>2 DEF OnAdbStarted, Take, IInv, TypeOK
    <3>2. 1 \in DOMAIN guiq /\ guiq[1] = "ready(true)"
      BY <3>1
    <3>3. thread = "exec"
      BY <3>2 DEF Announced, IInv, HeardInv
    <3>4. PICK ts \in SUBSET Tables : Reads(ts)
      BY <1>0, <2>2 DEF OnAdbStarted
    <3>5. fault' = "none" \/ (fault' = "assert" /\ failed # {})
      BY <3>3, <3>4, ReadsSucceed
    <3>6. failed' = failed
      BY <2>2 DEF OnAdbStarted, Take
    <3> QED BY <3>5, <3>6 DEF SyncQueriesSucceed
  <2> QED BY <1>4, <2>1, <2>2 DEF GuiEvent
<1>5. CASE Restart
  BY <1>5 DEF Restart, SyncQueriesSucceed
<1>6. CASE UNCHANGED vars
  BY <1>6 DEF vars, dbVars, guiVars, SyncQueriesSucceed
<1> QED BY <1>1, <1>2, <1>3, <1>4, <1>5, <1>6 DEF Next, User

\* Whatever the user does, and whenever: a read from the GUI thread meets a
\* missing worker only where the user did not wait for the lists, and
\* syncExecute's assertion is reached with a failed query only there, or
\* where a CREATE, an INSERT or the second open failed unseen
\* (databaseworker.cpp:508).
THEOREM ReadsAreSafe == Spec => []SyncQueriesSucceed
<1>1. Init => SyncQueriesSucceed
  BY DEF Init, SyncQueriesSucceed
<1> QED BY <1>1, FaultStep, Inductive, PTL DEF Spec

\* What a user causes who sees the lists is never posted while nobody is
\* connected to the signal that carries it (asyncdatabase.cpp:64).
THEOREM Heard == Spec => UserIsHeard
<1>1. IInv /\ [Next]_vars => [User /\ gui = "opened" => unheard' = unheard]_vars
  <2> SUFFICES ASSUME IInv, User, gui = "opened" PROVE unheard' = unheard
    OBVIOUS
  <2>1. ~NobodyListens
    BY OpenedUser DEF NobodyListens
  <2>2. \A ts : Execute(ts) => unheard' = unheard
    BY <2>1 DEF Execute
  <2>3. CASE OpenDialog
    BY <2>3 DEF OpenDialog
  <2>4. CASE CreateTask
    BY <2>2, <2>4 DEF CreateTask
  <2>5. CASE SaveKey
    BY <2>2, <2>5 DEF SaveKey
  <2> QED BY <2>3, <2>4, <2>5 DEF User
<1> QED BY <1>1, Inductive, PTL DEF UserIsHeard, Spec

-----------------------------------------------------------------------------
(* Tables without their defaults *)

LEMMA TablesFinite ==
    /\ IsFiniteSet(Tables)
    /\ IsFiniteSet(BareTables) /\ Cardinality(BareTables) \in Nat
    /\ IsFiniteSet(BareTables)' /\ Cardinality(BareTables)' \in Nat
<1>1. \A S, x : IsFiniteSet(S) => IsFiniteSet(S \cup {x})
  BY FS_AddElement
<1>2. IsFiniteSet((({"categorys"} \cup {"default_options"}) \cup {"segments"})
                  \cup {"seq_tasks"} \cup {"tasks"} \cup {"user_options"})
  BY <1>1, FS_Singleton
<1>3. IsFiniteSet(Tables)
  <2>1. Tables = (({"categorys"} \cup {"default_options"}) \cup {"segments"})
                  \cup {"seq_tasks"} \cup {"tasks"} \cup {"user_options"}
    BY SixTables, OrderIsTables DEF TableOrder, Tables
  <2> QED BY <1>2, <2>1
<1>4. \A S \in SUBSET Tables : IsFiniteSet(S) /\ Cardinality(S) \in Nat
  BY <1>3, FS_Subset, FS_CardinalityType
<1>5. BareTables \in SUBSET Tables /\ BareTables' \in SUBSET Tables
  BY DEF BareTables
<1> QED BY <1>3, <1>4, <1>5

\* Only a table whose CREATE succeeded can be waiting for its defaults.
BareTight ==
    Cardinality(BareTables) <=
        restarts + (IF thread = "seeding" /\ disk[TableOrder[at]] = "bare"
                    THEN 1 ELSE 0)

LEMMA BareStep ==
    ASSUME IInv, BareTight, [Next]_vars PROVE BareTight'
<1> USE TablesFinite
<1>0. restarts \in Nat /\ at \in 1..7
  BY DEF IInv, TypeOK
<1>1. CASE CreateTable
  <2> DEFINE t == TableOrder[at]
  <2>1. t \in Tables /\ disk[t] = "absent" /\ thread = "tables" /\ restarts' = restarts
    BY <1>0, <1>1, OrderIsTables DEF CreateTable
  <2>2. CASE t \in Seeded /\ disk' # disk
    <3>1. disk' = [disk EXCEPT ![t] = "bare"] /\ thread' = "seeding" /\ at' = at
          /\ failed' = failed \ {t}
      BY <1>1, <2>2 DEF CreateTable
    <3>2. BareTables' = BareTables \cup {t} /\ t \notin BareTables
      BY <2>1, <3>1 DEF BareTables, IInv, TypeOK
    <3>3. Cardinality(BareTables') = Cardinality(BareTables) + 1
      BY <3>2, FS_AddElement
    <3>4. disk'[TableOrder[at']] = "bare"
      BY <2>1, <3>1 DEF IInv, TypeOK
    <3> QED BY <1>0, <2>1, <3>1, <3>3, <3>4 DEF BareTight
  <2>3. CASE t \notin Seeded \/ disk' = disk
    <3>1. BareTables' \subseteq BareTables
      BY <1>1, <2>1, <2>3 DEF CreateTable, Fails, BareTables, IInv, TypeOK
    <3>2. Cardinality(BareTables') <= Cardinality(BareTables)
      BY <3>1, FS_Subset
    <3> QED BY <1>0, <2>1, <3>2 DEF BareTight
  <2> QED BY <2>2, <2>3
<1>2. CASE SeedTable
  <2> DEFINE t == TableOrder[at]
  <2>1. thread = "seeding" /\ thread' = "tables" /\ restarts' = restarts
    BY <1>2 DEF SeedTable, Step
  <2>2. at <= 6 /\ t \in Tables
    BY <1>0, <2>1, OrderIsTables DEF IInv, StageInv
  <2>3. CASE disk[t] = "bare"
    <3>1. t \notin failed
      BY <2>1, <2>3 DEF IInv, StageInv
    <3>2. BareTables' = BareTables \ {t} /\ t \in BareTables
      BY <1>2, <2>2, <2>3, <3>1 DEF SeedTable, Fails, BareTables, IInv, TypeOK
    <3>3. Cardinality(BareTables') = Cardinality(BareTables) - 1
      BY <3>2, FS_RemoveElement
    <3> QED BY <1>0, <2>1, <3>3 DEF BareTight
  <2>4. CASE disk[t] # "bare"
    <3>1. disk[t] = "absent" /\ disk' = disk /\ failed \subseteq failed'
      BY <1>2, <2>1, <2>4 DEF SeedTable, Fails, IInv, StageInv
    <3>2. BareTables' \subseteq BareTables
      BY <3>1 DEF BareTables
    <3>3. Cardinality(BareTables') <= Cardinality(BareTables)
      BY <3>2, FS_Subset
    <3> QED BY <1>0, <2>1, <2>4, <3>3 DEF BareTight
  <2> QED BY <2>3, <2>4
<1>3. CASE Restart
  <2>1. /\ disk' = disk /\ failed' = failed \ {"open"}
        /\ restarts' = restarts + 1 /\ thread' = "off"
    BY <1>3 DEF Restart
  <2>2. "open" \notin Tables
    BY SixTables DEF TableOrder
  <2>3. BareTables' = BareTables
    BY <2>1, <2>2 DEF BareTables
  <2> QED BY <1>0, <2>1, <2>3 DEF BareTight
<1>4. CASE Database /\ ~CreateTable /\ ~SeedTable
  <2>1. /\ disk' = disk /\ restarts' = restarts /\ thread # "seeding"
        /\ failed \subseteq failed'
    BY <1>4 DEF Database, Step, Run, Wire, OpenConnection, OpenFails, GiveUp,
                SkipTable, CloseAgain, OpenAgain, EmitConnected, EmitReady,
                SlotExecute, Fails
  <2>2. BareTables' \subseteq BareTables
    BY <2>1 DEF BareTables
  <2>3. Cardinality(BareTables') <= Cardinality(BareTables)
    BY <2>2, FS_Subset
  <2> QED BY <1>0, <2>1, <2>3 DEF BareTight
<1>5. CASE Open
  <2>1. disk' = disk /\ restarts' = restarts /\ thread # "seeding" /\ failed' = failed
    BY <1>5 DEF Open, IInv, StageInv
  <2>2. BareTables' = BareTables
    BY <2>1 DEF BareTables
  <2> QED BY <1>0, <2>1, <2>2 DEF BareTight
<1>6. CASE LoadKey \/ Shown \/ User \/ GuiEvent
  <2>1. disk' = disk /\ thread' = thread /\ at' = at /\ failed' = failed
    BY <1>6, GuiSteps DEF GuiStep, IInv
  <2>2. restarts' = restarts
    BY <1>6 DEF LoadKey, Shown, User, GuiEvent, OpenDialog, CreateTask, SaveKey,
                OnConnected, OnConnectError, OnAdbStarted, Take
  <2>3. BareTables' = BareTables
    BY <2>1 DEF BareTables
  <2> QED BY <2>1, <2>2, <2>3 DEF BareTight
<1>7. CASE UNCHANGED vars
  <2>1. BareTables' = BareTables
    BY <1>7 DEF vars, dbVars, BareTables
  <2> QED BY <1>7, <2>1 DEF vars, dbVars, BareTight
<1> QED BY <1>1, <1>2, <1>3, <1>4, <1>5, <1>6, <1>7 DEF Next

\* A launch that is killed between the CREATE of a table and the last of its
\* INSERTs leaves it without defaults for good, and no launch does so to more
\* than one table (databaseworker.cpp:124).
THEOREM BareBound == Spec => []BareAreFewerThanEnds
<1>1. Init => BareTight
  <2> SUFFICES ASSUME Init PROVE BareTight
    OBVIOUS
  <2>1. BareTables = {}
    BY DEF Init, BareTables
  <2> QED BY <2>1, FS_EmptySet DEF Init, BareTight
<1>2. IInv /\ BareTight => BareAreFewerThanEnds
  BY TablesFinite DEF IInv, TypeOK, BareTight, BareAreFewerThanEnds
<1> QED BY <1>1, <1>2, BareStep, Inductive, PTL DEF Spec
=============================================================================
