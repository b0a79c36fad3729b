---------------------------- MODULE StorageStart ----------------------------
(***************************************************************************)
(* How the storage comes up: the main window opens it (karia2.cpp,         *)
(* sqlitestorage.cpp), a thread of its own builds the database worker,     *)
(* connects, and creates the tables that are missing, each CREATE and each *)
(* INSERT of a default committed by itself (asyncdatabase.cpp,             *)
(* databaseworker.cpp).  Meanwhile the GUI thread goes on: it posts        *)
(* statements, and it reads through the worker's connection without        *)
(* asking the thread.                                                      *)
(*                                                                         *)
(* The process may be killed at any moment and started again on the file   *)
(* it left.                                                                *)
(***************************************************************************)
EXTENDS Integers, Sequences, FiniteSets

CONSTANTS
    IntMax,      \* INT_MAX, where request numbers start again
    MaxPosts,    \* bound: statements posted by one launch
    MaxFailures, \* bound: steps of the database thread that fail unseen
    MaxRestarts  \* bound: launches after the first

ASSUME StartAssumption ==
    /\ IntMax \in Nat \ {0, 1}
    /\ MaxPosts \in Nat
    /\ MaxFailures \in Nat
    /\ MaxRestarts \in Nat

\* The tables in the order of the QMap they are created from, and those that
\* get default rows.
TableOrder == <<"categorys", "default_options", "segments", "seq_tasks",
                "tasks", "user_options">>
Tables == {TableOrder[k] : k \in 1..6}
Seeded == {"categorys", "default_options"}

VARIABLES
    disk,      \* table => how much of it there is in the file
    \* the database thread
    thread,    \* where AsyncDatabase::run is
    at,        \* the table connectDatabase looks at
    fresh,     \* has_new_created_table
    m_worker,  \* the pointer the GUI thread uses too
    conn,      \* is the connection open
    inbox,     \* executefwd: statements on their way to slotExecute
    \* the GUI thread
    gui,       \* what the window has done about the storage
    guiq,      \* events posted by the database thread
    connected, \* m_connected
    catModel,  \* what SqliteCategoryModel read when it was made
    m_reqno,   \* the next request number
    posted,    \* statements posted by this launch
    unheard,   \* how many of them were posted when nobody was connected
    \* the process
    fault,     \* "none", or what a read from the GUI thread ran into
    restarts,
    \* what happened, for the properties only
    failed,    \* tables whose CREATE or INSERTs failed, "open" if it did
    early      \* was the last read one of a user who saw no lists yet

dbVars == <<thread, at, fresh, m_worker, conn, failed>>
guiVars == <<gui, connected, catModel, m_reqno, posted, unheard, early>>
vars == <<disk, dbVars, inbox, guiVars, guiq, fault, restarts>>

Stages == {"off", "run", "built", "wired", "tables", "seeding", "reopen",
           "open", "announced", "exec", "refused", "gone"}
Events == {"ready(false)", "connected", "connect_error", "ready(true)"}
ReqNos == 1..IntMax

TypeOK ==
    /\ disk \in [Tables -> {"absent", "bare", "whole"}]
    /\ thread \in Stages
    /\ at \in 1..7
    /\ fresh \in BOOLEAN
    /\ m_worker \in {"null", "live", "dangling"}
    /\ conn \in BOOLEAN
    /\ inbox \in Seq([no : ReqNos, table : Tables])
    /\ gui \in {"closed", "opening", "waiting", "opened"}
    /\ guiq \in Seq(Events)
    /\ connected \in BOOLEAN
    /\ catModel \in {"none", "partial", "whole"}
    /\ m_reqno \in ReqNos
    /\ posted \in 0..MaxPosts
    /\ unheard \in 0..posted
    /\ fault \in {"none", "noWorker", "assert"}
    /\ restarts \in 0..MaxRestarts
    /\ failed \subseteq Tables \cup {"open"}
    /\ early \in BOOLEAN

Alive == fault = "none"

-----------------------------------------------------------------------------
(* The database thread *)

\* A step that fails, whatever it is for, changes nothing and is not told.
Fails(what) ==
    /\ Cardinality(failed \cup {what}) <= MaxFailures
    /\ failed' = failed \cup {what}

Step(from, to) == Alive /\ thread = from /\ thread' = to

\* run: the worker is built before anything is connected to it.
Run ==
    /\ Step("run", "built")
    /\ m_worker' = "live"
    /\ guiq' = Append(guiq, "ready(false)")
    /\ UNCHANGED <<disk, at, fresh, conn, inbox, guiVars, fault, restarts, failed>>

\* From here on a statement reaches the worker's queue.
Wire ==
    /\ Step("built", "wired")
    /\ UNCHANGED <<disk, at, fresh, m_worker, conn, inbox, guiVars, guiq,
                   fault, restarts, failed>>

OpenConnection ==
    /\ Step("wired", "tables")
    /\ conn' = TRUE
    /\ at' = 1
    /\ fresh' = FALSE
    /\ UNCHANGED <<disk, m_worker, inbox, guiVars, guiq, fault, restarts, failed>>

\* The file cannot be opened: connectDatabase returns false ...
OpenFails ==
    /\ Step("wired", "refused")
    /\ guiq' = Append(guiq, "connect_error")
    /\ m_worker' = "dangling"
    /\ inbox' = << >>
    /\ UNCHANGED <<disk, at, fresh, conn, guiVars, fault, restarts, failed>>

\* ... run deletes the worker, clears the pointer and returns.
GiveUp ==
    /\ Step("refused", "gone")
    /\ m_worker' = "null"
    /\ UNCHANGED <<disk, at, fresh, conn, inbox, guiVars, guiq, fault, restarts, failed>>

SkipTable ==
    /\ Step("tables", "tables")
    /\ at <= 6 /\ disk[TableOrder[at]] # "absent"
    /\ at' = at + 1
    /\ UNCHANGED <<disk, fresh, m_worker, conn, inbox, guiVars, guiq, fault,
                   restarts, failed>>

\* Mutant of CreateTable: the defaults are not inserted.
CreateTableOnly ==
    /\ Step("tables", "tables")
    /\ at <= 6 /\ disk[TableOrder[at]] = "absent"
    /\ fresh' = TRUE
    /\ disk' = [disk EXCEPT ![TableOrder[at]] =
                   IF TableOrder[at] \in Seeded THEN "bare" ELSE "whole"]
    /\ at' = at + 1
    /\ UNCHANGED <<m_worker, conn, inbox, guiVars, guiq, fault, restarts, failed>>

\* CREATE TABLE.  Nobody looks whether it succeeded: the INSERTs follow, or
\* the next table, in any case.
CreateTable ==
    LET t == TableOrder[at]
    IN  /\ Alive /\ thread = "tables"
        /\ at <= 6 /\ disk[t] = "absent"
        /\ fresh' = TRUE
        /\ \/ /\ disk' = [disk EXCEPT ![t] = IF t \in Seeded THEN "bare" ELSE "whole"]
              /\ failed' = failed \ {t}
           \/ Fails(t) /\ UNCHANGED disk
        /\ IF t \in Seeded
           THEN thread' = "seeding" /\ UNCHANGED at
           ELSE at' = at + 1 /\ UNCHANGED thread
        /\ UNCHANGED <<m_worker, conn, inbox, guiVars, guiq, fault, restarts>>

\* The last of the INSERTs that follow the CREATE of a table.  Again nobody
\* looks whether all of them succeeded; without a table none does.
SeedTable ==
    LET t == TableOrder[at]
    IN  /\ Step("seeding", "tables")
        /\ at' = at + 1
        /\ \/ /\ disk[t] # "absent"
              /\ disk' = [disk EXCEPT ![t] = "whole"]
              /\ UNCHANGED failed
           \/ Fails(t) /\ UNCHANGED disk
        /\ UNCHANGED <<fresh, m_worker, conn, inbox, guiVars, guiq, fault,
                       restarts>>

\* New tables: the connection is closed and opened again.
CloseAgain ==
    /\ Step("tables", "reopen")
    /\ at = 7 /\ fresh
    /\ conn' = FALSE
    /\ UNCHANGED <<disk, at, fresh, m_worker, inbox, guiVars, guiq, fault,
                   restarts, failed>>

\* Mutant of OpenAgain: only a launch that made tables goes on.
OpenAgainFresh ==
    /\ Step("reopen", "open")
    /\ conn' = TRUE
    /\ UNCHANGED <<disk, at, fresh, m_worker, inbox, guiVars, guiq, fault,
                   restarts, failed>>

\* The result of the second open is dropped; a launch that made no table
\* did not close.
OpenAgain ==
    /\ Alive
    /\ \/ /\ thread = "reopen"
          /\ \/ conn' = TRUE /\ UNCHANGED failed
             \/ conn' = FALSE /\ Fails("open")
       \/ /\ thread = "tables" /\ at = 7 /\ ~fresh
          /\ UNCHANGED <<conn, failed>>
    /\ thread' = "open"
    /\ UNCHANGED <<disk, at, fresh, m_worker, inbox, guiVars, guiq, fault,
                   restarts>>

EmitConnected ==
    /\ Step("open", "announced")
    /\ guiq' = Append(guiq, "connected")
    /\ UNCHANGED <<disk, at, fresh, m_worker, conn, inbox, guiVars, fault,
                   restarts, failed>>

EmitReady ==
    /\ Step("announced", "exec")
    /\ guiq' = Append(guiq, "ready(true)")
    /\ UNCHANGED <<disk, at, fresh, m_worker, conn, inbox, guiVars, fault,
                   restarts, failed>>

\* QSqlDatabase::database: a connection found closed is opened, if it can.
Connects ==
    conn' \in IF ~conn /\ thread \in {"reopen", "open", "announced", "exec"}
             THEN BOOLEAN ELSE {conn}

\* slotExecute, from the event loop.  Its results reach nobody.
SlotExecute ==
    /\ Step("exec", "exec")
    /\ inbox # << >>
    /\ inbox' = Tail(inbox)
    /\ Connects
    /\ UNCHANGED <<disk, at, fresh, m_worker, guiVars, guiq, fault, restarts,
                   failed>>

Database ==
    \/ Run \/ Wire \/ OpenConnection \/ OpenFails \/ GiveUp
    \/ SkipTable \/ CreateTable \/ SeedTable \/ CloseAgain \/ OpenAgain
    \/ EmitConnected \/ EmitReady \/ SlotExecute

-----------------------------------------------------------------------------
(* The GUI thread *)

\* asyncFirstShowHandler: SqliteStorage::open starts the thread.
Open ==
    /\ Alive /\ gui = "closed"
    /\ gui' = "opening"
    /\ thread' = "run"
    /\ UNCHANGED <<disk, at, fresh, m_worker, conn, failed, inbox, guiq,
                   connected, catModel, m_reqno, posted, unheard, early, fault,
                   restarts>>

\* Mutant of Number: request numbers do not start again.
NumberOn(k) == m_reqno + k - 1

\* AsyncDatabase::execute, once per statement: the request number wraps
\* just before it would pass INT_MAX.
Number(k) == 1 + ((m_reqno + k - 2) % (IntMax - 1))

NobodyListens == thread \in {"off", "run", "built", "refused", "gone"}

Execute(ts) ==
    LET n == Len(ts)
        sent == [k \in 1..n |-> [no |-> Number(k), table |-> ts[k]]]
    IN  /\ posted + n <= MaxPosts
        /\ posted' = posted + n
        /\ m_reqno' = Number(n) + 1
        /\ inbox' = (IF NobodyListens THEN inbox ELSE inbox \o sent)
        /\ unheard' = (IF NobodyListens THEN unheard + n ELSE unheard)

\* initUserOptionSetting: the stored value of an option is never read, so
\* its default is written.
LoadKey ==
    /\ Alive /\ gui = "opening"
    /\ Execute(<<"default_options">>)
    /\ UNCHANGED <<disk, dbVars, gui, guiq, connected, catModel, early, fault,
                   restarts>>

\* Mutant of Shown: the window does not wait for the storage.
ShownOpened ==
    /\ Alive /\ gui = "opening"
    /\ gui' = "opened"
    /\ UNCHANGED <<disk, dbVars, inbox, guiq, connected, catModel, m_reqno,
                   posted, unheard, early, fault, restarts>>

\* The end of asyncFirstShowHandler.
Shown ==
    /\ Alive /\ gui = "opening"
    /\ gui' = "waiting"
    /\ UNCHANGED <<disk, dbVars, inbox, guiq, connected, catModel, m_reqno,
                   posted, unheard, early, fault, restarts>>

\* DatabaseWorker::syncExecute, in the GUI thread, of queries on ts: without
\* a worker there is a wild pointer, and a query that fails is asserted not
\* to.
Reads(ts) ==
    /\ Connects
    /\ fault' = CASE m_worker # "live" -> "noWorker"
                  [] m_worker = "live" /\ (~conn' \/ \E t \in ts : disk[t] = "absent") ->
                         "assert"
                  [] OTHER -> "none"

\* SqliteCategoryModel::instance: the first caller reads the categories,
\* the later ones share what it read.
CategoryModel ==
    IF catModel # "none" THEN catModel
    ELSE IF disk["categorys"] = "whole" THEN "whole" ELSE "partial"

\* Nothing stops the user from acting before the lists are shown.
UserActs == Alive /\ gui \in {"waiting", "opened"}

\* A dialog for a new task or category shows the categories.
OpenDialog ==
    /\ UserActs
    /\ IF catModel = "none" THEN Reads({"categorys"})
                            ELSE UNCHANGED <<conn, fault>>
    /\ catModel' = (IF fault' = "none" THEN CategoryModel ELSE catModel)
    /\ early' = (gui # "opened")
    /\ UNCHANGED <<disk, thread, at, fresh, m_worker, failed, inbox, gui, guiq,
                   connected, m_reqno, posted, unheard, restarts>>

\* createTask: an id from seq_tasks, then a row for the table.
CreateTask ==
    /\ UserActs
    /\ Reads({"seq_tasks"})
    /\ IF fault' = "none"
       THEN Execute(<<"tasks">>)
       ELSE UNCHANGED <<inbox, m_reqno, posted, unheard>>
    /\ early' = (gui # "opened")
    /\ UNCHANGED <<disk, thread, at, fresh, m_worker, failed, gui, guiq,
                   connected, catModel, restarts>>

\* saveKey, from the preferences: asking for the old value writes an empty
\* default; a value that is not empty is stored, after the row it replaces
\* is deleted.
SaveKey ==
    /\ UserActs
    /\ \E replaced \in {<< >>, <<"user_options", "user_options">>} :
           Execute(<<"default_options">> \o replaced)
    /\ UNCHANGED <<disk, dbVars, gui, guiq, connected, catModel, early, fault,
                   restarts>>

\* The GUI's event loop runs when no handler does.
Take(e) ==
    /\ Alive /\ gui # "opening"
    /\ guiq # << >> /\ Head(guiq) = e
    /\ guiq' = Tail(guiq)
    /\ UNCHANGED <<disk, thread, at, fresh, m_worker, failed, inbox, m_reqno,
                   posted, unheard, restarts>>

OnConnected ==
    /\ Take("connected")
    /\ connected' = TRUE
    /\ UNCHANGED <<conn, gui, catModel, early, fault>>

OnConnectError ==
    /\ Take("connect_error")
    /\ connected' = FALSE
    /\ UNCHANGED <<conn, gui, catModel, early, fault>>

\* Mutant of OnAdbStarted: the flag of ready is not looked at.
OnAnyStart(started) ==
    /\ Take(IF started THEN "ready(true)" ELSE "ready(false)")
    /\ Reads({"tasks"} \cup (IF catModel = "none" THEN {"categorys"} ELSE {}))
    /\ gui' = "opened"
    /\ catModel' = CategoryModel
    /\ early' = FALSE
    /\ UNCHANGED connected

\* onAdbStarted and onStorageOpened: the models of the categories and of the
\* running tasks are made and shown.
OnAdbStarted(started) ==
    /\ Take(IF started THEN "ready(true)" ELSE "ready(false)")
    /\ IF started
       THEN /\ Reads(IF catModel = "none" THEN {"categorys", "tasks"}
                                           ELSE {"tasks"})
            /\ gui' = "opened"
            /\ catModel' = CategoryModel
            /\ early' = FALSE
       ELSE UNCHANGED <<conn, gui, fault, catModel, early>>
    /\ UNCHANGED connected

GuiEvent ==
    OnConnected \/ OnConnectError \/ \E b \in BOOLEAN : OnAdbStarted(b)

\* The process ends, by a fault or from outside, and is started again.
Restart ==
    /\ restarts < MaxRestarts
    /\ restarts' = restarts + 1
    /\ thread' = "off" /\ at' = 1 /\ fresh' = FALSE
    /\ m_worker' = "null" /\ conn' = FALSE
    /\ inbox' = << >> /\ guiq' = << >>
    /\ gui' = "closed" /\ connected' = FALSE /\ catModel' = "none"
    /\ m_reqno' = 1 /\ posted' = 0 /\ unheard' = 0
    /\ fault' = "none"
    /\ failed' = failed \ {"open"} /\ early' = FALSE
    /\ UNCHANGED disk

Init ==
    /\ disk = [t \in Tables |-> "absent"]
    /\ thread = "off" /\ at = 1 /\ fresh = FALSE
    /\ m_worker = "null" /\ conn = FALSE
    /\ inbox = << >> /\ guiq = << >>
    /\ gui = "closed" /\ connected = FALSE /\ catModel = "none"
    /\ m_reqno = 1 /\ posted = 0 /\ unheard = 0
    /\ fault = "none"
    /\ restarts = 0
    /\ failed = {} /\ early = FALSE

User == OpenDialog \/ CreateTask \/ SaveKey

Next ==
    Database \/ Open \/ LoadKey \/ Shown \/ User \/ GuiEvent \/ Restart

Spec == Init /\ [][Next]_vars

\* The database thread is scheduled, and the GUI thread finishes the handler
\* it is in and handles its events; the user owes nothing.
FairSpec ==
    /\ Spec
    /\ WF_vars(Database)
    /\ WF_vars(Open)
    /\ WF_vars(Shown)
    /\ WF_vars(GuiEvent)

-----------------------------------------------------------------------------
(* Properties *)

Announced == \E k \in DOMAIN guiq : guiq[k] = "ready(true)"

\* The lists are shown, or about to be, only over an open connection and a
\* file with all its tables, but for what failed unseen on the way:
\* ready(true) is what stands between the main window and a thread still at
\* work.
OpenedMeansUsable ==
    gui = "opened" \/ Announced =>
        /\ m_worker = "live"
        /\ conn \/ "open" \in failed
        /\ \A t \in Tables \ failed : disk[t] # "absent"

\* A table whose statements all succeeded is left without its default rows
\* only by a launch that ended between its CREATE and its last INSERT; each
\* such end costs one table.
BareTables == {t \in Tables \ failed : disk[t] = "bare"}

BareAreFewerThanEnds ==
    Cardinality(BareTables) <= restarts + (IF thread = "seeding" THEN 1 ELSE 0)

\* Every statement that leaves the queue finds an open connection and its
\* table, unless opening or creating them failed: the worker's event loop
\* does not run before the tables are there.
StatementsFindTables ==
    [][SlotExecute => /\ conn' \/ "open" \in failed
                      /\ \/ disk[Head(inbox).table] # "absent"
                         \/ Head(inbox).table \in failed]_vars

\* A user who acts when the lists are shown is heard: none of the statements
\* he causes is posted to nobody.
UserIsHeard == [][User /\ gui = "opened" => unheard' = unheard]_vars

\* A read from the GUI thread finds no worker, or a query that syncExecute
\* asserts not to fail, only where the user did not wait for the lists; a
\* failing query also where the database thread hid a failure of its own.
SyncQueriesSucceed ==
    /\ fault = "noWorker" => early
    /\ fault = "assert" => early \/ failed # {}

\* The storage comes up, unless the file cannot be opened.
ComesUp == []<>(gui = "opened" \/ thread = "gone" \/ ~Alive)
=============================================================================
