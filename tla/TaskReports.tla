---------------------------- MODULE TaskReports ----------------------------
(***************************************************************************)
(* What a download backend of karia2 promises the list of tasks.           *)
(*                                                                         *)
(* A download is opened for a task, may report progress any number of      *)
(* times, and is closed at most once, with the status in which it ended.   *)
(* Nothing is heard of a download that was never opened or was closed: the *)
(* row of a task changes only when a download of that task is opened,      *)
(* reports, or closes.                                                     *)
(*                                                                         *)
(* A task that is opened again may become mixed: the backend no longer     *)
(* tells its downloads apart, and its row and its downloads may show the   *)
(* end of any of them at any time.  The other tasks notice nothing.        *)
(***************************************************************************)
CONSTANTS
    Tids,       \* tasks
    Workers,    \* downloads, each run for one task
    NoTid       \* the task of a download that was not opened

VARIABLES
    owner,      \* download => its task
    life,       \* download => "off", "open" or "closed"
    row,        \* task => what its row displays
    mixed       \* tasks whose downloads are not told apart

vars == <<owner, life, row, mixed>>

Finals == {"done", "pause", "error"}

TypeOK ==
    /\ owner \in [Workers -> Tids \cup {NoTid}]
    /\ life \in [Workers -> {"off", "open", "closed"}]
    /\ row \in [Tids -> Finals \cup {"ready", "active"}]
    /\ mixed \subseteq Tids

Init ==
    /\ owner = [w \in Workers |-> NoTid]
    /\ life = [w \in Workers |-> "off"]
    /\ row = [t \in Tids |-> "ready"]
    /\ mixed = {}

\* A task whose row went away with the finished download gets a new one.
Open(t, w) ==
    /\ life[w] = "off"
    /\ owner' = [owner EXCEPT ![w] = t]
    /\ life' = [life EXCEPT ![w] = "open"]
    /\ row' = [row EXCEPT ![t] = IF @ = "done" THEN "ready" ELSE @]
    /\ mixed' \in IF \E v \in Workers : owner[v] = t
                  THEN {mixed, mixed \cup {t}} ELSE {mixed}

\* A finished task is no longer among the rows that are updated.
Show(t, status) ==
    row' = IF row[t] = "done" THEN row ELSE [row EXCEPT ![t] = status]

Report(w) ==
    /\ life[w] = "open"
    /\ Show(owner[w], "active")
    /\ UNCHANGED <<owner, life, mixed>>

Close(w, status) ==
    /\ life[w] = "open"
    /\ life' = [life EXCEPT ![w] = "closed"]
    /\ Show(owner[w], status)
    /\ UNCHANGED <<owner, mixed>>

\* Anything may be heard of the downloads of a mixed task, on its row only.
Blur(w, status) ==
    /\ life[w] # "off" /\ owner[w] \in mixed
    /\ life' \in {life, [life EXCEPT ![w] = "closed"]}
    /\ Show(owner[w], status)
    /\ UNCHANGED <<owner, mixed>>

Next ==
    \E w \in Workers :
      \/ \E t \in Tids : Open(t, w)
      \/ Report(w)
      \/ \E status \in Finals : Close(w, status)
      \/ \E status \in Finals \cup {"active"} : Blur(w, status)

Spec == Init /\ [][Next]_vars
=============================================================================
