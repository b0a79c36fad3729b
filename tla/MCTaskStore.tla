---------------------------- MODULE MCTaskStore ----------------------------
(* Instances of TaskStore for TLC: the three categories the code names and   *)
(* one of those below Downloaded.  The root is not shown to the user.        *)
EXTENDS TaskStore

CONSTANT Music

Cats == {Downloading, Downloaded, Deleted, Music}

DefaultChildren == [c \in Cats |-> IF c = Downloaded THEN {Music} ELSE {}]

\* The two categories whose models are never dropped.
TrashViews == {Downloading, Deleted}

ChosenCats == {Downloaded, Music}

OnlyDownloading == {Downloading}
AllButDownloaded == Cats \ {Downloaded}
=============================================================================
