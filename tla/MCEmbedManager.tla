--------------------------- MODULE MCEmbedManager ---------------------------
(* Instances of EmbedManager for TLC. *)
EXTENDS EmbedManager, TLC

\* A download with one request group, which is active or has become a result,
\* is reported once per calculateStat call; one that was followed has a result
\* and an active group, and is reported twice.
PerCalc == {0, 1, 2}

\* Without downloads that are followed.
OncePerCalc == {0, 1}

\* prepare() answers 0, which is the value of FINISHED, when it succeeds.
PrepareAnswers == {"FINISHED"}

\* One result that is reported and one that is not.
TwoResults == {"FINISHED", "OTHER"}

Symmetry == Permutations(Workers) \cup Permutations(Tids)
=============================================================================
