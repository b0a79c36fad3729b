--------------------------- MODULE MCSegmentSpace ---------------------------
(* An instance of SegmentSpace for TLC: the retrievers are alike.            *)
EXTENDS SegmentSpace, TLC

Alike == Permutations(Retrievers)
=============================================================================
