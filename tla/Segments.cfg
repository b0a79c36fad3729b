CONSTANTS
    Retrievers = {r1, r2, r3}
    Capacities = {5, 8}
    MinSplit = 2
    Chunks = {1, 3}
    Width = 20
    Idle = Idle
    MaxBlocks = 6
SPECIFICATION Spec
SYMMETRY Alike
INVARIANTS TypeOK SegmentsApart OwnersApart FullMeansAll
PROPERTIES NothingForgotten
CHECK_DEADLOCK FALSE
