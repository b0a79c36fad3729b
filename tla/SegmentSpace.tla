---------------------------- MODULE SegmentSpace ----------------------------
(***************************************************************************)
(* How a file is cut into segments: the allocator of SqliteSegmentModel.   *)
(* A block runs from SP, has received CP bytes, and ends where the next    *)
(* block begins.  malloc, setBlockBusy, free and release hold mAtomMutex   *)
(* from their first to their last look at the blocks; setCapacity takes no *)
(* lock and does nothing but make the first block.                         *)
(*                                                                         *)
(* The calls come in the order of Task::onStartSegment, and from its       *)
(* retrievers, which report what they received.  Nothing in this           *)
(* repository's build makes them any more: task.cpp is not compiled, and   *)
(* the retrievers are gone.                                                *)
(*                                                                         *)
(* The rows of the model follow the blocks index by index and are left     *)
(* out; so is the database, which getSementSet never reads.                *)
(***************************************************************************)
EXTENDS Integers, Sequences

CONSTANTS
    Retrievers,  \* threads that receive one block each
    Capacities,  \* lengths a file may turn out to have
    MinSplit,    \* 100*1024: a gap that is not longer is left to its owner
    Chunks,      \* numbers of bytes received at a time
    Width,       \* 2^64, where a quint64 wraps
    Idle,        \* the retriever has no block
    MaxBlocks    \* bound: blocks

MM_NOT_EXSIT == -1
MM_NULL == 0

ASSUME SegmentAssumption ==
    /\ Capacities \subseteq Nat \ {0}
    /\ MinSplit \in Nat
    /\ Chunks \subseteq Nat \ {0}
    /\ Width \in Nat \ {0}
    /\ \A c \in Capacities : \A n \in Chunks \cup {0} : 2 * c + n < Width
    /\ Idle \notin Int \cup Retrievers
    /\ MaxBlocks \in Nat

VARIABLES
    mMemCapacity,  \* length of the file, 0 until it is known
    mPointerMap,   \* the blocks
    holds,         \* retriever => SP of its block, Idle, or MM_NOT_EXSIT
                   \* while the length is not known
    granted,       \* retriever whose block is not yet marked busy, or Idle
    crowded        \* history: several retrievers were started at offset 0

vars == <<mMemCapacity, mPointerMap, holds, granted, crowded>>

Offsets == 0..Width - 1
Blocks == [SP : Offsets, CP : Offsets, busy : BOOLEAN]

TypeOK ==
    /\ mMemCapacity \in Capacities \cup {0}
    /\ mPointerMap \in Seq(Blocks)
    /\ holds \in [Retrievers -> Offsets \cup {Idle, MM_NOT_EXSIT}]
    /\ granted \in Retrievers \cup {Idle}
    /\ crowded \in BOOLEAN

-----------------------------------------------------------------------------
(* The blocks *)

\* Difference of two quint64.
Minus(a, b) == IF a >= b THEN a - b ELSE a - b + Width

\* Where block i ends: EP, kept nowhere (sqlitesegmentmodel.h:27).
End(l, i) == IF i = Len(l) THEN mMemCapacity ELSE l[i + 1].SP

Gap(l, i) == Minus(Minus(End(l, i), l[i].CP), l[i].SP)

\* sortMMList makes one pass: what it carries past position i is the last of
\* the greatest up to there.
Carried(l, i) ==
    CHOOSE j \in 1..i :
        \A k \in 1..i : l[k].SP < l[j].SP \/ (l[k].SP = l[j].SP /\ k <= j)

sortMMList(l) ==
    [i \in 1..Len(l) |->
        LET c == l[Carried(l, i)]
        IN  IF i < Len(l) /\ c.SP > l[i + 1].SP THEN l[i + 1] ELSE c]

\* The first of the blocks with the most left to receive, busy or not.
Widest(l) ==
    CHOOSE i \in DOMAIN l :
        \A k \in DOMAIN l : Gap(l, k) < Gap(l, i) \/ (Gap(l, k) = Gap(l, i) /\ i <= k)

\* A busy block gives up the second half of what it has left, an idle one all
\* of it.
CutAt(l, i) ==
    IF l[i].busy THEN Minus(End(l, i), Gap(l, i) \div 2) ELSE l[i].SP + l[i].CP

Refused(l, i) == l[i].busy /\ Gap(l, i) <= MinSplit

\* Mutant of Reused: whether the block is busy is not asked.
ReusedBusy(l, i) == l[i].CP = 0

\* An idle block that has received nothing is handed out as it is.
Reused(l, i) == ~l[i].busy /\ l[i].CP = 0

\* Mutant of Cut: the new block is put before the one it is cut from.
CutBefore(l, i) ==
    SubSeq(l, 1, i - 1) \o <<[SP |-> CutAt(l, i), CP |-> 0, busy |-> TRUE]>>
        \o SubSeq(l, i, Len(l))

Cut(l, i) ==
    SubSeq(l, 1, i) \o <<[SP |-> CutAt(l, i), CP |-> 0, busy |-> TRUE]>>
        \o SubSeq(l, i + 1, Len(l))

\* malloc: the blocks it leaves, and the offset it answers.
MallocBlocks(l) ==
    LET i == Widest(l)
    IN  IF Refused(l, i) \/ Reused(l, i) THEN l ELSE Cut(l, i)

MallocAnswer(l) ==
    LET i == Widest(l) IN IF Refused(l, i) THEN MM_NULL ELSE CutAt(l, i)

\* The block a call with SP works on: the first that begins there.
At(SP) ==
    CHOOSE i \in DOMAIN mPointerMap :
        /\ mPointerMap[i].SP = SP
        /\ \A k \in DOMAIN mPointerMap : mPointerMap[k].SP = SP => i <= k

\* Mutants of Received: no clipping; the clip computed like free_length.
ReceivedUnclipped(i, n) == mPointerMap[i].CP + n

ReceivedShort(i, n) ==
    LET b == mPointerMap[i]
        end == End(mPointerMap, i)
    IN  IF b.SP + b.CP + n > end THEN Minus(Minus(end, b.SP), b.CP) ELSE b.CP + n

\* free: CP after n more bytes, clipped at the end of the block.
Received(i, n) ==
    LET b == mPointerMap[i]
        end == End(mPointerMap, i)
    IN  IF b.SP + b.CP + n > end THEN Minus(end, b.SP) ELSE b.CP + n

release(SP, l) ==
    LET i == At(SP) IN [l EXCEPT ![i].busy = FALSE]

-----------------------------------------------------------------------------
(* Operations *)

\* onStartSegment before the length is known: malloc has no blocks, and the
\* retriever begins at offset 0, however many have done so before it.
StartFirst(r) ==
    /\ mPointerMap = << >> /\ holds[r] = Idle
    /\ holds' = [holds EXCEPT ![r] = MM_NOT_EXSIT]
    /\ UNCHANGED <<mMemCapacity, mPointerMap, granted, crowded>>

\* setCapacity, when a retriever has learned the length of the file: there is
\* one block, and it belongs to all who began before.  Another call changes
\* nothing; a length of 0 ends the process by an assertion.
setCapacity(c) ==
    LET first == {r \in Retrievers : holds[r] = MM_NOT_EXSIT}
    IN  /\ mPointerMap = << >> /\ first # {}
        /\ holds' = [r \in Retrievers |-> IF r \in first THEN 0 ELSE holds[r]]
        /\ mMemCapacity' = c
        /\ mPointerMap' = <<[SP |-> 0, CP |-> 0, busy |-> TRUE]>>
        /\ crowded' = (\E r, s \in first : r # s)
        /\ UNCHANGED granted

\* onStartSegment: malloc, and nothing more if it answers MM_NULL.
StartSegment(r) ==
    /\ granted = Idle /\ holds[r] = Idle
    /\ mPointerMap # << >> /\ Len(mPointerMap) < MaxBlocks
    /\ LET l == sortMMList(mPointerMap)
           SP == MallocAnswer(l)
       IN  /\ mPointerMap' = MallocBlocks(l)
           /\ IF SP = MM_NULL
              THEN UNCHANGED <<holds, granted>>
              ELSE /\ holds' = [holds EXCEPT ![r] = SP]
                   /\ granted' = r
    /\ UNCHANGED <<mMemCapacity, crowded>>

\* setBlockBusy, then the retriever's thread starts.
setBlockBusy ==
    /\ granted # Idle
    /\ mPointerMap' = [i \in DOMAIN mPointerMap |->
                          IF mPointerMap[i].SP = holds[granted]
                          THEN [mPointerMap[i] EXCEPT !.busy = TRUE]
                          ELSE mPointerMap[i]]
    /\ granted' = Idle
    /\ UNCHANGED <<mMemCapacity, holds, crowded>>

Running(r) == holds[r] \notin {Idle, MM_NOT_EXSIT} /\ granted # r

\* A retriever received n bytes: free.  What free answers, n or 0 when it
\* clipped, only tells the retriever when to go on to release.
Report(r, n) ==
    /\ Running(r)
    /\ LET i == At(holds[r])
       IN  mPointerMap' = [mPointerMap EXCEPT ![i].CP = Received(i, n)]
    /\ UNCHANGED <<mMemCapacity, holds, granted, crowded>>

\* A retriever has ended, with its block or before: release.
Release(r) ==
    /\ Running(r)
    /\ mPointerMap' = release(holds[r], mPointerMap)
    /\ holds' = [holds EXCEPT ![r] = Idle]
    /\ UNCHANGED <<mMemCapacity, granted, crowded>>

\* A retriever that was to learn the length stops: there is no block yet.
Abandon(r) ==
    /\ holds[r] = MM_NOT_EXSIT
    /\ holds' = [holds EXCEPT ![r] = Idle]
    /\ UNCHANGED <<mMemCapacity, mPointerMap, granted, crowded>>

Init ==
    /\ mMemCapacity = 0
    /\ mPointerMap = << >>
    /\ holds = [r \in Retrievers |-> Idle]
    /\ granted = Idle
    /\ crowded = FALSE

Next ==
    \/ \E c \in Capacities : setCapacity(c)
    \/ setBlockBusy
    \/ \E r \in Retrievers :
          \/ StartFirst(r) \/ StartSegment(r) \/ Release(r) \/ Abandon(r)
          \/ \E n \in Chunks : Report(r, n)

Spec == Init /\ [][Next]_vars

-----------------------------------------------------------------------------
(* Properties *)

\* Blocks never reach into one another nor past the end of the file, whatever
\* malloc cuts while the owner of the block receives: this is what keeps the
\* unsigned differences of malloc and free from wrapping.
SegmentsApart ==
    /\ \A i \in DOMAIN mPointerMap :
          mPointerMap[i].SP + mPointerMap[i].CP <= mMemCapacity
    /\ \A i, k \in DOMAIN mPointerMap :
          i < k => mPointerMap[i].SP + mPointerMap[i].CP <= mPointerMap[k].SP

\* The bytes r has still to receive.
Left(r) ==
    LET i == At(holds[r])
    IN  mPointerMap[i].SP + mPointerMap[i].CP .. End(mPointerMap, i) - 1

\* No byte is given to two retrievers, although malloc, setBlockBusy, free and
\* release are separate calls that know a block by its offset only; and the
\* assertion found == true in free holds.  The exception is block 0 when
\* several retrievers were started before the length was known.
OwnersApart ==
    \A r, s \in {q \in Retrievers : holds[q] \notin {Idle, MM_NOT_EXSIT}} :
        /\ \E i \in DOMAIN mPointerMap : mPointerMap[i].SP = holds[r]
        /\ r # s => \/ Left(r) \cap Left(s) = {}
                    \/ crowded /\ holds[r] = 0 /\ holds[s] = 0

\* The bytes counted as received.
Covered ==
    UNION {mPointerMap[i].SP .. mPointerMap[i].SP + mPointerMap[i].CP - 1 :
              i \in DOMAIN mPointerMap}

\* A byte once counted is never asked for again.
NothingForgotten == [][Covered \subseteq Covered']_vars

\* Mutant of isMemFullAlloced: the last comparison decides.
FullLast ==
    /\ mPointerMap # << >>
    /\ LET n == Len(mPointerMap)
       IN  mPointerMap[n].SP + mPointerMap[n].CP = End(mPointerMap, n)

\* isMemFullAlloced compares neighbours; it says so exactly when every byte of
\* the file is there.  The sort it begins with finds the blocks in order, which
\* malloc keeps them in.
isMemFullAlloced ==
    /\ mPointerMap # << >>
    /\ \A i \in DOMAIN mPointerMap :
          mPointerMap[i].SP + mPointerMap[i].CP = End(mPointerMap, i)

FullMeansAll ==
    mPointerMap # << >> =>
        (isMemFullAlloced <=> Covered = 0 .. mMemCapacity - 1)
=============================================================================
