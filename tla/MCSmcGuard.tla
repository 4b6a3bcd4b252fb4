----------------------------- MODULE MCSmcGuard -----------------------------
(* A small guest: MEM1 at 8..15, MEM2 at 24..27, pages of four words, lines *)
(* of two.  Chunks one and two share a page, three ends at the end of MEM1, *)
(* four lies in MEM2.                                                       *)
EXTENDS SmcGuard

CONSTANTS t1, t2

MCChunkRanges ==
    << [start |-> 8, end |-> 10], [start |-> 10, end |-> 13],
       [start |-> 14, end |-> 16], [start |-> 24, end |-> 26] >>
MCTitle == {t1, t2}
MCCandidate ==
    { [found |-> TRUE, valid |-> TRUE, forced |-> FALSE, game |-> t1],
      [found |-> FALSE, valid |-> TRUE, forced |-> FALSE, game |-> t1] }
\* The page at 20 does not translate.
MCMapped == (0 .. 31) \ (20 .. 23)
MCWritable == {9, 12}
MCReqAddr == {9, 10, 12}
MCReqLen == {0, 1, 2, 5, 18}
\* InvalidateICacheLines(address, 0): the whole address space, from any line on.
FullReqAddr == {10}
FullReqLen == {31}
=============================================================================
