--------------------------- MODULE MCRateStatistics ---------------------------
(* Model-checking instance of RateStatistics: a 3 ms ring, timestamps    *)
(* over two turns of it, so that the ring wraps and a jump culls         *)
(* everything; window sizes below, at and outside the valid range.       *)
EXTENDS RateStatistics

MCMaxWindow == 3
MCTimes == 0 .. 6
MCCounts == {1, 2}
MCWindowSizes == {0, 1, 2, 3, 4}
MCMaxUpdates == 3
=============================================================================
