---------------------------- MODULE MCTsTimeline ----------------------------
(* A cycle of 16 ticks, all jumps it can tell apart, three cycles of time. *)
EXTENDS TsTimeline

MCFirst == -3..17
MCJumps == (1 - Half)..(Half - 1)
MCReorders == 0..(Half - 1)
=============================================================================
