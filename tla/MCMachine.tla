----------------------------- MODULE MCMachine -----------------------------
(* Machine for TLC, with short lines and periods: a line is 3 steps of the  *)
(* clock, a frame 5 lines.                                                  *)
EXTENDS Machine

ShortThreshold == [s \in 0 .. 3 |-> IF s = 1 THEN 4 ELSE 12]
AllStat        == {[modes |-> {0, 1, 2}, lyc |-> TRUE]}
=============================================================================
