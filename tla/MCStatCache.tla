----------------------------- MODULE MCStatCache -----------------------------
(* Values for the runs of StatCache: three contents, two of one size. *)
EXTENDS StatCache

CONSTANTS small, other, large

MCSizeOf == [c \in {small, other, large} |-> IF c = large THEN 2 ELSE 1]
==============================================================================
