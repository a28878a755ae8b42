----------------------------- MODULE MCSimpleDS -----------------------------
(* Two chips, on two layers and in two bins; the file 1 has no column of   *)
(* its own; words of 3 values, of which an int shows two; bins of at most  *)
(* 2 entries, and a plot for counters up to 1.                             *)
EXTENDS SimpleDS

MCLayerOf == [c \in Chips |-> IF c = "chipA" THEN 0 ELSE 6]

MCPositionOf == [c \in Chips |-> IF c = "chipA" THEN "front" ELSE "back"]

MCMemory == {-1, 1}
=============================================================================
