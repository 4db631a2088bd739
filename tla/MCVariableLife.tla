--------------------------- MODULE MCVariableLife ---------------------------
(* Two workers and a chief.  The first worker and the chief run one graph  *)
(* that creates the variable, the second worker runs another; the workers  *)
(* share a node that keeps its object.                                     *)
EXTENDS VariableLife

CONSTANTS w1, w2, c1, c2, g1

MCWorkers == {w1, w2}
MCCreators == {c1, c2}
MCGatherers == {g1}
MCGraph == [th \in {w1, w2, Chief} |-> IF th = w2 THEN c2 ELSE c1]

Checkpoint(v2, rows, deltas) == [v2 |-> v2, rows |-> rows, deltas |-> deltas]

\* A training checkpoint with a delta, imported by either version of the op,
\* and one saved for serving.
MCCheckpoints == {Checkpoint(TRUE, TRUE, 1), Checkpoint(FALSE, TRUE, 1),
                  Checkpoint(FALSE, FALSE, 0)}
=============================================================================
