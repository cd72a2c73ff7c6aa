------------------------- MODULE CheckpointHistory -------------------------
(***************************************************************************)
(* What a run directory of lewm-train promises about its complete          *)
(* checkpoints, however often the run is killed and resumed: the training  *)
(* they record is one line that only grows at its end, never forks and     *)
(* never moves back, and a checkpoint disappears only from the old end     *)
(* while newer ones, at least Keep of them, stay.                          *)
(***************************************************************************)
EXTENDS Naturals, FiniteSets

CONSTANTS Steps,          \* the steps a checkpoint may be written at
          Keep            \* checkpoints retention leaves

VARIABLES lineage,        \* the --max-steps of every training run completed so far
          retained        \* the complete checkpoints in the directory

Init == lineage = {} /\ retained = {}

\* A training run trains on from the newest checkpoint and saves at step n.
Save(n) ==
  /\ \A m \in lineage : m < n
  /\ lineage' = lineage \union {n}
  /\ retained' = retained \union {n}

\* Retention takes the oldest checkpoint while Keep newer ones exist.
Discard(n) ==
  /\ n \in retained
  /\ \A m \in retained : n <= m
  /\ Cardinality(retained) > Keep
  /\ retained' = retained \ {n}
  /\ UNCHANGED lineage

Next == \E n \in Steps : Save(n) \/ Discard(n)

Spec == Init /\ [][Next]_<<lineage, retained>>
=============================================================================
