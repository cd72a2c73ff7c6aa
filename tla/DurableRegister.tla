--------------------------- MODULE DurableRegister ---------------------------
(***************************************************************************)
(* What a checkpoint file written through write_atomic_bytes               *)
(* (lewm-train/src/checkpoint.rs) promises its readers: a register that    *)
(* always holds one whole version.  A version becomes visible in one step, *)
(* an acknowledged version is never lost, and a power failure may take     *)
(* back only versions that were not yet acknowledged.                      *)
(* Versions are numbered in the order the writes were started; 0 stands    *)
(* for "no file yet".                                                      *)
(***************************************************************************)
EXTENDS Naturals

CONSTANT MaxWrites        \* versions are 0..MaxWrites

VARIABLES visible,        \* the version a reader of the path finds
          acked           \* the last version whose write returned Ok

Versions == 0..MaxWrites

Init == visible = 0 /\ acked = 0

\* A later version replaces the visible one as a whole.
Publish ==
  /\ visible' \in {v \in Versions : v > visible}
  /\ UNCHANGED acked

\* The writer is told that the visible version is durable.
Acknowledge ==
  /\ acked' = visible
  /\ UNCHANGED visible

\* A power failure rolls back to a version no older than the acknowledged one.
Revert ==
  /\ visible' \in {v \in Versions : acked <= v /\ v < visible}
  /\ UNCHANGED acked

Next == Publish \/ Acknowledge \/ Revert

Spec == Init /\ [][Next]_<<visible, acked>>
=============================================================================
