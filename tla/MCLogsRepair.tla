---------------------------- MODULE MCLogsRepair ----------------------------
(* Small instances of LogsRepair for TLC.                                   *)
EXTENDS LogsRepair, TLC

CONSTANTS b1, b2, v1, k1, a1, a2, p1, p2

Interchangeable == Permutations({b1, b2}) \cup Permutations({a1, a2})
                       \cup Permutations({p1, p2})
=============================================================================
