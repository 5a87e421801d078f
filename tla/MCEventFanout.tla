--------------------------- MODULE MCEventFanout ---------------------------
(* Small instances of EventFanout for TLC. *)
EXTENDS EventFanout, TLC

CONSTANTS a1, a2, v1, s1, s2, t1, d1

(* Assets and slugs are only compared. *)
Symmetric == Permutations(Asset) \cup Permutations(Slug)
=============================================================================
