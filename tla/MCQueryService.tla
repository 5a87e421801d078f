--------------------------- MODULE MCQueryService ---------------------------
(* Small instances of QueryService for TLC. *)
EXTENDS QueryService, TLC

CONSTANTS c1, c2, c3, q1, q2

(* Callers are only compared. *)
Symmetric == Permutations(Caller) \cup Permutations(Question)
=============================================================================
