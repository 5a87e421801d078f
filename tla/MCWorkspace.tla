---------------------------- MODULE MCWorkspace ----------------------------
(* A small instance of Workspace for TLC. *)
EXTENDS Workspace

CONSTANTS a1, h1, p1, v1, s1, t1, d1
=============================================================================
