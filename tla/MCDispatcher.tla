---------------------------- MODULE MCDispatcher ----------------------------
(* A small instance of Dispatcher for TLC. *)
EXTENDS Dispatcher

CONSTANTS a1, a2, p1, p2, s1, t1, b1
=============================================================================
