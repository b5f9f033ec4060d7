---------------------------- MODULE MCJobQueue ----------------------------
(* Constants for TLC. *)
EXTENDS JobQueue
CONSTANTS j1, j2, w1, w2, k1
===========================================================================
