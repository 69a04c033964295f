----------------------------- MODULE MCMainLoop -----------------------------
(* MainLoop for TLC: a threaded worker, a thread of the pool, an I/O job. *)
EXTENDS MainLoop

CONSTANTS w1, p1, j1
=============================================================================
