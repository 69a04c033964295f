--------------------------- MODULE MCLogQueueFifo ---------------------------
(* Small instances of LogQueueFifo for TLC.                                *)
EXTENDS LogQueueFifo
=============================================================================
