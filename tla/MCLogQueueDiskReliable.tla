------------------------ MODULE MCLogQueueDiskReliable ------------------------
(***************************************************************************)
(* Instances of the reliable disk buffer for TLC.                          *)
(***************************************************************************)
EXTENDS LogQueueDiskReliable
=============================================================================
