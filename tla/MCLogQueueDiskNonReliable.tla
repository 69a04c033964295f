---------------------- MODULE MCLogQueueDiskNonReliable ----------------------
(***************************************************************************)
(* Instances of the normal disk buffer for TLC.                            *)
(***************************************************************************)
EXTENDS LogQueueDiskNonReliable
=============================================================================
