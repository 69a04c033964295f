------------------------ MODULE MCLogThreadedDestWorker ------------------------
(* Model values for LogThreadedDestWorker.                                   *)
EXTENDS LogThreadedDestWorker

\* partition keys of the messages: two of one key, the others of another
MCKey == [m \in 1 .. MaxMsgs |-> IF m > 2 THEN "b" ELSE "a"]
=============================================================================
