------------------------ MODULE MCLogThreadedSource ------------------------
(* LogThreadedSource for TLC: a worker that blocks and a fetcher. *)
EXTENDS LogThreadedSource

CONSTANTS w1, f1

MCThreadIndex(s) == IF s = w1 THEN 0 ELSE 1

\* Round robin with batches that the driver closes; hashing with batches that
\* close by themselves.
MCOptions ==
  {[key |-> FALSE, size |-> 2, auto |-> FALSE], [key |-> TRUE, size |-> 0, auto |-> TRUE]}
=============================================================================
