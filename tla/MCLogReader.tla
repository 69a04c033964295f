---------------------------- MODULE MCLogReader ----------------------------
(* Model checking instances of LogReader. *)
EXTENDS LogReader

Connection(w) == [notified |-> FALSE, window |-> w]
File(w) == [notified |-> TRUE, window |-> w]

\* A connection with a window of one message.
Narrow == {Connection(1)}

\* A connection whose window fills, and a followed file whose window does not.
FittingReaders == {Connection(2), File(4)}

\* A followed file whose window fills.
NarrowFile == {File(1)}
=============================================================================
