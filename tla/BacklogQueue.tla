----------------------------- MODULE BacklogQueue -----------------------------
(***************************************************************************)
(* What a disk buffer promises to the destination that reads it            *)
(* (lib/logqueue.h): a queue whose popped messages stay in a backlog until *)
(* they are acknowledged, from the oldest, or put back to the front, from  *)
(* the youngest.                                                           *)
(***************************************************************************)
EXTENDS Naturals, Sequences

CONSTANT Msg

VARIABLES
  queue,   \* messages to be popped, the next one first
  backlog, \* messages popped and not acknowledged, the oldest first
  out      \* the message the last peek or pop returned

vars == <<queue, backlog, out>>

Init == queue = <<>> /\ backlog = <<>> /\ out \in Msg \cup {0}

PushTail == \E m \in Msg : queue' = Append(queue, m) /\ UNCHANGED <<backlog, out>>

PeekHead == queue # <<>> /\ out' = Head(queue) /\ UNCHANGED <<queue, backlog>>

PopHead ==
  /\ queue # <<>>
  /\ out' = Head(queue)
  /\ queue' = Tail(queue)
  /\ backlog' = Append(backlog, Head(queue))

AckBacklog ==
  \E n \in 1 .. Len(backlog) :
    backlog' = SubSeq(backlog, n + 1, Len(backlog)) /\ UNCHANGED <<queue, out>>

RewindBacklog ==
  \E n \in 1 .. Len(backlog) :
    /\ queue' = SubSeq(backlog, Len(backlog) - n + 1, Len(backlog)) \o queue
    /\ backlog' = SubSeq(backlog, 1, Len(backlog) - n)
    /\ UNCHANGED out

Next == PushTail \/ PeekHead \/ PopHead \/ AckBacklog \/ RewindBacklog

Spec == Init /\ [][Next]_vars
=============================================================================
