------------------------------ MODULE LogMessage ------------------------------
(***************************************************************************)
(* The life of one LogMessage (lib/logmsg/logmsg.c): the word that packs   *)
(* its reference counter, its counter of expected acknowledgements and the *)
(* abort and suspend flags, and the per-thread cache that lets a thread    *)
(* ref, unref and ack the message it works on without touching that word.  *)
(*                                                                         *)
(* A thread is the list of calls it still has to make on the message       *)
(* ("todo").  The lists are those of the code that calls logmsg.c: the     *)
(* source that posts the message, the multiplexer that hands a copy of the *)
(* reference to every destination, the scheduler thread that may stand     *)
(* between the two, and the destinations.  Every call is one step; a call  *)
(* that leaves the cache does one compare-and-exchange on the word.        *)
(***************************************************************************)
EXTENDS Integers, Sequences, SequencesExt

CONSTANTS
  Route,       \* the destinations, in the order the multiplexer feeds them
  Bias,        \* LOGMSG_REFCACHE_BIAS
  CounterMod,  \* the counters of the word are taken modulo this
  Setups       \* the ways the message travels (see Init)

Dests == {Route[i] : i \in DOMAIN Route}
Threads == {"source", "relay"} \cup Dests

VARIABLES
  setup,     \* [cached, relay, fc, early]: the source caches; a scheduler relays; the
             \* flow-controlled destinations; those whose queue shows a message at once
  word,      \* ack_and_ref_and_abort_and_suspended
  cache,     \* the thread-local block of every thread
  todo,      \* the calls every thread has still to make
  entry,     \* what every destination's queue holds of the message
  relayed,   \* the scheduler's thread took the message off its batch
  acked,     \* the acknowledgements reported to the source
  given,     \* the kinds of acknowledgement given by anyone
  freed      \* log_msg_free() was called

vars == <<setup, word, cache, todo, entry, relayed, acked, given, freed>>

NoCache == [on |-> FALSE, needed |-> FALSE, refs |-> 0, acks |-> 0,
            abort |-> FALSE, suspend |-> FALSE]
NoEntry == [at |-> "none", ack |-> FALSE]

-----------------------------------------------------------------------------
(* The calls the users of a message make on it.                            *)

\* log_msg_drop()
Drop(kind) == << <<"ack", kind>>, <<"unref">> >>

\* The same with path options that need no acknowledgement.
DropOf(needed, kind) == IF needed THEN Drop(kind) ELSE << <<"unref">> >>

\* log_threaded_dest_driver_queue(): without flow control the chain of
\* acknowledgements is broken first; the driver's end of the path drops the message.
DriverQueue(d) ==
  IF d \in setup.fc
  THEN << <<"add_ack">>, <<"ref">>, <<"push", d>> >> \o Drop("processed")
  ELSE << <<"ack", "processed">>, <<"ref">>, <<"push", d>>, <<"unref">> >>

\* log_multiplexer_queue(): one ack and one ref for every branch, then the end of the path.
MultiplexerQueue ==
  FlattenSeq([i \in DOMAIN Route |-> << <<"add_ack">>, <<"ref">> >> \o DriverQueue(Route[i])])
    \o Drop("processed")

\* _queue_thread() of the scheduler: the node takes a ref of its own.
SchedulerPush == << <<"ref">>, <<"unref">> >>

\* log_source_post(): a ref for the ack tracker, the first ack, and down the path.
SourcePost(relay) ==
  << <<"ref">>, <<"add_ack">> >> \o (IF relay THEN SchedulerPush ELSE MultiplexerQueue)

\* log_reader_handle_line() caches; a threaded source posts without the cache.
HandleLine(s) ==
  IF s.cached THEN << <<"start_producer">> >> \o SourcePost(s.relay) \o << <<"stop">> >>
              ELSE SourcePost(s.relay)

\* One message of _work(), the scheduler's job, with the node's reference consumed by
\* the path and the one taken here dropped at the end.
SchedulerWork ==
  << <<"ref">>, <<"start_consumer", TRUE>> >> \o MultiplexerQueue \o << <<"unref">>, <<"stop">> >>

\* log_threaded_dest_worker's perform_inserts(), with the reference pop_head() takes for
\* the backlog; "answer" is what happens to the message while it is cached.
InsertOne(needed, answer) ==
  << <<"ref">>, <<"start_consumer", needed>> >>
    \o (IF answer = "success" THEN DropOf(needed, "processed") ELSE <<>>)
    \o << <<"unref">>, <<"stop">> >>

Init ==
  /\ setup \in Setups
  /\ word = [ref |-> 1, ack |-> 0, abort |-> FALSE, suspend |-> FALSE]
  /\ cache = [t \in Threads |-> NoCache]
  /\ todo = [t \in Threads |-> IF t = "source" THEN HandleLine(setup) ELSE <<>>]
  /\ entry = [d \in Dests |-> NoEntry]
  /\ relayed = FALSE
  /\ acked = <<>>
  /\ given = {}
  /\ freed = FALSE

-----------------------------------------------------------------------------
(* logmsg.c                                                                *)

\* What the word becomes: every field is masked on its own, so none carries into another.
Updated(refs, acks, abort, suspend) ==
  [ref |-> (word.ref + refs) % CounterMod, ack |-> (word.ack + acks) % CounterMod,
   abort |-> word.abort \/ abort, suspend |-> word.suspend \/ suspend]

\* Mutant: the suspend flag is forgotten.
AckType_NoSuspend(w) == IF w.abort THEN "aborted" ELSE "processed"

\* _ack_and_ref_and_abort_and_suspend_to_acktype(), on the value before the update.
AckType(w) == CASE w.suspend -> "suspended"
                [] ~w.suspend /\ w.abort -> "aborted"
                [] OTHER -> "processed"

\* The next call of a thread, and the calls left after it with "more" put before them.
Calls(t, name) == ~freed /\ todo[t] # <<>> /\ Head(todo[t])[1] = name
Then(t, more) == todo' = [todo EXCEPT ![t] = more \o Tail(@)]

\* logmsg_current == self
Caching(t) == cache[t].on

\* The assertions: a reference is taken or dropped only by someone who has one, and the
\* cached differences stay within the bias.
AssertionHolds(t) ==
  todo[t] # <<>> =>
    /\ (Head(todo[t])[1] \in {"ref", "unref"} /\ ~Caching(t)) => word.ref >= 1
    /\ Head(todo[t])[1] = "stop" =>
         /\ cache[t].acks >= -Bias /\ cache[t].acks < Bias - 1
         /\ cache[t].refs >= -Bias /\ cache[t].refs < Bias - 1

log_msg_ref(t) ==
  /\ Calls(t, "ref") /\ AssertionHolds(t)
  /\ IF Caching(t) THEN cache' = [cache EXCEPT ![t].refs = @ + 1] /\ UNCHANGED word
                   ELSE word' = Updated(1, 0, FALSE, FALSE) /\ UNCHANGED cache
  /\ Then(t, <<>>)
  /\ UNCHANGED <<setup, entry, relayed, acked, given, freed>>

log_msg_unref(t) ==
  /\ Calls(t, "unref") /\ AssertionHolds(t)
  /\ IF Caching(t)
     THEN cache' = [cache EXCEPT ![t].refs = @ - 1] /\ UNCHANGED <<word, freed>>
     ELSE /\ word' = Updated(-1, 0, FALSE, FALSE)
          /\ freed' = (word.ref = 1)
          /\ UNCHANGED cache
  /\ Then(t, <<>>)
  /\ UNCHANGED <<setup, entry, relayed, acked, given>>

log_msg_add_ack(t) ==
  /\ Calls(t, "add_ack")
  /\ IF Caching(t)
     THEN cache' = [cache EXCEPT ![t].acks = @ + 1, ![t].needed = TRUE] /\ UNCHANGED word
     ELSE word' = Updated(0, 1, FALSE, FALSE) /\ UNCHANGED cache
  /\ Then(t, <<>>)
  /\ UNCHANGED <<setup, entry, relayed, acked, given, freed>>

\* The last acknowledgement calls ack_func: with its own kind unless that is "processed".
log_msg_ack(t) ==
  /\ Calls(t, "ack")
  /\ LET kind == Head(todo[t])[2]
         abort == kind = "aborted"
         suspend == kind = "suspended"
     IN /\ given' = given \cup {kind}
        /\ IF Caching(t)
           THEN /\ cache' = [cache EXCEPT ![t].acks = @ - 1, ![t].abort = @ \/ abort,
                                          ![t].suspend = @ \/ suspend]
                /\ Then(t, <<>>) /\ UNCHANGED word
           ELSE /\ word' = Updated(0, -1, abort, suspend)
                /\ Then(t, IF word.ack # 1 THEN <<>>
                           ELSE << <<"ack_func", IF kind = "processed" THEN AckType(word)
                                                 ELSE kind>> >>)
                /\ UNCHANGED cache
  /\ UNCHANGED <<setup, entry, relayed, acked, freed>>

\* log_source_msg_ack(): whichever tracker the source has, it drops the source's ref.
ack_func(t) ==
  /\ Calls(t, "ack_func")
  /\ acked' = Append(acked, Head(todo[t])[2])
  /\ Then(t, << <<"unref">> >>)
  /\ UNCHANGED <<setup, word, cache, entry, relayed, given, freed>>

\* Mutant: the bias is added to the ack counter only.
log_msg_refcache_start_producer_AcksOnly(t) ==
  /\ Calls(t, "start_producer") /\ ~Caching(t)
  /\ word' = Updated(0, Bias, FALSE, FALSE)
  /\ cache' = [cache EXCEPT ![t] = [NoCache EXCEPT !.on = TRUE, !.needed = TRUE,
                                                   !.acks = -Bias]]
  /\ Then(t, <<>>)
  /\ UNCHANGED <<setup, entry, relayed, acked, given, freed>>

\* The message is new: the word is written without a compare-and-exchange.
log_msg_refcache_start_producer(t) ==
  /\ Calls(t, "start_producer") /\ ~Caching(t)
  /\ word' = Updated(Bias, Bias, FALSE, FALSE)
  /\ cache' = [cache EXCEPT ![t] = [NoCache EXCEPT !.on = TRUE, !.needed = TRUE,
                                                   !.refs = -Bias, !.acks = -Bias]]
  /\ Then(t, <<>>)
  /\ UNCHANGED <<setup, entry, relayed, acked, given, freed>>

log_msg_refcache_start_consumer(t) ==
  /\ Calls(t, "start_consumer") /\ ~Caching(t)
  /\ cache' = [cache EXCEPT ![t] = [NoCache EXCEPT !.on = TRUE, !.needed = Head(todo[t])[2]]]
  /\ Then(t, <<>>)
  /\ UNCHANGED <<setup, word, entry, relayed, acked, given, freed>>

\* Stages 1 to 3 of log_msg_refcache_stop(): a ref of our own, the acks folded into the
\* word, and the ack handler when that took the counter to zero.
log_msg_refcache_stop(t) ==
  /\ Calls(t, "stop") /\ AssertionHolds(t)
  /\ LET c == cache[t]
         kind == CASE c.suspend -> "suspended"
                   [] ~c.suspend /\ c.abort -> "aborted"
                   [] OTHER -> AckType(word)
     IN /\ word' = Updated(0, c.acks, c.abort, c.suspend)
        /\ cache' = [cache EXCEPT ![t].refs = @ + 1, ![t].acks = 0,
                                  ![t].abort = FALSE, ![t].suspend = FALSE]
        /\ Then(t, (IF word.ack = -c.acks /\ c.needed THEN << <<"ack_func", kind>> >> ELSE <<>>)
                      \o << <<"unref">>, <<"fold">> >>)
  /\ UNCHANGED <<setup, entry, relayed, acked, given, freed>>

\* Stage 5: the cached refs are folded, which frees the message when they were the last.
FoldRefs(t) ==
  /\ Calls(t, "fold")
  /\ word' = Updated(cache[t].refs, 0, FALSE, FALSE)
  /\ freed' = (word.ref = -cache[t].refs)
  /\ cache' = [cache EXCEPT ![t] = NoCache]
  /\ Then(t, <<>>)
  /\ UNCHANGED <<setup, entry, relayed, acked, given>>

-----------------------------------------------------------------------------
(* The queues and the threads at their ends.                               *)

\* What a queue does with a message pushed to it: keeps it with its acknowledgement (a
\* memory queue; the flow-control window of a disk queue), keeps it acknowledged (the
\* front cache), acknowledges and drops it (written to the disk; a full memory queue
\* without flow control), or refuses it (a full disk queue).
Outcomes(d) == IF d \in setup.early THEN {"kept", "front", "done", "refused"}
               ELSE IF d \in setup.fc THEN {"kept"} ELSE {"kept", "done"}

log_queue_push_tail(t) ==
  /\ Calls(t, "push")
  /\ LET d == Head(todo[t])[2]
         needed == d \in setup.fc
     IN \E outcome \in Outcomes(d) :
          /\ entry' = IF outcome \in {"kept", "front"}
                      THEN [entry EXCEPT ![d] = [at |-> "queue",
                                                 ack |-> needed /\ outcome = "kept"]]
                      ELSE entry
          /\ Then(t, CASE outcome = "kept" -> <<>>
                       [] outcome = "front" -> IF needed THEN << <<"ack", "processed">> >> ELSE <<>>
                       [] outcome = "done" -> DropOf(needed, "processed")
                       [] outcome = "refused" -> DropOf(needed, "suspended"))
  /\ UNCHANGED <<setup, word, cache, relayed, acked, given, freed>>

\* The thread that feeds the destinations.
Feeder == IF setup.relay THEN "relay" ELSE "source"

\* A memory queue shows the messages of a thread at the end of its batch, a disk queue
\* as soon as they are pushed.
Visible(d) == ~freed /\ entry[d].at = "queue" /\ todo[d] = <<>>
              /\ (d \in setup.early \/ todo[Feeder] = <<>>)

\* The scheduler's batch is flushed by a batch callback, after the source is done with it.
_work ==
  /\ setup.relay /\ ~relayed /\ todo["source"] = <<>> /\ ~freed
  /\ relayed' = TRUE
  /\ todo' = [todo EXCEPT !["relay"] = SchedulerWork]
  /\ UNCHANGED <<setup, word, cache, entry, acked, given, freed>>

\* The destination takes the message: it is acknowledged at once, stays in the backlog
\* until a later answer, or goes back to the queue.
PerformInsert(d) ==
  /\ Visible(d)
  /\ \E answer \in {"success", "queued", "rewound"} :
       /\ todo' = [todo EXCEPT ![d] = InsertOne(entry[d].ack, answer)]
       /\ entry' = [entry EXCEPT ![d] =
                      CASE answer = "success" -> NoEntry
                        [] answer = "queued" -> [@ EXCEPT !.at = "backlog"]
                        [] answer = "rewound" -> @]
  /\ UNCHANGED <<setup, word, cache, relayed, acked, given, freed>>

\* log_queue_ack_backlog() for an answer that came later.
AckBacklog(d) ==
  /\ ~freed /\ entry[d].at = "backlog" /\ todo[d] = <<>>
  /\ todo' = [todo EXCEPT ![d] = DropOf(entry[d].ack, "processed")]
  /\ entry' = [entry EXCEPT ![d] = NoEntry]
  /\ UNCHANGED <<setup, word, cache, relayed, acked, given, freed>>

\* log_queue_fifo_free_queue(): a memory queue released with the message still in it.
FreeQueue(d) ==
  /\ ~freed /\ d \notin setup.early
  /\ entry[d].at # "none"
  /\ \A t \in Threads : todo[t] = <<>>
  /\ setup.relay => relayed
  /\ todo' = [todo EXCEPT ![d] = DropOf(entry[d].ack, "aborted")]
  /\ entry' = [entry EXCEPT ![d] = NoEntry]
  /\ UNCHANGED <<setup, word, cache, relayed, acked, given, freed>>

Call(t) ==
  \/ log_msg_ref(t) \/ log_msg_unref(t) \/ log_msg_add_ack(t) \/ log_msg_ack(t)
  \/ ack_func(t)
  \/ log_msg_refcache_start_producer(t) \/ log_msg_refcache_start_consumer(t)
  \/ log_msg_refcache_stop(t) \/ FoldRefs(t)
  \/ log_queue_push_tail(t)

Next ==
  \/ \E t \in Threads : Call(t)
  \/ _work
  \/ \E d \in Dests : PerformInsert(d) \/ AckBacklog(d) \/ FreeQueue(d)

Spec == Init /\ [][Next]_vars

-----------------------------------------------------------------------------
(* Properties                                                              *)

\* The scheduler's thread caches its refs and acks without the bias.  The counters are
\* only claimed to be right when the queues it feeds keep the message back until its
\* batch ends, as memory queues do.
Biased == ~(setup.relay /\ setup.early # {})

\* Somebody still has to do with the message.
InUse == \/ \E t \in Threads : todo[t] # <<>>
         \/ \E d \in Dests : entry[d].at # "none"
         \/ setup.relay /\ ~relayed

\* "freed once all destinations finish with it" (comment at the top of logmsg.c): the
\* message is freed exactly when no thread and no queue uses it any more, no matter how
\* the destinations overtake the thread that feeds them, and no assertion on the counters
\* fails on the way.
FreedWhenFinished ==
  Biased => /\ freed <=> ~InUse
            /\ \A t \in Threads : AssertionHolds(t)

\* An acknowledgement somebody still has to give.
Awaited == \/ \E d \in Dests : entry[d].ack
           \/ \E t \in Threads : \E i \in DOMAIN todo[t] : todo[t][i][1] \in {"add_ack", "ack"}

\* The source is told once, after the last of the acknowledgements and before the message
\* is gone; and it is told "processed" only when every one of them said so
\* (log_msg_ack(), log_msg_refcache_stop()): the flags of the word keep a refusal or an
\* abort given earlier by another thread.
AckedWhenDelivered ==
  Biased =>
    /\ freed => acked # <<>>
    /\ acked # <<>> =>
         /\ Len(acked) = 1
         /\ ~Awaited
         /\ acked[1] \in given
         /\ acked[1] = "processed" => given = {"processed"}

=============================================================================
