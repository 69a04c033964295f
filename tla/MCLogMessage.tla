----------------------------- MODULE MCLogMessage -----------------------------
(***************************************************************************)
(* Two destinations; the source with and without the cache, direct and     *)
(* through a scheduler, with one or both destinations flow-controlled and  *)
(* every choice of queues that show a message at once.                     *)
(***************************************************************************)
EXTENDS LogMessage

MCRoute == <<"d1", "d2">>
MCSetups == [cached : BOOLEAN, relay : BOOLEAN,
             fc : {{"d1"}, {"d1", "d2"}}, early : SUBSET {"d1", "d2"}]
=============================================================================
