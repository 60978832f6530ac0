---------------------------- MODULE MCBusReceiver ----------------------------
(***************************************************************************)
(* Three frames, and either one transfer error or aborted transmission, or *)
(* two frames that lose bytes on the line or to a false heartbeat, which   *)
(* may touch both.                                                         *)
(***************************************************************************)
EXTENDS BusReceiver

MCNext == Next /\ Cardinality(spoiled') + 2 * faults' <= 2

MCSpec == Init /\ [][MCNext]_vars /\ Fairness
=============================================================================
