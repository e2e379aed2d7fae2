--------------------------- MODULE MCLineageWorker ---------------------------
(***************************************************************************)
(* Two workers share two partitions: one has a poison message between two  *)
(* events, so that a commit comes due behind it, the other one a message   *)
(* that is dropped.                                                        *)
(***************************************************************************)
EXTENDS LineageWorker

CONSTANTS w1, w2, p1, p2

MCLogs ==
    {[p \in Partitions |-> IF p = p1 THEN <<"event", "poison", "event">> ELSE <<"unparsable">>]}
==============================================================================
