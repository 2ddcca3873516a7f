------------------------------ MODULE MCClient ------------------------------
(* Instances of Client for TLC. *)
EXTENDS Client, TLC
CONSTANTS c1, c2, battery, cron

(* A reply and two broadcasts to a channel of one. *)
MCSends == [s \in Clients \cup Senders |-> IF s = battery THEN 2 ELSE 1]
=============================================================================
