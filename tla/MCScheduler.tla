----------------------------- MODULE MCScheduler -----------------------------
(* Instances of Scheduler for TLC. *)
EXTENDS Scheduler, TLC
CONSTANTS backup, uname, phone

(* Two defaults, of which a client may replace one. *)
MCDefaults == <<uname, backup>>
=============================================================================
