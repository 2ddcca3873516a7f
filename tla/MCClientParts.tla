---------------------------- MODULE MCClientParts ----------------------------
(***************************************************************************)
(* Instances for TLC of Client and of two more parts of the host, which   *)
(* share no state with it or with each other: one of them, part, does its  *)
(* steps; the others stay as they are at the beginning, where none of      *)
(* their fair actions is enabled.                                          *)
(***************************************************************************)
EXTENDS Client, Power, Battery, TLC

CONSTANTS c1, battery

VARIABLE part

(* A reply and two broadcasts to a channel of one. *)
MCSends == [s \in Clients \cup Senders |-> IF s = battery THEN 2 ELSE 1]

PartsInit ==
  /\ part \in {"client", "power", "battery"}
  /\ Init /\ PowerInit /\ BatteryInit
  /\ part = "power" \/ platform = "windows"
  /\ part = "battery" \/ (system = "linux" /\ readable)

PartsNext ==
  /\ UNCHANGED part
  /\ \/ part = "client" /\ Next /\ UNCHANGED <<powerVars, batteryVars>>
     \/ part = "power" /\ PowerNext /\ UNCHANGED <<vars, batteryVars>>
     \/ part = "battery" /\ BatteryNext /\ UNCHANGED <<vars, powerVars>>

(* The fairness of each part, which the others meet by never starting. *)
PartsSpec ==
  /\ PartsInit /\ [][PartsNext]_<<part, vars, powerVars, batteryVars>>
  /\ Fairness /\ PowerFairness /\ BatteryFairness
=============================================================================
