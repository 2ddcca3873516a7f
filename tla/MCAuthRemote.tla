---------------------------- MODULE MCAuthRemote ----------------------------
(***************************************************************************)
(* Instances for TLC of Auth and of Remote with their fairness: the host's *)
(* authorization of devices, and the connection of the app, which share no *)
(* state.  One of them, part, does its steps; the other stays as it is at  *)
(* the beginning, where none of its fair actions is enabled.  The host is  *)
(* one with a console.                                                     *)
(***************************************************************************)
EXTENDS MCAuth, Remote

VARIABLE part

LiveInit ==
  /\ part \in {"auth", "remote"} /\ Init /\ RemoteInit
  /\ ~gui

LiveNext ==
  /\ UNCHANGED part
  /\ \/ part = "auth" /\ Next /\ UNCHANGED remoteVars
     \/ part = "remote" /\ RemoteNext /\ UNCHANGED vars

LiveSpec == LiveInit /\ [][LiveNext]_<<part, vars, remoteVars>> /\ Fairness /\ RemoteFairness
=============================================================================
