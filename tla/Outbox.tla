------------------------------- MODULE Outbox -------------------------------
(***************************************************************************)
(* What the host promises about messages to a client, without channels,    *)
(* pumps or locks: what was accepted is delivered in order, without gaps   *)
(* or repetitions and with a bounded backlog, until the client is cut off. *)
(***************************************************************************)
EXTENDS Naturals, Sequences

CONSTANTS Clients, Packets, Backlog

VARIABLES accepted, delivered, up
vars == <<accepted, delivered, up>>

Pending(c) == Len(accepted[c]) - Len(delivered[c])

Init ==
  /\ accepted = [c \in Clients |-> <<>>]
  /\ delivered = [c \in Clients |-> <<>>]
  /\ up = [c \in Clients |-> TRUE]

Accept(c, p) ==
  /\ Pending(c) < Backlog
  /\ accepted' = [accepted EXCEPT ![c] = Append(@, p)]
  /\ UNCHANGED <<delivered, up>>

Deliver(c) ==
  /\ up[c] /\ Pending(c) > 0
  /\ delivered' = [delivered EXCEPT ![c] = Append(@, accepted[c][Len(@) + 1])]
  /\ UNCHANGED <<accepted, up>>

(* Several clients at once when the host shuts down. *)
CutOff(C) ==
  /\ up' = [c \in Clients |-> up[c] /\ c \notin C]
  /\ UNCHANGED <<accepted, delivered>>

Next ==
  \/ \E c \in Clients : Deliver(c) \/ \E p \in Packets : Accept(c, p)
  \/ \E C \in SUBSET Clients : CutOff(C)

Spec == Init /\ [][Next]_vars /\ \A c \in Clients : WF_vars(Deliver(c))
=============================================================================
