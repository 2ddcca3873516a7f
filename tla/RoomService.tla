---------------------------- MODULE RoomService ----------------------------
(***************************************************************************)
(* What the host promises about rooms, without rooms' objects, locks or    *)
(* threads: every room has a set of subscribers, and the collector of a    *)
(* room is switched on after the room gets its first subscriber and off    *)
(* after it loses its last (RoomListener and CollectorManager).            *)
(***************************************************************************)
CONSTANTS Clients, RoomNames, CollectorRooms

VARIABLES subscribers, collecting
vars == <<subscribers, collecting>>

Init ==
  /\ subscribers = [n \in RoomNames |-> {}]
  /\ collecting = [n \in CollectorRooms |-> FALSE]

Subscribe(c, n) ==
  /\ subscribers' = [subscribers EXCEPT ![n] = @ \cup {c}]
  /\ UNCHANGED collecting

Unsubscribe(c, n) ==
  /\ subscribers' = [subscribers EXCEPT ![n] = @ \ {c}]
  /\ UNCHANGED collecting

(* A collector only ever starts for somebody. *)
StartCollector(n) ==
  /\ ~collecting[n] /\ subscribers[n] # {}
  /\ collecting' = [collecting EXCEPT ![n] = TRUE]
  /\ UNCHANGED subscribers

(* And only stops on an empty room. *)
StopCollector(n) ==
  /\ collecting[n] /\ subscribers[n] = {}
  /\ collecting' = [collecting EXCEPT ![n] = FALSE]
  /\ UNCHANGED subscribers

Next ==
  \/ \E c \in Clients, n \in RoomNames : Subscribe(c, n) \/ Unsubscribe(c, n)
  \/ \E n \in CollectorRooms : StartCollector(n) \/ StopCollector(n)

Spec ==
  /\ Init /\ [][Next]_vars
  /\ \A n \in CollectorRooms :
       WF_vars(StartCollector(n)) /\ WF_vars(StopCollector(n))
=============================================================================
