------------------------------ MODULE MCRooms ------------------------------
(* Instances of Rooms for TLC. *)
EXTENDS Rooms, TLC
CONSTANTS c1, c2, r1, r2, r3, r4
(* Bounds on the messages of each connection. *)
TwoEach == [c \in Clients |-> 2]
OneEach == [c \in Clients |-> 1]
TwoAndOne == [c \in Clients |-> IF c = c1 THEN 2 ELSE 1]

(* Clients and room objects are interchangeable; the safety runs use it. *)
Symmetry == Permutations({c1, c2}) \cup Permutations({r1, r2, r3})
=============================================================================
