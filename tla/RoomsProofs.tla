---------------------------- MODULE RoomsProofs ----------------------------
(***************************************************************************)
(* Theorems about Rooms, for every set of clients, room names and room     *)
(* objects and every number of messages.                                   *)
(***************************************************************************)
EXTENDS Rooms, FiniteSetTheorems, TLAPS

(* The labels of an operation that looked its room up. *)
Adding == {"addCount", "addMember", "addState", "first"}
Removing == {"remCount", "remHas", "remMember", "remState", "remCheck",
             "remDelete", "last"}

(* What a program counter says of its thread's other variables. *)
PcOK ==
  /\ pc[Monitor] \in {"idle", "evict", "snapshot", "sweep"} \cup Removing
  /\ \A c \in Clients :
       /\ pc[c] # "evict"
       /\ pc[c] = "off" <=> conn[c] = "none"
       /\ pc[c] \in {"idle"} \cup Adding => conn[c] \in {"open", "closed"}
       /\ pc[c] \in {"snapshot", "sweep", "done"} => conn[c] = "ended"
       /\ pc[c] = "done" => todo[c] = {}
  /\ pc[Monitor] \in {"snapshot", "sweep"} \cup Removing => victim \in Clients
  /\ \A t \in Threads : pc[t] \in Adding \cup Removing =>
       arg[t] \in RoomNames /\ obj[t] \in RoomIds

Inv == TypeOK /\ PcOK

LEMMA MonitorNotClient == Monitor \notin Clients /\ Monitor \in Threads /\ Clients \subseteq Threads
BY ConstantsAssumption DEF Threads

LEMMA InitInv == Init => Inv
<1> SUFFICES ASSUME Init PROVE Inv
  OBVIOUS
<1> USE ConstantsAssumption, MonitorNotClient
<1>1. TypeOK
  BY DEF Init, TypeOK, Labels
<1>2. PcOK
  BY DEF Init, PcOK, Adding, Removing
<1> QED BY <1>1, <1>2 DEF Inv

(* Returning from an operation leaves the locals of the thread typed. *)
LEMMA ReturnTypes ==
  ASSUME TypeOK, NEW t \in Threads, Return(t)
  PROVE  /\ pc' \in [Threads -> Labels]
         /\ arg' \in [Threads -> RoomNames \cup {NoName}]
         /\ obj' \in [Threads -> RoomIds \cup {NoRoom}]
         /\ flag' \in [Threads -> BOOLEAN]
<1>1. pc' \in [Threads -> Labels]
  <2>1. CASE Sweeping(t)
    BY <2>1 DEF TypeOK, Return, Goto, Labels
  <2>2. CASE ~Sweeping(t)
    BY <2>2 DEF TypeOK, Return, Goto, Labels
  <2> QED BY <2>1, <2>2
<1>2. arg' \in [Threads -> RoomNames \cup {NoName}]
  BY DEF TypeOK, Return
<1>3. obj' \in [Threads -> RoomIds \cup {NoRoom}]
  BY DEF TypeOK, Return
<1>4. flag' \in [Threads -> BOOLEAN]
  BY DEF TypeOK, Return
<1> QED BY <1>1, <1>2, <1>3, <1>4

(* And so does the lookup that starts RemoveClientFromRoom. *)
LEMMA LookupTypes ==
  ASSUME TypeOK, NEW t \in Threads, NEW n \in RoomNames, Lookup(t, n)
  PROVE  /\ pc' \in [Threads -> Labels]
         /\ arg' \in [Threads -> RoomNames \cup {NoName}]
         /\ obj' \in [Threads -> RoomIds \cup {NoRoom}]
         /\ flag' \in [Threads -> BOOLEAN]
<1>1. CASE rooms[n] # NoRoom
  BY <1>1 DEF TypeOK, Lookup, Goto, Labels
<1>2. CASE rooms[n] = NoRoom
  BY <1>2, ReturnTypes DEF Lookup
<1> QED BY <1>1, <1>2

(* The collector manager's callbacks keep its variables typed. *)
LEMMA CollectorTypes ==
  ASSUME TypeOK, NEW n \in RoomNames,
         OnFirstClientJoined(n) \/ OnLastClientLeft(n)
  PROVE  /\ activeRooms' \in SUBSET RoomNames
         /\ isRunning' \in [CollectorRooms -> BOOLEAN]
         /\ gen' \in [CollectorRooms -> Nat]
         /\ loops' \in SUBSET (CollectorRooms \X Nat)
         /\ cancelled' \in SUBSET (CollectorRooms \X Nat)
<1>1. CASE OnFirstClientJoined(n) /\ n \in CollectorRooms /\ ~isRunning[n]
  <2>1. gen[n] + 1 \in Nat
    BY <1>1 DEF TypeOK
  <2>2. gen' \in [CollectorRooms -> Nat]
    BY <1>1, <2>1 DEF OnFirstClientJoined, Start, TypeOK
  <2>3. loops' \in SUBSET (CollectorRooms \X Nat)
    BY <1>1, <2>1 DEF OnFirstClientJoined, Start, TypeOK
  <2>4. isRunning' \in [CollectorRooms -> BOOLEAN]
    BY <1>1, Zenon DEF OnFirstClientJoined, Start, TypeOK
  <2> QED BY <1>1, <2>2, <2>3, <2>4 DEF OnFirstClientJoined, Start, TypeOK
<1>2. CASE OnFirstClientJoined(n) /\ ~(n \in CollectorRooms /\ ~isRunning[n])
  BY <1>2 DEF OnFirstClientJoined, Start, TypeOK
<1>3. CASE OnLastClientLeft(n) /\ n \in CollectorRooms /\ isRunning[n]
  <2>1. cancelled' \in SUBSET (CollectorRooms \X Nat)
    BY <1>3 DEF OnLastClientLeft, Stop, TypeOK
  <2>2. isRunning' \in [CollectorRooms -> BOOLEAN]
    BY <1>3, Zenon DEF OnLastClientLeft, Stop, TypeOK
  <2> QED BY <1>3, <2>1, <2>2 DEF OnLastClientLeft, Stop, TypeOK
<1>4. CASE OnLastClientLeft(n) /\ ~(n \in CollectorRooms /\ isRunning[n])
  BY <1>4 DEF OnLastClientLeft, Stop, TypeOK
<1> QED BY <1>1, <1>2, <1>3, <1>4

LEMMA NextInv == Inv /\ [Next]_vars => Inv'
<1> SUFFICES ASSUME Inv, [Next]_vars PROVE Inv'
  OBVIOUS
<1> USE ConstantsAssumption, MonitorNotClient
    DEF Inv, Labels, Adding, Removing, Goto, roomVars, collVars, connVars, monVars
<1>1. ASSUME NEW c \in Clients, Connect(c) PROVE Inv'
  BY <1>1 DEF Connect, TypeOK, PcOK
<1>2. ASSUME NEW c \in Clients, Disconnect(c) PROVE Inv'
  BY <1>2 DEF Disconnect, TypeOK, PcOK
<1>3. ASSUME NEW c \in Clients, NEW n \in RoomNames, JoinRoom(c, n) PROVE Inv'
  BY <1>3 DEF JoinRoom, Receive, TypeOK, PcOK
<1>4. ASSUME NEW c \in Clients, NEW n \in RoomNames, LeaveRoom(c, n) PROVE Inv'
  <2>1. TypeOK'
    BY <1>4, LookupTypes DEF LeaveRoom, Receive, TypeOK
  <2>2. PcOK'
    BY <1>4, <2>1 DEF LeaveRoom, Receive, Lookup, Return, Sweeping, TypeOK, PcOK
  <2> QED BY <2>1, <2>2
<1>5. ASSUME NEW t \in Threads, AddCount(t) PROVE Inv'
  BY <1>5 DEF AddCount, Continue, TypeOK, PcOK
<1>6. ASSUME NEW t \in Threads, AddMember(t) PROVE Inv'
  BY <1>6 DEF AddMember, Continue, Subject, Threads, TypeOK, PcOK
<1>7. ASSUME NEW t \in Threads, AddState(t) PROVE Inv'
  <2>1. TypeOK'
    <3>1. /\ pc' \in [Threads -> Labels]
          /\ arg' \in [Threads -> RoomNames \cup {NoName}]
          /\ obj' \in [Threads -> RoomIds \cup {NoRoom}]
          /\ flag' \in [Threads -> BOOLEAN]
      BY <1>7, ReturnTypes DEF AddState, Continue, TypeOK
    <3>2. clientRooms' \in [Clients -> SUBSET RoomNames]
      BY <1>7 DEF AddState, Subject, Threads, TypeOK, PcOK
    <3> QED BY <3>1, <3>2, <1>7 DEF AddState, TypeOK
  <2>2. PcOK'
    BY <1>7, <2>1 DEF AddState, Continue, Return, Sweeping, Subject, Threads, TypeOK, PcOK
  <2> QED BY <2>1, <2>2
<1>8. ASSUME NEW t \in Threads, NotifyFirst(t) PROVE Inv'
  <2>1. TypeOK'
    <3>1. arg[t] \in RoomNames
      BY <1>8 DEF NotifyFirst, TypeOK, PcOK
    <3> QED BY <3>1, <1>8, CollectorTypes, ReturnTypes DEF NotifyFirst, TypeOK
  <2>2. PcOK'
    BY <1>8, <2>1 DEF NotifyFirst, OnFirstClientJoined, Return, Sweeping, Threads, TypeOK, PcOK
  <2> QED BY <2>1, <2>2
<1>9. ASSUME NEW t \in Threads, RemCount(t) PROVE Inv'
  BY <1>9 DEF RemCount, Continue, TypeOK, PcOK
<1>10. ASSUME NEW t \in Threads, RemHas(t) PROVE Inv'
  BY <1>10 DEF RemHas, Continue, TypeOK, PcOK
<1>11. ASSUME NEW t \in Threads, RemMember(t) PROVE Inv'
  BY <1>11 DEF RemMember, Continue, Subject, Threads, TypeOK, PcOK
<1>12. ASSUME NEW t \in Threads, RemState(t) PROVE Inv'
  BY <1>12 DEF RemState, Continue, Subject, Threads, TypeOK, PcOK
<1>13. ASSUME NEW t \in Threads, RemCheck(t) PROVE Inv'
  <2>1. TypeOK'
    BY <1>13 DEF RemCheck, Continue, Return, Sweeping, Threads, TypeOK
  <2>2. PcOK'
    BY <1>13, <2>1 DEF RemCheck, Continue, Return, Sweeping, Threads, TypeOK, PcOK
  <2> QED BY <2>1, <2>2
<1>14. ASSUME NEW t \in Threads, RemDelete(t) PROVE Inv'
  <2>1. TypeOK'
    BY <1>14 DEF RemDelete, Continue, Return, Sweeping, Threads, TypeOK
  <2>2. PcOK'
    BY <1>14, <2>1 DEF RemDelete, Continue, Return, Sweeping, Threads, TypeOK, PcOK
  <2> QED BY <2>1, <2>2
<1>15. ASSUME NEW t \in Threads, NotifyLast(t) PROVE Inv'
  <2>1. TypeOK'
    <3>1. arg[t] \in RoomNames
      BY <1>15 DEF NotifyLast, TypeOK, PcOK
    <3> QED BY <3>1, <1>15, CollectorTypes, ReturnTypes DEF NotifyLast, TypeOK
  <2>2. PcOK'
    BY <1>15, <2>1 DEF NotifyLast, OnLastClientLeft, Return, Sweeping, Threads, TypeOK, PcOK
  <2> QED BY <2>1, <2>2
<1>16. ASSUME NEW t \in Threads, Snapshot(t) PROVE Inv'
  BY <1>16 DEF Snapshot, Threads, TypeOK, PcOK
<1>17. ASSUME NEW t \in Threads, NEW n \in RoomNames, SweepNext(t, n) PROVE Inv'
  <2>1. TypeOK'
    BY <1>17, LookupTypes DEF SweepNext, TypeOK
  <2>2. PcOK'
    BY <1>17, <2>1 DEF SweepNext, Lookup, Return, Sweeping, Threads, TypeOK, PcOK
  <2> QED BY <2>1, <2>2
<1>18. ASSUME NEW t \in Threads, SweepEnd(t) PROVE Inv'
  BY <1>18 DEF SweepEnd, Threads, TypeOK, PcOK
<1>19. ASSUME CheckInactive PROVE Inv'
  BY <1>19 DEF CheckInactive, TypeOK, PcOK
<1>20. ASSUME NEW c \in Clients, Evict(c) PROVE Inv'
  BY <1>20 DEF Evict, TypeOK, PcOK
<1>21. ASSUME NEW l \in loops, LoopReturn(l) PROVE Inv'
  BY <1>21 DEF LoopReturn, TypeOK, PcOK
<1>22. CASE UNCHANGED vars
  BY <1>22 DEF TypeOK, PcOK, vars
<1> QED
  BY <1>1, <1>2, <1>3, <1>4, <1>5, <1>6, <1>7, <1>8, <1>9, <1>10, <1>11, <1>12,
     <1>13, <1>14, <1>15, <1>16, <1>17, <1>18, <1>19, <1>20, <1>21, <1>22
  DEF Next, Operation

(* Every variable keeps its type, and every program counter agrees with the  *)
(* connection and the locals of its thread.                                  *)
THEOREM TypeCorrect == Spec => []TypeOK
<1>1. Init => Inv
  BY InitInv
<1>2. Inv /\ [Next]_vars => Inv'
  BY NextInv
<1>3. Inv => TypeOK
  BY DEF Inv
<1> QED BY <1>1, <1>2, <1>3, PTL DEF Spec

-----------------------------------------------------------------------------
(* The loops a collector has, loop by loop. *)
LoopInv ==
  /\ \A n \in CollectorRooms : isRunning[n] => <<n, gen[n]>> \in loops \ cancelled
  /\ \A n \in CollectorRooms, k \in Nat :
       /\ <<n, k>> \in loops => k <= gen[n]
       /\ <<n, k>> \in loops \ cancelled => isRunning[n] /\ k = gen[n]
  /\ cancelled \subseteq loops

LEMMA LoopInvImpliesOneLiveLoop == TypeOK /\ LoopInv => OneLiveLoop
<1> SUFFICES ASSUME TypeOK, LoopInv, NEW n \in CollectorRooms
             PROVE  LiveLoops(n) = IF isRunning[n] THEN {<<n, gen[n]>>} ELSE {}
  BY DEF OneLiveLoop
<1>1. ASSUME NEW l \in LiveLoops(n)
      PROVE  isRunning[n] /\ l = <<n, gen[n]>>
  <2>1. l \in CollectorRooms \X Nat /\ l[1] = n /\ l \in loops \ cancelled
    BY <1>1 DEF LiveLoops, TypeOK
  <2>2. PICK k \in Nat : l = <<n, k>>
    BY <2>1
  <2> QED BY <2>1, <2>2 DEF LoopInv
<1>2. isRunning[n] => <<n, gen[n]>> \in LiveLoops(n)
  BY DEF LoopInv, LiveLoops
<1> QED BY <1>1, <1>2

(* Only the two callbacks and the return of a loop touch the collectors. *)
LEMMA CollectorSteps ==
  ASSUME [Next]_vars
  PROVE  \/ UNCHANGED collVars
         \/ \E t \in Threads : NotifyFirst(t) \/ NotifyLast(t)
         \/ \E l \in loops : LoopReturn(l)
BY DEF Next, Operation, vars, Connect, Disconnect, JoinRoom, LeaveRoom, AddCount,
       AddMember, AddState, RemCount, RemHas, RemMember, RemState, RemCheck,
       RemDelete, Snapshot, SweepNext, SweepEnd, CheckInactive, Evict

LEMMA LoopInvNext == Inv /\ LoopInv /\ [Next]_vars => LoopInv'
<1> SUFFICES ASSUME Inv, LoopInv, [Next]_vars PROVE LoopInv'
  OBVIOUS
<1>0. TypeOK /\ PcOK
  BY DEF Inv
<1>1. CASE UNCHANGED collVars
  BY <1>1 DEF LoopInv, collVars
<1>2. ASSUME NEW t \in Threads, NotifyFirst(t) PROVE LoopInv'
  <2>1. PICK n \in RoomNames : OnFirstClientJoined(n)
    BY <1>0, <1>2 DEF NotifyFirst, PcOK, Adding
  <2>2. CASE n \in CollectorRooms /\ ~isRunning[n]
    <3>1. /\ isRunning' = [isRunning EXCEPT ![n] = TRUE]
          /\ gen' = [gen EXCEPT ![n] = @ + 1]
          /\ loops' = loops \cup {<<n, gen[n] + 1>>}
          /\ cancelled' = cancelled
      BY <2>1, <2>2 DEF OnFirstClientJoined, Start
    <3>2. /\ gen[n] \in Nat /\ gen'[n] = gen[n] + 1 /\ isRunning'[n]
          /\ \A m \in CollectorRooms \ {n} : gen'[m] = gen[m] /\ isRunning'[m] = isRunning[m]
      BY <1>0, <2>2, <3>1 DEF TypeOK
    <3>3. <<n, gen[n] + 1>> \notin loops
      BY <3>2, <2>2 DEF LoopInv
    <3>4. ASSUME NEW m \in CollectorRooms, isRunning'[m]
          PROVE  <<m, gen'[m]>> \in loops' \ cancelled'
      BY <3>1, <3>2, <3>3, <3>4 DEF LoopInv
    <3>5. ASSUME NEW m \in CollectorRooms, NEW k \in Nat, <<m, k>> \in loops'
          PROVE  /\ k <= gen'[m]
                 /\ <<m, k>> \notin cancelled' => isRunning'[m] /\ k = gen'[m]
      <4>1. CASE <<m, k>> = <<n, gen[n] + 1>>
        BY <4>1, <3>2
      <4>2. CASE <<m, k>> \in loops
        <5>1. gen[m] \in Nat
          BY <1>0 DEF TypeOK
        <5> QED BY <4>2, <5>1, <2>2, <3>1, <3>2 DEF LoopInv
      <4> QED BY <3>1, <3>5, <4>1, <4>2
    <3> QED BY <3>1, <3>4, <3>5 DEF LoopInv
  <2>3. CASE ~(n \in CollectorRooms /\ ~isRunning[n])
    BY <2>1, <2>3 DEF OnFirstClientJoined, Start, LoopInv
  <2> QED BY <2>2, <2>3
<1>3. ASSUME NEW t \in Threads, NotifyLast(t) PROVE LoopInv'
  <2>1. PICK n \in RoomNames : OnLastClientLeft(n)
    BY <1>0, <1>3 DEF NotifyLast, PcOK, Removing
  <2>2. CASE n \in CollectorRooms /\ isRunning[n]
    <3>1. /\ isRunning' = [isRunning EXCEPT ![n] = FALSE]
          /\ cancelled' = cancelled \cup {<<n, gen[n]>>}
          /\ gen' = gen /\ loops' = loops
      BY <2>1, <2>2 DEF OnLastClientLeft, Stop
    <3>2. /\ ~isRunning'[n]
          /\ \A m \in CollectorRooms \ {n} : isRunning'[m] = isRunning[m]
      BY <1>0, <2>2, <3>1 DEF TypeOK
    <3> QED BY <2>2, <3>1, <3>2 DEF LoopInv
  <2>3. CASE ~(n \in CollectorRooms /\ isRunning[n])
    BY <2>1, <2>3 DEF OnLastClientLeft, Stop, LoopInv
  <2> QED BY <2>2, <2>3
<1>4. ASSUME NEW l \in loops, LoopReturn(l) PROVE LoopInv'
  BY <1>4 DEF LoopReturn, LoopInv
<1> QED BY <1>1, <1>2, <1>3, <1>4, CollectorSteps

(* A collector never has two goroutines on a live context, and isRunning is  *)
(* true exactly while it has one, however starts, stops and exits overlap.   *)
THEOREM CollectorsHaveOneLoop == Spec => []OneLiveLoop
<1>1. Init => Inv /\ LoopInv
  BY InitInv DEF Init, LoopInv
<1>2. Inv /\ LoopInv /\ [Next]_vars => Inv' /\ LoopInv'
  BY NextInv, LoopInvNext
<1>3. Inv /\ LoopInv => OneLiveLoop
  BY LoopInvImpliesOneLiveLoop DEF Inv
<1> QED BY <1>1, <1>2, <1>3, PTL DEF Spec

-----------------------------------------------------------------------------
(* While its read pump sweeps, a client is only in rooms the sweep has still *)
(* to visit or is about to leave.                                            *)
SweepInv ==
  \A c \in Clients : conn[c] = "ended" /\ pc[c] # "snapshot" =>
    \A n \in RoomNames : rooms[n] # NoRoom /\ c \in members[rooms[n]] =>
      \/ n \in todo[c]
      \/ pc[c] \in {"remCount", "remHas", "remMember"} /\ obj[c] = rooms[n]

LEMMA SweepInvNext == Inv /\ SweepInv /\ [Next]_vars => SweepInv'
<1> SUFFICES ASSUME Inv, SweepInv, [Next]_vars PROVE SweepInv'
  OBVIOUS
<1> USE ConstantsAssumption, MonitorNotClient
    DEF Inv, TypeOK, PcOK, Labels, Adding, Removing, Goto, roomVars, connVars, monVars, SweepInv, Threads
<1>1. ASSUME NEW c \in Clients, Connect(c) PROVE SweepInv'
  BY <1>1 DEF Connect
<1>2. ASSUME NEW c \in Clients, Disconnect(c) PROVE SweepInv'
  BY <1>2 DEF Disconnect
<1>3. ASSUME NEW c \in Clients, NEW n \in RoomNames, JoinRoom(c, n) PROVE SweepInv'
  BY <1>3 DEF JoinRoom, Receive, Unreferenced
<1>4. ASSUME NEW c \in Clients, NEW n \in RoomNames, LeaveRoom(c, n) PROVE SweepInv'
  BY <1>4 DEF LeaveRoom, Receive, Lookup, Return
<1>5. ASSUME NEW t \in Threads, AddCount(t) PROVE SweepInv'
  BY <1>5 DEF AddCount, Continue
<1>6. ASSUME NEW t \in Threads, AddMember(t) PROVE SweepInv'
  BY <1>6 DEF AddMember, Continue, Subject
<1>7. ASSUME NEW t \in Threads, AddState(t) PROVE SweepInv'
  BY <1>7 DEF AddState, Continue, Return, Subject
<1>8. ASSUME NEW t \in Threads, NotifyFirst(t) PROVE SweepInv'
  BY <1>8 DEF NotifyFirst, Return
<1>9. ASSUME NEW t \in Threads, RemCount(t) PROVE SweepInv'
  BY <1>9 DEF RemCount, Continue
<1>10. ASSUME NEW t \in Threads, RemHas(t) PROVE SweepInv'
  BY <1>10 DEF RemHas, Continue
<1>11. ASSUME NEW t \in Threads, RemMember(t) PROVE SweepInv'
  BY <1>11 DEF RemMember, Continue, Subject
<1>12. ASSUME NEW t \in Threads, RemState(t) PROVE SweepInv'
  BY <1>12 DEF RemState, Continue, Subject
<1>13. ASSUME NEW t \in Threads, RemCheck(t) PROVE SweepInv'
  BY <1>13 DEF RemCheck, Continue, Return
<1>14. ASSUME NEW t \in Threads, RemDelete(t) PROVE SweepInv'
  BY <1>14 DEF RemDelete, Continue, Return
<1>15. ASSUME NEW t \in Threads, NotifyLast(t) PROVE SweepInv'
  BY <1>15 DEF NotifyLast, Return
<1>16. ASSUME NEW t \in Threads, Snapshot(t) PROVE SweepInv'
  BY <1>16 DEF Snapshot, Subject
<1>17. ASSUME NEW t \in Threads, NEW n \in RoomNames, SweepNext(t, n) PROVE SweepInv'
  BY <1>17 DEF SweepNext, Lookup, Return
<1>18. ASSUME NEW t \in Threads, SweepEnd(t) PROVE SweepInv'
  BY <1>18 DEF SweepEnd
<1>19. ASSUME CheckInactive PROVE SweepInv'
  BY <1>19 DEF CheckInactive
<1>20. ASSUME NEW c \in Clients, Evict(c) PROVE SweepInv'
  BY <1>20 DEF Evict
<1>21. ASSUME NEW l \in loops, LoopReturn(l) PROVE SweepInv'
  BY <1>21 DEF LoopReturn
<1>22. CASE UNCHANGED vars
  BY <1>22 DEF vars
<1> QED
  BY <1>1, <1>2, <1>3, <1>4, <1>5, <1>6, <1>7, <1>8, <1>9, <1>10, <1>11, <1>12,
     <1>13, <1>14, <1>15, <1>16, <1>17, <1>18, <1>19, <1>20, <1>21, <1>22
  DEF Next, Operation

(* A client whose read pump has finished is in no room of the map, whatever  *)
(* evictions, joins and leaves of others overlap its cleanup.                *)
THEOREM FinishedClientsAreGone == Spec => []FinishedClientGone
<1>1. Init => Inv /\ SweepInv
  BY InitInv DEF Init, SweepInv
<1>2. Inv /\ SweepInv /\ [Next]_vars => Inv' /\ SweepInv'
  BY NextInv, SweepInvNext
<1>3. Inv /\ SweepInv => FinishedClientGone
  BY DEF Inv, PcOK, SweepInv, FinishedClientGone
<1> QED BY <1>1, <1>2, <1>3, PTL DEF Spec

-----------------------------------------------------------------------------
(* A room in the map has one name, and a thread that holds it works under    *)
(* that name.                                                                *)
NameInv ==
  /\ \A m, n \in RoomNames : rooms[m] = rooms[n] /\ rooms[m] # NoRoom => m = n
  /\ \A t \in Threads, n \in RoomNames :
       pc[t] \in Adding \cup Removing /\ obj[t] = rooms[n] => arg[t] = n

LEMMA NameInvNext == Inv /\ NameInv /\ [Next]_vars => NameInv'
<1> SUFFICES ASSUME Inv, NameInv, [Next]_vars PROVE NameInv'
  OBVIOUS
<1> USE ConstantsAssumption, MonitorNotClient
    DEF Inv, TypeOK, PcOK, Labels, Adding, Removing, Goto, roomVars, connVars, monVars, NameInv, Threads
<1>1. ASSUME NEW c \in Clients, Connect(c) PROVE NameInv'
  BY <1>1 DEF Connect
<1>2. ASSUME NEW c \in Clients, Disconnect(c) PROVE NameInv'
  BY <1>2 DEF Disconnect
<1>3. ASSUME NEW c \in Clients, NEW n \in RoomNames, JoinRoom(c, n) PROVE NameInv'
  BY <1>3 DEF JoinRoom, Receive, Unreferenced
<1>4. ASSUME NEW c \in Clients, NEW n \in RoomNames, LeaveRoom(c, n) PROVE NameInv'
  <2>1. CASE rooms[n] # NoRoom
    BY <1>4, <2>1 DEF LeaveRoom, Receive, Lookup
  <2>2. CASE rooms[n] = NoRoom
    <3>1. pc'[c] \notin Adding \cup Removing
      BY <1>4, <2>2 DEF LeaveRoom, Lookup, Return
    <3> QED BY <1>4, <2>2, <3>1 DEF LeaveRoom, Receive, Lookup, Return
  <2> QED BY <2>1, <2>2
<1>5. ASSUME NEW t \in Threads, AddCount(t) PROVE NameInv'
  BY <1>5 DEF AddCount, Continue
<1>6. ASSUME NEW t \in Threads, AddMember(t) PROVE NameInv'
  BY <1>6 DEF AddMember, Continue, Subject
<1>7. ASSUME NEW t \in Threads, AddState(t) PROVE NameInv'
  BY <1>7 DEF AddState, Continue, Return, Subject
<1>8. ASSUME NEW t \in Threads, NotifyFirst(t) PROVE NameInv'
  BY <1>8 DEF NotifyFirst, Return
<1>9. ASSUME NEW t \in Threads, RemCount(t) PROVE NameInv'
  BY <1>9 DEF RemCount, Continue
<1>10. ASSUME NEW t \in Threads, RemHas(t) PROVE NameInv'
  BY <1>10 DEF RemHas, Continue
<1>11. ASSUME NEW t \in Threads, RemMember(t) PROVE NameInv'
  BY <1>11 DEF RemMember, Continue, Subject
<1>12. ASSUME NEW t \in Threads, RemState(t) PROVE NameInv'
  BY <1>12 DEF RemState, Continue, Subject
<1>13. ASSUME NEW t \in Threads, RemCheck(t) PROVE NameInv'
  BY <1>13 DEF RemCheck, Continue, Return
<1>14. ASSUME NEW t \in Threads, RemDelete(t) PROVE NameInv'
  BY <1>14 DEF RemDelete, Continue, Return
<1>15. ASSUME NEW t \in Threads, NotifyLast(t) PROVE NameInv'
  BY <1>15 DEF NotifyLast, Return
<1>16. ASSUME NEW t \in Threads, Snapshot(t) PROVE NameInv'
  BY <1>16 DEF Snapshot, Subject
<1>17. ASSUME NEW t \in Threads, NEW n \in RoomNames, SweepNext(t, n) PROVE NameInv'
  BY <1>17 DEF SweepNext, Lookup, Return
<1>18. ASSUME NEW t \in Threads, SweepEnd(t) PROVE NameInv'
  BY <1>18 DEF SweepEnd
<1>19. ASSUME CheckInactive PROVE NameInv'
  BY <1>19 DEF CheckInactive
<1>20. ASSUME NEW c \in Clients, Evict(c) PROVE NameInv'
  BY <1>20 DEF Evict
<1>21. ASSUME NEW l \in loops, LoopReturn(l) PROVE NameInv'
  BY <1>21 DEF LoopReturn
<1>22. CASE UNCHANGED vars
  BY <1>22 DEF vars
<1> QED
  BY <1>1, <1>2, <1>3, <1>4, <1>5, <1>6, <1>7, <1>8, <1>9, <1>10, <1>11, <1>12,
     <1>13, <1>14, <1>15, <1>16, <1>17, <1>18, <1>19, <1>20, <1>21, <1>22
  DEF Next, Operation

(* An empty room of the map is held by a thread that will fill or delete it. *)
Holds(t, o) ==
  /\ pc[t] \in {"addCount", "addMember", "remState", "remCheck", "remDelete"}
  /\ obj[t] = o

EmptyInv ==
  \A n \in RoomNames : rooms[n] # NoRoom /\ members[rooms[n]] = {} =>
    \E t \in Threads : Holds(t, rooms[n])

LEMMA EmptyInvNext == Inv /\ NameInv /\ EmptyInv /\ [Next]_vars => EmptyInv'
<1> SUFFICES ASSUME Inv, NameInv, EmptyInv, [Next]_vars PROVE EmptyInv'
  OBVIOUS
<1> USE ConstantsAssumption, MonitorNotClient
    DEF Inv, TypeOK, PcOK, Labels, Adding, Removing, Goto, roomVars, connVars, monVars, NameInv, EmptyInv, Holds, Threads
<1>1. ASSUME NEW c \in Clients, Connect(c) PROVE EmptyInv'
  BY <1>1 DEF Connect
<1>2. ASSUME NEW c \in Clients, Disconnect(c) PROVE EmptyInv'
  BY <1>2 DEF Disconnect
<1>3. ASSUME NEW c \in Clients, NEW n \in RoomNames, JoinRoom(c, n) PROVE EmptyInv'
  <2> SUFFICES ASSUME NEW m \in RoomNames, rooms'[m] # NoRoom, members'[rooms'[m]] = {}
               PROVE  \E u \in Threads : Holds(u, rooms[m])'
    BY DEF EmptyInv
  <2>1. CASE rooms'[m] = obj'[c]
    <3>1. Holds(c, rooms[m])'
      BY <1>3, <2>1 DEF JoinRoom
    <3> QED BY <3>1
  <2>2. CASE rooms'[m] # obj'[c]
    <3>1. rooms'[m] = rooms[m] /\ members'[rooms[m]] = members[rooms[m]]
      BY <1>3, <2>2 DEF JoinRoom
    <3>2. PICK u \in Threads : Holds(u, rooms[m])
      BY <3>1
    <3>3. u # c
      BY <1>3, <3>2 DEF JoinRoom, Receive
    <3>4. Holds(u, rooms[m])'
      BY <1>3, <3>1, <3>2, <3>3 DEF JoinRoom
    <3> QED BY <3>4
  <2> QED BY <2>1, <2>2
<1>4. ASSUME NEW c \in Clients, NEW n \in RoomNames, LeaveRoom(c, n) PROVE EmptyInv'
  <2> SUFFICES ASSUME NEW m \in RoomNames, rooms'[m] # NoRoom, members'[rooms'[m]] = {}
               PROVE  \E u \in Threads : Holds(u, rooms[m])'
    BY DEF EmptyInv
  <2>1. PICK u \in Threads : Holds(u, rooms[m])
    BY <1>4 DEF LeaveRoom
  <2>2. u # c
    BY <1>4, <2>1 DEF LeaveRoom, Receive
  <2>3. pc'[u] = pc[u] /\ obj'[u] = obj[u]
    BY <1>4, <2>2 DEF LeaveRoom, Lookup, Return
  <2>4. Holds(u, rooms[m])'
    BY <1>4, <2>1, <2>3 DEF LeaveRoom
  <2> QED BY <2>4
<1>5. ASSUME NEW t \in Threads, AddCount(t) PROVE EmptyInv'
  BY <1>5 DEF AddCount, Continue
<1>6. ASSUME NEW t \in Threads, AddMember(t) PROVE EmptyInv'
  <2> SUFFICES ASSUME NEW m \in RoomNames, rooms'[m] # NoRoom, members'[rooms'[m]] = {}
               PROVE  \E u \in Threads : Holds(u, rooms[m])'
    BY DEF EmptyInv
  <2>1. rooms'[m] # obj[t]
    BY <1>6 DEF AddMember
  <2>2. PICK u \in Threads : Holds(u, rooms[m])
    BY <1>6, <2>1 DEF AddMember
  <2>3. u # t
    BY <1>6, <2>1, <2>2 DEF AddMember
  <2>4. Holds(u, rooms[m])'
    BY <1>6, <2>2, <2>3 DEF AddMember, Continue
  <2> QED BY <2>4
<1>7. ASSUME NEW t \in Threads, AddState(t) PROVE EmptyInv'
  <2> SUFFICES ASSUME NEW m \in RoomNames, rooms'[m] # NoRoom, members'[rooms'[m]] = {}
               PROVE  \E u \in Threads : Holds(u, rooms[m])'
    BY DEF EmptyInv
  <2>1. PICK u \in Threads : Holds(u, rooms[m])
    BY <1>7 DEF AddState
  <2>2. u # t
    BY <1>7, <2>1 DEF AddState
  <2>3. pc'[u] = pc[u] /\ obj'[u] = obj[u]
    BY <1>7, <2>2 DEF AddState, Continue, Return
  <2>4. Holds(u, rooms[m])'
    BY <1>7, <2>1, <2>3 DEF AddState
  <2> QED BY <2>4
<1>8. ASSUME NEW t \in Threads, NotifyFirst(t) PROVE EmptyInv'
  BY <1>8 DEF NotifyFirst, Return
<1>9. ASSUME NEW t \in Threads, RemCount(t) PROVE EmptyInv'
  BY <1>9 DEF RemCount, Continue
<1>10. ASSUME NEW t \in Threads, RemHas(t) PROVE EmptyInv'
  BY <1>10 DEF RemHas, Continue
<1>11. ASSUME NEW t \in Threads, RemMember(t) PROVE EmptyInv'
  BY <1>11 DEF RemMember, Continue, Subject
<1>12. ASSUME NEW t \in Threads, RemState(t) PROVE EmptyInv'
  BY <1>12 DEF RemState, Continue, Subject
<1>13. ASSUME NEW t \in Threads, RemCheck(t) PROVE EmptyInv'
  <2> SUFFICES ASSUME NEW m \in RoomNames, rooms'[m] # NoRoom, members'[rooms'[m]] = {}
               PROVE  \E u \in Threads : Holds(u, rooms[m])'
    BY DEF EmptyInv
  <2>1. PICK u \in Threads : Holds(u, rooms[m])
    BY <1>13 DEF RemCheck
  <2>2. CASE u = t
    <3>1. Holds(t, rooms[m])'
      BY <1>13, <2>1, <2>2 DEF RemCheck, Continue
    <3> QED BY <3>1
  <2>3. CASE u # t
    <3>1. pc'[u] = pc[u] /\ obj'[u] = obj[u]
      BY <1>13, <2>3 DEF RemCheck, Continue, Return
    <3>2. Holds(u, rooms[m])'
      BY <1>13, <2>1, <3>1 DEF RemCheck
    <3> QED BY <3>2
  <2> QED BY <2>2, <2>3
<1>14. ASSUME NEW t \in Threads, RemDelete(t) PROVE EmptyInv'
  <2> SUFFICES ASSUME NEW m \in RoomNames, rooms'[m] # NoRoom, members'[rooms'[m]] = {}
               PROVE  \E u \in Threads : Holds(u, rooms[m])'
    BY DEF EmptyInv
  <2>0. rooms'[m] = rooms[m] /\ m # arg[t]
    BY <1>14 DEF RemDelete
  <2>1. PICK u \in Threads : Holds(u, rooms[m])
    BY <1>14 DEF RemDelete
  <2>2. u # t
    BY <1>14, <2>0, <2>1 DEF RemDelete
  <2>3. pc'[u] = pc[u] /\ obj'[u] = obj[u]
    BY <1>14, <2>2 DEF RemDelete, Continue, Return
  <2>4. Holds(u, rooms[m])'
    BY <1>14, <2>1, <2>3 DEF RemDelete
  <2> QED BY <2>4
<1>15. ASSUME NEW t \in Threads, NotifyLast(t) PROVE EmptyInv'
  BY <1>15 DEF NotifyLast, Return
<1>16. ASSUME NEW t \in Threads, Snapshot(t) PROVE EmptyInv'
  BY <1>16 DEF Snapshot, Subject
<1>17. ASSUME NEW t \in Threads, NEW n \in RoomNames, SweepNext(t, n) PROVE EmptyInv'
  <2> SUFFICES ASSUME NEW m \in RoomNames, rooms'[m] # NoRoom, members'[rooms'[m]] = {}
               PROVE  \E u \in Threads : Holds(u, rooms[m])'
    BY DEF EmptyInv
  <2>1. PICK u \in Threads : Holds(u, rooms[m])
    BY <1>17 DEF SweepNext
  <2>2. u # t
    BY <1>17, <2>1 DEF SweepNext
  <2>3. pc'[u] = pc[u] /\ obj'[u] = obj[u]
    BY <1>17, <2>2 DEF SweepNext, Lookup, Return
  <2>4. Holds(u, rooms[m])'
    BY <1>17, <2>1, <2>3 DEF SweepNext
  <2> QED BY <2>4
<1>18. ASSUME NEW t \in Threads, SweepEnd(t) PROVE EmptyInv'
  BY <1>18 DEF SweepEnd
<1>19. ASSUME CheckInactive PROVE EmptyInv'
  BY <1>19 DEF CheckInactive
<1>20. ASSUME NEW c \in Clients, Evict(c) PROVE EmptyInv'
  BY <1>20 DEF Evict
<1>21. ASSUME NEW l \in loops, LoopReturn(l) PROVE EmptyInv'
  BY <1>21 DEF LoopReturn
<1>22. CASE UNCHANGED vars
  BY <1>22 DEF vars
<1> QED
  BY <1>1, <1>2, <1>3, <1>4, <1>5, <1>6, <1>7, <1>8, <1>9, <1>10, <1>11, <1>12,
     <1>13, <1>14, <1>15, <1>16, <1>17, <1>18, <1>19, <1>20, <1>21, <1>22
  DEF Next, Operation

(* Once every operation has returned, no empty room is left in the map.      *)
THEOREM EmptyRoomsAreDeleted == Spec => []NoEmptyRoomKept
<1>1. Init => Inv /\ NameInv /\ EmptyInv
  BY InitInv, ConstantsAssumption DEF Init, NameInv, EmptyInv, Adding, Removing
<1>2. Inv /\ NameInv /\ EmptyInv /\ [Next]_vars => Inv' /\ NameInv' /\ EmptyInv'
  BY NextInv, NameInvNext, EmptyInvNext
<1>3. Inv /\ NameInv /\ EmptyInv => NoEmptyRoomKept
  BY DEF Inv, TypeOK, EmptyInv, Holds, NoEmptyRoomKept, AtRest
<1> QED BY <1>1, <1>2, <1>3, PTL DEF Spec

-----------------------------------------------------------------------------
(* The clients the monitor is about to evict, or is evicting, were registered*)
(* once; the one it sweeps is not any more, and never will be again.         *)
EvictInv ==
  /\ \A c \in registered \cup victims : conn[c] # "none"
  /\ victim \in Clients => conn[victim] # "none" /\ victim \notin registered
  /\ \A c \in registered : conn[c] # "ended"
  /\ \A c \in Clients : conn[c] = "none" => \A o \in RoomIds : c \notin members[o]

LEMMA EvictInvNext == Inv /\ EvictInv /\ [Next]_vars => EvictInv'
<1> SUFFICES ASSUME Inv, EvictInv, [Next]_vars PROVE EvictInv'
  OBVIOUS
<1> USE ConstantsAssumption, MonitorNotClient
    DEF Inv, TypeOK, PcOK, Labels, Adding, Removing, Goto, roomVars, connVars, monVars, EvictInv, Threads
<1>1. ASSUME NEW c \in Clients, Connect(c) PROVE EvictInv'
  BY <1>1 DEF Connect
<1>2. ASSUME NEW c \in Clients, Disconnect(c) PROVE EvictInv'
  BY <1>2 DEF Disconnect
<1>3. ASSUME NEW c \in Clients, NEW n \in RoomNames, JoinRoom(c, n) PROVE EvictInv'
  BY <1>3 DEF JoinRoom, Receive, Unreferenced
<1>4. ASSUME NEW c \in Clients, NEW n \in RoomNames, LeaveRoom(c, n) PROVE EvictInv'
  BY <1>4 DEF LeaveRoom, Receive, Lookup, Return
<1>5. ASSUME NEW t \in Threads, AddCount(t) PROVE EvictInv'
  BY <1>5 DEF AddCount, Continue
<1>6. ASSUME NEW t \in Threads, AddMember(t) PROVE EvictInv'
  BY <1>6 DEF AddMember, Continue, Subject
<1>7. ASSUME NEW t \in Threads, AddState(t) PROVE EvictInv'
  BY <1>7 DEF AddState, Continue, Return, Subject
<1>8. ASSUME NEW t \in Threads, NotifyFirst(t) PROVE EvictInv'
  BY <1>8 DEF NotifyFirst, Return
<1>9. ASSUME NEW t \in Threads, RemCount(t) PROVE EvictInv'
  BY <1>9 DEF RemCount, Continue
<1>10. ASSUME NEW t \in Threads, RemHas(t) PROVE EvictInv'
  BY <1>10 DEF RemHas, Continue
<1>11. ASSUME NEW t \in Threads, RemMember(t) PROVE EvictInv'
  BY <1>11 DEF RemMember, Continue, Subject
<1>12. ASSUME NEW t \in Threads, RemState(t) PROVE EvictInv'
  BY <1>12 DEF RemState, Continue, Subject
<1>13. ASSUME NEW t \in Threads, RemCheck(t) PROVE EvictInv'
  BY <1>13 DEF RemCheck, Continue, Return
<1>14. ASSUME NEW t \in Threads, RemDelete(t) PROVE EvictInv'
  BY <1>14 DEF RemDelete, Continue, Return
<1>15. ASSUME NEW t \in Threads, NotifyLast(t) PROVE EvictInv'
  BY <1>15 DEF NotifyLast, Return
<1>16. ASSUME NEW t \in Threads, Snapshot(t) PROVE EvictInv'
  BY <1>16 DEF Snapshot, Subject
<1>17. ASSUME NEW t \in Threads, NEW n \in RoomNames, SweepNext(t, n) PROVE EvictInv'
  BY <1>17 DEF SweepNext, Lookup, Return
<1>18. ASSUME NEW t \in Threads, SweepEnd(t) PROVE EvictInv'
  BY <1>18 DEF SweepEnd
<1>19. ASSUME CheckInactive PROVE EvictInv'
  BY <1>19 DEF CheckInactive
<1>20. ASSUME NEW c \in Clients, Evict(c) PROVE EvictInv'
  BY <1>20 DEF Evict
<1>21. ASSUME NEW l \in loops, LoopReturn(l) PROVE EvictInv'
  BY <1>21 DEF LoopReturn
<1>22. CASE UNCHANGED vars
  BY <1>22 DEF vars
<1> QED
  BY <1>1, <1>2, <1>3, <1>4, <1>5, <1>6, <1>7, <1>8, <1>9, <1>10, <1>11, <1>12,
     <1>13, <1>14, <1>15, <1>16, <1>17, <1>18, <1>19, <1>20, <1>21, <1>22
  DEF Next, Operation

(* A registered client is a member of a room it has not in Client.Rooms only *)
(* between the two halves of its join; and it leaves the room in the map     *)
(* before it forgets about it.                                               *)
MemberInv ==
  \A c \in registered, n \in RoomNames :
    rooms[n] # NoRoom /\ c \in members[rooms[n]] =>
      /\ n \in clientRooms[c] \/ (pc[c] = "addState" /\ arg[c] = n)
      /\ pc[c] \in {"remCount", "remHas", "remMember"} /\ arg[c] = n => obj[c] = rooms[n]
      /\ pc[c] = "remState" => arg[c] # n

LEMMA MemberInvNext == Inv /\ NameInv /\ EvictInv /\ MemberInv /\ [Next]_vars => MemberInv'
<1> SUFFICES ASSUME Inv, NameInv, EvictInv, MemberInv, [Next]_vars PROVE MemberInv'
  OBVIOUS
<1> USE ConstantsAssumption, MonitorNotClient
    DEF Inv, TypeOK, PcOK, Labels, Adding, Removing, Goto, roomVars, connVars, monVars, NameInv, EvictInv, MemberInv, Threads
<1>1. ASSUME NEW c \in Clients, Connect(c) PROVE MemberInv'
  BY <1>1 DEF Connect
<1>2. ASSUME NEW c \in Clients, Disconnect(c) PROVE MemberInv'
  BY <1>2 DEF Disconnect
<1>3. ASSUME NEW c \in Clients, NEW n \in RoomNames, JoinRoom(c, n) PROVE MemberInv'
  <2> SUFFICES ASSUME NEW d \in registered', NEW m \in RoomNames,
                      rooms'[m] # NoRoom, d \in members'[rooms'[m]]
               PROVE  /\ m \in clientRooms'[d] \/ (pc'[d] = "addState" /\ arg'[d] = m)
                      /\ pc'[d] \in {"remCount", "remHas", "remMember"} /\ arg'[d] = m
                           => obj'[d] = rooms'[m]
                      /\ pc'[d] = "remState" => arg'[d] # m
    BY DEF MemberInv
  <2>1. rooms'[m] = rooms[m] /\ members'[rooms[m]] = members[rooms[m]]
    BY <1>3 DEF JoinRoom, Unreferenced
  <2>2. d \in registered /\ clientRooms' = clientRooms
    BY <1>3 DEF JoinRoom
  <2>3. CASE d = c
    BY <1>3, <2>1, <2>2, <2>3 DEF JoinRoom, Receive
  <2>4. CASE d # c
    <3>1. pc'[d] = pc[d] /\ arg'[d] = arg[d] /\ obj'[d] = obj[d]
      BY <1>3, <2>4 DEF JoinRoom
    <3> QED BY <2>1, <2>2, <3>1
  <2> QED BY <2>3, <2>4
<1>4. ASSUME NEW c \in Clients, NEW n \in RoomNames, LeaveRoom(c, n) PROVE MemberInv'
  BY <1>4 DEF LeaveRoom, Receive, Lookup, Return
<1>5. ASSUME NEW t \in Threads, AddCount(t) PROVE MemberInv'
  BY <1>5 DEF AddCount, Continue
<1>6. ASSUME NEW t \in Threads, AddMember(t) PROVE MemberInv'
  BY <1>6 DEF AddMember, Continue, Subject
<1>7. ASSUME NEW t \in Threads, AddState(t) PROVE MemberInv'
  BY <1>7 DEF AddState, Continue, Return, Subject
<1>8. ASSUME NEW t \in Threads, NotifyFirst(t) PROVE MemberInv'
  BY <1>8 DEF NotifyFirst, Return
<1>9. ASSUME NEW t \in Threads, RemCount(t) PROVE MemberInv'
  BY <1>9 DEF RemCount, Continue
<1>10. ASSUME NEW t \in Threads, RemHas(t) PROVE MemberInv'
  BY <1>10 DEF RemHas, Continue
<1>11. ASSUME NEW t \in Threads, RemMember(t) PROVE MemberInv'
  BY <1>11 DEF RemMember, Continue, Subject
<1>12. ASSUME NEW t \in Threads, RemState(t) PROVE MemberInv'
  BY <1>12 DEF RemState, Continue, Subject
<1>13. ASSUME NEW t \in Threads, RemCheck(t) PROVE MemberInv'
  BY <1>13 DEF RemCheck, Continue, Return
<1>14. ASSUME NEW t \in Threads, RemDelete(t) PROVE MemberInv'
  BY <1>14 DEF RemDelete, Continue, Return
<1>15. ASSUME NEW t \in Threads, NotifyLast(t) PROVE MemberInv'
  BY <1>15 DEF NotifyLast, Return
<1>16. ASSUME NEW t \in Threads, Snapshot(t) PROVE MemberInv'
  BY <1>16 DEF Snapshot, Subject
<1>17. ASSUME NEW t \in Threads, NEW n \in RoomNames, SweepNext(t, n) PROVE MemberInv'
  BY <1>17 DEF SweepNext, Lookup, Return
<1>18. ASSUME NEW t \in Threads, SweepEnd(t) PROVE MemberInv'
  BY <1>18 DEF SweepEnd
<1>19. ASSUME CheckInactive PROVE MemberInv'
  BY <1>19 DEF CheckInactive
<1>20. ASSUME NEW c \in Clients, Evict(c) PROVE MemberInv'
  BY <1>20 DEF Evict
<1>21. ASSUME NEW l \in loops, LoopReturn(l) PROVE MemberInv'
  BY <1>21 DEF LoopReturn
<1>22. CASE UNCHANGED vars
  BY <1>22 DEF vars
<1> QED
  BY <1>1, <1>2, <1>3, <1>4, <1>5, <1>6, <1>7, <1>8, <1>9, <1>10, <1>11, <1>12,
     <1>13, <1>14, <1>15, <1>16, <1>17, <1>18, <1>19, <1>20, <1>21, <1>22
  DEF Next, Operation

(* A registered client between two messages gets broadcasts only of rooms it *)
(* has joined and not left.                                                  *)
THEOREM MembersAskedToBe == Spec => []NoUnaskedMembership
<1>1. Init => Inv /\ NameInv /\ EvictInv /\ MemberInv
  BY InitInv, ConstantsAssumption
  DEF Init, NameInv, EvictInv, MemberInv, Adding, Removing
<1>2. Inv /\ NameInv /\ EvictInv /\ MemberInv /\ [Next]_vars
      => Inv' /\ NameInv' /\ EvictInv' /\ MemberInv'
  BY NextInv, NameInvNext, EvictInvNext, MemberInvNext
<1>3. Inv /\ MemberInv => NoUnaskedMembership
  BY DEF Inv, TypeOK, MemberInv, NoUnaskedMembership
<1> QED BY <1>1, <1>2, <1>3, PTL DEF Spec

-----------------------------------------------------------------------------
(* Operations that do not overlap on one name: what the members of its room, *)
(* the clients that have the name and its collector say of each other.       *)
Operating == Adding \cup Removing

Inside(n) == IF rooms[n] = NoRoom THEN {} ELSE members[rooms[n]]
Known(n) == {c \in Clients : n \in clientRooms[c]}

(* The collector of a name, if it has one. *)
Runs(n) == n \in CollectorRooms => isRunning[n]
Rests(n) == n \in CollectorRooms => ~isRunning[n]
Matches(n) == IF Inside(n) = {} THEN Rests(n) ELSE Runs(n)

(* A name that no operation is about: the three agree. *)
Settled(n) ==
  /\ rooms[n] # NoRoom => Inside(n) # {}
  /\ Known(n) = Inside(n)
  /\ Matches(n)

(* The name a thread operates on: what agrees so far, and what flag says. *)
Between(t) ==
  LET n == arg[t]
      s == Subject(t)
  IN  /\ pc[t] \in Operating \ {"last"} => obj[t] = rooms[n]
      /\ pc[t] \in {"addCount", "addMember"} => Known(n) = Inside(n) /\ Matches(n)
      /\ pc[t] \in {"addCount", "remCount", "remHas"} => ~flag[t]
      /\ pc[t] = "addMember" => (flag[t] <=> Inside(n) = {})
      /\ pc[t] = "addState" => /\ Known(n) \cup {s} = Inside(n)
                               /\ IF flag[t] THEN Rests(n) ELSE Runs(n)
      /\ pc[t] = "first" => Known(n) = Inside(n) /\ Inside(n) # {} /\ Rests(n)
      /\ pc[t] \in {"remCount", "remHas", "remMember"} =>
           Known(n) = Inside(n) /\ Inside(n) # {} /\ Runs(n)
      /\ pc[t] = "remHas" => Cardinality(Inside(n)) = 1
      /\ pc[t] = "remMember" => (flag[t] <=> Inside(n) = {s})
      /\ pc[t] = "remState" => Known(n) \ {s} = Inside(n)
      /\ pc[t] \in {"remCheck", "remDelete"} => Known(n) = Inside(n)
      /\ pc[t] \in {"remState", "remCheck", "remDelete"} =>
           Runs(n) /\ (flag[t] <=> Inside(n) = {})
      /\ pc[t] = "remDelete" => Inside(n) = {}
      /\ pc[t] = "last" => rooms[n] = NoRoom /\ Known(n) = {} /\ Runs(n)

(* A thread outside the operations has no name, and its flag is FALSE. *)
Locals == \A t \in Threads : pc[t] \notin Operating => arg[t] = NoName /\ ~flag[t]

Finite == \A o \in RoomIds : IsFiniteSet(members[o])

ServiceInv ==
  /\ Exclusive /\ Locals /\ Finite
  /\ \A n \in RoomNames : (\A t \in Threads : arg[t] # n) => Settled(n)
  /\ \A t \in Threads : Between(t)

(* What a step may leave alone: a name, a thread. *)
NameKept(n) ==
  /\ rooms'[n] = rooms[n]
  /\ Inside(n)' = Inside(n)
  /\ Known(n)' = Known(n)
  /\ n \in CollectorRooms => isRunning'[n] = isRunning[n]

ThreadKept(t) ==
  /\ pc'[t] = pc[t] /\ arg'[t] = arg[t] /\ obj'[t] = obj[t] /\ flag'[t] = flag[t]
  /\ pc[t] \in Operating => Subject(t)' = Subject(t)

LEMMA SettledKept ==
  ASSUME NEW n \in RoomNames, NameKept(n), Settled(n)
  PROVE  Settled(n)'
BY DEF NameKept, Settled, Matches, Runs, Rests

LEMMA BetweenKept ==
  ASSUME NEW t \in Threads, ThreadKept(t), pc[t] \in Operating => NameKept(arg[t]),
         Between(t)
  PROVE  Between(t)'
<1>1. CASE pc[t] \in Operating
  BY <1>1 DEF ThreadKept, NameKept, Between, Matches, Runs, Rests
<1>2. CASE pc[t] \notin Operating
  BY <1>2 DEF ThreadKept, Between, Operating, Adding, Removing
<1> QED BY <1>1, <1>2

(* A step of t, which operates on n before it or after it. *)
LEMMA OneName ==
  ASSUME Inv, ServiceInv, Exclusive', NEW t \in Threads, NEW n \in RoomNames,
         arg[t] = n \/ arg'[t] = n,
         arg[t] \in {n, NoName}, arg'[t] \in {n, NoName},
         \A m \in RoomNames \ {n} : NameKept(m),
         \A u \in Threads \ {t} : ThreadKept(u),
         pc'[t] \notin Operating => arg'[t] = NoName /\ ~flag'[t],
         Finite', Between(t)', arg'[t] # n => Settled(n)'
  PROVE  ServiceInv'
<1>0. n # NoName /\ \A u \in Threads : arg[u] \in RoomNames \cup {NoName}
  BY ConstantsAssumption DEF Inv, TypeOK
<1>1. \A u \in Threads \ {t} : arg[u] # n /\ arg'[u] = arg[u]
  BY <1>0 DEF ServiceInv, Exclusive, ThreadKept
<1>2. Locals'
  BY DEF ServiceInv, Locals, ThreadKept
<1>3. ASSUME NEW m \in RoomNames, \A u \in Threads : arg'[u] # m
      PROVE  Settled(m)'
  <2>1. CASE m = n
    BY <1>3, <2>1
  <2>2. CASE m # n
    <3>1. \A u \in Threads : arg[u] # m
      BY <1>0, <1>1, <1>3, <2>2, ConstantsAssumption
    <3> QED BY <2>2, <3>1, SettledKept DEF ServiceInv
  <2> QED BY <2>1, <2>2
<1>4. ASSUME NEW u \in Threads PROVE Between(u)'
  <2>1. CASE u # t
    <3>1. pc[u] \in Operating => arg[u] \in RoomNames
      BY DEF Inv, PcOK, Operating
    <3> QED BY <1>1, <2>1, <3>1, BetweenKept DEF ServiceInv
  <2> QED BY <2>1
<1> QED BY <1>2, <1>3, <1>4 DEF ServiceInv

(* A step that is about no name. *)
LEMMA NoNames ==
  ASSUME Inv, ServiceInv,
         UNCHANGED <<rooms, members, clientRooms, isRunning, arg, flag>>,
         \A u \in Threads : pc[u] \in Operating \/ pc'[u] \in Operating =>
           pc'[u] = pc[u] /\ obj'[u] = obj[u] /\ Subject(u)' = Subject(u)
  PROVE  ServiceInv'
<1>1. \A n \in RoomNames : NameKept(n)
  BY DEF NameKept, Inside, Known
<1>2. Exclusive' /\ Locals' /\ Finite'
  BY DEF ServiceInv, Exclusive, Locals, Finite
<1>3. \A n \in RoomNames : (\A t \in Threads : arg'[t] # n) => Settled(n)'
  BY <1>1, SettledKept DEF ServiceInv
<1>4. ASSUME NEW u \in Threads PROVE Between(u)'
  <2>1. CASE pc[u] \in Operating
    BY <1>1, <2>1, BetweenKept DEF ServiceInv, ThreadKept, Inv, PcOK, Operating
  <2>2. CASE pc'[u] \notin Operating
    BY <2>2 DEF Between, Operating, Adding, Removing
  <2> QED BY <2>1, <2>2
<1> QED BY <1>2, <1>3, <1>4 DEF ServiceInv

LEMMA Operator ==
  ASSUME Inv, NEW t \in Threads, pc[t] \in Operating
  PROVE  arg[t] \in RoomNames /\ obj[t] \in RoomIds /\ Subject(t) \in Clients
BY DEF Inv, PcOK, Operating, Adding, Removing, Subject, Threads

(* The next section of an operation. *)
LEMMA NextSection ==
  ASSUME Inv, ServiceInv, Exclusive', NEW t \in Threads, pc[t] \in Operating,
         NEW l \in Operating, Continue(t, l), victim' = victim,
         \A u \in Threads \ {t} : flag'[u] = flag[u],
         \A m \in RoomNames \ {arg[t]} : NameKept(m),
         Finite', Between(t)'
  PROVE  ServiceInv'
<1>1. /\ arg[t] \in RoomNames /\ arg' = arg /\ pc'[t] = l
      /\ \A u \in Threads \ {t} : ThreadKept(u)
  BY Operator DEF Inv, TypeOK, Continue, Goto, ThreadKept, Subject
<1> QED BY <1>1, OneName

(* Its return. *)
LEMMA LastSection ==
  ASSUME Inv, ServiceInv, Exclusive', NEW t \in Threads, pc[t] \in Operating,
         NEW n \in RoomNames, n = arg[t], Return(t), victim' = victim,
         \A m \in RoomNames \ {n} : NameKept(m),
         Finite', Settled(n)'
  PROVE  ServiceInv'
<1>1. /\ arg'[t] = NoName /\ pc'[t] \in {"sweep", "idle"}
      /\ flag'[t] = FALSE
      /\ \A u \in Threads \ {t} : ThreadKept(u)
  BY Operator DEF Inv, TypeOK, Return, Goto, ThreadKept, Subject
<1>2. Between(t)'
  BY <1>1 DEF Between, Operating, Adding, Removing
<1> QED BY <1>1, <1>2, OneName

(* Its beginning: the name was settled. *)
LEMMA FirstSection ==
  ASSUME Inv, ServiceInv, Exclusive', NEW t \in Threads, pc[t] \in {"idle", "sweep"},
         NEW n \in RoomNames, NEW l \in Operating, Goto(t, l), arg' = [arg EXCEPT ![t] = n]
  PROVE  arg[t] = NoName /\ ~flag[t] /\ Settled(n)
<1>1. arg[t] = NoName /\ ~flag[t]
  BY DEF ServiceInv, Locals, Operating, Adding, Removing
<1>2. arg'[t] = n /\ n # NoName /\ \A u \in Threads \ {t} : arg'[u] = arg[u]
  BY ConstantsAssumption DEF Inv, TypeOK
<1>3. \A u \in Threads : arg[u] # n
  BY <1>1, <1>2 DEF Exclusive
<1> QED BY <1>1, <1>3 DEF ServiceInv

LEMMA JoinServes ==
  ASSUME Inv, NameInv, ServiceInv, Exclusive', NEW c \in Clients, NEW n \in RoomNames,
         JoinRoom(c, n)
  PROVE  ServiceInv'
<1> USE MonitorNotClient, ConstantsAssumption
<1>1. arg[c] = NoName /\ ~flag[c] /\ Settled(n)
  BY FirstSection DEF JoinRoom, Receive, Operating, Adding
<1>2. /\ arg'[c] = n /\ pc'[c] = "addCount" /\ flag' = flag /\ clientRooms' = clientRooms
      /\ isRunning' = isRunning /\ obj'[c] = rooms'[n] /\ rooms'[n] # NoRoom
      /\ \A u \in Threads \ {c} : ThreadKept(u)
  BY DEF JoinRoom, Goto, Inv, TypeOK, ThreadKept, Subject, monVars, collVars
<1>3. \A m \in RoomNames : Known(m)' = Known(m)
  BY <1>2 DEF Known
<1>4. Inside(n)' = Inside(n) /\ \A m \in RoomNames \ {n} : NameKept(m)
  <2>1. CASE rooms' = rooms /\ members' = members
    BY <1>2, <1>3, <2>1 DEF NameKept, Inside
  <2>2. ASSUME NEW o \in RoomIds, rooms[n] = NoRoom, Unreferenced(o),
               rooms' = [rooms EXCEPT ![n] = o], members' = [members EXCEPT ![o] = {}]
        PROVE  Inside(n)' = Inside(n) /\ \A m \in RoomNames \ {n} : NameKept(m)
    <3>1. Inside(n)' = {} /\ Inside(n) = {}
      BY <2>2 DEF Inside, Inv, TypeOK
    <3>2. ASSUME NEW m \in RoomNames \ {n} PROVE NameKept(m)
      <4>1. rooms'[m] = rooms[m] /\ rooms[m] # o /\ rooms[m] \in RoomIds \cup {NoRoom}
        BY <2>2 DEF Inv, TypeOK, Unreferenced
      <4>2. Inside(m)' = Inside(m)
        BY <2>2, <4>1 DEF Inside, Inv, TypeOK
      <4> QED BY <1>2, <1>3, <4>1, <4>2 DEF NameKept
    <3> QED BY <3>1, <3>2
  <2> QED BY <2>1, <2>2 DEF JoinRoom
<1>5. Finite'
  BY FS_EmptySet DEF JoinRoom, ServiceInv, Finite, Inv, TypeOK
<1>6. Between(c)'
  BY <1>1, <1>2, <1>3, <1>4 DEF Between, Settled, Matches, Runs, Rests, Subject
<1> QED BY <1>1, <1>2, <1>4, <1>5, <1>6, OneName DEF Operating, Adding

LEMMA LookupServes ==
  ASSUME Inv, ServiceInv, Exclusive', NEW t \in Threads, NEW n \in RoomNames,
         pc[t] \in {"idle", "sweep"}, Lookup(t, n), victim' = victim,
         UNCHANGED <<rooms, members, clientRooms, isRunning>>
  PROVE  ServiceInv'
<1> USE ConstantsAssumption
<1>0. \A m \in RoomNames : NameKept(m)
  BY DEF NameKept, Inside, Known
<1>1. CASE rooms[n] # NoRoom
  <2>1. arg[t] = NoName /\ ~flag[t] /\ Settled(n)
    BY <1>1, FirstSection DEF Lookup, Operating, Removing
  <2>2. /\ arg'[t] = n /\ pc'[t] = "remCount" /\ flag' = flag /\ obj'[t] = rooms[n]
        /\ \A u \in Threads \ {t} : ThreadKept(u)
    BY <1>1 DEF Lookup, Goto, Inv, TypeOK, ThreadKept, Subject
  <2>3. Between(t)'
    BY <1>0, <1>1, <2>1, <2>2 DEF Between, Settled, Matches, Runs, Rests, NameKept
  <2>4. Finite'
    BY DEF ServiceInv, Finite
  <2> QED BY <1>0, <2>1, <2>2, <2>3, <2>4, OneName DEF Operating, Removing
<1>2. CASE rooms[n] = NoRoom
  <2>1. arg[t] = NoName /\ flag[t] = FALSE
    BY DEF ServiceInv, Locals, Operating, Adding, Removing, Inv, TypeOK
  <2>2. /\ arg' = [arg EXCEPT ![t] = NoName] /\ flag' = [flag EXCEPT ![t] = FALSE]
        /\ arg \in [Threads -> RoomNames \cup {NoName}] /\ flag \in [Threads -> BOOLEAN]
    BY <1>2 DEF Lookup, Return, Inv, TypeOK
  <2>4. arg' = arg /\ flag' = flag
    BY <2>1, <2>2, Zenon
  <2>5. /\ pc'[t] \in {"idle", "sweep"}
        /\ \A u \in Threads \ {t} : pc'[u] = pc[u] /\ obj'[u] = obj[u]
    BY <1>2 DEF Lookup, Return, Goto, Inv, TypeOK
  <2>3. \A u \in Threads : Subject(u)' = Subject(u)
    BY DEF Subject
  <2> QED BY <2>3, <2>4, <2>5, NoNames DEF Operating, Adding, Removing
<1> QED BY <1>1, <1>2

(* A section that changes neither the rooms nor what clients and collectors  *)
(* know of them.                                                             *)
LEMMA NamesKept ==
  ASSUME UNCHANGED <<rooms, members, clientRooms, isRunning>>
  PROVE  \A m \in RoomNames : NameKept(m)
BY DEF NameKept, Inside, Known

(* The members of one room change. *)
LEMMA OtherRooms ==
  ASSUME Inv, NameInv, NEW n \in RoomNames, rooms[n] # NoRoom,
         NEW S \in SUBSET Clients, members' = [members EXCEPT ![rooms[n]] = S],
         UNCHANGED <<rooms, clientRooms, isRunning>>
  PROVE  /\ Inside(n)' = S /\ Known(n)' = Known(n)
         /\ \A m \in RoomNames \ {n} : NameKept(m)
<1>1. rooms[n] \in RoomIds /\ Inside(n)' = S
  BY DEF Inv, TypeOK, Inside
<1>2. ASSUME NEW m \in RoomNames \ {n} PROVE NameKept(m)
  BY <1>1 DEF NameInv, NameKept, Inside, Known, Inv, TypeOK
<1> QED BY <1>1, <1>2 DEF Known

(* One client learns a name, or forgets it. *)
LEMMA OtherNames ==
  ASSUME Inv, NEW c \in Clients, NEW n \in RoomNames,
         \/ clientRooms' = [clientRooms EXCEPT ![c] = @ \cup {n}]
         \/ clientRooms' = [clientRooms EXCEPT ![c] = @ \ {n}],
         UNCHANGED <<rooms, members, isRunning>>
  PROVE  /\ Inside(n)' = Inside(n)
         /\ clientRooms' = [clientRooms EXCEPT ![c] = @ \cup {n}] =>
              Known(n)' = Known(n) \cup {c}
         /\ clientRooms' = [clientRooms EXCEPT ![c] = @ \ {n}] =>
              Known(n)' = Known(n) \ {c}
         /\ \A m \in RoomNames \ {n} : NameKept(m)
<1>1. \A m \in RoomNames : Inside(m)' = Inside(m)
  BY DEF Inside
<1>2. \A m \in RoomNames \ {n} : Known(m)' = Known(m)
  BY DEF Known, Inv, TypeOK
<1>3. clientRooms' = [clientRooms EXCEPT ![c] = @ \cup {n}] =>
        Known(n)' = Known(n) \cup {c}
  BY DEF Known, Inv, TypeOK
<1>4. clientRooms' = [clientRooms EXCEPT ![c] = @ \ {n}] => Known(n)' = Known(n) \ {c}
  BY DEF Known, Inv, TypeOK
<1> QED BY <1>1, <1>2, <1>3, <1>4 DEF NameKept

(* The sections of AddClientToRoom. *)
LEMMA AddServes ==
  ASSUME Inv, NameInv, ServiceInv, Exclusive', NEW t \in Threads,
         AddCount(t) \/ AddMember(t) \/ AddState(t) \/ NotifyFirst(t)
  PROVE  ServiceInv'
<1> PICK n, s : n = arg[t] /\ s = Subject(t)
  OBVIOUS
<1> USE ConstantsAssumption DEF Operating, Adding, Removing, roomVars, collVars, monVars
<1>1. CASE AddCount(t)
  <2>1. /\ pc[t] = "addCount" /\ n \in RoomNames /\ obj[t] = rooms[n]
        /\ rooms[n] \in RoomIds /\ Known(n) = Inside(n) /\ Matches(n)
    BY <1>1, Operator DEF AddCount, ServiceInv, Between
  <2>2. \A m \in RoomNames : NameKept(m)
    BY <1>1, NamesKept DEF AddCount
  <2>3. /\ pc'[t] = "addMember" /\ arg' = arg /\ obj' = obj
        /\ flag'[t] <=> Inside(n) = {}
    BY <1>1, <2>1 DEF AddCount, Continue, Goto, Inside, Inv, TypeOK
  <2>4. Between(t)'
    BY <2>1, <2>2, <2>3 DEF Between, Matches, Runs, Rests, NameKept
  <2>5. \A u \in Threads \ {t} : flag'[u] = flag[u]
    BY <1>1 DEF AddCount, Inv, TypeOK
  <2>6. Finite'
    BY <1>1 DEF AddCount, ServiceInv, Finite
  <2> QED BY <1>1, <2>1, <2>2, <2>4, <2>5, <2>6, NextSection DEF AddCount
<1>2. CASE AddMember(t)
  <2>1. /\ pc[t] = "addMember" /\ n \in RoomNames /\ obj[t] = rooms[n]
        /\ rooms[n] \in RoomIds /\ s \in Clients
    BY <1>2, Operator DEF AddMember, ServiceInv, Between
  <2>2. rooms[n] # NoRoom /\ Inside(n) = members[rooms[n]]
    BY <2>1 DEF Inside
  <2>3. /\ Inside(n)' = Inside(n) \cup {s} /\ Known(n)' = Known(n)
        /\ \A m \in RoomNames \ {n} : NameKept(m)
    <3>1. members' = [members EXCEPT ![rooms[n]] = Inside(n) \cup {s}]
      BY <1>2, <2>1, <2>2 DEF AddMember
    <3>2. Inside(n) \cup {s} \in SUBSET Clients
      BY <2>1, <2>2 DEF Inv, TypeOK
    <3> QED BY <1>2, <2>1, <2>2, <3>1, <3>2, OtherRooms DEF AddMember
  <2>4. /\ pc'[t] = "addState" /\ arg' = arg /\ obj' = obj /\ flag' = flag
        /\ rooms' = rooms /\ isRunning' = isRunning /\ Subject(t)' = s
    BY <1>2 DEF AddMember, Continue, Goto, Inv, TypeOK, Subject
  <2>5. Between(t)'
    BY <2>1, <2>3, <2>4 DEF Between, Matches, Runs, Rests, ServiceInv
  <2>6. Finite'
    <3>1. IsFiniteSet(members[obj[t]] \cup {s})
      BY <2>1, FS_AddElement DEF ServiceInv, Finite
    <3> QED BY <1>2, <2>1, <3>1 DEF AddMember, ServiceInv, Finite, Inv, TypeOK
  <2> QED BY <1>2, <2>1, <2>3, <2>5, <2>6, NextSection DEF AddMember
<1>3. CASE AddState(t)
  <2>1. /\ pc[t] = "addState" /\ n \in RoomNames /\ obj[t] = rooms[n]
        /\ rooms[n] \in RoomIds /\ s \in Clients
    BY <1>3, Operator DEF AddState, ServiceInv, Between
  <2>2. /\ Inside(n)' = Inside(n) /\ Known(n)' = Known(n) \cup {s}
        /\ \A m \in RoomNames \ {n} : NameKept(m)
    BY <1>3, <2>1, OtherNames DEF AddState
  <2>3. /\ Known(n)' = Inside(n)' /\ Inside(n)' # {}
        /\ rooms' = rooms /\ isRunning' = isRunning
        /\ IF flag[t] THEN Rests(n) ELSE Runs(n)
    BY <1>3, <2>1, <2>2 DEF AddState, ServiceInv, Between
  <2>4. Finite'
    BY <1>3 DEF AddState, ServiceInv, Finite
  <2>5. CASE flag[t]
    <3>1. pc'[t] = "first" /\ arg' = arg /\ obj' = obj /\ flag' = flag
      BY <1>3, <2>5 DEF AddState, Continue, Goto, Inv, TypeOK
    <3>2. Between(t)'
      BY <2>1, <2>3, <2>5, <3>1 DEF Between, Runs, Rests
    <3> QED BY <1>3, <2>1, <2>2, <2>4, <2>5, <3>2, NextSection DEF AddState
  <2>6. CASE ~flag[t]
    <3>1. Settled(n)'
      BY <2>1, <2>3, <2>6 DEF Settled, Matches, Runs
    <3> QED BY <1>3, <2>1, <2>2, <2>4, <2>6, <3>1, LastSection DEF AddState
  <2> QED BY <2>5, <2>6
<1>4. CASE NotifyFirst(t)
  <2>1. /\ pc[t] = "first" /\ n \in RoomNames
        /\ Known(n) = Inside(n) /\ Inside(n) # {} /\ Rests(n)
    BY <1>4, Operator DEF NotifyFirst, ServiceInv, Between
  <2>2. \A m \in RoomNames : Inside(m)' = Inside(m) /\ Known(m)' = Known(m)
    BY <1>4 DEF NotifyFirst, Inside, Known
  <2>3. /\ n \in CollectorRooms => isRunning'[n]
        /\ \A m \in CollectorRooms \ {n} : isRunning'[m] = isRunning[m]
    <3>1. CASE n \in CollectorRooms
      <4>1. isRunning' = [isRunning EXCEPT ![n] = TRUE]
        BY <1>4, <2>1, <3>1 DEF NotifyFirst, OnFirstClientJoined, Start, Rests
      <4> QED BY <3>1, <4>1 DEF Inv, TypeOK
    <3>2. CASE n \notin CollectorRooms
      BY <1>4, <3>2 DEF NotifyFirst, OnFirstClientJoined
    <3> QED BY <3>1, <3>2
  <2>4. \A m \in RoomNames \ {n} : NameKept(m)
    BY <1>4, <2>2, <2>3 DEF NotifyFirst, NameKept
  <2>5. Settled(n)'
    BY <2>1, <2>2, <2>3 DEF Settled, Matches, Runs
  <2>6. Finite'
    BY <1>4 DEF NotifyFirst, ServiceInv, Finite
  <2> QED BY <1>4, <2>1, <2>4, <2>5, <2>6, LastSection DEF NotifyFirst
<1> QED BY <1>1, <1>2, <1>3, <1>4

(* The sections of RemoveClientFromRoom. *)
LEMMA RemoveServes ==
  ASSUME Inv, NameInv, ServiceInv, Exclusive', NEW t \in Threads,
         \/ RemCount(t) \/ RemHas(t) \/ RemMember(t) \/ RemState(t)
         \/ RemCheck(t) \/ RemDelete(t) \/ NotifyLast(t)
  PROVE  ServiceInv'
<1> PICK n, s : n = arg[t] /\ s = Subject(t)
  OBVIOUS
<1> USE ConstantsAssumption DEF Operating, Adding, Removing, roomVars, collVars, monVars
<1>0. /\ pc[t] \in Removing /\ n \in RoomNames /\ s \in Clients
      /\ pc[t] # "last" => /\ obj[t] = rooms[n] /\ rooms[n] \in RoomIds
                           /\ rooms[n] # NoRoom /\ Inside(n) = members[rooms[n]]
  BY Operator DEF RemCount, RemHas, RemMember, RemState, RemCheck, RemDelete, NotifyLast,
                  ServiceInv, Between, Inside
<1>1. CASE RemCount(t)
  <2>1. /\ pc[t] = "remCount" /\ ~flag[t] /\ Known(n) = Inside(n)
        /\ Inside(n) # {} /\ Runs(n)
    BY <1>1 DEF RemCount, ServiceInv, Between
  <2>2. \A m \in RoomNames : NameKept(m)
    BY <1>1, NamesKept DEF RemCount
  <2>3. /\ arg' = arg /\ obj' = obj /\ flag' = flag /\ Subject(t)' = s
        /\ pc'[t] = IF Cardinality(Inside(n)) = 1 THEN "remHas" ELSE "remMember"
    BY <1>0, <1>1, <2>1 DEF RemCount, Continue, Goto, Inv, TypeOK, Subject
  <2>4. Inside(n) = {s} => Cardinality(Inside(n)) = 1
    BY FS_Singleton
  <2>5. Between(t)'
    BY <1>0, <2>1, <2>2, <2>3, <2>4 DEF Between, Runs, NameKept
  <2>6. Finite'
    BY <1>1 DEF RemCount, ServiceInv, Finite
  <2> QED BY <1>1, <2>1, <2>2, <2>5, <2>6, NextSection DEF RemCount
<1>2. CASE RemHas(t)
  <2>1. /\ pc[t] = "remHas" /\ Known(n) = Inside(n) /\ Inside(n) # {} /\ Runs(n)
        /\ Cardinality(Inside(n)) = 1
    BY <1>2 DEF RemHas, ServiceInv, Between
  <2>2. \A m \in RoomNames : NameKept(m)
    BY <1>2, NamesKept DEF RemHas
  <2>3. /\ arg' = arg /\ obj' = obj /\ Subject(t)' = s /\ pc'[t] = "remMember"
        /\ flag'[t] <=> s \in Inside(n)
        /\ \A u \in Threads \ {t} : flag'[u] = flag[u]
    <3>1. flag' = [flag EXCEPT ![t] = s \in Inside(n)]
      BY <1>0, <1>2, <2>1 DEF RemHas
    <3>2. flag'[t] <=> s \in Inside(n)
      BY <3>1 DEF Inv, TypeOK
    <3>3. \A u \in Threads \ {t} : flag'[u] = flag[u]
      BY <3>1 DEF Inv, TypeOK
    <3>4. arg' = arg /\ obj' = obj /\ Subject(t)' = s /\ pc'[t] = "remMember"
      BY <1>2 DEF RemHas, Continue, Goto, Inv, TypeOK, Subject
    <3> QED BY <3>2, <3>3, <3>4
  <2>4. s \in Inside(n) <=> Inside(n) = {s}
    <3>1. IsFiniteSet(Inside(n))
      BY <1>0, <2>1 DEF ServiceInv, Finite
    <3>2. \E x : Inside(n) = {x}
      BY <2>1, <3>1, FS_Singleton
    <3> QED BY <3>2
  <2>5. Between(t)'
    BY <1>0, <2>1, <2>2, <2>3, <2>4 DEF Between, Runs, NameKept
  <2>6. Finite'
    BY <1>2 DEF RemHas, ServiceInv, Finite
  <2> QED BY <1>2, <2>1, <2>2, <2>3, <2>5, <2>6, NextSection DEF RemHas
<1>3. CASE RemMember(t)
  <2>1. /\ pc[t] = "remMember" /\ Known(n) = Inside(n) /\ Inside(n) # {} /\ Runs(n)
        /\ flag[t] <=> Inside(n) = {s}
    BY <1>3 DEF RemMember, ServiceInv, Between
  <2>2. /\ Inside(n)' = Inside(n) \ {s} /\ Known(n)' = Known(n)
        /\ \A m \in RoomNames \ {n} : NameKept(m)
    <3>1. members' = [members EXCEPT ![rooms[n]] = Inside(n) \ {s}]
      BY <1>0, <1>3, <2>1 DEF RemMember
    <3>2. Inside(n) \ {s} \in SUBSET Clients
      BY <1>0, <2>1 DEF Inv, TypeOK
    <3> QED BY <1>0, <1>3, <2>1, <3>1, <3>2, OtherRooms DEF RemMember
  <2>3. /\ pc'[t] = "remState" /\ arg' = arg /\ obj' = obj /\ flag' = flag
        /\ rooms' = rooms /\ isRunning' = isRunning /\ Subject(t)' = s
    BY <1>3 DEF RemMember, Continue, Goto, Inv, TypeOK, Subject
  <2>4. Between(t)'
    BY <1>0, <2>1, <2>2, <2>3 DEF Between, Runs
  <2>5. Finite'
    <3>1. IsFiniteSet(members[obj[t]] \ {s})
      BY <1>0, <2>1, FS_RemoveElement DEF ServiceInv, Finite
    <3> QED BY <1>0, <1>3, <2>1, <3>1 DEF RemMember, ServiceInv, Finite, Inv, TypeOK
  <2> QED BY <1>3, <2>1, <2>2, <2>4, <2>5, NextSection DEF RemMember
<1>4. CASE RemState(t)
  <2>1. /\ pc[t] = "remState" /\ Known(n) \ {s} = Inside(n) /\ Runs(n)
        /\ flag[t] <=> Inside(n) = {}
    BY <1>4 DEF RemState, ServiceInv, Between
  <2>2. /\ Inside(n)' = Inside(n) /\ Known(n)' = Known(n) \ {s}
        /\ \A m \in RoomNames \ {n} : NameKept(m)
    BY <1>0, <1>4, OtherNames DEF RemState
  <2>3. /\ pc'[t] = "remCheck" /\ arg' = arg /\ obj' = obj /\ flag' = flag
        /\ rooms' = rooms /\ isRunning' = isRunning
    BY <1>4 DEF RemState, Continue, Goto, Inv, TypeOK
  <2>4. Between(t)'
    BY <1>0, <2>1, <2>2, <2>3 DEF Between, Runs
  <2>5. Finite'
    BY <1>4 DEF RemState, ServiceInv, Finite
  <2> QED BY <1>4, <2>1, <2>2, <2>4, <2>5, NextSection DEF RemState
<1>5. CASE RemCheck(t)
  <2>1. /\ pc[t] = "remCheck" /\ Known(n) = Inside(n) /\ Runs(n)
        /\ flag[t] <=> Inside(n) = {}
    BY <1>5 DEF RemCheck, ServiceInv, Between
  <2>2. \A m \in RoomNames : NameKept(m)
    BY <1>5, NamesKept DEF RemCheck
  <2>3. Finite'
    BY <1>5 DEF RemCheck, ServiceInv, Finite
  <2>4. CASE Inside(n) = {}
    <3>1. /\ pc'[t] = "remDelete" /\ arg' = arg /\ obj' = obj /\ flag' = flag
      BY <1>0, <1>5, <2>1, <2>4 DEF RemCheck, Continue, Goto, Inv, TypeOK
    <3>2. Between(t)'
      BY <1>0, <2>1, <2>2, <2>4, <3>1 DEF Between, Runs, NameKept
    <3> QED BY <1>0, <1>5, <2>1, <2>2, <2>3, <2>4, <3>2, NextSection DEF RemCheck
  <2>5. CASE Inside(n) # {}
    <3>1. Settled(n)'
      BY <1>0, <2>1, <2>2, <2>5 DEF Settled, Matches, Runs, NameKept
    <3> QED BY <1>0, <1>5, <2>1, <2>2, <2>3, <2>5, <3>1, LastSection DEF RemCheck
  <2> QED BY <2>4, <2>5
<1>6. CASE RemDelete(t)
  <2>1. /\ pc[t] = "remDelete" /\ Known(n) = {} /\ Inside(n) = {} /\ Runs(n) /\ flag[t]
    BY <1>6 DEF RemDelete, ServiceInv, Between
  <2>2. /\ rooms'[n] = NoRoom /\ Inside(n)' = {} /\ Known(n)' = {}
        /\ \A m \in RoomNames \ {n} : NameKept(m)
    BY <1>0, <1>6, <2>1 DEF RemDelete, NameKept, Inside, Known, Inv, TypeOK
  <2>3. /\ pc'[t] = "last" /\ arg' = arg /\ obj' = obj /\ flag' = flag
        /\ isRunning' = isRunning
    BY <1>6, <2>1 DEF RemDelete, Continue, Goto, Inv, TypeOK
  <2>4. Between(t)'
    BY <1>0, <2>1, <2>2, <2>3 DEF Between, Runs
  <2>5. Finite'
    BY <1>6 DEF RemDelete, ServiceInv, Finite
  <2> QED BY <1>6, <2>1, <2>2, <2>4, <2>5, NextSection DEF RemDelete
<1>7. CASE NotifyLast(t)
  <2>1. pc[t] = "last" /\ rooms[n] = NoRoom /\ Known(n) = {} /\ Runs(n)
    BY <1>7 DEF NotifyLast, ServiceInv, Between
  <2>2. /\ rooms' = rooms
        /\ \A m \in RoomNames : Inside(m)' = Inside(m) /\ Known(m)' = Known(m)
    BY <1>7 DEF NotifyLast, Inside, Known
  <2>3. /\ n \in CollectorRooms => ~isRunning'[n]
        /\ \A m \in CollectorRooms \ {n} : isRunning'[m] = isRunning[m]
    <3>1. CASE n \in CollectorRooms
      <4>1. isRunning' = [isRunning EXCEPT ![n] = FALSE]
        BY <1>7, <2>1, <3>1 DEF NotifyLast, OnLastClientLeft, Stop, Runs
      <4> QED BY <3>1, <4>1 DEF Inv, TypeOK
    <3>2. CASE n \notin CollectorRooms
      BY <1>7, <3>2 DEF NotifyLast, OnLastClientLeft
    <3> QED BY <3>1, <3>2
  <2>4. \A m \in RoomNames \ {n} : NameKept(m)
    BY <1>7, <2>2, <2>3 DEF NotifyLast, NameKept
  <2>5. Settled(n)'
    BY <1>0, <1>7, <2>1, <2>2, <2>3 DEF NotifyLast, Settled, Matches, Rests, Inside
  <2>6. Finite'
    BY <1>7 DEF NotifyLast, ServiceInv, Finite
  <2> QED BY <1>0, <1>7, <2>1, <2>4, <2>5, <2>6, LastSection DEF NotifyLast
<1> QED BY <1>1, <1>2, <1>3, <1>4, <1>5, <1>6, <1>7

(* The steps that are about no name. *)
LEMMA OutsideServes ==
  ASSUME Inv, ServiceInv,
         \/ \E c \in Clients : Connect(c) \/ Disconnect(c) \/ Evict(c)
         \/ \E t \in Threads : Snapshot(t) \/ SweepEnd(t)
         \/ CheckInactive \/ (\E l \in loops : LoopReturn(l)) \/ UNCHANGED vars
  PROVE  ServiceInv'
<1> USE ConstantsAssumption, MonitorNotClient
    DEF Operating, Adding, Removing, Goto, Subject, roomVars, collVars, connVars, monVars
<1>1. ASSUME NEW c \in Clients, Connect(c) \/ Disconnect(c) PROVE ServiceInv'
  BY <1>1, NoNames DEF Connect, Disconnect, Inv, TypeOK, PcOK
<1>2. ASSUME NEW c \in Clients, Evict(c) PROVE ServiceInv'
  BY <1>2, NoNames DEF Evict, Inv, TypeOK
<1>3. ASSUME NEW t \in Threads, Snapshot(t) \/ SweepEnd(t) PROVE ServiceInv'
  BY <1>3, NoNames DEF Snapshot, SweepEnd, Inv, TypeOK
<1>4. CASE CheckInactive
  BY <1>4, NoNames DEF CheckInactive, Inv, TypeOK
<1>5. CASE (\E l \in loops : LoopReturn(l)) \/ UNCHANGED vars
  BY <1>5, NoNames DEF LoopReturn, vars
<1> QED BY <1>1, <1>2, <1>3, <1>4, <1>5

LEMMA InitServiceInv == Init => ServiceInv
<1> SUFFICES ASSUME Init PROVE ServiceInv
  OBVIOUS
<1>1. Exclusive /\ Locals /\ Finite
  BY FS_EmptySet, ConstantsAssumption
     DEF Init, Exclusive, Locals, Finite, Operating, Adding, Removing
<1>2. \A n \in RoomNames : Settled(n)
  BY DEF Init, Settled, Inside, Known, Matches, Rests
<1>3. \A t \in Threads : Between(t)
  BY DEF Init, Between, Operating, Adding, Removing
<1> QED BY <1>1, <1>2, <1>3 DEF ServiceInv

LEMMA NextServiceInv ==
  Inv /\ NameInv /\ ServiceInv /\ [ExclusiveNext]_vars => ServiceInv'
<1> SUFFICES ASSUME Inv, NameInv, ServiceInv, [ExclusiveNext]_vars PROVE ServiceInv'
  OBVIOUS
<1>1. CASE UNCHANGED vars
  BY <1>1, OutsideServes
<1>2. CASE Next /\ Exclusive'
  <2>1. ASSUME NEW c \in Clients, NEW n \in RoomNames, JoinRoom(c, n) PROVE ServiceInv'
    BY <1>2, <2>1, JoinServes
  <2>2. ASSUME NEW c \in Clients, NEW n \in RoomNames, LeaveRoom(c, n) PROVE ServiceInv'
    BY <1>2, <2>2, LookupServes, MonitorNotClient
       DEF LeaveRoom, Receive, roomVars, collVars, monVars
  <2>3. ASSUME NEW t \in Threads, NEW n \in RoomNames, SweepNext(t, n) PROVE ServiceInv'
    BY <1>2, <2>3, LookupServes DEF SweepNext, roomVars, collVars, monVars
  <2>4. ASSUME NEW t \in Threads, Operation(t) PROVE ServiceInv'
    BY <1>2, <2>3, <2>4, AddServes, RemoveServes, OutsideServes DEF Operation
  <2> QED BY <1>2, <2>1, <2>2, <2>4, OutsideServes DEF Next
<1> QED BY <1>1, <1>2 DEF ExclusiveNext

(* With nothing under way, every name is settled. *)
LEMMA SettledServes == Inv /\ ServiceInv => JoinedClientIsServed
<1> SUFFICES ASSUME Inv, ServiceInv, \A t \in Threads : AtRest(t),
                    NEW c \in registered, NEW n \in clientRooms[c]
             PROVE  /\ rooms[n] # NoRoom /\ c \in members[rooms[n]]
                    /\ n \in CollectorRooms => isRunning[n]
  BY DEF JoinedClientIsServed
<1>1. c \in Clients /\ n \in RoomNames
  BY DEF Inv, TypeOK
<1>2. \A t \in Threads : arg[t] = NoName
  BY DEF AtRest, ServiceInv, Locals, Operating, Adding, Removing
<1>3. Settled(n)
  BY <1>1, <1>2, ConstantsAssumption DEF ServiceInv
<1>4. c \in Inside(n)
  BY <1>1, <1>3 DEF Settled, Known
<1> QED BY <1>3, <1>4 DEF Settled, Inside, Matches, Runs

(* As long as operations on one room do not overlap, a registered client     *)
(* that has joined a room is, with nothing under way, a member of the room   *)
(* in the map, and the room's collector runs.                                *)
THEOREM ExclusiveClientsAreServed == ExclusiveSpec => []JoinedClientIsServed
<1>1. Init => Inv /\ NameInv /\ ServiceInv
  BY InitInv, InitServiceInv, ConstantsAssumption DEF Init, NameInv, Adding, Removing
<1>2. Inv /\ NameInv /\ ServiceInv /\ [ExclusiveNext]_vars => Inv' /\ NameInv' /\ ServiceInv'
  BY NextInv, NameInvNext, NextServiceInv DEF ExclusiveNext
<1>3. Inv /\ ServiceInv => JoinedClientIsServed
  BY SettledServes
<1> QED BY <1>1, <1>2, <1>3, PTL DEF ExclusiveSpec

-----------------------------------------------------------------------------
(* The abstract service: its subscribers are Inside, name by name.           *)
Subscribers == [n \in RoomNames |-> Inside(n)]
ServiceStep == [Service!Next]_(Service!vars)

LEMMA ServiceRests ==
  ASSUME \A n \in RoomNames : Inside(n)' = Inside(n), isRunning' = isRunning
  PROVE  ServiceStep
BY DEF ServiceStep, Service!vars, Inside

LEMMA StepServes ==
  ASSUME Inv, NameInv, ServiceInv, [ExclusiveNext]_vars
  PROVE  ServiceStep
<1> USE ConstantsAssumption DEF roomVars, collVars, monVars, connVars
<1>1. ASSUME UNCHANGED <<rooms, members, isRunning>> PROVE ServiceStep
  BY <1>1, ServiceRests DEF Inside
<1>2. ASSUME NEW c \in Clients, NEW n \in RoomNames, JoinRoom(c, n) PROVE ServiceStep
  <2>1. isRunning' = isRunning
    BY <1>2 DEF JoinRoom
  <2>2. CASE rooms[n] # NoRoom
    BY <1>1, <1>2, <2>1, <2>2 DEF JoinRoom
  <2>3. ASSUME NEW o \in RoomIds, rooms[n] = NoRoom, Unreferenced(o),
               rooms' = [rooms EXCEPT ![n] = o], members' = [members EXCEPT ![o] = {}],
               NEW m \in RoomNames
        PROVE  Inside(m)' = Inside(m)
    <3>1. CASE m = n
      BY <2>3, <3>1 DEF Inside, Inv, TypeOK
    <3>2. CASE m # n
      BY <2>3, <3>2 DEF Inside, Unreferenced, Inv, TypeOK
    <3> QED BY <3>1, <3>2
  <2> QED BY <1>2, <2>1, <2>2, <2>3, ServiceRests DEF JoinRoom
<1>3. ASSUME NEW t \in Threads, AddMember(t) \/ RemMember(t) PROVE ServiceStep
  <2> PICK n, s : n = arg[t] /\ s = Subject(t)
    OBVIOUS
  <2>1. /\ n \in RoomNames /\ s \in Clients /\ obj[t] = rooms[n] /\ rooms[n] \in RoomIds
        /\ rooms[n] # NoRoom /\ Inside(n) = members[rooms[n]]
    BY <1>3, Operator
       DEF AddMember, RemMember, ServiceInv, Between, Inside, Operating, Adding, Removing
  <2>2. PICK S \in {Inside(n) \cup {s}, Inside(n) \ {s}} :
          members' = [members EXCEPT ![rooms[n]] = S]
    BY <1>3, <2>1 DEF AddMember, RemMember
  <2>3. S \in SUBSET Clients
    BY <2>1, <2>2 DEF Inv, TypeOK
  <2>4. Inside(n)' = S /\ (\A m \in RoomNames \ {n} : Inside(m)' = Inside(m))
    BY <1>3, <2>1, <2>2, <2>3, OtherRooms DEF AddMember, RemMember, NameKept
  <2>5. isRunning' = isRunning
    BY <1>3 DEF AddMember, RemMember
  <2>6. Subscribers' = [Subscribers EXCEPT ![n] = S] /\ Subscribers[n] = Inside(n)
    BY <2>1, <2>4 DEF Subscribers
  <2>7. CASE S = Inside(n) \cup {s}
    <3>1. Service!Subscribe(s, n)
      <4>1. Subscribers' = [Subscribers EXCEPT ![n] = @ \cup {s}]
        BY <2>6, <2>7
      <4> QED BY <2>5, <4>1, Zenon DEF Service!Subscribe, Subscribers, Inside
    <3> QED BY <2>1, <3>1 DEF ServiceStep, Service!Next
  <2>8. CASE S = Inside(n) \ {s}
    <3>1. Service!Unsubscribe(s, n)
      <4>1. Subscribers' = [Subscribers EXCEPT ![n] = @ \ {s}]
        BY <2>6, <2>8
      <4> QED BY <2>5, <4>1, Zenon DEF Service!Unsubscribe, Subscribers, Inside
    <3> QED BY <2>1, <3>1 DEF ServiceStep, Service!Next
  <2> QED BY <2>2, <2>7, <2>8
<1>4. ASSUME NEW t \in Threads, NotifyFirst(t) PROVE ServiceStep
  <2> PICK n : n = arg[t]
    OBVIOUS
  <2>1. /\ n \in RoomNames /\ Inside(n) # {} /\ Rests(n)
        /\ rooms' = rooms /\ members' = members
    BY <1>4, Operator DEF NotifyFirst, ServiceInv, Between, Operating, Adding
  <2>2. CASE n \in CollectorRooms
    <3>1. isRunning' = [isRunning EXCEPT ![n] = TRUE] /\ ~isRunning[n]
      BY <1>4, <2>1, <2>2 DEF NotifyFirst, OnFirstClientJoined, Start, Rests
    <3>2. Service!StartCollector(n)
      BY <2>1, <2>2, <3>1 DEF Service!StartCollector, Inside
    <3> QED BY <2>2, <3>2 DEF ServiceStep, Service!Next
  <2>3. CASE n \notin CollectorRooms
    BY <1>1, <1>4, <2>1, <2>3 DEF NotifyFirst, OnFirstClientJoined
  <2> QED BY <2>2, <2>3
<1>5. ASSUME NEW t \in Threads, RemDelete(t) PROVE ServiceStep
  <2>1. arg[t] \in RoomNames /\ Inside(arg[t]) = {} /\ isRunning' = isRunning
    BY <1>5, Operator DEF RemDelete, ServiceInv, Between, Operating, Removing
  <2>2. \A m \in RoomNames : Inside(m)' = Inside(m)
    BY <1>5, <2>1 DEF RemDelete, Inside, Inv, TypeOK
  <2> QED BY <2>1, <2>2, ServiceRests
<1>6. ASSUME NEW t \in Threads, NotifyLast(t) PROVE ServiceStep
  <2> PICK n : n = arg[t]
    OBVIOUS
  <2>1. /\ n \in RoomNames /\ rooms[n] = NoRoom /\ Runs(n)
        /\ rooms' = rooms /\ members' = members
    BY <1>6, Operator DEF NotifyLast, ServiceInv, Between, Operating, Removing
  <2>2. CASE n \in CollectorRooms
    <3>1. isRunning' = [isRunning EXCEPT ![n] = FALSE] /\ isRunning[n]
      BY <1>6, <2>1, <2>2 DEF NotifyLast, OnLastClientLeft, Stop, Runs
    <3>2. Service!StopCollector(n)
      BY <2>1, <2>2, <3>1 DEF Service!StopCollector
    <3> QED BY <2>2, <3>2 DEF ServiceStep, Service!Next
  <2>3. CASE n \notin CollectorRooms
    BY <1>1, <1>6, <2>1, <2>3 DEF NotifyLast, OnLastClientLeft
  <2> QED BY <2>2, <2>3
<1>7. ASSUME NEW t \in Threads,
             \/ AddCount(t) \/ AddState(t) \/ RemCount(t) \/ RemHas(t) \/ RemState(t)
             \/ RemCheck(t) \/ Snapshot(t) \/ (\E n \in RoomNames : SweepNext(t, n))
             \/ SweepEnd(t)
      PROVE  ServiceStep
  BY <1>1, <1>7 DEF AddCount, AddState, RemCount, RemHas, RemState, RemCheck, Snapshot,
                    SweepNext, SweepEnd
<1>8. ASSUME \/ \E c \in Clients : Connect(c) \/ Disconnect(c) \/ Evict(c)
             \/ \E c \in Clients, n \in RoomNames : LeaveRoom(c, n)
             \/ CheckInactive \/ (\E l \in loops : LoopReturn(l)) \/ UNCHANGED vars
      PROVE  ServiceStep
  BY <1>1, <1>8 DEF Connect, Disconnect, Evict, LeaveRoom, CheckInactive, LoopReturn, vars
<1> QED BY <1>2, <1>3, <1>4, <1>5, <1>6, <1>7, <1>8 DEF ExclusiveNext, Next, Operation

LEMMA InitServes == Init => Service!Init
BY DEF Init, Service!Init

(* The safety of ImplementsService: without overlapping operations on one    *)
(* room, every step of the room manager and the collector manager is a step  *)
(* of the abstract service or none: a collector starts only for a            *)
(* subscriber, and stops only on an empty room.                              *)
THEOREM ExclusiveStepsServe ==
  ExclusiveSpec => Service!Init /\ [][Service!Next]_(Service!vars)
<1>1. Init => Inv /\ NameInv /\ ServiceInv /\ Service!Init
  BY InitInv, InitServiceInv, InitServes, ConstantsAssumption
     DEF Init, NameInv, Adding, Removing
<1>2. Inv /\ NameInv /\ ServiceInv /\ [ExclusiveNext]_vars => Inv' /\ NameInv' /\ ServiceInv'
  BY NextInv, NameInvNext, NextServiceInv DEF ExclusiveNext
<1>3. Inv /\ NameInv /\ ServiceInv /\ [ExclusiveNext]_vars => ServiceStep
  BY StepServes
<1>4. ServiceStep <=> [Service!Next]_(Service!vars)
  BY DEF ServiceStep
<1> QED BY <1>1, <1>2, <1>3, <1>4, PTL DEF ExclusiveSpec
=============================================================================
