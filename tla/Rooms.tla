------------------------------- MODULE Rooms -------------------------------
(***************************************************************************)
(* Room membership and collector life cycle of the Linqora host:           *)
(*   LinqoraHost/internal/ws/room.go, room_manager.go                      *)
(*   LinqoraHost/internal/collectors/manager.go (and Start/Stop of the     *)
(*   metrics, media and clipboard collectors)                              *)
(*   the calls into them from LinqoraHost/internal/ws/server.go            *)
(*                                                                         *)
(* The threads are the read pump of every connection and the inactivity    *)
(* monitor.  A step is one critical section: what a thread does while it   *)
(* holds rm.mu, room.mu, client.mu, clientsMutex or cm.mu, with the        *)
(* thread-local code around it.  AddClientToRoom and RemoveClientFromRoom  *)
(* each take several such sections, so they interleave.                    *)
(*                                                                         *)
(* A *Room is an identifier of RoomIds: a room deleted from rm.Rooms       *)
(* stays reachable by a thread that looked it up before.                   *)
(***************************************************************************)
EXTENDS Naturals, FiniteSets

CONSTANTS
  Clients,         \* connections (*Client objects); a reconnect is another one
  RoomNames,       \* room names clients ask for (msg.Room)
  CollectorRooms,  \* the names CollectorManager serves: metrics, media, clipboard
  RoomIds,         \* identities of *Room objects
  Messages,        \* bound: join/leave messages each connection sends
  Monitor,         \* the goroutine of StartInactiveClientsMonitor
  NoRoom, NoName, NoClient

ASSUME ConstantsAssumption ==
  /\ CollectorRooms \subseteq RoomNames
  /\ Messages \in [Clients -> Nat]
  /\ Monitor \notin Clients
  /\ NoClient \notin Clients
  /\ NoRoom \notin RoomIds
  /\ NoName \notin RoomNames

Threads == Clients \cup {Monitor}

VARIABLES
  rooms,        \* rm.Rooms: name -> the room in the map, or NoRoom
  members,      \* Room.Clients, per room object
  clientRooms,  \* Client.Rooms, per client
  registered,   \* WSServer.clients
  conn,         \* "none", "open", "closed" (Conn.Close called), "ended" (read loop left)
  activeRooms,  \* CollectorManager.activeRooms: the names it holds
  isRunning,    \* isRunning of each collector
  gen,          \* number of Start calls that started a loop, per collector
  loops,        \* collector goroutines not yet returned, as <<name, generation>>
  cancelled,    \* those whose context is cancelled
  pc, arg, obj, flag, todo,  \* locals of a thread inside an operation
  victims, victim,           \* the monitor's inactiveClients and loop variable
  budget        \* messages each connection may still send

roomVars == <<rooms, members, clientRooms>>
collVars == <<activeRooms, isRunning, gen, loops, cancelled>>
connVars == <<registered, conn, budget>>
monVars == <<victims, victim>>
vars == <<roomVars, collVars, connVars, monVars, pc, arg, obj, flag, todo>>

Labels == {"off", "idle", "addCount", "addMember", "addState", "first",
           "remCount", "remHas", "remMember", "remState", "remCheck",
           "remDelete", "last", "snapshot", "sweep", "evict", "done"}

TypeOK ==
  /\ rooms \in [RoomNames -> RoomIds \cup {NoRoom}]
  /\ members \in [RoomIds -> SUBSET Clients]
  /\ clientRooms \in [Clients -> SUBSET RoomNames]
  /\ registered \in SUBSET Clients
  /\ conn \in [Clients -> {"none", "open", "closed", "ended"}]
  /\ activeRooms \in SUBSET RoomNames
  /\ isRunning \in [CollectorRooms -> BOOLEAN]
  /\ gen \in [CollectorRooms -> Nat]
  /\ loops \in SUBSET (CollectorRooms \X Nat)
  /\ cancelled \in SUBSET (CollectorRooms \X Nat)
  /\ pc \in [Threads -> Labels]
  /\ arg \in [Threads -> RoomNames \cup {NoName}]
  /\ obj \in [Threads -> RoomIds \cup {NoRoom}]
  /\ flag \in [Threads -> BOOLEAN]
  /\ todo \in [Threads -> SUBSET RoomNames]
  /\ victims \in SUBSET Clients
  /\ victim \in Clients \cup {NoClient}
  /\ budget \in [Clients -> Nat]

Init ==
  /\ rooms = [n \in RoomNames |-> NoRoom]
  /\ members = [o \in RoomIds |-> {}]
  /\ clientRooms = [c \in Clients |-> {}]
  /\ registered = {}
  /\ conn = [c \in Clients |-> "none"]
  /\ activeRooms = {}
  /\ isRunning = [n \in CollectorRooms |-> FALSE]
  /\ gen = [n \in CollectorRooms |-> 0]
  /\ loops = {}
  /\ cancelled = {}
  /\ pc = [t \in Threads |-> IF t = Monitor THEN "idle" ELSE "off"]
  /\ arg = [t \in Threads |-> NoName]
  /\ obj = [t \in Threads |-> NoRoom]
  /\ flag = [t \in Threads |-> FALSE]
  /\ todo = [t \in Threads |-> {}]
  /\ victims = {}
  /\ victim = NoClient
  /\ budget = Messages

-----------------------------------------------------------------------------
(* The client an operation of thread t is about. *)
Subject(t) == IF t = Monitor THEN victim ELSE t

(* t runs RemoveClientFromRoom from the loop of RemoveClientFromAllRooms. *)
Sweeping(t) == t = Monitor \/ conn[t] = "ended"

Goto(t, l) == pc' = [pc EXCEPT ![t] = l]

(* The operation returns to its caller: its locals die. *)
Return(t) ==
  /\ Goto(t, IF Sweeping(t) THEN "sweep" ELSE "idle")
  /\ arg' = [arg EXCEPT ![t] = NoName]
  /\ obj' = [obj EXCEPT ![t] = NoRoom]
  /\ flag' = [flag EXCEPT ![t] = FALSE]

(* The next section of the same operation: arg and obj stay, flag may change. *)
Continue(t, l) == Goto(t, l) /\ UNCHANGED <<arg, obj>>

-----------------------------------------------------------------------------
(* handleWSConnection: register the client, start its pumps. *)
Connect(c) ==
  /\ conn[c] = "none"
  /\ conn' = [conn EXCEPT ![c] = "open"]
  /\ registered' = registered \cup {c}
  /\ Goto(c, "idle")
  /\ UNCHANGED <<roomVars, collVars, monVars, arg, obj, flag, todo, budget>>

(* The read pump hands a join_room or leave_room message to its handler.  A  *)
(* frame already buffered is still read after Conn.Close.                    *)
Receive(c) ==
  /\ pc[c] = "idle"
  /\ conn[c] \in {"open", "closed"}
  /\ budget[c] > 0
  /\ budget' = [budget EXCEPT ![c] = @ - 1]

(* No pointer to the room is left, so a new room may take its identity: with *)
(* one more identity than a state can refer to, RoomIds bounds nothing.      *)
Unreferenced(o) ==
  /\ \A n \in RoomNames : rooms[n] # o
  /\ \A t \in Threads : obj[t] # o

(* AddClientToRoom, section 1: GetOrCreateRoom under rm.mu. *)
JoinRoom(c, n) ==
  /\ Receive(c)
  /\ Goto(c, "addCount")
  /\ arg' = [arg EXCEPT ![c] = n]
  /\ \/ /\ rooms[n] # NoRoom
        /\ obj' = [obj EXCEPT ![c] = rooms[n]]
        /\ UNCHANGED <<rooms, members>>
     \/ \E o \in RoomIds :
          /\ rooms[n] = NoRoom /\ Unreferenced(o)
          /\ obj' = [obj EXCEPT ![c] = o]
          /\ rooms' = [rooms EXCEPT ![n] = o]
          /\ members' = [members EXCEPT ![o] = {}]
  /\ UNCHANGED <<clientRooms, collVars, monVars, registered, conn, flag, todo>>

(* Mutant of AddCount: isFirst off by one. *)
AddCountOffByOne(t) ==
  /\ pc[t] = "addCount"
  /\ flag' = [flag EXCEPT ![t] = Cardinality(members[obj[t]]) = 1]
  /\ Continue(t, "addMember")
  /\ UNCHANGED <<roomVars, collVars, connVars, monVars, todo>>

(* Section 2: isFirst := room.ClientCount() == 0, under room.mu. *)
AddCount(t) ==
  /\ pc[t] = "addCount"
  /\ flag' = [flag EXCEPT ![t] = members[obj[t]] = {}]
  /\ Continue(t, "addMember")
  /\ UNCHANGED <<roomVars, collVars, connVars, monVars, todo>>

(* Mutant of AddMember: a room's first client is not stored. *)
AddMemberUnlessFirst(t) ==
  /\ pc[t] = "addMember"
  /\ members' = [members EXCEPT ![obj[t]] = IF flag[t] THEN @ ELSE @ \cup {Subject(t)}]
  /\ Continue(t, "addState")
  /\ UNCHANGED <<rooms, clientRooms, collVars, connVars, monVars, flag, todo>>

(* Section 3: room.AddClient, under room.mu. *)
AddMember(t) ==
  /\ pc[t] = "addMember"
  /\ members' = [members EXCEPT ![obj[t]] = @ \cup {Subject(t)}]
  /\ Continue(t, "addState")
  /\ UNCHANGED <<rooms, clientRooms, collVars, connVars, monVars, flag, todo>>

(* Section 4: client.Rooms[roomName] = true, under client.mu. *)
AddState(t) ==
  /\ pc[t] = "addState"
  /\ clientRooms' = [clientRooms EXCEPT ![Subject(t)] = @ \cup {arg[t]}]
  /\ IF flag[t]
       THEN Continue(t, "first") /\ UNCHANGED flag
       ELSE Return(t)
  /\ UNCHANGED <<rooms, members, collVars, connVars, monVars, todo>>

(* Mutant of OnFirstClientJoined: no IsRunning test before Start. *)
AlwaysStart(n) ==
  /\ activeRooms' = activeRooms \cup {n}
  /\ isRunning' = [isRunning EXCEPT ![n] = TRUE]
  /\ gen' = [gen EXCEPT ![n] = @ + 1]
  /\ loops' = loops \cup {<<n, gen[n] + 1>>}
  /\ UNCHANGED cancelled

(* Start of a collector: a context and a goroutine of its own. *)
Start(n) ==
  /\ isRunning' = [isRunning EXCEPT ![n] = TRUE]
  /\ gen' = [gen EXCEPT ![n] = @ + 1]
  /\ loops' = loops \cup {<<n, gen[n] + 1>>}

(* CollectorManager.OnFirstClientJoined, under cm.mu; Start runs only here. *)
OnFirstClientJoined(n) ==
  /\ activeRooms' = activeRooms \cup {n}
  /\ IF n \in CollectorRooms /\ ~isRunning[n]
       THEN Start(n)
       ELSE UNCHANGED <<isRunning, gen, loops>>
  /\ UNCHANGED cancelled

(* Section 5: notifyFirstClientJoined. *)
NotifyFirst(t) ==
  /\ pc[t] = "first"
  /\ OnFirstClientJoined(arg[t])
  /\ Return(t)
  /\ UNCHANGED <<roomVars, connVars, monVars, todo>>

-----------------------------------------------------------------------------
(* RemoveClientFromRoom, section 1: the lookup under rm.mu. *)
Lookup(t, n) ==
  IF rooms[n] # NoRoom
    THEN /\ Goto(t, "remCount")
         /\ arg' = [arg EXCEPT ![t] = n]
         /\ obj' = [obj EXCEPT ![t] = rooms[n]]
         /\ UNCHANGED flag
    ELSE Return(t)

LeaveRoom(c, n) ==
  /\ Receive(c)
  /\ Lookup(c, n)
  /\ UNCHANGED <<roomVars, collVars, monVars, registered, conn, todo>>

(* Section 2: room.ClientCount() == 1; && skips HasClient when it is not. *)
RemCount(t) ==
  /\ pc[t] = "remCount"
  /\ Continue(t, IF Cardinality(members[obj[t]]) = 1 THEN "remHas" ELSE "remMember")
  /\ UNCHANGED <<roomVars, collVars, connVars, monVars, flag, todo>>

(* Section 3: room.HasClient(client), the other operand of isLast. *)
RemHas(t) ==
  /\ pc[t] = "remHas"
  /\ flag' = [flag EXCEPT ![t] = Subject(t) \in members[obj[t]]]
  /\ Continue(t, "remMember")
  /\ UNCHANGED <<roomVars, collVars, connVars, monVars, todo>>

(* Section 4: room.RemoveClient. *)
RemMember(t) ==
  /\ pc[t] = "remMember"
  /\ members' = [members EXCEPT ![obj[t]] = @ \ {Subject(t)}]
  /\ Continue(t, "remState")
  /\ UNCHANGED <<rooms, clientRooms, collVars, connVars, monVars, flag, todo>>

(* Section 5: delete(client.Rooms, roomName). *)
RemState(t) ==
  /\ pc[t] = "remState"
  /\ clientRooms' = [clientRooms EXCEPT ![Subject(t)] = @ \ {arg[t]}]
  /\ Continue(t, "remCheck")
  /\ UNCHANGED <<rooms, members, collVars, connVars, monVars, flag, todo>>

(* Mutant of RemCheck: the room is deleted only by the client that was last  *)
(* when it looked first.                                                     *)
RemCheckIfLast(t) ==
  /\ pc[t] = "remCheck"
  /\ IF flag[t] /\ members[obj[t]] = {}
       THEN Continue(t, "remDelete") /\ UNCHANGED flag
       ELSE Return(t)
  /\ UNCHANGED <<roomVars, collVars, connVars, monVars, todo>>

(* Section 6: room.ClientCount() == 0. *)
RemCheck(t) ==
  /\ pc[t] = "remCheck"
  /\ IF members[obj[t]] = {}
       THEN Continue(t, "remDelete") /\ UNCHANGED flag
       ELSE Return(t)
  /\ UNCHANGED <<roomVars, collVars, connVars, monVars, todo>>

(* Section 7: delete(rm.Rooms, roomName), whatever room is there by now. *)
RemDelete(t) ==
  /\ pc[t] = "remDelete"
  /\ rooms' = [rooms EXCEPT ![arg[t]] = NoRoom]
  /\ IF flag[t]
       THEN Continue(t, "last") /\ UNCHANGED flag
       ELSE Return(t)
  /\ UNCHANGED <<members, clientRooms, collVars, connVars, monVars, todo>>

(* Stop of a collector: cancel the context the last Start stored. *)
Stop(n) ==
  /\ isRunning' = [isRunning EXCEPT ![n] = FALSE]
  /\ cancelled' = cancelled \cup {<<n, gen[n]>>}

(* CollectorManager.OnLastClientLeft, under cm.mu; Stop runs only here. *)
OnLastClientLeft(n) ==
  /\ activeRooms' = activeRooms \ {n}
  /\ IF n \in CollectorRooms /\ isRunning[n]
       THEN Stop(n)
       ELSE UNCHANGED <<isRunning, cancelled>>
  /\ UNCHANGED <<gen, loops>>

(* Section 8: notifyLastClientLeft. *)
NotifyLast(t) ==
  /\ pc[t] = "last"
  /\ OnLastClientLeft(arg[t])
  /\ Return(t)
  /\ UNCHANGED <<roomVars, connVars, monVars, todo>>

(* collectLoop (watchLoop) takes the ctx.Done() case. *)
LoopReturn(l) ==
  /\ l \in loops \cap cancelled
  /\ loops' = loops \ {l}
  /\ cancelled' = cancelled \ {l}
  /\ UNCHANGED <<roomVars, connVars, monVars, activeRooms, isRunning, gen,
                 pc, arg, obj, flag, todo>>

-----------------------------------------------------------------------------
(* The read pump's ReadMessage fails; onDisconnect calls removeClient.       *)
Disconnect(c) ==
  /\ pc[c] = "idle"
  /\ conn[c] \in {"open", "closed"}
  /\ conn' = [conn EXCEPT ![c] = "ended"]
  /\ registered' = registered \ {c}
  /\ Goto(c, "snapshot")
  /\ UNCHANGED <<roomVars, collVars, monVars, budget, arg, obj, flag, todo>>

(* Mutant of Snapshot: the sweep trusts Client.Rooms. *)
SnapshotOfClientRooms(t) ==
  /\ pc[t] = "snapshot"
  /\ todo' = [todo EXCEPT ![t] = clientRooms[Subject(t)]]
  /\ Goto(t, "sweep")
  /\ UNCHANGED <<roomVars, collVars, connVars, monVars, arg, obj, flag>>

(* RemoveClientFromAllRooms collects the names under rm.mu.  HasClient takes *)
(* room.mu room by room, but only one other thread touches the memberships   *)
(* of one client, and it can change one room before it needs rm.mu again: a  *)
(* snapshot at one instant has the same outcomes.                            *)
Snapshot(t) ==
  /\ pc[t] = "snapshot"
  /\ todo' = [todo EXCEPT ![t] =
       {n \in RoomNames : rooms[n] # NoRoom /\ Subject(t) \in members[rooms[n]]}]
  /\ Goto(t, "sweep")
  /\ UNCHANGED <<roomVars, collVars, connVars, monVars, arg, obj, flag>>

(* Mutant of SweepNext: the loop does not advance. *)
SweepSame(t, n) ==
  /\ pc[t] = "sweep"
  /\ n \in todo[t]
  /\ Lookup(t, n)
  /\ UNCHANGED <<roomVars, collVars, connVars, monVars, todo>>

(* The next RemoveClientFromRoom of that loop. *)
SweepNext(t, n) ==
  /\ pc[t] = "sweep"
  /\ n \in todo[t]
  /\ todo' = [todo EXCEPT ![t] = @ \ {n}]
  /\ Lookup(t, n)
  /\ UNCHANGED <<roomVars, collVars, connVars, monVars>>

(* The loop ends: the read pump is finished, the monitor goes to its next    *)
(* victim.                                                                   *)
SweepEnd(t) ==
  /\ pc[t] = "sweep"
  /\ todo[t] = {}
  /\ IF t = Monitor
       THEN /\ victim' = NoClient
            /\ Goto(t, IF victims = {} THEN "idle" ELSE "evict")
       ELSE /\ Goto(t, "done")
            /\ UNCHANGED victim
  /\ UNCHANGED <<roomVars, collVars, connVars, victims, arg, obj, flag, todo>>

(* checkInactiveClients, under clientsMutex: the registered clients silent   *)
(* for over two minutes.  Any of them may be.                                *)
CheckInactive ==
  /\ pc[Monitor] = "idle"
  /\ \E V \in SUBSET registered \ {{}} : victims' = V
  /\ Goto(Monitor, "evict")
  /\ UNCHANGED <<roomVars, collVars, connVars, victim, arg, obj, flag, todo>>

(* Mutant of Evict: the victim stays in the registry. *)
EvictKeepsRegistered(c) ==
  /\ pc[Monitor] = "evict"
  /\ c \in victims
  /\ victims' = victims \ {c}
  /\ victim' = c
  /\ conn' = [conn EXCEPT ![c] = IF @ = "open" THEN "closed" ELSE @]
  /\ Goto(Monitor, "snapshot")
  /\ UNCHANGED <<roomVars, collVars, registered, budget, arg, obj, flag, todo>>

(* One victim: Conn.Close, removeClient.  Its read pump may fail at any time *)
(* anyway, so the two are one step.                                          *)
Evict(c) ==
  /\ pc[Monitor] = "evict"
  /\ c \in victims
  /\ victims' = victims \ {c}
  /\ victim' = c
  /\ conn' = [conn EXCEPT ![c] = IF @ = "open" THEN "closed" ELSE @]
  /\ registered' = registered \ {c}
  /\ Goto(Monitor, "snapshot")
  /\ UNCHANGED <<roomVars, collVars, budget, arg, obj, flag, todo>>

-----------------------------------------------------------------------------
(* The sections of an operation already under way. *)
Operation(t) ==
  \/ AddCount(t) \/ AddMember(t) \/ AddState(t) \/ NotifyFirst(t)
  \/ RemCount(t) \/ RemHas(t) \/ RemMember(t) \/ RemState(t)
  \/ RemCheck(t) \/ RemDelete(t) \/ NotifyLast(t)
  \/ Snapshot(t) \/ (\E n \in RoomNames : SweepNext(t, n)) \/ SweepEnd(t)

Next ==
  \/ \E c \in Clients : Connect(c) \/ Disconnect(c)
  \/ \E c \in Clients, n \in RoomNames : JoinRoom(c, n) \/ LeaveRoom(c, n)
  \/ \E t \in Threads : Operation(t)
  \/ CheckInactive
  \/ \E c \in Clients : Evict(c)
  \/ \E l \in loops : LoopReturn(l)

Spec == Init /\ [][Next]_vars

(* Fairness: the scheduler runs every goroutine that is not blocked, and a   *)
(* closed connection fails its reader once the buffered frames are read.     *)
Fairness ==
  /\ \A t \in Threads : WF_vars(Operation(t))
  /\ \A c \in Clients : WF_vars(conn[c] = "closed" /\ Disconnect(c))
  /\ WF_vars(\E c \in Clients : Evict(c))
  /\ WF_vars(\E l \in loops : LoopReturn(l))

FairSpec == Spec /\ Fairness

-----------------------------------------------------------------------------
(* At most one loop of a collector runs on a live context, and isRunning     *)
(* tells exactly whether one does: a restart racing the exit of the old loop *)
(* never leaves two loops broadcasting, nor one that no Stop can reach.      *)
LiveLoops(n) == {l \in loops \ cancelled : l[1] = n}

OneLiveLoop ==
  \A n \in CollectorRooms :
    LiveLoops(n) = IF isRunning[n] THEN {<<n, gen[n]>>} ELSE {}

(* Whatever sweeps and joins of others interleave with its cleanup, a client *)
(* whose read pump has finished is in no room a broadcast can reach.         *)
FinishedClientGone ==
  \A c \in Clients : pc[c] = "done" =>
    \A n \in RoomNames : rooms[n] # NoRoom => c \notin members[rooms[n]]

(* A registered client between two messages is a member of no room it has    *)
(* not joined (or has left): API.md, "A client only receives broadcasts for  *)
(* rooms it has joined".                                                     *)
NoUnaskedMembership ==
  \A c \in Clients : c \in registered /\ pc[c] = "idle" =>
    \A n \in RoomNames :
      rooms[n] # NoRoom /\ c \in members[rooms[n]] => n \in clientRooms[c]

(* When no operation is under way, the map holds no empty room: whatever     *)
(* leaves and joins overlapped, someone saw the room empty and deleted it.   *)
AtRest(t) == pc[t] \in {"off", "idle", "done"}

NoEmptyRoomKept ==
  (\A t \in Threads : AtRest(t)) =>
    \A n \in RoomNames : rooms[n] # NoRoom => members[rooms[n]] # {}

(* A connection that was closed, by the monitor or by the peer, is cleaned   *)
(* up: no overlap of sweeps blocks the cleanup.                              *)
ClosedClientFinishes ==
  \A c \in Clients : conn[c] = "closed" ~> pc[c] = "done"

(* What the documentation promises and overlapping operations break: with    *)
(* nothing under way, a registered client that has joined a room is a member *)
(* of the room in the map, and the room's collector runs.                    *)
JoinedClientIsServed ==
  (\A t \in Threads : AtRest(t)) =>
    \A c \in registered : \A n \in clientRooms[c] :
      /\ rooms[n] # NoRoom /\ c \in members[rooms[n]]
      /\ n \in CollectorRooms => isRunning[n]

-----------------------------------------------------------------------------
(* The same code when operations on one room do not overlap (operations on   *)
(* different rooms still do): what a single phone that waits for its room    *)
(* changes produces, and what one lock per room name would give.             *)
Exclusive == \A t, u \in Threads : arg[t] = arg[u] /\ arg[t] # NoName => t = u

ExclusiveNext == Next /\ Exclusive'

ExclusiveSpec ==
  /\ Init /\ [][ExclusiveNext]_vars
  /\ \A t \in Threads : WF_vars(Operation(t) /\ Exclusive')

Service == INSTANCE RoomService WITH
  subscribers <- [n \in RoomNames |->
                    IF rooms[n] = NoRoom THEN {} ELSE members[rooms[n]]],
  collecting <- isRunning

(* Then the room manager and the collector manager together implement the    *)
(* abstract service, its fairness included: no start is lost, no collector   *)
(* stops under a subscriber.                                                 *)
ImplementsService == Service!Spec
=============================================================================
