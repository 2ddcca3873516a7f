------------------------------- MODULE Client -------------------------------
(***************************************************************************)
(* Connections of the host, from the upgrade to the last of their          *)
(* goroutines, and what is sent to them:                                   *)
(*   LinqoraHost/internal/ws/client.go                                     *)
(*   LinqoraHost/internal/ws/server.go (registry, broadcastToAll,          *)
(*   inactivity monitor, Shutdown)                                         *)
(*                                                                         *)
(* Threads: the read and the write pump of every client, the broadcasting  *)
(* goroutines, the goroutines that close a slow client, the monitor and    *)
(* the one in Shutdown.  A step is a section under clientsMutex (with the  *)
(* client.mu sections inside it), under client.mu, or one operation on a   *)
(* connection.  Timers and network errors may come at any moment.          *)
(***************************************************************************)
EXTENDS Naturals, Sequences

CONSTANTS
  Clients,   \* connections (*Client objects)
  Senders,   \* broadcasting goroutines: battery alerts, scheduled scripts
  Cap,       \* capacity of SendChannel (256 in the code)
  Sends      \* bound: broadcasts of a sender, replies of a read pump

ASSUME ConstantsAssumption ==
  /\ Clients \cap Senders = {}
  /\ Cap \in Nat \ {0}
  /\ Sends \in [Clients \cup Senders -> Nat]

VARIABLES
  conn,        \* "none", "upgraded" (not registered yet), "open", "closed"
  registered,  \* WSServer.clients
  closed,      \* Client.closed; SendChannel is closed and nil with it
  chan,        \* what SendChannel buffers
  rp,          \* read pump: "off", "reading", "cleanup", "done"
  wp,          \* write pump: "off", "top", "enter", "select", "nil", "write", "done"
  hand,        \* the message the write pump has taken, as a sequence
  closers,     \* clients with a pending go c.Close()
  sent,        \* messages each sender and each read pump has made
  todo,        \* what is left of a sender's snapshot of the registry
  silent,      \* clients whose last ping is over two minutes old
  victims,     \* the monitor's inactiveClients
  evicting,    \* those whose Conn.Close is done and removeClient is not
  server,      \* "up", "closing", "deaf" (listener closed), "down" (cancelled)
  accepted,    \* history: messages sendMessage took
  written      \* history: messages written to the connection

pumpVars == <<rp, wp, hand>>
sendVars == <<sent, todo>>
monVars == <<silent, victims, evicting>>
histVars == <<accepted, written>>
vars == <<conn, registered, closed, chan, pumpVars, closers, sendVars, monVars,
          server, histVars>>

(* A message: who sent it, and its number. *)
Packets == UNION {{s} \X (1..Sends[s]) : s \in Clients \cup Senders}

TypeOK ==
  /\ conn \in [Clients -> {"none", "upgraded", "open", "closed"}]
  /\ registered \in SUBSET Clients
  /\ closed \in [Clients -> BOOLEAN]
  /\ chan \in [Clients -> Seq(Packets)]
  /\ \A c \in Clients : Len(chan[c]) <= Cap
  /\ rp \in [Clients -> {"off", "reading", "cleanup", "done"}]
  /\ wp \in [Clients -> {"off", "top", "enter", "select", "nil", "write", "done"}]
  /\ hand \in [Clients -> Seq(Packets)]
  /\ closers \in SUBSET Clients
  /\ sent \in [Clients \cup Senders -> Nat]
  /\ todo \in [Senders -> SUBSET Clients]
  /\ silent \in SUBSET Clients
  /\ victims \in SUBSET Clients /\ evicting \in SUBSET Clients
  /\ server \in {"up", "closing", "deaf", "down"}
  /\ accepted \in [Clients -> Seq(Packets)]
  /\ written \in [Clients -> Seq(Packets)]

Init ==
  /\ conn = [c \in Clients |-> "none"]
  /\ registered = {}
  /\ closed = [c \in Clients |-> FALSE]
  /\ chan = [c \in Clients |-> <<>>]
  /\ rp = [c \in Clients |-> "off"]
  /\ wp = [c \in Clients |-> "off"]
  /\ hand = [c \in Clients |-> <<>>]
  /\ closers = {}
  /\ sent = [s \in Clients \cup Senders |-> 0]
  /\ todo = [s \in Senders |-> {}]
  /\ silent = {} /\ victims = {} /\ evicting = {}
  /\ server = "up"
  /\ accepted = [c \in Clients |-> <<>>]
  /\ written = [c \in Clients |-> <<>>]

-----------------------------------------------------------------------------
(* Close, under client.mu; a second call returns at once. *)
CloseAll(C) ==
  /\ closed' = [c \in Clients |-> closed[c] \/ c \in C]
  /\ conn' = [c \in Clients |-> IF c \in C /\ ~closed[c] THEN "closed" ELSE conn[c]]

(* removeClient, under clientsMutex: only whoever finds it in the registry   *)
(* closes it.                                                                *)
RemoveClient(c) ==
  /\ registered' = registered \ {c}
  /\ CloseAll({c} \cap registered)

(* handleWSConnection, Upgrade: as long as the listener accepts. *)
Upgrade(c) ==
  /\ server \in {"up", "closing"}
  /\ conn[c] = "none"
  /\ conn' = [conn EXCEPT ![c] = "upgraded"]
  /\ UNCHANGED <<registered, closed, chan, pumpVars, closers, sendVars, monVars,
                 server, histVars>>

(* ... and the registration; then the pumps start. *)
Register(c) ==
  /\ conn[c] = "upgraded"
  /\ conn' = [conn EXCEPT ![c] = "open"]
  /\ registered' = registered \cup {c}
  /\ rp' = [rp EXCEPT ![c] = "reading"]
  /\ wp' = [wp EXCEPT ![c] = "top"]
  /\ UNCHANGED <<closed, chan, hand, closers, sendVars, monVars, server, histVars>>

-----------------------------------------------------------------------------
(* Mutant of SendMessage: what does not fit is dropped. *)
SendOrDrop(c, m) ==
  \/ /\ closed[c] \/ Len(chan[c]) = Cap
     /\ UNCHANGED <<chan, accepted, closers>>
  \/ /\ ~closed[c] /\ Len(chan[c]) < Cap
     /\ chan' = [chan EXCEPT ![c] = Append(@, m)]
     /\ accepted' = [accepted EXCEPT ![c] = Append(@, m)]
     /\ UNCHANGED closers

(* sendMessage, under client.mu: refused when closed, taken when there is    *)
(* room, and otherwise the client is too slow and will be closed.            *)
SendMessage(c, m) ==
  \/ /\ closed[c]
     /\ UNCHANGED <<chan, accepted, closers>>
  \/ /\ ~closed[c] /\ Len(chan[c]) < Cap
     /\ chan' = [chan EXCEPT ![c] = Append(@, m)]
     /\ accepted' = [accepted EXCEPT ![c] = Append(@, m)]
     /\ UNCHANGED closers
  \/ /\ ~closed[c] /\ Len(chan[c]) = Cap
     /\ closers' = closers \cup {c}
     /\ UNCHANGED <<chan, accepted>>

(* The handler of a message the read pump has read answers its client. *)
Reply(c) ==
  /\ rp[c] = "reading"
  /\ sent[c] < Sends[c]
  /\ sent' = [sent EXCEPT ![c] = @ + 1]
  /\ SendMessage(c, <<c, sent'[c]>>)
  /\ UNCHANGED <<conn, registered, closed, pumpVars, todo, monVars, server, written>>

(* broadcastToAll: a snapshot of the open clients under clientsMutex... *)
Broadcast(s) ==
  /\ todo[s] = {}
  /\ sent[s] < Sends[s]
  /\ sent' = [sent EXCEPT ![s] = @ + 1]
  /\ todo' = [todo EXCEPT ![s] = {c \in registered : ~closed[c]}]
  /\ UNCHANGED <<conn, registered, closed, chan, pumpVars, closers, monVars,
                 server, histVars>>

(* ... and one SendSuccess after the other without it. *)
SendNext(s, c) ==
  /\ c \in todo[s]
  /\ todo' = [todo EXCEPT ![s] = @ \ {c}]
  /\ SendMessage(c, <<s, sent[s]>>)
  /\ UNCHANGED <<conn, registered, closed, pumpVars, sent, monVars, server, written>>

(* The goroutine started for a slow client. *)
CloseSlow(c) ==
  /\ c \in closers
  /\ closers' = closers \ {c}
  /\ CloseAll({c})
  /\ UNCHANGED <<registered, chan, pumpVars, sendVars, monVars, server, histVars>>

-----------------------------------------------------------------------------
(* StartWritePump, head of the loop: IsClosed. *)
PumpTop(c) ==
  /\ wp[c] = "top"
  /\ wp' = [wp EXCEPT ![c] = IF closed[c] THEN "done" ELSE "enter"]
  /\ UNCHANGED <<conn, registered, closed, chan, rp, hand, closers, sendVars,
                 monVars, server, histVars>>

(* The select evaluates c.SendChannel without the lock: after a Close in     *)
(* between it may see nil, and then only the ticker can wake it.             *)
PumpEnter(c) ==
  /\ wp[c] = "enter"
  /\ \E channel \in {"select"} \cup (IF closed[c] THEN {"nil"} ELSE {}) :
       wp' = [wp EXCEPT ![c] = channel]
  /\ UNCHANGED <<conn, registered, closed, chan, rp, hand, closers, sendVars,
                 monVars, server, histVars>>

(* A message is there; a closed channel still hands out what it buffers.     *)
PumpTake(c) ==
  /\ wp[c] = "select"
  /\ chan[c] # <<>>
  /\ hand' = [hand EXCEPT ![c] = <<Head(chan[c])>>]
  /\ chan' = [chan EXCEPT ![c] = Tail(@)]
  /\ wp' = [wp EXCEPT ![c] = "write"]
  /\ UNCHANGED <<conn, registered, closed, rp, closers, sendVars, monVars, server,
                 histVars>>

(* The channel is closed and empty. *)
PumpStop(c) ==
  /\ wp[c] = "select"
  /\ closed[c] /\ chan[c] = <<>>
  /\ wp' = [wp EXCEPT ![c] = "done"]
  /\ UNCHANGED <<conn, registered, closed, chan, rp, hand, closers, sendVars,
                 monVars, server, histVars>>

(* Mutant of PumpWrite: an error does not end the pump. *)
PumpWriteGoesOn(c) ==
  /\ wp[c] = "write"
  /\ hand' = [hand EXCEPT ![c] = <<>>]
  /\ wp' = [wp EXCEPT ![c] = "top"]
  /\ \/ /\ conn[c] = "open"
        /\ written' = [written EXCEPT ![c] = @ \o hand[c]]
     \/ UNCHANGED written
  /\ UNCHANGED <<conn, registered, closed, chan, rp, closers, sendVars, monVars,
                 server, accepted>>

(* The message goes out, or the write fails: always on a connection that was *)
(* closed here, at any time on one the peer has left or stalled.             *)
PumpWrite(c) ==
  /\ wp[c] = "write"
  /\ hand' = [hand EXCEPT ![c] = <<>>]
  /\ \/ /\ conn[c] = "open"
        /\ written' = [written EXCEPT ![c] = @ \o hand[c]]
        /\ wp' = [wp EXCEPT ![c] = "top"]
     \/ /\ wp' = [wp EXCEPT ![c] = "done"]
        /\ UNCHANGED written
  /\ UNCHANGED <<conn, registered, closed, chan, rp, closers, sendVars, monVars,
                 server, accepted>>

(* Mutant of PumpPing: the error of the ping is ignored. *)
PumpPingGoesOn(c) ==
  /\ wp[c] \in {"select", "nil"}
  /\ wp' = [wp EXCEPT ![c] = "top"]
  /\ UNCHANGED <<conn, registered, closed, chan, rp, hand, closers, sendVars,
                 monVars, server, histVars>>

(* The ticker: a ping, which may fail as any write. *)
PumpPing(c) ==
  /\ wp[c] \in {"select", "nil"}
  /\ \E next \in {"done"} \cup (IF conn[c] = "open" THEN {"top"} ELSE {}) :
       wp' = [wp EXCEPT ![c] = next]
  /\ UNCHANGED <<conn, registered, closed, chan, rp, hand, closers, sendVars,
                 monVars, server, histVars>>

-----------------------------------------------------------------------------
(* ReadMessage fails: closed here, left by the peer, or no pong in time.     *)
ReadFails(c) ==
  /\ rp[c] = "reading"
  /\ rp' = [rp EXCEPT ![c] = "cleanup"]
  /\ UNCHANGED <<conn, registered, closed, chan, wp, hand, closers, sendVars,
                 monVars, server, histVars>>

(* onDisconnect; the rooms' part is in module Rooms. *)
Cleanup(c) ==
  /\ rp[c] = "cleanup"
  /\ rp' = [rp EXCEPT ![c] = "done"]
  /\ RemoveClient(c)
  /\ UNCHANGED <<chan, wp, hand, closers, sendVars, monVars, server, histVars>>

(* Two minutes without a ping; a ping ends the silence. *)
FallSilent(c) ==
  /\ rp[c] = "reading" /\ c \notin silent
  /\ silent' = silent \cup {c}
  /\ UNCHANGED <<conn, registered, closed, chan, pumpVars, closers, sendVars,
                 victims, evicting, server, histVars>>

Ping(c) ==
  /\ rp[c] = "reading" /\ c \in silent
  /\ silent' = silent \ {c}
  /\ UNCHANGED <<conn, registered, closed, chan, pumpVars, closers, sendVars,
                 victims, evicting, server, histVars>>

(* Mutant of CheckInactive: the comparison is the wrong way round. *)
CheckActive ==
  /\ server # "down"
  /\ victims = {} /\ evicting = {}
  /\ victims' = registered \ silent
  /\ UNCHANGED <<conn, registered, closed, chan, pumpVars, closers, sendVars,
                 silent, evicting, server, histVars>>

(* checkInactiveClients, the snapshot; the monitor ends with s.ctx. *)
CheckInactive ==
  /\ server # "down"
  /\ victims = {} /\ evicting = {}
  /\ victims' = registered \cap silent
  /\ UNCHANGED <<conn, registered, closed, chan, pumpVars, closers, sendVars,
                 silent, evicting, server, histVars>>

(* ... Conn.Close of a victim, whatever it did since... *)
EvictClose(c) ==
  /\ c \in victims /\ evicting = {}
  /\ victims' = victims \ {c}
  /\ evicting' = {c}
  /\ conn' = [conn EXCEPT ![c] = "closed"]
  /\ UNCHANGED <<registered, closed, chan, pumpVars, closers, sendVars, silent,
                 server, histVars>>

(* ... and removeClient. *)
EvictRemove(c) ==
  /\ c \in evicting
  /\ evicting' = {}
  /\ RemoveClient(c)
  /\ UNCHANGED <<chan, pumpVars, closers, sendVars, silent, victims, server, histVars>>

-----------------------------------------------------------------------------
(* Mutant of ShutdownClients: the registry is emptied first. *)
ShutdownForgets ==
  /\ server = "up"
  /\ server' = "closing"
  /\ registered' = {}
  /\ UNCHANGED <<conn, closed, chan, pumpVars, closers, sendVars, monVars, histVars>>

(* Shutdown, under clientsMutex: Conn.Close for every registered client, but *)
(* no Client.Close.                                                          *)
ShutdownClients ==
  /\ server = "up"
  /\ server' = "closing"
  /\ conn' = [c \in Clients |-> IF c \in registered THEN "closed" ELSE conn[c]]
  /\ registered' = {}
  /\ UNCHANGED <<closed, chan, pumpVars, closers, sendVars, monVars, histVars>>

(* httpServer.Shutdown stops the listener; upgraded connections are no       *)
(* longer its business.                                                      *)
ShutdownListener ==
  /\ server = "closing"
  /\ server' = "deaf"
  /\ UNCHANGED <<conn, registered, closed, chan, pumpVars, closers, sendVars,
                 monVars, histVars>>

(* s.cancel(), and Shutdown returns. *)
ShutdownEnd ==
  /\ server = "deaf"
  /\ server' = "down"
  /\ UNCHANGED <<conn, registered, closed, chan, pumpVars, closers, sendVars,
                 monVars, histVars>>

-----------------------------------------------------------------------------
WritePump(c) ==
  PumpTop(c) \/ PumpEnter(c) \/ PumpTake(c) \/ PumpStop(c) \/ PumpWrite(c)

Next ==
  \/ \E c \in Clients :
       \/ Upgrade(c) \/ Register(c) \/ Reply(c) \/ CloseSlow(c)
       \/ WritePump(c) \/ PumpPing(c) \/ ReadFails(c) \/ Cleanup(c)
       \/ FallSilent(c) \/ Ping(c) \/ EvictClose(c) \/ EvictRemove(c)
  \/ \E s \in Senders : Broadcast(s) \/ \E c \in Clients : SendNext(s, c)
  \/ CheckInactive
  \/ ShutdownClients \/ ShutdownListener \/ ShutdownEnd

Spec == Init /\ [][Next]_vars

(* Fairness: goroutines that are not blocked run; the write pump's ticker    *)
(* ticks, and its select takes a waiting message sooner or later, since a    *)
(* tick comes once in 54 s; a read fails once the connection is closed here, *)
(* or once nobody sends the pings whose pongs push its deadline; the monitor *)
(* ticks.                                                                    *)
Fairness ==
  /\ \A c \in Clients :
       /\ WF_vars(Register(c)) /\ WF_vars(CloseSlow(c)) /\ WF_vars(Cleanup(c))
       /\ WF_vars(WritePump(c)) /\ SF_vars(PumpTake(c))
       /\ WF_vars(wp[c] = "nil" /\ PumpPing(c))
       /\ WF_vars(conn[c] = "closed" /\ PumpPing(c))
       /\ WF_vars((conn[c] = "closed" \/ wp[c] = "done") /\ ReadFails(c))
       /\ WF_vars(EvictClose(c)) /\ WF_vars(EvictRemove(c))
  /\ WF_vars(CheckInactive)

FairSpec == Spec /\ Fairness

-----------------------------------------------------------------------------
(* No broadcast is lost silently: a client that was in the snapshot has been *)
(* given the message, is still to get it, or is closed or about to be.  A    *)
(* client the host keeps has missed nothing.                                 *)
Got(c, m) == \E i \in 1..Len(accepted[c]) : accepted[c][i] = m

NoSilentLoss ==
  \A s \in Senders, c \in registered : \A k, n \in 1..sent[s] :
    k < n /\ Got(c, <<s, k>>) =>
      \/ Got(c, <<s, n>>)
      \/ n = sent[s] /\ c \in todo[s]
      \/ closed[c] \/ c \in closers

(* Whoever wins the race to clean up, the connection of a client whose read  *)
(* pump is done has been closed.                                             *)
NothingLeaks == \A c \in Clients : rp[c] = "done" => conn[c] = "closed"

(* What Shutdown does keep of its promise: a connection whose registration   *)
(* it found, or that was removed before, is closed from the walk on for      *)
(* good, whatever the pumps, the monitor and slow closes were doing.         *)
RegisteredAreDisconnected ==
  \A c \in Clients :
    [](c \in registered /\ server = "up" => [](server # "up" => conn[c] = "closed"))

(* Once the host has closed a connection, by whichever of its four ways,     *)
(* both pumps end: none waits for ever on a nil or forgotten channel.        *)
CutClientsEnd ==
  \A c \in Clients : conn[c] = "closed" ~> rp[c] = "done" /\ wp[c] = "done"

(* A client that stops pinging leaves the registry, unless the server does.  *)
SilentIsEvicted ==
  \A c \in Clients :
    c \in silent \cap registered ~> c \notin silent \cap registered \/ server = "down"

(* What clients are sent implements the abstract service: no gap, no         *)
(* repetition, no reordering, a bounded backlog, and delivery while the      *)
(* connection stands.                                                        *)
Service == INSTANCE Outbox WITH
  delivered <- written,
  up <- [c \in Clients |-> conn[c] # "closed" /\ wp[c] # "done"],
  Backlog <- Cap + 1

ImplementsOutbox == Service!Spec

(* server.go:202, "Shutdown gracefully stops the server and disconnects all  *)
(* clients": once it has returned no connection is open.                     *)
ShutdownDisconnects ==
  server = "down" => \A c \in Clients : conn[c] \in {"none", "closed"}
=============================================================================
