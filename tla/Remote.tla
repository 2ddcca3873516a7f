------------------------------- MODULE Remote -------------------------------
(***************************************************************************)
(* The connection of the mobile app:                                       *)
(*   linqoraremote/lib/data/providers/websocket_provider.dart              *)
(*   linqoraremote/lib/presentation/controllers/device_home_controller.dart *)
(*   linqoraremote/lib/presentation/pages/device_home_page.dart            *)
(*                                                                         *)
(* One event loop.  An asynchronous function runs without interruption     *)
(* from one await to the next; in between it is a task, and anything else  *)
(* may happen: timers, events of sockets, the user, other such functions.  *)
(* Rooms, handlers and what is sent are left out.                          *)
(***************************************************************************)
EXTENDS Naturals, Sequences

CONSTANTS
  MaxReconnects,  \* Len(_reconnectDelays)
  MaxSockets,     \* bound: connections established
  MaxCalls,       \* bound: what the user and the background service ask for
  TaskIds         \* bound: asynchronous functions under way

ASSUME RemoteAssumption ==
  MaxReconnects \in Nat /\ MaxSockets \in Nat /\ MaxCalls \in Nat /\ TaskIds \subseteq Nat

VARIABLES
  sockets,         \* the connections so far, see Socket
  channel,         \* _channel, 0 for null
  subscription,    \* _subscription, by the socket it listens to
  connected,       \* _isConnected
  left,            \* _userDisconnected
  reconnectState,  \* what the app shows
  attempt,         \* _reconnectAttempt
  timer,           \* _reconnectTimer is set
  pinging,         \* _pingTimer is set
  pongDue,         \* _pongCheckTimer is set
  tasks,           \* see Task
  calls,           \* calls made, for the bound
  overtaken        \* history: the last disconnect() overtook a connection in the making

connVars == <<sockets, channel, subscription, connected>>
backoffVars == <<reconnectState, attempt, timer>>
pingVars == <<pinging, pongDue>>
remoteVars == <<connVars, left, backoffVars, pingVars, tasks, calls, overtaken>>

Socket == [open : BOOLEAN, heard : BOOLEAN]   \* heard: its events reach a listener

(* An asynchronous function and the await it is at: "cancels" and "closes"   *)
(* are those of _cleanupExistingConnection, which ends "cleaned"; the        *)
(* clean-up of an attempt that failed is a function of its own here.         *)
Task == [op : {"connect", "perform", "connectFailed", "performFailed", "lost", "disconnect"},
         at : {"cancels", "closes", "cleaned", "opens"}]
NoTask == [op |-> "none", at |-> "none"]

RemoteTypeOK ==
  /\ sockets \in Seq(Socket) /\ Len(sockets) <= MaxSockets
  /\ channel \in 0..Len(sockets) /\ subscription \in 0..Len(sockets)
  /\ connected \in BOOLEAN /\ left \in BOOLEAN
  /\ reconnectState \in {"idle", "connecting", "connected", "reconnecting", "failed"}
  /\ attempt \in 0..MaxReconnects
  /\ timer \in BOOLEAN /\ pinging \in BOOLEAN /\ pongDue \in BOOLEAN
  /\ tasks \in [TaskIds -> Task \cup {NoTask}]
  /\ calls \in 0..MaxCalls /\ overtaken \in BOOLEAN

RemoteInit ==
  /\ sockets = <<>> /\ channel = 0 /\ subscription = 0 /\ connected = FALSE
  /\ left = FALSE
  /\ reconnectState = "idle" /\ attempt = 0 /\ timer = FALSE
  /\ pinging = FALSE /\ pongDue = FALSE
  /\ tasks = [t \in TaskIds |-> NoTask]
  /\ calls = 0 /\ overtaken = FALSE

-----------------------------------------------------------------------------
Free(t) == tasks[t] = NoTask
At(t, op, at) == tasks[t] = [op |-> op, at |-> at]
Go(t, op, at) == tasks' = [tasks EXCEPT ![t] = [op |-> op, at |-> at]]
Return(t) == tasks' = [tasks EXCEPT ![t] = NoTask]

(* A function that has nothing left to wait for goes on before any event.    *)
NextEvent == \A t \in TaskIds : tasks[t].at # "cleaned"

(* sink.close(), after which the listener, if there is one, hears of the end. *)
CloseChannel(t, op) ==
  IF channel = 0
  THEN Go(t, op, "cleaned") /\ UNCHANGED sockets
  ELSE Go(t, op, "closes") /\ sockets' = [sockets EXCEPT ![channel].open = FALSE]

(* _cleanupExistingConnection up to its first await. *)
CleanUp(t, op) ==
  /\ pinging' = FALSE /\ pongDue' = (op = "disconnect" /\ pongDue)
  /\ IF subscription = 0
     THEN CloseChannel(t, op)
     ELSE Go(t, op, "cancels") /\ sockets' = [sockets EXCEPT ![subscription].heard = FALSE]
  /\ UNCHANGED <<channel, subscription>>

(* The listener is cancelled: whatever is in _channel by now is closed... *)
Cancelled(t) ==
  /\ NextEvent
  /\ tasks[t].at = "cancels"
  /\ subscription' = 0
  /\ CloseChannel(t, tasks[t].op)
  /\ UNCHANGED <<channel, connected, left, backoffVars, pingVars, calls, overtaken>>

(* ... and it is closed: whatever is in _channel by now is forgotten. *)
Closed(t) ==
  /\ NextEvent
  /\ tasks[t].at = "closes"
  /\ channel' = 0
  /\ Go(t, tasks[t].op, "cleaned")
  /\ UNCHANGED <<sockets, subscription, connected, left, backoffVars, pingVars, calls, overtaken>>

(* Mutant of ScheduleReconnect: who left is not asked. *)
ScheduleAnyhow(tries) ==
  IF tries >= MaxReconnects
  THEN reconnectState' = "failed" /\ attempt' = tries /\ UNCHANGED timer
  ELSE reconnectState' = "reconnecting" /\ attempt' = tries + 1 /\ timer' = TRUE

(* _scheduleReconnect, after the given number of attempts. *)
ScheduleReconnect(tries) ==
  IF left' THEN attempt' = tries /\ UNCHANGED <<reconnectState, timer>>
  ELSE IF tries >= MaxReconnects
  THEN reconnectState' = "failed" /\ attempt' = tries /\ UNCHANGED timer
  ELSE reconnectState' = "reconnecting" /\ attempt' = tries + 1 /\ timer' = TRUE

-----------------------------------------------------------------------------
(* What the user does, or the background service for him. *)
Call(t) ==
  /\ NextEvent /\ Free(t) /\ \E u \in TaskIds \ {t} : Free(u)
  /\ calls < MaxCalls /\ calls' = calls + 1

(* connect(): by the user, or by itself when the network is back.            *)
Connect(t) ==
  /\ Call(t)
  /\ left' = FALSE /\ connected' = FALSE
  /\ CleanUp(t, "connect")
  /\ UNCHANGED <<backoffVars, overtaken>>

(* disconnect(). *)
Disconnect(t) ==
  /\ Call(t)
  /\ left' = TRUE /\ timer' = FALSE
  /\ overtaken' = (\E u \in TaskIds : tasks[u] # NoTask /\ tasks[u].op \in {"connect", "perform"})
  /\ CleanUp(t, "disconnect")
  /\ UNCHANGED <<connected, reconnectState, attempt>>

(* retryReconnect(), which the page and its resumption call for "failed".    *)
RetryReconnect ==
  /\ NextEvent /\ reconnectState = "failed"
  /\ calls < MaxCalls /\ calls' = calls + 1
  /\ left' = FALSE
  /\ ScheduleReconnect(0)
  /\ UNCHANGED <<connVars, pingVars, tasks, overtaken>>

-----------------------------------------------------------------------------
(* The function goes on when the clean-up is over. *)
ConnectCleaned(t) ==
  /\ At(t, "connect", "cleaned")
  /\ Go(t, "connect", "opens")
  /\ reconnectState' = "connecting"
  /\ UNCHANGED <<connVars, left, attempt, timer, pingVars, calls, overtaken>>

PerformCleaned(t) ==
  /\ At(t, "perform", "cleaned")
  /\ Go(t, "perform", "opens")
  /\ UNCHANGED <<connVars, left, backoffVars, pingVars, calls, overtaken>>

ConnectGivesUp(t) ==
  /\ At(t, "connectFailed", "cleaned")
  /\ Return(t)
  /\ reconnectState' = "idle"
  /\ UNCHANGED <<connVars, left, attempt, timer, pingVars, calls, overtaken>>

(* Mutant of TryAgain: a failure is not followed by another attempt. *)
TryAgainOnlyOnLoss(t) ==
  /\ At(t, "performFailed", "cleaned") \/ At(t, "lost", "cleaned")
  /\ Return(t)
  /\ UNCHANGED left
  /\ IF At(t, "lost", "cleaned") THEN ScheduleReconnect(attempt) ELSE UNCHANGED backoffVars
  /\ UNCHANGED <<connVars, pingVars, calls, overtaken>>

(* _performReconnect after a failure, and _handleConnectionLost. *)
TryAgain(t) ==
  /\ At(t, "performFailed", "cleaned") \/ At(t, "lost", "cleaned")
  /\ Return(t)
  /\ UNCHANGED left
  /\ ScheduleReconnect(attempt)
  /\ UNCHANGED <<connVars, pingVars, calls, overtaken>>

DisconnectEnds(t) ==
  /\ At(t, "disconnect", "cleaned")
  /\ Return(t)
  /\ connected' = FALSE /\ reconnectState' = "idle"
  /\ UNCHANGED <<sockets, channel, subscription, left, attempt, timer, pingVars, calls, overtaken>>

(* _establishConnection succeeds, and the listener is set up... *)
Opened(t) ==
  /\ NextEvent
  /\ At(t, "connect", "opens") \/ At(t, "perform", "opens")
  /\ Len(sockets) < MaxSockets
  /\ sockets' = Append(sockets, [open |-> TRUE, heard |-> TRUE])
  /\ channel' = Len(sockets') /\ subscription' = Len(sockets')
  /\ connected' = TRUE /\ reconnectState' = "connected" /\ attempt' = 0
  /\ pinging' = TRUE
  /\ Return(t)
  /\ UNCHANGED <<left, timer, pongDue, calls, overtaken>>

(* ... or fails, or takes too long. *)
OpenFails(t) ==
  /\ NextEvent
  /\ \/ At(t, "connect", "opens") /\ CleanUp(t, "connectFailed")
     \/ At(t, "perform", "opens") /\ CleanUp(t, "performFailed")
  /\ UNCHANGED <<connected, left, backoffVars, calls, overtaken>>

(* The timer of _scheduleReconnect, and _performReconnect up to its first    *)
(* await.                                                                    *)
PerformReconnect(t) ==
  /\ NextEvent /\ Free(t)
  /\ timer /\ timer' = FALSE
  /\ reconnectState' = "connecting"
  /\ CleanUp(t, "perform")
  /\ UNCHANGED <<connected, left, attempt, calls, overtaken>>

-----------------------------------------------------------------------------
(* The host or the network ends a connection. *)
PeerCloses(s) ==
  /\ NextEvent
  /\ sockets[s].open /\ sockets' = [sockets EXCEPT ![s].open = FALSE]
  /\ UNCHANGED <<channel, subscription, connected, left, backoffVars, pingVars, tasks, calls, overtaken>>

(* onDone of a listener, whichever connection it listens to: _handleDone.    *)
OnDone(s) ==
  /\ NextEvent
  /\ ~sockets[s].open /\ sockets[s].heard /\ sockets' = [sockets EXCEPT ![s].heard = FALSE]
  /\ connected' = FALSE
  /\ UNCHANGED left
  /\ ScheduleReconnect(attempt)
  /\ UNCHANGED <<channel, subscription, pingVars, tasks, calls, overtaken>>

(* sendPing, for the ping timer or the background service; a tick of the     *)
(* timer without a connection is its last.                                   *)
Ping ==
  /\ NextEvent
  /\ \/ connected /\ channel # 0 /\ pongDue' = TRUE /\ UNCHANGED pinging
     \/ ~(connected /\ channel # 0) /\ pinging /\ pinging' = FALSE /\ UNCHANGED pongDue
  /\ UNCHANGED <<connVars, left, backoffVars, tasks, calls, overtaken>>

(* Ten seconds later: the pong is there, or too many are missing by now.     *)
PongArrived ==
  /\ NextEvent /\ pongDue /\ pongDue' = FALSE
  /\ UNCHANGED <<connVars, left, backoffVars, pinging, tasks, calls, overtaken>>

HandleConnectionLost(t) ==
  /\ NextEvent /\ Free(t) /\ \E u \in TaskIds \ {t} : Free(u)
  /\ pongDue /\ connected' = FALSE
  /\ CleanUp(t, "lost")
  /\ UNCHANGED <<left, backoffVars, calls, overtaken>>

Continue(t) ==
  \/ Cancelled(t) \/ Closed(t) \/ Opened(t) \/ OpenFails(t)
  \/ ConnectCleaned(t) \/ PerformCleaned(t) \/ ConnectGivesUp(t) \/ TryAgain(t)
  \/ DisconnectEnds(t)

(* Tasks differ in nothing but the place in tasks: the first that is free.   *)
FirstFree == {t \in TaskIds : Free(t) /\ \A u \in TaskIds : u < t => ~Free(u)}

(* What is awaited ends, by a timeout if need be; timers fire and events are *)
(* delivered.                                                                *)
EventLoop ==
  \/ \E t \in TaskIds : Continue(t)
  \/ \E t \in FirstFree : PerformReconnect(t)
  \/ \E s \in DOMAIN sockets : OnDone(s)

RemoteNext ==
  \/ EventLoop
  \/ \E t \in FirstFree : Connect(t) \/ Disconnect(t) \/ HandleConnectionLost(t)
  \/ RetryReconnect \/ Ping \/ PongArrived
  \/ \E s \in DOMAIN sockets : PeerCloses(s)

(* The event loop turns.  Nothing is asked of the user, the network, or the  *)
(* ping timer.                                                               *)
RemoteFairness == WF_remoteVars(EventLoop)

RemoteSpec == RemoteInit /\ [][RemoteNext]_remoteVars
RemoteFairSpec == RemoteSpec /\ RemoteFairness

-----------------------------------------------------------------------------
(* websocket_provider.dart:47, "the user explicitly disconnects so           *)
(* auto-reconnect stops": whatever timers, clean-ups and events of sockets   *)
(* were pending, once they are over the app is disconnected and stays so.    *)
(* A connection that disconnect() overtook in the making is not stopped.     *)
LeavingIsFinal ==
  left /\ ~overtaken /\ (\A t \in TaskIds : Free(t)) =>
    ~connected /\ channel = 0 /\ ~timer /\ reconnectState = "idle"

(* When the user and the network leave the app alone it comes to rest, and   *)
(* shows what is true: no attempt hangs, and what it shows as a connection   *)
(* is one, or one that its pings will find out, however losses, attempts and *)
(* calls overlapped.                                                         *)
Settled ==
  \/ reconnectState \in {"idle", "failed"}
  \/ reconnectState = "connected" /\ (left \/ (connected /\ channel # 0 /\ pinging))

ComesToRest == <>[]Settled

(* And at rest it shows the truth at once: with no function under way and no *)
(* reconnection to come, what it shows is settled.                           *)
RestIsTrue == (\A t \in TaskIds : Free(t)) /\ ~timer => Settled
=============================================================================
