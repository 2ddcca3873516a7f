--------------------------- MODULE RemoteProofs ---------------------------
(***************************************************************************)
(* Theorems about Remote.tla, for every number of reconnections, of        *)
(* connections, of calls and of asynchronous functions under way:          *)
(*   - the type invariant, so that no function meets a connection that was *)
(*     never made;                                                         *)
(*   - leaving is final;                                                   *)
(*   - at rest the app shows the truth.                                    *)
(***************************************************************************)
EXTENDS Remote, SequenceTheorems, TLAPS

-----------------------------------------------------------------------------
(* The type invariant.                                                       *)
Ops == {"connect", "perform", "connectFailed", "performFailed", "lost", "disconnect"}

LEMMA NoTaskIs ==
  NoTask.op = "none" /\ NoTask.at = "none"
BY DEF NoTask

LEMMA TaskIs ==
  ASSUME RemoteTypeOK, NEW t \in TaskIds
  PROVE  /\ tasks[t] = NoTask \/ (tasks[t] \in Task /\ tasks[t].op \in Ops)
         /\ tasks[t].at # "none" => tasks[t].op \in Ops
BY NoTaskIs DEF RemoteTypeOK, Task, Ops

(* What Go and Return do to the functions under way. *)
LEMMA GoTypes ==
  ASSUME RemoteTypeOK, NEW t \in TaskIds, NEW op \in Ops,
         NEW at \in {"cancels", "closes", "cleaned", "opens"}, Go(t, op, at)
  PROVE  /\ tasks' \in [TaskIds -> Task \cup {NoTask}]
         /\ tasks'[t].op = op /\ tasks'[t].at = at
         /\ \A u \in TaskIds : u # t => tasks'[u] = tasks[u]
<1>1. [op |-> op, at |-> at] \in Task
  BY DEF Task, Ops
<1>2. PICK task \in Task : task = [op |-> op, at |-> at]
  BY <1>1
<1>3. task.op = op /\ task.at = at
  BY <1>2
<1>4. tasks' = [tasks EXCEPT ![t] = task]
  BY <1>2 DEF Go
<1> QED
  BY <1>3, <1>4 DEF RemoteTypeOK

LEMMA ReturnTypes ==
  ASSUME RemoteTypeOK, NEW t \in TaskIds, Return(t)
  PROVE  /\ tasks' \in [TaskIds -> Task \cup {NoTask}]
         /\ tasks'[t] = NoTask
         /\ \A u \in TaskIds : u # t => tasks'[u] = tasks[u]
BY DEF RemoteTypeOK, Return

(* The connections so far, one of them changed or one more. *)
LEMMA SocketsAre ==
  ASSUME RemoteTypeOK
  PROVE  /\ sockets \in Seq(Socket) /\ Len(sockets) \in Nat /\ DOMAIN sockets = 1..Len(sockets)
         /\ \A s \in DOMAIN sockets : sockets[s] \in Socket
BY LenProperties, ElementOfSeq DEF RemoteTypeOK

LEMMA ChangedSocket ==
  ASSUME RemoteTypeOK, NEW s \in DOMAIN sockets
  PROVE  LET shut == [sockets EXCEPT ![s].open = FALSE]
             deaf == [sockets EXCEPT ![s].heard = FALSE]
         IN  /\ shut \in Seq(Socket) /\ Len(shut) = Len(sockets)
             /\ deaf \in Seq(Socket) /\ Len(deaf) = Len(sockets)
<1>1. sockets \in Seq(Socket) /\ sockets[s] \in Socket /\ s \in 1..Len(sockets)
  BY SocketsAre
<1>2. [sockets[s] EXCEPT !.open = FALSE] \in Socket /\ [sockets[s] EXCEPT !.heard = FALSE] \in Socket
  BY <1>1 DEF Socket
<1> QED
  BY <1>1, <1>2, ExceptSeq

(* The operators of the clean-up and of the retries return what they should. *)
LEMMA CloseTypes ==
  ASSUME RemoteTypeOK, NEW t \in TaskIds, NEW op \in Ops, CloseChannel(t, op)
  PROVE  /\ tasks' \in [TaskIds -> Task \cup {NoTask}]
         /\ sockets' \in Seq(Socket) /\ Len(sockets') = Len(sockets)
         /\ tasks'[t].op = op
         /\ channel = 0 \/ tasks'[t].at = "closes"
         /\ \A u \in TaskIds : u # t => tasks'[u] = tasks[u]
<1>1. CASE channel = 0
  <2>1. Go(t, op, "cleaned") /\ UNCHANGED sockets
    BY <1>1 DEF CloseChannel
  <2> QED
    BY <1>1, <2>1, GoTypes, SocketsAre
<1>2. CASE channel # 0
  <2>1. Go(t, op, "closes") /\ sockets' = [sockets EXCEPT ![channel].open = FALSE]
    BY <1>2 DEF CloseChannel
  <2>2. channel \in DOMAIN sockets
    BY <1>2, SocketsAre DEF RemoteTypeOK
  <2> QED
    BY <2>1, <2>2, GoTypes, ChangedSocket
<1> QED
  BY <1>1, <1>2

LEMMA CleanUpTypes ==
  ASSUME RemoteTypeOK, NEW t \in TaskIds, NEW op \in Ops, CleanUp(t, op)
  PROVE  /\ tasks' \in [TaskIds -> Task \cup {NoTask}]
         /\ sockets' \in Seq(Socket) /\ Len(sockets') = Len(sockets)
         /\ pinging' \in BOOLEAN /\ pongDue' \in BOOLEAN
         /\ channel' = channel /\ subscription' = subscription
         /\ tasks'[t].op = op
         /\ channel = 0 \/ tasks'[t].at \in {"cancels", "closes"}
         /\ \A u \in TaskIds : u # t => tasks'[u] = tasks[u]
<1>1. pinging' \in BOOLEAN /\ channel' = channel /\ subscription' = subscription
  BY DEF CleanUp
<1>2. pongDue' \in BOOLEAN
  BY Zenon DEF CleanUp
<1>3. CASE subscription = 0
  <2>1. CloseChannel(t, op)
    BY <1>3 DEF CleanUp
  <2> QED
    BY <1>1, <1>2, <2>1, CloseTypes
<1>4. CASE subscription # 0
  <2>1. Go(t, op, "cancels") /\ sockets' = [sockets EXCEPT ![subscription].heard = FALSE]
    BY <1>4 DEF CleanUp
  <2>2. subscription \in DOMAIN sockets
    BY <1>4, SocketsAre DEF RemoteTypeOK
  <2> QED
    BY <1>1, <1>2, <2>1, <2>2, GoTypes, ChangedSocket
<1> QED
  BY <1>3, <1>4

States == {"idle", "connecting", "connected", "reconnecting", "failed"}

LEMMA RetryTypes ==
  ASSUME RemoteTypeOK, NEW tries \in 0..MaxReconnects, ScheduleReconnect(tries)
  PROVE  /\ attempt' \in 0..MaxReconnects /\ timer' \in BOOLEAN /\ reconnectState' \in States
         /\ left' => (timer' <=> timer) /\ reconnectState' = reconnectState
<1>1. /\ timer \in BOOLEAN /\ reconnectState \in States /\ MaxReconnects \in Nat
  BY RemoteAssumption DEF RemoteTypeOK, RemoteAssumption, States
<1>2. CASE left'
  <2>1. attempt' = tries /\ timer' = timer /\ reconnectState' = reconnectState
    BY <1>2, Zenon DEF ScheduleReconnect
  <2>2. timer' \in BOOLEAN
    BY <1>1, <2>1, Zenon
  <2>3. timer' <=> timer
    BY <2>1, Zenon
  <2>4. attempt' \in 0..MaxReconnects /\ reconnectState' \in States
    BY <1>1, <2>1
  <2>5. reconnectState' = reconnectState
    BY <2>1
  <2> QED
    BY <2>2, <2>3, <2>4, <2>5, Zenon
<1>3. CASE ~left' /\ tries >= MaxReconnects
  BY <1>1, <1>3 DEF ScheduleReconnect, States
<1>4. CASE ~left' /\ tries < MaxReconnects
  <2>1. ~(tries >= MaxReconnects)
    BY <1>1, <1>4
  <2>2. reconnectState' = "reconnecting" /\ attempt' = tries + 1 /\ timer' = TRUE
    BY <1>4, <2>1, Zenon DEF ScheduleReconnect
  <2>3. attempt' \in 0..MaxReconnects /\ reconnectState' \in States
    BY <1>1, <1>4, <2>2 DEF States
  <2> QED
    BY <1>4, <2>2, <2>3, Zenon
<1>5. tries >= MaxReconnects \/ tries < MaxReconnects
  BY <1>1
<1> QED
  BY <1>2, <1>3, <1>4, <1>5, Zenon

-----------------------------------------------------------------------------
(* Leaving is final.  Once disconnect() was called, without a connection in  *)
(* the making, nothing makes one; the function that called it has still to   *)
(* say so, and to close the channel it found, or has done it.                *)
Making == {"connect", "perform"}

Parted ==
  /\ \A t \in TaskIds : tasks[t].op \notin Making
  /\ \/ ~connected /\ reconnectState = "idle"
     \/ \E t \in TaskIds : tasks[t].op = "disconnect"
  /\ \/ channel = 0
     \/ \E t \in TaskIds : tasks[t].op = "disconnect" /\ tasks[t].at \in {"cancels", "closes"}

Final == left => ~timer /\ (~overtaken => Parted)

RemoteInv == RemoteTypeOK /\ Final

LEMMA RemoteInitially == RemoteInit => RemoteInv
<1> SUFFICES ASSUME RemoteInit PROVE RemoteInv
  OBVIOUS
<1>1. sockets = <<>> /\ Len(sockets) = 0 /\ sockets \in Seq(Socket)
  BY DEF RemoteInit
<1>2. tasks \in [TaskIds -> Task \cup {NoTask}]
  BY DEF RemoteInit
<1>3. /\ Len(sockets) <= MaxSockets /\ channel \in 0..Len(sockets) /\ subscription \in 0..Len(sockets)
      /\ attempt \in 0..MaxReconnects /\ calls \in 0..MaxCalls
  BY <1>1, RemoteAssumption DEF RemoteInit, RemoteAssumption
<1>4. /\ connected \in BOOLEAN /\ left \in BOOLEAN /\ timer \in BOOLEAN /\ pinging \in BOOLEAN
      /\ pongDue \in BOOLEAN /\ overtaken \in BOOLEAN
  BY Zenon DEF RemoteInit
<1>5. RemoteTypeOK
  BY <1>1, <1>2, <1>3, <1>4 DEF RemoteInit, RemoteTypeOK
<1> QED
  BY <1>5 DEF RemoteInit, RemoteInv, Final

(* A function that goes on with what it does, or returns, parts nobody who   *)
(* left, as long as it opens no connection and forgets none.                 *)
LEMMA StillParted ==
  ASSUME RemoteTypeOK, Parted, NEW t \in TaskIds,
         tasks' \in [TaskIds -> Task \cup {NoTask}],
         \A u \in TaskIds : u # t => tasks'[u] = tasks[u],
         tasks'[t].op \notin Making,
         \/ tasks'[t].op = "disconnect"
         \/ tasks[t].op # "disconnect"
         \/ ~connected' /\ reconnectState' = "idle",
         \/ ~connected' /\ reconnectState' = "idle"
         \/ (connected' => connected) /\ reconnectState' \in {reconnectState, "idle"},
         \/ channel' = 0
         \/ channel' = channel /\ tasks[t].op # "disconnect"
         \/ channel' = channel /\ tasks[t].at \notin {"cancels", "closes"}
         \/ tasks'[t].op = "disconnect" /\ tasks'[t].at \in {"cancels", "closes"}
  PROVE  Parted'
<1>1. \A u \in TaskIds : tasks'[u].op \notin Making
  BY DEF Parted
<1>2. \/ ~connected' /\ reconnectState' = "idle"
      \/ \E u \in TaskIds : tasks'[u].op = "disconnect"
  BY DEF Parted
<1>3. \/ channel' = 0
      \/ \E u \in TaskIds : tasks'[u].op = "disconnect" /\ tasks'[u].at \in {"cancels", "closes"}
  BY DEF Parted
<1> QED
  BY <1>1, <1>2, <1>3 DEF Parted

(* The clean-up, which is the same for all that call it. *)
LEMMA CleaningKeeps ==
  ASSUME RemoteInv, NEW t \in TaskIds, Cancelled(t) \/ Closed(t)
  PROVE  RemoteInv'
<1>1. RemoteTypeOK
  BY DEF RemoteInv
<1>2. PICK op \in Ops : op = tasks[t].op
  BY <1>1, TaskIs DEF Cancelled, Closed
<1>3. CASE Cancelled(t)
  <2>1. /\ CloseChannel(t, op) /\ tasks[t].at = "cancels"
        /\ subscription' = 0 /\ channel' = channel /\ calls' = calls /\ attempt' = attempt
        /\ reconnectState' = reconnectState
    BY <1>2, <1>3 DEF Cancelled, backoffVars
  <2>2. /\ connected' = connected /\ left' = left /\ timer' = timer /\ pinging' = pinging
        /\ pongDue' = pongDue /\ overtaken' = overtaken
    BY <1>3, Zenon DEF Cancelled, backoffVars, pingVars
  <2>3. /\ tasks' \in [TaskIds -> Task \cup {NoTask}]
        /\ sockets' \in Seq(Socket) /\ Len(sockets') = Len(sockets)
        /\ tasks'[t].op = op
        /\ channel = 0 \/ tasks'[t].at = "closes"
        /\ \A u \in TaskIds : u # t => tasks'[u] = tasks[u]
    BY <1>1, <2>1, CloseTypes
  <2>4. RemoteTypeOK'
    BY <1>1, <2>1, <2>2, <2>3, SocketsAre DEF RemoteTypeOK
  <2>5. ASSUME Parted PROVE Parted'
    <3>1. op \notin Making
      BY <1>2, <2>5 DEF Parted
    <3>2. connected' => connected
      BY <2>2
    <3>3. \/ channel' = 0
          \/ channel' = channel /\ tasks[t].op # "disconnect"
          \/ tasks'[t].op = "disconnect" /\ tasks'[t].at \in {"cancels", "closes"}
      BY <1>2, <2>1, <2>3
    <3> QED
      BY <1>1, <1>2, <2>1, <2>3, <2>5, <3>1, <3>2, <3>3, StillParted
  <2> QED
    BY <2>2, <2>4, <2>5 DEF RemoteInv, Final
<1>4. CASE Closed(t)
  <2>1. /\ Go(t, op, "cleaned") /\ tasks[t].at = "closes"
        /\ channel' = 0 /\ sockets' = sockets /\ subscription' = subscription
        /\ calls' = calls /\ attempt' = attempt /\ reconnectState' = reconnectState
    BY <1>2, <1>4 DEF Closed, backoffVars
  <2>2. /\ connected' = connected /\ left' = left /\ timer' = timer /\ pinging' = pinging
        /\ pongDue' = pongDue /\ overtaken' = overtaken
    BY <1>4, Zenon DEF Closed, backoffVars, pingVars
  <2>3. /\ tasks' \in [TaskIds -> Task \cup {NoTask}]
        /\ tasks'[t].op = op
        /\ \A u \in TaskIds : u # t => tasks'[u] = tasks[u]
    BY <1>1, <2>1, GoTypes
  <2>4. RemoteTypeOK'
    BY <1>1, <2>1, <2>2, <2>3, SocketsAre DEF RemoteTypeOK
  <2>5. ASSUME Parted PROVE Parted'
    <3>1. op \notin Making
      BY <1>2, <2>5 DEF Parted
    <3>2. connected' => connected
      BY <2>2
    <3> QED
      BY <1>1, <1>2, <2>1, <2>3, <2>5, <3>1, <3>2, StillParted
  <2> QED
    BY <2>2, <2>4, <2>5 DEF RemoteInv, Final
<1> QED
  BY <1>3, <1>4

(* What becomes of an attempt, of which there is none once somebody parted.  *)
LEMMA MakingKeeps ==
  ASSUME RemoteInv, NEW t \in TaskIds,
         Opened(t) \/ OpenFails(t) \/ ConnectCleaned(t) \/ PerformCleaned(t)
  PROVE  RemoteInv'
<1>1. RemoteTypeOK
  BY DEF RemoteInv
<1>2. tasks[t].op \in Making /\ ~Parted
  BY DEF Opened, OpenFails, ConnectCleaned, PerformCleaned, At, Making, Parted
<1>3. left' = left /\ timer' = timer /\ overtaken' = overtaken
  BY Zenon DEF Opened, OpenFails, ConnectCleaned, PerformCleaned, backoffVars
<1>4. Final'
  BY <1>2, <1>3 DEF RemoteInv, Final
<1>5. CASE Opened(t)
  <2>1. /\ sockets' = Append(sockets, [open |-> TRUE, heard |-> TRUE]) /\ Len(sockets) < MaxSockets
        /\ channel' = Len(sockets') /\ subscription' = Len(sockets')
        /\ reconnectState' = "connected" /\ attempt' = 0 /\ Return(t) /\ calls' = calls
    BY <1>5 DEF Opened
  <2>2. connected' = TRUE /\ pinging' = TRUE /\ pongDue' = pongDue
    BY <1>5, Zenon DEF Opened
  <2>3. [open |-> TRUE, heard |-> TRUE] \in Socket
    BY DEF Socket
  <2>4. sockets' \in Seq(Socket) /\ Len(sockets') = Len(sockets) + 1 /\ Len(sockets') \in Nat
    BY <1>1, <2>1, <2>3, SocketsAre, AppendProperties
  <2>5. Len(sockets') <= MaxSockets /\ attempt' \in 0..MaxReconnects
    BY <1>1, <2>1, <2>4, SocketsAre, RemoteAssumption DEF RemoteAssumption
  <2>6. tasks' \in [TaskIds -> Task \cup {NoTask}]
    BY <1>1, <2>1, ReturnTypes
  <2>7. RemoteTypeOK'
    BY <1>1, <1>3, <2>1, <2>2, <2>4, <2>5, <2>6 DEF RemoteTypeOK
  <2> QED
    BY <1>4, <2>7 DEF RemoteInv
<1>6. CASE OpenFails(t)
  <2>1. PICK op \in Ops : CleanUp(t, op)
    BY <1>6 DEF OpenFails, Ops
  <2>2. connected' = connected /\ calls' = calls /\ attempt' = attempt /\ reconnectState' = reconnectState
    BY <1>6, Zenon DEF OpenFails, backoffVars
  <2>3. RemoteTypeOK'
    BY <1>1, <1>3, <2>1, <2>2, CleanUpTypes DEF RemoteTypeOK
  <2> QED
    BY <1>4, <2>3 DEF RemoteInv
<1>7. CASE ConnectCleaned(t) \/ PerformCleaned(t)
  <2>1. PICK op \in Ops : Go(t, op, "opens")
    BY <1>7 DEF ConnectCleaned, PerformCleaned, Ops
  <2>2. /\ sockets' = sockets /\ channel' = channel /\ subscription' = subscription
        /\ connected' = connected /\ pinging' = pinging /\ pongDue' = pongDue
        /\ calls' = calls /\ attempt' = attempt
        /\ reconnectState' \in {reconnectState, "connecting"}
    BY <1>7, Zenon DEF ConnectCleaned, PerformCleaned, connVars, pingVars, backoffVars
  <2>3. tasks' \in [TaskIds -> Task \cup {NoTask}]
    BY <1>1, <2>1, GoTypes
  <2>4. RemoteTypeOK'
    BY <1>1, <1>3, <2>2, <2>3 DEF RemoteTypeOK
  <2> QED
    BY <1>4, <2>4 DEF RemoteInv
<1> QED
  BY <1>5, <1>6, <1>7

(* What returns. *)
LEMMA ReturningKeeps ==
  ASSUME RemoteInv, NEW t \in TaskIds,
         ConnectGivesUp(t) \/ TryAgain(t) \/ DisconnectEnds(t)
  PROVE  RemoteInv'
<1>1. RemoteTypeOK
  BY DEF RemoteInv
<1>2. Return(t) /\ calls' = calls /\ sockets' = sockets /\ channel' = channel /\ subscription' = subscription
  BY DEF ConnectGivesUp, TryAgain, DisconnectEnds, connVars
<1>3. left' = left /\ overtaken' = overtaken /\ pinging' = pinging /\ pongDue' = pongDue
  BY Zenon DEF ConnectGivesUp, TryAgain, DisconnectEnds, pingVars
<1>4. /\ tasks' \in [TaskIds -> Task \cup {NoTask}]
      /\ tasks'[t].op = "none"
      /\ \A u \in TaskIds : u # t => tasks'[u] = tasks[u]
  BY <1>1, <1>2, ReturnTypes, NoTaskIs
<1>5. "none" \notin Making
  BY DEF Making
<1>6. CASE ConnectGivesUp(t)
  <2>1. reconnectState' = "idle" /\ attempt' = attempt /\ tasks[t].op = "connectFailed"
    BY <1>6 DEF ConnectGivesUp, At
  <2>2. timer' = timer /\ connected' = connected
    BY <1>6, Zenon DEF ConnectGivesUp, connVars
  <2>3. RemoteTypeOK'
    BY <1>1, <1>2, <1>3, <1>4, <2>1, <2>2 DEF RemoteTypeOK
  <2>4. Parted => Parted'
    BY <1>1, <1>2, <1>4, <1>5, <2>1, <2>2, StillParted
  <2> QED
    BY <1>3, <2>2, <2>3, <2>4 DEF RemoteInv, Final
<1>7. CASE TryAgain(t)
  <2>1. tasks[t].op \in {"performFailed", "lost"} /\ ScheduleReconnect(attempt)
    BY <1>7 DEF TryAgain, At
  <2>2. connected' = connected
    BY <1>7, Zenon DEF TryAgain, connVars
  <2>3. /\ attempt' \in 0..MaxReconnects /\ timer' \in BOOLEAN /\ reconnectState' \in States
        /\ left' => (timer' <=> timer) /\ reconnectState' = reconnectState
    BY <1>1, <2>1, RetryTypes DEF RemoteTypeOK
  <2>4. RemoteTypeOK'
    BY <1>1, <1>2, <1>3, <1>4, <2>2, <2>3 DEF RemoteTypeOK, States
  <2>5. left' /\ Parted => Parted'
    BY <1>1, <1>2, <1>4, <1>5, <2>1, <2>2, <2>3, StillParted
  <2> QED
    BY <1>3, <2>3, <2>4, <2>5 DEF RemoteInv, Final
<1>8. CASE DisconnectEnds(t)
  <2>1. /\ reconnectState' = "idle" /\ attempt' = attempt /\ tasks[t].op = "disconnect"
        /\ tasks[t].at = "cleaned" /\ ~connected'
    BY <1>8 DEF DisconnectEnds, At
  <2>2. timer' = timer /\ connected' = FALSE
    BY <1>8, Zenon DEF DisconnectEnds
  <2>3. RemoteTypeOK'
    BY <1>1, <1>2, <1>3, <1>4, <2>1, <2>2 DEF RemoteTypeOK
  <2>4. Parted => Parted'
    BY <1>1, <1>2, <1>4, <1>5, <2>1, StillParted
  <2> QED
    BY <1>3, <2>2, <2>3, <2>4 DEF RemoteInv, Final
<1> QED
  BY <1>6, <1>7, <1>8

(* What the user does, and what becomes of a connection. *)
LEMMA CallsKeep ==
  ASSUME RemoteInv, NEW t \in TaskIds,
         Connect(t) \/ Disconnect(t) \/ PerformReconnect(t) \/ HandleConnectionLost(t)
  PROVE  RemoteInv'
<1>1. RemoteTypeOK
  BY DEF RemoteInv
<1>2. tasks[t].op = "none"
  BY NoTaskIs DEF Connect, Disconnect, PerformReconnect, HandleConnectionLost, Call, Free
<1>3. calls' \in 0..MaxCalls
  <2>1. calls' = calls \/ (calls < MaxCalls /\ calls' = calls + 1)
    BY Zenon DEF Connect, Disconnect, PerformReconnect, HandleConnectionLost, Call
  <2> QED
    BY <1>1, <2>1, RemoteAssumption DEF RemoteTypeOK, RemoteAssumption
<1>4. PICK op \in {"connect", "disconnect", "perform", "lost"} : CleanUp(t, op) /\ op \in Ops
  BY DEF Connect, Disconnect, PerformReconnect, HandleConnectionLost, Ops
<1>5. /\ tasks' \in [TaskIds -> Task \cup {NoTask}]
      /\ sockets' \in Seq(Socket) /\ Len(sockets') = Len(sockets)
      /\ channel' = channel /\ subscription' = subscription
      /\ tasks'[t].op = op
      /\ channel = 0 \/ tasks'[t].at \in {"cancels", "closes"}
      /\ \A u \in TaskIds : u # t => tasks'[u] = tasks[u]
  BY <1>1, <1>4, CleanUpTypes
<1>6. pinging' \in BOOLEAN /\ pongDue' \in BOOLEAN
  BY <1>1, <1>4, CleanUpTypes
<1>7. attempt' = attempt /\ reconnectState' \in {reconnectState, "connecting"}
  BY DEF Connect, Disconnect, PerformReconnect, HandleConnectionLost, backoffVars
<1>8. connected' \in BOOLEAN /\ left' \in BOOLEAN /\ timer' \in BOOLEAN /\ overtaken' \in BOOLEAN
  <2>1. connected \in BOOLEAN /\ left \in BOOLEAN /\ timer \in BOOLEAN /\ overtaken \in BOOLEAN
    BY <1>1 DEF RemoteTypeOK
  <2>2. connected' \in {connected, FALSE} /\ left' \in {left, TRUE, FALSE} /\ timer' \in {timer, FALSE}
    BY Zenon DEF Connect, Disconnect, PerformReconnect, HandleConnectionLost, backoffVars
  <2>3. overtaken' = overtaken \/ overtaken' \in BOOLEAN
    BY Zenon DEF Connect, Disconnect, PerformReconnect, HandleConnectionLost
  <2> QED
    BY <2>1, <2>2, <2>3, Zenon
<1>9. RemoteTypeOK'
  BY <1>1, <1>3, <1>5, <1>6, <1>7, <1>8 DEF RemoteTypeOK
<1>10. CASE Connect(t)
  <2>1. left' = FALSE
    BY <1>10, Zenon DEF Connect
  <2> QED
    BY <1>9, <2>1 DEF RemoteInv, Final
<1>11. CASE Disconnect(t)
  <2>1. timer' = FALSE
    BY <1>11, Zenon DEF Disconnect
  <2>2. op = "disconnect"
    BY <1>4, <1>5, <1>11, CleanUpTypes, <1>1 DEF Disconnect, Ops
  <2>3. ASSUME ~overtaken' PROVE \A u \in TaskIds : tasks[u].op \notin Making
    <3>1. ~\E u \in TaskIds : tasks[u] # NoTask /\ tasks[u].op \in {"connect", "perform"}
      BY <1>11, <2>3, Zenon DEF Disconnect
    <3> QED
      BY <3>1, NoTaskIs DEF Making
  <2>4. ASSUME ~overtaken' PROVE Parted'
    BY <1>5, <2>2, <2>3, <2>4 DEF Parted, Making
  <2> QED
    BY <1>9, <2>1, <2>4 DEF RemoteInv, Final
<1>12. CASE PerformReconnect(t)
  <2>1. timer /\ left' = left
    BY <1>12, Zenon DEF PerformReconnect
  <2> QED
    BY <1>9, <2>1 DEF RemoteInv, Final
<1>13. CASE HandleConnectionLost(t)
  <2>1. timer' = timer /\ left' = left /\ overtaken' = overtaken /\ connected' = FALSE
    BY <1>13, Zenon DEF HandleConnectionLost, backoffVars
  <2>2. reconnectState' = reconnectState /\ CleanUp(t, "lost")
    BY <1>13 DEF HandleConnectionLost, backoffVars
  <2>3. tasks'[t].op = "lost"
    BY <1>1, <2>2, CleanUpTypes DEF Ops
  <2>4. "lost" \notin Making
    BY DEF Making
  <2>5. Parted => Parted'
    BY <1>1, <1>2, <1>5, <2>1, <2>2, <2>3, <2>4, StillParted
  <2> QED
    BY <1>9, <2>1, <2>5 DEF RemoteInv, Final
<1> QED
  BY <1>10, <1>11, <1>12, <1>13

(* Events of which no function comes. *)
LEMMA EventsKeep ==
  ASSUME RemoteInv,
         \/ RetryReconnect \/ Ping \/ PongArrived
         \/ \E s \in DOMAIN sockets : OnDone(s) \/ PeerCloses(s)
  PROVE  RemoteInv'
<1>1. RemoteTypeOK
  BY DEF RemoteInv
<1>2. tasks' = tasks /\ channel' = channel /\ subscription' = subscription
  BY DEF RetryReconnect, Ping, PongArrived, OnDone, PeerCloses, connVars
<1>3. CASE RetryReconnect
  <2>1. sockets' = sockets /\ calls' \in 0..MaxCalls /\ ScheduleReconnect(0)
    BY <1>1, <1>3, RemoteAssumption DEF RetryReconnect, connVars, RemoteTypeOK, RemoteAssumption
  <2>2. /\ left' = FALSE /\ connected' = connected /\ pinging' = pinging /\ pongDue' = pongDue
        /\ overtaken' = overtaken
    BY <1>3, Zenon DEF RetryReconnect, connVars, pingVars
  <2>3. attempt' \in 0..MaxReconnects /\ timer' \in BOOLEAN /\ reconnectState' \in States
    BY <1>1, <2>1, RetryTypes, RemoteAssumption DEF RemoteAssumption
  <2>4. RemoteTypeOK'
    BY <1>1, <1>2, <2>1, <2>2, <2>3 DEF RemoteTypeOK, States
  <2> QED
    BY <2>2, <2>4 DEF RemoteInv, Final
<1>4. CASE Ping \/ PongArrived
  <2>1. sockets' = sockets /\ calls' = calls /\ attempt' = attempt /\ reconnectState' = reconnectState
    BY <1>4 DEF Ping, PongArrived, connVars, backoffVars
  <2>2. left' = left /\ connected' = connected /\ timer' = timer /\ overtaken' = overtaken
    BY <1>4, Zenon DEF Ping, PongArrived, connVars, backoffVars
  <2>3. pinging' \in {pinging, FALSE} /\ pongDue' \in {pongDue, TRUE, FALSE}
    BY <1>4, Zenon DEF Ping, PongArrived
  <2>4. RemoteTypeOK'
    BY <1>1, <1>2, <2>1, <2>2, <2>3 DEF RemoteTypeOK
  <2>5. Parted => Parted'
    BY <1>2, <2>1, <2>2 DEF Parted
  <2> QED
    BY <2>2, <2>4, <2>5 DEF RemoteInv, Final
<1>5. ASSUME NEW s \in DOMAIN sockets, OnDone(s) PROVE RemoteInv'
  <2>1. calls' = calls /\ ScheduleReconnect(attempt) /\ sockets' = [sockets EXCEPT ![s].heard = FALSE]
    BY <1>5 DEF OnDone
  <2>2. /\ left' = left /\ connected' = FALSE /\ pinging' = pinging /\ pongDue' = pongDue
        /\ overtaken' = overtaken
    BY <1>5, Zenon DEF OnDone, pingVars
  <2>3. /\ attempt' \in 0..MaxReconnects /\ timer' \in BOOLEAN /\ reconnectState' \in States
        /\ left' => (timer' <=> timer) /\ reconnectState' = reconnectState
    BY <1>1, <2>1, RetryTypes DEF RemoteTypeOK
  <2>4. sockets' \in Seq(Socket) /\ Len(sockets') = Len(sockets)
    BY <1>1, <2>1, ChangedSocket
  <2>5. RemoteTypeOK'
    BY <1>1, <1>2, <2>1, <2>2, <2>3, <2>4 DEF RemoteTypeOK, States
  <2>6. left' /\ Parted => Parted'
    BY <1>2, <2>2, <2>3 DEF Parted
  <2> QED
    BY <2>2, <2>3, <2>5, <2>6 DEF RemoteInv, Final
<1>6. ASSUME NEW s \in DOMAIN sockets, PeerCloses(s) PROVE RemoteInv'
  <2>1. /\ calls' = calls /\ attempt' = attempt /\ reconnectState' = reconnectState
        /\ sockets' = [sockets EXCEPT ![s].open = FALSE]
    BY <1>6 DEF PeerCloses, backoffVars
  <2>2. /\ left' = left /\ connected' = connected /\ timer' = timer /\ pinging' = pinging
        /\ pongDue' = pongDue /\ overtaken' = overtaken
    BY <1>6, Zenon DEF PeerCloses, pingVars, backoffVars
  <2>3. sockets' \in Seq(Socket) /\ Len(sockets') = Len(sockets)
    BY <1>1, <2>1, ChangedSocket
  <2>4. RemoteTypeOK'
    BY <1>1, <1>2, <2>1, <2>2, <2>3 DEF RemoteTypeOK
  <2>5. Parted => Parted'
    BY <1>2, <2>1, <2>2 DEF Parted
  <2> QED
    BY <2>2, <2>4, <2>5 DEF RemoteInv, Final
<1> QED
  BY <1>3, <1>4, <1>5, <1>6

LEMMA RemoteStep == RemoteInv /\ [RemoteNext]_remoteVars => RemoteInv'
<1> SUFFICES ASSUME RemoteInv, [RemoteNext]_remoteVars PROVE RemoteInv'
  OBVIOUS
<1>1. ASSUME NEW t \in TaskIds, Continue(t) PROVE RemoteInv'
  BY <1>1, CleaningKeeps, MakingKeeps, ReturningKeeps DEF Continue
<1>2. ASSUME NEW t \in FirstFree,
             PerformReconnect(t) \/ Connect(t) \/ Disconnect(t) \/ HandleConnectionLost(t)
      PROVE  RemoteInv'
  <2>1. t \in TaskIds
    BY DEF FirstFree
  <2> QED
    BY <1>2, <2>1, CallsKeep
<1>3. CASE UNCHANGED remoteVars
  BY <1>3 DEF remoteVars, connVars, backoffVars, pingVars, RemoteInv, RemoteTypeOK, Final, Parted
<1> QED
  BY <1>1, <1>2, <1>3, EventsKeep DEF RemoteNext, EventLoop

LEMMA RemoteInvariant == RemoteSpec => []RemoteInv
BY RemoteInitially, RemoteStep, PTL DEF RemoteSpec

(* The type invariant: what _channel and _subscription refer to was made.    *)
THEOREM RemoteTypes == RemoteSpec => []RemoteTypeOK
<1>1. RemoteInv => RemoteTypeOK
  BY DEF RemoteInv
<1> QED
  BY RemoteInvariant, <1>1, PTL

(* Whatever was pending when the user left, once it is over the app is       *)
(* disconnected and stays so.                                                *)
THEOREM LeavingEnds == RemoteSpec => []LeavingIsFinal
<1>1. RemoteInv => LeavingIsFinal
  BY NoTaskIs DEF RemoteInv, Final, Parted, LeavingIsFinal, Free
<1> QED
  BY RemoteInvariant, <1>1, PTL
-----------------------------------------------------------------------------
(* What the app shows, while it shows that something is under way.           *)
(* "connecting": the function that will end it; one of _performReconnect     *)
(* ends it only as long as nobody has left.                                  *)
ConnectingIsTrue ==
  reconnectState = "connecting" =>
    \/ \E t \in TaskIds : tasks[t].op = "connect" /\ tasks[t].at = "opens"
    \/ \E t \in TaskIds : tasks[t].op \in {"connectFailed", "disconnect"}
    \/ ~left /\ \E t \in TaskIds : tasks[t].op \in {"perform", "performFailed"}

(* "reconnecting": the timer, or the disconnect() that has stopped it. *)
ReconnectingIsTrue ==
  reconnectState = "reconnecting" => timer \/ \E t \in TaskIds : tasks[t].op = "disconnect"

(* "connected": a connection with its pings, or a function that is at it. *)
ConnectedIsTrue ==
  reconnectState = "connected" /\ ~left =>
    \/ connected /\ channel # 0 /\ pinging
    \/ \E t \in TaskIds : tasks[t].op # "none"

Shows == ConnectingIsTrue /\ ReconnectingIsTrue /\ ConnectedIsTrue

LEMMA InitShows == RemoteInit => Shows
BY DEF RemoteInit, Shows, ConnectingIsTrue, ReconnectingIsTrue, ConnectedIsTrue

(* A step of a function that keeps its name keeps what is shown, unless it   *)
(* was about to open a connection.                                           *)
LEMMA CleaningShows ==
  ASSUME RemoteInv, Shows, NEW t \in TaskIds, Cancelled(t) \/ Closed(t) \/ PerformCleaned(t)
  PROVE  Shows'
<1>1. RemoteTypeOK
  BY DEF RemoteInv
<1>2. PICK op \in Ops : op = tasks[t].op
  BY <1>1, TaskIs DEF Cancelled, Closed, PerformCleaned, At, Ops
<1>3. tasks[t].at \in {"cancels", "closes", "cleaned"}
  BY DEF Cancelled, Closed, PerformCleaned, At
<1>4. CloseChannel(t, op) \/ Go(t, op, "cleaned") \/ Go(t, op, "opens")
  BY <1>2 DEF Cancelled, Closed, PerformCleaned, At
<1>5. tasks'[t].op = op /\ \A u \in TaskIds : u # t => tasks'[u] = tasks[u]
  BY <1>1, <1>4, CloseTypes, GoTypes
<1>6. reconnectState' = reconnectState
  BY DEF Cancelled, Closed, PerformCleaned, backoffVars
<1>7. left' = left /\ timer' = timer
  BY Zenon DEF Cancelled, Closed, PerformCleaned, backoffVars
<1>8. tasks'[t].op # "none"
  BY <1>5 DEF Ops
<1>9. ConnectingIsTrue'
  BY <1>2, <1>3, <1>5, <1>6, <1>7 DEF Shows, ConnectingIsTrue
<1>10. ReconnectingIsTrue'
  BY <1>2, <1>5, <1>6, <1>7 DEF Shows, ReconnectingIsTrue
<1> QED
  BY <1>8, <1>9, <1>10 DEF Shows, ConnectedIsTrue

LEMMA MakingShows ==
  ASSUME RemoteInv, Shows, NEW t \in TaskIds, Opened(t) \/ OpenFails(t) \/ ConnectCleaned(t)
  PROVE  Shows'
<1>1. RemoteTypeOK
  BY DEF RemoteInv
<1>2. CASE Opened(t)
  <2>1. reconnectState' = "connected" /\ channel' = Len(sockets') /\ Len(sockets') # 0
    <3>1. [open |-> TRUE, heard |-> TRUE] \in Socket
      BY DEF Socket
    <3>2. sockets' = Append(sockets, [open |-> TRUE, heard |-> TRUE])
      BY <1>2 DEF Opened
    <3>3. Len(sockets') = Len(sockets) + 1 /\ Len(sockets) \in Nat
      BY <1>1, <3>1, <3>2, SocketsAre, AppendProperties
    <3> QED
      BY <1>2, <3>3 DEF Opened
  <2>2. connected' = TRUE /\ pinging' = TRUE
    BY <1>2, Zenon DEF Opened
  <2> QED
    BY <2>1, <2>2 DEF Shows, ConnectingIsTrue, ReconnectingIsTrue, ConnectedIsTrue
<1>3. CASE OpenFails(t)
  <2>1. PICK op \in {"connectFailed", "performFailed"} :
          CleanUp(t, op) /\ (op = "connectFailed" <=> tasks[t].op = "connect")
                         /\ (op = "performFailed" <=> tasks[t].op = "perform")
    BY <1>3 DEF OpenFails, At
  <2>2. op \in Ops
    BY DEF Ops
  <2>3. tasks'[t].op = op /\ \A u \in TaskIds : u # t => tasks'[u] = tasks[u]
    BY <1>1, <2>1, <2>2, CleanUpTypes
  <2>4. reconnectState' = reconnectState
    BY <1>3 DEF OpenFails, backoffVars
  <2>5. left' = left /\ timer' = timer
    BY <1>3, Zenon DEF OpenFails, backoffVars
  <2>6. ConnectingIsTrue'
    BY <2>1, <2>3, <2>4, <2>5 DEF Shows, ConnectingIsTrue
  <2>7. ReconnectingIsTrue'
    BY <2>1, <2>3, <2>4, <2>5 DEF Shows, ReconnectingIsTrue
  <2> QED
    BY <2>3, <2>6, <2>7 DEF Shows, ConnectedIsTrue
<1>4. CASE ConnectCleaned(t)
  <2>1. reconnectState' = "connecting" /\ Go(t, "connect", "opens")
    BY <1>4 DEF ConnectCleaned
  <2>2. tasks'[t].op = "connect" /\ tasks'[t].at = "opens"
    BY <1>1, <2>1, GoTypes DEF Ops
  <2> QED
    BY <2>1, <2>2 DEF Shows, ConnectingIsTrue, ReconnectingIsTrue, ConnectedIsTrue
<1> QED
  BY <1>2, <1>3, <1>4

(* Another attempt is announced with its timer, or the app gives up; after   *)
(* the user left, nothing is announced.                                      *)
LEMMA RetryShows ==
  ASSUME NEW tries, ScheduleReconnect(tries)
  PROVE  \/ left' /\ reconnectState' = reconnectState /\ (timer' <=> timer)
         \/ ~left' /\ reconnectState' = "failed"
         \/ ~left' /\ reconnectState' = "reconnecting" /\ timer'
<1>1. CASE left'
  <2>1. reconnectState' = reconnectState /\ timer' = timer
    BY <1>1, Zenon DEF ScheduleReconnect
  <2>2. timer' <=> timer
    BY <2>1, Zenon
  <2> QED
    BY <1>1, <2>1, <2>2, Zenon
<1>2. CASE ~left'
  BY <1>2, Zenon DEF ScheduleReconnect
<1> QED
  BY <1>1, <1>2

LEMMA ReturningShows ==
  ASSUME RemoteInv, Shows, NEW t \in TaskIds, ConnectGivesUp(t) \/ TryAgain(t) \/ DisconnectEnds(t)
  PROVE  Shows'
<1>1. RemoteTypeOK
  BY DEF RemoteInv
<1>2. CASE ConnectGivesUp(t) \/ DisconnectEnds(t)
  BY <1>2 DEF ConnectGivesUp, DisconnectEnds, Shows, ConnectingIsTrue, ReconnectingIsTrue,
              ConnectedIsTrue
<1>3. CASE TryAgain(t)
  <2>1. /\ tasks[t].op \in {"performFailed", "lost"}
        /\ ScheduleReconnect(attempt) /\ Return(t)
    BY <1>3 DEF TryAgain, At
  <2>2. \A u \in TaskIds : u # t => tasks'[u] = tasks[u]
    BY <1>1, <2>1, ReturnTypes
  <2>3. \/ left' /\ reconnectState' = reconnectState /\ (timer' <=> timer)
        \/ ~left' /\ reconnectState' = "failed"
        \/ ~left' /\ reconnectState' = "reconnecting" /\ timer'
    BY <2>1, RetryShows
  <2>4. left' <=> left
    BY <1>3, Zenon DEF TryAgain
  <2>5. CASE left' /\ reconnectState' = reconnectState /\ (timer' <=> timer)
    <3>1. ConnectingIsTrue'
      BY <2>1, <2>2, <2>4, <2>5 DEF Shows, ConnectingIsTrue
    <3>2. ReconnectingIsTrue'
      BY <2>1, <2>2, <2>5 DEF Shows, ReconnectingIsTrue
    <3> QED
      BY <2>5, <3>1, <3>2 DEF Shows, ConnectedIsTrue
  <2> QED
    BY <2>3, <2>5 DEF Shows, ConnectingIsTrue, ReconnectingIsTrue, ConnectedIsTrue
<1> QED
  BY <1>2, <1>3

LEMMA CallsShow ==
  ASSUME RemoteInv, Shows, NEW t \in TaskIds,
         Connect(t) \/ Disconnect(t) \/ PerformReconnect(t) \/ HandleConnectionLost(t)
  PROVE  Shows'
<1>1. RemoteTypeOK
  BY DEF RemoteInv
<1>2. tasks[t].op = "none"
  BY NoTaskIs DEF Connect, Disconnect, PerformReconnect, HandleConnectionLost, Call, Free
<1>3. ASSUME NEW op \in Ops, CleanUp(t, op)
      PROVE  tasks'[t].op = op /\ \A u \in TaskIds : u # t => tasks'[u] = tasks[u]
  BY <1>1, <1>3, CleanUpTypes
<1>4. PICK op \in {"connect", "disconnect", "perform", "lost"} : CleanUp(t, op) /\ op \in Ops
  BY DEF Connect, Disconnect, PerformReconnect, HandleConnectionLost, Ops
<1>5. tasks'[t].op = op /\ \A u \in TaskIds : u # t => tasks'[u] = tasks[u]
  BY <1>3, <1>4
<1>6. ConnectedIsTrue'
  BY <1>4, <1>5 DEF ConnectedIsTrue
<1>7. CASE Connect(t) \/ HandleConnectionLost(t)
  <2>1. reconnectState' = reconnectState
    BY <1>7 DEF Connect, HandleConnectionLost, backoffVars
  <2>2. timer' = timer /\ (left' = FALSE \/ left' = left)
    BY <1>7, Zenon DEF Connect, HandleConnectionLost, backoffVars
  <2>3. ConnectingIsTrue'
    BY <1>2, <1>5, <2>1, <2>2 DEF Shows, ConnectingIsTrue
  <2>4. ReconnectingIsTrue'
    BY <1>2, <1>5, <2>1, <2>2 DEF Shows, ReconnectingIsTrue
  <2> QED
    BY <1>6, <2>3, <2>4 DEF Shows
<1>8. CASE Disconnect(t)
  <2>1. CleanUp(t, "disconnect")
    BY <1>8 DEF Disconnect
  <2>2. tasks'[t].op = "disconnect"
    BY <1>3, <2>1 DEF Ops
  <2> QED
    BY <1>6, <2>2 DEF Shows, ConnectingIsTrue, ReconnectingIsTrue
<1>9. CASE PerformReconnect(t)
  <2>1. CleanUp(t, "perform") /\ reconnectState' = "connecting"
    BY <1>9 DEF PerformReconnect
  <2>2. tasks'[t].op = "perform"
    BY <1>3, <2>1 DEF Ops
  <2>3. timer /\ left' = left
    BY <1>9, Zenon DEF PerformReconnect
  <2>4. ~left'
    BY <2>3 DEF RemoteInv, Final
  <2> QED
    BY <1>6, <2>1, <2>2, <2>4 DEF Shows, ConnectingIsTrue, ReconnectingIsTrue
<1> QED
  BY <1>7, <1>8, <1>9

LEMMA EventsShow ==
  ASSUME RemoteInv, Shows,
         \/ RetryReconnect \/ Ping \/ PongArrived
         \/ \E s \in DOMAIN sockets : OnDone(s) \/ PeerCloses(s)
  PROVE  Shows'
<1>1. tasks' = tasks /\ channel' = channel
  BY DEF RetryReconnect, Ping, PongArrived, OnDone, PeerCloses, connVars
<1>2. CASE RetryReconnect \/ \E s \in DOMAIN sockets : OnDone(s)
  <2>1. PICK tries : ScheduleReconnect(tries)
    BY <1>2 DEF RetryReconnect, OnDone
  <2>2. \/ left' /\ reconnectState' = reconnectState /\ (timer' <=> timer)
        \/ ~left' /\ reconnectState' = "failed"
        \/ ~left' /\ reconnectState' = "reconnecting" /\ timer'
    BY <2>1, RetryShows
  <2>3. left' = FALSE \/ left' = left
    BY <1>2, Zenon DEF RetryReconnect, OnDone
  <2>4. CASE left' /\ reconnectState' = reconnectState /\ (timer' <=> timer)
    <3>1. ConnectingIsTrue'
      BY <1>1, <2>3, <2>4 DEF Shows, ConnectingIsTrue
    <3>2. ReconnectingIsTrue'
      BY <1>1, <2>4 DEF Shows, ReconnectingIsTrue
    <3> QED
      BY <2>4, <3>1, <3>2 DEF Shows, ConnectedIsTrue
  <2> QED
    BY <2>2, <2>4 DEF Shows, ConnectingIsTrue, ReconnectingIsTrue, ConnectedIsTrue
<1>3. CASE Ping \/ PongArrived \/ \E s \in DOMAIN sockets : PeerCloses(s)
  <2>1. reconnectState' = reconnectState
    BY <1>3 DEF Ping, PongArrived, PeerCloses, backoffVars
  <2>2. left' = left /\ timer' = timer /\ connected' = connected
    BY <1>3, Zenon DEF Ping, PongArrived, PeerCloses, connVars, backoffVars
  <2>3. pinging' = pinging \/ ~(connected /\ channel # 0)
    BY <1>3, Zenon DEF Ping, PongArrived, PeerCloses, pingVars
  <2>4. ConnectingIsTrue'
    BY <1>1, <2>1, <2>2 DEF Shows, ConnectingIsTrue
  <2>5. ReconnectingIsTrue'
    BY <1>1, <2>1, <2>2 DEF Shows, ReconnectingIsTrue
  <2>6. ConnectedIsTrue'
    BY <1>1, <2>1, <2>2, <2>3 DEF Shows, ConnectedIsTrue
  <2> QED
    BY <2>4, <2>5, <2>6 DEF Shows
<1> QED
  BY <1>2, <1>3

LEMMA StepShows == RemoteInv /\ Shows /\ [RemoteNext]_remoteVars => Shows'
<1> SUFFICES ASSUME RemoteInv, Shows, [RemoteNext]_remoteVars PROVE Shows'
  OBVIOUS
<1>1. ASSUME NEW t \in TaskIds, Continue(t) PROVE Shows'
  BY <1>1, CleaningShows, MakingShows, ReturningShows DEF Continue
<1>2. ASSUME NEW t \in FirstFree,
             PerformReconnect(t) \/ Connect(t) \/ Disconnect(t) \/ HandleConnectionLost(t)
      PROVE  Shows'
  <2>1. t \in TaskIds
    BY DEF FirstFree
  <2> QED
    BY <1>2, <2>1, CallsShow
<1>3. CASE UNCHANGED remoteVars
  BY <1>3 DEF remoteVars, connVars, backoffVars, pingVars, Shows, ConnectingIsTrue,
              ReconnectingIsTrue, ConnectedIsTrue
<1> QED
  BY <1>1, <1>2, <1>3, EventsShow DEF RemoteNext, EventLoop

(* At rest the app shows the truth: every display of something under way has *)
(* its function or its timer, whatever losses, attempts and calls overlapped. *)
THEOREM RestShowsTheTruth == RemoteSpec => []RestIsTrue
<1>1. RemoteInv /\ Shows => RestIsTrue
  <2> SUFFICES ASSUME RemoteInv, Shows, \A t \in TaskIds : Free(t), ~timer PROVE Settled
    BY DEF RestIsTrue
  <2>1. \A t \in TaskIds : tasks[t].op = "none"
    BY NoTaskIs DEF Free
  <2>2. reconnectState \in States
    BY DEF RemoteInv, RemoteTypeOK, States
  <2>3. reconnectState # "connecting" /\ reconnectState # "reconnecting"
    BY <2>1 DEF Shows, ConnectingIsTrue, ReconnectingIsTrue
  <2>4. reconnectState = "connected" => left \/ (connected /\ channel # 0 /\ pinging)
    BY <2>1 DEF Shows, ConnectedIsTrue
  <2> QED
    BY <2>2, <2>3, <2>4 DEF Settled, States
<1> QED
  BY RemoteInvariant, <1>1, InitShows, StepShows, PTL DEF RemoteSpec
=============================================================================
