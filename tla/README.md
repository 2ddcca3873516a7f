# Linqora: models and proofs

Linqora lets a phone control a computer. The **host** (`LinqoraHost`, Go) keeps
WebSocket connections, authorizes devices, streams metrics, media and clipboard
data to the clients that joined the matching *room*, and runs scripts and power
actions. The **remote** (`linqoraremote`, Flutter) finds a host, connects,
authorizes, joins rooms and reconnects when the connection is lost. This
directory holds TLA+ models of the parts of that code where threads, timers and
messages meet, TLC configurations that check them on small instances, and TLAPS
proofs. Paths below are relative to `src/LinqoraHost` unless they start with
`linqoraremote`.

## Inventory

| component | state | operations | interacts with | what makes it correct |
|---|---|---|---|---|
| rooms (`internal/ws/room.go`, `room_manager.go`) | `RoomManager.Rooms`, `Room.Clients`, `Client.Rooms` | join, leave, leave all, broadcast | called by read pumps and by the inactivity monitor; calls the collector manager | a joined client is in the room that broadcasts reach; a finished one is in none; empty rooms go away |
| collectors (`internal/collectors`) | `activeRooms`, per collector `isRunning`, a context and a goroutine | first client joined, last client left, sample and send | called by rooms, send through the broadcaster | runs exactly while somebody listens; never two loops |
| connections (`internal/ws/server.go`, `client.go`) | `WSServer.clients`, per client a send channel, `closed`, a read and a write pump | connect, receive, send, close, evict, shut down | everything on the host | every message once and in order until the close; every closed connection is cleaned up |
| authorization (`internal/auth`, `cmd/linqora_gui.go`) | `AuthorizedDevs`, `pendingAuth`, `pendingResult`, `authAttempts`, `authChan`, console prompts and timers | request, check, poll, show, answer, expire, revoke | read pumps, console or GUI, configuration | nobody is trusted unasked; every request gets an answer, its own |
| challenge (`internal/auth/challenge.go`) | a token with an expiry per device | issue, verify | authorization | a token is used once, by its device, in time |
| configuration (`internal/config`) | a JSON file; in the host the pointers `cfg` and `authManager.config`, in a command a copy | load, change, save | server, CLI, GUI | a revocation holds; file and memory agree at rest |
| message routing, REST (`internal/ws/server.go`) | a device per client, goroutines under way | one handler per message type, one per route | everything on the host | every message is answered once; what is refused touches nothing |
| scheduler (`internal/scheduler`) | script list, file, running map, schedule strings | add, update, delete, execute, stop, cron | read pumps, REST, cron loop | a script runs at most once at a time, can be stopped, runs its own command, at its minutes |
| power and lock state (`internal/power`) | `deviceLocked` | lock, restart..., monitor | operating system | the flag follows the real lock |
| battery alert (`internal/collectors/battery.go`) | threshold, `alerted` | poll, set threshold | broadcast to all | one alert per drain cycle |
| clipboard feed (`internal/clipboard`, `internal/collectors/clipboard.go`) | last text, a channel, two goroutines per start | start, stop, poll, send, broadcast | rooms, broadcaster | clients end up with the current text |
| rate limiter (`internal/ws/ratelimiter.go`) | tokens, last time | allow | read pump | bound per window; who waits gets through |
| server loop, command line (`cmd`, `WSServer.Start`) | per run a context, a port, background loops, an advertisement; the global `stopCh`, `stopOnce` | start, stop, quit, fail | window, console, signals | a run that was stopped ends, the one that runs is whole |
| remote connection (`linqoraremote/lib/data/providers/websocket_provider.dart`) | channel, joined rooms, attempt counter, timers, `_userDisconnected` | connect, ping, lost, back off, reconnect, re-join, disconnect | host | reconnects unless the user left; rooms come back |
| remote authorization (`linqoraremote/lib/presentation/controllers/auth_controller.dart`) | status, timer, handlers | start, answer, cancel, clean up | remote connection, host | one outcome per attempt |

The rest calls the operating system and answers (media, mouse, keyboard,
processes, files, monitors, start-up entries, REST), is I/O with no interacting
state (mDNS, certificates, updates) or is presentation. `PROJECT.json` lists
every part with what was decided about it, and the hazards of the code line by
line.

**What is hard here.** Room operations take four to eight critical sections on
four mutexes and keep their findings in locals between them. The inactivity
monitor runs the same clean-up as the client's own read pump. Authorization
spreads over a sender goroutine with a timeout, a bounded channel, an operator,
a timer per prompt and a poller per answer, tied together by device id only.
The scheduler frees an id before its process is gone and keeps pointers into a
slice that moves. The remote tests its flags before an `await` and acts after.

## Plan

Everything of the first plan is written:

1. **Rooms**: rooms and collectors, with the abstract `RoomService`.
2. **Auth**, and **Session** with the challenge, the gates of every message and REST.
3. **Client**: registry, send channel, pumps, `Close`, eviction, `Shutdown`, with order
   and completeness of delivery as the abstract `Outbox`.
4. **Scheduler**: slice and backing array, run table, stop, saves, restart; **Schedule**.
5. **ConfigStore**: server, CLI and GUI over one file, with crashes; **Power**,
   **Battery**, **Limiter**, **Clipboard**, **Host**.
6. **Remote**: the connection of the app.
7. Proofs about all of these: every invariant and safety action property that a run checks,
   and the safety of both refinements.

8. What still holds where a run finds a violation, as theorems: `ExclusiveClientsAreServed` for
   `rooms_unserved`, `LostInFrontOfFullChannels` for `auth_stuck`, `AnswersHaveDecisions` for
   `auth_stale`, `ShutdownReachesTheRegistered` for `client_shutdown`, `UnstoppedCanBeStopped`
   for `scheduler_stop`.

Left: the rooms and the authorization of the app, composed with a host that does not know a
new connection's device.

## Modules

### Rooms (with RoomService, MCRooms)

Threads are the read pump of every client and the monitor (`Monitor`). A step is
one critical section; the code between two sections touches only locals (`arg`,
`obj`, `flag`, `todo`) and is attached to the section before it. `pc` names the
section that comes next.

| code | actions |
|---|---|
| `handleWSConnection` | `Connect` |
| `AddClientToRoom` | `JoinRoom` (lookup or create), `AddCount` (isFirst), `AddMember`, `AddState`, `NotifyFirst` |
| `RemoveClientFromRoom` | `LeaveRoom`/`SweepNext` (lookup), `RemCount` and `RemHas` (the two operands of isLast), `RemMember`, `RemState`, `RemCheck`, `RemDelete`, `NotifyLast` |
| `RemoveClientFromAllRooms` | `Snapshot`, `SweepNext`, `SweepEnd` |
| `removeClient` after a read error | `Disconnect` |
| `checkInactiveClients` | `CheckInactive`, `Evict`, then the same sweep |
| `OnFirstClientJoined`/`Start`, `OnLastClientLeft`/`Stop` | called by `NotifyFirst`/`NotifyLast`, under `cm.mu` |
| `collectLoop` returning | `LoopReturn` |

A `*Room` is an identity from `RoomIds`, so a thread can hold a room that is no
longer in the map. An identity returns to use when no map entry and no local
refers to it; with one identity more than a state can refer to, `RoomIds` limits
nothing. Time is a free choice: any registered client may be found silent.

`RoomService` says what rooms promise without objects, locks or threads: a set of
subscribers per room, a collector that starts only for somebody, stops only on an
empty room, and does both eventually.

Properties: `OneLiveLoop` (at most one live loop per collector, and `isRunning`
tells which), `FinishedClientGone`, `NoUnaskedMembership`, `NoEmptyRoomKept`,
`ClosedClientFinishes`, `JoinedClientIsServed`, `ImplementsService`.

### Auth (with MCAuth)

A host without a shared secret, with a console or with a GUI (`gui`, fixed at the
start). A step is what a thread does under `am.mu`, or under `requestsMutex` with
`am.mu` nested in it. Requests are numbered in the order they are made, which
is the order of their `RequestTime`; each has an owner. `sending`, `queue`,
`prompts` and `dialogs` are the stages of a request on its way; `armed` and
`fired` split a timer's life at the point from which `Stop` comes too late.
Timers, the poller's 30 s, the minute of the rate limit and the second of the
sender are free choices, except that the sender gives up only on a full channel.
`decision`, `waiting`, `told` and `withdrawn` (approvals that a revocation undid) are history
variables.

| code | actions |
|---|---|
| `handleAuthRequest`, `handleAuthCheck`, `RequestAuthorization` | `HandleAuthRequest`, `HandleAuthCheck`, `RequestAuthorization` with `AnswerPending` |
| the minute of the rate limit | `WindowEnds` |
| the sender's goroutine | `SendRequest` |
| `ProcessAuthRequests`, `watchAuth` | `ShowRequest` |
| `ProcessAuthResponse`, a dialog's answer | `ProcessAuthResponse`, `AnswerDialog`, with `RespondToAuthRequest` |
| the expiry of a prompt | `TimerFires`, `TimerExpires` |
| the poller's goroutine | `TakeResult`, `CheckResult`, `PollResult`, `PollTimeout` |
| the Devices tab | `RevokeDevice` |

Properties: `InFlightIsPending` (a request on its way is the pending request of its
device, undecided, and in one place), `TrustIsApproved` (a device is trusted exactly if
some approval of it was not followed by a revocation, also one that came after its poller gave
up), `AnswersAreBacked` (a
client is told only what was decided for its device), `LostOnlyWhenFull` (a step that takes
a request off its way decides it, or is its sender giving up), `PromptsAreDecided`.
`PromptsHaveTimers` (on the console) is proved and not run.

### Client (with Outbox, MCClient)

The life of a connection among the goroutines that touch it. A step is a section
under `clientsMutex` or `client.mu`, or one operation on a connection.

| code | actions |
|---|---|
| `handleWSConnection` | `Upgrade`, `Register` (and both pumps start) |
| `sendMessage` | `SendMessage`, within `Reply` (a handler answers) and `SendNext` |
| `broadcastToAll` | `Broadcast` (snapshot), `SendNext` per client |
| `go c.Close()` on a full channel | `CloseSlow` |
| `StartWritePump` | `PumpTop`, `PumpEnter`, `PumpTake`, `PumpStop`, `PumpWrite`, `PumpPing` |
| `StartReadPump` ending, `removeClient` | `ReadFails`, `Cleanup` |
| `checkInactiveClients` | `CheckInactive`, `EvictClose`, `EvictRemove`; `FallSilent` and `Ping` are the clock and the peer |
| `Shutdown` | `ShutdownClients`, `ShutdownListener`, `ShutdownEnd` |

`conn` is the connection, `closed` the flag of `Client.Close`: the host closes a
connection in four ways, of which two set the flag. The write pump evaluates
`c.SendChannel` without the lock, so after a concurrent `Close` it may see the
channel or nil, a free choice in `PumpEnter`. A read or a write may fail at any
time. `accepted` and `written` are history variables: what `sendMessage` took and
what the write pump wrote.

`Outbox` is the promise without channels or goroutines: what was accepted is
delivered in order, each once, with a bounded backlog, and eventually, until the
client is cut off.

Properties: `NoSilentLoss` (a client that is kept has missed no broadcast),
`RegisteredAreDisconnected` (what `Shutdown` does keep of its promise: those
registered when it walks the registry), `CutClientsEnd` (both pumps end once the host has closed the
connection, the nil channel included), `SilentIsEvicted`, `ImplementsOutbox`. `NothingLeaks`
(whoever cleans up, the connection is closed) is proved and not run.

### Scheduler (with MCScheduler)

The scripts, their file, and the calls of `Execute`. A step is a section under
`m.mu`, one operation on the file, or one read of a script through the pointer that
`Execute` keeps after it has released the lock.

| code | actions |
|---|---|
| `NewManager`, `SeedDefaults`, rest of `NewWSServer` | `Load`, `SeedDefault` (one `Add` each), `Serve` |
| `Add`, `Update`, `Delete` | `Add`, `Update`, `Delete`, then the save of the same goroutine |
| `save` | `Marshal`, `Truncate`, `Write`, `SaveFails` |
| `Execute` | `Find`, `Register`, `ReadCommand`, `Start`, then `Exit` or `Kill`, and `Return` |
| `context.WithTimeout` | `Timeout` |
| `Stop` | `Stop` |
| the process of the host ending | `Crash` |

`m.scripts` is a slice, so it is modelled as one: `heap` holds the backing arrays
it has had, `count` its length. `append` writes in place or moves to a larger
array, `Delete` shifts within the array, and a call's `array` and `index` are its
pointer. The capacity that `json.Unmarshal` leaves is a free choice. A script's
command and arguments are one `body`, named by the call that set it, but read
in two steps. A file is a list, absent, or `Bad` (it does not parse); two
overlapping writes may leave a mixture. A client's and the cron loop's runs start
in the same way, at any time. `may`, `moved`, `saved` and `stops` are history.

Properties: `RunningIsLive`, `StopsBoundRuns`, `RunsItsOwnScript`, `SavedAtRest`,
`EditsAreExact` (an edit changes the script of its id and no other, and nothing else does
while the server is up), `EveryRunReturns`. Proved and not run: `StoppableUntilStopped` (as
long as no run of a script was stopped, a Stop finds its process) and `IdsAreUnique` (in the
list, in every save under way and in the file).

### Session

What the host does with a message and with an HTTP request. A read pump carries out
one message after the other, so a message is one step; what a handler starts with
`go` is a job, which ends, and answers, later. The payload is of one of five classes
(`Data`): it does not unmarshal, lacks what is required, has a value out of range, is
a movement of the mouse, or is good. A handler is then the set of its outcomes: the
codes it answers with and whether it touched the host. What the operating system
says, whether a message is over the limit and what the operator decides are free
choices; they are made in Limiter and Auth.

| code | definitions |
|---|---|
| `StartReadPump`, `handleClientMessage` | `Receive`: the limit, then ping and authorization, then the gate, then the handler; `Ignore` for what does not decrypt or is of no known type |
| the handlers | `HandleScriptAdd` ... `HandlePowerAnswer`, one set of outcomes each, gathered in `HandlerAnswers` |
| `handleScriptExecute`, `handleShellExec` | `Launch`, then `JobEnds` |
| `checkAuthResultPeriodically`, after a "pending" | started in `Settle`, then `JobEnds` |
| the settings of the window | `SetSecret` |
| `auth_request`, `auth_check`, `auth_challenge_response` | `AnswerAuthRequest`, `AnswerAuthCheck`, `HandleChallengeResponse` |
| `ChallengeStore` | `Generate`, `Verified`, `Consume`, `ChallengeExpires` |
| the REST routes | `Rest`: method, secret, then `RestInfo` ... `RestKeyboardType` |

Properties: `AnswersOwed` (each message is answered exactly once, now or by a goroutine
under way, and once more, with the decision or a timeout, if it made a request that is
pending; movements of the mouse, joins, leaves and unknown types get no answer), `ChallengesAreOneTime` (an answer is accepted exactly if it is right, in
time, to the newest token of its device and the first to it). `RefusedIsUntouched`
(nothing that is refused has touched the host) is proved and not run.

### ConfigStore

The configuration file between two processes: the host and a command that edits the
file. In the host `cfg` and `authManager.config` are pointers to one object or, after
a refresh of the window, to two (`object`, values `a` and `b`). `SaveConfig` is the
marshalling, which belongs to the change before it (`BeginSave`), `SaveOpens`
(truncates), `SaveWrites`, or `SaveFails`; `Killed` ends a process anywhere.

| code | actions |
|---|---|
| `LoadConfig` in a command, `device revoke`, `config set` | `CliLoad`, `DeviceRevoke`, `ConfigSet`, `CliShow` |
| `RunGUI`, `StartServerBackground` | `RunGUI`, `StartServer` |
| `RespondToAuthRequest`, revoke in the window, settings, refresh | `Approve`, `GuiRevoke`, `SaveSettings`, `Refresh` |

Properties: `QuietRevocationHolds` (a revocation made while no host runs is undone by an
approval only), `SettledIsOnDisk` (with no save under way, and none failed or overtaken
by another process, the file is what the object changed last holds).

### Limiter

The token bucket in whole parts of a token, since the code's numbers are fractions:
`Allow`, and `Tick` for the clock. `OpenWindow` starts the count of a window, at any time.
Properties: `WindowBound`; `WaitIsEnough` (a client that waited the time of a token is let
through) is proved and not run.

### Schedule

A schedule string, abstracted to its kind and numbers (`ParseSchedule`), what it matches
(`ShouldFire`) and the loop that sleeps until a whole minute and then reads the clock
(`StartCronLoop`, `CheckSchedules`, `StopCronLoop`), late by any delay, while clients
change the schedule (`Reschedule`). `RunsWhenDue` holds it against `Due`, the minutes a
schedule means: never twice in a minute, and in exactly the minutes that are due while
the loop is on time. A schedule that is not valid, like 24:00 or 0:60, means none.

### Host

Servers started and stopped again and again in one process. A run is a record of what
is left of it: its context, its `Start`, its port, its background loops, its
advertisement, its stop channel, its watcher of authorization requests. `stopCh`,
`stopOnce` and `mdnsServer` are global: those of the latest run.

| code | actions |
|---|---|
| `StartServerBackground`, `runServer` | `StartServerBackground` |
| `WSServer.Start` | `Listen`, `ServeFails`, `Shutdown`, `CloseListener`, `Drained` (with or without s.cancel), `CloseStopOnError` |
| `watchAuth` | `WatchEnds` |
| `StopServer`, `gracefulShutdown` | `StopServer`, `Cancel`, `Withdraw`, `Signal` |
| the window closing, a signal | `Quit` |

The lock monitor, the inactivity monitor and cron end with `s.ctx`, the battery loop with a
context of its own that nobody cancels, so every run leaves it behind.

Properties: `RunningIsWatched`, `StoppedRunEnds` (a run that was told to stop, and has no
step left, has given up its port and, unless its `Start` ended with an error, every loop but
that of the battery); `AdvertEndsWithRun` is proved and not run.

### Clipboard

Each start makes a watcher and a forwarder joined by a channel; stop waits for neither,
so those of an earlier start may still be busy. `FirstGet`, `Poll`, `Send`, `WatcherEnds`
are the watcher, `Take`, `BroadcastClipboard`, `ForwarderEnds` the forwarder; `Copy` is
anybody who changes the clipboard. `FeedIsCurrent`: a feed that is on and has nothing
under way has last told the clients what the clipboard holds.

### Power and Battery

Power: a command is handled by a read pump (`HandlePowerCommand`, then `Gate` and
`GateProbe`, the look at the lock) or by an HTTP handler (`RestPower`, no look), then
carried out by a goroutine (`Execute`, which looks again, `Perform`, and `Mark` for the flag after a
lock); the monitor is `MonitorTick`, `MonitorAsks`, `MonitorClears`. A platform is what its
question for the lock may answer (`Probe`): on Windows the truth or an error, with
`loginctl` the truth, on GNOME always "locked" (`is inactive` contains `active`), on a
Mac "locked" or an error, elsewhere the flag itself.
Properties: `NotWhileLocked` where a locked screen is answered as such, `FlagClearsWhereAsked`
where an unlocked one is.

Battery: a poll is `Sample`, then `DecideAlert` and `Reset` or `Alert` under the lock, then
`BroadcastAlert`; `SetThreshold` comes from any client, `Drain`, `Charge` and `Plug` are the
battery. `GetBatteryInfo` is what each system can tell: a Mac always charges, since
`discharging` contains `charging`. Properties: `OneAlertPerDrain` as long as the battery can
be read, `LowBatteryIsTold` on the systems that can tell.

### Remote

The connection of the app. One event loop runs functions that are interrupted at their
awaits only, so a task is a function and the await it is at. `Connect`, `Disconnect` and
`RetryReconnect` are the user's and the background service's; `Cancelled` and `Closed`
are the two awaits of the clean-up, `ConnectCleaned`, `PerformCleaned` what follows it,
`Opened` and `OpenFails` the end of an attempt, `TryAgain` the next one;
`PerformReconnect` is the timer, `OnDone` the end of a stream (an
error is only logged, `_handleError`),
`Ping`, `PongArrived` and `HandleConnectionLost` the ping timer and the missing pong.
Properties: `LeavingIsFinal` (when the user left and everything under way is over, the app
is disconnected and stays so; a disconnect that overtakes an attempt under way is left
out, see below), `RestIsTrue` (with no function under way and no reconnection to come, what
the app shows is so), `ComesToRest` (left alone, the app comes to rest, and what it shows as a
connection is one, or one that its pings will find out).

### Instances of several parts (MCAuthParts, MCAuthRemote, MCClientParts)

Parts that share no state are checked in one run: the variable `part` says which of
them does its steps, the others stay at their beginning. The states of the run are the
sum of the parts', nothing is interleaved between parts, and each property is about one part. In the
runs with fairness the conjunct of a part that never starts is met vacuously,
because none of its fair actions is enabled at its beginning.

## Runs

| run | instance | shows |
|---|---|---|
| `rooms` | 2 clients, 2 messages each, 1 room, 3 identities, symmetry | the safety invariants of Rooms in every interleaving |
| `rooms_live` | 2 clients, 1 message each, fair | `ClosedClientFinishes` |
| `rooms_exclusive` | 2 clients (2 and 1 messages), 2 rooms, operations on one room name do not overlap | `JoinedClientIsServed` and `ImplementsService`, fairness included |
| `rooms_unserved` | as `rooms` | violation: overlapping operations leave a client joined and unserved |
| `auth` | a phone with two connections, a tablet, 3 messages shared in every way; channel of 1, 1 attempt per minute, 3 requests; the instances of six other parts below | the safety of Auth, Session, ConfigStore, Limiter, Schedule, Host and Clipboard, one at a time |
| `auth_live` | phone (2 messages) and tablet, 2 requests, fair; the app with 2 sockets, 3 calls and 3 tasks, fair | `PromptsAreDecided`; `LeavingIsFinal`, `RestIsTrue` and `ComesToRest` |
| `auth_stuck` | as `auth` | violation: a dropped request leaves its device pending for ever |
| `auth_stale` | as `auth` | violation: a rejection is passed on to a later request |
| `client` | 1 client, 1 broadcaster, channel of 1, 2 broadcasts, 1 reply, fair | delivery as `Outbox` promises, `Shutdown` reaches the registered, both pumps end, silent clients go; the safety and liveness of Power and Battery |
| `client_shutdown` | 2 clients, 2 broadcasters | violation: a connection survives `Shutdown` |
| `scheduler` | 2 scripts (both defaults), 1 client that changes the list, 3 calls, fair | the safety of Scheduler, and that every run returns |
| `scheduler_stop` | as `scheduler` | violation: a process nobody can stop |

**Bounds.** One room name is enough for every race within a room, since a room
operation touches one name; the second name in `rooms_exclusive` lets sweeps visit
several rooms. Two clients suffice for all the races listed as hazards (one
operates, one interferes), and the monitor is a third thread. Two messages let a
client leave and join again, which is what a stale room object needs. In `auth`
the channel of 1 and the limit of 1 make "full" and "too many" happen with three
requests; two connections of one device give the shared result, the tablet the
second prompt and the second dialog. In `client` one connection is enough for
what it shows, since connections share only the registry, and a channel of 1 is
full after one message while a second is in the write pump's hand. In `scheduler`
the 3 calls are changes of the list, runs and crashes together: enough for a run
to be stopped and run again around a third change, for an array to be outgrown
under a pointer, and for a crash in the save of a change, a restart with seeding
and a change after it. It has one goroutine that changes the list: with a second one
two saves can overlap and `SavedAtRest` does not hold. The other
parts have the smallest instance in which each of their hazards happens:

* Session: two connections of one device, 2 challenges (one replaces the other), 1
  goroutine under way at a time, a shared secret or none, set and removed meanwhile.
* ConfigStore: one device and two secrets, so that the two objects of the host and the
  file can differ in what an approval changes and in what the settings change.
* Limiter: a burst of two messages, a message in 1.5 ticks, 5 ticks: the bucket is
  full, empty and in between.
* Schedule: 2 ticks to a minute, 3 minutes to an hour, 2 hours to a day, a zone that is
  one minute ahead, 15 ticks (a day and a quarter), nine schedules, one
  rescheduling.
* Host: two runs, the least that can overlap. Clipboard: a channel of one, two
  texts (they may change back), two starts.
* Power: five platforms and two commands, since one may pass the look while the other
  locks. Battery: levels 0 to 2, thresholds 0 and 1, three systems.
* Remote: two delays, two sockets, three calls of the user, three tasks at a time; with
  two tasks no disconnect could overtake an attempt.

`MaxRequests`, `Messages`,
`Sends`, `MaxCalls`, `MaxTokens`, `MaxJobs`, `MaxTime`, `MaxTicks`, `MaxRuns`, `MaxFeeds`,
`MaxCommands`, `MaxSockets` and `TaskIds` are the only artificial limits; `CHECK_DEADLOCK FALSE` because
the bounded clients stop.

**Fairness.** Weak fairness on every step of a goroutine that is under way (the
Go scheduler runs what is not blocked, and no section waits for another thread
while it holds a lock), on the read error of a closed connection, on an armed
timer's firing. None on clients, peers, the operator or the clock's minutes. In
Client also the ticker of the write pump where it is what wakes it, the read
error of a connection that was closed or is no longer pinged (its read deadline
passes), the monitor's ticker, and strong fairness of taking a message, since the
select is entered again and again between two ticks 54 s apart. In Scheduler the
steps of `Execute`, the kill and the time-out; none of a script, which may run for
ever, nor of saves.
In Power the goroutines of commands and the monitor's ticker, and strong fairness of a
question that can be answered: it may fail now and then, not for ever. In Battery
the steps of a poll, and strong fairness of a reading. In Remote the event loop: what
is awaited ends, by a timeout if need be, set timers fire and a closed socket is told;
nothing of the user, the network or the ping timer. `ExclusiveSpec` asks weak fairness of the operations under the exclusion only.

## Findings

* **A joined client can stay unserved** (`rooms_unserved`). A leaver empties a room,
  releases the locks and deletes the map entry by name; a joiner holding the old
  object, or one that already made a new room, is lost to broadcasts. The run
  `rooms_exclusive` shows that one lock per room name removes this and every
  other divergence from `RoomService`.
* **A dropped authorization request blocks its device** (`auth_stuck`). After the
  second in which the channel stays full nothing removes the `pendingAuth` entry.
* **A result outlives its request** (`auth_stale`). `pendingResult` is keyed by device
  and never cleared by a new request.
* **A connection survives `Shutdown`** (`client_shutdown`). It was upgraded before the
  walk over the registry and registered after it.
* **A script started again after a stop can become unstoppable** (`scheduler_stop`).
  The deferred delete of the first run removes the entry of the second.

Also met while modelling, without a run of their own:

* Documents. `docs/SETUP.md:94` has a script time out after 30 seconds, the code after
  5 minutes (`scheduler.go:21`). `docs/API.md:273` says scripts are defined on the server
  only, while `script_add` lets a client add one. `docs/API.md:5` says the server always
  replies; joining and leaving a room, a movement of the mouse and an unknown type
  get no answer. `docs/API.md:383` has a path outside the shared folder answered
  with 403, the code answers 500.
* Configuration. A `device revoke` while the server runs is undone by its next save,
  and does not reach the copy in its memory.
* Server loop. When the port is busy the window shows a running server without a
  listener; a quick restart while the old listener is still bound fails likewise.
  Every stop leaves the battery loop of the run behind (`server.go:95` has it "always
  active"), so that after a restart two of them poll. After a `Shutdown` that timed out the other loops of the run go on, and scheduled scripts
  run twice once the next is started. An error of a run that fails late closes the
  stop channel of the next one and ends its watcher. `Quit` may end the process before
  the advertisement is withdrawn.
* Power and battery. On GNOME and on a Mac the lock flag is set and never cleared by the
  monitor, since the question never answers "unlocked". No alert is ever
  sent on a Mac. A battery whose level cannot be read counts as empty.
* Clipboard. What is copied between `Start` and the watcher's first look is not sent.
* Schedules. A wall clock that is set back runs a minute a second time; Schedule
  assumes that it is not set.
* App. A disconnect during an attempt leaves the attempt to succeed, and the app
  connected after the user left (`LeavingIsFinal` without the premise about `overtaken`).
  `connect()` does not cancel the reconnect timer, so there can be two
  sockets, one of them in nobody's hands. A reconnected app re-joins its
  rooms before it is authorized, and the host answers 401.

## Proofs

`RoomsProofs` proves, for any sets of clients, rooms and identities and any number of
messages, under `ConstantsAssumption` (which only says that the special values are
different from the others and types `Messages`):

* `TypeCorrect`: `Spec => []TypeOK`.
* `CollectorsHaveOneLoop`: `OneLiveLoop`. Inductive with one addition: loops and
  cancelled contexts have generations up to `gen`, so a `Start` makes a new one.
* `FinishedClientsAreGone`: the invariant follows the client's clean-up. Once the
  snapshot is taken, every room in the map that has the client is still in `todo`,
  or is being removed; the point is that nobody else adds the client, because only
  its own read pump does, and that a room object under a name changes only when
  the old one left the map.
* `MembersAskedToBe`: in-between sections of the client's own operation are named by
  `pc`, the monitor only removes.
* `EmptyRoomsAreDeleted`: an empty room in the map has a witness, a thread past its
  removal that will look again, or a joiner about to fill it.

* `ExclusiveClientsAreServed`: `ExclusiveSpec => []JoinedClientIsServed`. The invariant
  (`ServiceInv`) follows one room name at a time. When no operation is on it (`Settled`) a
  room of that name in the map is not empty, it holds the clients that know they are in it,
  and the collector runs exactly if there are any. While one operation is on it, `Between`
  says what is true after each of its sections: the room object and the flag it has read are
  still right, since nobody else touches the name. The first section of an operation
  leads from the one to the other, the last one back.
* `ExclusiveStepsServe`: the safety half of `ImplementsService`, from the same invariant. A
  step either is the one at which a room gains or loses its client in `RoomService`, or
  changes neither rooms nor running collectors as they are seen there.

`SchedulerProofs` proves, for any sets of ids and writers, any list of defaults that is not
empty (`SomeDefaults`, `scheduler.go:270`) and any number of calls, crashes included:

* `SchedulerTypes`: `Spec => []TypeOK`. It needs what the operations on arrays return
  (`GrownArray`, `LoadedArray`, `WithoutArray`) and one fact about all changes of
  the list, `PlacesKept`: a place that held a script still holds one, so a pointer
  into any array stays on a script.
* `EntriesAreLive` and `StopsBoundProcesses`: the run table. `NextTable` reduces
  every step to one of five changes of three things, the calls a script has under
  way (`Busy`), the holder of its id and the number of stops. The holder is busy;
  and the calls under way that do not hold the id are at most as many as the
  stops, because a `Return` that takes the entry of another call is itself a
  call that held none, so their number stays.
* `UnstoppedCanBeStopped`: the same count says that with no stop no call is under way but the
  holder of the id.
* `RunsExecuteTheirScript`: a call that no deletion moved points at its script, and,
  if in the array in use, below the end of the list, where no append writes. An
  update of the element it points to is an update of its own script.

* `SavedOneByOne`: `SavedAtRest` for any number of writers whose changes do not overlap
  (`OneChange`, a premise about the whole behaviour, because with two writers the older of
  two lists can be written last). `SavesOK` follows a save through its sections: what has
  been marshalled is what the list holds, and once it is written, or loaded at a start, file
  and list agree, but for a first start that has yet to add its first default.
* `IdsNameOneScript`: inductive as it stands, over what an append, an update and a deletion
  leave at each place (`AppendList`, `UpdateList`, `DeleteList`): a file can only get a list
  that had every id once, so a load brings back no more than that.
* `EditsChangeOneScript`: the action property `EditsAreExact`, from `IdsAreUnique`; without that an
  update or a deletion, which stops at the first match, would leave a script behind.

`AuthProofs`, for any devices, connections, limits and capacities:

* `RequestsInFlightArePending`: `Flight` says where a request can be, one stage at a time,
  and that it is the pending one of its device. The ledger of decisions
  (`Ledger`) says that a decision is made once, while the request is pending.
* `LostInFrontOfFullChannels`: an action property. Each action that takes a request out of
  one stage puts it into the next or decides it (`OnItsWay`); `ScreensHaveTimers` says of the
  last stage on the console that a timer, armed or fired, will. They need that the stages are apart
  (`Flight`), so that no step disposes of a request twice.
* `TrustIsEarned`: the devices trusted are those with an approval that no revocation followed
  (`Standing`); an approval decides the one pending request of the device, so it is a new one.
* `AnswersHaveDecisions`: read off the ledger. A result in `pendingResult` was decided for that device, though not for the request that finds it.

`ClientProofs`, for any connections, broadcasters and bounds:

* `ConnectionsDoNotLeak`: a connection whose read pump runs is registered or closed
  (`Lives`), whichever of monitor, shutdown, slow close and clean-up came first.
* `ShutdownReachesTheRegistered`: once a client is registered its connection is open or
  closed, and closed if the server is not up (`Known`); from then on no step undoes either.
* `BroadcastsAreNotLost`: inductive together with that.
* `StepsAreServed`: the safety half of `ImplementsOutbox`. Until the write pump ends, what
  was accepted is what was written, then what the pump holds, then the channel
  (`Piped`); afterwards at most the message it held is missing. Each step of Client
  then is one of `Outbox` or leaves its variables alone.

`SessionProofs`, for any connections, devices, numbers of challenges and goroutines, and for
any rate, capacity and cost:

* `EveryMessageIsAnswered`, `RefusalsTouchNothing`: one lemma about all tables of outcomes
  (`HandlersDo`) and one step per action; what is owed beyond the answer given at once is
  owed by a goroutine, a script, a command or the poller of a pending request.
* `ChallengesServeOnce`: a token is unspent exactly if it is the one kept for its
  device (`Tracked`), so what `Verified` looks at decides whether it is the first answer.
* `WindowsAreBounded`: what was let through and what the bucket would hold now cost no
  more than a burst and the refill of the window (`Budget`). `WaitingIsEnough` follows from the
  type invariant, which says that the bucket never overflows (`BucketIsBounded`).

`HostProofs`, for any devices, secrets and number of runs:

* `QuietRevocationsHold`: no copy that is or will be written has a device that is gone
  (`Quiet`, `Clean`): neither file, object, save under way nor the copy of a command.
* `ChangesReachTheDisk`: `Settled` follows a save through its stages.
* `AdvertsEnd`, `RunsAreWatched`: only the newest run is announced, and its stop channel is
  closed only by its own stop or after an error (`HostInv`).
* `StoppedRunsWork`: a port is bound only until `Shutdown` closes the listener, and `Start`
  returns without an error only after the loops of `s.ctx` have ended (`Bounded`). So a run that was told to
  stop, and whose goroutines stand at no guard they could pass (`Unfinished`), has ended.

The smaller parts, in the module of the part they are checked with: Power and Battery in
`ClientProofs`, for any number of commands, levels and thresholds; Clipboard in `HostProofs`,
for any texts and capacity; Schedule in `SessionProofs`, for any clock:

* `LockedHostsKeepRunning`: a command that has passed its last look came when the screen was
  unlocked, or it was unlocked since (`Guarded`); one that came by HTTP is caught by the
  look in `Execute`.
* `OneAlertForEachDrain`: an alert that is out is remembered by the flag until a charging
  battery is read (`Remembered`).
* `RestingFeedsAreCurrent`: the latest text under way, in the channel, else in the forwarder's
  hand, else told, is the one the watcher saw last (`InStep`, `Latest`). A watcher
  with a text in its hand finds room in the channel, or a forwarder that makes some.
* `ScriptsRunWhenDue`: the minutes between two looks at the clock are late, all of them
  (`InTime`), and what a look does in its minute is what the schedule means (`FiresWhenDue`).
  The latter is arithmetic: the quotients and remainders of `shouldFire` are the
  hour and the minute of the one minute of the day (`DayIsHours`), and there is only one such
  pair (`OneTimeOfDay`). The theorem is false of a `Due` that takes 0:60 for 1:00, as it once did,
  and so is the run, since `MCSchedules` has such a time.

`RemoteProofs`, for any number of connections, calls, attempts and tasks under way:

* `LeavingEnds`: once the user left, and no connection was in the making, none is made
  (`Parted`): a timer is set, or an attempt begun, only by somebody who has not left. The
  channel is empty or a `disconnect` is about to close it, and the app is idle or a `disconnect`
  is about to say so.
* `RestShowsTheTruth`: `RestIsTrue` is not inductive, since it says nothing while functions run.
  `Shows` says for each state the app can show what stands behind it: a function at an
  await, the timer, or a connection with its pings.

`PartsProofs`: a behaviour of the composition `MCAuthParts` is a behaviour of each of its seven
parts (`PartsAreParts`), since a step of one leaves the variables of the others alone; so
every theorem above about a part holds there, and `PartsTypes` is the type invariants together.

Each theorem is an invariant with a step lemma per action group and PTL at the end,
under the named assumptions of its module on the constants, which only type
them, tell special values from others and, in Scheduler, have at least one default.

Two properties speak of ENABLED, of which the provers know only that it is a predicate.
They are proved twice: with the guards of the actions in its place (`StoppedRunsWork`,
`RestingFeedsAreCurrent`), without a premise; and in the words of the run (`StoppedRunsEnd`,
`FeedsAreCurrent`) from the premise that those guards enable the actions
(`GuardsEnableServe`, `GuardsEnableFeed`), which is true of every state of the right type, because
what is not a guard in these actions assigns a primed variable.

Checked by TLC only: everything with fairness (`ClosedClientFinishes`, `PromptsAreDecided`,
`ComesToRest`, `CutClientsEnd`, `SilentIsEvicted`, `EveryRunReturns`, `FlagClearsWhereAsked`,
`LowBatteryIsTold`, the liveness of `Outbox` and `RoomService`), which is out of the
prover's reach. Every invariant and every safety action property of a passing run is proved.
The type invariants are proved; the run `auth` also checks those of its parts, the others TLC
checked before they were proved. What is proved and in no run was checked by TLC in the
same way first.

## Not modelled

* What collectors sample and send (`internal/metrics`, `internal/media`, `internal/monitors`,
  `internal/input`, `internal/files`, start-up entries): calls into the operating system and
  the parsing of what it prints. No state of theirs outlives a call, apart from the
  last track that was sent; Session takes their outcome as a free choice.
* The broadcaster's own channel, and the streaming of a script's output: one more
  bounded channel each, in front of what Client models.
* Encryption and MACs: library calls on opaque payloads.
* mDNS, certificates, updates: a library's protocol and I/O without interacting state.
* Of the app: joined rooms and message handlers, the authorization controller and its
  timer, the background service (an isolate behind a plugin, whose delivery the
  source does not determine), certificate pinning, all screens.
* Between models. Client and Rooms see the same connection from two sides and are not
  composed: Client ends where the clean-up of rooms begins. The parts of one run are not
  composed either: Session takes the decisions of Auth and Limiter as free choices,
  ConfigStore those of Auth, Schedule the runs of Scheduler, so what a part promises
  holds whatever the others do.

Rooms treats a `Conn.Close` and the read error it causes as two steps of which the second
may come any time later, and lets a read error come at any time. Auth leaves out the
save after a decision (ConfigStore has it) and messages that are refused before any
state changes (Session has them); a mutation of the device map by the GUI without
`am.mu` is taken as atomic.
