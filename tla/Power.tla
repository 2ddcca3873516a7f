-------------------------------- MODULE Power --------------------------------
(***************************************************************************)
(* Power commands, the lock flag and its monitor:                          *)
(*   LinqoraHost/internal/power/*.go                                       *)
(*   LinqoraHost/internal/ws/server.go (handlePowerCommand, restPower)     *)
(*                                                                         *)
(* Threads: a command is first handled by a read pump or by an HTTP        *)
(* handler, then carried out by a goroutine of its own; the monitor looks  *)
(* every five seconds; the user locks and unlocks the screen.  A step is   *)
(* one access to the flag (under lockMutex) or one question to, or command *)
(* for, the operating system.                                              *)
(***************************************************************************)
EXTENDS Naturals, Sequences

CONSTANTS
  Platforms,   \* how the lock of this host is found out, see Probe
  MaxCommands  \* bound: power commands ever sent

ASSUME PowerAssumption == MaxCommands \in Nat

VARIABLES
  platform,      \* which of Platforms this host is
  osLocked,      \* the screen is locked
  deviceLocked,  \* power.deviceLocked
  commands,      \* every command sent, see Command
  monitor        \* the monitor: "waits", "asks" (flag set), "clears"

powerVars == <<platform, osLocked, deviceLocked, commands, monitor>>

Actions == {"lock", "other"}    \* Lock; Shutdown, Restart and Sleep
Command == [action : Actions,
            via : {"ws", "rest"},
            pc : {"gate", "probe", "run", "perform", "mark", "done", "refused", "performed"},
            locked : BOOLEAN]  \* history: the screen was locked ever since it came in

PowerTypeOK ==
  /\ platform \in Platforms
  /\ osLocked \in BOOLEAN /\ deviceLocked \in BOOLEAN
  /\ commands \in Seq(Command) /\ Len(commands) <= MaxCommands
  /\ monitor \in {"waits", "asks", "clears"}

PowerInit ==
  /\ platform \in Platforms
  /\ osLocked = FALSE /\ deviceLocked = FALSE
  /\ commands = <<>>
  /\ monitor = "waits"

-----------------------------------------------------------------------------
Told(locked) == IF locked THEN "locked" ELSE "unlocked"

(* isPlatformSystemLocked on Windows: LogonUI.exe is looked for among the    *)
(* processes, and the snapshot of them may fail.                             *)
ProbeWindows == {Told(osLocked), "error"}

(* On Linux, gnome-screensaver-command prints that the screensaver "is       *)
(* active" or "is inactive", and the code looks for "active" in either;      *)
(* loginctl and dbus-send tell the truth; without any of them the flag is    *)
(* all there is.                                                             *)
ProbeLinux ==
  IF platform = "gnome" THEN {"locked"}
  ELSE IF platform = "loginctl" THEN {Told(osLocked)}
  ELSE {Told(deviceLocked)}

(* On macOS the output is piped into grep, which fails when the screen is    *)
(* not locked.                                                               *)
ProbeDarwin == IF osLocked THEN {"locked"} ELSE {"error"}

(* IsSystemLocked. *)
Probe ==
  IF platform = "windows" THEN ProbeWindows
  ELSE IF platform = "darwin" THEN ProbeDarwin
  ELSE ProbeLinux

(* Both callers fall back on the flag when the question fails. *)
Believed(answer) == answer = "locked" \/ (answer = "error" /\ deviceLocked)

Move(i, pc) == commands' = [commands EXCEPT ![i].pc = pc]
At(i, pc) == i \in DOMAIN commands /\ commands[i].pc = pc

(* A command arrives: over the websocket it goes through the gate of         *)
(* handlePowerCommand, over HTTP (restPower) straight to its goroutine.      *)
Arrive(action, via, pc) ==
  /\ Len(commands) < MaxCommands
  /\ commands' = Append(commands, [action |-> action, via |-> via, pc |-> pc,
                                   locked |-> osLocked])
  /\ UNCHANGED <<platform, osLocked, deviceLocked, monitor>>

HandlePowerCommand(action) == Arrive(action, "ws", "gate")
RestPower(action) == Arrive(action, "rest", "run")

(* handlePowerCommand: the flag stops every command, locking included...     *)
Gate(i) ==
  /\ At(i, "gate")
  /\ Move(i, IF deviceLocked THEN "refused"
             ELSE IF commands[i].action = "lock" THEN "run" ELSE "probe")
  /\ UNCHANGED <<platform, osLocked, deviceLocked, monitor>>

(* ... then the system is asked, except before locking. *)
GateProbe(i) ==
  /\ At(i, "probe")
  /\ \E a \in Probe : Move(i, IF Believed(a) THEN "refused" ELSE "run")
  /\ UNCHANGED <<platform, osLocked, deviceLocked, monitor>>

(* Mutant of Execute: the goroutine relies on the question asked before.     *)
ExecuteAtOnce(i) ==
  /\ At(i, "run")
  /\ Move(i, "perform")
  /\ UNCHANGED <<platform, osLocked, deviceLocked, monitor>>

(* ExecutePowerAction asks again. *)
Execute(i) ==
  /\ At(i, "run")
  /\ \/ commands[i].action = "lock" /\ Move(i, "perform")
     \/ /\ commands[i].action = "other"
        /\ \E a \in Probe : Move(i, IF Believed(a) THEN "refused" ELSE "perform")
  /\ UNCHANGED <<platform, osLocked, deviceLocked, monitor>>

(* executePlatformAction: what the system is told may fail.  Only the        *)
(* goroutine of handlePowerCommand marks the lock; that of restPower ends.   *)
Perform(i) ==
  /\ At(i, "perform")
  /\ \/ /\ commands[i].action = "other"
        /\ Move(i, "performed")
        /\ UNCHANGED osLocked
     \/ /\ commands[i].action = "lock"
        /\ osLocked' = TRUE
        /\ Move(i, IF commands[i].via = "ws" THEN "mark" ELSE "done")
     \/ Move(i, "done") /\ UNCHANGED osLocked
  /\ UNCHANGED <<platform, deviceLocked, monitor>>

(* SetDeviceLocked(true), after the action, in another critical section.     *)
Mark(i) ==
  /\ At(i, "mark")
  /\ deviceLocked' = TRUE
  /\ Move(i, "done")
  /\ UNCHANGED <<platform, osLocked, monitor>>

-----------------------------------------------------------------------------
(* A tick of the monitor, which does nothing unless the flag is set...       *)
MonitorTick ==
  /\ monitor = "waits" /\ deviceLocked
  /\ monitor' = "asks"
  /\ UNCHANGED <<platform, osLocked, deviceLocked, commands>>

(* Mutant of MonitorAsks: the condition is inverted. *)
MonitorAsksInverted ==
  /\ monitor = "asks"
  /\ \E x \in Probe : monitor' = IF x = "locked" THEN "clears" ELSE "waits"
  /\ UNCHANGED <<platform, osLocked, deviceLocked, commands>>

(* ... it asks the system, and goes on waiting if the answer is an error...  *)
MonitorAsks ==
  /\ monitor = "asks"
  /\ \E a \in Probe : monitor' = IF a = "unlocked" THEN "clears" ELSE "waits"
  /\ UNCHANGED <<platform, osLocked, deviceLocked, commands>>

(* ... and clears the flag. *)
MonitorClears ==
  /\ monitor = "clears"
  /\ monitor' = "waits"
  /\ deviceLocked' = FALSE
  /\ UNCHANGED <<platform, osLocked, commands>>

(* The user at the keyboard. *)
UserLocks ==
  /\ ~osLocked
  /\ osLocked' = TRUE
  /\ UNCHANGED <<platform, deviceLocked, commands, monitor>>

UserUnlocks ==
  /\ osLocked
  /\ osLocked' = FALSE
  /\ commands' = [i \in DOMAIN commands |-> [commands[i] EXCEPT !.locked = FALSE]]
  /\ UNCHANGED <<platform, deviceLocked, monitor>>

Carry(i) == Gate(i) \/ GateProbe(i) \/ Execute(i) \/ Perform(i) \/ Mark(i)

PowerNext ==
  \/ \E a \in Actions : HandlePowerCommand(a) \/ RestPower(a)
  \/ \E i \in 1..MaxCommands : Carry(i)
  \/ MonitorTick \/ MonitorAsks \/ MonitorClears
  \/ UserLocks \/ UserUnlocks

Monitor == MonitorTick \/ MonitorAsks \/ MonitorClears

(* Goroutines run and the ticker ticks.  Strong fairness for the answer      *)
(* that the monitor hopes for: a question that can succeed does not fail for *)
(* ever.                                                                     *)
PowerFairness ==
  /\ WF_powerVars(\E i \in 1..MaxCommands : Carry(i))
  /\ WF_powerVars(Monitor) /\ SF_powerVars(MonitorAsks /\ monitor' = "clears")

PowerSpec == PowerInit /\ [][PowerNext]_powerVars
PowerFairSpec == PowerSpec /\ PowerFairness

-----------------------------------------------------------------------------
(* A host whose screen has been locked since the command came in, and that   *)
(* tells so, is not shut down, restarted or put to sleep by it: by whichever *)
(* way it came, and whatever the flag, the monitor and other commands do.    *)
NotWhileLocked ==
  platform \in {"gnome", "loginctl", "darwin"} =>
    \A i \in DOMAIN commands : ~(commands[i].pc = "performed" /\ commands[i].locked)

(* The screen stays unlocked and nothing is under way: the flag is cleared   *)
(* for good, also one set after the user had already unlocked again.         *)
AtRest == \A i \in DOMAIN commands : commands[i].pc \in {"done", "refused", "performed"}

FlagClears == <>[](~osLocked /\ AtRest) => <>[]~deviceLocked

FlagClearsWhereAsked == platform \in {"windows", "loginctl"} => FlagClears
=============================================================================
