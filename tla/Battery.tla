------------------------------- MODULE Battery -------------------------------
(***************************************************************************)
(* The battery alert: LinqoraHost/internal/collectors/battery.go and       *)
(* LinqoraHost/internal/metrics/battery.go.                                *)
(*                                                                         *)
(* One goroutine per server polls once a minute, from NewWSServer on; any  *)
(* client may change the threshold at any time.  A step is a question to   *)
(* the system, a section under c.mu, or the broadcast.                     *)
(***************************************************************************)
EXTENDS Naturals

CONSTANTS
  Systems,     \* of "linux", "windows", "darwin": those to consider
  MaxLevel,    \* a full battery (100 in the code)
  Thresholds,  \* thresholds ever configured
  DefaultBatteryThreshold

ASSUME BatteryAssumption ==
  /\ MaxLevel \in Nat
  /\ Thresholds \subseteq 0..MaxLevel /\ DefaultBatteryThreshold \in Thresholds

VARIABLES
  system,     \* runtime.GOOS
  readable,   \* the level and the status can always be read once a battery is found
  level,      \* what the battery holds
  supply,     \* "charging", "full", "held" (plugged in, not charging), "discharging"
  threshold,  \* c.threshold
  alerted,    \* c.alerted
  polling,    \* pollLoop: "off", "waits", "sampled", "resets", "alerts", "broadcasts"
  sample,     \* the BatteryInfo it has read
  told,       \* history: alerts broadcast in the present drain, or the last one
  due         \* history: a charging battery was read since the last alert, if any

drainHistory == <<told, due>>
batteryVars == <<system, readable, level, supply, threshold, alerted, polling, sample, drainHistory>>

BatteryInfo == [isPresent : BOOLEAN, level : 0..MaxLevel, isCharging : BOOLEAN]
Absent == [isPresent |-> FALSE, level |-> 0, isCharging |-> FALSE]

BatteryTypeOK ==
  /\ system \in Systems /\ readable \in BOOLEAN
  /\ level \in 0..MaxLevel
  /\ supply \in {"charging", "full", "held", "discharging"}
  /\ threshold \in Thresholds /\ alerted \in BOOLEAN
  /\ polling \in {"off", "waits", "sampled", "resets", "alerts", "broadcasts"}
  /\ sample \in BatteryInfo
  /\ told \in 0..2 /\ due \in BOOLEAN

BatteryInit ==
  /\ system \in Systems /\ readable \in BOOLEAN
  /\ level = MaxLevel /\ supply = "full"
  /\ threshold = DefaultBatteryThreshold /\ alerted = FALSE
  /\ polling = "off" /\ sample = Absent
  /\ told = 0 /\ due = TRUE

-----------------------------------------------------------------------------
Info(lvl, charging) == [isPresent |-> TRUE, level |-> lvl, isCharging |-> charging]
Mended == supply \in {"charging", "full"}

(* Two files under /sys: one that cannot be read leaves its zero value. *)
GetLinuxBattery ==
  {Info(level, Mended)} \cup
    (IF readable THEN {} ELSE {Info(0, Mended), Info(level, FALSE), Info(0, FALSE)})

(* One answer "level|status": a level that is no number counts as 0, a       *)
(* status other than 3 and 6 to 9 as discharging.                            *)
GetWindowsBattery ==
  {Info(level, Mended)} \cup (IF readable THEN {} ELSE {Info(0, Mended), Info(level, FALSE)})

(* The line of pmset is searched for "charging", which "discharging" and     *)
(* "not charging" contain; "charged" is looked for after that.               *)
GetMacOSBattery == {Info(level, TRUE)}

GetBatteryInfo ==
  IF system = "linux" THEN GetLinuxBattery
  ELSE IF system = "windows" THEN GetWindowsBattery
  ELSE GetMacOSBattery

(* Start, from NewWSServer; a second call finds isRunning.  Nobody calls Stop. *)
StartBattery ==
  /\ polling = "off"
  /\ polling' = "waits"
  /\ UNCHANGED <<system, readable, level, supply, threshold, alerted, sample, drainHistory>>

(* A tick of pollLoop, checkBattery: nothing is done without an answer.      *)
Sample ==
  /\ polling = "waits"
  /\ \/ sample' \in GetBatteryInfo /\ polling' = "sampled"
     \/ sample' = Absent /\ UNCHANGED polling
  /\ due' = (due \/ sample'.isCharging)
  /\ UNCHANGED <<system, readable, level, supply, threshold, alerted, told>>

(* Mutant of DecideAlert: every poll below the threshold alerts. *)
DecideAgain ==
  /\ polling = "sampled"
  /\ polling' = IF sample.isCharging THEN "resets"
                ELSE IF sample.level <= threshold THEN "alerts" ELSE "waits"
  /\ UNCHANGED <<system, readable, level, supply, threshold, alerted, sample, drainHistory>>

(* Mutant of DecideAlert: the reset when charging is missing. *)
DecideWithoutReset ==
  /\ polling = "sampled"
  /\ polling' = IF ~sample.isCharging /\ sample.level <= threshold /\ ~alerted
                THEN "alerts" ELSE "waits"
  /\ UNCHANGED <<system, readable, level, supply, threshold, alerted, sample, drainHistory>>

(* The threshold and the flag are copied under c.mu, and decide. *)
DecideAlert ==
  /\ polling = "sampled"
  /\ polling' = IF sample.isCharging THEN "resets"
                ELSE IF sample.level <= threshold /\ ~alerted THEN "alerts" ELSE "waits"
  /\ UNCHANGED <<system, readable, level, supply, threshold, alerted, sample, drainHistory>>

Reset ==
  /\ polling = "resets"
  /\ alerted' = FALSE /\ polling' = "waits"
  /\ UNCHANGED <<system, readable, level, supply, threshold, sample, drainHistory>>

Alert ==
  /\ polling = "alerts"
  /\ alerted' = TRUE /\ polling' = "broadcasts"
  /\ UNCHANGED <<system, readable, level, supply, threshold, sample, drainHistory>>

(* broadcastToAll; Client.tla has the rest of its way. *)
BroadcastAlert ==
  /\ polling = "broadcasts"
  /\ polling' = "waits"
  /\ told' = IF told < 2 THEN told + 1 ELSE told
  /\ due' = FALSE
  /\ UNCHANGED <<system, readable, level, supply, threshold, alerted, sample>>

(* handleBatteryAlertConfig. *)
SetThreshold(pct) ==
  /\ threshold' = pct
  /\ UNCHANGED <<system, readable, level, supply, alerted, polling, sample, drainHistory>>

(* The battery and its charger. *)
Drain ==
  /\ supply = "discharging" /\ level > 0
  /\ level' = level - 1
  /\ UNCHANGED <<system, readable, supply, threshold, alerted, polling, sample, drainHistory>>

Charge ==
  /\ supply = "charging" /\ level < MaxLevel
  /\ level' = level + 1
  /\ UNCHANGED <<system, readable, supply, threshold, alerted, polling, sample, drainHistory>>

Plug(state) ==
  /\ supply' = state /\ supply # state
  /\ state = "full" => level = MaxLevel
  /\ told' = IF Mended THEN 0 ELSE told
  /\ UNCHANGED <<system, readable, level, threshold, alerted, polling, sample, due>>

CheckBattery == Sample \/ DecideAlert \/ Reset \/ Alert \/ BroadcastAlert

BatteryNext ==
  \/ StartBattery \/ CheckBattery
  \/ \E pct \in Thresholds : SetThreshold(pct)
  \/ Drain \/ Charge
  \/ \E s \in {"charging", "full", "held", "discharging"} : Plug(s)

(* The ticker ticks; a battery that can be read is not missed for ever.      *)
BatteryFairness ==
  /\ WF_batteryVars(DecideAlert \/ Reset \/ Alert \/ BroadcastAlert)
  /\ SF_batteryVars(Sample /\ polling' = "sampled")

BatterySpec == BatteryInit /\ [][BatteryNext]_batteryVars
BatteryFairSpec == BatterySpec /\ BatteryFairness

-----------------------------------------------------------------------------
(* battery.go:28, "whether we have already sent an alert in the current      *)
(* drain cycle": one alert at most from one charging of the battery to the   *)
(* next, however the threshold is moved, as long as the readings are good.   *)
OneAlertPerDrain == readable => told <= 1

(* A battery that stays low is told of, on the systems that can tell: the    *)
(* flag of an earlier drain, or a reading from before the threshold was      *)
(* raised, delays the alert and does not lose it, unless the battery was     *)
(* charged so briefly that no poll saw it.                                   *)
Low == supply = "discharging" /\ level <= threshold

LowBatteryIsTold ==
  system \in {"linux", "windows"} /\ <>[](Low /\ polling # "off") => <>[]~due
=============================================================================
