------------------------------ MODULE Schedule ------------------------------
(***************************************************************************)
(* The cron engine: LinqoraHost/internal/scheduler/scheduler.go            *)
(* (parseSchedule, shouldFire, StartCronLoop, checkSchedules) for one      *)
(* script, whose runs are in Scheduler.tla.                                *)
(*                                                                         *)
(* Time is counted in ticks, TicksPerMinute to a minute, from midnight UTC *)
(* of a day on which the epoch minute is 0; the local day is shorter than  *)
(* a real one.  The loop may wake up late, by any delay.  The wall clock   *)
(* is not set while it sleeps.                                             *)
(***************************************************************************)
EXTENDS Integers, Sequences

CONSTANTS
  TicksPerMinute, MinutesPerHour, HoursPerDay,
  Zone,        \* minutes the local time is ahead
  Schedules,   \* what clients set a script's schedule to, see ParseSchedule
  MaxTicks     \* bound: time

ASSUME ScheduleAssumption ==
  /\ TicksPerMinute \in Nat \ {0} /\ MinutesPerHour \in Nat \ {0}
  /\ HoursPerDay \in Nat \ {0} /\ Zone \in Nat
  /\ MaxTicks \in Nat /\ MaxTicks >= TicksPerMinute

(* Durations and times of day are whole numbers, valid or not. *)
ASSUME SchedulesAreNumbers ==
  \A s \in Schedules : /\ s[1] = "every" => s[2] \in Int
                       /\ s[1] = "at" => s[2] \in Int /\ s[3] \in Int

VARIABLES
  time,      \* time.Now()
  schedule,  \* Script.Schedule
  cron,      \* StartCronLoop: "off", "sleeps", "ended"
  next,      \* the minute it sleeps until
  since,     \* history: the first minute with this schedule all through
  late,      \* history: the last minute that ended before the loop got to it
  fires      \* history: the minutes in which the script was triggered, in order

cronVars == <<time, schedule, cron, next, since, late, fires>>

MinutesPerDay == MinutesPerHour * HoursPerDay
Minute == time \div TicksPerMinute

ScheduleTypeOK ==
  /\ time \in 0..MaxTicks
  /\ schedule \in Schedules
  /\ cron \in {"off", "sleeps", "ended"}
  /\ next \in Nat /\ since \in Nat /\ late \in {-1} \cup Nat
  /\ fires \in Seq(Nat)

ScheduleInit ==
  /\ time \in 0..(TicksPerMinute - 1) /\ schedule \in Schedules
  /\ cron = "off" /\ next = 0
  /\ since = 1 /\ late = -1 /\ fires = <<>>

-----------------------------------------------------------------------------
(* A schedule as a client writes it: <<"none">>, <<"daily">>, <<"hourly">>,  *)
(* <<"every", ticks>>, <<"at", hour, minute>> or anything else.              *)
None == [kind |-> "none"]

ParseSchedule(s) ==
  CASE s[1] = "daily" -> [kind |-> "daily"]
    [] s[1] = "hourly" -> [kind |-> "hourly"]
    [] s[1] = "every" /\ s[2] >= TicksPerMinute ->
         [kind |-> "every", interval |-> s[2] \div TicksPerMinute]
    [] s[1] = "at" /\ s[2] \in 0..(HoursPerDay - 1) /\ s[3] \in 0..(MinutesPerHour - 1) ->
         [kind |-> "at", hour |-> s[2], minute |-> s[3]]
    [] OTHER -> None   \* empty, or an error, which is logged

(* now.Hour() and now.Minute() are local, now.Unix() is not.                 *)
LocalHour == ((Minute + Zone) \div MinutesPerHour) % HoursPerDay
LocalMinute == (Minute + Zone) % MinutesPerHour

(* Mutant of ShouldFire: every hour has the minute of the day's script. *)
ShouldFireHourly(ps) ==
  \/ ps.kind = "daily" /\ LocalHour = 0 /\ LocalMinute = 0
  \/ ps.kind = "hourly" /\ LocalMinute = 0
  \/ ps.kind = "every" /\ Minute % ps.interval = 0
  \/ ps.kind = "at" /\ LocalMinute = ps.minute

ShouldFire(ps) ==
  \/ ps.kind = "daily" /\ LocalHour = 0 /\ LocalMinute = 0
  \/ ps.kind = "hourly" /\ LocalMinute = 0
  \/ ps.kind = "every" /\ Minute % ps.interval = 0
  \/ ps.kind = "at" /\ LocalHour = ps.hour /\ LocalMinute = ps.minute

(* Mutant of NextMinute: the time is rounded, not truncated. *)
NextMinuteRounded == (time + TicksPerMinute \div 2) \div TicksPerMinute + 1

(* now.Truncate(time.Minute).Add(time.Minute). *)
NextMinute == Minute + 1

StartCronLoop ==
  /\ cron = "off"
  /\ cron' = "sleeps" /\ next' = NextMinute
  /\ UNCHANGED <<time, schedule, since, late, fires>>

(* The sleep is over: checkSchedules with the time it is by now, and the     *)
(* next sleep.                                                               *)
CheckSchedules ==
  /\ cron = "sleeps" /\ Minute >= next
  /\ fires' = IF ShouldFire(ParseSchedule(schedule)) THEN Append(fires, Minute) ELSE fires
  /\ next' = NextMinute
  /\ UNCHANGED <<time, schedule, cron, since, late>>

StopCronLoop ==
  /\ cron = "sleeps"
  /\ cron' = "ended"
  /\ UNCHANGED <<time, schedule, next, since, late, fires>>

(* handleScriptUpdate: the new schedule counts from the next minute that     *)
(* begins.  Bound: one change, of a schedule the script began with.          *)
Reschedule(s) ==
  /\ since = 1
  /\ schedule' = s /\ s # schedule
  /\ since' = Minute + 1
  /\ UNCHANGED <<time, cron, next, late, fires>>

TimePasses ==
  /\ time < MaxTicks /\ cron # "off"
  /\ time' = time + 1
  /\ late' = IF time' % TicksPerMinute = 0 /\ next <= Minute THEN Minute ELSE late
  /\ UNCHANGED <<schedule, cron, next, since, fires>>

ScheduleNext ==
  \/ StartCronLoop \/ CheckSchedules \/ StopCronLoop \/ TimePasses
  \/ \E s \in Schedules : Reschedule(s)

ScheduleSpec == ScheduleInit /\ [][ScheduleNext]_cronVars

-----------------------------------------------------------------------------
(* The minutes at which a schedule is due, from what it means to the user.   *)
Due(m) ==
  LET today == (m + Zone) % MinutesPerDay
      is == schedule[1]
  IN  \/ is = "daily" /\ today = 0
      \/ is = "hourly" /\ \E h \in 0..(HoursPerDay - 1) : today = h * MinutesPerHour
      \/ /\ is = "at" /\ schedule[3] \in 0..(MinutesPerHour - 1)
         /\ today = schedule[2] * MinutesPerHour + schedule[3]
      \/ /\ is = "every"
         /\ \E k \in 0..m : m = k * (schedule[2] \div TicksPerMinute)

(* A script is triggered once in a minute at most, however late the loop     *)
(* is; and once it has had its schedule for some time and the loop was on    *)
(* time, in exactly the minutes that are due.                                *)
RunsWhenDue ==
  /\ \A i, j \in DOMAIN fires : i < j => fires[i] < fires[j]
  /\ cron = "sleeps" =>
       \A m \in since..(next - 1) :
         m > late => (Due(m) <=> \E i \in DOMAIN fires : fires[i] = m)
=============================================================================
