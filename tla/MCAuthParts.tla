----------------------------- MODULE MCAuthParts -----------------------------
(***************************************************************************)
(* Instances for TLC of Auth and of six more parts of the host, which are  *)
(* modelled apart from it and from each other: one of them, part, does its *)
(* steps; the others stay as they are at the beginning.                    *)
(***************************************************************************)
EXTENDS MCAuth, Session, ConfigStore, Limiter, Schedule, Host, Clipboard

CONSTANTS a, b, noDevice, noSecret, s1, noText, t1

VARIABLE part

(* Of every kind one that is valid, one with a fraction, and three that are not. *)
MCSchedules ==
  {<<"none">>, <<"daily">>, <<"hourly">>, <<"every", 1>>, <<"every", 5>>, <<"every", 6>>,
   <<"at", 1, 2>>, <<"at", 2, 0>>, <<"at", 0, 3>>}

(* The type invariant of the part that moves. *)
PartsTypeOK ==
  CASE part = "auth" -> TypeOK
    [] part = "session" -> SessionTypeOK
    [] part = "config" -> ConfigTypeOK
    [] part = "limiter" -> LimiterTypeOK
    [] part = "schedule" -> ScheduleTypeOK
    [] part = "host" -> HostTypeOK
    [] part = "clipboard" -> ClipboardTypeOK

PartsInit ==
  /\ part \in {"auth", "session", "config", "limiter", "schedule", "host", "clipboard"}
  /\ Init /\ SessionInit /\ ConfigInit /\ LimiterInit /\ ScheduleInit /\ HostInit
  /\ ClipboardInit
  /\ part = "auth" \/ (gui /\ budget \in Connected)
  /\ part = "session" \/ (trusted = {} /\ secret)
  /\ part = "schedule" \/ (time = 0 /\ schedule = <<"none">>)
  /\ part = "host" \/ mode = "window"

PartsNext ==
  /\ UNCHANGED part
  /\ \/ /\ part = "auth" /\ Next
        /\ UNCHANGED <<sessionVars, configVars, limiterVars, cronVars, serverVars, clipVars>>
     \/ /\ part = "session" /\ SessionNext
        /\ UNCHANGED <<vars, configVars, limiterVars, cronVars, serverVars, clipVars>>
     \/ /\ part = "config" /\ ConfigNext
        /\ UNCHANGED <<vars, sessionVars, limiterVars, cronVars, serverVars, clipVars>>
     \/ /\ part = "limiter" /\ LimiterNext
        /\ UNCHANGED <<vars, sessionVars, configVars, cronVars, serverVars, clipVars>>
     \/ /\ part = "schedule" /\ ScheduleNext
        /\ UNCHANGED <<vars, sessionVars, configVars, limiterVars, serverVars, clipVars>>
     \/ /\ part = "host" /\ HostNext
        /\ UNCHANGED <<vars, sessionVars, configVars, limiterVars, cronVars, clipVars>>
     \/ /\ part = "clipboard" /\ ClipboardNext
        /\ UNCHANGED <<vars, sessionVars, configVars, limiterVars, cronVars, serverVars>>

PartsSpec ==
  PartsInit /\ [][PartsNext]_<<part, vars, sessionVars, configVars, limiterVars, cronVars,
                               serverVars, clipVars>>
=============================================================================
