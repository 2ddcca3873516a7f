----------------------------- MODULE PartsProofs -----------------------------
(***************************************************************************)
(* The parts of the host as MCAuthParts.tla composes them for TLC: a       *)
(* behaviour of the composition is one of each part, so that what is       *)
(* proved of the part holds of it there, for every value of the constants. *)
(***************************************************************************)
EXTENDS MCAuthParts, AuthProofs, SessionProofs, HostProofs

-----------------------------------------------------------------------------
(* The parts.  Whatever part moves, a step is one of that part and leaves    *)
(* the others where they are.                                                *)
Parts == {"auth", "session", "config", "limiter", "schedule", "host", "clipboard"}

partsVars ==
  <<part, vars, sessionVars, configVars, limiterVars, cronVars, serverVars, clipVars>>

LEMMA PartsInitially ==
  PartsInit =>
    /\ part \in Parts
    /\ Init /\ SessionInit /\ ConfigInit /\ LimiterInit /\ ScheduleInit /\ HostInit
    /\ ClipboardInit
BY DEF PartsInit, Parts

LEMMA PartsStep ==
  [PartsNext]_partsVars =>
    /\ part \in Parts => (part \in Parts)'
    /\ [Next]_vars /\ [SessionNext]_sessionVars /\ [ConfigNext]_configVars
    /\ [LimiterNext]_limiterVars /\ [ScheduleNext]_cronVars /\ [HostNext]_serverVars
    /\ [ClipboardNext]_clipVars
BY Zenon DEF PartsNext, partsVars

LEMMA PartsAreParts ==
  PartsSpec =>
    /\ [](part \in Parts)
    /\ Spec /\ SessionSpec /\ ConfigSpec /\ LimiterSpec /\ ScheduleSpec /\ HostSpec
    /\ ClipboardSpec
<1>1. PartsSpec <=> PartsInit /\ [][PartsNext]_partsVars
  BY DEF PartsSpec, partsVars
<1> QED
  BY <1>1, PartsInitially, PartsStep, PTL
     DEF Spec, SessionSpec, ConfigSpec, LimiterSpec, ScheduleSpec, HostSpec, ClipboardSpec

(* The type invariant of whichever part moves.                               *)
THEOREM PartsTypes == PartsSpec => []PartsTypeOK
<1>1. /\ part \in Parts /\ TypeOK /\ SessionTypeOK /\ ConfigTypeOK /\ LimiterTypeOK
      /\ ScheduleTypeOK /\ HostTypeOK /\ ClipboardTypeOK
      => PartsTypeOK
  BY DEF Parts, PartsTypeOK
<1> QED
  BY <1>1, PartsAreParts, AuthTypes, SessionTypes, ConfigTypes, BucketIsBounded, ScheduleTypes,
     HostTypes, ClipboardTypes, PTL
=============================================================================
