CONSTANTS
  backup = backup
  uname = uname
  phone = phone
  Ids = {backup, uname}
  Defaults <- MCDefaults
  Writers = {phone}
  Main = Main
  NoFile = NoFile
  Bad = Bad
  Unused = Unused
  MaxCalls = 3
SPECIFICATION FairSpec
INVARIANTS RunningIsLive StopsBoundRuns RunsItsOwnScript SavedAtRest
PROPERTIES EveryRunReturns EditsAreExact
CHECK_DEADLOCK FALSE
