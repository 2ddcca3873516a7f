CONSTANTS
  backup = backup
  uname = uname
  phone = phone
  Ids = {backup, uname}
  Defaults <- MCDefaults
  Writers = {phone}
  Main = Main
  NoFile = NoFile
  Bad = Bad
  Unused = Unused
  MaxCalls = 3
SPECIFICATION Spec
INVARIANT StoppableRun
CHECK_DEADLOCK FALSE
