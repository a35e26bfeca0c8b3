SPECIFICATION Spec
CONSTANTS
  Users = {1, 9}
  Admins = {9}
  Paths <- TwoWays
  Requests <- Slots
  MaxFiles = 2
  Clients = {1, 9}
  UserOf <- EachItsUser
  PathsOf <- Spellings
  Chunks = {0, 1}
  Commands <- UserUploads
  MaxCommands <- AdminOnce
  Faults = {"timeout", "client", "server", "transfer", "erase", "prompt"}
INVARIANTS
  TypeOK
  RegisteredIsStored
  ConfirmedSurvives
PROPERTIES
  OnlyPermittedRemovals
  ImplementsFileLife
CHECK_DEADLOCK FALSE
