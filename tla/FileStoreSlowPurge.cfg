SPECIFICATION Spec
CONSTANTS
  Users = {1}
  Admins = {}
  Paths <- OnePath
  Requests <- Slots
  MaxFiles = 2
  Clients = {1}
  UserOf <- EachItsUser
  PathsOf <- SamePath
  Chunks = {0, 1}
  Commands <- AllUpload
  MaxCommands <- TwoEach
  Faults = {"timeout"}
INVARIANTS
  PurgeSparesNewFile
CHECK_DEADLOCK FALSE
