SPECIFICATION Spec
CONSTANTS
  Users = {1, 2}
  Admins = {}
  Paths <- OnePath
  Requests <- OneSlot
  MaxFiles = 2
  Clients = {1, 2}
  UserOf <- EachItsUser
  PathsOf <- SamePath
  Chunks = {0, 1}
  Commands <- UploadDownload
  MaxCommands <- TwoEach
  Faults = {}
PROPERTIES
  OwnFileIsFound
CHECK_DEADLOCK FALSE
