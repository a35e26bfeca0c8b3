SPECIFICATION FairSpec
CONSTANTS
  Users = {1, 2}
  Admins = {2}
  Paths <- Tree
  Requests <- OneSlot
  MaxFiles = 4
  Clients = {1, 2}
  UserOf <- EachItsUser
  PathsOf <- OwnPaths
  Chunks = {0, 1}
  Commands <- UploadRemove
  MaxCommands <- TwoEach
  Faults = {}
INVARIANTS
  QuietMeansNoGhosts
  OnePathOneFile
  QuotaIsStored
  ListingIsFaithful
  UploadKeepsItsFile
PROPERTIES
  CommandEnds
CHECK_DEADLOCK FALSE
