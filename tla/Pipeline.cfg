SPECIFICATION MCFairSpec
CONSTANTS
  N = 3
  Size = 2
INVARIANTS
  TypeOK
  AckImpliesReplicated
  TailFirst
  ReplyMatchesDisk
  TruncatedMeansAbandoned
  IInv
PROPERTIES
  ImplementsReplicatedWrite
  CalmUploadSucceeds
  HandlersEnd
CHECK_DEADLOCK FALSE
