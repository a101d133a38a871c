CONSTANTS
  NumPPF = 8
  UserMemStart = 2
  PageSize = 4
  PgtabSize = 8
  PgdirSize = 1
  AddressSpace = 64
  Requests <- MCRequests
  Sizes <- MCSizes
  Demand = 6
CHECK_DEADLOCK FALSE
SPECIFICATION Spec
INVARIANTS
  TypeOK
  NoDoubleGrant
  GrantsInPool
PROPERTIES
  HoldersKeepTheirData
  ImplementsPhysicalFrames
