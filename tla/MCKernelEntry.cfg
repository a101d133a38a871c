CONSTANTS
  Stubs <- MCStubs
  Faults <- MCFaults
  Tid = 1
  KernelWords = 40
  MaxDepth = 2
SPECIFICATION FairSpec
CHECK_DEADLOCK FALSE
INVARIANTS
  TypeOK
  ArgumentsInEsi
  UserMode
PROPERTIES
  Resumes
  ImplementsSystemCalls
  CallReturns
  FaultShutsDown
