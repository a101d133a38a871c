CONSTANTS
  Stubs <- MCTableStubs
  Faults <- MCFaults
  Tid = 1
  KernelWords = 40
  MaxDepth = 1
SPECIFICATION Spec
CHECK_DEADLOCK FALSE
INVARIANT TableAddressing
