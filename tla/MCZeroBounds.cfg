CONSTANTS
  PGTAB_SIZE = 4
  PGDIR_SIZE = 8
  PAGE_SIZE = 4
  NumPPF = 32
  UserMemStart = 4
  StackSize = 8
  THREAD_STACK_MARGIN = 3
  Images <- MCImages
SPECIFICATION Spec
INVARIANTS
  ZeroStaysInArea
