CONSTANTS
  SCANCODE_BUFFER_SIZE = 2
  Scancodes <- MCScancodes
  Chars <- MCChars
  TickWrap = 3
  MaxDepth = 3
SPECIFICATION FairSpec
INVARIANTS
  TypeOK
  EntriesReady
  OneInService
  ByteOwed
PROPERTIES
  TicksInOrder
  ImplementsScancodeQueue
  KeyRead
