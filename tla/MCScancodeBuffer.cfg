CONSTANTS
  SCANCODE_BUFFER_SIZE = 4
  Scancodes <- MCScancodes
  Chars <- MCChars
SPECIFICATION FairSpec
INVARIANTS
  TypeOK
  RemovalNotStale
PROPERTIES
  OldestTaken
  ImplementsScancodeQueue
