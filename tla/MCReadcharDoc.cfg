CONSTANTS
  SCANCODE_BUFFER_SIZE = 4
  Scancodes <- MCScancodes
  Chars <- MCChars
SPECIFICATION Spec
INVARIANTS
  MinusOneMeansEmpty
