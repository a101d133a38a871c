CONSTANTS
  CONSOLE_HEIGHT = 3
  CONSOLE_WIDTH = 2
  Printable = {"a"}
  CONS_CHAR_SPC = "spc"
  Colors = {2, 7}
  InvalidColor = 256
  CONS_DEFAULT_COLOR = 7
  Strings <- MCStrings
  NULL = NULL
  BootBytes <- MCBootBytes
  NullString <- MCNullString
  BootCell <- MCBootCell
  DrawRows <- MCOnScreen
SPECIFICATION SpecWithNull
PROPERTIES
  PutbytesNullChecked
