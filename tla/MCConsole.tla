------------------------------ MODULE MCConsole ------------------------------
(* Console with a screen of three rows of two columns, one character besides *)
(* space, two colours, and strings that fill a row, wrap, scroll and hold    *)
(* the control characters.                                                   *)
EXTENDS Console

MCStrings ==
  {<<"a", "a", "a", CONS_CHAR_LF>>,
   <<"a", CONS_CHAR_BKSPC, "a", CONS_CHAR_CR, CONS_CHAR_LF>>}
MCBootBytes == {"ivt"}
MCNullString == <<"ivt", "ivt">>
MCBootCell == [char |-> "a", color |-> 2]
MCOnScreen == 0 .. CONSOLE_HEIGHT - 1
MCOneBelow == 0 .. CONSOLE_HEIGHT
=============================================================================
