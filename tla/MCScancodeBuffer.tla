-------------------------- MODULE MCScancodeBuffer --------------------------
(* ScancodeBuffer with four slots, two scancodes, and the two bytes at the *)
(* ends of the range of an unsigned char among them.                       *)
EXTENDS ScancodeBuffer

MCScancodes == {1, 255}
MCChars == {97}
=============================================================================
