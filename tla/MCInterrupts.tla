---------------------------- MODULE MCInterrupts ----------------------------
(* Interrupts with a buffer for one scancode and one scancode, above 127.    *)
EXTENDS Interrupts

MCScancodes == {158}
MCChars == {97}
=============================================================================
