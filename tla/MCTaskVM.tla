------------------------------ MODULE MCTaskVM ------------------------------
(* TaskVM on a machine of 32 four-byte pages with four entries in a page     *)
(* table.  The images lie as the linker lays them out: text, rodata, data    *)
(* and bss in this order, here above each other with or without a gap, each  *)
(* of the lengths that end in, at, or across a page's end.                   *)
EXTENDS TaskVM

(* The byte of the file after the segments; cut is missing from its end.     *)
Image(text, textlen, gap, rodatalen, datlen, bss, cut) ==
  LET rodata == text + textlen + gap
      data == rodata + rodatalen + gap
      filelen == 1 + textlen + rodatalen + datlen
  IN  [start |-> [text |-> text, rodata |-> rodata, data |-> data],
       len |-> [text |-> textlen, rodata |-> rodatalen, data |-> datlen],
       off |-> [text |-> 1, rodata |-> 1 + textlen, data |-> 1 + textlen + rodatalen],
       bss |-> bss,
       entry |-> text,
       execlen |-> Max({0, filelen - cut})]

MCImages ==
  {Image(text, textlen, gap, rodatalen, datlen, bss, cut) :
     text \in {16, 18}, textlen \in {2, 5}, gap \in {0, 3}, rodatalen \in {2, 5},
     datlen \in {0, 3, 5}, bss \in {0, 1, 6}, cut \in {0, 4, 9}}
=============================================================================
