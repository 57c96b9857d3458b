--------------------------- MODULE MCInterrupts ---------------------------
(* TLC instance of Interrupts: the timer, the keyboard and one line of the  *)
(* slave PIC (the disk's IRQ14), which has no handler.                      *)
EXTENDS Interrupts

MCLines == {IRQ0, IRQ1, 46}
KeyboardOnly == {IRQ0, IRQ1}
MCCommands == Effects
Returning == {"returns"}
===========================================================================
