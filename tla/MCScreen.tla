------------------------------ MODULE MCScreen ------------------------------
(* TLC instance of Screen: nine cells, registers of four values, so that the *)
(* cursor has a high part of several values and can be put together wrongly  *)
(* on and off the screen, as 2000 cells are to registers of 256.  Recalled   *)
(* lines run over a row's end and, in the last row, scroll: the longer one   *)
(* twice or three times.                                                     *)
EXTENDS Screen

MCMessages == << <<"c", "\n">>, <<"c", "c">> >>
MCOutputs == { <<>>, <<"c", "c", "c", "c">>, <<"c", "\n">> }
MCLines == { <<>>, <<"c", "c">>, [i \in 1 .. 8 |-> "c"] }
=============================================================================
