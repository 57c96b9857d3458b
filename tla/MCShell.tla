------------------------------ MODULE MCShell ------------------------------
(* TLC instance of Shell: the keys H and space, of which H with shift has    *)
(* the code of Up; a history of two lines; rows that a line may fill and     *)
(* overrun; a command of one letter and one of two, each a line's beginning. *)
EXTENDS Shell

MCKeys == {"h", " "}
MCShiftUp == [k \in MCKeys |-> k]
MCShiftDown == [k \in MCKeys |-> IF k = "h" THEN "H" ELSE " "]
MCCommands == << <<"h", "h">>, <<"h">> >>
===========================================================================
