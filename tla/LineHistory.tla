---------------------------- MODULE LineHistory ----------------------------
(***************************************************************************)
(* What the kernel shell's line editor promises (drivers/os_shell.c): a     *)
(* line that is typed, the last MAX lines that were entered, and a place    *)
(* among them that Up and Down move.  Shell, with the fixed buffer, the     *)
(* array of pointers and the two indices, is checked to implement it.       *)
(***************************************************************************)
EXTENDS Naturals, Sequences

CONSTANTS
  CHARS,            \* the characters that can be typed
  MAX               \* max_instruction_history

VARIABLES
  line,             \* the line as it would be entered
  past,             \* the lines entered, the newest last
  at                \* the place in past, behind its end while nothing is recalled

vars == <<line, past, at>>

Init == line = <<>> /\ past = <<>> /\ at = 1

Type(c) == line' = Append(line, c) /\ UNCHANGED <<past, at>>

Erase ==
  /\ line # <<>>
  /\ line' = SubSeq(line, 1, Len(line) - 1)
  /\ UNCHANGED <<past, at>>

\* push_instruction_history: of MAX lines the oldest is forgotten.
Kept == IF Len(past) < MAX THEN past ELSE Tail(past)
Enter ==
  /\ line # <<>>
  /\ past' = Append(Kept, line) /\ at' = Len(past') + 1
  /\ line' = <<>>

\* Up stops at the oldest line; without one the prompt starts anew.
Up ==
  /\ at' = IF at > 1 THEN at - 1 ELSE at
  /\ line' = IF past = <<>> THEN <<>> ELSE past[at']
  /\ UNCHANGED past

\* Down goes on to an empty line behind the newest one.
Down ==
  /\ at <= Len(past)
  /\ at' = at + 1
  /\ line' = IF at' > Len(past) THEN <<>> ELSE past[at']
  /\ UNCHANGED past

Next == Erase \/ Enter \/ Up \/ Down \/ \E c \in CHARS : Type(c)

Spec == Init /\ [][Next]_vars

---------------------------------------------------------------------------
(***************************************************************************)
(* The place is in the history or right behind it, and no more than MAX     *)
(* lines, none of them empty, are kept.                                     *)
(***************************************************************************)
PlaceInPast ==
  /\ past \in Seq(Seq(CHARS) \ {<<>>}) /\ Len(past) <= MAX
  /\ at \in 1 .. Len(past) + 1
=============================================================================
