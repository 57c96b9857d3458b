------------------------------- MODULE Shell -------------------------------
(***************************************************************************)
(* The kernel shell's line editor: drivers/keyboard.c turns scancodes into  *)
(* characters, drivers/os_shell.c keeps the line in buffer, echoes it, and  *)
(* keeps the last lines in instruction_history_buffer.                      *)
(*                                                                         *)
(* One action per key: the handler runs with interrupts off.  What the      *)
(* commands do is in the other modules; each of them, and each exception in *)
(* KERNEL_SHELL_MODE, ends in a new prompt.  Entries of the history are     *)
(* the lines their pointers show.                                           *)
(***************************************************************************)
EXTENDS Strings, SequencesExt

CONSTANTS
  KEYS,             \* the keys of the table of letters
  shift_up_ascii,   \* their characters
  shift_down_ascii, \* and those with shift
  BUF,              \* 256, sizeof(buffer)
  WIDTH,            \* the cells of a row behind the prompt
  COMMANDS,         \* kernel_level_instructions, as sequences of characters
  max_instruction_history

\* 0x48 and 0x50: the scancodes of two keys, and the letters H and P.
UP == "H"
DOWN == "P"

CHARS == {shift_up_ascii[k] : k \in KEYS} \cup {shift_down_ascii[k] : k \in KEYS}
NULL == <<>>        \* no pointer; an entered line has characters
AWAY == <<NUL>>     \* the cursor has left the line or its row

ASSUME ShellConstants ==
  /\ BUF \in Nat \ {0} /\ WIDTH \in Nat \ {0}
  /\ max_instruction_history \in Nat \ {0}
  /\ NUL \notin CHARS
  /\ \A c \in DOMAIN COMMANDS : Len(COMMANDS[c]) \in 1 .. BUF - 2

VARIABLES
  shift_down,
  buffer, buffer_length,
  instruction_history_buffer,
  index_for_instruction_history_buffer, current_index_for_instruction_history_buffer,
  shown,            \* the cells from the prompt to the cursor, or AWAY
  recalled          \* whether Up or Down has brought a line since the prompt

text == <<buffer, buffer_length>>
history == <<instruction_history_buffer, index_for_instruction_history_buffer,
             current_index_for_instruction_history_buffer>>
vars == <<shift_down, text, history, shown, recalled>>

Index == index_for_instruction_history_buffer
Current == current_index_for_instruction_history_buffer

Init ==
  /\ shift_down = FALSE
  /\ buffer = [i \in 0 .. BUF - 1 |-> NUL] /\ buffer_length = 0
  /\ instruction_history_buffer = [i \in 0 .. max_instruction_history - 1 |-> NULL]
  /\ Index = 0 /\ Current = 0
  /\ shown = <<>> /\ recalled = FALSE

---------------------------------------------------------------------------
\* The buffer as memory, and the string that is in it from a place on.
Memory == [i \in 1 .. BUF |-> buffer[i - 1]]
String(from) == StringAt(Memory, from + 1)

\* The screen: a line that runs over its row is not followed further.
Printed(cells, s) ==
  IF cells = AWAY \/ Len(cells) + Len(s) > WIDTH THEN AWAY ELSE cells \o s
\* Nothing is erased when the cursor is in the prompt's columns of the next row.
\* Mutant: the line that is shown is not erased.
not_erased == shown
shell_erase_line == IF shown = AWAY \/ Len(shown) = WIDTH THEN AWAY ELSE <<>>
backspace == IF shown = AWAY \/ shown = <<>> THEN shown ELSE Front(shown)

\* Mutant: the line's end is set, as in init_kernel_shell, the rest is left.
next_prompt_sets_end ==
  /\ buffer' = [buffer EXCEPT ![0] = NUL] /\ buffer_length' = 0
  /\ shown' = <<>> /\ recalled' = FALSE
next_kernel_shell_print ==
  /\ buffer' = [i \in 0 .. BUF - 1 |-> NUL] /\ buffer_length' = 0
  /\ shown' = <<>> /\ recalled' = FALSE

\* move_next_line and the prompt.
end_of_user_input == next_kernel_shell_print

---------------------------------------------------------------------------
\* The entries move down by one; the last is read from behind the array, and
\* push_instruction_history writes it next.
\* Mutant: the loop stops one entry early.
pop_short(entry) ==
  [i \in DOMAIN instruction_history_buffer |->
     IF i < max_instruction_history - 2 THEN instruction_history_buffer[i + 1]
     ELSE IF i = max_instruction_history - 1 THEN entry ELSE NULL]
pop_instruction_history(entry) ==
  [i \in DOMAIN instruction_history_buffer |->
     IF i < max_instruction_history - 1 THEN instruction_history_buffer[i + 1] ELSE entry]

\* Mutant: the place is left where it was.
push_keeps_place ==
  /\ UNCHANGED current_index_for_instruction_history_buffer
  /\ IF Index >= max_instruction_history
     THEN /\ instruction_history_buffer' = pop_instruction_history(String(0))
          /\ UNCHANGED index_for_instruction_history_buffer
     ELSE /\ instruction_history_buffer' =
               [instruction_history_buffer EXCEPT ![Index] = String(0)]
          /\ index_for_instruction_history_buffer' = Index + 1
push_instruction_history ==
  IF Index >= max_instruction_history
  THEN /\ instruction_history_buffer' = pop_instruction_history(String(0))
       /\ current_index_for_instruction_history_buffer' = max_instruction_history
       /\ UNCHANGED index_for_instruction_history_buffer
  ELSE /\ instruction_history_buffer' =
            [instruction_history_buffer EXCEPT ![Index] = String(0)]
       /\ index_for_instruction_history_buffer' = Index + 1
       /\ current_index_for_instruction_history_buffer' = Index + 1

\* The first command whose name begins the line; its function gets what is behind the
\* name and one character.
Matching == {c \in DOMAIN COMMANDS : BeginsWith(COMMANDS[c], String(0))}
Args(c) == String(Len(COMMANDS[c]) + 1)

\* The command runs and returns, or ends in an exception: a prompt either way.
user_shell_enter ==
  /\ IF String(0) # <<>> THEN push_instruction_history ELSE UNCHANGED history
  /\ end_of_user_input

---------------------------------------------------------------------------
\* memory_copy takes the line and its end; what is behind stays.
Recall(s) ==
  /\ buffer' = [i \in 0 .. BUF - 1 |->
                  IF i < Len(s) THEN s[i + 1] ELSE IF i = Len(s) THEN NUL ELSE buffer[i]]
  /\ buffer_length' = Len(s)
  /\ shown' = Printed(shell_erase_line, s)
  /\ recalled' = TRUE

\* Without an entry its address, 0, is read: a page fault, which restarts the prompt.
user_shell_up ==
  LET place == IF Current # 0 THEN Current - 1 ELSE 0 IN
  /\ Index >= Current
  /\ current_index_for_instruction_history_buffer' = place
  /\ IF instruction_history_buffer[place] = NULL THEN end_of_user_input
     ELSE Recall(instruction_history_buffer[place])
  /\ UNCHANGED <<instruction_history_buffer, index_for_instruction_history_buffer>>

user_shell_down ==
  \/ /\ Index >= Current + 1 /\ Current <= max_instruction_history - 1
     /\ current_index_for_instruction_history_buffer' = Current + 1
     /\ IF Index = Current + 1
        THEN /\ buffer' = [buffer EXCEPT ![0] = NUL] /\ buffer_length' = 0
             /\ shown' = shell_erase_line /\ recalled' = TRUE
        ELSE Recall(instruction_history_buffer[Current + 1])
     /\ UNCHANGED <<instruction_history_buffer, index_for_instruction_history_buffer>>
  \/ /\ ~(Index >= Current + 1 /\ Current <= max_instruction_history - 1)
     /\ shown' = shell_erase_line
     /\ UNCHANGED <<text, history, recalled>>

\* A character that is not a key's: BUF bounds the line in the model, not in the code.
type(val) ==
  /\ val \notin {UP, DOWN} /\ buffer_length < BUF - 2
  /\ buffer' = [buffer EXCEPT ![buffer_length] = val, ![buffer_length + 1] = NUL]
  /\ buffer_length' = buffer_length + 1
  /\ shown' = Printed(shown, <<val>>)
  /\ UNCHANGED <<history, recalled>>

\* Mutant: the empty line is not spared.
erase_always ==
  /\ buffer' = [buffer EXCEPT ![buffer_length - 1] = NUL]
  /\ buffer_length' = buffer_length - 1
erase_last ==
  IF buffer_length > 0
  THEN /\ buffer' = [buffer EXCEPT ![buffer_length - 1] = NUL]
       /\ buffer_length' = buffer_length - 1
  ELSE UNCHANGED text

kernel_user_input(val) ==
  \/ val = UP /\ user_shell_up
  \/ val = DOWN /\ user_shell_down
  \/ type(val)

---------------------------------------------------------------------------
\* keyboard_scancode_handler and print_letter, by key.
shift(down) == shift_down' = down /\ UNCHANGED <<text, history, shown, recalled>>
enter_key == user_shell_enter /\ UNCHANGED shift_down
up_key == kernel_user_input(UP) /\ UNCHANGED shift_down
down_key == kernel_user_input(DOWN) /\ UNCHANGED shift_down
letter_key(k) ==
  /\ kernel_user_input(IF shift_down THEN shift_down_ascii[k] ELSE shift_up_ascii[k])
  /\ UNCHANGED shift_down
backspace_key ==
  /\ shown' = backspace /\ erase_last
  /\ UNCHANGED <<shift_down, history, recalled>>
\* Tab and the arrows to the sides move the cursor and nothing else.
cursor_key == shown' = AWAY /\ UNCHANGED <<shift_down, text, history, recalled>>

Next ==
  \/ \E down \in BOOLEAN : shift(down)
  \/ enter_key \/ up_key \/ down_key \/ backspace_key \/ cursor_key
  \/ \E k \in KEYS : letter_key(k)

Spec == Init /\ [][Next]_vars

---------------------------------------------------------------------------
MAX == max_instruction_history

\* The line and the history that the array and the indices stand for.
Line == SubSeq(Memory, 1, buffer_length)
Past == <<>> \o [i \in 1 .. Index |-> instruction_history_buffer[i - 1]]
Lines == INSTANCE LineHistory WITH line <- Line, past <- Past, at <- Current + 1

(***************************************************************************)
(* The buffer, the array of ten and its two indices are a line editor with  *)
(* a history, through any sequence of keys.                                 *)
(***************************************************************************)
ImplementsHistory == Lines!Spec

TypeOK ==
  /\ shift_down \in BOOLEAN /\ recalled \in BOOLEAN
  /\ buffer \in [0 .. BUF - 1 -> CHARS \cup {NUL}] /\ buffer_length \in 0 .. BUF - 1
  /\ instruction_history_buffer \in [0 .. MAX - 1 -> Seq(CHARS)]
  /\ Index \in 0 .. MAX /\ Current \in 0 .. MAX
  /\ shown \in Seq(CHARS) \cup {AWAY}

(***************************************************************************)
(* Up and Down only read entries that hold a line: those below the index    *)
(* do, no other does, and the place never runs ahead of the index.          *)
(***************************************************************************)
HistoryFilled ==
  /\ Current <= Index
  /\ \A i \in 0 .. MAX - 1 : instruction_history_buffer[i] # NULL <=> i < Index

(***************************************************************************)
(* As long as the cursor has not left the line, what the row shows is the   *)
(* end of the line: all of it, or, after a Down below the newest line, what *)
(* has been typed since.                                                    *)
(***************************************************************************)
ShownEndsLine == shown # AWAY => IsSuffix(shown, Line)

(***************************************************************************)
(* A command gets what was typed behind its name and a space: the buffer    *)
(* holds nothing else.  (Only until a line is recalled: that leaves the     *)
(* rest of a longer one behind its end, and a command without arguments     *)
(* gets it for its arguments.)                                              *)
(***************************************************************************)
ArgsAreTyped ==
  ~recalled => \A c \in Matching :
    Args(c) = SubSeq(Line, Len(COMMANDS[c]) + 2, buffer_length)

(***************************************************************************)
(* parse_string_spaces finds each word of the string it is given that has   *)
(* two letters or more, nothing else, and nothing from behind the string,   *)
(* whatever an earlier line has left there.                                 *)
(***************************************************************************)
WordsOfString ==
  \A from \in 0 .. BUF - 2, index \in 0 .. 4 :
    parse_string_spaces(Memory, from + 1, index) =
      LET word == Word(String(from), index) IN IF Len(word) < 2 THEN <<>> ELSE word
=============================================================================
