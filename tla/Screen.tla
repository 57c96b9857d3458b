------------------------------- MODULE Screen -------------------------------
(***************************************************************************)
(* The text screen: drivers/screen_control.c over drivers/cursor.c over the *)
(* VGA's select and data ports (drivers/port_access.c).                     *)
(*                                                                         *)
(* kernel_main prints with interrupts on, one port access at a time; the    *)
(* keyboard's handler runs between any two of them, as a whole, and leaves  *)
(* the select port as its own last access set it.  Places are cells, half   *)
(* of the code's offsets, from 0 at the upper left.                         *)
(***************************************************************************)
EXTENDS Integers, Sequences

CONSTANTS
  MAX_COLS, MAX_ROWS,
  BYTE,             \* 256, the values of a register
  PROMPT,           \* 27, the columns of the prompt
  TAB,              \* 4
  MESSAGES,         \* what kernel_main prints, as sequences of characters
  OUTPUTS,          \* what a command or an exception prints
  LINES             \* the history's lines, and the empty line behind them

CELLS == MAX_COLS * MAX_ROWS
Cells == 0 .. CELLS - 1

\* The characters that are told apart: a newline and any other.
CHARS == {"c", "\n"}

ASSUME ScreenConstants ==
  /\ MAX_COLS \in Nat \ {0} /\ MAX_ROWS \in Nat \ {0, 1} /\ TAB \in Nat
  /\ MESSAGES \in Seq(Seq(CHARS)) /\ OUTPUTS \subseteq Seq(CHARS)
  /\ LINES \subseteq Seq({"c"})
  /\ BYTE \in Nat \ {0} /\ CELLS <= BYTE * BYTE
  /\ PROMPT \in 1 .. MAX_COLS

VARIABLES
  select,           \* the register that the data port is: 0xE "high" or 0xF "low"
  reg,              \* the cursor's two registers
  pc,               \* where kernel_main is in a print, "done" behind the last or abandoned
  upper, at,        \* its upper_vga_cursor_location, and current_offset
  message, messages,\* what is left of its message, and of all of them
  drawn, erased,    \* the cells that the last step's prints and keys wrote to
  text              \* where what its last print wrote stands when the screen has been scrolled

boot == <<pc, upper, at, message, messages>>
port == <<select, reg>>
shown == <<drawn, erased, text>>
vars == <<port, boot, shown>>

Row(p) == p \div MAX_COLS
Col(p) == p % MAX_COLS
Location(r) == r["high"] * BYTE + r["low"]
\* Mutant: the high part is not cast to a byte.
RegistersWide(p) == [high |-> p \div BYTE, low |-> p % BYTE]
Registers(p) == [high |-> (p \div BYTE) % BYTE, low |-> p % BYTE]

Init ==
  /\ select = "low" /\ \E p \in Cells : reg = Registers(p)
  /\ pc = "clear" /\ upper = 0 /\ at = 0 /\ message = <<>> /\ messages = MESSAGES
  /\ drawn = {} /\ erased = {} /\ text = {}

---------------------------------------------------------------------------
\* print_single_char at p: the cell it writes, and where the cursor goes.
\* Mutant: only the column is compared with its maximum.
OffByColumn(p) == Col(p) >= MAX_COLS
OffScreen(p) == Row(p) >= MAX_ROWS
Drawn(p, c) ==
  IF OffScreen(p) THEN {CELLS - 1} ELSE IF c = "\n" THEN {} ELSE {p}

Moved(p, c) == IF c = "\n" THEN (Row(p) + 1) * MAX_COLS ELSE p + 1
\* Mutant: a full screen is scrolled one cell late.
FullLate(n) == n > CELLS
Full(n) == n >= CELLS
Next_offset(p, c) == IF Full(Moved(p, c)) THEN Moved(p, c) - MAX_COLS ELSE Moved(p, c)

\* Each row is copied to the one above it, and the last is cleared: where the characters of
\* the cells T stand then.
\* Mutant: the last row is not copied.
ScrolledShort(T) ==
  {q \in Cells : IF Row(q) < MAX_ROWS - 2 THEN q + MAX_COLS \in T
                 ELSE Row(q) = MAX_ROWS - 2 /\ q \in T}
Scrolled(T) == {q \in Cells : q + MAX_COLS \in T}

\* Where the characters of T and the one printed at p stand.
Standing(T, p, c) ==
  IF Full(Moved(p, c)) THEN Scrolled(T \cup Drawn(p, c)) ELSE T \cup Drawn(p, c)

\* The screen as the handler finds it, and its two accesses to the cursor.
Screen == [select |-> select, reg |-> reg, drawn |-> {}, erased |-> {}, text |-> {}]
get_cursor(s) == [s EXCEPT !.select = "low"]
set_cursor(s, p) == [s EXCEPT !.select = "high", !.reg = Registers(p)]
Is(s) ==
  /\ select' = s.select /\ reg' = s.reg
  /\ drawn' = s.drawn /\ erased' = s.erased /\ text' = s.text

print_char(s, c) ==
  LET p == Location(s.reg)
      d == [s EXCEPT !.drawn = @ \cup Drawn(p, c)]
  IN IF OffScreen(p) THEN get_cursor(d)
     ELSE set_cursor([d EXCEPT !.text = Standing(@, p, c)], Next_offset(p, c))
kernel_print_string(s, str) ==
  LET printed[i \in 0 .. Len(str)] ==
        IF i = 0 THEN get_cursor([s EXCEPT !.text = {}])
        ELSE print_char(printed[i - 1], str[i])
  IN printed[Len(str)]

\* Mutant: the row is not brought back to the screen.
next_line_below(s) == set_cursor(s, (Row(Location(s.reg)) + 1) * MAX_COLS)
move_next_line(s) ==
  LET row == Row(Location(s.reg)) + 1
  IN set_cursor(s, (IF row >= MAX_ROWS THEN MAX_ROWS - 1 ELSE row) * MAX_COLS)

move_cursor_left(s) ==
  LET p == Location(s.reg)
      left == IF p >= 1 THEN p - 1 ELSE p
  IN IF Col(left) <= PROMPT - 1 THEN get_cursor(s) ELSE set_cursor(s, left)
move_cursor_right(s) ==
  LET p == Location(s.reg) IN set_cursor(s, IF p <= CELLS - 1 THEN p + 1 ELSE p)
tab(s) == set_cursor(s, Location(s.reg) + TAB)

backspace(s) ==
  LET p == Location(s.reg)
      left == IF p >= 1 THEN p - 1 ELSE p
  IN IF Col(left) <= PROMPT - 1 THEN get_cursor(s)
     ELSE set_cursor([s EXCEPT !.erased = {left}], left)

shell_erase_line(s) ==
  LET p == Location(s.reg)
      n == Col(p) - PROMPT
  IN IF Col(p) <= PROMPT - 1 THEN get_cursor(s)
     ELSE set_cursor([s EXCEPT !.erased = (p - n) .. (p - 1)], p - n)

Prompt == [i \in 1 .. PROMPT |-> "c"]
end_of_user_input(s) == kernel_print_string(move_next_line(s), Prompt)

---------------------------------------------------------------------------
\* The keyboard's handler, by key.
letter_key == Is(kernel_print_string(Screen, <<"c">>)) /\ UNCHANGED boot
backspace_key == Is(backspace(Screen)) /\ UNCHANGED boot
tab_key == Is(tab(Screen)) /\ UNCHANGED boot
left_key == Is(move_cursor_left(Screen)) /\ UNCHANGED boot
right_key == Is(move_cursor_right(Screen)) /\ UNCHANGED boot
\* Up or Down: with the line it brings, Down with none, and Up with no history, which reads
\* through a null pointer: a page fault, that prints out and takes kernel_main with it.
recall_key(line) ==
  Is(kernel_print_string(shell_erase_line(Screen), line)) /\ UNCHANGED boot
down_to_nothing == Is(shell_erase_line(Screen)) /\ UNCHANGED boot
up_to_nothing(out) ==
  /\ Is(end_of_user_input(kernel_print_string(shell_erase_line(Screen), out)))
  /\ pc' = "done" /\ UNCHANGED <<upper, at, message, messages>>
empty_enter == Is(end_of_user_input(Screen)) /\ UNCHANGED boot
\* A command that returns, or ends in an exception and takes kernel_main with it.
enter_key(out) ==
  /\ Is(end_of_user_input(kernel_print_string(move_next_line(Screen), out)))
  /\ \/ UNCHANGED boot
     \/ pc' = "done" /\ UNCHANGED <<upper, at, message, messages>>

Handler ==
  \/ letter_key \/ backspace_key \/ tab_key \/ left_key \/ right_key \/ empty_enter
  \/ down_to_nothing \/ \E line \in LINES : recall_key(line)
  \/ \E out \in OUTPUTS : enter_key(out) \/ up_to_nothing(out)

---------------------------------------------------------------------------
\* kernel_main: clear_screen, then its messages, one port access after the other.
Quiet == drawn' = {} /\ erased' = {} /\ text' = {}
Goto(here, there) == pc = here /\ pc' = there

clear_screen ==
  /\ Goto("clear", "set") /\ at' = 0
  /\ UNCHANGED <<port, upper, message, messages>> /\ Quiet

select_register ==
  /\ \/ Goto("get", "get high") /\ select' = "high"
     \/ Goto("get low", "get low byte") /\ select' = "low"
     \/ Goto("set", "set low") /\ select' = "low"
     \/ Goto("set high", "set high byte") /\ select' = "high"
  /\ UNCHANGED <<reg, upper, at, message, messages>> /\ Quiet

read_register ==
  /\ \/ Goto("get high", "get low") /\ upper' = reg[select] /\ UNCHANGED at
     \/ Goto("get low byte", "print") /\ at' = upper * BYTE + reg[select] /\ UNCHANGED upper
  /\ UNCHANGED <<port, message, messages>> /\ Quiet

write_register ==
  /\ \/ Goto("set low", "set high") /\ reg' = [reg EXCEPT ![select] = at % BYTE]
     \/ Goto("set high byte", "print") /\ reg' = [reg EXCEPT ![select] = (at \div BYTE) % BYTE]
  /\ UNCHANGED <<select, upper, at, message, messages>> /\ Quiet

\* The loop of kernel_print_string_at, and the next call of it.
print_single_char ==
  /\ message # <<>>
  /\ drawn' = Drawn(at, Head(message)) /\ erased' = {}
  /\ message' = Tail(message)
  /\ IF OffScreen(at) THEN text' = {} /\ UNCHANGED <<pc, at>>
     ELSE /\ Goto("print", "set") /\ at' = Next_offset(at, Head(message))
          /\ text' = Standing({}, at, Head(message))
  /\ UNCHANGED <<port, upper, messages>>
next_message ==
  /\ message = <<>>
  /\ IF messages = <<>> THEN pc' = "done" /\ UNCHANGED <<message, messages>>
     ELSE pc' = "get" /\ message' = Head(messages) /\ messages' = Tail(messages)
  /\ UNCHANGED <<port, upper, at>> /\ Quiet
print_step == pc = "print" /\ (print_single_char \/ next_message)

Boot == clear_screen \/ select_register \/ read_register \/ write_register \/ print_step

Next == Boot \/ Handler
Spec == Init /\ [][Next]_vars

---------------------------------------------------------------------------
TypeOK ==
  /\ select \in {"high", "low"} /\ reg \in [{"high", "low"} -> 0 .. BYTE - 1]
  /\ upper \in 0 .. BYTE - 1 /\ at \in 0 .. BYTE * BYTE - 1
  /\ pc \in {"clear", "get", "get high", "get low", "get low byte", "print", "set", "set low",
             "set high", "set high byte", "done"}
  /\ drawn \in SUBSET Int /\ erased \in SUBSET Int /\ text \in SUBSET Int

OnScreen == ~OffScreen(Location(reg))
\* The line ends, and a prompt is printed.
Prompted == empty_enter \/ \E out \in OUTPUTS : enter_key(out) \/ up_to_nothing(out)

(***************************************************************************)
(* No print leaves the screen's memory, whatever kernel_main and the keys   *)
(* make of the cursor: also when it is put together from two prints' bytes, *)
(* or when a byte has gone to the other register.                           *)
(***************************************************************************)
PrintsOnScreen == drawn \subseteq Cells

(***************************************************************************)
(* An Enter brings a lost cursor back, and so does an exception: wherever   *)
(* it was, the prompt's end is on the screen.  (Nothing else does: off the  *)
(* screen each print only marks the last cell.)                             *)
(***************************************************************************)
EnterRecovers == [][Prompted => OnScreen']_vars

(***************************************************************************)
(* Once kernel_main is done, a key takes the cursor off the screen only if  *)
(* it is tab or right, and none erases a cell that is not on the screen     *)
(* unless the cursor was lost before.                                       *)
(***************************************************************************)
KeysKeepCursor ==
  [][pc = "done" /\ OnScreen =>
       /\ tab_key \/ right_key \/ OnScreen'
       /\ erased' \subseteq Cells]_vars

(***************************************************************************)
(* What a key prints stands whole before the cursor, in order and without a *)
(* gap, where the scrolling of each of its characters has left it: a letter *)
(* and a recalled line when the cursor was on the screen, and each prompt,  *)
(* wherever it was.  What is scrolled out at the top is gone.               *)
(***************************************************************************)
Before(p, n) == {q \in Cells : p - n <= q /\ q < p}
PrintBeforeCursor ==
  [][/\ letter_key /\ OnScreen => text' = Before(Location(reg'), 1)
     /\ \A line \in LINES :
          recall_key(line) /\ OnScreen => text' = Before(Location(reg'), Len(line))
     /\ Prompted => text' = Before(Location(reg'), PROMPT)]_vars
=============================================================================
