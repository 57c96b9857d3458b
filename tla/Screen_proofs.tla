--------------------------- MODULE Screen_proofs ---------------------------
(***************************************************************************)
(* Proofs about Screen, for every size of two rows or more, every width of  *)
(* the registers that holds the screen's places, every prompt and texts.    *)
(*                                                                         *)
(* A print from the keyboard's handler is one step of the model but a loop  *)
(* over the text's letters: StringSteps takes it apart, StringKeeps carries *)
(* what each letter keeps through it (Kept) and LineStands where the ones   *)
(* before it stand, with every scroll, both by induction over the letters   *)
(* printed.  ScreenInv is the inductive invariant; it says nothing of where *)
(* the cursor is, since boot's torn accesses may leave it at any place two  *)
(* bytes can name.                                                          *)
(***************************************************************************)
EXTENDS Screen, SequenceTheorems, WellFoundedInduction, TLAPS

\* A set that holds 0 and with a number its successor holds all.
LEMMA Induct ==
  ASSUME NEW S \in SUBSET Nat, 0 \in S, \A n \in S : n + 1 \in S
  PROVE  Nat \subseteq S
<1>. DEFINE less == OpToRel(<, Nat)
<1>1. IsWellFoundedOn(less, Nat) BY NatLessThanWellFounded
<1>. HIDE DEF less
<1>. SUFFICES ASSUME Nat \ S # {} PROVE FALSE OBVIOUS
<1>2. PICK x \in Nat \ S : \A y \in Nat \ S : ~(<<y, x>> \in less) BY <1>1, WFMin
<1>3. ASSUME NEW y \in Nat \ S PROVE x <= y
  <2>1. <<y, x>> \in Nat \X Nat /\ <<y, x>>[1] = y /\ <<y, x>>[2] = x OBVIOUS
  <2>2. y < x => <<y, x>> \in less BY <2>1 DEF less, OpToRel
  <2>. QED BY <1>2, <2>2
<1>4. x - 1 \in Nat /\ x - 1 \in S BY <1>3
<1>. QED BY <1>4
---------------------------------------------------------------------------
(* Places and registers. *)
LEMMA Divided ==
  ASSUME NEW p \in Nat, NEW b \in Nat \ {0}
  PROVE  /\ p \div b \in Nat /\ p % b \in 0 .. b - 1 /\ p = b * (p \div b) + (p % b)
         /\ p % b <= p
OBVIOUS

LEMMA DividedBelow ==
  ASSUME NEW p \in Nat, NEW b \in Nat \ {0}, NEW n \in Nat
  PROVE  p < b * n <=> p \div b < n
<1>1. PICK q \in Nat, r \in 0 .. b - 1 : q = p \div b /\ p = b * q + r BY Divided
<1>2. ASSUME q < n PROVE p < b * n
  <2>1. b * (q + 1) = b * q + b BY <1>1
  <2>2. PICK d \in Nat : n = (q + 1) + d BY <1>2
  <2>3. b * n = b * (q + 1) + b * d /\ b * d \in Nat BY <2>2
  <2>. QED BY <1>1, <2>1, <2>3
<1>3. ASSUME ~(q < n) PROVE ~(p < b * n)
  <2>1. PICK d \in Nat : q = n + d BY <1>3
  <2>2. b * q = b * n + b * d /\ b * d \in Nat BY <2>1
  <2>. QED BY <1>1, <2>2
<1>. QED BY <1>1, <1>2, <1>3

LEMMA Recomposed ==
  ASSUME NEW b \in Nat \ {0}, NEW q \in Nat, NEW r \in 0 .. b - 1
  PROVE  /\ (q * b + r) \div b = q /\ (q * b + r) % b = r
         /\ q * b + r \in Nat
OBVIOUS

LEMMA CellFacts ==
  /\ CELLS \in Nat /\ 2 * MAX_COLS <= CELLS /\ CELLS <= BYTE * BYTE /\ MAX_COLS > 0
  /\ \A p \in Nat : /\ Row(p) \in Nat /\ Col(p) \in 0 .. MAX_COLS - 1 /\ Col(p) <= p
                    /\ OffScreen(p) <=> p \notin Cells
<1>1. MAX_COLS \in Nat \ {0} /\ MAX_ROWS \in Nat /\ MAX_ROWS >= 2 /\ CELLS <= BYTE * BYTE
  BY ScreenConstants
<1>2. PICK d \in Nat : MAX_ROWS = 2 + d BY <1>1
<1>3. CELLS = 2 * MAX_COLS + MAX_COLS * d /\ MAX_COLS * d \in Nat BY <1>1, <1>2 DEF CELLS
<1>4. ASSUME NEW p \in Nat
      PROVE  /\ Row(p) \in Nat /\ Col(p) \in 0 .. MAX_COLS - 1 /\ Col(p) <= p
             /\ OffScreen(p) <=> p \notin Cells
  <2>1. Row(p) \in Nat /\ Col(p) \in 0 .. MAX_COLS - 1 /\ Col(p) <= p
    BY ONLY <1>1, p \in Nat, Divided DEF Row, Col
  <2>2. p < CELLS <=> Row(p) < MAX_ROWS BY ONLY <1>1, p \in Nat, DividedBelow DEF Row, CELLS
  <2>. QED BY <1>1, <1>3, <2>1, <2>2 DEF OffScreen, Cells
<1>. QED BY <1>1, <1>3, <1>4

\* A place keeps through the registers, and what they hold is a place.
Regs == [{"high", "low"} -> 0 .. BYTE - 1]

LEMMA RegisterFacts ==
  /\ \A p \in Nat : Registers(p) \in Regs
  /\ \A p \in 0 .. BYTE * BYTE - 1 : Location(Registers(p)) = p
  /\ \A p \in Cells : Location(Registers(p)) = p
  /\ \A q, r \in 0 .. BYTE - 1 : q * BYTE + r \in 0 .. BYTE * BYTE - 1
  /\ \A r \in Regs : Location(r) \in 0 .. BYTE * BYTE - 1
  /\ Cells \subseteq 0 .. BYTE * BYTE - 1 /\ 0 .. BYTE * BYTE - 1 \subseteq Nat /\ 0 \in Cells
<1>1. BYTE \in Nat \ {0} /\ BYTE * BYTE \in Nat BY ScreenConstants
<1>2. \A p \in Nat : Registers(p) \in Regs
  <2>. TAKE p \in Nat
  <2>1. PICK q \in Nat : q = p \div BYTE BY <1>1, Divided
  <2>2. q % BYTE \in 0 .. BYTE - 1 /\ p % BYTE \in 0 .. BYTE - 1 BY <1>1, Divided
  <2>3. \A x, y \in 0 .. BYTE - 1 : [high |-> x, low |-> y] \in Regs BY DEF Regs
  <2>. QED BY <2>1, <2>2, <2>3 DEF Registers
<1>3. ASSUME NEW p \in 0 .. BYTE * BYTE - 1 PROVE Location(Registers(p)) = p
  <2>1. PICK q \in Nat, r \in 0 .. BYTE - 1 : q = p \div BYTE /\ r = p % BYTE /\ p = BYTE * q + r
    BY <1>1, Divided
  <2>2. q < BYTE BY <1>1, <2>1, DividedBelow
  <2>3. q % BYTE = q BY <1>1, <2>2
  <2>4. Location(Registers(p)) = q * BYTE + r BY <2>1, <2>3 DEF Location, Registers
  <2>5. q * BYTE = BYTE * q BY <1>1
  <2>. QED BY <2>1, <2>4, <2>5
<1>4. ASSUME NEW q \in 0 .. BYTE - 1, NEW r \in 0 .. BYTE - 1
      PROVE  q * BYTE + r \in 0 .. BYTE * BYTE - 1
  <2>1. PICK d \in Nat : BYTE = (q + 1) + d BY <1>1
  <2>2. BYTE * BYTE = q * BYTE + BYTE + d * BYTE /\ d * BYTE \in Nat /\ q * BYTE \in Nat
    <3>1. \A x, y, b \in Nat : ((x + 1) + y) * b = x * b + b + y * b OBVIOUS
    <3>2. ((q + 1) + d) * BYTE = q * BYTE + BYTE + d * BYTE BY <1>1, <3>1
    <3>. QED BY <1>1, <2>1, <3>2
  <2>. QED BY <1>1, <2>2
<1>5. \A r \in Regs : Location(r) \in 0 .. BYTE * BYTE - 1 BY <1>4 DEF Regs, Location
<1>6. Cells \subseteq 0 .. BYTE * BYTE - 1 BY <1>1, CellFacts DEF Cells
<1>7. 0 \in Cells BY CellFacts, ScreenConstants DEF Cells
<1>. QED BY <1>1, <1>2, <1>3, <1>4, <1>5, <1>6, <1>7

LEMMA NextFacts ==
  ASSUME NEW p \in Cells, NEW c PROVE Next_offset(p, c) \in Cells
<1>1. p \in Nat /\ CELLS \in Nat /\ p < CELLS BY CellFacts DEF Cells
<1>2. PICK m \in Nat, r \in Nat : m = MAX_COLS /\ r = MAX_ROWS /\ m > 0 BY ScreenConstants
<1>3. CELLS = m * r /\ 2 * m <= CELLS BY <1>2, CellFacts DEF CELLS
<1>4. CASE c = "\n"
  <2>1. PICK q \in Nat : q = Row(p) /\ q < r BY <1>1, <1>2, CellFacts DEF OffScreen
  <2>2. (q + 1) * m \in Nat /\ (q + 1) * m <= m * r
    <3>1. \A x, y \in Nat : x < y => \E d \in Nat : y = (x + 1) + d
      <4>. TAKE x, y \in Nat
      <4>. HAVE x < y
      <4>. WITNESS y - (x + 1) \in Nat
      <4>. QED OBVIOUS
    <3>2. PICK d \in Nat : r = (q + 1) + d BY <2>1, <3>1
    <3>3. m * r = (q + 1) * m + m * d /\ m * d \in Nat /\ (q + 1) * m \in Nat BY <3>2
    <3>. QED BY <3>3
  <2>3. Next_offset(p, c) = IF (q + 1) * m >= CELLS THEN (q + 1) * m - m ELSE (q + 1) * m
    BY <1>2, <1>4, <2>1 DEF Next_offset, Moved, Full
  <2>. QED BY <1>1, <1>2, <1>3, <1>4, <2>2, <2>3 DEF Cells
<1>5. CASE c # "\n"
  <2>1. Moved(p, c) = p + 1 BY <1>5 DEF Moved
  <2>2. Next_offset(p, c) = IF p + 1 >= CELLS THEN p + 1 - MAX_COLS ELSE p + 1
    BY <1>1, <1>2, <2>1 DEF Next_offset, Full
  <2>. QED BY <1>1, <1>2, <1>3, <2>2 DEF Cells
<1>. QED BY <1>4, <1>5

LEMMA DrawnOnScreen ==
  ASSUME NEW p \in Nat, NEW c PROVE Drawn(p, c) \subseteq Cells
<1>1. CELLS - 1 \in Cells BY CellFacts, ScreenConstants DEF Cells
<1>2. ~OffScreen(p) => p \in Cells BY CellFacts
<1>. QED BY <1>1, <1>2 DEF Drawn

LEMMA StandingOnScreen ==
  ASSUME NEW T \in SUBSET Cells, NEW p \in Nat, NEW c
  PROVE  Standing(T, p, c) \subseteq Cells
<1>1. Drawn(p, c) \subseteq Cells BY DrawnOnScreen
<1>. QED BY <1>1 DEF Standing, Scrolled

\* What stands before p, and the character printed at p, stand before the cursor then,
\* scrolled or not.
LEMMA StandingBefore ==
  ASSUME NEW p \in Cells, NEW n \in Nat
  PROVE  Standing(Before(p, n), p, "c") = Before(Next_offset(p, "c"), n + 1)
<1>1. /\ p \in Nat /\ p < CELLS /\ CELLS \in Nat /\ MAX_COLS \in Nat /\ MAX_COLS <= CELLS
      /\ Cells = 0 .. CELLS - 1
  BY CellFacts, ScreenConstants DEF Cells
<1>2. Moved(p, "c") = p + 1 BY DEF Moved
<1>3. Drawn(p, "c") = {p} BY CellFacts, <1>1 DEF Drawn
<1>4. Before(p, n) \cup {p} = Before(p + 1, n + 1)
  <2>1. \A q \in Cells : (p - n <= q /\ q < p) \/ q = p <=> (p + 1) - (n + 1) <= q /\ q < p + 1
    BY <1>1
  <2>. QED BY <2>1, <1>1 DEF Before
<1>5. Standing(Before(p, n), p, "c")
        = IF p + 1 >= CELLS THEN Scrolled(Before(p + 1, n + 1)) ELSE Before(p + 1, n + 1)
  BY <1>2, <1>3, <1>4, Zenon DEF Standing, Full
<1>6. Next_offset(p, "c") = IF p + 1 >= CELLS THEN p + 1 - MAX_COLS ELSE p + 1
  BY <1>1, <1>2 DEF Next_offset, Full
<1>7. CASE p + 1 >= CELLS
  <2>1. PICK m \in Nat, k \in Nat : m = p + 1 - MAX_COLS /\ k = MAX_COLS /\ m + k = CELLS
    BY <1>1, <1>7
  <2>2. Scrolled(Before(p + 1, n + 1)) = Before(m, n + 1)
    <3>1. ASSUME NEW q \in Cells
          PROVE  q + k \in Before(p + 1, n + 1) <=> (m - (n + 1) <= q /\ q < m)
      <4>1. q \in Nat BY <1>1
      <4>2. q + k \in Cells <=> q < m BY <1>1, <2>1, <4>1
      <4>3. p + 1 = m + k BY <1>1, <2>1
      <4>4. /\ (p + 1) - (n + 1) <= q + k <=> m - (n + 1) <= q
            /\ q + k < p + 1 <=> q < m
        BY <1>1, <4>1, <4>3
      <4>5. q + k \in Before(p + 1, n + 1)
              <=> (q + k \in Cells /\ (p + 1) - (n + 1) <= q + k /\ q + k < p + 1)
        BY Zenon DEF Before
      <4>. QED BY <4>2, <4>4, <4>5, Zenon
    <3>. QED BY <2>1, <3>1 DEF Scrolled, Before
  <2>. QED BY <1>5, <1>6, <1>7, <2>1, <2>2
<1>8. CASE ~(p + 1 >= CELLS) BY <1>5, <1>6, <1>8
<1>. QED BY <1>7, <1>8
---------------------------------------------------------------------------
\* The function that repeats a step n times exists, and stays where the step stays.
Iteration(n, b, step, f) ==
  f = [i \in 0 .. n |-> IF i = 0 THEN b ELSE step[<<f[i - 1], i>>]]

LEMMA Iterates ==
  ASSUME NEW n \in Nat, NEW S, NEW b \in S, NEW step \in [S \X (1 .. n) -> S]
  PROVE  \E f \in [0 .. n -> S] : Iteration(n, b, step, f)
<1>. DEFINE Repeats(f, k) ==
       \A i \in 0 .. k : f[i] = IF i = 0 THEN b ELSE step[<<f[i - 1], i>>]
     T == {k \in Nat : k <= n => \E f \in [0 .. k -> S] : Repeats(f, k)}
<1>1. 0 \in T
  <2>1. [i \in 0 .. 0 |-> b] \in [0 .. 0 -> S] /\ Repeats([i \in 0 .. 0 |-> b], 0) OBVIOUS
  <2>. QED BY <2>1
<1>2. ASSUME NEW k \in T PROVE k + 1 \in T
  <2>. SUFFICES ASSUME k + 1 <= n PROVE \E f \in [0 .. k + 1 -> S] : Repeats(f, k + 1)
    OBVIOUS
  <2>1. PICK f \in [0 .. k -> S] : Repeats(f, k) OBVIOUS
  <2>. DEFINE g == [i \in 0 .. k + 1 |-> IF i <= k THEN f[i] ELSE step[<<f[k], k + 1>>]]
  <2>2. f[k] \in S /\ step[<<f[k], k + 1>>] \in S
    <3>1. k \in 0 .. k /\ k + 1 \in 1 .. n OBVIOUS
    <3>2. <<f[k], k + 1>> \in S \X (1 .. n) BY <3>1
    <3>. QED BY <3>1, <3>2
  <2>3. g \in [0 .. k + 1 -> S]
    <3>1. ASSUME NEW i \in 0 .. k + 1 PROVE g[i] \in S BY <2>2
    <3>. QED BY <3>1
  <2>4. ASSUME NEW i \in 0 .. k + 1
        PROVE  g[i] = IF i = 0 THEN b ELSE step[<<g[i - 1], i>>]
    <3>1. CASE i <= k
      <4>1. i \in 0 .. k /\ (i # 0 => i - 1 \in 0 .. k) BY <3>1
      <4>2. g[i] = f[i] /\ (i # 0 => g[i - 1] = f[i - 1]) BY <4>1
      <4>3. f[i] = IF i = 0 THEN b ELSE step[<<f[i - 1], i>>] BY <2>1, <4>1
      <4>. QED BY <4>2, <4>3
    <3>2. CASE i = k + 1
      <4>1. g[i] = step[<<f[k], k + 1>>] /\ g[k] = f[k] /\ i - 1 = k /\ i # 0 BY <3>2
      <4>. QED BY <3>2, <4>1
    <3>. QED BY <3>1, <3>2
  <2>. QED BY <2>3, <2>4
<1>3. n \in T
  <2>. HIDE DEF T
  <2>1. T \in SUBSET Nat BY DEF T
  <2>. QED BY <1>1, <1>2, <2>1, Induct
<1>4. PICK f \in [0 .. n -> S] : Repeats(f, n) BY <1>3
<1>5. f = [i \in 0 .. n |-> f[i]] OBVIOUS
<1>6. [i \in 0 .. n |-> f[i]]
        = [i \in 0 .. n |-> IF i = 0 THEN b ELSE step[<<f[i - 1], i>>]]
  BY <1>4
<1>. QED BY <1>5, <1>6 DEF Iteration
---------------------------------------------------------------------------
(* What the screen's functions keep. *)
Screens == [select : {"high", "low"}, reg : Regs, drawn : SUBSET Cells, erased : SUBSET Int,
            text : SUBSET Cells]
At(s) == Location(s.reg)
Kept(s) ==
  {t \in Screens : t.erased = s.erased /\ (At(s) \in Cells => At(t) \in Cells)}

LEMMA CursorFacts ==
  /\ \A s \in Screens : /\ get_cursor(s) \in Screens /\ At(s) \in 0 .. BYTE * BYTE - 1
                        /\ get_cursor(s).erased = s.erased /\ get_cursor(s).text = s.text
                        /\ At(get_cursor(s)) = At(s) /\ At(s) \in Nat
  /\ \A s \in Screens, p \in Nat : /\ set_cursor(s, p) \in Screens
                                   /\ set_cursor(s, p).erased = s.erased
                                   /\ set_cursor(s, p).text = s.text
  /\ \A s \in Screens, p \in Cells : At(set_cursor(s, p)) = p
<1>1. ASSUME NEW s \in Screens
      PROVE  /\ get_cursor(s) \in Screens /\ At(s) \in 0 .. BYTE * BYTE - 1
             /\ get_cursor(s).erased = s.erased /\ get_cursor(s).text = s.text
             /\ At(get_cursor(s)) = At(s) /\ At(s) \in Nat
  <2>1. s.reg \in Regs BY DEF Screens
  <2>. QED BY <2>1, RegisterFacts DEF Screens, get_cursor, At
<1>2. ASSUME NEW s \in Screens, NEW p \in Nat
      PROVE  /\ set_cursor(s, p) \in Screens /\ set_cursor(s, p).reg = Registers(p)
             /\ set_cursor(s, p).erased = s.erased
             /\ set_cursor(s, p).text = s.text
  <2>1. Registers(p) \in Regs BY RegisterFacts
  <2>. QED BY <2>1 DEF Screens, set_cursor
<1>3. ASSUME NEW s \in Screens, NEW p \in Cells PROVE At(set_cursor(s, p)) = p
  <2>1. p \in Nat BY DEF Cells
  <2>. QED BY <1>2, <2>1, RegisterFacts DEF At
<1>. QED BY <1>1, <1>2, <1>3

\* A print starts where the cursor is, with no text.
Started(s) == get_cursor([s EXCEPT !.text = {}])

LEMMA StartFacts ==
  ASSUME NEW s \in Screens
  PROVE  /\ Started(s) \in Kept(s) /\ At(Started(s)) = At(s) /\ Started(s).text = {}
<1>. DEFINE e == [s EXCEPT !.text = {}]
<1>1. e \in Screens /\ e.text = {} /\ e.erased = s.erased /\ At(e) = At(s)
  BY DEF Screens, At
<1>. HIDE DEF e
<1>2. /\ get_cursor(e) \in Screens /\ get_cursor(e).text = {} /\ get_cursor(e).erased = s.erased
      /\ At(get_cursor(e)) = At(s)
  BY <1>1, CursorFacts
<1>3. Started(s) = get_cursor(e) BY DEF Started, e
<1>. QED BY <1>2, <1>3 DEF Kept

LEMMA CharKeeps ==
  ASSUME NEW s \in Screens, NEW c
  PROVE  /\ print_char(s, c) \in Kept(s)
         /\ At(s) \in Cells => /\ At(print_char(s, c)) = Next_offset(At(s), c)
                               /\ print_char(s, c).text = Standing(s.text, At(s), c)
<1>. DEFINE p == At(s)
     d == [s EXCEPT !.drawn = @ \cup Drawn(p, c)]
     e == [d EXCEPT !.text = Standing(@, p, c)]
<1>1. p \in Nat BY CursorFacts
<1>2. d \in Screens /\ d.erased = s.erased /\ At(d) = p /\ d.text = s.text
  <2>1. Drawn(p, c) \subseteq Cells BY <1>1, DrawnOnScreen
  <2>. QED BY <2>1 DEF Screens, At
<1>3. print_char(s, c) = IF OffScreen(p) THEN get_cursor(d) ELSE set_cursor(e, Next_offset(p, c))
  BY DEF print_char, At
<1>6. e \in Screens /\ e.erased = s.erased /\ e.text = Standing(s.text, p, c)
  <2>0. s.text \in SUBSET Cells BY DEF Screens
  <2>1. Standing(s.text, p, c) \in SUBSET Cells BY <1>1, <2>0, StandingOnScreen
  <2>. HIDE DEF d, p
  <2>. QED BY <1>2, <2>1 DEF Screens
<1>. HIDE DEF p, d, e
<1>4. CASE OffScreen(p)
  <2>1. p \notin Cells BY <1>1, <1>4, CellFacts
  <2>. QED BY <1>2, <1>3, <1>4, <2>1, CursorFacts DEF Kept, p
<1>5. CASE ~OffScreen(p)
  <2>1. p \in Cells BY <1>1, <1>5, CellFacts
  <2>2. Next_offset(p, c) \in Cells /\ Next_offset(p, c) \in Nat BY <2>1, NextFacts DEF Cells
  <2>3. print_char(s, c) = set_cursor(e, Next_offset(p, c)) BY <1>3, <1>5
  <2>4. /\ set_cursor(e, Next_offset(p, c)) \in Screens
        /\ set_cursor(e, Next_offset(p, c)).erased = s.erased
        /\ set_cursor(e, Next_offset(p, c)).text = Standing(s.text, p, c)
        /\ At(set_cursor(e, Next_offset(p, c))) = Next_offset(p, c)
    BY ONLY <1>6, <2>2, CursorFacts
  <2>. QED BY ONLY <2>2, <2>3, <2>4 DEF Kept, p
<1>. QED BY <1>4, <1>5

\* The screens that kernel_print_string goes through, one for each character printed.
Prints(s, str, g) ==
  /\ g \in [0 .. Len(str) -> Kept(s)] /\ g[0] = Started(s)
  /\ \A i \in 1 .. Len(str) : g[i] = print_char(g[i - 1], str[i])

LEMMA StringSteps ==
  ASSUME NEW s \in Screens, NEW str \in Seq(CHARS)
  PROVE  \E g : Prints(s, str, g) /\ kernel_print_string(s, str) = g[Len(str)]
<1>. DEFINE n == Len(str)
     K == Kept(s)
     step == [x \in K \X (1 .. n) |-> print_char(x[1], str[x[2]])]
     Printed(f) == [i \in 0 .. n |-> IF i = 0 THEN Started(s) ELSE print_char(f[i - 1], str[i])]
     g == CHOOSE f : f = Printed(f)
<1>1. n \in Nat OBVIOUS
<1>2. Started(s) \in K BY StartFacts
<1>3. ASSUME NEW t \in K, NEW c PROVE print_char(t, c) \in K
  <2>1. t \in Screens /\ print_char(t, c) \in Kept(t) BY CharKeeps DEF Kept
  <2>. QED BY <2>1 DEF Kept
<1>4. step \in [K \X (1 .. n) -> K]
  <2>. HIDE DEF K
  <2>1. ASSUME NEW x \in K \X (1 .. n) PROVE print_char(x[1], str[x[2]]) \in K
    BY <1>3, <2>1
  <2>. QED BY <2>1
<1>5. PICK h \in [0 .. n -> K] : Iteration(n, Started(s), step, h)
  <2>. HIDE DEF K, step, n
  <2>. QED BY ONLY <1>1, <1>2, <1>4, Iterates
<1>6. ASSUME NEW f \in [0 .. n -> K], NEW i \in 0 .. n, i # 0
      PROVE  step[<<f[i - 1], i>>] = print_char(f[i - 1], str[i])
  <2>1. i - 1 \in 0 .. n /\ i \in 1 .. n BY <1>1, <1>6
  <2>2. f[i - 1] \in K BY <2>1
  <2>3. <<f[i - 1], i>> \in K \X (1 .. n) BY <2>1, <2>2
  <2>. QED BY <2>3
<1>. HIDE DEF K, step
<1>7. h = Printed(h) BY <1>5, <1>6 DEF Iteration
<1>8. g = Printed(g) BY <1>7
<1>9. kernel_print_string(s, str) = g[n] BY DEF kernel_print_string, Started
<1>. HIDE DEF g
<1>10. g[0] = Started(s) /\ \A i \in 1 .. n : g[i] = print_char(g[i - 1], str[i])
  <2>1. 0 \in 0 .. n BY <1>1
  <2>2. ASSUME NEW i \in 1 .. n PROVE i \in 0 .. n /\ i # 0 OBVIOUS
  <2>. HIDE DEF n
  <2>. QED BY <1>8, <2>1, <2>2
<1>11. \A i \in 0 .. n : g[i] \in K
  <2>. DEFINE T == {i \in Nat : i <= n => g[i] \in K}
  <2>1. 0 \in T BY <1>2, <1>10
  <2>2. ASSUME NEW i \in T PROVE i + 1 \in T
    <3>. SUFFICES ASSUME i + 1 <= n PROVE g[i + 1] \in K OBVIOUS
    <3>1. i + 1 \in 1 .. n /\ (i + 1) - 1 = i /\ g[i] \in K BY <1>1
    <3>2. g[i + 1] = print_char(g[i], str[i + 1]) BY <1>10, <3>1
    <3>. QED BY <1>3, <3>1, <3>2
  <2>3. T \in SUBSET Nat OBVIOUS
  <2>4. Nat \subseteq T
    <3>. HIDE DEF T
    <3>. QED BY <2>1, <2>2, <2>3, Induct
  <2>. QED BY <1>1, <2>4
<1>12. DOMAIN g = 0 .. n /\ g = [i \in 0 .. n |-> g[i]]
  <2>. HIDE DEF n
  <2>. QED BY <1>8
<1>13. g \in [0 .. n -> K] BY <1>11, <1>12
<1>14. Prints(s, str, g) BY <1>10, <1>13 DEF Prints, K
<1>. QED BY <1>9, <1>14

LEMMA StringKeeps ==
  ASSUME NEW s \in Screens, NEW str \in Seq(CHARS)
  PROVE  kernel_print_string(s, str) \in Kept(s)
<1>1. PICK g : Prints(s, str, g) /\ kernel_print_string(s, str) = g[Len(str)] BY StringSteps
<1>2. g \in [0 .. Len(str) -> Kept(s)] /\ Len(str) \in 0 .. Len(str) BY <1>1 DEF Prints
<1>. QED BY <1>1, <1>2

\* A text without newlines, printed on the screen, stands whole before the cursor.
LEMMA LineStands ==
  ASSUME NEW s \in Screens, At(s) \in Cells, NEW str \in Seq({"c"})
  PROVE  LET t == kernel_print_string(s, str)
         IN  t \in Kept(s) /\ At(t) \in Cells /\ t.text = Before(At(t), Len(str))
<1>0. str \in Seq(CHARS) BY DEF CHARS
<1>1. PICK g : Prints(s, str, g) /\ kernel_print_string(s, str) = g[Len(str)]
  BY <1>0, StringSteps
<1>2. PICK n \in Nat : n = Len(str) OBVIOUS
<1>3. /\ g[0] = Started(s) /\ \A i \in 0 .. n : g[i] \in Kept(s)
      /\ \A i \in 1 .. n : g[i] = print_char(g[i - 1], str[i])
  BY <1>1, <1>2 DEF Prints
<1>4. \A i \in 1 .. n : str[i] = "c" BY <1>2
<1>. DEFINE Stands(i) == At(g[i]) \in Cells /\ g[i].text = Before(At(g[i]), i)
     T == {i \in Nat : i <= n => Stands(i)}
<1>5. 0 \in T
  <2>1. At(g[0]) = At(s) /\ g[0].text = {} BY <1>3, StartFacts
  <2>2. Before(At(s), 0) = {} BY DEF Before, Cells
  <2>. QED BY <2>1, <2>2
<1>6. ASSUME NEW i \in T PROVE i + 1 \in T
  <2>. SUFFICES ASSUME i + 1 <= n PROVE Stands(i + 1) OBVIOUS
  <2>1. i \in Nat /\ i \in 0 .. n /\ i + 1 \in 1 .. n /\ (i + 1) - 1 = i /\ Stands(i) BY <1>2
  <2>2. PICK u : u = g[i] OBVIOUS
  <2>3. u \in Screens /\ At(u) \in Cells /\ u.text = Before(At(u), i)
    BY <1>3, <2>1, <2>2 DEF Kept
  <2>4. g[i + 1] = print_char(u, "c") BY <1>3, <1>4, <2>1, <2>2
  <2>5. /\ At(print_char(u, "c")) = Next_offset(At(u), "c")
        /\ print_char(u, "c").text = Standing(u.text, At(u), "c")
    BY ONLY <2>3, CharKeeps
  <2>6. Next_offset(At(u), "c") \in Cells BY ONLY <2>3, NextFacts
  <2>7. Standing(Before(At(u), i), At(u), "c") = Before(Next_offset(At(u), "c"), i + 1)
    BY ONLY <2>1, <2>3, StandingBefore
  <2>. QED BY ONLY <2>3, <2>4, <2>5, <2>6, <2>7, Zenon DEF Stands
<1>7. T \in SUBSET Nat OBVIOUS
<1>8. Nat \subseteq T
  <2>. HIDE DEF T
  <2>. QED BY <1>5, <1>6, <1>7, Induct
<1>9. Stands(n) BY <1>8
<1>. QED BY <1>0, <1>1, <1>2, <1>9, StringKeeps
---------------------------------------------------------------------------
\* What the keys do to a screen: each keeps it a screen, those that can lose the cursor aside
\* keep it where it is on the screen, and what they erase then is on it.
Safe(s, t) ==
  /\ t \in Screens
  /\ At(s) \in Cells => At(t) \in Cells /\ (s.erased = {} => t.erased \subseteq Cells)

LEMMA KeptSafe ==
  /\ \A s \in Screens : \A t \in Kept(s) : Safe(s, t)
  /\ \A s, t, u : Safe(s, t) /\ u \in Kept(t) => Safe(s, u)
BY DEF Kept, Safe

LEMMA LeftFacts ==
  ASSUME NEW p \in 0 .. BYTE * BYTE - 1
  PROVE  /\ (IF p >= 1 THEN p - 1 ELSE p) \in Nat
         /\ p \in Cells => (IF p >= 1 THEN p - 1 ELSE p) \in Cells
BY CellFacts DEF Cells

LEMMA MoveLeftSafe == ASSUME NEW s \in Screens PROVE Safe(s, move_cursor_left(s))
<1>. DEFINE left == IF At(s) >= 1 THEN At(s) - 1 ELSE At(s)
<1>1. left \in Nat /\ (At(s) \in Cells => left \in Cells) BY LeftFacts, CursorFacts
<1>2. move_cursor_left(s) = get_cursor(s) \/ move_cursor_left(s) = set_cursor(s, left)
  BY DEF move_cursor_left, At
<1>. HIDE DEF left
<1>3. CASE move_cursor_left(s) = get_cursor(s) BY <1>3, CursorFacts DEF Safe
<1>4. CASE move_cursor_left(s) = set_cursor(s, left)
  <2>1. /\ set_cursor(s, left) \in Screens /\ set_cursor(s, left).erased = s.erased
        /\ left \in Cells => At(set_cursor(s, left)) = left
    BY <1>1, CursorFacts
  <2>. QED BY <1>1, <1>4, <2>1 DEF Safe
<1>. QED BY <1>2, <1>3, <1>4

LEMMA BackspaceSafe == ASSUME NEW s \in Screens PROVE Safe(s, backspace(s))
<1>. DEFINE left == IF At(s) >= 1 THEN At(s) - 1 ELSE At(s)
     e == [s EXCEPT !.erased = {left}]
<1>1. left \in Nat /\ (At(s) \in Cells => left \in Cells) BY LeftFacts, CursorFacts
<1>2. backspace(s) = get_cursor(s) \/ backspace(s) = set_cursor(e, left)
  BY DEF backspace, At
<1>3. e \in Screens /\ e.erased = {left} BY <1>1 DEF Screens
<1>. HIDE DEF left, e
<1>4. /\ set_cursor(e, left) \in Screens /\ set_cursor(e, left).erased = {left}
      /\ left \in Cells => At(set_cursor(e, left)) = left
  BY <1>1, <1>3, CursorFacts
<1>5. CASE backspace(s) = get_cursor(s) BY <1>5, CursorFacts DEF Safe
<1>6. CASE backspace(s) = set_cursor(e, left) BY <1>1, <1>4, <1>6 DEF Safe
<1>. QED BY <1>2, <1>5, <1>6

LEMMA EraseLineSafe == ASSUME NEW s \in Screens PROVE Safe(s, shell_erase_line(s))
<1>. DEFINE p == At(s)
     n == Col(p) - PROMPT
     e == [s EXCEPT !.erased = (p - n) .. (p - 1)]
<1>1. shell_erase_line(s) = IF Col(p) <= PROMPT - 1 THEN get_cursor(s) ELSE set_cursor(e, p - n)
  BY DEF shell_erase_line, At
<1>2. p \in Nat /\ Col(p) \in Nat /\ Col(p) <= p /\ PROMPT \in Nat
  <2>1. p \in Nat BY CursorFacts
  <2>2. Col(p) \in 0 .. MAX_COLS - 1 /\ Col(p) <= p BY <2>1, CellFacts
  <2>3. PROMPT \in Nat BY ScreenConstants
  <2>. QED BY <2>1, <2>2, <2>3
<1>3. e \in Screens /\ e.erased = (p - n) .. (p - 1)
  <2>1. (p - n) .. (p - 1) \in SUBSET Int BY <1>2
  <2>. HIDE DEF p, n
  <2>. QED BY <2>1 DEF Screens
<1>. HIDE DEF p, e
<1>4. CASE Col(p) <= PROMPT - 1 BY <1>1, <1>4, CursorFacts DEF Safe
<1>5. CASE ~(Col(p) <= PROMPT - 1)
  <2>1. p - n \in Nat /\ p - n <= p BY <1>2, <1>5
  <2>2. p \in Cells => p - n \in Cells /\ (p - n) .. (p - 1) \subseteq Cells
    BY <1>2, <2>1, CellFacts DEF Cells
  <2>. HIDE DEF n
  <2>3. /\ set_cursor(e, p - n) \in Screens /\ set_cursor(e, p - n).erased = (p - n) .. (p - 1)
        /\ p - n \in Cells => At(set_cursor(e, p - n)) = p - n
    BY <1>3, <2>1, CursorFacts
  <2>4. shell_erase_line(s) = set_cursor(e, p - n) BY <1>1, <1>5
  <2>. QED BY <2>2, <2>3, <2>4 DEF Safe, p
<1>. QED BY <1>4, <1>5

LEMMA NextLineRecovers ==
  ASSUME NEW s \in Screens
  PROVE  /\ move_next_line(s) \in Screens /\ At(move_next_line(s)) \in Cells
         /\ move_next_line(s).erased = s.erased
<1>. DEFINE row == Row(At(s)) + 1
     line == IF row >= MAX_ROWS THEN MAX_ROWS - 1 ELSE row
<1>0. At(s) \in Nat BY CursorFacts
<1>1. row \in Nat
  <2>1. Row(At(s)) \in Nat BY <1>0, CellFacts
  <2>. QED BY <2>1
<1>2. line * MAX_COLS \in Cells
  <2>. HIDE DEF row
  <2>1. line \in Nat /\ line < MAX_ROWS BY <1>1, ScreenConstants
  <2>. HIDE DEF line
  <2>2. PICK m \in Nat, r \in Nat, l \in Nat :
          m = MAX_COLS /\ r = MAX_ROWS /\ m > 0 /\ l = line /\ l < r
    BY <2>1, ScreenConstants
  <2>3. \A x, y, b \in Nat : b > 0 /\ x < y => x * b < b * y
    <3>. TAKE x, y, b \in Nat
    <3>. HAVE b > 0 /\ x < y
    <3>1. PICK d \in Nat : d = y - (x + 1) OBVIOUS
    <3>2. b * y = x * b + b + b * d /\ b * d \in Nat /\ x * b \in Nat
      <4>1. b * ((x + 1) + d) = x * b + b + b * d OBVIOUS
      <4>2. y = (x + 1) + d BY <3>1
      <4>. QED BY <4>1, <4>2
    <3>. QED BY <3>2
  <2>4. l * m < m * r /\ l * m \in Nat BY <2>2, <2>3
  <2>. QED BY <2>2, <2>4, CellFacts DEF Cells, CELLS
<1>3. move_next_line(s) = set_cursor(s, line * MAX_COLS) BY DEF move_next_line, At
<1>. HIDE DEF line
<1>4. line * MAX_COLS \in Nat BY <1>2 DEF Cells
<1>. QED BY <1>2, <1>3, <1>4, CursorFacts

LEMMA PromptIs == Prompt \in Seq({"c"}) /\ Len(Prompt) = PROMPT
BY ScreenConstants DEF Prompt

\* end_of_user_input: the cursor is on the screen behind the prompt, and nothing but what was
\* erased is erased.
LEMMA EndRecovers ==
  ASSUME NEW s \in Screens
  PROVE  /\ end_of_user_input(s) \in Screens /\ At(end_of_user_input(s)) \in Cells
         /\ end_of_user_input(s).erased = s.erased
         /\ end_of_user_input(s).text = Before(At(end_of_user_input(s)), PROMPT)
<1>1. move_next_line(s) \in Screens /\ At(move_next_line(s)) \in Cells
      /\ move_next_line(s).erased = s.erased
  BY NextLineRecovers
<1>. DEFINE t == kernel_print_string(move_next_line(s), Prompt)
<1>2. t \in Kept(move_next_line(s)) /\ At(t) \in Cells /\ t.text = Before(At(t), PROMPT)
  BY <1>1, PromptIs, LineStands
<1>3. end_of_user_input(s) = t BY DEF end_of_user_input
<1>. HIDE DEF t
<1>. QED BY <1>1, <1>2, <1>3 DEF Kept
---------------------------------------------------------------------------
(* The invariant. *)
ScreenInv ==
  /\ TypeOK /\ PrintsOnScreen
  /\ message \in Seq(CHARS) /\ messages \in Seq(Seq(CHARS))

LEMMA ScreenIs ==
  ASSUME ScreenInv
  PROVE  /\ Screen \in Screens /\ Screen.erased = {}
         /\ Screen.reg = reg /\ At(Screen) = Location(reg)
         /\ OnScreen <=> At(Screen) \in Cells
<1>1. select \in {"high", "low"} /\ reg \in Regs BY DEF ScreenInv, TypeOK, Regs
<1>2. Location(reg) \in Nat BY <1>1, RegisterFacts
<1>. QED BY <1>1, <1>2, CellFacts DEF Screen, Screens, At, OnScreen

\* What an Enter leaves.
Ended(s, t) ==
  /\ t \in Screens /\ At(t) \in Cells /\ t.text = Before(At(t), PROMPT)
  /\ At(s) \in Cells => t.erased \subseteq Cells

LEMMA EnterEnds ==
  ASSUME NEW s \in Screens, s.erased = {}, NEW out \in Seq(CHARS)
  PROVE  /\ Ended(s, end_of_user_input(s))
         /\ Ended(s, end_of_user_input(kernel_print_string(move_next_line(s), out)))
         /\ Ended(s, end_of_user_input(kernel_print_string(shell_erase_line(s), out)))
<1>1. Ended(s, end_of_user_input(s)) BY EndRecovers DEF Ended
<1>2. ASSUME NEW u \in Screens, At(s) \in Cells => u.erased \subseteq Cells
      PROVE  Ended(s, end_of_user_input(kernel_print_string(u, out)))
  <2>. DEFINE t == kernel_print_string(u, out)
  <2>1. t \in Kept(u) BY StringKeeps
  <2>2. t \in Screens /\ t.erased = u.erased BY <2>1 DEF Kept
  <2>. HIDE DEF t
  <2>3. Ended(s, end_of_user_input(t)) BY <1>2, <2>2, EndRecovers DEF Ended
  <2>. QED BY <2>3 DEF t
<1>3. move_next_line(s) \in Screens /\ move_next_line(s).erased = {} BY NextLineRecovers
<1>4. /\ shell_erase_line(s) \in Screens
      /\ At(s) \in Cells => shell_erase_line(s).erased \subseteq Cells
  BY EraseLineSafe DEF Safe
<1>. QED BY <1>1, <1>2, <1>3, <1>4

\* What a key may do to the screen.
Handles(t) ==
  /\ t \in Screens
  /\ OnScreen => /\ tab_key \/ right_key \/ At(t) \in Cells
                 /\ t.erased \subseteq Cells
BootKept ==
  UNCHANGED boot \/ (pc' = "done" /\ UNCHANGED <<upper, at, message, messages>>)

LEMMA LineIs ==
  ASSUME NEW line \in LINES PROVE line \in Seq({"c"}) /\ line \in Seq(CHARS)
<1>1. line \in Seq({"c"}) BY ScreenConstants
<1>. QED BY <1>1 DEF CHARS

LEMMA HandlerStep ==
  ASSUME ScreenInv, Handler
  PROVE  BootKept /\ \E t : Handles(t) /\ Is(t)
<1>1. ASSUME NEW t, Safe(Screen, t) PROVE Handles(t)
  BY <1>1, ScreenIs DEF Handles, Safe
<1>2. ASSUME NEW t, Ended(Screen, t) PROVE Handles(t)
  BY <1>2, ScreenIs DEF Handles, Ended
<1>3. CASE letter_key
  <2>1. <<"c">> \in Seq(CHARS) BY DEF CHARS
  <2>2. kernel_print_string(Screen, <<"c">>) \in Kept(Screen) BY <2>1, ScreenIs, StringKeeps
  <2>3. Safe(Screen, kernel_print_string(Screen, <<"c">>)) BY <2>2, ScreenIs, KeptSafe
  <2>. QED BY <1>1, <1>3, <2>3 DEF letter_key, BootKept
<1>4. CASE backspace_key
  <2>1. Safe(Screen, backspace(Screen)) BY ScreenIs, BackspaceSafe
  <2>. QED BY <1>1, <1>4, <2>1 DEF backspace_key, BootKept
<1>5. CASE tab_key
  <2>1. PICK p \in Nat : p = Location(Screen.reg) BY ScreenIs, CursorFacts DEF At
  <2>2. p + TAB \in Nat BY ScreenConstants
  <2>3. tab(Screen) = set_cursor(Screen, p + TAB) BY <2>1 DEF tab
  <2>4. /\ set_cursor(Screen, p + TAB) \in Screens
        /\ set_cursor(Screen, p + TAB).erased = Screen.erased
    BY ONLY <2>2, ScreenIs, ScreenInv, CursorFacts
  <2>5. tab(Screen) \in Screens /\ tab(Screen).erased = {} BY ONLY <2>3, <2>4, ScreenIs, ScreenInv
  <2>. QED BY <1>5, <2>5 DEF tab_key, BootKept, Handles
<1>6. CASE right_key
  <2>. DEFINE p == Location(Screen.reg)
              q == IF p <= CELLS - 1 THEN p + 1 ELSE p
  <2>1. p \in Nat BY ScreenIs, CursorFacts DEF At
  <2>2. q \in Nat BY <2>1
  <2>3. move_cursor_right(Screen) = set_cursor(Screen, q) BY DEF move_cursor_right
  <2>. HIDE DEF q
  <2>4. set_cursor(Screen, q) \in Screens /\ set_cursor(Screen, q).erased = Screen.erased
    BY ONLY <2>2, ScreenIs, ScreenInv, CursorFacts
  <2>5. move_cursor_right(Screen) \in Screens /\ move_cursor_right(Screen).erased = {}
    BY ONLY <2>3, <2>4, ScreenIs, ScreenInv
  <2>. QED BY <1>6, <2>5 DEF right_key, BootKept, Handles
<1>7. CASE left_key
  <2>1. Safe(Screen, move_cursor_left(Screen)) BY ScreenIs, MoveLeftSafe
  <2>. QED BY <1>1, <1>7, <2>1 DEF left_key, BootKept
<1>8. CASE empty_enter
  <2>1. <<>> \in Seq(CHARS) OBVIOUS
  <2>2. Ended(Screen, end_of_user_input(Screen)) BY <2>1, ScreenIs, EnterEnds
  <2>. QED BY <1>2, <1>8, <2>2 DEF empty_enter, BootKept
<1>9. ASSUME NEW out \in OUTPUTS, enter_key(out)
      PROVE  BootKept /\ \E t : Handles(t) /\ Is(t)
  <2>1. out \in Seq(CHARS) BY ScreenConstants
  <2>2. Ended(Screen, end_of_user_input(kernel_print_string(move_next_line(Screen), out)))
    BY <2>1, ScreenIs, EnterEnds
  <2>. QED BY <1>2, <1>9, <2>2 DEF enter_key, BootKept
<1>10. ASSUME NEW line \in LINES, recall_key(line)
       PROVE  BootKept /\ \E t : Handles(t) /\ Is(t)
  <2>. DEFINE s == shell_erase_line(Screen)
              t == kernel_print_string(s, line)
  <2>1. line \in Seq(CHARS) BY LineIs
  <2>2. Safe(Screen, s) /\ s \in Screens BY ScreenIs, EraseLineSafe DEF Safe
  <2>3. t \in Kept(s) BY <2>1, <2>2, StringKeeps
  <2>4. Safe(Screen, t) BY <2>2, <2>3, KeptSafe
  <2>. QED BY <1>1, <1>10, <2>4 DEF recall_key, BootKept
<1>11. CASE down_to_nothing
  <2>1. Safe(Screen, shell_erase_line(Screen)) BY ScreenIs, EraseLineSafe
  <2>. QED BY <1>1, <1>11, <2>1 DEF down_to_nothing, BootKept
<1>12. ASSUME NEW out \in OUTPUTS, up_to_nothing(out)
       PROVE  BootKept /\ \E t : Handles(t) /\ Is(t)
  <2>1. out \in Seq(CHARS) BY ScreenConstants
  <2>2. Ended(Screen, end_of_user_input(kernel_print_string(shell_erase_line(Screen), out)))
    BY <2>1, ScreenIs, EnterEnds
  <2>. QED BY <1>2, <1>12, <2>2 DEF up_to_nothing, BootKept
<1>. QED BY <1>3, <1>4, <1>5, <1>6, <1>7, <1>8, <1>9, <1>10, <1>11, <1>12 DEF Handler

LEMMA HandlerInv == ScreenInv /\ Handler => ScreenInv'
<1>. SUFFICES ASSUME ScreenInv, Handler PROVE ScreenInv' OBVIOUS
<1>1. PICK t : Handles(t) /\ Is(t) BY HandlerStep
<1>2. BootKept BY HandlerStep
<1>3. /\ select' \in {"high", "low"} /\ reg' \in [{"high", "low"} -> 0 .. BYTE - 1]
      /\ drawn' \in SUBSET Cells /\ erased' \in SUBSET Int /\ text' \in SUBSET Cells
  BY <1>1 DEF Handles, Is, Screens, Regs
<1>4. Cells \subseteq Int BY DEF Cells
<1>5. /\ upper' = upper /\ at' = at /\ message' = message /\ messages' = messages
      /\ pc' = pc \/ pc' = "done"
  BY <1>2 DEF BootKept, boot
<1>. QED BY <1>3, <1>4, <1>5 DEF ScreenInv, TypeOK, PrintsOnScreen

LEMMA BootInv == ScreenInv /\ Boot => ScreenInv'
<1>. SUFFICES ASSUME ScreenInv, Boot PROVE ScreenInv' OBVIOUS
<1>. USE DEF ScreenInv, PrintsOnScreen, TypeOK
<1>0. BYTE \in Nat \ {0} /\ Cells \subseteq 0 .. BYTE * BYTE - 1
  BY RegisterFacts, ScreenConstants
<1>1. CASE clear_screen
  <2>1. 0 \in 0 .. BYTE * BYTE - 1 BY RegisterFacts
  <2>. QED BY <1>1, <2>1 DEF clear_screen, Goto, Quiet, port
<1>2. CASE select_register BY <1>2 DEF select_register, Goto, Quiet
<1>3. CASE read_register
  <2>1. reg[select] \in 0 .. BYTE - 1 OBVIOUS
  <2>2. upper * BYTE + reg[select] \in 0 .. BYTE * BYTE - 1 BY <2>1, RegisterFacts
  <2>. QED BY <1>3, <2>1, <2>2 DEF read_register, Goto, Quiet, port
<1>4. CASE write_register
  <2>1. at \in Nat BY RegisterFacts
  <2>2. PICK q \in Nat : q = at \div BYTE BY <1>0, <2>1, Divided
  <2>3. at % BYTE \in 0 .. BYTE - 1 /\ (at \div BYTE) % BYTE \in 0 .. BYTE - 1
    BY <1>0, <2>1, <2>2, Divided
  <2>4. reg' \in [{"high", "low"} -> 0 .. BYTE - 1] BY <1>4, <2>3 DEF write_register
  <2>. QED BY <1>4, <2>4 DEF write_register, Goto, Quiet
<1>5. CASE pc = "print" /\ print_single_char
  <2>1. at \in Nat BY RegisterFacts
  <2>2. Drawn(at, Head(message)) \subseteq Cells BY <2>1, DrawnOnScreen
  <2>3. Tail(message) \in Seq(CHARS) BY <1>5 DEF print_single_char
  <2>4. drawn' \subseteq Cells /\ drawn' \in SUBSET Int /\ text' \in SUBSET Int
    <3>1. {} \in SUBSET Cells OBVIOUS
    <3>2. Standing({}, at, Head(message)) \subseteq Cells BY <2>1, <3>1, StandingOnScreen
    <3>. QED BY <1>5, <2>2, <3>2 DEF print_single_char, Cells
  <2>5. ~OffScreen(at) => Next_offset(at, Head(message)) \in 0 .. BYTE * BYTE - 1
    BY <1>0, <2>1, CellFacts, NextFacts
  <2>6. at' \in 0 .. BYTE * BYTE - 1 /\ pc' \in {"print", "set"}
    BY <1>5, <2>5 DEF print_single_char, Goto
  <2>. QED BY <1>5, <2>3, <2>4, <2>6 DEF print_single_char, port
<1>6. CASE pc = "print" /\ next_message
  <2>. DEFINE Texts == Seq(CHARS)
  <2>1. messages # <<>> => Head(messages) \in Seq(CHARS) /\ Tail(messages) \in Seq(Seq(CHARS))
    <3>1. messages \in Seq(Texts) OBVIOUS
    <3>. HIDE DEF Texts
    <3>2. messages # <<>> => Head(messages) \in Texts /\ Tail(messages) \in Seq(Texts)
      BY <3>1, HeadTailProperties
    <3>. QED BY <3>2 DEF Texts
  <2>2. message' \in Seq(CHARS) /\ messages' \in Seq(Seq(CHARS)) /\ pc' \in {"done", "get"}
    BY <1>6, <2>1 DEF next_message
  <2>. QED BY <1>6, <2>2 DEF next_message, port, Quiet
<1>. QED BY <1>1, <1>2, <1>3, <1>4, <1>5, <1>6 DEF Boot, print_step

LEMMA InitInv == Init => ScreenInv
<1>. SUFFICES ASSUME Init PROVE ScreenInv OBVIOUS
<1>1. PICK p \in Cells : reg = Registers(p) BY DEF Init
<1>2. reg \in Regs
  <2>1. p \in Nat BY DEF Cells
  <2>. QED BY <1>1, <2>1, RegisterFacts
<1>3. 0 \in 0 .. BYTE * BYTE - 1 /\ 0 \in 0 .. BYTE - 1
  BY RegisterFacts, ScreenConstants
<1>. QED BY <1>2, <1>3, ScreenConstants DEF Init, ScreenInv, TypeOK, PrintsOnScreen, Regs

LEMMA NextInv == ScreenInv /\ [Next]_vars => ScreenInv'
<1>1. ScreenInv /\ UNCHANGED vars => ScreenInv'
  BY DEF ScreenInv, TypeOK, PrintsOnScreen, vars, boot, port, shown
<1>. QED BY <1>1, HandlerInv, BootInv DEF Next

\* The invariant of the screen, for every screen, width of the registers, prompt and text.
THEOREM Invariant == Spec => []ScreenInv
BY InitInv, NextInv, PTL DEF Spec

\* Every variable has its type: the registers hold bytes, whatever was written to which.
THEOREM Types == Spec => []TypeOK
<1>1. ScreenInv => TypeOK BY DEF ScreenInv
<1>. QED BY <1>1, Invariant, PTL

\* No print leaves the screen's memory, however the cursor was put together.
THEOREM PrintsStay == Spec => []PrintsOnScreen
<1>1. ScreenInv => PrintsOnScreen BY DEF ScreenInv
<1>. QED BY <1>1, Invariant, PTL

\* What ends a line leaves the cursor on the screen, behind a whole prompt.
LEMMA PromptStands ==
  ASSUME ScreenInv, Prompted
  PROVE  OnScreen' /\ text' = Before(Location(reg'), PROMPT)
<1>1. PICK t : Ended(Screen, t) /\ Is(t)
  <2>1. ASSUME NEW out \in Seq(CHARS)
        PROVE  /\ Ended(Screen, end_of_user_input(Screen))
               /\ Ended(Screen, end_of_user_input(kernel_print_string(move_next_line(Screen), out)))
               /\ Ended(Screen, end_of_user_input(kernel_print_string(shell_erase_line(Screen), out)))
    BY ScreenIs, EnterEnds
  <2>2. CASE empty_enter
    <3>1. <<>> \in Seq(CHARS) OBVIOUS
    <3>. QED BY <2>1, <2>2, <3>1 DEF empty_enter
  <2>3. ASSUME NEW out \in OUTPUTS, enter_key(out) \/ up_to_nothing(out)
        PROVE  \E t : Ended(Screen, t) /\ Is(t)
    <3>1. out \in Seq(CHARS) BY ScreenConstants
    <3>2. CASE enter_key(out) BY <2>1, <3>1, <3>2 DEF enter_key
    <3>3. CASE up_to_nothing(out) BY <2>1, <3>1, <3>3 DEF up_to_nothing
    <3>. QED BY <2>3, <3>2, <3>3
  <2>. QED BY <2>2, <2>3 DEF Prompted
<1>2. At(t) \in Cells /\ At(t) \in Nat /\ t.text = Before(At(t), PROMPT) BY <1>1 DEF Ended, Cells
<1>3. Location(reg') = At(t) /\ text' = t.text BY <1>1 DEF Is, At
<1>4. OnScreen' BY <1>2, <1>3, CellFacts DEF OnScreen
<1>. QED BY <1>2, <1>3, <1>4

\* An Enter or an exception brings a lost cursor back.
THEOREM EnterFinds == Spec => EnterRecovers
<1>1. ScreenInv => [Prompted => OnScreen']_vars BY PromptStands
<1>2. Spec => [][Prompted => OnScreen']_vars BY <1>1, Invariant, PTL
<1>. QED BY <1>2 DEF EnterRecovers

\* After boot only tab and the right arrow can lose the cursor, and what a key erases is on
\* the screen.
THEOREM KeysKeep == Spec => KeysKeepCursor
<1>. DEFINE A == pc = "done" /\ OnScreen =>
                   /\ tab_key \/ right_key \/ OnScreen'
                   /\ erased' \subseteq Cells
<1>1. ASSUME ScreenInv, Next, pc = "done", OnScreen
      PROVE  (tab_key \/ right_key \/ OnScreen') /\ erased' \subseteq Cells
  <2>1. ~Boot
    BY <1>1 DEF Boot, clear_screen, select_register, read_register, write_register,
                print_step, Goto
  <2>2. PICK t : Handles(t) /\ Is(t) BY <1>1, <2>1, HandlerStep DEF Next
  <2>3. At(t) \in Cells => OnScreen'
    <3>. SUFFICES ASSUME At(t) \in Cells PROVE OnScreen' OBVIOUS
    <3>1. Location(reg') \in Nat /\ Location(reg') \in Cells BY <2>2 DEF Is, At, Cells
    <3>. QED BY <3>1, CellFacts DEF OnScreen
  <2>. QED BY <1>1, <2>2, <2>3 DEF Handles, Is
<1>2. ScreenInv /\ [Next]_vars => [A]_vars BY <1>1
<1>. HIDE DEF A
<1>3. Spec => [][A]_vars BY <1>2, Invariant, PTL DEF Spec
<1>. QED BY <1>3 DEF KeysKeepCursor, A

\* What a key prints stands whole before the cursor, however often the screen was scrolled.
THEOREM PrintStands == Spec => PrintBeforeCursor
<1>1. ASSUME ScreenInv, OnScreen, NEW s \in Screens, At(s) \in Cells, NEW str \in Seq({"c"}),
             Is(kernel_print_string(s, str))
      PROVE  text' = Before(Location(reg'), Len(str))
  <2>. DEFINE t == kernel_print_string(s, str)
  <2>1. t.text = Before(At(t), Len(str)) BY <1>1, LineStands
  <2>. HIDE DEF t
  <2>2. text' = t.text /\ Location(reg') = At(t) BY <1>1 DEF Is, At, t
  <2>. QED BY <2>1, <2>2
<1>2. ASSUME ScreenInv, letter_key, OnScreen PROVE text' = Before(Location(reg'), 1)
  <2>1. <<"c">> \in Seq({"c"}) /\ Len(<<"c">>) = 1 OBVIOUS
  <2>2. Screen \in Screens /\ At(Screen) \in Cells BY <1>2, ScreenIs
  <2>3. Is(kernel_print_string(Screen, <<"c">>)) BY <1>2 DEF letter_key
  <2>4. text' = Before(Location(reg'), Len(<<"c">>)) BY <1>1, <1>2, <2>1, <2>2, <2>3
  <2>. QED BY <2>1, <2>4
<1>3. ASSUME ScreenInv, NEW line \in LINES, recall_key(line), OnScreen
      PROVE  text' = Before(Location(reg'), Len(line))
  <2>1. Screen \in Screens /\ At(Screen) \in Cells BY <1>3, ScreenIs
  <2>2. shell_erase_line(Screen) \in Screens /\ At(shell_erase_line(Screen)) \in Cells
    BY <2>1, EraseLineSafe DEF Safe
  <2>3. Is(kernel_print_string(shell_erase_line(Screen), line)) BY <1>3 DEF recall_key
  <2>4. line \in Seq({"c"}) BY LineIs
  <2>. QED BY <1>1, <1>3, <2>2, <2>3, <2>4
<1>. DEFINE A == /\ letter_key /\ OnScreen => text' = Before(Location(reg'), 1)
                 /\ \A line \in LINES :
                      recall_key(line) /\ OnScreen => text' = Before(Location(reg'), Len(line))
                 /\ Prompted => text' = Before(Location(reg'), PROMPT)
<1>4. ScreenInv => [A]_vars BY <1>2, <1>3, PromptStands
<1>. HIDE DEF A
<1>5. Spec => [][A]_vars BY <1>4, Invariant, PTL
<1>. QED BY <1>5 DEF PrintBeforeCursor, A
===========================================================================
