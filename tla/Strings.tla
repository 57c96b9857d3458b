------------------------------ MODULE Strings ------------------------------
(***************************************************************************)
(* helper/string.c: the functions that the shell's commands take their      *)
(* lines apart with.  Memory is a sequence of characters; a string ends     *)
(* before the first NUL.                                                    *)
(***************************************************************************)
EXTENDS Integers, Sequences, FiniteSets, FiniteSetsExt

SPACE == " "
NUL == "NUL"

\* string_length: the characters from place p of memory m on, before the NUL.
string_length(m, p) == Min({n \in 0 .. Len(m) - p : m[p + n] = NUL})
StringAt(m, p) == SubSeq(m, p, p + string_length(m, p) - 1)

\* string_compare_fixed_length with the length of name: whether the line begins with it.
BeginsWith(name, line) == Len(name) <= Len(line) /\ SubSeq(line, 1, Len(name)) = name

\* parse_string_spaces, one round of its outer loop: values moves behind the last word and
\* its space, and on to the end of the next word.
\* Mutant: the space is not passed.
RoundStays(m, s, i) ==
  LET e == Min({n \in s.values .. Len(m) : m[n] \in {NUL, SPACE}})
      left == s.string_size - (e - s.values) IN
  [values |-> e, string_size |-> left, location_start |-> s.values,
   location_end |-> IF e > s.values THEN e - 1 ELSE s.location_end,
   failed |-> s.failed \/ s.string_size < 0 \/ left < 0]
Round(m, s, i) ==
  LET p == IF i > 1 THEN s.values + 1 ELSE s.values
      e == IF p > Len(m) THEN p ELSE Min({n \in p .. Len(m) : m[n] \in {NUL, SPACE}})
      left == s.string_size - (e - s.values) IN
  [values |-> e, string_size |-> left, location_start |-> p,
   location_end |-> IF e > p THEN e - 1 ELSE s.location_end,
   failed |-> s.failed \/ s.string_size < 0 \/ (left < 0 /\ e > p)]

\* The word that is copied to value, <<>> for the result -1.
parse_string_spaces(m, p, index) ==
  LET rounds[i \in 0 .. index] ==
        IF i = 0 THEN [values |-> p, string_size |-> string_length(m, p),
                       location_start |-> p, location_end |-> p, failed |-> FALSE]
        ELSE Round(m, rounds[i - 1], i)
      r == rounds[index]
  IN IF r.failed \/ r.location_start >= r.location_end THEN <<>>
     ELSE SubSeq(m, r.location_start, r.location_end)

(***************************************************************************)
(* What it is for: the index-th of the words that the spaces of a string    *)
(* divide it into.                                                          *)
(***************************************************************************)
Cuts(s) == {0, Len(s) + 1} \cup {n \in DOMAIN s : s[n] = SPACE}
Cut(s, k) == CHOOSE c \in Cuts(s) : Cardinality({d \in Cuts(s) : d < c}) = k
Word(s, index) ==
  IF index \notin 1 .. Cardinality(Cuts(s)) - 1 THEN <<>>
  ELSE SubSeq(s, Cut(s, index - 1) + 1, Cut(s, index) - 1)
=============================================================================
