---------------------------- MODULE Shell_proofs ----------------------------
(***************************************************************************)
(* Proofs about Shell, for every keyboard, buffer, row, list of commands    *)
(* and length of the history: it implements LineHistory, the history, the   *)
(* row and the arguments are what Shell's properties say, and               *)
(* parse_string_spaces finds the words of whatever is in the buffer.        *)
(*                                                                         *)
(* ShellInv is the inductive invariant.  Its parts tie the buffer to its    *)
(* length (Text: characters before it, a NUL at it and in the last byte,    *)
(* and until a line is recalled nothing behind it) and the array to its     *)
(* index (Filled: lines that fit the buffer below it, nothing above).       *)
(* Rounded is the invariant of parse_string_spaces' rounds.                 *)
(***************************************************************************)
EXTENDS Shell, FiniteSetTheorems, SequenceTheorems, WellFoundedInduction, TLAPS

Byte == CHARS \cup {NUL}
Cells == 0 .. BUF - 1
Places == 0 .. MAX - 1

\* The memory and the line of a buffer b with length n, and the history of an array h.
MemoryOf(b) == [i \in 1 .. BUF |-> b[i - 1]]
LineOf(b, n) == SubSeq(MemoryOf(b), 1, n)
PastOf(h, n) == <<>> \o [i \in 1 .. n |-> h[i - 1]]

TextOf(b, n) ==
  /\ b \in [Cells -> Byte] /\ n \in Cells
  /\ n > 0 => n <= BUF - 2
  /\ \A i \in 0 .. n - 1 : b[i] \in CHARS
  /\ b[n] = NUL /\ b[BUF - 1] = NUL
FilledOf(h, n, c) ==
  /\ h \in [Places -> Seq(CHARS)] /\ n \in 0 .. MAX /\ c \in 0 .. n
  /\ \A i \in Places : IF i < n THEN Len(h[i]) \in 1 .. BUF - 2 ELSE h[i] = NULL

Text == TextOf(buffer, buffer_length)
Filled == FilledOf(instruction_history_buffer, Index, Current)
Clean == ~recalled => \A i \in buffer_length .. BUF - 1 : buffer[i] = NUL
RowOK == shown \in Seq(CHARS) \cup {AWAY} /\ ShownEndsLine

ShellInv ==
  /\ shift_down \in BOOLEAN /\ recalled \in BOOLEAN
  /\ Text /\ Filled /\ Clean /\ RowOK

LEMMA ConstantFacts ==
  /\ BUF \in Nat /\ BUF > 0 /\ MAX \in Nat /\ MAX > 0 /\ NUL \notin CHARS
  /\ max_instruction_history = MAX
BY ShellConstants DEF MAX

---------------------------------------------------------------------------
\* About strings.

\* The least element of a set of numbers that has it.
LEMMA MinIs ==
  ASSUME NEW S \in SUBSET Nat, NEW k \in S, \A n \in S : k <= n
  PROVE  Min(S) = k
<1>1. \A x \in S : (\A y \in S : x <= y) => x = k
  <2>. SUFFICES ASSUME NEW x \in S, \A y \in S : x <= y PROVE x = k OBVIOUS
  <2>1. x \in Nat /\ k \in Nat /\ x <= k /\ k <= x OBVIOUS
  <2>. QED BY <2>1
<1>2. \A y \in S : k =< y OBVIOUS
<1>. QED BY <1>1, <1>2 DEF Min

\* string_length finds the next NUL.
LEMMA LengthIs ==
  ASSUME NEW m, Len(m) \in Nat, NEW p \in 1 .. Len(m), NEW k \in 0 .. Len(m) - p,
         m[p + k] = NUL, \A n \in 0 .. k - 1 : m[p + n] # NUL
  PROVE  string_length(m, p) = k
<1>. DEFINE S == {n \in 0 .. Len(m) - p : m[p + n] = NUL}
<1>1. S \in SUBSET Nat /\ k \in S OBVIOUS
<1>2. ASSUME NEW n \in S PROVE k <= n
  <2>1. n \in Nat /\ m[p + n] = NUL OBVIOUS
  <2>. QED BY <2>1
<1>3. Min(S) = k
  <2>. HIDE DEF S
  <2>. QED BY <1>1, <1>2, MinIs
<1>. QED BY <1>3 DEF string_length

LEMMA MemoryFacts ==
  ASSUME NEW b \in [Cells -> Byte]
  PROVE  /\ MemoryOf(b) \in Seq(Byte) /\ Len(MemoryOf(b)) = BUF
         /\ \A i \in 1 .. BUF : MemoryOf(b)[i] = b[i - 1]
<1>1. MemoryOf(b) \in [1 .. BUF -> Byte] BY ConstantFacts DEF MemoryOf, Cells
<1>. QED BY <1>1, ConstantFacts DEF MemoryOf

LEMMA LineFacts ==
  ASSUME NEW b, NEW n, TextOf(b, n)
  PROVE  /\ LineOf(b, n) \in Seq(CHARS) /\ Len(LineOf(b, n)) = n
         /\ \A i \in 1 .. n : LineOf(b, n)[i] = b[i - 1]
<1>1. n \in Nat /\ n < BUF /\ b \in [Cells -> Byte] BY ConstantFacts DEF TextOf, Cells
<1>2. \A i \in 1 .. n : MemoryOf(b)[i] = b[i - 1] /\ b[i - 1] \in CHARS
  BY <1>1, MemoryFacts, ConstantFacts DEF TextOf
<1>3. /\ SubSeq(MemoryOf(b), 1, n) \in Seq(CHARS)
      /\ Len(SubSeq(MemoryOf(b), 1, n)) = IF 1 <= n THEN n - 1 + 1 ELSE 0
      /\ \A i \in 1 .. n - 1 + 1 : SubSeq(MemoryOf(b), 1, n)[i] = MemoryOf(b)[1 + i - 1]
  BY <1>1, <1>2, SubSeqProperties
<1>. QED BY <1>1, <1>2, <1>3 DEF LineOf

\* A line by its characters.
LEMMA LineIs ==
  ASSUME NEW b, NEW n, TextOf(b, n), NEW s \in Seq(CHARS), Len(s) = n,
         \A i \in 1 .. n : s[i] = b[i - 1]
  PROVE  LineOf(b, n) = s
BY LineFacts, SeqEqual

\* The string in the buffer is the line.
LEMMA StringIsLine ==
  ASSUME NEW b, NEW n, TextOf(b, n)
  PROVE  StringAt(MemoryOf(b), 0 + 1) = LineOf(b, n)
<1>1. n \in Nat /\ n < BUF /\ b \in [Cells -> Byte] /\ BUF \in Nat
  BY ConstantFacts DEF TextOf, Cells
<1>2. /\ Len(MemoryOf(b)) = BUF
      /\ \A i \in 1 .. BUF : MemoryOf(b)[i] = b[i - 1]
  BY <1>1, MemoryFacts
<1>3. MemoryOf(b)[1 + n] = NUL BY <1>1, <1>2 DEF TextOf
<1>4. \A i \in 0 .. n - 1 : MemoryOf(b)[1 + i] # NUL
  BY <1>1, <1>2, ConstantFacts DEF TextOf
<1>5. string_length(MemoryOf(b), 1) = n BY <1>1, <1>2, <1>3, <1>4, LengthIs
<1>. QED BY <1>1, <1>5 DEF StringAt, LineOf

LEMMA PastFacts ==
  ASSUME NEW h \in [Places -> Seq(CHARS)], NEW n \in 0 .. MAX
  PROVE  /\ PastOf(h, n) \in Seq(Seq(CHARS)) /\ Len(PastOf(h, n)) = n
         /\ \A i \in 1 .. n : PastOf(h, n)[i] = h[i - 1]
<1>. DEFINE f == [i \in 1 .. n |-> h[i - 1]]
<1>1. f \in [1 .. n -> Seq(CHARS)] BY ConstantFacts DEF Places
<1>2. f \in Seq(Seq(CHARS)) /\ Len(f) = n BY <1>1
<1>3. <<>> \o f = f BY <1>2, ConcatEmptySeq
<1>. QED BY <1>2, <1>3 DEF PastOf

LEMMA PastIs ==
  ASSUME NEW h \in [Places -> Seq(CHARS)], NEW n \in 0 .. MAX,
         NEW s \in Seq(Seq(CHARS)), Len(s) = n, \A i \in 1 .. n : s[i] = h[i - 1]
  PROVE  PastOf(h, n) = s
<1>1. /\ PastOf(h, n) \in Seq(Seq(CHARS)) /\ Len(PastOf(h, n)) = Len(s)
      /\ \A i \in 1 .. Len(PastOf(h, n)) : PastOf(h, n)[i] = s[i]
  BY PastFacts
<1>. QED BY <1>1, SeqEqual

\* The module's own names for these.
LEMMA Named ==
  /\ Memory = MemoryOf(buffer) /\ Line = LineOf(buffer, buffer_length)
  /\ Past = PastOf(instruction_history_buffer, Index)
  /\ Line' = LineOf(buffer', buffer_length')
  /\ Past' = PastOf(instruction_history_buffer', Index')
BY DEF Memory, MemoryOf, Line, LineOf, Past, PastOf, Index

\* A suffix, by its characters.
LEMMA SuffixIs ==
  ASSUME NEW S, NEW s \in Seq(S), NEW t \in Seq(S)
  PROVE  IsSuffix(s, t) <=>
           Len(s) <= Len(t) /\ \A i \in 1 .. Len(s) : s[i] = t[Len(t) - Len(s) + i]
<1>. DEFINE n == Len(s)
            k == Len(t)
            r == Reverse(s)
            u == Reverse(t)
<1>1. n \in Nat /\ k \in Nat OBVIOUS
<1>2. /\ r \in Seq(S) /\ Len(r) = n /\ \A i \in 1 .. n : r[i] = s[n - i + 1]
      /\ u \in Seq(S) /\ Len(u) = k /\ \A i \in 1 .. k : u[i] = t[k - i + 1]
  <2>1. \A i \in 1 .. n : s[n - i + 1] \in S OBVIOUS
  <2>2. \A i \in 1 .. k : t[k - i + 1] \in S OBVIOUS
  <2>3. r \in [1 .. n -> S] /\ u \in [1 .. k -> S] BY <2>1, <2>2 DEF Reverse
  <2>. QED BY <2>3, <1>1 DEF Reverse
<1>3. IsSuffix(s, t) <=> n <= k /\ SubSeq(r, 1, n) = SubSeq(u, 1, n)
  BY <1>2 DEF IsSuffix, IsPrefix
<1>4. SubSeq(r, 1, n) = r
  <2>. HIDE DEF r, n
  <2>. QED BY <1>2, SubSeqFull
<1>5. ASSUME n <= k
      PROVE  SubSeq(u, 1, n) \in Seq(S) /\ Len(SubSeq(u, 1, n)) = n
             /\ \A i \in 1 .. n : SubSeq(u, 1, n)[i] = t[k - i + 1]
  <2>. HIDE DEF r, n, u, k
  <2>1. \A i \in 1 .. n : u[i] \in S /\ u[i] = t[k - i + 1] BY <1>1, <1>2, <1>5
  <2>2. /\ SubSeq(u, 1, n) \in Seq(S)
        /\ Len(SubSeq(u, 1, n)) = IF 1 <= n THEN n - 1 + 1 ELSE 0
        /\ \A i \in 1 .. n - 1 + 1 : SubSeq(u, 1, n)[i] = u[1 + i - 1]
    BY <1>1, <2>1, SubSeqProperties
  <2>. QED BY <1>1, <2>1, <2>2
<1>6. ASSUME n <= k, r = SubSeq(u, 1, n), NEW i \in 1 .. n
      PROVE  s[i] = t[k - n + i]
  <2>. HIDE DEF r, u
  <2>1. n - i + 1 \in 1 .. n /\ n - (n - i + 1) + 1 = i /\ k - (n - i + 1) + 1 = k - n + i
    BY <1>1
  <2>2. r[n - i + 1] = s[n - (n - i + 1) + 1] BY <1>2, <2>1
  <2>3. r[n - i + 1] = t[k - (n - i + 1) + 1] BY <1>5, <1>6, <2>1
  <2>. QED BY <2>1, <2>2, <2>3
<1>7. ASSUME n <= k, \A i \in 1 .. n : s[i] = t[k - n + i]
      PROVE  r = SubSeq(u, 1, n)
  <2>. HIDE DEF r, u
  <2>1. ASSUME NEW i \in 1 .. n PROVE r[i] = SubSeq(u, 1, n)[i]
    <3>1. n - i + 1 \in 1 .. n /\ k - n + (n - i + 1) = k - i + 1 BY <1>1
    <3>2. r[i] = s[n - i + 1] /\ SubSeq(u, 1, n)[i] = t[k - i + 1] BY <1>2, <1>5, <1>7
    <3>3. s[n - i + 1] = t[k - n + (n - i + 1)] BY <1>7, <3>1
    <3>. QED BY <3>1, <3>2, <3>3
  <2>2. /\ SubSeq(u, 1, n) \in Seq(S) /\ Len(r) = Len(SubSeq(u, 1, n)) /\ r \in Seq(S)
        /\ \A i \in 1 .. Len(r) : r[i] = SubSeq(u, 1, n)[i]
    BY <1>2, <1>5, <1>7, <2>1
  <2>. QED BY <2>2, SeqEqual
<1>. QED BY <1>3, <1>4, <1>6, <1>7

\* What a row shows stays the end of the line when both grow or shrink by a character.
LEMMA SuffixGrows ==
  ASSUME NEW s \in Seq(CHARS), NEW t \in Seq(CHARS), NEW c \in CHARS, IsSuffix(s, t)
  PROVE  s \o <<c>> \in Seq(CHARS) /\ IsSuffix(s \o <<c>>, Append(t, c))
<1>1. Len(s) \in Nat /\ Len(t) \in Nat /\ Len(s) <= Len(t)
      /\ \A i \in 1 .. Len(s) : s[i] = t[Len(t) - Len(s) + i]
  BY SuffixIs
<1>. DEFINE u == s \o <<c>>
            v == Append(t, c)
<1>2. /\ u \in Seq(CHARS) /\ Len(u) = Len(s) + 1
      /\ \A i \in 1 .. Len(s) : u[i] = s[i]
      /\ u[Len(s) + 1] = c
  OBVIOUS
<1>3. /\ v \in Seq(CHARS) /\ Len(v) = Len(t) + 1
      /\ \A i \in 1 .. Len(t) : v[i] = t[i]
      /\ v[Len(t) + 1] = c
  OBVIOUS
<1>. HIDE DEF u, v
<1>4. ASSUME NEW i \in 1 .. Len(u) PROVE u[i] = v[Len(v) - Len(u) + i]
  <2>1. CASE i = Len(s) + 1
    <3>1. Len(v) - Len(u) + i = Len(t) + 1 BY <2>1, <1>1, <1>2, <1>3
    <3>. QED BY <3>1, <2>1, <1>2, <1>3
  <2>2. CASE i \in 1 .. Len(s)
    <3>1. Len(v) - Len(u) + i = Len(t) - Len(s) + i /\ Len(t) - Len(s) + i \in 1 .. Len(t)
      BY <2>2, <1>1, <1>2, <1>3
    <3>2. u[i] = s[i] BY <2>2, <1>2
    <3>3. v[Len(t) - Len(s) + i] = t[Len(t) - Len(s) + i] BY <3>1, <1>3
    <3>4. s[i] = t[Len(t) - Len(s) + i] BY <2>2, <1>1
    <3>. QED BY <3>1, <3>2, <3>3, <3>4
  <2>. QED BY <2>1, <2>2, <1>1, <1>2
<1>5. Len(u) <= Len(v) BY <1>1, <1>2, <1>3
<1>6. IsSuffix(u, v) BY <1>2, <1>3, <1>4, <1>5, SuffixIs
<1>. QED BY <1>2, <1>6 DEF u, v

\* A line without its last character.
LEMMA Shortened ==
  ASSUME NEW s \in Seq(CHARS), Len(s) > 0
  PROVE  LET u == SubSeq(s, 1, Len(s) - 1) IN
         /\ u \in Seq(CHARS) /\ Len(u) = Len(s) - 1
         /\ \A i \in 1 .. Len(s) - 1 : u[i] = s[i]
<1>. DEFINE u == SubSeq(s, 1, Len(s) - 1)
            k == Len(s) - 1
<1>1. k \in Nat /\ \A i \in 1 .. k : s[i] \in CHARS OBVIOUS
<1>. HIDE DEF k
<1>2. /\ SubSeq(s, 1, k) \in Seq(CHARS)
      /\ Len(SubSeq(s, 1, k)) = IF 1 <= k THEN k - 1 + 1 ELSE 0
      /\ \A i \in 1 .. k - 1 + 1 : SubSeq(s, 1, k)[i] = s[1 + i - 1]
  BY <1>1, SubSeqProperties
<1>3. Len(SubSeq(s, 1, k)) = k /\ \A i \in 1 .. k : SubSeq(s, 1, k)[i] = s[i]
  BY <1>1, <1>2
<1>. QED BY <1>2, <1>3 DEF k

LEMMA SuffixShrinks ==
  ASSUME NEW s \in Seq(CHARS), NEW t \in Seq(CHARS), IsSuffix(s, t), s # <<>>
  PROVE  /\ Len(t) > 0 /\ Front(s) \in Seq(CHARS)
         /\ IsSuffix(Front(s), SubSeq(t, 1, Len(t) - 1))
<1>1. Len(s) \in Nat /\ Len(t) \in Nat /\ Len(s) <= Len(t) /\ Len(s) > 0
      /\ \A i \in 1 .. Len(s) : s[i] = t[Len(t) - Len(s) + i]
  BY SuffixIs, EmptySeq
<1>. DEFINE u == SubSeq(s, 1, Len(s) - 1)
            v == SubSeq(t, 1, Len(t) - 1)
<1>2. u \in Seq(CHARS) /\ Len(u) = Len(s) - 1 /\ \A i \in 1 .. Len(s) - 1 : u[i] = s[i]
  BY <1>1, Shortened
<1>3. v \in Seq(CHARS) /\ Len(v) = Len(t) - 1 /\ \A i \in 1 .. Len(t) - 1 : v[i] = t[i]
  BY <1>1, Shortened
<1>. HIDE DEF u, v
<1>4. ASSUME NEW i \in 1 .. Len(u) PROVE u[i] = v[Len(v) - Len(u) + i]
  <2>1. /\ i \in 1 .. Len(s) /\ i \in 1 .. Len(s) - 1
        /\ Len(v) - Len(u) + i = Len(t) - Len(s) + i
        /\ Len(t) - Len(s) + i \in 1 .. Len(t) - 1
    BY <1>1, <1>2, <1>3
  <2>. QED BY <2>1, <1>1, <1>2, <1>3
<1>5. IsSuffix(u, v)
  <2>1. Len(u) <= Len(v) BY <1>1, <1>2, <1>3
  <2>. QED BY <2>1, <1>2, <1>3, <1>4, SuffixIs
<1>. QED BY <1>1, <1>2, <1>5 DEF u, v, Front

LEMMA SuffixEnds ==
  ASSUME NEW t \in Seq(CHARS)
  PROVE  IsSuffix(<<>>, t) /\ IsSuffix(t, t)
<1>1. <<>> \in Seq(CHARS) /\ Len(<<>>) = 0 /\ Len(t) \in Nat OBVIOUS
<1>2. ASSUME NEW e \in Seq(CHARS), Len(e) = 0 PROVE IsSuffix(e, t)
  <2>1. Len(e) <= Len(t) /\ \A i \in 1 .. Len(e) : e[i] = t[Len(t) - Len(e) + i] BY <1>1, <1>2
  <2>. QED BY <2>1, SuffixIs
<1>3. \A i \in 1 .. Len(t) : t[i] = t[Len(t) - Len(t) + i] BY <1>1
<1>4. IsSuffix(t, t) BY <1>1, <1>3, SuffixIs
<1>. QED BY <1>1, <1>2, <1>4

---------------------------------------------------------------------------
\* What the operations make of the buffer.
Typed(b, n, val, c) ==
  /\ TextOf(c, n + 1) /\ LineOf(c, n + 1) = Append(LineOf(b, n), val)
  /\ \A i \in Cells : i # n => c[i] = b[i] \/ c[i] = NUL

LEMMA TextTyped ==
  ASSUME NEW b, NEW n, TextOf(b, n), n < BUF - 2, NEW val \in CHARS,
         NEW c, c = [b EXCEPT ![n] = val, ![n + 1] = NUL]
  PROVE  Typed(b, n, val, c)
<1>1. n \in Nat /\ BUF \in Nat /\ b \in [Cells -> Byte] /\ NUL \notin CHARS
  BY ConstantFacts DEF TextOf, Cells
<1>2. n \in Cells /\ n + 1 \in Cells /\ BUF - 1 \in Cells BY <1>1 DEF Cells
<1>3. /\ c \in [Cells -> Byte] /\ c[n] = val /\ c[n + 1] = NUL
      /\ \A i \in Cells \ {n, n + 1} : c[i] = b[i]
  BY <1>1, <1>2 DEF Byte
<1>4. \A i \in 0 .. n - 1 : i \in Cells \ {n, n + 1} BY <1>1 DEF Cells
<1>5. TextOf(c, n + 1)
  <2>1. \A i \in 0 .. (n + 1) - 1 : c[i] \in CHARS
    <3>1. \A i \in 0 .. (n + 1) - 1 : i = n \/ i \in 0 .. n - 1 BY <1>1
    <3>. QED BY <3>1, <1>3, <1>4 DEF TextOf
  <2>2. c[BUF - 1] = NUL BY <1>1, <1>2, <1>3 DEF TextOf
  <2>3. n + 1 > 0 => n + 1 <= BUF - 2 BY <1>1
  <2>. QED BY <2>1, <2>2, <2>3, <1>2, <1>3 DEF TextOf
<1>. DEFINE l == LineOf(b, n)
<1>6. l \in Seq(CHARS) /\ Len(l) = n /\ \A i \in 1 .. n : l[i] = b[i - 1]
  BY LineFacts
<1>. HIDE DEF l
<1>7. /\ Append(l, val) \in Seq(CHARS) /\ Len(Append(l, val)) = n + 1
      /\ \A i \in 1 .. n : Append(l, val)[i] = l[i]
      /\ Append(l, val)[n + 1] = val
  BY <1>6, AppendProperties
<1>8. ASSUME NEW i \in 1 .. n + 1 PROVE Append(l, val)[i] = c[i - 1]
  <2>1. CASE i = n + 1
    <3>1. i - 1 = n BY <2>1, <1>1
    <3>. QED BY <3>1, <2>1, <1>3, <1>7
  <2>2. CASE i \in 1 .. n
    <3>1. i - 1 \in 0 .. n - 1 BY <2>2, <1>1
    <3>2. c[i - 1] = b[i - 1] BY <3>1, <1>3, <1>4
    <3>3. Append(l, val)[i] = l[i] /\ l[i] = b[i - 1] BY <2>2, <1>6, <1>7
    <3>. QED BY <3>2, <3>3
  <2>3. n \in Nat => i = n + 1 \/ i \in 1 .. n OBVIOUS
  <2>. QED BY <2>1, <2>2, <2>3, <1>1
<1>9. LineOf(c, n + 1) = Append(l, val) BY <1>5, <1>7, <1>8, LineIs
<1>. QED BY <1>1, <1>3, <1>5, <1>9 DEF l, Typed

LEMMA TextErased ==
  ASSUME NEW b, NEW n, TextOf(b, n), n > 0
  PROVE  LET c == [b EXCEPT ![n - 1] = NUL] IN
         /\ TextOf(c, n - 1) /\ LineOf(c, n - 1) = SubSeq(LineOf(b, n), 1, n - 1)
         /\ \A i \in Cells : c[i] = b[i] \/ c[i] = NUL
         /\ c[n - 1] = NUL
<1>. DEFINE c == [b EXCEPT ![n - 1] = NUL]
<1>1. n \in Nat /\ BUF \in Nat /\ b \in [Cells -> Byte] /\ n - 1 \in Cells /\ n <= BUF - 2
  BY ConstantFacts DEF TextOf, Cells
<1>2. /\ c \in [Cells -> Byte] /\ c[n - 1] = NUL
      /\ \A i \in Cells \ {n - 1} : c[i] = b[i]
  BY <1>1 DEF Byte
<1>. HIDE DEF c
<1>3. \A i \in 0 .. n - 2 : i \in Cells \ {n - 1} /\ i \in 0 .. n - 1 BY <1>1 DEF Cells
<1>4. TextOf(c, n - 1)
  <2>1. \A i \in 0 .. (n - 1) - 1 : c[i] \in CHARS
    <3>1. (n - 1) - 1 = n - 2 BY <1>1
    <3>. QED BY <3>1, <1>2, <1>3 DEF TextOf
  <2>2. BUF - 1 \in Cells \ {n - 1} BY <1>1 DEF Cells
  <2>3. c[BUF - 1] = NUL BY <2>2, <1>2 DEF TextOf
  <2>4. n - 1 > 0 => n - 1 <= BUF - 2 BY <1>1
  <2>. QED BY <2>1, <2>3, <2>4, <1>1, <1>2 DEF TextOf
<1>. DEFINE l == LineOf(b, n)
<1>5. l \in Seq(CHARS) /\ Len(l) = n /\ \A i \in 1 .. n : l[i] = b[i - 1] BY LineFacts
<1>. HIDE DEF l
<1>6. /\ SubSeq(l, 1, n - 1) \in Seq(CHARS) /\ Len(SubSeq(l, 1, n - 1)) = n - 1
      /\ \A i \in 1 .. n - 1 : SubSeq(l, 1, n - 1)[i] = l[i]
  BY <1>1, <1>5
<1>7. ASSUME NEW i \in 1 .. n - 1 PROVE SubSeq(l, 1, n - 1)[i] = c[i - 1]
  <2>1. i \in 1 .. n /\ i - 1 \in 0 .. n - 2 BY <1>1
  <2>. QED BY <2>1, <1>2, <1>3, <1>5, <1>6
<1>8. LineOf(c, n - 1) = SubSeq(l, 1, n - 1) BY <1>4, <1>6, <1>7, LineIs
<1>. QED BY <1>1, <1>2, <1>4, <1>8 DEF c, l

LEMMA TextRecalled ==
  ASSUME NEW b, NEW n, TextOf(b, n), NEW s \in Seq(CHARS), Len(s) \in 1 .. BUF - 2
  PROVE  LET c == [i \in 0 .. BUF - 1 |->
                     IF i < Len(s) THEN s[i + 1] ELSE IF i = Len(s) THEN NUL ELSE b[i]]
         IN  TextOf(c, Len(s)) /\ LineOf(c, Len(s)) = s
<1>. DEFINE k == Len(s)
            c == [i \in 0 .. BUF - 1 |-> IF i < k THEN s[i + 1] ELSE IF i = k THEN NUL ELSE b[i]]
<1>1. k \in Nat /\ BUF \in Nat /\ b \in [Cells -> Byte] /\ k \in Cells /\ k <= BUF - 2 /\ k > 0
  BY ConstantFacts DEF TextOf, Cells
<1>2. \A i \in 0 .. k - 1 : i \in Cells /\ i < k /\ i + 1 \in 1 .. k /\ s[i + 1] \in CHARS
  BY <1>1 DEF Cells
<1>3. c \in [Cells -> Byte] BY <1>1, <1>2 DEF Cells, Byte
<1>4. /\ \A i \in 0 .. k - 1 : c[i] = s[i + 1]
      /\ c[k] = NUL /\ c[BUF - 1] = b[BUF - 1]
  BY <1>1, <1>2 DEF Cells
<1>. HIDE DEF c, k
<1>5. TextOf(c, k) BY <1>1, <1>2, <1>3, <1>4 DEF TextOf
<1>6. \A i \in 1 .. k : i - 1 \in 0 .. k - 1 /\ (i - 1) + 1 = i BY <1>1
<1>7. \A i \in 1 .. k : s[i] = c[i - 1] BY <1>4, <1>6
<1>8. LineOf(c, k) = s BY <1>5, <1>7, LineIs DEF k
<1>. QED BY <1>5, <1>8 DEF c, k

\* An empty line, over an old one or in a buffer that was cleared.
LEMMA TextEmptied ==
  ASSUME NEW b \in [Cells -> Byte], b[0] = NUL, b[BUF - 1] = NUL
  PROVE  TextOf(b, 0) /\ LineOf(b, 0) = <<>>
<1>1. 0 \in Cells /\ BUF - 1 \in Cells BY ConstantFacts DEF Cells
<1>2. TextOf(b, 0) BY <1>1 DEF TextOf
<1>. QED BY <1>2, LineFacts, EmptySeq

---------------------------------------------------------------------------
\* What the operations make of the row.
RowFor(r, l) == r \in Seq(CHARS) \cup {AWAY} /\ (r # AWAY => IsSuffix(r, l))

LEMMA RowTyped ==
  ASSUME NEW r, NEW l \in Seq(CHARS), RowFor(r, l), NEW c \in CHARS
  PROVE  RowFor(Printed(r, <<c>>), Append(l, c))
BY SuffixGrows DEF RowFor, Printed

LEMMA RowRecalled ==
  ASSUME NEW r \in {AWAY, <<>>}, NEW s \in Seq(CHARS)
  PROVE  RowFor(Printed(r, s), s)
<1>1. <<>> \o s = s BY ConcatEmptySeq
<1>. QED BY <1>1, SuffixEnds DEF RowFor, Printed

LEMMA RowEmpty ==
  ASSUME NEW r \in {AWAY, <<>>}, NEW l \in Seq(CHARS)
  PROVE  RowFor(r, l)
<1>1. <<>> \in Seq(CHARS) /\ IsSuffix(<<>>, l) BY SuffixEnds
<1>. QED BY <1>1 DEF RowFor

LEMMA RowErased == shell_erase_line \in {AWAY, <<>>}
BY DEF shell_erase_line

\* What an Enter makes of the history.
LEMMA HistoryGrows ==
  ASSUME NEW h, NEW n, NEW c, FilledOf(h, n, c), n < MAX,
         NEW s \in Seq(CHARS), Len(s) \in 1 .. BUF - 2
  PROVE  LET g == [h EXCEPT ![n] = s] IN
         FilledOf(g, n + 1, n + 1) /\ PastOf(g, n + 1) = Append(PastOf(h, n), s)
<1>. DEFINE g == [h EXCEPT ![n] = s]
            p == PastOf(h, n)
<1>1. n \in Nat /\ MAX \in Nat /\ h \in [Places -> Seq(CHARS)] /\ n \in Places /\ n \in 0 .. MAX
  BY ConstantFacts DEF FilledOf, Places
<1>2. g \in [Places -> Seq(CHARS)] /\ g[n] = s /\ \A i \in Places \ {n} : g[i] = h[i]
  BY <1>1
<1>. HIDE DEF g
<1>3. FilledOf(g, n + 1, n + 1)
  <2>1. ASSUME NEW i \in Places PROVE IF i < n + 1 THEN Len(g[i]) \in 1 .. BUF - 2 ELSE g[i] = NULL
    <3>1. CASE i = n BY <3>1, <1>1, <1>2
    <3>2. CASE i # n
      <4>1. i \in Nat /\ (i < n + 1 <=> i < n) BY <3>2, <1>1 DEF Places
      <4>. QED BY <3>2, <4>1, <1>2 DEF FilledOf
    <3>. QED BY <3>1, <3>2
  <2>. QED BY <2>1, <1>1, <1>2 DEF FilledOf
<1>4. p \in Seq(Seq(CHARS)) /\ Len(p) = n /\ \A i \in 1 .. n : p[i] = h[i - 1]
  BY <1>1, PastFacts
<1>. HIDE DEF p
<1>5. /\ Append(p, s) \in Seq(Seq(CHARS)) /\ Len(Append(p, s)) = n + 1
      /\ \A i \in 1 .. n : Append(p, s)[i] = p[i]
      /\ Append(p, s)[n + 1] = s
  BY <1>4, AppendProperties
<1>6. ASSUME NEW i \in 1 .. n + 1 PROVE Append(p, s)[i] = g[i - 1]
  <2>1. CASE i = n + 1
    <3>1. i - 1 = n BY <2>1, <1>1
    <3>. QED BY <3>1, <2>1, <1>2, <1>5
  <2>2. CASE i \in 1 .. n
    <3>1. i - 1 \in Places \ {n} BY <2>2, <1>1 DEF Places
    <3>. QED BY <3>1, <2>2, <1>2, <1>4, <1>5
  <2>3. n \in Nat => i = n + 1 \/ i \in 1 .. n OBVIOUS
  <2>. QED BY <2>1, <2>2, <2>3, <1>1
<1>7. n + 1 \in 0 .. MAX BY <1>1
<1>8. PastOf(g, n + 1) = Append(p, s) BY <1>2, <1>5, <1>6, <1>7, PastIs
<1>. QED BY <1>3, <1>8 DEF g, p

LEMMA HistoryShifts ==
  ASSUME NEW h, NEW c, FilledOf(h, MAX, c), NEW s \in Seq(CHARS), Len(s) \in 1 .. BUF - 2
  PROVE  LET g == [i \in DOMAIN h |-> IF i < max_instruction_history - 1 THEN h[i + 1] ELSE s] IN
         FilledOf(g, MAX, MAX) /\ PastOf(g, MAX) = Append(Tail(PastOf(h, MAX)), s)
<1>. DEFINE g == [i \in DOMAIN h |-> IF i < max_instruction_history - 1 THEN h[i + 1] ELSE s]
            p == PastOf(h, MAX)
<1>1. /\ MAX \in Nat /\ MAX > 0 /\ max_instruction_history = MAX /\ h \in [Places -> Seq(CHARS)]
      /\ \A i \in Places : Len(h[i]) \in 1 .. BUF - 2
  BY ConstantFacts DEF FilledOf, Places
<1>2. \A i \in Places : /\ i \in Nat /\ i < MAX
                        /\ i < MAX - 1 => i + 1 \in Places
                        /\ g[i] = IF i < MAX - 1 THEN h[i + 1] ELSE s
  BY <1>1 DEF Places
<1>3. g \in [Places -> Seq(CHARS)] BY <1>1, <1>2
<1>. HIDE DEF g
<1>4. FilledOf(g, MAX, MAX)
  <2>1. ASSUME NEW i \in Places PROVE i < MAX /\ Len(g[i]) \in 1 .. BUF - 2
    <3>1. CASE i < MAX - 1 BY <3>1, <1>1, <1>2
    <3>2. CASE ~(i < MAX - 1) BY <3>2, <1>2
    <3>. QED BY <3>1, <3>2, <1>2
  <2>. QED BY <2>1, <1>1, <1>3 DEF FilledOf
<1>5. p \in Seq(Seq(CHARS)) /\ Len(p) = MAX /\ \A i \in 1 .. MAX : p[i] = h[i - 1]
  <2>1. MAX \in 0 .. MAX BY <1>1
  <2>. QED BY <2>1, <1>1, PastFacts
<1>. HIDE DEF p
<1>. DEFINE t == Tail(p)
<1>6. /\ t \in Seq(Seq(CHARS)) /\ Len(t) = MAX - 1
      /\ \A i \in 1 .. MAX - 1 : t[i] = p[i + 1]
  <2>1. p # <<>>
    <3>1. p = <<>> => Len(p) = 0 OBVIOUS
    <3>. QED BY <3>1, <1>1, <1>5
  <2>2. /\ Tail(p) \in Seq(Seq(CHARS)) /\ Len(Tail(p)) = Len(p) - 1
        /\ \A i \in 1 .. Len(Tail(p)) : Tail(p)[i] = p[i + 1]
    BY <2>1, <1>5, HeadTailProperties
  <2>. QED BY <2>2, <1>5
<1>. HIDE DEF t
<1>7. /\ Append(t, s) \in Seq(Seq(CHARS)) /\ Len(Append(t, s)) = MAX
      /\ \A i \in 1 .. MAX - 1 : Append(t, s)[i] = t[i]
      /\ Append(t, s)[MAX] = s
  <2>1. /\ Append(t, s) \in Seq(Seq(CHARS)) /\ Len(Append(t, s)) = Len(t) + 1
        /\ \A i \in 1 .. Len(t) : Append(t, s)[i] = t[i]
        /\ Append(t, s)[Len(t) + 1] = s
    BY <1>6, AppendProperties
  <2>2. Len(t) + 1 = MAX BY <1>1, <1>6
  <2>. QED BY <2>1, <2>2, <1>6
<1>8. ASSUME NEW i \in 1 .. MAX PROVE Append(t, s)[i] = g[i - 1]
  <2>1. i - 1 \in Places /\ i \in Nat BY <1>1 DEF Places
  <2>2. CASE i = MAX
    <3>1. ~(i - 1 < MAX - 1) BY <2>2, <1>1
    <3>. QED BY <3>1, <2>1, <2>2, <1>2, <1>7
  <2>3. CASE i # MAX
    <3>1. i \in 1 .. MAX - 1 /\ i - 1 < MAX - 1 /\ (i - 1) + 1 = i
          /\ i + 1 \in 1 .. MAX /\ (i + 1) - 1 = i
      BY <2>1, <2>3, <1>1
    <3>2. g[i - 1] = h[i] BY <3>1, <2>1, <1>2
    <3>3. Append(t, s)[i] = p[i + 1] /\ p[i + 1] = h[i] BY <3>1, <1>5, <1>6, <1>7
    <3>. QED BY <3>2, <3>3
  <2>. QED BY <2>2, <2>3
<1>9. MAX \in 0 .. MAX BY <1>1
<1>10. PastOf(g, MAX) = Append(t, s) BY <1>3, <1>7, <1>8, <1>9, PastIs
<1>. QED BY <1>4, <1>10 DEF g, p, t

---------------------------------------------------------------------------
\* The actions: each keeps ShellInv and is a step of LineHistory or none of its.
Simulates == [Lines!Next]_(Lines!vars)

LEMMA RowNamed == (RowOK <=> RowFor(shown, Line)) /\ (RowOK' <=> RowFor(shown', Line'))
BY DEF RowOK, RowFor, ShownEndsLine

LEMMA LineNow ==
  ASSUME Text
  PROVE  /\ Line \in Seq(CHARS) /\ Len(Line) = buffer_length /\ String(0) = Line
         /\ buffer_length \in Nat /\ buffer_length < BUF
         /\ buffer_length > 0 => buffer_length \in 1 .. BUF - 2
         /\ (Line = <<>> <=> buffer_length = 0)
<1>1. /\ LineOf(buffer, buffer_length) \in Seq(CHARS)
      /\ Len(LineOf(buffer, buffer_length)) = buffer_length
  BY LineFacts DEF Text
<1>2. String(0) = Line BY StringIsLine, Named DEF Text, String
<1>3. /\ buffer_length \in Nat /\ buffer_length < BUF
      /\ buffer_length > 0 => buffer_length \in 1 .. BUF - 2
  BY ConstantFacts DEF Text, TextOf, Cells
<1>4. Line \in Seq(CHARS) /\ Len(Line) = buffer_length BY <1>1, Named
<1>5. Line = <<>> <=> buffer_length = 0 BY <1>4, EmptySeq
<1>. QED BY <1>2, <1>3, <1>4, <1>5

LEMMA PromptInv ==
  ASSUME ShellInv, end_of_user_input
  PROVE  Text' /\ Clean' /\ RowOK' /\ recalled' \in BOOLEAN /\ Line' = <<>>
<1>1. /\ buffer' = [i \in 0 .. BUF - 1 |-> NUL] /\ buffer_length' = 0
      /\ shown' = <<>> /\ recalled' = FALSE
  BY DEF end_of_user_input, next_kernel_shell_print
<1>2. /\ buffer' \in [Cells -> Byte] /\ \A i \in Cells : buffer'[i] = NUL
      /\ 0 \in Cells /\ BUF - 1 \in Cells
  BY <1>1, ConstantFacts DEF Cells, Byte
<1>3. TextOf(buffer', 0) /\ LineOf(buffer', 0) = <<>> BY <1>2, TextEmptied
<1>4. Text' BY <1>1, <1>3 DEF Text
<1>5. Line' = <<>> BY <1>1, <1>3, Named
<1>6. RowOK'
  <2>1. <<>> \in Seq(CHARS) OBVIOUS
  <2>2. RowFor(<<>>, <<>>) BY <2>1, RowEmpty
  <2>. QED BY <2>2, <1>1, <1>5, RowNamed
<1>7. Clean' BY <1>1, <1>2 DEF Clean, Cells
<1>. QED BY <1>1, <1>4, <1>5, <1>6, <1>7

LEMMA EnterStep ==
  ASSUME ShellInv, enter_key
  PROVE  ShellInv' /\ Simulates
<1>. DEFINE h == instruction_history_buffer
<1>1. /\ Text /\ Filled /\ shift_down' = shift_down /\ user_shell_enter /\ end_of_user_input
  BY DEF ShellInv, enter_key, user_shell_enter
<1>2. Text' /\ Clean' /\ RowOK' /\ recalled' \in BOOLEAN /\ Line' = <<>>
  BY <1>1, PromptInv
<1>3. /\ Line \in Seq(CHARS) /\ Len(Line) = buffer_length /\ String(0) = Line
      /\ Line # <<>> => Len(Line) \in 1 .. BUF - 2
  BY <1>1, LineNow
<1>4. /\ h \in [Places -> Seq(CHARS)] /\ Index \in 0 .. MAX /\ MAX \in Nat
      /\ max_instruction_history = MAX
      /\ Len(Past) = Index
  BY <1>1, ConstantFacts, PastFacts, Named DEF Filled, FilledOf
<1>5. CASE Line = <<>>
  <2>1. UNCHANGED history BY <1>1, <1>3, <1>5 DEF user_shell_enter
  <2>2. Filled' BY <1>1, <2>1 DEF Filled, FilledOf, history, Index, Current
  <2>3. UNCHANGED Lines!vars
    BY <1>2, <1>5, <2>1 DEF Lines!vars, Past, history, Index, Current
  <2>. QED BY <1>1, <1>2, <2>2, <2>3 DEF ShellInv, Simulates
<1>6. CASE Line # <<>>
  <2>1. push_instruction_history BY <1>1, <1>3, <1>6 DEF user_shell_enter
  <2>2. Filled' /\ Past' = Append(Lines!Kept, Line) /\ Current' = Len(Past')
    <3>1. CASE Index >= MAX
      <4>1. Index = MAX BY <3>1, <1>4
      <4>2. /\ instruction_history_buffer' =
                 [i \in DOMAIN h |-> IF i < max_instruction_history - 1 THEN h[i + 1] ELSE Line]
            /\ Current' = MAX /\ Index' = MAX
        BY <2>1, <3>1, <4>1, <1>3, <1>4
        DEF push_instruction_history, pop_instruction_history, Index, Current
      <4>3. /\ FilledOf(instruction_history_buffer', MAX, MAX)
            /\ PastOf(instruction_history_buffer', MAX) = Append(Tail(PastOf(h, MAX)), Line)
        BY <4>1, <4>2, <1>1, <1>3, <1>6, HistoryShifts DEF Filled
      <4>4. Lines!Kept = Tail(Past) BY <4>1, <1>4 DEF Lines!Kept
      <4>5. Past' = Append(Lines!Kept, Line) BY <4>1, <4>2, <4>3, <4>4, Named
      <4>6. Len(Past') = MAX
        BY <4>2, <4>3, <1>4, PastFacts, Named DEF FilledOf
      <4>. QED BY <4>2, <4>3, <4>5, <4>6 DEF Filled, Index, Current
    <3>2. CASE ~(Index >= MAX)
      <4>1. Index < MAX BY <3>2, <1>4
      <4>2. /\ instruction_history_buffer' = [h EXCEPT ![Index] = Line]
            /\ Current' = Index + 1 /\ Index' = Index + 1
        BY <2>1, <3>2, <1>3, <1>4 DEF push_instruction_history, Index, Current
      <4>3. /\ FilledOf(instruction_history_buffer', Index + 1, Index + 1)
            /\ PastOf(instruction_history_buffer', Index + 1) = Append(PastOf(h, Index), Line)
        BY <4>1, <4>2, <1>1, <1>3, <1>6, HistoryGrows DEF Filled
      <4>4. Lines!Kept = Past BY <4>1, <1>4 DEF Lines!Kept
      <4>5. Past' = Append(Lines!Kept, Line) BY <4>2, <4>3, <4>4, Named
      <4>6. Len(Past') = Index + 1
        BY <4>2, <4>3, <1>4, PastFacts, Named DEF FilledOf
      <4>. QED BY <4>2, <4>3, <4>5, <4>6 DEF Filled, Index, Current
    <3>. QED BY <3>1, <3>2
  <2>3. Lines!Enter BY <1>2, <1>6, <2>2 DEF Lines!Enter
  <2>. QED BY <1>1, <1>2, <2>2, <2>3 DEF ShellInv, Simulates, Lines!Next
<1>. QED BY <1>5, <1>6

LEMMA HistorySame ==
  ASSUME Filled, UNCHANGED history
  PROVE  Filled' /\ Past' = Past /\ Current' = Current
BY DEF Filled, FilledOf, Past, history, Index, Current

\* The entry at a place below the index is the line there of the history.
LEMMA EntryAt ==
  ASSUME Filled, NEW k \in Places
  PROVE  /\ (instruction_history_buffer[k] = NULL <=> ~(k < Index))
         /\ instruction_history_buffer[k] \in Seq(CHARS)
         /\ k < Index => /\ Len(instruction_history_buffer[k]) \in 1 .. BUF - 2
                         /\ Past # <<>> /\ Past[k + 1] = instruction_history_buffer[k]
<1>. DEFINE h == instruction_history_buffer
<1>1. /\ h \in [Places -> Seq(CHARS)] /\ Index \in 0 .. MAX /\ MAX \in Nat /\ k \in Nat
      /\ IF k < Index THEN Len(h[k]) \in 1 .. BUF - 2 ELSE h[k] = NULL
  BY ConstantFacts DEF Filled, FilledOf, Places
<1>2. Len(Past) = Index /\ \A i \in 1 .. Index : Past[i] = h[i - 1]
  BY <1>1, PastFacts, Named
<1>3. Len(h[k]) \in 1 .. BUF - 2 => h[k] # NULL
  <2>1. h[k] = NULL => Len(h[k]) = 0 BY DEF NULL
  <2>. QED BY <2>1
<1>4. ASSUME k < Index PROVE Past # <<>> /\ Past[k + 1] = h[k]
  <2>1. k + 1 \in 1 .. Index /\ (k + 1) - 1 = k BY <1>1, <1>4
  <2>2. Past = <<>> => Len(Past) = 0 OBVIOUS
  <2>. QED BY <2>1, <2>2, <1>1, <1>2, <1>4
<1>. QED BY <1>1, <1>3, <1>4

LEMMA RecallInv ==
  ASSUME ShellInv, NEW s \in Seq(CHARS), Len(s) \in 1 .. BUF - 2, Recall(s)
  PROVE  Text' /\ Clean' /\ RowOK' /\ recalled' \in BOOLEAN /\ Line' = s
<1>1. TextOf(buffer', Len(s)) /\ LineOf(buffer', Len(s)) = s
  BY TextRecalled DEF Recall, ShellInv, Text
<1>2. buffer_length' = Len(s) /\ recalled' = TRUE BY DEF Recall
<1>3. Text' /\ Line' = s BY <1>1, <1>2, Named DEF Text
<1>4. Clean' BY <1>2 DEF Clean
<1>5. RowFor(shown', s) BY RowErased, RowRecalled DEF Recall
<1>. QED BY <1>2, <1>3, <1>4, <1>5, RowNamed

LEMMA TypeStep ==
  ASSUME ShellInv, NEW val \in CHARS, type(val), shift_down' = shift_down
  PROVE  ShellInv' /\ Simulates
<1>. DEFINE n == buffer_length
<1>1. Text /\ Filled /\ Clean /\ RowOK BY DEF ShellInv
<1>2. /\ n < BUF - 2 /\ buffer' = [buffer EXCEPT ![n] = val, ![n + 1] = NUL]
      /\ buffer_length' = n + 1 /\ shown' = Printed(shown, <<val>>)
      /\ UNCHANGED history /\ recalled' = recalled
  BY DEF type
<1>3. n \in Nat /\ BUF \in Nat /\ Line \in Seq(CHARS) BY <1>1, LineNow, ConstantFacts
<1>4. Typed(buffer, n, val, buffer')
  <2>1. TextOf(buffer, n) BY <1>1 DEF Text
  <2>. QED BY <2>1, <1>2, TextTyped
<1>5. Text' /\ Line' = Append(Line, val) BY <1>2, <1>4, Named DEF Text, Typed
<1>6. RowOK' BY <1>1, <1>2, <1>3, <1>5, RowNamed, RowTyped
<1>7. Clean'
  <2>. SUFFICES ASSUME ~recalled, NEW i \in n + 1 .. BUF - 1 PROVE buffer'[i] = NUL
    BY <1>2 DEF Clean
  <2>1. i \in Cells /\ i # n /\ i \in n .. BUF - 1 BY <1>3 DEF Cells
  <2>. QED BY <2>1, <1>1, <1>4 DEF Clean, Typed
<1>8. Filled' /\ Past' = Past /\ Current' = Current BY <1>1, <1>2, HistorySame
<1>9. Lines!Type(val) BY <1>5, <1>8 DEF Lines!Type
<1>10. Simulates BY <1>9 DEF Simulates, Lines!Next
<1>. QED BY <1>2, <1>5, <1>6, <1>7, <1>8, <1>10 DEF ShellInv

LEMMA UpStep ==
  ASSUME ShellInv, user_shell_up, shift_down' = shift_down
  PROVE  ShellInv' /\ Simulates
<1>. DEFINE h == instruction_history_buffer
            place == IF Current # 0 THEN Current - 1 ELSE 0
<1>1. Text /\ Filled BY DEF ShellInv
<1>2. /\ Index \in 0 .. MAX /\ Current \in 0 .. Index /\ MAX \in Nat /\ MAX > 0
      /\ Len(Past) = Index
  BY <1>1, ConstantFacts, PastFacts, Named DEF Filled, FilledOf
<1>3. /\ Current' = place /\ h' = h /\ Index' = Index
      /\ IF h[place] = NULL THEN end_of_user_input ELSE Recall(h[place])
  BY DEF user_shell_up, Current, Index
<1>4. place \in Places /\ place \in 0 .. Index BY <1>2 DEF Places
<1>5. Filled' /\ Past' = Past
  BY <1>1, <1>3, <1>4 DEF Filled, FilledOf, Past, Index, Current
<1>6. Current' + 1 = IF Current + 1 > 1 THEN Current + 1 - 1 ELSE Current + 1
  BY <1>2, <1>3
<1>. HIDE DEF place
<1>7. CASE h[place] = NULL
  <2>1. Text' /\ Clean' /\ RowOK' /\ recalled' \in BOOLEAN /\ Line' = <<>>
    BY <1>3, <1>7, PromptInv
  <2>2. ~(place < Index) BY <1>1, <1>4, <1>7, EntryAt
  <2>3. Past = <<>>
    <3>1. Index = 0 BY <2>2, <1>2 DEF place
    <3>2. Past \in Seq(Seq(CHARS)) BY <1>1, <1>2, PastFacts, Named DEF Filled, FilledOf
    <3>. QED BY <3>1, <3>2, <1>2, EmptySeq
  <2>4. Lines!Up BY <2>1, <2>3, <1>2, <1>3, <1>5, <1>6 DEF Lines!Up
  <2>5. Simulates BY <2>4 DEF Simulates, Lines!Next
  <2>. QED BY <2>1, <2>5, <1>5 DEF ShellInv
<1>8. CASE h[place] # NULL
  <2>1. /\ place < Index /\ h[place] \in Seq(CHARS) /\ Len(h[place]) \in 1 .. BUF - 2
        /\ Past # <<>> /\ Past[place + 1] = h[place]
    BY <1>1, <1>4, <1>8, EntryAt
  <2>2. Text' /\ Clean' /\ RowOK' /\ recalled' \in BOOLEAN /\ Line' = h[place]
    BY <2>1, <1>3, <1>8, RecallInv
  <2>3. Lines!Up BY <2>1, <2>2, <1>2, <1>3, <1>5, <1>6 DEF Lines!Up
  <2>4. Simulates BY <2>3 DEF Simulates, Lines!Next
  <2>. QED BY <2>2, <2>4, <1>5 DEF ShellInv
<1>. QED BY <1>7, <1>8

LEMMA DownStep ==
  ASSUME ShellInv, user_shell_down, shift_down' = shift_down
  PROVE  ShellInv' /\ Simulates
<1>. DEFINE h == instruction_history_buffer
<1>1. Text /\ Filled /\ Clean BY DEF ShellInv
<1>2. /\ Index \in 0 .. MAX /\ Current \in 0 .. Index /\ MAX \in Nat /\ MAX > 0
      /\ Len(Past) = Index /\ max_instruction_history = MAX
  BY <1>1, ConstantFacts, PastFacts, Named DEF Filled, FilledOf
<1>3. CASE Index >= Current + 1 /\ Current <= max_instruction_history - 1
  <2>1. /\ Current' = Current + 1 /\ h' = h /\ Index' = Index
        /\ IF Index = Current + 1
           THEN /\ buffer' = [buffer EXCEPT ![0] = NUL] /\ buffer_length' = 0
                /\ shown' = shell_erase_line /\ recalled' = TRUE
           ELSE Recall(h[Current + 1])
    BY <1>3 DEF user_shell_down, Current, Index
  <2>2. Filled' /\ Past' = Past
    BY <1>1, <1>2, <1>3, <2>1 DEF Filled, FilledOf, Past, Index, Current
  <2>3. Current + 1 <= Len(Past) /\ Current' + 1 = (Current + 1) + 1 BY <1>2, <1>3, <2>1
  <2>4. CASE Index = Current + 1
    <3>1. /\ buffer' = [buffer EXCEPT ![0] = NUL] /\ buffer_length' = 0
          /\ shown' = shell_erase_line /\ recalled' = TRUE
      BY <2>1, <2>4
    <3>2. buffer \in [Cells -> Byte] /\ buffer[BUF - 1] = NUL /\ 0 \in Cells /\ BUF - 1 \in Cells
      BY <1>1, ConstantFacts DEF Text, TextOf, Cells
    <3>3. buffer' \in [Cells -> Byte] /\ buffer'[0] = NUL /\ buffer'[BUF - 1] = NUL
      BY <3>1, <3>2 DEF Byte
    <3>4. Text' /\ Line' = <<>>
      BY <3>1, <3>3, TextEmptied, Named DEF Text
    <3>5. RowOK'
      <4>1. <<>> \in Seq(CHARS) OBVIOUS
      <4>. QED BY <4>1, <3>1, <3>4, RowErased, RowEmpty, RowNamed
    <3>6. Clean' BY <3>1 DEF Clean
    <3>7. Lines!Down
      <4>1. Current' + 1 > Len(Past) BY <2>1, <2>4, <1>2
      <4>. QED BY <4>1, <2>2, <2>3, <3>4 DEF Lines!Down
    <3>8. Simulates BY <3>7 DEF Simulates, Lines!Next
    <3>. QED BY <2>2, <3>1, <3>4, <3>5, <3>6, <3>8 DEF ShellInv
  <2>5. CASE Index # Current + 1
    <3>1. Current + 1 \in Places /\ Current + 1 < Index BY <2>5, <1>2, <1>3 DEF Places
    <3>2. /\ h[Current + 1] \in Seq(CHARS) /\ Len(h[Current + 1]) \in 1 .. BUF - 2
          /\ Past[(Current + 1) + 1] = h[Current + 1]
      BY <3>1, <1>1, EntryAt
    <3>3. Text' /\ Clean' /\ RowOK' /\ recalled' \in BOOLEAN /\ Line' = h[Current + 1]
      BY <3>2, <2>1, <2>5, RecallInv
    <3>4. Lines!Down
      <4>1. ~(Current' + 1 > Len(Past)) BY <2>1, <3>1, <1>2
      <4>. QED BY <4>1, <2>2, <2>3, <3>2, <3>3 DEF Lines!Down
    <3>5. Simulates BY <3>4 DEF Simulates, Lines!Next
    <3>. QED BY <2>2, <3>3, <3>5 DEF ShellInv
  <2>. QED BY <2>4, <2>5
<1>4. CASE ~(Index >= Current + 1 /\ Current <= max_instruction_history - 1)
  <2>1. shown' = shell_erase_line /\ UNCHANGED <<text, history, recalled>>
    BY <1>4 DEF user_shell_down
  <2>2. Filled' /\ Past' = Past /\ Current' = Current BY <1>1, <2>1, HistorySame
  <2>3. Text' /\ Clean' /\ Line' = Line
    BY <1>1, <2>1, Named DEF Text, TextOf, Clean, text
  <2>4. RowOK'
    <3>1. Line \in Seq(CHARS) BY <1>1, LineNow
    <3>. QED BY <3>1, <2>1, <2>3, RowErased, RowEmpty, RowNamed
  <2>5. Simulates BY <2>2, <2>3 DEF Simulates, Lines!vars
  <2>. QED BY <2>1, <2>2, <2>3, <2>4, <2>5 DEF ShellInv
<1>. QED BY <1>3, <1>4

LEMMA BackspaceStep ==
  ASSUME ShellInv, backspace_key
  PROVE  ShellInv' /\ Simulates
<1>. DEFINE n == buffer_length
<1>1. Text /\ Filled /\ Clean /\ RowOK BY DEF ShellInv
<1>2. /\ shown' = backspace /\ erase_last
      /\ shift_down' = shift_down /\ UNCHANGED history /\ recalled' = recalled
  BY DEF backspace_key
<1>3. /\ Line \in Seq(CHARS) /\ Len(Line) = n /\ n \in Nat /\ n < BUF /\ BUF \in Nat
      /\ (Line = <<>> <=> n = 0)
  BY <1>1, LineNow, ConstantFacts
<1>4. Filled' /\ Past' = Past /\ Current' = Current BY <1>1, <1>2, HistorySame
<1>5. RowFor(shown, Line) BY <1>1, RowNamed
<1>6. CASE n > 0
  <2>1. buffer' = [buffer EXCEPT ![n - 1] = NUL] /\ buffer_length' = n - 1
    BY <1>2, <1>6 DEF erase_last
  <2>2. /\ TextOf(buffer', n - 1)
        /\ LineOf(buffer', n - 1) = SubSeq(LineOf(buffer, n), 1, n - 1)
        /\ \A i \in Cells : buffer'[i] = buffer[i] \/ buffer'[i] = NUL
        /\ buffer'[n - 1] = NUL
    BY <1>1, <1>6, <2>1, TextErased DEF Text
  <2>3. Text' /\ Line' = SubSeq(Line, 1, Len(Line) - 1)
    BY <1>3, <2>1, <2>2, Named DEF Text
  <2>4. RowFor(shown', Line')
    <3>1. CASE shown = AWAY BY <3>1, <1>2 DEF RowFor, backspace
    <3>2. CASE shown = <<>>
      <4>1. shown' = <<>> BY <3>2, <1>2 DEF backspace
      <4>2. Line' \in Seq(CHARS) BY <1>3, <1>6, <2>3, Shortened
      <4>. QED BY <4>1, <4>2, RowEmpty
    <3>3. CASE shown # AWAY /\ shown # <<>>
      <4>1. shown \in Seq(CHARS) /\ IsSuffix(shown, Line) BY <3>3, <1>5 DEF RowFor
      <4>2. shown' = Front(shown) BY <3>3, <1>2 DEF backspace
      <4>3. /\ Front(shown) \in Seq(CHARS)
            /\ IsSuffix(Front(shown), SubSeq(Line, 1, Len(Line) - 1))
        BY <4>1, <3>3, <1>3, SuffixShrinks
      <4>. QED BY <4>2, <4>3, <2>3 DEF RowFor
    <3>. QED BY <3>1, <3>2, <3>3
  <2>5. Clean'
    <3>. SUFFICES ASSUME ~recalled, NEW i \in n - 1 .. BUF - 1 PROVE buffer'[i] = NUL
      BY <1>2, <2>1 DEF Clean
    <3>1. CASE i = n - 1 BY <3>1, <2>2
    <3>2. CASE i # n - 1
      <4>1. i \in Cells /\ i \in n .. BUF - 1 BY <3>2, <1>3, <1>6 DEF Cells
      <4>. QED BY <4>1, <1>1, <2>2 DEF Clean
    <3>. QED BY <3>1, <3>2
  <2>6. Lines!Erase BY <1>3, <1>4, <1>6, <2>3 DEF Lines!Erase
  <2>7. Simulates BY <2>6 DEF Simulates, Lines!Next
  <2>. QED BY <1>2, <1>4, <2>3, <2>4, <2>5, <2>7, RowNamed DEF ShellInv
<1>7. CASE ~(n > 0)
  <2>1. UNCHANGED text BY <1>2, <1>7 DEF erase_last
  <2>2. Text' /\ Clean' /\ Line' = Line
    BY <1>1, <1>2, <2>1, Named DEF Text, TextOf, Clean, text
  <2>3. RowFor(shown', Line')
    <3>1. Line = <<>> BY <1>3, <1>7
    <3>2. shown # AWAY => shown = <<>>
      <4>. SUFFICES ASSUME shown # AWAY PROVE shown = <<>> OBVIOUS
      <4>1. shown \in Seq(CHARS) /\ IsSuffix(shown, Line) BY <1>5 DEF RowFor
      <4>2. Len(shown) <= Len(Line) /\ Len(shown) \in Nat BY <4>1, <1>3, SuffixIs
      <4>. QED BY <4>1, <4>2, <1>3, <1>7, EmptySeq
    <3>3. shown' = shown BY <3>2, <1>2 DEF backspace
    <3>. QED BY <3>3, <2>2, <1>5
  <2>4. Simulates BY <1>4, <2>2 DEF Simulates, Lines!vars
  <2>. QED BY <1>2, <1>4, <2>2, <2>3, <2>4, RowNamed DEF ShellInv
<1>. QED BY <1>6, <1>7

\* The line and the history stay, and so does the row or the cursor leaves it.
LEMMA StillStep ==
  ASSUME ShellInv, UNCHANGED <<text, history, recalled>>, shift_down' \in BOOLEAN,
         shown' \in {shown, AWAY}
  PROVE  ShellInv' /\ Simulates
<1>1. Text /\ Filled /\ Clean /\ RowOK BY DEF ShellInv
<1>2. Filled' /\ Past' = Past /\ Current' = Current BY <1>1, HistorySame
<1>3. Text' /\ Clean' /\ Line' = Line BY <1>1, Named DEF Text, TextOf, Clean, text
<1>4. RowOK' BY <1>1, <1>3, RowNamed DEF RowFor
<1>5. Simulates BY <1>2, <1>3 DEF Simulates, Lines!vars
<1>. QED BY <1>2, <1>3, <1>4, <1>5 DEF ShellInv

LEMMA InitInv ==
  ASSUME Init
  PROVE  ShellInv /\ Lines!Init
<1>1. buffer \in [Cells -> Byte] /\ \A i \in Cells : buffer[i] = NUL
  BY DEF Init, Cells, Byte
<1>2. 0 \in Cells /\ BUF - 1 \in Cells BY ConstantFacts DEF Cells
<1>3. buffer_length = 0 /\ Index = 0 /\ Current = 0 /\ shown = <<>> BY DEF Init
<1>4. Text /\ Line = <<>> BY <1>1, <1>2, <1>3, TextEmptied, Named DEF Text
<1>5. instruction_history_buffer = [i \in Places |-> NULL]
  BY DEF Init, Places, MAX
<1>6. NULL \in Seq(CHARS) BY DEF NULL
<1>7. instruction_history_buffer \in [Places -> Seq(CHARS)] BY <1>5, <1>6
<1>8. Filled
  <2>1. \A i \in Places : ~(i < 0) /\ instruction_history_buffer[i] = NULL
    BY <1>5 DEF Places
  <2>. QED BY <2>1, <1>3, <1>7, ConstantFacts DEF Filled, FilledOf
<1>9. Past = <<>>
  <2>1. 0 \in 0 .. MAX BY ConstantFacts
  <2>2. Past \in Seq(Seq(CHARS)) /\ Len(Past) = 0 BY <2>1, <1>3, <1>7, PastFacts, Named
  <2>. QED BY <2>2, EmptySeq
<1>10. RowOK
  <2>1. <<>> \in Seq(CHARS) OBVIOUS
  <2>. QED BY <2>1, <1>3, <1>4, RowEmpty, RowNamed
<1>11. Clean BY <1>1, <1>3 DEF Clean, Cells
<1>12. Lines!Init BY <1>3, <1>4, <1>9 DEF Lines!Init
<1>. QED BY <1>4, <1>8, <1>10, <1>11, <1>12 DEF ShellInv, Init

LEMMA ShellStep ==
  ASSUME ShellInv, [Next]_vars
  PROVE  ShellInv' /\ Simulates
<1>1. ASSUME NEW down \in BOOLEAN, shift(down) PROVE ShellInv' /\ Simulates
  BY <1>1, StillStep DEF shift
<1>2. CASE enter_key BY <1>2, EnterStep
<1>3. CASE up_key
  <2>1. kernel_user_input(UP) /\ shift_down' = shift_down BY <1>3 DEF up_key
  <2>2. user_shell_up BY <2>1 DEF kernel_user_input, type, UP, DOWN
  <2>. QED BY <2>1, <2>2, UpStep
<1>4. CASE down_key
  <2>1. kernel_user_input(DOWN) /\ shift_down' = shift_down BY <1>4 DEF down_key
  <2>2. user_shell_down BY <2>1 DEF kernel_user_input, type, UP, DOWN
  <2>. QED BY <2>1, <2>2, DownStep
<1>5. CASE backspace_key BY <1>5, BackspaceStep
<1>6. CASE cursor_key BY <1>6, StillStep DEF cursor_key, ShellInv
<1>7. ASSUME NEW k \in KEYS, letter_key(k) PROVE ShellInv' /\ Simulates
  <2>. DEFINE val == IF shift_down THEN shift_down_ascii[k] ELSE shift_up_ascii[k]
  <2>1. val \in CHARS BY DEF CHARS
  <2>2. kernel_user_input(val) /\ shift_down' = shift_down BY <1>7 DEF letter_key
  <2>. HIDE DEF val
  <2>. QED BY <2>1, <2>2, UpStep, DownStep, TypeStep DEF kernel_user_input
<1>8. CASE UNCHANGED vars BY <1>8, StillStep DEF vars, ShellInv
<1>. QED BY <1>1, <1>2, <1>3, <1>4, <1>5, <1>6, <1>7, <1>8 DEF Next

---------------------------------------------------------------------------
(***************************************************************************)
(* After any sequence of keys the buffer holds a line that ends where its   *)
(* length says, the array holds lines below its index and nothing above,    *)
(* and the row shows an end of the line.                                    *)
(***************************************************************************)
THEOREM ShellInvHolds == Spec => []ShellInv
<1>1. Init => ShellInv BY InitInv
<1>2. ShellInv /\ [Next]_vars => ShellInv' BY ShellStep
<1>. QED BY <1>1, <1>2, PTL DEF Spec

\* The buffer, its length and the indices of the history stay in their ranges.
THEOREM ShellTypeCorrect == Spec => []TypeOK
<1>1. ShellInv => TypeOK
  <2>. SUFFICES ASSUME ShellInv PROVE TypeOK OBVIOUS
  <2>1. Text /\ Filled /\ RowOK /\ shift_down \in BOOLEAN /\ recalled \in BOOLEAN BY DEF ShellInv
  <2>2. buffer \in [0 .. BUF - 1 -> CHARS \cup {NUL}] /\ buffer_length \in 0 .. BUF - 1
    BY <2>1 DEF Text, TextOf, Cells, Byte
  <2>3. /\ instruction_history_buffer \in [0 .. MAX - 1 -> Seq(CHARS)]
        /\ Index \in 0 .. MAX /\ Current \in 0 .. MAX
    BY <2>1, ConstantFacts DEF Filled, FilledOf, Places
  <2>. QED BY <2>1, <2>2, <2>3 DEF TypeOK, RowOK
<1>. QED BY <1>1, ShellInvHolds, PTL

\* Up and Down, at any place and with any number of lines entered, read lines only.
THEOREM HistoryIsFilled == Spec => []HistoryFilled
<1>1. ShellInv => HistoryFilled
  <2>. SUFFICES ASSUME ShellInv PROVE HistoryFilled OBVIOUS
  <2>1. Filled BY DEF ShellInv
  <2>2. Current <= Index BY <2>1, ConstantFacts DEF Filled, FilledOf
  <2>3. \A i \in Places : instruction_history_buffer[i] # NULL <=> i < Index
    BY <2>1, EntryAt
  <2>. QED BY <2>2, <2>3 DEF HistoryFilled, Places
<1>. QED BY <1>1, ShellInvHolds, PTL

\* The row never shows anything but the end of the line that Enter would take.
THEOREM RowEndsLine == Spec => []ShownEndsLine
<1>1. ShellInv => ShownEndsLine BY DEF ShellInv, RowOK
<1>. QED BY <1>1, ShellInvHolds, PTL

(***************************************************************************)
(* The buffer, the array of pointers and the two indices implement the line *)
(* editor with a history of LineHistory: each key is one of its steps, or   *)
(* none.                                                                    *)
(***************************************************************************)
THEOREM HistoryImplemented == Spec => ImplementsHistory
<1>1. Init => Lines!Init BY InitInv
<1>2. ShellInv /\ [Next]_vars => [Lines!Next]_(Lines!vars) BY ShellStep DEF Simulates
<1>. QED BY <1>1, <1>2, ShellInvHolds, PTL DEF Spec, ImplementsHistory, Lines!Spec

\* An empty piece of a sequence, and two pieces that are alike.
LEMMA EmptyPiece ==
  ASSUME NEW S, NEW s \in Seq(S), NEW i \in Nat, NEW j \in Nat, i > j, i > 0
  PROVE  SubSeq(s, i, j) = <<>>
<1>1. SubSeq(s, i, j) \in Seq(S) /\ Len(SubSeq(s, i, j)) = IF i <= j THEN j - i + 1 ELSE 0
  BY SubSeqProperties
<1>. QED BY <1>1, EmptySeq

LEMMA SamePiece ==
  ASSUME NEW S, NEW s \in Seq(S), NEW T, NEW t \in Seq(T), NEW i \in Nat, NEW j \in Nat,
         i > 0, i <= j, j <= Len(s), j <= Len(t), \A n \in i .. j : s[n] = t[n]
  PROVE  SubSeq(s, i, j) = SubSeq(t, i, j)
<1>. DEFINE U == S \cup T
            k == j - i + 1
<1>1. k \in Nat /\ \A n \in i .. j : s[n] \in S /\ t[n] \in T OBVIOUS
<1>2. /\ SubSeq(s, i, j) \in Seq(S) /\ Len(SubSeq(s, i, j)) = k
      /\ \A n \in 1 .. k : SubSeq(s, i, j)[n] = s[i + n - 1]
  BY <1>1, SubSeqProperties
<1>3. /\ SubSeq(t, i, j) \in Seq(T) /\ Len(SubSeq(t, i, j)) = k
      /\ \A n \in 1 .. k : SubSeq(t, i, j)[n] = t[i + n - 1]
  BY <1>1, SubSeqProperties
<1>4. \A n \in 1 .. k : i + n - 1 \in i .. j OBVIOUS
<1>5. \A n \in 1 .. k : SubSeq(s, i, j)[n] = SubSeq(t, i, j)[n] BY <1>2, <1>3, <1>4
<1>6. Seq(S) \subseteq Seq(U) /\ Seq(T) \subseteq Seq(U) OBVIOUS
<1>. HIDE DEF U, k
<1>. QED BY <1>2, <1>3, <1>5, <1>6, SeqEqual

(***************************************************************************)
(* Until a line is recalled, a command gets the typed characters behind its *)
(* name and a space for its arguments, and nothing of an earlier line.      *)
(***************************************************************************)
THEOREM ArgumentsAreTyped == Spec => []ArgsAreTyped
<1>1. ShellInv => ArgsAreTyped
  <2>. SUFFICES ASSUME ShellInv, ~recalled, NEW c \in Matching
                PROVE  Args(c) = SubSeq(Line, Len(COMMANDS[c]) + 2, buffer_length)
    BY DEF ArgsAreTyped
  <2>. DEFINE k == Len(COMMANDS[c])
              n == buffer_length
              p == (k + 1) + 1
  <2>1. Text /\ Clean BY DEF ShellInv
  <2>2. /\ Line \in Seq(CHARS) /\ Len(Line) = n /\ String(0) = Line /\ n \in Nat /\ BUF \in Nat
        /\ n > 0 => n <= BUF - 2
    BY <2>1, LineNow, ConstantFacts
  <2>3. k \in 1 .. BUF - 2 /\ k <= n
    BY <2>2, ShellConstants DEF Matching, BeginsWith
  <2>4. n <= BUF - 2 /\ k \in Nat /\ k >= 1 BY <2>2, <2>3
  <2>5. buffer \in [Cells -> Byte] /\ buffer[n] = NUL /\ \A i \in 0 .. n - 1 : buffer[i] \in CHARS
    BY <2>1 DEF Text, TextOf
  <2>6. \A i \in n .. BUF - 1 : buffer[i] = NUL BY <2>1 DEF Clean
  <2>7. /\ Memory \in Seq(Byte) /\ Len(Memory) = BUF
        /\ \A i \in 1 .. BUF : Memory[i] = buffer[i - 1]
    BY <2>5, MemoryFacts, Named
  <2>8. \A i \in 1 .. n : Line[i] = Memory[i]
    <3>1. \A i \in 1 .. n : Line[i] = buffer[i - 1] BY <2>1, LineFacts, Named DEF Text
    <3>2. \A i \in 1 .. n : i \in 1 .. BUF BY <2>2, <2>4
    <3>. QED BY <3>1, <3>2, <2>7
  <2>9. Args(c) = SubSeq(Memory, p, p + string_length(Memory, p) - 1)
    BY DEF Args, String, StringAt
  <2>10. p \in 1 .. BUF BY <2>2, <2>3, <2>4
  <2>. HIDE DEF k
  <2>11. CASE k < n
    <3>. DEFINE q == n - k - 1
    <3>1. q \in 0 .. BUF - p /\ p + q = n + 1 /\ n + 1 \in 1 .. BUF /\ (n + 1) - 1 = n
      BY <2>11, <2>2, <2>4
    <3>2. Memory[p + q] = NUL BY <3>1, <2>5, <2>7
    <3>3. ASSUME NEW i \in 0 .. q - 1 PROVE Memory[p + i] # NUL
      <4>1. p + i \in 1 .. BUF /\ (p + i) - 1 \in 0 .. n - 1 BY <2>2, <2>4, <2>11
      <4>. QED BY <4>1, <2>5, <2>7, ConstantFacts
    <3>4. string_length(Memory, p) = q
      <4>. HIDE DEF p, q
      <4>. QED BY <3>1, <3>2, <3>3, <2>2, <2>7, <2>10, LengthIs
    <3>5. Args(c) = SubSeq(Memory, p, n) BY <3>1, <3>4, <2>9, <2>2, <2>4
    <3>6. p = k + 2 BY <2>4
    <3>7. CASE p <= n
      <4>1. \A i \in p .. n : Line[i] = Memory[i] BY <2>8, <2>10, <2>2
      <4>. HIDE DEF p
      <4>2. SubSeq(Line, p, n) = SubSeq(Memory, p, n)
        BY <4>1, <3>7, <2>2, <2>4, <2>7, <2>10, SamePiece
      <4>. QED BY <4>2, <3>5, <3>6 DEF k
    <3>8. CASE ~(p <= n)
      <4>1. p \in Nat /\ p > n /\ p > 0 BY <3>8, <2>10, <2>2
      <4>. HIDE DEF p
      <4>2. SubSeq(Line, p, n) = <<>> /\ SubSeq(Memory, p, n) = <<>>
        BY <4>1, <2>2, <2>7, EmptyPiece
      <4>. QED BY <4>2, <3>5, <3>6 DEF k
    <3>. QED BY <3>7, <3>8
  <2>12. CASE k = n
    <3>1. p = n + 2 /\ p - 1 = n + 1 /\ p - 1 \in n .. BUF - 1 /\ 0 \in 0 .. BUF - p
      BY <2>12, <2>2, <2>4
    <3>2. Memory[p + 0] = NUL
      <4>1. p + 0 = p BY <2>10
      <4>. QED BY <4>1, <3>1, <2>6, <2>7, <2>10
    <3>3. string_length(Memory, p) = 0
      <4>1. PICK z \in 0 .. 0 : TRUE OBVIOUS
      <4>. HIDE DEF p
      <4>2. /\ z = 0 /\ z \in 0 .. Len(Memory) - p /\ p \in 1 .. Len(Memory)
            /\ Memory[p + z] = NUL
        BY <3>1, <3>2, <2>2, <2>7, <2>10
      <4>3. \A i \in 0 .. z - 1 : Memory[p + i] # NUL BY <4>2
      <4>4. Len(Memory) \in Nat BY <2>2, <2>7
      <4>5. string_length(Memory, p) = z BY <4>2, <4>3, <4>4, LengthIs
      <4>. QED BY <4>2, <4>5
    <3>4. Args(c) = SubSeq(Memory, n + 2, n + 1)
      <4>1. p + string_length(Memory, p) - 1 = n + 1 BY <3>1, <3>3, <2>2
      <4>. QED BY <4>1, <3>1, <2>9
    <3>5. SubSeq(Memory, n + 2, n + 1) = <<>> /\ SubSeq(Line, n + 2, n) = <<>>
      BY <2>2, <2>7, EmptyPiece
    <3>6. SubSeq(Line, k + 2, n) = <<>> BY <3>5, <2>12
    <3>. QED BY <3>4, <3>5, <3>6 DEF k
  <2>13. k < n \/ k = n BY <2>2, <2>3, <2>4
  <2>. QED BY <2>11, <2>12, <2>13
<1>. QED BY <1>1, ShellInvHolds, PTL
---------------------------------------------------------------------------
(* What LineHistory keeps, for Shell's line, history and place. *)
NonEmpty == Seq(CHARS) \ {<<>>}
PlaceInv == Line \in Seq(CHARS) /\ Lines!PlaceInPast

LEMMA PlaceFacts ==
  ASSUME PlaceInv
  PROVE  /\ Past \in Seq(NonEmpty) /\ Len(Past) \in Nat /\ Len(Past) <= MAX
         /\ \A i \in 1 .. Len(Past) : Past[i] \in NonEmpty
         /\ Current + 1 \in 1 .. Len(Past) + 1
BY DEF PlaceInv, Lines!PlaceInPast, NonEmpty

LEMMA PlaceEntered ==
  ASSUME MAX \in Nat \ {0}, PlaceInv, Lines!Enter
  PROVE  PlaceInv'
<1>1. Line \in NonEmpty /\ Line' = <<>> BY DEF Lines!Enter, PlaceInv, NonEmpty
<1>2. Lines!Kept \in Seq(NonEmpty) /\ Len(Lines!Kept) \in 0 .. MAX - 1
  <2>1. CASE Len(Past) < MAX BY <2>1, PlaceFacts DEF Lines!Kept
  <2>2. CASE ~(Len(Past) < MAX)
    <3>1. Len(Past) = MAX /\ Past # <<>>
      <4>1. Len(Past) = MAX
        <5>1. Len(Past) \in Nat /\ Len(Past) <= MAX BY PlaceFacts
        <5>. QED BY <5>1, <2>2
      <4>2. Past = <<>> => Len(Past) = 0 OBVIOUS
      <4>. QED BY <4>1, <4>2
    <3>2. Tail(Past) \in Seq(NonEmpty) /\ Len(Tail(Past)) = Len(Past) - 1
      BY <3>1, PlaceFacts, HeadTailProperties
    <3>. QED BY <3>1, <3>2, <2>2 DEF Lines!Kept
  <2>. QED BY <2>1, <2>2
<1>3. Past' = Append(Lines!Kept, Line) /\ (Current + 1)' = Len(Past') + 1 BY DEF Lines!Enter
<1>4. Past' \in Seq(NonEmpty) /\ Len(Past') = Len(Lines!Kept) + 1
  BY <1>1, <1>2, <1>3, AppendProperties
<1>. QED BY <1>1, <1>2, <1>3, <1>4 DEF PlaceInv, Lines!PlaceInPast, NonEmpty

LEMMA PlaceRecalled ==
  ASSUME PlaceInv, Lines!Up \/ Lines!Down
  PROVE  PlaceInv'
<1>1. Past' = Past BY DEF Lines!Up, Lines!Down
<1>2. (Current + 1)' \in 1 .. Len(Past) + 1 BY PlaceFacts DEF Lines!Up, Lines!Down
<1>3. Line' \in Seq(CHARS)
  <2>1. Line' = <<>> \/ ((Current + 1)' \in 1 .. Len(Past) /\ Line' = Past[(Current + 1)'])
    <3>1. CASE Lines!Up
      <4>1. Past = <<>> \/ Len(Past) # 0 BY PlaceFacts, EmptySeq
      <4>. QED BY <3>1, <4>1, PlaceFacts DEF Lines!Up
    <3>2. CASE Lines!Down BY <3>2, <1>2, PlaceFacts DEF Lines!Down
    <3>. QED BY <3>1, <3>2
  <2>2. \A i \in 1 .. Len(Past) : Past[i] \in Seq(CHARS) BY PlaceFacts DEF NonEmpty
  <2>3. <<>> \in Seq(CHARS) OBVIOUS
  <2>. QED BY <2>1, <2>2, <2>3
<1>. QED BY <1>1, <1>2, <1>3 DEF PlaceInv, Lines!PlaceInPast

(***************************************************************************)
(* In the line editor that Shell implements, the place is in the history or *)
(* right behind it, and at most MAX lines, none of them empty, are kept:    *)
(* what push_instruction_history and the two indices are for.              *)
(***************************************************************************)
THEOREM PlaceStaysInPast ==
  ASSUME MAX \in Nat \ {0}
  PROVE  Lines!Spec => []Lines!PlaceInPast
<1>1. Lines!Init => PlaceInv BY DEF Lines!Init, PlaceInv, Lines!PlaceInPast
<1>2. PlaceInv /\ [Lines!Next]_(Lines!vars) => PlaceInv'
  <2>. SUFFICES ASSUME PlaceInv, [Lines!Next]_(Lines!vars) PROVE PlaceInv' OBVIOUS
  <2>1. ASSUME NEW c \in CHARS, Lines!Type(c) PROVE PlaceInv'
    BY <2>1 DEF Lines!Type, PlaceInv, Lines!PlaceInPast
  <2>2. CASE Lines!Erase
    <3>1. Line' \in Seq(CHARS) BY <2>2, SubSeqProperties DEF Lines!Erase, PlaceInv
    <3>. QED BY <3>1, <2>2 DEF Lines!Erase, PlaceInv, Lines!PlaceInPast
  <2>3. CASE UNCHANGED Lines!vars BY <2>3 DEF Lines!vars, PlaceInv, Lines!PlaceInPast
  <2>. QED BY <2>1, <2>2, <2>3, PlaceEntered, PlaceRecalled DEF Lines!Next
<1>3. PlaceInv => Lines!PlaceInPast BY DEF PlaceInv
<1>. QED BY <1>1, <1>2, <1>3, PTL DEF Lines!Spec

(***************************************************************************)
(* And so in the shell, whatever keys are pressed.                          *)
(***************************************************************************)
THEOREM ShellPlaceInPast == Spec => []Lines!PlaceInPast
<1>1. MAX \in Nat \ {0} BY ShellConstants DEF MAX, ShellConstants
<1>2. Lines!Spec => []Lines!PlaceInPast BY <1>1, PlaceStaysInPast
<1>. QED BY <1>2, HistoryImplemented, PTL DEF ImplementsHistory
---------------------------------------------------------------------------
(* Repeating a step: what the recursive function of a round is. *)

\* A set of numbers has a least one.
LEMMA LeastIs ==
  ASSUME NEW S \in SUBSET Nat, S # {}
  PROVE  \E k \in S : \A n \in S : k <= n
<1>. DEFINE less == OpToRel(<, Nat)
<1>1. IsWellFoundedOn(less, Nat) BY NatLessThanWellFounded
<1>. HIDE DEF less
<1>2. PICK x \in S : \A y \in S : ~(<<y, x>> \in less) BY <1>1, WFMin
<1>3. ASSUME NEW y \in S PROVE x <= y
  <2>1. <<y, x>> \in Nat \X Nat /\ <<y, x>>[1] = y /\ <<y, x>>[2] = x OBVIOUS
  <2>2. y < x => <<y, x>> \in less BY <2>1 DEF less, OpToRel
  <2>. QED BY <1>2, <2>2
<1>. QED BY <1>3

\* A set that holds 0 and with a number its successor holds all.
LEMMA Induct ==
  ASSUME NEW S \in SUBSET Nat, 0 \in S, \A n \in S : n + 1 \in S
  PROVE  Nat \subseteq S
<1>. SUFFICES ASSUME Nat \ S # {} PROVE FALSE OBVIOUS
<1>1. PICK x \in Nat \ S : \A y \in Nat \ S : x <= y
  <2>. DEFINE T == Nat \ S
  <2>1. T \in SUBSET Nat /\ T # {} OBVIOUS
  <2>. HIDE DEF T
  <2>2. \E x \in T : \A y \in T : x <= y BY <2>1, LeastIs
  <2>. QED BY <2>2 DEF T
<1>2. x - 1 \in Nat /\ x - 1 \in S BY <1>1
<1>. QED BY <1>2

Iteration(n, b, step, f) ==
  f = [i \in 0 .. n |-> IF i = 0 THEN b ELSE step[<<f[i - 1], i>>]]

LEMMA Iterates ==
  ASSUME NEW n \in Nat, NEW S, NEW b \in S, NEW step \in [S \X (1 .. n) -> S]
  PROVE  \E f \in [0 .. n -> S] : Iteration(n, b, step, f)
<1>. DEFINE Repeats(f, k) ==
       \A i \in 0 .. k : f[i] = IF i = 0 THEN b ELSE step[<<f[i - 1], i>>]
     T == {k \in Nat : k <= n => \E f \in [0 .. k -> S] : Repeats(f, k)}
<1>1. 0 \in T
  <2>1. [i \in 0 .. 0 |-> b] \in [0 .. 0 -> S] /\ Repeats([i \in 0 .. 0 |-> b], 0) OBVIOUS
  <2>. QED BY <2>1
<1>2. ASSUME NEW k \in T PROVE k + 1 \in T
  <2>. SUFFICES ASSUME k + 1 <= n PROVE \E f \in [0 .. k + 1 -> S] : Repeats(f, k + 1)
    OBVIOUS
  <2>1. PICK f \in [0 .. k -> S] : Repeats(f, k) OBVIOUS
  <2>. DEFINE g == [i \in 0 .. k + 1 |-> IF i <= k THEN f[i] ELSE step[<<f[k], k + 1>>]]
  <2>2. f[k] \in S /\ step[<<f[k], k + 1>>] \in S
    <3>1. k \in 0 .. k /\ k + 1 \in 1 .. n OBVIOUS
    <3>2. <<f[k], k + 1>> \in S \X (1 .. n) BY <3>1
    <3>. QED BY <3>1, <3>2
  <2>3. g \in [0 .. k + 1 -> S]
    <3>1. ASSUME NEW i \in 0 .. k + 1 PROVE g[i] \in S BY <2>2
    <3>. QED BY <3>1
  <2>4. ASSUME NEW i \in 0 .. k + 1
        PROVE  g[i] = IF i = 0 THEN b ELSE step[<<g[i - 1], i>>]
    <3>1. CASE i <= k
      <4>1. i \in 0 .. k /\ (i # 0 => i - 1 \in 0 .. k) BY <3>1
      <4>2. g[i] = f[i] /\ (i # 0 => g[i - 1] = f[i - 1]) BY <4>1
      <4>3. f[i] = IF i = 0 THEN b ELSE step[<<f[i - 1], i>>] BY <2>1, <4>1
      <4>. QED BY <4>2, <4>3
    <3>2. CASE i = k + 1
      <4>1. g[i] = step[<<f[k], k + 1>>] /\ g[k] = f[k] /\ i - 1 = k /\ i # 0 BY <3>2
      <4>. QED BY <3>2, <4>1
    <3>. QED BY <3>1, <3>2
  <2>. QED BY <2>3, <2>4
<1>3. n \in T
  <2>. HIDE DEF T
  <2>1. T \in SUBSET Nat BY DEF T
  <2>. QED BY <1>1, <1>2, <2>1, Induct
<1>4. PICK f \in [0 .. n -> S] : Repeats(f, n) BY <1>3
<1>5. f = [i \in 0 .. n |-> f[i]] OBVIOUS
<1>6. [i \in 0 .. n |-> f[i]]
        = [i \in 0 .. n |-> IF i = 0 THEN b ELSE step[<<f[i - 1], i>>]]
  BY <1>4
<1>. QED BY <1>5, <1>6 DEF Iteration
---------------------------------------------------------------------------
(* parse_string_spaces over a buffer whose last byte is NUL. *)
BufferOf(m) == m \in Seq(Byte) /\ Len(m) > 0 /\ m[Len(m)] = NUL

\* Where a round that starts at place k ends.
Ends == {NUL, SPACE}
Stop(m, k) == IF k > Len(m) THEN k ELSE Min({n \in k .. Len(m) : m[n] \in Ends})

LEMMA StopFacts ==
  ASSUME NEW m, BufferOf(m), NEW k \in Nat, k > 0
  PROVE  /\ Stop(m, k) \in Nat /\ Stop(m, k) >= k
         /\ k <= Len(m) => /\ Stop(m, k) <= Len(m) /\ m[Stop(m, k)] \in Ends
                           /\ \A n \in k .. Len(m) : m[n] \in Ends => Stop(m, k) <= n
<1>1. Len(m) \in Nat /\ m[Len(m)] \in Ends BY DEF BufferOf, Ends
<1>2. CASE k > Len(m) BY <1>1, <1>2 DEF Stop
<1>3. CASE ~(k > Len(m))
  <2>. DEFINE S == {n \in k .. Len(m) : m[n] \in Ends}
  <2>1. S \in SUBSET Nat /\ S # {} /\ \A n \in S : n >= k /\ n <= Len(m) /\ m[n] \in Ends
    <3>1. Len(m) \in S BY <1>1, <1>3
    <3>. QED BY <3>1
  <2>2. Stop(m, k) = Min(S) BY <1>3 DEF Stop
  <2>3. \A n \in k .. Len(m) : m[n] \in Ends => n \in S OBVIOUS
  <2>. HIDE DEF S
  <2>4. PICK e \in S : \A n \in S : e <= n BY <2>1, LeastIs
  <2>5. Min(S) = e BY <2>1, <2>4, MinIs
  <2>6. e \in Nat BY <2>1
  <2>. QED BY <2>1, <2>2, <2>3, <2>4, <2>5, <2>6
<1>. QED BY <1>2, <1>3

LEMMA LengthFacts ==
  ASSUME NEW m, BufferOf(m), NEW p \in 1 .. Len(m)
  PROVE  \E n \in 0 .. Len(m) - p :
           /\ string_length(m, p) = n /\ m[p + n] = NUL
           /\ \A i \in 0 .. n - 1 : m[p + i] # NUL
<1>1. Len(m) \in Nat /\ m[Len(m)] = NUL BY DEF BufferOf
<1>. DEFINE S == {n \in 0 .. Len(m) - p : m[p + n] = NUL}
<1>2. Len(m) - p \in S
  <2>1. p + (Len(m) - p) = Len(m) /\ Len(m) - p \in 0 .. Len(m) - p BY <1>1
  <2>. QED BY <1>1, <2>1
<1>3. S \in SUBSET Nat /\ S # {}
  <2>1. \A n \in 0 .. Len(m) - p : n \in Nat OBVIOUS
  <2>. QED BY <1>2, <2>1
<1>4. PICK n \in S : \A i \in S : n <= i
  <2>. HIDE DEF S
  <2>. QED BY <1>3, LeastIs
<1>5. n \in 0 .. Len(m) - p /\ m[p + n] = NUL OBVIOUS
<1>6. ASSUME NEW i \in 0 .. n - 1 PROVE m[p + i] # NUL
  <2>1. i \in 0 .. Len(m) - p /\ ~(n <= i) BY <1>1, <1>5
  <2>. QED BY <2>1, <1>4
<1>7. string_length(m, p) = n BY <1>1, <1>5, <1>6, LengthIs
<1>. QED BY <1>5, <1>6, <1>7
---------------------------------------------------------------------------
\* The cuts of a string, by how many are before them.
Rank(s, c) == Cardinality({d \in Cuts(s) : d < c})

LEMMA CutsFacts ==
  ASSUME NEW s \in Seq(Byte)
  PROVE  /\ Cuts(s) \in SUBSET Nat /\ IsFiniteSet(Cuts(s))
         /\ 0 \in Cuts(s) /\ Len(s) + 1 \in Cuts(s)
         /\ \A c \in Cuts(s) : c <= Len(s) + 1 /\ Rank(s, c) \in Nat
         /\ \A c \in Cuts(s) : c \notin {0, Len(s) + 1} <=> c \in 1 .. Len(s)
         /\ \A c \in 1 .. Len(s) : c \in Cuts(s) <=> s[c] = SPACE
<1>1. Len(s) \in Nat /\ DOMAIN s = 1 .. Len(s) OBVIOUS
<1>2. /\ Cuts(s) \in SUBSET (0 .. Len(s) + 1)
      /\ 0 \in Cuts(s) /\ Len(s) + 1 \in Cuts(s)
      /\ \A c \in 1 .. Len(s) : c \in Cuts(s) <=> s[c] = SPACE
  BY <1>1 DEF Cuts
<1>3. IsFiniteSet(Cuts(s))
  <2>1. IsFiniteSet(0 .. Len(s) + 1) BY <1>1, FS_Interval
  <2>. QED BY <2>1, <1>2, FS_Subset
<1>4. ASSUME NEW c \in Cuts(s) PROVE Rank(s, c) \in Nat
  <2>1. {d \in Cuts(s) : d < c} \subseteq Cuts(s) OBVIOUS
  <2>2. IsFiniteSet({d \in Cuts(s) : d < c}) BY <2>1, <1>3, FS_Subset
  <2>. QED BY <2>2, FS_CardinalityType DEF Rank
<1>5. \A c \in 0 .. Len(s) + 1 : /\ c \in Nat /\ c <= Len(s) + 1
                                 /\ c \notin {0, Len(s) + 1} <=> c \in 1 .. Len(s)
  BY <1>1
<1>. QED BY <1>2, <1>3, <1>4, <1>5

\* The rank says which cut it is.
LEMMA RankIs ==
  ASSUME NEW s \in Seq(Byte), NEW c \in Cuts(s)
  PROVE  /\ Cut(s, Rank(s, c)) = c
         /\ \A d \in Cuts(s) : Rank(s, d) = Rank(s, c) => d = c
<1>1. Cuts(s) \in SUBSET Nat /\ IsFiniteSet(Cuts(s)) BY CutsFacts
<1>. DEFINE Below(x) == {d \in Cuts(s) : d < x}
<1>2. ASSUME NEW x \in Cuts(s), NEW y \in Cuts(s), x < y
      PROVE  Cardinality(Below(x)) # Cardinality(Below(y))
  <2>1. x \in Nat /\ y \in Nat BY <1>1
  <2>2. Below(x) \subseteq Below(y) /\ x \in Below(y) /\ x \notin Below(x) BY <1>1, <1>2, <2>1
  <2>3. IsFiniteSet(Below(y)) BY <1>1, FS_Subset
  <2>4. Below(x) # Below(y) BY <2>2
  <2>. HIDE DEF Below
  <2>. QED BY <2>2, <2>3, <2>4, FS_Subset
<1>3. \A d \in Cuts(s) : Rank(s, d) = Rank(s, c) => d = c
  <2>. SUFFICES ASSUME NEW d \in Cuts(s), Rank(s, d) = Rank(s, c), d # c PROVE FALSE OBVIOUS
  <2>1. d < c \/ c < d BY <1>1
  <2>. QED BY <2>1, <1>2 DEF Rank
<1>4. \A d \in Cuts(s) : Cardinality({x \in Cuts(s) : x < d}) = Rank(s, c) => d = c
  BY <1>3 DEF Rank
<1>5. Cardinality({x \in Cuts(s) : x < c}) = Rank(s, c) BY DEF Rank
<1>6. Cut(s, Rank(s, c)) = c
  <2>. DEFINE k == Rank(s, c)
  <2>1. \A d \in Cuts(s) : Cardinality({x \in Cuts(s) : x < d}) = k => d = c BY <1>4
  <2>2. Cardinality({x \in Cuts(s) : x < c}) = k BY <1>5
  <2>. HIDE DEF k
  <2>. QED BY <2>1, <2>2 DEF Cut, k
<1>. QED BY <1>3, <1>6

\* The first cut, the last, and the next.
LEMMA RankEnds ==
  ASSUME NEW s \in Seq(Byte)
  PROVE  /\ Rank(s, 0) = 0 /\ Rank(s, Len(s) + 1) = Cardinality(Cuts(s)) - 1
         /\ Cardinality(Cuts(s)) \in Nat /\ Cardinality(Cuts(s)) >= 2
<1>. DEFINE C == Cuts(s)
            n == Len(s) + 1
<1>1. /\ C \in SUBSET Nat /\ IsFiniteSet(C) /\ n \in C /\ 0 \in C /\ n # 0
      /\ \A c \in C : c <= n
  BY CutsFacts
<1>2. n \in Nat OBVIOUS
<1>. HIDE DEF C, n
<1>3. {d \in C : d < 0} = {}
  <2>1. \A d \in C : ~(d < 0) BY <1>1
  <2>. QED BY <2>1
<1>4. {d \in C : d < n} = C \ {n}
  <2>1. \A d \in C : d < n <=> d # n
    <3>1. \A d \in C : d \in Nat /\ d <= n BY <1>1
    <3>. QED BY <1>2, <3>1
  <2>. QED BY <2>1
<1>5. /\ IsFiniteSet(C \ {n}) /\ Cardinality(C \ {n}) = Cardinality(C) - 1
      /\ Cardinality(C) \in Nat /\ Cardinality(C \ {n}) \in Nat
  BY <1>1, FS_RemoveElement, FS_CardinalityType
<1>6. C \ {n} # {} BY <1>1
<1>7. Cardinality(C \ {n}) # 0 BY <1>5, <1>6, FS_EmptySet
<1>8. Rank(s, 0) = 0 BY <1>3, FS_EmptySet DEF Rank, C
<1>9. Rank(s, n) = Cardinality(C) - 1 BY <1>4, <1>5 DEF Rank, C
<1>. QED BY <1>5, <1>7, <1>8, <1>9 DEF C, n

LEMMA RankNext ==
  ASSUME NEW s \in Seq(Byte), NEW b \in Cuts(s), NEW c \in Cuts(s), b < c,
         \A d \in Cuts(s) : ~(b < d /\ d < c)
  PROVE  Rank(s, c) = Rank(s, b) + 1
<1>. DEFINE C == Cuts(s)
            B == {d \in C : d < b}
<1>1. C \in SUBSET Nat /\ IsFiniteSet(C) BY CutsFacts
<1>2. {d \in C : d < c} = B \cup {b}
  <2>1. \A d \in C : d \in Nat /\ b \in Nat /\ c \in Nat /\ ~(b < d /\ d < c) BY <1>1
  <2>2. \A d \in C : d < c <=> (d < b \/ d = b) BY <2>1
  <2>. QED BY <2>2
<1>3. b \notin B /\ IsFiniteSet(B)
  <2>1. B \subseteq C /\ ~(b < b) BY <1>1
  <2>. QED BY <1>1, <2>1, FS_Subset
<1>. HIDE DEF B
<1>4. Cardinality(B \cup {b}) = Cardinality(B) + 1 BY <1>3, FS_AddElement
<1>. QED BY <1>2, <1>4 DEF Rank, B
---------------------------------------------------------------------------
\* The rounds of parse_string_spaces over the string s at place p of m, its length n.
States == [values : Nat, string_size : Int, location_start : Nat, location_end : Nat,
           failed : BOOLEAN]
First(m, p) == [values |-> p, string_size |-> string_length(m, p), location_start |-> p,
                location_end |-> p, failed |-> FALSE]

Parses(m, p, n, s) ==
  /\ BufferOf(m) /\ p \in 1 .. Len(m) /\ n \in 0 .. Len(m) - p
  /\ m[p + n] = NUL /\ \A i \in 0 .. n - 1 : m[p + i] # NUL
  /\ string_length(m, p) = n
  /\ s \in Seq(Byte) /\ Len(s) = n /\ \A i \in 1 .. n : s[i] = m[p + i - 1]

LEMMA ParsesFacts ==
  ASSUME NEW m, NEW p, NEW n, NEW s, Parses(m, p, n, s)
  PROVE  /\ p \in Nat /\ p > 0 /\ n \in Nat /\ Len(m) \in Nat /\ p + n <= Len(m) /\ m \in Seq(Byte)
         /\ BufferOf(m) /\ m[p + n] = NUL /\ s \in Seq(Byte) /\ Len(s) = n
         /\ \A i \in 0 .. n - 1 : m[p + i] # NUL
         /\ \A i \in 1 .. n : s[i] = m[p + i - 1]
         /\ string_length(m, p) = n
BY DEF Parses, BufferOf

\* A round, with its start and its end by name.
RoundFrom(r, k, e) ==
  [values |-> e, string_size |-> r.string_size - (e - r.values), location_start |-> k,
   location_end |-> IF e > k THEN e - 1 ELSE r.location_end,
   failed |-> r.failed \/ r.string_size < 0 \/ (r.string_size - (e - r.values) < 0 /\ e > k)]

LEMMA RoundIs ==
  ASSUME NEW m, BufferOf(m), NEW r \in States, NEW i \in Nat, r.values > 0
  PROVE  \E k \in Nat, e \in Nat :
           /\ k = IF i > 1 THEN r.values + 1 ELSE r.values
           /\ k > 0 /\ e = Stop(m, k) /\ e >= k
           /\ Round(m, r, i) = RoundFrom(r, k, e) /\ Round(m, r, i) \in States
<1>. DEFINE k == IF i > 1 THEN r.values + 1 ELSE r.values
            e == Stop(m, k)
<1>1. r.values \in Nat /\ r.string_size \in Int /\ r.location_end \in Nat /\ r.failed \in BOOLEAN
  BY DEF States
<1>2. k \in Nat /\ k > 0 BY <1>1
<1>3. e \in Nat /\ e >= k
  <2>. HIDE DEF k
  <2>. QED BY <1>2, StopFacts
<1>4. Round(m, r, i) = RoundFrom(r, k, e) BY DEF Round, RoundFrom, Stop, Ends
<1>. HIDE DEF k, e
<1>5. RoundFrom(r, k, e) \in States
  <2>1. r.string_size - (e - r.values) \in Int BY <1>1, <1>3
  <2>2. (IF e > k THEN e - 1 ELSE r.location_end) \in Nat BY <1>1, <1>2, <1>3
  <2>3. (r.failed \/ r.string_size < 0 \/ (r.string_size - (e - r.values) < 0 /\ e > k))
          \in BOOLEAN
    OBVIOUS
  <2>. QED BY <1>2, <1>3, <2>1, <2>2, <2>3 DEF RoundFrom, States
<1>. QED BY <1>2, <1>3, <1>4, <1>5 DEF k, e

\* What holds of the state after round i, of K that end at a cut.
Sized(r, p, n) ==
  /\ r \in States /\ r.string_size = n + p - r.values /\ p <= r.values
  /\ r.location_end <= r.values
AtCut(r, p, s, i) ==
  \E b, c \in Cuts(s) :
    /\ Rank(s, b) = i - 1 /\ Rank(s, c) = i /\ b < c
    /\ r.values = p - 1 + c /\ r.location_start = p + b
    /\ IF c > b + 1 THEN r.location_end = r.values - 1 ELSE r.location_start >= r.location_end
Rounded(r, p, n, s, i) ==
  /\ Sized(r, p, n)
  /\ i = 0 => r.values = p /\ r.failed = FALSE /\ r.location_start >= r.location_end
  /\ i \in 1 .. Cardinality(Cuts(s)) - 1 => r.failed = FALSE /\ AtCut(r, p, s, i)
  /\ i >= Cardinality(Cuts(s)) =>
       r.values > p + n /\ (r.failed = TRUE \/ r.location_start >= r.location_end)

LEMMA FirstRounded ==
  ASSUME NEW m, NEW p, NEW n, NEW s, Parses(m, p, n, s)
  PROVE  First(m, p) \in States /\ Rounded(First(m, p), p, n, s, 0)
<1>1. p \in Nat /\ n \in Nat /\ string_length(m, p) = n /\ s \in Seq(Byte) BY ParsesFacts
<1>2. First(m, p) = [values |-> p, string_size |-> n, location_start |-> p,
                     location_end |-> p, failed |-> FALSE]
  BY <1>1 DEF First
<1>. DEFINE r == First(m, p)
<1>3. /\ r \in States /\ r.values = p /\ r.string_size = n /\ r.location_start = p
      /\ r.location_end = p /\ r.failed = FALSE
  BY <1>1, <1>2 DEF States
<1>. HIDE DEF r
<1>4. Sized(r, p, n) BY <1>1, <1>3 DEF Sized
<1>5. ~(0 >= Cardinality(Cuts(s))) /\ 0 \notin 1 .. Cardinality(Cuts(s)) - 1 BY <1>1, RankEnds
<1>6. r.location_start >= r.location_end BY <1>1, <1>3
<1>. QED BY <1>3, <1>4, <1>5, <1>6 DEF Rounded, r
\* A round that does not come from the last cut ends at the next one.
LEMMA NextCut ==
  ASSUME NEW m, NEW p, NEW n, NEW s, Parses(m, p, n, s),
         NEW b \in Cuts(s), b # n + 1, NEW e, e = Stop(m, p + b)
  PROVE  \E c \in Cuts(s) :
           /\ c \in Nat /\ e = p - 1 + c /\ e \in Nat /\ b < c /\ c <= n + 1
           /\ Rank(s, c) = Rank(s, b) + 1
<1>1. /\ p \in Nat /\ p > 0 /\ n \in Nat /\ Len(m) \in Nat /\ p + n <= Len(m)
      /\ BufferOf(m) /\ m[p + n] = NUL /\ s \in Seq(Byte) /\ Len(s) = n
      /\ \A i \in 0 .. n - 1 : m[p + i] # NUL
      /\ \A i \in 1 .. n : s[i] = m[p + i - 1]
  BY ParsesFacts
<1>2. /\ b \in Nat /\ b <= n
      /\ \A c \in Cuts(s) : c \in Nat /\ c <= n + 1
      /\ n + 1 \in Cuts(s)
      /\ \A c \in 1 .. n : c \in Cuts(s) <=> s[c] = SPACE
  <2>1. /\ Cuts(s) \in SUBSET Nat /\ Len(s) + 1 \in Cuts(s)
        /\ \A c \in Cuts(s) : c <= Len(s) + 1
        /\ \A c \in 1 .. Len(s) : c \in Cuts(s) <=> s[c] = SPACE
    BY ONLY <1>1, CutsFacts
  <2>2. /\ \A c \in Cuts(s) : c \in Nat /\ c <= n + 1
        /\ n + 1 \in Cuts(s)
        /\ \A c \in 1 .. n : c \in Cuts(s) <=> s[c] = SPACE
    BY ONLY <2>1, <1>1
  <2>3. b \in Nat /\ b <= n + 1 BY ONLY <2>2, b \in Cuts(s)
  <2>4. b <= n BY ONLY <2>3, b # n + 1, <1>1
  <2>. QED BY <2>2, <2>3, <2>4
<1>. DEFINE k == p + b
<1>3. k \in Nat /\ k > 0 /\ k <= Len(m) /\ k <= p + n /\ p + n \in k .. Len(m) BY <1>1, <1>2
<1>4. /\ e \in Nat /\ e >= k /\ e <= Len(m) /\ m[e] \in Ends
      /\ \A x \in k .. Len(m) : m[x] \in Ends => e <= x
  <2>. HIDE DEF k
  <2>1. e = Stop(m, k) BY DEF k
  <2>. QED BY <1>1, <1>3, <2>1, StopFacts
<1>5. e <= p + n BY <1>1, <1>3, <1>4 DEF Ends
<1>. DEFINE c == e - p + 1
<1>6. c \in Nat /\ e = p - 1 + c /\ b < c /\ c <= n + 1 BY <1>1, <1>2, <1>3, <1>4, <1>5
<1>7. c \in Cuts(s)
  <2>1. CASE e = p + n
    <3>1. c = n + 1 BY <2>1, <1>1
    <3>. QED BY <3>1, <1>2
  <2>2. CASE e # p + n
    <3>1. /\ e - p \in 0 .. n - 1 /\ p + (e - p) = e /\ c \in 1 .. n /\ p + c - 1 = e
      <4>1. p \in Nat /\ n \in Nat /\ e \in Nat /\ b \in Nat /\ p + b <= e /\ e <= p + n
        BY ONLY <1>1, <1>2, <1>4, <1>5
      <4>. QED BY ONLY <4>1, <2>2
    <3>2. m[e] # NUL BY <3>1, <1>1
    <3>3. m[e] = SPACE BY <3>2, <1>4 DEF Ends
    <3>4. s[c] = m[p + c - 1] BY <3>1, <1>1
    <3>. QED BY <3>1, <3>3, <3>4, <1>2
  <2>. QED BY <2>1, <2>2
<1>. HIDE DEF c
<1>8. ASSUME NEW d \in Cuts(s), b < d, d < c PROVE FALSE
  <2>0. d \in Nat /\ b \in Nat /\ c \in Nat /\ n \in Nat BY <1>1, <1>2, <1>6
  <2>1. d \in 1 .. n /\ d \in Nat BY ONLY <2>0, <1>8, <1>6
  <2>2. p + d - 1 \in k .. Len(m) /\ p + d - 1 < e BY <2>1, <1>8, <1>1, <1>2, <1>6
  <2>3. m[p + d - 1] = SPACE BY <2>1, <1>1, <1>2
  <2>4. e <= p + d - 1
    <3>. DEFINE x == p + d - 1
    <3>1. x \in k .. Len(m) /\ m[x] \in Ends BY <2>2, <2>3 DEF Ends
    <3>. HIDE DEF x
    <3>2. e <= x BY <3>1, <1>4
    <3>. QED BY <3>2 DEF x
  <2>. QED BY <2>1, <2>2, <2>4, <1>1, <1>4
<1>9. Rank(s, c) = Rank(s, b) + 1 BY <1>1, <1>6, <1>7, <1>8, RankNext
<1>. QED BY <1>4, <1>6, <1>7, <1>9

LEMMA RoundKeeps ==
  ASSUME NEW m, NEW p, NEW n, NEW s, Parses(m, p, n, s),
         NEW i \in Nat, NEW r, Rounded(r, p, n, s, i)
  PROVE  /\ Round(m, r, i + 1) \in States
         /\ Rounded(Round(m, r, i + 1), p, n, s, i + 1)
<1>1. /\ p \in Nat /\ p > 0 /\ n \in Nat /\ Len(m) \in Nat /\ p + n <= Len(m)
      /\ BufferOf(m) /\ s \in Seq(Byte) /\ Len(s) = n
  BY ParsesFacts
<1>2. PICK K \in Nat : /\ K = Cardinality(Cuts(s)) - 1 /\ K >= 1
                       /\ Cardinality(Cuts(s)) = K + 1
                       /\ Rank(s, 0) = 0 /\ Rank(s, n + 1) = K
  BY <1>1, RankEnds
<1>3. /\ r \in States /\ r.string_size = n + p - r.values /\ p <= r.values
      /\ r.location_end <= r.values
  BY DEF Rounded, Sized
<1>4. PICK v \in Nat, l \in Nat : /\ v = r.values /\ l = r.location_end
                                  /\ p <= v /\ l <= v /\ r.string_size = n + p - v
                                  /\ r.failed \in BOOLEAN
  BY <1>3 DEF States
<1>5. PICK k \in Nat, e \in Nat :
        /\ k = IF i + 1 > 1 THEN v + 1 ELSE v
        /\ k > 0 /\ e = Stop(m, k) /\ e >= k
        /\ Round(m, r, i + 1) = RoundFrom(r, k, e) /\ Round(m, r, i + 1) \in States
  <2>1. i + 1 \in Nat /\ r.values > 0 BY <1>1, <1>4
  <2>. QED BY <1>1, <1>3, <1>4, <2>1, RoundIs
<1>. DEFINE t == RoundFrom(r, k, e)
            left == n + p - e
<1>6. v <= k /\ e >= v BY <1>4, <1>5
<1>7. /\ t.values = e /\ t.location_start = k
      /\ t.location_end = IF e > k THEN e - 1 ELSE l
      /\ t.string_size = left
      /\ t.failed = (r.failed \/ n + p - v < 0 \/ (left < 0 /\ e > k))
  <2>0. \A a, x, y, z \in Nat : (a + x - y) - (z - y) = a + x - z OBVIOUS
  <2>1. (n + p - v) - (e - v) = left BY ONLY <2>0, <1>1, v \in Nat, e \in Nat
  <2>. QED BY <1>4, <2>1 DEF RoundFrom
<1>8. t \in States BY <1>5
<1>. HIDE DEF t
<1>9. Sized(t, p, n)
  <2>1. t.location_end <= t.values BY <1>4, <1>5, <1>6, <1>7
  <2>2. p <= t.values BY <1>1, <1>4, <1>6, <1>7
  <2>. QED BY <1>7, <1>8, <2>1, <2>2 DEF Sized
<1>10. CASE i + 1 <= K
  <2>1. PICK b \in Cuts(s) : b \in Nat /\ Rank(s, b) = i /\ k = p + b /\ r.failed = FALSE
    <3>1. CASE i = 0
      <4>1. v = p /\ r.failed = FALSE BY <3>1, <1>4 DEF Rounded
      <4>2. k = p + 0 BY <4>1, <3>1, <1>1, <1>5
      <4>3. 0 \in Cuts(s) BY <1>1, CutsFacts
      <4>. QED BY <3>1, <4>1, <4>2, <4>3, <1>2
    <3>2. CASE i # 0
      <4>1. i \in 1 .. Cardinality(Cuts(s)) - 1 BY <3>2, <1>2, <1>10
      <4>2. r.failed = FALSE /\ AtCut(r, p, s, i) BY <4>1 DEF Rounded
      <4>3. PICK c \in Cuts(s) : Rank(s, c) = i /\ r.values = p - 1 + c BY <4>2 DEF AtCut
      <4>4. c \in Nat BY <1>1, CutsFacts
      <4>5. k = p + c BY <3>2, <4>3, <4>4, <1>1, <1>4, <1>5
      <4>. QED BY <4>2, <4>3, <4>4, <4>5
    <3>. QED BY <3>1, <3>2
  <2>2. b # n + 1 BY <2>1, <1>2, <1>10
  <2>3. PICK c \in Cuts(s) : /\ c \in Nat /\ e = p - 1 + c /\ b < c /\ c <= n + 1
                             /\ Rank(s, c) = Rank(s, b) + 1
    <3>1. e = Stop(m, p + b) BY <2>1, <1>5
    <3>. QED BY <2>2, <3>1, NextCut
  <2>4. n + p - v \in Nat /\ left \in Nat
    <3>1. v <= p + n /\ e <= p + n BY <2>1, <2>3, <1>1, <1>5, <1>6
    <3>2. \A x, y \in Nat : x <= p + n => n + p - x \in Nat BY <1>1
    <3>. QED BY <3>1, <3>2
  <2>5. t.failed = FALSE
    <3>1. ~(n + p - v < 0) /\ ~(left < 0)
      <4>. HIDE DEF left
      <4>1. \A x \in Nat : ~(x < 0) OBVIOUS
      <4>. QED BY <2>4, <4>1
    <3>. QED BY ONLY <2>1, <3>1, <1>7, Zenon
  <2>6. AtCut(t, p, s, i + 1)
    <3>1. Rank(s, b) = (i + 1) - 1 /\ Rank(s, c) = i + 1 BY <2>1, <2>3
    <3>2. t.values = p - 1 + c /\ t.location_start = p + b BY <2>1, <2>3, <1>7
    <3>3. IF c > b + 1 THEN t.location_end = t.values - 1 ELSE t.location_start >= t.location_end
      <4>1. e > k <=> c > b + 1 BY <2>1, <2>3, <1>1
      <4>. QED BY <4>1, <1>4, <1>6, <1>7
    <3>. QED BY <2>3, <3>1, <3>2, <3>3 DEF AtCut
  <2>7. i + 1 # 0 /\ ~(i + 1 >= Cardinality(Cuts(s))) BY <1>2, <1>10
  <2>. QED BY <1>5, <1>8, <1>9, <2>5, <2>6, <2>7 DEF Rounded, t
<1>11. CASE ~(i + 1 <= K)
  <2>1. e > p + n
    <3>1. CASE i = K
      <4>1. i \in 1 .. Cardinality(Cuts(s)) - 1 BY <3>1, <1>2
      <4>2. PICK c \in Cuts(s) : Rank(s, c) = K /\ r.values = p - 1 + c
        BY <3>1, <4>1 DEF AtCut, Rounded
      <4>3. n + 1 \in Cuts(s) BY <1>1, CutsFacts
      <4>4. c = n + 1 BY <4>2, <4>3, <1>1, <1>2, RankIs
      <4>5. v = p + n BY <4>2, <4>4, <1>1, <1>4
      <4>6. k = v + 1 BY <3>1, <1>2, <1>5
      <4>. QED BY <4>5, <4>6, <1>1, <1>4, <1>5
    <3>2. CASE i # K
      <4>1. i >= Cardinality(Cuts(s)) BY <3>2, <1>2, <1>11
      <4>2. v > p + n BY <4>1, <1>4 DEF Rounded
      <4>. QED BY <4>2, <1>1, <1>4, <1>5, <1>6
    <3>. QED BY <3>1, <3>2
  <2>2. t.failed = TRUE \/ t.location_start >= t.location_end
    <3>1. CASE e > k
      <4>1. left < 0 BY <2>1, <1>1, <1>5
      <4>. QED BY ONLY <3>1, <4>1, <1>7, Zenon
    <3>2. CASE ~(e > k)
      <4>1. t.location_start >= t.location_end BY <3>2, <1>4, <1>5, <1>6, <1>7
      <4>. QED BY <4>1
    <3>. QED BY <3>1, <3>2
  <2>3. i + 1 # 0 /\ i + 1 \notin 1 .. Cardinality(Cuts(s)) - 1 BY <1>2, <1>11
  <2>. QED BY <1>5, <1>7, <1>8, <1>9, <2>1, <2>2, <2>3 DEF Rounded, t
<1>. QED BY <1>10, <1>11
\* The rounds as the recursive function of parse_string_spaces has them.
LEMMA RoundsAre ==
  ASSUME NEW m, NEW p, NEW n, NEW s, Parses(m, p, n, s), NEW index \in Nat
  PROVE  \E r : /\ Rounded(r, p, n, s, index)
                /\ parse_string_spaces(m, p, index)
                     = IF r.failed \/ r.location_start >= r.location_end THEN <<>>
                       ELSE SubSeq(m, r.location_start, r.location_end)
<1>. DEFINE Good == {x \in Nat \X States : Rounded(x[2], p, n, s, x[1])}
            Step(x) == <<x[1] + 1, Round(m, x[2], x[1] + 1)>>
            step == [x \in Good \X (1 .. index) |-> Step(x[1])]
            Rounds(f) == [i \in 0 .. index |->
                            IF i = 0 THEN [values |-> p, string_size |-> string_length(m, p),
                                           location_start |-> p, location_end |-> p,
                                           failed |-> FALSE]
                            ELSE Round(m, f[i - 1], i)]
            g == CHOOSE f : f = Rounds(f)
            start == <<0, First(m, p)>>
<1>1. start \in Good
  <2>1. First(m, p) \in States /\ Rounded(First(m, p), p, n, s, 0) BY FirstRounded
  <2>. QED BY <2>1
<1>2. ASSUME NEW x \in Good PROVE Step(x) \in Good
  <2>1. PICK i \in Nat, r \in States : x = <<i, r>> /\ Rounded(r, p, n, s, i) OBVIOUS
  <2>2. /\ Round(m, r, i + 1) \in States
        /\ Rounded(Round(m, r, i + 1), p, n, s, i + 1)
    BY <2>1, RoundKeeps
  <2>3. Step(x) = <<i + 1, Round(m, r, i + 1)>> BY <2>1
  <2>. QED BY <2>2, <2>3
<1>. HIDE DEF Good
<1>3. step \in [Good \X (1 .. index) -> Good]
  <2>. DEFINE D == Good \X (1 .. index)
  <2>. HIDE DEF Step
  <2>1. \A x \in D : Step(x[1]) \in Good BY <1>2
  <2>. HIDE DEF D
  <2>2. [x \in D |-> Step(x[1])] \in [D -> Good] BY <2>1
  <2>. QED BY <2>2 DEF D
<1>. HIDE DEF step, start
<1>4. PICK h \in [0 .. index -> Good] : Iteration(index, start, step, h)
  BY ONLY index \in Nat, <1>1, <1>3, Iterates
<1>5. h[0] = start /\ \A i \in 1 .. index : h[i] = step[<<h[i - 1], i>>]
  <2>1. \A i \in 0 .. index : h[i] = IF i = 0 THEN start ELSE step[<<h[i - 1], i>>]
    BY <1>4 DEF Iteration
  <2>2. 0 \in 0 .. index /\ \A i \in 1 .. index : i \in 0 .. index /\ i # 0 OBVIOUS
  <2>3. h[0] = start BY <2>1, <2>2, Zenon
  <2>4. \A i \in 1 .. index : h[i] = step[<<h[i - 1], i>>] BY <2>1, <2>2, Zenon
  <2>. QED BY <2>3, <2>4
<1>6. ASSUME NEW i \in 1 .. index PROVE h[i] = Step(h[i - 1]) /\ i - 1 \in 0 .. index
  <2>. HIDE DEF Step
  <2>1. i - 1 \in 0 .. index OBVIOUS
  <2>2. h[i - 1] \in Good BY <2>1
  <2>3. <<h[i - 1], i>> \in Good \X (1 .. index) BY <2>2
  <2>4. step[<<h[i - 1], i>>] = Step(h[i - 1]) BY <2>3 DEF step
  <2>. QED BY <2>1, <2>4, <1>5
\* The first part counts the rounds.
<1>7. \A i \in 0 .. index : h[i][1] = i
  <2>. DEFINE T == {i \in Nat : i <= index => h[i][1] = i}
  <2>1. 0 \in T BY <1>5 DEF start
  <2>2. ASSUME NEW i \in T PROVE i + 1 \in T
    <3>. SUFFICES ASSUME i + 1 <= index PROVE h[i + 1][1] = i + 1 OBVIOUS
    <3>1. i + 1 \in 1 .. index /\ (i + 1) - 1 = i /\ h[i][1] = i OBVIOUS
    <3>2. h[i + 1] = Step(h[i]) BY <3>1, <1>6
    <3>. QED BY <3>1, <3>2
  <2>3. T \in SUBSET Nat OBVIOUS
  <2>4. Nat \subseteq T
    <3>. HIDE DEF T
    <3>. QED BY <2>1, <2>2, <2>3, Induct
  <2>. QED BY <2>4
<1>. DEFINE f == [i \in 0 .. index |-> h[i][2]]
<1>8. \A i \in 0 .. index : f[i] = h[i][2] /\ f[i] \in States /\ Rounded(f[i], p, n, s, i)
  <2>1. \A i \in 0 .. index : h[i] \in Good OBVIOUS
  <2>. QED BY <2>1, <1>7 DEF Good
<1>9. f = Rounds(f)
  <2>1. ASSUME NEW i \in 0 .. index
        PROVE  f[i] = Rounds(f)[i]
    <3>1. CASE i = 0
      <4>1. f[0] = First(m, p) BY <3>1, <1>5 DEF start
      <4>. QED BY <3>1, <4>1 DEF First
    <3>2. CASE i # 0
      <4>1. i \in 1 .. index /\ i - 1 \in 0 .. index /\ (i - 1) + 1 = i BY <3>2
      <4>2. h[i] = Step(h[i - 1]) /\ h[i - 1][1] = i - 1 BY <4>1, <1>6, <1>7
      <4>3. h[i][2] = Round(m, h[i - 1][2], i) BY <4>1, <4>2
      <4>4. f[i] = Round(m, f[i - 1], i) BY <4>1, <4>3
      <4>. HIDE DEF f
      <4>. QED BY <3>2, <4>4
    <3>. QED BY <3>1, <3>2
  <2>. QED BY <2>1
<1>. HIDE DEF f
<1>10. g = Rounds(g) BY <1>9
<1>11. \A i \in 0 .. index : g[i] = f[i]
  <2>. DEFINE T == {i \in Nat : i <= index => g[i] = f[i]}
  <2>. HIDE DEF g
  <2>0. \A i \in 0 .. index : g[i] = Rounds(g)[i] /\ f[i] = Rounds(f)[i] BY <1>9, <1>10
  <2>1. 0 \in T BY <2>0
  <2>2. ASSUME NEW i \in T PROVE i + 1 \in T
    <3>. SUFFICES ASSUME i + 1 <= index PROVE g[i + 1] = f[i + 1] OBVIOUS
    <3>1. i + 1 \in 0 .. index /\ i + 1 # 0 /\ (i + 1) - 1 = i /\ g[i] = f[i] OBVIOUS
    <3>2. g[i + 1] = Round(m, g[i], i + 1) /\ f[i + 1] = Round(m, f[i], i + 1)
      BY <2>0, <3>1
    <3>. QED BY <3>1, <3>2
  <2>3. T \in SUBSET Nat OBVIOUS
  <2>4. Nat \subseteq T
    <3>. HIDE DEF T
    <3>. QED BY <2>1, <2>2, <2>3, Induct
  <2>. QED BY <2>4
<1>12. parse_string_spaces(m, p, index)
         = IF g[index].failed \/ g[index].location_start >= g[index].location_end THEN <<>>
           ELSE SubSeq(m, g[index].location_start, g[index].location_end)
  BY DEF parse_string_spaces
<1>. HIDE DEF g
<1>13. index \in 0 .. index OBVIOUS
<1>. QED BY <1>8, <1>11, <1>12, <1>13
\* The word of a string that parse_string_spaces copies, if it has two letters or more.
Copied(s, index) == LET word == Word(s, index) IN IF Len(word) < 2 THEN <<>> ELSE word

LEMMA WordFound ==
  ASSUME NEW m, NEW p, NEW n, NEW s, Parses(m, p, n, s), NEW index \in Nat
  PROVE  parse_string_spaces(m, p, index) = Copied(s, index)
<1>1. /\ p \in Nat /\ p > 0 /\ n \in Nat /\ Len(m) \in Nat /\ p + n <= Len(m)
      /\ m \in Seq(Byte) /\ s \in Seq(Byte) /\ Len(s) = n
      /\ \A i \in 1 .. n : s[i] = m[p + i - 1]
  BY ParsesFacts
<1>2. PICK K \in Nat : K = Cardinality(Cuts(s)) - 1 /\ K >= 1 /\ Cardinality(Cuts(s)) = K + 1
  BY <1>1, RankEnds
<1>3. PICK r : /\ Rounded(r, p, n, s, index)
               /\ parse_string_spaces(m, p, index)
                    = IF r.failed \/ r.location_start >= r.location_end THEN <<>>
                      ELSE SubSeq(m, r.location_start, r.location_end)
  BY RoundsAre
<1>4. CASE index \notin 1 .. K
  <2>1. Word(s, index) = <<>> BY <1>2, <1>4 DEF Word
  <2>2. Copied(s, index) = <<>> BY <2>1 DEF Copied
  <2>3. index = 0 \/ index >= Cardinality(Cuts(s)) BY <1>2, <1>4
  <2>4. r.failed = TRUE \/ r.location_start >= r.location_end BY <1>3, <2>3 DEF Rounded
  <2>. QED BY <1>3, <2>2, <2>4
<1>5. CASE index \in 1 .. K
  <2>1. r.failed = FALSE /\ AtCut(r, p, s, index) BY <1>2, <1>3, <1>5 DEF Rounded
  <2>2. PICK b \in Cuts(s), c \in Cuts(s) :
          /\ Rank(s, b) = index - 1 /\ Rank(s, c) = index /\ b < c
          /\ r.values = p - 1 + c /\ r.location_start = p + b
          /\ IF c > b + 1 THEN r.location_end = r.values - 1
             ELSE r.location_start >= r.location_end
    BY <2>1 DEF AtCut
  <2>23. c > b + 1 => r.location_start = p + b /\ r.location_end = (p - 1 + c) - 1
    <3>. SUFFICES ASSUME c > b + 1
                  PROVE  r.location_start = p + b /\ r.location_end = (p - 1 + c) - 1
      OBVIOUS
    <3>1. r.location_end = r.values - 1 BY <2>2, Zenon
    <3>2. r.values = p - 1 + c /\ r.location_start = p + b BY <2>2, Zenon
    <3>. QED BY <3>1, <3>2, Zenon
  <2>3. b \in Nat /\ c \in Nat /\ c <= n + 1
    <3>1. Cuts(s) \in SUBSET Nat /\ \A d \in Cuts(s) : d <= Len(s) + 1 BY <1>1, CutsFacts
    <3>. QED BY <3>1, <1>1
  <2>4. Cut(s, index - 1) = b /\ Cut(s, index) = c BY <2>2, <1>1, RankIs
  <2>5. Word(s, index) = SubSeq(s, b + 1, c - 1) BY <2>4, <1>2, <1>5 DEF Word
  <2>. DEFINE l == c - 1 - b
  <2>6. l \in Nat BY <2>2, <2>3
  <2>7. SubSeq(s, b + 1, c - 1) \in Seq(Byte) /\ Len(SubSeq(s, b + 1, c - 1)) = l
        /\ \A i \in 1 .. l : SubSeq(s, b + 1, c - 1)[i] = s[b + i]
    <3>. DEFINE x == b + 1
                y == c - 1
    <3>1. x \in Nat /\ y \in Nat /\ x >= 1 /\ x <= y + 1 /\ y <= n /\ y - x + 1 = l
      <4>1. b < c /\ b \in Nat /\ c \in Nat /\ c <= n + 1 /\ n \in Nat
        BY ONLY <2>2, <2>3, <1>1
      <4>. QED BY ONLY <4>1 DEF x, y, l
    <3>2. \A i \in x .. y : s[i] \in Byte BY <1>1, <3>1
    <3>. HIDE DEF x, y, l
    <3>3. /\ SubSeq(s, x, y) \in Seq(Byte)
          /\ Len(SubSeq(s, x, y)) = IF x <= y THEN y - x + 1 ELSE 0
          /\ \A i \in 1 .. y - x + 1 : SubSeq(s, x, y)[i] = s[x + i - 1]
      BY <3>1, <3>2, SubSeqProperties
    <3>4. Len(SubSeq(s, x, y)) = l
      <4>1. ~(x <= y) => l = 0 BY <3>1, <2>6
      <4>. QED BY <3>1, <3>3, <4>1
    <3>5. \A i \in 1 .. l : x + i - 1 = b + i BY <2>3 DEF x
    <3>. QED BY <3>1, <3>3, <3>4, <3>5 DEF x, y
  <2>8. CASE l < 2
    <3>1. Copied(s, index) = <<>> BY <2>5, <2>7, <2>8 DEF Copied
    <3>2. r.location_start >= r.location_end
      <4>1. CASE c > b + 1
        <5>1. r.location_start = p + b /\ r.location_end = (p - 1 + c) - 1 BY <4>1, <2>23
        <5>. QED BY <5>1, <2>3, <2>8, <1>1
      <4>2. CASE ~(c > b + 1) BY <4>2, <2>2
      <4>. QED BY <4>1, <4>2
    <3>. QED BY <3>1, <3>2, <1>3
  <2>9. CASE ~(l < 2)
    <3>1. Copied(s, index) = SubSeq(s, b + 1, c - 1) BY <2>5, <2>7, <2>9 DEF Copied
    <3>2. r.location_start = p + b /\ r.location_end = p + c - 2 /\ p + b < p + c - 2
      <4>1. c > b + 1 BY <2>9, <2>3
      <4>2. r.location_start = p + b /\ r.location_end = (p - 1 + c) - 1 BY <4>1, <2>23
      <4>. QED BY <4>2, <2>3, <2>9, <1>1
    <3>3. parse_string_spaces(m, p, index) = SubSeq(m, p + b, p + c - 2)
      <4>1. ~(r.location_start >= r.location_end) BY <3>2, <2>3, <1>1
      <4>. QED BY <4>1, <3>2, <2>1, <1>3
    <3>. DEFINE x == p + b
                y == p + c - 2
    <3>4. x \in Nat /\ y \in Nat /\ x >= 1 /\ x <= y /\ y <= Len(m) /\ y - x + 1 = l
      BY <3>2, <2>3, <1>1
    <3>5. \A i \in x .. y : m[i] \in Byte BY <1>1, <3>4
    <3>6. \A i \in 1 .. l : x + i - 1 = p + (b + i) - 1 /\ b + i \in 1 .. n BY <2>3, <1>1
    <3>. HIDE DEF x, y, l
    <3>7. /\ SubSeq(m, x, y) \in Seq(Byte) /\ Len(SubSeq(m, x, y)) = l
          /\ \A i \in 1 .. l : SubSeq(m, x, y)[i] = m[x + i - 1]
      <4>1. /\ SubSeq(m, x, y) \in Seq(Byte)
            /\ Len(SubSeq(m, x, y)) = IF x <= y THEN y - x + 1 ELSE 0
            /\ \A i \in 1 .. y - x + 1 : SubSeq(m, x, y)[i] = m[x + i - 1]
        BY <3>4, <3>5, SubSeqProperties
      <4>. QED BY <4>1, <3>4
    <3>8. \A i \in 1 .. l : SubSeq(m, x, y)[i] = SubSeq(s, b + 1, c - 1)[i]
      BY <3>6, <3>7, <2>7, <1>1
    <3>9. SubSeq(m, x, y) = SubSeq(s, b + 1, c - 1) BY <3>7, <3>8, <2>7, SeqEqual
    <3>. QED BY <3>1, <3>3, <3>9 DEF x, y
  <2>. QED BY <2>8, <2>9
<1>. QED BY <1>4, <1>5

(***************************************************************************)
(* Whatever has been typed, recalled and erased, parse_string_spaces copies *)
(* from any place of the buffer the word of the string there that it is     *)
(* asked for, if that has two letters, and never one from behind the NUL.   *)
(***************************************************************************)
THEOREM WordsAreFound == Spec => []WordsOfString
<1>1. ShellInv => WordsOfString
  <2>. SUFFICES ASSUME ShellInv, NEW from \in 0 .. BUF - 2, NEW index \in 0 .. 4
                PROVE  parse_string_spaces(Memory, from + 1, index) = Copied(String(from), index)
    BY DEF WordsOfString, Copied
  <2>. DEFINE m == Memory
              p == from + 1
  <2>1. Text /\ BUF \in Nat /\ BUF > 0 BY ConstantFacts DEF ShellInv
  <2>2. buffer \in [Cells -> Byte] /\ buffer[BUF - 1] = NUL BY <2>1 DEF Text, TextOf
  <2>3. m \in Seq(Byte) /\ Len(m) = BUF /\ \A i \in 1 .. BUF : m[i] = buffer[i - 1]
    BY <2>2, MemoryFacts, Named
  <2>. HIDE DEF m
  <2>4. BufferOf(m) BY <2>1, <2>2, <2>3 DEF BufferOf
  <2>5. p \in 1 .. Len(m) /\ p \in Nat BY <2>1, <2>3
  <2>. HIDE DEF p
  <2>6. PICK n \in 0 .. Len(m) - p :
          /\ string_length(m, p) = n /\ m[p + n] = NUL
          /\ \A i \in 0 .. n - 1 : m[p + i] # NUL
    BY <2>4, <2>5, LengthFacts
  <2>. DEFINE s == SubSeq(m, p, p + n - 1)
  <2>7. String(from) = s BY <2>6 DEF String, StringAt, m, p
  <2>8. s \in Seq(Byte) /\ Len(s) = n /\ \A i \in 1 .. n : s[i] = m[p + i - 1]
    <3>1. PICK y \in Nat : y = p + n - 1 /\ n \in Nat /\ y - p + 1 = n /\ y <= Len(m)
      BY <2>1, <2>3, <2>5
    <3>2. \A i \in p .. y : m[i] \in Byte BY <2>1, <2>3, <2>5, <3>1
    <3>3. /\ SubSeq(m, p, y) \in Seq(Byte)
          /\ Len(SubSeq(m, p, y)) = IF p <= y THEN y - p + 1 ELSE 0
          /\ \A i \in 1 .. y - p + 1 : SubSeq(m, p, y)[i] = m[p + i - 1]
      BY <2>5, <3>1, <3>2, SubSeqProperties
    <3>4. (IF p <= y THEN y - p + 1 ELSE 0) = n BY <2>5, <3>1
    <3>. QED BY <3>1, <3>3, <3>4
  <2>. HIDE DEF s
  <2>9. Parses(m, p, n, s) BY <2>4, <2>5, <2>6, <2>8 DEF Parses
  <2>10. index \in Nat OBVIOUS
  <2>11. parse_string_spaces(m, p, index) = Copied(s, index) BY <2>9, <2>10, WordFound
  <2>. QED BY <2>7, <2>11 DEF m, p
<1>. QED BY <1>1, ShellInvHolds, PTL
=============================================================================
