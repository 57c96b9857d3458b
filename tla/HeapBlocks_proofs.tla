------------------------- MODULE HeapBlocks_proofs -------------------------
(***************************************************************************)
(* Proofs about HeapBlocks, for every START, LIMIT and set of sizes.       *)
(* HeapInv is the inductive invariant: Disjoint is needed to know that the *)
(* header a split writes is not the header of another block, and that the  *)
(* block a merge swallows is nobody else's; PayloadFits and NoLostSpace    *)
(* rest on it.                                                             *)
(***************************************************************************)
EXTENDS HeapBlocks, TLAPS

HeapInv == TypeOK /\ Disjoint /\ PayloadFits /\ NoLostSpace

\* The sizes of headers, footers and gaps are numbers, and no block is empty.
LEMMA ExtentFacts ==
  ASSUME NEW n \in Nat
  PROVE  Extent(n) \in Nat /\ Extent(n) > n /\ Extent(n) >= n + MaxGap /\ MaxGap \in Nat
BY HeapConstants DEF Extent, MaxGap

\* A fresh header address: the address a split writes its second header at
\* lies strictly inside the block that is split, where no header is.
LEMMA SplitIsInside ==
  ASSUME TypeOK, Disjoint, NEW b \in blocks, NEW n \in Nat, size[b] > Extent(n) + SLACK
  PROVE  LET rest == b + Extent(n) IN
         /\ rest \in Nat /\ rest \notin blocks
         /\ b < rest /\ rest < End(b)
         /\ size[b] - Extent(n) \in Nat
         /\ rest + Extent(size[b] - Extent(n)) = End(b)
<1>1. b \in Nat /\ size[b] \in Nat BY DEF TypeOK
<1>2. \A c \in blocks : c \in Nat BY DEF TypeOK
<1>3. \A c \in blocks : b < c => End(b) <= c BY DEF Disjoint
<1>. QED BY <1>1, <1>2, <1>3, HeapConstants DEF Extent, End

THEOREM GrowInv ==
  ASSUME HeapInv, NEW n \in SIZES \cup FILLERS, NEW gap \in GAPS, Grow(n, gap)
  PROVE  HeapInv'
<1>0. PICK b : b = top + gap OBVIOUS
<1>. USE HeapConstants
<1>1. n \in Nat /\ gap \in Nat /\ gap <= MaxGap /\ MaxGap \in Nat BY DEF MaxGap
<1>2. top \in Nat /\ b \in Nat BY <1>0, <1>1 DEF HeapInv, TypeOK
<1>3. \A x \in blocks : /\ x \in Nat /\ size[x] \in Nat /\ End(x) \in Nat
                         /\ START <= x /\ End(x) <= top /\ x < top
  BY DEF HeapInv, TypeOK, Disjoint, End, Extent
<1>4. b \notin blocks BY <1>0, <1>1, <1>2, <1>3
<1>5. /\ blocks' = blocks \cup {b}
      /\ size' = [x \in blocks' |-> IF x = b THEN n ELSE size[x]]
      /\ asked' = [x \in DOMAIN asked \cup {b} |-> IF x = b THEN n ELSE asked[x]]
      /\ top' = b + Extent(n)
  BY <1>0 DEF Grow
<1>6. size'[b] = n /\ \A x \in blocks : size'[x] = size[x] BY <1>4, <1>5
<1>7. \A x \in blocks' : End(x)' = IF x = b THEN top' ELSE End(x)
  BY <1>5, <1>6 DEF End
<1>8. top' \in Nat /\ b < top' /\ top <= b BY <1>0, <1>1, <1>2, <1>5 DEF Extent
<1>9. TypeOK' BY <1>1, <1>2, <1>5, <1>8 DEF HeapInv, TypeOK
<1>10. Disjoint'
  <2>1. START <= b
    BY <1>0, <1>1, <1>2 DEF HeapInv, Disjoint
  <2>2. START <= top' BY <2>1, <1>2, <1>8
  <2>3. \A x \in blocks' : START <= x /\ End(x)' <= top'
    <3>1. \A x \in blocks : START <= x /\ End(x) <= top' BY <1>2, <1>3, <1>8
    <3>. QED BY <3>1, <2>1, <1>5, <1>7, <1>8
  <2>4. ASSUME NEW x \in blocks', NEW y \in blocks', x < y PROVE End(x)' <= y
    <3>1. CASE x \in blocks /\ y \in blocks
      BY <3>1, <2>4, <1>4, <1>5, <1>7 DEF HeapInv, Disjoint
    <3>2. CASE x \in blocks /\ y = b
      <4>1. End(x)' = End(x) /\ End(x) <= top BY <3>2, <1>3, <1>4, <1>5, <1>7
      <4>2. End(x) \in Int BY <3>2, <1>3 DEF End, Extent
      <4>. QED BY <4>1, <4>2, <3>2, <1>2, <1>8
    <3>3. CASE x = b
      <4>1. \A z \in blocks : z < b BY <1>2, <1>3, <1>8
      <4>. QED BY <4>1, <3>3, <2>4, <1>2, <1>3, <1>5
    <3>. QED BY <3>1, <3>2, <3>3, <1>5
  <2>. QED BY <2>2, <2>3, <2>4 DEF Disjoint
<1>11. PayloadFits' BY <1>1, <1>4, <1>5, <1>6 DEF HeapInv, PayloadFits, TypeOK
<1>12. NoLostSpace'
  BY <1>0, <1>1, <1>2, <1>3, <1>5, <1>7 DEF HeapInv, NoLostSpace
<1>. QED BY <1>9, <1>10, <1>11, <1>12 DEF HeapInv

THEOREM SplitInv ==
  ASSUME HeapInv, NEW b \in blocks, NEW n \in SIZES, Split(b, n)
  PROVE  HeapInv'
<1>. USE HeapConstants
<1>1. n \in Nat /\ b \in Nat /\ size[b] \in Nat BY DEF HeapInv, TypeOK
<1>2. PICK rest : rest = b + Extent(n) OBVIOUS
<1>3. /\ rest \in Nat /\ rest \notin blocks /\ b < rest /\ rest < End(b)
      /\ size[b] - Extent(n) \in Nat
      /\ rest + Extent(size[b] - Extent(n)) = End(b)
  BY <1>1, <1>2, SplitIsInside DEF HeapInv, Split
<1>4. /\ b \in Free
      /\ blocks' = blocks \cup {rest}
      /\ size' = [x \in blocks' |-> IF x = b THEN n
                                    ELSE IF x = rest THEN size[b] - Extent(n)
                                    ELSE size[x]]
      /\ asked' = [x \in DOMAIN asked \cup {b} |-> IF x = b THEN n ELSE asked[x]]
      /\ top' = top
  BY <1>2 DEF Split
<1>5. /\ size'[b] = n /\ size'[rest] = size[b] - Extent(n)
      /\ \A x \in blocks \ {b} : size'[x] = size[x]
  BY <1>3, <1>4
<1>6. \A x \in blocks' : End(x)' = IF x = b THEN rest
                                    ELSE IF x = rest THEN End(b) ELSE End(x)
  BY <1>2, <1>3, <1>4, <1>5 DEF End
<1>7. \A x \in blocks : x \in Nat /\ size[x] \in Nat /\ End(x) \in Nat /\ x < End(x)
  BY DEF HeapInv, TypeOK, End, Extent
<1>8. TypeOK' BY <1>1, <1>3, <1>4 DEF HeapInv, TypeOK
<1>9. Disjoint'
  <2>1. \A x \in blocks : START <= x /\ End(x) <= top BY DEF HeapInv, Disjoint
  <2>2. \A x \in blocks' : START <= x /\ End(x)' <= top'
    BY <2>1, <1>1, <1>3, <1>4, <1>6, <1>7 DEF HeapInv, TypeOK
  <2>3. ASSUME NEW x \in blocks', NEW y \in blocks', x < y PROVE End(x)' <= y
    <3>. HIDE HeapConstants
    <3>1. \A u, v \in blocks : u < v => End(u) <= v BY DEF HeapInv, Disjoint
    <3>2. /\ x \in Nat /\ y \in Nat /\ rest \in Nat /\ End(b) \in Nat
          /\ b < rest /\ rest < End(b)
      BY <1>3, <1>4, <1>7
    <3>3. CASE y \in blocks /\ (x = b \/ x = rest)
      <4>1. End(b) <= y BY <3>1, <3>2, <3>3, <2>3, <1>1
      <4>2. End(x)' = rest \/ End(x)' = End(b) BY <3>3, <1>6
      <4>. QED BY <4>1, <4>2, <3>2
    <3>4. CASE x = b /\ y = rest
      <4>1. End(x)' = rest BY <3>4, <1>6
      <4>. QED BY <4>1, <3>2, <3>4
    <3>5. CASE x \in blocks \ {b}
      <4>1. End(x)' = End(x) BY <3>5, <1>3, <1>6
      <4>2. CASE y \in blocks BY <4>1, <4>2, <3>1, <3>5, <2>3
      <4>3. CASE y = rest
        <5>1. x < b \/ End(b) <= x BY <3>1, <3>2, <3>5, <1>1
        <5>2. x < b BY <5>1, <4>3, <3>2, <2>3
        <5>3. End(x) <= b BY <5>2, <3>1, <3>5
        <5>4. End(x) \in Nat BY <3>5, <1>7
        <5>. QED BY <5>3, <5>4, <4>1, <4>3, <3>2, <1>1
      <4>. QED BY <4>2, <4>3, <1>4
    <3>6. ~(x = rest /\ y = rest) BY <3>2, <2>3
    <3>. QED BY <3>3, <3>4, <3>5, <3>6, <1>4
  <2>. QED BY <2>2, <2>3, <1>4 DEF HeapInv, Disjoint
<1>10. PayloadFits' BY <1>1, <1>4, <1>5 DEF HeapInv, PayloadFits, TypeOK, Free
<1>11. NoLostSpace'
  <2>1. ASSUME NEW x \in blocks'
        PROVE  \/ End(x)' = top'
               \/ \E c \in blocks' : End(x)' <= c /\ c <= End(x)' + MaxGap
    <3>1. \A u \in blocks : End(u) = top \/ \E c \in blocks : End(u) <= c /\ c <= End(u) + MaxGap
      BY DEF HeapInv, NoLostSpace
    <3>2. CASE x = b
      <4>1. End(x)' = rest BY <3>2, <1>6
      <4>2. rest <= rest /\ rest <= rest + MaxGap BY <1>3 DEF MaxGap
      <4>. QED BY <4>1, <4>2, <1>4
    <3>3. CASE x = rest
      <4>1. End(x)' = End(b) BY <3>3, <1>1, <1>3, <1>6
      <4>. QED BY <4>1, <3>1, <1>4
    <3>4. CASE x \in blocks \ {b} BY <3>4, <3>1, <1>4, <1>6
    <3>. QED BY <3>2, <3>3, <3>4, <1>4
  <2>. QED BY <2>1 DEF NoLostSpace, MaxGap
<1>. QED BY <1>8, <1>9, <1>10, <1>11 DEF HeapInv

THEOREM MergeInv ==
  ASSUME HeapInv, NEW b \in blocks, NEW c \in blocks, Merge(b, c)
  PROVE  HeapInv'
<1>. USE HeapConstants
<1>1. \A x \in blocks : x \in Nat /\ size[x] \in Nat /\ End(x) \in Nat /\ x < End(x)
  BY DEF HeapInv, TypeOK, End, Extent
<1>2. /\ b \in Free /\ c \in Free /\ c = End(b)
      /\ blocks' = blocks \ {c}
      /\ size' = [x \in blocks' |-> IF x = b THEN size[b] + Extent(size[c]) ELSE size[x]]
      /\ asked' = asked /\ top' = top
  BY DEF Merge
<1>3. b # c /\ b \in blocks' /\ size[b] + Extent(size[c]) \in Nat
  BY <1>1, <1>2 DEF Extent
<1>4. size'[b] = size[b] + Extent(size[c]) /\ \A x \in blocks' \ {b} : size'[x] = size[x]
  BY <1>2, <1>3
<1>5. \A x \in blocks' : End(x)' = IF x = b THEN End(c) ELSE End(x)
  BY <1>1, <1>2, <1>4 DEF End, Extent
<1>6. TypeOK' BY <1>2, <1>3 DEF HeapInv, TypeOK, Free
<1>7. Disjoint'
  <2>1. /\ \A x \in blocks : START <= x /\ End(x) <= top
        /\ \A u, v \in blocks : u < v => End(u) <= v
    BY DEF HeapInv, Disjoint
  <2>2. \A x \in blocks' : START <= x /\ End(x)' <= top' BY <2>1, <1>2, <1>5
  <2>3. ASSUME NEW x \in blocks', NEW y \in blocks', x < y PROVE End(x)' <= y
    <3>1. CASE x = b
      <4>1. c < y
        BY <3>1, <2>1, <2>3, <1>1, <1>2
      <4>. QED BY <4>1, <3>1, <2>1, <1>2, <1>5
    <3>2. CASE x # b BY <3>2, <2>1, <2>3, <1>2, <1>5
    <3>. QED BY <3>1, <3>2
  <2>. QED BY <2>2, <2>3, <1>2 DEF HeapInv, Disjoint
<1>8. PayloadFits' BY <1>2, <1>3, <1>4 DEF HeapInv, TypeOK, PayloadFits, Free
<1>9. NoLostSpace'
  <2>1. \A u \in blocks : End(u) = top \/ \E w \in blocks : End(u) <= w /\ w <= End(u) + MaxGap
    BY DEF HeapInv, NoLostSpace
  <2>2. \A u, v \in blocks : u < v => End(u) <= v BY DEF HeapInv, Disjoint
  <2>3. ASSUME NEW x \in blocks'
        PROVE  \/ End(x)' = top'
               \/ \E w \in blocks' : End(x)' <= w /\ w <= End(x)' + MaxGap
    <3>1. CASE x = b
      <4>1. CASE End(c) = top BY <4>1, <3>1, <1>2, <1>5
      <4>2. CASE \E w \in blocks : End(c) <= w /\ w <= End(c) + MaxGap
        <5>1. PICK w \in blocks : End(c) <= w /\ w <= End(c) + MaxGap BY <4>2
        <5>2. w # c BY <5>1, <1>1
        <5>. QED BY <5>1, <5>2, <3>1, <1>2, <1>5
      <4>. QED BY <4>1, <4>2, <2>1
    <3>2. CASE x # b
      <4>1. CASE End(x) = top BY <4>1, <3>2, <1>2, <1>5
      <4>2. CASE \E w \in blocks : End(x) <= w /\ w <= End(x) + MaxGap
        <5>1. PICK w \in blocks : End(x) <= w /\ w <= End(x) + MaxGap BY <4>2
        <5>2. CASE w # c BY <5>1, <5>2, <3>2, <1>2, <1>5
        <5>3. CASE w = c
          \* x ends at or below c = End(b) and is not b, so it ends below b.
          <6>1. x < b
            BY <5>1, <5>3, <3>2, <2>2, <1>1, <1>2
          <6>2. End(x) <= b /\ b <= End(x) + MaxGap
            BY <6>1, <5>1, <5>3, <2>2, <1>1, <1>2 DEF MaxGap
          <6>. QED BY <6>2, <3>2, <1>3, <1>5
        <5>. QED BY <5>2, <5>3
      <4>. QED BY <4>1, <4>2, <2>1, <1>2
    <3>. QED BY <3>1, <3>2
  <2>. QED BY <2>3 DEF NoLostSpace, MaxGap
<1>. QED BY <1>6, <1>7, <1>8, <1>9 DEF HeapInv

\* Reuse and Release leave every block where it is and change its owner only.
THEOREM OwnerInv ==
  ASSUME HeapInv, NEW b \in blocks,
         Release(b) \/ \E n \in SIZES : Reuse(b, n)
  PROVE  HeapInv'
<1>. USE HeapConstants
<1>1. blocks' = blocks /\ size' = size /\ top' = top BY DEF Release, Reuse
<1>2. /\ DOMAIN asked' \subseteq blocks
      /\ asked' \in [DOMAIN asked' -> Nat]
      /\ \A x \in DOMAIN asked' : asked'[x] <= size[x]
  <2>1. CASE Release(b) BY <2>1 DEF HeapInv, TypeOK, PayloadFits, Release
  <2>2. CASE \E n \in SIZES : Reuse(b, n)
    BY <2>2 DEF HeapInv, TypeOK, PayloadFits, Reuse
  <2>. QED BY <2>1, <2>2
<1>3. TypeOK' /\ PayloadFits' BY <1>1, <1>2 DEF HeapInv, TypeOK, PayloadFits
<1>4. Disjoint' /\ NoLostSpace'
  BY <1>1 DEF HeapInv, Disjoint, NoLostSpace, End, MaxGap
<1>. QED BY <1>3, <1>4 DEF HeapInv

LEMMA NextInv == HeapInv /\ [Next]_vars => HeapInv'
<1>. SUFFICES ASSUME HeapInv, [Next]_vars PROVE HeapInv' OBVIOUS
<1>1. CASE \E n \in SIZES \cup FILLERS, gap \in GAPS : Grow(n, gap) BY <1>1, GrowInv
<1>2. CASE \E b \in blocks, n \in SIZES : Split(b, n) BY <1>2, SplitInv
<1>3. CASE \E b \in blocks, n \in SIZES : Reuse(b, n) BY <1>3, OwnerInv
<1>4. CASE \E b \in blocks : Release(b) BY <1>4, OwnerInv
<1>5. CASE \E b, c \in blocks : Merge(b, c) BY <1>5, MergeInv
<1>6. CASE UNCHANGED vars
  BY <1>6 DEF vars, HeapInv, TypeOK, Disjoint, PayloadFits, NoLostSpace, End, MaxGap
<1>. QED BY <1>1, <1>2, <1>3, <1>4, <1>5, <1>6 DEF Next

THEOREM InvHolds == Spec => []HeapInv
<1>1. Init => HeapInv
  BY HeapConstants DEF Init, HeapInv, TypeOK, Disjoint, PayloadFits, NoLostSpace
<1>. QED BY <1>1, NextInv, PTL DEF Spec

(***************************************************************************)
(* The four invariants of HeapBlocks, whatever the sizes and the bound:    *)
(* the heap's type, that blocks never overlap, that a block holds what its *)
(* owner asked for, and that no space is lost between blocks.              *)
(***************************************************************************)
THEOREM TypeCorrect == Spec => []TypeOK
BY InvHolds, PTL DEF HeapInv

THEOREM BlocksDisjoint == Spec => []Disjoint
BY InvHolds, PTL DEF HeapInv

THEOREM PayloadsFit == Spec => []PayloadFits
BY InvHolds, PTL DEF HeapInv

THEOREM SpaceAccounted == Spec => []NoLostSpace
BY InvHolds, PTL DEF HeapInv

(***************************************************************************)
(* No step of the heap moves or resizes a block in use.                    *)
(***************************************************************************)
THEOREM LiveBlocksStay == Spec => LiveStays
<1>1. HeapInv /\ [Next]_vars =>
        [\A b \in DOMAIN asked : b \in blocks' /\ size'[b] = size[b]]_vars
  <2>. SUFFICES ASSUME HeapInv, Next, NEW x \in DOMAIN asked
                PROVE  x \in blocks' /\ size'[x] = size[x]
    OBVIOUS
  <2>. USE HeapConstants
  <2>0. x \in blocks BY DEF HeapInv, TypeOK
  <2>1. CASE \E n \in SIZES \cup FILLERS, gap \in GAPS : Grow(n, gap)
    <3>1. PICK n \in SIZES \cup FILLERS, gap \in GAPS : Grow(n, gap) BY <2>1
    <3>2. top \in Nat /\ gap \in Nat /\ x \in Nat /\ size[x] \in Nat
      BY <2>0 DEF HeapInv, TypeOK
    <3>3. End(x) <= top BY <2>0 DEF HeapInv, Disjoint
    <3>4. x # top + gap BY <3>2, <3>3 DEF End, Extent
    <3>. QED BY <2>0, <3>1, <3>4 DEF Grow
  <2>2. CASE \E b \in blocks, n \in SIZES : Split(b, n)
    <3>1. PICK b \in blocks, n \in SIZES : Split(b, n) BY <2>2
    <3>2. b + Extent(n) \notin blocks
      BY <3>1, SplitIsInside DEF HeapInv, Split
    <3>. QED BY <2>0, <3>1, <3>2 DEF Split, Free
  <2>3. CASE \E b \in blocks, n \in SIZES : Reuse(b, n) BY <2>0, <2>3 DEF Reuse
  <2>4. CASE \E b \in blocks : Release(b) BY <2>0, <2>4 DEF Release
  <2>5. CASE \E b, c \in blocks : Merge(b, c) BY <2>0, <2>5 DEF Merge, Free
  <2>. QED BY <2>1, <2>2, <2>3, <2>4, <2>5 DEF Next
<1>. QED BY <1>1, InvHolds, PTL DEF Spec, LiveStays
===========================================================================
