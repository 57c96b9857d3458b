---------------------------- MODULE HeapBlocks ----------------------------
(***************************************************************************)
(* What the kernel heap of memory/kernel_heap.c promises, without its      *)
(* linked list: memory from START up to the bump pointer mallocable_address *)
(* is laid out in blocks, each a header, a payload and a footer, and the   *)
(* heap grows, splits, reuses, releases and merges blocks.  KernelHeap is  *)
(* the pointer-level heap; it is checked to implement this module.         *)
(***************************************************************************)
EXTENDS Integers

CONSTANTS
  START,      \* first heap address (KERNEL_END_VIRTUAL_ADDRESS, an offset here)
  LIMIT,      \* bound of the model: no block ends above it (the code has no bound)
  SIZES,      \* the payload sizes that are requested
  FILLERS,    \* the payload sizes of filler blocks: what a page leaves, not a request
  GAPS,       \* the gaps, in bytes, a page-aligned request may skip
  HDR, FTR,   \* sizeof(heap_entry_linked_list), sizeof(heap_entry_footer_t)
  SLACK       \* the 4 bytes a split must leave beyond a header and a footer

ASSUME HeapConstants ==
  /\ START \in Nat /\ LIMIT \in Nat
  /\ SIZES \subseteq Nat /\ FILLERS \subseteq Nat
  /\ HDR \in Nat \ {0} /\ FTR \in Nat \ {0} /\ SLACK \in Nat
  /\ GAPS \subseteq 0 .. (HDR + FTR)

VARIABLES
  blocks,     \* the header addresses of the blocks
  size,       \* heap_entry_size of each block
  asked,      \* for each USED block, the payload its owner asked for
  top         \* mallocable_address

vars == <<blocks, size, asked, top>>

(***************************************************************************)
(* A block with header at b spans the addresses b .. End(b) - 1; the       *)
(* filler needs of a page-aligned request leave at most MaxGap bytes       *)
(* without a block (2 headers, a footer and one byte make a filler).       *)
(***************************************************************************)
Extent(n) == HDR + n + FTR
End(b) == b + Extent(size[b])
MaxGap == HDR + FTR
Free == blocks \ DOMAIN asked

Init ==
  /\ blocks = {}
  /\ size = [b \in {} |-> 0]
  /\ asked = [b \in {} |-> 0]
  /\ top = START

\* insert_heap_entry: a new USED block where the heap ends.  A page-aligned
\* request whose page has no room for a filler block first skips a gap.
Grow(n, gap) ==
  LET b == top + gap IN
  /\ top' = b + Extent(n)
  /\ top' <= LIMIT
  /\ blocks' = blocks \cup {b}
  /\ size' = [x \in blocks' |-> IF x = b THEN n ELSE size[x]]
  /\ asked' = [x \in DOMAIN asked \cup {b} |-> IF x = b THEN n ELSE asked[x]]

\* Mutant: the second header is written where the first block's footer goes.
SplitOverFooter(b, n) ==
  LET rest == b + HDR + n IN
  /\ b \in Free
  /\ size[b] > Extent(n) + SLACK
  /\ blocks' = blocks \cup {rest}
  /\ size' = [x \in blocks' |-> IF x = b THEN n
                                ELSE IF x = rest THEN size[b] - Extent(n)
                                ELSE size[x]]
  /\ asked' = [x \in DOMAIN asked \cup {b} |-> IF x = b THEN n ELSE asked[x]]
  /\ UNCHANGED top

\* find_empty_heap_entry, first branch: a FREE block is cut in two, the
\* front is USED and what is left becomes a FREE block of its own.
Split(b, n) ==
  LET rest == b + Extent(n) IN
  /\ b \in Free
  /\ size[b] > Extent(n) + SLACK
  /\ blocks' = blocks \cup {rest}
  /\ size' = [x \in blocks' |-> IF x = b THEN n
                                ELSE IF x = rest THEN size[b] - Extent(n)
                                ELSE size[x]]
  /\ asked' = [x \in DOMAIN asked \cup {b} |-> IF x = b THEN n ELSE asked[x]]
  /\ UNCHANGED top

\* Mutant: any FREE block will do.
ReuseAny(b, n) ==
  /\ b \in Free
  /\ asked' = [x \in DOMAIN asked \cup {b} |-> IF x = b THEN n ELSE asked[x]]
  /\ UNCHANGED <<blocks, size, top>>

\* find_empty_heap_entry, second branch: a FREE block is handed out whole.
Reuse(b, n) ==
  /\ b \in Free
  /\ n <= size[b] /\ size[b] <= Extent(n) + SLACK
  /\ asked' = [x \in DOMAIN asked \cup {b} |-> IF x = b THEN n ELSE asked[x]]
  /\ UNCHANGED <<blocks, size, top>>

\* kernel_heap_free, and the filler of a page-aligned request once its
\* block stands: is_used = FREE.
Release(b) ==
  /\ b \in DOMAIN asked
  /\ asked' = [x \in DOMAIN asked \ {b} |-> asked[x]]
  /\ UNCHANGED <<blocks, size, top>>

\* Mutants: the upper block, or the lower one, may be in use; the header and
\* footer between the two are not added to the merged size.
MergeUsedUpper(b, c) ==
  /\ b \in Free /\ c = End(b)
  /\ blocks' = blocks \ {c}
  /\ size' = [x \in blocks' |-> IF x = b THEN size[b] + Extent(size[c]) ELSE size[x]]
  /\ UNCHANGED <<asked, top>>
MergeUsedLower(b, c) ==
  /\ c \in Free /\ c = End(b)
  /\ blocks' = blocks \ {c}
  /\ size' = [x \in blocks' |-> IF x = b THEN size[b] + Extent(size[c]) ELSE size[x]]
  /\ UNCHANGED <<asked, top>>
MergeLosesSpace(b, c) ==
  /\ b \in Free /\ c \in Free /\ c = End(b)
  /\ blocks' = blocks \ {c}
  /\ size' = [x \in blocks' |-> IF x = b THEN size[b] + size[c] ELSE size[x]]
  /\ UNCHANGED <<asked, top>>

\* merge_two_heap_entries_linked_list: two FREE neighbours become one.
Merge(b, c) ==
  /\ b \in Free /\ c \in Free
  /\ c = End(b)
  /\ blocks' = blocks \ {c}
  /\ size' = [x \in blocks' |-> IF x = b THEN size[b] + Extent(size[c]) ELSE size[x]]
  /\ UNCHANGED <<asked, top>>

Next ==
  \/ \E n \in SIZES \cup FILLERS, gap \in GAPS : Grow(n, gap)
  \/ \E b \in blocks, n \in SIZES : Split(b, n) \/ Reuse(b, n)
  \/ \E b \in blocks : Release(b)
  \/ \E b, c \in blocks : Merge(b, c)

Spec == Init /\ [][Next]_vars

---------------------------------------------------------------------------
(***************************************************************************)
(* Every block lies between START and the bump pointer, each has a size,   *)
(* and the USED blocks are blocks.                                         *)
(***************************************************************************)
TypeOK ==
  /\ blocks \subseteq Nat
  /\ size \in [blocks -> Nat]
  /\ DOMAIN asked \subseteq blocks
  /\ asked \in [DOMAIN asked -> Nat]
  /\ top \in Nat

(***************************************************************************)
(* No two blocks of the heap share a byte and all lie below the bump       *)
(* pointer, whatever splits, reuses and merges came before: a header, a    *)
(* footer or a payload is never written through another block.             *)
(***************************************************************************)
Disjoint ==
  /\ START <= top
  /\ \A b \in blocks : START <= b /\ End(b) <= top
  /\ \A b, c \in blocks : b < c => End(b) <= c

(***************************************************************************)
(* A block that is handed out holds at least what was asked for, so the    *)
(* owner's bytes end before the block's footer.                            *)
(***************************************************************************)
PayloadFits == \A b \in DOMAIN asked : asked[b] <= size[b]

(***************************************************************************)
(* The heap loses no memory to splits and merges: behind every block is    *)
(* the bump pointer or, within MaxGap bytes (what the header move of a     *)
(* page-aligned request skips), another block.                             *)
(***************************************************************************)
NoLostSpace ==
  \A b \in blocks :
    End(b) = top \/ \E c \in blocks : End(b) <= c /\ c <= End(b) + MaxGap

(***************************************************************************)
(* Nothing the heap does moves, shrinks, grows or swallows a block that    *)
(* is in use: freeing, splitting and merging touch other blocks only.      *)
(***************************************************************************)
LiveStays ==
  [][\A b \in DOMAIN asked : b \in blocks' /\ size'[b] = size[b]]_vars
===========================================================================
