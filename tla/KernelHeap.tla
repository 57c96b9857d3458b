---------------------------- MODULE KernelHeap ----------------------------
(***************************************************************************)
(* memory/kernel_heap.c as it runs: headers and footers in memory, the     *)
(* doubly linked list through the headers (HEAP_LINKED_LIST_HEAD, _LAST),  *)
(* and the scans, sorts and merges over it, one action per loop iteration. *)
(*                                                                         *)
(* A call is a stack of the loops still to run (Head(stack) is the running *)
(* one) with a cursor, the heap_entry_list of the loop.  Addresses are     *)
(* offsets from KERNEL_VIRTUAL_MAPPED_BASE; NULL is 0.                     *)
(*                                                                         *)
(* The list can come to hold pointers to headers that a merge has zeroed   *)
(* (see Remove and Split).  hdr keeps such an address, with zero fields,   *)
(* while its bytes are known; once they have been given to an owner or     *)
(* overwritten the address moves to `stale', and a call that follows it is *)
(* in the hands of those bytes: the model stops there (GoWild).            *)
(***************************************************************************)
EXTENDS Integers, Sequences, Functions

CONSTANTS
  START, LIMIT,     \* the heap's first address; no request may end above LIMIT
  SIZES,            \* the payload sizes that are requested
  HDR, FTR, SLACK,  \* as in HeapBlocks
  PAGE,             \* 0x1000
  FILLERS, GAPS     \* HeapBlocks' bounds: the fillers and gaps the pages can need

ASSUME KernelHeapConstants ==
  /\ START \in Nat \ {0} /\ LIMIT \in Nat /\ SIZES \subseteq Nat
  /\ HDR \in Nat \ {0} /\ FTR \in Nat \ {0} /\ SLACK \in Nat
  /\ PAGE \in Nat /\ PAGE > 2 * HDR + FTR
  /\ FILLERS \subseteq Nat /\ 0 \in GAPS /\ GAPS \subseteq 0 .. (HDR + FTR)

VARIABLES
  hdr,                  \* heap_entry_linked_list at each address known to hold one
  ftr,                  \* header_location of the footer at each address holding one
  stale,                \* former header addresses whose bytes are no longer known
  HEAP_LINKED_LIST_HEAD, HEAP_LINKED_LIST_LAST,
  mallocable_address,
  asked,                \* for each block in use, the payload its owner asked for
  cut,                  \* whether a split has left a remainder in the list
  stack, cursor, arg, filler

memory == <<hdr, ftr, stale, HEAP_LINKED_LIST_HEAD, HEAP_LINKED_LIST_LAST,
            mallocable_address, asked, cut>>
vars == <<hdr, ftr, stale, HEAP_LINKED_LIST_HEAD, HEAP_LINKED_LIST_LAST,
          mallocable_address, asked, cut, stack, cursor, arg, filler>>

NULL == 0
USED == TRUE
FREE == FALSE
Entry(size, used, next, previous, location) ==
  [size |-> size, used |-> used, next |-> next, previous |-> previous,
   location |-> location]
Zeroed == Entry(0, FREE, NULL, NULL, NULL)

Extent(n) == HDR + n + FTR
Footer(b) == b + HDR + hdr[b].size
Blocks == Range(ftr)

Init ==
  /\ hdr = [a \in {} |-> Zeroed] /\ ftr = [a \in {} |-> NULL] /\ stale = {}
  /\ HEAP_LINKED_LIST_HEAD = NULL /\ HEAP_LINKED_LIST_LAST = NULL
  /\ mallocable_address = START
  /\ asked = [a \in {} |-> 0] /\ cut = FALSE
  /\ stack = <<>> /\ cursor = NULL /\ arg = 0 /\ filler = NULL

---------------------------------------------------------------------------
(***************************************************************************)
(* The list operations work on l = [hdr, head, last]: a write goes through *)
(* a pointer in the order of the code, so that aliased pointers of a       *)
(* damaged list act as they do in memory.                                  *)
(***************************************************************************)
List == [hdr |-> hdr, head |-> HEAP_LINKED_LIST_HEAD, last |-> HEAP_LINKED_LIST_LAST]
Known(l, pointers) == pointers \ {NULL} \subseteq DOMAIN l.hdr
SetNext(l, a, v) ==
  IF a = NULL THEN [l EXCEPT !.head = v] ELSE [l EXCEPT !.hdr[a].next = v]
SetPrevious(l, a, v) ==
  IF a = NULL THEN [l EXCEPT !.last = v] ELSE [l EXCEPT !.hdr[a].previous = v]

\* remove_heap_entry: the neighbours are those the entry's own pointers name.
Remove(l, r) ==
  LET prev == l.hdr[r].previous  next == l.hdr[r].next
  IN  SetPrevious(SetNext(l, prev, next), next, prev)

\* The list operations above, and the bytes lo .. hi-1 given new contents.
Overlaps(lo, hi, width, a) == a < hi /\ lo < a + width
Overwritten(addresses, lo, hi, width) == {a \in addresses : Overlaps(lo, hi, width, a)}

\* Mutant: the entry behind the pair keeps its old previous.
SwapKeepsBehind(l, left, right) ==
  LET before == l.hdr[left].previous
      behind == l.hdr[right].next
      outer  == SetNext(l, before, right)
      tail   == IF behind = NULL THEN [outer EXCEPT !.last = left] ELSE outer
  IN  [tail EXCEPT !.hdr[left].next = behind, !.hdr[left].previous = right,
                   !.hdr[right].next = left,  !.hdr[right].previous = before]
\* swap_heap_entry_linked_list: left and right are next to each other.
Swap(l, left, right) ==
  LET before == l.hdr[left].previous
      behind == l.hdr[right].next
      outer  == SetPrevious(SetNext(l, before, right), behind, left)
  IN  [outer EXCEPT !.hdr[left].next = behind, !.hdr[left].previous = right,
                    !.hdr[right].next = left,  !.hdr[right].previous = before]

Install(l) ==
  /\ hdr' = l.hdr
  /\ HEAP_LINKED_LIST_HEAD' = l.head
  /\ HEAP_LINKED_LIST_LAST' = l.last

\* The innermost loop gives way to `loops'; each starts from the list's head.
Continue(loops, head) ==
  /\ stack' = loops \o Tail(stack)
  /\ cursor' = IF stack' = <<>> THEN NULL ELSE head
  /\ arg' = IF stack' = <<>> THEN 0 ELSE arg
GoWild ==
  /\ stack' = <<"wild">> /\ cursor' = NULL /\ arg' = 0
  /\ UNCHANGED <<memory, filler>>
In(loop) == stack # <<>> /\ Head(stack) = loop

---------------------------------------------------------------------------
Own(b, n) == asked' = [a \in DOMAIN asked \cup {b} |-> IF a = b THEN n ELSE asked[a]]

\* The footers once an entry fills b .. end-1, its own the last FTR bytes.
InsertFooter(b, end) ==
  [f \in (DOMAIN ftr \ Overwritten(DOMAIN ftr, b, end, FTR)) \cup {end - FTR} |->
     IF f = end - FTR THEN b ELSE ftr[f]]

\* insert_heap_entry(n) at b.  The header, payload and footer overwrite what
\* lay there; that is fresh memory unless b is below mallocable_address.
insert_heap_entry(b, n, loops, fill) ==
  LET l == List
      last == HEAP_LINKED_LIST_LAST
      end == b + Extent(n)
      lostHdr == Overwritten(DOMAIN hdr \ {b}, b, end, HDR)
      entry == Entry(n, USED, NULL, IF l.head = NULL THEN NULL ELSE last, b + HDR)
      linked == IF l.head = NULL THEN [l EXCEPT !.head = b] ELSE SetNext(l, last, b)
  IN
  IF l.head # NULL /\ ~Known(l, {last}) THEN GoWild
  ELSE /\ Install([linked EXCEPT
            !.hdr = [a \in (DOMAIN linked.hdr \cup {b}) \ lostHdr |->
                       IF a = b THEN entry ELSE linked.hdr[a]],
            !.last = b])
       /\ ftr' = InsertFooter(b, end)
       /\ stale' = stale \cup lostHdr
       /\ mallocable_address' = end
       /\ Own(b, n)
       /\ filler' = fill
       /\ Continue(<<"sort">> \o loops, linked.head)
       /\ UNCHANGED cut

\* The bytes lo .. hi-1 now belong to an owner, a header or a footer: what
\* they held of a former header is gone.
GiveAway(headers, lo, hi) ==
  LET gone == Overwritten(DOMAIN headers, lo, hi, HDR)
  IN  /\ hdr' = [a \in DOMAIN headers \ gone |-> headers[a]]
      /\ stale' = stale \cup gone

\* Mutant: the new footer is not taken off what is left.
RemainderKeepsFooter(c, n) == hdr[c].size - HDR - n
\* The payload a split leaves, and the footers it writes: a new one in front
\* of the second entry, and the old one, which now names that entry.
Remainder(c, n) == hdr[c].size - Extent(n)
\* Mutant: the old footer is not edited.
SplitOneFooter(c, n) ==
  [f \in DOMAIN ftr \cup {c + Extent(n) - FTR} |-> IF f = c + Extent(n) - FTR THEN c ELSE ftr[f]]
SplitFooters(c, n) ==
  [f \in DOMAIN ftr \cup {c + Extent(n) - FTR, c + Extent(n) + HDR + Remainder(c, n)} |->
     IF f = c + Extent(n) - FTR THEN c
     ELSE IF f = c + Extent(n) + HDR + Remainder(c, n) THEN c + Extent(n) ELSE ftr[f]]

\* find_empty_heap_entry, a FREE entry with room for a second one: the rest
\* is linked behind it.  The old next entry's previous and
\* HEAP_LINKED_LIST_LAST still name the first entry.
SplitEntry(c, n) ==
  LET rest == c + Extent(n)
      front == [hdr EXCEPT ![c].next = rest, ![c].size = n, ![c].used = USED]
      gone == Overwritten(DOMAIN hdr, c + HDR, rest + HDR, HDR)
  IN
  /\ hdr' = [a \in (DOMAIN hdr \ gone) \cup {rest} |->
               IF a = rest THEN Entry(Remainder(c, n), FREE, hdr[c].next, c, rest + HDR)
               ELSE front[a]]
  /\ stale' = (stale \cup gone) \ {rest}
  /\ ftr' = SplitFooters(c, n)
  /\ Own(c, n)
  /\ cut' = TRUE
  /\ Continue(<<"sort">>, HEAP_LINKED_LIST_HEAD)
  /\ UNCHANGED <<HEAP_LINKED_LIST_HEAD, HEAP_LINKED_LIST_LAST, mallocable_address, filler>>

\* find_empty_heap_entry, a FREE entry that fits: handed out whole.
TakeEntry(c, n) ==
  /\ GiveAway([hdr EXCEPT ![c].used = USED], c + HDR, c + HDR + n)
  /\ Own(c, n)
  /\ Continue(<<>>, NULL)
  /\ UNCHANGED <<ftr, HEAP_LINKED_LIST_HEAD, HEAP_LINKED_LIST_LAST,
                 mallocable_address, cut, filler>>

\* One iteration of find_empty_heap_entry's loop, and, past the end of the
\* list, the insert_heap_entry of kernel_heap_malloc.
find_empty_heap_entry ==
  LET e == hdr[cursor] IN
  /\ In("find")
  /\ \/ cursor = NULL /\ insert_heap_entry(mallocable_address, arg, <<>>, NULL)
     \/ cursor # NULL /\ ~Known(List, {cursor}) /\ GoWild
     \/ /\ cursor # NULL /\ Known(List, {cursor})
        /\ \/ e.used = FREE /\ e.size > Extent(arg) + SLACK /\ SplitEntry(cursor, arg)
           \/ /\ e.used = FREE /\ arg <= e.size /\ e.size <= Extent(arg) + SLACK
              /\ TakeEntry(cursor, arg)
           \/ /\ e.used = USED \/ e.size < arg
              /\ Continue(<<"find">>, e.next)
              /\ UNCHANGED <<memory, filler>>

---------------------------------------------------------------------------
\* insert_heap_entry_page_aligned: the header goes right below the next page
\* boundary, behind a filler entry if one fits.
NextPage == ((mallocable_address \div PAGE) + 1) * PAGE
AvailableSize == NextPage - mallocable_address
FillerFits ==
  mallocable_address % PAGE = 0 \/ AvailableSize >= 1 + 2 * HDR + FTR

insert_heap_entry_page_aligned ==
  /\ In("aligned")
  /\ \/ /\ FillerFits
        /\ insert_heap_entry(mallocable_address, AvailableSize - 2 * HDR - FTR,
                             <<"block", "unfill">>, mallocable_address)
     \/ ~FillerFits /\ insert_heap_entry(NextPage - HDR, arg, <<>>, NULL)

InsertAlignedBlock ==
  In("block") /\ insert_heap_entry(mallocable_address, arg, <<>>, filler)

\* Mutant: the filler stays marked USED.
FillerStaysUsed ==
  /\ In("unfill")
  /\ asked' = [a \in DOMAIN asked \ {filler} |-> asked[a]]
  /\ filler' = NULL
  /\ Continue(<<>>, NULL)
  /\ UNCHANGED <<hdr, ftr, stale, HEAP_LINKED_LIST_HEAD, HEAP_LINKED_LIST_LAST,
                 mallocable_address, cut>>

\* needs_to_be_free->is_used = FREE, once the aligned entry stands.
FreeFiller ==
  /\ In("unfill")
  /\ hdr' = [hdr EXCEPT ![filler].used = FREE]
  /\ asked' = [a \in DOMAIN asked \ {filler} |-> asked[a]]
  /\ filler' = NULL
  /\ Continue(<<>>, NULL)
  /\ UNCHANGED <<ftr, stale, HEAP_LINKED_LIST_HEAD, HEAP_LINKED_LIST_LAST,
                 mallocable_address, cut>>

---------------------------------------------------------------------------
\* Mutant: entries of the same size are swapped as well.
OutOfOrderOrEqual(left, right) == right # NULL /\ hdr[left].size >= hdr[right].size
OutOfOrder(left, right) == right # NULL /\ hdr[left].size > hdr[right].size

\* One iteration of sort_heap_entry_linked_list: the first neighbours that
\* are out of order are swapped and the scan starts again.
sort_heap_entry_linked_list ==
  LET right == hdr[cursor].next
      sorted == Swap(List, cursor, right)
  IN
  /\ In("sort")
  /\ UNCHANGED <<ftr, stale, mallocable_address, asked, cut, filler>>
  /\ \/ /\ cursor = NULL
        /\ Continue(<<>>, HEAP_LINKED_LIST_HEAD)
        /\ UNCHANGED <<hdr, HEAP_LINKED_LIST_HEAD, HEAP_LINKED_LIST_LAST>>
     \/ /\ cursor # NULL
        /\ IF ~Known(List, {cursor}) \/ ~Known(List, {right}) THEN GoWild
           ELSE \/ /\ ~OutOfOrder(cursor, right)
                   /\ Continue(<<"sort">>, right)
                   /\ UNCHANGED <<hdr, HEAP_LINKED_LIST_HEAD, HEAP_LINKED_LIST_LAST>>
                \/ /\ OutOfOrder(cursor, right)
                   /\ IF Known(List, {hdr[cursor].previous, hdr[right].next})
                      THEN Install(sorted) /\ Continue(<<"sort">>, sorted.head)
                      ELSE GoWild

---------------------------------------------------------------------------
\* The footers below lo and above hi, and the one at hi, which now names a.
MergeFooters(a, lo, hi) ==
  [f \in DOMAIN ftr \ Overwritten(DOMAIN ftr, lo, hi, FTR) |-> IF f = hi THEN a ELSE ftr[f]]

\* Former headers that lie whole in lo .. hi-1 read as zeros once those bytes
\* are zeroed.  If two lie so close that a write to one would show in the
\* other, neither is tracked.
ZeroHeaders(lo, hi) ==
  LET inside == {x \in DOMAIN hdr \cup stale : lo <= x /\ x + HDR <= hi}
  IN  {x \in inside : \A y \in inside : y # x => y + HDR <= x \/ x + HDR <= y}

\* The headers g on D with zeros at Z, and a's payload grown to newSize.
MergeHeaders(g, D, Z, a, newSize) ==
  [x \in D \cup Z |-> IF x \in Z THEN Zeroed
                      ELSE IF x = a THEN [g[a] EXCEPT !.size = newSize] ELSE g[x]]

\* a is appended at HEAP_LINKED_LIST_LAST; without one it becomes the head if
\* there is none.
AddLast(l, a) ==
  LET linked == IF l.last # NULL \/ l.head = NULL THEN SetNext(l, l.last, a) ELSE l
  IN  SetNext(SetPrevious([linked EXCEPT !.last = a], a, l.last), a, NULL)

\* merge_two_heap_entries_linked_list(a, c): c and then a leave the list, a
\* takes c's bytes, all zeroed, and is appended.
merge_two_heap_entries_linked_list(a, c) ==
  LET newSize == hdr[a].size + Extent(hdr[c].size)
      lo == a + HDR
      hi == lo + newSize
      removed == Remove(List, c)
      zeros == ZeroHeaders(lo, hi)
      gone == Overwritten(DOMAIN hdr, lo, hi, HDR) \ zeros
      merged == [removed EXCEPT
                  !.hdr = MergeHeaders(removed.hdr, DOMAIN hdr \ gone, zeros, a, newSize)]
      without == Remove(merged, a)
      appended == AddLast(without, a)
  IN
  IF /\ Known(List, {hdr[c].previous, hdr[c].next})
     /\ Known(merged, {merged.hdr[a].previous, merged.hdr[a].next})
     /\ Known(without, {without.last})
  THEN /\ Install(appended)
       /\ ftr' = MergeFooters(a, lo, hi)
       /\ stale' = (stale \cup gone) \ zeros
       /\ Continue(<<"sort", "merge">>, appended.head)
       /\ UNCHANGED <<mallocable_address, asked, cut, filler>>
  ELSE GoWild

\* Mutant: an entry in use is merged into a FREE one below it.
MergeableUsed(c) == c - FTR \in DOMAIN ftr /\ hdr[ftr[c - FTR]].used = FREE
Mergeable(c) ==
  /\ hdr[c].used = FREE
  /\ c - FTR \in DOMAIN ftr
  /\ hdr[ftr[c - FTR]].used = FREE

\* One iteration of merge_heap_entries_in_entire_linked_list: an entry is
\* merged into the one whose footer stands right below it if both are FREE.
\* (The loop sorts once more after each merge's own sort: one sort stands for
\* both.)  The list is sorted when the scan is through.
merge_heap_entries_in_entire_linked_list ==
  /\ In("merge")
  /\ \/ /\ cursor = NULL
        /\ Continue(<<"sort">>, HEAP_LINKED_LIST_HEAD)
        /\ UNCHANGED <<memory, filler>>
     \/ cursor # NULL /\ ~Known(List, {cursor}) /\ GoWild
     \/ /\ cursor # NULL /\ Known(List, {cursor})
        /\ \/ /\ Mergeable(cursor)
              /\ merge_two_heap_entries_linked_list(ftr[cursor - FTR], cursor)
           \/ /\ ~Mergeable(cursor)
              /\ Continue(<<"merge">>, hdr[cursor].next)
              /\ UNCHANGED <<memory, filler>>

\* One iteration of kernel_heap_free's search for the address to free; past
\* the end of the list it returns 1.
FreeSearch ==
  LET found == hdr[cursor].location = arg IN
  /\ In("search")
  /\ \/ /\ cursor = NULL
        /\ Continue(<<>>, NULL)
        /\ UNCHANGED <<memory, filler>>
     \/ cursor # NULL /\ ~Known(List, {cursor}) /\ GoWild
     \/ /\ cursor # NULL /\ Known(List, {cursor})
        /\ \/ /\ ~found
              /\ Continue(<<"search">>, hdr[cursor].next)
              /\ UNCHANGED <<memory, filler>>
           \/ /\ found
              /\ hdr' = [hdr EXCEPT ![cursor].used = FREE]
              /\ asked' = [a \in DOMAIN asked \ {cursor} |-> asked[a]]
              /\ Continue(<<"merge">>, HEAP_LINKED_LIST_HEAD)
              /\ UNCHANGED <<ftr, stale, HEAP_LINKED_LIST_HEAD, HEAP_LINKED_LIST_LAST,
                             mallocable_address, cut, filler>>

---------------------------------------------------------------------------
\* The calls.  They come from the shell's commands, one at a time: heap code
\* runs with interrupts off once the shell is up.
Call(loops, value) ==
  /\ stack = <<>>
  /\ stack' = loops
  /\ cursor' = HEAP_LINKED_LIST_HEAD
  /\ arg' = value
  /\ UNCHANGED <<memory, filler>>

kernel_heap_malloc(n) ==
  mallocable_address + Extent(n) <= LIMIT /\ Call(<<"find">>, n)
kernel_heap_malloc_page_aligned(n) ==
  NextPage - HDR + Extent(n) <= LIMIT /\ Call(<<"aligned">>, n)
kernel_heap_free(address) == Call(<<"merge", "search">>, address)
test_heap_merge == Call(<<"merge">>, 0)
test_heap_sort == Call(<<"sort">>, 0)

Request ==
  \/ \E n \in SIZES : kernel_heap_malloc(n) \/ kernel_heap_malloc_page_aligned(n)
  \/ \E b \in DOMAIN hdr \cup stale : kernel_heap_free(b + HDR)
  \/ test_heap_merge
  \/ test_heap_sort

Work ==
  \/ find_empty_heap_entry
  \/ insert_heap_entry_page_aligned \/ InsertAlignedBlock \/ FreeFiller
  \/ sort_heap_entry_linked_list
  \/ merge_heap_entries_in_entire_linked_list
  \/ FreeSearch

\* What a call does after it has followed a pointer into unknown bytes.
Wild == In("wild") /\ UNCHANGED vars

Next == Request \/ Work \/ Wild

Spec == Init /\ [][Next]_vars
\* A call that has work to do goes on: nothing preempts it.
FairSpec == Spec /\ WF_vars(Work)

---------------------------------------------------------------------------
AbstractHeap == INSTANCE HeapBlocks WITH
  blocks <- Blocks,
  size <- [b \in Blocks |-> hdr[b].size],
  top <- mallocable_address

(***************************************************************************)
(* The pointer-level heap does what HeapBlocks promises, whatever state    *)
(* its linked list is in: each iteration of a call grows, splits, reuses,  *)
(* releases or merges blocks as HeapBlocks allows, or changes none.        *)
(***************************************************************************)
ImplementsHeapBlocks == AbstractHeap!Spec

TypeOK ==
  /\ hdr \in [DOMAIN hdr -> [size: Nat, used: BOOLEAN, next: Nat, previous: Nat,
                              location: Nat]]
  /\ ftr \in [DOMAIN ftr -> DOMAIN hdr]
  /\ stale \cap DOMAIN hdr = {}
  /\ {HEAP_LINKED_LIST_HEAD, HEAP_LINKED_LIST_LAST, cursor} \subseteq Nat
  /\ asked \in [DOMAIN asked -> Nat] /\ DOMAIN asked \subseteq Blocks
  /\ stack \in Seq({"find", "aligned", "block", "unfill", "sort", "merge", "search",
                     "wild"})

(***************************************************************************)
(* Every footer names the header of its own block: the test that guards a  *)
(* merge (a footer right below the entry) never takes a block for another  *)
(* one's neighbour, even after links have been lost.                       *)
(***************************************************************************)
FootersSound == \A f \in DOMAIN ftr : f = Footer(ftr[f])

(***************************************************************************)
(* A block is marked USED exactly while somebody owns it: no owner's block *)
(* is handed out again or merged away, none that was given back stays      *)
(* marked.                                                                 *)
(***************************************************************************)
UsedIsOwned == \A b \in Blocks : hdr[b].used <=> b \in DOMAIN asked

(***************************************************************************)
(* Until the first split leaves a remainder, the list is whole whenever a  *)
(* call has returned: it holds every block, in ascending sizes, doubly     *)
(* linked from HEAP_LINKED_LIST_HEAD to HEAP_LINKED_LIST_LAST.             *)
(***************************************************************************)
ListWhole ==
  stack = <<>> /\ ~cut =>
    /\ \A b \in Blocks :
         /\ hdr[b].previous = NULL <=> b = HEAP_LINKED_LIST_HEAD
         /\ hdr[b].next = NULL <=> b = HEAP_LINKED_LIST_LAST
         /\ hdr[b].next # NULL => /\ hdr[b].next \in Blocks
                                  /\ hdr[hdr[b].next].previous = b
                                  /\ hdr[b].size <= hdr[hdr[b].next].size
    /\ Blocks = {} <=> HEAP_LINKED_LIST_HEAD = NULL

(***************************************************************************)
(* Every call of the heap returns: the scans, the restarting sort and the  *)
(* restarting merge reach the end of the list.  (Until a split: see        *)
(* SortReturns for what follows it.)                                       *)
(***************************************************************************)
CallsReturn == stack # <<>> ~> stack = <<>> \/ cut

---------------------------------------------------------------------------
(***************************************************************************)
(* What comments of the code say and the code does not keep.  First: "Sort *)
(* the entire Heap Linked List by ascending order"                         *)
(* (kernel_heap.c:438): a sort that starts comes to its end.               *)
(***************************************************************************)
SortReturns == In("sort") ~> ~In("sort")

(***************************************************************************)
(* "Returning the address for the Page Aligned Heap Malloced Space that    *)
(* can be used by the Kernel/User" (kernel_heap.c:265): the blocks of two  *)
(* owners, header to footer, do not overlap.                               *)
(***************************************************************************)
OwnersApart ==
  \A b, c \in DOMAIN asked : b < c => b + Extent(asked[b]) <= c
===========================================================================
