------------------------- MODULE KernelHeap_proofs -------------------------
(***************************************************************************)
(* Proofs about KernelHeap, for every START, LIMIT, page size and set of   *)
(* request sizes: footers and owners are sound, and the pointer-level heap *)
(* implements HeapBlocks, whatever its linked list looks like; and until a *)
(* split leaves a remainder, the list holds every block in order.          *)
(*                                                                         *)
(* HeapInv is the inductive invariant of the memory; ListInv, with it,     *)
(* that of the list (the second half of the module).  Two facts of the     *)
(* state are all that is asked of the callers: no request is for 0 bytes,  *)
(* and no page-aligned request comes so close below a page boundary that   *)
(* its header would lie in front of mallocable_address (AlignedInBounds;   *)
(* OwnersApart is the run that shows what happens then).                   *)
(***************************************************************************)
EXTENDS KernelHeap, WellFoundedInduction, TLAPS

A == INSTANCE HeapBlocks_proofs WITH
  blocks <- Blocks,
  size <- [b \in Blocks |-> hdr[b].size],
  top <- mallocable_address

Header == [size: Nat, used: BOOLEAN, next: Nat, previous: Nat, location: Nat]

\* What a page-aligned request finds is what HeapBlocks allows: a filler of
\* one of the FILLERS sizes or a gap of GAPS.  With FILLERS = Nat and every
\* gap up to HDR + FTR this says that, without a filler, HDR bytes are left
\* below the page boundary.
AlignedInBounds ==
  In("aligned") => IF FillerFits THEN AvailableSize - 2 * HDR - FTR \in FILLERS
                                 ELSE AvailableSize - HDR \in GAPS

MemoryType ==
  /\ hdr \in [DOMAIN hdr -> Header] /\ DOMAIN hdr \subseteq Nat
  /\ ftr \in [DOMAIN ftr -> DOMAIN hdr] /\ DOMAIN ftr \subseteq Nat
  /\ HEAP_LINKED_LIST_HEAD \in Nat /\ HEAP_LINKED_LIST_LAST \in Nat

\* A header of a block holds the address of its payload.
LocationsSound == \A b \in Blocks : hdr[b].location = b + HDR

\* A header that is no block's (a merge has zeroed it) lies in the payload
\* of a block, and reads as zeros.
GhostsInside ==
  \A x \in DOMAIN hdr \ Blocks :
    /\ hdr[x].size = 0 /\ hdr[x].used = FREE /\ hdr[x].location = NULL
    /\ \E b \in Blocks : b + HDR <= x /\ x + HDR <= Footer(b)

StaleBelow ==
  \A x \in stale : x \in Nat /\ x < mallocable_address /\ x \notin DOMAIN hdr

MemoryInv ==
  /\ MemoryType /\ A!HeapInv /\ FootersSound /\ UsedIsOwned
  /\ LocationsSound /\ GhostsInside /\ StaleBelow

\* The calls' stacks, with what the loops on them still rely on.
Searching == {<<"search">>, <<"sort", "search">>, <<"merge", "search">>,
              <<"sort", "merge", "search">>}
Scanning == {<<>>, <<"sort">>, <<"merge">>, <<"sort", "merge">>, <<"wild">>}
CallInv ==
  /\ cursor \in Nat /\ arg \in Nat /\ filler \in Nat
  /\ \/ stack \in Scanning
     \/ stack \in Searching /\ arg # NULL
     \/ /\ stack = <<"find">> /\ arg \in SIZES
        /\ mallocable_address + Extent(arg) <= LIMIT
     \/ /\ stack = <<"aligned">> /\ arg \in SIZES
        /\ NextPage - HDR + Extent(arg) <= LIMIT
     \/ /\ stack \in {<<"sort", "block", "unfill">>, <<"block", "unfill">>}
        /\ arg \in SIZES /\ mallocable_address + Extent(arg) <= LIMIT
        /\ filler \in DOMAIN asked
     \/ stack \in {<<"sort", "unfill">>, <<"unfill">>} /\ filler \in DOMAIN asked

HeapInv == MemoryInv /\ CallInv

---------------------------------------------------------------------------
(***************************************************************************)
(* The list operations write pointers only: whatever the pointers are, no  *)
(* header appears or goes, and sizes, marks and locations stay.            *)
(***************************************************************************)
Lists(D) == [hdr: [D -> Header], head: Nat, last: Nat]
SameData(h, g) ==
  \A x \in DOMAIN g :
    /\ h[x].size = g[x].size /\ h[x].used = g[x].used
    /\ h[x].location = g[x].location

LEMMA HeaderNext ==
  ASSUME NEW e \in Header, NEW v \in Nat
  PROVE  LET n == [e EXCEPT !.next = v] IN
         n \in Header /\ n.size = e.size /\ n.used = e.used /\ n.location = e.location
BY DEF Header

LEMMA HeaderPrevious ==
  ASSUME NEW e \in Header, NEW v \in Nat
  PROVE  LET n == [e EXCEPT !.previous = v] IN
         n \in Header /\ n.size = e.size /\ n.used = e.used /\ n.location = e.location
BY DEF Header

LEMMA WriteNext ==
  ASSUME NEW D, NEW h \in [D -> Header], NEW a, NEW v \in Nat
  PROVE  [h EXCEPT ![a].next = v] \in [D -> Header] /\ SameData([h EXCEPT ![a].next = v], h)
<1>. DEFINE g == [h EXCEPT ![a].next = v]
<1>1. g = [x \in D |-> IF x = a THEN [h[x] EXCEPT !.next = v] ELSE h[x]]
  OBVIOUS
<1>2. \A x \in D : h[x] \in Header OBVIOUS
<1>3. ASSUME NEW x \in D
      PROVE /\ g[x] \in Header /\ g[x].size = h[x].size /\ g[x].used = h[x].used
            /\ g[x].location = h[x].location
  <2>1. CASE x = a BY <1>1, <1>2, <2>1, HeaderNext
  <2>2. CASE x # a BY <1>1, <1>2, <2>2
  <2>. QED BY <2>1, <2>2
<1>. QED BY <1>1, <1>3 DEF SameData

LEMMA WritePrevious ==
  ASSUME NEW D, NEW h \in [D -> Header], NEW a, NEW v \in Nat
  PROVE  [h EXCEPT ![a].previous = v] \in [D -> Header] /\ SameData([h EXCEPT ![a].previous = v], h)
<1>. DEFINE g == [h EXCEPT ![a].previous = v]
<1>1. g = [x \in D |-> IF x = a THEN [h[x] EXCEPT !.previous = v] ELSE h[x]]
  OBVIOUS
<1>2. \A x \in D : h[x] \in Header OBVIOUS
<1>3. ASSUME NEW x \in D
      PROVE /\ g[x] \in Header /\ g[x].size = h[x].size /\ g[x].used = h[x].used
            /\ g[x].location = h[x].location
  <2>1. CASE x = a BY <1>1, <1>2, <2>1, HeaderPrevious
  <2>2. CASE x # a BY <1>1, <1>2, <2>2
  <2>. QED BY <2>1, <2>2
<1>. QED BY <1>1, <1>3 DEF SameData

\* The list l' with headers h, of the same addresses and data as l's.
SameList(k, l, D) == k \in Lists(D) /\ SameData(k.hdr, l.hdr)

LEMMA SetNextData ==
  ASSUME NEW D, NEW l \in Lists(D), NEW a, NEW v \in Nat
  PROVE  SameList(SetNext(l, a, v), l, D)
<1>1. CASE a = NULL BY <1>1 DEF SetNext, Lists, SameList, SameData
<1>2. CASE a # NULL
  <2>1. l.hdr \in [D -> Header] BY DEF Lists
  <2>2. PICK g : g = [l.hdr EXCEPT ![a].next = v] OBVIOUS
  <2>3. g \in [D -> Header] /\ SameData(g, l.hdr) BY <2>1, <2>2, WriteNext
  <2>4. SetNext(l, a, v) = [l EXCEPT !.hdr = g] BY <1>2, <2>2 DEF SetNext
  <2>. QED BY <2>3, <2>4 DEF Lists, SameList
<1>. QED BY <1>1, <1>2

LEMMA SetPreviousData ==
  ASSUME NEW D, NEW l \in Lists(D), NEW a, NEW v \in Nat
  PROVE  SameList(SetPrevious(l, a, v), l, D)
<1>1. CASE a = NULL BY <1>1 DEF SetPrevious, Lists, SameList, SameData
<1>2. CASE a # NULL
  <2>1. l.hdr \in [D -> Header] BY DEF Lists
  <2>2. PICK g : g = [l.hdr EXCEPT ![a].previous = v] OBVIOUS
  <2>3. g \in [D -> Header] /\ SameData(g, l.hdr) BY <2>1, <2>2, WritePrevious
  <2>4. SetPrevious(l, a, v) = [l EXCEPT !.hdr = g] BY <1>2, <2>2 DEF SetPrevious
  <2>. QED BY <2>3, <2>4 DEF Lists, SameList
<1>. QED BY <1>1, <1>2

LEMMA SameListTrans ==
  ASSUME NEW D, NEW l \in Lists(D), NEW k, NEW m, SameList(k, l, D), SameList(m, k, D)
  PROVE  SameList(m, l, D)
BY DEF SameList, SameData, Lists

LEMMA RemoveData ==
  ASSUME NEW D, NEW l \in Lists(D), NEW r \in D
  PROVE  SameList(Remove(l, r), l, D)
<1>1. PICK prev : prev = l.hdr[r].previous OBVIOUS
<1>2. PICK next : next = l.hdr[r].next OBVIOUS
<1>3. l.hdr[r] \in Header BY DEF Lists
<1>4. prev \in Nat /\ next \in Nat BY <1>1, <1>2, <1>3 DEF Header
<1>5. PICK k : k = SetNext(l, prev, next) OBVIOUS
<1>6. SameList(k, l, D) BY <1>4, <1>5, SetNextData
<1>7. k \in Lists(D) BY <1>6 DEF SameList
<1>8. SameList(SetPrevious(k, next, prev), k, D) BY <1>4, <1>7, SetPreviousData
<1>9. Remove(l, r) = SetPrevious(k, next, prev) BY <1>1, <1>2, <1>5 DEF Remove
<1>. QED BY <1>6, <1>8, <1>9, SameListTrans

\* The four pointers of the swapped pair are written one after the other.
PairWrite(l, a, b, v, w, x, y) ==
  [l EXCEPT !.hdr[a].next = v, !.hdr[a].previous = w,
            !.hdr[b].next = x, !.hdr[b].previous = y]
LEMMA PairWritten ==
  ASSUME NEW l, NEW a, NEW b, NEW v, NEW w, NEW x, NEW y, a # NULL, b # NULL
  PROVE  PairWrite(l, a, b, v, w, x, y)
         = SetPrevious(SetNext(SetPrevious(SetNext(l, a, v), a, w), b, x), b, y)
BY ZenonT(60) DEF PairWrite, SetNext, SetPrevious

LEMMA SwapData ==
  ASSUME NEW D, NEW l \in Lists(D), NEW left \in D \cap Nat, NEW right \in D \cap Nat,
         left # NULL, right # NULL
  PROVE  SameList(Swap(l, left, right), l, D)
<1>1. PICK before : before = l.hdr[left].previous OBVIOUS
<1>2. PICK behind : behind = l.hdr[right].next OBVIOUS
<1>3. l.hdr[left] \in Header /\ l.hdr[right] \in Header BY DEF Lists
<1>4. before \in Nat /\ behind \in Nat BY <1>1, <1>2, <1>3 DEF Header
<1>5. PICK k1 : k1 = SetNext(l, before, right) OBVIOUS
<1>6. SameList(k1, l, D) /\ k1 \in Lists(D) BY <1>4, <1>5, SetNextData DEF SameList
<1>7. PICK k2 : k2 = SetPrevious(k1, behind, left) OBVIOUS
<1>8. SameList(k2, k1, D) /\ k2 \in Lists(D) BY <1>4, <1>6, <1>7, SetPreviousData DEF SameList
<1>9. PICK k3 : k3 = SetNext(k2, left, behind) OBVIOUS
<1>10. SameList(k3, k2, D) /\ k3 \in Lists(D) BY <1>4, <1>8, <1>9, SetNextData DEF SameList
<1>11. PICK k4 : k4 = SetPrevious(k3, left, right) OBVIOUS
<1>12. SameList(k4, k3, D) /\ k4 \in Lists(D) BY <1>10, <1>11, SetPreviousData DEF SameList
<1>13. PICK k5 : k5 = SetNext(k4, right, left) OBVIOUS
<1>14. SameList(k5, k4, D) /\ k5 \in Lists(D) BY <1>12, <1>13, SetNextData DEF SameList
<1>15. PICK k6 : k6 = SetPrevious(k5, right, before) OBVIOUS
<1>16. SameList(k6, k5, D) BY <1>4, <1>14, <1>15, SetPreviousData
<1>17. Swap(l, left, right) = PairWrite(k2, left, right, behind, right, left, before)
  BY <1>1, <1>2, <1>5, <1>7, Zenon DEF Swap, PairWrite
<1>18. Swap(l, left, right) = k6
  <2>1. PairWrite(k2, left, right, behind, right, left, before) =
          SetPrevious(SetNext(SetPrevious(SetNext(k2, left, behind), left, right),
                              right, left), right, before)
    BY PairWritten
  <2>. QED BY <2>1, <1>9, <1>11, <1>13, <1>15, <1>17, Zenon
<1>19. SameList(k2, l, D) BY <1>6, <1>8, SameListTrans
<1>20. SameList(k4, k2, D) BY <1>8, <1>10, <1>12, SameListTrans
<1>21. SameList(k6, k4, D) BY <1>12, <1>14, <1>16, SameListTrans
<1>22. SameList(k4, l, D) BY <1>19, <1>20, SameListTrans
<1>. QED BY <1>18, <1>21, <1>22, SameListTrans

---------------------------------------------------------------------------
(***************************************************************************)
(* What the invariant says of the memory's layout, address by address.     *)
(***************************************************************************)
LEMMA Constants == A!HeapConstants /\ HDR \in Nat /\ HDR > 0 /\ FTR \in Nat /\ FTR > 0
                   /\ SLACK \in Nat /\ LIMIT \in Nat
BY KernelHeapConstants DEF A!HeapConstants

LEMMA BlocksLaidOut ==
  ASSUME MemoryInv
  PROVE  /\ \A b \in Blocks :
              /\ b \in DOMAIN hdr /\ b \in Nat /\ hdr[b].size \in Nat /\ hdr[b].used \in BOOLEAN
              /\ Footer(b) = b + HDR + hdr[b].size
              /\ Footer(b) \in DOMAIN ftr /\ ftr[Footer(b)] = b
              /\ Footer(b) + FTR <= mallocable_address
         /\ \A b, c \in Blocks : b < c => Footer(b) + FTR <= c
         /\ mallocable_address \in Nat
         /\ DOMAIN asked \subseteq Blocks /\ asked \in [DOMAIN asked -> Nat]
<1>. USE Constants
<1>1. \A b \in Blocks : \E f \in DOMAIN ftr : ftr[f] = b /\ f = Footer(b)
  BY DEF MemoryInv, FootersSound, Blocks, Range
<1>2. \A b \in Blocks : b \in DOMAIN hdr
  BY DEF MemoryInv, MemoryType, Blocks, Range
<1>3. \A b \in Blocks : b \in Nat /\ hdr[b] \in Header
  BY <1>2 DEF MemoryInv, MemoryType
<1>4. \A b \in Blocks : hdr[b].size \in Nat /\ hdr[b].used \in BOOLEAN
  BY <1>3 DEF Header
<1>5. \A b \in Blocks : A!End(b) = Footer(b) + FTR
  BY <1>3, <1>4 DEF A!End, A!Extent, Footer
<1>6. /\ \A b \in Blocks : A!End(b) <= mallocable_address
      /\ \A b, c \in Blocks : b < c => A!End(b) <= c
  BY DEF MemoryInv, A!HeapInv, A!Disjoint
<1>7. /\ mallocable_address \in Nat
      /\ DOMAIN asked \subseteq Blocks /\ asked \in [DOMAIN asked -> Nat]
  BY DEF MemoryInv, A!HeapInv, A!TypeOK
<1>8. \A b \in Blocks : Footer(b) \in DOMAIN ftr /\ ftr[Footer(b)] = b BY <1>1
<1>9. \A b \in Blocks : Footer(b) + FTR <= mallocable_address BY <1>5, <1>6
<1>10. \A b, c \in Blocks : b < c => Footer(b) + FTR <= c BY <1>5, <1>6
<1>11. \A b \in Blocks : Footer(b) = b + HDR + hdr[b].size BY DEF Footer
<1>. QED BY <1>2, <1>3, <1>4, <1>7, <1>8, <1>9, <1>10, <1>11

\* Every header lies within a block's bytes: below mallocable_address, and
\* clear of every other block.
LEMMA HeadersLaidOut ==
  ASSUME MemoryInv, NEW x \in DOMAIN hdr
  PROVE  /\ x \in Nat /\ x + HDR <= mallocable_address
         /\ hdr[x] \in Header /\ hdr[x].size \in Nat /\ hdr[x].next \in Nat /\ hdr[x].previous \in Nat
         /\ \E b \in Blocks :
              /\ b <= x /\ x + HDR <= Footer(b)
              /\ x # b => x \notin Blocks /\ b + HDR <= x
              /\ \A c \in Blocks : c < b => Footer(c) + FTR <= x
              /\ \A c \in Blocks : b < c => x + HDR <= c
<1>. USE Constants
<1>1. /\ x \in Nat /\ hdr[x] \in Header BY DEF MemoryInv, MemoryType
<1>2. hdr[x].size \in Nat /\ hdr[x].next \in Nat /\ hdr[x].previous \in Nat BY <1>1 DEF Header
<1>3. PICK b \in Blocks : /\ b <= x /\ x + HDR <= Footer(b)
                          /\ x # b => x \notin Blocks /\ b + HDR <= x
  <2>1. CASE x \in Blocks BY <1>1, <1>2, <2>1 DEF Footer
  <2>2. CASE x \notin Blocks
    BY <1>1, <2>2, BlocksLaidOut DEF MemoryInv, GhostsInside
  <2>. QED BY <2>1, <2>2
<1>4. /\ b \in Nat /\ Footer(b) \in Nat /\ Footer(b) + FTR <= mallocable_address
      /\ mallocable_address \in Nat
  BY BlocksLaidOut DEF Footer
<1>5. \A c \in Blocks : c < b => Footer(c) + FTR <= x
  BY <1>1, <1>3, <1>4, BlocksLaidOut DEF Footer
<1>6. \A c \in Blocks : b < c => x + HDR <= c
  BY <1>1, <1>3, <1>4, BlocksLaidOut DEF Footer
<1>7. x + HDR <= mallocable_address BY <1>1, <1>3, <1>4
<1>. QED BY <1>1, <1>2, <1>3, <1>5, <1>6, <1>7

LEMMA FootersLaidOut ==
  ASSUME MemoryInv, NEW f \in DOMAIN ftr
  PROVE  f \in Nat /\ ftr[f] \in Blocks /\ f = Footer(ftr[f])
BY DEF MemoryInv, MemoryType, FootersSound, Blocks, Range

---------------------------------------------------------------------------
(***************************************************************************)
(* Steps that change no more than pointers: HeapBlocks stutters.           *)
(***************************************************************************)
LEMMA PointersOnly ==
  ASSUME MemoryInv, hdr' \in [DOMAIN hdr -> Header], SameData(hdr', hdr),
         HEAP_LINKED_LIST_HEAD' \in Nat, HEAP_LINKED_LIST_LAST' \in Nat,
         UNCHANGED <<ftr, stale, mallocable_address, asked>>
  PROVE  MemoryInv' /\ UNCHANGED A!vars
<1>1. DOMAIN hdr' = DOMAIN hdr OBVIOUS
<1>2. Blocks' = Blocks BY DEF Blocks
<1>3. \A b \in Blocks : b \in DOMAIN hdr BY BlocksLaidOut
<1>4. \A x \in DOMAIN hdr : hdr'[x].size = hdr[x].size /\ hdr'[x].used = hdr[x].used
                             /\ hdr'[x].location = hdr[x].location
  BY DEF SameData
<1>5. UNCHANGED A!vars BY <1>2, <1>3, <1>4 DEF A!vars
<1>6. A!HeapInv' BY <1>5, A!NextInv, Constants DEF MemoryInv
<1>7. MemoryType' BY <1>1 DEF MemoryInv, MemoryType
<1>8. \A b \in Blocks : Footer(b)' = Footer(b) BY <1>3, <1>4 DEF Footer
<1>9. FootersSound' BY <1>8, FootersLaidOut DEF MemoryInv, FootersSound
<1>10. UsedIsOwned' BY <1>2, <1>3, <1>4, Zenon DEF MemoryInv, UsedIsOwned
<1>11. LocationsSound' BY <1>2, <1>3, <1>4 DEF MemoryInv, LocationsSound
<1>12. GhostsInside' BY <1>1, <1>2, <1>4, <1>8 DEF MemoryInv, GhostsInside
<1>13. StaleBelow' BY <1>1 DEF MemoryInv, StaleBelow
<1>. QED BY <1>5, <1>6, <1>7, <1>9, <1>10, <1>11, <1>12, <1>13 DEF MemoryInv

LEMMA MemoryKept ==
  ASSUME MemoryInv, UNCHANGED memory
  PROVE  MemoryInv' /\ UNCHANGED A!vars
<1>1. /\ hdr' = hdr /\ UNCHANGED <<ftr, stale, mallocable_address, asked>>
      /\ UNCHANGED <<HEAP_LINKED_LIST_HEAD, HEAP_LINKED_LIST_LAST>>
  BY DEF memory
<1>2. SameData(hdr', hdr) BY <1>1 DEF SameData
<1>. QED BY <1>1, <1>2, PointersOnly DEF MemoryInv, MemoryType

---------------------------------------------------------------------------
(***************************************************************************)
(* insert_heap_entry, at or above mallocable_address: HeapBlocks grows.    *)
(***************************************************************************)
LEMMA ListTyped ==
  ASSUME MemoryInv
  PROVE  /\ List \in Lists(DOMAIN hdr) /\ List.hdr = hdr
         /\ List.head = HEAP_LINKED_LIST_HEAD /\ List.last = HEAP_LINKED_LIST_LAST
BY DEF MemoryInv, MemoryType, List, Lists

LEMMA FreshMemory ==
  ASSUME MemoryInv, NEW b \in Nat, NEW n \in Nat, mallocable_address <= b
  PROVE  /\ b \notin DOMAIN hdr /\ b \notin stale
         /\ Overwritten(DOMAIN hdr \ {b}, b, b + Extent(n), HDR) = {}
         /\ Overwritten(DOMAIN ftr, b, b + Extent(n), FTR) = {}
<1>. USE Constants
<1>1. mallocable_address \in Nat BY BlocksLaidOut
<1>2. \A x \in DOMAIN hdr : x \in Nat /\ x + HDR <= mallocable_address
  BY HeadersLaidOut
<1>3. \A f \in DOMAIN ftr : f \in Nat /\ f + FTR <= mallocable_address
  BY FootersLaidOut, BlocksLaidOut
<1>4. b \notin DOMAIN hdr BY <1>1, <1>2
<1>5. b \notin stale BY <1>1 DEF MemoryInv, StaleBelow
<1>6. \A x \in DOMAIN hdr \ {b} : ~ (b < x + HDR) BY <1>1, <1>2
<1>7. \A f \in DOMAIN ftr : ~ (b < f + FTR) BY <1>1, <1>3
<1>. QED BY <1>4, <1>5, <1>6, <1>7 DEF Overwritten, Overlaps

LEMMA InsertExpanded ==
  ASSUME NEW b, NEW n, NEW loops, NEW fill, insert_heap_entry(b, n, loops, fill), ~GoWild
  PROVE
    LET linked == IF List.head = NULL THEN [List EXCEPT !.head = b]
                  ELSE SetNext(List, HEAP_LINKED_LIST_LAST, b)
        p == IF List.head = NULL THEN NULL ELSE HEAP_LINKED_LIST_LAST
        entry == Entry(n, USED, NULL, p, b + HDR)
        lostHdr == Overwritten(DOMAIN hdr \ {b}, b, b + Extent(n), HDR)
    IN  /\ Install([linked EXCEPT
              !.hdr = [x \in (DOMAIN linked.hdr \cup {b}) \ lostHdr |->
                         IF x = b THEN entry ELSE linked.hdr[x]],
              !.last = b])
        /\ ftr' = InsertFooter(b, b + Extent(n))
        /\ stale' = stale \cup lostHdr
        /\ mallocable_address' = b + Extent(n)
        /\ Own(b, n)
        /\ filler' = fill
        /\ Continue(<<"sort">> \o loops, linked.head)
BY Zenon DEF insert_heap_entry

\* The headers of g with a new one at b, its payload n bytes.
WithEntry(g, b, n, p) ==
  [x \in DOMAIN g \cup {b} |-> IF x = b THEN Entry(n, USED, NULL, p, b + HDR) ELSE g[x]]

\* What insert_heap_entry leaves when nothing lies at b .. end - 1.
Inserted(b, n, end, loops, fill) ==
  /\ \E g, p : /\ g \in [DOMAIN hdr -> Header] /\ SameData(g, hdr)
               /\ p \in Nat /\ hdr' = WithEntry(g, b, n, p)
  /\ HEAP_LINKED_LIST_HEAD' \in Nat
  /\ stack' = <<"sort">> \o loops \o Tail(stack)
  /\ cursor' \in Nat
  /\ HEAP_LINKED_LIST_LAST' = b
  /\ ftr' = [f \in DOMAIN ftr \cup {end - FTR} |-> IF f = end - FTR THEN b ELSE ftr[f]]
  /\ stale' = stale
  /\ mallocable_address' = end
  /\ Own(b, n)
  /\ filler' = fill
  /\ arg' = IF stack' = <<>> THEN 0 ELSE arg

LEMMA InsertData ==
  ASSUME MemoryInv, NEW b \in Nat, NEW n \in Nat, mallocable_address <= b,
         NEW loops, NEW fill, NEW end \in Nat, end = b + Extent(n),
         insert_heap_entry(b, n, loops, fill), ~GoWild
  PROVE  Inserted(b, n, end, loops, fill)
<1>. USE Constants
<1>. DEFINE linked == IF List.head = NULL THEN [List EXCEPT !.head = b]
                      ELSE SetNext(List, HEAP_LINKED_LIST_LAST, b)
            p == IF List.head = NULL THEN NULL ELSE HEAP_LINKED_LIST_LAST
            entry == Entry(n, USED, NULL, p, b + HDR)
            lostHdr == Overwritten(DOMAIN hdr \ {b}, b, end, HDR)
            lostFtr == Overwritten(DOMAIN ftr, b, end, FTR)
            new == [x \in (DOMAIN linked.hdr \cup {b}) \ lostHdr |->
                      IF x = b THEN entry ELSE linked.hdr[x]]
            result == [linked EXCEPT
              !.hdr = [x \in (DOMAIN linked.hdr \cup {b}) \ lostHdr |->
                         IF x = b THEN entry ELSE linked.hdr[x]],
              !.last = b]
<1>1. lostHdr = {} /\ lostFtr = {} BY FreshMemory
<1>2. linked \in Lists(DOMAIN hdr) /\ SameData(linked.hdr, hdr)
  <2>1. CASE List.head = NULL
    BY <2>1, ListTyped DEF Lists, SameData
  <2>2. CASE List.head # NULL
    BY <2>2, ListTyped, SetNextData DEF SameList
  <2>. QED BY <2>1, <2>2
<1>3. p \in Nat BY DEF MemoryInv, MemoryType, NULL
<1>4. /\ Install(result)
      /\ ftr' = InsertFooter(b, end)
      /\ stale' = stale \cup lostHdr
      /\ mallocable_address' = end
      /\ Own(b, n)
      /\ filler' = fill
      /\ Continue(<<"sort">> \o loops, linked.head)
  BY InsertExpanded, Zenon
<1>. HIDE DEF lostHdr, lostFtr, p
<1>5. result.hdr = new /\ result.head = linked.head /\ result.last = b
  BY <1>2 DEF Lists
<1>6. DOMAIN linked.hdr = DOMAIN hdr BY <1>2 DEF Lists
<1>7. new = [x \in DOMAIN hdr \cup {b} |-> IF x = b THEN entry ELSE linked.hdr[x]]
  BY <1>1, <1>6
<1>. HIDE DEF linked, new, entry
<1>8. /\ hdr' = new /\ HEAP_LINKED_LIST_HEAD' = linked.head /\ HEAP_LINKED_LIST_LAST' = b
  BY <1>4, <1>5, Zenon DEF Install
<1>9. stale' = stale BY <1>1, <1>4
<1>10. ftr' = [f \in DOMAIN ftr \cup {end - FTR} |-> IF f = end - FTR THEN b ELSE ftr[f]]
  <2>1. ftr' = InsertFooter(b, end) BY <1>4, Zenon
  <2>2. DOMAIN ftr \ Overwritten(DOMAIN ftr, b, end, FTR) = DOMAIN ftr
    BY <1>1 DEF lostFtr
  <2>. QED BY ONLY <2>1, <2>2 DEF InsertFooter
<1>11. /\ stack' = <<"sort">> \o loops \o Tail(stack)
       /\ cursor' = IF stack' = <<>> THEN NULL ELSE linked.head
       /\ arg' = IF stack' = <<>> THEN 0 ELSE arg
  BY <1>4, Zenon DEF Continue
<1>12. linked.hdr \in [DOMAIN hdr -> Header] /\ linked.head \in Nat BY <1>2 DEF Lists
<1>13. HEAP_LINKED_LIST_HEAD' \in Nat /\ cursor' \in Nat BY <1>8, <1>11, <1>12 DEF NULL
<1>14. hdr' = WithEntry(linked.hdr, b, n, p) BY <1>6, <1>7, <1>8, Zenon DEF WithEntry, entry
<1>15. \E g, q : /\ g \in [DOMAIN hdr -> Header] /\ SameData(g, hdr)
                 /\ q \in Nat /\ hdr' = WithEntry(g, b, n, q)
  BY <1>2, <1>3, <1>12, <1>14, Zenon
<1>. QED BY <1>4, <1>8, <1>9, <1>10, <1>11, <1>13, <1>15, Zenon DEF Inserted

\* The headers that insert_heap_entry and a split write.
LEMMA UsedEntry ==
  ASSUME NEW n \in Nat, NEW p \in Nat, NEW b \in Nat, NEW e,
         e = Entry(n, USED, NULL, p, b + HDR)
  PROVE  e \in Header /\ e.size = n /\ e.used = USED /\ e.location = b + HDR
<1>1. USED \in BOOLEAN /\ NULL \in Nat /\ b + HDR \in Nat BY Constants DEF USED, NULL
<1>. QED BY <1>1 DEF Entry, Header

LEMMA FreeEntry ==
  ASSUME NEW n \in Nat, NEW next \in Nat, NEW p \in Nat, NEW b \in Nat, NEW e,
         e = Entry(n, FREE, next, p, b + HDR)
  PROVE  e \in Header /\ e.size = n /\ e.used = FREE /\ e.location = b + HDR
<1>1. FREE \in BOOLEAN /\ b + HDR \in Nat BY Constants DEF FREE
<1>. QED BY <1>1 DEF Entry, Header

LEMMA EntryAddedTyped ==
  ASSUME NEW g, g \in [DOMAIN g -> Header], NEW b \in Nat, NEW n \in Nat, NEW p \in Nat
  PROVE  WithEntry(g, b, n, p) \in [DOMAIN g \cup {b} -> Header]
<1>1. PICK e : e = Entry(n, USED, NULL, p, b + HDR) OBVIOUS
<1>2. e \in Header BY <1>1, UsedEntry
<1>3. WithEntry(g, b, n, p) = [x \in DOMAIN g \cup {b} |-> IF x = b THEN e ELSE g[x]]
  BY <1>1 DEF WithEntry
<1>. QED BY <1>2, <1>3

LEMMA EntryAdded ==
  ASSUME NEW g, NEW b \in Nat, NEW n \in Nat, NEW p \in Nat
  PROVE  LET h == WithEntry(g, b, n, p) IN
         h[b].size = n /\ h[b].used = USED /\ h[b].location = b + HDR
<1>1. PICK e : e = Entry(n, USED, NULL, p, b + HDR) OBVIOUS
<1>2. e.size = n /\ e.used = USED /\ e.location = b + HDR
  BY <1>1, UsedEntry
<1>3. WithEntry(g, b, n, p)[b] = e BY <1>1 DEF WithEntry
<1>. QED BY <1>2, <1>3

LEMMA EntryAddedRest ==
  ASSUME NEW g, NEW b, NEW n, NEW p, NEW x \in DOMAIN g \ {b}
  PROVE  WithEntry(g, b, n, p)[x] = g[x]
BY DEF WithEntry

\* The marks and the owners when a block b is handed out: the others keep
\* what they have.
LEMMA OwnerTakes ==
  ASSUME UsedIsOwned, NEW b, NEW n, Own(b, n),
         \A x \in Blocks' : x # b => x \in Blocks /\ hdr'[x].used = hdr[x].used,
         b \in Blocks' => hdr'[b].used = USED
  PROVE  UsedIsOwned'
<1>1. DOMAIN asked' = DOMAIN asked \cup {b} BY DEF Own
<1>2. ASSUME NEW x \in Blocks', x # b PROVE hdr'[x].used <=> x \in DOMAIN asked'
  BY <1>1, <1>2, Zenon DEF UsedIsOwned
<1>3. ASSUME b \in Blocks' PROVE hdr'[b].used <=> b \in DOMAIN asked'
  BY <1>1, <1>3, Zenon DEF USED
<1>. QED BY <1>2, <1>3, Zenon DEF UsedIsOwned

LEMMA Grows ==
  ASSUME MemoryInv, NEW b \in Nat, NEW n \in SIZES \cup FILLERS,
         b - mallocable_address \in GAPS, b + Extent(n) <= LIMIT,
         NEW loops, NEW fill, insert_heap_entry(b, n, loops, fill), ~GoWild
  PROVE  /\ MemoryInv' /\ [A!Next]_(A!vars)
         /\ b \in DOMAIN asked' /\ DOMAIN asked \subseteq DOMAIN asked'
         /\ mallocable_address' = b + Extent(n)
         /\ stack' = <<"sort">> \o loops \o Tail(stack)
         /\ cursor' \in Nat /\ filler' = fill
         /\ arg' = IF stack' = <<>> THEN 0 ELSE arg
<1>. USE Constants
<1>1. /\ n \in Nat /\ mallocable_address \in Nat /\ mallocable_address <= b
      /\ b - mallocable_address \in Nat
  BY BlocksLaidOut, KernelHeapConstants
<1>2. PICK end \in Nat : end = b + Extent(n) BY <1>1 DEF Extent
<1>3. Inserted(b, n, end, loops, fill) BY <1>1, <1>2, InsertData
<1>4. /\ HEAP_LINKED_LIST_HEAD' \in Nat /\ cursor' \in Nat
      /\ HEAP_LINKED_LIST_LAST' = b
      /\ ftr' = [f \in DOMAIN ftr \cup {end - FTR} |-> IF f = end - FTR THEN b ELSE ftr[f]]
      /\ stale' = stale
      /\ mallocable_address' = end
      /\ Own(b, n)
      /\ filler' = fill
      /\ arg' = IF stack' = <<>> THEN 0 ELSE arg
      /\ stack' = <<"sort">> \o loops \o Tail(stack)
  BY <1>3, Zenon DEF Inserted
<1>5. PICK g, p : /\ g \in [DOMAIN hdr -> Header] /\ SameData(g, hdr)
                  /\ p \in Nat /\ hdr' = WithEntry(g, b, n, p)
  BY <1>3, Zenon DEF Inserted
<1>6. b \notin DOMAIN hdr /\ b \notin stale BY <1>1, FreshMemory
<1>7. DOMAIN g = DOMAIN hdr /\ g \in [DOMAIN g -> Header] BY <1>5
<1>8. hdr' \in [DOMAIN hdr' -> Header] /\ DOMAIN hdr' = DOMAIN hdr \cup {b}
  <2>1. hdr' \in [DOMAIN g \cup {b} -> Header] BY <1>1, <1>5, <1>7, EntryAddedTyped
  <2>. QED BY <2>1, <1>7
<1>9. /\ hdr'[b].size = n /\ hdr'[b].used = USED /\ hdr'[b].location = b + HDR
      /\ \A x \in DOMAIN g \ {b} : hdr'[x] = g[x]
  <2>1. n \in Nat /\ p \in Nat /\ hdr' = WithEntry(g, b, n, p) BY <1>1, <1>5
  <2>2. hdr'[b].size = n /\ hdr'[b].used = USED /\ hdr'[b].location = b + HDR
    BY ONLY <2>1, EntryAdded
  <2>3. \A x \in DOMAIN g \ {b} : hdr'[x] = g[x] BY ONLY <2>1, EntryAddedRest
  <2>. QED BY <2>2, <2>3
<1>10. DOMAIN hdr' = DOMAIN hdr \cup {b} BY <1>8
<1>11. \A x \in DOMAIN hdr : /\ hdr'[x].size = hdr[x].size /\ hdr'[x].used = hdr[x].used
                             /\ hdr'[x].location = hdr[x].location
  <2>1. \A x \in DOMAIN hdr : hdr'[x] = g[x] BY <1>6, <1>7, <1>9
  <2>. QED BY <2>1, <1>5 DEF SameData
<1>12. /\ end - FTR \in Nat /\ end - FTR = b + HDR + n /\ end - FTR \notin DOMAIN ftr
  <2>1. \A f \in DOMAIN ftr : f \in Nat /\ f + FTR <= mallocable_address
    BY FootersLaidOut, BlocksLaidOut
  <2>. QED BY <2>1, <1>1, <1>2 DEF Extent
<1>13. DOMAIN ftr' = DOMAIN ftr \cup {end - FTR} /\ ftr'[end - FTR] = b
  BY <1>4
<1>14. \A f \in DOMAIN ftr : ftr'[f] = ftr[f] BY <1>4, <1>12
<1>15. Blocks' = Blocks \cup {b} BY <1>13, <1>14 DEF Blocks, Range
<1>16. \A x \in Blocks : x \in DOMAIN hdr /\ x # b /\ Footer(x)' = Footer(x)
  BY <1>6, <1>11, BlocksLaidOut DEF Footer
<1>17. Footer(b)' = end - FTR BY <1>9, <1>10, <1>12 DEF Footer
<1>. PICK gap \in GAPS : gap = b - mallocable_address OBVIOUS
<1>18. A!Grow(n, gap)
  <2>1. mallocable_address + gap = b BY <1>1
  <2>2. A!Extent(n) = Extent(n) BY DEF A!Extent, Extent
  <2>3. [x \in Blocks |-> hdr[x].size]' =
          [x \in Blocks' |-> IF x = b THEN n ELSE [y \in Blocks |-> hdr[y].size][x]]
    BY <1>9, <1>10, <1>11, <1>15, <1>16
  <2>. QED BY <2>1, <2>2, <2>3, <1>2, <1>4, <1>15 DEF A!Grow, Own
<1>19. A!Next BY <1>18, Zenon DEF A!Next
<1>20. A!HeapInv' BY <1>19, A!NextInv DEF MemoryInv
<1>21. MemoryType'
  <2>1. ftr' \in [DOMAIN ftr' -> DOMAIN hdr'] /\ DOMAIN ftr' \subseteq Nat
    BY <1>4, <1>10, <1>12, <1>13, <1>14 DEF MemoryInv, MemoryType
  <2>. QED BY <2>1, <1>4, <1>8 DEF MemoryInv, MemoryType
<1>22. FootersSound'
  BY <1>13, <1>14, <1>16, <1>17, FootersLaidOut DEF FootersSound
<1>23. UsedIsOwned'
  BY <1>4, <1>9, <1>10, <1>11, <1>15, <1>16, OwnerTakes DEF MemoryInv
<1>24. LocationsSound'
  BY <1>9, <1>10, <1>11, <1>15, <1>16 DEF MemoryInv, LocationsSound
<1>25. GhostsInside'
  BY <1>10, <1>11, <1>15, <1>16 DEF MemoryInv, GhostsInside
<1>26. StaleBelow' BY <1>1, <1>2, <1>4, <1>6, <1>10 DEF MemoryInv, StaleBelow, Extent
<1>27. DOMAIN asked' = DOMAIN asked \cup {b} BY <1>4 DEF Own
<1>29. MemoryInv'
  BY <1>20, <1>21, <1>22, <1>23, <1>24, <1>25, <1>26 DEF MemoryInv
<1>. QED BY <1>2, <1>4, <1>19, <1>27, <1>29

---------------------------------------------------------------------------
(***************************************************************************)
(* Headers whose data change: the front of a split, a mark.                *)
(***************************************************************************)
LEMMA WriteMark ==
  ASSUME NEW h, h \in [DOMAIN h -> Header], NEW c, NEW u \in BOOLEAN
  PROVE  [h EXCEPT ![c].used = u] \in [DOMAIN h -> Header]
<1>1. \A e \in Header : [e EXCEPT !.used = u] \in Header BY DEF Header
<1>. QED BY <1>1

LEMMA MarkData ==
  ASSUME NEW h, h \in [DOMAIN h -> Header], NEW c \in DOMAIN h, NEW u
  PROVE  LET g == [h EXCEPT ![c].used = u] IN
         /\ g[c].used = u /\ g[c].size = h[c].size /\ g[c].location = h[c].location
         /\ \A x \in DOMAIN h \ {c} : g[x] = h[x]
<1>1. h[c] \in Header OBVIOUS
<1>. QED BY <1>1 DEF Header

LEMMA WriteSize ==
  ASSUME NEW h, h \in [DOMAIN h -> Header], NEW c, NEW n \in Nat
  PROVE  [h EXCEPT ![c].size = n] \in [DOMAIN h -> Header]
<1>1. \A e \in Header : [e EXCEPT !.size = n] \in Header BY DEF Header
<1>. QED BY <1>1

LEMMA SizeData ==
  ASSUME NEW h, h \in [DOMAIN h -> Header], NEW c \in DOMAIN h, NEW n
  PROVE  LET g == [h EXCEPT ![c].size = n] IN
         /\ g[c].size = n /\ g[c].used = h[c].used /\ g[c].location = h[c].location
         /\ \A x \in DOMAIN h \ {c} : g[x] = h[x]
<1>1. h[c] \in Header OBVIOUS
<1>. QED BY <1>1 DEF Header

Front(h, c, n, rest) == [h EXCEPT ![c].next = rest, ![c].size = n, ![c].used = USED]
LEMMA FrontWritten ==
  ASSUME NEW h, NEW c, NEW n, NEW rest
  PROVE  Front(h, c, n, rest) =
           [[[h EXCEPT ![c].next = rest] EXCEPT ![c].size = n] EXCEPT ![c].used = USED]
BY Zenon DEF Front

LEMMA FrontFacts ==
  ASSUME NEW h, h \in [DOMAIN h -> Header], NEW c \in DOMAIN h, NEW n \in Nat, NEW rest \in Nat,
         NEW f, f = Front(h, c, n, rest)
  PROVE  /\ f \in [DOMAIN h -> Header]
         /\ /\ f[c].size = n /\ f[c].used = USED /\ f[c].location = h[c].location
            /\ \A x \in DOMAIN h \ {c} : f[x] = h[x]
<1>1. PICK h1 : h1 = [h EXCEPT ![c].next = rest] OBVIOUS
<1>2. PICK h2 : h2 = [h1 EXCEPT ![c].size = n] OBVIOUS
<1>3. PICK h3 : h3 = [h2 EXCEPT ![c].used = USED] OBVIOUS
<1>4. f = h3 BY <1>1, <1>2, <1>3, FrontWritten, Zenon
<1>5. h1 \in [DOMAIN h -> Header] /\ SameData(h1, h) BY <1>1, WriteNext
<1>6. h1 \in [DOMAIN h1 -> Header] /\ DOMAIN h1 = DOMAIN h BY <1>5
<1>7. h2 \in [DOMAIN h1 -> Header] BY <1>2, <1>6, WriteSize
<1>8. h2 \in [DOMAIN h2 -> Header] /\ DOMAIN h2 = DOMAIN h BY <1>6, <1>7
<1>9. USED \in BOOLEAN BY DEF USED
<1>10. h3 \in [DOMAIN h2 -> Header] BY <1>3, <1>8, <1>9, WriteMark
<1>11. /\ h2[c].size = n /\ h2[c].used = h1[c].used /\ h2[c].location = h1[c].location
       /\ \A x \in DOMAIN h1 \ {c} : h2[x] = h1[x]
  BY <1>2, <1>6, SizeData
<1>12. /\ h3[c].used = USED /\ h3[c].size = h2[c].size /\ h3[c].location = h2[c].location
       /\ \A x \in DOMAIN h2 \ {c} : h3[x] = h2[x]
  BY <1>3, <1>8, MarkData
<1>13. \A x \in DOMAIN h \ {c} : h1[x] = h[x] BY <1>1
<1>14. h1[c].location = h[c].location BY <1>5 DEF SameData
<1>15. f \in [DOMAIN h -> Header] BY <1>4, <1>8, <1>10
<1>16. f[c].size = n /\ f[c].used = USED /\ f[c].location = h[c].location
  BY <1>4, <1>11, <1>12, <1>14
<1>17. \A x \in DOMAIN h \ {c} : f[x] = h[x]
  BY <1>4, <1>6, <1>8, <1>11, <1>12, <1>13
<1>. QED BY <1>15, <1>16, <1>17

\* The headers of f on D with a FREE one at rest.
WithRest(f, D, rest, m, next, c) ==
  [x \in D \cup {rest} |-> IF x = rest THEN Entry(m, FREE, next, c, rest + HDR) ELSE f[x]]

LEMMA RestAddedTyped ==
  ASSUME NEW f, NEW D, f \in [DOMAIN f -> Header], D \subseteq DOMAIN f, NEW rest \in Nat,
         NEW m \in Nat, NEW next \in Nat, NEW c \in Nat
  PROVE  WithRest(f, D, rest, m, next, c) \in [D \cup {rest} -> Header]
<1>1. PICK e : e = Entry(m, FREE, next, c, rest + HDR) OBVIOUS
<1>2. e \in Header BY <1>1, FreeEntry
<1>3. WithRest(f, D, rest, m, next, c) = [x \in D \cup {rest} |-> IF x = rest THEN e ELSE f[x]]
  BY <1>1 DEF WithRest
<1>. QED BY <1>2, <1>3

LEMMA RestAdded ==
  ASSUME NEW f, NEW D, NEW rest \in Nat, NEW m \in Nat, NEW next \in Nat, NEW c \in Nat
  PROVE  LET h == WithRest(f, D, rest, m, next, c) IN
         h[rest].size = m /\ h[rest].used = FREE /\ h[rest].location = rest + HDR
<1>1. PICK e : e = Entry(m, FREE, next, c, rest + HDR) OBVIOUS
<1>2. e.size = m /\ e.used = FREE /\ e.location = rest + HDR
  BY <1>1, FreeEntry
<1>3. WithRest(f, D, rest, m, next, c)[rest] = e BY <1>1 DEF WithRest
<1>. QED BY <1>2, <1>3

LEMMA RestAddedElsewhere ==
  ASSUME NEW f, NEW D, NEW rest, NEW m, NEW next, NEW c, NEW x \in D \ {rest}
  PROVE  WithRest(f, D, rest, m, next, c)[x] = f[x]
BY DEF WithRest

---------------------------------------------------------------------------
(***************************************************************************)
(* find_empty_heap_entry cuts a FREE block: HeapBlocks splits it.          *)
(***************************************************************************)
LEMMA SplitExpanded ==
  ASSUME NEW c, NEW n, SplitEntry(c, n), NEW rest, rest = c + Extent(n),
         NEW gone, gone = Overwritten(DOMAIN hdr, c + HDR, rest + HDR, HDR)
  PROVE  /\ hdr' = WithRest(Front(hdr, c, n, rest), DOMAIN hdr \ gone, rest,
                            Remainder(c, n), hdr[c].next, c)
         /\ stale' = (stale \cup gone) \ {rest}
         /\ ftr' = SplitFooters(c, n)
         /\ Own(c, n)
         /\ Continue(<<"sort">>, HEAP_LINKED_LIST_HEAD)
         /\ UNCHANGED <<HEAP_LINKED_LIST_HEAD, HEAP_LINKED_LIST_LAST, mallocable_address, filler>>
BY Zenon DEF SplitEntry, Front, WithRest

LEMMA SplitLaidOut ==
  ASSUME MemoryInv, NEW c \in DOMAIN hdr, NEW n \in Nat, hdr[c].size > Extent(n) + SLACK,
         NEW rest, rest = c + Extent(n)
  PROVE  /\ c \in Blocks /\ rest \in Nat /\ c < rest
         /\ Remainder(c, n) \in Nat /\ hdr[c].size = Extent(n) + Remainder(c, n)
         /\ rest + HDR + Remainder(c, n) = Footer(c)
         /\ rest \notin Blocks /\ rest < mallocable_address
         /\ \A x \in Blocks : x = c \/ x + HDR <= c \/ rest + HDR <= x
<1>. USE Constants
<1>1. /\ c \in Nat /\ hdr[c].size \in Nat BY HeadersLaidOut
<1>2. Extent(n) \in Nat /\ Extent(n) = HDR + n + FTR BY DEF Extent
<1>3. c \in Blocks
  BY <1>1, <1>2 DEF MemoryInv, GhostsInside
<1>4. Remainder(c, n) \in Nat /\ hdr[c].size = Extent(n) + Remainder(c, n)
  BY <1>1, <1>2 DEF Remainder
<1>5. Footer(c) = c + HDR + hdr[c].size /\ Footer(c) + FTR <= mallocable_address
      /\ mallocable_address \in Nat
  BY <1>3, BlocksLaidOut
<1>6. rest + HDR + Remainder(c, n) = Footer(c) BY <1>1, <1>2, <1>4, <1>5
<1>7. rest \in Nat /\ c < rest /\ rest < mallocable_address
  BY <1>1, <1>2, <1>4, <1>5
<1>8. ASSUME NEW x \in Blocks, x # c PROVE x + HDR <= c \/ Footer(c) + FTR <= x
  <2>1. /\ x \in Nat /\ hdr[x].size \in Nat /\ Footer(x) = x + HDR + hdr[x].size
        /\ x < c => Footer(x) + FTR <= c
        /\ c < x => Footer(c) + FTR <= x
    BY <1>3, BlocksLaidOut
  <2>. QED BY <2>1, <1>1, <1>8
<1>9. \A x \in Blocks : x = c \/ x + HDR <= c \/ rest + HDR <= x
  <2>1. \A x \in Blocks : x \in Nat BY BlocksLaidOut
  <2>. QED BY <2>1, <1>1, <1>4, <1>5, <1>6, <1>7, <1>8
<1>10. rest \notin Blocks BY <1>1, <1>7, <1>9
<1>. QED BY <1>3, <1>4, <1>6, <1>7, <1>9, <1>10

LEMMA SplitFootersLaidOut ==
  ASSUME MemoryInv, NEW c \in DOMAIN hdr, NEW n \in Nat, hdr[c].size > Extent(n) + SLACK,
         NEW rest, rest = c + Extent(n), NEW g, g = SplitFooters(c, n),
         NEW front, front = rest - FTR
  PROVE  /\ DOMAIN g = DOMAIN ftr \cup {front} /\ front \in Nat /\ front \notin DOMAIN ftr
         /\ front = c + HDR + n
         /\ g[front] = c /\ g[Footer(c)] = rest /\ Footer(c) \in DOMAIN ftr
         /\ \A f \in DOMAIN ftr : f # Footer(c) => g[f] = ftr[f]
<1>. USE Constants
<1>1. /\ c \in Blocks /\ c \in Nat /\ rest \in Nat /\ c < rest
      /\ Remainder(c, n) \in Nat /\ rest + HDR + Remainder(c, n) = Footer(c)
  BY SplitLaidOut, HeadersLaidOut
<1>2. Extent(n) \in Nat /\ Extent(n) = HDR + n + FTR BY DEF Extent
<1>3. front \in Nat /\ front = c + HDR + n BY <1>1, <1>2
<1>4. Footer(c) \in DOMAIN ftr /\ Footer(c) \in Nat /\ front < Footer(c)
  BY <1>1, <1>3, BlocksLaidOut
<1>5. front \notin DOMAIN ftr
  <2>1. SUFFICES ASSUME front \in DOMAIN ftr PROVE FALSE OBVIOUS
  <2>2. PICK b \in Blocks : front = Footer(b) BY <2>1, FootersLaidOut
  <2>3. /\ b \in Nat /\ hdr[b].size \in Nat /\ Footer(b) = b + HDR + hdr[b].size
        /\ b < c => Footer(b) + FTR <= c
        /\ c < b => Footer(c) + FTR <= b
    BY <1>1, BlocksLaidOut
  <2>4. b # c BY <1>4, <2>2
  <2>. QED BY <2>2, <2>3, <2>4, <1>1, <1>3, <1>4
<1>6. PICK back : back = Footer(c) OBVIOUS
<1>7. g = [f \in DOMAIN ftr \cup {front, back} |->
             IF f = front THEN c ELSE IF f = back THEN rest ELSE ftr[f]]
  <2>1. front = c + Extent(n) - FTR /\ back = c + Extent(n) + HDR + Remainder(c, n)
    BY <1>1, <1>2, <1>6
  <2>. QED BY ONLY <2>1, g = SplitFooters(c, n), rest = c + Extent(n) DEF SplitFooters
<1>8. back \in DOMAIN ftr /\ front # back BY <1>4, <1>5, <1>6
<1>9. DOMAIN g = DOMAIN ftr \cup {front} BY <1>7, <1>8
<1>10. g[front] = c /\ g[back] = rest BY <1>7, <1>8
<1>11. \A f \in DOMAIN ftr : f # back => g[f] = ftr[f] BY <1>5, <1>7
<1>. QED BY <1>3, <1>4, <1>5, <1>6, <1>9, <1>10, <1>11

LEMMA Splits ==
  ASSUME MemoryInv, NEW c \in DOMAIN hdr, NEW n \in SIZES, hdr[c].used = FREE,
         hdr[c].size > Extent(n) + SLACK, SplitEntry(c, n)
  PROVE  /\ MemoryInv' /\ [A!Next]_(A!vars)
         /\ DOMAIN asked \subseteq DOMAIN asked' /\ mallocable_address' = mallocable_address
         /\ Continue(<<"sort">>, HEAP_LINKED_LIST_HEAD) /\ filler' = filler
<1>. USE Constants
<1>1. n \in Nat BY KernelHeapConstants
<1>2. PICK rest : rest = c + Extent(n) OBVIOUS
<1>3. PICK gone : gone = Overwritten(DOMAIN hdr, c + HDR, rest + HDR, HDR) OBVIOUS
<1>4. PICK m : m = Remainder(c, n) OBVIOUS
<1>5. PICK f : f = Front(hdr, c, n, rest) OBVIOUS
<1>6. PICK front : front = rest - FTR OBVIOUS
<1>7. /\ c \in Blocks /\ rest \in Nat /\ c < rest
      /\ m \in Nat /\ hdr[c].size = Extent(n) + m
      /\ rest + HDR + m = Footer(c)
      /\ rest \notin Blocks /\ rest < mallocable_address
      /\ \A x \in Blocks : x = c \/ x + HDR <= c \/ rest + HDR <= x
  BY <1>1, <1>2, <1>4, SplitLaidOut
<1>8. c \in Nat /\ hdr[c].next \in Nat BY HeadersLaidOut
<1>9. /\ hdr' = WithRest(f, DOMAIN hdr \ gone, rest, m, hdr[c].next, c)
      /\ stale' = (stale \cup gone) \ {rest}
      /\ ftr' = SplitFooters(c, n)
      /\ Own(c, n)
      /\ Continue(<<"sort">>, HEAP_LINKED_LIST_HEAD)
      /\ UNCHANGED <<HEAP_LINKED_LIST_HEAD, HEAP_LINKED_LIST_LAST, mallocable_address, filler>>
  BY <1>2, <1>3, <1>4, <1>5, SplitExpanded, Zenon
<1>10. f \in [DOMAIN f -> Header] /\ DOMAIN f = DOMAIN hdr
  <2>1. hdr \in [DOMAIN hdr -> Header] BY DEF MemoryInv, MemoryType
  <2>. QED BY <2>1, <1>1, <1>5, <1>7, FrontFacts
<1>11. f[c].size = n /\ f[c].used = USED /\ f[c].location = hdr[c].location
  <2>1. hdr \in [DOMAIN hdr -> Header] BY DEF MemoryInv, MemoryType
  <2>. QED BY <2>1, <1>1, <1>5, <1>7, FrontFacts
<1>12. \A x \in DOMAIN hdr \ {c} : f[x] = hdr[x]
  <2>1. hdr \in [DOMAIN hdr -> Header] BY DEF MemoryInv, MemoryType
  <2>. QED BY <2>1, <1>1, <1>5, <1>7, FrontFacts
<1>13. \A x \in DOMAIN hdr : x \in gone <=> x < rest + HDR /\ c + HDR < x + HDR
  BY <1>3 DEF Overwritten, Overlaps
<1>14. \A x \in Blocks : x \in DOMAIN hdr /\ x \in Nat /\ x \notin gone /\ x # rest
  BY <1>7, <1>8, <1>13, BlocksLaidOut
<1>15. PICK D : D = DOMAIN hdr \ gone OBVIOUS
<1>16. hdr' \in [DOMAIN hdr' -> Header] /\ DOMAIN hdr' = D \cup {rest}
  <2>1. hdr' = WithRest(f, D, rest, m, hdr[c].next, c) /\ D \subseteq DOMAIN f
    BY <1>9, <1>10, <1>15
  <2>2. hdr' \in [D \cup {rest} -> Header] BY <2>1, <1>7, <1>8, <1>10, RestAddedTyped
  <2>. QED BY <2>2
<1>17. hdr'[rest].size = m /\ hdr'[rest].used = FREE /\ hdr'[rest].location = rest + HDR
  <2>1. PICK next \in Nat : next = hdr[c].next BY <1>8
  <2>2. hdr' = WithRest(f, D, rest, m, next, c) BY <1>9, <1>15, <2>1
  <2>. QED BY ONLY <2>1, <2>2, <1>7, <1>8, RestAdded
<1>18. \A x \in D \ {rest} : hdr'[x] = f[x]
  <2>1. PICK next : next = hdr[c].next OBVIOUS
  <2>2. hdr' = WithRest(f, D, rest, m, next, c) BY <1>9, <1>15, <2>1
  <2>. QED BY ONLY <2>2, RestAddedElsewhere
<1>19. c \in D \ {rest} BY <1>7, <1>14, <1>15
<1>20. /\ hdr'[c].size = n /\ hdr'[c].used = USED /\ hdr'[c].location = hdr[c].location
       /\ \A x \in D \ {c, rest} : hdr'[x] = hdr[x]
  BY <1>11, <1>12, <1>15, <1>18, <1>19
<1>21. /\ DOMAIN ftr' = DOMAIN ftr \cup {front} /\ front \in Nat /\ front \notin DOMAIN ftr
       /\ front = c + HDR + n
       /\ ftr'[front] = c /\ ftr'[Footer(c)] = rest /\ Footer(c) \in DOMAIN ftr
       /\ \A z \in DOMAIN ftr : z # Footer(c) => ftr'[z] = ftr[z]
  BY <1>1, <1>2, <1>6, <1>7, <1>9, SplitFootersLaidOut
<1>22. Blocks' = Blocks \cup {rest}
  <2>1. \A z \in DOMAIN ftr' : ftr'[z] \in Blocks \cup {rest}
    BY <1>7, <1>21, FootersLaidOut
  <2>2. \A x \in Blocks \cup {rest} : \E z \in DOMAIN ftr' : ftr'[z] = x
    <3>1. ASSUME NEW x \in Blocks, x # c PROVE \E z \in DOMAIN ftr' : ftr'[z] = x
      <4>1. Footer(x) \in DOMAIN ftr /\ ftr[Footer(x)] = x /\ ftr[Footer(c)] = c
        BY <1>7, BlocksLaidOut
      <4>2. Footer(x) # Footer(c) BY <3>1, <4>1
      <4>. QED BY <4>1, <4>2, <1>21
    <3>. QED BY <3>1, <1>21
  <2>3. Blocks' = {ftr'[z] : z \in DOMAIN ftr'} BY DEF Blocks, Range
  <2>. QED BY <2>1, <2>2, <2>3
<1>23. Footer(c)' = front /\ Footer(rest)' = Footer(c)
  BY <1>7, <1>17, <1>20, <1>21 DEF Footer
<1>24. \A x \in Blocks \ {c} : x \in D \ {c, rest} /\ Footer(x)' = Footer(x)
  BY <1>14, <1>15, <1>20 DEF Footer
<1>25. A!Split(c, n)
  <2>1. A!Extent(n) = Extent(n) BY DEF A!Extent, Extent
  <2>2. c \in A!Free
    <3>1. ~hdr[c].used BY Zenon DEF FREE
    <3>2. c \notin DOMAIN asked BY <3>1, <1>7, Zenon DEF MemoryInv, UsedIsOwned
    <3>. QED BY <3>2, <1>7 DEF A!Free
  <2>3. m = hdr[c].size - Extent(n) BY <1>4 DEF Remainder
  <2>4. [x \in Blocks |-> hdr[x].size]' =
          [x \in Blocks' |-> IF x = c THEN n
                             ELSE IF x = rest THEN [y \in Blocks |-> hdr[y].size][c] - Extent(n)
                             ELSE [y \in Blocks |-> hdr[y].size][x]]
    BY <2>3, <1>7, <1>17, <1>20, <1>22, <1>24
  <2>5. [y \in Blocks |-> hdr[y].size][c] > Extent(n) + SLACK BY <1>7
  <2>6. /\ rest = c + A!Extent(n)
        /\ [y \in Blocks |-> hdr[y].size][c] > A!Extent(n) + SLACK
        /\ [x \in Blocks |-> hdr[x].size]' =
             [x \in Blocks' |-> IF x = c THEN n
                 ELSE IF x = rest THEN [y \in Blocks |-> hdr[y].size][c] - A!Extent(n)
                 ELSE [y \in Blocks |-> hdr[y].size][x]]
    BY <2>1, <2>4, <2>5, <1>2
  <2>7. /\ asked' = [x \in DOMAIN asked \cup {c} |-> IF x = c THEN n ELSE asked[x]]
        /\ mallocable_address' = mallocable_address
    BY <1>9 DEF Own
  <2>. QED BY <2>2, <2>6, <2>7, <1>22 DEF A!Split
<1>26. A!Next BY <1>7, <1>25, Zenon DEF A!Next
<1>27. A!HeapInv' BY <1>26, A!NextInv, Constants DEF MemoryInv
<1>28. MemoryType'
  <2>1. DOMAIN hdr' \subseteq Nat BY <1>7, <1>15, <1>16 DEF MemoryInv, MemoryType
  <2>2. \A z \in DOMAIN ftr' : z \in Nat /\ ftr'[z] \in DOMAIN hdr'
    <3>1. \A z \in DOMAIN ftr' : z \in Nat /\ ftr'[z] \in Blocks'
      BY <1>21 DEF MemoryInv, MemoryType, Blocks, Range
    <3>. QED BY <3>1, <1>14, <1>15, <1>16, <1>22
  <2>3. ftr' = [z \in DOMAIN ftr' |-> ftr'[z]] BY <1>9 DEF SplitFooters
  <2>. QED BY <2>1, <2>2, <2>3, <1>9, <1>16 DEF MemoryInv, MemoryType
<1>29. FootersSound'
  <2>1. front = c + HDR + hdr'[c].size /\ Footer(c) = rest + HDR + hdr'[rest].size
    BY <1>7, <1>17, <1>20, <1>21
  <2>2. ASSUME NEW z \in DOMAIN ftr, z # Footer(c)
        PROVE  z = ftr'[z] + HDR + hdr'[ftr'[z]].size
    <3>1. ftr'[z] = ftr[z] /\ ftr[z] \in Blocks /\ z = Footer(ftr[z])
      BY <2>2, <1>21, FootersLaidOut
    <3>2. ftr[z] # c BY <2>2, <3>1
    <3>3. hdr'[ftr[z]].size = hdr[ftr[z]].size BY <3>1, <3>2, <1>20, <1>24
    <3>. QED BY <3>1, <3>3 DEF Footer
  <2>3. ASSUME NEW z \in DOMAIN ftr' PROVE z = ftr'[z] + HDR + hdr'[ftr'[z]].size
    BY <2>1, <2>2, <1>21
  <2>. QED BY <2>3 DEF FootersSound, Footer
<1>30. UsedIsOwned'
  <2>1. DOMAIN asked' = DOMAIN asked \cup {c} BY <1>9 DEF Own
  <2>2. ~hdr'[rest].used BY <1>17, Zenon DEF FREE
  <2>3. rest \notin DOMAIN asked' BY <2>1, <1>7, BlocksLaidOut
  <2>4. hdr'[c].used BY <1>20, Zenon DEF USED
  <2>5. \A x \in Blocks \ {c} : hdr'[x].used <=> x \in DOMAIN asked'
    BY <2>1, <1>20, <1>24, Zenon DEF MemoryInv, UsedIsOwned
  <2>6. c \in DOMAIN asked' BY <2>1
  <2>. QED BY <2>2, <2>3, <2>4, <2>5, <2>6, <1>22, Zenon DEF UsedIsOwned
<1>31. LocationsSound'
  BY <1>7, <1>17, <1>20, <1>22, <1>24 DEF MemoryInv, LocationsSound
<1>32. GhostsInside'
  <2>1. ASSUME NEW x \in DOMAIN hdr', x \notin Blocks'
        PROVE /\ hdr'[x] = hdr[x] /\ x \in DOMAIN hdr \ Blocks
              /\ \E b \in Blocks' : b + HDR <= x /\ x + HDR <= Footer(b)'
    <3>1. x \in D \ {c, rest} /\ x \in DOMAIN hdr /\ x \notin Blocks /\ x \notin gone
      BY <2>1, <1>7, <1>15, <1>16, <1>22
    <3>2. x \in Nat BY <3>1, HeadersLaidOut
    <3>3. PICK b \in Blocks : b + HDR <= x /\ x + HDR <= Footer(b)
      BY <3>1 DEF MemoryInv, GhostsInside
    <3>4. CASE b # c BY <3>1, <3>3, <3>4, <1>20, <1>22, <1>24
    <3>5. CASE b = c
      <4>1. rest + HDR <= x BY <3>1, <3>2, <3>3, <3>5, <1>7, <1>8, <1>13
      <4>. QED BY <4>1, <3>1, <3>3, <3>5, <1>20, <1>22, <1>23
    <3>. QED BY <3>4, <3>5
  <2>. QED BY <2>1 DEF MemoryInv, GhostsInside
<1>33. StaleBelow'
  <2>1. \A x \in gone : x \in DOMAIN hdr BY <1>3 DEF Overwritten
  <2>2. \A x \in DOMAIN hdr : x \in Nat /\ x < mallocable_address
    BY HeadersLaidOut, BlocksLaidOut
  <2>. QED BY <2>1, <2>2, <1>9, <1>15, <1>16 DEF MemoryInv, StaleBelow
<1>34. MemoryInv'
  BY <1>27, <1>28, <1>29, <1>30, <1>31, <1>32, <1>33 DEF MemoryInv
<1>35. DOMAIN asked \subseteq DOMAIN asked' BY <1>9 DEF Own
<1>. QED BY <1>9, <1>26, <1>34, <1>35

---------------------------------------------------------------------------
(***************************************************************************)
(* Steps that mark a block and may lose headers that are no block's:       *)
(* a whole block is handed out, a block is given back.                     *)
(***************************************************************************)
LEMMA BlocksStand ==
  ASSUME MemoryInv, NEW c \in Blocks, NEW gone, gone \cap Blocks = {}, gone \subseteq DOMAIN hdr,
         hdr' \in [DOMAIN hdr' -> Header], DOMAIN hdr' = DOMAIN hdr \ gone,
         \A x \in DOMAIN hdr' : /\ hdr'[x].size = hdr[x].size
                                /\ hdr'[x].location = hdr[x].location
                                /\ x # c => hdr'[x].used = hdr[x].used,
         stale' = stale \cup gone,
         HEAP_LINKED_LIST_HEAD' \in Nat, HEAP_LINKED_LIST_LAST' \in Nat,
         UNCHANGED <<ftr, mallocable_address>>
  PROVE  /\ MemoryType' /\ FootersSound' /\ LocationsSound' /\ GhostsInside' /\ StaleBelow'
         /\ Blocks' = Blocks /\ \A x \in Blocks : x \in DOMAIN hdr'
         /\ [b \in Blocks |-> hdr[b].size]' = [b \in Blocks |-> hdr[b].size]
<1>1. Blocks' = Blocks BY DEF Blocks
<1>2. \A x \in Blocks : x \in DOMAIN hdr /\ x \in DOMAIN hdr' BY BlocksLaidOut
<1>3. \A x \in Blocks : Footer(x)' = Footer(x) BY <1>2 DEF Footer
<1>4. MemoryType'
  <2>1. \A f \in DOMAIN ftr : ftr[f] \in DOMAIN hdr' BY <1>2, FootersLaidOut
  <2>2. ftr' \in [DOMAIN ftr' -> DOMAIN hdr'] BY <2>1 DEF MemoryInv, MemoryType
  <2>3. DOMAIN hdr' \subseteq Nat /\ DOMAIN ftr' \subseteq Nat BY DEF MemoryInv, MemoryType
  <2>. QED BY <2>2, <2>3 DEF MemoryType
<1>5. FootersSound' BY <1>3, FootersLaidOut DEF FootersSound
<1>6. LocationsSound' BY <1>1, <1>2 DEF MemoryInv, LocationsSound
<1>7. GhostsInside'
  <2>1. ASSUME NEW x \in DOMAIN hdr', x \notin Blocks'
        PROVE  /\ hdr'[x].size = 0 /\ hdr'[x].used = FREE /\ hdr'[x].location = NULL
               /\ \E b \in Blocks' : b + HDR <= x /\ x + HDR <= Footer(b)'
    <3>1. x \in DOMAIN hdr \ Blocks /\ x # c BY <2>1, <1>1
    <3>2. /\ hdr[x].size = 0 /\ hdr[x].used = FREE /\ hdr[x].location = NULL
          /\ \E b \in Blocks : b + HDR <= x /\ x + HDR <= Footer(b)
      BY <3>1 DEF MemoryInv, GhostsInside
    <3>. QED BY <2>1, <3>1, <3>2, <1>1, <1>3
  <2>. QED BY <2>1 DEF GhostsInside
<1>8. StaleBelow'
  <2>1. \A x \in DOMAIN hdr : x \in Nat /\ x < mallocable_address
    BY HeadersLaidOut, BlocksLaidOut, Constants
  <2>. QED BY <2>1 DEF MemoryInv, StaleBelow
<1>9. [b \in Blocks |-> hdr[b].size]' = [b \in Blocks |-> hdr[b].size]
  BY <1>1, <1>2
<1>. QED BY <1>1, <1>2, <1>4, <1>5, <1>6, <1>7, <1>8, <1>9

LEMMA Takes ==
  ASSUME MemoryInv, NEW c \in DOMAIN hdr, NEW n \in SIZES, n # 0, hdr[c].used = FREE,
         n <= hdr[c].size, hdr[c].size <= Extent(n) + SLACK, TakeEntry(c, n)
  PROVE  /\ MemoryInv' /\ [A!Next]_(A!vars)
         /\ DOMAIN asked \subseteq DOMAIN asked' /\ mallocable_address' = mallocable_address
         /\ Continue(<<>>, NULL) /\ filler' = filler
<1>. USE Constants
<1>1. n \in Nat /\ c \in Nat /\ hdr[c].size \in Nat BY HeadersLaidOut, KernelHeapConstants
<1>2. c \in Blocks BY <1>1 DEF MemoryInv, GhostsInside
<1>3. PICK h : h = [hdr EXCEPT ![c].used = USED] OBVIOUS
<1>4. PICK gone : gone = Overwritten(DOMAIN h, c + HDR, c + HDR + n, HDR) OBVIOUS
<1>5. /\ hdr' = [a \in DOMAIN h \ gone |-> h[a]] /\ stale' = stale \cup gone
      /\ Own(c, n) /\ Continue(<<>>, NULL)
      /\ UNCHANGED <<ftr, HEAP_LINKED_LIST_HEAD, HEAP_LINKED_LIST_LAST,
                     mallocable_address, cut, filler>>
  BY <1>3, <1>4, Zenon DEF TakeEntry, GiveAway
<1>6. hdr \in [DOMAIN hdr -> Header] BY DEF MemoryInv, MemoryType
<1>7. h \in [DOMAIN h -> Header] /\ DOMAIN h = DOMAIN hdr
  <2>1. USED \in BOOLEAN BY DEF USED
  <2>. QED BY <2>1, <1>3, <1>6, WriteMark
<1>8. /\ h[c].used = USED /\ h[c].size = hdr[c].size /\ h[c].location = hdr[c].location
      /\ \A x \in DOMAIN hdr \ {c} : h[x] = hdr[x]
  BY <1>3, <1>6, MarkData, ZenonT(60)
<1>9. gone \cap Blocks = {}
  <2>1. ASSUME NEW x \in Blocks PROVE ~(x < c + HDR + n /\ c + HDR < x + HDR)
    <3>1. /\ x \in Nat /\ Footer(c) + FTR <= mallocable_address
          /\ Footer(c) = c + HDR + hdr[c].size
          /\ c < x => Footer(c) + FTR <= x
      BY <1>2, BlocksLaidOut
    <3>. QED BY <3>1, <1>1
  <2>. QED BY <2>1, <1>4 DEF Overwritten, Overlaps
<1>10. hdr' \in [DOMAIN hdr' -> Header] /\ DOMAIN hdr' = DOMAIN hdr \ gone BY <1>5, <1>7
<1>11. gone \subseteq DOMAIN hdr BY <1>4, <1>7 DEF Overwritten
<1>12. \A x \in DOMAIN hdr' : hdr'[x] = h[x] BY <1>5
<1>13. \A x \in DOMAIN hdr' : /\ hdr'[x].size = hdr[x].size
                              /\ hdr'[x].location = hdr[x].location
                              /\ x # c => hdr'[x].used = hdr[x].used
  BY <1>8, <1>10, <1>12
<1>14. /\ MemoryType' /\ FootersSound' /\ LocationsSound' /\ GhostsInside' /\ StaleBelow'
       /\ Blocks' = Blocks /\ \A x \in Blocks : x \in DOMAIN hdr'
       /\ [b \in Blocks |-> hdr[b].size]' = [b \in Blocks |-> hdr[b].size]
  <2>1. HEAP_LINKED_LIST_HEAD' \in Nat /\ HEAP_LINKED_LIST_LAST' \in Nat
    BY <1>5 DEF MemoryInv, MemoryType
  <2>. QED BY <2>1, <1>2, <1>5, <1>9, <1>10, <1>11, <1>13, BlocksStand
<1>15. A!Reuse(c, n)
  <2>1. A!Extent(n) = Extent(n) BY DEF A!Extent, Extent
  <2>2. ~hdr[c].used BY Zenon DEF FREE
  <2>3. c \in A!Free BY <2>2, <1>2, Zenon DEF MemoryInv, UsedIsOwned, A!Free
  <2>4. [b \in Blocks |-> hdr[b].size][c] = hdr[c].size BY <1>2
  <2>. QED BY <2>1, <2>3, <2>4, <1>5, <1>14 DEF A!Reuse, Own
<1>16. A!Next BY <1>2, <1>15, Zenon DEF A!Next
<1>17. A!HeapInv' BY <1>16, A!NextInv DEF MemoryInv
<1>18. hdr'[c].used = USED BY <1>2, <1>8, <1>12, <1>14
<1>19. UsedIsOwned'
  <2>1. \A x \in Blocks' : x # c => x \in Blocks /\ hdr'[x].used = hdr[x].used
    BY <1>13, <1>14
  <2>. QED BY <2>1, <1>5, <1>18, OwnerTakes DEF MemoryInv
<1>20. MemoryInv' BY <1>14, <1>17, <1>19 DEF MemoryInv
<1>21. DOMAIN asked \subseteq DOMAIN asked' BY <1>5 DEF Own
<1>. QED BY <1>5, <1>16, <1>20, <1>21

\* kernel_heap_free's is_used = FREE, and a filler's.  A block nobody owns
\* (freed before) is freed again without a change.
LEMMA Frees ==
  ASSUME MemoryInv, NEW c \in Blocks,
         hdr' = [hdr EXCEPT ![c].used = FREE],
         asked' = [a \in DOMAIN asked \ {c} |-> asked[a]],
         UNCHANGED <<ftr, stale, HEAP_LINKED_LIST_HEAD, HEAP_LINKED_LIST_LAST,
                     mallocable_address>>
  PROVE  MemoryInv' /\ [A!Next]_(A!vars)
<1>1. hdr \in [DOMAIN hdr -> Header] BY DEF MemoryInv, MemoryType
<1>2. c \in DOMAIN hdr BY BlocksLaidOut
<1>3. hdr' \in [DOMAIN hdr' -> Header] /\ DOMAIN hdr' = DOMAIN hdr
  <2>1. FREE \in BOOLEAN BY DEF FREE
  <2>. QED BY <2>1, <1>1, WriteMark
<1>4. /\ hdr'[c].used = FREE /\ hdr'[c].size = hdr[c].size /\ hdr'[c].location = hdr[c].location
      /\ \A x \in DOMAIN hdr \ {c} : hdr'[x] = hdr[x]
  BY <1>1, <1>2, MarkData
<1>5. \A x \in DOMAIN hdr' : /\ hdr'[x].size = hdr[x].size
                             /\ hdr'[x].location = hdr[x].location
                             /\ x # c => hdr'[x].used = hdr[x].used
  BY <1>3, <1>4
<1>6. /\ MemoryType' /\ FootersSound' /\ LocationsSound' /\ GhostsInside' /\ StaleBelow'
      /\ Blocks' = Blocks /\ \A x \in Blocks : x \in DOMAIN hdr'
      /\ [b \in Blocks |-> hdr[b].size]' = [b \in Blocks |-> hdr[b].size]
  <2>1. HEAP_LINKED_LIST_HEAD' \in Nat /\ HEAP_LINKED_LIST_LAST' \in Nat
    BY DEF MemoryInv, MemoryType
  <2>2. PICK gone : gone = {} OBVIOUS
  <2>3. /\ gone \cap Blocks = {} /\ gone \subseteq DOMAIN hdr
        /\ DOMAIN hdr' = DOMAIN hdr \ gone /\ stale' = stale \cup gone
    BY <2>2, <1>3
  <2>. QED BY <2>1, <2>3, <1>3, <1>5, BlocksStand
<1>7. [A!Next]_(A!vars)
  <2>1. CASE c \in DOMAIN asked
    <3>1. A!Release(c) BY <2>1, <1>6 DEF A!Release
    <3>. QED BY <3>1, Zenon DEF A!Next
  <2>2. CASE c \notin DOMAIN asked
    <3>1. asked' = asked BY <2>2, BlocksLaidOut
    <3>. QED BY <3>1, <1>6 DEF A!vars
  <2>. QED BY <2>1, <2>2
<1>8. A!HeapInv' BY <1>7, A!NextInv, Constants DEF MemoryInv
<1>9. UsedIsOwned'
  <2>1. DOMAIN asked' = DOMAIN asked \ {c} OBVIOUS
  <2>2. ~hdr'[c].used BY <1>4, Zenon DEF FREE
  <2>3. \A x \in Blocks \ {c} : hdr'[x].used = hdr[x].used BY <1>5, <1>6
  <2>4. \A x \in Blocks \ {c} : hdr'[x].used <=> x \in DOMAIN asked'
    BY <2>1, <2>3, Zenon DEF MemoryInv, UsedIsOwned
  <2>. QED BY <2>1, <2>2, <2>4, <1>6, Zenon DEF UsedIsOwned
<1>. QED BY <1>6, <1>7, <1>8, <1>9 DEF MemoryInv

---------------------------------------------------------------------------
(***************************************************************************)
(* merge_two_heap_entries_linked_list: HeapBlocks merges.                  *)
(***************************************************************************)
Merged(l, D, Z, a, s) == [l EXCEPT !.hdr = MergeHeaders(l.hdr, D, Z, a, s)]

LEMMA MergeExpanded ==
  ASSUME NEW a, NEW c, merge_two_heap_entries_linked_list(a, c), ~GoWild
  PROVE
    LET newSize == hdr[a].size + Extent(hdr[c].size)
        lo == a + HDR
        hi == lo + newSize
        zeros == ZeroHeaders(lo, hi)
        gone == Overwritten(DOMAIN hdr, lo, hi, HDR) \ zeros
        merged == Merged(Remove(List, c), DOMAIN hdr \ gone, zeros, a, newSize)
        appended == AddLast(Remove(merged, a), a)
    IN  /\ Install(appended)
        /\ ftr' = MergeFooters(a, lo, hi)
        /\ stale' = (stale \cup gone) \ zeros
        /\ Continue(<<"sort", "merge">>, appended.head)
        /\ UNCHANGED <<mallocable_address, asked, cut, filler>>
BY Zenon DEF merge_two_heap_entries_linked_list, Merged

LEMMA AddLastData ==
  ASSUME NEW D, NEW l \in Lists(D), NEW a \in Nat
  PROVE  SameList(AddLast(l, a), l, D)
<1>1. PICK last : last = l.last OBVIOUS
<1>2. last \in Nat BY <1>1 DEF Lists
<1>3. NULL \in Nat BY DEF NULL
<1>4. PICK k1 : k1 = IF l.last # NULL \/ l.head = NULL THEN SetNext(l, last, a) ELSE l
  OBVIOUS
<1>5. SameList(k1, l, D) /\ k1 \in Lists(D)
  <2>1. SameList(SetNext(l, last, a), l, D) BY <1>2, SetNextData
  <2>2. SameList(l, l, D) BY DEF SameList, SameData
  <2>. QED BY <2>1, <2>2, <1>4 DEF SameList
<1>6. PICK k2 : k2 = [k1 EXCEPT !.last = a] OBVIOUS
<1>7. SameList(k2, k1, D) /\ k2 \in Lists(D) BY <1>5, <1>6 DEF Lists, SameList, SameData
<1>8. PICK k3 : k3 = SetPrevious(k2, a, last) OBVIOUS
<1>9. SameList(k3, k2, D) /\ k3 \in Lists(D)
  BY <1>2, <1>7, <1>8, SetPreviousData DEF SameList
<1>10. PICK k4 : k4 = SetNext(k3, a, NULL) OBVIOUS
<1>11. SameList(k4, k3, D) BY <1>3, <1>9, <1>10, SetNextData
<1>12. AddLast(l, a) = k4 BY <1>1, <1>4, <1>6, <1>8, <1>10, Zenon DEF AddLast
<1>13. SameList(k2, l, D) BY <1>5, <1>7, SameListTrans
<1>14. SameList(k4, k2, D) BY <1>7, <1>9, <1>11, SameListTrans
<1>. QED BY <1>12, <1>13, <1>14, SameListTrans

\* The headers after the bytes of both blocks have been joined.
LEMMA MergeHeadersTyped ==
  ASSUME NEW g, g \in [DOMAIN g -> Header], NEW D, D \subseteq DOMAIN g, NEW Z, NEW a \in DOMAIN g,
         NEW s \in Nat
  PROVE  MergeHeaders(g, D, Z, a, s) \in [D \cup Z -> Header]
<1>1. PICK z : z = Zeroed OBVIOUS
<1>2. z \in Header
  <2>1. FREE \in BOOLEAN /\ NULL \in Nat BY DEF FREE, NULL
  <2>. QED BY <2>1, <1>1 DEF Zeroed, Entry, Header
<1>3. PICK e : e = [g[a] EXCEPT !.size = s] OBVIOUS
<1>4. e \in Header
  <2>1. g[a] \in Header OBVIOUS
  <2>. QED BY <2>1, <1>3 DEF Header
<1>5. MergeHeaders(g, D, Z, a, s) =
        [x \in D \cup Z |-> IF x \in Z THEN z ELSE IF x = a THEN e ELSE g[x]]
  BY <1>1, <1>3 DEF MergeHeaders
<1>. QED BY <1>2, <1>4, <1>5

LEMMA MergeHeadersZeroed ==
  ASSUME NEW g, NEW D, NEW Z, NEW a, NEW s, NEW x \in Z
  PROVE  LET h == MergeHeaders(g, D, Z, a, s) IN
         h[x].size = 0 /\ h[x].used = FREE /\ h[x].location = NULL
<1>1. MergeHeaders(g, D, Z, a, s)[x] = Zeroed BY DEF MergeHeaders
<1>2. Zeroed.size = 0 /\ Zeroed.used = FREE /\ Zeroed.location = NULL
  <2>1. PICK free : free = FREE OBVIOUS
  <2>. QED BY <2>1 DEF Zeroed, Entry
<1>. QED BY <1>1, <1>2

LEMMA MergeHeadersGrown ==
  ASSUME NEW g, g \in [DOMAIN g -> Header], NEW D, NEW Z, NEW a \in D \ Z, a \in DOMAIN g, NEW s
  PROVE  LET h == MergeHeaders(g, D, Z, a, s) IN
         h[a].size = s /\ h[a].used = g[a].used /\ h[a].location = g[a].location
<1>1. MergeHeaders(g, D, Z, a, s)[a] = [g[a] EXCEPT !.size = s] BY DEF MergeHeaders
<1>2. g[a] \in Header OBVIOUS
<1>. QED BY <1>1, <1>2 DEF Header

LEMMA MergeHeadersElsewhere ==
  ASSUME NEW g, NEW D, NEW Z, NEW a, NEW s, NEW x \in D \ Z, x # a
  PROVE  MergeHeaders(g, D, Z, a, s)[x] = g[x]
BY DEF MergeHeaders

\* The list after a merge: its headers are those of MergeHeaders, but for
\* pointers, and g differs from l's in pointers only.
LEMMA MergeData ==
  ASSUME NEW D, NEW l \in Lists(D), NEW c \in D, NEW a \in D \cap Nat, NEW s \in Nat,
         NEW K, K \subseteq D, NEW Z, a \in K \ Z,
         NEW k, k = AddLast(Remove(Merged(Remove(l, c), K, Z, a, s), a), a)
  PROVE  /\ k \in Lists(K \cup Z)
         /\ \E g : /\ g \in [D -> Header] /\ SameData(g, l.hdr)
                   /\ SameData(k.hdr, MergeHeaders(g, K, Z, a, s))
<1>1. PICK r : r = Remove(l, c) OBVIOUS
<1>2. SameList(r, l, D) BY <1>1, RemoveData
<1>3. r \in Lists(D) /\ SameData(r.hdr, l.hdr) BY <1>2 DEF SameList
<1>4. PICK g : g = r.hdr OBVIOUS
<1>5. g \in [D -> Header] BY <1>3, <1>4 DEF Lists
<1>6. DOMAIN g = D /\ g \in [DOMAIN g -> Header] BY <1>5
<1>7. PICK h : h = MergeHeaders(g, K, Z, a, s) OBVIOUS
<1>8. h \in [K \cup Z -> Header] BY <1>6, <1>7, MergeHeadersTyped
<1>9. PICK m : m = Merged(r, K, Z, a, s) OBVIOUS
<1>10. m \in Lists(K \cup Z) /\ m.hdr = h BY <1>3, <1>4, <1>7, <1>8, <1>9 DEF Merged, Lists
<1>11. PICK w : w = Remove(m, a) OBVIOUS
<1>12. SameList(w, m, K \cup Z) BY <1>10, <1>11, RemoveData
<1>13. w \in Lists(K \cup Z) BY <1>12 DEF SameList
<1>14. k = AddLast(w, a) BY <1>1, <1>9, <1>11, Zenon
<1>15. SameList(k, w, K \cup Z) BY <1>13, <1>14, AddLastData
<1>16. SameList(k, m, K \cup Z) BY <1>10, <1>12, <1>15, SameListTrans
<1>17. k \in Lists(K \cup Z) /\ SameData(k.hdr, h) BY <1>10, <1>16, Zenon DEF SameList
<1>18. SameData(g, l.hdr) BY <1>3, <1>4
<1>. QED BY <1>5, <1>7, <1>17, <1>18, Zenon

LEMMA MergeLaidOut ==
  ASSUME MemoryInv, NEW c \in DOMAIN hdr, c - FTR \in DOMAIN ftr, NEW a, a = ftr[c - FTR]
  PROVE  /\ a \in Blocks /\ c \in Blocks /\ a \in Nat /\ c \in Nat /\ a < c
         /\ c = Footer(a) + FTR
         /\ hdr[a].size + Extent(hdr[c].size) \in Nat
         /\ a + HDR + (hdr[a].size + Extent(hdr[c].size)) = Footer(c)
         /\ Footer(c) \in Nat /\ c + HDR <= Footer(c)
         /\ \A x \in Blocks : x = a \/ x = c \/ Footer(x) + FTR <= a \/ Footer(c) + FTR <= x
<1>. USE Constants
<1>1. /\ a \in Blocks /\ c - FTR = Footer(a) BY FootersLaidOut
<1>2. /\ a \in Nat /\ hdr[a].size \in Nat /\ Footer(a) = a + HDR + hdr[a].size
  BY <1>1, BlocksLaidOut
<1>3. c \in Nat /\ hdr[c].size \in Nat BY HeadersLaidOut
<1>4. c = Footer(a) + FTR /\ a < c BY <1>1, <1>2, <1>3
<1>5. c \in Blocks
  <2>1. PICK b \in Blocks :
          /\ b <= c /\ c + HDR <= Footer(b)
          /\ c # b => c \notin Blocks /\ b + HDR <= c
          /\ \A d \in Blocks : d < b => Footer(d) + FTR <= c
          /\ \A d \in Blocks : b < d => c + HDR <= d
    BY HeadersLaidOut
  <2>2. /\ b \in Nat /\ hdr[b].size \in Nat /\ Footer(b) = b + HDR + hdr[b].size
        /\ a < b => Footer(a) + FTR <= b
    BY <1>1, BlocksLaidOut
  <2>3. ~(b < a) BY <2>1, <1>1, <1>2, <1>3, <1>4
  <2>4. b # a BY <2>1, <2>2, <1>2, <1>3, <1>4
  <2>5. c <= b BY <2>2, <2>3, <2>4, <1>2, <1>4
  <2>. QED BY <2>1, <2>2, <2>5, <1>3
<1>6. Footer(c) = c + HDR + hdr[c].size BY <1>5, BlocksLaidOut
<1>7. Extent(hdr[c].size) = HDR + hdr[c].size + FTR BY DEF Extent
<1>8. ASSUME NEW x \in Blocks, x # a, x # c
      PROVE  Footer(x) + FTR <= a \/ Footer(c) + FTR <= x
  <2>1. /\ x \in Nat /\ hdr[x].size \in Nat /\ Footer(x) = x + HDR + hdr[x].size
        /\ x < a => Footer(x) + FTR <= a
        /\ a < x => Footer(a) + FTR <= x
        /\ c < x => Footer(c) + FTR <= x
    BY <1>1, <1>5, BlocksLaidOut
  <2>. QED BY <2>1, <1>2, <1>3, <1>4, <1>8
<1>9. /\ hdr[a].size + Extent(hdr[c].size) \in Nat
      /\ a + HDR + (hdr[a].size + Extent(hdr[c].size)) = Footer(c)
  BY <1>2, <1>3, <1>4, <1>6, <1>7
<1>10. Footer(c) \in Nat /\ c + HDR <= Footer(c) BY <1>3, <1>6
<1>. QED BY <1>1, <1>2, <1>3, <1>4, <1>5, <1>8, <1>9, <1>10

LEMMA MergeFootersLaidOut ==
  ASSUME MemoryInv, NEW c \in DOMAIN hdr, c - FTR \in DOMAIN ftr, NEW a, a = ftr[c - FTR],
         NEW g, g = MergeFooters(a, a + HDR, Footer(c))
  PROVE  /\ DOMAIN g = DOMAIN ftr \ {Footer(a)}
         /\ Footer(c) \in DOMAIN ftr /\ Footer(c) # Footer(a) /\ g[Footer(c)] = a
         /\ \A f \in DOMAIN ftr \ {Footer(a), Footer(c)} : g[f] = ftr[f]
<1>. USE Constants
<1>1. /\ a \in Blocks /\ c \in Blocks /\ a \in Nat /\ c \in Nat /\ a < c
      /\ c = Footer(a) + FTR /\ Footer(c) \in Nat /\ c + HDR <= Footer(c)
      /\ \A x \in Blocks : x = a \/ x = c \/ Footer(x) + FTR <= a \/ Footer(c) + FTR <= x
  BY MergeLaidOut
<1>2. PICK lo, hi, fa : lo = a + HDR /\ hi = Footer(c) /\ fa = Footer(a) OBVIOUS
<1>3. /\ fa \in Nat /\ lo \in Nat /\ hi \in Nat /\ lo <= fa /\ fa < hi
      /\ fa \in DOMAIN ftr /\ hi \in DOMAIN ftr
  <2>1. /\ hdr[a].size \in Nat /\ Footer(a) = a + HDR + hdr[a].size
        /\ Footer(a) \in DOMAIN ftr /\ Footer(c) \in DOMAIN ftr
    BY <1>1, BlocksLaidOut
  <2>2. fa = lo + hdr[a].size /\ c = fa + FTR /\ c + HDR <= hi BY <2>1, <1>1, <1>2
  <2>3. lo \in Nat /\ hi \in Nat
    <3>1. a \in Nat /\ Footer(c) \in Nat BY <1>1, Zenon
    <3>2. lo = a + HDR /\ hi = Footer(c) BY <1>2, Zenon
    <3>. QED BY ONLY <3>1, <3>2, Constants
  <2>4. fa \in Nat BY <2>1, <2>2, <2>3
  <2>5. lo <= fa BY <2>1, <2>2, <2>3
  <2>6. fa < hi BY <2>2, <2>3, <2>4, <1>1
  <2>. QED BY <2>1, <2>3, <2>4, <2>5, <2>6, <1>2
<1>4. ASSUME NEW f \in DOMAIN ftr PROVE f < hi /\ lo < f + FTR <=> f = fa
  <2>1. PICK x \in Blocks : f = Footer(x) /\ x = ftr[f] BY FootersLaidOut
  <2>2. /\ x \in Nat /\ hdr[x].size \in Nat /\ Footer(x) = x + HDR + hdr[x].size
    BY BlocksLaidOut
  <2>3. CASE x = a BY <2>1, <2>3, <1>2, <1>3
  <2>4. CASE x = c BY <2>1, <2>4, <1>2, <1>3
  <2>5. CASE Footer(x) + FTR <= a
    <3>1. f \in Nat /\ f + FTR <= a BY <2>1, <2>2, <2>5
    <3>2. a \in Nat BY <1>1, Zenon
    <3>3. lo = a + HDR /\ lo \in Nat /\ fa \in Nat /\ lo <= fa BY <1>2, <1>3, Zenon
    <3>4. f + FTR < lo /\ f < fa BY ONLY <3>1, <3>2, <3>3, Constants
    <3>. QED BY ONLY <3>1, <3>3, <3>4, Constants
  <2>6. CASE Footer(c) + FTR <= x BY <2>1, <2>2, <2>6, <1>1, <1>2, <1>3
  <2>. QED BY <2>3, <2>4, <2>5, <2>6, <1>1
<1>5. Overwritten(DOMAIN ftr, lo, hi, FTR) = {fa}
  BY <1>3, <1>4 DEF Overwritten, Overlaps
<1>6. g = [f \in DOMAIN ftr \ {fa} |-> IF f = hi THEN a ELSE ftr[f]]
  BY <1>2, <1>5 DEF MergeFooters
<1>7. fa # hi BY <1>3
<1>. QED BY <1>2, <1>3, <1>6, <1>7

LEMMA Merges ==
  ASSUME MemoryInv, NEW c \in DOMAIN hdr, Mergeable(c), NEW a, a = ftr[c - FTR],
         merge_two_heap_entries_linked_list(a, c), ~GoWild
  PROVE  /\ MemoryInv' /\ [A!Next]_(A!vars)
         /\ stack' = <<"sort", "merge">> \o Tail(stack)
         /\ cursor' \in Nat /\ filler' = filler
         /\ arg' = IF stack' = <<>> THEN 0 ELSE arg
<1>. USE Constants
<1>1. /\ hdr[c].used = FREE /\ hdr[a].used = FREE /\ c - FTR \in DOMAIN ftr
  BY DEF Mergeable
<1>2. PICK s : s = hdr[a].size + Extent(hdr[c].size) OBVIOUS
<1>3. PICK lo, hi : lo = a + HDR /\ hi = Footer(c) OBVIOUS
<1>4. /\ a \in Blocks /\ c \in Blocks /\ a < c
      /\ c = Footer(a) + FTR /\ a + HDR + s = hi /\ c + HDR <= hi
      /\ \A x \in Blocks : x = a \/ x = c \/ Footer(x) + FTR <= a \/ hi + FTR <= x
  BY <1>1, <1>2, <1>3, MergeLaidOut
<1>5. a \in Nat /\ c \in Nat /\ s \in Nat /\ hi \in Nat BY <1>1, <1>2, <1>3, MergeLaidOut
<1>6. lo \in Nat /\ a < lo /\ lo <= c
  <2>1. hdr[a].size \in Nat /\ Footer(a) = a + HDR + hdr[a].size BY <1>4, BlocksLaidOut
  <2>. QED BY <2>1, <1>3, <1>4, <1>5
<1>7. PICK Z : Z = ZeroHeaders(lo, hi) OBVIOUS
<1>8. PICK gone : gone = Overwritten(DOMAIN hdr, lo, hi, HDR) \ Z OBVIOUS
<1>9. PICK k : k = AddLast(Remove(Merged(Remove(List, c), DOMAIN hdr \ gone, Z, a, s), a), a)
  OBVIOUS
<1>10. /\ Install(k)
       /\ ftr' = MergeFooters(a, lo, hi)
       /\ stale' = (stale \cup gone) \ Z
       /\ Continue(<<"sort", "merge">>, k.head)
       /\ UNCHANGED <<mallocable_address, asked, cut, filler>>
  <2>1. lo + s = hi BY <1>3, <1>4
  <2>2. LET newSize == hdr[a].size + Extent(hdr[c].size)
            l == a + HDR
            h == l + newSize
            zeros == ZeroHeaders(l, h)
            lost == Overwritten(DOMAIN hdr, l, h, HDR) \ zeros
            merged == Merged(Remove(List, c), DOMAIN hdr \ lost, zeros, a, newSize)
            appended == AddLast(Remove(merged, a), a)
        IN  /\ Install(appended)
            /\ ftr' = MergeFooters(a, l, h)
            /\ stale' = (stale \cup lost) \ zeros
            /\ Continue(<<"sort", "merge">>, appended.head)
            /\ UNCHANGED <<mallocable_address, asked, cut, filler>>
    BY MergeExpanded, Zenon
  <2>3. lo = a + HDR BY <1>3
  <2>. QED BY <2>1, <2>2, <2>3, <1>2, <1>7, <1>8, <1>9, Zenon
\* Which headers lie in the joined bytes.
<1>11. \A x \in Z : x \in Nat /\ lo <= x /\ x + HDR <= hi /\ x \in DOMAIN hdr \cup stale
  <2>1. \A x \in DOMAIN hdr \cup stale : x \in Nat
    BY DEF MemoryInv, MemoryType, StaleBelow
  <2>2. \A x \in Z : x \in DOMAIN hdr \cup stale /\ lo <= x /\ x + HDR <= hi
    BY <1>7 DEF ZeroHeaders
  <2>. QED BY <2>1, <2>2
<1>12. \A x \in DOMAIN hdr : x \in Z \cup gone <=> x \in Z \/ (x < hi /\ lo < x + HDR)
  BY <1>8 DEF Overwritten, Overlaps
<1>13. gone \subseteq DOMAIN hdr /\ gone \cap Z = {} BY <1>8 DEF Overwritten
<1>14. c \in Z \cup gone BY <1>4, <1>5, <1>6, <1>12
<1>15. ASSUME NEW x \in Blocks, x # c PROVE x \in DOMAIN hdr /\ x \notin Z \cup gone
  <2>1. /\ x \in DOMAIN hdr /\ x \in Nat /\ hdr[x].size \in Nat
        /\ Footer(x) = x + HDR + hdr[x].size
    BY BlocksLaidOut
  <2>2. CASE x = a
    <3>1. x + HDR = lo /\ x < lo BY <2>2, <1>3, <1>6
    <3>. QED BY <2>1, <3>1, <1>6, <1>11, <1>12
  <2>3. CASE Footer(x) + FTR <= a
    <3>1. x + HDR <= a BY <2>1, <2>3, <1>5
    <3>2. x + HDR < lo /\ x < lo BY <2>1, <3>1, <1>5, <1>6
    <3>. QED BY <2>1, <3>2, <1>6, <1>11, <1>12
  <2>4. CASE hi + FTR <= x
    <3>1. hi < x /\ hi < x + HDR BY <2>1, <2>4, <1>5
    <3>. QED BY <2>1, <3>1, <1>5, <1>11, <1>12
  <2>. QED BY <2>2, <2>3, <2>4, <1>4, <1>15
<1>16. PICK K : K = DOMAIN hdr \ gone OBVIOUS
<1>17. a \in K \ Z /\ K \subseteq DOMAIN hdr BY <1>4, <1>5, <1>15, <1>16
<1>18. /\ k \in Lists(K \cup Z)
       /\ \E g : /\ g \in [DOMAIN hdr -> Header] /\ SameData(g, hdr)
                 /\ SameData(k.hdr, MergeHeaders(g, K, Z, a, s))
  <2>1. PICK D : D = DOMAIN hdr OBVIOUS
  <2>2. PICK l : l = List OBVIOUS
  <2>3. l \in Lists(D) BY <2>1, <2>2, ListTyped
  <2>4. l.hdr = hdr BY <2>2, ListTyped
  <2>5. c \in D /\ a \in D \cap Nat /\ K \subseteq D /\ a \in K \ Z
    BY <2>1, <1>5, <1>17
  <2>6. k = AddLast(Remove(Merged(Remove(l, c), K, Z, a, s), a), a)
    BY <2>2, <1>9, <1>16
  <2>7. /\ k \in Lists(K \cup Z)
        /\ \E g : /\ g \in [D -> Header] /\ SameData(g, l.hdr)
                  /\ SameData(k.hdr, MergeHeaders(g, K, Z, a, s))
    BY ONLY <2>3, <2>5, <2>6, <1>5, MergeData
  <2>. QED BY <2>1, <2>4, <2>7
<1>19. PICK g : /\ g \in [DOMAIN hdr -> Header] /\ SameData(g, hdr)
                /\ SameData(k.hdr, MergeHeaders(g, K, Z, a, s))
  BY <1>18
<1>20. hdr' = k.hdr /\ HEAP_LINKED_LIST_HEAD' = k.head /\ HEAP_LINKED_LIST_LAST' = k.last
  BY <1>10, Zenon DEF Install
<1>21. hdr' \in [DOMAIN hdr' -> Header] /\ DOMAIN hdr' = K \cup Z
  BY <1>18, <1>20 DEF Lists
<1>22. HEAP_LINKED_LIST_HEAD' \in Nat /\ HEAP_LINKED_LIST_LAST' \in Nat
  BY <1>18, <1>20 DEF Lists
<1>23. PICK h : h = MergeHeaders(g, K, Z, a, s) OBVIOUS
<1>24. DOMAIN h = K \cup Z BY <1>23 DEF MergeHeaders
<1>25. \A x \in K \cup Z : /\ hdr'[x].size = h[x].size /\ hdr'[x].used = h[x].used
                           /\ hdr'[x].location = h[x].location
  BY <1>19, <1>20, <1>23, <1>24 DEF SameData
<1>26. \A x \in Z : hdr'[x].size = 0 /\ hdr'[x].used = FREE /\ hdr'[x].location = NULL
  BY <1>23, <1>25, MergeHeadersZeroed
<1>27. DOMAIN g = DOMAIN hdr /\ g \in [DOMAIN g -> Header] BY <1>19
<1>28. \A x \in DOMAIN hdr : /\ g[x].size = hdr[x].size /\ g[x].used = hdr[x].used
                             /\ g[x].location = hdr[x].location
  BY <1>19 DEF SameData
<1>29. hdr'[a].size = s /\ hdr'[a].used = FREE /\ hdr'[a].location = hdr[a].location
  <2>1. h[a].size = s /\ h[a].used = g[a].used /\ h[a].location = g[a].location
    BY <1>17, <1>23, <1>27, MergeHeadersGrown
  <2>. QED BY <2>1, <1>1, <1>17, <1>25, <1>28
<1>30. \A x \in K \ Z : x # a => /\ hdr'[x].size = hdr[x].size /\ hdr'[x].used = hdr[x].used
                                 /\ hdr'[x].location = hdr[x].location
  <2>1. \A x \in K \ Z : x # a => h[x] = g[x] BY <1>23, MergeHeadersElsewhere
  <2>. QED BY <2>1, <1>16, <1>25, <1>28
<1>31. \A x \in Blocks : x # c => x \in K \ Z BY <1>15, <1>16
\* The footers: the lower block's goes, the upper one's names the lower block.
<1>32. /\ DOMAIN ftr' = DOMAIN ftr \ {Footer(a)}
       /\ hi \in DOMAIN ftr /\ hi # Footer(a) /\ ftr'[hi] = a
       /\ \A f \in DOMAIN ftr \ {Footer(a), hi} : ftr'[f] = ftr[f]
  BY <1>1, <1>3, <1>10, MergeFootersLaidOut
<1>33. Blocks' = Blocks \ {c}
  <2>1. ASSUME NEW f \in DOMAIN ftr' PROVE ftr'[f] \in Blocks \ {c}
    <3>1. CASE f = hi
      <4>1. a # c BY <1>4, <1>5
      <4>. QED BY <4>1, <3>1, <1>4, <1>32
    <3>2. CASE f # hi
      <4>1. ftr'[f] = ftr[f] /\ ftr[f] \in Blocks /\ f = Footer(ftr[f])
        BY <3>2, <1>32, FootersLaidOut
      <4>. QED BY <4>1, <3>2, <1>3
    <3>. QED BY <3>1, <3>2
  <2>2. ASSUME NEW x \in Blocks, x # c PROVE \E f \in DOMAIN ftr' : ftr'[f] = x
    <3>1. CASE x = a BY <3>1, <1>32
    <3>2. CASE x # a
      <4>1. /\ Footer(x) \in DOMAIN ftr /\ ftr[Footer(x)] = x
            /\ ftr[Footer(a)] = a /\ ftr[Footer(c)] = c
        BY <1>4, BlocksLaidOut
      <4>2. Footer(x) # Footer(a) /\ Footer(x) # hi BY <4>1, <3>2, <2>2, <1>3
      <4>. QED BY <4>1, <4>2, <1>32
    <3>. QED BY <3>1, <3>2
  <2>3. Blocks' = {ftr'[f] : f \in DOMAIN ftr'} BY DEF Blocks, Range
  <2>. QED BY <2>1, <2>2, <2>3
<1>34. Footer(a)' = hi BY <1>4, <1>29 DEF Footer
<1>35. \A x \in Blocks' \ {a} : x \in Blocks /\ x \in K \ Z /\ Footer(x)' = Footer(x)
  BY <1>30, <1>31, <1>33 DEF Footer
<1>36. ~hdr[c].used /\ ~hdr[a].used /\ ~hdr'[a].used BY <1>1, <1>29, Zenon DEF FREE
<1>37. a \notin DOMAIN asked /\ c \notin DOMAIN asked
  BY <1>4, <1>36, Zenon DEF MemoryInv, UsedIsOwned
<1>38. A!Merge(a, c)
  <2>1. a \in A!Free /\ c \in A!Free BY <1>4, <1>37, Zenon DEF A!Free
  <2>2. PICK size : size = [x \in Blocks |-> hdr[x].size] OBVIOUS
  <2>3. size[a] = hdr[a].size /\ size[c] = hdr[c].size BY <2>2, <1>4
  <2>4. Footer(a) = a + HDR + hdr[a].size /\ hdr[a].size \in Nat BY <1>4, BlocksLaidOut
  <2>5. c = A!End(a)
    <3>1. A!End(a) = a + A!Extent(size[a]) BY <2>2, Zenon DEF A!End
    <3>2. A!Extent(size[a]) = HDR + hdr[a].size + FTR BY <2>3, Zenon DEF A!Extent
    <3>3. PICK n \in Nat : n = hdr[a].size BY <2>4
    <3>4. A!End(a) = a + (HDR + n + FTR) BY <3>1, <3>2, <3>3
    <3>5. c = (a + HDR + n) + FTR BY <1>4, <2>4, <3>3
    <3>. QED BY ONLY <3>3, <3>4, <3>5, <1>5, Constants
  <2>6. size[a] + A!Extent(size[c]) = s BY <2>3, <1>2, Zenon DEF A!Extent, Extent
  <2>7. [x \in Blocks |-> hdr[x].size]' =
          [x \in Blocks' |-> IF x = a THEN s ELSE size[x]]
    BY <2>2, <1>29, <1>30, <1>35
  <2>8. asked' = asked /\ mallocable_address' = mallocable_address BY <1>10
  <2>. QED BY <2>1, <2>2, <2>5, <2>6, <2>7, <2>8, <1>33, Zenon DEF A!Merge
<1>39. A!Next BY <1>4, <1>38, Zenon DEF A!Next
<1>40. A!HeapInv' BY <1>39, A!NextInv DEF MemoryInv
<1>41. MemoryType'
  <2>1. DOMAIN hdr' \subseteq Nat BY <1>11, <1>16, <1>21 DEF MemoryInv, MemoryType
  <2>2. \A f \in DOMAIN ftr' : f \in Nat /\ ftr'[f] \in DOMAIN hdr'
    <3>1. \A f \in DOMAIN ftr' : ftr'[f] \in Blocks \ {c} /\ f \in Nat
      BY <1>32, <1>33 DEF MemoryInv, MemoryType, Blocks, Range
    <3>. QED BY <3>1, <1>21, <1>31
  <2>3. ftr' = [f \in DOMAIN ftr' |-> ftr'[f]] BY <1>10 DEF MergeFooters
  <2>. QED BY <2>1, <2>2, <2>3, <1>21, <1>22 DEF MemoryType
<1>42. FootersSound'
  <2>1. ASSUME NEW f \in DOMAIN ftr', f # hi PROVE f = ftr'[f] + HDR + hdr'[ftr'[f]].size
    <3>1. ftr'[f] = ftr[f] /\ ftr[f] \in Blocks /\ f = Footer(ftr[f])
      BY <2>1, <1>32, FootersLaidOut
    <3>2. ftr[f] # a /\ ftr[f] # c BY <3>1, <2>1, <1>3, <1>32
    <3>3. hdr'[ftr[f]].size = hdr[ftr[f]].size BY <3>1, <3>2, <1>30, <1>31
    <3>. QED BY <3>1, <3>3 DEF Footer
  <2>2. hi = ftr'[hi] + HDR + hdr'[ftr'[hi]].size BY <1>4, <1>29, <1>32
  <2>. QED BY <2>1, <2>2 DEF FootersSound, Footer
<1>43. UsedIsOwned'
  <2>1. asked' = asked BY <1>10
  <2>2. \A x \in Blocks' : x # a => hdr'[x].used = hdr[x].used BY <1>30, <1>35
  <2>3. \A x \in Blocks' : x # a => (hdr'[x].used <=> x \in DOMAIN asked)
    BY <2>2, <1>33, Zenon DEF MemoryInv, UsedIsOwned
  <2>. QED BY <2>1, <2>3, <1>36, <1>37, Zenon DEF UsedIsOwned
<1>44. LocationsSound'
  <2>1. \A x \in Blocks' : x # a => hdr'[x].location = hdr[x].location BY <1>30, <1>35
  <2>. QED BY <2>1, <1>4, <1>29, <1>33 DEF MemoryInv, LocationsSound
<1>45. GhostsInside'
  <2>1. ASSUME NEW x \in Z
        PROVE  \E b \in Blocks' : b + HDR <= x /\ x + HDR <= Footer(b)'
    BY <1>3, <1>4, <1>5, <1>11, <1>33, <1>34
  <2>2. ASSUME NEW x \in K, x \notin Z, x \notin Blocks'
        PROVE  /\ hdr'[x].size = 0 /\ hdr'[x].used = FREE /\ hdr'[x].location = NULL
               /\ \E b \in Blocks' : b + HDR <= x /\ x + HDR <= Footer(b)'
    <3>1. x \in DOMAIN hdr /\ x \notin gone /\ x # c BY <2>2, <1>14, <1>16
    <3>2. x \notin Blocks /\ x # a BY <2>2, <3>1, <1>4, <1>5, <1>33
    <3>3. x \in Nat BY <3>1, HeadersLaidOut
    <3>4. ~(x < hi /\ lo < x + HDR) BY <2>2, <3>1, <1>12
    <3>5. /\ hdr[x].size = 0 /\ hdr[x].used = FREE /\ hdr[x].location = NULL
          /\ \E b \in Blocks : b + HDR <= x /\ x + HDR <= Footer(b)
      BY <3>1, <3>2 DEF MemoryInv, GhostsInside
    <3>6. PICK b \in Blocks : b + HDR <= x /\ x + HDR <= Footer(b) BY <3>5
    <3>7. b # a
      <4>1. SUFFICES ASSUME b = a PROVE FALSE OBVIOUS
      <4>2. /\ Footer(a) + FTR = c BY <1>4
      <4>3. hdr[a].size \in Nat /\ Footer(a) = a + HDR + hdr[a].size BY <1>4, BlocksLaidOut
      <4>4. PICK fa \in Nat, n \in Nat : fa = Footer(a) /\ n = hdr[a].size
        BY <4>2, <4>3, <1>5, Constants
      <4>5. lo <= x /\ x + HDR <= fa /\ fa + FTR = c BY <4>1, <4>2, <4>4, <3>6, <1>3
      <4>6. x \in Nat BY <3>3
      <4>7. x < hi BY ONLY <4>5, <4>6, <4>4, <1>5, <1>4, Constants
      <4>. QED BY ONLY <4>5, <4>6, <4>4, <3>4, <1>5, <1>6, <4>7, Constants
    <3>8. b # c
      <4>1. SUFFICES ASSUME b = c PROVE FALSE OBVIOUS
      <4>. QED BY <4>1, <3>3, <3>4, <3>6, <1>3, <1>5, <1>6
    <3>9. b \in Blocks' /\ Footer(b)' = Footer(b) BY <3>7, <3>8, <1>33, <1>35
    <3>10. hdr'[x].size = hdr[x].size /\ hdr'[x].used = hdr[x].used
           /\ hdr'[x].location = hdr[x].location
      BY <2>2, <3>2, <1>30
    <3>. QED BY <3>5, <3>6, <3>9, <3>10
  <2>. QED BY <2>1, <2>2, <1>21, <1>26 DEF GhostsInside
<1>46. StaleBelow'
  <2>1. \A x \in DOMAIN hdr : x \in Nat /\ x < mallocable_address
    BY HeadersLaidOut, BlocksLaidOut
  <2>. QED BY <2>1, <1>10, <1>13, <1>16, <1>21 DEF MemoryInv, StaleBelow
<1>47. MemoryInv'
  BY <1>40, <1>41, <1>42, <1>43, <1>44, <1>45, <1>46 DEF MemoryInv
<1>48. /\ stack' = <<"sort", "merge">> \o Tail(stack)
       /\ cursor' = IF stack' = <<>> THEN NULL ELSE k.head
       /\ arg' = IF stack' = <<>> THEN 0 ELSE arg
  BY <1>10, Zenon DEF Continue
<1>49. cursor' \in Nat BY <1>18, <1>48 DEF Lists, NULL
<1>50. filler' = filler BY <1>10
<1>. QED BY <1>39, <1>47, <1>48, <1>49, <1>50

---------------------------------------------------------------------------
(***************************************************************************)
(* The stacks of loops: what can run, and what stands behind it.           *)
(***************************************************************************)
LEMMA SameSequence ==
  ASSUME NEW S, NEW s \in Seq(S), NEW t \in Seq(S), Len(s) = Len(t),
         \A i \in 1 .. Len(s) : s[i] = t[i]
  PROVE  s = t
OBVIOUS

LEMMA Joined ==
  ASSUME NEW S, NEW s \in Seq(S), NEW t \in Seq(S), NEW u \in Seq(S),
         Len(u) = Len(s) + Len(t),
         \A i \in 1 .. Len(u) : u[i] = IF i <= Len(s) THEN s[i] ELSE t[i - Len(s)]
  PROVE  s \o t = u
<1>1. s \o t \in Seq(S) /\ Len(s \o t) = Len(u) OBVIOUS
<1>2. \A i \in 1 .. Len(u) : (s \o t)[i] = u[i] OBVIOUS
<1>. QED BY ONLY u \in Seq(S), <1>1, <1>2, SameSequence

LEMMA PairJoined == ASSUME NEW a, NEW b PROVE <<a>> \o <<b>> = <<a, b>>
<1>1. PICK S : S = {a, b} OBVIOUS
<1>2. PICK s, t, u : s = <<a>> /\ t = <<b>> /\ u = <<a, b>> OBVIOUS
<1>3. s \in Seq(S) /\ t \in Seq(S) /\ u \in Seq(S) BY <1>1, <1>2
<1>4. Len(s) = 1 /\ Len(t) = 1 /\ Len(u) = 2 BY <1>2
<1>5. \A i \in 1 .. 2 : u[i] = IF i <= 1 THEN s[i] ELSE t[i - 1] BY <1>2
<1>6. /\ Len(u) = Len(s) + Len(t)
      /\ \A i \in 1 .. Len(u) : u[i] = IF i <= Len(s) THEN s[i] ELSE t[i - Len(s)]
  BY ONLY <1>4, <1>5
<1>7. s \o t = u BY ONLY <1>3, <1>6, Joined, Zenon
<1>. QED BY <1>2, <1>7, Zenon

LEMMA TripleJoined ==
  ASSUME NEW a, NEW b, NEW c
  PROVE  <<a>> \o <<b, c>> = <<a, b, c>> /\ <<a, b>> \o <<c>> = <<a, b, c>>
<1>1. PICK S : S = {a, b, c} OBVIOUS
<1>2. PICK s, t, u : s = <<a>> /\ t = <<b, c>> /\ u = <<a, b, c>> OBVIOUS
<1>3. PICK v, w : v = <<a, b>> /\ w = <<c>> OBVIOUS
<1>4. s \in Seq(S) /\ t \in Seq(S) /\ u \in Seq(S) BY <1>1, <1>2
<1>5. v \in Seq(S) /\ w \in Seq(S) BY <1>1, <1>3
<1>6. Len(s) = 1 /\ Len(t) = 2 /\ Len(u) = 3 /\ Len(v) = 2 /\ Len(w) = 1 BY <1>2, <1>3
<1>7. \A i \in 1 .. 3 : u[i] = IF i <= 1 THEN s[i] ELSE t[i - 1] BY <1>2
<1>8. \A i \in 1 .. 3 : u[i] = IF i <= 2 THEN v[i] ELSE w[i - 2] BY <1>2, <1>3
<1>9. /\ Len(u) = Len(s) + Len(t)
      /\ \A i \in 1 .. Len(u) : u[i] = IF i <= Len(s) THEN s[i] ELSE t[i - Len(s)]
  BY ONLY <1>6, <1>7
<1>10. /\ Len(u) = Len(v) + Len(w)
       /\ \A i \in 1 .. Len(u) : u[i] = IF i <= Len(v) THEN v[i] ELSE w[i - Len(v)]
  BY ONLY <1>6, <1>8
<1>11. s \o t = u BY ONLY <1>4, <1>9, Joined, Zenon
<1>12. v \o w = u BY ONLY <1>4, <1>5, <1>10, Joined, Zenon
<1>. QED BY <1>2, <1>3, <1>11, <1>12, Zenon

Sorting == {<<"sort">>, <<"sort", "merge">>, <<"sort", "search">>,
            <<"sort", "merge", "search">>, <<"sort", "block", "unfill">>,
            <<"sort", "unfill">>}

LEMMA LoopStacks ==
  ASSUME CallInv
  PROVE  /\ In("find") => /\ stack = <<"find">> /\ arg \in SIZES
                          /\ mallocable_address + Extent(arg) <= LIMIT
         /\ In("aligned") => /\ stack = <<"aligned">> /\ arg \in SIZES
                             /\ NextPage - HDR + Extent(arg) <= LIMIT
         /\ In("block") => /\ stack = <<"block", "unfill">> /\ arg \in SIZES
                           /\ mallocable_address + Extent(arg) <= LIMIT
                           /\ filler \in DOMAIN asked
         /\ In("unfill") => stack = <<"unfill">> /\ filler \in DOMAIN asked
         /\ In("sort") => stack \in Sorting
         /\ In("merge") => \/ stack = <<"merge">>
                           \/ stack = <<"merge", "search">> /\ arg # NULL
         /\ In("search") => stack = <<"search">> /\ arg # NULL
BY DEF CallInv, In, Scanning, Searching, Sorting

LEMMA SortStacks ==
  ASSUME NEW s \in Sorting
  PROVE  /\ <<"sort">> \o Tail(s) = s
         /\ <<>> \o Tail(s) = Tail(s)
<1>1. CASE s = <<"sort">> BY <1>1
<1>2. CASE s = <<"sort", "merge">>
  <2>1. Tail(s) = <<"merge">> BY <1>2
  <2>. QED BY <2>1, <1>2, PairJoined
<1>3. CASE s = <<"sort", "search">>
  <2>1. Tail(s) = <<"search">> BY <1>3
  <2>. QED BY <2>1, <1>3, PairJoined
<1>4. CASE s = <<"sort", "merge", "search">>
  <2>1. Tail(s) = <<"merge", "search">> BY <1>4
  <2>2. <<"sort">> \o <<"merge", "search">> = <<"sort", "merge", "search">> BY TripleJoined, Zenon
  <2>3. <<>> \o <<"merge", "search">> = <<"merge", "search">> OBVIOUS
  <2>. QED BY <2>1, <2>2, <2>3, <1>4, Zenon
<1>5. CASE s = <<"sort", "block", "unfill">>
  <2>1. Tail(s) = <<"block", "unfill">> BY <1>5
  <2>2. <<"sort">> \o <<"block", "unfill">> = <<"sort", "block", "unfill">> BY TripleJoined, Zenon
  <2>3. <<>> \o <<"block", "unfill">> = <<"block", "unfill">> OBVIOUS
  <2>. QED BY <2>1, <2>2, <2>3, <1>5, Zenon
<1>6. CASE s = <<"sort", "unfill">>
  <2>1. Tail(s) = <<"unfill">> BY <1>6
  <2>. QED BY <2>1, <1>6, PairJoined
<1>. QED BY <1>1, <1>2, <1>3, <1>4, <1>5, <1>6 DEF Sorting

\* A call that follows a pointer into unknown bytes, and one whose sort goes
\* on or is through.
LEMMA WildStep ==
  ASSUME HeapInv, GoWild
  PROVE  HeapInv' /\ UNCHANGED A!vars
<1>1. UNCHANGED memory /\ stack' = <<"wild">> /\ cursor' = 0 /\ arg' = 0 /\ filler' = filler
  BY DEF GoWild, NULL
<1>2. MemoryInv' /\ UNCHANGED A!vars BY <1>1, MemoryKept DEF HeapInv
<1>3. CallInv' BY <1>1 DEF HeapInv, CallInv, Scanning
<1>. QED BY <1>2, <1>3 DEF HeapInv

LEMMA SortGoesOn ==
  ASSUME CallInv, stack \in Sorting, stack' = stack \/ stack' = Tail(stack), cursor' \in Nat,
         arg' = IF stack' = <<>> THEN 0 ELSE arg,
         UNCHANGED <<filler, mallocable_address, asked>>
  PROVE  CallInv'
<1>1. CASE stack' = stack
  BY <1>1 DEF CallInv, Sorting, Scanning, Searching, Extent, NextPage
<1>2. CASE stack' = Tail(stack)
  <2>1. CASE stack = <<"sort">>
    <3>1. stack' = <<>> BY <1>2, <2>1
    <3>. QED BY <3>1 DEF CallInv, Scanning
  <2>2. CASE stack = <<"sort", "merge">>
    <3>1. stack' = <<"merge">> BY <1>2, <2>2
    <3>. QED BY <3>1 DEF CallInv, Scanning
  <2>3. CASE stack = <<"sort", "search">>
    <3>1. stack' = <<"search">> BY <1>2, <2>3
    <3>2. arg # NULL BY <2>3 DEF CallInv, Scanning
    <3>. QED BY <3>1, <3>2 DEF CallInv, Searching
  <2>4. CASE stack = <<"sort", "merge", "search">>
    <3>1. stack' = <<"merge", "search">> BY <1>2, <2>4
    <3>2. arg # NULL BY <2>4 DEF CallInv, Scanning
    <3>. QED BY <3>1, <3>2 DEF CallInv, Searching
  <2>5. CASE stack = <<"sort", "block", "unfill">>
    <3>1. stack' = <<"block", "unfill">> BY <1>2, <2>5
    <3>2. arg \in SIZES /\ mallocable_address + Extent(arg) <= LIMIT /\ filler \in DOMAIN asked
      BY <2>5 DEF CallInv, Scanning, Searching
    <3>. QED BY <3>1, <3>2 DEF CallInv, Extent
  <2>6. CASE stack = <<"sort", "unfill">>
    <3>1. stack' = <<"unfill">> BY <1>2, <2>6
    <3>2. filler \in DOMAIN asked BY <2>6 DEF CallInv, Scanning, Searching
    <3>. QED BY <3>1, <3>2 DEF CallInv
  <2>. QED BY <2>1, <2>2, <2>3, <2>4, <2>5, <2>6 DEF Sorting
<1>. QED BY <1>1, <1>2

---------------------------------------------------------------------------
(***************************************************************************)
(* The actions, one by one: each keeps HeapInv and is a step of HeapBlocks *)
(* or none.                                                                *)
(***************************************************************************)
LEMMA KnownCursor ==
  ASSUME Known(List, {cursor}), cursor # NULL
  PROVE  cursor \in DOMAIN hdr
BY DEF Known, List

\* Continue, with nothing but the stack, the cursor and the argument changed.
LEMMA Continued ==
  ASSUME NEW loops, NEW head \in Nat, Continue(loops, head)
  PROVE  /\ stack' = loops \o Tail(stack) /\ cursor' \in Nat
         /\ arg' = IF stack' = <<>> THEN 0 ELSE arg
BY DEF Continue, NULL

LEMMA FindStep ==
  ASSUME HeapInv, 0 \notin SIZES, find_empty_heap_entry
  PROVE  HeapInv' /\ [A!Next]_(A!vars)
<1>. USE Constants
<1>1. CASE GoWild BY <1>1, WildStep
<1>2. CASE ~GoWild /\ cursor = NULL
  <2>1. PICK m : m = mallocable_address OBVIOUS
  <2>2. m \in Nat BY <2>1, BlocksLaidOut DEF HeapInv
  <2>3. /\ stack = <<"find">> /\ arg \in SIZES /\ m + Extent(arg) <= LIMIT
    BY <2>1, LoopStacks DEF HeapInv, find_empty_heap_entry
  <2>4. insert_heap_entry(m, arg, <<>>, NULL)
    BY <1>2, <2>1, Zenon DEF find_empty_heap_entry
  <2>5. m - mallocable_address \in GAPS BY <2>1, <2>2, KernelHeapConstants
  <2>6. /\ MemoryInv' /\ [A!Next]_(A!vars)
        /\ stack' = <<"sort">> \o <<>> \o Tail(stack)
        /\ cursor' \in Nat /\ filler' = NULL
        /\ arg' = IF stack' = <<>> THEN 0 ELSE arg
    BY <1>2, <2>2, <2>3, <2>4, <2>5, Grows DEF HeapInv
  <2>7. stack' = <<"sort">> BY <2>3, <2>6
  <2>8. arg' \in Nat BY <2>6 DEF HeapInv, CallInv
  <2>9. CallInv' BY <2>6, <2>7, <2>8 DEF CallInv, Scanning, NULL
  <2>. QED BY <2>6, <2>9 DEF HeapInv
<1>3. CASE ~GoWild /\ cursor # NULL
  <2>1. /\ stack = <<"find">> /\ arg \in SIZES /\ mallocable_address + Extent(arg) <= LIMIT
    BY LoopStacks DEF HeapInv, find_empty_heap_entry
  <2>2. Known(List, {cursor}) BY <1>3, Zenon DEF find_empty_heap_entry
  <2>3. cursor \in DOMAIN hdr BY <1>3, <2>2, KnownCursor
  <2>4. arg \in Nat /\ filler \in Nat BY DEF HeapInv, CallInv
  <2>5. CASE hdr[cursor].used = FREE /\ hdr[cursor].size > Extent(arg) + SLACK
             /\ SplitEntry(cursor, arg)
    <3>1. /\ MemoryInv' /\ [A!Next]_(A!vars)
          /\ Continue(<<"sort">>, HEAP_LINKED_LIST_HEAD) /\ filler' = filler
      BY <2>1, <2>3, <2>5, Splits DEF HeapInv
    <3>2. HEAP_LINKED_LIST_HEAD \in Nat BY DEF HeapInv, MemoryInv, MemoryType
    <3>3. /\ stack' = <<"sort">> \o Tail(stack) /\ cursor' \in Nat
          /\ arg' = IF stack' = <<>> THEN 0 ELSE arg
      BY <3>1, <3>2, Continued
    <3>4. stack' = <<"sort">> BY <2>1, <3>3
    <3>5. CallInv' BY <2>4, <3>1, <3>3, <3>4 DEF CallInv, Scanning
    <3>. QED BY <3>1, <3>5 DEF HeapInv
  <2>6. CASE hdr[cursor].used = FREE /\ arg <= hdr[cursor].size
             /\ hdr[cursor].size <= Extent(arg) + SLACK /\ TakeEntry(cursor, arg)
    <3>1. arg # 0 BY <2>1
    <3>2. /\ MemoryInv' /\ [A!Next]_(A!vars) /\ Continue(<<>>, NULL) /\ filler' = filler
      BY <2>1, <2>3, <2>6, <3>1, Takes DEF HeapInv
    <3>3. NULL \in Nat BY DEF NULL
    <3>4. /\ stack' = <<>> \o Tail(stack) /\ cursor' \in Nat
          /\ arg' = IF stack' = <<>> THEN 0 ELSE arg
      BY <3>2, <3>3, Continued
    <3>5. stack' = <<>> BY <2>1, <3>4
    <3>6. CallInv' BY <2>4, <3>2, <3>4, <3>5 DEF CallInv, Scanning
    <3>. QED BY <3>2, <3>6 DEF HeapInv
  <2>7. CASE Continue(<<"find">>, hdr[cursor].next) /\ UNCHANGED <<memory, filler>>
    <3>1. MemoryInv' /\ UNCHANGED A!vars BY <2>7, MemoryKept DEF HeapInv
    <3>2. hdr[cursor].next \in Nat BY <2>3, HeadersLaidOut DEF HeapInv
    <3>3. /\ stack' = <<"find">> \o Tail(stack) /\ cursor' \in Nat
          /\ arg' = IF stack' = <<>> THEN 0 ELSE arg
      BY <2>7, <3>2, Continued
    <3>4. stack' = <<"find">> BY <2>1, <3>3
    <3>5. arg' = arg BY <3>3, <3>4
    <3>6. mallocable_address' = mallocable_address /\ filler' = filler BY <2>7 DEF memory
    <3>7. CallInv' BY <2>1, <2>4, <3>3, <3>4, <3>5, <3>6 DEF CallInv, Extent
    <3>. QED BY <3>1, <3>7 DEF HeapInv
  <2>. QED BY <1>3, <2>5, <2>6, <2>7, Zenon DEF find_empty_heap_entry
<1>. QED BY <1>1, <1>2, <1>3

LEMMA AlignedStep ==
  ASSUME HeapInv, AlignedInBounds, insert_heap_entry_page_aligned
  PROVE  HeapInv' /\ [A!Next]_(A!vars)
<1>. USE Constants
<1>1. CASE GoWild BY <1>1, WildStep
<1>2. PICK m : m = mallocable_address OBVIOUS
<1>3. m \in Nat BY <1>2, BlocksLaidOut DEF HeapInv
<1>4. /\ stack = <<"aligned">> /\ arg \in SIZES /\ NextPage - HDR + Extent(arg) <= LIMIT
  BY LoopStacks DEF HeapInv, insert_heap_entry_page_aligned
<1>5. PICK page : page = NextPage OBVIOUS
<1>6. page \in Int /\ AvailableSize = page - m
  BY <1>2, <1>3, <1>5, KernelHeapConstants DEF NextPage, AvailableSize
<1>7. arg \in Nat /\ Extent(arg) \in Nat BY DEF HeapInv, CallInv, Extent
<1>8. CASE ~GoWild /\ FillerFits
  <2>1. PICK n : n = AvailableSize - 2 * HDR - FTR OBVIOUS
  <2>2. n \in FILLERS
    BY <1>8, <2>1, Zenon DEF insert_heap_entry_page_aligned, AlignedInBounds
  <2>3. insert_heap_entry(m, n, <<"block", "unfill">>, m)
    BY <1>2, <1>8, <2>1, Zenon DEF insert_heap_entry_page_aligned
  <2>4. n \in Nat BY <2>2, KernelHeapConstants
  <2>5. m + Extent(n) = page - HDR BY <1>3, <1>6, <2>1, <2>4 DEF Extent
  <2>6. m + Extent(n) <= LIMIT BY <1>4, <1>5, <1>6, <1>7, <2>5
  <2>7. m - mallocable_address \in GAPS BY <1>2, <1>3, KernelHeapConstants
  <2>8. /\ MemoryInv' /\ [A!Next]_(A!vars)
        /\ m \in DOMAIN asked' /\ mallocable_address' = m + Extent(n)
        /\ stack' = <<"sort">> \o <<"block", "unfill">> \o Tail(stack)
        /\ cursor' \in Nat /\ filler' = m
        /\ arg' = IF stack' = <<>> THEN 0 ELSE arg
    BY <1>3, <1>8, <2>2, <2>3, <2>6, <2>7, Grows DEF HeapInv
  <2>9. stack' = <<"sort", "block", "unfill">>
    <3>1. <<"sort">> \o <<"block", "unfill">> = <<"sort", "block", "unfill">>
      BY TripleJoined, Zenon
    <3>2. stack' = <<"sort", "block", "unfill">> \o Tail(stack) BY <2>8, <3>1, Zenon
    <3>. QED BY <1>4, <3>2
  <2>10. arg' = arg BY <2>8, <2>9
  <2>11. mallocable_address' + Extent(arg) <= LIMIT BY <1>4, <1>5, <2>5, <2>8
  <2>12. CallInv'
    BY <1>3, <1>4, <1>7, <2>8, <2>9, <2>10, <2>11 DEF CallInv, Extent
  <2>. QED BY <2>8, <2>12 DEF HeapInv
<1>9. CASE ~GoWild /\ ~FillerFits
  <2>1. PICK b : b = page - HDR OBVIOUS
  <2>2. insert_heap_entry(b, arg, <<>>, NULL)
    BY <1>5, <1>9, <2>1, Zenon DEF insert_heap_entry_page_aligned
  <2>3. AvailableSize - HDR \in GAPS
    BY <1>9, Zenon DEF insert_heap_entry_page_aligned, AlignedInBounds
  <2>4. b - mallocable_address \in GAPS BY <1>2, <1>3, <1>6, <2>1, <2>3
  <2>5. b \in Nat BY <1>2, <1>3, <1>6, <2>1, <2>4, KernelHeapConstants
  <2>6. b + Extent(arg) <= LIMIT BY <1>4, <1>5, <2>1
  <2>7. /\ MemoryInv' /\ [A!Next]_(A!vars)
        /\ stack' = <<"sort">> \o <<>> \o Tail(stack)
        /\ cursor' \in Nat /\ filler' = NULL
        /\ arg' = IF stack' = <<>> THEN 0 ELSE arg
    BY <1>4, <1>9, <2>2, <2>4, <2>5, <2>6, Grows DEF HeapInv
  <2>8. stack' = <<"sort">> BY <1>4, <2>7
  <2>9. CallInv' BY <1>7, <2>7, <2>8 DEF CallInv, Scanning, NULL
  <2>. QED BY <2>7, <2>9 DEF HeapInv
<1>. QED BY <1>1, <1>8, <1>9

LEMMA AlignedBlockStep ==
  ASSUME HeapInv, InsertAlignedBlock
  PROVE  HeapInv' /\ [A!Next]_(A!vars)
<1>. USE Constants
<1>1. CASE GoWild BY <1>1, WildStep
<1>2. CASE ~GoWild
  <2>1. PICK m : m = mallocable_address OBVIOUS
  <2>2. m \in Nat BY <2>1, BlocksLaidOut DEF HeapInv
  <2>3. /\ stack = <<"block", "unfill">> /\ arg \in SIZES /\ m + Extent(arg) <= LIMIT
        /\ filler \in DOMAIN asked
    BY <2>1, LoopStacks DEF HeapInv, InsertAlignedBlock
  <2>4. insert_heap_entry(m, arg, <<>>, filler) BY <2>1, Zenon DEF InsertAlignedBlock
  <2>5. m - mallocable_address \in GAPS BY <2>1, <2>2, KernelHeapConstants
  <2>6. /\ MemoryInv' /\ [A!Next]_(A!vars)
        /\ DOMAIN asked \subseteq DOMAIN asked'
        /\ stack' = <<"sort">> \o <<>> \o Tail(stack)
        /\ cursor' \in Nat /\ filler' = filler
        /\ arg' = IF stack' = <<>> THEN 0 ELSE arg
    BY <1>2, <2>2, <2>3, <2>4, <2>5, Grows DEF HeapInv
  <2>7. stack' = <<"sort", "unfill">>
    <3>1. Tail(stack) = <<"unfill">> BY <2>3
    <3>2. <<"sort">> \o <<>> = <<"sort">> OBVIOUS
    <3>3. <<"sort">> \o <<"unfill">> = <<"sort", "unfill">> BY PairJoined, Zenon
    <3>. QED BY <2>6, <3>1, <3>2, <3>3, Zenon
  <2>8. arg' \in Nat /\ filler \in Nat BY <2>6 DEF HeapInv, CallInv
  <2>9. filler' \in DOMAIN asked' BY <2>3, <2>6
  <2>10. CallInv' BY <2>6, <2>7, <2>8, <2>9 DEF CallInv
  <2>. QED BY <2>6, <2>10 DEF HeapInv
<1>. QED BY <1>1, <1>2

LEMMA UnfillStep ==
  ASSUME HeapInv, FreeFiller
  PROVE  HeapInv' /\ [A!Next]_(A!vars)
<1>1. stack = <<"unfill">> /\ filler \in DOMAIN asked
  BY LoopStacks DEF HeapInv, FreeFiller
<1>2. filler \in Blocks BY <1>1, BlocksLaidOut DEF HeapInv
<1>3. /\ hdr' = [hdr EXCEPT ![filler].used = FREE]
      /\ asked' = [a \in DOMAIN asked \ {filler} |-> asked[a]]
      /\ filler' = NULL /\ Continue(<<>>, NULL)
      /\ UNCHANGED <<ftr, stale, HEAP_LINKED_LIST_HEAD, HEAP_LINKED_LIST_LAST,
                     mallocable_address>>
  BY Zenon DEF FreeFiller
<1>4. MemoryInv' /\ [A!Next]_(A!vars) BY <1>2, <1>3, Frees DEF HeapInv
<1>5. NULL \in Nat BY DEF NULL
<1>6. /\ stack' = <<>> \o Tail(stack) /\ cursor' \in Nat
      /\ arg' = IF stack' = <<>> THEN 0 ELSE arg
  BY <1>3, <1>5, Continued
<1>7. stack' = <<>> BY <1>1, <1>6
<1>8. CallInv' BY <1>3, <1>5, <1>6, <1>7 DEF CallInv, Scanning
<1>. QED BY <1>4, <1>8 DEF HeapInv

LEMMA SortStep ==
  ASSUME HeapInv, sort_heap_entry_linked_list
  PROVE  HeapInv' /\ [A!Next]_(A!vars)
<1>1. CASE GoWild BY <1>1, WildStep
<1>2. stack \in Sorting BY LoopStacks DEF HeapInv, sort_heap_entry_linked_list
<1>3. UNCHANGED <<ftr, stale, mallocable_address, asked, cut, filler>>
  BY Zenon DEF sort_heap_entry_linked_list
<1>4. HEAP_LINKED_LIST_HEAD \in Nat /\ HEAP_LINKED_LIST_LAST \in Nat
  BY DEF HeapInv, MemoryInv, MemoryType
<1>5. ASSUME NEW head \in Nat, Continue(<<>>, head) \/ Continue(<<"sort">>, head)
      PROVE  CallInv'
  <2>1. CASE Continue(<<>>, head)
    <3>1. /\ stack' = <<>> \o Tail(stack) /\ cursor' \in Nat
          /\ arg' = IF stack' = <<>> THEN 0 ELSE arg
      BY <2>1, Continued
    <3>2. stack' = Tail(stack) BY <1>2, <3>1, SortStacks, Zenon
    <3>. QED BY <1>2, <1>3, <3>1, <3>2, SortGoesOn DEF HeapInv
  <2>2. CASE Continue(<<"sort">>, head)
    <3>1. /\ stack' = <<"sort">> \o Tail(stack) /\ cursor' \in Nat
          /\ arg' = IF stack' = <<>> THEN 0 ELSE arg
      BY <2>2, Continued
    <3>2. stack' = stack BY <1>2, <3>1, SortStacks, Zenon
    <3>. QED BY <1>2, <1>3, <3>1, <3>2, SortGoesOn DEF HeapInv
  <2>. QED BY <1>5, <2>1, <2>2
<1>6. ASSUME UNCHANGED <<hdr, HEAP_LINKED_LIST_HEAD, HEAP_LINKED_LIST_LAST>>
      PROVE  MemoryInv' /\ UNCHANGED A!vars
  <2>1. UNCHANGED memory BY <1>3, <1>6 DEF memory
  <2>. QED BY <2>1, MemoryKept DEF HeapInv
<1>7. CASE ~GoWild /\ cursor = NULL
  <2>1. /\ Continue(<<>>, HEAP_LINKED_LIST_HEAD)
        /\ UNCHANGED <<hdr, HEAP_LINKED_LIST_HEAD, HEAP_LINKED_LIST_LAST>>
    BY <1>7, Zenon DEF sort_heap_entry_linked_list
  <2>. QED BY <1>4, <1>5, <1>6, <2>1 DEF HeapInv
<1>8. CASE ~GoWild /\ cursor # NULL
  <2>1. PICK right : right = hdr[cursor].next OBVIOUS
  <2>2. PICK sorted : sorted = Swap(List, cursor, right) OBVIOUS
  <2>3. Known(List, {cursor}) /\ Known(List, {right})
    BY <1>8, <2>1, Zenon DEF sort_heap_entry_linked_list
  <2>4. cursor \in DOMAIN hdr BY <1>8, <2>3, KnownCursor
  <2>5. right \in Nat BY <2>1, <2>4, HeadersLaidOut DEF HeapInv
  <2>6. \/ /\ Continue(<<"sort">>, right)
           /\ UNCHANGED <<hdr, HEAP_LINKED_LIST_HEAD, HEAP_LINKED_LIST_LAST>>
        \/ OutOfOrder(cursor, right) /\ Install(sorted) /\ Continue(<<"sort">>, sorted.head)
    BY <1>8, <2>1, <2>2, <2>3, Zenon DEF sort_heap_entry_linked_list
  <2>7. CASE /\ Continue(<<"sort">>, right)
             /\ UNCHANGED <<hdr, HEAP_LINKED_LIST_HEAD, HEAP_LINKED_LIST_LAST>>
    BY <1>5, <1>6, <2>5, <2>7 DEF HeapInv
  <2>8. CASE OutOfOrder(cursor, right) /\ Install(sorted) /\ Continue(<<"sort">>, sorted.head)
    <3>1. right # NULL BY <2>8 DEF OutOfOrder
    <3>2. right \in DOMAIN hdr BY <2>3, <3>1 DEF Known, List
    <3>3. PICK D : D = DOMAIN hdr OBVIOUS
    <3>4. PICK l : l = List OBVIOUS
    <3>5. l \in Lists(D) BY <3>3, <3>4, ListTyped DEF HeapInv
    <3>6. cursor \in Nat BY DEF HeapInv, CallInv
    <3>7. cursor \in D \cap Nat /\ right \in D \cap Nat BY <2>4, <2>5, <3>2, <3>3, <3>6
    <3>8. sorted = Swap(l, cursor, right) BY <2>2, <3>4
    <3>9. SameList(sorted, l, D) BY ONLY <1>8, <3>1, <3>5, <3>7, <3>8, SwapData
    <3>10. l.hdr = hdr BY <3>4, ListTyped DEF HeapInv
    <3>11. sorted \in Lists(D) /\ SameData(sorted.hdr, hdr) BY <3>9, <3>10 DEF SameList
    <3>12. sorted.head \in Nat /\ sorted.last \in Nat /\ sorted.hdr \in [D -> Header]
      BY <3>11 DEF Lists
    <3>13. /\ hdr' = sorted.hdr /\ HEAP_LINKED_LIST_HEAD' = sorted.head
           /\ HEAP_LINKED_LIST_LAST' = sorted.last
      BY <2>8, Zenon DEF Install
    <3>14. MemoryInv' /\ UNCHANGED A!vars
      BY <1>3, <3>3, <3>11, <3>12, <3>13, PointersOnly DEF HeapInv
    <3>15. CallInv' BY <1>5, <2>8, <3>12
    <3>. QED BY <3>14, <3>15 DEF HeapInv
  <2>. QED BY <2>6, <2>7, <2>8
<1>. QED BY <1>1, <1>7, <1>8

LEMMA MergeStep ==
  ASSUME HeapInv, merge_heap_entries_in_entire_linked_list
  PROVE  HeapInv' /\ [A!Next]_(A!vars)
<1>1. CASE GoWild BY <1>1, WildStep
<1>2. \/ stack = <<"merge">>
      \/ stack = <<"merge", "search">> /\ arg # NULL
  BY LoopStacks DEF HeapInv, merge_heap_entries_in_entire_linked_list
<1>3. arg \in Nat /\ filler \in Nat BY DEF HeapInv, CallInv
<1>4. ASSUME \/ stack' = <<"sort">> \o Tail(stack)
             \/ stack' = <<"merge">> \o Tail(stack)
             \/ stack' = <<"sort", "merge">> \o Tail(stack),
             cursor' \in Nat, filler' = filler,
             arg' = IF stack' = <<>> THEN 0 ELSE arg
      PROVE  CallInv'
  <2>1. CASE stack = <<"merge">>
    <3>1. Tail(stack) = <<>> BY <2>1
    <3>2. /\ <<"sort">> \o <<>> = <<"sort">> /\ <<"merge">> \o <<>> = <<"merge">>
          /\ <<"sort", "merge">> \o <<>> = <<"sort", "merge">>
      OBVIOUS
    <3>3. stack' \in {<<"sort">>, <<"merge">>, <<"sort", "merge">>}
      BY <1>4, <3>1, <3>2, Zenon
    <3>. QED BY <1>3, <1>4, <3>3 DEF CallInv, Scanning
  <2>2. CASE stack = <<"merge", "search">> /\ arg # NULL
    <3>1. Tail(stack) = <<"search">> BY <2>2
    <3>2. <<"sort">> \o <<"search">> = <<"sort", "search">> BY PairJoined, Zenon
    <3>3. <<"merge">> \o <<"search">> = <<"merge", "search">> BY PairJoined, Zenon
    <3>4. <<"sort", "merge">> \o <<"search">> = <<"sort", "merge", "search">>
      BY TripleJoined, Zenon
    <3>5. \/ stack' = <<"sort", "search">>
          \/ stack' = <<"merge", "search">>
          \/ stack' = <<"sort", "merge", "search">>
      BY <1>4, <3>1, <3>2, <3>3, <3>4, Zenon
    <3>6. arg' = arg BY <1>4, <3>5
    <3>. QED BY <1>3, <1>4, <2>2, <3>5, <3>6 DEF CallInv, Searching
  <2>. QED BY <1>2, <2>1, <2>2
<1>5. CASE ~GoWild /\ cursor = NULL
  <2>1. /\ Continue(<<"sort">>, HEAP_LINKED_LIST_HEAD)
        /\ UNCHANGED <<memory, filler>>
    BY <1>5, Zenon DEF merge_heap_entries_in_entire_linked_list
  <2>2. HEAP_LINKED_LIST_HEAD \in Nat BY DEF HeapInv, MemoryInv, MemoryType
  <2>3. /\ stack' = <<"sort">> \o Tail(stack) /\ cursor' \in Nat
        /\ arg' = IF stack' = <<>> THEN 0 ELSE arg
    BY <2>1, <2>2, Continued
  <2>4. CallInv' BY <1>4, <2>1, <2>3
  <2>5. MemoryInv' /\ UNCHANGED A!vars BY <2>1, MemoryKept DEF HeapInv
  <2>. QED BY <2>4, <2>5 DEF HeapInv
<1>6. CASE ~GoWild /\ cursor # NULL
  <2>1. Known(List, {cursor}) BY <1>6, Zenon DEF merge_heap_entries_in_entire_linked_list
  <2>2. cursor \in DOMAIN hdr BY <1>6, <2>1, KnownCursor
  <2>3. CASE Mergeable(cursor)
    <3>1. PICK a : a = ftr[cursor - FTR] OBVIOUS
    <3>2. merge_two_heap_entries_linked_list(a, cursor)
      BY <1>6, <2>3, <3>1, Zenon DEF merge_heap_entries_in_entire_linked_list
    <3>3. /\ MemoryInv' /\ [A!Next]_(A!vars)
          /\ stack' = <<"sort", "merge">> \o Tail(stack)
          /\ cursor' \in Nat /\ filler' = filler
          /\ arg' = IF stack' = <<>> THEN 0 ELSE arg
      BY <1>6, <2>2, <2>3, <3>1, <3>2, Merges DEF HeapInv
    <3>4. CallInv' BY <1>4, <3>3
    <3>. QED BY <3>3, <3>4 DEF HeapInv
  <2>4. CASE ~Mergeable(cursor)
    <3>1. Continue(<<"merge">>, hdr[cursor].next) /\ UNCHANGED <<memory, filler>>
      BY <1>6, <2>4, Zenon DEF merge_heap_entries_in_entire_linked_list
    <3>2. hdr[cursor].next \in Nat BY <2>2, HeadersLaidOut DEF HeapInv
    <3>3. /\ stack' = <<"merge">> \o Tail(stack) /\ cursor' \in Nat
          /\ arg' = IF stack' = <<>> THEN 0 ELSE arg
      BY <3>1, <3>2, Continued
    <3>4. CallInv' BY <1>4, <3>1, <3>3
    <3>5. MemoryInv' /\ UNCHANGED A!vars BY <3>1, MemoryKept DEF HeapInv
    <3>. QED BY <3>4, <3>5 DEF HeapInv
  <2>. QED BY <2>3, <2>4
<1>. QED BY <1>1, <1>5, <1>6

\* An entry found by its location is a block: a zeroed header has none.
LEMMA SearchStep ==
  ASSUME HeapInv, FreeSearch
  PROVE  HeapInv' /\ [A!Next]_(A!vars)
<1>1. CASE GoWild BY <1>1, WildStep
<1>2. stack = <<"search">> /\ arg # NULL BY LoopStacks DEF HeapInv, FreeSearch
<1>3. arg \in Nat /\ filler \in Nat BY DEF HeapInv, CallInv
<1>4. NULL \in Nat BY DEF NULL
<1>5. CASE ~GoWild /\ cursor = NULL
  <2>1. Continue(<<>>, NULL) /\ UNCHANGED <<memory, filler>> BY <1>5, Zenon DEF FreeSearch
  <2>2. /\ stack' = <<>> \o Tail(stack) /\ cursor' \in Nat
        /\ arg' = IF stack' = <<>> THEN 0 ELSE arg
    BY <1>4, <2>1, Continued
  <2>3. stack' = <<>> BY <1>2, <2>2
  <2>4. CallInv' BY <1>3, <2>1, <2>2, <2>3 DEF CallInv, Scanning
  <2>5. MemoryInv' /\ UNCHANGED A!vars BY <2>1, MemoryKept DEF HeapInv
  <2>. QED BY <2>4, <2>5 DEF HeapInv
<1>6. CASE ~GoWild /\ cursor # NULL
  <2>1. Known(List, {cursor}) BY <1>6, Zenon DEF FreeSearch
  <2>2. cursor \in DOMAIN hdr BY <1>6, <2>1, KnownCursor
  <2>3. CASE hdr[cursor].location # arg
    <3>1. Continue(<<"search">>, hdr[cursor].next) /\ UNCHANGED <<memory, filler>>
      BY <1>6, <2>3, Zenon DEF FreeSearch
    <3>2. hdr[cursor].next \in Nat BY <2>2, HeadersLaidOut DEF HeapInv
    <3>3. /\ stack' = <<"search">> \o Tail(stack) /\ cursor' \in Nat
          /\ arg' = IF stack' = <<>> THEN 0 ELSE arg
      BY <3>1, <3>2, Continued
    <3>4. stack' = <<"search">> BY <1>2, <3>3
    <3>5. CallInv' BY <1>2, <1>3, <3>1, <3>3, <3>4 DEF CallInv, Searching
    <3>6. MemoryInv' /\ UNCHANGED A!vars BY <3>1, MemoryKept DEF HeapInv
    <3>. QED BY <3>5, <3>6 DEF HeapInv
  <2>4. CASE hdr[cursor].location = arg
    <3>1. /\ hdr' = [hdr EXCEPT ![cursor].used = FREE]
          /\ asked' = [a \in DOMAIN asked \ {cursor} |-> asked[a]]
          /\ Continue(<<"merge">>, HEAP_LINKED_LIST_HEAD)
          /\ UNCHANGED <<ftr, stale, HEAP_LINKED_LIST_HEAD, HEAP_LINKED_LIST_LAST,
                         mallocable_address, cut, filler>>
      BY <1>6, <2>4, Zenon DEF FreeSearch
    <3>2. cursor \in Blocks
      BY <1>2, <2>2, <2>4 DEF HeapInv, MemoryInv, GhostsInside
    <3>3. MemoryInv' /\ [A!Next]_(A!vars) BY <3>1, <3>2, Frees DEF HeapInv
    <3>4. HEAP_LINKED_LIST_HEAD \in Nat BY DEF HeapInv, MemoryInv, MemoryType
    <3>5. /\ stack' = <<"merge">> \o Tail(stack) /\ cursor' \in Nat
          /\ arg' = IF stack' = <<>> THEN 0 ELSE arg
      BY <3>1, <3>4, Continued
    <3>6. stack' = <<"merge">> BY <1>2, <3>5
    <3>7. CallInv' BY <1>3, <3>1, <3>5, <3>6 DEF CallInv, Scanning
    <3>. QED BY <3>3, <3>7 DEF HeapInv
  <2>. QED BY <2>3, <2>4
<1>. QED BY <1>1, <1>5, <1>6

LEMMA RequestStep ==
  ASSUME HeapInv, Request
  PROVE  HeapInv' /\ UNCHANGED A!vars
<1>. USE Constants
<1>1. /\ HEAP_LINKED_LIST_HEAD \in Nat /\ filler \in Nat /\ mallocable_address \in Nat
  BY BlocksLaidOut DEF HeapInv, MemoryInv, MemoryType, CallInv
<1>2. ASSUME NEW loops, NEW value, Call(loops, value)
      PROVE  /\ MemoryInv' /\ UNCHANGED A!vars
             /\ stack' = loops /\ cursor' \in Nat /\ arg' = value /\ filler' = filler
             /\ mallocable_address' = mallocable_address
  <2>1. UNCHANGED memory BY <1>2 DEF Call
  <2>2. mallocable_address' = mallocable_address BY <2>1 DEF memory
  <2>. QED BY <1>1, <1>2, <2>1, <2>2, MemoryKept DEF Call, HeapInv
<1>3. CASE \E n \in SIZES : kernel_heap_malloc(n)
  <2>1. PICK n \in SIZES : kernel_heap_malloc(n) BY <1>3
  <2>2. n \in Nat BY KernelHeapConstants
  <2>3. mallocable_address + Extent(n) <= LIMIT /\ Call(<<"find">>, n)
    BY <2>1 DEF kernel_heap_malloc
  <2>4. CallInv' BY <1>1, <1>2, <2>2, <2>3 DEF CallInv, Extent
  <2>. QED BY <1>2, <2>3, <2>4 DEF HeapInv
<1>4. CASE \E n \in SIZES : kernel_heap_malloc_page_aligned(n)
  <2>1. PICK n \in SIZES : kernel_heap_malloc_page_aligned(n) BY <1>4
  <2>2. n \in Nat BY KernelHeapConstants
  <2>3. NextPage - HDR + Extent(n) <= LIMIT /\ Call(<<"aligned">>, n)
    BY <2>1 DEF kernel_heap_malloc_page_aligned
  <2>4. NextPage' = NextPage BY <1>2, <2>3 DEF NextPage
  <2>5. CallInv' BY <1>1, <1>2, <2>2, <2>3, <2>4 DEF CallInv, Extent
  <2>. QED BY <1>2, <2>3, <2>5 DEF HeapInv
<1>5. CASE \E b \in DOMAIN hdr \cup stale : kernel_heap_free(b + HDR)
  <2>1. PICK b \in DOMAIN hdr \cup stale : kernel_heap_free(b + HDR) BY <1>5
  <2>2. b \in Nat BY DEF HeapInv, MemoryInv, MemoryType, StaleBelow
  <2>3. Call(<<"merge", "search">>, b + HDR) BY <2>1 DEF kernel_heap_free
  <2>4. CallInv' BY <1>1, <1>2, <2>2, <2>3 DEF CallInv, Searching, NULL
  <2>. QED BY <1>2, <2>3, <2>4 DEF HeapInv
<1>6. CASE test_heap_merge
  <2>1. Call(<<"merge">>, 0) BY <1>6 DEF test_heap_merge
  <2>2. CallInv' BY <1>1, <1>2, <2>1 DEF CallInv, Scanning
  <2>. QED BY <1>2, <2>1, <2>2 DEF HeapInv
<1>7. CASE test_heap_sort
  <2>1. Call(<<"sort">>, 0) BY <1>7 DEF test_heap_sort
  <2>2. CallInv' BY <1>1, <1>2, <2>1 DEF CallInv, Scanning
  <2>. QED BY <1>2, <2>1, <2>2 DEF HeapInv
<1>. QED BY <1>3, <1>4, <1>5, <1>6, <1>7 DEF Request

LEMMA NextStep ==
  ASSUME HeapInv, AlignedInBounds, 0 \notin SIZES, [Next]_vars
  PROVE  HeapInv' /\ [A!Next]_(A!vars)
<1>1. CASE Request BY <1>1, RequestStep
<1>2. CASE find_empty_heap_entry BY <1>2, FindStep
<1>3. CASE insert_heap_entry_page_aligned BY <1>3, AlignedStep
<1>4. CASE InsertAlignedBlock BY <1>4, AlignedBlockStep
<1>5. CASE FreeFiller BY <1>5, UnfillStep
<1>6. CASE sort_heap_entry_linked_list BY <1>6, SortStep
<1>7. CASE merge_heap_entries_in_entire_linked_list BY <1>7, MergeStep
<1>8. CASE FreeSearch BY <1>8, SearchStep
<1>9. CASE UNCHANGED vars
  <2>1. UNCHANGED memory /\ UNCHANGED <<stack, cursor, arg, filler>>
    BY <1>9 DEF vars, memory
  <2>2. MemoryInv' /\ UNCHANGED A!vars BY <2>1, MemoryKept DEF HeapInv
  <2>3. mallocable_address' = mallocable_address /\ asked' = asked BY <2>1 DEF memory
  <2>4. CallInv' BY <2>1, <2>3 DEF HeapInv, CallInv, Extent, NextPage
  <2>. QED BY <2>2, <2>4 DEF HeapInv
<1>10. CASE Wild BY <1>9, <1>10 DEF Wild
<1>. QED
  BY <1>1, <1>2, <1>3, <1>4, <1>5, <1>6, <1>7, <1>8, <1>9, <1>10, Zenon DEF Next, Work

LEMMA InitHolds == Init => HeapInv /\ A!Init
<1>. SUFFICES ASSUME Init PROVE HeapInv /\ A!Init OBVIOUS
<1>1. /\ DOMAIN hdr = {} /\ hdr = [a \in {} |-> Zeroed]
      /\ DOMAIN ftr = {} /\ ftr = [a \in {} |-> NULL] /\ stale = {}
      /\ HEAP_LINKED_LIST_HEAD = 0 /\ HEAP_LINKED_LIST_LAST = 0
      /\ mallocable_address = START
      /\ DOMAIN asked = {} /\ asked = [a \in {} |-> 0]
      /\ stack = <<>> /\ cursor = 0 /\ arg = 0 /\ filler = 0
  BY DEF Init, NULL
<1>2. Blocks = {} BY <1>1 DEF Blocks, Range
<1>3. A!Init BY <1>1, <1>2 DEF A!Init
<1>4. A!HeapInv
  BY <1>1, <1>2, KernelHeapConstants
  DEF A!HeapInv, A!TypeOK, A!Disjoint, A!PayloadFits, A!NoLostSpace
<1>5. MemoryType BY <1>1 DEF MemoryType
<1>6. FootersSound /\ UsedIsOwned /\ LocationsSound /\ GhostsInside /\ StaleBelow
  BY <1>1, <1>2 DEF FootersSound, UsedIsOwned, LocationsSound, GhostsInside, StaleBelow
<1>7. CallInv BY <1>1 DEF CallInv, Scanning
<1>. QED BY <1>3, <1>4, <1>5, <1>6, <1>7 DEF HeapInv, MemoryInv

---------------------------------------------------------------------------
(***************************************************************************)
(* HeapInv holds in every run whose callers ask for no empty block and     *)
(* whose page-aligned requests find room for their header.                 *)
(***************************************************************************)
THEOREM InvHolds ==
  ASSUME 0 \notin SIZES
  PROVE  Spec /\ []AlignedInBounds => []HeapInv
<1>1. Init => HeapInv BY InitHolds
<1>2. HeapInv /\ AlignedInBounds /\ [Next]_vars => HeapInv' BY NextStep
<1>. QED BY <1>1, <1>2, PTL DEF Spec

(***************************************************************************)
(* The pointer-level heap's types, in particular that every footer names a *)
(* header that still stands and only blocks have owners.                   *)
(***************************************************************************)
THEOREM TypeCorrect ==
  ASSUME 0 \notin SIZES
  PROVE  Spec /\ []AlignedInBounds => []TypeOK
<1>1. ASSUME HeapInv PROVE TypeOK
  <2>1. hdr \in [DOMAIN hdr -> [size: Nat, used: BOOLEAN, next: Nat, previous: Nat,
                                location: Nat]]
    BY <1>1 DEF HeapInv, MemoryInv, MemoryType, Header
  <2>2. ftr \in [DOMAIN ftr -> DOMAIN hdr] /\ stale \cap DOMAIN hdr = {}
    BY <1>1 DEF HeapInv, MemoryInv, MemoryType, StaleBelow
  <2>3. {HEAP_LINKED_LIST_HEAD, HEAP_LINKED_LIST_LAST, cursor} \subseteq Nat
    BY <1>1 DEF HeapInv, MemoryInv, MemoryType, CallInv
  <2>4. asked \in [DOMAIN asked -> Nat] /\ DOMAIN asked \subseteq Blocks
    BY <1>1, BlocksLaidOut DEF HeapInv
  <2>5. stack \in Seq({"find", "aligned", "block", "unfill", "sort", "merge", "search",
                       "wild"})
    <3>1. \/ stack \in Scanning \cup Searching
          \/ stack \in {<<"find">>, <<"aligned">>, <<"block", "unfill">>,
                        <<"sort", "block", "unfill">>, <<"sort", "unfill">>, <<"unfill">>}
      BY <1>1 DEF HeapInv, CallInv
    <3>2. PICK S : S = {"find", "aligned", "block", "unfill", "sort", "merge", "search", "wild"}
      OBVIOUS
    <3>3. /\ "find" \in S /\ "aligned" \in S /\ "block" \in S /\ "unfill" \in S
          /\ "sort" \in S /\ "merge" \in S /\ "search" \in S /\ "wild" \in S
      BY <3>2
    <3>4. /\ <<>> \in Seq(S) /\ <<"sort">> \in Seq(S) /\ <<"merge">> \in Seq(S)
          /\ <<"search">> \in Seq(S) /\ <<"find">> \in Seq(S) /\ <<"aligned">> \in Seq(S)
          /\ <<"unfill">> \in Seq(S) /\ <<"wild">> \in Seq(S)
      BY ONLY <3>3
    <3>5. /\ <<"sort", "merge">> \in Seq(S) /\ <<"sort", "search">> \in Seq(S)
          /\ <<"merge", "search">> \in Seq(S) /\ <<"block", "unfill">> \in Seq(S)
          /\ <<"sort", "unfill">> \in Seq(S)
      BY ONLY <3>3
    <3>6. <<"sort", "merge", "search">> \in Seq(S) /\ <<"sort", "block", "unfill">> \in Seq(S)
      BY ONLY <3>3
    <3>7. stack \in Seq(S) BY <3>1, <3>4, <3>5, <3>6, Zenon DEF Scanning, Searching
    <3>. QED BY <3>2, <3>7, Zenon
  <2>. QED BY <2>1, <2>2, <2>3, <2>4, <2>5 DEF TypeOK
<1>. QED BY <1>1, InvHolds, PTL

(***************************************************************************)
(* Every footer names the header of its own block, so that the merge that  *)
(* looks below an entry finds its neighbour: after any splits, merges and  *)
(* swaps, whatever has become of the list.                                 *)
(***************************************************************************)
THEOREM FootersAreSound ==
  ASSUME 0 \notin SIZES
  PROVE  Spec /\ []AlignedInBounds => []FootersSound
BY InvHolds, PTL DEF HeapInv, MemoryInv

(***************************************************************************)
(* A block is marked USED exactly while somebody owns it: between a call's *)
(* iterations too, and even when a call frees what has been freed before.  *)
(***************************************************************************)
THEOREM MarksFollowOwners ==
  ASSUME 0 \notin SIZES
  PROVE  Spec /\ []AlignedInBounds => []UsedIsOwned
BY InvHolds, PTL DEF HeapInv, MemoryInv

(***************************************************************************)
(* The refinement: every run of the pointer-level heap is a run of         *)
(* HeapBlocks, so what is proved of that one holds of this one.            *)
(***************************************************************************)
THEOREM Refinement ==
  ASSUME 0 \notin SIZES
  PROVE  Spec /\ []AlignedInBounds => ImplementsHeapBlocks
<1>1. Init => AbstractHeap!Init BY InitHolds DEF A!Init, AbstractHeap!Init
<1>2. HeapInv /\ AlignedInBounds /\ [Next]_vars => [AbstractHeap!Next]_(AbstractHeap!vars)
  <2>1. [A!Next]_(A!vars) => [AbstractHeap!Next]_(AbstractHeap!vars)
    BY DEF A!Next, A!vars, A!Grow, A!Split, A!Reuse, A!Release, A!Merge, A!Extent, A!End,
           A!Free, AbstractHeap!Next, AbstractHeap!vars, AbstractHeap!Grow,
           AbstractHeap!Split, AbstractHeap!Reuse, AbstractHeap!Release,
           AbstractHeap!Merge, AbstractHeap!Extent, AbstractHeap!End, AbstractHeap!Free
  <2>. QED BY <2>1, NextStep
<1>. QED BY <1>1, <1>2, InvHolds, PTL DEF Spec, ImplementsHeapBlocks, AbstractHeap!Spec

(***************************************************************************)
(* Nothing the pointer-level heap does moves, resizes or swallows a block  *)
(* in use: what HeapBlocks' LiveStays says, carried over the refinement.   *)
(***************************************************************************)
THEOREM LiveBlocksStay ==
  ASSUME 0 \notin SIZES
  PROVE  Spec /\ []AlignedInBounds => A!LiveStays
<1>1. Init => A!Init BY InitHolds
<1>2. HeapInv /\ AlignedInBounds /\ [Next]_vars => [A!Next]_(A!vars) BY NextStep
<1>3. Spec /\ []AlignedInBounds => A!Spec
  BY <1>1, <1>2, InvHolds, PTL DEF Spec, A!Spec
<1>4. A!Spec => A!LiveStays BY A!LiveBlocksStay, Constants
<1>. QED BY <1>3, <1>4, PTL

(***************************************************************************)
(* The blocks of two owners do not overlap, as the comment of              *)
(* kernel_heap_malloc_page_aligned promises (kernel_heap.c:265): the       *)
(* header in front of mallocable_address is the only way to break it.      *)
(***************************************************************************)
THEOREM OwnersStayApart ==
  ASSUME 0 \notin SIZES
  PROVE  Spec /\ []AlignedInBounds => []OwnersApart
<1>1. ASSUME HeapInv PROVE OwnersApart
  <2>. SUFFICES ASSUME NEW b \in DOMAIN asked, NEW c \in DOMAIN asked, b < c
                PROVE  b + Extent(asked[b]) <= c
    BY DEF OwnersApart
  <2>. USE Constants
  <2>1. /\ b \in Blocks /\ c \in Blocks /\ asked[b] \in Nat
    BY <1>1, BlocksLaidOut DEF HeapInv
  <2>2. /\ b \in Nat /\ c \in Nat /\ hdr[b].size \in Nat
        /\ Footer(b) = b + HDR + hdr[b].size /\ Footer(b) + FTR <= c
    BY <1>1, <2>1, BlocksLaidOut DEF HeapInv
  <2>3. asked[b] <= hdr[b].size
    BY <1>1, <2>1 DEF HeapInv, MemoryInv, A!HeapInv, A!PayloadFits
  <2>. QED BY <2>1, <2>2, <2>3 DEF Extent
<1>. QED BY <1>1, InvHolds, PTL

---------------------------------------------------------------------------
(***************************************************************************)
(* What AlignedInBounds asks of the callers when HeapBlocks' own bounds    *)
(* leave nothing out: where no filler fits in front of a page-aligned      *)
(* block, the block's header does.                                         *)
(***************************************************************************)
HeaderFits == In("aligned") /\ ~FillerFits => HDR <= AvailableSize

LEMMA RestOfPage ==
  ASSUME NEW m \in Nat, m = mallocable_address
  PROVE  /\ AvailableSize \in 1 .. PAGE
         /\ m % PAGE = 0 => AvailableSize = PAGE
<1>1. PAGE \in Nat /\ PAGE > 0 BY KernelHeapConstants
<1>2. PICK q, r : q = m \div PAGE /\ r = m % PAGE OBVIOUS
<1>3. q \in Nat /\ r \in 0 .. PAGE - 1 BY <1>1, <1>2
<1>4. m = PAGE * q + r BY <1>1, <1>2
<1>5. (q + 1) * PAGE = PAGE * q + PAGE BY <1>1, <1>3
<1>6. AvailableSize = (q + 1) * PAGE - m BY <1>2 DEF AvailableSize, NextPage
<1>7. PAGE * q \in Nat BY <1>1, <1>3
<1>8. AvailableSize = PAGE - r BY <1>1, <1>3, <1>4, <1>5, <1>6, <1>7
<1>. QED BY <1>1, <1>2, <1>3, <1>8

THEOREM RoomIsEnough ==
  ASSUME 0 \notin SIZES, FILLERS = Nat, GAPS = 0 .. (HDR + FTR)
  PROVE  Spec /\ []HeaderFits => []AlignedInBounds
<1>1. ASSUME HeapInv, HeaderFits PROVE AlignedInBounds
  <2>. USE Constants
  <2>1. PICK m \in Nat : m = mallocable_address BY <1>1, BlocksLaidOut DEF HeapInv
  <2>2. AvailableSize \in Nat /\ (m % PAGE = 0 => AvailableSize = PAGE)
    BY <2>1, RestOfPage, KernelHeapConstants
  <2>3. FillerFits => AvailableSize - 2 * HDR - FTR \in FILLERS
    BY <2>1, <2>2, KernelHeapConstants DEF FillerFits
  <2>4. In("aligned") /\ ~FillerFits => AvailableSize - HDR \in GAPS
    BY <1>1, <2>1, <2>2 DEF FillerFits, HeaderFits
  <2>. QED BY <2>3, <2>4, Zenon DEF AlignedInBounds
<1>2. Init => HeapInv BY InitHolds
<1>3. HeapInv /\ HeaderFits /\ [Next]_vars => HeapInv' BY <1>1, NextStep
<1>. QED BY <1>1, <1>2, <1>3, PTL DEF Spec

---------------------------------------------------------------------------
(***************************************************************************)
(* The linked list, as long as no split has left a remainder.              *)
(* HEAP_LINKED_LIST_HEAD and HEAP_LINKED_LIST_LAST are the next and the    *)
(* previous of NULL: with NULL the list is a circle.  A rank that grows    *)
(* along the links, with m above every rank, leaves no room for a second   *)
(* circle.                                                                 *)
(***************************************************************************)
\* Every set of numbers has a least one.
LEMMA Least ==
  ASSUME NEW S \in SUBSET Nat, S # {}
  PROVE  \E x \in S : \A y \in S : x <= y
<1>. DEFINE less == OpToRel(<, Nat)
<1>1. IsWellFoundedOn(less, Nat) BY NatLessThanWellFounded
<1>. HIDE DEF less
<1>2. PICK x \in S : \A y \in S : ~(<<y, x>> \in less) BY <1>1, WFMin
<1>3. ASSUME NEW y \in S PROVE x <= y
  <2>1. <<y, x>> \in Nat \X Nat /\ <<y, x>>[1] = y /\ <<y, x>>[2] = x OBVIOUS
  <2>2. y < x => <<y, x>> \in less BY <2>1 DEF less, OpToRel
  <2>. QED BY <1>2, <2>2
<1>. QED BY <1>3

Circle(next, prev, Z, rank, m) ==
  /\ NULL \in Z /\ next \in [Z -> Z] /\ prev \in [Z -> Z]
  /\ \A x \in Z : prev[next[x]] = x /\ next[prev[x]] = x
  /\ m \in Nat /\ rank \in [Z -> Nat] /\ \A x \in Z : rank[x] < m
  /\ \A x \in Z \ {NULL} : next[x] # NULL => rank[x] < rank[next[x]]

\* What holds of NULL and, with x, of the entry in front of it, holds of all.
LEMMA CircleWhole ==
  ASSUME NEW next, NEW prev, NEW Z, NEW rank, NEW m, Circle(next, prev, Z, rank, m),
         NEW V \in SUBSET Z, NULL \in V, \A x \in V : prev[x] \in V
  PROVE  V = Z
<1>1. /\ next \in [Z -> Z] /\ prev \in [Z -> Z]
      /\ \A x \in Z : prev[next[x]] = x /\ next[prev[x]] = x
      /\ m \in Nat /\ rank \in [Z -> Nat] /\ \A x \in Z : rank[x] < m
      /\ \A x \in Z \ {NULL} : next[x] # NULL => rank[x] < rank[next[x]]
  BY Zenon DEF Circle
<1>. SUFFICES ASSUME Z \ V # {} PROVE FALSE OBVIOUS
<1>2. PICK S : S = {m - rank[x] : x \in Z \ V} OBVIOUS
<1>3. S \in SUBSET Nat
  <2>1. ASSUME NEW x \in Z PROVE m - rank[x] \in Nat
    <3>1. PICK k \in Nat : k = rank[x] BY <1>1
    <3>2. k < m BY <1>1, <3>1
    <3>. QED BY <1>1, <3>1, <3>2
  <2>. QED BY <1>2, <2>1
<1>4. S # {} BY <1>2
<1>5. PICK d \in S : \A y \in S : d <= y BY <1>3, <1>4, Least
<1>6. PICK x \in Z \ V : d = m - rank[x] BY <1>2
<1>7. next[x] \in Z \ V BY <1>1
<1>8. rank[x] < rank[next[x]] BY <1>1, <1>7
<1>9. d <= m - rank[next[x]] BY <1>2, <1>5, <1>7
<1>10. PICK j \in Nat, k \in Nat : j = rank[x] /\ k = rank[next[x]] BY <1>1, <1>7
<1>. QED BY <1>1, <1>6, <1>8, <1>9, <1>10

\* An entry is unlinked.
LEMMA CircleDrops ==
  ASSUME NEW next, NEW prev, NEW Z, NEW rank, NEW m, Circle(next, prev, Z, rank, m),
         NEW c \in Z \ {NULL},
         NEW n, n = [x \in Z \ {c} |-> IF x = prev[c] THEN next[c] ELSE next[x]],
         NEW p, p = [x \in Z \ {c} |-> IF x = next[c] THEN prev[c] ELSE prev[x]],
         NEW r, r = [x \in Z \ {c} |-> rank[x]]
  PROVE  Circle(n, p, Z \ {c}, r, m)
<1>1. /\ NULL \in Z /\ next \in [Z -> Z] /\ prev \in [Z -> Z]
      /\ \A x \in Z : prev[next[x]] = x /\ next[prev[x]] = x
      /\ m \in Nat /\ rank \in [Z -> Nat] /\ \A x \in Z : rank[x] < m
      /\ \A x \in Z \ {NULL} : next[x] # NULL => rank[x] < rank[next[x]]
  BY Zenon DEF Circle
<1>2. next[c] # c /\ prev[c] # c
  <2>1. rank[c] \in Nat BY <1>1
  <2>2. next[c] # c BY <1>1, <2>1
  <2>. QED BY <1>1, <2>2
<1>3. n \in [Z \ {c} -> Z \ {c}] BY <1>1, <1>2
<1>4. p \in [Z \ {c} -> Z \ {c}] BY <1>1, <1>2
<1>5. \A x \in Z \ {c} : p[n[x]] = x /\ n[p[x]] = x BY <1>1, <1>2, <1>3, <1>4
<1>6. r \in [Z \ {c} -> Nat] /\ \A x \in Z \ {c} : r[x] < m BY <1>1
<1>7. ASSUME NEW x \in (Z \ {c}) \ {NULL}, n[x] # NULL PROVE r[x] < r[n[x]]
  <2>1. CASE x = prev[c]
    <3>1. n[x] = next[c] /\ next[x] = c BY <1>1, <2>1
    <3>2. rank[x] < rank[c] /\ rank[c] < rank[next[c]] BY <1>1, <1>7, <3>1
    <3>3. rank[x] \in Nat /\ rank[c] \in Nat /\ rank[next[c]] \in Nat BY <1>1
    <3>4. r[x] = rank[x] /\ r[n[x]] = rank[next[c]] BY <1>3, <3>1
    <3>. QED BY ONLY <3>2, <3>3, <3>4
  <2>2. CASE x # prev[c] BY <1>1, <1>3, <1>7, <2>2
  <2>. QED BY <2>1, <2>2
<1>. QED BY <1>1, <1>3, <1>4, <1>5, <1>6, <1>7 DEF Circle

\* An entry is linked behind all others.
LEMMA CircleAdds ==
  ASSUME NEW next, NEW prev, NEW Z, NEW rank, NEW m, Circle(next, prev, Z, rank, m),
         NEW b, b \notin Z, NEW Y, Y = Z \cup {b},
         NEW n, n = [x \in Y |-> IF x = b THEN NULL ELSE IF x = prev[NULL] THEN b ELSE next[x]],
         NEW p, p = [x \in Y |-> IF x = b THEN prev[NULL] ELSE IF x = NULL THEN b ELSE prev[x]],
         NEW r, r = [x \in Y |-> IF x = b THEN m ELSE rank[x]]
  PROVE  Circle(n, p, Y, r, m + 1)
<1>1. /\ NULL \in Z /\ next \in [Z -> Z] /\ prev \in [Z -> Z]
      /\ \A x \in Z : prev[next[x]] = x /\ next[prev[x]] = x
      /\ m \in Nat /\ rank \in [Z -> Nat] /\ \A x \in Z : rank[x] < m
      /\ \A x \in Z \ {NULL} : next[x] # NULL => rank[x] < rank[next[x]]
  BY Zenon DEF Circle
<1>2. b # NULL BY <1>1
<1>3. n \in [Y -> Y] BY <1>1
<1>4. p \in [Y -> Y] BY <1>1
<1>5. \A x \in Y : p[n[x]] = x /\ n[p[x]] = x BY <1>1, <1>2, <1>3, <1>4
<1>6. r \in [Y -> Nat] /\ \A x \in Y : r[x] < m + 1
  <2>1. \A x \in Z : rank[x] \in Nat /\ rank[x] < m BY <1>1
  <2>2. r \in [Y -> Nat] BY <1>1
  <2>3. ASSUME NEW x \in Y PROVE r[x] < m + 1
    <3>1. r[x] = m \/ (x \in Z /\ r[x] = rank[x]) OBVIOUS
    <3>. QED BY ONLY <1>1, <2>1, <3>1
  <2>. QED BY <2>2, <2>3
<1>7. ASSUME NEW x \in Y \ {NULL}, n[x] # NULL PROVE r[x] < r[n[x]]
  <2>1. x \in Z BY <1>7
  <2>2. CASE x = prev[NULL]
    <3>1. n[x] = b /\ r[b] = m /\ r[x] = rank[x] BY <1>3, <2>1, <2>2
    <3>. QED BY <1>1, <2>1, <3>1
  <2>3. CASE x # prev[NULL]
    <3>1. n[x] = next[x] /\ next[x] \in Z /\ r[x] = rank[x] BY <1>1, <2>1, <2>3
    <3>2. r[n[x]] = rank[next[x]] BY <3>1
    <3>. QED BY <1>1, <1>7, <2>1, <3>1, <3>2
  <2>. QED BY <2>2, <2>3
<1>8. m + 1 \in Nat BY <1>1
<1>. QED BY <1>1, <1>3, <1>4, <1>5, <1>6, <1>7, <1>8 DEF Circle

\* Two neighbours change places.
LEMMA CircleSwaps ==
  ASSUME NEW next, NEW prev, NEW Z, NEW rank, NEW m, Circle(next, prev, Z, rank, m),
         NEW a \in Z \ {NULL}, NEW b \in Z \ {NULL}, b = next[a],
         NEW n, n = [x \in Z |-> IF x = a THEN next[b] ELSE IF x = b THEN a
                                 ELSE IF x = prev[a] THEN b ELSE next[x]],
         NEW p, p = [x \in Z |-> IF x = a THEN b ELSE IF x = b THEN prev[a]
                                 ELSE IF x = next[b] THEN a ELSE prev[x]],
         NEW r, r = [x \in Z |-> IF x = a THEN rank[b] ELSE IF x = b THEN rank[a] ELSE rank[x]]
  PROVE  Circle(n, p, Z, r, m)
<1>1. /\ NULL \in Z /\ next \in [Z -> Z] /\ prev \in [Z -> Z]
      /\ \A x \in Z : prev[next[x]] = x /\ next[prev[x]] = x
      /\ m \in Nat /\ rank \in [Z -> Nat] /\ \A x \in Z : rank[x] < m
      /\ \A x \in Z \ {NULL} : next[x] # NULL => rank[x] < rank[next[x]]
  BY Zenon DEF Circle
<1>2. PICK before \in Z, behind \in Z : before = prev[a] /\ behind = next[b] BY <1>1
<1>3. next[before] = a /\ prev[behind] = b /\ prev[b] = a /\ next[a] = b /\ prev[a] = before
  BY <1>1, <1>2
<1>4. /\ \A x \in Z : rank[x] \in Nat
      /\ rank[a] < rank[b]
      /\ before # NULL => rank[before] < rank[a]
      /\ behind # NULL => rank[b] < rank[behind]
  BY <1>1, <1>2, <1>3
<1>5. a # b /\ before # a /\ before # b /\ behind # a /\ behind # b
      /\ (before = behind => before = NULL)
  <2>1. PICK i \in Nat, j \in Nat : i = rank[a] /\ j = rank[b] BY <1>4
  <2>2. PICK k \in Nat, l \in Nat : k = rank[before] /\ l = rank[behind] BY <1>4
  <2>. QED BY <1>4, <2>1, <2>2
<1>6. n \in [Z -> Z] /\ p \in [Z -> Z] BY <1>1, <1>2
<1>7. /\ n[a] = behind /\ n[b] = a /\ n[before] = b
      /\ \A x \in Z \ {a, b, before} : n[x] = next[x]
      /\ p[a] = b /\ p[b] = before /\ p[behind] = a
      /\ \A x \in Z \ {a, b, behind} : p[x] = prev[x]
  BY <1>2, <1>5
<1>8. ASSUME NEW x \in Z PROVE p[n[x]] = x
  <2>1. CASE x \in {a, b, before} BY <1>7, <2>1
  <2>2. CASE x \notin {a, b, before}
    <3>1. next[x] \in Z \ {a, b, behind} BY <1>1, <1>2, <1>3, <2>2
    <3>. QED BY <1>1, <1>7, <2>2, <3>1
  <2>. QED BY <2>1, <2>2
<1>9. ASSUME NEW x \in Z PROVE n[p[x]] = x
  <2>1. CASE x \in {a, b, behind} BY <1>7, <2>1
  <2>2. CASE x \notin {a, b, behind}
    <3>1. prev[x] \in Z \ {a, b, before} BY <1>1, <1>2, <1>3, <2>2
    <3>. QED BY <1>1, <1>7, <2>2, <3>1
  <2>. QED BY <2>1, <2>2
<1>10. /\ r \in [Z -> Nat] /\ r[a] = rank[b] /\ r[b] = rank[a]
       /\ \A x \in Z \ {a, b} : r[x] = rank[x]
  BY <1>4, <1>5
<1>11. \A x \in Z : r[x] < m BY <1>1, <1>10
<1>12. ASSUME NEW x \in Z \ {NULL}, n[x] # NULL PROVE r[x] < r[n[x]]
  <2>1. CASE x = a
    <3>1. n[x] = behind /\ behind # NULL /\ r[x] = rank[b] /\ r[behind] = rank[behind]
      BY <1>5, <1>7, <1>10, <1>12, <2>1
    <3>. QED BY ONLY <1>4, <3>1
  <2>2. CASE x = b
    <3>1. n[x] = a /\ r[x] = rank[a] /\ r[a] = rank[b] BY <1>7, <1>10, <2>2
    <3>. QED BY ONLY <1>4, <3>1
  <2>3. CASE x = before
    <3>1. n[x] = b /\ before # NULL /\ r[x] = rank[before] /\ r[b] = rank[a]
      BY <1>5, <1>7, <1>10, <1>12, <2>3
    <3>. QED BY ONLY <1>4, <3>1
  <2>4. CASE x \notin {a, b, before}
    <3>1. n[x] = next[x] /\ r[x] = rank[x] BY <1>7, <1>10, <2>4
    <3>2. next[x] \in Z \ {a, b} BY <1>1, <1>3, <2>4
    <3>3. r[n[x]] = rank[next[x]] BY <1>10, <3>1, <3>2
    <3>. QED BY <1>1, <1>12, <3>1, <3>3
  <2>. QED BY <2>1, <2>2, <2>3, <2>4
<1>. QED BY <1>1, <1>6, <1>8, <1>9, <1>10, <1>11, <1>12 DEF Circle

---------------------------------------------------------------------------
(***************************************************************************)
(* What the list operations of KernelHeap do to the links:                 *)
(* remove_heap_entry, swap_heap_entry_linked_list and the append of a      *)
(* merge keep a circle a circle.                                           *)
(***************************************************************************)
\* The links of a list l through the blocks B, NULL among them.
NextOf(l, x) == IF x = NULL THEN l.head ELSE l.hdr[x].next
PreviousOf(l, x) == IF x = NULL THEN l.last ELSE l.hdr[x].previous
LinkedBy(l, B, next, prev) ==
  /\ next = [x \in B \cup {NULL} |-> NextOf(l, x)]
  /\ prev = [x \in B \cup {NULL} |-> PreviousOf(l, x)]
Linked(l, B) ==
  \E next, prev : LinkedBy(l, B, next, prev)
                  /\ \E rank, m : Circle(next, prev, B \cup {NULL}, rank, m)

LEMMA NextWritten ==
  ASSUME NEW D, NEW l \in Lists(D), NEW a, a = NULL \/ a \in D, NEW v,
         NEW x, x = NULL \/ x \in D
  PROVE  /\ NextOf(SetNext(l, a, v), x) = IF x = a THEN v ELSE NextOf(l, x)
         /\ PreviousOf(SetNext(l, a, v), x) = PreviousOf(l, x)
<1>1. CASE a = NULL BY <1>1 DEF SetNext, NextOf, PreviousOf, Lists
<1>2. CASE a # NULL
  <2>1. PICK h : h = l.hdr OBVIOUS
  <2>2. h \in [D -> Header] BY <2>1 DEF Lists
  <2>3. PICK e : e = [h[a] EXCEPT !.next = v] OBVIOUS
  <2>4. PICK g : g = [h EXCEPT ![a] = e] OBVIOUS
  <2>5. SetNext(l, a, v) = [l EXCEPT !.hdr = g]
    BY <1>2, <2>1, <2>3, <2>4 DEF SetNext
  <2>6. PICK k : k = [l EXCEPT !.hdr = g] OBVIOUS
  <2>7. k.hdr = g /\ k.head = l.head /\ k.last = l.last BY <2>6 DEF Lists
  <2>8. h[a] \in Header BY <1>2, <2>2
  <2>9. e.next = v /\ e.previous = h[a].previous BY <2>3, <2>8 DEF Header
  <2>10. \A y \in D : g[y] = IF y = a THEN e ELSE h[y] BY <2>2, <2>4
  <2>. QED BY <1>2, <2>1, <2>5, <2>6, <2>7, <2>9, <2>10 DEF NextOf, PreviousOf
<1>. QED BY <1>1, <1>2

LEMMA PreviousWritten ==
  ASSUME NEW D, NEW l \in Lists(D), NEW a, a = NULL \/ a \in D, NEW v,
         NEW x, x = NULL \/ x \in D
  PROVE  /\ PreviousOf(SetPrevious(l, a, v), x) = IF x = a THEN v ELSE PreviousOf(l, x)
         /\ NextOf(SetPrevious(l, a, v), x) = NextOf(l, x)
<1>1. CASE a = NULL BY <1>1 DEF SetPrevious, NextOf, PreviousOf, Lists
<1>2. CASE a # NULL
  <2>1. PICK h : h = l.hdr OBVIOUS
  <2>2. h \in [D -> Header] BY <2>1 DEF Lists
  <2>3. PICK e : e = [h[a] EXCEPT !.previous = v] OBVIOUS
  <2>4. PICK g : g = [h EXCEPT ![a] = e] OBVIOUS
  <2>5. SetPrevious(l, a, v) = [l EXCEPT !.hdr = g]
    BY <1>2, <2>1, <2>3, <2>4 DEF SetPrevious
  <2>6. PICK k : k = [l EXCEPT !.hdr = g] OBVIOUS
  <2>7. k.hdr = g /\ k.head = l.head /\ k.last = l.last BY <2>6 DEF Lists
  <2>8. h[a] \in Header BY <1>2, <2>2
  <2>9. e.previous = v /\ e.next = h[a].next BY <2>3, <2>8 DEF Header
  <2>10. \A y \in D : g[y] = IF y = a THEN e ELSE h[y] BY <2>2, <2>4
  <2>. QED BY <1>2, <2>1, <2>5, <2>6, <2>7, <2>9, <2>10 DEF NextOf, PreviousOf
<1>. QED BY <1>1, <1>2

\* What the list operations do to the links.
LEMMA RemoveLinks ==
  ASSUME NEW D, NEW l \in Lists(D), NEW c \in D,
         NEW next, next = NextOf(l, c), next = NULL \/ next \in D,
         NEW prev, prev = PreviousOf(l, c), prev = NULL \/ prev \in D, c # NULL
  PROVE  \A x \in D \cup {NULL} :
           /\ NextOf(Remove(l, c), x) = IF x = prev THEN next ELSE NextOf(l, x)
           /\ PreviousOf(Remove(l, c), x) = IF x = next THEN prev ELSE PreviousOf(l, x)
<1>1. next = l.hdr[c].next /\ prev = l.hdr[c].previous BY DEF NextOf, PreviousOf
<1>2. next \in Nat /\ prev \in Nat
  <2>1. l.hdr[c] \in Header BY DEF Lists
  <2>. QED BY <1>1, <2>1 DEF Header
<1>3. PICK k : k = SetNext(l, prev, next) OBVIOUS
<1>4. k \in Lists(D) BY <1>2, <1>3, SetNextData DEF SameList
<1>5. Remove(l, c) = SetPrevious(k, next, prev) BY <1>1, <1>3, Zenon DEF Remove
<1>. TAKE x \in D \cup {NULL}
<1>6. x = NULL \/ x \in D OBVIOUS
<1>7. /\ NextOf(k, x) = IF x = prev THEN next ELSE NextOf(l, x)
      /\ PreviousOf(k, x) = PreviousOf(l, x)
  BY <1>3, <1>6, NextWritten
<1>8. /\ PreviousOf(SetPrevious(k, next, prev), x) = IF x = next THEN prev ELSE PreviousOf(k, x)
      /\ NextOf(SetPrevious(k, next, prev), x) = NextOf(k, x)
  BY <1>4, <1>6, PreviousWritten
<1>. QED BY <1>5, <1>7, <1>8

LEMMA SwapLinks ==
  ASSUME NEW D, NEW l \in Lists(D), NEW a \in D, NEW b \in D, a \in Nat, b \in Nat,
         a # NULL, b # NULL,
         NEW behind, behind = NextOf(l, b), behind = NULL \/ behind \in D,
         NEW before, before = PreviousOf(l, a), before = NULL \/ before \in D
  PROVE  \A x \in D \cup {NULL} :
           /\ a # b => NextOf(Swap(l, a, b), x) =
                IF x = a THEN behind ELSE IF x = b THEN a
                ELSE IF x = before THEN b ELSE NextOf(l, x)
           /\ a # b => PreviousOf(Swap(l, a, b), x) =
                IF x = a THEN b ELSE IF x = b THEN before
                ELSE IF x = behind THEN a ELSE PreviousOf(l, x)
<1>1. before = l.hdr[a].previous /\ behind = l.hdr[b].next BY DEF NextOf, PreviousOf
<1>2. before \in Nat /\ behind \in Nat
  <2>1. l.hdr[a] \in Header /\ l.hdr[b] \in Header BY DEF Lists
  <2>. QED BY <1>1, <2>1 DEF Header
<1>3. PICK k1 : k1 = SetNext(l, before, b) OBVIOUS
<1>4. k1 \in Lists(D) BY <1>2, <1>3, SetNextData DEF SameList
<1>5. PICK k2 : k2 = SetPrevious(k1, behind, a) OBVIOUS
<1>6. k2 \in Lists(D) BY <1>2, <1>4, <1>5, SetPreviousData DEF SameList
<1>7. PICK k3 : k3 = SetNext(k2, a, behind) OBVIOUS
<1>8. k3 \in Lists(D) BY <1>2, <1>6, <1>7, SetNextData DEF SameList
<1>9. PICK k4 : k4 = SetPrevious(k3, a, b) OBVIOUS
<1>10. k4 \in Lists(D) BY <1>8, <1>9, SetPreviousData DEF SameList
<1>11. PICK k5 : k5 = SetNext(k4, b, a) OBVIOUS
<1>12. k5 \in Lists(D) BY <1>10, <1>11, SetNextData DEF SameList
<1>13. PICK k6 : k6 = SetPrevious(k5, b, before) OBVIOUS
<1>14. Swap(l, a, b) = k6
  <2>1. Swap(l, a, b) = PairWrite(k2, a, b, behind, b, a, before)
    BY <1>1, <1>3, <1>5, Zenon DEF Swap, PairWrite
  <2>2. PairWrite(k2, a, b, behind, b, a, before) =
          SetPrevious(SetNext(SetPrevious(SetNext(k2, a, behind), a, b), b, a), b, before)
    BY PairWritten
  <2>. QED BY <2>1, <2>2, <1>7, <1>9, <1>11, <1>13, Zenon
<1>. TAKE x \in D \cup {NULL}
<1>15. x = NULL \/ x \in D OBVIOUS
<1>16. /\ NextOf(k1, x) = (IF x = before THEN b ELSE NextOf(l, x))
       /\ PreviousOf(k1, x) = PreviousOf(l, x)
  BY <1>3, <1>15, NextWritten
<1>17. /\ PreviousOf(k2, x) = (IF x = behind THEN a ELSE PreviousOf(k1, x))
       /\ NextOf(k2, x) = NextOf(k1, x)
  BY <1>4, <1>5, <1>15, PreviousWritten
<1>18. /\ NextOf(k3, x) = (IF x = a THEN behind ELSE NextOf(k2, x))
       /\ PreviousOf(k3, x) = PreviousOf(k2, x)
  BY <1>6, <1>7, <1>15, NextWritten
<1>19. /\ PreviousOf(k4, x) = (IF x = a THEN b ELSE PreviousOf(k3, x))
       /\ NextOf(k4, x) = NextOf(k3, x)
  BY <1>8, <1>9, <1>15, PreviousWritten
<1>20. /\ NextOf(k5, x) = (IF x = b THEN a ELSE NextOf(k4, x))
       /\ PreviousOf(k5, x) = PreviousOf(k4, x)
  BY <1>10, <1>11, <1>15, NextWritten
<1>21. /\ PreviousOf(k6, x) = (IF x = b THEN before ELSE PreviousOf(k5, x))
       /\ NextOf(k6, x) = NextOf(k5, x)
  BY <1>12, <1>13, <1>15, PreviousWritten
<1>22. a # b => NextOf(k6, x) = IF x = a THEN behind ELSE IF x = b THEN a
                                ELSE IF x = before THEN b ELSE NextOf(l, x)
  BY ONLY <1>16, <1>17, <1>18, <1>19, <1>20, <1>21
<1>23. a # b => PreviousOf(k6, x) = IF x = a THEN b ELSE IF x = b THEN before
                                    ELSE IF x = behind THEN a ELSE PreviousOf(l, x)
  BY ONLY <1>16, <1>17, <1>18, <1>19, <1>20, <1>21
<1>. QED BY <1>14, <1>22, <1>23

LEMMA AddLastLinks ==
  ASSUME NEW D, NEW l \in Lists(D), NEW a \in D, a \in Nat, a # NULL,
         NEW last, last = l.last, last = NULL \/ last \in D, last = NULL => l.head = NULL
  PROVE  \A x \in D \cup {NULL} :
           /\ NextOf(AddLast(l, a), x) =
                IF x = a THEN NULL ELSE IF x = last THEN a ELSE NextOf(l, x)
           /\ PreviousOf(AddLast(l, a), x) =
                IF x = a THEN last ELSE IF x = NULL THEN a ELSE PreviousOf(l, x)
<1>1. last \in Nat /\ NULL \in Nat BY DEF Lists, NULL
<1>2. PICK k1 : k1 = SetNext(l, last, a) OBVIOUS
<1>3. k1 \in Lists(D) BY <1>1, <1>2, SetNextData DEF SameList
<1>4. PICK k2 : k2 = SetPrevious(k1, NULL, a) OBVIOUS
<1>5. k2 \in Lists(D) BY <1>1, <1>3, <1>4, SetPreviousData DEF SameList
<1>6. PICK k3 : k3 = SetPrevious(k2, a, last) OBVIOUS
<1>7. k3 \in Lists(D) BY <1>1, <1>5, <1>6, SetPreviousData DEF SameList
<1>8. PICK k4 : k4 = SetNext(k3, a, NULL) OBVIOUS
<1>9. AddLast(l, a) = k4
  <2>1. l.last # NULL \/ l.head = NULL OBVIOUS
  <2>2. k2 = [k1 EXCEPT !.last = a] BY <1>4, Zenon DEF SetPrevious
  <2>. QED BY <1>2, <1>6, <1>8, <2>1, <2>2, Zenon DEF AddLast
<1>. TAKE x \in D \cup {NULL}
<1>10. x = NULL \/ x \in D OBVIOUS
<1>11. /\ NextOf(k1, x) = (IF x = last THEN a ELSE NextOf(l, x))
       /\ PreviousOf(k1, x) = PreviousOf(l, x)
  BY <1>2, <1>10, NextWritten
<1>12. /\ PreviousOf(k2, x) = (IF x = NULL THEN a ELSE PreviousOf(k1, x))
       /\ NextOf(k2, x) = NextOf(k1, x)
  BY <1>3, <1>4, <1>10, PreviousWritten
<1>13. /\ PreviousOf(k3, x) = (IF x = a THEN last ELSE PreviousOf(k2, x))
       /\ NextOf(k3, x) = NextOf(k2, x)
  BY <1>5, <1>6, <1>10, PreviousWritten
<1>14. /\ NextOf(k4, x) = (IF x = a THEN NULL ELSE NextOf(k3, x))
       /\ PreviousOf(k4, x) = PreviousOf(k3, x)
  BY <1>7, <1>8, <1>10, NextWritten
<1>. QED BY ONLY <1>9, <1>11, <1>12, <1>13, <1>14, x \in D \cup {NULL}

---------------------------------------------------------------------------
\* The blocks of a linked list follow each other from head to last.
LEMMA LinkedFacts ==
  ASSUME NEW l, NEW B, Linked(l, B), NULL \notin B
  PROVE  /\ \A x \in B \cup {NULL} :
              /\ NextOf(l, x) \in B \cup {NULL} /\ PreviousOf(l, x) \in B \cup {NULL}
              /\ PreviousOf(l, NextOf(l, x)) = x /\ NextOf(l, PreviousOf(l, x)) = x
         /\ \A x \in B : NextOf(l, x) # x
         /\ \A V \in SUBSET B : /\ PreviousOf(l, NULL) \in V \cup {NULL}
                                /\ \A x \in V : PreviousOf(l, x) \in V \cup {NULL}
                                => V = B
<1>1. PICK next, prev : /\ LinkedBy(l, B, next, prev)
                        /\ \E rank, m : Circle(next, prev, B \cup {NULL}, rank, m)
  BY Zenon DEF Linked
<1>2. PICK rank, m : Circle(next, prev, B \cup {NULL}, rank, m) BY <1>1
<1>3. PICK Z : Z = B \cup {NULL} OBVIOUS
<1>4. /\ next = [x \in Z |-> NextOf(l, x)] /\ prev = [x \in Z |-> PreviousOf(l, x)]
  BY <1>1, <1>3, Zenon DEF LinkedBy
<1>5. /\ next \in [Z -> Z] /\ prev \in [Z -> Z] /\ NULL \in Z
      /\ \A x \in Z : prev[next[x]] = x /\ next[prev[x]] = x
      /\ rank \in [Z -> Nat]
      /\ \A x \in Z \ {NULL} : next[x] # NULL => rank[x] < rank[next[x]]
  BY <1>2, <1>3, Zenon DEF Circle
<1>6. \A x \in Z : next[x] = NextOf(l, x) /\ prev[x] = PreviousOf(l, x) BY <1>4
<1>7. \A x \in Z : next[x] \in Z /\ prev[x] \in Z /\ rank[x] \in Nat BY <1>5
<1>8. \A x \in B : NextOf(l, x) # x
  <2>. TAKE x \in B
  <2>1. x \in Z /\ x # NULL BY <1>3
  <2>. QED BY <1>5, <1>6, <1>7, <2>1
<1>9. ASSUME NEW V \in SUBSET B, PreviousOf(l, NULL) \in V \cup {NULL},
             \A x \in V : PreviousOf(l, x) \in V \cup {NULL}
      PROVE  V = B
  <2>1. PICK W : W = V \cup {NULL} OBVIOUS
  <2>2. W \in SUBSET Z /\ NULL \in W /\ \A x \in W : prev[x] \in W BY <1>3, <1>6, <1>9, <2>1
  <2>3. Circle(next, prev, Z, rank, m) BY <1>2, <1>3
  <2>4. W = Z BY ONLY <2>2, <2>3, CircleWhole
  <2>. QED BY <1>3, <2>1, <2>4
<1>10. \A x \in Z : /\ NextOf(l, x) \in Z /\ PreviousOf(l, x) \in Z
                    /\ PreviousOf(l, NextOf(l, x)) = x /\ NextOf(l, PreviousOf(l, x)) = x
  BY ONLY <1>5, <1>6, <1>7, Zenon
<1>. QED BY <1>3, <1>8, <1>9, <1>10

\* Lists with the same links.
LEMMA LinkedAlike ==
  ASSUME NEW l, NEW k, NEW B, Linked(l, B),
         \A x \in B \cup {NULL} : NextOf(k, x) = NextOf(l, x) /\ PreviousOf(k, x) = PreviousOf(l, x)
  PROVE  Linked(k, B)
<1>1. PICK next, prev : /\ LinkedBy(l, B, next, prev)
                        /\ \E rank, m : Circle(next, prev, B \cup {NULL}, rank, m)
  BY Zenon DEF Linked
<1>2. LinkedBy(k, B, next, prev) BY <1>1 DEF LinkedBy
<1>. QED BY <1>1, <1>2, Zenon DEF Linked

LEMMA LinkedRemove ==
  ASSUME NEW D, NEW l \in Lists(D), NEW B, B \subseteq D, NULL \notin B, Linked(l, B), NEW c \in B
  PROVE  Linked(Remove(l, c), B \ {c})
<1>1. PICK next, prev : /\ LinkedBy(l, B, next, prev)
                        /\ \E rank, m : Circle(next, prev, B \cup {NULL}, rank, m)
  BY Zenon DEF Linked
<1>2. PICK rank, m : Circle(next, prev, B \cup {NULL}, rank, m) BY <1>1
<1>3. PICK Z : Z = B \cup {NULL} OBVIOUS
<1>4. PICK Y : Y = (B \ {c}) \cup {NULL} OBVIOUS
<1>5. Y = Z \ {c} /\ c \in Z \ {NULL} BY <1>3, <1>4
<1>6. \A x \in Z : /\ next[x] = NextOf(l, x) /\ prev[x] = PreviousOf(l, x)
                   /\ x = NULL \/ x \in D
                   /\ x \in D \cup {NULL}
  BY <1>1, <1>3 DEF LinkedBy
<1>7. next \in [Z -> Z] /\ prev \in [Z -> Z] BY <1>2, <1>3, Zenon DEF Circle
<1>8. PICK n : n = [x \in Z \ {c} |-> IF x = prev[c] THEN next[c] ELSE next[x]] OBVIOUS
<1>9. PICK p : p = [x \in Z \ {c} |-> IF x = next[c] THEN prev[c] ELSE prev[x]] OBVIOUS
<1>10. PICK r : r = [x \in Z \ {c} |-> rank[x]] OBVIOUS
<1>11. Circle(next, prev, Z, rank, m) BY <1>2, <1>3
<1>12. Circle(n, p, Z \ {c}, r, m) BY ONLY <1>5, <1>8, <1>9, <1>10, <1>11, CircleDrops
<1>13. \A x \in D \cup {NULL} :
         /\ NextOf(Remove(l, c), x) = IF x = prev[c] THEN next[c] ELSE NextOf(l, x)
         /\ PreviousOf(Remove(l, c), x) = IF x = next[c] THEN prev[c] ELSE PreviousOf(l, x)
  <2>1. /\ next[c] = NextOf(l, c) /\ (next[c] = NULL \/ next[c] \in D)
        /\ prev[c] = PreviousOf(l, c) /\ (prev[c] = NULL \/ prev[c] \in D)
        /\ c \in D /\ c # NULL
    BY <1>5, <1>6, <1>7
  <2>. QED BY <2>1, RemoveLinks
<1>14. LinkedBy(Remove(l, c), B \ {c}, n, p)
  <2>1. n = [x \in Y |-> NextOf(Remove(l, c), x)] BY <1>5, <1>6, <1>8, <1>13
  <2>2. p = [x \in Y |-> PreviousOf(Remove(l, c), x)] BY <1>5, <1>6, <1>9, <1>13
  <2>. QED BY <1>4, <2>1, <2>2, Zenon DEF LinkedBy
<1>15. Circle(n, p, (B \ {c}) \cup {NULL}, r, m) BY ONLY <1>4, <1>5, <1>12
<1>. QED BY <1>14, <1>15, Zenon DEF Linked

LEMMA LinkedSwap ==
  ASSUME NEW D, NEW l \in Lists(D), NEW B, B \subseteq D \cap Nat, NULL \notin B, Linked(l, B),
         NEW a \in B, NEW b \in B, b = NextOf(l, a)
  PROVE  Linked(Swap(l, a, b), B)
<1>1. PICK next, prev : /\ LinkedBy(l, B, next, prev)
                        /\ \E rank, m : Circle(next, prev, B \cup {NULL}, rank, m)
  BY Zenon DEF Linked
<1>2. PICK rank, m : Circle(next, prev, B \cup {NULL}, rank, m) BY <1>1
<1>3. PICK Z : Z = B \cup {NULL} OBVIOUS
<1>4. a \in Z \ {NULL} /\ b \in Z \ {NULL} /\ a # b BY <1>3, LinkedFacts
<1>5. \A x \in Z : /\ next[x] = NextOf(l, x) /\ prev[x] = PreviousOf(l, x)
                   /\ x = NULL \/ x \in D
                   /\ x \in D \cup {NULL}
  BY <1>1, <1>3 DEF LinkedBy
<1>6. next \in [Z -> Z] /\ prev \in [Z -> Z] BY <1>2, <1>3, Zenon DEF Circle
<1>7. PICK n : n = [x \in Z |-> IF x = a THEN next[b] ELSE IF x = b THEN a
                                ELSE IF x = prev[a] THEN b ELSE next[x]]
  OBVIOUS
<1>8. PICK p : p = [x \in Z |-> IF x = a THEN b ELSE IF x = b THEN prev[a]
                                ELSE IF x = next[b] THEN a ELSE prev[x]]
  OBVIOUS
<1>9. PICK r : r = [x \in Z |-> IF x = a THEN rank[b] ELSE IF x = b THEN rank[a] ELSE rank[x]]
  OBVIOUS
<1>10. Circle(next, prev, Z, rank, m) /\ b = next[a] BY <1>2, <1>3, <1>4, <1>5
<1>11. Circle(n, p, Z, r, m) BY ONLY <1>4, <1>7, <1>8, <1>9, <1>10, CircleSwaps
<1>12. \A x \in D \cup {NULL} :
         /\ NextOf(Swap(l, a, b), x) =
              IF x = a THEN next[b] ELSE IF x = b THEN a
              ELSE IF x = prev[a] THEN b ELSE NextOf(l, x)
         /\ PreviousOf(Swap(l, a, b), x) =
              IF x = a THEN b ELSE IF x = b THEN prev[a]
              ELSE IF x = next[b] THEN a ELSE PreviousOf(l, x)
  <2>1. /\ next[b] = NextOf(l, b) /\ (next[b] = NULL \/ next[b] \in D)
        /\ prev[a] = PreviousOf(l, a) /\ (prev[a] = NULL \/ prev[a] \in D)
        /\ a \in D /\ b \in D /\ a \in Nat /\ b \in Nat /\ a # NULL /\ b # NULL
    BY <1>4, <1>5, <1>6
  <2>. QED BY <1>4, <2>1, SwapLinks
<1>13. LinkedBy(Swap(l, a, b), B, n, p)
  <2>1. n = [x \in Z |-> NextOf(Swap(l, a, b), x)] BY <1>5, <1>7, <1>12
  <2>2. p = [x \in Z |-> PreviousOf(Swap(l, a, b), x)] BY <1>5, <1>8, <1>12
  <2>. QED BY <1>3, <2>1, <2>2, Zenon DEF LinkedBy
<1>. QED BY <1>3, <1>11, <1>13, Zenon DEF Linked

\* A list whose links are l's, with b behind them all.
LEMMA LinkedBehind ==
  ASSUME NEW l, NEW k, NEW B, NULL \notin B, Linked(l, B), NEW b, b \notin B, b # NULL,
         \A x \in B \cup {b, NULL} :
           /\ NextOf(k, x) = IF x = b THEN NULL ELSE IF x = l.last THEN b ELSE NextOf(l, x)
           /\ PreviousOf(k, x) = IF x = b THEN l.last ELSE IF x = NULL THEN b ELSE PreviousOf(l, x)
  PROVE  Linked(k, B \cup {b})
<1>1. PICK next, prev : /\ LinkedBy(l, B, next, prev)
                        /\ \E rank, m : Circle(next, prev, B \cup {NULL}, rank, m)
  BY Zenon DEF Linked
<1>2. PICK rank, m : Circle(next, prev, B \cup {NULL}, rank, m) BY <1>1
<1>3. PICK Z : Z = B \cup {NULL} OBVIOUS
<1>4. PICK Y : Y = Z \cup {b} OBVIOUS
<1>5. b \notin Z /\ Y = (B \cup {b}) \cup {NULL} /\ Y = B \cup {b, NULL} BY <1>3, <1>4
<1>6. \A x \in Z : next[x] = NextOf(l, x) /\ prev[x] = PreviousOf(l, x)
  BY <1>1, <1>3 DEF LinkedBy
<1>7. prev[NULL] = l.last BY <1>3, <1>6 DEF PreviousOf
<1>8. PICK n : n = [x \in Y |-> IF x = b THEN NULL ELSE IF x = prev[NULL] THEN b ELSE next[x]]
  OBVIOUS
<1>9. PICK p : p = [x \in Y |-> IF x = b THEN prev[NULL] ELSE IF x = NULL THEN b ELSE prev[x]]
  OBVIOUS
<1>10. PICK r : r = [x \in Y |-> IF x = b THEN m ELSE rank[x]] OBVIOUS
<1>11. Circle(next, prev, Z, rank, m) BY <1>2, <1>3
<1>12. Circle(n, p, Y, r, m + 1)
  BY ONLY <1>4, <1>5, <1>8, <1>9, <1>10, <1>11, CircleAdds
<1>13. LinkedBy(k, B \cup {b}, n, p)
  <2>1. n = [x \in Y |-> NextOf(k, x)] BY <1>4, <1>5, <1>6, <1>7, <1>8
  <2>2. p = [x \in Y |-> PreviousOf(k, x)] BY <1>4, <1>5, <1>6, <1>7, <1>9
  <2>. QED BY <1>5, <2>1, <2>2, Zenon DEF LinkedBy
<1>14. Circle(n, p, (B \cup {b}) \cup {NULL}, r, m + 1) BY ONLY <1>5, <1>12
<1>. QED BY <1>13, <1>14, Zenon DEF Linked

LEMMA LinkedAddLast ==
  ASSUME NEW D, NEW l \in Lists(D), NEW B, B \subseteq D, NULL \notin B, Linked(l, B),
         NEW a \in D \cap Nat, a \notin B, a # NULL
  PROVE  Linked(AddLast(l, a), B \cup {a})
<1>1. /\ l.last = PreviousOf(l, NULL) /\ l.head = NextOf(l, NULL)
      /\ l.last \in B \cup {NULL}
      /\ l.last = NULL => l.head = NULL
  BY LinkedFacts DEF PreviousOf, NextOf
<1>2. \A x \in D \cup {NULL} :
        /\ NextOf(AddLast(l, a), x) =
             IF x = a THEN NULL ELSE IF x = l.last THEN a ELSE NextOf(l, x)
        /\ PreviousOf(AddLast(l, a), x) =
             IF x = a THEN l.last ELSE IF x = NULL THEN a ELSE PreviousOf(l, x)
  <2>1. l.last = NULL \/ l.last \in D BY <1>1
  <2>. QED BY <1>1, <2>1, AddLastLinks
<1>3. B \cup {a, NULL} \subseteq D \cup {NULL} OBVIOUS
<1>. QED BY <1>2, <1>3, LinkedBehind

---------------------------------------------------------------------------
(***************************************************************************)
(* The invariant of the list.  A sort may find the list out of order; what *)
(* its scan has passed is in order, so that a sort that ends has put the   *)
(* list in order.                                                          *)
(***************************************************************************)
\* No entry of V is larger than the one behind it.
Ascending(V) ==
  \A x \in V : NextOf(List, x) # NULL => hdr[x].size <= hdr[NextOf(List, x)].size
\* V is what the sort's scan has behind it.
Passed(V) ==
  /\ PreviousOf(List, cursor) \in V \cup {NULL}
  /\ \A x \in V : PreviousOf(List, x) \in V \cup {NULL}

\* Without a split, the list links the blocks at every step of a call, and
\* only a sort that runs may find it out of order.
ListInv ==
  ~cut =>
    /\ ~In("wild") /\ cursor \in Blocks \cup {NULL} /\ Linked(List, Blocks)
    /\ ~In("sort") => Ascending(Blocks)
    /\ In("sort") => \E V \in SUBSET Blocks : Ascending(V) /\ Passed(V)

LEMMA BlocksKnown ==
  ASSUME MemoryInv
  PROVE  /\ NULL \notin Blocks /\ Blocks \subseteq DOMAIN hdr \cap Nat
         /\ mallocable_address \in Nat /\ mallocable_address > NULL
         /\ \A x \in Blocks : hdr[x] \in Header /\ hdr[x].size \in Nat
<1>1. /\ \A b \in Blocks : START <= b /\ b \in Nat
      /\ mallocable_address \in Nat /\ START <= mallocable_address
  BY BlocksLaidOut DEF MemoryInv, A!HeapInv, A!Disjoint
<1>2. START \in Nat /\ START > 0 BY KernelHeapConstants
<1>3. NULL \notin Blocks /\ mallocable_address > NULL BY <1>1, <1>2 DEF NULL
<1>4. \A x \in Blocks : x \in DOMAIN hdr BY BlocksLaidOut
<1>. QED BY <1>1, <1>3, <1>4, HeadersLaidOut

\* No pointer of the list leads out of it.
LEMMA ListKnown ==
  ASSUME MemoryInv, Linked(List, Blocks)
  PROVE  /\ \A x \in Blocks \cup {NULL} :
              /\ NextOf(List, x) \in Blocks \cup {NULL}
              /\ PreviousOf(List, x) \in Blocks \cup {NULL}
              /\ PreviousOf(List, NextOf(List, x)) = x
         /\ \A x \in Blocks : hdr[x].next = NextOf(List, x) /\ hdr[x].previous = PreviousOf(List, x)
         /\ HEAP_LINKED_LIST_HEAD = NextOf(List, NULL)
         /\ HEAP_LINKED_LIST_LAST = PreviousOf(List, NULL)
         /\ \A X \in SUBSET (Blocks \cup {NULL}) : Known(List, X)
<1>1. NULL \notin Blocks /\ Blocks \subseteq DOMAIN hdr BY BlocksKnown
<1>2. \A x \in Blocks \cup {NULL} :
        /\ NextOf(List, x) \in Blocks \cup {NULL}
        /\ PreviousOf(List, x) \in Blocks \cup {NULL}
        /\ PreviousOf(List, NextOf(List, x)) = x
  BY ONLY <1>1, Linked(List, Blocks), LinkedFacts
<1>3. /\ List.hdr = hdr /\ List.head = HEAP_LINKED_LIST_HEAD
      /\ List.last = HEAP_LINKED_LIST_LAST
  BY DEF List
<1>4. \A x \in Blocks : hdr[x].next = NextOf(List, x) /\ hdr[x].previous = PreviousOf(List, x)
  BY <1>1, <1>3 DEF NextOf, PreviousOf
<1>5. HEAP_LINKED_LIST_HEAD = NextOf(List, NULL) /\ HEAP_LINKED_LIST_LAST = PreviousOf(List, NULL)
  BY <1>3 DEF NextOf, PreviousOf
<1>6. \A X \in SUBSET (Blocks \cup {NULL}) : Known(List, X) BY <1>1, <1>3 DEF Known
<1>. QED BY <1>2, <1>4, <1>5, <1>6

\* Neither the blocks nor their links and sizes change.
LinksKept ==
  /\ Blocks' = Blocks
  /\ HEAP_LINKED_LIST_HEAD' = HEAP_LINKED_LIST_HEAD
  /\ HEAP_LINKED_LIST_LAST' = HEAP_LINKED_LIST_LAST
  /\ \A x \in Blocks : /\ hdr'[x].next = hdr[x].next /\ hdr'[x].previous = hdr[x].previous
                       /\ hdr'[x].size = hdr[x].size

\* A step that keeps the links keeps the list.
LEMMA KeptLinks ==
  ASSUME MemoryInv, Linked(List, Blocks), LinksKept
  PROVE  /\ Linked(List, Blocks)'
         /\ \A x \in Blocks \cup {NULL} : /\ NextOf(List, x)' = NextOf(List, x)
                                          /\ PreviousOf(List, x)' = PreviousOf(List, x)
         /\ \A V \in SUBSET Blocks : Ascending(V) => Ascending(V)'
<1>1. NULL \notin Blocks BY BlocksKnown
<1>2. ASSUME NEW x \in Blocks \cup {NULL}
      PROVE  NextOf(List, x)' = NextOf(List, x) /\ PreviousOf(List, x)' = PreviousOf(List, x)
  BY <1>1 DEF LinksKept, NextOf, PreviousOf, List
<1>3. PICK k : k = List' OBVIOUS
<1>4. PICK B : B = Blocks OBVIOUS
<1>5. \A x \in B \cup {NULL} : NextOf(k, x) = NextOf(List, x) /\ PreviousOf(k, x) = PreviousOf(List, x)
  BY <1>2, <1>3, <1>4
<1>6. Linked(k, B) BY <1>4, <1>5, LinkedAlike
<1>7. Linked(List, Blocks)' BY <1>3, <1>4, <1>6 DEF LinksKept
<1>8. ASSUME NEW V \in SUBSET Blocks, Ascending(V) PROVE Ascending(V)'
  <2>. SUFFICES ASSUME NEW x \in V, NextOf(List, x)' # NULL
                PROVE  hdr'[x].size <= hdr'[NextOf(List, x)'].size
    BY DEF Ascending
  <2>1. NextOf(List, x)' = NextOf(List, x) BY <1>2
  <2>2. NextOf(List, x) \in Blocks BY <2>1, ListKnown
  <2>3. hdr[x].size <= hdr[NextOf(List, x)].size BY <1>8, <2>1 DEF Ascending
  <2>. QED BY <2>1, <2>2, <2>3 DEF LinksKept
<1>. QED BY <1>2, <1>7, <1>8

\* A sort starts at the head, with nothing passed.
LEMMA SortStarts ==
  ASSUME Linked(List, Blocks)', NULL \notin Blocks', cursor' = HEAP_LINKED_LIST_HEAD',
         In("sort")'
  PROVE  ListInv'
<1>1. PICK k, B : k = List' /\ B = Blocks' OBVIOUS
<1>2. Linked(k, B) /\ NULL \notin B BY <1>1
<1>3. cursor' = NextOf(k, NULL) BY <1>1 DEF NextOf, List
<1>4. cursor' \in B \cup {NULL} /\ PreviousOf(k, cursor') = NULL
  BY <1>2, <1>3, LinkedFacts
<1>5. Ascending({})' /\ Passed({})' BY <1>1, <1>4 DEF Ascending, Passed
<1>6. ~In("wild")' BY DEF In
<1>7. \E V \in SUBSET Blocks' : Ascending(V)' /\ Passed(V)' BY <1>5
<1>8. cursor' \in Blocks' \cup {NULL} BY <1>1, <1>4
<1>. QED BY <1>6, <1>7, <1>8, Zenon DEF ListInv

\* Every other loop needs the list in order and its cursor on it.
LEMMA ScanGoesOn ==
  ASSUME MemoryInv, Linked(List, Blocks), Ascending(Blocks), LinksKept,
         cursor' \in Blocks \cup {NULL}, ~In("wild")', ~In("sort")'
  PROVE  ListInv'
<1>1. Linked(List, Blocks)' /\ Ascending(Blocks)'
  <2>1. Linked(List, Blocks)' /\ \A V \in SUBSET Blocks : Ascending(V) => Ascending(V)'
    BY KeptLinks
  <2>2. PICK B : B = Blocks OBVIOUS
  <2>3. Ascending(B)' BY <2>1, <2>2
  <2>4. B = Blocks' BY <2>2 DEF LinksKept
  <2>. QED BY <2>1, <2>3, <2>4 DEF Ascending
<1>2. cursor' \in Blocks' \cup {NULL} BY DEF LinksKept
<1>. QED BY <1>1, <1>2, Zenon DEF ListInv

LEMMA MemoryKeepsLinks ==
  ASSUME UNCHANGED memory
  PROVE  LinksKept /\ cut' = cut
BY DEF memory, LinksKept, Blocks

LEMMA RequestLinks ==
  ASSUME HeapInv, ListInv, Request
  PROVE  ListInv'
<1>1. PICK loops, value : /\ Call(loops, value)
                          /\ loops \in {<<"find">>, <<"aligned">>, <<"merge", "search">>,
                                        <<"merge">>, <<"sort">>}
  BY DEF Request, kernel_heap_malloc, kernel_heap_malloc_page_aligned, kernel_heap_free,
         test_heap_merge, test_heap_sort
<1>2. /\ stack = <<>> /\ stack' = loops /\ cursor' = HEAP_LINKED_LIST_HEAD
      /\ UNCHANGED memory
  BY <1>1, Zenon DEF Call
<1>3. LinksKept /\ cut' = cut BY <1>2, MemoryKeepsLinks
<1>. SUFFICES ASSUME ~cut PROVE ListInv' BY <1>3 DEF ListInv
<1>4. MemoryInv BY DEF HeapInv
<1>5. Linked(List, Blocks) /\ Ascending(Blocks) BY <1>2 DEF ListInv, In
<1>6. NULL \notin Blocks BY <1>4, BlocksKnown
<1>7. cursor' \in Blocks \cup {NULL} BY <1>2, <1>4, <1>5, ListKnown
<1>8. CASE loops = <<"sort">>
  <2>1. In("sort")' BY <1>2, <1>8 DEF In
  <2>2. Linked(List, Blocks)' BY <1>3, <1>4, <1>5, KeptLinks
  <2>3. NULL \notin Blocks' /\ cursor' = HEAP_LINKED_LIST_HEAD'
    BY <1>2, <1>3, <1>6 DEF LinksKept
  <2>. QED BY <2>1, <2>2, <2>3, SortStarts
<1>9. CASE loops # <<"sort">>
  <2>1. ~In("sort")' /\ ~In("wild")' BY <1>1, <1>2, <1>9 DEF In
  <2>. QED BY <1>3, <1>4, <1>5, <1>7, <2>1, ScanGoesOn
<1>. QED BY <1>8, <1>9

\* insert_heap_entry links the new block behind the last.
LEMMA InsertKnown ==
  ASSUME NEW b, NEW n, NEW loops, NEW fill, insert_heap_entry(b, n, loops, fill),
         Known(List, {HEAP_LINKED_LIST_LAST})
  PROVE
    LET linked == IF List.head = NULL THEN [List EXCEPT !.head = b]
                  ELSE SetNext(List, HEAP_LINKED_LIST_LAST, b)
        p == IF List.head = NULL THEN NULL ELSE HEAP_LINKED_LIST_LAST
        entry == Entry(n, USED, NULL, p, b + HDR)
        lostHdr == Overwritten(DOMAIN hdr \ {b}, b, b + Extent(n), HDR)
    IN  /\ Install([linked EXCEPT
              !.hdr = [x \in (DOMAIN linked.hdr \cup {b}) \ lostHdr |->
                         IF x = b THEN entry ELSE linked.hdr[x]],
              !.last = b])
        /\ ftr' = InsertFooter(b, b + Extent(n))
        /\ Continue(<<"sort">> \o loops, linked.head)
        /\ cut' = cut
BY Zenon DEF insert_heap_entry

\* A block in fresh memory overwrites nothing and goes behind the last.
LEMMA InsertLinks ==
  ASSUME MemoryInv, NEW b \in Nat, NEW n \in Nat, mallocable_address <= b,
         Linked(List, Blocks), NEW loops, NEW fill, insert_heap_entry(b, n, loops, fill)
  PROVE  /\ Linked(List, Blocks)' /\ NULL \notin Blocks' /\ cut' = cut
         /\ Continue(<<"sort">> \o loops, HEAP_LINKED_LIST_HEAD')
<1>. USE Constants
<1>1. PICK D : D = DOMAIN hdr OBVIOUS
<1>2. PICK l : l = List OBVIOUS
<1>3. /\ l \in Lists(D) /\ l.hdr = hdr /\ l.head = HEAP_LINKED_LIST_HEAD
      /\ l.last = HEAP_LINKED_LIST_LAST
  BY <1>1, <1>2, ListTyped
<1>4. PICK B : B = Blocks OBVIOUS
<1>5. NULL \notin B /\ B \subseteq D /\ b # NULL /\ b \notin D
  <2>1. /\ NULL \notin Blocks /\ Blocks \subseteq DOMAIN hdr \cap Nat
        /\ mallocable_address \in Nat /\ mallocable_address > 0
    BY BlocksKnown DEF NULL
  <2>2. b \notin DOMAIN hdr BY FreshMemory
  <2>3. b # NULL BY ONLY <2>1, mallocable_address <= b, b \in Nat DEF NULL
  <2>. QED BY <1>1, <1>4, <2>1, <2>2, <2>3
<1>6. Linked(l, B) BY <1>2, <1>4
<1>7. /\ l.last = PreviousOf(l, NULL) /\ l.head = NextOf(l, NULL)
      /\ l.last \in B \cup {NULL} /\ (l.head = NULL <=> l.last = NULL)
  BY <1>5, <1>6, LinkedFacts DEF PreviousOf, NextOf
<1>8. PICK k : k = SetNext(l, l.last, b) OBVIOUS
<1>9. PICK e : e = Entry(n, USED, NULL, l.last, b + HDR) OBVIOUS
<1>10. PICK end : end = b + Extent(n) OBVIOUS
<1>11. Overwritten(DOMAIN hdr \ {b}, b, end, HDR) = {} /\ Overwritten(DOMAIN ftr, b, end, FTR) = {}
  BY <1>10, FreshMemory
<1>12. /\ Install([k EXCEPT !.hdr = [x \in (DOMAIN k.hdr \cup {b}) \ {} |->
                                       IF x = b THEN e ELSE k.hdr[x]],
                            !.last = b])
       /\ ftr' = InsertFooter(b, end)
       /\ Continue(<<"sort">> \o loops, k.head)
       /\ cut' = cut
  <2>1. Known(List, {HEAP_LINKED_LIST_LAST})
    BY <1>2, <1>3, <1>4, <1>7, ListKnown
  <2>2. (IF l.head = NULL THEN [l EXCEPT !.head = b] ELSE SetNext(l, l.last, b)) = k
    BY <1>7, <1>8 DEF SetNext
  <2>3. (IF l.head = NULL THEN NULL ELSE l.last) = l.last BY <1>7
  <2>4. LET linked == IF List.head = NULL THEN [List EXCEPT !.head = b]
                      ELSE SetNext(List, HEAP_LINKED_LIST_LAST, b)
            p == IF List.head = NULL THEN NULL ELSE HEAP_LINKED_LIST_LAST
            entry == Entry(n, USED, NULL, p, b + HDR)
            lostHdr == Overwritten(DOMAIN hdr \ {b}, b, b + Extent(n), HDR)
        IN  /\ Install([linked EXCEPT
                  !.hdr = [x \in (DOMAIN linked.hdr \cup {b}) \ lostHdr |->
                             IF x = b THEN entry ELSE linked.hdr[x]],
                  !.last = b])
            /\ ftr' = InsertFooter(b, b + Extent(n))
            /\ Continue(<<"sort">> \o loops, linked.head)
            /\ cut' = cut
    BY <2>1, InsertKnown, Zenon
  <2>. QED BY <1>2, <1>3, <1>9, <1>10, <1>11, <2>2, <2>3, <2>4, Zenon
<1>13. k \in Lists(D)
  <2>1. l.last \in Nat BY <1>3 DEF Lists
  <2>. QED BY <1>3, <1>8, SetNextData DEF SameList
<1>14. /\ hdr' = [x \in D \cup {b} |-> IF x = b THEN e ELSE k.hdr[x]]
       /\ HEAP_LINKED_LIST_HEAD' = k.head /\ HEAP_LINKED_LIST_LAST' = b
  BY <1>12, <1>13 DEF Install, Lists
<1>15. e.next = NULL /\ e.previous = l.last BY <1>9 DEF Entry
<1>16. PICK j : j = List' OBVIOUS
<1>17. j.hdr = hdr' /\ j.head = k.head /\ j.last = b BY <1>14, <1>16 DEF List
<1>18. \A x \in B \cup {b, NULL} :
         /\ NextOf(j, x) = IF x = b THEN NULL ELSE IF x = l.last THEN b ELSE NextOf(l, x)
         /\ PreviousOf(j, x) = IF x = b THEN l.last ELSE IF x = NULL THEN b ELSE PreviousOf(l, x)
  <2>. TAKE x \in B \cup {b, NULL}
  <2>1. CASE x = b BY <1>5, <1>14, <1>15, <1>17, <2>1 DEF NextOf, PreviousOf
  <2>2. CASE x # b
    <3>1. x = NULL \/ x \in D BY <1>5, <2>2
    <3>2. l.last = NULL \/ l.last \in D BY <1>5, <1>7
    <3>3. /\ NextOf(k, x) = (IF x = l.last THEN b ELSE NextOf(l, x))
          /\ PreviousOf(k, x) = PreviousOf(l, x)
      BY <1>3, <1>8, <3>1, <3>2, NextWritten
    <3>4. NextOf(j, x) = NextOf(k, x) BY <1>14, <1>17, <2>2, <3>1 DEF NextOf
    <3>5. PreviousOf(j, x) = IF x = NULL THEN b ELSE PreviousOf(k, x)
      BY <1>14, <1>17, <2>2, <3>1 DEF PreviousOf
    <3>. QED BY ONLY <2>2, <3>3, <3>4, <3>5
  <2>. QED BY <2>1, <2>2
<1>19. Linked(j, B \cup {b}) BY <1>5, <1>6, <1>18, LinkedBehind
<1>20. Blocks' = B \cup {b}
  <2>1. ftr' = [f \in DOMAIN ftr \cup {end - FTR} |-> IF f = end - FTR THEN b ELSE ftr[f]]
    BY <1>11, <1>12 DEF InsertFooter
  <2>2. end - FTR \notin DOMAIN ftr
    <3>1. \A f \in DOMAIN ftr : f \in Nat /\ f + FTR <= mallocable_address
      BY FootersLaidOut, BlocksLaidOut
    <3>2. mallocable_address \in Nat BY BlocksLaidOut
    <3>. QED BY <1>10, <3>1, <3>2 DEF Extent
  <2>. QED BY <1>4, <2>1, <2>2 DEF Blocks, Range
<1>. QED BY <1>5, <1>12, <1>14, <1>16, <1>19, <1>20

\* A remainder that a split has left is never forgotten.
LEMMA CutStays ==
  ASSUME [Next]_vars
  PROVE  cut' = cut \/ cut' = TRUE
<1>1. GoWild => cut' = cut BY DEF GoWild, memory
<1>2. UNCHANGED memory => cut' = cut BY DEF memory
<1>3. \A b, n, loops, fill : insert_heap_entry(b, n, loops, fill) => cut' = cut
  BY <1>1, Zenon DEF insert_heap_entry
<1>4. Request => cut' = cut
  BY <1>2, Zenon DEF Request, kernel_heap_malloc, kernel_heap_malloc_page_aligned,
       kernel_heap_free, test_heap_merge, test_heap_sort, Call
<1>5. find_empty_heap_entry => cut' = cut \/ cut' = TRUE
  <2>1. \A c, n : SplitEntry(c, n) => cut' = TRUE BY Zenon DEF SplitEntry
  <2>2. \A c, n : TakeEntry(c, n) => cut' = cut BY Zenon DEF TakeEntry
  <2>. QED BY <1>1, <1>2, <1>3, <2>1, <2>2, Zenon DEF find_empty_heap_entry
<1>6. insert_heap_entry_page_aligned \/ InsertAlignedBlock => cut' = cut
  BY <1>3, Zenon DEF insert_heap_entry_page_aligned, InsertAlignedBlock
<1>7. FreeFiller => cut' = cut BY Zenon DEF FreeFiller
<1>8. sort_heap_entry_linked_list => cut' = cut BY Zenon DEF sort_heap_entry_linked_list
<1>9. merge_heap_entries_in_entire_linked_list => cut' = cut
  <2>1. \A a, c : merge_two_heap_entries_linked_list(a, c) => cut' = cut
    BY <1>1, ZenonT(40) DEF merge_two_heap_entries_linked_list
  <2>. QED BY <1>1, <1>2, <2>1, Zenon DEF merge_heap_entries_in_entire_linked_list
<1>10. FreeSearch => cut' = cut BY <1>1, <1>2, Zenon DEF FreeSearch
<1>11. UNCHANGED vars => cut' = cut BY DEF vars
<1>. QED BY <1>4, <1>5, <1>6, <1>7, <1>8, <1>9, <1>10, <1>11, Zenon DEF Next, Work, Wild

\* What a call outside of a sort starts from.
LEMMA ListFound ==
  ASSUME HeapInv, ListInv, ~cut
  PROVE  /\ MemoryInv /\ ~In("wild") /\ cursor \in Blocks \cup {NULL} /\ Linked(List, Blocks)
         /\ ~In("sort") => Ascending(Blocks)
         /\ cursor # NULL => cursor \in Blocks
         /\ NULL \notin Blocks /\ Known(List, {cursor})
<1>1. /\ MemoryInv /\ ~In("wild") /\ cursor \in Blocks \cup {NULL} /\ Linked(List, Blocks)
      /\ ~In("sort") => Ascending(Blocks)
  BY DEF HeapInv, ListInv
<1>2. {cursor} \in SUBSET (Blocks \cup {NULL}) BY <1>1
<1>3. Known(List, {cursor}) BY <1>1, <1>2, ListKnown
<1>. QED BY <1>1, <1>3, BlocksKnown

\* Handing out a whole entry and giving one back change no link.
LEMMA TakeLinks ==
  ASSUME MemoryInv, NEW c \in Blocks, NEW n \in Nat, n <= hdr[c].size, TakeEntry(c, n)
  PROVE  LinksKept
<1>. USE Constants
<1>1. PICK h : h = [hdr EXCEPT ![c].used = USED] OBVIOUS
<1>2. PICK gone : gone = Overwritten(DOMAIN h, c + HDR, c + HDR + n, HDR) OBVIOUS
<1>3. /\ hdr' = [a \in DOMAIN h \ gone |-> h[a]]
      /\ UNCHANGED <<ftr, HEAP_LINKED_LIST_HEAD, HEAP_LINKED_LIST_LAST>>
  BY <1>1, <1>2, Zenon DEF TakeEntry, GiveAway
<1>4. Blocks \subseteq DOMAIN hdr /\ \A x \in Blocks : hdr[x] \in Header BY BlocksKnown
<1>5. DOMAIN h = DOMAIN hdr BY <1>1
<1>6. \A x \in Blocks : h[x].next = hdr[x].next /\ h[x].previous = hdr[x].previous
                        /\ h[x].size = hdr[x].size
  <2>. TAKE x \in Blocks
  <2>1. PICK e : e = [hdr[c] EXCEPT !.used = USED] OBVIOUS
  <2>2. h = [hdr EXCEPT ![c] = e] BY <1>1, <2>1
  <2>3. hdr[c] \in Header BY <1>4
  <2>4. e.next = hdr[c].next /\ e.previous = hdr[c].previous /\ e.size = hdr[c].size
    BY <2>1, <2>3 DEF Header
  <2>. QED BY <1>4, <2>2, <2>4
<1>7. gone \cap Blocks = {}
  <2>1. ASSUME NEW x \in Blocks PROVE ~(x < c + HDR + n /\ c + HDR < x + HDR)
    <3>1. /\ x \in Nat /\ c \in Nat /\ Footer(c) = c + HDR + hdr[c].size /\ hdr[c].size \in Nat
          /\ (c < x => Footer(c) + FTR <= x)
      BY BlocksLaidOut
    <3>. QED BY <3>1
  <2>. QED BY <2>1, <1>2 DEF Overwritten, Overlaps
<1>8. \A x \in Blocks : hdr'[x] = h[x] BY <1>3, <1>4, <1>5, <1>7
<1>9. Blocks' = Blocks BY <1>3 DEF Blocks
<1>. QED BY <1>3, <1>6, <1>8, <1>9 DEF LinksKept

LEMMA FreeLinks ==
  ASSUME MemoryInv, NEW c \in Blocks, hdr' = [hdr EXCEPT ![c].used = FREE],
         UNCHANGED <<ftr, HEAP_LINKED_LIST_HEAD, HEAP_LINKED_LIST_LAST>>
  PROVE  LinksKept
<1>1. Blocks \subseteq DOMAIN hdr /\ \A x \in Blocks : hdr[x] \in Header BY BlocksKnown
<1>2. PICK e : e = [hdr[c] EXCEPT !.used = FREE] OBVIOUS
<1>3. hdr' = [hdr EXCEPT ![c] = e] BY <1>2
<1>4. hdr[c] \in Header BY <1>1
<1>5. e.next = hdr[c].next /\ e.previous = hdr[c].previous /\ e.size = hdr[c].size
  BY <1>2, <1>4 DEF Header
<1>6. \A x \in Blocks : hdr'[x].next = hdr[x].next /\ hdr'[x].previous = hdr[x].previous
                        /\ hdr'[x].size = hdr[x].size
  BY <1>1, <1>3, <1>5
<1>7. Blocks' = Blocks BY DEF Blocks
<1>. QED BY <1>6, <1>7 DEF LinksKept

---------------------------------------------------------------------------
(***************************************************************************)
(* The steps of a call.  Each begins from a list that links the blocks,    *)
(* and starts a sort, goes on scanning, or returns.                        *)
(***************************************************************************)
Inserts(b, n, loops, fill, s) ==
  /\ b \in Nat /\ n \in Nat /\ mallocable_address <= b
  /\ insert_heap_entry(b, n, loops, fill)
  /\ <<"sort">> \o loops \o Tail(stack) = s /\ s # <<>> /\ Head(s) = "sort"

\* insert_heap_entry, wherever it is called from, ends in a sort.
LEMMA InsertKeepsList ==
  ASSUME HeapInv, ListInv, ~cut, NEW b, NEW n, NEW loops, NEW fill, NEW s,
         Inserts(b, n, loops, fill, s)
  PROVE  ListInv'
<1>. /\ b \in Nat /\ n \in Nat /\ mallocable_address <= b
     /\ insert_heap_entry(b, n, loops, fill)
     /\ <<"sort">> \o loops \o Tail(stack) = s /\ s # <<>> /\ Head(s) = "sort"
  BY Zenon DEF Inserts
<1>1. MemoryInv /\ Linked(List, Blocks) BY ListFound
<1>2. /\ Linked(List, Blocks)' /\ NULL \notin Blocks'
      /\ Continue(<<"sort">> \o loops, HEAP_LINKED_LIST_HEAD')
  BY <1>1, InsertLinks
<1>3. stack' = s /\ cursor' = HEAP_LINKED_LIST_HEAD' BY <1>2 DEF Continue
<1>4. In("sort")' BY <1>3 DEF In
<1>. QED BY <1>2, <1>3, <1>4, SortStarts

LEMMA FindLinks ==
  ASSUME HeapInv, ListInv, ~cut, ~cut', find_empty_heap_entry
  PROVE  ListInv'
<1>1. /\ stack = <<"find">> /\ arg \in SIZES /\ arg \in Nat
  BY LoopStacks, KernelHeapConstants DEF HeapInv, find_empty_heap_entry
<1>2. ~In("sort") BY <1>1 DEF In
<1>3. /\ MemoryInv /\ Linked(List, Blocks) /\ Ascending(Blocks) /\ Known(List, {cursor})
      /\ cursor # NULL => cursor \in Blocks
  BY <1>2, ListFound
<1>4. CASE cursor = NULL
  <2>1. insert_heap_entry(mallocable_address, arg, <<>>, NULL)
    BY <1>4, Zenon DEF find_empty_heap_entry
  <2>2. mallocable_address \in Nat BY <1>3, BlocksKnown
  <2>3. <<"sort">> \o <<>> \o Tail(stack) = <<"sort">> BY <1>1
  <2>4. <<"sort">> # <<>> /\ Head(<<"sort">>) = "sort" OBVIOUS
  <2>5. mallocable_address <= mallocable_address BY <2>2
  <2>6. Inserts(mallocable_address, arg, <<>>, NULL, <<"sort">>)
    BY <1>1, <2>1, <2>2, <2>3, <2>4, <2>5, Zenon DEF Inserts
  <2>. QED BY ONLY HeapInv, ListInv, ~cut, <2>6, InsertKeepsList
<1>5. CASE cursor # NULL
  <2>1. cursor \in Blocks BY <1>3, <1>5
  <2>2. \/ SplitEntry(cursor, arg)
        \/ arg <= hdr[cursor].size /\ TakeEntry(cursor, arg)
        \/ Continue(<<"find">>, hdr[cursor].next) /\ UNCHANGED <<memory, filler>>
    BY <1>3, <1>5, Zenon DEF find_empty_heap_entry
  <2>3. CASE SplitEntry(cursor, arg) BY <2>3, Zenon DEF SplitEntry
  <2>4. CASE arg <= hdr[cursor].size /\ TakeEntry(cursor, arg)
    <3>1. LinksKept BY <1>1, <1>3, <2>1, <2>4, TakeLinks
    <3>2. stack' = <<>> \o Tail(stack) /\ cursor' = IF stack' = <<>> THEN NULL ELSE NULL
      BY <2>4, Zenon DEF TakeEntry, Continue
    <3>3. ~In("wild")' /\ ~In("sort")' /\ cursor' = NULL BY <1>1, <3>2 DEF In
    <3>. QED BY <1>3, <3>1, <3>3, ScanGoesOn
  <2>5. CASE Continue(<<"find">>, hdr[cursor].next) /\ UNCHANGED <<memory, filler>>
    <3>1. LinksKept BY <2>5, MemoryKeepsLinks
    <3>2. /\ stack' = <<"find">> \o Tail(stack)
          /\ cursor' = IF stack' = <<>> THEN NULL ELSE hdr[cursor].next
      BY <2>5, Zenon DEF Continue
    <3>3. stack' = <<"find">> BY <1>1, <3>2
    <3>4. ~In("wild")' /\ ~In("sort")' BY <3>3 DEF In
    <3>5. cursor' \in Blocks \cup {NULL} BY <1>3, <2>1, <3>2, ListKnown
    <3>. QED BY <1>3, <3>1, <3>4, <3>5, ScanGoesOn
  <2>. QED BY <2>2, <2>3, <2>4, <2>5
<1>. QED BY <1>4, <1>5

LEMMA AlignedLinks ==
  ASSUME HeapInv, ListInv, ~cut, AlignedInBounds,
         insert_heap_entry_page_aligned \/ InsertAlignedBlock
  PROVE  ListInv'
<1>. USE Constants
<1>1. mallocable_address \in Nat /\ arg \in Nat
  BY BlocksLaidOut DEF HeapInv, CallInv
<1>2. <<"sort", "block", "unfill">> # <<>> /\ Head(<<"sort", "block", "unfill">>) = "sort"
  OBVIOUS
<1>3. <<"sort", "unfill">> # <<>> /\ Head(<<"sort", "unfill">>) = "sort" OBVIOUS
<1>4. <<"sort">> # <<>> /\ Head(<<"sort">>) = "sort" OBVIOUS
<1>5. CASE insert_heap_entry_page_aligned /\ FillerFits
  <2>1. stack = <<"aligned">> /\ In("aligned")
    BY <1>5, LoopStacks DEF HeapInv, insert_heap_entry_page_aligned
  <2>2. PICK n : n = AvailableSize - 2 * HDR - FTR OBVIOUS
  <2>3. n \in Nat
    BY <1>5, <2>1, <2>2, KernelHeapConstants DEF AlignedInBounds
  <2>4. insert_heap_entry(mallocable_address, n, <<"block", "unfill">>, mallocable_address)
    BY <1>5, <2>2, Zenon DEF insert_heap_entry_page_aligned
  <2>5. <<"sort">> \o <<"block", "unfill">> \o Tail(stack) = <<"sort", "block", "unfill">>
    <3>1. <<"sort">> \o <<"block", "unfill">> = <<"sort", "block", "unfill">>
      BY TripleJoined, Zenon
    <3>. QED BY <2>1, <3>1
  <2>6. mallocable_address <= mallocable_address BY <1>1
  <2>7. Inserts(mallocable_address, n, <<"block", "unfill">>, mallocable_address,
              <<"sort", "block", "unfill">>)
    BY <1>1, <1>2, <2>3, <2>4, <2>5, <2>6, Zenon DEF Inserts
  <2>. QED BY ONLY HeapInv, ListInv, ~cut, <2>7, InsertKeepsList
<1>6. CASE insert_heap_entry_page_aligned /\ ~FillerFits
  <2>1. stack = <<"aligned">> /\ In("aligned")
    BY <1>6, LoopStacks DEF HeapInv, insert_heap_entry_page_aligned
  <2>2. PICK b : b = NextPage - HDR OBVIOUS
  <2>3. AvailableSize - HDR \in GAPS BY <1>6, <2>1, Zenon DEF AlignedInBounds
  <2>4. AvailableSize = NextPage - mallocable_address /\ NextPage \in Int
    BY <1>1, KernelHeapConstants DEF AvailableSize, NextPage
  <2>5. b \in Nat /\ mallocable_address <= b BY <1>1, <2>2, <2>3, <2>4, KernelHeapConstants
  <2>6. insert_heap_entry(b, arg, <<>>, NULL)
    BY <1>6, <2>2, Zenon DEF insert_heap_entry_page_aligned
  <2>7. <<"sort">> \o <<>> \o Tail(stack) = <<"sort">> BY <2>1
  <2>8. Inserts(b, arg, <<>>, NULL, <<"sort">>)
    BY <1>1, <1>4, <2>5, <2>6, <2>7, Zenon DEF Inserts
  <2>. QED BY ONLY HeapInv, ListInv, ~cut, <2>8, InsertKeepsList
<1>7. CASE InsertAlignedBlock
  <2>1. stack = <<"block", "unfill">> BY <1>7, LoopStacks DEF HeapInv, InsertAlignedBlock
  <2>2. insert_heap_entry(mallocable_address, arg, <<>>, filler)
    BY <1>7, Zenon DEF InsertAlignedBlock
  <2>3. <<"sort">> \o <<>> \o Tail(stack) = <<"sort", "unfill">>
    <3>1. Tail(stack) = <<"unfill">> BY <2>1
    <3>2. <<"sort">> \o <<>> = <<"sort">> OBVIOUS
    <3>3. <<"sort">> \o <<"unfill">> = <<"sort", "unfill">> BY PairJoined, Zenon
    <3>. QED BY <3>1, <3>2, <3>3, Zenon
  <2>4. mallocable_address <= mallocable_address BY <1>1
  <2>5. Inserts(mallocable_address, arg, <<>>, filler, <<"sort", "unfill">>)
    BY <1>1, <1>3, <2>2, <2>3, <2>4, Zenon DEF Inserts
  <2>. QED BY ONLY HeapInv, ListInv, ~cut, <2>5, InsertKeepsList
<1>. QED BY <1>5, <1>6, <1>7

LEMMA UnfillLinks ==
  ASSUME HeapInv, ListInv, ~cut, FreeFiller
  PROVE  ListInv'
<1>1. stack = <<"unfill">> /\ filler \in DOMAIN asked
  BY LoopStacks DEF HeapInv, FreeFiller
<1>2. filler \in Blocks BY <1>1, BlocksLaidOut DEF HeapInv
<1>3. ~In("sort") BY <1>1 DEF In
<1>4. MemoryInv /\ Linked(List, Blocks) /\ Ascending(Blocks) BY <1>3, ListFound
<1>5. /\ hdr' = [hdr EXCEPT ![filler].used = FREE] /\ Continue(<<>>, NULL)
      /\ UNCHANGED <<ftr, HEAP_LINKED_LIST_HEAD, HEAP_LINKED_LIST_LAST>>
  BY Zenon DEF FreeFiller
<1>6. LinksKept BY <1>2, <1>4, <1>5, FreeLinks
<1>7. stack' = <<>> \o Tail(stack) /\ cursor' = NULL BY <1>5 DEF Continue
<1>8. ~In("wild")' /\ ~In("sort")' BY <1>1, <1>7 DEF In
<1>. QED BY <1>4, <1>6, <1>7, <1>8, ScanGoesOn

\* What a sort returns to.
LEMMA TailOfSort ==
  ASSUME NEW s \in Sorting, NEW t, t = Tail(s)
  PROVE  /\ s # <<>> /\ Head(s) = "sort"
         /\ t # <<>> => Head(t) # "sort" /\ Head(t) # "wild"
<1>1. CASE s = <<"sort">> BY <1>1
<1>2. CASE s = <<"sort", "merge">> BY <1>2
<1>3. CASE s = <<"sort", "search">> BY <1>3
<1>4. CASE s = <<"sort", "merge", "search">> BY <1>4
<1>5. CASE s = <<"sort", "block", "unfill">> BY <1>5
<1>6. CASE s = <<"sort", "unfill">> BY <1>6
<1>. QED BY <1>1, <1>2, <1>3, <1>4, <1>5, <1>6 DEF Sorting

\* The scan of a sort moves on to the entry behind the cursor.
LEMMA SortPasses ==
  ASSUME MemoryInv, Linked(List, Blocks), LinksKept, cursor \in Blocks,
         ~OutOfOrder(cursor, hdr[cursor].next), cursor' = hdr[cursor].next,
         In("sort")', NEW V \in SUBSET Blocks, Ascending(V), Passed(V)
  PROVE  ListInv'
<1>1. PICK right : right = NextOf(List, cursor) OBVIOUS
<1>2. /\ hdr[cursor].next = right /\ right \in Blocks \cup {NULL}
      /\ PreviousOf(List, right) = cursor
  BY <1>1, ListKnown
<1>3. PICK W : W = V \cup {cursor} OBVIOUS
<1>4. W \in SUBSET Blocks BY <1>3
<1>5. Ascending(W)
  <2>1. right # NULL => hdr[cursor].size <= hdr[right].size
    <3>. SUFFICES ASSUME right # NULL PROVE hdr[cursor].size <= hdr[right].size OBVIOUS
    <3>1. hdr[cursor].size \in Nat /\ hdr[right].size \in Nat BY <1>2, BlocksKnown
    <3>. QED BY <1>2, <3>1 DEF OutOfOrder
  <2>. QED BY <1>1, <1>3, <2>1 DEF Ascending
<1>6. PreviousOf(List, right) \in W \cup {NULL}
      /\ \A x \in W : PreviousOf(List, x) \in W \cup {NULL}
  BY <1>2, <1>3 DEF Passed
<1>7. /\ Linked(List, Blocks)' /\ Ascending(W)'
      /\ \A x \in Blocks \cup {NULL} : PreviousOf(List, x)' = PreviousOf(List, x)
  BY <1>4, <1>5, KeptLinks
<1>8. Passed(W)'
  <2>1. PICK j : j = List' OBVIOUS
  <2>2. \A x \in Blocks \cup {NULL} : PreviousOf(j, x) = PreviousOf(List, x) BY <1>7, <2>1
  <2>3. PreviousOf(j, cursor') \in W \cup {NULL} BY <1>2, <1>6, <2>2
  <2>4. \A x \in W : PreviousOf(j, x) \in W \cup {NULL} BY <1>4, <1>6, <2>2
  <2>. QED BY <2>1, <2>3, <2>4 DEF Passed
<1>9. W \in SUBSET Blocks' /\ cursor' \in Blocks' \cup {NULL} BY <1>2, <1>4 DEF LinksKept
<1>10. ~In("wild")' BY DEF In
<1>. QED BY <1>7, <1>8, <1>9, <1>10, Zenon DEF ListInv

LEMMA SortLinks ==
  ASSUME HeapInv, ListInv, ~cut, sort_heap_entry_linked_list
  PROVE  ListInv'
<1>1. stack \in Sorting BY LoopStacks DEF HeapInv, sort_heap_entry_linked_list
<1>2. stack # <<>> /\ Head(stack) = "sort" BY <1>1, TailOfSort
<1>3. /\ MemoryInv /\ cursor \in Blocks \cup {NULL} /\ Linked(List, Blocks)
      /\ NULL \notin Blocks /\ Known(List, {cursor})
      /\ cursor # NULL => cursor \in Blocks
  BY ListFound
<1>4. PICK V \in SUBSET Blocks : Ascending(V) /\ Passed(V) BY <1>2 DEF ListInv, In
<1>5. UNCHANGED <<ftr, stale, mallocable_address, asked, cut, filler>>
  BY Zenon DEF sort_heap_entry_linked_list
<1>6. Blocks' = Blocks BY <1>5 DEF Blocks
<1>7. ASSUME UNCHANGED <<hdr, HEAP_LINKED_LIST_HEAD, HEAP_LINKED_LIST_LAST>> PROVE LinksKept
  BY <1>6, <1>7 DEF LinksKept
<1>8. ASSUME NEW head, Continue(<<"sort">>, head)
      PROVE  In("sort")' /\ cursor' = head
  <2>1. stack' = <<"sort">> \o Tail(stack) /\ cursor' = IF stack' = <<>> THEN NULL ELSE head
    BY <1>8, Zenon DEF Continue
  <2>2. stack' = stack BY <1>1, <2>1, SortStacks, Zenon
  <2>. QED BY <1>2, <2>1, <2>2 DEF In
<1>9. CASE cursor = NULL
  <2>1. /\ Continue(<<>>, HEAP_LINKED_LIST_HEAD)
        /\ UNCHANGED <<hdr, HEAP_LINKED_LIST_HEAD, HEAP_LINKED_LIST_LAST>>
    BY <1>9, Zenon DEF sort_heap_entry_linked_list
  <2>2. LinksKept BY <1>7, <2>1
  <2>3. V = Blocks
    <3>1. PICK l, B : l = List /\ B = Blocks OBVIOUS
    <3>2. /\ PreviousOf(l, NULL) \in V \cup {NULL}
          /\ \A x \in V : PreviousOf(l, x) \in V \cup {NULL}
      BY <1>4, <1>9, <3>1, Zenon DEF Passed
    <3>3. Linked(l, B) /\ NULL \notin B /\ V \in SUBSET B BY <1>3, <1>4, <3>1
    <3>4. V = B BY ONLY <3>2, <3>3, LinkedFacts
    <3>. QED BY <3>1, <3>4
  <2>4. /\ stack' = <<>> \o Tail(stack)
        /\ cursor' = IF stack' = <<>> THEN NULL ELSE HEAP_LINKED_LIST_HEAD
    BY <2>1, Zenon DEF Continue
  <2>5. stack' = Tail(stack) BY <1>1, <2>4, SortStacks, Zenon
  <2>6. ~In("wild")' /\ ~In("sort")' BY <1>1, <2>5, TailOfSort DEF In
  <2>7. cursor' \in Blocks \cup {NULL} BY <1>3, <2>4, ListKnown
  <2>. QED BY <1>3, <1>4, <2>2, <2>3, <2>6, <2>7, ScanGoesOn
<1>10. CASE cursor # NULL
  <2>1. PICK right : right = hdr[cursor].next OBVIOUS
  <2>2. PICK sorted : sorted = Swap(List, cursor, right) OBVIOUS
  <2>3. /\ cursor \in Blocks /\ right = NextOf(List, cursor) /\ right \in Blocks \cup {NULL}
        /\ Known(List, {right})
    <3>1. cursor \in Blocks /\ right = NextOf(List, cursor) /\ right \in Blocks \cup {NULL}
      BY <1>3, <1>10, <2>1, ListKnown
    <3>2. {right} \in SUBSET (Blocks \cup {NULL}) BY <3>1
    <3>. QED BY <1>3, <3>1, <3>2, ListKnown
  <2>4. \/ /\ ~OutOfOrder(cursor, right)
           /\ Continue(<<"sort">>, right)
           /\ UNCHANGED <<hdr, HEAP_LINKED_LIST_HEAD, HEAP_LINKED_LIST_LAST>>
        \/ /\ OutOfOrder(cursor, right)
           /\ IF Known(List, {hdr[cursor].previous, hdr[right].next})
              THEN Install(sorted) /\ Continue(<<"sort">>, sorted.head)
              ELSE GoWild
    BY <1>3, <1>10, <2>1, <2>2, <2>3, Zenon DEF sort_heap_entry_linked_list
  <2>5. CASE /\ ~OutOfOrder(cursor, right)
             /\ Continue(<<"sort">>, right)
             /\ UNCHANGED <<hdr, HEAP_LINKED_LIST_HEAD, HEAP_LINKED_LIST_LAST>>
    <3>1. LinksKept BY <1>7, <2>5
    <3>2. In("sort")' /\ cursor' = right BY <1>8, <2>5
    <3>. QED BY <1>3, <1>4, <2>1, <2>3, <2>5, <3>1, <3>2, SortPasses
  <2>6. CASE /\ OutOfOrder(cursor, right)
             /\ IF Known(List, {hdr[cursor].previous, hdr[right].next})
                THEN Install(sorted) /\ Continue(<<"sort">>, sorted.head)
                ELSE GoWild
    <3>1. right \in Blocks BY <2>3, <2>6 DEF OutOfOrder
    <3>2. {hdr[cursor].previous, hdr[right].next} \in SUBSET (Blocks \cup {NULL})
      BY <1>3, <2>3, <3>1, ListKnown
    <3>3. Known(List, {hdr[cursor].previous, hdr[right].next}) BY <1>3, <3>2, ListKnown
    <3>4. Install(sorted) /\ Continue(<<"sort">>, sorted.head) BY <2>6, <3>3, Zenon
    <3>5. PICK l, B, D : l = List /\ B = Blocks /\ D = DOMAIN hdr OBVIOUS
    <3>6. l \in Lists(D) /\ B \subseteq D \cap Nat /\ NULL \notin B /\ Linked(l, B)
      BY <1>3, <3>5, ListTyped, BlocksKnown
    <3>7. Linked(sorted, B)
      <4>1. sorted = Swap(l, cursor, right) /\ cursor \in B /\ right \in B /\ right = NextOf(l, cursor)
        BY <2>2, <2>3, <3>1, <3>5
      <4>. QED BY ONLY <3>6, <4>1, LinkedSwap
    <3>8. PICK j : j = List' OBVIOUS
    <3>9. j.hdr = sorted.hdr /\ j.head = sorted.head /\ j.last = sorted.last
      BY <3>4, <3>8 DEF Install, List
    <3>10. Linked(j, B) BY <3>7, <3>9, LinkedAlike DEF NextOf, PreviousOf
    <3>11. Linked(List, Blocks)' BY <1>6, <3>5, <3>8, <3>10
    <3>12. In("sort")' /\ cursor' = HEAP_LINKED_LIST_HEAD' BY <1>8, <3>4 DEF Install
    <3>13. NULL \notin Blocks' BY <1>3, <1>6
    <3>. QED BY <3>11, <3>12, <3>13, SortStarts
  <2>. QED BY <2>4, <2>5, <2>6
<1>. QED BY <1>9, <1>10

LEMMA SearchLinks ==
  ASSUME HeapInv, ListInv, ~cut, FreeSearch
  PROVE  ListInv'
<1>1. stack = <<"search">> /\ arg # NULL BY LoopStacks DEF HeapInv, FreeSearch
<1>2. ~In("sort") BY <1>1 DEF In
<1>3. /\ MemoryInv /\ Linked(List, Blocks) /\ Ascending(Blocks) /\ Known(List, {cursor})
      /\ cursor # NULL => cursor \in Blocks
  BY <1>2, ListFound
<1>4. CASE cursor = NULL
  <2>1. Continue(<<>>, NULL) /\ UNCHANGED <<memory, filler>> BY <1>4, Zenon DEF FreeSearch
  <2>2. stack' = <<>> \o Tail(stack) /\ cursor' = NULL BY <2>1 DEF Continue
  <2>3. ~In("wild")' /\ ~In("sort")' BY <1>1, <2>2 DEF In
  <2>4. LinksKept BY <2>1, MemoryKeepsLinks
  <2>. QED BY <1>3, <2>2, <2>3, <2>4, ScanGoesOn
<1>5. CASE cursor # NULL
  <2>1. cursor \in Blocks BY <1>3, <1>5
  <2>2. CASE hdr[cursor].location # arg
    <3>1. Continue(<<"search">>, hdr[cursor].next) /\ UNCHANGED <<memory, filler>>
      BY <1>3, <1>5, <2>2, Zenon DEF FreeSearch
    <3>2. /\ stack' = <<"search">> \o Tail(stack)
          /\ cursor' = IF stack' = <<>> THEN NULL ELSE hdr[cursor].next
      BY <3>1, Zenon DEF Continue
    <3>3. stack' = <<"search">> BY <1>1, <3>2
    <3>4. ~In("wild")' /\ ~In("sort")' BY <3>3 DEF In
    <3>5. cursor' \in Blocks \cup {NULL} BY <1>3, <2>1, <3>2, ListKnown
    <3>6. LinksKept BY <3>1, MemoryKeepsLinks
    <3>. QED BY <1>3, <3>4, <3>5, <3>6, ScanGoesOn
  <2>3. CASE hdr[cursor].location = arg
    <3>1. /\ hdr' = [hdr EXCEPT ![cursor].used = FREE]
          /\ Continue(<<"merge">>, HEAP_LINKED_LIST_HEAD)
          /\ UNCHANGED <<ftr, HEAP_LINKED_LIST_HEAD, HEAP_LINKED_LIST_LAST>>
      BY <1>3, <1>5, <2>3, Zenon DEF FreeSearch
    <3>2. LinksKept BY <1>3, <2>1, <3>1, FreeLinks
    <3>3. /\ stack' = <<"merge">> \o Tail(stack)
          /\ cursor' = IF stack' = <<>> THEN NULL ELSE HEAP_LINKED_LIST_HEAD
      BY <3>1, Zenon DEF Continue
    <3>4. stack' = <<"merge">> BY <1>1, <3>3
    <3>5. ~In("wild")' /\ ~In("sort")' BY <3>4 DEF In
    <3>6. cursor' \in Blocks \cup {NULL} BY <1>3, <3>3, ListKnown
    <3>. QED BY <1>3, <3>2, <3>5, <3>6, ScanGoesOn
  <2>. QED BY <2>2, <2>3
<1>. QED BY <1>4, <1>5

---------------------------------------------------------------------------
(***************************************************************************)
(* A merge unlinks two entries, zeroes the bytes between them and links    *)
(* one of them again.                                                      *)
(***************************************************************************)
\* A merge of c into a takes the list l to m, with c unlinked and the headers
\* in K and Z left, and then to w, with a unlinked.
Unlinks(l, c, a, K, Z, s, m, w) ==
  m = Merged(Remove(l, c), K, Z, a, s) /\ w = Remove(m, a)
Links(l, D, B) == l \in Lists(D) /\ B \subseteq D \cap Nat /\ NULL \notin B /\ Linked(l, B)
MergePlace(D, B, c, a, K, Z, s) ==
  a \in B /\ c \in B /\ a # c /\ s \in Nat /\ K \subseteq D /\ B \ {c} \subseteq K \ Z
LinksMerged(B, c, a, m, w) ==
  /\ Linked(AddLast(w, a), B \ {c})
  /\ NextOf(m, a) \in (B \ {c}) \cup {NULL} /\ PreviousOf(m, a) \in (B \ {c}) \cup {NULL}
  /\ w.last \in (B \ {c}) \cup {NULL}
  /\ B \ {c} \subseteq DOMAIN m.hdr /\ B \ {c} \subseteq DOMAIN w.hdr

LEMMA MergedLinked ==
  ASSUME NEW D, NEW l, NEW B, Links(l, D, B), NEW a, NEW c, NEW K, NEW Z, NEW s,
         MergePlace(D, B, c, a, K, Z, s), NEW m, NEW w, Unlinks(l, c, a, K, Z, s, m, w)
  PROVE  LinksMerged(B, c, a, m, w)
<1>. /\ l \in Lists(D) /\ B \subseteq D \cap Nat /\ NULL \notin B /\ Linked(l, B)
     /\ a \in B /\ c \in B /\ a # c /\ s \in Nat /\ K \subseteq D /\ B \ {c} \subseteq K \ Z
     /\ m = Merged(Remove(l, c), K, Z, a, s) /\ w = Remove(m, a)
  BY DEF Links, MergePlace, Unlinks
<1>1. PICK r : r = Remove(l, c) OBVIOUS
<1>2. r \in Lists(D) BY <1>1, RemoveData DEF SameList
<1>3. Linked(r, B \ {c}) BY <1>1, LinkedRemove
<1>4. PICK g : g = r.hdr OBVIOUS
<1>5. g \in [D -> Header] /\ DOMAIN g = D BY <1>2, <1>4 DEF Lists
<1>6. PICK h : h = MergeHeaders(g, K, Z, a, s) OBVIOUS
<1>7. a \in D /\ a \in K /\ a \notin Z /\ a \in Nat OBVIOUS
<1>8. h \in [K \cup Z -> Header] BY <1>5, <1>6, <1>7, MergeHeadersTyped
<1>9. m \in Lists(K \cup Z) /\ m.hdr = h /\ m.head = r.head /\ m.last = r.last
  BY <1>1, <1>2, <1>4, <1>6, <1>8 DEF Merged, Lists
<1>10. ASSUME NEW x \in B \ {c} PROVE h[x].next = g[x].next /\ h[x].previous = g[x].previous
  <2>1. CASE x = a
    <3>1. h[a] = [g[a] EXCEPT !.size = s] BY <1>6, <1>7 DEF MergeHeaders
    <3>2. g[a] \in Header BY <1>5, <1>7
    <3>. QED BY <2>1, <3>1, <3>2 DEF Header
  <2>2. CASE x # a BY <1>6, <2>2, MergeHeadersElsewhere
  <2>. QED BY <2>1, <2>2
<1>11. PICK C : C = B \ {c} OBVIOUS
<1>12. Linked(m, C)
  <2>1. \A x \in C \cup {NULL} : NextOf(m, x) = NextOf(r, x) /\ PreviousOf(m, x) = PreviousOf(r, x)
    BY <1>4, <1>9, <1>10, <1>11 DEF NextOf, PreviousOf
  <2>. QED BY <1>3, <1>11, <2>1, LinkedAlike
<1>13. NULL \notin C /\ a \in C /\ C \subseteq K \cup Z BY <1>11
<1>14. NextOf(m, a) \in C \cup {NULL} /\ PreviousOf(m, a) \in C \cup {NULL}
  BY ONLY <1>12, <1>13, LinkedFacts
<1>15. Linked(w, C \ {a}) BY <1>9, <1>12, <1>13, LinkedRemove
<1>16. w \in Lists(K \cup Z) BY <1>9, <1>13, RemoveData DEF SameList
<1>17. PICK E : E = C \ {a} OBVIOUS
<1>18. w.last \in E \cup {NULL}
  <2>1. Linked(w, E) /\ NULL \notin E BY <1>13, <1>15, <1>17
  <2>2. PreviousOf(w, NULL) \in E \cup {NULL} BY ONLY <2>1, LinkedFacts
  <2>. QED BY <2>2 DEF PreviousOf
<1>19. Linked(AddLast(w, a), E \cup {a})
  <2>1. E \subseteq K \cup Z /\ NULL \notin E /\ Linked(w, E) /\ a \in (K \cup Z) \cap Nat
        /\ a \notin E /\ a # NULL
    BY <1>7, <1>13, <1>15, <1>17
  <2>. QED BY ONLY <1>16, <2>1, LinkedAddLast
<1>20. E \cup {a} = C BY <1>13, <1>17
<1>21. DOMAIN m.hdr = K \cup Z /\ DOMAIN w.hdr = K \cup Z BY <1>9, <1>16 DEF Lists
<1>. QED BY <1>11, <1>13, <1>14, <1>17, <1>18, <1>19, <1>20, <1>21 DEF LinksMerged

MergeFrame(a, c, s, lo, hi, K, Z) ==
  /\ s = hdr[a].size + Extent(hdr[c].size) /\ lo = a + HDR /\ hi = lo + s
  /\ Z = ZeroHeaders(lo, hi)
  /\ K = DOMAIN hdr \ (Overwritten(DOMAIN hdr, lo, hi, HDR) \ Z)

LEMMA MergeKnown ==
  ASSUME NEW a, NEW c, merge_two_heap_entries_linked_list(a, c),
         NEW s, NEW lo, NEW hi, NEW K, NEW Z, MergeFrame(a, c, s, lo, hi, K, Z),
         NEW m, NEW w, Unlinks(List, c, a, K, Z, s, m, w),
         Known(List, {hdr[c].previous, hdr[c].next}),
         Known(m, {m.hdr[a].previous, m.hdr[a].next}), Known(w, {w.last})
  PROVE  /\ Install(AddLast(w, a)) /\ ftr' = MergeFooters(a, lo, hi) /\ cut' = cut
         /\ Continue(<<"sort", "merge">>, AddLast(w, a).head)
<1>1. /\ s = hdr[a].size + Extent(hdr[c].size) /\ lo = a + HDR /\ hi = lo + s
      /\ Z = ZeroHeaders(lo, hi)
      /\ K = DOMAIN hdr \ (Overwritten(DOMAIN hdr, lo, hi, HDR) \ Z)
      /\ m = Merged(Remove(List, c), K, Z, a, s) /\ w = Remove(m, a)
  BY DEF MergeFrame, Unlinks
<1>. QED BY <1>1, Zenon DEF merge_two_heap_entries_linked_list, Merged

\* The pointers a merge follows are all known, and its list links the rest.
LEMMA MergeLinksBlocks ==
  ASSUME MemoryInv, Linked(List, Blocks), NEW c \in Blocks, Mergeable(c),
         NEW a, a = ftr[c - FTR], merge_two_heap_entries_linked_list(a, c)
  PROVE  /\ Linked(List, Blocks)' /\ NULL \notin Blocks' /\ cut' = cut
         /\ Continue(<<"sort", "merge">>, HEAP_LINKED_LIST_HEAD')
<1>. USE Constants
<1>1. c \in DOMAIN hdr /\ c - FTR \in DOMAIN ftr BY BlocksKnown DEF Mergeable
<1>2. PICK s : s = hdr[a].size + Extent(hdr[c].size) OBVIOUS
<1>3. PICK lo, hi : lo = a + HDR /\ hi = lo + s OBVIOUS
<1>4. /\ a \in Blocks /\ a \in Nat /\ c \in Nat /\ a < c /\ s \in Nat
      /\ c = Footer(a) + FTR /\ hi = Footer(c) /\ hi \in Nat /\ c + HDR <= hi
      /\ \A x \in Blocks : x = a \/ x = c \/ Footer(x) + FTR <= a \/ hi + FTR <= x
  BY <1>1, <1>2, <1>3, MergeLaidOut
<1>5. PICK Z : Z = ZeroHeaders(lo, hi) OBVIOUS
<1>6. PICK K : K = DOMAIN hdr \ (Overwritten(DOMAIN hdr, lo, hi, HDR) \ Z) OBVIOUS
<1>7. ASSUME NEW x \in Blocks \ {c}
      PROVE  x \in DOMAIN hdr /\ ~(x < hi /\ lo < x + HDR) /\ ~(lo <= x /\ x + HDR <= hi)
  <2>1. x \in Nat /\ x \in DOMAIN hdr /\ Footer(x) = x + HDR + hdr[x].size /\ hdr[x].size \in Nat
    BY BlocksLaidOut
  <2>2. CASE x = a BY <1>3, <1>4, <2>1, <2>2
  <2>3. CASE Footer(x) + FTR <= a BY <1>3, <1>4, <2>1, <2>3
  <2>4. CASE hi + FTR <= x BY <1>3, <1>4, <2>1, <2>4
  <2>. QED BY <1>4, <2>2, <2>3, <2>4
<1>8. Blocks \ {c} \subseteq K \ Z
  BY <1>5, <1>6, <1>7 DEF ZeroHeaders, Overwritten, Overlaps
<1>9. PICK l, B, D : l = List /\ B = Blocks /\ D = DOMAIN hdr OBVIOUS
<1>10. PICK m : m = Merged(Remove(l, c), K, Z, a, s) OBVIOUS
<1>11. PICK w : w = Remove(m, a) OBVIOUS
<1>12. /\ Linked(AddLast(w, a), B \ {c})
       /\ NextOf(m, a) \in (B \ {c}) \cup {NULL} /\ PreviousOf(m, a) \in (B \ {c}) \cup {NULL}
       /\ w.last \in (B \ {c}) \cup {NULL} /\ B \ {c} \subseteq DOMAIN m.hdr
       /\ B \ {c} \subseteq DOMAIN w.hdr
  <2>1. Links(l, D, B) BY <1>9, ListTyped, BlocksKnown DEF Links
  <2>2. MergePlace(D, B, c, a, K, Z, s) BY <1>4, <1>6, <1>8, <1>9 DEF MergePlace
  <2>3. Unlinks(l, c, a, K, Z, s, m, w) BY <1>10, <1>11 DEF Unlinks
  <2>4. LinksMerged(B, c, a, m, w) BY ONLY <2>1, <2>2, <2>3, MergedLinked
  <2>. QED BY <2>4 DEF LinksMerged
<1>13. Known(List, {hdr[c].previous, hdr[c].next})
  <2>1. {hdr[c].previous, hdr[c].next} \in SUBSET (Blocks \cup {NULL}) BY ListKnown
  <2>. QED BY <2>1, ListKnown
<1>14. a # NULL /\ a \in B \ {c} BY <1>4, <1>9, BlocksKnown
<1>15. Known(m, {m.hdr[a].previous, m.hdr[a].next}) /\ Known(w, {w.last})
  BY <1>12, <1>14 DEF Known, NextOf, PreviousOf
<1>16. /\ Install(AddLast(w, a)) /\ ftr' = MergeFooters(a, lo, hi) /\ cut' = cut
       /\ Continue(<<"sort", "merge">>, AddLast(w, a).head)
  <2>1. Unlinks(List, c, a, K, Z, s, m, w) BY <1>9, <1>10, <1>11 DEF Unlinks
  <2>2. MergeFrame(a, c, s, lo, hi, K, Z) BY <1>2, <1>3, <1>5, <1>6 DEF MergeFrame
  <2>3. merge_two_heap_entries_linked_list(a, c) OBVIOUS
  <2>. QED BY ONLY <1>13, <1>15, <2>1, <2>2, <2>3, MergeKnown
<1>17. Blocks' = B \ {c}
  <2>1. /\ DOMAIN ftr' = DOMAIN ftr \ {Footer(a)}
        /\ hi \in DOMAIN ftr' /\ ftr'[hi] = a
        /\ \A f \in DOMAIN ftr' \ {hi} : ftr'[f] = ftr[f]
    <3>1. ftr' = MergeFooters(a, a + HDR, Footer(c)) BY <1>3, <1>4, <1>16
    <3>2. PICK g : g = ftr' OBVIOUS
    <3>3. g = MergeFooters(a, a + HDR, Footer(c)) BY <3>1, <3>2
    <3>4. /\ DOMAIN g = DOMAIN ftr \ {Footer(a)}
          /\ Footer(c) \in DOMAIN ftr /\ Footer(c) # Footer(a) /\ g[Footer(c)] = a
          /\ \A f \in DOMAIN ftr \ {Footer(a), Footer(c)} : g[f] = ftr[f]
      BY <1>1, <3>3, MergeFootersLaidOut
    <3>. QED BY <1>4, <3>2, <3>4
  <2>2. ASSUME NEW x \in Blocks' PROVE x \in B \ {c}
    <3>1. PICK f \in DOMAIN ftr' : x = ftr'[f] BY DEF Blocks, Range
    <3>2. CASE f = hi BY <1>14, <2>1, <3>1, <3>2
    <3>3. CASE f # hi
      <4>1. f \in DOMAIN ftr /\ x = ftr[f] BY <2>1, <3>1, <3>3
      <4>2. x \in Blocks /\ f = Footer(x) BY <4>1, FootersLaidOut
      <4>. QED BY <1>4, <1>9, <3>3, <4>2
    <3>. QED BY <3>2, <3>3
  <2>3. ASSUME NEW x \in B \ {c} PROVE x \in Blocks'
    <3>1. CASE x = a BY <2>1, <3>1 DEF Blocks, Range
    <3>2. CASE x # a
      <4>1. /\ x \in Blocks /\ Footer(x) \in DOMAIN ftr /\ ftr[Footer(x)] = x
            /\ ftr[Footer(a)] = a /\ ftr[hi] = c
        BY <1>4, <1>9, BlocksLaidOut
      <4>2. Footer(x) \in DOMAIN ftr' \ {hi} BY <2>1, <3>2, <4>1
      <4>3. ftr'[Footer(x)] = x BY <2>1, <4>1, <4>2
      <4>. QED BY <4>2, <4>3 DEF Blocks, Range
    <3>. QED BY <3>1, <3>2
  <2>. QED BY <2>2, <2>3
<1>18. PICK k, j : k = AddLast(w, a) /\ j = List' OBVIOUS
<1>19. j.hdr = k.hdr /\ j.head = k.head /\ j.last = k.last
  BY <1>16, <1>18 DEF Install, List
<1>20. Linked(j, B \ {c})
  <2>1. Linked(k, B \ {c}) BY <1>12, <1>18
  <2>2. \A x : NextOf(j, x) = NextOf(k, x) /\ PreviousOf(j, x) = PreviousOf(k, x)
    BY <1>19 DEF NextOf, PreviousOf
  <2>. QED BY <2>1, <2>2, LinkedAlike
<1>21. Linked(List, Blocks)' BY <1>17, <1>18, <1>20
<1>22. NULL \notin Blocks' BY <1>9, <1>17, BlocksKnown
<1>23. Continue(<<"sort", "merge">>, HEAP_LINKED_LIST_HEAD') BY <1>16 DEF Install
<1>. QED BY <1>16, <1>21, <1>22, <1>23

LEMMA MergeLinks ==
  ASSUME HeapInv, ListInv, ~cut, merge_heap_entries_in_entire_linked_list
  PROVE  ListInv'
<1>1. \/ Tail(stack) = <<>>
      \/ Tail(stack) = <<"search">>
  <2>1. stack = <<"merge">> \/ stack = <<"merge", "search">>
    BY LoopStacks DEF HeapInv, merge_heap_entries_in_entire_linked_list
  <2>2. CASE stack = <<"merge">> BY <2>2
  <2>3. CASE stack = <<"merge", "search">> BY <2>3
  <2>. QED BY <2>1, <2>2, <2>3
<1>2. ~In("sort") BY DEF In, merge_heap_entries_in_entire_linked_list
<1>3. /\ MemoryInv /\ Linked(List, Blocks) /\ Ascending(Blocks) /\ Known(List, {cursor})
      /\ cursor # NULL => cursor \in Blocks
      /\ NULL \notin Blocks
  BY <1>2, ListFound
<1>4. ASSUME stack' = <<"sort">> \o Tail(stack) \/ stack' = <<"sort", "merge">> \o Tail(stack)
      PROVE  stack' # <<>> /\ In("sort")'
  <2>1. CASE Tail(stack) = <<>>
    <3>1. <<"sort">> \o <<>> = <<"sort">> /\ <<"sort", "merge">> \o <<>> = <<"sort", "merge">>
      OBVIOUS
    <3>2. stack' = <<"sort">> \/ stack' = <<"sort", "merge">> BY <1>4, <2>1, <3>1, Zenon
    <3>. QED BY <3>2 DEF In
  <2>2. CASE Tail(stack) = <<"search">>
    <3>1. <<"sort">> \o <<"search">> = <<"sort", "search">> BY PairJoined, Zenon
    <3>2. <<"sort", "merge">> \o <<"search">> = <<"sort", "merge", "search">>
      BY TripleJoined, Zenon
    <3>3. stack' = <<"sort", "search">> \/ stack' = <<"sort", "merge", "search">>
      BY <1>4, <2>2, <3>1, <3>2, Zenon
    <3>. QED BY <3>3 DEF In
  <2>. QED BY <1>1, <2>1, <2>2
<1>5. CASE cursor = NULL
  <2>1. Continue(<<"sort">>, HEAP_LINKED_LIST_HEAD) /\ UNCHANGED <<memory, filler>>
    BY <1>5, Zenon DEF merge_heap_entries_in_entire_linked_list
  <2>2. /\ stack' = <<"sort">> \o Tail(stack)
        /\ cursor' = IF stack' = <<>> THEN NULL ELSE HEAP_LINKED_LIST_HEAD
    BY <2>1, Zenon DEF Continue
  <2>3. In("sort")' /\ cursor' = HEAP_LINKED_LIST_HEAD BY <1>4, <2>2
  <2>4. LinksKept BY <2>1, MemoryKeepsLinks
  <2>5. Linked(List, Blocks)' BY <1>3, <2>4, KeptLinks
  <2>6. NULL \notin Blocks' /\ cursor' = HEAP_LINKED_LIST_HEAD'
    BY <1>3, <2>3, <2>4 DEF LinksKept
  <2>. QED BY <2>3, <2>5, <2>6, SortStarts
<1>6. CASE cursor # NULL
  <2>1. cursor \in Blocks BY <1>3, <1>6
  <2>2. CASE Mergeable(cursor)
    <3>1. PICK a : a = ftr[cursor - FTR] OBVIOUS
    <3>2. merge_two_heap_entries_linked_list(a, cursor)
      BY <1>3, <1>6, <2>2, <3>1, Zenon DEF merge_heap_entries_in_entire_linked_list
    <3>3. /\ Linked(List, Blocks)' /\ NULL \notin Blocks'
          /\ Continue(<<"sort", "merge">>, HEAP_LINKED_LIST_HEAD')
      BY <1>3, <2>1, <2>2, <3>1, <3>2, MergeLinksBlocks
    <3>4. /\ stack' = <<"sort", "merge">> \o Tail(stack)
          /\ cursor' = IF stack' = <<>> THEN NULL ELSE HEAP_LINKED_LIST_HEAD'
      BY <3>3, Zenon DEF Continue
    <3>5. In("sort")' /\ cursor' = HEAP_LINKED_LIST_HEAD' BY <1>4, <3>4
    <3>. QED BY <3>3, <3>5, SortStarts
  <2>3. CASE ~Mergeable(cursor)
    <3>1. Continue(<<"merge">>, hdr[cursor].next) /\ UNCHANGED <<memory, filler>>
      BY <1>3, <1>6, <2>3, Zenon DEF merge_heap_entries_in_entire_linked_list
    <3>2. /\ stack' = <<"merge">> \o Tail(stack)
          /\ cursor' = IF stack' = <<>> THEN NULL ELSE hdr[cursor].next
      BY <3>1, Zenon DEF Continue
    <3>3. stack' = <<"merge">> \/ stack' = <<"merge", "search">>
      <4>1. <<"merge">> \o <<"search">> = <<"merge", "search">> BY PairJoined, Zenon
      <4>2. <<"merge">> \o <<>> = <<"merge">> OBVIOUS
      <4>. QED BY <1>1, <3>2, <4>1, <4>2, Zenon
    <3>4. ~In("wild")' /\ ~In("sort")' BY <3>3 DEF In
    <3>5. cursor' \in Blocks \cup {NULL} BY <1>3, <2>1, <3>2, ListKnown
    <3>6. LinksKept BY <3>1, MemoryKeepsLinks
    <3>. QED BY <1>3, <3>4, <3>5, <3>6, ScanGoesOn
  <2>. QED BY <2>2, <2>3
<1>. QED BY <1>5, <1>6

\* Together with HeapInv, ListInv is inductive.
LEMMA ListNext ==
  ASSUME HeapInv, ListInv, AlignedInBounds, [Next]_vars
  PROVE  ListInv'
<1>1. CASE cut' BY <1>1, Zenon DEF ListInv
<1>2. CASE ~cut'
  <2>1. cut' = cut \/ cut' = TRUE BY CutStays
  <2>2. ~cut BY <1>2, <2>1, Zenon
  <2>3. CASE UNCHANGED vars
    <3>1. UNCHANGED <<hdr, ftr, HEAP_LINKED_LIST_HEAD, HEAP_LINKED_LIST_LAST, cut, stack, cursor>>
      BY <2>3 DEF vars
    <3>2. List' = List /\ Blocks' = Blocks BY <3>1 DEF List, Blocks
    <3>3. \A V : (Ascending(V) => Ascending(V)') /\ (Passed(V) => Passed(V)')
      BY <3>1, <3>2 DEF Ascending, Passed
    <3>4. /\ ~In("wild") /\ cursor \in Blocks \cup {NULL} /\ Linked(List, Blocks)
          /\ ~In("sort") => Ascending(Blocks)
          /\ In("sort") => \E V \in SUBSET Blocks : Ascending(V) /\ Passed(V)
      BY <2>2 DEF ListInv
    <3>5. PICK l, B : l = List /\ B = Blocks OBVIOUS
    <3>6. l = List' /\ B = Blocks' BY <3>2, <3>5
    <3>7. Linked(l, B) BY <3>4, <3>5
    <3>8. Linked(List, Blocks)' BY <3>6, <3>7
    <3>9. (In("wild")' <=> In("wild")) /\ (In("sort")' <=> In("sort")) BY <3>1 DEF In
    <3>10. cursor' \in Blocks' \cup {NULL} BY <3>1, <3>2, <3>4
    <3>11. ~In("sort")' => Ascending(Blocks)'
      <4>1. ~In("sort")' => Ascending(B)' BY <3>3, <3>4, <3>5, <3>9
      <4>. QED BY <3>6, <4>1 DEF Ascending
    <3>12. In("sort")' => \E V \in SUBSET Blocks' : Ascending(V)' /\ Passed(V)'
      BY <3>2, <3>3, <3>4, <3>9
    <3>. QED BY <3>4, <3>8, <3>9, <3>10, <3>11, <3>12, Zenon DEF ListInv
  <2>4. CASE Wild BY <2>2, <2>4, ListFound DEF Wild
  <2>. QED
    BY <1>2, <2>2, <2>3, <2>4, RequestLinks, FindLinks, AlignedLinks, UnfillLinks,
       SortLinks, MergeLinks, SearchLinks, Zenon DEF Next, Work
<1>. QED BY <1>1, <1>2

\* The empty list is the circle of NULL alone.
LEMMA ListStarts == Init => ListInv
<1>. SUFFICES ASSUME Init PROVE ListInv OBVIOUS
<1>1. /\ ftr = [a \in {} |-> NULL] /\ stack = <<>> /\ cursor = NULL
      /\ HEAP_LINKED_LIST_HEAD = NULL /\ HEAP_LINKED_LIST_LAST = NULL
  BY DEF Init
<1>2. Blocks = {} BY <1>1 DEF Blocks, Range
<1>3. PICK n : n = [x \in {NULL} |-> NULL] OBVIOUS
<1>4. PICK r : r = [x \in {NULL} |-> 0] OBVIOUS
<1>5. Circle(n, n, {NULL}, r, 1) BY <1>3, <1>4 DEF Circle
<1>6. LinkedBy(List, {}, n, n) BY <1>1, <1>3 DEF LinkedBy, NextOf, PreviousOf, List
<1>7. {} \cup {NULL} = {NULL} OBVIOUS
<1>8. Circle(n, n, {} \cup {NULL}, r, 1) BY <1>5, <1>7
<1>9. Linked(List, {}) BY <1>6, <1>8, Zenon DEF Linked
<1>10. Linked(List, Blocks) BY <1>2, <1>9
<1>11. ~In("sort") /\ ~In("wild") BY <1>1 DEF In
<1>12. Ascending(Blocks) BY <1>2 DEF Ascending
<1>13. cursor \in Blocks \cup {NULL} BY <1>1
<1>. QED BY <1>10, <1>11, <1>12, <1>13, Zenon DEF ListInv

---------------------------------------------------------------------------
(***************************************************************************)
(* Until the first split leaves a remainder, the list is whole whenever a  *)
(* call has returned: it holds every block, in ascending sizes, doubly     *)
(* linked from HEAP_LINKED_LIST_HEAD to HEAP_LINKED_LIST_LAST, so that no  *)
(* call before it has followed a pointer out of the list.                  *)
(***************************************************************************)
THEOREM ListIsWhole ==
  ASSUME 0 \notin SIZES
  PROVE  Spec /\ []AlignedInBounds => []ListWhole
<1>1. ASSUME HeapInv, ListInv PROVE ListWhole
  <2>. SUFFICES ASSUME stack = <<>>, ~cut
                PROVE  /\ \A b \in Blocks :
                            /\ hdr[b].previous = NULL <=> b = HEAP_LINKED_LIST_HEAD
                            /\ hdr[b].next = NULL <=> b = HEAP_LINKED_LIST_LAST
                            /\ hdr[b].next # NULL =>
                                 /\ hdr[b].next \in Blocks
                                 /\ hdr[hdr[b].next].previous = b
                                 /\ hdr[b].size <= hdr[hdr[b].next].size
                       /\ Blocks = {} <=> HEAP_LINKED_LIST_HEAD = NULL
    BY Zenon DEF ListWhole
  <2>1. /\ MemoryInv /\ Linked(List, Blocks) /\ Ascending(Blocks) /\ NULL \notin Blocks
    BY <1>1, ListFound DEF In
  <2>2. PICK l, B, head, last : /\ l = List /\ B = Blocks
                                /\ head = HEAP_LINKED_LIST_HEAD /\ last = HEAP_LINKED_LIST_LAST
    OBVIOUS
  <2>3. Linked(l, B) /\ NULL \notin B BY <2>1, <2>2
  <2>4. /\ \A x \in B \cup {NULL} :
             /\ NextOf(l, x) \in B \cup {NULL} /\ PreviousOf(l, x) \in B \cup {NULL}
             /\ PreviousOf(l, NextOf(l, x)) = x /\ NextOf(l, PreviousOf(l, x)) = x
        /\ PreviousOf(l, NULL) = NULL => B = {}
    <3>1. /\ \A x \in B \cup {NULL} :
               /\ NextOf(l, x) \in B \cup {NULL} /\ PreviousOf(l, x) \in B \cup {NULL}
               /\ PreviousOf(l, NextOf(l, x)) = x /\ NextOf(l, PreviousOf(l, x)) = x
          /\ \A V \in SUBSET B : /\ PreviousOf(l, NULL) \in V \cup {NULL}
                                 /\ \A x \in V : PreviousOf(l, x) \in V \cup {NULL}
                                 => V = B
      BY ONLY <2>3, LinkedFacts
    <3>2. {} \in SUBSET B OBVIOUS
    <3>3. PreviousOf(l, NULL) \in {} \cup {NULL} /\ (\A x \in {} : PreviousOf(l, x) \in {} \cup {NULL})
          => {} = B
      BY <3>1, <3>2
    <3>. QED BY <3>1, <3>3
  <2>5. /\ \A x \in B : hdr[x].next = NextOf(l, x) /\ hdr[x].previous = PreviousOf(l, x)
        /\ head = NextOf(l, NULL) /\ last = PreviousOf(l, NULL)
    BY <2>1, <2>2, ListKnown
  <2>6. ASSUME NEW b \in B
        PROVE  /\ hdr[b].previous = NULL <=> b = head
               /\ hdr[b].next = NULL <=> b = last
               /\ hdr[b].next # NULL => /\ hdr[b].next \in B
                                        /\ hdr[hdr[b].next].previous = b
               /\ b # NULL
    BY <2>3, <2>4, <2>5
  <2>7. \A b \in B : hdr[b].next # NULL => hdr[b].size <= hdr[hdr[b].next].size
    BY <2>1, <2>2, <2>5 DEF Ascending
  <2>8. B = {} <=> head = NULL BY <2>3, <2>4, <2>5
  <2>. QED BY <2>2, <2>6, <2>7, <2>8
<1>2. Init => HeapInv /\ ListInv BY InitHolds, ListStarts
<1>3. HeapInv /\ ListInv /\ AlignedInBounds /\ [Next]_vars => HeapInv' /\ ListInv'
  BY NextStep, ListNext
<1>. QED BY <1>1, <1>2, <1>3, PTL DEF Spec
=============================================================================
