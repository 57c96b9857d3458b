--------------------------- MODULE MCHeapBlocks ---------------------------
(* TLC instance of HeapBlocks: the real header, footer and slack sizes; 8   *)
(* and 48 byte requests, so that a merged pair of small blocks can be split *)
(* again (48 > 32 + 8 + 4) and a 48 byte block reused for 48; one filler    *)
(* size and one gap.                                                        *)
EXTENDS HeapBlocks

MCSizes == {8, 48}
MCFillers == {1}
MCGaps == {0, 32}
===========================================================================
