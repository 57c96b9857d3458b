--------------------------- MODULE MCKernelHeap ---------------------------
(* TLC instance of KernelHeap with the real header, footer and slack sizes. *)
(* A freed 64 byte block is split by a 16 byte request (64 > 48 + 4), what  *)
(* is left is a 16 byte block again, and two merged 16 byte blocks make a   *)
(* 64 byte block.  A page of 96 bytes stands for one of 4096, so that a few *)
(* blocks cross it: a page-aligned request then starts on a boundary (with  *)
(* a filler of 40 bytes), needs a filler of 16, or skips 0 or 24 bytes.     *)
EXTENDS KernelHeap

MCSizes == {16, 64}
MCFillers == {16, 40}
MCGaps == {0, 24}

(* With the real page size, 8 byte requests split a freed 48 byte block;    *)
(* 4048 bytes leave 16 before the next page boundary.                       *)
SmallSizes == {8, 48}
PageTailSizes == {8, 4048}
NoGaps == {0}
PageFillers == {4040, 16}
===========================================================================
