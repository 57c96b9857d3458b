------------------------------- MODULE Paging -------------------------------
(***************************************************************************)
(* The kernel's page directory: start_paging and create_new_page_directory  *)
(* of memory/paging.c, the entry functions of memory/page_frame_handler.c,  *)
(* and load_harshfs_kernel_image of initrd/harshfs.c, which the command     *)
(* "harshfs init" calls in the keyboard's handler, also in the middle of    *)
(* start_paging.                                                           *)
(*                                                                         *)
(* Addresses are counted in pages.  A table has ENTRIES entries; behind     *)
(* them stand the two words of its heap block's footer.  The frame list is  *)
(* left out: set_page_frame_state changes a local copy of its word only.    *)
(***************************************************************************)
EXTENDS Integers, FiniteSets, Sequences

CONSTANTS
  ENTRIES,          \* 1024
  IMAGE_START,      \* 0xc0004000, where the image is looked for, in the kernel's window
  HARSHFS_FRAME     \* 0xF0000, the first frame of HarshFS's window

KERNEL == "KERNEL_PAGE_NUMBER"
HARSHFS == "KERNEL_PAGE_HARSHFS_NUMBER"
NULL == 0
USER_MODE == TRUE
KERNEL_MODE == FALSE
WRITEABLE == TRUE

ASSUME PagingConstants ==
  /\ ENTRIES \in Nat \ {0} /\ IMAGE_START \in 0 .. ENTRIES - 1
  /\ HARSHFS_FRAME \in Nat /\ HARSHFS_FRAME > ENTRIES

VARIABLES
  directory,        \* the page directory's entries for the two windows
  tables,           \* the page tables that were allocated, each with its footer's words
  currently_used_directory, \* whether it has been set
  cr3,              \* the active directory
  boot,             \* where start_paging is
  boot_entry,       \* its page_table_entry_counter
  loader,           \* where load_harshfs_kernel_image is
  new_page_table,   \* its table
  entry_counter,    \* its page_table_entry_counter, then how far it has searched or copied
  size,             \* kernel_filesystem_size
  image             \* the pages of its header and footer; before IMAGE_START they are not found

loading == <<loader, new_page_table, entry_counter, size>>
booting == <<boot, boot_entry, currently_used_directory, cr3>>
vars == <<directory, tables, booting, loading, image>>

Absent == [present |-> FALSE, number |-> 0, user |-> FALSE, writeable |-> FALSE]
Table == [i \in 0 .. ENTRIES + 1 |-> Absent]

Init ==
  /\ directory = [w \in {KERNEL, HARSHFS} |-> Absent] /\ tables = <<>>
  /\ currently_used_directory = FALSE /\ cr3 = "boot_directory"
  /\ boot = "entry" /\ boot_entry = 0
  /\ loader = "idle" /\ new_page_table = NULL /\ entry_counter = 0 /\ size = 0
  /\ \E header, footer \in 0 .. ENTRIES - 1 : image = [header |-> header, footer |-> footer]

---------------------------------------------------------------------------
\* kernel_set_page_directory_entry's entry for a new table: the two flags are swapped.
\* Mutant: the table that is there is not looked for.
NewTableAlways(w) == TRUE
NewTable(w) == ~directory[w].present
kernel_set_page_directory_entry(w, user, writeable) ==
  IF NewTable(w)
  THEN /\ tables' = Append(tables, Table)
       /\ directory' = [directory EXCEPT ![w] = [present |-> TRUE, number |-> Len(tables) + 1,
                                                 user |-> writeable, writeable |-> user]]
  ELSE /\ directory' = [directory EXCEPT ![w].user = user, ![w].writeable = writeable]
       /\ UNCHANGED tables

\* Mutant: the flags are swapped here, too.
entry_swapped(t, frame, i, user, writeable) ==
  tables' = [tables EXCEPT ![t][i] = [present |-> TRUE, number |-> frame,
                                      user |-> writeable, writeable |-> user]]
kernel_set_page_table_entry(t, frame, i, user, writeable) ==
  tables' = [tables EXCEPT ![t][i] = [present |-> TRUE, number |-> frame,
                                      user |-> user, writeable |-> writeable]]

---------------------------------------------------------------------------
\* start_paging, to the end of create_new_page_directory.  It runs while no handler does.
boot_directory_entry ==
  /\ boot = "entry"
  /\ kernel_set_page_directory_entry(KERNEL, KERNEL_MODE, WRITEABLE)
  /\ boot' = "table" /\ boot_entry' = 0
  /\ UNCHANGED <<currently_used_directory, cr3>>

\* Mutant: one entry less.
LastFrameShort == ENTRIES - 1
LastFrame == ENTRIES
boot_table_entry ==
  /\ boot = "table"
  /\ IF boot_entry # LastFrame
     THEN /\ kernel_set_page_table_entry(directory[KERNEL].number, boot_entry, boot_entry,
                                         KERNEL_MODE, WRITEABLE)
          /\ boot_entry' = boot_entry + 1 /\ UNCHANGED boot
     ELSE boot' = "activate" /\ UNCHANGED <<tables, boot_entry>>
  /\ UNCHANGED <<directory, currently_used_directory, cr3>>

set_active_page_directory ==
  /\ \/ /\ boot = "activate" /\ boot' = "cr3"
        /\ currently_used_directory' = TRUE /\ UNCHANGED cr3
     \/ /\ boot = "cr3" /\ boot' = "done"
        /\ cr3' = "kernel_directory" /\ UNCHANGED currently_used_directory
  /\ UNCHANGED <<directory, tables, boot_entry>>

start_paging ==
  /\ loader = "idle"
  /\ boot_directory_entry \/ boot_table_entry \/ set_active_page_directory
  /\ UNCHANGED <<loading, image>>

---------------------------------------------------------------------------
\* What an address translates to under the active directory.
Entry(w, i) == tables[directory[w].number][i]
Mapped(w, i) ==
  /\ directory[w].present /\ i < ENTRIES /\ Entry(w, i).present
Translated(w, i) == IF cr3 = "boot_directory" THEN w = KERNEL ELSE Mapped(w, i)

\* A page fault ends the command and, if it was not through, start_paging.
page_fault ==
  /\ loader' = "idle" /\ entry_counter' = 0
  /\ boot' = IF boot = "done" THEN "done" ELSE "abandoned"
  /\ UNCHANGED <<boot_entry, currently_used_directory, cr3, new_page_table, size>>

Go(there) == loader' = there /\ UNCHANGED booting

\* "harshfs init".
load_harshfs_kernel_image ==
  /\ loader = "idle"
  /\ loader' = "entry" /\ entry_counter' = 0 /\ new_page_table' = NULL /\ size' = 0
  /\ UNCHANGED <<booting, directory, tables>>

\* Without a current directory, address 0xf00 is read.
load_directory_entry ==
  /\ loader = "entry"
  /\ IF ~currently_used_directory THEN page_fault /\ UNCHANGED <<directory, tables>>
     ELSE /\ kernel_set_page_directory_entry(HARSHFS, KERNEL_MODE, WRITEABLE)
          /\ new_page_table' = IF NewTable(HARSHFS) THEN Len(tables) + 1 ELSE NULL
          /\ Go("table") /\ UNCHANGED <<entry_counter, size>>

\* The physical address counts from the virtual one.
Frame == HARSHFS_FRAME + entry_counter
\* Mutant: the address is not moved on.
NextStays == entry_counter
NextEntry == entry_counter + 1
\* The bound is the last round's: one entry more than the table has.
\* Mutant: it is one page higher.
LastPageHigh == ENTRIES + 1
LastPage == ENTRIES
load_table_entry ==
  /\ loader = "table"
  /\ IF entry_counter > LastPage
     THEN entry_counter' = IMAGE_START /\ Go("search") /\ UNCHANGED <<tables, new_page_table, size>>
     ELSE IF new_page_table = NULL THEN page_fault /\ UNCHANGED tables
     ELSE /\ kernel_set_page_table_entry(new_page_table, Frame, entry_counter,
                                         KERNEL_MODE, WRITEABLE)
          /\ entry_counter' = NextEntry
          /\ UNCHANGED <<booting, loader, new_page_table, size>>
  /\ UNCHANGED directory

\* The header's magic number, then the footer's, page by page.
search ==
  /\ loader \in {"search", "measure"}
  /\ LET sought == IF loader = "search" THEN image.header ELSE image.footer IN
     IF ~Translated(KERNEL, entry_counter) \/ entry_counter >= ENTRIES THEN page_fault
     ELSE IF entry_counter # sought
     THEN /\ entry_counter' = entry_counter + 1
          /\ size' = IF loader = "measure" THEN size + 1 ELSE size
          /\ UNCHANGED <<booting, loader, new_page_table>>
     ELSE IF loader = "search" THEN Go("measure") /\ UNCHANGED <<entry_counter, new_page_table, size>>
     ELSE Go("copy") /\ size' = size + 1 /\ entry_counter' = 0 /\ UNCHANGED new_page_table
  /\ UNCHANGED <<directory, tables>>

\* memory_copy, from IMAGE_START on, wherever the header was.
memory_copy ==
  /\ loader = "copy"
  /\ IF entry_counter = size THEN Go("idle") /\ entry_counter' = 0 /\ UNCHANGED <<new_page_table, size>>
     ELSE IF ~(Translated(KERNEL, IMAGE_START + entry_counter) /\ Translated(HARSHFS, entry_counter))
     THEN page_fault
     ELSE entry_counter' = entry_counter + 1 /\ UNCHANGED <<booting, loader, new_page_table, size>>
  /\ UNCHANGED <<directory, tables>>

Loader == (load_directory_entry \/ load_table_entry \/ search \/ memory_copy) /\ UNCHANGED image

Next == start_paging \/ Loader \/ (load_harshfs_kernel_image /\ UNCHANGED image)

Spec == Init /\ [][Next]_vars
\* The handler runs on.
FairSpec == Spec /\ WF_vars(Loader)

---------------------------------------------------------------------------
Windows == {KERNEL, HARSHFS}
EntryType ==
  [present: BOOLEAN, number: 0 .. HARSHFS_FRAME + ENTRIES + 1, user: BOOLEAN, writeable: BOOLEAN]
TypeOK ==
  /\ directory \in [Windows -> EntryType]
  /\ tables \in Seq([0 .. ENTRIES + 1 -> EntryType])
  /\ currently_used_directory \in BOOLEAN /\ cr3 \in {"boot_directory", "kernel_directory"}
  /\ boot \in {"entry", "table", "activate", "cr3", "done", "abandoned"}
  /\ boot_entry \in 0 .. ENTRIES
  /\ loader \in {"idle", "entry", "table", "search", "measure", "copy"}
  /\ new_page_table \in 0 .. Len(tables) /\ entry_counter \in 0 .. ENTRIES + 1
  /\ size \in 0 .. ENTRIES
  /\ image \in [header: 0 .. ENTRIES - 1, footer: 0 .. ENTRIES - 1]

(***************************************************************************)
(* No page of the kernel's windows is open to user mode, although the       *)
(* directory's entries are: a new table's entry gets its two flags swapped, *)
(* and only the tables' entries keep user mode out.                         *)
(***************************************************************************)
KernelPagesNotUser ==
  \A w \in Windows, i \in 0 .. ENTRIES - 1 :
    Mapped(w, i) => ~(directory[w].user /\ Entry(w, i).user)

(***************************************************************************)
(* The directory that cr3 is given maps the whole kernel window, each page  *)
(* to its frame: the code that switches goes on in it.                      *)
(***************************************************************************)
WindowWhole ==
  cr3 = "kernel_directory" =>
    \A i \in 0 .. ENTRIES - 1 : Mapped(KERNEL, i) /\ Entry(KERNEL, i).number = i

(***************************************************************************)
(* A page that is mapped stays mapped to its frame, whenever and however    *)
(* often "harshfs init" is typed: the second time there is no table to      *)
(* write to.                                                               *)
(***************************************************************************)
MappedStays ==
  [][\A w \in Windows, i \in 0 .. ENTRIES - 1 :
       Mapped(w, i) => Mapped(w, i)' /\ Entry(w, i)'.number = Entry(w, i).number]_vars

(***************************************************************************)
(* The entry too many that load_harshfs_kernel_image writes stops in the    *)
(* first word of the footer of its own table's heap block, and the kernel's *)
(* table is not overrun.                                                   *)
(***************************************************************************)
OverrunInFooter ==
  \A t \in DOMAIN tables :
    /\ ~tables[t][ENTRIES + 1].present
    /\ t = directory[KERNEL].number => ~tables[t][ENTRIES].present

(***************************************************************************)
(* "harshfs init" comes to an end, with or without an image in memory and   *)
(* whenever it is typed: its searches have no bound but the window's end.   *)
(***************************************************************************)
HarshfsInitEnds == loader # "idle" ~> loader = "idle"
=============================================================================
