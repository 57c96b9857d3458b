# HarshOS in TLA+

HarshOS is a 32-bit x86 hobby kernel: boot sectors, a higher-half kernel,
interrupts, a text screen, a keyboard-driven shell, a heap with a linked list of
blocks, paging, and an initial file system image built on the host. This
directory models the parts of it whose correctness depends on the order of
things or on a boundary: the heap, interrupts with boot and the shell's place in
them, the shell's line editor, the screen, paging with the file system's loader,
and the image builder.

## 1. Inventory

| Part | State | Operations | Hard behaviour | What makes it correct | Modelled in |
|---|---|---|---|---|---|
| Kernel heap `memory/kernel_heap.c` | headers and footers in memory, `HEAP_LINKED_LIST_HEAD/_LAST`, `mallocable_address` | malloc, calloc, their page-aligned forms, free, sort, merge | any sequence of splits, merges and page-aligned requests; aliased and stale links; restarting loops | blocks of two owners do not overlap and are big enough; no live block is moved or swallowed; no memory or block is lost; calls return | `HeapBlocks`, `KernelHeap` |
| Bump allocator `memory/kernel_malloc.c` | `mallocable_address` | none is called any more | shared with the heap | see the heap | `KernelHeap` |
| Interrupts `cpu/` | IF, PIC registers, IDT, `interrupt_handlers`, kernel stack | install, deliver, EOI, dispatch, iret, exception, abandon | `sti` before handlers exist; lines without handler; exceptions inside handlers; EOI before the handler | PIC never left blocked; handlers present when needed; keys are served | `Interrupts` |
| Boot `kernel/kernel.c` | how far it is | setup_interrupts .. init_kernel_shell | runs with interrupts on, so the shell may run in the middle of it | heap and paging are not entered twice; boot completes | `Interrupts`, `Paging`, `Screen` |
| Shell `drivers/os_shell.c`, keyboard `drivers/keyboard.c` | `buffer`, `buffer_length`, history ring, `OS_MODE`, shift state | letters, backspace, Enter, Up/Down, 22 commands | runs whole inside IRQ1; commands that fault, halt or wait; ring shifts; scancodes that are letters' codes | the line and the history are those typed; the row shows the line; commands get their arguments | `Shell`, `Strings`, `Interrupts` |
| String helpers `helper/string.c` | none | length, comparison, words of a line, conversions | two pointers and a counter over runs of spaces | a word is found, and nothing from behind the string | `Strings` |
| Timer `cpu/timer.c` | `tick`, `number_of_timer_cycles` | callback, `wait_ms` | waits with interrupts off | the wait ends | `Interrupts` |
| Screen `drivers/screen_control.c`, cursor `drivers/cursor.c` | video memory, cursor registers, the port's selected register | print, scroll, erase, backspace, move | two-step register access, prints from boot and from IRQ1 | prints stay in the screen's memory; a lost cursor comes back | `Screen` |
| Paging `memory/paging.c`, frames `memory/page_frame_handler.c` | directory, tables, `frame_free_list` | create, set entry, set table, free entry, find frame | entries that exist or not, swapped flags, a handler in the middle | the kernel's window is whole; no mapped page is lost; no kernel page is open to user mode | `Paging` |
| HarshFS loader `initrd/harshfs.c` | directory entry and table of the image | load, read | load during boot, second load, the table's end, unbounded searches | it does no harm and ends | `Paging` |
| Image builder `initrd/create_kernel_initrd.c` (host) | linked nodes, node addresses, sizes | add file, add directory, create, write and read the image | an addition that fails half-way; addresses given after the increment; sizes counted twice | the image holds the tree that was built, in its memory | `HarshfsImage`, `HarshfsTree` |
| Boot sectors, disk and PCI stubs, scripts | - | - | straight-line, or empty files | - | not modelled |

How the parts meet. The PIC interrupts kernel_main or the idle loop;
`interrupt_request_pic_handler` sends the EOI and calls the handler of the line;
the keyboard's handler calls the shell, which allocates a history entry on the
heap and runs the command, all in the interrupt with interrupts off. A command
may raise an exception: `interrupt_service_request_handler` then, in shell mode,
jumps to `clear_current_caused_kernel_interrupt`, which enables interrupts and
loops for ever on top of the abandoned frames; in user mode it halts. Boot uses
the same heap with interrupts on (`start_paging`). There are no threads: all
concurrency is between kernel_main and interrupt handlers, and of handlers with
exceptions.

## 2. Modules

| Module | Models | Runs |
|---|---|---|
| `HeapBlocks` | what the heap promises, as a set of blocks with sizes and owners | `MCHeapBlocks` |
| `KernelHeap` | `kernel_heap.c` pointer by pointer; implements `HeapBlocks` | `MCKernelHeap*` |
| `Interrupts` | one CPU, two PICs, boot, IRQ and exception handlers, the shell as they see it | `MCInterrupts*` |
| `LineHistory` | what the line editor promises: a line, the last lines, a place among them | through `Shell` |
| `Shell` | keyboard and shell, key by key, with the buffer, the array and its indices; implements `LineHistory` | `MCShell` |
| `Strings` | the string functions the commands take a line apart with, and their reference definitions | through `Shell` |
| `Screen` | screen and cursor, one port access of kernel_main at a time | `MCScreen` |
| `Paging` | start_paging, the page directory and its tables, the HarshFS loader | `MCPaging` |
| `HarshfsTree` | what the image builder promises of its tree | through `HarshfsImage` |
| `HarshfsImage` | the builder's linked nodes and the image's layout, writing and reading; implements `HarshfsTree` | `MCHarshfsImage*` |
| `HeapBlocks_proofs`, `KernelHeap_proofs`, `Interrupts_proofs`, `Shell_proofs`, `Screen_proofs`, `Paging_proofs`, `HarshfsTree_proofs`, `HarshfsImage_proofs` | the theorems of section 4 | tlapm |

### HeapBlocks
`blocks` are header addresses, `size` their `heap_entry_size`, `asked` what the
owner of each used block asked for, `top` is `mallocable_address`. `Grow` is
`insert_heap_entry` (with the gap that a page-aligned request may skip), `Split`
and `Reuse` the two branches of `find_empty_heap_entry`, `Release` the
`is_used = FREE` of `kernel_heap_free` and of a filler block, `Merge` is
`merge_two_heap_entries_linked_list`. `SIZES`, `FILLERS`, `GAPS` and `LIMIT` bound
what is requested; the code has no upper bound.

### KernelHeap
`hdr` and `ftr` are memory: the header, or the footer's `header_location`, at an
address. A call is a stack of loops; each iteration of a loop of the code is one
step (`find_empty_heap_entry`, `sort_heap_entry_linked_list`,
`merge_heap_entries_in_entire_linked_list`, `FreeSearch`), so a list that has a
cycle shows as a loop of the model. The list functions write through pointers in
the order of the code, so that aliased pointers behave as in memory.

The list can come to hold addresses of headers that a merge has zeroed. While
their bytes are known (zeros) the model follows them; when the bytes have been
handed to an owner or overwritten the address becomes `stale`, and a call that
follows it ends in `GoWild`: the model makes no claim about what comes then, it
only counts as a call that has not returned. `kernel_heap_free` accepts any
address that has ever been a header, so double frees are included. A loop that
sorts twice in a row (after a merge) is modelled with one sort.

The refinement `ImplementsHeapBlocks` takes as blocks the headers that footers
name: whatever the linked list has become, the code only ever grows, splits,
reuses, releases and merges blocks as `HeapBlocks` allows.

### Interrupts
`stack` holds the activations, the running one first, each with its next step
and the flag its `iret` restores; `enabled` is IF. Boot is the sequence `sti`,
`init_timer`, `init_keyboard`, `setup_interrupts`, `start_paging`,
`create_new_page_directory`, `init_kernel_shell`. `insert_heap_entry` is split into
loads and stores of `mallocable_address`, as the unoptimised build
(`CFLAGS` has no `-O`) compiles it; the block's list links and reuse are left to
`KernelHeap`. A NULL handler is called all the same: address 0 is unmapped by
`start_kernel.s`, so that is a page fault, which abandons what was running.
`clear_current_caused_kernel_interrupt` drops the frames below it, which are never
run again. The shell is reduced to whether its line is empty and to what a
command does to the machine (`Effects`); the line itself is `Shell`'s. A command
that reads a wrong address is the effect "exception"; `jump`, which runs whatever
lies at a fixed address, is not modelled beyond that. The page fault of Up on an
empty history does to the machine what a command's exception does; it is a key of
`Screen`, and in `Shell` the prompt it ends in.

### Shell, LineHistory and Strings
One action per key, since the handler runs with interrupts off: `letter_key`,
`enter_key`, `up_key`, `down_key`, `backspace_key`, `cursor_key` (tab, left, right)
and `shift`. `buffer` and `buffer_length` are the code's; `Memory` is the buffer as the
string functions see it and `String(from)` the string in it. The history is the array
of pointers with `index_for_instruction_history_buffer` and
`current_index_for_instruction_history_buffer`; an entry is the line its pointer shows.
`shown` is the part of the row from the prompt to the cursor as long as the line fits
the row and the cursor has not been moved out of it, and `AWAY` after that.
`recalled` remembers whether Up or Down has brought a line, since `memory_copy` leaves
behind that line's end whatever the buffer held. A typed `H` or `P` has the code of
`UP` or `DOWN` (`keyboard.h:13`) and is an arrow.

The model stops typing at `BUF - 2` characters (254); the code does not. What lies
behind `buffer` is the linker's choice.

`LineHistory` has a line, the sequence `past` of at most `MAX` lines, and a place `at`.
`ImplementsHistory` maps `past` to the array below its index and `at` to the current index
plus one.

`Strings` has `string_length`, `BeginsWith` (`string_compare_fixed_length`), and
`parse_string_spaces`, whose outer loop is a recursive function of its rounds; `Word` is
its reference definition.

### Screen
kernel_main prints with interrupts on, so each of its accesses to the select and the data
port is a step (`select_register`, `read_register`, `write_register`), as are the loop of
`kernel_print_string_at` (`print_single_char`, `next_message`) and `clear_screen`. The
handler of a key is one step between any two of them and is a composition of the
functions that it calls (`print_char`, `backspace`, `tab`, `move_next_line`, ...), each from one
screen record to the next; it leaves the select port as its last access set it, which is
where kernel_main goes on. A key's print (`kernel_print_string`) is a recursive function over
the letters of its text. Places are cells, half of the code's byte offsets. Of the
characters only newline and "some other" are told apart. `drawn` is the set of cells that prints
have written in the last step, where `print_single_char` writes them, before any scroll; `erased` the
cells backspace or `shell_erase_line` wrote. `text` is where the characters of the step's last
`kernel_print_string` stand when it returns: each character is added at its cell, and each
scroll moves all of them as the loop of `memory_copy` does (`Scrolled`). What stood
on the screen before that print is not followed. A command prints one of `OUTPUTS` and returns, or
ends in an exception and takes kernel_main with it. Up and Down print one of `LINES`
(`recall_key`), Down may bring nothing, after the row was erased (`down_to_nothing`), and Up with
no history reads through a null pointer, a page fault once the identity mapping is gone
(`up_to_nothing`).

### Paging
`start_paging` and `create_new_page_directory` are one step per entry;
`load_harshfs_kernel_image` is a handler, so `start_paging` waits while it runs and it may
start between any two steps of boot. Addresses are counted in pages. A table has its
`ENTRIES` words and the two words of the heap block's footer behind them, because the
loader's loop has `<=`. `Translated` is what the hardware would find under the active
directory; where it finds nothing `page_fault` ends the command and, if boot was in
progress, abandons boot (see `Interrupts`). `kernel_set_page_directory_entry` includes
the allocation of the table; the heap it comes from is taken to give zeroed, separate
blocks, which `HeapBlocks` promises as long as its calls do not overlap: what an Enter
in the middle of an insertion does is `interrupts_heap`. The image is the two pages on
which its header and footer begin, anywhere in the window or before the place where the
search begins.

### HarshfsImage and HarshfsTree
Nodes are numbered in the order they are linked; the links, `ROOT_NODE_ADDRESS`'s list
(`addresses`) and the three counters are the code's. `add_node` is `add_file` and
`add_directory` with everything they call (`FILE_NAME_EXISTS`, `insert_harshfs_node`, `set_node`,
`add_node_address`); any node that was returned to the caller can be a parent, a file too, since
`insert_harshfs_node` does not look at the parent's type. `add_invalid` is the path on which the data
is refused after the node has been linked: `set_node` frees it, `insert_harshfs_node` frees it again
and returns, and nothing unlinks it. The second free either ends the program ("aborted") or is let pass, as under valgrind, with which `Makefile:120` runs it: then the
freed memory is not handed out again, the node keeps its bytes, its name stays taken, later
siblings are hung behind it, and `get_node_address` finds no address for it and writes 0 for every pointer
that leads to it. Both are modelled; an allocator that lets the second free pass and hands the
memory out again, so that one address is two nodes, is not. The image is
kept as what was written where: node slots, data regions, footer. `image_node` is one
round of `creating_image`'s loop, `read_harshfs_image` one of the reader's. main adds what the
constants allow, in any order, and not only what is written in its source.

`HarshfsTree` has names, for each node the numbers of its children, and which nodes were
`refused`: those are children, and keep their names, but nothing is ever added to them.

## 3. Runs

| Run | Expect | Bounds | Shows |
|---|---|---|---|
| `heap_blocks` | pass | sizes {8, 48}, filler 1, gaps {0, 32}, 240 bytes of heap | the abstract heap's invariants: blocks disjoint, payloads fit, no lost space, live blocks stay |
| `kernel_heap` | pass | sizes {16, 64}, page 96, 276 bytes | refinement, sound footers, used = owned; the list is whole until the first split; calls return until the first split |
| `kernel_heap_sort` | violation | sizes {8, 48} | after a split and an insertion the sort may never end |
| `kernel_heap_page` | violation | sizes {8, 4048}, page 4096 | a page-aligned request moves the bump pointer back into a live block |
| `interrupts` | pass | timer, keyboard and one unclaimed slave line; 1 boot block, 3 blocks in all | PICs never blocked, handlers there when needed, heap not re-entered after boot, keys are read |
| `interrupts_heap` | violation | 2 boot blocks, 3 in all | an Enter during boot's insertion: overlapping blocks |
| `interrupts_paging` | violation | as above, all commands | "Paging Initialization has already been completed" is printed when it has not |
| `shell` | pass | keys h and space, shift-h is H, the code of Up; 6 bytes of buffer, rows of 2, history of 2; commands hh and h | refines `LineHistory`; Up and Down read lines; the row ends the line; arguments are those typed; words are found |
| `screen` | pass | 3 x 3 cells, registers of 4 values, prompt 1; two messages; recalled lines of 0, 2 and 8 letters | no print outside the screen's memory, Enter recovers the cursor, keys keep it, what a key prints stands before it after any scrolls |
| `paging` | pass | tables of 5 entries, image anywhere | the window is whole when it is switched to, nothing mapped is lost, no kernel page is open, the overrun is harmless, the loader ends |
| `harshfs_image` | pass | names a, b, c; data of 0 and 3 bytes; 4 nodes of 10 bytes | refines `HarshfsTree`, also behind a refused node; the image holds the tree inside its memory; reading it lists each node once; the program ends |
| `harshfs_image_pointers` | violation | names a, b; 2 nodes | a pointer of the image is not the address of the node it means |

Why the bounds suffice. Header, footer and slack have their real sizes (24, 8, 4).
In `kernel_heap` the sizes are chosen so that each branch is taken: 64 > 16 + 32 + 4
is split by 16, the rest is again a 16 byte block, and 16 + 32 + 16 makes 64, so
a merged pair can be split again; the heap holds up to five blocks, enough for
a middle, a first and a last entry on both sides of a swap or merge. A page of 96
bytes stands for 4096 so that a few blocks cross it; the case of fewer than 24
bytes left on a page is not reached with these sizes and is what
`kernel_heap_page` shows with the real page. In `interrupts` a block is three
bytes: what matters is whether two overlap. Three blocks are enough for one of
boot and two of the shell. `WAIT` is 0, so that one counted tick would end a wait.

In `shell` (about 0.9 million states) the row is shorter than the line, so that lines end
in it, fill it and run over it; four characters are enough for a command, its space and
an argument behind it, for a line that is recalled over a longer one, and for two words
with one or two spaces between them; of two kept lines the third one forgets the first, and
Up and Down go over each end. In `screen` the cells need two registers with several
values of the high one, and registers reach 16 places of which 9 are on the screen, as
65536 and 2000 in the machine: bytes of two prints put together are on the screen and
off it. In `paging` five entries leave room for a header before, at and behind
`IMAGE_START` and a footer before and behind it; all counters run as in a table of 1024. In
`harshfs_image` four nodes make each shape with up to three children or levels, three
names collide with parent and sibling, and data is absent, empty, present or refused.
The theorems of section 4 show every invariant, action property and refinement of the
passing runs for every value of the constants, those of the pointer-level heap under the two
hypotheses named there. Only the liveness properties rest on the runs alone.

Deadlock is checked except where the system may stop: the abstract heap at `LIMIT`, the
machine after `hlt`, the image builder whose main has returned.

Fairness. `KernelHeap` assumes that a call that has work goes on (weak fairness of
`Work`): heap code is not preempted for ever. `Interrupts` assumes that the CPU
executes (weak fairness of `Execute`) and that the keyboard's interrupt is taken
if it can be again and again (strong fairness of its delivery): the only other
regular interrupt is the timer, and `init_timer(1000000000)` computes a divisor of 0,
the PIT's slowest rate of about 18 ticks a second. `HarshfsImage` assumes that main runs on
(weak fairness of `Main`: laying out, writing, reading, freeing; it does not have to add
nodes). `Paging` assumes that the handler runs on (weak fairness of `Loader`: nothing
preempts it); boot gets no fairness. `Shell` and `Screen` have safety properties only.

What the violations mean. The split in `find_empty_heap_entry` (lines 172-211) does
not set the old next entry's `previous` nor `HEAP_LINKED_LIST_LAST`. The next
insertion, which appends at `HEAP_LINKED_LIST_LAST`, then overwrites a link and the rest of the
list is lost, and after some swaps the list can be a cycle. This is the reason for the TODO at line 467
("tested more rigourously and fails"). All runs together show that the damage is
confined to the list: blocks in use are never overlapped through it, as long as
calls do not follow stale addresses.

`harshfs_image_pointers`: `add_file` and `add_directory` move `filesystem_address` on before
`add_node_address` records it (`create_kernel_initrd.c:260`), so that a pointer in the image is the
address behind the node it means; `harshfs.h:53-56` and the listing, which prints a slot's start
as CURRENT_NODE (lines 414, 515), take it for the node's own. A reader that follows it finds
the next slot. All pointers are too high by the same amount, and `ImageHoldsTree` says
that this is all that is wrong with them: take one amount off each, and the pointers of every slot lead
to the slots of the nodes meant.

What holds more narrowly than one may expect. Some properties are stated as the code
keeps them, and the difference is worth knowing:

- A refused node. `TreeStands` and `ImplementsTree` count it among the nodes, since the code leaves
  it linked: its name stays taken though no file of that name exists, and in the image its older
  sibling (or its directory) has the pointer 0, so that the younger siblings behind it
  have slots but are not reached from the directory; theirs lead back.
- Arguments. After a recalled line a command without arguments reads the rest of a
  longer line that was in the buffer; `ArgsAreTyped` stops at `recalled`.
- A line that ends exactly at the row's end is not erased by Up and Down: the cursor is in
  the prompt's columns of the next row (`screen_control.c:64`). `shown` is `AWAY` then.
- Words of one letter are not found: `parse_string_spaces` returns -1 for a word whose
  first and last character coincide (`WordsOfString`).
- Flags. The entry for a new page table gets user and writeable swapped
  (`page_frame_handler.c:80`), so the kernel's directory entries are open to user mode;
  only the tables' entries keep it out, which is `KernelPagesNotUser`.
- `harshfs init`. The loader searches for the header and then copies from 0xc0004000,
  wherever the header was. A second one faults at page 0 because there is no new table,
  which is why it cannot damage the first one's.
- Off the screen, after tab, right, or a cursor torn in boot, backspace and
  `shell_erase_line` write where the cursor is; `KeysKeepCursor` therefore starts from
  a cursor on the screen.
- `does_heap_entry_exist` is asked for an address that may have been absorbed by the free just
  before (`kernel_heap.c:589`); the heap commands' walks are not in the model.

Not visible in a property: `wait_ms` spins with interrupts off on a counter that
only the timer's interrupt moves, so the command never returns and the machine
takes no more keys; `KeysAreRead` counts it with the halted machine.

## 4. Proofs

For all values of the constants under the modules' named assumptions:

| Module | Theorem | States |
|---|---|---|
| `HeapBlocks_proofs` | `InvHolds` | `Spec => []HeapInv` |
| | `TypeCorrect`, `BlocksDisjoint`, `PayloadsFit`, `SpaceAccounted` | `[]TypeOK`, `[]Disjoint`, `[]PayloadFits`, `[]NoLostSpace` |
| | `LiveBlocksStay` | `Spec => LiveStays` |
| `KernelHeap_proofs` | `InvHolds` | `Spec /\ []AlignedInBounds => []HeapInv` |
| | `TypeCorrect`, `FootersAreSound`, `MarksFollowOwners`, `OwnersStayApart` | `Spec /\ []AlignedInBounds` implies `[]TypeOK`, `[]FootersSound`, `[]UsedIsOwned`, `[]OwnersApart` |
| | `Refinement`, `LiveBlocksStay` | `Spec /\ []AlignedInBounds` implies `ImplementsHeapBlocks`, `A!LiveStays` |
| | `ListIsWhole` | `Spec /\ []AlignedInBounds => []ListWhole` |
| | `RoomIsEnough` | `Spec /\ []HeaderFits => []AlignedInBounds` |
| `Interrupts_proofs` | `MachineInvHolds` | `Spec => []MachineInv` |
| | `InterruptsTypeCorrect`, `PicsNeverBlocked`, `HandlersThere`, `ShellBlocksStayApart` | `[]TypeOK`, `[]InServiceOnlyBeforeEoi`, `[]HandlersMeetTheirLines`, `[]ShellBlocksApart` |
| `Shell_proofs` | `ShellInvHolds` | `Spec => []ShellInv` |
| | `ShellTypeCorrect`, `HistoryIsFilled`, `RowEndsLine`, `ArgumentsAreTyped` | `[]TypeOK`, `[]HistoryFilled`, `[]ShownEndsLine`, `[]ArgsAreTyped` |
| | `HistoryImplemented` | `Spec => ImplementsHistory` |
| | `PlaceStaysInPast`, `ShellPlaceInPast` | `Lines!Spec` and `Spec` imply `[]Lines!PlaceInPast` |
| | `WordsAreFound` | `Spec => []WordsOfString` |
| `Screen_proofs` | `Invariant` | `Spec => []ScreenInv` |
| | `Types`, `PrintsStay` | `[]TypeOK`, `[]PrintsOnScreen` |
| | `EnterFinds`, `KeysKeep`, `PrintStands` | `Spec` implies `EnterRecovers`, `KeysKeepCursor`, `PrintBeforeCursor` |
| `Paging_proofs` | `PagingInvHolds` | `Spec => []PagingInv` |
| | `PagingTypeCorrect`, `KernelPagesClosed`, `WindowIsWhole`, `OverrunStops` | `[]TypeOK`, `[]KernelPagesNotUser`, `[]WindowWhole`, `[]OverrunInFooter` |
| | `MappedPagesStay` | `Spec => MappedStays` |
| `HarshfsTree_proofs` | `TreeInvHolds` | `Spec => []TreeInv` |
| `HarshfsImage_proofs` | `TreeHolds`, `ImageInvHolds` | `Spec => []TreeInv`, `Spec => []ImageInv` |
| | `TreeRefinement` | `Spec => ImplementsTree` |
| | `TreeIsSound`, `ImageTyped`, `ReadingIsInOrder` | `[]TreeStands`, `[]TypeOK`, `[]ReadsSlotsInOrder` |
| | `ImageIsApart`, `ImageIsTree` | `[]AreasApart`, `[]ImageHoldsTree` |

Assumptions. `HeapConstants`: natural sizes and limits, positive header and footer, gaps
of at most a header and a footer. `KernelHeapConstants`: the same for the pointer-level
heap, with a first address that is not NULL and a page longer than two headers and a footer;
its theorems have two hypotheses, explained below. `InterruptConstants`: the lines raised are among
32 .. 47 without the cascade's, the commands among `Effects`, positive header, payload and
footer. `ShellConstants`: a buffer, a row and a history of at
least one place, no key for NUL, names of commands that fit a line. `PagingConstants`:
a table of at least one entry, `IMAGE_START` in the window, HarshFS's frames behind the
kernel's. `ImageConstants`: natural sizes and base, a node longer than a magic number.
`ScreenConstants`: at least one column and two rows (after a scroll the cell in front of the
cursor is in the row above), registers wide enough for the screen's places, a prompt that fits a
row, texts of letters and newlines, and recalled lines of letters. The code has 80 columns, 25 rows and bytes.

The heap. The four invariants are inductive only together (`HeapInv`):
disjointness of a split needs the type of sizes and the extent of the block that
is split; that a merge loses no space needs disjointness, because the block behind the
absorbed one must not be the one that absorbs it; that a merge keeps a neighbour of every
block needs the absorbed block to be the only one at its address. `GrowInv`, `SplitInv`,
`MergeInv` and `OwnerInv` prove the step of each action, `SplitIsInside` is the
arithmetic of a split, `NextInv` combines them. `LiveBlocksStay` is an action property
that follows from `HeapInv`: a merge takes two free blocks, a split a free one.

The pointer-level heap. What a split does to the list (section 3) makes it impossible to say
anything of the list's shape for good; so `HeapInv` says nothing of it. An operation on the list
only writes `next` and `previous` of headers that are known (`PointersOnly`, which
`RemoveData`, `SwapData` and `AddLastData` prove), and a pointer out of a damaged list is
treated as any address at all. What the code does to sizes, marks and footers is then proved
from `MemoryInv`: the abstract invariant `A!HeapInv`; that each footer names the block it
ends, each header its payload; that a block is USED iff it is owned; and `GhostsInside`, that
a header which is no block's any more lies in some block's payload and reads as zeros. The
last one is what lets a damaged list be followed safely: such an entry is FREE, has size 0
and location NULL, so it is too small for any request, is never the entry to free, and has no
footer below it to be merged by. `CallInv` lists the loops that can be on a call's stack and
what they rely on (the size asked for, the filler that is still owned). One group of lemmas
maps each change of memory to an action of `HeapBlocks` (`Grows`, `Splits`, `Takes`,
`Frees`, `Merges`, and `MemoryKept` for the pointers), one lemma per action adds the control, and
`NextStep` gives the invariant and the refinement together.

The list before the first split. `ListInv` is the second invariant of `KernelHeap`, inductive
with `HeapInv`: as long as `cut` is false, the links join all blocks, and no call has followed a
pointer out of the list (`~In("wild")`). A list is spelled by no variable of the code, and
what a walk from the head reaches is a recursion, which cannot be proved about here. So the
list is described by its links alone: HEAP_LINKED_LIST_HEAD and HEAP_LINKED_LIST_LAST are the
next and the previous of NULL, and with NULL the blocks form a circle in which next and
previous are inverse (`Circle`). That alone would also allow a second circle beside the
first; a rank that grows along the links excludes it, and `CircleWhole` is what it is for: a
set of entries that contains, with each entry, the one in front of it, is all of them. The rank
of an appended entry is the bound of all ranks, two swapped entries swap their ranks, and a
removed entry takes its rank along (`CircleAdds`, `CircleSwaps`, `CircleDrops`; `LinkedAddLast`,
`LinkedSwap`, `LinkedRemove` carry them over to the code's writes through pointers, which
may go to one header twice). Order is the other half. An insertion and a merge put an entry at the
end, out of order, so in a sort only the part that its scan has behind it is known to be
ascending (`Passed`); a swap starts the scan again with nothing behind it, and a scan that
has come to NULL has, by `CircleWhole`, all blocks behind it. Every other loop begins where a
sort has ended, which is what `LoopStacks` says of the calls. Memory comes in twice: a merge
zeroes the bytes between two blocks, and by `MergeLaidOut` no third header lies there
(`MergedLinked`), and an insertion overwrites none (`FreshMemory`).

The two hypotheses are facts about callers that the code does not check. `0 \notin SIZES`:
`kernel_heap_malloc` takes any size, and the shell's heap command any number. With 0 among
the sizes TLC finds the refinement and `TypeOK` violated, after a split, a merge and a lost
link: the search comes upon a zeroed former header, which fits a request for 0 bytes, and
hands it out (its location is NULL) inside of a block that is free. `AlignedInBounds` says
that a page-aligned request finds room for its header below the page boundary; what happens
otherwise is `kernel_heap_page`. `OwnersStayApart` shows that this is the only way for
owners to overlap, and `RoomIsEnough` that with all fillers and gaps allowed the
hypothesis means no more than that.

The interrupts. `MachineInv` says what the kernel stack looks like at each moment
(`StackOK`): kernel_main or the spin loop at the bottom, an IRQ handler only directly above
it, and of the frames that wait none before its EOI, and none but boot in the heap. That
needs to know when the flag is up (`FlagOK`: only in boot behind its `sti`, and in the spin
loop), which in turn needs the frames' flags. From the two it follows that an EOI empties
both in-service registers (`EoiEmpties`), and that what an exception abandons has nothing
in service. `HandlersSet` ties the handlers' table to boot's progress, also when boot is
abandoned. `BlocksOK` and `InsertOK` follow `mallocable_address` through the loads and
stores of an insertion once boot is over, when nothing can come in between; during boot
they claim nothing, which is right: `interrupts_heap` shows overlapping blocks there. The
CPU's and the stack's steps have a lemma each (`FramePushed`, `HandlerGoesOn`, `BootGoesOn`,
`IretStep`, `ExceptionEnds`, `InsertStep`), and the actions are instances of them.

The shell. None of the properties is inductive: what a key does depends on where the
string in the buffer ends and on which entries of the array hold lines. `ShellInv` says
that there are characters before `buffer_length`, a NUL at it and in the last byte
(`Text`), that the array holds lines that fit the buffer below its index and nothing
above (`Filled`), that nothing is behind the line until one is recalled (`Clean`), and that
the row shows an end of the line. `StringIsLine` connects the string functions with the
line. Each action has a lemma that gives `ShellInv'` and the abstract step
(`EnterStep`, `UpStep`, `DownStep`, `TypeStep`, `BackspaceStep`, `StillStep`), so the
invariant and the refinement are one argument; `HistoryShifts` is the case of the full
array, where the loop's last round reads behind it.

The words. `parse_string_spaces` is a recursive function of its rounds, defined by CHOOSE; that
there is such a function, and which one, is not given. `Iterates` says that a step from
states to states can be repeated (by `Induct`, see the image builder, over how often), so the
recursive function exists; a second use of `Induct` shows that any other agrees with it
(`RoundsAre`). What a round keeps is `Rounded`. The spaces of a string, with its two ends, are its cuts, and `Rank` counts
the cuts in front of one; after round i the pointers stand at the cut of rank i and the
one before it (`AtCut`), because no cut lies between where a round starts and where it stops
(`NextCut`). Behind the last cut the round finds nothing more: its `string_size` is below 0
or its two pointers have not moved apart, and both end in -1. This holds for any buffer with
a NUL at its end (`WordFound`), and `Text` says that the shell's is one.

`PlaceInPast` is what `LineHistory` keeps: the place in the history or right behind it, and no
empty line in it. `ShellPlaceInPast` is that theorem over the refinement.

The screen. `ScreenInv` is the types, `PrintsOnScreen`, and that what is left to print are texts.
It does not say that the cursor is on the screen: tab, right and accesses torn in boot take it off.
The arguments are about places: a print looks at the place it reads and writes only below
CELLS (`DrawnOnScreen`), and a place on the screen goes to one on the screen, with the scroll or
without (`NextFacts`). `RegisterFacts` takes a place through the two bytes and back. A key is
a composition of functions on a screen, so each function has a lemma: what it `Kept`
(the cursor stays on the screen, nothing is erased), that it is `Safe` (what it erases
from a cursor on the screen is on the screen), or that it `Ended` with the cursor on the
screen behind a whole prompt, wherever it was (`NextLineRecovers`, from which `EndRecovers` follows).
`StringSteps` takes a print apart into its characters, with `Iterates` and `Induct` as for the words;
`StringKeeps` carries the first through them. `LineStands` is the same induction for where the
characters stand: those printed so far are the cells right before the cursor (`Before`), and one more
character keeps that, because the scroll takes all of them, the new one included, up by the row
by which it takes the cursor back, and what leaves the screen at the top is what `Before` cuts off
(`StandingBefore`). `HandlerStep` puts the keys together, and the three action properties are
read off it and these lemmas. `PrintBeforeCursor` needs the two rows.

Paging. `PagingInv` adds to the types which table is whose (`TablesOwned`), that all of a
table's entries are of the kind its window's loop writes (`EntriesOwn`), how far boot has
come (`BootProgress`: the first `boot_entry` pages are mapped, which makes the window whole
when cr3 is set), and that the measured size never exceeds what was searched
(`Measured`, which keeps the copy's counter in range). A `page_fault` may come in any of
the loader's steps and keeps all of it (`FaultInv`).

The tree. `LinkOneTree` and `LinkDistinct`: a node is linked as the youngest child of one
older node that was not refused, under a name that none of that node's children has, whether
it is then recorded or refused. The comparison of a first child with its parent's name is not needed for
this, and not harmful.

The image builder. The program finds a directory's children by following links, and
`HarshfsTree` has them as a list; `TreeInv` ties the two. Nodes are numbered as they are linked and
recorded in a list of their own, which leaves the refused ones out: `Nth(k)` is the k-th that was
recorded, `Numbered` says that these grow with k and where each one's address lies. `TreeInv`
says that the links *spell*
the lists of children (`Spells`): from `next_dir` along `next_in_current_dir` each node leads
to the next entry and the last to NULL, each entry's `previous_dir` is the list's owner, no
node is on two lists (`ListsApart`), and no other node has a link that would lead into one.
That the recursive function by which the model follows the links then exists and returns
the list is an induction over the distance from the end (`ListsExist`, `ChainFollowed`). The library's
induction theorems cannot be used here, because they take an operator; `Induct` takes a set
instead, and follows from the order on Nat being well founded. `AddSpells` is the
heart: the one pointer that `insert_harshfs_node` sets and the node that it appends spell the lists
with the new child at the end of its parent's; that is before the data is looked at, so it
is the same for a node that is recorded (`NodeAdded`) and for one that is refused
(`NodeRefused`), and a later sibling is linked to a freed node as to any other. `TreeIsSound` is then `HarshfsTree`'s theorem,
taken over the refinement.

`ImageInv` adds the layout. The code counts sizes three times: while nodes are added
(`overall_fs_size`, with the frame of data that is empty), while the image is laid out
(`final_file_address`, without it), and while it is read (`latest_size`, with a frame for every
node, directories too). `Sums` names the three running sums `all`, `dat` and `tot` and how
they compare: `dat <= all < tot`, the last because the root has no data and its frame is
counted all the same. The first inequality keeps the image in its memory
(`ImageIsApart`); the second is why the reader, once it meets data, skips to behind the file
and not into the middle of it (`ReadFacts`). Slots lie where the nodes before them end, so an address
names one slot (`EndsDiffer`), `get_node_address` gives that of a recorded node and 0 for another
(`GetAddress`), and with the size of a node taken off, the image's pointers lead where the
nodes' links do (`PointersLead`, `ImageIsTree`). TLC checked the layout part of `ImageInv` on the run's instance first.

Only model-checked: liveness (`CallsReturn`, `KeysAreRead`, `MainReturns`, `HarshfsInitEnds`:
fairness and ENABLED are outside the prover), so also that a sort, which `ListIsWhole` shows to
leave an ordered list, comes to its end; and the five runs that find a violation.

## 5. Not modelled

- Boot sectors and entry assembly: straight-line, before the kernel runs. What they
  leave (identity mapping removed, kernel window mapped) the other modules take as given.
- `drivers/disk`: empty files. Build and run scripts: no state of the system.
- `kernel_set_page_table`, `kernel_set_any_page_table_entry`, `kernel_free_page_table_entry`,
  and what searches the frame list (`find_next_free_physical_page_frame`): nothing calls them.
  `set_page_frame_state` changes a local copy of its word, so the list has no effect that
  a running kernel could see.
- `kernel_malloc` and its variants, `move_cursor_up`, `move_cursor_down`: no caller.
- What commands print, and the conversions of numbers to text.
- The read-only walks of the heap commands (length, get, exists, print).
- The Ctrl and Alt flags, which nothing reads; `int 0x80`, which nothing raises.
- What lies behind `buffer`, behind the words' arrays, and below the heap: the linker's or
  the compiler's choice, so there is nothing to state of this code.

## 6. What is left

The heap commands' walks over a damaged list as actions of `KernelHeap`. In the proofs,
`Induct` and `Iterates` are stated in each module that needs them.
