---------------------------- MODULE HarshfsImage ----------------------------
(***************************************************************************)
(* The host program that builds the initial file system,                   *)
(* initrd/create_kernel_initrd.c: it adds nodes to a tree of linked nodes, *)
(* gives each an address, lays the image out, writes it, and reads it back. *)
(*                                                                         *)
(* Nodes are numbered in the order they are linked, 0 is NULL.  A node that *)
(* is freed keeps its number: its memory is not handed out again.  The image *)
(* is kept as what was written where: node slots, data regions, footer.    *)
(* Data is its length between its two magic numbers.                       *)
(***************************************************************************)
EXTENDS Integers, Sequences, FiniteSets

CONSTANTS
  NAMES, SIZES,     \* the names and lengths of data that are asked for
  BASE,             \* 0xF0000000, the image's virtual address
  NODE,             \* sizeof(harshfs_node) on the host
  MAXNODES          \* bound of the model: nodes that are linked

NULL == 0
MAGIC == 4          \* the bytes of a magic number
NODATA == -1        \* data = NULL
FILE_CODE == 0
DIRECTORY == 1

ASSUME ImageConstants ==
  /\ SIZES \subseteq Nat /\ BASE \in Nat /\ MAXNODES \in Nat
  /\ NODE \in Nat /\ NODE > MAGIC

VARIABLES
  node,             \* the nodes of the tree, each a harshfs_node
  addresses,        \* ROOT_NODE_ADDRESS's list
  filesystem_address, final_file_address, overall_fs_size,
  step,             \* how far main is
  image,            \* creating_image's write position for nodes
  slots,            \* the nodes written to the image
  regions,          \* the data written to the image
  footer,           \* where the file system's footer was written, 0 if not yet
  get_file,         \* read_harshfs_image's position
  latest_size,
  listed            \* the positions it has printed as nodes

tree == <<node, addresses>>
sizes == <<filesystem_address, final_file_address, overall_fs_size>>
written == <<image, slots, regions, footer>>
reading == <<get_file, latest_size, listed>>
vars == <<tree, sizes, step, written, reading>>

\* After main's first lines, which make room for the header.
Init ==
  /\ node = <<>> /\ addresses = <<>>
  /\ filesystem_address = BASE + MAGIC /\ final_file_address = 0
  /\ overall_fs_size = MAGIC
  /\ step = "build"
  /\ image = 0 /\ slots = <<>> /\ regions = <<>> /\ footer = 0
  /\ get_file = MAGIC /\ latest_size = 0 /\ listed = <<>>

---------------------------------------------------------------------------
\* The list from first along next_in_current_dir.
ListFrom(first) ==
  LET list[n \in 0 .. Len(node)] ==
        IF n = NULL THEN <<>> ELSE <<n>> \o list[node[n].next_in_current_dir]
  IN list[first]
Siblings(parent) == ListFrom(node[parent].next_dir)

\* Mutant: a later child's name is compared with the first sibling's only.
FirstNameExists(parent, name) ==
  IF node[parent].next_dir = NULL THEN node[parent].name = name
  ELSE node[node[parent].next_dir].name = name
FILE_NAME_EXISTS(parent, name) ==
  IF node[parent].next_dir = NULL THEN node[parent].name = name
  ELSE \E i \in DOMAIN Siblings(parent) : node[Siblings(parent)[i]].name = name

New == Len(node) + 1
Last(parent) ==
  IF node[parent].next_dir = NULL THEN NULL ELSE Siblings(parent)[Len(Siblings(parent))]

\* The links that insert_harshfs_node sets before it looks at the data.
\* Mutant: a later child is linked to the first one instead of the last.
LinkedToFirst(parent) ==
  IF Last(parent) = NULL THEN [node EXCEPT ![parent].next_dir = New]
  ELSE [node EXCEPT ![node[parent].next_dir].next_in_current_dir = New]
Linked(parent) ==
  IF Last(parent) = NULL THEN [node EXCEPT ![parent].next_dir = New]
  ELSE [node EXCEPT ![Last(parent)].next_in_current_dir = New]

\* Mutant: the size is left as it is when there is no data.
SizeUnset(data) == data
Size(data) == IF data \in Nat THEN data ELSE 0
Framed(size) == size + 2 * MAGIC

set_node(name, type, previous, parent, data) ==
  [name |-> name, harshfs_node_type |-> type, size |-> Size(data), data |-> data \in Nat,
   next_in_current_dir |-> NULL, previous_in_current_dir |-> previous,
   next_dir |-> NULL, previous_dir |-> parent]

\* What add_file and add_directory do with a node that was inserted.
record(n, data) ==
  /\ filesystem_address' = filesystem_address + NODE
  /\ addresses' = Append(addresses, [node |-> n, address |-> filesystem_address'])
  /\ final_file_address' = filesystem_address'
  /\ overall_fs_size' = overall_fs_size + NODE
                        + (IF data \in Nat THEN Framed(data) ELSE 0)

add_root(name) ==
  /\ step = "build" /\ node = <<>> /\ MAXNODES > 0
  /\ node' = <<set_node(name, DIRECTORY, NULL, NULL, NODATA)>>
  /\ record(1, NODATA)
  /\ UNCHANGED <<step, written, reading>>

\* A parent is a node that was returned to the caller, a file or a directory.
Recorded == {addresses[i].node : i \in DOMAIN addresses}
Parents == Recorded
Wanted(parent, name) == step = "build" /\ New <= MAXNODES /\ ~FILE_NAME_EXISTS(parent, name)

\* What insert_harshfs_node has done when set_node looks at the data.
insert_harshfs_node(parent, type, name, data) ==
  /\ Wanted(parent, name)
  /\ node' = Append(Linked(parent), set_node(name, type, Last(parent), parent, data))

add_node(parent, type, name, data) ==
  /\ insert_harshfs_node(parent, type, name, data)
  /\ record(New, data)
  /\ UNCHANGED <<step, written, reading>>
add_directory(parent, name) == add_node(parent, DIRECTORY, name, NODATA)
add_file(parent, name, data) == add_node(parent, FILE_CODE, name, data)

\* DATA_INPUT_IS_INVALID: the node is freed by set_node and once more by
\* insert_harshfs_node, and stays linked, with the bytes it had.  The second free ends the
\* program, or is reported and let pass, as under valgrind (Makefile:120).
add_invalid(parent, name) ==
  /\ insert_harshfs_node(parent, FILE_CODE, name, NODATA)
  /\ step' \in {step, "aborted"}
  /\ UNCHANGED <<addresses, sizes, written, reading>>

---------------------------------------------------------------------------
\* main makes room for the footer; creating_image writes the header.
creating_image ==
  /\ step = "build" /\ addresses # <<>>
  /\ filesystem_address' = filesystem_address + MAGIC
  /\ overall_fs_size' = overall_fs_size + MAGIC
  /\ image' = MAGIC /\ step' = "nodes"
  /\ UNCHANGED <<tree, final_file_address, slots, regions, footer, reading>>

\* Mutant: the search that finds nothing returns the last address.
get_last_address(n) ==
  IF n = NULL THEN 0
  ELSE IF n \in Recorded
  THEN addresses[CHOOSE i \in DOMAIN addresses : addresses[i].node = n].address
  ELSE addresses[Len(addresses)].address
get_node_address(n) ==
  IF n \in Recorded
  THEN addresses[CHOOSE i \in DOMAIN addresses : addresses[i].node = n].address
  ELSE 0

\* A node as it is written to the image, with addresses for pointers.
Links == {"next_in_current_dir", "previous_in_current_dir", "next_dir", "previous_dir"}
Slot(n) ==
  [at |-> image, name |-> node[n].name, size |-> node[n].size,
   link |-> [l \in Links |-> get_node_address(node[n][l])],
   data |-> IF node[n].data /\ node[n].size # 0 THEN final_file_address ELSE 0]

\* Mutant: the next data is written over the last one's footer.
DataEndShort(n) == final_file_address + Framed(node[n].size) - MAGIC
DataEnd(n) == final_file_address + Framed(node[n].size)

\* One round of creating_image's loop over ROOT_NODE_ADDRESS.
image_node ==
  LET n == addresses[Len(slots) + 1].node IN
  /\ step = "nodes" /\ Len(slots) < Len(addresses)
  /\ slots' = Append(slots, Slot(n))
  /\ image' = image + NODE
  /\ IF node[n].data /\ node[n].size # 0
     THEN /\ regions' = Append(regions, [at |-> final_file_address - BASE,
                                         size |-> Framed(node[n].size)])
          /\ final_file_address' = DataEnd(n)
          /\ filesystem_address' = filesystem_address + Framed(node[n].size)
     ELSE UNCHANGED <<regions, final_file_address, filesystem_address>>
  /\ UNCHANGED <<tree, overall_fs_size, step, footer, reading>>

\* The footer; then the file is written, or it cannot be opened (and there is no older
\* one to be read).
image_footer ==
  /\ step = "nodes" /\ Len(slots) = Len(addresses)
  /\ footer' = final_file_address - BASE
  /\ step' \in {"read", "free"}
  /\ UNCHANGED <<tree, sizes, image, slots, regions, reading>>

---------------------------------------------------------------------------
SlotsAt(p) == {k \in DOMAIN slots : slots[k].at = p}
DataAt(p) == \E i \in DOMAIN regions : regions[i].at = p

\* Mutant: the nodes' sizes are not added up.
PassedNothing(p) == 0
\* Mutant: the magic numbers are not passed.
PassedPayload(p) == slots[CHOOSE k \in SlotsAt(p) : TRUE].size
\* The size of the node at p, and of its data's two magic numbers if it had any.
Passed(p) == Framed(slots[CHOOSE k \in SlotsAt(p) : TRUE].size)

\* One round of read_harshfs_image's loop, and the end of it.
read_harshfs_image ==
  /\ step = "read"
  /\ \/ /\ get_file > overall_fs_size - MAGIC \/ get_file = footer
        /\ step' = "free"
        /\ UNCHANGED reading
     \/ /\ get_file <= overall_fs_size - MAGIC /\ get_file # footer /\ DataAt(get_file)
        /\ get_file' = get_file + latest_size
        /\ UNCHANGED <<step, latest_size, listed>>
     \/ /\ get_file <= overall_fs_size - MAGIC /\ get_file # footer /\ ~DataAt(get_file)
        /\ latest_size' = latest_size + Passed(get_file)
        /\ listed' = Append(listed, get_file)
        /\ get_file' = get_file + NODE
        /\ UNCHANGED step
  /\ UNCHANGED <<tree, sizes, written>>

free_all_memory ==
  /\ step = "free" /\ step' = "done"
  /\ UNCHANGED <<tree, sizes, written, reading>>

Main == creating_image \/ image_node \/ image_footer \/ read_harshfs_image \/ free_all_memory

Next ==
  \/ \E name \in NAMES :
       \/ add_root(name)
       \/ \E parent \in Parents :
            \/ add_directory(parent, name)
            \/ \E data \in SIZES \cup {NODATA} : add_file(parent, name, data)
            \/ add_invalid(parent, name)
  \/ Main

Spec == Init /\ [][Next]_vars
\* main runs on.
FairSpec == Spec /\ WF_vars(Main)

---------------------------------------------------------------------------
\* Freed, and still linked.
Refused == DOMAIN node \ Recorded

\* (<<>> \o has TLC evaluate the sequence where it stands.)
Names == <<>> \o [n \in DOMAIN node |-> node[n].name]
KidsOf == <<>> \o [n \in DOMAIN node |-> Siblings(n)]
Tree == INSTANCE HarshfsTree WITH name <- Names, kids <- KidsOf, refused <- Refused

(***************************************************************************)
(* The linked nodes are the tree that was asked for, whatever was added    *)
(* where, also when data is refused and the program goes on.               *)
(***************************************************************************)
ImplementsTree == Tree!Spec

(***************************************************************************)
(* The nodes stay one tree in which a path names one node: each but the    *)
(* root hangs below one recorded node, once, under a name no sibling has;  *)
(* a freed node too.                                                       *)
(***************************************************************************)
TreeStands == Tree!OneTree /\ Tree!SiblingsDistinct

TypeOK ==
  /\ node \in Seq([name: NAMES, harshfs_node_type: {FILE_CODE, DIRECTORY}, size: Nat,
                   data: BOOLEAN, next_in_current_dir: Nat, previous_in_current_dir: Nat,
                   next_dir: Nat, previous_dir: Nat])
  /\ addresses \in Seq([node: 1 .. Len(node), address: Nat])
  /\ {filesystem_address, final_file_address, overall_fs_size, image, footer, get_file,
      latest_size} \subseteq Nat
  /\ slots \in Seq([at: Nat, name: NAMES, size: Nat, link: [Links -> Nat], data: Nat])
  /\ regions \in Seq([at: Nat, size: Nat])
  /\ listed \in Seq(Nat)
  /\ step \in {"build", "nodes", "read", "free", "done", "aborted"}

(***************************************************************************)
(* What is written to the image stays in the memory that was allocated for *)
(* it, overall_fs_size bytes, and no two things share a byte: header,      *)
(* slots, data and footer.  The sizes are added up while nodes are added;  *)
(* the positions are counted anew when the image is laid out.              *)
(***************************************************************************)
Areas ==
  {<<0, MAGIC, "header">>}
  \cup {<<slots[k].at, NODE, "slot">> : k \in DOMAIN slots}
  \cup {<<regions[i].at, regions[i].size, "data">> : i \in DOMAIN regions}
  \cup (IF footer = 0 THEN {} ELSE {<<footer, MAGIC, "footer">>})
AreasApart ==
  step # "build" =>
    /\ Cardinality(Areas) = 1 + Len(slots) + Len(regions) + (IF footer = 0 THEN 0 ELSE 1)
    /\ \A a \in Areas : a[1] + a[2] <= overall_fs_size
    /\ \A a, b \in Areas : a # b => a[1] + a[2] <= b[1] \/ b[1] + b[2] <= a[1]

\* The slot that a pointer of the image leads to if pointers are shift bytes too high,
\* and the one of a node; 0 if there is none.
SlotNamed(a, shift) ==
  IF \E k \in DOMAIN slots : BASE + slots[k].at + shift = a
  THEN CHOOSE k \in DOMAIN slots : BASE + slots[k].at + shift = a ELSE 0
SlotOf(n) ==
  IF n \in Recorded THEN CHOOSE k \in DOMAIN addresses : addresses[k].node = n ELSE 0

(***************************************************************************)
(* A complete image holds the tree that was built: each slot has its       *)
(* node's name, and its four pointers lead to the slots of the nodes that  *)
(* the node's links lead to, nowhere if that is NULL or a node that was    *)
(* refused.  The pointers may be too high, but then all by the same amount, *)
(* so that no two nodes are taken for one another.  (By how much they are  *)
(* is PointersNameSlots.)                                                  *)
(***************************************************************************)
ImageHoldsTree ==
  footer # 0 =>
    \E shift \in 0 .. NODE : \A k \in DOMAIN slots :
      LET n == addresses[k].node IN
      /\ slots[k].name = node[n].name
      /\ \A l \in Links : SlotNamed(slots[k].link[l], shift) = SlotOf(node[n][l])

(***************************************************************************)
(* "Next file/dir in the Current Directory", and so on (harshfs.h, struct  *)
(* _harshfs_node): a pointer of the image is the address of the node it    *)
(* means, the one that the listing of that node shows as CURRENT_NODE.     *)
(***************************************************************************)
PointersNameSlots ==
  \A k \in DOMAIN slots, j \in DOMAIN slots, l \in Links :
    node[addresses[k].node][l] = addresses[j].node => slots[k].link[l] = BASE + slots[j].at

(***************************************************************************)
(* read_harshfs_image lists the image's slots in order, each once, and no  *)
(* byte behind the file: the sum of sizes by which it skips the data comes *)
(* out behind the footer.                                                  *)
(***************************************************************************)
ReadsSlotsInOrder ==
  /\ \A i \in DOMAIN listed : i \in DOMAIN slots /\ listed[i] = slots[i].at
  /\ step = "read" /\ get_file <= overall_fs_size - MAGIC =>
       \/ get_file = footer \/ DataAt(get_file)
       \/ \E k \in SlotsAt(get_file) : k = Len(listed) + 1
  /\ step = "free" /\ listed # <<>> => Len(listed) = Len(slots)

(***************************************************************************)
(* Once there is a root the program comes to its end: no loop over nodes,  *)
(* data or the image goes on for ever.                                     *)
(***************************************************************************)
MainReturns == addresses # <<>> ~> step \in {"done", "aborted"}
=============================================================================
