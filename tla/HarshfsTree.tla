---------------------------- MODULE HarshfsTree ----------------------------
(***************************************************************************)
(* What the image builder of initrd/create_kernel_initrd.c makes of its    *)
(* tree, without links or addresses: files and directories, numbered in    *)
(* the order they are linked, each the youngest child of a parent.  One    *)
(* whose data is refused is a child all the same, and keeps its name, but  *)
(* it is not in the file system and nothing is ever added to it.           *)
(* HarshfsImage, the pointer-level builder, is checked to implement it.    *)
(***************************************************************************)
EXTENDS Naturals, Sequences

CONSTANTS
  NAMES,      \* the names that are asked for
  MAXNODES    \* bound of the model: the nodes of a tree

VARIABLES
  name,       \* the name of each node
  kids,       \* the children of each node, oldest first
  refused     \* the nodes whose data was refused

vars == <<name, kids, refused>>

Init == name = <<>> /\ kids = <<>> /\ refused = {}

\* add_directory(NULL, ...): the root, once.
AddRoot(n) ==
  /\ name = <<>>
  /\ name' = <<n>> /\ kids' = << <<>> >> /\ UNCHANGED refused

\* FILE_NAME_EXISTS: a first child is compared with its parent, a later one
\* with its siblings.
Taken(parent, n) ==
  IF kids[parent] = <<>> THEN name[parent] = n
  ELSE \E i \in DOMAIN kids[parent] : name[kids[parent][i]] = n

\* insert_harshfs_node: a child of what was added before.
Link(parent, n) ==
  /\ Len(name) < MAXNODES /\ parent \notin refused /\ ~Taken(parent, n)
  /\ name' = Append(name, n)
  /\ kids' = Append([kids EXCEPT ![parent] = Append(@, Len(name) + 1)], <<>>)

\* The new node is recorded, or its data is refused.
Add(parent, n) == Link(parent, n) /\ UNCHANGED refused
Refuse(parent, n) == Link(parent, n) /\ refused' = refused \cup {Len(name) + 1}

Next ==
  \E n \in NAMES :
    AddRoot(n) \/ \E parent \in DOMAIN name : Add(parent, n) \/ Refuse(parent, n)

Spec == Init /\ [][Next]_vars

---------------------------------------------------------------------------
Nodes == DOMAIN name

(***************************************************************************)
(* The nodes are one tree: every node but the root is the child of exactly *)
(* one node, once, and that one is older and in the file system.           *)
(***************************************************************************)
Child(c, p) == \E i \in DOMAIN kids[p] : kids[p][i] = c
OneTree ==
  /\ \A p \in Nodes : \A i \in DOMAIN kids[p] :
       p \notin refused /\ kids[p][i] \in (p + 1) .. Len(name)
  /\ \A p, q \in Nodes : \A i \in DOMAIN kids[p], j \in DOMAIN kids[q] :
       kids[p][i] = kids[q][j] => p = q /\ i = j
  /\ \A c \in Nodes \ {1} : \E p \in Nodes : Child(c, p)

(***************************************************************************)
(* Siblings have different names, so that a path names one file; the name  *)
(* of one that was refused stays taken.                                    *)
(***************************************************************************)
SiblingsDistinct ==
  \A p \in Nodes : \A i, j \in DOMAIN kids[p] :
    name[kids[p][i]] = name[kids[p][j]] => i = j
=============================================================================
