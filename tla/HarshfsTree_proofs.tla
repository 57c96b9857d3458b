------------------------ MODULE HarshfsTree_proofs ------------------------
(***************************************************************************)
(* Proofs about HarshfsTree, for every set of names and number of nodes.   *)
(* With the refinement that is checked of HarshfsImage they are what makes *)
(* the builder's linked nodes a tree in which a path names one file.       *)
(***************************************************************************)
EXTENDS HarshfsTree, SequenceTheorems, TLAPS

\* Names and lists of children, as many of the one as of the other.
TreeType ==
  /\ name \in Seq(NAMES) /\ kids \in Seq(Seq(Nat))
  /\ Len(kids) = Len(name) /\ refused \subseteq Nodes

TreeInv == TreeType /\ OneTree /\ SiblingsDistinct

LEMMA TypeFacts ==
  ASSUME TreeType
  PROVE  /\ Len(name) \in Nat /\ Nodes = 1 .. Len(name) /\ DOMAIN kids = 1 .. Len(name)
         /\ \A q \in Nodes : kids[q] \in Seq(Nat) /\ DOMAIN kids[q] = 1 .. Len(kids[q])
                             /\ Len(kids[q]) \in Nat
<1>1. Len(name) \in Nat /\ Nodes = 1 .. Len(name) /\ DOMAIN kids = 1 .. Len(name)
  BY DEF TreeType, Nodes
<1>2. \A q \in Nodes : kids[q] \in Seq(Nat) BY <1>1 DEF TreeType
<1>. QED BY <1>1, <1>2

\* What Link changes: a name, a leaf, and the last place of the parent's children.
LEMMA LinkFacts ==
  ASSUME TreeType, NEW n \in NAMES, NEW p \in Nodes, Link(p, n)
  PROVE  LET new == Len(name) + 1 IN
         /\ name' \in Seq(NAMES) /\ kids' \in Seq(Seq(Nat))
         /\ Len(name') = new /\ Len(kids') = new /\ Nodes' = Nodes \cup {new} /\ new \notin Nodes
         /\ name'[new] = n /\ \A i \in Nodes : name'[i] = name[i]
         /\ kids'[new] = <<>>
         /\ \A q \in Nodes \ {p} : kids'[q] = kids[q]
         /\ DOMAIN kids'[p] = 1 .. Len(kids[p]) + 1
         /\ kids'[p][Len(kids[p]) + 1] = new
         /\ \A i \in DOMAIN kids[p] : kids'[p][i] = kids[p][i]
<1>. DEFINE new == Len(name) + 1
            list == Append(kids[p], new)
            ks == [kids EXCEPT ![p] = list]
<1>0. /\ Len(name) \in Nat /\ Nodes = 1 .. Len(name) /\ DOMAIN kids = 1 .. Len(name)
      /\ kids[p] \in Seq(Nat) /\ new \in Nat /\ Len(kids) = Len(name)
      /\ kids \in Seq(Seq(Nat)) /\ name \in Seq(NAMES) /\ DOMAIN name = Nodes
  BY TypeFacts DEF TreeType, Nodes
<1>1. name' = Append(name, n) /\ kids' = Append(ks, <<>>) BY DEF Link
<1>2. list \in Seq(Nat) BY <1>0
<1>3. /\ ks \in Seq(Seq(Nat)) /\ Len(ks) = Len(name) /\ ks[p] = list
      /\ \A q \in Nodes \ {p} : ks[q] = kids[q]
  BY <1>0, <1>2
<1>. HIDE DEF list, ks
<1>4. <<>> \in Seq(Nat) OBVIOUS
<1>5. /\ kids' \in Seq(Seq(Nat)) /\ Len(kids') = new /\ kids'[new] = <<>>
      /\ \A q \in Nodes : kids'[q] = ks[q]
  <2>1. DOMAIN ks = 1 .. Len(ks) /\ 1 .. Len(ks) = Nodes BY <1>0, <1>3
  <2>2. /\ Append(ks, <<>>) \in Seq(Seq(Nat)) /\ Len(Append(ks, <<>>)) = Len(ks) + 1
        /\ \A i \in 1 .. Len(ks) : Append(ks, <<>>)[i] = ks[i]
        /\ Append(ks, <<>>)[Len(ks) + 1] = <<>>
    BY <1>3, <1>4, AppendProperties
  <2>. QED BY <2>1, <2>2, <1>1, <1>3
<1>6. /\ name' \in Seq(NAMES) /\ Len(name') = new /\ DOMAIN name' = 1 .. new /\ name'[new] = n
      /\ \A i \in Nodes : name'[i] = name[i]
  BY <1>0, <1>1
<1>7. /\ DOMAIN list = 1 .. Len(kids[p]) + 1 /\ list[Len(kids[p]) + 1] = new
      /\ \A i \in DOMAIN kids[p] : list[i] = kids[p][i]
  BY <1>0 DEF list
<1>8. Nodes' = Nodes \cup {new} /\ new \notin Nodes BY <1>0, <1>6 DEF Nodes
<1>. QED BY <1>3, <1>5, <1>6, <1>7, <1>8

\* The new node or none is refused.
Answered == refused' = refused \/ refused' = refused \cup {Len(name) + 1}

LEMMA LinkTyped ==
  ASSUME TreeType, NEW n \in NAMES, NEW p \in Nodes, Link(p, n), Answered
  PROVE  TreeType'
BY LinkFacts DEF TreeType, Answered

LEMMA LinkOneTree ==
  ASSUME TreeInv, NEW n \in NAMES, NEW p \in Nodes, Link(p, n), Answered
  PROVE  OneTree'
<1>. DEFINE new == Len(name) + 1
<1>1. /\ Len(name') = new /\ Nodes' = Nodes \cup {new} /\ new \notin Nodes
      /\ kids'[new] = <<>>
      /\ \A q \in Nodes \ {p} : kids'[q] = kids[q]
      /\ DOMAIN kids'[p] = 1 .. Len(kids[p]) + 1
      /\ kids'[p][Len(kids[p]) + 1] = new
      /\ \A i \in DOMAIN kids[p] : kids'[p][i] = kids[p][i]
  BY LinkFacts DEF TreeInv
<1>2. Len(name') = new /\ Len(name) \in Nat /\ Nodes = 1 .. Len(name)
  BY <1>1, TypeFacts DEF TreeInv
<1>3. \A q \in Nodes : DOMAIN kids[q] = 1 .. Len(kids[q]) /\ Len(kids[q]) \in Nat
  BY TypeFacts DEF TreeInv
<1>4. \A q \in Nodes : \A i \in DOMAIN kids[q] :
        q \notin refused /\ kids[q][i] \in (q + 1) .. Len(name)
  BY DEF TreeInv, OneTree
\* A child of the new tree is the new node in its parent's last place, or an old child.
<1>5. ASSUME NEW q \in Nodes', NEW i \in DOMAIN kids'[q]
      PROVE  \/ q = p /\ i = Len(kids[p]) + 1 /\ kids'[q][i] = new
             \/ q \in Nodes /\ i \in DOMAIN kids[q] /\ kids'[q][i] = kids[q][i]
  <2>1. q # new BY <1>1, <1>5
  <2>2. q \in Nodes BY <2>1, <1>1
  <2>3. CASE q = p
    <3>1. i \in DOMAIN kids[p] \/ i = Len(kids[p]) + 1 BY <2>3, <1>1, <1>3, <1>5
    <3>. QED BY <3>1, <2>2, <2>3, <1>1
  <2>. QED BY <2>2, <2>3, <1>1, <1>5
<1>6. ASSUME NEW q \in Nodes', NEW i \in DOMAIN kids'[q]
      PROVE  q \notin refused' /\ kids'[q][i] \in (q + 1) .. Len(name')
  <2>1. q \in Nodes /\ q \notin refused
    <3>1. p \notin refused BY DEF Link
    <3>. QED BY <3>1, <1>4, <1>5, <1>6
  <2>2. q \notin refused' BY <2>1, <1>1 DEF Answered
  <2>3. kids'[q][i] \in (q + 1) .. Len(name') BY <1>2, <1>4, <1>5, <1>6
  <2>. QED BY <2>2, <2>3
<1>7. ASSUME NEW q \in Nodes', NEW r \in Nodes', NEW i \in DOMAIN kids'[q], NEW j \in DOMAIN kids'[r],
             kids'[q][i] = kids'[r][j]
      PROVE  q = r /\ i = j
  <2>1. CASE kids'[q][i] = new
    <3>1. \A s \in Nodes : \A k \in DOMAIN kids[s] : kids[s][k] # new BY <1>2, <1>4
    <3>2. q = p /\ i = Len(kids[p]) + 1 BY <3>1, <2>1, <1>5
    <3>3. kids'[r][j] = new BY <2>1, <1>7
    <3>4. r = p /\ j = Len(kids[p]) + 1 BY <3>1, <3>3, <1>5
    <3>. QED BY <3>2, <3>4
  <2>2. CASE kids'[q][i] # new
    <3>1. /\ q \in Nodes /\ i \in DOMAIN kids[q] /\ kids'[q][i] = kids[q][i]
          /\ r \in Nodes /\ j \in DOMAIN kids[r] /\ kids'[r][j] = kids[r][j]
      BY <2>2, <1>5, <1>7
    <3>2. kids[q][i] = kids[r][j] BY <3>1, <1>7
    <3>3. \A u, v \in Nodes : \A k \in DOMAIN kids[u], l \in DOMAIN kids[v] :
            kids[u][k] = kids[v][l] => u = v /\ k = l
      BY DEF TreeInv, OneTree
    <3>. QED BY <3>1, <3>2, <3>3
  <2>. QED BY <2>1, <2>2
<1>8. ASSUME NEW c \in Nodes' \ {1} PROVE \E q \in Nodes' : \E i \in DOMAIN kids'[q] : kids'[q][i] = c
  <2>1. CASE c = new
    <3>1. p \in Nodes' /\ Len(kids[p]) + 1 \in DOMAIN kids'[p] BY <1>1, <1>3
    <3>. QED BY <3>1, <2>1, <1>1
  <2>2. CASE c # new
    <3>1. c \in Nodes \ {1} BY <2>2, <1>1
    <3>2. PICK q \in Nodes : \E i \in DOMAIN kids[q] : kids[q][i] = c
      BY <3>1 DEF TreeInv, OneTree, Child
    <3>3. PICK i \in DOMAIN kids[q] : kids[q][i] = c BY <3>2
    <3>4. i \in DOMAIN kids'[q] /\ kids'[q][i] = c BY <3>3, <1>1, <1>3
    <3>. QED BY <3>4, <1>1
  <2>. QED BY <2>1, <2>2
<1>. QED BY <1>6, <1>7, <1>8 DEF OneTree, Child

LEMMA LinkDistinct ==
  ASSUME TreeInv, NEW n \in NAMES, NEW p \in Nodes, Link(p, n)
  PROVE  SiblingsDistinct'
<1>. DEFINE new == Len(name) + 1
<1>1. /\ Nodes' = Nodes \cup {new} /\ new \notin Nodes
      /\ name'[new] = n /\ \A i \in Nodes : name'[i] = name[i]
      /\ kids'[new] = <<>>
      /\ \A q \in Nodes \ {p} : kids'[q] = kids[q]
      /\ DOMAIN kids'[p] = 1 .. Len(kids[p]) + 1
      /\ kids'[p][Len(kids[p]) + 1] = new
      /\ \A i \in DOMAIN kids[p] : kids'[p][i] = kids[p][i]
  BY LinkFacts DEF TreeInv
<1>2. \A q \in Nodes : DOMAIN kids[q] = 1 .. Len(kids[q]) /\ Len(kids[q]) \in Nat
  BY TypeFacts DEF TreeInv
<1>3. \A q \in Nodes : \A i \in DOMAIN kids[q] : kids[q][i] \in Nodes
  BY TypeFacts DEF TreeInv, OneTree
<1>4. \A i \in DOMAIN kids[p] : name[kids[p][i]] # n BY <1>2 DEF Link, Taken
<1>5. \A i \in DOMAIN kids'[p] : i \in DOMAIN kids[p] \/ i = Len(kids[p]) + 1
  BY <1>1, <1>2
<1>6. ASSUME NEW q \in Nodes', NEW i \in DOMAIN kids'[q], NEW j \in DOMAIN kids'[q],
             name'[kids'[q][i]] = name'[kids'[q][j]]
      PROVE  i = j
  <2>1. q \in Nodes BY <1>1, <1>6
  <2>2. CASE q # p
    BY <2>1, <2>2, <1>1, <1>3, <1>6 DEF TreeInv, SiblingsDistinct
  <2>3. CASE q = p /\ i \in DOMAIN kids[p] /\ j \in DOMAIN kids[p]
    BY <2>1, <2>3, <1>1, <1>3, <1>6 DEF TreeInv, SiblingsDistinct
  <2>4. CASE q = p /\ (i \notin DOMAIN kids[p] \/ j \notin DOMAIN kids[p])
    BY <2>1, <2>4, <1>1, <1>3, <1>4, <1>5, <1>6
  <2>. QED BY <2>2, <2>3, <2>4
<1>. QED BY <1>6 DEF SiblingsDistinct

(***************************************************************************)
(* However files and directories are added, and whichever are refused, the *)
(* nodes stay one tree, nothing hangs below one that was refused, and      *)
(* siblings have different names.                                          *)
(***************************************************************************)
THEOREM TreeInvHolds == Spec => []TreeInv
<1>1. Init => TreeInv
  BY DEF Init, TreeInv, TreeType, OneTree, SiblingsDistinct, Nodes
<1>2. TreeInv /\ [Next]_vars => TreeInv'
  <2>. SUFFICES ASSUME TreeInv, [Next]_vars PROVE TreeInv' OBVIOUS
  <2>1. ASSUME NEW n \in NAMES, AddRoot(n) PROVE TreeInv'
    <3>1. name = <<>> /\ name' = <<n>> /\ kids' = << <<>> >> /\ refused' = refused
      BY <2>1 DEF AddRoot
    <3>2. TreeType' /\ Nodes' = {1} /\ kids'[1] = <<>> BY <3>1 DEF TreeInv, TreeType, Nodes
    <3>. QED BY <3>2 DEF TreeInv, OneTree, SiblingsDistinct
  <2>2. ASSUME NEW n \in NAMES, NEW p \in DOMAIN name, Add(p, n) \/ Refuse(p, n)
        PROVE  TreeInv'
    <3>1. p \in Nodes /\ Link(p, n) /\ Answered BY <2>2 DEF Add, Refuse, Answered, Nodes
    <3>. QED BY <3>1, LinkTyped, LinkOneTree, LinkDistinct DEF TreeInv
  <2>3. CASE UNCHANGED vars
    BY <2>3 DEF TreeInv, TreeType, OneTree, SiblingsDistinct, Child, Nodes, vars
  <2>. QED BY <2>1, <2>2, <2>3 DEF Next
<1>. QED BY <1>1, <1>2, PTL DEF Spec
===========================================================================
